------------------------- MODULE RpcEndpointProofs -------------------------
(***************************************************************************)
(* The generation check does its job: as long as no slot is reused so often *)
(* that its generation wraps, whatever is still under way for an earlier   *)
(* call (a send completion, a response, a timeout) is told apart from the  *)
(* call that holds the slot now, and a callback owns its slot.  Then an    *)
(* answered call is not reported as timed out.  Whatever wraps, no more    *)
(* receives are posted than were consumed.                                 *)
(***************************************************************************)
EXTENDS RpcEndpoint, FiniteSetTheorems, TLAPS

----------------------------------------------------------------------------
(* The slot pool: Allocate and Free keep it consistent, for every number   *)
(* of slots and every width of generation and tag.                         *)

\* What is inductive: the types, PoolConsistent, and the bound on uses that
\* keeps `uses' in its type when a slot is freed.
PoolInv == PoolTypeOK /\ PoolConsistent /\ UsesBound

\* A full stack holds every slot: when some slot is in use there is room to
\* push its index (RpcSlotPool::Free stores at free_stack_[stack_top_]).
LEMMA RoomToFree ==
    ASSUME PoolInv, NEW s \in Slot, state[s] = "InUse"
    PROVE  stack_top \in Slot
<1>1. SUFFICES ASSUME stack_top = NumSlots PROVE FALSE
  BY PoolAssumption DEF PoolInv, PoolTypeOK, Slot
<1>2. /\ NumSlots \in Nat \ {0}
      /\ free_stack \in [Slot -> Slot]
  BY PoolAssumption DEF PoolInv, PoolTypeOK
<1>3. 0 .. stack_top - 1 = Slot
  BY <1>1 DEF Slot
<1>4. \A i \in Slot : free_stack[i] # s
  BY <1>3 DEF PoolInv, PoolConsistent, StackHoldsFreeSlots
<1>5. free_stack \in [Slot -> Slot \ {s}]
  BY <1>2, <1>4
<1>6. /\ IsFiniteSet(Slot)
      /\ Cardinality(Slot) = NumSlots
  BY <1>2, FS_Interval DEF Slot
<1>7. /\ IsFiniteSet(Slot \ {s})
      /\ Cardinality(Slot \ {s}) = NumSlots - 1
  BY <1>6, FS_RemoveElement
<1>8. Cardinality(Slot \ {s}) < Cardinality(Slot)
  BY <1>6, <1>7, <1>2
<1>9. \E i, j \in Slot : i # j /\ free_stack[i] = free_stack[j]
  BY <1>5, <1>6, <1>7, <1>8, FS_PigeonHole
<1> QED
  BY <1>3, <1>9 DEF PoolInv, PoolConsistent, NoDuplicateFree

\* The slot on top of the stack is a free one.
LEMMA TopIsFree ==
    ASSUME PoolInv, stack_top > 0
    PROVE  TopSlot \in Slot /\ state[TopSlot] = "Free"
<1>1. stack_top - 1 \in 0 .. stack_top - 1 /\ stack_top - 1 \in Slot
  BY PoolAssumption DEF PoolInv, PoolTypeOK, Slot
<1>2. TopSlot \in Slot
  BY <1>1 DEF PoolInv, PoolTypeOK, TopSlot
<1> QED
  BY <1>1, <1>2 DEF PoolInv, PoolConsistent, StackHoldsFreeSlots, TopSlot

\* Allocate keeps the pool consistent.
LEMMA AllocateKeepsPool ==
    ASSUME PoolInv, NEW s \in Slot, Allocate(s),
           total' \in [Slot -> 0 .. 2], completed' \in [Slot -> 0 .. 2]
    PROVE  PoolInv'
<1>1. /\ NumSlots \in Nat \ {0}
      /\ stack_top \in 1 .. NumSlots
      /\ s = free_stack[stack_top - 1]
      /\ free_stack' = free_stack
      /\ stack_top' = stack_top - 1
      /\ uses' = uses
      /\ uses[s] < MaxUses
  BY PoolAssumption DEF PoolInv, PoolTypeOK, Allocate, TopSlot
<1>2. /\ state' = [state EXCEPT ![s] = "InUse"]
      /\ state \in [Slot -> {"Free", "InUse"}]
  BY DEF Allocate, PoolInv, PoolTypeOK
<1>3. PoolTypeOK'
  BY <1>1, <1>2 DEF PoolInv, PoolTypeOK, Allocate
<1>4. NoDuplicateFree'
  BY <1>1 DEF PoolInv, PoolConsistent, NoDuplicateFree
<1>5. StackHoldsFreeSlots'
  <2> SUFFICES ASSUME NEW r \in Slot
               PROVE  state'[r] = "Free" <=>
                         \E i \in 0 .. stack_top - 2 : free_stack[i] = r
    BY <1>1 DEF StackHoldsFreeSlots
  <2>1. CASE r = s
    <3>1. state'[r] = "InUse"
      BY <2>1, <1>2
    <3>2. \A i \in 0 .. stack_top - 2 : free_stack[i] # s
      BY <1>1 DEF PoolInv, PoolConsistent, NoDuplicateFree
    <3> QED BY <2>1, <3>1, <3>2
  <2>2. CASE r # s
    <3>1. state'[r] = state[r]
      BY <2>2, <1>2
    <3>2. (\E i \in 0 .. stack_top - 1 : free_stack[i] = r)
             <=> \E i \in 0 .. stack_top - 2 : free_stack[i] = r
      BY <2>2, <1>1
    <3> QED BY <3>1, <3>2 DEF PoolInv, PoolConsistent, StackHoldsFreeSlots
  <2> QED BY <2>1, <2>2
<1>6. UsesBound'
  BY <1>1, <1>2 DEF PoolInv, UsesBound
<1> QED
  BY <1>3, <1>4, <1>5, <1>6 DEF PoolInv, PoolConsistent

\* Free keeps the pool consistent when the slot is in use.
LEMMA FreeKeepsPool ==
    ASSUME PoolInv, NEW s \in Slot, state[s] = "InUse", Free(s),
           total' \in [Slot -> 0 .. 2], completed' \in [Slot -> 0 .. 2]
    PROVE  PoolInv'
<1>1. /\ NumSlots \in Nat \ {0}
      /\ GenMod \in Nat \ {0}
      /\ MaxUses \in Nat
      /\ stack_top \in Slot
      /\ stack_top \in Nat
      /\ stack_top' = stack_top + 1
  BY RoomToFree, PoolAssumption DEF Slot, Free
<1>2. /\ state' = [state EXCEPT ![s] = "Free"]
      /\ state \in [Slot -> {"Free", "InUse"}]
      /\ free_stack' = [i \in Slot |-> IF i = stack_top THEN s ELSE free_stack[i]]
      /\ uses' = [uses EXCEPT ![s] = @ + 1]
      /\ uses \in [Slot -> 0 .. MaxUses]
      /\ uses[s] < MaxUses
  BY DEF Free, PoolInv, PoolTypeOK, UsesBound
<1>3. PoolTypeOK'
  <2>1. (generation[s] + 1) % GenMod \in 0 .. GenMod - 1
    BY <1>1 DEF PoolInv, PoolTypeOK
  <2>2. generation' \in [Slot -> 0 .. GenMod - 1]
    BY <2>1 DEF Free, NextGeneration, PoolInv, PoolTypeOK
  <2>3. uses' \in [Slot -> 0 .. MaxUses]
    BY <1>1, <1>2
  <2>4. free_stack' \in [Slot -> Slot]
    BY <1>2 DEF PoolInv, PoolTypeOK
  <2>5. state' \in [Slot -> {"Free", "InUse"}]
    BY <1>2
  <2>6. stack_top' \in 0 .. NumSlots
    BY <1>1 DEF Slot
  <2> QED BY <2>2, <2>3, <2>4, <2>5, <2>6 DEF PoolTypeOK
<1>4. \A i \in 0 .. stack_top - 1 : free_stack[i] # s
  BY DEF PoolInv, PoolConsistent, StackHoldsFreeSlots
<1>5. /\ \A i \in 0 .. stack_top - 1 : free_stack'[i] = free_stack[i]
      /\ free_stack'[stack_top] = s
  BY <1>1, <1>2 DEF Slot
<1>6. NoDuplicateFree'
  <2> SUFFICES ASSUME NEW i \in 0 .. stack_top, NEW j \in 0 .. stack_top,
                      free_stack'[i] = free_stack'[j]
               PROVE  i = j
    BY <1>1 DEF NoDuplicateFree
  <2>1. CASE i = stack_top
    BY <2>1, <1>1, <1>4, <1>5
  <2>2. CASE j = stack_top
    BY <2>2, <1>1, <1>4, <1>5
  <2>3. CASE i # stack_top /\ j # stack_top
    BY <2>3, <1>1, <1>5 DEF PoolInv, PoolConsistent, NoDuplicateFree
  <2> QED BY <2>1, <2>2, <2>3
<1>7. StackHoldsFreeSlots'
  <2> SUFFICES ASSUME NEW r \in Slot
               PROVE  state'[r] = "Free" <=>
                         \E i \in 0 .. stack_top : free_stack'[i] = r
    BY <1>1 DEF StackHoldsFreeSlots
  <2>1. CASE r = s
    BY <2>1, <1>1, <1>2, <1>5
  <2>2. CASE r # s
    <3>1. state'[r] = state[r]
      BY <2>2, <1>2
    <3>2. (\E i \in 0 .. stack_top : free_stack'[i] = r)
             <=> \E i \in 0 .. stack_top - 1 : free_stack[i] = r
      BY <2>2, <1>1, <1>5
    <3> QED BY <3>1, <3>2 DEF PoolInv, PoolConsistent, StackHoldsFreeSlots
  <2> QED BY <2>1, <2>2
<1>8. UsesBound'
  BY <1>2 DEF PoolInv, UsesBound
<1> QED
  BY <1>3, <1>6, <1>7, <1>8 DEF PoolInv, PoolConsistent

\* Allocating a slot and freeing it at once keeps the pool consistent.
LEMMA AllocateAndFreeKeepsPool ==
    ASSUME PoolInv, NEW s \in Slot, AllocateAndFree(s),
           total' \in [Slot -> 0 .. 2], completed' \in [Slot -> 0 .. 2]
    PROVE  PoolInv'
<1>1. /\ GenMod \in Nat \ {0}
      /\ MaxUses \in Nat
      /\ state[s] = "Free"
  BY TopIsFree, PoolAssumption DEF AllocateAndFree
<1>2. (generation[s] + 1) % GenMod \in 0 .. GenMod - 1
  BY <1>1 DEF PoolInv, PoolTypeOK
<1>3. PoolTypeOK'
  <2>1. generation' \in [Slot -> 0 .. GenMod - 1]
    BY <1>2 DEF AllocateAndFree, NextGeneration, PoolInv, PoolTypeOK
  <2>2. uses' \in [Slot -> 0 .. MaxUses]
    BY <1>1 DEF AllocateAndFree, PoolInv, PoolTypeOK
  <2> QED BY <2>1, <2>2 DEF AllocateAndFree, PoolInv, PoolTypeOK
<1>4. PoolConsistent'
  BY DEF AllocateAndFree, PoolInv, PoolConsistent, NoDuplicateFree,
         StackHoldsFreeSlots
<1>5. UsesBound'
  BY <1>1 DEF AllocateAndFree, PoolInv, PoolTypeOK, UsesBound
<1> QED
  BY <1>3, <1>4, <1>5 DEF PoolInv

\* The pool the constructor builds is consistent.
LEMMA PoolInitConsistent == PoolInit => PoolInv
<1> SUFFICES ASSUME PoolInit PROVE PoolInv
  OBVIOUS
<1>1. NumSlots \in Nat \ {0} /\ GenMod \in Nat \ {0} /\ MaxUses \in Nat \ {0}
  BY PoolAssumption
<1>2. PoolTypeOK /\ UsesBound
  BY <1>1 DEF PoolInit, PoolTypeOK, UsesBound, Slot
<1>3. NoDuplicateFree
  BY <1>1 DEF PoolInit, NoDuplicateFree, Slot
<1>4. StackHoldsFreeSlots
  <2> SUFFICES ASSUME NEW s \in Slot
               PROVE  \E i \in 0 .. NumSlots - 1 : NumSlots - 1 - i = s
    BY <1>1 DEF StackHoldsFreeSlots, PoolInit, Slot
  <2>1. /\ NumSlots - 1 - s \in 0 .. NumSlots - 1
        /\ NumSlots - 1 - (NumSlots - 1 - s) = s
    BY <1>1 DEF Slot
  <2> QED BY <2>1
<1> QED BY <1>2, <1>3, <1>4 DEF PoolInv, PoolConsistent

\* An unchanged pool stays consistent.
LEMMA PoolStutter == PoolInv /\ UNCHANGED poolVars => PoolInv'
BY DEF PoolInv, PoolTypeOK, PoolConsistent, NoDuplicateFree,
       StackHoldsFreeSlots, UsesBound, poolVars

\* Whatever the order in which callers allocate and free, stack_top_ stays
\* within the array and the pool neither loses nor duplicates a slot
\* (RpcSlotPool::Allocate and Free).
THEOREM PoolSafe == PoolSpec => [](PoolTypeOK /\ PoolConsistent)
<1>1. PoolInv /\ [PoolNext]_poolVars => PoolInv'
  <2> SUFFICES ASSUME PoolInv, [PoolNext]_poolVars PROVE PoolInv'
    OBVIOUS
  <2>1. CASE AllocateStep
    BY <2>1, AllocateKeepsPool DEF AllocateStep, PoolInv, PoolTypeOK
  <2>2. CASE AllocateAndFreeStep
    BY <2>2, AllocateAndFreeKeepsPool DEF AllocateAndFreeStep, PoolInv, PoolTypeOK
  <2>3. ASSUME NEW s \in Slot, FreeStep(s) PROVE PoolInv'
    BY <2>3, FreeKeepsPool DEF FreeStep, PoolInv, PoolTypeOK
  <2>4. CASE UNCHANGED poolVars
    BY <2>4, PoolStutter
  <2> QED BY <2>1, <2>2, <2>3, <2>4 DEF PoolNext
<1>2. PoolInv => PoolTypeOK /\ PoolConsistent
  BY DEF PoolInv
<1> QED
  BY PoolInitConsistent, <1>1, <1>2, PTL DEF PoolSpec

----------------------------------------------------------------------------
(* The endpoint.                                                           *)

\* A token with this tag, made for that use of slot s, can only be accepted
\* by GetHotChecked while the same use goes on.
Known(s, tag, use) ==
    /\ s \in Slot /\ tag \in Nat /\ use \in Nat
    /\ tag <= use
    /\ use <= uses[s]
    /\ use = uses[s] => state[s] = "InUse"

\* The generation of a slot has not wrapped.
GenerationCountsUses == \A s \in Slot : generation[s] = uses[s]

\* Posted sends and their completions.
SendsKnown == \A w \in sq \cup send_cq : Known(w.slot, w.tag, w.use)

\* Requests that the peer has got.
CallsKnown == \A c \in calls : Known(c.slot, c.tag, c.use)

\* Entries of the wheel and of the expired list.
TimersKnown ==
    \A t \in armed \cup expired : Known(t.payload.slot, t.payload.tag, t.payload.use)

\* Responses: their immediate data names the slot they were made for.
ResponsesKnown ==
    \A r \in recv_cq :
        /\ Swap(r.imm).slot = r.slot
        /\ Known(r.slot, Swap(r.imm).tag, r.use)

\* A call that has not reached its callback still waits for a completion.
WaitingUnfinished ==
    \A s \in Slot : state[s] = "InUse" /\ cb.slot # s => completed[s] < total[s]

\* All that is under way.
MessagesKnown == SendsKnown /\ CallsKnown /\ TimersKnown /\ ResponsesKnown

\* What is inductive.
EndpointInv ==
    /\ TypeOK
    /\ PoolInv
    /\ GenerationCountsUses
    /\ MessagesKnown
    /\ CallbackOwnsSlot
    /\ WaitingUnfinished

----------------------------------------------------------------------------
(* Immediate data survives the two conversions.                            *)

\* The word that PostWriteWithImm swaps is given back by the swap on receipt.
LEMMA SwapTwice ==
    ASSUME NEW s \in Slot, NEW tag \in 0 .. TagMod - 1
    PROVE  Swap(Swap(ImmData(s, tag))) = ImmData(s, tag)
<1> DEFINE hi == s \div TagMod
           lo == s % TagMod
<1>1. TagMod \in Nat \ {0} /\ s \in Nat
    BY PoolAssumption DEF Slot
<1>2. s = hi * TagMod + lo
    BY <1>1
<1>3. Swap(ImmData(s, tag)) = [top |-> lo, tag |-> hi, slot |-> (tag * TagMod) + 0]
    BY DEF Swap, ImmData
<1>4. (tag * TagMod) + 0 = tag * TagMod
    BY <1>1
<1>5. (tag * TagMod) % TagMod = 0 /\ (tag * TagMod) \div TagMod = tag
    BY <1>1
<1> QED
    BY <1>2, <1>3, <1>4, <1>5 DEF Swap, ImmData

----------------------------------------------------------------------------
(* Tokens age with the pool.                                               *)

\* What every pool operation does to uses and states: a slot that is still in
\* the same use is still in use.
PoolAges ==
    \A s \in Slot :
        /\ uses'[s] \in Nat /\ uses[s] \in Nat
        /\ uses[s] <= uses'[s]
        /\ uses'[s] = uses[s] /\ state[s] = "InUse" => state'[s] = "InUse"

\* A token that is known stays known over every step in which the pool only
\* ages: Allocate and Free never make an old tag current again.
LEMMA KnownStays ==
    ASSUME PoolAges, NEW s, NEW tag, NEW use, Known(s, tag, use)
    PROVE  Known(s, tag, use)'
BY DEF PoolAges, Known

\* GetHotChecked accepts a known token only while its use goes on.
LEMMA AcceptedIsCurrent ==
    ASSUME GenerationCountsUses, PoolTypeOK,
           NEW s, NEW tag, NEW use, Known(s, tag, use), GetHotChecked(s, tag)
    PROVE  state[s] = "InUse" /\ uses[s] = use
<1>1. generation[s] = uses[s] /\ generation[s] = tag
    BY DEF Known, GenerationCountsUses, GetHotChecked
<1>2. uses[s] \in Nat
    BY PoolAssumption DEF Known, PoolTypeOK
<1> QED
    BY <1>1, <1>2 DEF Known

\* The tag Allocate returns for the use that begins.
LEMMA TagBelowUse ==
    ASSUME GenerationCountsUses, PoolTypeOK, NEW s \in Slot
    PROVE  /\ Tag(s) \in 0 .. TagMod - 1 /\ Tag(s) <= uses[s]
           /\ uses[s] \in Nat
<1>1. TagMod \in Nat \ {0} /\ uses[s] \in Nat /\ generation[s] = uses[s]
    BY PoolAssumption DEF GenerationCountsUses, PoolTypeOK
<1>2. /\ (uses[s] % TagMod) \in 0 .. TagMod - 1
      /\ (uses[s] % TagMod) <= uses[s]
    BY <1>1
<1> QED
    BY <1>1, <1>2 DEF Tag

\* RpcSlotPool::Allocate starts one use of a free slot and ends none.
LEMMA AllocateAges ==
    ASSUME PoolTypeOK, NEW s \in Slot, Allocate(s)
    PROVE  PoolAges
BY PoolAssumption DEF PoolTypeOK, Allocate, PoolAges

\* RpcSlotPool::Free ends the use of its slot and starts none.
LEMMA FreeAges ==
    ASSUME PoolTypeOK, NEW s \in Slot, uses' = [uses EXCEPT ![s] = @ + 1],
           \A r \in Slot \ {s} : state'[r] = state[r]
    PROVE  PoolAges
BY PoolAssumption DEF PoolTypeOK, PoolAges

\* A handler that leaves the pool alone ages it trivially.
LEMMA UnchangedAges ==
    ASSUME PoolTypeOK, UNCHANGED <<uses, state>>
    PROVE  PoolAges
BY PoolAssumption DEF PoolTypeOK, PoolAges

\* Generations keep counting uses as long as MaxUses uses fit.
LEMMA FreeCounts ==
    ASSUME MaxUses < GenMod, PoolTypeOK, GenerationCountsUses,
           NEW s \in Slot, uses[s] < MaxUses,
           uses' = [uses EXCEPT ![s] = @ + 1],
           generation' = [generation EXCEPT ![s] = NextGeneration(s)]
    PROVE  GenerationCountsUses'
<1>1. /\ GenMod \in Nat \ {0} /\ MaxUses \in Nat /\ uses[s] \in Nat
      /\ generation[s] = uses[s]
    BY PoolAssumption DEF PoolTypeOK, GenerationCountsUses
<1>2. (uses[s] + 1) % GenMod = uses[s] + 1
    BY <1>1
<1>3. NextGeneration(s) = uses[s] + 1
    BY <1>1, <1>2 DEF NextGeneration
<1> QED
    BY <1>3 DEF PoolTypeOK, GenerationCountsUses

\* Whatever was under way stays known.
LEMMA MessagesStayKnown ==
    ASSUME MessagesKnown, PoolAges
    PROVE  /\ \A w \in sq \cup send_cq : Known(w.slot, w.tag, w.use)'
           /\ \A c \in calls : Known(c.slot, c.tag, c.use)'
           /\ \A t \in armed \cup expired :
                  Known(t.payload.slot, t.payload.tag, t.payload.use)'
           /\ \A r \in recv_cq : /\ Swap(r.imm).slot = r.slot
                                 /\ Known(r.slot, Swap(r.imm).tag, r.use)'
BY KnownStays DEF MessagesKnown, SendsKnown, CallsKnown, TimersKnown, ResponsesKnown

----------------------------------------------------------------------------
(* The wheel and the signaling counters keep their types.                  *)

\* Schedule arms at most one new entry, with the payload it is given.
LEMMA ScheduleArms ==
    ASSUME Wheel!WheelTypeOK, NEW p \in Token, Wheel!Schedule(p, Timeout),
           UNCHANGED <<current, expired>>
    PROVE  /\ Wheel!WheelTypeOK'
           /\ \A t \in armed' : t \in armed \/ t.payload = p
<1>1. CASE Wheel!FreeEntries = {}
    BY <1>1 DEF Wheel!Schedule, Wheel!WheelTypeOK
<1>2. CASE Wheel!FreeEntries # {}
    <2> DEFINE e == CHOOSE x \in Wheel!FreeEntries : TRUE
               new == [entry |-> e, payload |-> p,
                       bucket |-> Wheel!Target(Timeout), left |-> Timeout]
    <2>1. e \in Entry
        BY <1>2 DEF Wheel!FreeEntries
    <2>2. Wheel!Target(Timeout) \in 0 .. WheelSize - 1 /\ Timeout \in Int
        BY EndpointAssumption DEF Wheel!Target, Wheel!WheelTypeOK
    <2>3. new \in Wheel!ArmedType
        BY <2>1, <2>2 DEF Wheel!ArmedType
    <2>4. armed' = armed \cup {new}
        BY <1>2 DEF Wheel!Schedule
    <2>5. new.payload = p
        OBVIOUS
    <2> HIDE DEF e, new
    <2> QED
        BY <2>3, <2>4, <2>5 DEF Wheel!WheelTypeOK
<1> QED
    BY <1>1, <1>2

\* Ageing the entries that are not due keeps their payloads.
LEMMA AgedArmed ==
    ASSUME Wheel!WheelTypeOK,
           armed' = {Wheel!Aged(t) : t \in armed \ Wheel!Due},
           current' = (current + 1) % WheelSize
    PROVE  /\ armed' \subseteq Wheel!ArmedType
           /\ current' \in 0 .. WheelSize - 1
           /\ \A t \in armed' : \E u \in armed : t.payload = u.payload
<1>1. current' \in 0 .. WheelSize - 1
    BY EndpointAssumption DEF Wheel!WheelTypeOK
<1>2. ASSUME NEW t \in armed'
      PROVE  /\ t \in Wheel!ArmedType
             /\ \E u \in armed : t.payload = u.payload
    <2>1. PICK u \in armed : t = Wheel!Aged(u)
        BY <1>2
    <2>2. u \in Wheel!ArmedType
        BY DEF Wheel!WheelTypeOK
    <2> QED
        BY <2>1, <2>2 DEF Wheel!Aged, Wheel!ArmedType
<1> QED
    BY <1>1, <1>2

\* ShouldSignal keeps the types of the counters of the queue pair.
LEMMA CountersType ==
    ASSUME NEW q \in [unsignaled : Nat, outstanding : Nat]
    PROVE  AfterShouldSignal(q) \in [unsignaled : Nat, outstanding : Nat]
BY DEF AfterShouldSignal

----------------------------------------------------------------------------
(* SendRequest.                                                            *)

\* The slot that Allocate pops is free, so no callback is running for it.
LEMMA AllocatedIsNew ==
    ASSUME EndpointInv, NEW s \in Slot, stack_top > 0, s = TopSlot
    PROVE  state[s] = "Free" /\ cb.slot # s
<1>1. state[s] = "Free"
    BY TopIsFree DEF EndpointInv
<1>2. CASE cb = NoCallback
    BY <1>1, <1>2 DEF NoCallback, Slot
<1>3. CASE cb # NoCallback
    BY <1>1, <1>3 DEF EndpointInv, CallbackOwnsSlot
<1> QED
    BY <1>1, <1>2, <1>3

\* SendRequest: the slot was free, and everything sent and armed for it carries
\* the tag of the use that begins.
LEMMA SendRequestKeepsInv ==
    ASSUME MaxUses < GenMod, EndpointInv,
           NEW s \in Slot, NEW part \in Requests, NEW posted \in BOOLEAN,
           SendRequest(s, part, posted)
    PROVE  EndpointInv'
<1> DEFINE after == AfterShouldSignal(qp)
           header == WorkRequest(s, Tag(s), "header", ShouldSignal(qp))
           data == WorkRequest(s, DataTag(s, part), part, ShouldSignal(after))
           timer == TokenOf(s, Tag(s))
<1>1. /\ TypeOK /\ PoolInv /\ PoolTypeOK /\ GenerationCountsUses /\ MessagesKnown
      /\ Wheel!WheelTypeOK
      /\ qp \in [unsignaled : Nat, outstanding : Nat]
    BY DEF EndpointInv, TypeOK
<1>2. /\ Allocate(s)
      /\ total' = [total EXCEPT ![s] = IF part = "none" THEN 1 ELSE 2]
      /\ completed' = [completed EXCEPT ![s] = 0]
      /\ called' = [called EXCEPT ![s] = 0]
      /\ answered' = [answered EXCEPT ![s] = FALSE]
      /\ Wheel!Schedule(timer, Timeout)
      /\ qp' = IF part = "none" THEN after ELSE AfterShouldSignal(after)
      /\ UNCHANGED <<current, expired, cb, send_cq, calls, recv_cq, recv_posted,
                     spare, connected>>
    BY DEF SendRequest, NoHistory
<1>3. sq' = sq \cup {header} \cup (IF part # "none" /\ posted THEN {data} ELSE {})
    BY DEF SendRequest
<1>4. /\ Tag(s) \in 0 .. TagMod - 1 /\ Tag(s) <= uses[s]
      /\ uses[s] \in Nat /\ uses[s] \in 0 .. MaxUses
      /\ DataTag(s, part) \in 0 .. TagMod - 1 /\ DataTag(s, part) <= uses[s]
    BY <1>1, TagBelowUse, PoolAssumption DEF DataTag, PoolTypeOK
<1>5. state[s] = "Free" /\ cb.slot # s
    BY <1>2, AllocatedIsNew DEF Allocate
<1>6. PoolInv'
    <2>1. total' \in [Slot -> 0 .. 2] /\ completed' \in [Slot -> 0 .. 2]
        BY <1>1, <1>2 DEF PoolTypeOK
    <2> QED
        BY <1>1, <1>2, <2>1, AllocateKeepsPool
<1>7. PoolAges
    BY <1>1, <1>2, AllocateAges
<1>8. /\ state' = [state EXCEPT ![s] = "InUse"]
      /\ uses' = uses /\ generation' = generation
    BY <1>2 DEF Allocate
<1>9. /\ Known(s, Tag(s), uses[s])'
      /\ Known(s, DataTag(s, part), uses[s])'
    BY <1>1, <1>4, <1>8, PoolAssumption DEF Known, PoolTypeOK, Tag, DataTag
<1>10. Wheel!WheelTypeOK' /\ \A t \in armed' : t \in armed \/ t.payload = timer
    <2>1. timer \in Token
        BY <1>4 DEF TokenOf, Token
    <2> QED
        BY <1>1, <1>2, <2>1, ScheduleArms
<1>11. sq' \subseteq SendWr
    <2>1. ShouldSignal(qp) \in BOOLEAN /\ ShouldSignal(after) \in BOOLEAN
        BY DEF ShouldSignal
    <2>2. header \in SendWr
        BY <1>4, <2>1 DEF WorkRequest, SendWr
    <2>3. part # "none" => data \in SendWr
        BY <1>4, <2>1, EndpointAssumption DEF WorkRequest, SendWr
    <2> HIDE DEF header, data
    <2> QED
        BY <1>1, <1>3, <2>2, <2>3 DEF TypeOK
<1>12. TypeOK'
    <2>1. qp' \in [unsignaled : Nat, outstanding : Nat]
        BY <1>1, <1>2, CountersType
    <2>2. called' \in [Slot -> Nat] /\ answered' \in [Slot -> BOOLEAN]
        BY <1>1, <1>2 DEF TypeOK
    <2>3. PoolTypeOK'
        BY <1>6 DEF PoolInv
    <2> QED
        BY <1>1, <1>2, <1>10, <1>11, <2>1, <2>2, <2>3 DEF TypeOK
<1>13. MessagesKnown'
    <2>1. /\ \A w \in sq \cup send_cq : Known(w.slot, w.tag, w.use)'
          /\ \A c \in calls : Known(c.slot, c.tag, c.use)'
          /\ \A t \in armed \cup expired :
                 Known(t.payload.slot, t.payload.tag, t.payload.use)'
          /\ \A r \in recv_cq : /\ Swap(r.imm).slot = r.slot
                                /\ Known(r.slot, Swap(r.imm).tag, r.use)'
        BY <1>1, <1>7, MessagesStayKnown
    <2>2. /\ header.slot = s /\ header.tag = Tag(s) /\ header.use = uses[s]
          /\ data.slot = s /\ data.tag = DataTag(s, part) /\ data.use = uses[s]
          /\ timer.slot = s /\ timer.tag = Tag(s) /\ timer.use = uses[s]
        BY DEF WorkRequest, TokenOf
    <2>3. /\ Tag(s)' = Tag(s) /\ DataTag(s, part)' = DataTag(s, part)
          /\ uses'[s] = uses[s]
        BY <1>8 DEF Tag, DataTag
    <2> HIDE DEF header, data, timer
    <2>4. SendsKnown'
        <3> SUFFICES ASSUME NEW w \in sq' \cup send_cq'
                     PROVE  Known(w.slot, w.tag, w.use)'
            BY DEF SendsKnown
        <3>1. w \in sq \cup send_cq \/ w = header \/ w = data
            BY <1>2, <1>3
        <3> QED
            BY <1>9, <2>1, <2>2, <2>3, <3>1 DEF Known
    <2>5. TimersKnown'
        <3> SUFFICES ASSUME NEW t \in armed' \cup expired'
                     PROVE  Known(t.payload.slot, t.payload.tag, t.payload.use)'
            BY DEF TimersKnown
        <3>1. t \in armed \cup expired \/ t.payload = timer
            BY <1>2, <1>10
        <3> QED
            BY <1>9, <2>1, <2>2, <2>3, <3>1 DEF Known
    <2> QED
        BY <1>2, <2>1, <2>4, <2>5 DEF MessagesKnown, CallsKnown, ResponsesKnown
<1>14. CallbackOwnsSlot'
    BY <1>1, <1>2, <1>5, <1>8
    DEF EndpointInv, CallbackOwnsSlot, TypeOK, PoolTypeOK, NoCallback
<1>15. WaitingUnfinished'
    BY <1>1, <1>2, <1>5, <1>8 DEF EndpointInv, WaitingUnfinished, PoolTypeOK
<1> QED
    BY <1>1, <1>6, <1>8, <1>12, <1>13, <1>14, <1>15
    DEF EndpointInv, GenerationCountsUses

----------------------------------------------------------------------------
(* The other handlers make no new tokens.                                  *)

\* Messages that are consumed or moved from one queue to the next, and
\* entries that age, stay known.
LEMMA NoNewMessages ==
    ASSUME MessagesKnown, PoolAges,
           sq' \cup send_cq' \subseteq sq \cup send_cq,
           calls' \subseteq calls,
           recv_cq' \subseteq recv_cq,
           \A t \in armed' \cup expired' :
               \E u \in armed \cup expired : t.payload = u.payload
    PROVE  MessagesKnown'
<1>1. /\ \A w \in sq \cup send_cq : Known(w.slot, w.tag, w.use)'
      /\ \A c \in calls : Known(c.slot, c.tag, c.use)'
      /\ \A t \in armed \cup expired :
             Known(t.payload.slot, t.payload.tag, t.payload.use)'
      /\ \A r \in recv_cq : /\ Swap(r.imm).slot = r.slot
                            /\ Known(r.slot, Swap(r.imm).tag, r.use)'
    BY MessagesStayKnown
<1>2. TimersKnown'
    <2> SUFFICES ASSUME NEW t \in armed' \cup expired'
                 PROVE  Known(t.payload.slot, t.payload.tag, t.payload.use)'
        BY DEF TimersKnown
    <2>1. PICK u \in armed \cup expired : t.payload = u.payload
        OBVIOUS
    <2> QED
        BY <1>1, <2>1
<1>3. SendsKnown'
    BY <1>1 DEF SendsKnown
<1>4. CallsKnown'
    BY <1>1 DEF CallsKnown
<1>5. ResponsesKnown'
    BY <1>1 DEF ResponsesKnown
<1> QED
    BY <1>2, <1>3, <1>4, <1>5 DEF MessagesKnown

\* SendRequestFails: the slot is freed at once, and the entry that stays in
\* the wheel belongs to a use that is over.
LEMMA SendRequestFailsKeepsInv ==
    ASSUME MaxUses < GenMod, EndpointInv, NEW s \in Slot, SendRequestFails(s)
    PROVE  EndpointInv'
<1> DEFINE timer == TokenOf(s, Tag(s))
<1>1. /\ TypeOK /\ PoolInv /\ PoolTypeOK /\ GenerationCountsUses /\ MessagesKnown
      /\ Wheel!WheelTypeOK
      /\ qp \in [unsignaled : Nat, outstanding : Nat]
    BY DEF EndpointInv, TypeOK
<1>2. /\ AllocateAndFree(s)
      /\ total' = [total EXCEPT ![s] = 1]
      /\ completed' = [completed EXCEPT ![s] = 0]
      /\ called' = [called EXCEPT ![s] = 0]
      /\ answered' = [answered EXCEPT ![s] = FALSE]
      /\ Wheel!Schedule(timer, Timeout)
      /\ qp' = qp \/ qp' = AfterShouldSignal(qp)
      /\ UNCHANGED <<current, expired, cb, wireVars>>
    BY DEF SendRequestFails, NoHistory
<1>3. UNCHANGED <<sq, send_cq, calls, recv_cq, recv_posted, spare, connected>>
    BY <1>2 DEF wireVars
<1>4. /\ stack_top > 0 /\ s = TopSlot /\ uses[s] < MaxUses
      /\ generation' = [generation EXCEPT ![s] = NextGeneration(s)]
      /\ uses' = [uses EXCEPT ![s] = @ + 1]
      /\ state' = state
    BY <1>2 DEF AllocateAndFree
<1>5. state[s] = "Free" /\ cb.slot # s
    BY <1>4, AllocatedIsNew
<1>6. /\ Tag(s) \in 0 .. TagMod - 1 /\ Tag(s) <= uses[s]
      /\ uses[s] \in Nat /\ uses[s] \in 0 .. MaxUses
    BY <1>1, TagBelowUse, PoolAssumption DEF PoolTypeOK
<1>7. PoolInv'
    <2>1. total' \in [Slot -> 0 .. 2] /\ completed' \in [Slot -> 0 .. 2]
        BY <1>1, <1>2 DEF PoolTypeOK
    <2> QED
        BY <1>1, <1>2, <2>1, AllocateAndFreeKeepsPool
<1>8. PoolAges
    BY <1>1, <1>4, FreeAges
<1>9. GenerationCountsUses'
    BY <1>1, <1>4, FreeCounts
<1>10. Wheel!WheelTypeOK' /\ \A t \in armed' : t \in armed \/ t.payload = timer
    <2>1. timer \in Token
        BY <1>6 DEF TokenOf, Token
    <2> QED
        BY <1>1, <1>2, <2>1, ScheduleArms
<1>11. TypeOK'
    <2>1. qp' \in [unsignaled : Nat, outstanding : Nat]
        BY <1>1, <1>2, CountersType
    <2>2. called' \in [Slot -> Nat] /\ answered' \in [Slot -> BOOLEAN]
        BY <1>1, <1>2 DEF TypeOK
    <2>3. PoolTypeOK'
        BY <1>7 DEF PoolInv
    <2> QED
        BY <1>1, <1>2, <1>3, <1>10, <2>1, <2>2, <2>3 DEF TypeOK
<1>12. MessagesKnown'
    <2>1. /\ \A w \in sq \cup send_cq : Known(w.slot, w.tag, w.use)'
          /\ \A c \in calls : Known(c.slot, c.tag, c.use)'
          /\ \A t \in armed \cup expired :
                 Known(t.payload.slot, t.payload.tag, t.payload.use)'
          /\ \A r \in recv_cq : /\ Swap(r.imm).slot = r.slot
                                /\ Known(r.slot, Swap(r.imm).tag, r.use)'
        BY <1>1, <1>8, MessagesStayKnown
    <2>2. timer.slot = s /\ timer.tag = Tag(s) /\ timer.use = uses[s]
        BY DEF TokenOf
    <2>3. uses'[s] = uses[s] + 1
        BY <1>1, <1>4 DEF PoolTypeOK
    <2> HIDE DEF timer
    <2>4. TimersKnown'
        <3> SUFFICES ASSUME NEW t \in armed' \cup expired'
                     PROVE  Known(t.payload.slot, t.payload.tag, t.payload.use)'
            BY DEF TimersKnown
        <3>1. t \in armed \cup expired \/ t.payload = timer
            BY <1>2, <1>10
        <3>2. ASSUME t.payload = timer
              PROVE  Known(t.payload.slot, t.payload.tag, t.payload.use)'
            BY <1>6, <2>2, <2>3, <3>2, PoolAssumption DEF Known
        <3> QED
            BY <2>1, <3>1, <3>2
    <2> QED
        BY <1>3, <2>1, <2>4
        DEF MessagesKnown, SendsKnown, CallsKnown, ResponsesKnown
<1>13. CallbackOwnsSlot'
    BY <1>1, <1>2, <1>4, <1>5
    DEF EndpointInv, CallbackOwnsSlot, TypeOK, PoolTypeOK, NoCallback
<1>14. WaitingUnfinished'
    BY <1>1, <1>2, <1>4, <1>5 DEF EndpointInv, WaitingUnfinished, PoolTypeOK
<1> QED
    BY <1>7, <1>9, <1>11, <1>12, <1>13, <1>14 DEF EndpointInv

----------------------------------------------------------------------------
(* Completions, responses and timeouts.                                    *)

\* The part of the invariant that counting a completion can disturb.
CountedInv ==
    /\ PoolInv /\ GenerationCountsUses
    /\ CallbackOwnsSlot /\ WaitingUnfinished
    /\ cb = NoCallback \/ cb \in [slot : Slot, status : {0, 1}, repost : BOOLEAN]
    /\ called \in [Slot -> Nat]

\* Changing the counter of completions leaves the pool consistent.
LEMMA CountingKeepsPool ==
    ASSUME PoolInv, GenerationCountsUses, UNCHANGED <<stackVars, total>>,
           NEW s \in Slot, NEW n \in 0 .. 2,
           completed' = [completed EXCEPT ![s] = n]
    PROVE  /\ PoolInv' /\ GenerationCountsUses' /\ PoolAges
           /\ state' = state /\ total' = total
<1>1. UNCHANGED <<free_stack, stack_top, state, generation, uses>>
    BY DEF stackVars
<1>2. PoolTypeOK'
    BY <1>1 DEF PoolInv, PoolTypeOK
<1>3. PoolConsistent' /\ UsesBound' /\ GenerationCountsUses'
    BY <1>1 DEF PoolInv, PoolConsistent, NoDuplicateFree, StackHoldsFreeSlots,
                UsesBound, GenerationCountsUses
<1>4. PoolAges
    BY <1>1, UnchangedAges DEF PoolInv
<1> QED
    BY <1>1, <1>2, <1>3, <1>4 DEF PoolInv

\* The callback of a call that waits starts: its slot is in use, and no
\* callback was made for this use before.
LEMMA CallBackKeepsInv ==
    ASSUME EndpointInv, UNCHANGED <<stackVars, total>>, cb = NoCallback,
           NEW s \in Slot, state[s] = "InUse",
           NEW n \in 0 .. 2, completed' = [completed EXCEPT ![s] = n],
           NEW status \in {0, 1}, NEW repost \in BOOLEAN,
           CallBack(s, status, repost)
    PROVE  CountedInv' /\ PoolAges
<1>1. /\ PoolInv' /\ GenerationCountsUses' /\ PoolAges
      /\ state' = state /\ total' = total
    BY CountingKeepsPool DEF EndpointInv
<1>2. /\ cb' = [slot |-> s, status |-> status, repost |-> repost]
      /\ called' = [called EXCEPT ![s] = @ + 1]
    BY DEF CallBack
<1>3. /\ called \in [Slot -> Nat] /\ completed \in [Slot -> 0 .. 2]
      /\ \A r \in Slot : cb.slot # r
    BY DEF EndpointInv, TypeOK, PoolTypeOK, NoCallback, Slot
<1>4. cb' \in [slot : Slot, status : {0, 1}, repost : BOOLEAN] /\ cb'.slot = s
    BY <1>2
<1>5. CallbackOwnsSlot'
    BY <1>1, <1>2, <1>3, <1>4 DEF EndpointInv, CallbackOwnsSlot
<1>6. WaitingUnfinished'
    BY <1>1, <1>3, <1>4 DEF EndpointInv, WaitingUnfinished
<1>7. called' \in [Slot -> Nat]
    BY <1>2, <1>3
<1> QED
    BY <1>1, <1>4, <1>5, <1>6, <1>7 DEF CountedInv

\* MarkCompleted, with or without the callback.
LEMMA CountKeepsInv ==
    ASSUME EndpointInv, UNCHANGED <<stackVars, total>>, cb = NoCallback,
           NEW s \in Slot, state[s] = "InUse",
           NEW repost \in BOOLEAN, Count(s, repost)
    PROVE  CountedInv' /\ PoolAges
<1>1. /\ completed[s] \in 0 .. 2 /\ total[s] \in 0 .. 2
      /\ completed[s] < total[s]
      /\ completed \in [Slot -> 0 .. 2]
      /\ \A r \in Slot : cb.slot # r
    BY DEF EndpointInv, TypeOK, PoolTypeOK, WaitingUnfinished, NoCallback, Slot
<1> DEFINE n == completed[s] + 1
<1>2. n \in 0 .. 2
    BY <1>1
<1>3. completed' = [completed EXCEPT ![s] = n]
    BY DEF Count
<1>4. CASE n >= total[s]
    <2>1. CallBack(s, 0, repost)
        BY <1>4 DEF Count, IsCompleted
    <2> HIDE DEF n
    <2> QED
        BY <1>2, <1>3, <2>1, CallBackKeepsInv
<1>5. CASE ~(n >= total[s])
    <2>1. cb' = cb /\ called' = called
        BY <1>5 DEF Count, IsCompleted
    <2>2. /\ PoolInv' /\ GenerationCountsUses' /\ PoolAges
          /\ state' = state /\ total' = total
        <3> HIDE DEF n
        <3> QED
            BY <1>2, <1>3, CountingKeepsPool DEF EndpointInv
    <2>3. CallbackOwnsSlot'
        BY <2>1, <2>2 DEF EndpointInv, CallbackOwnsSlot
    <2>4. WaitingUnfinished'
        BY <1>1, <1>2, <1>3, <1>5, <2>1, <2>2 DEF EndpointInv, WaitingUnfinished
    <2> QED
        BY <2>1, <2>2, <2>3, <2>4 DEF CountedInv, EndpointInv, TypeOK
<1> QED
    BY <1>4, <1>5

\* A message that is not accepted changes nothing here.
LEMMA IgnoredKeepsInv ==
    ASSUME EndpointInv, UNCHANGED <<stackVars, total, completed, cb, called>>
    PROVE  CountedInv' /\ PoolAges
<1>1. UNCHANGED <<free_stack, stack_top, state, generation, total, completed, uses>>
    BY DEF stackVars
<1>2. PoolInv' /\ PoolAges /\ GenerationCountsUses'
    BY <1>1, UnchangedAges
    DEF EndpointInv, PoolInv, PoolTypeOK, PoolConsistent, NoDuplicateFree,
        StackHoldsFreeSlots, UsesBound, GenerationCountsUses
<1>3. CallbackOwnsSlot' /\ WaitingUnfinished'
    BY <1>1 DEF EndpointInv, CallbackOwnsSlot, WaitingUnfinished
<1> QED
    BY <1>2, <1>3 DEF CountedInv, EndpointInv, TypeOK

\* OnSendComplete: a completion that passes GetHotChecked belongs to the current
\* use, so counting it, and its callback, are sound.
LEMMA OnSendCompleteKeepsInv ==
    ASSUME EndpointInv, NEW w \in send_cq, OnSendComplete(w)
    PROVE  EndpointInv'
<1>1. /\ cb = NoCallback
      /\ send_cq' = send_cq \ {w}
      /\ UNCHANGED <<stackVars, total>>
      /\ UNCHANGED <<answered, armed, current, expired, qp, sq, calls, recv_cq,
                     recv_posted, spare, connected>>
    BY DEF OnSendComplete, Idle
<1>2. Known(w.slot, w.tag, w.use) /\ w.slot \in Slot
    BY DEF EndpointInv, MessagesKnown, SendsKnown, Known
<1>3. CountedInv' /\ PoolAges
    <2>1. CASE GetHotChecked(w.slot, w.tag)
        <3>1. state[w.slot] = "InUse"
            BY <1>2, <2>1, AcceptedIsCurrent DEF EndpointInv, PoolInv
        <3>2. Count(w.slot, FALSE)
            BY <2>1 DEF OnSendComplete
        <3> QED
            BY <1>1, <1>2, <3>1, <3>2, CountKeepsInv
    <2>2. CASE ~GetHotChecked(w.slot, w.tag)
        <3>1. UNCHANGED <<completed, cb, called>>
            BY <2>2 DEF OnSendComplete
        <3> QED
            BY <1>1, <3>1, IgnoredKeepsInv
    <2> QED
        BY <2>1, <2>2
<1>4. MessagesKnown'
    BY <1>1, <1>3, NoNewMessages DEF EndpointInv
<1>5. TypeOK'
    BY <1>1, <1>3
    DEF EndpointInv, TypeOK, CountedInv, PoolInv, Wheel!WheelTypeOK
<1> QED
    BY <1>3, <1>4, <1>5 DEF EndpointInv, CountedInv

\* RepostRecvBuffer keeps its counters natural numbers.
LEMMA RepostType ==
    ASSUME recv_posted \in Nat, spare \in Nat,
           RepostRecvBuffer \/ UNCHANGED <<spare, recv_posted>>
    PROVE  recv_posted' \in Nat /\ spare' \in Nat
BY DEF RepostRecvBuffer

\* OnWriteWithImmRecv: likewise for a response; the receive buffer that it
\* consumed is reposted beside.
LEMMA OnWriteWithImmRecvKeepsInv ==
    ASSUME EndpointInv, NEW r \in recv_cq, OnWriteWithImmRecv(r)
    PROVE  EndpointInv'
<1> DEFINE w == Swap(r.imm)
<1>1. /\ cb = NoCallback
      /\ recv_cq' = recv_cq \ {r}
      /\ UNCHANGED <<stackVars, total>>
      /\ UNCHANGED <<armed, current, expired, qp, sq, send_cq, calls, connected>>
    BY DEF OnWriteWithImmRecv, Idle
<1>2. /\ Known(w.slot, w.tag, r.use) /\ w.slot \in Slot
    BY DEF EndpointInv, MessagesKnown, ResponsesKnown, Known
<1>3. /\ CountedInv' /\ PoolAges
      /\ answered' \in [Slot -> BOOLEAN]
      /\ RepostRecvBuffer \/ UNCHANGED <<spare, recv_posted>>
    <2>1. CASE GetHotChecked(w.slot, w.tag)
        <3>1. state[w.slot] = "InUse"
            BY <1>2, <2>1, AcceptedIsCurrent DEF EndpointInv, PoolInv
        <3>2. /\ Count(w.slot, TRUE)
              /\ answered' = [answered EXCEPT ![w.slot] = TRUE]
              /\ RepostRecvBuffer \/ UNCHANGED <<spare, recv_posted>>
            BY <2>1 DEF OnWriteWithImmRecv
        <3>3. answered' \in [Slot -> BOOLEAN]
            BY <3>2 DEF EndpointInv, TypeOK
        <3> HIDE DEF w
        <3> QED
            BY <1>1, <1>2, <3>1, <3>2, <3>3, CountKeepsInv
    <2>2. CASE ~GetHotChecked(w.slot, w.tag)
        <3>1. UNCHANGED <<completed, cb, called, answered, spare, recv_posted>>
            BY <2>2 DEF OnWriteWithImmRecv, historyVars
        <3> QED
            BY <1>1, <3>1, IgnoredKeepsInv DEF EndpointInv, TypeOK
    <2> QED
        BY <2>1, <2>2
<1>4. MessagesKnown'
    BY <1>1, <1>3, NoNewMessages DEF EndpointInv
<1>5. recv_posted' \in Nat /\ spare' \in Nat
    BY <1>3, RepostType DEF EndpointInv, TypeOK
<1>6. TypeOK'
    BY <1>1, <1>3, <1>5
    DEF EndpointInv, TypeOK, CountedInv, PoolInv, Wheel!WheelTypeOK
<1> QED
    BY <1>3, <1>4, <1>6 DEF EndpointInv, CountedInv

\* CheckTimeouts: likewise for the head of the expired list.
LEMMA CheckTimeoutsKeepsInv ==
    ASSUME EndpointInv, NEW t \in expired, CheckTimeouts(t)
    PROVE  EndpointInv'
<1> DEFINE s == t.payload.slot
<1>1. /\ cb = NoCallback
      /\ expired' = expired \ {t}
      /\ UNCHANGED <<stackVars, total>>
      /\ UNCHANGED <<answered, armed, current, qp>>
      /\ UNCHANGED <<sq, send_cq, calls, recv_cq, recv_posted, spare, connected>>
    BY DEF CheckTimeouts, wireVars
<1>2. Known(s, t.payload.tag, t.payload.use) /\ s \in Slot
    BY DEF EndpointInv, MessagesKnown, TimersKnown, Known
<1>3. CountedInv' /\ PoolAges
    <2>1. CASE GetHotChecked(s, t.payload.tag) /\ ~IsCompleted(s, completed[s])
        <3>1. state[s] = "InUse"
            BY <1>2, <2>1, AcceptedIsCurrent DEF EndpointInv, PoolInv
        <3>2. /\ completed' = [completed EXCEPT ![s] = total[s]]
              /\ CallBack(s, 1, FALSE)
            BY <2>1 DEF CheckTimeouts
        <3>3. total[s] \in 0 .. 2
            BY <1>2 DEF EndpointInv, TypeOK, PoolTypeOK
        <3> HIDE DEF s
        <3> QED
            BY <1>1, <1>2, <3>1, <3>2, <3>3, CallBackKeepsInv
    <2>2. CASE ~(GetHotChecked(s, t.payload.tag) /\ ~IsCompleted(s, completed[s]))
        <3>1. UNCHANGED <<completed, cb, called>>
            BY <2>2 DEF CheckTimeouts
        <3> QED
            BY <1>1, <3>1, IgnoredKeepsInv
    <2> QED
        BY <2>1, <2>2
<1>4. MessagesKnown'
    BY <1>1, <1>3, NoNewMessages DEF EndpointInv
<1>5. TypeOK'
    BY <1>1, <1>3
    DEF EndpointInv, TypeOK, CountedInv, PoolInv, Wheel!WheelTypeOK
<1> QED
    BY <1>3, <1>4, <1>5 DEF EndpointInv, CountedInv

\* The slot the callback ran for is still in use, so freeing it is sound.
LEMMA CallbackReturnsKeepsInv ==
    ASSUME MaxUses < GenMod, EndpointInv, CallbackReturns
    PROVE  EndpointInv'
<1> DEFINE s == cb.slot
<1>1. /\ s \in Slot /\ state[s] = "InUse"
      /\ TypeOK /\ PoolInv /\ PoolTypeOK /\ GenerationCountsUses /\ MessagesKnown
    BY DEF CallbackReturns, EndpointInv, TypeOK, CallbackOwnsSlot
<1>2. /\ Free(s) /\ cb' = NoCallback
      /\ UNCHANGED <<total, completed, armed, current, expired, qp, called,
                     answered, sq, send_cq, calls, recv_cq, connected>>
      /\ RepostRecvBuffer \/ UNCHANGED <<spare, recv_posted>>
    BY DEF CallbackReturns, historyVars
<1>3. /\ state' = [state EXCEPT ![s] = "Free"]
      /\ generation' = [generation EXCEPT ![s] = NextGeneration(s)]
      /\ uses' = [uses EXCEPT ![s] = @ + 1]
      /\ uses[s] < MaxUses
    BY <1>1, <1>2 DEF Free, PoolInv, UsesBound
<1>4. PoolInv'
    <2>1. total' \in [Slot -> 0 .. 2] /\ completed' \in [Slot -> 0 .. 2]
        BY <1>1, <1>2 DEF PoolTypeOK
    <2> HIDE DEF s
    <2> QED
        BY <1>1, <1>2, <2>1, FreeKeepsPool
<1>5. PoolAges
    <2>1. \A r \in Slot \ {s} : state'[r] = state[r]
        BY <1>1, <1>3 DEF PoolTypeOK
    <2> HIDE DEF s
    <2> QED
        BY <1>1, <1>3, <2>1, FreeAges
<1>6. GenerationCountsUses'
    <2> HIDE DEF s
    <2> QED
        BY <1>1, <1>3, FreeCounts
<1>7. MessagesKnown'
    BY <1>1, <1>2, <1>5, NoNewMessages
<1>8. TypeOK'
    <2>1. recv_posted' \in Nat /\ spare' \in Nat
        BY <1>1, <1>2, RepostType DEF TypeOK
    <2> QED
        BY <1>1, <1>2, <1>4, <2>1 DEF TypeOK, PoolInv, Wheel!WheelTypeOK
<1>9. \A r \in Slot : state'[r] = "InUse" => r # s /\ state[r] = "InUse"
    BY <1>1, <1>3 DEF PoolTypeOK
<1>10. \A r \in Slot : cb'.slot # r
    BY <1>2 DEF NoCallback, Slot
<1>11. CallbackOwnsSlot'
    BY <1>2, <1>9, <1>10 DEF EndpointInv, CallbackOwnsSlot
<1>12. WaitingUnfinished'
    BY <1>2, <1>9, <1>10 DEF EndpointInv, WaitingUnfinished
<1> QED
    BY <1>4, <1>6, <1>7, <1>8, <1>11, <1>12 DEF EndpointInv

----------------------------------------------------------------------------
(* The wheel's owner, the connection, the NIC and the peer leave the pool  *)
(* and the callback alone.                                                 *)

\* A step that leaves the pool, the calls and the callback alone keeps the part
\* of the invariant that is about them.
LEMMA OthersKeepThreadInv ==
    ASSUME EndpointInv, UNCHANGED <<poolVars, cb, historyVars>>
    PROVE  /\ CountedInv' /\ PoolAges
           /\ answered' \in [Slot -> BOOLEAN]
<1>1. /\ UNCHANGED <<stackVars, total, completed, cb, called>>
      /\ answered' = answered
    BY DEF poolVars, stackVars, historyVars
<1> QED
    BY <1>1, IgnoredKeepsInv DEF EndpointInv, TypeOK

\* TimingWheel::Tick moves entries from the wheel to the expired list, which
\* makes no token that was not armed.
LEMMA TickKeepsInv ==
    ASSUME EndpointInv, TickAndCheck \/ ProcessTimeouts
    PROVE  EndpointInv'
<1>1. /\ UNCHANGED <<poolVars, cb, historyVars>>
      /\ UNCHANGED <<sq, send_cq, calls, recv_cq, recv_posted, spare, connected, qp>>
      /\ armed' = {Wheel!Aged(t) : t \in armed \ Wheel!Due}
      /\ current' = (current + 1) % WheelSize
      /\ expired' = expired \/ expired' = Wheel!Due
    BY DEF TickAndCheck, ProcessTimeouts, Wheel!Tick, wireVars
<1>2. CountedInv' /\ PoolAges /\ answered' \in [Slot -> BOOLEAN]
    BY <1>1, OthersKeepThreadInv
<1>3. /\ armed' \subseteq Wheel!ArmedType
      /\ current' \in 0 .. WheelSize - 1
      /\ \A t \in armed' : \E u \in armed : t.payload = u.payload
    BY <1>1, AgedArmed DEF EndpointInv, TypeOK
<1>4. expired' \subseteq armed \cup expired
    BY <1>1 DEF Wheel!Due
<1>5. MessagesKnown'
    BY <1>1, <1>2, <1>3, <1>4, NoNewMessages DEF EndpointInv
<1>6. Wheel!WheelTypeOK'
    BY <1>3, <1>4 DEF EndpointInv, TypeOK, Wheel!WheelTypeOK
<1>7. TypeOK'
    BY <1>1, <1>2, <1>6 DEF EndpointInv, TypeOK, CountedInv, PoolInv
<1> QED
    BY <1>2, <1>5, <1>7 DEF EndpointInv, CountedInv

\* Connection::Disconnect leaves slots and messages as they are.
LEMMA DisconnectKeepsInv ==
    ASSUME EndpointInv, Disconnect
    PROVE  EndpointInv'
<1>1. /\ UNCHANGED <<poolVars, cb, historyVars>>
      /\ UNCHANGED <<armed, current, expired, qp, sq, send_cq, calls, recv_cq, spare>>
      /\ recv_posted' = 0 /\ connected' = FALSE
    BY DEF Disconnect
<1>2. CountedInv' /\ PoolAges /\ answered' \in [Slot -> BOOLEAN]
    BY <1>1, OthersKeepThreadInv
<1>3. MessagesKnown'
    BY <1>1, <1>2, NoNewMessages DEF EndpointInv
<1>4. TypeOK'
    BY <1>1, <1>2
    DEF EndpointInv, TypeOK, CountedInv, PoolInv, Wheel!WheelTypeOK
<1> QED
    BY <1>2, <1>3, <1>4 DEF EndpointInv, CountedInv

\* A request that the NIC executes turns into a call with the same token.
LEMMA NicKeepsInv ==
    ASSUME EndpointInv, NEW w \in sq, NicExecutes(w) \/ NicFails(w)
    PROVE  EndpointInv'
<1> DEFINE call == [slot |-> w.slot, tag |-> w.tag, use |-> w.use]
<1>1. /\ UNCHANGED <<poolVars, cb, historyVars>>
      /\ UNCHANGED <<armed, current, expired, qp, recv_cq, recv_posted, spare,
                     connected>>
      /\ sq' = sq \ {w}
      /\ send_cq' \subseteq send_cq \cup {w}
      /\ calls' \subseteq calls \cup {call}
    BY DEF NicExecutes, NicFails
<1>2. CountedInv' /\ PoolAges /\ answered' \in [Slot -> BOOLEAN]
    BY <1>1, OthersKeepThreadInv
<1>3. w \in SendWr
    BY DEF EndpointInv, TypeOK
<1>4. call \in Token
    BY <1>3 DEF SendWr, Token
<1>5. call.slot = w.slot /\ call.tag = w.tag /\ call.use = w.use
    OBVIOUS
<1> HIDE DEF call
<1>6. MessagesKnown'
    <2>1. /\ \A x \in sq \cup send_cq : Known(x.slot, x.tag, x.use)'
          /\ \A c \in calls : Known(c.slot, c.tag, c.use)'
          /\ \A t \in armed \cup expired :
                 Known(t.payload.slot, t.payload.tag, t.payload.use)'
          /\ \A r \in recv_cq : /\ Swap(r.imm).slot = r.slot
                                /\ Known(r.slot, Swap(r.imm).tag, r.use)'
        BY <1>2, MessagesStayKnown DEF EndpointInv
    <2>2. SendsKnown'
        BY <1>1, <2>1 DEF SendsKnown
    <2>3. Known(call.slot, call.tag, call.use)'
        BY <1>5, <2>1 DEF Known
    <2>4. CallsKnown'
        BY <1>1, <2>1, <2>3 DEF CallsKnown
    <2> QED
        BY <1>1, <2>1, <2>2, <2>4 DEF MessagesKnown, TimersKnown, ResponsesKnown
<1>7. TypeOK'
    BY <1>1, <1>2, <1>3, <1>4
    DEF EndpointInv, TypeOK, CountedInv, PoolInv, Wheel!WheelTypeOK
<1> QED
    BY <1>2, <1>6, <1>7 DEF EndpointInv, CountedInv

\* A response carries the slot and the tag of the call it answers.
LEMMA PeerRespondsKeepsInv ==
    ASSUME ~PeerSwaps, EndpointInv, NEW c \in calls, PeerResponds(c)
    PROVE  EndpointInv'
<1> DEFINE resp == [imm |-> OnWire(c.slot, c.tag), slot |-> c.slot, use |-> c.use]
<1>1. /\ UNCHANGED <<poolVars, cb, historyVars>>
      /\ UNCHANGED <<armed, current, expired, qp, sq, send_cq, spare, connected>>
      /\ calls' = calls \ {c}
      /\ recv_posted > 0 /\ recv_posted' = recv_posted - 1
      /\ recv_cq' = recv_cq \cup {resp}
    BY DEF PeerResponds
<1>2. CountedInv' /\ PoolAges /\ answered' \in [Slot -> BOOLEAN]
    BY <1>1, OthersKeepThreadInv
<1>3. c.slot \in Slot /\ c.tag \in 0 .. TagMod - 1
    BY DEF EndpointInv, TypeOK, Token
<1>4. Swap(resp.imm).slot = c.slot /\ Swap(resp.imm).tag = c.tag
    <2>1. resp.imm = Swap(ImmData(c.slot, c.tag))
        BY DEF OnWire
    <2>2. Swap(resp.imm) = ImmData(c.slot, c.tag)
        BY <1>3, <2>1, SwapTwice
    <2> QED
        BY <2>2 DEF ImmData
<1>5. resp.slot = c.slot /\ resp.use = c.use
    OBVIOUS
<1> HIDE DEF resp
<1>6. MessagesKnown'
    <2>1. /\ \A w \in sq \cup send_cq : Known(w.slot, w.tag, w.use)'
          /\ \A x \in calls : Known(x.slot, x.tag, x.use)'
          /\ \A t \in armed \cup expired :
                 Known(t.payload.slot, t.payload.tag, t.payload.use)'
          /\ \A r \in recv_cq : /\ Swap(r.imm).slot = r.slot
                                /\ Known(r.slot, Swap(r.imm).tag, r.use)'
        BY <1>2, MessagesStayKnown DEF EndpointInv
    <2>2. Known(resp.slot, Swap(resp.imm).tag, resp.use)'
        BY <1>4, <1>5, <2>1 DEF Known
    <2>3. ResponsesKnown'
        <3> SUFFICES ASSUME NEW r \in recv_cq'
                     PROVE  /\ Swap(r.imm).slot = r.slot
                            /\ Known(r.slot, Swap(r.imm).tag, r.use)'
            BY DEF ResponsesKnown
        <3> QED
            BY <1>1, <1>4, <1>5, <2>1, <2>2
    <2> QED
        BY <1>1, <2>1, <2>3 DEF MessagesKnown, SendsKnown, CallsKnown, TimersKnown
<1>7. TypeOK'
    BY <1>1, <1>2
    DEF EndpointInv, TypeOK, CountedInv, PoolInv, Wheel!WheelTypeOK
<1> QED
    BY <1>2, <1>6, <1>7 DEF EndpointInv, CountedInv

\* A step that changes no variable keeps the invariant.
LEMMA StutterKeepsInv ==
    ASSUME EndpointInv, UNCHANGED vars
    PROVE  EndpointInv'
<1>1. /\ UNCHANGED <<poolVars, cb, historyVars>>
      /\ UNCHANGED <<armed, current, expired, qp>>
      /\ UNCHANGED <<sq, send_cq, calls, recv_cq, recv_posted, spare, connected>>
    BY DEF vars, wireVars
<1>2. CountedInv' /\ PoolAges /\ answered' \in [Slot -> BOOLEAN]
    BY <1>1, OthersKeepThreadInv
<1>3. MessagesKnown'
    BY <1>1, <1>2, NoNewMessages DEF EndpointInv
<1>4. TypeOK'
    BY <1>1, <1>2
    DEF EndpointInv, TypeOK, CountedInv, PoolInv, Wheel!WheelTypeOK
<1> QED
    BY <1>2, <1>3, <1>4 DEF EndpointInv, CountedInv

----------------------------------------------------------------------------

\* A new endpoint, with every slot free and nothing under way, satisfies the
\* invariant.
LEMMA InitInv == Init => EndpointInv
<1> SUFFICES ASSUME Init
             PROVE  EndpointInv
    OBVIOUS
<1>1. PoolInv
    BY PoolInitConsistent DEF Init
<1>2. TypeOK
    BY <1>1, EndpointAssumption
    DEF Init, Wheel!WheelInit, FreshCounters, TypeOK, PoolInv, Wheel!WheelTypeOK
<1>3. GenerationCountsUses /\ CallbackOwnsSlot /\ WaitingUnfinished
    BY DEF Init, PoolInit, GenerationCountsUses, CallbackOwnsSlot, WaitingUnfinished
<1>4. MessagesKnown
    BY DEF Init, Wheel!WheelInit, MessagesKnown, SendsKnown, CallsKnown,
           TimersKnown, ResponsesKnown
<1> QED
    BY <1>1, <1>2, <1>3, <1>4 DEF EndpointInv

\* Every step of the endpoint, its NIC, its peer and the reactor keeps the
\* invariant.
LEMMA NextKeepsInv ==
    ASSUME MaxUses < GenMod, ~PeerSwaps, EndpointInv, [Next]_vars
    PROVE  EndpointInv'
<1>1. CASE \E s \in Slot, part \in Requests : SendRequest(s, part, TRUE)
    BY <1>1, SendRequestKeepsInv
<1>2. CASE \E s \in Slot, part \in Requests \ {"none"} : SendRequest(s, part, FALSE)
    BY <1>2, SendRequestKeepsInv
<1>3. CASE \E s \in Slot : SendRequestFails(s)
    BY <1>3, SendRequestFailsKeepsInv
<1>4. CASE \E w \in send_cq : OnSendComplete(w)
    BY <1>4, OnSendCompleteKeepsInv
<1>5. CASE \E r \in recv_cq : OnWriteWithImmRecv(r)
    BY <1>5, OnWriteWithImmRecvKeepsInv
<1>6. CASE \E t \in expired : CheckTimeouts(t)
    BY <1>6, CheckTimeoutsKeepsInv
<1>7. CASE CallbackReturns
    BY <1>7, CallbackReturnsKeepsInv
<1>8. CASE TickAndCheck \/ ProcessTimeouts
    BY <1>8, TickKeepsInv
<1>9. CASE Disconnect
    BY <1>9, DisconnectKeepsInv
<1>10. CASE \E w \in sq : NicExecutes(w) \/ NicFails(w)
    BY <1>10, NicKeepsInv
<1>11. CASE \E c \in calls : PeerResponds(c)
    BY <1>11, PeerRespondsKeepsInv
<1>12. CASE UNCHANGED vars
    BY <1>12, StutterKeepsInv
<1> QED
    BY <1>1, <1>2, <1>3, <1>4, <1>5, <1>6, <1>7, <1>8, <1>9, <1>10, <1>11, <1>12
    DEF Next

\* The invariant gives the properties: an accepted message is a current one.
LEMMA InvImpliesOwnCall ==
    ASSUME EndpointInv
    PROVE  CompletionsMatchOwnCall /\ ResponsesMatchOwnCall /\ TimeoutsMatchOwnCall
<1> USE DEF EndpointInv, MessagesKnown
<1>1. PoolTypeOK /\ GenerationCountsUses
    BY DEF PoolInv
<1>2. CompletionsMatchOwnCall
    BY <1>1, AcceptedIsCurrent DEF CompletionsMatchOwnCall, SendsKnown, Current
<1>3. ResponsesMatchOwnCall
    BY <1>1, AcceptedIsCurrent DEF ResponsesMatchOwnCall, ResponsesKnown, Current
<1>4. TimeoutsMatchOwnCall
    BY <1>1, AcceptedIsCurrent DEF TimeoutsMatchOwnCall, TimersKnown, Current
<1> QED
    BY <1>2, <1>3, <1>4

\* The inductive invariant, for every number of slots, wheel, signal interval
\* and mix of requests: when no slot is freed GenMod times and the peer
\* returns the immediate data in the byte order it came in.
LEMMA EndpointInvariant ==
    ASSUME MaxUses < GenMod, ~PeerSwaps
    PROVE  Spec => []EndpointInv
<1>1. Init => EndpointInv
    BY InitInv
<1>2. EndpointInv /\ [Next]_vars => EndpointInv'
    BY NextKeepsInv
<1> QED
    BY <1>1, <1>2, PTL DEF Spec

\* Each send completion that OnSendComplete accepts was asked for by the call
\* that holds its slot, so no call is ended by the requests of an earlier one;
\* the slot pool stays consistent under the endpoint's use of it.
THEOREM EndpointSafe ==
    ASSUME MaxUses < GenMod, ~PeerSwaps
    PROVE  Spec => [](TypeOK /\ PoolConsistent /\ CompletionsMatchOwnCall)
<1>1. EndpointInv => TypeOK /\ PoolConsistent /\ CompletionsMatchOwnCall
    BY InvImpliesOwnCall DEF EndpointInv, PoolInv
<1> QED
    BY <1>1, EndpointInvariant, PTL

\* Each expired entry that CheckTimeouts acts on was scheduled by the call that
\* holds its slot: no call is ended by the timeout of an earlier one.
THEOREM TimeoutsAreOwn ==
    ASSUME MaxUses < GenMod, ~PeerSwaps
    PROVE  Spec => []TimeoutsMatchOwnCall
<1>1. EndpointInv => TimeoutsMatchOwnCall
    BY InvImpliesOwnCall
<1> QED
    BY <1>1, EndpointInvariant, PTL

\* OnRpcComplete and CheckTimeouts call back once per call, and what the
\* callback sends never reaches the slot it runs for.
THEOREM CallbacksOwnSlots ==
    ASSUME MaxUses < GenMod, ~PeerSwaps
    PROVE  Spec => []CallbackOwnsSlot
<1>1. EndpointInv => CallbackOwnsSlot
    BY DEF EndpointInv
<1> QED
    BY <1>1, EndpointInvariant, PTL

----------------------------------------------------------------------------
(* Receive buffers.                                                        *)

\* RecvNeverOverfull without the conditional: a callback that will repost
\* counts as one buffer more.
WithinDepth(posted, waiting, reposts) ==
    /\ posted + waiting <= RecvDepth
    /\ reposts => posted + waiting + 1 <= RecvDepth

\* What RecvNeverOverfull needs to be preserved: the counters' types, and that
\* only finitely many responses wait.
RecvInv ==
    /\ recv_posted \in Nat /\ spare \in Nat /\ connected \in BOOLEAN
    /\ cb.repost \in BOOLEAN
    /\ IsFiniteSet(recv_cq) /\ Cardinality(recv_cq) \in Nat
    /\ connected => WithinDepth(recv_posted, Cardinality(recv_cq), cb.repost)

\* The invariant gives the property.
LEMMA RecvInvSuffices ==
    ASSUME RecvInv
    PROVE  RecvNeverOverfull
<1>1. CASE cb.repost
    BY <1>1 DEF RecvInv, WithinDepth, RecvNeverOverfull
<1>2. CASE ~cb.repost
    BY <1>2 DEF RecvInv, WithinDepth, RecvNeverOverfull
<1> QED
    BY <1>1, <1>2

\* RepostRecvBuffer posts at most one buffer, and only with a connection.
LEMMA RepostPostsOne ==
    ASSUME recv_posted \in Nat, spare \in Nat, RepostRecvBuffer
    PROVE  /\ recv_posted' \in Nat /\ spare' \in Nat
           /\ connected => recv_posted' <= recv_posted + 1
BY DEF RepostRecvBuffer

\* PeerResponds: the response takes the place of the buffer it consumes.
LEMMA PeerRespondsKeepsRecv ==
    ASSUME RecvInv, NEW c \in calls, PeerResponds(c)
    PROVE  RecvInv'
<1> DEFINE resp == [imm |-> OnWire(c.slot, c.tag), slot |-> c.slot, use |-> c.use]
<1>1. /\ recv_posted > 0 /\ recv_posted' = recv_posted - 1
      /\ recv_cq' = recv_cq \cup {resp}
      /\ UNCHANGED <<cb, spare, connected>>
    BY DEF PeerResponds
<1> HIDE DEF resp
<1>2. /\ IsFiniteSet(recv_cq')
      /\ Cardinality(recv_cq') <= Cardinality(recv_cq) + 1
      /\ Cardinality(recv_cq) \in Nat /\ Cardinality(recv_cq') \in Nat
    <2>1. /\ IsFiniteSet(recv_cq')
          /\ Cardinality(recv_cq') = IF resp \in recv_cq THEN Cardinality(recv_cq)
                                     ELSE Cardinality(recv_cq) + 1
        BY <1>1, FS_AddElement DEF RecvInv
    <2> QED
        BY <2>1 DEF RecvInv
<1>3. connected => WithinDepth(recv_posted', Cardinality(recv_cq'), cb.repost)
    BY <1>1, <1>2, EndpointAssumption DEF RecvInv, WithinDepth
<1> QED
    BY <1>1, <1>2, <1>3 DEF RecvInv

\* OnWriteWithImmRecv: the response is consumed, and the buffer is reposted at
\* once, or by the callback that begins, or never.
LEMMA OnWriteWithImmRecvKeepsRecv ==
    ASSUME RecvInv, NEW r \in recv_cq, OnWriteWithImmRecv(r)
    PROVE  RecvInv'
<1> DEFINE s == Swap(r.imm).slot
<1>1. /\ cb = NoCallback /\ cb.repost = FALSE
      /\ recv_cq' = recv_cq \ {r} /\ connected' = connected
    BY DEF OnWriteWithImmRecv, Idle, NoCallback
<1>2. /\ IsFiniteSet(recv_cq')
      /\ Cardinality(recv_cq') = Cardinality(recv_cq) - 1
      /\ Cardinality(recv_cq) \in Nat /\ Cardinality(recv_cq') \in Nat
    BY <1>1, FS_RemoveElement, FS_CardinalityType DEF RecvInv
<1>3. CASE cb' = NoCallback /\ RepostRecvBuffer
    <2>1. cb'.repost = FALSE
        BY <1>3 DEF NoCallback
    <2>2. /\ recv_posted' \in Nat /\ spare' \in Nat
          /\ connected => recv_posted' <= recv_posted + 1
        BY <1>3, RepostPostsOne DEF RecvInv
    <2>3. connected => WithinDepth(recv_posted', Cardinality(recv_cq'), FALSE)
        BY <1>2, <2>2, EndpointAssumption DEF RecvInv, WithinDepth
    <2> QED
        BY <1>1, <1>2, <2>1, <2>2, <2>3 DEF RecvInv
<1>4. CASE cb'.repost \in BOOLEAN /\ UNCHANGED <<spare, recv_posted>>
    <2>1. connected => WithinDepth(recv_posted, Cardinality(recv_cq'), cb'.repost)
        BY <1>2, EndpointAssumption DEF RecvInv, WithinDepth
    <2> QED
        BY <1>1, <1>2, <1>4, <2>1 DEF RecvInv
<1>5. \/ cb' = NoCallback /\ RepostRecvBuffer
      \/ cb'.repost \in BOOLEAN /\ UNCHANGED <<spare, recv_posted>>
    <2>1. CASE GetHotChecked(s, Swap(r.imm).tag)
        <3>1. /\ Count(s, TRUE)
              /\ IF cb' = NoCallback THEN RepostRecvBuffer
                                     ELSE UNCHANGED <<spare, recv_posted>>
            BY <2>1 DEF OnWriteWithImmRecv
        <3>2. cb' = cb \/ cb' = [slot |-> s, status |-> 0, repost |-> TRUE]
            BY <3>1 DEF Count, CallBack
        <3>3. CASE cb' = cb
            BY <1>1, <3>1, <3>3
        <3>4. CASE cb' = [slot |-> s, status |-> 0, repost |-> TRUE]
            <4>1. cb'.repost = TRUE
                BY <3>4
            <4> QED
                BY <1>1, <3>1, <4>1
        <3> QED
            BY <3>2, <3>3, <3>4
    <2>2. CASE ~GetHotChecked(s, Swap(r.imm).tag)
        BY <1>1, <2>2 DEF OnWriteWithImmRecv
    <2> QED
        BY <2>1, <2>2
<1> QED
    BY <1>3, <1>4, <1>5

\* CallbackReturns: only the callback of a response reposts.
LEMMA CallbackReturnsKeepsRecv ==
    ASSUME RecvInv, CallbackReturns
    PROVE  RecvInv'
<1>1. /\ recv_cq' = recv_cq /\ connected' = connected
      /\ cb'.repost = FALSE
      /\ IF cb.repost THEN RepostRecvBuffer ELSE UNCHANGED <<spare, recv_posted>>
    BY DEF CallbackReturns, NoCallback
<1>2. CASE cb.repost
    <2>1. /\ recv_posted' \in Nat /\ spare' \in Nat
          /\ connected => recv_posted' <= recv_posted + 1
        BY <1>1, <1>2, RepostPostsOne DEF RecvInv
    <2>2. connected => WithinDepth(recv_posted', Cardinality(recv_cq), FALSE)
        BY <1>2, <2>1, EndpointAssumption DEF RecvInv, WithinDepth
    <2> QED
        BY <1>1, <2>1, <2>2 DEF RecvInv
<1>3. CASE ~cb.repost
    <2>1. connected => WithinDepth(recv_posted, Cardinality(recv_cq), FALSE)
        BY DEF RecvInv, WithinDepth
    <2> QED
        BY <1>1, <1>3, <2>1 DEF RecvInv
<1> QED
    BY <1>2, <1>3

\* A completion or a timeout starts at most a callback that does not repost.
LEMMA CountedKeepsRecv ==
    ASSUME RecvInv, UNCHANGED <<recv_cq, recv_posted, spare, connected>>,
           cb' = cb \/ cb'.repost = FALSE
    PROVE  RecvInv'
<1>1. CASE cb' = cb
    BY <1>1 DEF RecvInv
<1>2. CASE cb'.repost = FALSE
    <2>1. connected => WithinDepth(recv_posted, Cardinality(recv_cq), FALSE)
        BY DEF RecvInv, WithinDepth
    <2> QED
        BY <1>2, <2>1 DEF RecvInv
<1> QED
    BY <1>1, <1>2

\* Every step keeps the budget of receive buffers.
LEMMA NextKeepsRecv ==
    ASSUME RecvInv, [Next]_vars
    PROVE  RecvInv'
<1>1. CASE \E s \in Slot, part \in Requests, posted \in BOOLEAN :
               SendRequest(s, part, posted)
    BY <1>1, CountedKeepsRecv DEF SendRequest
<1>2. CASE \E s \in Slot : SendRequestFails(s)
    BY <1>2, CountedKeepsRecv DEF SendRequestFails, wireVars
<1>3. CASE \E w \in send_cq : OnSendComplete(w)
    <2>1. PICK w \in send_cq : OnSendComplete(w)
        BY <1>3
    <2>2. /\ UNCHANGED <<recv_cq, recv_posted, spare, connected>>
          /\ cb' = cb \/ CallBack(w.slot, 0, FALSE)
        BY <2>1 DEF OnSendComplete, Count
    <2>3. CallBack(w.slot, 0, FALSE) => cb'.repost = FALSE
        BY DEF CallBack
    <2> QED
        BY <2>2, <2>3, CountedKeepsRecv
<1>4. CASE \E r \in recv_cq : OnWriteWithImmRecv(r)
    BY <1>4, OnWriteWithImmRecvKeepsRecv
<1>5. CASE \E t \in expired : CheckTimeouts(t)
    <2>1. PICK t \in expired : CheckTimeouts(t)
        BY <1>5
    <2>2. /\ UNCHANGED <<recv_cq, recv_posted, spare, connected>>
          /\ cb' = cb \/ CallBack(t.payload.slot, 1, FALSE)
        BY <2>1 DEF CheckTimeouts, wireVars
    <2>3. CallBack(t.payload.slot, 1, FALSE) => cb'.repost = FALSE
        BY DEF CallBack
    <2> QED
        BY <2>2, <2>3, CountedKeepsRecv
<1>6. CASE CallbackReturns
    BY <1>6, CallbackReturnsKeepsRecv
<1>7. CASE TickAndCheck \/ ProcessTimeouts
    BY <1>7, CountedKeepsRecv DEF TickAndCheck, ProcessTimeouts, wireVars
<1>8. CASE Disconnect
    BY <1>8 DEF Disconnect, RecvInv
<1>9. CASE \E w \in sq : NicExecutes(w) \/ NicFails(w)
    BY <1>9, CountedKeepsRecv DEF NicExecutes, NicFails
<1>10. CASE \E c \in calls : PeerResponds(c)
    BY <1>10, PeerRespondsKeepsRecv
<1>11. CASE UNCHANGED vars
    BY <1>11, CountedKeepsRecv DEF vars, wireVars
<1> QED
    BY <1>1, <1>2, <1>3, <1>4, <1>5, <1>6, <1>7, <1>8, <1>9, <1>10, <1>11 DEF Next

\* For every depth, pool and reuse of slots, a generation that wraps and a peer
\* that swaps the word included: OnWriteWithImmRecv and the callbacks it starts
\* never post more receive buffers than were consumed.
THEOREM ReceivesWithinDepth == Spec => []RecvNeverOverfull
<1>1. Init => RecvInv
    BY EndpointAssumption, FS_EmptySet
    DEF Init, NoCallback, RecvInv, WithinDepth
<1>2. RecvInv /\ [Next]_vars => RecvInv'
    BY NextKeepsRecv
<1>3. RecvInv => RecvNeverOverfull
    BY RecvInvSuffices
<1> QED
    BY <1>1, <1>2, <1>3, PTL DEF Spec

----------------------------------------------------------------------------
(* A call that was answered is not reported as timed out.                  *)

\* The response of a call that still holds its slot has been counted.
AnsweredCounted ==
    \A s \in Slot : state[s] = "InUse" /\ answered[s] => completed[s] >= 1

\* What is inductive of answered calls.
AnsweredInv == EndpointInv /\ AnsweredCounted /\ AnsweredNotTimedOut

\* A step that changes neither the calls nor the callback keeps both parts.
LEMMA UntouchedKeepsAnswered ==
    ASSUME AnsweredCounted, AnsweredNotTimedOut,
           UNCHANGED <<poolVars, cb, historyVars>>
    PROVE  AnsweredCounted' /\ AnsweredNotTimedOut'
BY DEF AnsweredCounted, AnsweredNotTimedOut, poolVars, historyVars

\* SendRequest and SendRequestFails take a slot no callback is running for, and
\* start its history anew.
LEMMA SendKeepsAnswered ==
    ASSUME AnsweredInv, NEW s \in Slot, stack_top > 0, s = TopSlot, NoHistory(s),
           NEW n, total' = [total EXCEPT ![s] = n],
           completed' = [completed EXCEPT ![s] = 0], cb' = cb,
           \A r \in Slot \ {s} : state'[r] = state[r]
    PROVE  AnsweredCounted' /\ AnsweredNotTimedOut'
<1>1. cb.slot # s
    BY AllocatedIsNew DEF AnsweredInv
<1>2. /\ total \in [Slot -> 0 .. 2] /\ completed \in [Slot -> 0 .. 2]
      /\ answered \in [Slot -> BOOLEAN]
      /\ cb = NoCallback \/ cb.slot \in Slot
    BY DEF AnsweredInv, EndpointInv, TypeOK, PoolTypeOK
<1>3. answered' = [answered EXCEPT ![s] = FALSE]
    BY DEF NoHistory
<1>4. AnsweredCounted'
    BY <1>2, <1>3 DEF AnsweredInv, AnsweredCounted
<1>5. CASE cb = NoCallback
    <2>1. cb'.status = 0
        BY <1>5 DEF NoCallback
    <2> QED
        BY <1>4, <2>1 DEF AnsweredNotTimedOut
<1>6. CASE cb.slot \in Slot
    BY <1>1, <1>2, <1>3, <1>4, <1>6 DEF AnsweredInv, AnsweredNotTimedOut
<1> QED
    BY <1>2, <1>5, <1>6

\* A completion or response that is counted ends a call with status 0.
LEMMA CountKeepsAnswered ==
    ASSUME AnsweredInv, cb = NoCallback, UNCHANGED <<stackVars, total>>,
           NEW s \in Slot, NEW repost, Count(s, repost),
           \A r \in Slot : answered'[r] => answered[r] \/ r = s
    PROVE  AnsweredCounted' /\ AnsweredNotTimedOut'
<1>1. /\ completed \in [Slot -> 0 .. 2]
      /\ completed' = [completed EXCEPT ![s] = @ + 1]
      /\ state' = state
    BY DEF Count, AnsweredInv, EndpointInv, TypeOK, PoolTypeOK, stackVars
<1>2. AnsweredCounted'
    BY <1>1 DEF AnsweredInv, AnsweredCounted
<1>3. cb'.status = 0
    BY DEF Count, CallBack, NoCallback
<1> QED
    BY <1>2, <1>3 DEF AnsweredNotTimedOut

\* CheckTimeouts: the call it reports has counted fewer completions than it has
\* work requests, none if it has one.
LEMMA CheckTimeoutsKeepsAnswered ==
    ASSUME AnsweredInv, NEW t \in expired, CheckTimeouts(t)
    PROVE  AnsweredCounted' /\ AnsweredNotTimedOut'
<1> DEFINE s == t.payload.slot
<1>1. /\ cb = NoCallback
      /\ UNCHANGED <<stackVars, total>> /\ answered' = answered
    BY DEF CheckTimeouts
<1>2. Known(s, t.payload.tag, t.payload.use) /\ s \in Slot
    BY DEF AnsweredInv, EndpointInv, MessagesKnown, TimersKnown, Known
<1>3. CASE GetHotChecked(s, t.payload.tag) /\ ~IsCompleted(s, completed[s])
    <2>1. state[s] = "InUse"
        BY <1>2, <1>3, AcceptedIsCurrent DEF AnsweredInv, EndpointInv, PoolInv
    <2>2. /\ completed' = [completed EXCEPT ![s] = total[s]]
          /\ cb' = [slot |-> s, status |-> 1, repost |-> FALSE]
        BY <1>3 DEF CheckTimeouts, CallBack
    <2>3. /\ total \in [Slot -> 0 .. 2] /\ completed \in [Slot -> 0 .. 2]
          /\ total' = total /\ state' = state
        BY <1>1 DEF AnsweredInv, EndpointInv, TypeOK, PoolTypeOK, stackVars
    <2>4. completed[s] < total[s]
        BY <1>2, <1>3, <2>3 DEF IsCompleted
    <2>5. cb'.slot = s
        BY <2>2
    <2> HIDE DEF s
    <2>6. AnsweredCounted'
        BY <1>1, <1>2, <2>2, <2>3, <2>4 DEF AnsweredInv, AnsweredCounted
    <2>7. AnsweredNotTimedOut'
        BY <1>1, <1>2, <2>1, <2>3, <2>4, <2>5
        DEF AnsweredInv, AnsweredCounted, AnsweredNotTimedOut
    <2> QED
        BY <2>6, <2>7
<1>4. CASE ~(GetHotChecked(s, t.payload.tag) /\ ~IsCompleted(s, completed[s]))
    <2>1. UNCHANGED <<completed, cb, called>>
        BY <1>4 DEF CheckTimeouts
    <2> QED
        BY <1>1, <2>1
        DEF AnsweredInv, AnsweredCounted, AnsweredNotTimedOut, stackVars
<1> QED
    BY <1>3, <1>4

\* Every step keeps it.
LEMMA NextKeepsAnswered ==
    ASSUME AnsweredInv, [Next]_vars
    PROVE  AnsweredCounted' /\ AnsweredNotTimedOut'
<1> USE DEF AnsweredInv
<1>1. ASSUME NEW s \in Slot, NEW part \in Requests, NEW posted \in BOOLEAN,
             SendRequest(s, part, posted)
      PROVE  AnsweredCounted' /\ AnsweredNotTimedOut'
    <2>1. /\ stack_top > 0 /\ s = TopSlot /\ NoHistory(s) /\ cb' = cb
          /\ completed' = [completed EXCEPT ![s] = 0]
          /\ state' = [state EXCEPT ![s] = "InUse"]
          /\ total' = [total EXCEPT ![s] = IF part = "none" THEN 1 ELSE 2]
        BY <1>1 DEF SendRequest, Allocate
    <2>2. \A r \in Slot \ {s} : state'[r] = state[r]
        BY <2>1 DEF EndpointInv, TypeOK, PoolTypeOK
    <2> QED
        BY <2>1, <2>2, SendKeepsAnswered
<1>2. ASSUME NEW s \in Slot, SendRequestFails(s)
      PROVE  AnsweredCounted' /\ AnsweredNotTimedOut'
    <2>1. /\ stack_top > 0 /\ s = TopSlot /\ NoHistory(s) /\ cb' = cb
          /\ completed' = [completed EXCEPT ![s] = 0]
          /\ state' = state
          /\ total' = [total EXCEPT ![s] = 1]
        BY <1>2 DEF SendRequestFails, AllocateAndFree
    <2> QED
        BY <2>1, SendKeepsAnswered
<1>3. ASSUME NEW w \in send_cq, OnSendComplete(w)
      PROVE  AnsweredCounted' /\ AnsweredNotTimedOut'
    <2>1. /\ cb = NoCallback /\ UNCHANGED <<stackVars, total>> /\ answered' = answered
          /\ Count(w.slot, FALSE) \/ UNCHANGED <<completed, cb, called>>
          /\ w.slot \in Slot
        BY <1>3 DEF OnSendComplete, Idle, EndpointInv, TypeOK, SendWr
    <2>2. CASE Count(w.slot, FALSE)
        BY <2>1, <2>2, CountKeepsAnswered
    <2>3. CASE UNCHANGED <<completed, cb, called>>
        BY <2>1, <2>3 DEF AnsweredCounted, AnsweredNotTimedOut, stackVars
    <2> QED
        BY <2>1, <2>2, <2>3
<1>4. ASSUME NEW r \in recv_cq, OnWriteWithImmRecv(r)
      PROVE  AnsweredCounted' /\ AnsweredNotTimedOut'
    <2> DEFINE s == Swap(r.imm).slot
    <2>1. /\ cb = NoCallback /\ UNCHANGED <<stackVars, total>>
          /\ s \in Slot
          /\ \/ /\ Count(s, TRUE)
                /\ answered' = [answered EXCEPT ![s] = TRUE]
             \/ UNCHANGED <<completed, cb, called, answered>>
        BY <1>4 DEF OnWriteWithImmRecv, Idle, historyVars, EndpointInv,
                    MessagesKnown, ResponsesKnown, Known
    <2>2. answered \in [Slot -> BOOLEAN]
        BY DEF EndpointInv, TypeOK
    <2> HIDE DEF s
    <2>3. CASE Count(s, TRUE) /\ answered' = [answered EXCEPT ![s] = TRUE]
        <3>1. \A x \in Slot : answered'[x] => answered[x] \/ x = s
            BY <2>2, <2>3
        <3> QED
            BY <2>1, <2>3, <3>1, CountKeepsAnswered
    <2>4. CASE UNCHANGED <<completed, cb, called, answered>>
        BY <2>1, <2>4 DEF AnsweredCounted, AnsweredNotTimedOut, stackVars
    <2> QED
        BY <2>1, <2>3, <2>4
<1>5. CASE \E t \in expired : CheckTimeouts(t)
    BY <1>5, CheckTimeoutsKeepsAnswered
<1>6. CASE CallbackReturns
    <2>1. /\ cb'.status = 0 /\ UNCHANGED <<completed, answered>>
          /\ state' = [state EXCEPT ![cb.slot] = "Free"]
        BY <1>6 DEF CallbackReturns, Free, NoCallback, historyVars
    <2>2. state \in [Slot -> {"Free", "InUse"}]
        BY DEF EndpointInv, TypeOK, PoolTypeOK
    <2> QED
        BY <2>1, <2>2 DEF AnsweredCounted, AnsweredNotTimedOut
<1>7. CASE TickAndCheck \/ ProcessTimeouts \/ Disconnect
    BY <1>7, UntouchedKeepsAnswered DEF TickAndCheck, ProcessTimeouts, Disconnect
<1>8. CASE \E w \in sq : NicExecutes(w) \/ NicFails(w)
    BY <1>8, UntouchedKeepsAnswered DEF NicExecutes, NicFails
<1>9. CASE \E c \in calls : PeerResponds(c)
    BY <1>9, UntouchedKeepsAnswered DEF PeerResponds
<1>10. CASE UNCHANGED vars
    BY <1>10, UntouchedKeepsAnswered DEF vars
<1> QED
    BY <1>1, <1>2, <1>3, <1>4, <1>5, <1>6, <1>7, <1>8, <1>9, <1>10 DEF Next

\* Under the same conditions as EndpointSafe: when CheckTimeouts reports that a
\* call with one work request timed out, its response had not been counted,
\* however response, timeout and reuse of the slot interleave.
THEOREM AnsweredCallsDoNotTimeOut ==
    ASSUME MaxUses < GenMod, ~PeerSwaps
    PROVE  Spec => []AnsweredNotTimedOut
<1>1. Init => AnsweredInv
    BY InitInv DEF Init, NoCallback, PoolInit, AnsweredInv, AnsweredCounted,
                   AnsweredNotTimedOut
<1>2. AnsweredInv /\ [Next]_vars => AnsweredInv'
    BY NextKeepsInv, NextKeepsAnswered DEF AnsweredInv
<1>3. AnsweredInv => AnsweredNotTimedOut
    BY DEF AnsweredInv
<1> QED
    BY <1>1, <1>2, <1>3, PTL DEF Spec
=============================================================================
