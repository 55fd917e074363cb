---------------------------- MODULE RpcSlotPool ----------------------------
(***************************************************************************)
(* The pool of RPC slots of one RpcEndpoint: a fixed array of slots and a  *)
(* fixed array used as a stack of free slot indices.                       *)
(*                                                                         *)
(* Every slot carries a generation that Free increments modulo GenMod (12  *)
(* bits in the code).  Allocate hands the generation out truncated to      *)
(* TagMod values (8 bits): the truncated value, the tag, is what work      *)
(* request ids, immediate data and timeout entries carry, and what         *)
(* GetHotChecked compares with the untruncated generation.                 *)
(*                                                                         *)
(* The reactor thread owns the pool; no two operations overlap.            *)
(***************************************************************************)
EXTENDS Integers

CONSTANTS NumSlots,   \* kMaxSlots
          GenMod,     \* number of generation values a slot stores (4096)
          TagMod,     \* number of values of a uint8_t tag (256)
          MaxUses     \* bound: no slot is freed more often than this

ASSUME PoolAssumption ==
    /\ NumSlots \in Nat \ {0}
    /\ GenMod \in Nat \ {0}
    /\ TagMod \in Nat \ {0}
    /\ MaxUses \in Nat \ {0}
    /\ TagMod <= GenMod

Slot == 0 .. NumSlots - 1

VARIABLES
    free_stack,   \* free_stack_: the indices below stack_top are free
    stack_top,    \* stack_top_
    state,        \* RpcSlotHot::flags [7:6]
    generation,   \* RpcSlotHot::slot_gen_packed [31:20]
    total,        \* RpcSlotHot::total_wr_count
    completed,    \* RpcSlotHot::completed_wr_count
    uses          \* history: how often each slot was freed

stackVars == <<free_stack, stack_top, state, generation, uses>>

poolVars == <<free_stack, stack_top, state, generation, total, completed, uses>>

----------------------------------------------------------------------------

\* The constructor: generation 0 everywhere, the stack filled in reverse so
\* that low indices are handed out first.
PoolInit ==
    /\ free_stack = [i \in Slot |-> NumSlots - 1 - i]
    /\ stack_top  = NumSlots
    /\ state      = [s \in Slot |-> "Free"]
    /\ generation = [s \in Slot |-> 0]
    /\ total      = [s \in Slot |-> 0]
    /\ completed  = [s \in Slot |-> 0]
    /\ uses       = [s \in Slot |-> 0]

\* The slot the next Allocate returns; meaningful when stack_top > 0.
TopSlot == free_stack[stack_top - 1]

\* The generation Allocate returns with a slot, truncated by the cast.
Tag(s) == generation[s] % TagMod

\* Allocate: s is popped.  The caller sets the counters of the slot.  (MaxUses
\* is the bound on reuse, no guard of the code.)
Allocate(s) ==
    /\ stack_top > 0
    /\ s = TopSlot
    /\ uses[s] < MaxUses
    /\ stack_top' = stack_top - 1
    /\ state' = [state EXCEPT ![s] = "InUse"]
    /\ UNCHANGED <<free_stack, generation, uses>>

\* Mutant of NextGeneration: Free leaves the generation alone.
NextGenerationFrozen(s) == generation[s]

\* IncrementGeneration.
NextGeneration(s) == (generation[s] + 1) % GenMod

\* Mutant of Free: the stack pointer is advanced before the index is stored.
FreeStoringAboveTop(s) ==
    /\ state' = [state EXCEPT ![s] = "Free"]
    /\ generation' = [generation EXCEPT ![s] = NextGeneration(s)]
    /\ free_stack' = [i \in Slot |-> IF i = stack_top + 1 THEN s ELSE free_stack[i]]
    /\ stack_top' = stack_top + 1
    /\ uses' = [uses EXCEPT ![s] = @ + 1]

\* Free: s is pushed.  Nothing checks that s is in use; a push onto a full
\* stack (possible only after a double free) writes outside the array.
Free(s) ==
    /\ state' = [state EXCEPT ![s] = "Free"]
    /\ generation' = [generation EXCEPT ![s] = NextGeneration(s)]
    /\ free_stack' = [i \in Slot |-> IF i = stack_top THEN s ELSE free_stack[i]]
    /\ stack_top' = stack_top + 1
    /\ uses' = [uses EXCEPT ![s] = @ + 1]

\* Mutant of AllocateAndFree: the index is pushed back without Free.
AllocateAndPutBack(s) ==
    /\ stack_top > 0
    /\ s = TopSlot
    /\ uses[s] < MaxUses
    /\ uses' = [uses EXCEPT ![s] = @ + 1]
    /\ UNCHANGED <<free_stack, stack_top, state, generation>>

\* Allocate followed by Free of the same slot: the index is popped and stored
\* back where it was, and the generation has moved on.
AllocateAndFree(s) ==
    /\ stack_top > 0
    /\ s = TopSlot
    /\ uses[s] < MaxUses
    /\ generation' = [generation EXCEPT ![s] = NextGeneration(s)]
    /\ uses' = [uses EXCEPT ![s] = @ + 1]
    /\ UNCHANGED <<free_stack, stack_top, state>>

\* GetHotChecked returns the slot, and not null.  The state is not looked at.
GetHotChecked(s, tag) == generation[s] = tag

\* Mutant of IsCompleted: more completions than requests are waited for.
IsCompletedLate(s, n) == n > total[s]

\* IsCompleted, with n completions counted.
IsCompleted(s, n) == n >= total[s]

----------------------------------------------------------------------------

\* A caller takes a slot for one work request ...
AllocateStep ==
    \E s \in Slot :
        /\ Allocate(s)
        /\ total' = [total EXCEPT ![s] = 1]
        /\ completed' = [completed EXCEPT ![s] = 0]

\* ... and gives it back, in any order, or at once when it could not send.
FreeStep(s) ==
    /\ state[s] = "InUse"
    /\ Free(s)
    /\ UNCHANGED <<total, completed>>

AllocateAndFreeStep ==
    \E s \in Slot :
        /\ AllocateAndFree(s)
        /\ total' = [total EXCEPT ![s] = 1]
        /\ completed' = [completed EXCEPT ![s] = 0]

PoolNext ==
    \/ AllocateStep
    \/ AllocateAndFreeStep
    \/ \E s \in Slot : FreeStep(s)

PoolSpec == PoolInit /\ [][PoolNext]_poolVars

----------------------------------------------------------------------------

\* The pool's fields keep their types; in particular stack_top_ never leaves
\* the free_stack_ array, so Free never writes past it.
PoolTypeOK ==
    /\ free_stack \in [Slot -> Slot]
    /\ stack_top \in 0 .. NumSlots
    /\ state \in [Slot -> {"Free", "InUse"}]
    /\ generation \in [Slot -> 0 .. GenMod - 1]
    /\ total \in [Slot -> 0 .. 2]
    /\ completed \in [Slot -> 0 .. 2]
    /\ uses \in [Slot -> 0 .. MaxUses]

\* No index is on the free stack twice: two calls never share a slot.
NoDuplicateFree ==
    \A i, j \in 0 .. stack_top - 1 : free_stack[i] = free_stack[j] => i = j

\* A slot is on the free stack exactly when it is free: no slot is lost and
\* none is handed out while a call still owns it.
StackHoldsFreeSlots ==
    \A s \in Slot :
        state[s] = "Free" <=> \E i \in 0 .. stack_top - 1 : free_stack[i] = s

\* Free and Allocate, in any order the callers choose, neither lose nor
\* duplicate a slot.
PoolConsistent == NoDuplicateFree /\ StackHoldsFreeSlots

\* A slot in use may still be freed within the bound on uses.
UsesBound == \A s \in Slot : state[s] = "InUse" => uses[s] < MaxUses
============================================================================
