---------------------------- MODULE RpcEndpoint ----------------------------
(***************************************************************************)
(* The client side of RpcEndpoint on one connection: requests are sent     *)
(* from slots of the pool, each with a timeout entry in the wheel; a call  *)
(* ends when enough completions were counted for its slot, or when its     *)
(* timeout fires.  Then the callback runs and the slot is freed.           *)
(*                                                                         *)
(* One thread, the reactor's, runs everything: a handler, a callback (which *)
(* may send again) or CheckTimeouts.  The NIC and the peer run beside it.  *)
(* Completions, responses and expired entries name a slot by its index and *)
(* tag only; `use' in a token is a history field that says which use of    *)
(* the slot the token was made for.                                        *)
(***************************************************************************)
EXTENDS RpcSlotPool, SendSignaling, FiniteSets

CONSTANTS
    WheelSize, Entry,  \* of the timing wheel
    Requests,          \* the kinds of second work request calls make
    Timeout,           \* Config::timeout_ms, in ticks
    RecvDepth,         \* receive buffers posted when the endpoint starts
    SpareBuffers,      \* buffers left in the LocalBufferPool then
    PeerSwaps,         \* the peer answers with SendReadResponse (TRUE), or
                       \* passes the plain word to WriteWithImm (FALSE), as
                       \* SendRequest does
    Tickers            \* who ticks the wheel: "reactor" (the wheel is the one
                       \* of Reactor::GetTimingWheel), or "owner", an
                       \* application that passes what expires to CheckTimeouts

ASSUME EndpointAssumption ==
    /\ NumSlots <= TagMod * TagMod    \* 65536 slots, 16 bits of imm_data
    /\ Requests \subseteq {"none", "imm", "sgl"}
    /\ WheelSize \in Nat \ {0}
    /\ Timeout \in Nat
    /\ RecvDepth \in Nat
    /\ SpareBuffers \in Nat
    /\ PeerSwaps \in BOOLEAN
    /\ Tickers \subseteq {"owner", "reactor"}

VARIABLES
    armed, current, expired,  \* the timing wheel
    qp,           \* the signaling counters of the QueuePair
    cb,           \* the callback that is running, if any
    called,       \* history: callbacks made for the current use of a slot
    answered,     \* history: its response was counted
    sq,           \* work requests the NIC has not executed
    send_cq,      \* successful send completions not yet dispatched
    calls,        \* requests the peer has received and not answered
    recv_cq,      \* responses received and not yet dispatched
    recv_posted,  \* receive buffers posted
    spare,        \* buffers in the LocalBufferPool
    connected     \* Connection::state_ is CONNECTED

wireVars == <<sq, send_cq, calls, recv_cq, recv_posted, spare, connected>>

historyVars == <<called, answered>>

vars == <<poolVars, armed, current, expired, qp, cb, historyVars, wireVars>>

\* What a timeout entry carries; work requests carry it too.
Token == [slot : Slot, tag : 0 .. TagMod - 1, use : 0 .. MaxUses]

Wheel == INSTANCE TimingWheel WITH Payload <- Token, Timeouts <- {Timeout}

NoCallback == [slot |-> -1, status |-> 0, repost |-> FALSE]

----------------------------------------------------------------------------
(* Immediate data: a 32-bit word whose fields are its top byte, the byte   *)
(* with the tag and the 16 bits with the slot.                             *)

ImmData(s, tag) == [top |-> 0, tag |-> tag, slot |-> s]

\* htonl and ntohl on a little-endian host: the four bytes in reverse.
Swap(w) == [top  |-> w.slot % TagMod,
            tag  |-> w.slot \div TagMod,
            slot |-> w.tag * TagMod + w.top]

\* The word on the wire: PostWriteWithImm swaps it; SendReadResponse hands it
\* a word that it has swapped already.
OnWire(s, tag) ==
    IF PeerSwaps THEN Swap(Swap(ImmData(s, tag))) ELSE Swap(ImmData(s, tag))

----------------------------------------------------------------------------

Init ==
    /\ PoolInit
    /\ Wheel!WheelInit
    /\ qp = FreshCounters
    /\ cb = NoCallback
    /\ called = [s \in Slot |-> 0]
    /\ answered = [s \in Slot |-> FALSE]
    /\ sq = {} /\ send_cq = {} /\ calls = {} /\ recv_cq = {}
    /\ recv_posted = RecvDepth
    /\ spare = SpareBuffers
    /\ connected = TRUE

\* The thread is in no handler: between two events of Reactor::Poll.
Idle == cb = NoCallback /\ expired = {}

\* Application code runs between events, and inside callbacks.
AppRuns == cb # NoCallback \/ expired = {}

TokenOf(s, tag) == [slot |-> s, tag |-> tag, use |-> uses[s]]

WorkRequest(s, tag, part, signaled) ==
    [slot |-> s, tag |-> tag, use |-> uses[s], part |-> part, signaled |-> signaled]

\* The second work request of a call carries the tag, except on the fast path
\* of PostSendSGL, whose wr_id is the bare slot index: its tag reads as 0.
DataTag(s, part) == IF part = "sgl" THEN 0 ELSE Tag(s)

NoHistory(s) ==
    /\ called' = [called EXCEPT ![s] = 0]
    /\ answered' = [answered EXCEPT ![s] = FALSE]

\* SendRequest ("imm") and SendRequestSGL ("sgl"), with or without data, when
\* the header is posted.  The timeout is registered whatever Schedule returns.
\* A data request that cannot be posted (posted = FALSE) is counted all the
\* same.
SendRequest(s, part, posted) ==
    LET afterHeader == AfterShouldSignal(qp)
        header == WorkRequest(s, Tag(s), "header", ShouldSignal(qp))
        data   == WorkRequest(s, DataTag(s, part), part, ShouldSignal(afterHeader))
    IN  /\ AppRuns /\ connected
        /\ Allocate(s)
        /\ total' = [total EXCEPT ![s] = IF part = "none" THEN 1 ELSE 2]
        /\ completed' = [completed EXCEPT ![s] = 0]
        /\ NoHistory(s)
        /\ Wheel!Schedule(TokenOf(s, Tag(s)), Timeout)
        /\ qp' = IF part = "none" THEN afterHeader ELSE AfterShouldSignal(afterHeader)
        /\ sq' = sq \cup {header} \cup (IF part # "none" /\ posted THEN {data} ELSE {})
        /\ UNCHANGED <<current, expired, cb, send_cq, calls, recv_cq, recv_posted,
                       spare, connected>>

\* SendRequest and SendRequestSGL when the header cannot be posted: SendInline
\* refuses it (not connected, or too long) or ibv_post_send fails.  The slot
\* is freed at once; its timeout entry stays in the wheel.
SendRequestFails(s) ==
    /\ AppRuns
    /\ AllocateAndFree(s)
    /\ total' = [total EXCEPT ![s] = 1]
    /\ completed' = [completed EXCEPT ![s] = 0]
    /\ NoHistory(s)
    /\ Wheel!Schedule(TokenOf(s, Tag(s)), Timeout)
    /\ \/ UNCHANGED qp
       \/ connected /\ qp' = AfterShouldSignal(qp)
    /\ UNCHANGED <<current, expired, cb, wireVars>>

\* The callback of slot s starts.
CallBack(s, status, repost) ==
    /\ cb' = [slot |-> s, status |-> status, repost |-> repost]
    /\ called' = [called EXCEPT ![s] = @ + 1]

\* MarkCompleted, and the callback when that makes IsCompleted true.
Count(s, repost) ==
    /\ completed' = [completed EXCEPT ![s] = @ + 1]
    /\ IF IsCompleted(s, completed[s] + 1)
       THEN CallBack(s, 0, repost)
       ELSE UNCHANGED <<cb, called>>

\* OnSendComplete.  Unsuccessful completions never get here: Dispatch hands
\* them to the error handler.
OnSendComplete(w) ==
    /\ Idle
    /\ send_cq' = send_cq \ {w}
    /\ IF GetHotChecked(w.slot, w.tag)
       THEN Count(w.slot, FALSE)
       ELSE UNCHANGED <<completed, cb, called>>
    /\ UNCHANGED <<stackVars, total, answered, armed, current, expired, qp, sq,
                   calls, recv_cq, recv_posted, spare, connected>>

\* RepostRecvBuffer: a new buffer from the pool, if it has one.  The buffer
\* that was consumed is not given back.
RepostRecvBuffer ==
    IF spare > 0
    THEN spare' = spare - 1 /\ recv_posted' = IF connected THEN recv_posted + 1 ELSE 0
    ELSE UNCHANGED <<spare, recv_posted>>

\* OnWriteWithImmRecv.  A stale response returns before the repost.
OnWriteWithImmRecv(r) ==
    LET w == Swap(r.imm)
    IN  /\ Idle
        /\ recv_cq' = recv_cq \ {r}
        /\ IF GetHotChecked(w.slot, w.tag)
           THEN /\ Count(w.slot, TRUE)
                /\ answered' = [answered EXCEPT ![w.slot] = TRUE]
                /\ IF cb' = NoCallback THEN RepostRecvBuffer
                                       ELSE UNCHANGED <<spare, recv_posted>>
           ELSE UNCHANGED <<completed, cb, historyVars, spare, recv_posted>>
        /\ UNCHANGED <<stackVars, total, armed, current, expired, qp, sq, send_cq,
                       calls, connected>>

\* Mutant of CheckTimeouts: the loop stops after the first callback.
CheckOneTimeout(t) ==
    LET s == t.payload.slot
    IN  /\ cb = NoCallback
        /\ IF GetHotChecked(s, t.payload.tag) /\ ~IsCompleted(s, completed[s])
           THEN /\ completed' = [completed EXCEPT ![s] = total[s]]
                /\ CallBack(s, 1, FALSE)
                /\ expired' = {}
           ELSE /\ expired' = expired \ {t}
                /\ UNCHANGED <<completed, cb, called>>
        /\ UNCHANGED <<stackVars, total, answered, armed, current, qp, wireVars>>

\* CheckTimeouts, one entry of the expired list.
CheckTimeouts(t) ==
    LET s == t.payload.slot
    IN  /\ cb = NoCallback
        /\ expired' = expired \ {t}
        /\ IF GetHotChecked(s, t.payload.tag) /\ ~IsCompleted(s, completed[s])
           THEN /\ completed' = [completed EXCEPT ![s] = total[s]]
                /\ CallBack(s, 1, FALSE)
           ELSE UNCHANGED <<completed, cb, called>>
        /\ UNCHANGED <<stackVars, total, answered, armed, current, qp, wireVars>>

\* Mutant of CallbackReturns: a receive is posted after every callback.
ReturnAndRepost ==
    /\ cb # NoCallback
    /\ Free(cb.slot)
    /\ cb' = NoCallback
    /\ RepostRecvBuffer
    /\ UNCHANGED <<total, completed, armed, current, expired, qp, historyVars, sq,
                   send_cq, calls, recv_cq, connected>>

\* The callback returns: OnRpcComplete and CheckTimeouts free the slot, and
\* OnWriteWithImmRecv reposts.
CallbackReturns ==
    /\ cb # NoCallback
    /\ Free(cb.slot)
    /\ cb' = NoCallback
    /\ IF cb.repost THEN RepostRecvBuffer ELSE UNCHANGED <<spare, recv_posted>>
    /\ UNCHANGED <<total, completed, armed, current, expired, qp, historyVars, sq,
                   send_cq, calls, recv_cq, connected>>

\* An application that owns the wheel ticks it and passes the expired list to
\* CheckTimeouts.  Nothing in the repository does.
TickAndCheck ==
    /\ "owner" \in Tickers
    /\ Idle
    /\ Wheel!Tick
    /\ UNCHANGED <<poolVars, qp, cb, historyVars, wireVars>>

\* Reactor::ProcessTimeouts ticks the wheel and only counts the list.
ProcessTimeouts ==
    /\ "reactor" \in Tickers
    /\ Idle
    /\ armed' = {Wheel!Aged(t) : t \in armed \ Wheel!Due}
    /\ current' = (current + 1) % WheelSize
    /\ UNCHANGED <<poolVars, expired, qp, cb, historyVars, wireVars>>

\* Connection::Disconnect: the QP goes to the error state, which flushes the
\* posted receives.
Disconnect ==
    /\ AppRuns /\ connected
    /\ connected' = FALSE
    /\ recv_posted' = 0
    /\ UNCHANGED <<poolVars, armed, current, expired, qp, cb, historyVars, sq, send_cq,
                   calls, recv_cq, spare>>

----------------------------------------------------------------------------
(* The NIC and the peer, as the code uses them.                            *)

\* The NIC executes a request: a completion only if it was signaled.
NicExecutes(w) ==
    /\ connected
    /\ sq' = sq \ {w}
    /\ send_cq' = IF w.signaled THEN send_cq \cup {w} ELSE send_cq
    /\ calls' = IF w.part = "header"
                THEN calls \cup {[slot |-> w.slot, tag |-> w.tag, use |-> w.use]}
                ELSE calls
    /\ UNCHANGED <<poolVars, armed, current, expired, qp, cb, historyVars, recv_cq,
                   recv_posted, spare, connected>>

\* The NIC fails or flushes a request: the completion goes to the error
\* handler of the dispatcher, which knows no slot.
NicFails(w) ==
    /\ sq' = sq \ {w}
    /\ UNCHANGED <<poolVars, armed, current, expired, qp, cb, historyVars, send_cq,
                   calls, recv_cq, recv_posted, spare, connected>>

\* The peer answers a request, once a receive buffer is posted for it.
PeerResponds(c) ==
    /\ connected /\ recv_posted > 0
    /\ calls' = calls \ {c}
    /\ recv_posted' = recv_posted - 1
    /\ recv_cq' = recv_cq \cup
                     {[imm |-> OnWire(c.slot, c.tag), slot |-> c.slot, use |-> c.use]}
    /\ UNCHANGED <<poolVars, armed, current, expired, qp, cb, historyVars, sq, send_cq,
                   spare, connected>>

----------------------------------------------------------------------------

Next ==
    \/ \E s \in Slot, part \in Requests : SendRequest(s, part, TRUE)
    \/ \E s \in Slot, part \in Requests \ {"none"} : SendRequest(s, part, FALSE)
    \/ \E s \in Slot : SendRequestFails(s)
    \/ \E w \in send_cq : OnSendComplete(w)
    \/ \E r \in recv_cq : OnWriteWithImmRecv(r)
    \/ \E t \in expired : CheckTimeouts(t)
    \/ CallbackReturns
    \/ TickAndCheck
    \/ ProcessTimeouts
    \/ Disconnect
    \/ \E w \in sq : NicExecutes(w) \/ NicFails(w)
    \/ \E c \in calls : PeerResponds(c)

\* The thread keeps running its loop: callbacks return, expired lists are
\* worked off, and Reactor::Poll ticks its wheel.  Nothing is assumed of the
\* NIC, the peer and the application, which need not tick a wheel of its own.
Fairness ==
    /\ WF_vars(CallbackReturns)
    /\ WF_vars(\E t \in expired : CheckTimeouts(t))
    /\ WF_vars(ProcessTimeouts)

Spec == Init /\ [][Next]_vars /\ Fairness

----------------------------------------------------------------------------

SendWr == [slot : Slot, tag : 0 .. TagMod - 1, use : 0 .. MaxUses,
           part : {"header", "imm", "sgl"}, signaled : BOOLEAN]

\* Every variable of the endpoint keeps its type.
TypeOK ==
    /\ PoolTypeOK
    /\ Wheel!WheelTypeOK
    /\ qp \in [unsignaled : Nat, outstanding : Nat]
    /\ cb = NoCallback \/ cb \in [slot : Slot, status : {0, 1}, repost : BOOLEAN]
    /\ called \in [Slot -> Nat] /\ answered \in [Slot -> BOOLEAN]
    /\ sq \subseteq SendWr /\ send_cq \subseteq SendWr
    /\ calls \subseteq Token
    /\ recv_posted \in Nat /\ spare \in Nat
    /\ connected \in BOOLEAN

\* The token x was made for the use of its slot that is going on now.
Current(x) == state[x.slot] = "InUse" /\ uses[x.slot] = x.use

\* A completion that OnSendComplete would count for a slot belongs to the call
\* that holds the slot now: never to an earlier one, and never to a free slot.
CompletionsMatchOwnCall ==
    \A w \in sq \cup send_cq : GetHotChecked(w.slot, w.tag) => Current(w)

\* A response that OnWriteWithImmRecv would count answers the call that holds
\* the slot now.
ResponsesMatchOwnCall ==
    \A r \in recv_cq :
        GetHotChecked(Swap(r.imm).slot, Swap(r.imm).tag) =>
            Current(r) /\ Swap(r.imm).slot = r.slot

\* A timeout that CheckTimeouts would act on was registered by the call that
\* holds the slot now.
TimeoutsMatchOwnCall ==
    \A t \in armed \cup expired :
        GetHotChecked(t.payload.slot, t.payload.tag) => Current(t.payload)

\* A callback is made for a slot in use, once per call, and the slot is not
\* freed or handed out again while it runs, whatever the callback sends.
CallbackOwnsSlot ==
    /\ cb # NoCallback => state[cb.slot] = "InUse"
    /\ \A s \in Slot :
           state[s] = "InUse" => called[s] = IF cb.slot = s THEN 1 ELSE 0

\* A call of a header alone whose response was counted is not reported as timed
\* out: the response ends it.  (With data, the response is one of two that are
\* counted and may leave the call waiting.)
AnsweredNotTimedOut == cb.status = 1 /\ total[cb.slot] = 1 => ~answered[cb.slot]

\* No response, late, stale or twice counted, is replaced by more than the one
\* receive buffer it consumed: what is posted, with what is received and not
\* yet replaced, never exceeds the depth the endpoint started with.
RecvNeverOverfull ==
    connected =>
        recv_posted + Cardinality(recv_cq) + (IF cb.repost THEN 1 ELSE 0) <= RecvDepth

\* A completion that OnSendComplete drops as stale is not one of the call that
\* holds the slot now.  (Not so once a generation no longer fits in a tag.)
DroppedIsStale ==
    \A w \in send_cq : ~GetHotChecked(w.slot, w.tag) => ~Current(w)

\* Once it is in a list of expired entries, a call ends, although the callbacks
\* of the calls before it in the list send new requests, disconnect, and free
\* slots that are used again.
ExpiredCallsEnd ==
    \A s \in Slot :
        (/\ state[s] = "InUse"
         /\ \E t \in expired : t.payload.slot = s /\ GetHotChecked(s, t.payload.tag))
            ~> state[s] = "Free"

\* Every call ends, answered or not: its slot is freed after its callback.  (Not
\* so if only the reactor ticks the wheel.)
EveryCallEnds == \A s \in Slot : state[s] = "InUse" ~> state[s] = "Free"
============================================================================
