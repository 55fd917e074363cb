----------------------------- MODULE Connection -----------------------------
(***************************************************************************)
(* A Connection and its QueuePair: the two state machines that Connect and *)
(* Disconnect have to keep in step, and the send queue, whose places come  *)
(* back only with the completions of signaled requests.                    *)
(*                                                                         *)
(* The verbs layer is external.  ibv_modify_qp obeys its transition table  *)
(* and may fail besides; ibv_post_send fails on a full queue; the NIC      *)
(* executes requests in order, writes a completion for a signaled one, and *)
(* in the error state flushes the rest with a completion each.  Polling a  *)
(* completion gives back its place and those before it.                    *)
(***************************************************************************)
EXTENDS Integers, Sequences, FiniteSets, SendSignaling

CONSTANTS Depth,         \* QueuePairConfig::max_send_wr
          MaxSge,        \* QueuePairConfig::max_send_sge
          ListLengths,   \* the lengths of the lists given to PostSendSGL
          PostsWhenFull, \* senders post without knowing that there is room
          Reports,       \* the owner calls OnSendComplete
          VerbsFail      \* ibv_modify_qp may fail

ASSUME ConnectionAssumption ==
    /\ Depth \in Nat \ {0} /\ MaxSge \in Nat \ {0}
    /\ ListLengths \subseteq Nat \ {0}
    /\ PostsWhenFull \in BOOLEAN /\ Reports \in BOOLEAN /\ VerbsFail \in BOOLEAN

VARIABLES state,     \* Connection::state_
          qp,        \* the state of the ibv_qp
          counters,  \* unsignaled_count_ and outstanding_signaled_
          sq,        \* the requests that hold a place of the send queue
          done       \* how many of them have been executed or flushed

connectionVars == <<state, qp, counters, sq, done>>

Request(signaled) == [signaled |-> signaled, completes |-> signaled]

\* The number of work requests for a list of the given length.
Fragments(iov_count) == (iov_count + MaxSge - 1) \div MaxSge

Room == Depth - Len(sq)

\* QueuePair::Create.
QueuePairInit ==
    /\ qp = "RESET"
    /\ counters = FreshCounters
    /\ sq = << >> /\ done = 0

\* Connection::Create.
ConnectionInit == state = "DISCONNECTED" /\ QueuePairInit

----------------------------------------------------------------------------
(* Connecting and disconnecting.                                           *)

Transitions == <<"INIT", "RTR", "RTS">>

\* TransitionToInit is accepted in these states; the two that follow then are.
MayBecomeInit == qp \in {"RESET", "INIT"}

\* Connect, of whose three transitions the first n succeed.
Connect(n) ==
    /\ state = "DISCONNECTED"
    /\ n > 0 => MayBecomeInit
    /\ n < 3 => VerbsFail \/ ~MayBecomeInit
    /\ qp' = IF n = 0 THEN qp ELSE Transitions[n]
    /\ state' = IF n = 3 THEN "CONNECTED" ELSE "ERROR"
    /\ UNCHANGED <<counters, sq, done>>

TransitionToError == qp' = "ERR" \/ (VerbsFail /\ qp' = qp)

\* Disconnect and ~Connection; a failure of TransitionToError is only logged.
Disconnect ==
    /\ state = "CONNECTED"
    /\ state' = "DISCONNECTED"
    /\ TransitionToError
    /\ UNCHANGED <<counters, sq, done>>

\* Mutant of Reset: the counters are kept.
ResetKeepingCounters ==
    /\ state = "DISCONNECTED"
    /\ qp' = "RESET"
    /\ sq' = << >> /\ done' = 0
    /\ UNCHANGED <<state, counters>>

\* QueuePair::Reset, by an owner that means to connect again.  The verbs layer
\* drops the requests and their completions.
Reset ==
    /\ state = "DISCONNECTED"
    /\ qp' = "RESET"
    /\ counters' = FreshCounters
    /\ sq' = << >> /\ done' = 0
    /\ UNCHANGED state

----------------------------------------------------------------------------
(* Sending.  ShouldSignal has counted the request before the post fails.   *)

Accepted(requests) ==
    sq' = sq \o SubSeq(requests, 1, IF Room < Len(requests) THEN Room ELSE Len(requests))

\* Every send of Connection checks this.
Established == state = "CONNECTED"

\* Send, SendInline, Write, WriteWithImm and Read of Connection, each with the
\* post of QueuePair that it calls.
Send ==
    /\ Established
    /\ Room > 0 \/ PostsWhenFull
    /\ Accepted(<<Request(ShouldSignal(counters))>>)
    /\ counters' = AfterShouldSignal(counters)
    /\ UNCHANGED <<state, qp, done>>

\* Mutant of PostSendSGL: fragments are not counted.
PostSendSGLUncounted(iov_count) ==
    /\ Established
    /\ Room >= Fragments(iov_count)
    /\ Accepted([i \in 1 .. Fragments(iov_count) |-> Request(FALSE)])
    /\ UNCHANGED <<state, qp, done, counters>>

\* PostSendSGL, which RpcEndpoint calls once a Send has succeeded.  Only the
\* last fragment asks ShouldSignal, if the posts get as far.
PostSendSGL(iov_count) ==
    LET last == Fragments(iov_count)
    IN  /\ Established
        /\ Room >= last \/ PostsWhenFull
        /\ Accepted([i \in 1 .. last |-> Request(i = last /\ ShouldSignal(counters))])
        /\ counters' = IF Room >= last - 1 THEN AfterShouldSignal(counters) ELSE counters
        /\ UNCHANGED <<state, qp, done>>

----------------------------------------------------------------------------
(* The NIC, and the owner's polling.                                       *)

NicExecutes ==
    /\ qp = "RTS" /\ done < Len(sq)
    /\ done' = done + 1
    /\ UNCHANGED <<state, qp, counters, sq>>

\* The connection breaks; the Connection is not told.
NicFails ==
    /\ qp = "RTS"
    /\ qp' = "ERR"
    /\ UNCHANGED <<state, counters, sq, done>>

NicFlushes ==
    /\ qp = "ERR" /\ done < Len(sq)
    /\ sq' = [i \in DOMAIN sq |-> [sq[i] EXCEPT !.completes = @ \/ i > done]]
    /\ done' = Len(sq)
    /\ UNCHANGED <<state, qp, counters>>

\* Mutant of OnSendComplete: every completion counts.
OnSendCompleteAlways(was_signaled) ==
    counters' = IF Reports THEN [counters EXCEPT !.outstanding = @ - 1] ELSE counters

OnSendComplete(was_signaled) ==
    counters' = IF was_signaled /\ Reports
                THEN [counters EXCEPT !.outstanding = @ - 1]
                ELSE counters

\* Mutant of PollSendCQ: only the completions of an open connection.
PollWhileConnected ==
    /\ state = "CONNECTED"
    /\ \E i \in 1 .. done :
          /\ sq[i].completes
          /\ \A j \in 1 .. i - 1 : ~sq[j].completes
          /\ sq' = SubSeq(sq, i + 1, Len(sq))
          /\ done' = done - i
          /\ OnSendComplete(sq[i].signaled)
    /\ UNCHANGED <<state, qp>>

\* The oldest completion is polled and, if the owner does so, reported.
PollSendCQ ==
    \E i \in 1 .. done :
        /\ sq[i].completes
        /\ \A j \in 1 .. i - 1 : ~sq[j].completes
        /\ sq' = SubSeq(sq, i + 1, Len(sq))
        /\ done' = done - i
        /\ OnSendComplete(sq[i].signaled)
        /\ UNCHANGED <<state, qp>>

ConnectionNext ==
    \/ \E n \in 0 .. 3 : Connect(n)
    \/ Disconnect
    \/ Reset
    \/ Send
    \/ \E iov_count \in ListLengths : PostSendSGL(iov_count)
    \/ NicExecutes \/ NicFails \/ NicFlushes
    \/ PollSendCQ

\* The NIC works, and the owner polls.
ConnectionFairness ==
    WF_connectionVars(NicExecutes) /\ WF_connectionVars(NicFlushes)
        /\ WF_connectionVars(PollSendCQ)

ConnectionSpec ==
    ConnectionInit /\ [][ConnectionNext]_connectionVars /\ ConnectionFairness

----------------------------------------------------------------------------

ConnectionTypeOK ==
    /\ state \in {"DISCONNECTED", "CONNECTED", "ERROR"}
    /\ qp \in {"RESET", "INIT", "RTR", "RTS", "ERR"}
    /\ counters \in [unsignaled : Nat, outstanding : Nat]
    /\ sq \in Seq([signaled : BOOLEAN, completes : BOOLEAN])
    /\ Len(sq) <= Depth /\ done \in 0 .. Len(sq)

\* A sender always has a completion to wait for: when the queue has no room
\* left for a list, some request in it will complete and give room.
CompletionToCome ==
    (\E n \in ListLengths : Room < Fragments(n)) => \E i \in DOMAIN sq : sq[i].completes

\* outstanding_signaled_ is the number of signaled requests that have not
\* completed, through errors, flushes and resets, so that the limit of half the
\* completion queue is a limit on them.
OutstandingExact ==
    /\ ConnectionTypeOK
    /\ counters.outstanding = Cardinality({i \in DOMAIN sq : sq[i].signaled})
    /\ counters.outstanding <= CqDepth \div 2

\* A connection starts with an empty queue and fresh counters: after a
\* Disconnect or an error, Connect fails unless the queue pair was reset.
ConnectStartsFresh ==
    [][state # "CONNECTED" /\ state' = "CONNECTED"
           => sq = << >> /\ counters = FreshCounters]_connectionVars

\* A full send queue does not stay full.
RoomAgain == Room = 0 ~> Room > 0
=============================================================================
