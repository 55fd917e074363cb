--------------------------- MODULE SendSignaling ---------------------------
(***************************************************************************)
(* Which work requests of a QueuePair ask for a completion.  A request is  *)
(* signaled when SignalInterval requests have gone by, unless the counter  *)
(* of outstanding signaled ones has reached half the completion queue.     *)
(* The counters are a record, since a post consults them before it is      *)
(* known whether the post succeeds.                                        *)
(***************************************************************************)
EXTENDS Integers

CONSTANTS SignalInterval,  \* QueuePairConfig::signal_interval
          CqDepth          \* QueuePairConfig::cq_depth

ASSUME SignalingAssumption == SignalInterval \in Nat /\ CqDepth \in Nat

FreshCounters == [unsignaled |-> 0, outstanding |-> 0]

CanPostSignaled(q) == q.outstanding < CqDepth \div 2

\* The value ShouldSignal returns ...
ShouldSignal(q) == q.unsignaled + 1 >= SignalInterval /\ CanPostSignaled(q)

\* ... and the counters it leaves behind.
AfterShouldSignal(q) ==
    IF ShouldSignal(q)
    THEN [unsignaled |-> 0, outstanding |-> q.outstanding + 1]
    ELSE [unsignaled |-> q.unsignaled + 1, outstanding |-> q.outstanding]
============================================================================
