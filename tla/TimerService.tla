---------------------------- MODULE TimerService ----------------------------
(***************************************************************************)
(* What a timeout facility promises its users, with no wheel: a pending    *)
(* timer counts down by one at every tick, fires at the tick that finds it *)
(* at zero and at no other, and a request to schedule is turned down only  *)
(* when every entry is taken.                                              *)
(***************************************************************************)
EXTENDS Integers

CONSTANTS Entry,     \* the entries that can be pending at the same time
          Payload,   \* what a timer hands back when it fires
          Timeouts   \* the delays, in ticks, that users ask for

VARIABLES pending,   \* set of [entry, payload, left] records
          fired      \* the timers the last tick fired

tsVars == <<pending, fired>>

IdleEntries == Entry \ {t.entry : t \in pending}

TSInit == pending = {} /\ fired = {}

TSSchedule(p, ticks) ==
    /\ \E e \in IdleEntries :
           pending' = pending \cup {[entry |-> e, payload |-> p, left |-> ticks]}
    /\ UNCHANGED fired

TSRefuse == IdleEntries = {} /\ UNCHANGED tsVars

CountDown(t) == [entry |-> t.entry, payload |-> t.payload, left |-> t.left - 1]

TSTick ==
    /\ fired' = {t \in pending : t.left = 0}
    /\ pending' = {CountDown(t) : t \in {u \in pending : u.left # 0}}

TSNext ==
    \/ \E p \in Payload, ticks \in Timeouts : TSSchedule(p, ticks)
    \/ TSRefuse
    \/ TSTick

TSSpec == TSInit /\ [][TSNext]_tsVars
=============================================================================
