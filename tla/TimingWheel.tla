---------------------------- MODULE TimingWheel ----------------------------
(***************************************************************************)
(* The single-level timing wheel: an array of buckets, a cursor that Tick  *)
(* advances, and a fixed pool of timeout entries.  Schedule puts an entry  *)
(* in the bucket the cursor reaches after the requested number of ticks,   *)
(* modulo the wheel; Tick empties the bucket under the cursor.             *)
(*                                                                         *)
(* An armed entry is a record; the entries of no record are on the free    *)
(* list.  Which free entry is taken cannot be observed, nor can the order  *)
(* within a bucket.  `left' is a history field: the ticks that remain of   *)
(* the delay that was asked for.                                           *)
(***************************************************************************)
EXTENDS Integers

CONSTANTS WheelSize,  \* kWheelSize
          Entry,      \* entry_pool_: kMaxEntries entries
          Payload,    \* slot_index and generation, handed back by Tick
          Timeouts    \* the values of timeout_ticks the callers pass

ASSUME WheelAssumption ==
    /\ WheelSize \in Nat \ {0}
    /\ Timeouts \subseteq Nat

VARIABLES armed,    \* the entries in the buckets
          current,  \* current_: the bucket the next Tick empties
          expired   \* the vector the last Tick filled, as a set

wheelVars == <<armed, current, expired>>

----------------------------------------------------------------------------

FreeEntries == Entry \ {t.entry : t \in armed}

WheelInit == armed = {} /\ current = 0 /\ expired = {}

\* Mutant of Target: the bucket is counted from the one Tick just emptied.
TargetOffByOne(ticks) == (current + ticks + 1) % WheelSize

\* The bucket for a delay of `ticks'.
Target(ticks) == (current + ticks) % WheelSize

\* Schedule returns false, and does nothing else, when no entry is free.
Schedule(p, ticks) ==
    armed' = IF FreeEntries = {}
             THEN armed
             ELSE armed \cup {[entry   |-> CHOOSE e \in FreeEntries : TRUE,
                               payload |-> p,
                               bucket  |-> Target(ticks),
                               left    |-> ticks]}

\* The entries PopAll takes out of the bucket under the cursor.
Due == {t \in armed : t.bucket = current}

\* An entry one tick later.
Aged(t) == [entry |-> t.entry, payload |-> t.payload,
            bucket |-> t.bucket, left |-> t.left - 1]

\* Mutant of Tick: the expired vector is not cleared first.
TickKeepingExpired ==
    /\ expired' = expired \cup Due
    /\ armed' = {Aged(t) : t \in armed \ Due}
    /\ current' = (current + 1) % WheelSize

\* Mutant of Tick: the vector is cleared after the bucket was emptied.
TickLosingExpired ==
    /\ expired' = {}
    /\ armed' = {Aged(t) : t \in armed \ Due}
    /\ current' = (current + 1) % WheelSize

\* Tick: the due entries go to `expired' and to the free list, and the cursor
\* advances.
Tick ==
    /\ expired' = Due
    /\ armed' = {Aged(t) : t \in armed \ Due}
    /\ current' = (current + 1) % WheelSize

ScheduleStep(p, ticks) == Schedule(p, ticks) /\ UNCHANGED <<current, expired>>

WheelNext ==
    \/ \E p \in Payload, ticks \in Timeouts : ScheduleStep(p, ticks)
    \/ Tick

\* The owner of the wheel calls Tick for ever (Reactor::Poll does).
WheelSpec == WheelInit /\ [][WheelNext]_wheelVars /\ WF_wheelVars(Tick)

----------------------------------------------------------------------------

ArmedType == [entry : Entry, payload : Payload, bucket : 0 .. WheelSize - 1, left : Int]

\* The wheel's fields keep their types: Target and the cursor stay inside
\* buckets_.
WheelTypeOK ==
    /\ armed \subseteq ArmedType
    /\ current \in 0 .. WheelSize - 1
    /\ expired \subseteq ArmedType

\* A timeout fires neither before nor after the delay passed to Schedule: an
\* entry that Tick pops has no tick of its delay left and none overrun.
FiresOnTime == \A t \in expired : t.left = 0

\* Every armed entry fires, and so returns to the free list.
EveryTimerFires ==
    \A e \in Entry :
        (\E t \in armed : t.entry = e) ~> (\E t \in expired : t.entry = e)

----------------------------------------------------------------------------

\* The timers that armed entries stand for, and the ones just fired.
AsTimer(t) == [entry |-> t.entry, payload |-> t.payload, left |-> t.left]

Timers == INSTANCE TimerService
             WITH pending <- {AsTimer(t) : t \in armed},
                  fired   <- {AsTimer(t) : t \in expired}

\* The wheel keeps the promise of TimerService when every delay is shorter
\* than one turn of the wheel.
ImplementsTimerService == Timers!TSSpec
============================================================================
