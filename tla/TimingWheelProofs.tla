------------------------- MODULE TimingWheelProofs -------------------------
(***************************************************************************)
(* The wheel fires every timeout on time, and implements TimerService, for *)
(* every size of the wheel and of the entry pool, as long as each delay is *)
(* shorter than one turn of the wheel.                                     *)
(***************************************************************************)
EXTENDS TimingWheel, TLAPS

\* Every delay is shorter than one turn.  (The code never checks it.)
ShortDelays == Timeouts \subseteq 0 .. WheelSize - 1

\* What is inductive: an armed entry lies in the bucket that the cursor will
\* reach when the rest of its delay has passed, less than a turn ahead.
BucketMatchesDelay ==
    \A t \in armed :
        /\ t.left \in 0 .. WheelSize - 1
        /\ t.bucket = (current + t.left) % WheelSize

\* What is inductive.
WheelInv == WheelTypeOK /\ BucketMatchesDelay /\ FiresOnTime

\* Addition modulo the wheel, for two numbers below its size.
LEMMA ModSum ==
    ASSUME NEW a \in 0 .. WheelSize - 1, NEW b \in 0 .. WheelSize - 1
    PROVE  (a + b) % WheelSize = IF a + b < WheelSize THEN a + b ELSE a + b - WheelSize
<1>1. WheelSize \in Nat \ {0}
  BY WheelAssumption
<1>2. CASE a + b < WheelSize
  BY <1>1, <1>2
<1>3. CASE a + b >= WheelSize
  BY <1>1, <1>3
<1> QED BY <1>1, <1>2, <1>3

\* The entries under the cursor are the ones with nothing left to wait.
LEMMA DueAtZero ==
    ASSUME WheelInv, NEW t \in armed
    PROVE  t.bucket = current <=> t.left = 0
<1>1. /\ WheelSize \in Nat \ {0}
      /\ current \in 0 .. WheelSize - 1
      /\ t.left \in 0 .. WheelSize - 1
      /\ t.bucket = (current + t.left) % WheelSize
  BY WheelAssumption DEF WheelInv, WheelTypeOK, BucketMatchesDelay
<1>2. t.bucket = IF current + t.left < WheelSize THEN current + t.left
                                                  ELSE current + t.left - WheelSize
  BY <1>1, ModSum
<1> QED BY <1>1, <1>2, SMTT(30)

\* Tick moves the cursor and the rest of every delay together.
LEMMA AgedStaysInBucket ==
    ASSUME WheelInv, NEW t \in armed, t.bucket # current
    PROVE  /\ t.left - 1 \in 0 .. WheelSize - 1
           /\ t.bucket = (((current + 1) % WheelSize) + (t.left - 1)) % WheelSize
<1>1. /\ WheelSize \in Nat \ {0}
      /\ current \in 0 .. WheelSize - 1
      /\ t.left \in 1 .. WheelSize - 1
      /\ t.bucket = (current + t.left) % WheelSize
  BY WheelAssumption, DueAtZero DEF WheelInv, WheelTypeOK, BucketMatchesDelay
<1>2. /\ 1 \in 0 .. WheelSize - 1
      /\ t.left - 1 \in 0 .. WheelSize - 1
  BY <1>1
<1>3. CASE current + 1 < WheelSize
  <2>1. (current + 1) % WheelSize = current + 1
    BY <1>1, <1>3
  <2> QED BY <1>1, <1>2, <2>1
<1>4. CASE current + 1 = WheelSize
  <2>1. (current + 1) % WheelSize = 0
    BY <1>1, <1>2, <1>4, ModSum
  <2>2. (current + t.left) % WheelSize = t.left - 1
    <3>1. t.left \in 0 .. WheelSize - 1 /\ ~ (current + t.left < WheelSize)
      BY <1>1, <1>4
    <3>2. (current + t.left) % WheelSize = current + t.left - WheelSize
      BY <1>1, <3>1, ModSum
    <3> QED BY <1>1, <1>4, <3>2
  <2>3. (0 + (t.left - 1)) % WheelSize = t.left - 1
    BY <1>1, <1>2
  <2> QED BY <1>1, <1>2, <2>1, <2>2, <2>3
<1> QED BY <1>1, <1>3, <1>4

\* A new wheel, with no entry armed, satisfies the invariant.
LEMMA WheelInitInv == WheelInit => WheelInv
BY WheelAssumption DEF WheelInit, WheelInv, WheelTypeOK, BucketMatchesDelay, FiresOnTime

\* Schedule keeps the invariant for a delay of less than a turn.
LEMMA ScheduleKeepsWheel ==
    ASSUME WheelInv, NEW p \in Payload, NEW ticks \in 0 .. WheelSize - 1,
           ScheduleStep(p, ticks)
    PROVE  WheelInv'
<1>1. /\ WheelSize \in Nat \ {0}
      /\ current \in 0 .. WheelSize - 1
      /\ current' = current
      /\ expired' = expired
  BY WheelAssumption DEF WheelInv, WheelTypeOK, ScheduleStep
<1>2. CASE FreeEntries = {}
  BY <1>1, <1>2 DEF WheelInv, WheelTypeOK, BucketMatchesDelay, FiresOnTime,
                    ScheduleStep, Schedule
<1>3. CASE FreeEntries # {}
  <2> DEFINE e == CHOOSE x \in FreeEntries : TRUE
             r == [entry |-> e, payload |-> p, bucket |-> Target(ticks), left |-> ticks]
  <2>1. e \in FreeEntries
    BY <1>3
  <2>2. e \in Entry
    BY <2>1 DEF FreeEntries
  <2>3. Target(ticks) \in 0 .. WheelSize - 1
    BY <1>1 DEF Target
  <2>4. armed' = armed \cup {r}
    BY <1>3, Zenon DEF ScheduleStep, Schedule
  <2>5. r \in ArmedType
    BY <2>2, <2>3 DEF ArmedType
  <2>6. WheelTypeOK'
    BY <1>1, <2>4, <2>5 DEF WheelInv, WheelTypeOK
  <2>7. BucketMatchesDelay'
    BY <1>1, <2>4 DEF WheelInv, BucketMatchesDelay, Target
  <2> QED BY <1>1, <2>6, <2>7 DEF WheelInv, FiresOnTime
<1> QED BY <1>2, <1>3

\* Tick keeps the invariant, and pops exactly the entries that are due.
LEMMA TickKeepsWheel ==
    ASSUME WheelInv, Tick
    PROVE  WheelInv'
<1>1. /\ WheelSize \in Nat \ {0}
      /\ current \in 0 .. WheelSize - 1
      /\ armed \subseteq ArmedType
  BY WheelAssumption DEF WheelInv, WheelTypeOK
<1>2. /\ current' = (current + 1) % WheelSize
      /\ current' \in 0 .. WheelSize - 1
  BY <1>1 DEF Tick
<1>3. expired' = {t \in armed : t.bucket = current}
  BY DEF Tick, Due
<1>4. \A u \in armed' : \E t \in armed : t.bucket # current /\ u = Aged(t)
  BY DEF Tick, Due
<1>5. armed' \subseteq ArmedType
  <2> SUFFICES ASSUME NEW u \in armed' PROVE u \in ArmedType
    OBVIOUS
  <2>1. PICK t \in armed : u = Aged(t)
    BY <1>4
  <2>2. t.left - 1 \in Int
    BY <1>1 DEF ArmedType
  <2> QED BY <1>1, <2>1, <2>2 DEF ArmedType, Aged
<1>6. WheelTypeOK'
  BY <1>1, <1>2, <1>3, <1>5 DEF WheelTypeOK
<1>7. BucketMatchesDelay'
  <2> SUFFICES ASSUME NEW u \in armed'
               PROVE  /\ u.left \in 0 .. WheelSize - 1
                      /\ u.bucket = (current' + u.left) % WheelSize
    BY DEF BucketMatchesDelay
  <2>1. PICK t \in armed : t.bucket # current /\ u = Aged(t)
    BY <1>4
  <2>2. u.left = t.left - 1 /\ u.bucket = t.bucket
    BY <2>1 DEF Aged
  <2> QED BY <1>2, <2>1, <2>2, AgedStaysInBucket
<1>8. FiresOnTime'
  BY <1>3, DueAtZero DEF FiresOnTime
<1> QED BY <1>6, <1>7, <1>8 DEF WheelInv

\* Steps of the wheel keep the invariant when delays are short.
LEMMA WheelStep == ShortDelays /\ WheelInv /\ [WheelNext]_wheelVars => WheelInv'
<1> SUFFICES ASSUME ShortDelays, WheelInv, [WheelNext]_wheelVars PROVE WheelInv'
  OBVIOUS
<1>1. ASSUME NEW p \in Payload, NEW ticks \in Timeouts, ScheduleStep(p, ticks)
      PROVE  WheelInv'
  BY <1>1, ScheduleKeepsWheel DEF ShortDelays
<1>2. CASE Tick
  BY <1>2, TickKeepsWheel
<1>3. CASE UNCHANGED wheelVars
  BY <1>3 DEF wheelVars, WheelInv, WheelTypeOK, BucketMatchesDelay, FiresOnTime
<1> QED BY <1>1, <1>2, <1>3 DEF WheelNext

\* With delays shorter than a turn, no timeout fires early or late
\* (TimingWheel::Schedule and Tick).
THEOREM TimeoutsOnTime ==
    ASSUME ShortDelays
    PROVE  WheelSpec => [](WheelTypeOK /\ FiresOnTime)
<1>1. WheelInv => WheelTypeOK /\ FiresOnTime
  BY DEF WheelInv
<1>2. WheelInv /\ [WheelNext]_wheelVars => WheelInv'
  BY ShortDelays, WheelStep
<1> QED
  BY <1>1, <1>2, WheelInitInv, PTL DEF WheelSpec

----------------------------------------------------------------------------

\* Fields of the timer that an entry stands for.
LEMMA AsTimerFields ==
    ASSUME NEW t
    PROVE  /\ AsTimer(t).entry = t.entry
           /\ AsTimer(t).payload = t.payload
           /\ AsTimer(t).left = t.left
BY DEF AsTimer

\* The free list holds the entries that are idle in TimerService.
LEMMA SameIdleEntries == Timers!IdleEntries = FreeEntries
BY AsTimerFields DEF Timers!IdleEntries, FreeEntries

\* A call of Schedule is a TSSchedule, or a TSRefuse when no entry is free.
LEMMA ScheduleRefines ==
    ASSUME NEW p \in Payload, NEW ticks \in Timeouts, ScheduleStep(p, ticks)
    PROVE  Timers!TSNext
<1>1. expired' = expired
  BY DEF ScheduleStep
<1>2. CASE FreeEntries = {}
  <2>1. armed' = armed
    BY <1>2 DEF ScheduleStep, Schedule
  <2>2. Timers!TSRefuse
    BY <1>1, <1>2, <2>1, SameIdleEntries DEF Timers!TSRefuse, Timers!tsVars
  <2> QED BY <2>2 DEF Timers!TSNext
<1>3. CASE FreeEntries # {}
  <2> DEFINE e == CHOOSE x \in FreeEntries : TRUE
             r == [entry |-> e, payload |-> p, bucket |-> Target(ticks), left |-> ticks]
             n == [entry |-> e, payload |-> p, left |-> ticks]
  <2>1. e \in FreeEntries
    BY <1>3
  <2>2. armed' = armed \cup {r}
    BY <1>3, Zenon DEF ScheduleStep, Schedule
  <2>3. AsTimer(r) = n
    BY DEF AsTimer
  <2>4. {AsTimer(t) : t \in armed'} = {AsTimer(t) : t \in armed} \cup {n}
    <3> HIDE DEF r, n
    <3> QED BY <2>2, <2>3
  <2>5. Timers!TSSchedule(p, ticks)
    BY <1>1, <2>1, <2>4, SameIdleEntries DEF Timers!TSSchedule
  <2> QED BY <2>5 DEF Timers!TSNext
<1> QED BY <1>2, <1>3

\* A Tick is a TSTick.
LEMMA TickRefines ==
    ASSUME WheelInv, Tick
    PROVE  Timers!TSTick
<1>1. {AsTimer(t) : t \in expired'} = {u \in {AsTimer(t) : t \in armed} : u.left = 0}
  BY AsTimerFields, DueAtZero DEF Tick, Due
<1>2. \A t : AsTimer(Aged(t)) = Timers!CountDown(AsTimer(t))
  BY DEF AsTimer, Aged, Timers!CountDown
<1>3. {AsTimer(t) : t \in armed'} = {AsTimer(Aged(t)) : t \in armed \ Due}
  BY DEF Tick
<1>4. {AsTimer(t) : t \in armed \ Due}
         = {u \in {AsTimer(t) : t \in armed} : u.left # 0}
  BY AsTimerFields, DueAtZero DEF Due
<1>5. {AsTimer(t) : t \in armed'}
         = {Timers!CountDown(u) : u \in {AsTimer(t) : t \in armed \ Due}}
  BY <1>2, <1>3
<1> QED
  BY <1>1, <1>4, <1>5 DEF Timers!TSTick

\* With delays shorter than a turn, the wheel implements TimerService: Tick
\* and Schedule do what a set of counting timers would.
THEOREM WheelImplementsTimerService ==
    ASSUME ShortDelays
    PROVE  WheelSpec => ImplementsTimerService
<1>1. WheelInit => Timers!TSInit
  BY DEF WheelInit, Timers!TSInit
<1>2. WheelInv /\ [WheelNext]_wheelVars => [Timers!TSNext]_(Timers!tsVars)
  <2> SUFFICES ASSUME WheelInv, [WheelNext]_wheelVars
               PROVE  [Timers!TSNext]_(Timers!tsVars)
    OBVIOUS
  <2>1. ASSUME NEW p \in Payload, NEW ticks \in Timeouts, ScheduleStep(p, ticks)
        PROVE  Timers!TSNext
    BY <2>1, ScheduleRefines
  <2>2. CASE Tick
    BY <2>2, TickRefines DEF Timers!TSNext
  <2>3. CASE UNCHANGED wheelVars
    BY <2>3 DEF wheelVars, Timers!tsVars
  <2> QED BY <2>1, <2>2, <2>3 DEF WheelNext
<1>3. WheelInv /\ [WheelNext]_wheelVars => WheelInv'
  BY ShortDelays, WheelStep
<1> QED
  BY <1>1, <1>2, <1>3, WheelInitInv, PTL
     DEF WheelSpec, ImplementsTimerService, Timers!TSSpec
============================================================================
