------------------------- MODULE ReactorTasksProofs -------------------------
(***************************************************************************)
(* For any number of threads and tasks, the links of MpscQueue and of      *)
(* ProcessTasks are intact, and no task is in two lists.                   *)
(***************************************************************************)
EXTENDS ReactorTasks, SequenceTheorems, TLAPS

\* A node that is being pushed is linked to the value its caller compares with.
PusherLinked == \A c \in Caller : node[c] # Nil => next[node[c]] = old_head[c]

\* What is inductive.
TasksInv == TasksTypeOK /\ ListsIntact /\ SubmittedOnce /\ PusherLinked

----------------------------------------------------------------------------
(* Sequences.                                                              *)

\* What Push makes of the sequence of tasks.
LEMMA PushedSeq ==
    ASSUME NEW t \in Task, NEW s \in Seq(Task)
    PROVE  /\ <<t>> \o s \in Seq(Task)
           /\ Len(<<t>> \o s) = Len(s) + 1
           /\ (<<t>> \o s)[1] = t
           /\ \A i \in 2 .. Len(s) + 1 : (<<t>> \o s)[i] = s[i - 1]
           /\ Elements(<<t>> \o s) = {t} \cup Elements(s)
<1>1. <<t>> \in Seq(Task) /\ Len(<<t>>) = 1 /\ <<t>>[1] = t
    OBVIOUS
<1>2. /\ <<t>> \o s \in Seq(Task)
      /\ Len(<<t>> \o s) = Len(s) + 1
      /\ \A i \in 1 .. 1 + Len(s) :
            (<<t>> \o s)[i] = IF i <= 1 THEN <<t>>[i] ELSE s[i - 1]
    BY <1>1, ConcatProperties
<1>3. /\ (<<t>> \o s)[1] = t
      /\ \A i \in 2 .. Len(s) + 1 : (<<t>> \o s)[i] = s[i - 1]
    BY <1>1, <1>2, LenProperties
<1>4. Elements(<<t>> \o s) = {t} \cup Elements(s)
    <2> DEFINE r == <<t>> \o s
    <2>1. /\ Len(s) \in Nat /\ Len(r) = Len(s) + 1 /\ r[1] = t
          /\ \A i \in 2 .. Len(s) + 1 : r[i] = s[i - 1]
        BY <1>2, <1>3, LenProperties
    <2> HIDE DEF r
    <2>2. \A i \in 1 .. Len(s) : i + 1 \in 1 .. Len(r) /\ r[i + 1] = s[i]
        BY <2>1
    <2>3. \A x : x \in Elements(r) => x \in {t} \cup Elements(s)
        BY <2>1 DEF Elements
    <2>4. t \in Elements(r)
        BY <2>1 DEF Elements
    <2>5. ASSUME NEW x \in Elements(s)
          PROVE  x \in Elements(r)
        <3>1. PICK i \in 1 .. Len(s) : x = s[i]
            BY DEF Elements
        <3> QED
            BY <2>2, <3>1 DEF Elements
    <2> QED
        BY <2>3, <2>4, <2>5 DEF r
<1> QED
    BY <1>2, <1>3, <1>4

\* What CallTask leaves of the list.
LEMMA RestSeq ==
    ASSUME NEW s \in Seq(Task), s # << >>
    PROVE  /\ Tail(s) \in Seq(Task)
           /\ Len(s) \in Nat \ {0}
           /\ Len(Tail(s)) = Len(s) - 1
           /\ \A i \in 1 .. Len(s) - 1 : Tail(s)[i] = s[i + 1]
           /\ Elements(Tail(s)) \subseteq Elements(s)
<1>1. /\ Tail(s) \in Seq(Task)
      /\ Len(s) \in Nat \ {0}
      /\ Len(Tail(s)) = Len(s) - 1
      /\ \A i \in 1 .. Len(s) - 1 : Tail(s)[i] = s[i + 1]
    BY HeadTailProperties, EmptySeq, LenProperties
<1> QED
    BY <1>1 DEF Elements

----------------------------------------------------------------------------
(* One lemma per action.                                                   *)

\* All lists are empty when the reactor is created.
LEMMA TasksStart == TasksInit => TasksInv
<1> SUFFICES ASSUME TasksInit PROVE TasksInv
    OBVIOUS
<1>1. TasksTypeOK
    <2>1. queue \in Seq(Task) /\ batch \in Seq(Task)
        BY DEF TasksInit
    <2> QED
        BY <2>1, Zenon DEF TasksInit, TasksTypeOK, Pointer
<1>2. Len(queue) = 0 /\ Len(batch) = 0
    BY DEF TasksInit
<1>3. ListsIntact
    BY <1>2 DEF TasksInit, ListsIntact, Linked
<1>4. Pushing = {} /\ Elements(queue) = {} /\ Elements(batch) = {}
    BY <1>2 DEF TasksInit, Pushing, Elements
<1>5. SubmittedOnce
    BY <1>2, <1>4 DEF SubmittedOnce, Submitted, TasksInit
<1>6. PusherLinked
    BY DEF PusherLinked, TasksInit
<1> QED
    BY <1>1, <1>3, <1>5, <1>6 DEF TasksInv

\* A task that is in no list can be linked without disturbing any.
LEMMA OthersLinked ==
    ASSUME NEW s \in Seq(Task), NEW t \in Task, t \notin Elements(s)
    PROVE  \A i \in 1 .. Len(s) : s[i] \in Task /\ s[i] # t
BY ElementOfSeq DEF Elements

\* Steps that touch neither queue nor batch nor a push keep the two conjuncts
\* about them.
LEMMA ListsUntouched ==
    ASSUME SubmittedOnce, PusherLinked, UNCHANGED <<next, node, old_head, queue, batch>>
    PROVE  SubmittedOnce' /\ PusherLinked'
<1>1. /\ Elements(queue)' = Elements(queue) /\ Elements(batch)' = Elements(batch)
      /\ Pushing' = Pushing
    BY DEF Elements, Pushing
<1>2. SubmittedOnce'
    BY <1>1 DEF SubmittedOnce, Submitted
<1> QED
    BY <1>2 DEF PusherLinked

\* A node that is about to be pushed is in no list.
LEMMA ExecuteKeepsInv ==
    ASSUME TasksInv, NEW c \in Caller, NEW t \in Task, Execute(c, t)
    PROVE  TasksInv'
<1> USE DEF Execute
<1>1. TasksTypeOK'
    BY DEF TasksInv, TasksTypeOK, Pointer
<1>2. t \notin Elements(queue) /\ t \notin Elements(batch) /\ t \notin Pushing
    BY DEF Submitted
<1>3. ListsIntact'
    <2>1. queue \in Seq(Task) /\ batch \in Seq(Task) /\ next \in [Task -> Pointer]
        BY DEF TasksInv, TasksTypeOK
    <2>2. /\ \A i \in 1 .. Len(queue) : next'[queue[i]] = next[queue[i]]
          /\ \A i \in 1 .. Len(batch) : next'[batch[i]] = next[batch[i]]
        <3>1. next' = [next EXCEPT ![t] = head]
            OBVIOUS
        <3> HIDE DEF Execute
        <3>2. /\ \A i \in 1 .. Len(queue) : queue[i] \in Task /\ queue[i] # t
              /\ \A i \in 1 .. Len(batch) : batch[i] \in Task /\ batch[i] # t
            BY <1>2, <2>1, OthersLinked
        <3> QED
            BY <2>1, <3>1, <3>2
    <2>3. UNCHANGED <<head, queue, batch, loop, cursor, saved>>
        OBVIOUS
    <2> QED
        BY <2>2, <2>3 DEF TasksInv, ListsIntact, Linked
<1>4. SubmittedOnce'
    <2>1. Submitted' = Submitted
        BY DEF Submitted, Elements
    <2>2. node \in [Caller -> Pointer]
        BY DEF TasksInv, TasksTypeOK
    <2>3. Pushing' \subseteq Pushing \cup {t}
        BY <2>2 DEF Pushing
    <2>4. \A d \in Caller : node[d] # t
        BY <1>2, TasksAssumption DEF Pushing
    <2>5. \A d, e \in Caller : node'[d] = node'[e] /\ node'[d] # Nil => d = e
        BY <2>2, <2>4 DEF TasksInv, SubmittedOnce
    <2> QED
        BY <2>1, <2>3, <2>5, SMTT(30) DEF TasksInv, SubmittedOnce, Elements
<1>5. PusherLinked'
    <2>1. \A d \in Caller : node[d] # t
        BY <1>2, TasksAssumption DEF Pushing
    <2>2. /\ node \in [Caller -> Pointer] /\ old_head \in [Caller -> Pointer]
          /\ next \in [Task -> Pointer]
        BY DEF TasksInv, TasksTypeOK
    <2> QED
        BY <2>1, <2>2 DEF TasksInv, PusherLinked, Pointer
<1> QED
    BY <1>1, <1>3, <1>4, <1>5 DEF TasksInv

\* The compare-and-swap: that head_ has the value the node is linked to is
\* enough, even if it had others in between.
LEMMA PushSucceedsKeepsInv ==
    ASSUME TasksInv, NEW c \in Caller, PushSucceeds(c)
    PROVE  TasksInv'
<1> DEFINE t == node[c]
           r == <<t>> \o queue
<1>1. /\ t \in Task /\ head = old_head[c] /\ next[t] = head
      /\ head' = t /\ queue' = r
      /\ node' = [node EXCEPT ![c] = Nil]
      /\ UNCHANGED <<next, old_head, running, loop, cursor, saved, batch>>
    BY DEF TasksInv, TasksTypeOK, PusherLinked, PushSucceeds, Pointer
<1>2. /\ r \in Seq(Task)
      /\ Len(r) = Len(queue) + 1
      /\ r[1] = t
      /\ \A i \in 2 .. Len(queue) + 1 : r[i] = queue[i - 1]
      /\ Elements(r) = {t} \cup Elements(queue)
      /\ queue \in Seq(Task) /\ Len(queue) \in Nat
    BY <1>1, PushedSeq, LenProperties DEF TasksInv, TasksTypeOK
<1>3. t \notin Elements(queue) /\ t \notin Elements(batch)
    BY <1>1, TasksAssumption DEF TasksInv, SubmittedOnce, Pushing, Submitted
<1>4. node \in [Caller -> Pointer]
    BY DEF TasksInv, TasksTypeOK
<1>5. Linked(head, queue) /\ (queue = << >> <=> Len(queue) = 0)
    BY <1>2, EmptySeq DEF TasksInv, ListsIntact
<1>6. \A d \in Caller : d # c => node[d] # t
    BY <1>1, TasksAssumption DEF TasksInv, SubmittedOnce
<1> HIDE DEF r, t
<1>7. TasksTypeOK'
    BY <1>1, <1>2 DEF TasksInv, TasksTypeOK, Pointer
<1>8. ListsIntact'
    <2>1. r # << >>
        BY <1>2, EmptySeq
    <2>2. \A i \in 1 .. Len(r) : next[r[i]] = IF i = Len(r) THEN Nil ELSE r[i + 1]
        <3> SUFFICES ASSUME NEW i \in 1 .. Len(r)
                     PROVE  next[r[i]] = IF i = Len(r) THEN Nil ELSE r[i + 1]
            OBVIOUS
        <3>1. CASE i = 1
            BY <1>1, <1>2, <1>5, <3>1 DEF Linked
        <3>2. CASE i # 1
            <4>1. i - 1 \in 1 .. Len(queue) /\ r[i] = queue[i - 1]
                BY <1>2, <3>2
            <4>2. i # Len(r) => r[i + 1] = queue[(i - 1) + 1]
                BY <1>2, <3>2
            <4> QED
                BY <1>2, <1>5, <4>1, <4>2 DEF Linked
        <3> QED
            BY <3>1, <3>2
    <2>3. Linked(head, queue)'
        BY <1>1, <1>2, <2>1, <2>2 DEF Linked
    <2> QED
        BY <1>1, <2>3 DEF TasksInv, ListsIntact, Linked
<1>9. SubmittedOnce'
    <2>1. \A i, j \in 1 .. Len(r) : r[i] = r[j] => i = j
        <3>1. \A i \in 2 .. Len(r) : i - 1 \in 1 .. Len(queue) /\ r[i] = queue[i - 1]
            BY <1>2
        <3>2. \A i \in 2 .. Len(r) : r[i] # t
            BY <1>3, <3>1 DEF Elements
        <3>3. \A i, j \in 1 .. Len(queue) : queue[i] = queue[j] => i = j
            BY DEF TasksInv, SubmittedOnce
        <3>4. ASSUME NEW i \in 2 .. Len(r), NEW j \in 2 .. Len(r), r[i] = r[j]
              PROVE  i = j
            <4>1. i - 1 = j - 1
                BY <3>1, <3>3, <3>4
            <4> QED
                BY <4>1
        <3> QED
            BY <1>2, <3>2, <3>4
    <2>2. Pushing' = Pushing \ {t}
        BY <1>1, <1>4, <1>6 DEF Pushing, t
    <2>3. Elements(queue)' = {t} \cup Elements(queue) /\ Elements(batch)' = Elements(batch)
        <3>1. queue' = r /\ batch' = batch
            BY <1>1
        <3>2. Elements(queue)' = Elements(r) /\ Elements(batch)' = Elements(batch)
            BY <3>1 DEF Elements
        <3> QED
            BY <1>2, <3>2
    <2>4. \A d, e \in Caller : node'[d] = node'[e] /\ node'[d] # Nil => d = e
        BY <1>1, <1>4 DEF TasksInv, SubmittedOnce
    <2>5. /\ Elements(queue) \cap Elements(batch) = {}
          /\ Pushing \cap (Elements(queue) \cup Elements(batch)) = {}
        BY DEF TasksInv, SubmittedOnce, Submitted
    <2>6. /\ Elements(queue)' \cap Elements(batch)' = {}
          /\ Pushing' \cap Submitted' = {}
        BY <1>3, <2>2, <2>3, <2>5 DEF Submitted
    <2>7. \A i, j \in 1 .. Len(batch') : batch'[i] = batch'[j] => i = j
        BY <1>1 DEF TasksInv, SubmittedOnce
    <2> QED
        BY <1>1, <2>1, <2>4, <2>6, <2>7 DEF SubmittedOnce
<1>10. PusherLinked'
    BY <1>1, <1>4 DEF TasksInv, PusherLinked
<1> QED
    BY <1>7, <1>8, <1>9, <1>10 DEF TasksInv

\* A failed compare-and-swap links the node again, which is still in no list.
LEMMA PushRetriesKeepsInv ==
    ASSUME TasksInv, NEW c \in Caller, PushRetries(c)
    PROVE  TasksInv'
<1> DEFINE t == node[c]
<1>1. /\ t \in Task
      /\ next' = [next EXCEPT ![t] = head]
      /\ old_head' = [old_head EXCEPT ![c] = head]
      /\ UNCHANGED <<head, node, running, loop, cursor, saved, queue, batch>>
    BY DEF TasksInv, TasksTypeOK, PushRetries, Pointer
<1>2. t \notin Elements(queue) /\ t \notin Elements(batch)
    BY <1>1, TasksAssumption DEF TasksInv, SubmittedOnce, Pushing, Submitted
<1>3. \A d \in Caller : d # c => node[d] # t
    BY <1>1, TasksAssumption DEF TasksInv, SubmittedOnce
<1>4. /\ node \in [Caller -> Pointer] /\ old_head \in [Caller -> Pointer]
      /\ next \in [Task -> Pointer]
      /\ queue \in Seq(Task) /\ batch \in Seq(Task)
    BY DEF TasksInv, TasksTypeOK
<1>5. TasksTypeOK'
    BY <1>1 DEF TasksInv, TasksTypeOK, Pointer
<1>6. PusherLinked'
    BY <1>1, <1>3, <1>4 DEF TasksInv, PusherLinked, Pointer
<1> HIDE DEF t
<1>7. ListsIntact'
    <2>1. /\ \A i \in 1 .. Len(queue) : next'[queue[i]] = next[queue[i]]
          /\ \A i \in 1 .. Len(batch) : next'[batch[i]] = next[batch[i]]
        <3>1. /\ \A i \in 1 .. Len(queue) : queue[i] \in Task /\ queue[i] # t
              /\ \A i \in 1 .. Len(batch) : batch[i] \in Task /\ batch[i] # t
            BY <1>1, <1>2, <1>4, OthersLinked
        <3> QED
            BY <1>1, <1>4, <3>1
    <2> QED
        BY <1>1, <2>1 DEF TasksInv, ListsIntact, Linked
<1>8. SubmittedOnce'
    BY <1>1, SMTT(30) DEF TasksInv, SubmittedOnce, Submitted, Pushing, Elements
<1> QED
    BY <1>5, <1>6, <1>7, <1>8 DEF TasksInv

\* The loop of Run and the end of a list touch no list: between two lists the
\* reactor has none.
LEMMA LoopKeepsInv ==
    ASSUME TasksInv, Run \/ Stop \/ CheckRunning \/ EndOfList
    PROVE  TasksInv'
<1>1. UNCHANGED <<head, next, node, old_head, cursor, saved, queue, batch>>
    BY DEF Run, Stop, CheckRunning, EndOfList
<1>2. TasksTypeOK'
    <2>1. running' \in BOOLEAN
        BY Zenon DEF TasksInv, TasksTypeOK, Run, Stop, CheckRunning, EndOfList
    <2>2. loop' \in {"out", "check", "poll", "list", "task"}
        BY DEF TasksInv, TasksTypeOK, Run, Stop, CheckRunning, EndOfList
    <2> QED
        BY <1>1, <2>1, <2>2 DEF TasksInv, TasksTypeOK
<1>3. ListsIntact'
    BY <1>1 DEF TasksInv, ListsIntact, Linked, Run, Stop, CheckRunning, EndOfList
<1>4. SubmittedOnce' /\ PusherLinked'
    BY <1>1, ListsUntouched DEF TasksInv
<1> QED
    BY <1>2, <1>3, <1>4 DEF TasksInv

\* A list that starts with Nil is empty.
LEMMA EmptyList ==
    ASSUME NEW s \in Seq(Task), Linked(Nil, s)
    PROVE  s = << >>
<1>1. s # << >> => s[1] \in Task
    BY ElementOfSeq, EmptySeq, LenProperties
<1> QED
    BY <1>1, TasksAssumption DEF Linked

\* The exchange moves the whole queue to the reactor, whose last list is done.
LEMMA PopAllKeepsInv ==
    ASSUME TasksInv, PopAll
    PROVE  TasksInv'
<1>1. batch = << >> /\ Elements(batch) = {}
    <2>1. Linked(Nil, batch) /\ batch \in Seq(Task)
        BY DEF TasksInv, TasksTypeOK, ListsIntact, PopAll
    <2>2. batch = << >>
        BY <2>1, EmptyList
    <2> QED
        BY <2>2 DEF Elements
<1>2. TasksTypeOK'
    BY DEF TasksInv, TasksTypeOK, PopAll, Pointer
<1>3. /\ Elements(queue)' = {} /\ Elements(batch)' = Elements(queue)
      /\ Pushing' = Pushing /\ Len(queue') = 0
    BY DEF PopAll, Elements, Pushing
<1>4. ListsIntact'
    BY <1>3 DEF TasksInv, ListsIntact, Linked, PopAll
<1>5. SubmittedOnce'
    BY <1>1, <1>3 DEF TasksInv, SubmittedOnce, Submitted, PopAll
<1>6. PusherLinked'
    BY DEF TasksInv, PusherLinked, PopAll
<1> QED
    BY <1>2, <1>4, <1>5, <1>6 DEF TasksInv

\* The task that is called leaves the list; the rest starts at its link.
LEMMA CallTaskKeepsInv ==
    ASSUME TasksInv, CallTask
    PROVE  TasksInv'
<1> DEFINE r == Tail(batch)
<1>1. /\ loop = "list" /\ cursor # Nil /\ loop' = "task"
      /\ saved' = next[cursor] /\ batch' = r
      /\ UNCHANGED <<head, next, node, old_head, running, cursor, queue>>
    BY DEF CallTask
<1>2. batch \in Seq(Task) /\ Linked(cursor, batch) /\ batch # << >> /\ cursor = batch[1]
    BY <1>1 DEF TasksInv, TasksTypeOK, ListsIntact, Linked
<1>3. /\ r \in Seq(Task)
      /\ Len(batch) \in Nat \ {0}
      /\ Len(r) = Len(batch) - 1
      /\ \A i \in 1 .. Len(batch) - 1 : r[i] = batch[i + 1]
      /\ Elements(r) \subseteq Elements(batch)
      /\ r = << >> <=> Len(r) = 0
    BY <1>2, RestSeq, EmptySeq
<1> HIDE DEF r
<1>4. TasksTypeOK'
    BY <1>1, <1>3 DEF TasksInv, TasksTypeOK, Pointer
<1>5. ListsIntact'
    <2>1. \A i \in 1 .. Len(r) : next[r[i]] = IF i = Len(r) THEN Nil ELSE r[i + 1]
        <3> SUFFICES ASSUME NEW i \in 1 .. Len(r)
                     PROVE  next[r[i]] = IF i = Len(r) THEN Nil ELSE r[i + 1]
            OBVIOUS
        <3>1. i + 1 \in 1 .. Len(batch) /\ r[i] = batch[i + 1]
            BY <1>3
        <3>2. i # Len(r) => r[i + 1] = batch[(i + 1) + 1]
            BY <1>3
        <3> QED
            BY <1>2, <1>3, <3>1, <3>2 DEF Linked
    <2>2. saved' = IF r = << >> THEN Nil ELSE r[1]
        BY <1>1, <1>2, <1>3 DEF Linked
    <2>3. Linked(head, queue)'
        BY <1>1 DEF TasksInv, ListsIntact, Linked
    <2> QED
        BY <1>1, <2>1, <2>2, <2>3 DEF ListsIntact, Linked
<1>6. SubmittedOnce'
    <2>1. \A i, j \in 1 .. Len(r) : r[i] = r[j] => i = j
        <3> SUFFICES ASSUME NEW i \in 1 .. Len(r), NEW j \in 1 .. Len(r), r[i] = r[j]
                     PROVE  i = j
            OBVIOUS
        <3>1. /\ i + 1 \in 1 .. Len(batch) /\ j + 1 \in 1 .. Len(batch)
              /\ batch[i + 1] = batch[j + 1]
            BY <1>3
        <3>2. i + 1 = j + 1
            BY <3>1 DEF TasksInv, SubmittedOnce
        <3> QED
            BY <3>2
    <2>2. /\ Elements(queue)' = Elements(queue) /\ Elements(batch)' = Elements(r)
          /\ Pushing' = Pushing
        BY <1>1 DEF Elements, Pushing
    <2>3. /\ Elements(queue)' \cap Elements(batch)' = {}
          /\ Pushing' \cap Submitted' = {}
        BY <1>3, <2>2 DEF TasksInv, SubmittedOnce, Submitted
    <2> QED
        BY <1>1, <2>1, <2>3 DEF TasksInv, SubmittedOnce
<1>7. PusherLinked'
    BY <1>1 DEF TasksInv, PusherLinked
<1> QED
    BY <1>4, <1>5, <1>6, <1>7 DEF TasksInv

\* ProcessTasks goes on at the link it read before the call.
LEMMA TaskReturnsKeepsInv ==
    ASSUME TasksInv, TaskReturns
    PROVE  TasksInv'
<1>1. TasksTypeOK'
    BY DEF TasksInv, TasksTypeOK, TaskReturns
<1>2. ListsIntact'
    BY DEF TasksInv, ListsIntact, Linked, TaskReturns
<1>3. SubmittedOnce' /\ PusherLinked'
    BY ListsUntouched DEF TasksInv, TaskReturns
<1> QED
    BY <1>1, <1>2, <1>3 DEF TasksInv

----------------------------------------------------------------------------

\* Every step keeps the invariant.
LEMMA TasksStep == TasksInv /\ [TasksNext]_tasksVars => TasksInv'
<1> SUFFICES ASSUME TasksInv, [TasksNext]_tasksVars
             PROVE  TasksInv'
    OBVIOUS
<1>1. CASE \E c \in Caller, t \in Task : Execute(c, t)
    BY <1>1, ExecuteKeepsInv
<1>2. ASSUME NEW c \in Caller, PushSucceeds(c) \/ PushRetries(c)
      PROVE  TasksInv'
    BY <1>2, PushSucceedsKeepsInv, PushRetriesKeepsInv
<1>3. CASE Run \/ Stop \/ CheckRunning \/ EndOfList
    BY <1>3, LoopKeepsInv
<1>4. CASE PopAll
    BY <1>4, PopAllKeepsInv
<1>5. CASE CallTask
    BY <1>5, CallTaskKeepsInv
<1>6. CASE TaskReturns
    BY <1>6, TaskReturnsKeepsInv
<1>7. CASE UNCHANGED tasksVars
    <2>1. TasksTypeOK' /\ ListsIntact'
        BY <1>7 DEF tasksVars, TasksInv, TasksTypeOK, ListsIntact, Linked
    <2> QED
        BY <1>7, <2>1, ListsUntouched DEF tasksVars, TasksInv
<1> QED
    BY <1>1, <1>2, <1>3, <1>4, <1>5, <1>6, <1>7 DEF TasksNext, ReactorStep, Caller

\* The invariant of every behaviour.
LEMMA TasksInvariant == TasksSpec => []TasksInv
BY TasksStart, TasksStep, PTL DEF TasksSpec

\* Whatever the threads do, in any number and order, the links from head_ and
\* those that ProcessTasks follows spell the tasks pushed and not yet called.
THEOREM TasksSafe == TasksSpec => []ListsIntact
<1>1. TasksInv => ListsIntact
    BY DEF TasksInv
<1> QED
    BY <1>1, TasksInvariant, PTL

\* No task is in a list twice, in two lists, or in a list and still being
\* pushed: no thread's Push hands the reactor a task it has already.
THEOREM TasksSubmittedOnce == TasksSpec => []SubmittedOnce
<1>1. TasksInv => SubmittedOnce
    BY DEF TasksInv
<1> QED
    BY <1>1, TasksInvariant, PTL
=============================================================================
