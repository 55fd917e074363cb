---------------------------- MODULE ReactorTasks ----------------------------
(***************************************************************************)
(* Tasks that other threads hand to a reactor: MpscQueue, a linked stack   *)
(* that any thread pushes to with compare-and-swap and the reactor empties *)
(* with one exchange, and the loop of Reactor::Run around it.              *)
(*                                                                         *)
(* The links are in the tasks themselves.  A task belongs to the queue     *)
(* from Execute until its function is called; the function may push it     *)
(* again, or tell its owner, who may do so while it still runs.            *)
(*                                                                         *)
(* A step is one access to shared memory.  Every change of head_ is a      *)
(* read-modify-write, and pushes release what PopAll acquires, so that     *)
(* stores to a link are seen in order.  Two history variables hold what    *)
(* the links should spell: `queue', the tasks pushed, newest first, and    *)
(* `batch', the ones the reactor has taken and not yet called.             *)
(***************************************************************************)
EXTENDS Integers, Sequences

CONSTANTS Task,      \* the tasks of the application
          Thread,    \* the other threads
          Self,      \* the reactor's thread
          Nil        \* the null pointer

ASSUME TasksAssumption == Nil \notin Task /\ Self \notin Thread

Caller == Thread \cup {Self}
Pointer == Task \cup {Nil}

VARIABLES head,     \* head_ of the queue
          next,     \* the link in each task
          node,     \* the task that a caller is pushing, or Nil
          old_head, \* what it has read from head_
          running,  \* running_
          loop,     \* where the reactor's thread is in Run
          cursor,   \* `head' in ProcessTasks
          saved,    \* `next' in ProcessTasks
          queue, batch

tasksVars == <<head, next, node, old_head, running, loop, cursor, saved, queue, batch>>

Elements(s) == {s[i] : i \in 1 .. Len(s)}

Submitted == Elements(queue) \cup Elements(batch)

Pushing == {node[c] : c \in Caller} \ {Nil}

----------------------------------------------------------------------------

TasksInit ==
    /\ head = Nil
    /\ next = [t \in Task |-> Nil]
    /\ node = [c \in Caller |-> Nil]
    /\ old_head = [c \in Caller |-> Nil]
    /\ running = FALSE
    /\ loop = "out"
    /\ cursor = Nil /\ saved = Nil
    /\ queue = << >> /\ batch = << >>

\* Execute: Push reads head_ and links its node to what it read.  The caller
\* owns the node; the reactor's thread calls it from the function of a task.
Execute(c, t) ==
    /\ node[c] = Nil
    /\ c = Self => loop = "task"
    /\ t \notin Submitted \cup Pushing
    /\ node' = [node EXCEPT ![c] = t]
    /\ old_head' = [old_head EXCEPT ![c] = head]
    /\ next' = [next EXCEPT ![t] = head]
    /\ UNCHANGED <<head, running, loop, cursor, saved, queue, batch>>

\* Mutant of PushSucceeds: a store in place of the compare-and-swap.
PushStores(c) ==
    /\ node[c] # Nil
    /\ head' = node[c]
    /\ queue' = <<node[c]>> \o queue
    /\ node' = [node EXCEPT ![c] = Nil]
    /\ UNCHANGED <<next, old_head, running, loop, cursor, saved, batch>>

\* The compare-and-swap of Push succeeds if head_ has the value that was read,
\* whatever happened in between.
PushSucceeds(c) ==
    /\ node[c] # Nil
    /\ head = old_head[c]
    /\ head' = node[c]
    /\ queue' = <<node[c]>> \o queue
    /\ node' = [node EXCEPT ![c] = Nil]
    /\ UNCHANGED <<next, old_head, running, loop, cursor, saved, batch>>

\* It fails: the new value is read and linked.  (Failing without cause, which
\* the weak form may do, reads and links the same value again.)
PushRetries(c) ==
    /\ node[c] # Nil
    /\ head # old_head[c]
    /\ old_head' = [old_head EXCEPT ![c] = head]
    /\ next' = [next EXCEPT ![node[c]] = head]
    /\ UNCHANGED <<head, node, running, loop, cursor, saved, queue, batch>>

----------------------------------------------------------------------------

\* Run sets running_, whatever it was.
Run ==
    /\ loop = "out"
    /\ running' = TRUE
    /\ loop' = "check"
    /\ UNCHANGED <<head, next, node, old_head, cursor, saved, queue, batch>>

\* Stop, from any thread.
Stop ==
    /\ running
    /\ running' = FALSE
    /\ UNCHANGED <<head, next, node, old_head, loop, cursor, saved, queue, batch>>

\* The condition of the loop in Run.
CheckRunning ==
    /\ loop = "check"
    /\ loop' = IF running THEN "poll" ELSE "out"
    /\ UNCHANGED <<head, next, node, old_head, running, cursor, saved, queue, batch>>

\* Mutant of PopAll: a load in place of the exchange.
PopAllLoads ==
    /\ loop = "poll"
    /\ loop' = "list"
    /\ cursor' = head
    /\ batch' = queue
    /\ UNCHANGED <<head, next, node, old_head, running, saved, queue>>

\* Mutant of PopAll: a list of one task is left for a later Poll.
PopSeveral ==
    /\ loop = "poll"
    /\ IF head # Nil /\ next[head] # Nil
       THEN /\ loop' = "list"
            /\ head' = Nil
            /\ cursor' = head
            /\ queue' = << >>
            /\ batch' = queue
       ELSE loop' = "check" /\ UNCHANGED <<head, cursor, queue, batch>>
    /\ UNCHANGED <<next, node, old_head, running, saved>>

\* ProcessTasks: PopAll takes the whole list.  (The other parts of Poll touch
\* nothing here.)
PopAll ==
    /\ loop = "poll"
    /\ loop' = "list"
    /\ head' = Nil
    /\ cursor' = head
    /\ queue' = << >>
    /\ batch' = queue
    /\ UNCHANGED <<next, node, old_head, running, saved>>

\* The next task of the list is called, after its link was read.
CallTask ==
    /\ loop = "list" /\ cursor # Nil
    /\ loop' = "task"
    /\ saved' = next[cursor]
    /\ batch' = Tail(batch)
    /\ UNCHANGED <<head, next, node, old_head, running, cursor, queue>>

\* Its function returns; the loop goes on with the link it read.
TaskReturns ==
    /\ loop = "task" /\ node[Self] = Nil
    /\ loop' = "list"
    /\ cursor' = saved
    /\ UNCHANGED <<head, next, node, old_head, running, saved, queue, batch>>

\* The list is worked off, and Poll returns.
EndOfList ==
    /\ loop = "list" /\ cursor = Nil
    /\ loop' = "check"
    /\ UNCHANGED <<head, next, node, old_head, running, cursor, saved, queue, batch>>

ReactorStep ==
    \/ CheckRunning
    \/ PopAll
    \/ CallTask
    \/ TaskReturns
    \/ EndOfList
    \/ PushSucceeds(Self)
    \/ PushRetries(Self)

TasksNext ==
    \/ \E c \in Caller, t \in Task : Execute(c, t)
    \/ \E c \in Thread : PushSucceeds(c) \/ PushRetries(c)
    \/ Run
    \/ Stop
    \/ ReactorStep

\* The reactor's thread is scheduled, and the functions of tasks return.  No
\* other thread has to make progress.
TasksSpec == TasksInit /\ [][TasksNext]_tasksVars /\ WF_tasksVars(ReactorStep)

----------------------------------------------------------------------------

\* The fields keep their types.
TasksTypeOK ==
    /\ head \in Pointer
    /\ next \in [Task -> Pointer]
    /\ node \in [Caller -> Pointer]
    /\ old_head \in [Caller -> Pointer]
    /\ running \in BOOLEAN
    /\ loop \in {"out", "check", "poll", "list", "task"}
    /\ cursor \in Pointer /\ saved \in Pointer
    /\ queue \in Seq(Task) /\ batch \in Seq(Task)

\* The links from p spell the sequence s, and end there.
Linked(p, s) ==
    /\ p = IF s = << >> THEN Nil ELSE s[1]
    /\ \A i \in 1 .. Len(s) : next[s[i]] = IF i = Len(s) THEN Nil ELSE s[i + 1]

\* No push is lost and no link broken, however pushes, retries and PopAll
\* interleave and tasks are pushed again while they run: the links from head_
\* are the tasks pushed and not taken, and those from the place of ProcessTasks
\* in its list are the tasks taken and not called.
ListsIntact ==
    /\ Linked(head, queue)
    /\ Linked(CASE loop = "task" -> saved
                [] loop = "list" -> cursor
                [] OTHER -> Nil, batch)

\* A task is in one list, once, and in none while it is being pushed: it is
\* called once for each Execute.
SubmittedOnce ==
    /\ \A i, j \in 1 .. Len(queue) : queue[i] = queue[j] => i = j
    /\ \A i, j \in 1 .. Len(batch) : batch[i] = batch[j] => i = j
    /\ Elements(queue) \cap Elements(batch) = {}
    /\ Pushing \cap Submitted = {}
    /\ \A c, d \in Caller : node[c] = node[d] /\ node[c] # Nil => c = d

\* A task that was pushed is called, unless the loop is left: neither other
\* threads that keep pushing nor tasks that push themselves again can hold it
\* back.
EveryTaskCalled ==
    \A t \in Task : t \in Submitted ~> t \notin Submitted \/ loop = "out"
=============================================================================
