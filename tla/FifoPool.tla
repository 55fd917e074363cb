------------------------------ MODULE FifoPool ------------------------------
(***************************************************************************)
(* LocalBufferPool under FIFO, its default policy, as its callers see it:  *)
(* buffers, numbered from 1, are handed out first in, first out; but the   *)
(* first one that is given back is lost, and buffer 1 is queued in its     *)
(* place, because Create leaves the tail one past the end of the ring.     *)
(* (LocalBufferPool has the ring itself, and RingIsQueue there says that   *)
(* it does this.)                                                          *)
(***************************************************************************)
EXTENDS Integers, Sequences

\* Create: `first_back' is history, the buffer that was given back first.
NewPool(n) == [queue |-> [i \in 1 .. n |-> i], first_back |-> 0]

\* The buffers that n calls of Allocate return: as many as there are ...
Allocated(p, n) == SubSeq(p.queue, 1, IF n < Len(p.queue) THEN n ELSE Len(p.queue))

\* ... and the pool afterwards.
AfterAllocate(p, n) ==
    [p EXCEPT !.queue = SubSeq(@, 1 + (IF n < Len(@) THEN n ELSE Len(@)), Len(@))]

\* Free.
AfterFree(p, b) ==
    [queue |-> Append(p.queue, IF p.first_back = 0 THEN 1 ELSE b),
     first_back |-> IF p.first_back = 0 THEN b ELSE p.first_back]

\* What was queued first is what was given back: no buffer is lost, and none
\* is queued twice.
Intact(p) == p.first_back \in {0, 1}
============================================================================
