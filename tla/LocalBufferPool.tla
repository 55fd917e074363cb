-------------------------- MODULE LocalBufferPool --------------------------
(***************************************************************************)
(* The pool of registered buffers of one reactor: a block of memory cut    *)
(* into buffers, and a ring of the offsets of the free ones.  FIFO takes   *)
(* offsets at the head, LIFO (and SLAB, which the code treats alike) at    *)
(* the tail; both put them back at the tail.                               *)
(*                                                                         *)
(* An offset is the number of its buffer.  An owner frees what it was      *)
(* given, once, and owners free in any order.  Two variables are history:  *)
(* `handles', how many owners hold each buffer, and `first_back', which    *)
(* buffer was the first to be freed (as FifoPool numbers them, from 1; 0   *)
(* for none yet).                                                          *)
(***************************************************************************)
EXTENDS Integers, Sequences

CONSTANTS BufferCount,   \* BufferPoolConfig::buffer_count
          Policies       \* the values of BufferPoolConfig::policy

ASSUME BufferPoolAssumption ==
    /\ BufferCount \in Nat \ {0}
    /\ Policies \subseteq {"FIFO", "LIFO", "SLAB"}

Offset == 0 .. BufferCount - 1

VARIABLES policy, offset_ring, head, tail, count, handles, first_back

bufferVars == <<policy, offset_ring, head, tail, count, handles, first_back>>

----------------------------------------------------------------------------

\* Create: the ring is full, and the tail one past its end.
BufferPoolInit ==
    /\ policy \in Policies
    /\ offset_ring = [i \in Offset |-> i]
    /\ head = 0
    /\ tail = BufferCount
    /\ count = BufferCount
    /\ handles = [b \in Offset |-> 0]
    /\ first_back = 0

HandOut(b) == handles' = [handles EXCEPT ![b] = @ + 1]

\* Mutant of AllocateFIFO: the head is advanced before it is read.
AllocateFIFOSkipping ==
    /\ policy = "FIFO"
    /\ count > 0
    /\ head' = (head + 1) % BufferCount
    /\ HandOut(offset_ring[head'])
    /\ count' = count - 1
    /\ UNCHANGED <<policy, offset_ring, tail, first_back>>

\* Allocate; with count = 0 it returns an empty Buffer and changes nothing.
AllocateFIFO ==
    /\ policy = "FIFO"
    /\ count > 0
    /\ HandOut(offset_ring[head])
    /\ head' = (head + 1) % BufferCount
    /\ count' = count - 1
    /\ UNCHANGED <<policy, offset_ring, tail, first_back>>

\* The ring position before the tail.
LastTail == (tail - 1 + BufferCount) % BufferCount

\* Mutant of AllocateLIFO: an empty pool is not noticed.
AllocateLIFOUnchecked ==
    /\ policy # "FIFO"
    /\ HandOut(offset_ring[LastTail])
    /\ tail' = LastTail
    /\ count' = count - 1
    /\ UNCHANGED <<policy, offset_ring, head, first_back>>

AllocateLIFO ==
    /\ policy # "FIFO"
    /\ count > 0
    /\ HandOut(offset_ring[LastTail])
    /\ tail' = LastTail
    /\ count' = count - 1
    /\ UNCHANGED <<policy, offset_ring, head, first_back>>

\* What an owner does when it frees b.
GiveBack(b) ==
    /\ handles[b] > 0
    /\ handles' = [handles EXCEPT ![b] = @ - 1]
    /\ first_back' = IF first_back = 0 THEN b + 1 ELSE first_back

\* Mutant of FreeBuffer: the tail is advanced before the offset is stored.
FreeBufferAfterTail(b) ==
    /\ GiveBack(b)
    /\ tail' = (tail + 1) % BufferCount
    /\ offset_ring' = [i \in Offset |-> IF i = tail' THEN b ELSE offset_ring[i]]
    /\ count' = count + 1
    /\ UNCHANGED <<policy, head>>

\* Free.  A store at tail = BufferCount falls outside the ring, which keeps
\* its contents.
FreeBuffer(b) ==
    /\ GiveBack(b)
    /\ offset_ring' = [i \in Offset |-> IF i = tail THEN b ELSE offset_ring[i]]
    /\ tail' = (tail + 1) % BufferCount
    /\ count' = count + 1
    /\ UNCHANGED <<policy, head>>

BufferNext ==
    \/ AllocateFIFO
    \/ AllocateLIFO
    \/ \E b \in Offset : FreeBuffer(b)

BufferSpec == BufferPoolInit /\ [][BufferNext]_bufferVars

----------------------------------------------------------------------------

\* The pointers stay where the code may keep them; in particular count_, which
\* is unsigned, is never decremented below zero.
BufferTypeOK ==
    /\ policy \in Policies
    /\ offset_ring \in [Offset -> Offset]
    /\ head \in Offset
    /\ tail \in 0 .. BufferCount
    /\ count \in 0 .. BufferCount
    /\ handles \in [Offset -> Nat]
    /\ first_back \in 0 .. BufferCount

\* Allocate never hands out a buffer that an owner still holds, whatever the
\* order in which owners give buffers back.
NoSharedBuffer == \A b \in Offset : handles[b] <= 1

\* FifoPool!Intact, for every policy: the ring holds the free buffers.
RingIntact == policy = "FIFO" => first_back \in {0, 1}

\* What does hold of the default policy: if the first buffer to come back is
\* the one at offset 0, which is what the ring holds where the first Free
\* should have stored, then no buffer is ever handed to two owners, whatever
\* the order of all the other calls.  Under LIFO there is no condition.
NoSharedWhileIntact == RingIntact => NoSharedBuffer

\* The free offsets are the ones below count_, each once; tail_ is where
\* count_ says, so that a Free stores inside the ring; and every other buffer
\* has exactly one owner.
FreeStack ==
    /\ tail = count \/ (count = BufferCount /\ tail = 0)
    /\ \A i, j \in 0 .. count - 1 : offset_ring[i] = offset_ring[j] => i = j
    /\ \A b \in Offset :
           handles[b] = IF \E i \in 0 .. count - 1 : offset_ring[i] = b THEN 0 ELSE 1

Fifo == INSTANCE FifoPool

\* The offsets from the head to the tail, as FifoPool numbers buffers.
FreeQueue ==
    [queue |-> [i \in 1 .. count |-> offset_ring[(head + i - 1) % BufferCount] + 1],
     first_back |-> first_back]

\* Under FIFO, and whatever is given back when, the ring is the queue of
\* FifoPool: Allocate takes from its front, and Free puts at its end the buffer
\* it is given, or buffer 1 if it is the first call.
RingIsQueue ==
    [][policy = "FIFO" =>
          \/ FreeQueue' = Fifo!AfterAllocate(FreeQueue, 1)
             /\ handles' = [handles EXCEPT ![Head(FreeQueue.queue) - 1] = @ + 1]
          \/ \E b \in Offset :
                FreeQueue' = Fifo!AfterFree(FreeQueue, b + 1)
                /\ handles' = [handles EXCEPT ![b] = @ - 1]]_bufferVars

\* What makes LIFO right: whatever the order of Allocate and Free, the ring is
\* a stack of the free buffers.
StackOfFree == policy # "FIFO" => FreeStack
============================================================================
