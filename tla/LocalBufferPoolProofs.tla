----------------------- MODULE LocalBufferPoolProofs -----------------------
(***************************************************************************)
(* For a pool of any size, the stack policy never hands a buffer to two    *)
(* owners and never stores outside the ring, whatever the order in which   *)
(* buffers come back.  The queue policy is as safe if the first buffer to  *)
(* come back is the one at offset 0.                                       *)
(***************************************************************************)
EXTENDS LocalBufferPool, FiniteSetTheorems, TLAPS

\* What is inductive for the stack policy.
LifoInv == policy # "FIFO" /\ BufferTypeOK /\ FreeStack

\* The ring position before the tail, without the modulus: Create leaves the
\* tail one past the ring and Free takes it round to 0, and in both cases the
\* last position of the ring comes before it.
LEMMA LastTailIsCount ==
    ASSUME LifoInv, count > 0
    PROVE  LastTail = count - 1 /\ LastTail \in 0 .. count - 1
<1> USE BufferPoolAssumption
<1>1. count \in 1 .. BufferCount
    BY DEF LifoInv, BufferTypeOK
<1>2. CASE tail = count
    <2>1. tail - 1 + BufferCount = (count - 1) + BufferCount
        BY <1>1, <1>2
    <2>2. ((count - 1) + BufferCount) % BufferCount = count - 1
        BY <1>1
    <2> QED
        BY <1>1, <2>1, <2>2 DEF LastTail
<1>3. CASE count = BufferCount /\ tail = 0
    BY <1>1, <1>3 DEF LastTail
<1> QED
    BY <1>2, <1>3 DEF LifoInv, FreeStack

\* Allocate, the stack policy: the offset on top of the stack is free, and is
\* the only one to leave it.
LEMMA AllocateLIFOKeepsInv ==
    ASSUME LifoInv, AllocateLIFO
    PROVE  LifoInv'
<1> USE BufferPoolAssumption
<1> DEFINE b == offset_ring[count - 1]
<1>1. count \in 1 .. BufferCount /\ LastTail = count - 1
    BY LastTailIsCount DEF LifoInv, BufferTypeOK, AllocateLIFO
<1>2. b \in Offset
    <2>1. count - 1 \in Offset
        BY <1>1 DEF Offset
    <2> QED
        BY <2>1 DEF LifoInv, BufferTypeOK
<1>3. handles[b] = 0
    BY <1>1, <1>2 DEF LifoInv, FreeStack
<1>4. handles' = [handles EXCEPT ![b] = 1]
    BY <1>1, <1>3 DEF AllocateLIFO, HandOut
<1>5. /\ tail' = count - 1 /\ count' = count - 1
      /\ offset_ring' = offset_ring /\ head' = head /\ policy' = policy
      /\ first_back' = first_back
    BY <1>1 DEF AllocateLIFO
<1>6. BufferTypeOK'
    BY <1>1, <1>2, <1>4, <1>5 DEF LifoInv, BufferTypeOK
<1>7. ASSUME NEW c \in Offset
      PROVE  handles'[c] = IF \E i \in 0 .. count' - 1 : offset_ring'[i] = c
                           THEN 0 ELSE 1
    <2>1. CASE c = b
        <3>1. \A i \in 0 .. count - 2 : offset_ring[i] # b
            BY <1>1 DEF LifoInv, FreeStack
        <3> QED
            BY <1>1, <1>2, <1>4, <1>5, <2>1, <3>1 DEF LifoInv, BufferTypeOK
    <2>2. CASE c # b
        <3>1. (\E i \in 0 .. count - 2 : offset_ring[i] = c)
                <=> (\E i \in 0 .. count - 1 : offset_ring[i] = c)
            BY <1>1, <2>2
        <3>2. handles'[c] = handles[c]
            BY <1>4, <2>2 DEF LifoInv, BufferTypeOK
        <3> QED
            BY <1>1, <1>5, <3>1, <3>2 DEF LifoInv, FreeStack
    <2> QED
        BY <2>1, <2>2
<1>8. FreeStack'
    BY <1>1, <1>5, <1>7 DEF LifoInv, FreeStack
<1> QED
    BY <1>5, <1>6, <1>8 DEF LifoInv

\* Free: a buffer that is out is not on the stack, so there is room for it.
LEMMA RoomForBuffer ==
    ASSUME LifoInv, NEW b \in Offset, handles[b] > 0
    PROVE  /\ handles[b] = 1
           /\ \A i \in 0 .. count - 1 : offset_ring[i] # b
           /\ count < BufferCount
<1> USE BufferPoolAssumption
<1>1. handles[b] = 1 /\ \A i \in 0 .. count - 1 : offset_ring[i] # b
    BY DEF LifoInv, FreeStack
<1>2. ASSUME count = BufferCount
      PROVE  FALSE
    <2>1. offset_ring \in [Offset -> Offset \ {b}]
        BY <1>1, <1>2 DEF LifoInv, BufferTypeOK, Offset
    <2>2. IsFiniteSet(Offset) /\ Cardinality(Offset) = BufferCount
        BY FS_Interval DEF Offset
    <2>3. /\ IsFiniteSet(Offset \ {b})
          /\ Cardinality(Offset \ {b}) = BufferCount - 1
        BY <2>2, FS_RemoveElement
    <2>4. \E i, j \in Offset : i # j /\ offset_ring[i] = offset_ring[j]
        BY <2>1, <2>2, <2>3, FS_PigeonHole
    <2> QED
        BY <1>2, <2>4 DEF LifoInv, FreeStack, Offset
<1> QED
    BY <1>1, <1>2 DEF LifoInv, BufferTypeOK

\* Free: the buffer becomes the top of the stack.
LEMMA FreeBufferKeepsInv ==
    ASSUME LifoInv, NEW b \in Offset, FreeBuffer(b)
    PROVE  LifoInv'
<1> USE BufferPoolAssumption
<1>1. /\ handles[b] = 1
      /\ \A i \in 0 .. count - 1 : offset_ring[i] # b
      /\ count \in 0 .. BufferCount - 1
    BY RoomForBuffer DEF FreeBuffer, GiveBack, LifoInv, BufferTypeOK
<1>2. tail = count
    BY <1>1 DEF LifoInv, FreeStack
<1>3. /\ handles' = [handles EXCEPT ![b] = 0]
      /\ offset_ring' = [i \in Offset |-> IF i = count THEN b ELSE offset_ring[i]]
      /\ count' = count + 1 /\ head' = head /\ policy' = policy
      /\ first_back' \in 0 .. BufferCount
    BY <1>1, <1>2 DEF FreeBuffer, GiveBack, LifoInv, BufferTypeOK, Offset
<1>4. /\ tail' \in 0 .. BufferCount - 1
      /\ tail' = count + 1 \/ (count + 1 = BufferCount /\ tail' = 0)
    BY <1>1, <1>2 DEF FreeBuffer
<1>5. BufferTypeOK'
    BY <1>1, <1>3, <1>4 DEF LifoInv, BufferTypeOK
<1>6. /\ \A i \in 0 .. count - 1 : offset_ring'[i] = offset_ring[i]
      /\ offset_ring'[count] = b
    BY <1>1, <1>3 DEF Offset
<1>7. \A i, j \in 0 .. count' - 1 : offset_ring'[i] = offset_ring'[j] => i = j
    BY <1>1, <1>3, <1>6 DEF LifoInv, FreeStack
<1>8. ASSUME NEW c \in Offset
      PROVE  handles'[c] = IF \E i \in 0 .. count' - 1 : offset_ring'[i] = c
                           THEN 0 ELSE 1
    <2>1. CASE c = b
        BY <1>1, <1>3, <1>6, <2>1 DEF LifoInv, BufferTypeOK
    <2>2. CASE c # b
        <3>1. (\E i \in 0 .. count' - 1 : offset_ring'[i] = c)
                <=> (\E i \in 0 .. count - 1 : offset_ring[i] = c)
            BY <1>1, <1>3, <1>6, <2>2
        <3>2. handles'[c] = handles[c]
            BY <1>3, <2>2 DEF LifoInv, BufferTypeOK
        <3> QED
            BY <3>1, <3>2 DEF LifoInv, FreeStack
    <2> QED
        BY <2>1, <2>2
<1>9. FreeStack'
    BY <1>1, <1>3, <1>4, <1>7, <1>8 DEF FreeStack
<1> QED
    BY <1>3, <1>5, <1>9 DEF LifoInv

----------------------------------------------------------------------------
(* The queue policy, when offset 0 is the first to come back.              *)

\* A position reached by counting on from another, taken round the ring.
Around(x) == IF x < BufferCount THEN x ELSE x - BufferCount

\* The i-th offset that Allocate is to return, from 0.
ToGo(i) == offset_ring[Around(head + i)]

\* Where the tail is: one past the ring until the first Free, which happens
\* with every offset still at its own position.
TailInv ==
    IF first_back = 0
    THEN /\ tail = BufferCount
         /\ head + count = BufferCount \/ (head = 0 /\ count = 0)
         /\ \A i \in Offset : offset_ring[i] = i
    ELSE tail = Around(head + count)

\* The count offsets from the head on are the free ones, each once.
FifoInv ==
    /\ policy = "FIFO"
    /\ first_back \in {0, 1}
    /\ BufferTypeOK
    /\ TailInv
    /\ \A i, j \in 0 .. count - 1 : ToGo(i) = ToGo(j) => i = j
    /\ \A b \in Offset :
           handles[b] = IF \E i \in 0 .. count - 1 : ToGo(i) = b THEN 0 ELSE 1

\* The modulus of the code, for the positions one turn of the ring away.
LEMMA AroundIsModulus ==
    ASSUME NEW x \in 0 .. 2 * BufferCount - 1
    PROVE  x % BufferCount = Around(x) /\ Around(x) \in Offset
<1> USE BufferPoolAssumption
<1>1. CASE x < BufferCount
    BY <1>1 DEF Around, Offset
<1>2. CASE x >= BufferCount
    <2>1. x - BufferCount \in 0 .. BufferCount - 1
        BY <1>2
    <2>2. ((x - BufferCount) + BufferCount) % BufferCount = x - BufferCount
        BY <2>1
    <2> QED
        BY <1>2, <2>1, <2>2 DEF Around, Offset
<1> QED
    BY <1>1, <1>2

\* The offsets to go are offsets.
LEMMA ToGoType ==
    ASSUME FifoInv, NEW i \in 0 .. BufferCount - 1
    PROVE  Around(head + i) \in Offset /\ ToGo(i) \in Offset
<1>1. head + i \in 0 .. 2 * BufferCount - 1
    BY BufferPoolAssumption DEF FifoInv, BufferTypeOK, Offset
<1>2. Around(head + i) \in Offset
    BY <1>1, AroundIsModulus
<1> QED
    BY <1>2 DEF FifoInv, BufferTypeOK, ToGo

\* Allocate, the queue policy: what is at the head is not held, and the offsets
\* after it move up by one.
LEMMA AllocateFIFOKeepsInv ==
    ASSUME FifoInv, AllocateFIFO
    PROVE  FifoInv'
<1> USE BufferPoolAssumption
<1> DEFINE b == ToGo(0)
<1>1. /\ count \in 1 .. BufferCount
      /\ head \in 0 .. BufferCount - 1 /\ head \in Offset
    BY DEF FifoInv, BufferTypeOK, AllocateFIFO, Offset
<1>2. b = offset_ring[head] /\ b \in Offset
    BY <1>1 DEF ToGo, Around, FifoInv, BufferTypeOK
<1>3. handles[b] = 0
    <2>1. \E i \in 0 .. count - 1 : ToGo(i) = b
        BY <1>1
    <2> QED
        BY <1>2, <2>1 DEF FifoInv
<1>4. /\ handles' = [handles EXCEPT ![b] = 1]
      /\ count' = count - 1
      /\ UNCHANGED <<policy, offset_ring, tail, first_back>>
    <2>1. handles' = [handles EXCEPT ![b] = handles[b] + 1]
        BY <1>2 DEF AllocateFIFO, HandOut
    <2> QED
        BY <1>3, <2>1 DEF AllocateFIFO
<1>5. head' = Around(head + 1) /\ head' \in Offset
    <2>1. head + 1 \in 0 .. 2 * BufferCount - 1
        BY <1>1
    <2> QED
        BY <2>1, AroundIsModulus DEF AllocateFIFO
<1>6. ASSUME NEW i \in 0 .. BufferCount - 2
      PROVE  ToGo(i)' = ToGo(i + 1)
    <2>1. Around(head' + i) = Around(head + (i + 1))
        BY <1>1, <1>5 DEF Around
    <2> QED
        BY <1>4, <2>1 DEF ToGo
<1>7. TailInv'
    <2>1. CASE first_back = 0
        BY <1>1, <1>4, <1>5, <2>1 DEF FifoInv, TailInv, Around, Offset
    <2>2. CASE first_back # 0
        BY <1>1, <1>4, <1>5, <2>2 DEF FifoInv, TailInv, Around, Offset
    <2> QED
        BY <2>1, <2>2
<1>8. ASSUME NEW i \in 0 .. count' - 1, NEW j \in 0 .. count' - 1,
             ToGo(i)' = ToGo(j)'
      PROVE  i = j
    <2>1. /\ i \in 0 .. BufferCount - 2 /\ j \in 0 .. BufferCount - 2
          /\ i + 1 \in 0 .. count - 1 /\ j + 1 \in 0 .. count - 1
        BY <1>1, <1>4
    <2>2. ToGo(i + 1) = ToGo(j + 1)
        BY <1>6, <1>8, <2>1
    <2>3. i + 1 = j + 1
        BY <2>1, <2>2 DEF FifoInv
    <2> QED
        BY <2>1, <2>3
<1>9. ASSUME NEW c \in Offset
      PROVE  handles'[c] = IF \E i \in 0 .. count' - 1 : ToGo(i)' = c THEN 0 ELSE 1
    <2>1. (\E i \in 0 .. count' - 1 : ToGo(i)' = c)
             <=> (\E i \in 1 .. count - 1 : ToGo(i) = c)
        <3>1. ASSUME NEW i \in 0 .. count' - 1, ToGo(i)' = c
              PROVE  \E k \in 1 .. count - 1 : ToGo(k) = c
            <4>1. i \in 0 .. BufferCount - 2 /\ i + 1 \in 1 .. count - 1
                BY <1>1, <1>4
            <4> QED
                BY <1>6, <3>1, <4>1
        <3>2. ASSUME NEW k \in 1 .. count - 1, ToGo(k) = c
              PROVE  \E i \in 0 .. count' - 1 : ToGo(i)' = c
            <4>1. /\ k - 1 \in 0 .. BufferCount - 2 /\ k - 1 \in 0 .. count' - 1
                  /\ (k - 1) + 1 = k
                BY <1>1, <1>4
            <4> QED
                BY <1>6, <3>2, <4>1
        <3> QED
            BY <3>1, <3>2
    <2>2. CASE c = b
        <3>1. \A i \in 1 .. count - 1 : ToGo(i) # b
            BY <1>1 DEF FifoInv
        <3> QED
            BY <1>2, <1>4, <2>1, <2>2, <3>1 DEF FifoInv, BufferTypeOK
    <2>3. CASE c # b
        <3>1. handles'[c] = handles[c]
            BY <1>4, <2>3 DEF FifoInv, BufferTypeOK
        <3>2. (\E i \in 1 .. count - 1 : ToGo(i) = c)
                 <=> (\E i \in 0 .. count - 1 : ToGo(i) = c)
            BY <1>1, <2>3
        <3> QED
            BY <2>1, <3>1, <3>2 DEF FifoInv
    <2> QED
        BY <2>2, <2>3
<1>10. BufferTypeOK'
    BY <1>1, <1>2, <1>4, <1>5 DEF FifoInv, BufferTypeOK
<1>11. policy' = "FIFO" /\ first_back' \in {0, 1}
    BY <1>4 DEF FifoInv
<1> QED
    BY <1>7, <1>8, <1>9, <1>10, <1>11 DEF FifoInv

\* Free, the queue policy: a buffer that is out is not among the ones to go,
\* so there is a position for it.
LEMMA RoomInQueue ==
    ASSUME FifoInv, NEW b \in Offset, handles[b] > 0
    PROVE  /\ handles[b] = 1
           /\ \A i \in 0 .. count - 1 : ToGo(i) # b
           /\ count < BufferCount
<1> USE BufferPoolAssumption
<1>1. handles[b] = 1 /\ \A i \in 0 .. count - 1 : ToGo(i) # b
    BY DEF FifoInv
<1>2. ASSUME count = BufferCount
      PROVE  FALSE
    <2> DEFINE f == [i \in Offset |-> ToGo(i)]
    <2>1. f \in [Offset -> Offset \ {b}]
        <3>1. \A i \in Offset : ToGo(i) \in Offset \ {b}
            BY <1>1, <1>2, ToGoType DEF Offset
        <3> QED
            BY <3>1
    <2>2. IsFiniteSet(Offset) /\ Cardinality(Offset) = BufferCount
        BY FS_Interval DEF Offset
    <2>3. /\ IsFiniteSet(Offset \ {b})
          /\ Cardinality(Offset \ {b}) = BufferCount - 1
        BY <2>2, FS_RemoveElement
    <2>4. \E i, j \in Offset : i # j /\ f[i] = f[j]
        <3> HIDE DEF f
        <3> QED
            BY <2>1, <2>2, <2>3, FS_PigeonHole
    <2> QED
        BY <1>2, <2>4 DEF FifoInv, Offset
<1> QED
    BY <1>1, <1>2 DEF FifoInv, BufferTypeOK

\* Free, the queue policy: the buffer is the last to go.  The first call stores
\* outside the ring; that it is for offset 0 makes up for it.
LEMMA FreeFIFOKeepsInv ==
    ASSUME FifoInv, NEW b \in Offset, FreeBuffer(b), RingIntact'
    PROVE  FifoInv'
<1> USE BufferPoolAssumption
<1>1. /\ handles[b] = 1
      /\ \A i \in 0 .. count - 1 : ToGo(i) # b
      /\ count \in 0 .. BufferCount - 1 /\ head \in 0 .. BufferCount - 1
      /\ tail \in 0 .. BufferCount
    <2>1. handles[b] > 0
        BY DEF FreeBuffer, GiveBack
    <2>2. /\ handles[b] = 1 /\ count < BufferCount
          /\ \A i \in 0 .. count - 1 : ToGo(i) # b
        BY <2>1, RoomInQueue
    <2>3. /\ count \in 0 .. BufferCount /\ head \in Offset
          /\ tail \in 0 .. BufferCount
        BY DEF FifoInv, BufferTypeOK
    <2> QED
        BY <2>2, <2>3 DEF Offset
<1>2. /\ handles' = [handles EXCEPT ![b] = 0]
      /\ offset_ring' = [i \in Offset |-> IF i = tail THEN b ELSE offset_ring[i]]
      /\ tail' = (tail + 1) % BufferCount
      /\ count' = count + 1 /\ head' = head /\ policy' = policy
      /\ first_back' = IF first_back = 0 THEN b + 1 ELSE first_back
    BY <1>1 DEF FreeBuffer, GiveBack
<1>3. first_back' = 1 /\ policy' = "FIFO"
    BY <1>2 DEF FifoInv, RingIntact, Offset
<1>4. /\ tail' \in Offset
      /\ tail' = Around(head + (count + 1))
      /\ \A i \in 0 .. count - 1 : ToGo(i)' = ToGo(i)
      /\ offset_ring'[Around(head' + count)] = b
    <2>1. CASE first_back = 0
        <3>1. /\ b = 0 /\ tail = BufferCount /\ Around(head + count) = 0
              /\ head + count = BufferCount \/ (head = 0 /\ count = 0)
            BY <1>1, <1>2, <1>3, <2>1 DEF FifoInv, TailInv, Around, Offset
        <3>2. offset_ring' = offset_ring
            BY <1>2, <3>1 DEF FifoInv, BufferTypeOK, Offset
        <3>3. tail' = Around(head + (count + 1)) /\ tail' \in Offset
            <4>1. CASE BufferCount = 1
                <5>1. tail' = 0
                    BY <1>2, <3>1, <4>1
                <5> QED
                    BY <1>1, <3>1, <4>1, <5>1 DEF Around, Offset
            <4>2. CASE BufferCount > 1
                <5>1. BufferCount + 1 \in 0 .. 2 * BufferCount - 1
                    BY <4>2
                <5>2. tail' = 1
                    BY <1>2, <3>1, <4>2, <5>1, AroundIsModulus DEF Around
                <5> QED
                    BY <1>1, <3>1, <4>2, <5>2 DEF Around, Offset
            <4> QED
                BY <4>1, <4>2
        <3>4. offset_ring[0] = 0
            BY <2>1 DEF FifoInv, TailInv, Offset
        <3> QED
            BY <1>2, <3>1, <3>2, <3>3, <3>4 DEF ToGo
    <2>2. CASE first_back # 0
        <3>1. tail = Around(head + count) /\ tail \in 0 .. BufferCount - 1
            BY <1>1, <2>2 DEF FifoInv, TailInv, Around
        <3>2. tail' = Around(tail + 1) /\ tail' \in Offset
            <4>1. tail + 1 \in 0 .. 2 * BufferCount - 1
                BY <3>1
            <4> QED
                BY <1>2, <4>1, AroundIsModulus
        <3>3. tail' = Around(head + (count + 1))
            BY <1>1, <3>1, <3>2 DEF Around
        <3>4. ASSUME NEW i \in 0 .. count - 1
              PROVE  ToGo(i)' = ToGo(i)
            <4>1. Around(head + i) \in Offset /\ Around(head + i) # tail
                BY <1>1, <3>1 DEF Around, Offset
            <4> QED
                BY <1>2, <4>1 DEF ToGo
        <3>5. offset_ring'[Around(head' + count)] = b
            BY <1>2, <3>1 DEF Offset
        <3> QED
            BY <3>2, <3>3, <3>4, <3>5
    <2> QED
        BY <2>1, <2>2
<1>5. TailInv'
    BY <1>2, <1>3, <1>4 DEF TailInv
<1>6. \A i \in {count} : ToGo(i)' = b
    BY <1>4 DEF ToGo
<1>7. ASSUME NEW i \in 0 .. count' - 1, NEW j \in 0 .. count' - 1,
             ToGo(i)' = ToGo(j)'
      PROVE  i = j
    <2>1. i \in 0 .. count - 1 \/ i = count
        BY <1>1, <1>2
    <2>2. j \in 0 .. count - 1 \/ j = count
        BY <1>1, <1>2
    <2> QED
        BY <1>1, <1>4, <1>7, <1>6, <2>1, <2>2 DEF FifoInv
<1>8. ASSUME NEW c \in Offset
      PROVE  handles'[c] = IF \E i \in 0 .. count' - 1 : ToGo(i)' = c THEN 0 ELSE 1
    <2>1. (\E i \in 0 .. count' - 1 : ToGo(i)' = c)
             <=> c = b \/ (\E i \in 0 .. count - 1 : ToGo(i) = c)
        <3>1. 0 .. count' - 1 = (0 .. count - 1) \cup {count}
            BY <1>1, <1>2
        <3>2. ASSUME NEW i \in 0 .. count' - 1, ToGo(i)' = c
              PROVE  c = b \/ (\E k \in 0 .. count - 1 : ToGo(k) = c)
            BY <1>4, <1>6, <3>1, <3>2
        <3>3. ASSUME NEW k \in 0 .. count - 1, ToGo(k) = c
              PROVE  \E i \in 0 .. count' - 1 : ToGo(i)' = c
            BY <1>4, <3>1, <3>3
        <3>4. \E i \in 0 .. count' - 1 : ToGo(i)' = b
            BY <1>6, <3>1
        <3> QED
            BY <3>2, <3>3, <3>4
    <2>2. CASE c = b
        BY <1>2, <2>1, <2>2 DEF FifoInv, BufferTypeOK
    <2>3. CASE c # b
        <3>1. handles'[c] = handles[c]
            BY <1>2, <2>3 DEF FifoInv, BufferTypeOK
        <3> QED
            BY <2>1, <2>3, <3>1 DEF FifoInv
    <2> QED
        BY <2>2, <2>3
<1>9. BufferTypeOK'
    <2>1. handles' \in [Offset -> Nat] /\ offset_ring' \in [Offset -> Offset]
        BY <1>2 DEF FifoInv, BufferTypeOK
    <2>2. count' \in 0 .. BufferCount /\ tail' \in 0 .. BufferCount
        BY <1>1, <1>2, <1>4 DEF Offset
    <2> QED
        BY <1>2, <1>3, <2>1, <2>2 DEF FifoInv, BufferTypeOK
<1> QED
    BY <1>3, <1>5, <1>7, <1>8, <1>9 DEF FifoInv

\* While the ring is intact, one of the two invariants holds.
LEMMA PoolInvariant == BufferSpec => [](RingIntact => LifoInv \/ FifoInv)
<1> DEFINE Inv == RingIntact => LifoInv \/ FifoInv
<1>1. BufferPoolInit => Inv
    <2> SUFFICES ASSUME BufferPoolInit
                 PROVE  LifoInv \/ FifoInv
        OBVIOUS
    <2>1. BufferTypeOK /\ \A i \in Offset : offset_ring[i] = i
        BY BufferPoolAssumption DEF BufferPoolInit, BufferTypeOK, Offset
    <2>2. CASE policy # "FIFO"
        BY <2>1, <2>2, BufferPoolAssumption DEF BufferPoolInit, LifoInv, FreeStack, Offset
    <2>3. CASE policy = "FIFO"
        <3>1. \A i \in 0 .. count - 1 : ToGo(i) = i
            BY <2>1, BufferPoolAssumption DEF BufferPoolInit, ToGo, Around, Offset
        <3>2. \A b \in Offset : b \in 0 .. count - 1 /\ handles[b] = 0
            BY DEF BufferPoolInit, Offset
        <3>3. TailInv
            BY <2>1, BufferPoolAssumption DEF BufferPoolInit, TailInv
        <3>4. first_back = 0
            BY DEF BufferPoolInit
        <3> QED
            BY <2>1, <2>3, <3>1, <3>2, <3>3, <3>4 DEF FifoInv
    <2> QED
        BY <2>2, <2>3
<1>2. Inv /\ [BufferNext]_bufferVars => Inv'
    <2> SUFFICES ASSUME Inv, [BufferNext]_bufferVars, RingIntact'
                 PROVE  (LifoInv \/ FifoInv)'
        OBVIOUS
    <2>1. CASE UNCHANGED bufferVars
        BY <2>1 DEF RingIntact, LifoInv, FifoInv, TailInv, ToGo, Around, BufferTypeOK,
                    FreeStack, bufferVars
    <2>2. CASE BufferNext
        <3>1. RingIntact
            BY <2>2 DEF BufferNext, AllocateFIFO, AllocateLIFO, FreeBuffer, GiveBack, RingIntact
        <3>2. CASE LifoInv
            BY <2>2, <3>2, AllocateLIFOKeepsInv, FreeBufferKeepsInv
            DEF BufferNext, AllocateFIFO, LifoInv
        <3>3. CASE FifoInv
            BY <2>2, <3>3, AllocateFIFOKeepsInv, FreeFIFOKeepsInv
            DEF BufferNext, AllocateLIFO, FifoInv
        <3> QED
            BY <3>1, <3>2, <3>3
    <2> QED
        BY <2>1, <2>2
<1> QED
    BY <1>1, <1>2, PTL DEF BufferSpec

\* In a LocalBufferPool of any size no buffer is handed to two owners, under
\* LIFO always, and under FIFO if offset 0 is the first that Free is given.
THEOREM IntactPoolSafe == BufferSpec => []NoSharedWhileIntact
<1>1. (RingIntact => LifoInv \/ FifoInv) => NoSharedWhileIntact
    BY DEF LifoInv, FifoInv, FreeStack, NoSharedBuffer, NoSharedWhileIntact
<1> QED
    BY <1>1, PoolInvariant, PTL

\* Under the same condition count_ never wraps below zero nor exceeds the ring,
\* and head_ and tail_ stay where they may be.
THEOREM IntactPoolPointers == BufferSpec => [](RingIntact => BufferTypeOK)
<1>1. (RingIntact => LifoInv \/ FifoInv) => (RingIntact => BufferTypeOK)
    BY DEF LifoInv, FifoInv
<1> QED
    BY <1>1, PoolInvariant, PTL

\* With a policy that is not FIFO the part of offset_ring_ below count_ is a
\* stack of the free offsets, and Free always stores inside the ring.
THEOREM LifoIsStack == BufferSpec => []StackOfFree
<1>1. (RingIntact => LifoInv \/ FifoInv) => StackOfFree
    BY DEF LifoInv, FifoInv, RingIntact, StackOfFree
<1> QED
    BY <1>1, PoolInvariant, PTL
=============================================================================
