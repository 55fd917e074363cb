-------------------------- MODULE ConnectionProofs --------------------------
(***************************************************************************)
(* The bookkeeping of the send queue of a Connection, for every depth,     *)
(* signal interval, size of completion queue and mix of lists: the counter *)
(* outstanding_signaled_ is exact, a full queue always has a completion to *)
(* come, and a connection that is made again starts afresh.                *)
(***************************************************************************)
EXTENDS Connection, FiniteSetTheorems, SequenceTheorems, TLAPS

\* A work request in the send queue, as ConnectionTypeOK has it.
Wr == [signaled : BOOLEAN, completes : BOOLEAN]

\* Until the queue pair is ready to send nothing is posted to it and nothing
\* counted, and a connected Connection has one that was ready.
FreshUntilReady ==
    /\ state = "CONNECTED" => qp \in {"RTS", "ERR"}
    /\ qp \notin {"RTS", "ERR"} => sq = << >> /\ done = 0 /\ counters = FreshCounters

----------------------------------------------------------------------------

\* The positions of the signaled requests in a send queue.
SignaledIn(s) == {i \in 1 .. Len(s) : s[i].signaled}

\* There are at most as many of them as requests.
LEMMA SignaledFinite ==
    ASSUME NEW s \in Seq(Wr)
    PROVE  /\ IsFiniteSet(SignaledIn(s)) /\ Cardinality(SignaledIn(s)) \in Nat
           /\ Cardinality(SignaledIn(s)) <= Len(s)
<1>0. Len(s) \in Nat
    BY LenProperties
<1>1. IsFiniteSet(1 .. Len(s)) /\ Cardinality(1 .. Len(s)) = Len(s)
    BY <1>0, FS_Interval, SMTT(30)
<1>2. SignaledIn(s) \in SUBSET (1 .. Len(s))
    BY DEF SignaledIn
<1> QED
    BY <1>1, <1>2, FS_Subset, FS_CardinalityType

\* A post of n work requests of which the last asks ShouldSignal.
Batch(n, signal) == [i \in 1 .. n |-> Request(i = n /\ signal)]

\* The requests of a post are work requests, and only the last may be signaled.
LEMMA BatchType ==
    ASSUME NEW n \in Nat \ {0}, NEW signal \in BOOLEAN
    PROVE  /\ Batch(n, signal) \in Seq(Wr) /\ Len(Batch(n, signal)) = n
           /\ \A i \in 1 .. n : Batch(n, signal)[i].signaled <=> (i = n /\ signal)
           /\ \A i \in 1 .. n : Batch(n, signal)[i].completes <=> (i = n /\ signal)
<1>1. \A i \in 1 .. n : Request(i = n /\ signal) \in Wr
    BY DEF Request, Wr
<1>2. Batch(n, signal) \in [1 .. n -> Wr]
    BY <1>1 DEF Batch
<1>3. Batch(n, signal) \in Seq(Wr) /\ Len(Batch(n, signal)) = n
    BY <1>2
<1>4. \A i \in 1 .. n : Batch(n, signal)[i] = Request(i = n /\ signal)
    BY DEF Batch
<1>5. \A b : Request(b).signaled = b /\ Request(b).completes = b
    BY DEF Request
<1> QED
    BY <1>3, <1>4, <1>5, Zenon

\* A post adds one signaled request if ShouldSignal said so, else none.
LEMMA SignaledAfterPost ==
    ASSUME NEW s \in Seq(Wr), NEW n \in Nat \ {0}, NEW signal \in BOOLEAN
    PROVE  LET t == s \o Batch(n, signal)
           IN  /\ SignaledIn(t) = IF signal THEN SignaledIn(s) \cup {Len(s) + n}
                                            ELSE SignaledIn(s)
               /\ Cardinality(SignaledIn(t)) =
                      IF signal THEN Cardinality(SignaledIn(s)) + 1
                                ELSE Cardinality(SignaledIn(s))
<1> DEFINE t == s \o Batch(n, signal)
<1>1. /\ Len(s) \in Nat /\ Len(t) = Len(s) + n
      /\ \A i \in 1 .. Len(s) + n :
            t[i] = IF i <= Len(s) THEN s[i] ELSE Batch(n, signal)[i - Len(s)]
    <2>1. Batch(n, signal) \in Seq(Wr) /\ Len(Batch(n, signal)) = n
        BY BatchType
    <2>2. Len(s) \in Nat
        BY LenProperties
    <2> QED
        BY <2>1, <2>2, ConcatProperties
<1>2. \A i \in 1 .. Len(s) + n :
          t[i].signaled <=> (i \in SignaledIn(s) \/ (i = Len(s) + n /\ signal))
    <2>1. ASSUME NEW i \in 1 .. Len(s) + n, i <= Len(s)
          PROVE  t[i] = s[i] /\ i \in 1 .. Len(s) /\ i # Len(s) + n
        BY <1>1, <2>1
    <2>2. ASSUME NEW i \in 1 .. Len(s) + n, ~(i <= Len(s))
          PROVE  /\ t[i] = Batch(n, signal)[i - Len(s)] /\ i - Len(s) \in 1 .. n
                 /\ i \notin 1 .. Len(s) /\ (i = Len(s) + n <=> i - Len(s) = n)
        BY <1>1, <2>2
    <2> QED
        BY <2>1, <2>2, BatchType DEF SignaledIn
<1>3. SignaledIn(t) = IF signal THEN SignaledIn(s) \cup {Len(s) + n} ELSE SignaledIn(s)
    <2>1. \A i : i \in SignaledIn(t)
                    <=> (i \in SignaledIn(s) \/ (i = Len(s) + n /\ signal))
        <3>1. \A i \in SignaledIn(s) : i \in 1 .. Len(s) + n
            BY <1>1 DEF SignaledIn
        <3>2. Len(s) + n \in 1 .. Len(s) + n
            BY <1>1
        <3> QED
            BY <1>1, <1>2, <3>1, <3>2 DEF SignaledIn
    <2> QED
        BY <2>1
<1>4. Len(s) + n \notin SignaledIn(s)
    BY <1>1 DEF SignaledIn
<1> QED
    BY <1>3, <1>4, SignaledFinite, FS_AddElement

\* A completion takes its request and the unsignaled ones before it away, and
\* with them at most one signaled request.
LEMMA SignaledAfterDrop ==
    ASSUME NEW s \in Seq(Wr), NEW i \in 1 .. Len(s),
           \A j \in 1 .. i - 1 : ~s[j].signaled
    PROVE  LET t == SubSeq(s, i + 1, Len(s))
           IN  /\ t \in Seq(Wr) /\ Len(t) = Len(s) - i
               /\ \A j \in 1 .. Len(t) : t[j] = s[j + i]
               /\ Cardinality(SignaledIn(t)) =
                      IF s[i].signaled THEN Cardinality(SignaledIn(s)) - 1
                                       ELSE Cardinality(SignaledIn(s))
<1> DEFINE t == SubSeq(s, i + 1, Len(s))
           rest == SignaledIn(s) \ {i}
           f == [j \in SignaledIn(t) |-> j + i]
<1>1. Len(s) \in Nat /\ i \in Nat /\ i <= Len(s) /\ \A j \in 1 .. Len(s) : s[j] \in Wr
    BY LenProperties, ElementOfSeq
<1>2. /\ t \in Seq(Wr) /\ Len(t) = Len(s) - i
      /\ \A j \in 1 .. Len(t) : t[j] = s[j + i]
    <2>1. \A j \in i + 1 .. Len(s) : s[j] \in Wr
        BY <1>1
    <2>2. /\ t \in Seq(Wr)
          /\ Len(t) = IF i + 1 <= Len(s) THEN Len(s) - (i + 1) + 1 ELSE 0
          /\ \A j \in 1 .. Len(s) - (i + 1) + 1 : t[j] = s[(i + 1) + j - 1]
        BY <1>1, <2>1, i + 1 \in Int, SubSeqProperties
    <2> QED
        BY <1>1, <2>2
<1>3. \A j \in SignaledIn(t) : j \in Nat /\ j + i \in rest
    BY <1>1, <1>2 DEF SignaledIn
<1>4. \A k \in rest : k \in Nat /\ k - i \in SignaledIn(t) /\ (k - i) + i = k
    BY <1>1, <1>2 DEF SignaledIn
<1>5. f \in Bijection(SignaledIn(t), rest)
    <2>1. f \in [SignaledIn(t) -> rest]
        BY <1>3
    <2>2. \A j, k \in SignaledIn(t) : f[j] = f[k] => j = k
        BY <1>1, <1>3
    <2>3. \A k \in rest : \E j \in SignaledIn(t) : f[j] = k
        BY <1>4
    <2> QED
        BY <2>1, <2>2, <2>3 DEF Bijection, Injection, Surjection, IsInjective
<1>6. Cardinality(rest) = Cardinality(SignaledIn(t))
    <2>1. IsFiniteSet(SignaledIn(t)) /\ ExistsBijection(SignaledIn(t), rest)
        BY <1>2, <1>5, SignaledFinite DEF ExistsBijection
    <2> QED
        BY <2>1, FS_Bijection
<1>7. i \in SignaledIn(s) <=> s[i].signaled
    BY DEF SignaledIn
<1> QED
    BY <1>2, <1>6, <1>7, SignaledFinite, FS_RemoveElement

----------------------------------------------------------------------------

\* A signaled request that holds a place will complete.
SignaledWillComplete == \A i \in 1 .. Len(sq) : sq[i].signaled => sq[i].completes

\* outstanding_signaled_ counts the signaled requests in the queue, of which
\* there are at most half the completion queue, and each has or will get its
\* completion.
QueueInv ==
    /\ ConnectionTypeOK
    /\ counters.outstanding = Cardinality(SignaledIn(sq))
    /\ counters.outstanding <= CqDepth \div 2
    /\ SignaledWillComplete

\* The types, in the form the provers need them.
LEMMA QueueTypes ==
    ASSUME ConnectionTypeOK
    PROVE  /\ sq \in Seq(Wr) /\ Len(sq) \in Nat /\ DOMAIN sq = 1 .. Len(sq)
           /\ done \in Nat /\ Depth \in Nat /\ Room \in Nat /\ Room = Depth - Len(sq)
           /\ counters.outstanding \in Nat /\ counters.unsignaled \in Nat
<1>1. sq \in Seq(Wr)
    BY DEF ConnectionTypeOK, Wr
<1>2. Len(sq) \in Nat /\ DOMAIN sq = 1 .. Len(sq)
    BY <1>1, LenProperties
<1> QED
    BY <1>1, <1>2, ConnectionAssumption DEF ConnectionTypeOK, Room

\* Work requests n at a time, of which the last one asks ShouldSignal.
Posts(n, signal) ==
    /\ signal = ShouldSignal(counters)
    /\ n <= Room
    /\ sq' = sq \o Batch(n, signal)
    /\ counters' = AfterShouldSignal(counters)
    /\ UNCHANGED <<state, qp, done>>

\* What a post does to the queue and to the counters.
LEMMA PostedQueue ==
    ASSUME ConnectionTypeOK, NEW n \in Nat \ {0}, NEW signal \in BOOLEAN, Posts(n, signal)
    PROVE  /\ sq' \in Seq(Wr) /\ Len(sq') = Len(sq) + n /\ Len(sq') <= Depth
           /\ \A i \in 1 .. Len(sq) : sq'[i] = sq[i]
           /\ \A i \in Len(sq) + 1 .. Len(sq) + n :
                 /\ sq'[i].signaled <=> (i = Len(sq) + n /\ signal)
                 /\ sq'[i].completes <=> (i = Len(sq) + n /\ signal)
           /\ signal => counters.outstanding < CqDepth \div 2
           /\ ~signal => \/ counters.unsignaled + 1 < SignalInterval
                         \/ counters.outstanding >= CqDepth \div 2
           /\ counters'.outstanding = IF signal THEN counters.outstanding + 1
                                                ELSE counters.outstanding
           /\ counters'.unsignaled = IF signal THEN 0 ELSE counters.unsignaled + 1
           /\ counters' \in [unsignaled : Nat, outstanding : Nat]
<1>1. sq \in Seq(Wr) /\ Len(sq) \in Nat /\ Room = Depth - Len(sq) /\ Depth \in Nat
    BY QueueTypes
<1>2. /\ Batch(n, signal) \in Seq(Wr) /\ Len(Batch(n, signal)) = n
      /\ \A i \in 1 .. n : Batch(n, signal)[i].signaled <=> (i = n /\ signal)
      /\ \A i \in 1 .. n : Batch(n, signal)[i].completes <=> (i = n /\ signal)
    BY BatchType
<1> DEFINE t == sq \o Batch(n, signal)
<1>3. /\ t \in Seq(Wr) /\ Len(t) = Len(sq) + n
      /\ \A i \in 1 .. Len(sq) + n :
            t[i] = IF i <= Len(sq) THEN sq[i] ELSE Batch(n, signal)[i - Len(sq)]
    BY <1>1, <1>2, ConcatProperties
<1>4. sq' = t /\ n <= Room
    BY DEF Posts
<1>5. /\ \A i \in 1 .. Len(sq) : t[i] = sq[i]
      /\ \A i \in Len(sq) + 1 .. Len(sq) + n :
            /\ i - Len(sq) \in 1 .. n /\ t[i] = Batch(n, signal)[i - Len(sq)]
            /\ i - Len(sq) = n <=> i = Len(sq) + n
    BY <1>1, <1>3
<1>6. \A i \in Len(sq) + 1 .. Len(sq) + n :
          /\ t[i].signaled <=> (i = Len(sq) + n /\ signal)
          /\ t[i].completes <=> (i = Len(sq) + n /\ signal)
    BY <1>2, <1>5
<1>7. Len(t) <= Depth
    BY <1>1, <1>3, <1>4
<1>8. /\ signal => counters.outstanding < CqDepth \div 2
      /\ ~signal => \/ counters.unsignaled + 1 < SignalInterval
                    \/ counters.outstanding >= CqDepth \div 2
    <2>1. signal <=> ShouldSignal(counters)
        BY DEF Posts
    <2>2. /\ counters.outstanding \in Nat /\ counters.unsignaled \in Nat
          /\ SignalInterval \in Nat /\ (CqDepth \div 2) \in Nat
        BY QueueTypes, SignalingAssumption
    <2> QED
        BY <2>1, <2>2 DEF ShouldSignal, CanPostSignaled
<1>9. counters' = IF signal
                  THEN [unsignaled |-> 0, outstanding |-> counters.outstanding + 1]
                  ELSE [unsignaled |-> counters.unsignaled + 1,
                        outstanding |-> counters.outstanding]
    BY DEF Posts, AfterShouldSignal
<1>10. /\ counters'.outstanding = IF signal THEN counters.outstanding + 1
                                            ELSE counters.outstanding
       /\ counters'.unsignaled = IF signal THEN 0 ELSE counters.unsignaled + 1
       /\ counters' \in [unsignaled : Nat, outstanding : Nat]
    BY <1>9, QueueTypes
<1> QED
    BY <1>3, <1>4, <1>5, <1>6, <1>7, <1>8, <1>10

\* A post counts the request it signals, and signals none beyond the limit.
LEMMA PostKeepsQueueInv ==
    ASSUME QueueInv, NEW n \in Nat \ {0}, NEW signal \in BOOLEAN, Posts(n, signal)
    PROVE  QueueInv'
<1>1. ConnectionTypeOK /\ sq \in Seq(Wr) /\ Len(sq) \in Nat
    BY QueueTypes DEF QueueInv
<1>2. /\ sq' \in Seq(Wr) /\ Len(sq') = Len(sq) + n /\ Len(sq') <= Depth
      /\ \A i \in 1 .. Len(sq) : sq'[i] = sq[i]
      /\ \A i \in Len(sq) + 1 .. Len(sq) + n :
            sq'[i].signaled => sq'[i].completes
      /\ signal => counters.outstanding < CqDepth \div 2
      /\ counters'.outstanding = IF signal THEN counters.outstanding + 1
                                           ELSE counters.outstanding
      /\ counters' \in [unsignaled : Nat, outstanding : Nat]
    BY <1>1, PostedQueue
<1>3. ConnectionTypeOK'
    <2>1. done' \in 0 .. Len(sq')
        BY <1>1, <1>2 DEF ConnectionTypeOK, Posts
    <2> QED
        BY <1>1, <1>2, <2>1 DEF ConnectionTypeOK, Wr, Posts
<1>4. Cardinality(SignaledIn(sq')) =
          IF signal THEN Cardinality(SignaledIn(sq)) + 1 ELSE Cardinality(SignaledIn(sq))
    BY <1>1, SignaledAfterPost DEF Posts
<1>5. /\ counters'.outstanding = Cardinality(SignaledIn(sq'))
      /\ counters'.outstanding <= CqDepth \div 2
    BY <1>1, <1>2, <1>4, SignalingAssumption, QueueTypes DEF QueueInv
<1>6. SignaledWillComplete'
    <2>1. \A i \in 1 .. Len(sq) + n : i \in 1 .. Len(sq) \/ i \in Len(sq) + 1 .. Len(sq) + n
        BY <1>1
    <2> QED
        BY <1>2, <2>1 DEF QueueInv, SignaledWillComplete
<1> QED
    BY <1>3, <1>5, <1>6 DEF QueueInv

\* Send and PostSendSGL, when they are called with room, are such posts.
LEMMA SendIsPost ==
    ASSUME ~PostsWhenFull, ConnectionTypeOK, Send
    PROVE  \E signal \in BOOLEAN : Posts(1, signal)
<1>1. PICK signal \in BOOLEAN : signal = ShouldSignal(counters)
    BY DEF ShouldSignal
<1>2. Room \in Nat /\ Room > 0
    BY QueueTypes DEF Send
<1>3. Batch(1, signal) \in Seq(Wr) /\ Len(Batch(1, signal)) = 1
    BY 1 \in Nat \ {0}, BatchType
<1>4. <<Request(signal)>> = Batch(1, signal)
    <2>1. \A i \in 1 .. 1 : Request(i = 1 /\ signal) = Request(signal)
        BY DEF Request
    <2>2. Batch(1, signal) = [i \in 1 .. 1 |-> Request(signal)]
        BY <2>1 DEF Batch
    <2> QED
        BY <2>2
<1>5. SubSeq(Batch(1, signal), 1, 1) = Batch(1, signal)
    BY <1>3, SubSeqFull
<1>6. Accepted(Batch(1, signal))
    BY <1>1, <1>4 DEF Send
<1>7. sq' = sq \o Batch(1, signal)
    <2> DEFINE one == Batch(1, signal)
    <2> HIDE DEF one
    <2>1. Len(one) = 1 /\ ~(Room < 1)
        BY <1>2, <1>3 DEF one
    <2>2. sq' = sq \o SubSeq(one, 1, IF Room < Len(one) THEN Room ELSE Len(one))
        BY <1>6 DEF Accepted, one
    <2>3. SubSeq(one, 1, 1) = one
        BY <1>5 DEF one
    <2>4. sq' = sq \o one
        BY <2>1, <2>2, <2>3
    <2> QED
        BY <2>4 DEF one
<1> QED
    BY <1>1, <1>2, <1>7 DEF Send, Posts

\* PostSendSGL posts one request per fragment, when the queue has room.
LEMMA PostSendSGLIsPost ==
    ASSUME ~PostsWhenFull, ConnectionTypeOK, NEW iov_count \in ListLengths,
           PostSendSGL(iov_count)
    PROVE  /\ Fragments(iov_count) \in Nat \ {0}
           /\ \E signal \in BOOLEAN : Posts(Fragments(iov_count), signal)
<1> DEFINE n == Fragments(iov_count)
<1>1. PICK signal \in BOOLEAN : signal = ShouldSignal(counters)
    BY DEF ShouldSignal
<1>2. Room \in Nat /\ n \in Nat \ {0} /\ n <= Room
    <2>1. iov_count \in Nat \ {0} /\ MaxSge \in Nat \ {0}
        BY ConnectionAssumption
    <2>2. (iov_count + MaxSge - 1) \div MaxSge \in Nat \ {0}
        BY <2>1
    <2> QED
        BY <2>2, QueueTypes DEF PostSendSGL, Fragments
<1>3. Batch(n, signal) \in Seq(Wr) /\ Len(Batch(n, signal)) = n
    BY <1>2, BatchType
<1>4. SubSeq(Batch(n, signal), 1, n) = Batch(n, signal)
    BY <1>3, SubSeqFull
<1>5. Accepted(Batch(n, signal)) /\ counters' = AfterShouldSignal(counters)
    BY <1>1, <1>2 DEF PostSendSGL, Batch
<1>6. sq' = sq \o Batch(n, signal)
    BY <1>2, <1>3, <1>4, <1>5 DEF Accepted
<1> QED
    BY <1>1, <1>2, <1>5, <1>6 DEF PostSendSGL, Posts

\* Nothing is signaled in an empty queue.
LEMMA EmptyQueue ==
    /\ << >> \in Seq(Wr) /\ Len(<< >>) = 0
    /\ SignaledIn(<< >>) = {} /\ Cardinality(SignaledIn(<< >>)) = 0
    /\ CqDepth \div 2 >= 0
<1>1. << >> \in Seq(Wr) /\ Len(<< >>) = 0
    OBVIOUS
<1>2. SignaledIn(<< >>) = {}
    BY <1>1 DEF SignaledIn
<1> QED
    BY <1>1, <1>2, FS_EmptySet, SignalingAssumption

\* A Connection starts with an empty queue and counters of zero.
LEMMA InitQueueInv ==
    ASSUME ConnectionInit
    PROVE  QueueInv
BY EmptyQueue, ConnectionAssumption
DEF ConnectionInit, QueuePairInit, QueueInv, ConnectionTypeOK, SignaledWillComplete,
    FreshCounters, Wr

\* Reset empties the queue and the counters together.
LEMMA ResetKeepsQueueInv ==
    ASSUME QueueInv, Reset
    PROVE  QueueInv'
BY EmptyQueue, ConnectionAssumption
DEF Reset, QueueInv, ConnectionTypeOK, SignaledWillComplete, FreshCounters, Wr

\* What leaves the queue and the counters alone.
LEMMA QueueUntouched ==
    ASSUME QueueInv, UNCHANGED <<counters, sq>>, done' \in 0 .. Len(sq),
           state' \in {"DISCONNECTED", "CONNECTED", "ERROR"},
           qp' \in {"RESET", "INIT", "RTR", "RTS", "ERR"}
    PROVE  QueueInv'
BY DEF QueueInv, ConnectionTypeOK, SignaledWillComplete, SignaledIn

\* The transitions of Connect change neither queue nor counters.
LEMMA ConnectKeepsQueueInv ==
    ASSUME QueueInv, NEW n \in 0 .. 3, Connect(n)
    PROVE  QueueInv'
<1>1. n = 0 \/ n = 1 \/ n = 2 \/ n = 3
    OBVIOUS
<1>2. qp' \in {"RESET", "INIT", "RTR", "RTS", "ERR"}
    BY <1>1 DEF Connect, Transitions, QueueInv, ConnectionTypeOK
<1>3. /\ UNCHANGED <<counters, sq>> /\ done' \in 0 .. Len(sq)
      /\ state' \in {"DISCONNECTED", "CONNECTED", "ERROR"}
    BY DEF Connect, QueueInv, ConnectionTypeOK
<1> QED
    BY <1>2, <1>3, QueueUntouched

\* Disconnect and the NIC change no request's place and no counter.
LEMMA NicKeepsQueueInv ==
    ASSUME QueueInv, Disconnect \/ NicExecutes \/ NicFails
    PROVE  QueueInv'
<1>1. /\ UNCHANGED <<counters, sq>>
      /\ state' \in {"DISCONNECTED", "CONNECTED", "ERROR"}
      /\ qp' \in {"RESET", "INIT", "RTR", "RTS", "ERR"}
    BY DEF Disconnect, NicExecutes, NicFails, TransitionToError, QueueInv, ConnectionTypeOK
<1>2. done' \in 0 .. Len(sq)
    BY QueueTypes DEF Disconnect, NicExecutes, NicFails, QueueInv, ConnectionTypeOK
<1> QED
    BY <1>1, <1>2, QueueUntouched

\* After a failure every request gets a completion, signaled or not.
LEMMA FlushKeepsQueueInv ==
    ASSUME QueueInv, NicFlushes
    PROVE  QueueInv'
<1>1. sq \in Seq(Wr) /\ Len(sq) \in Nat /\ DOMAIN sq = 1 .. Len(sq) /\ done \in Nat
    BY QueueTypes DEF QueueInv
<1>2. \A i \in 1 .. Len(sq) : sq[i] \in Wr
    BY <1>1, ElementOfSeq
<1>3. ASSUME NEW i \in 1 .. Len(sq)
      PROVE  /\ sq'[i] \in Wr /\ sq'[i].signaled = sq[i].signaled
             /\ sq'[i].signaled => sq'[i].completes
    <2>1. sq'[i] = [sq[i] EXCEPT !.completes = @ \/ i > done]
        BY <1>1 DEF NicFlushes
    <2>2. sq'[i] = [signaled |-> sq[i].signaled, completes |-> sq[i].completes \/ i > done]
        BY <1>2, <2>1 DEF Wr
    <2>3. sq[i].signaled => sq[i].completes
        BY DEF QueueInv, SignaledWillComplete
    <2> QED
        BY <1>2, <2>2, <2>3 DEF Wr
<1>4. sq' \in Seq(Wr) /\ Len(sq') = Len(sq)
    <2>1. sq' \in [1 .. Len(sq) -> Wr]
        BY <1>1, <1>3 DEF NicFlushes
    <2> QED
        BY <1>1, <2>1
<1>5. SignaledIn(sq') = SignaledIn(sq)
    BY <1>3, <1>4 DEF SignaledIn
<1>6. SignaledWillComplete'
    BY <1>3, <1>4 DEF SignaledWillComplete
<1>7. ConnectionTypeOK'
    BY <1>1, <1>4 DEF NicFlushes, QueueInv, ConnectionTypeOK, Wr
<1> QED
    BY <1>5, <1>6, <1>7 DEF QueueInv, NicFlushes

\* PollSendCQ drops a prefix whose last request is the only one to complete.
LEMMA PolledQueue ==
    ASSUME QueueInv, PollSendCQ
    PROVE  \E i \in 1 .. Len(sq) :
              /\ i <= done /\ done' = done - i
              /\ \A j \in 1 .. i - 1 : ~sq[j].signaled
              /\ sq' = SubSeq(sq, i + 1, Len(sq))
              /\ OnSendComplete(sq[i].signaled)
              /\ UNCHANGED <<state, qp>>
<1>1. PICK i \in 1 .. done :
          /\ \A j \in 1 .. i - 1 : ~sq[j].completes
          /\ sq' = SubSeq(sq, i + 1, Len(sq))
          /\ done' = done - i
          /\ OnSendComplete(sq[i].signaled)
          /\ UNCHANGED <<state, qp>>
    BY DEF PollSendCQ
<1>2. i \in 1 .. Len(sq) /\ i <= done /\ \A j \in 1 .. i - 1 : j \in 1 .. Len(sq)
    BY QueueTypes DEF QueueInv, ConnectionTypeOK
<1>3. \A j \in 1 .. i - 1 : ~sq[j].signaled
    BY <1>1, <1>2 DEF QueueInv, SignaledWillComplete
<1> QED
    BY <1>1, <1>2, <1>3

\* A reported completion of a signaled request is taken off the counter.
LEMMA PollKeepsQueueInv ==
    ASSUME Reports, QueueInv, PollSendCQ
    PROVE  QueueInv'
<1>1. PICK i \in 1 .. Len(sq) :
          /\ i <= done /\ done' = done - i
          /\ \A j \in 1 .. i - 1 : ~sq[j].signaled
          /\ sq' = SubSeq(sq, i + 1, Len(sq))
          /\ OnSendComplete(sq[i].signaled)
          /\ UNCHANGED <<state, qp>>
    BY PolledQueue
<1>2. sq \in Seq(Wr) /\ Len(sq) \in Nat /\ done \in Nat /\ counters.outstanding \in Nat
    BY QueueTypes DEF QueueInv
<1> DEFINE t == SubSeq(sq, i + 1, Len(sq))
<1>3. /\ t \in Seq(Wr) /\ Len(t) = Len(sq) - i
      /\ \A j \in 1 .. Len(t) : t[j] = sq[j + i]
      /\ Cardinality(SignaledIn(t)) =
             IF sq[i].signaled THEN Cardinality(SignaledIn(sq)) - 1
                               ELSE Cardinality(SignaledIn(sq))
    BY <1>1, <1>2, SignaledAfterDrop
<1>4. Cardinality(SignaledIn(t)) \in Nat
    BY <1>3, SignaledFinite
<1>5. /\ counters'.outstanding = IF sq[i].signaled THEN counters.outstanding - 1
                                                   ELSE counters.outstanding
      /\ counters'.unsignaled = counters.unsignaled
      /\ counters' \in [unsignaled : Int, outstanding : Int]
    <2>1. counters \in [unsignaled : Nat, outstanding : Nat]
        BY DEF QueueInv, ConnectionTypeOK
    <2>2. CASE sq[i].signaled
        <3>1. counters' = [counters EXCEPT !.outstanding = counters.outstanding - 1]
            BY <1>1, <2>2 DEF OnSendComplete
        <3> QED
            BY <2>1, <2>2, <3>1
    <2>3. CASE ~sq[i].signaled
        <3>1. counters' = counters
            BY <1>1, <2>3 DEF OnSendComplete
        <3> QED
            BY <2>1, <2>3, <3>1
    <2> QED
        BY <2>2, <2>3
<1>6. /\ counters'.outstanding = Cardinality(SignaledIn(t))
      /\ counters'.outstanding <= CqDepth \div 2
    BY <1>2, <1>3, <1>5, SignalingAssumption DEF QueueInv
<1>7. counters' \in [unsignaled : Nat, outstanding : Nat]
    BY <1>4, <1>5, <1>6, QueueTypes DEF QueueInv
<1>8. Len(t) <= Depth /\ done' \in 0 .. Len(t)
    BY <1>1, <1>2, <1>3, ConnectionAssumption DEF QueueInv, ConnectionTypeOK
<1>9. \A j \in 1 .. Len(t) : t[j].signaled => t[j].completes
    <2>1. \A j \in 1 .. Len(t) : j + i \in 1 .. Len(sq)
        BY <1>2, <1>3
    <2> QED
        BY <1>3, <2>1 DEF QueueInv, SignaledWillComplete
<1> HIDE DEF t
<1>10. sq' = t
    BY <1>1 DEF t
<1>11. ConnectionTypeOK'
    BY <1>1, <1>3, <1>7, <1>8, <1>10 DEF QueueInv, ConnectionTypeOK, Wr
<1> QED
    BY <1>6, <1>9, <1>10, <1>11 DEF QueueInv, SignaledWillComplete

----------------------------------------------------------------------------

\* How many requests may follow the last signaled one: F for each post while
\* the interval is not over; once it is over, the limit on signaled requests was
\* reached, and half the completion queue of them are before the tail.
TailBound(F) ==
    IF counters.unsignaled < SignalInterval
    THEN counters.unsignaled * F
    ELSE Depth - CqDepth \div 2

\* The requests since the last signaled one.
TailBounded(F) ==
    \A p \in 0 .. Len(sq) :
        (\A i \in p + 1 .. Len(sq) : ~sq[i].signaled) => Len(sq) - p <= TailBound(F)

\* A post that is not signaled lengthens the tail within its bound.
LEMMA PostKeepsTail ==
    ASSUME QueueInv, SignalInterval > 0, NEW F \in Nat, TailBounded(F),
           NEW n \in Nat \ {0}, n <= F, NEW signal \in BOOLEAN, Posts(n, signal)
    PROVE  TailBounded(F)'
<1> DEFINE u == counters.unsignaled
           half == CqDepth \div 2
<1>1. /\ sq \in Seq(Wr) /\ Len(sq) \in Nat /\ u \in Nat /\ counters.outstanding \in Nat
      /\ half \in Nat /\ Depth \in Nat /\ SignalInterval \in Nat
    BY QueueTypes, SignalingAssumption DEF QueueInv
<1>2. /\ sq' \in Seq(Wr) /\ Len(sq') = Len(sq) + n /\ Len(sq') <= Depth
      /\ \A i \in 1 .. Len(sq) : sq'[i] = sq[i]
      /\ \A i \in Len(sq) + 1 .. Len(sq) + n :
             sq'[i].signaled <=> (i = Len(sq) + n /\ signal)
      /\ ~signal => u + 1 < SignalInterval \/ counters.outstanding >= half
      /\ counters'.unsignaled = IF signal THEN 0 ELSE u + 1
    BY PostedQueue DEF QueueInv
<1>3. SUFFICES ASSUME NEW p \in 0 .. Len(sq'),
                      \A i \in p + 1 .. Len(sq') : ~sq'[i].signaled
               PROVE  Len(sq') - p <= TailBound(F)'
    BY DEF TailBounded
<1>4. CASE signal
    <2>1. p = Len(sq')
        <3>1. sq'[Len(sq')].signaled
            BY <1>1, <1>2, <1>4
        <3> QED
            BY <1>1, <1>2, <1>3, <3>1
    <2>2. TailBound(F)' = 0
        <3>1. TailBound(F)' = 0 * F
            BY <1>1, <1>2, <1>4 DEF TailBound
        <3> QED
            BY <3>1
    <2> QED
        BY <1>1, <1>2, <2>1, <2>2
<1>5. CASE ~signal /\ u + 1 < SignalInterval
    <2>1. TailBound(F)' = (u + 1) * F
        BY <1>2, <1>5 DEF TailBound
    <2>2. (u + 1) * F = u * F + F /\ u * F \in Nat
        BY <1>1
    <2>3. CASE p <= Len(sq)
        <3>1. \A i \in p + 1 .. Len(sq) : ~sq[i].signaled
            BY <1>1, <1>2, <1>3
        <3>2. Len(sq) - p <= u * F
            <4>1. TailBound(F) = u * F
                BY <1>1, <1>5 DEF TailBound
            <4>2. p \in 0 .. Len(sq)
                BY <1>1, <1>2, <2>3
            <4> QED
                BY <3>1, <4>1, <4>2 DEF TailBounded
        <3> QED
            BY <1>1, <1>2, <2>1, <2>2, <3>2, SMTT(30)
    <2>4. CASE p > Len(sq)
        BY <1>1, <1>2, <2>1, <2>2, <2>4, SMTT(30)
    <2> QED
        BY <1>1, <2>3, <2>4, SMTT(30)
<1>6. CASE ~signal /\ ~(u + 1 < SignalInterval)
    <2>1. TailBound(F)' = Depth - half
        BY <1>2, <1>6 DEF TailBound
    <2>2. Cardinality(SignaledIn(sq')) >= half
        BY <1>1, <1>2, <1>6, SignaledAfterPost DEF QueueInv, Posts
    <2>3. SignaledIn(sq') \in SUBSET (1 .. p)
        BY <1>1, <1>2, <1>3 DEF SignaledIn
    <2>4. Cardinality(SignaledIn(sq')) <= p
        <3>1. p \in Nat
            BY <1>1, <1>2
        <3>2. IsFiniteSet(1 .. p) /\ Cardinality(1 .. p) = p
            BY <3>1, FS_Interval
        <3> QED
            BY <2>3, <3>2, FS_Subset
    <2>5. Cardinality(SignaledIn(sq')) \in Nat
        BY <1>2, SignaledFinite
    <2> QED
        BY <1>1, <1>2, <2>1, <2>2, <2>4, <2>5
<1> QED
    BY <1>4, <1>5, <1>6

\* A completion shortens the queue from the front.
LEMMA PollKeepsTail ==
    ASSUME QueueInv, NEW F \in Nat, TailBounded(F), PollSendCQ
    PROVE  TailBounded(F)'
<1>1. PICK i \in 1 .. Len(sq) :
          /\ \A j \in 1 .. i - 1 : ~sq[j].signaled
          /\ sq' = SubSeq(sq, i + 1, Len(sq))
          /\ OnSendComplete(sq[i].signaled)
    BY PolledQueue
<1>2. sq \in Seq(Wr) /\ Len(sq) \in Nat
    BY QueueTypes DEF QueueInv
<1> DEFINE t == SubSeq(sq, i + 1, Len(sq))
<1>3. /\ t \in Seq(Wr) /\ Len(t) = Len(sq) - i
      /\ \A j \in 1 .. Len(t) : t[j] = sq[j + i]
    BY <1>1, <1>2, SignaledAfterDrop
<1> HIDE DEF t
<1>4. sq' = t
    BY <1>1 DEF t
<1>5. TailBound(F)' = TailBound(F)
    <2>1. counters'.unsignaled = counters.unsignaled
        BY <1>1 DEF OnSendComplete, QueueInv, ConnectionTypeOK
    <2> QED
        BY <2>1 DEF TailBound
<1>6. ASSUME NEW p \in 0 .. Len(t), \A j \in p + 1 .. Len(t) : ~t[j].signaled
      PROVE  Len(t) - p <= TailBound(F)
    <2>1. p + i \in 0 .. Len(sq) /\ Len(t) - p = Len(sq) - (p + i)
        BY <1>2, <1>3
    <2>2. \A k \in (p + i) + 1 .. Len(sq) : ~sq[k].signaled
        <3>1. ASSUME NEW k \in (p + i) + 1 .. Len(sq)
              PROVE  ~sq[k].signaled
            <4>1. k - i \in p + 1 .. Len(t) /\ k - i \in 1 .. Len(t) /\ (k - i) + i = k
                BY <1>2, <1>3, <3>1
            <4> QED
                BY <1>3, <1>6, <4>1
        <3> QED
            BY <3>1
    <2> QED
        BY <2>1, <2>2 DEF TailBounded
<1> QED
    BY <1>4, <1>5, <1>6 DEF TailBounded

\* Steps that keep the queue's requests keep the bound.
LEMMA QuietKeepsTail ==
    ASSUME ConnectionTypeOK, NEW F \in Nat, TailBounded(F),
           Len(sq') = Len(sq), counters' = counters,
           \A i \in 1 .. Len(sq) : sq'[i].signaled = sq[i].signaled
    PROVE  TailBounded(F)'
<1>1. TailBound(F)' = TailBound(F)
    BY DEF TailBound
<1>2. \A p \in 0 .. Len(sq) : \A i \in p + 1 .. Len(sq) : i \in 1 .. Len(sq)
    BY QueueTypes
<1> QED
    BY <1>1, <1>2 DEF TailBounded

\* An empty queue has no tail.
LEMMA FreshTail ==
    ASSUME SignalInterval > 0, NEW F \in Nat, sq = << >>, counters = FreshCounters
    PROVE  TailBounded(F)
<1>1. TailBound(F) = 0
    <2>1. TailBound(F) = 0 * F
        BY SignalingAssumption DEF TailBound, FreshCounters
    <2> QED
        BY <2>1
<1>2. Len(sq) = 0
    OBVIOUS
<1> QED
    BY <1>1, <1>2 DEF TailBounded

----------------------------------------------------------------------------

\* Every step keeps QueueInv when completions are reported and no post is made
\* to a full queue.
LEMMA NextKeepsQueueInv ==
    ASSUME Reports, ~PostsWhenFull, QueueInv, [ConnectionNext]_connectionVars
    PROVE  QueueInv'
<1>1. CASE \E n \in 0 .. 3 : Connect(n)
    BY <1>1, ConnectKeepsQueueInv
<1>2. CASE Disconnect \/ NicExecutes \/ NicFails
    BY <1>2, NicKeepsQueueInv
<1>3. CASE Reset
    BY <1>3, ResetKeepsQueueInv
<1>4. CASE Send
    BY <1>4, 1 \in Nat \ {0}, SendIsPost, PostKeepsQueueInv DEF QueueInv
<1>5. CASE \E iov_count \in ListLengths : PostSendSGL(iov_count)
    BY <1>5, PostSendSGLIsPost, PostKeepsQueueInv DEF QueueInv
<1>6. CASE NicFlushes
    BY <1>6, FlushKeepsQueueInv
<1>7. CASE PollSendCQ
    BY <1>7, PollKeepsQueueInv
<1>8. CASE UNCHANGED connectionVars
    BY <1>8, QueueUntouched DEF connectionVars, QueueInv, ConnectionTypeOK
<1> QED
    BY <1>1, <1>2, <1>3, <1>4, <1>5, <1>6, <1>7, <1>8 DEF ConnectionNext

\* Every step keeps the bound on the tail when no post has more than F requests.
LEMMA NextKeepsTail ==
    ASSUME ~PostsWhenFull, SignalInterval > 0, NEW F \in Nat \ {0},
           \A n \in ListLengths : Fragments(n) <= F,
           QueueInv, TailBounded(F), [ConnectionNext]_connectionVars
    PROVE  TailBounded(F)'
<1>1. CASE \/ \E n \in 0 .. 3 : Connect(n)
           \/ Disconnect \/ NicExecutes \/ NicFails \/ UNCHANGED connectionVars
    BY <1>1, QuietKeepsTail
    DEF Connect, Disconnect, NicExecutes, NicFails, connectionVars, QueueInv
<1>2. CASE Reset
    BY <1>2, FreshTail DEF Reset, FreshCounters, TailBounded, TailBound
<1>3. CASE Send
    BY <1>3, 1 \in Nat \ {0}, 1 <= F, SendIsPost, PostKeepsTail DEF QueueInv
<1>4. CASE \E iov_count \in ListLengths : PostSendSGL(iov_count)
    BY <1>4, PostSendSGLIsPost, PostKeepsTail DEF QueueInv
<1>5. CASE NicFlushes
    <2>1. sq \in Seq(Wr) /\ Len(sq) \in Nat /\ DOMAIN sq = 1 .. Len(sq)
        BY QueueTypes DEF QueueInv
    <2>2. \A i \in 1 .. Len(sq) : sq[i] \in Wr
        BY <2>1, ElementOfSeq
    <2>3. Len(sq') = Len(sq) /\ counters' = counters
        BY <1>5, <2>1 DEF NicFlushes
    <2>4. \A i \in 1 .. Len(sq) : sq'[i].signaled = sq[i].signaled
        BY <1>5, <2>1, <2>2 DEF NicFlushes, Wr
    <2> QED
        BY <2>3, <2>4, QuietKeepsTail DEF QueueInv
<1>6. CASE PollSendCQ
    BY <1>6, PollKeepsTail
<1> QED
    BY <1>1, <1>2, <1>3, <1>4, <1>5, <1>6 DEF ConnectionNext

\* For every queue depth, signal interval and completion queue: when completions
\* are reported and posts are made with room, outstanding_signaled_ is exact.
THEOREM OutstandingIsExact ==
    ASSUME Reports, ~PostsWhenFull
    PROVE  ConnectionSpec => []OutstandingExact
<1>1. ConnectionInit => QueueInv
    BY InitQueueInv
<1>2. QueueInv /\ [ConnectionNext]_connectionVars => QueueInv'
    BY NextKeepsQueueInv
<1>3. QueueInv => OutstandingExact
    BY QueueTypes DEF QueueInv, OutstandingExact, SignaledIn
<1> QED
    BY <1>1, <1>2, <1>3, PTL DEF ConnectionSpec

\* When a post of any list finds no room, a completion is under way that will
\* make some: PostSendSGL cannot leave the sender stuck.  This needs an interval
\* in which the queue does not fill up with unsignaled fragments, and a limit of
\* ShouldSignal that leaves room for one list more.
THEOREM CompletionAlwaysToCome ==
    ASSUME Reports, ~PostsWhenFull, SignalInterval > 0,
           NEW F \in Nat \ {0}, \A n \in ListLengths : Fragments(n) <= F,
           SignalInterval * F <= Depth, F <= CqDepth \div 2
    PROVE  ConnectionSpec => []CompletionToCome
<1> DEFINE Inv == QueueInv /\ TailBounded(F)
<1>1. ConnectionInit => Inv
    BY InitQueueInv, FreshTail DEF ConnectionInit, QueuePairInit
<1>2. Inv /\ [ConnectionNext]_connectionVars => Inv'
    BY NextKeepsQueueInv, NextKeepsTail
<1>3. Inv => CompletionToCome
    <2>1. SUFFICES ASSUME Inv, NEW n \in ListLengths, Room < Fragments(n),
                          \A i \in DOMAIN sq : ~sq[i].completes
                   PROVE  FALSE
        BY DEF CompletionToCome
    <2>2. /\ Len(sq) \in Nat /\ DOMAIN sq = 1 .. Len(sq) /\ Room = Depth - Len(sq)
          /\ counters.unsignaled \in Nat /\ SignalInterval \in Nat /\ Depth \in Nat
          /\ (CqDepth \div 2) \in Nat
        BY <2>1, QueueTypes, SignalingAssumption DEF QueueInv
    <2>3. \A i \in 0 + 1 .. Len(sq) : ~sq[i].signaled
        BY <2>1, <2>2 DEF QueueInv, SignaledWillComplete
    <2>4. Len(sq) - 0 <= TailBound(F)
        BY <2>1, <2>2, <2>3 DEF TailBounded
    <2>5. TailBound(F) <= Depth - F /\ TailBound(F) \in Int
        <3>1. CASE counters.unsignaled < SignalInterval
            <4>1. counters.unsignaled * F <= SignalInterval * F - F
                <5>1. PICK d \in Nat : SignalInterval = counters.unsignaled + 1 + d
                    BY <2>2, <3>1, SignalInterval - counters.unsignaled - 1 \in Nat
                <5>2. /\ (counters.unsignaled + 1 + d) * F = counters.unsignaled * F + F + d * F
                      /\ d * F \in Nat /\ counters.unsignaled * F \in Nat
                    BY <2>2
                <5> QED
                    BY <5>1, <5>2
            <4>2. TailBound(F) = counters.unsignaled * F
                  /\ counters.unsignaled * F \in Nat /\ SignalInterval * F \in Nat
                BY <2>2, <3>1 DEF TailBound
            <4> QED
                BY <2>2, <4>1, <4>2
        <3>2. CASE ~(counters.unsignaled < SignalInterval)
            BY <2>2, <3>2 DEF TailBound
        <3> QED
            BY <3>1, <3>2
    <2>6. Fragments(n) <= F /\ Fragments(n) \in Int
        BY ConnectionAssumption DEF Fragments
    <2> QED
        BY <2>1, <2>2, <2>4, <2>5, <2>6
<1> QED
    BY <1>1, <1>2, <1>3, PTL DEF ConnectionSpec

\* Send and PostSendSGL refuse before Connect has finished, and Reset clears all.
LEMMA NextKeepsFresh ==
    ASSUME FreshUntilReady, [ConnectionNext]_connectionVars
    PROVE  FreshUntilReady'
<1>1. ASSUME NEW n \in 0 .. 3, Connect(n)
      PROVE  FreshUntilReady'
    <2>1. n = 0 \/ n = 1 \/ n = 2 \/ n = 3
        OBVIOUS
    <2> QED
        BY <1>1, <2>1 DEF Connect, Transitions, MayBecomeInit, FreshUntilReady
<1>2. CASE PollSendCQ
    BY <1>2 DEF PollSendCQ, FreshUntilReady
<1>3. CASE \E iov_count \in ListLengths : PostSendSGL(iov_count)
    BY <1>3 DEF PostSendSGL, Established, FreshUntilReady
<1>4. CASE \/ Disconnect \/ Reset \/ Send \/ NicExecutes \/ NicFails \/ NicFlushes
           \/ UNCHANGED connectionVars
    BY <1>4
    DEF Disconnect, TransitionToError, Reset, Send, Established, NicExecutes, NicFails,
        NicFlushes, FreshUntilReady, connectionVars
<1> QED
    BY <1>1, <1>2, <1>3, <1>4 DEF ConnectionNext

\* Whatever happened before, with failures and with Resets at any point: a
\* Connect that succeeds finds an empty send queue and counters of zero.
THEOREM EveryConnectStartsFresh == ConnectionSpec => ConnectStartsFresh
<1>1. ConnectionInit => FreshUntilReady
    BY DEF ConnectionInit, QueuePairInit, FreshUntilReady
<1>2. FreshUntilReady /\ [ConnectionNext]_connectionVars => FreshUntilReady'
    BY NextKeepsFresh
<1>3. ASSUME FreshUntilReady, [ConnectionNext]_connectionVars,
             state # "CONNECTED", state' = "CONNECTED"
      PROVE  sq = << >> /\ counters = FreshCounters
    <2>1. PICK n \in 0 .. 3 : Connect(n)
        BY <1>3
        DEF ConnectionNext, Disconnect, Reset, Send, PostSendSGL, NicExecutes, NicFails,
            NicFlushes, PollSendCQ, connectionVars
    <2>2. qp \in {"RESET", "INIT"}
        BY <1>3, <2>1 DEF Connect, MayBecomeInit
    <2> QED
        BY <1>3, <2>2 DEF FreshUntilReady
<1>4. FreshUntilReady /\ [ConnectionNext]_connectionVars =>
          [state # "CONNECTED" /\ state' = "CONNECTED"
               => sq = << >> /\ counters = FreshCounters]_connectionVars
    BY <1>3
<1> QED
    BY <1>1, <1>2, <1>4, PTL DEF ConnectionSpec, ConnectStartsFresh
=============================================================================
