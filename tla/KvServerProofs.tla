--------------------------- MODULE KvServerProofs ---------------------------
(***************************************************************************)
(* The key-value server accounts for its connections, whatever the number  *)
(* of clients, ids, buffers and failures and whatever the clients ask: an  *)
(* id is free once or belongs to one connection, a context belongs to the  *)
(* established connection of its id, and, when destroying a queue pair     *)
(* takes its completions along, an error removes only the connection that  *)
(* failed.                                                                 *)
(*                                                                         *)
(* While its pool is intact, the server owns the buffers posted for        *)
(* receives and the benchmark client all of its buffers.  With that one    *)
(* client the server's pool stays intact, and the responses come in the    *)
(* order of the requests as long as the server finds a buffer for each.    *)
(***************************************************************************)
EXTENDS KvBenchmark, FiniteSetTheorems, SequenceTheorems, WellFoundedInduction, TLAPS

----------------------------------------------------------------------------
(* The types of what the server keeps.                                     *)

\* What a work request id of a send says: the connection and a number.
Number == ConnId \X Nat

\* A message of a client, or none in a completion that failed.
Request == [op : RequestKind \cup {"NONE"}, key : Nat]

\* A message of the server.
Response == [op : {"GET_RESPONSE", "PUT_RESPONSE"}, key : Nat,
             status : {"OK", "NOT_FOUND", "NO_SPACE", "INVALID_REQUEST"}]

\* A posted response.
WorkRequests == [wr_id : Number, buf : Buffer, msg : Response, signaled : BOOLEAN]

\* The counters of ShouldSignal.
Counters == [unsignaled : Nat, outstanding : Nat]

\* A connection of the manager, with its queue pair.
ConnectionType == [client : Client, failed : BOOLEAN, counters : Counters,
                   sq : Seq(WorkRequests), rq : Seq(Buffer)]

\* A pool of the buffers in S.
Pools(S) == [queue : Seq(S), first_back : S \cup {0}]

\* A context of the server.
ContextType == [client : Client, gets : Nat, puts : Nat]

\* A completion in the send queue's completion queue.
SendWc == [kind : {"send"}, ok : BOOLEAN, conn : ConnId, client : Client, wr_id : Number]

\* A completion in the receive queue's completion queue.
RecvWc == [kind : {"recv"}, ok : BOOLEAN, conn : ConnId, client : Client,
           buf : Buffer, msg : Request]

\* A completion.
Wc == SendWc \cup RecvWc

\* No connection that exists is equal to NoConnection.
LEMMA ConnectionIsLive ==
    ASSUME NEW conn \in ConnectionType
    PROVE  conn # NoConnection
<1>1. "failed" \in DOMAIN conn
    BY DEF ConnectionType
<1>2. "failed" \notin DOMAIN NoConnection
    BY DEF NoConnection
<1> QED
    BY <1>1, <1>2

----------------------------------------------------------------------------
(* Induction, and what it shows of WithoutClient.                          *)

\* A set that holds 0 and the successor of each number it holds holds them all.
LEMMA NatSetInduction ==
    ASSUME NEW N, 0 \in N, \A n \in Nat : n \in N => n + 1 \in N
    PROVE  Nat \subseteq N
<1> SUFFICES ASSUME Nat \ N # {}
             PROVE  FALSE
    OBVIOUS
<1> DEFINE R == OpToRel(<, Nat)
<1>1. IsWellFoundedOn(R, Nat)
    BY NatLessThanWellFounded
<1>2. R = {ss \in Nat \X Nat : ss[1] < ss[2]}
    BY DEF OpToRel
<1> HIDE DEF R
<1>3. PICK m \in Nat \ N : \A k \in Nat \ N : ~ (<<k, m>> \in R)
    BY <1>1, WFMin
<1>4. m # 0 /\ m - 1 \in Nat /\ (m - 1) + 1 = m
    BY <1>3
<1>5. m - 1 \in N
    <2>1. <<m - 1, m>> \in R
        BY <1>2, <1>4
    <2> QED
        BY <1>3, <1>4, <2>1
<1> QED
    BY <1>3, <1>4, <1>5

\* What WithoutClient has kept after each completion of the queue.
KeptSoFar(kept, wcs, cl) ==
    /\ WithoutClient(wcs, cl) = kept[Len(wcs)]
    /\ kept[0] = << >>
    /\ \A n \in Nat : n + 1 <= Len(wcs) =>
          kept[n + 1] = IF wcs[n + 1].client = cl THEN kept[n]
                        ELSE Append(kept[n], wcs[n + 1])

\* WithoutClient takes the completions one by one.
LEMMA WithoutClientRecursion ==
    ASSUME NEW S, NEW wcs \in Seq(S), NEW cl
    PROVE  \E kept : KeptSoFar(kept, wcs, cl)
<1> DEFINE Step(F, i) == IF i = 0 THEN << >>
                         ELSE IF wcs[i].client = cl THEN F[i - 1]
                         ELSE Append(F[i - 1], wcs[i])
           kept == CHOOSE F : F = [i \in 0 .. Len(wcs) |-> Step(F, i)]
<1>1. Len(wcs) \in Nat
    BY LenProperties
<1>2. WithoutClient(wcs, cl) = kept[Len(wcs)]
    BY DEF WithoutClient
<1>3. \A n \in Nat : \E F : F = [i \in 0 .. n |-> Step(F, i)]
    <2> DEFINE N == {n \in Nat : \E F : F = [i \in 0 .. n |-> Step(F, i)]}
    <2>1. 0 \in N
        <3> DEFINE F == [i \in 0 .. 0 |-> << >>]
        <3>1. F = [i \in 0 .. 0 |-> Step(F, i)]
            OBVIOUS
        <3> QED
            BY <3>1
    <2>2. ASSUME NEW n \in Nat, n \in N
          PROVE  n + 1 \in N
        <3>1. PICK F : F = [i \in 0 .. n |-> Step(F, i)]
            BY <2>2
        <3> DEFINE G == [i \in 0 .. n + 1 |-> IF i = n + 1 THEN Step(F, i) ELSE F[i]]
        <3>2. ASSUME NEW i \in 0 .. n + 1
              PROVE  G[i] = Step(G, i)
            <4>1. CASE i = 0
                BY <3>1, <4>1
            <4>2. CASE i # 0
                <5>1. i - 1 \in 0 .. n /\ i - 1 # n + 1 /\ i - 1 \in 0 .. n + 1
                    BY <4>2
                <5>2. G[i - 1] = F[i - 1]
                    BY <5>1
                <5>3. G[i] = Step(F, i)
                    <6>1. CASE i = n + 1
                        BY <6>1
                    <6>2. CASE i # n + 1
                        <7>1. i \in 0 .. n /\ G[i] = F[i]
                            BY <6>2
                        <7>2. F[i] = [j \in 0 .. n |-> Step(F, j)][i]
                            BY <3>1
                        <7> QED
                            BY <7>1, <7>2
                    <6> QED
                        BY <6>1, <6>2
                <5> QED
                    BY <5>2, <5>3
            <4> QED
                BY <4>1, <4>2
        <3>3. G = [i \in 0 .. n + 1 |-> Step(G, i)]
            <4> HIDE DEF Step
            <4> QED
                BY <3>2
        <3>4. \E H : H = [i \in 0 .. n + 1 |-> Step(H, i)]
            <4> HIDE DEF Step, G
            <4> QED
                BY <3>3
        <3> HIDE DEF Step, G
        <3> QED
            BY <3>4
    <2> HIDE DEF N
    <2>3. Nat \subseteq N
        BY <2>1, <2>2, NatSetInduction
    <2> QED
        BY <2>3 DEF N
<1>4. kept = [i \in 0 .. Len(wcs) |-> Step(kept, i)]
    <2>1. \E F : F = [i \in 0 .. Len(wcs) |-> Step(F, i)]
        BY <1>1, <1>3
    <2> QED
        BY <2>1
<1> HIDE DEF kept
<1>5. kept[0] = << >>
    BY <1>1, <1>4
<1>6. ASSUME NEW n \in Nat, n + 1 <= Len(wcs)
      PROVE  kept[n + 1] = IF wcs[n + 1].client = cl THEN kept[n]
                           ELSE Append(kept[n], wcs[n + 1])
    <2>1. n + 1 \in 0 .. Len(wcs)
        BY <1>1, <1>6
    <2>2. kept[n + 1] = [i \in 0 .. Len(wcs) |-> Step(kept, i)][n + 1]
        BY <1>4
    <2>3. kept[n + 1] = Step(kept, n + 1)
        <3> HIDE DEF Step
        <3> QED
            BY <2>1, <2>2
    <2>4. n + 1 # 0 /\ (n + 1) - 1 = n
        OBVIOUS
    <2> QED
        BY <2>3, <2>4
<1> HIDE DEF Step
<1>7. KeptSoFar(kept, wcs, cl)
    BY <1>2, <1>5, <1>6 DEF KeptSoFar
<1> QED
    BY <1>7

\* WithoutClient returns completions of the queue, none of the client.
LEMMA WithoutClientKeeps ==
    ASSUME NEW S, NEW wcs \in Seq(S), NEW cl
    PROVE  WithoutClient(wcs, cl) \in Seq({wc \in S : wc.client # cl})
<1> DEFINE Other == {wc \in S : wc.client # cl}
<1>1. Len(wcs) \in Nat /\ \A i \in 1 .. Len(wcs) : wcs[i] \in S
    BY LenProperties, ElementOfSeq
<1>k. PICK kept : KeptSoFar(kept, wcs, cl)
    BY WithoutClientRecursion
<1>2. /\ WithoutClient(wcs, cl) = kept[Len(wcs)]
      /\ kept[0] = << >>
      /\ \A n \in Nat : n + 1 <= Len(wcs) =>
            kept[n + 1] = IF wcs[n + 1].client = cl THEN kept[n]
                          ELSE Append(kept[n], wcs[n + 1])
    BY <1>k DEF KeptSoFar
<1> HIDE DEF Other
<1> DEFINE N == {n \in Nat : n <= Len(wcs) => kept[n] \in Seq(Other)}
<1>3. 0 \in N
    BY <1>2, EmptySeq
<1>4. ASSUME NEW n \in Nat, n \in N
      PROVE  n + 1 \in N
    <2> SUFFICES ASSUME n + 1 <= Len(wcs)
                 PROVE  kept[n + 1] \in Seq(Other)
        OBVIOUS
    <2>1. kept[n] \in Seq(Other) /\ wcs[n + 1] \in S
        BY <1>1, <1>4
    <2>2. wcs[n + 1].client # cl => wcs[n + 1] \in Other
        BY <2>1 DEF Other
    <2> QED
        BY <1>2, <2>1, <2>2, AppendProperties
<1> HIDE DEF N
<1>5. Nat \subseteq N
    BY <1>3, <1>4, NatSetInduction
<1>6. kept[Len(wcs)] \in Seq(Other)
    BY <1>1, <1>5 DEF N
<1> QED
    BY <1>2, <1>6 DEF Other

\* The elements of u are elements of t, each of another place.
Embeds(f, u, t) ==
    /\ f \in [DOMAIN u -> DOMAIN t]
    /\ \A i, j \in DOMAIN u : f[i] = f[j] => i = j
    /\ \A i \in DOMAIN u : u[i] = t[f[i]]

\* It keeps each completion at most once.
LEMMA WithoutClientEmbeds ==
    ASSUME NEW S, NEW wcs \in Seq(S), NEW cl
    PROVE  \E g : Embeds(g, WithoutClient(wcs, cl), wcs)
<1> DEFINE Placed(g, s, n) == /\ g \in [DOMAIN s -> 1 .. n]
                              /\ \A i, j \in DOMAIN s : g[i] = g[j] => i = j
                              /\ \A i \in DOMAIN s : s[i] = wcs[g[i]]
<1>1. Len(wcs) \in Nat /\ DOMAIN wcs = 1 .. Len(wcs) /\ \A i \in 1 .. Len(wcs) : wcs[i] \in S
    BY LenProperties, ElementOfSeq
<1>k. PICK kept : KeptSoFar(kept, wcs, cl)
    BY WithoutClientRecursion
<1>2. /\ WithoutClient(wcs, cl) = kept[Len(wcs)]
      /\ kept[0] = << >>
      /\ \A n \in Nat : n + 1 <= Len(wcs) =>
            kept[n + 1] = IF wcs[n + 1].client = cl THEN kept[n]
                          ELSE Append(kept[n], wcs[n + 1])
    BY <1>k DEF KeptSoFar
<1> DEFINE N == {n \in Nat : n <= Len(wcs) =>
                    kept[n] \in Seq(S) /\ \E g : Placed(g, kept[n], n)}
<1>3. 0 \in N
    <2>1. kept[0] = << >> /\ kept[0] \in Seq(S) /\ DOMAIN kept[0] = {}
        BY <1>2, EmptySeq
    <2>2. Placed([i \in {} |-> 0], kept[0], 0)
        BY <2>1
    <2> HIDE DEF Placed
    <2> QED
        BY <2>1, <2>2
<1>4. ASSUME NEW n \in Nat, n \in N
      PROVE  n + 1 \in N
    <2> SUFFICES ASSUME n + 1 <= Len(wcs)
                 PROVE  kept[n + 1] \in Seq(S) /\ \E g : Placed(g, kept[n + 1], n + 1)
        BY DEF N
    <2>1. kept[n] \in Seq(S) /\ wcs[n + 1] \in S /\ \E g : Placed(g, kept[n], n)
        BY <1>1, <1>4
    <2>2. PICK g : Placed(g, kept[n], n)
        BY <2>1
    <2>3. CASE wcs[n + 1].client = cl
        <3>1. kept[n + 1] = kept[n]
            BY <1>2, <2>3
        <3>2. Placed(g, kept[n], n + 1)
            BY <2>2
        <3> HIDE DEF Placed
        <3> QED
            BY <2>1, <3>1, <3>2
    <2>4. CASE wcs[n + 1].client # cl
        <3> DEFINE s == kept[n]
                   t == kept[n + 1]
                   L == Len(s)
                   h == [i \in 1 .. L + 1 |-> IF i = L + 1 THEN n + 1 ELSE g[i]]
        <3>1. t = Append(s, wcs[n + 1])
            BY <1>2, <2>4
        <3>2. /\ t \in Seq(S) /\ L \in Nat /\ DOMAIN s = 1 .. L /\ DOMAIN t = 1 .. L + 1
              /\ \A i \in 1 .. L : t[i] = s[i]
              /\ t[L + 1] = wcs[n + 1]
            BY <2>1, <3>1, AppendProperties, LenProperties
        <3> HIDE DEF s, t, L
        <3>3. \A i \in 1 .. L + 1 : i \in 1 .. L \/ i = L + 1
            BY <3>2
        <3>4. ASSUME NEW i \in 1 .. L
              PROVE  g[i] \in 1 .. n /\ s[i] = wcs[g[i]] /\ h[i] = g[i] /\ g[i] # n + 1
            <4>1. g[i] \in 1 .. n /\ s[i] = wcs[g[i]]
                BY <2>2, <3>2 DEF s
            <4>2. i \in 1 .. L + 1 /\ i # L + 1 /\ g[i] # n + 1
                BY <3>2, <4>1
            <4> QED
                BY <4>1, <4>2
        <3>5. h[L + 1] = n + 1
            BY <3>2
        <3>6. \A i, j \in 1 .. L : g[i] = g[j] => i = j
            BY <2>2, <3>2 DEF s
        <3>7. h \in [1 .. L + 1 -> 1 .. n + 1]
            <4>1. \A i \in 1 .. L : h[i] \in 1 .. n + 1
                <5> HIDE DEF h, N, Placed
                <5>1. \A i \in 1 .. L : h[i] \in 1 .. n
                    BY <3>4
                <5> QED
                    BY <5>1
            <4>2. h[L + 1] \in 1 .. n + 1
                BY <3>5
            <4>3. \A i \in 1 .. L + 1 : h[i] \in 1 .. n + 1
                <5> HIDE DEF h
                <5> QED
                    BY <3>3, <4>1, <4>2
            <4>4. h = [i \in 1 .. L + 1 |-> h[i]]
                OBVIOUS
            <4> HIDE DEF h
            <4> QED
                BY <4>3, <4>4
        <3> HIDE DEF h
        <3>8. \A i, j \in 1 .. L + 1 : h[i] = h[j] => i = j
            BY <3>3, <3>4, <3>5, <3>6
        <3>9. \A i \in 1 .. L + 1 : t[i] = wcs[h[i]]
            BY <3>2, <3>3, <3>4, <3>5
        <3>10. Placed(h, t, n + 1)
            BY <3>2, <3>7, <3>8, <3>9
        <3> HIDE DEF Placed
        <3> QED
            BY <3>2, <3>10 DEF t
    <2> QED
        BY <2>3, <2>4
<1> HIDE DEF N
<1>5. Nat \subseteq N
    BY <1>3, <1>4, NatSetInduction
<1> HIDE DEF Placed
<1>6. PICK g : Placed(g, kept[Len(wcs)], Len(wcs))
    BY <1>1, <1>5 DEF N
<1>7. Embeds(g, kept[Len(wcs)], wcs)
    BY <1>1, <1>6 DEF Placed, Embeds
<1> QED
    BY <1>2, <1>7

----------------------------------------------------------------------------
(* The operators of the model.                                             *)

\* One batch is taken from the head of a queue, and the rest stays.
LEMMA TakeBatch ==
    ASSUME NEW S, NEW s \in Seq(S), NEW n \in 0 .. Len(s)
    PROVE  /\ SubSeq(s, 1, n) \in Seq(S) /\ Len(SubSeq(s, 1, n)) = n
           /\ SubSeq(s, n + 1, Len(s)) \in Seq(S)
<1>1. Len(s) \in Nat /\ n \in Int /\ n + 1 \in Int /\ 1 \in Int /\ n >= 0
    BY LenProperties
<1>2. \A i \in 1 .. Len(s) : s[i] \in S
    BY ElementOfSeq
<1>3. \A i \in 1 .. n : s[i] \in S
    BY <1>1, <1>2
<1>4. \A i \in n + 1 .. Len(s) : s[i] \in S
    BY <1>1, <1>2
<1>5. SubSeq(s, 1, n) \in Seq(S) /\ Len(SubSeq(s, 1, n)) = IF 1 <= n THEN n - 1 + 1 ELSE 0
    BY <1>1, <1>3, SubSeqProperties
<1>6. SubSeq(s, n + 1, Len(s)) \in Seq(S)
    BY <1>1, <1>4, SubSeqProperties
<1> QED
    BY <1>1, <1>5, <1>6

\* Allocate takes buffers from the head of the queue, no more than were asked
\* for, and leaves the others in their order.
LEMMA AllocateTakes ==
    ASSUME NEW S, NEW p \in Pools(S), NEW n \in Nat
    PROVE  /\ Allocated(p, n) \in Seq(S) /\ Len(Allocated(p, n)) <= n
           /\ AfterAllocate(p, n) \in Pools(S)
           /\ AfterAllocate(p, n).first_back = p.first_back
           /\ Len(Allocated(p, n)) + Len(AfterAllocate(p, n).queue) = Len(p.queue)
           /\ \A i \in 1 .. Len(Allocated(p, n)) : Allocated(p, n)[i] = p.queue[i]
           /\ \A i \in 1 .. Len(AfterAllocate(p, n).queue) :
                 AfterAllocate(p, n).queue[i] = p.queue[Len(Allocated(p, n)) + i]
           /\ n >= 1 /\ p.queue # << >> => Len(Allocated(p, n)) >= 1
<1> DEFINE q == p.queue
           k == IF n < Len(q) THEN n ELSE Len(q)
           a == SubSeq(q, 1, k)
           r == SubSeq(q, 1 + k, Len(q))
<1>1. q \in Seq(S) /\ Len(q) \in Nat /\ p.first_back \in S \cup {0}
    BY LenProperties DEF Pools
<1>2. /\ Allocated(p, n) = a
      /\ AfterAllocate(p, n) = [p EXCEPT !.queue = r]
    BY DEF Allocated, AfterAllocate
<1>3. k \in 0 .. Len(q) /\ k <= n /\ k + 1 = 1 + k /\ k \in Nat
    BY <1>1
<1>4. n >= 1 /\ q # << >> => k >= 1
    <2>1. q # << >> => Len(q) # 0
        BY <1>1, EmptySeq
    <2> QED
        BY <1>1, <2>1
<1> HIDE DEF k, q
<1>5. a \in Seq(S) /\ Len(a) = k /\ r \in Seq(S)
    BY <1>1, <1>3, TakeBatch
<1>6. \A i \in 1 .. Len(q) : q[i] \in S
    BY <1>1, ElementOfSeq
<1>7. \A i \in 1 .. k : a[i] = q[i]
    <2>1. \A i \in 1 .. k : q[i] \in S
        BY <1>1, <1>3, <1>6
    <2>2. \A i \in 1 .. k : a[i] = q[1 + i - 1]
        BY <1>1, <1>3, <2>1, SubSeqProperties
    <2> QED
        BY <1>3, <2>2
<1>8. Len(r) = Len(q) - k /\ \A i \in 1 .. Len(r) : r[i] = q[k + i]
    <2>1. \A i \in 1 + k .. Len(q) : q[i] \in S
        BY <1>1, <1>3, <1>6
    <2>2. /\ Len(r) = IF 1 + k <= Len(q) THEN Len(q) - (1 + k) + 1 ELSE 0
          /\ \A i \in 1 .. Len(q) - (1 + k) + 1 : r[i] = q[1 + k + i - 1]
        BY <1>1, <1>3, <2>1, SubSeqProperties
    <2>3. Len(r) = Len(q) - k
        BY <1>1, <1>3, <2>2
    <2>4. \A i \in 1 .. Len(r) : i \in 1 .. Len(q) - (1 + k) + 1 /\ 1 + k + i - 1 = k + i
        BY <1>1, <1>3, <2>3
    <2> QED
        BY <2>2, <2>3, <2>4
<1> HIDE DEF a, r
<1>9. AfterAllocate(p, n) \in Pools(S) /\ AfterAllocate(p, n).first_back = p.first_back
    BY <1>1, <1>2, <1>5 DEF Pools
<1>10. AfterAllocate(p, n).queue = r
    BY <1>2 DEF Pools
<1>11. Len(a) + Len(r) = Len(q)
    BY <1>1, <1>3, <1>5, <1>8
<1>12. n >= 1 /\ q # << >> => Len(a) >= 1
    BY <1>4, <1>5
<1> QED
    BY <1>2, <1>3, <1>5, <1>7, <1>8, <1>9, <1>10, <1>11, <1>12 DEF q

\* Where there is a buffer, there is the first.
LEMMA BuffersNumbered ==
    /\ 0 \notin Buffer
    /\ \A b \in Buffer : 1 \in Buffer
BY KvServerAssumption DEF Buffer

\* Free adds a buffer to the end of the queue.  If the pool is intact
\* afterwards it was before, and the buffer is the one that was given back.
LEMMA FreeAdds ==
    ASSUME NEW S, 1 \in S, 0 \notin S, NEW p \in Pools(S), NEW b \in S
    PROVE  /\ AfterFree(p, b) \in Pools(S)
           /\ AfterFree(p, b).first_back # 0
           /\ Len(AfterFree(p, b).queue) = Len(p.queue) + 1
           /\ AfterFree(p, b).queue # << >>
           /\ Intact(AfterFree(p, b)) =>
                 Intact(p) /\ AfterFree(p, b).queue = Append(p.queue, b)
<1> DEFINE x == IF p.first_back = 0 THEN 1 ELSE b
           y == IF p.first_back = 0 THEN b ELSE p.first_back
<1>1. p.queue \in Seq(S) /\ x \in S /\ y \in S /\ y # 0
    BY DEF Pools
<1>2. AfterFree(p, b) = [queue |-> Append(p.queue, x), first_back |-> y]
    BY DEF AfterFree
<1>3. y \in {0, 1} => p.first_back \in {0, 1} /\ x = b
    OBVIOUS
<1> HIDE DEF x, y
<1>4. /\ Append(p.queue, x) \in Seq(S) /\ Len(Append(p.queue, x)) = Len(p.queue) + 1
      /\ Append(p.queue, x) # << >>
    BY <1>1, AppendProperties
<1> QED
    BY <1>1, <1>2, <1>3, <1>4 DEF Pools, Intact

\* Taking the last of the free ids leaves the others, each still once.
LEMMA FrontOfIds ==
    ASSUME NEW S, NEW s \in Seq(S), s # << >>, IsInjective(s)
    PROVE  /\ Last(s) \in S /\ Contains(s, Last(s))
           /\ Front(s) \in Seq(S) /\ IsInjective(Front(s))
           /\ \A x : Contains(Front(s), x) <=> Contains(s, x) /\ x # Last(s)
<1>1. Len(s) \in Nat \ {0} /\ DOMAIN s = 1 .. Len(s) /\ \A i \in 1 .. Len(s) : s[i] \in S
    BY LenProperties, ElementOfSeq, EmptySeq
<1>2. /\ Front(s) \in Seq(S) /\ Len(Front(s)) = Len(s) - 1
      /\ \A i \in 1 .. Len(s) - 1 : Front(s)[i] = s[i]
    BY <1>1, SubSeqProperties DEF Front
<1>3. DOMAIN Front(s) = 1 .. Len(s) - 1
    BY <1>2, LenProperties
<1>4. Last(s) = s[Len(s)] /\ Len(s) \in 1 .. Len(s)
    BY <1>1 DEF Last
<1>5. \A i, j \in 1 .. Len(s) : s[i] = s[j] => i = j
    BY <1>1 DEF IsInjective
<1>6. IsInjective(Front(s))
    BY <1>1, <1>2, <1>3, <1>5 DEF IsInjective
<1>7. \A x : Contains(Front(s), x) <=> Contains(s, x) /\ x # Last(s)
    BY <1>1, <1>2, <1>4, <1>5 DEF Contains
<1> QED
    BY <1>1, <1>2, <1>4, <1>6, <1>7 DEF Contains

\* An id that is not free may be put back.
LEMMA AppendToIds ==
    ASSUME NEW S, NEW s \in Seq(S), NEW x \in S, IsInjective(s), ~Contains(s, x)
    PROVE  /\ Append(s, x) \in Seq(S) /\ IsInjective(Append(s, x))
           /\ \A y : Contains(Append(s, x), y) <=> Contains(s, y) \/ y = x
<1>1. Len(s) \in Nat /\ DOMAIN s = 1 .. Len(s)
    BY LenProperties
<1>2. /\ Append(s, x) \in Seq(S) /\ Len(Append(s, x)) = Len(s) + 1
      /\ \A i \in 1 .. Len(s) : Append(s, x)[i] = s[i]
      /\ Append(s, x)[Len(s) + 1] = x
    BY AppendProperties
<1>3. DOMAIN Append(s, x) = 1 .. Len(s) + 1
    BY <1>2, LenProperties
<1>4. \A i, j \in 1 .. Len(s) : s[i] = s[j] => i = j
    BY <1>1 DEF IsInjective
<1>5. \A i \in 1 .. Len(s) : s[i] # x
    BY DEF Contains
<1>6. IsInjective(Append(s, x))
    BY <1>1, <1>2, <1>3, <1>4, <1>5 DEF IsInjective
<1>7. \A y : Contains(Append(s, x), y) <=> Contains(s, y) \/ y = x
    BY <1>1, <1>2 DEF Contains
<1> QED
    BY <1>2, <1>6, <1>7

\* The completions that a flush makes for the posted receives.
LEMMA FlushedReceives ==
    ASSUME NEW S, NEW c, NEW rq \in Seq(Buffer),
           \A b \in Buffer : RecvCompletion(FALSE, c, b, NoMessage) \in S
    PROVE  [i \in DOMAIN rq |-> RecvCompletion(FALSE, c, rq[i], NoMessage)] \in Seq(S)
<1> DEFINE f == [i \in DOMAIN rq |-> RecvCompletion(FALSE, c, rq[i], NoMessage)]
<1>1. Len(rq) \in Nat /\ DOMAIN rq = 1 .. Len(rq) /\ \A i \in 1 .. Len(rq) : rq[i] \in Buffer
    BY LenProperties, ElementOfSeq
<1>2. f \in [1 .. Len(rq) -> S]
    BY <1>1
<1> HIDE DEF f
<1>3. f \in Seq(S)
    BY <1>1, <1>2, SeqDef
<1> QED
    BY <1>3 DEF f

\* The completions that a flush makes for the posted sends.
LEMMA FlushedSends ==
    ASSUME NEW S, NEW c, NEW T, NEW sq \in Seq(T),
           \A i \in DOMAIN sq : SendCompletion(FALSE, c, sq[i].wr_id) \in S
    PROVE  [i \in DOMAIN sq |-> SendCompletion(FALSE, c, sq[i].wr_id)] \in Seq(S)
<1> DEFINE f == [i \in DOMAIN sq |-> SendCompletion(FALSE, c, sq[i].wr_id)]
<1>1. Len(sq) \in Nat /\ DOMAIN sq = 1 .. Len(sq)
    BY LenProperties
<1>2. f \in [1 .. Len(sq) -> S]
    BY <1>1
<1> HIDE DEF f
<1>3. f \in Seq(S)
    BY <1>1, <1>2, SeqDef
<1> QED
    BY <1>3 DEF f

\* Destroying a queue pair leaves a part of the completions, and with
\* DestroyPurges none of that connection.
LEMMA PurgedType ==
    ASSUME NEW S, NEW cl, cq \in [send : Seq(S), recv : Seq(S)]
    PROVE  /\ Purged(cl) \in [send : Seq(S), recv : Seq(S)]
           /\ DestroyPurges =>
                 Purged(cl) \in [send : Seq({wc \in S : wc.client # cl}),
                                 recv : Seq({wc \in S : wc.client # cl})]
<1> DEFINE Other == {wc \in S : wc.client # cl}
<1>1. cq.send \in Seq(S) /\ cq.recv \in Seq(S)
    OBVIOUS
<1>2. WithoutClient(cq.send, cl) \in Seq(Other) /\ WithoutClient(cq.recv, cl) \in Seq(Other)
    BY <1>1, WithoutClientKeeps
<1>3. Other \subseteq S
    OBVIOUS
<1>4. WithoutClient(cq.send, cl) \in Seq(S) /\ WithoutClient(cq.recv, cl) \in Seq(S)
    BY <1>2, <1>3, SeqMonotonic
<1> QED
    BY <1>2, <1>4 DEF Purged

\* The counters and the send queue after a response is posted.
LEMMA PostedType ==
    ASSUME NEW conn \in ConnectionType, NEW wr_id \in Number, NEW b \in Buffer,
           NEW msg \in Response
    PROVE  /\ Posted(conn, wr_id, b, msg) \in ConnectionType
           /\ Posted(conn, wr_id, b, msg).client = conn.client
           /\ Posted(conn, wr_id, b, msg).failed = conn.failed
           /\ Posted(conn, wr_id, b, msg).rq = conn.rq
<1> DEFINE wr == [wr_id |-> wr_id, buf |-> b, msg |-> msg,
                  signaled |-> ShouldSignal(conn.counters)]
<1>1. conn.counters \in Counters /\ conn.sq \in Seq(WorkRequests)
    BY DEF ConnectionType
<1>2. ShouldSignal(conn.counters) \in BOOLEAN
    BY DEF ShouldSignal
<1>3. wr \in WorkRequests
    BY <1>2 DEF WorkRequests
<1>4. AfterShouldSignal(conn.counters) \in Counters
    BY <1>1 DEF AfterShouldSignal, Counters
<1> HIDE DEF wr
<1>5. Append(conn.sq, wr) \in Seq(WorkRequests)
    BY <1>1, <1>3, AppendProperties
<1> DEFINE sq == Append(conn.sq, wr)
           counters == AfterShouldSignal(conn.counters)
<1>6. Posted(conn, wr_id, b, msg) = [conn EXCEPT !.sq = sq, !.counters = counters]
    BY DEF Posted, wr
<1>7. sq \in Seq(WorkRequests) /\ counters \in Counters
    BY <1>4, <1>5
<1> HIDE DEF sq, counters
<1> QED
    BY <1>6, <1>7 DEF ConnectionType

\* The context counts its requests, and numbers the responses.
LEMMA CountedType ==
    ASSUME NEW ctx \in ContextType, NEW op
    PROVE  /\ Counted(ctx, op) \in ContextType
           /\ Counted(ctx, op).client = ctx.client
           /\ SendNumber(ctx, op) \in Nat
<1>1. CASE op = "GET"
    BY <1>1 DEF Counted, SendNumber, ContextType
<1>2. CASE op \in {"PUT", "CUT"}
    BY <1>2 DEF Counted, SendNumber, ContextType
<1>3. CASE op \notin {"GET", "PUT", "CUT"}
    BY <1>3 DEF Counted, SendNumber, ContextType
<1> QED
    BY <1>1, <1>2, <1>3

\* ProcessRequest answers every message, of whatever kind, with a response.
LEMMA ResponseType ==
    ASSUME NEW msg \in Request
    PROVE  ResponseTo(msg) \in Response
<1>1. msg.key \in Nat
    BY DEF Request
<1>2. PutStatus \in {"OK", "NO_SPACE"}
    BY DEF PutStatus
<1>3. CASE msg.op = "GET"
    BY <1>1, <1>3 DEF Response, ResponseTo
<1>4. CASE msg.op # "GET"
    BY <1>1, <1>2, <1>4 DEF Response, ResponseTo
<1> QED
    BY <1>3, <1>4

----------------------------------------------------------------------------
(* The invariant.                                                          *)

\* The types, of every field.
ServerTypes ==
    /\ todo \in [Client -> Seq(RequestKind)]
    /\ accepting \in ConnId \cup {NoId}
    /\ free_conn_ids \in Seq(ConnId)
    /\ connections \in [ConnId -> ConnectionType \cup {NoConnection}]
    /\ conn_contexts \in [ConnId -> ContextType \cup {NoContext}]
    /\ registered \subseteq ConnId
    /\ pool \in Pools(Buffer)
    /\ posted_recv \subseteq ConnId \X Buffer
    /\ \A w \in DOMAIN posted_send : w \in Number /\ posted_send[w] \in Buffer
    /\ cq \in [send : Seq(Wc), recv : Seq(Wc)]
    /\ batch \in Seq(Wc) /\ Len(batch) <= BatchSize
    /\ turn \in {"accept", "send", "recv"}

\* The connection that is being accepted exists, and nothing was posted to it;
\* the server blocks between two polls.
AcceptingIsNew ==
    accepting # NoId =>
        /\ Live(accepting)
        /\ ~connections[accepting].failed
        /\ connections[accepting].sq = << >> /\ connections[accepting].rq = << >>
        /\ turn = "accept" /\ batch = << >>

\* What is inductive of ids and contexts.
ServerInv ==
    /\ ServerTypes
    /\ AcceptingIsNew
    /\ IdsAccounted
    /\ ContextMatchesConnection

\* The buffers in the pool and those that are tracked are not more than there
\* are, whether the pool is intact or not: one is freed only when its entry is
\* removed.
BuffersBounded ==
    /\ IsFiniteSet(posted_recv) /\ IsFiniteSet(DOMAIN posted_send)
    /\ Len(pool.queue) + Cardinality(posted_recv) + Cardinality(DOMAIN posted_send)
           <= BufferCount

\* The types imply the type invariant of the runs.
LEMMA InvariantImpliesTypeOK == ServerInv /\ BuffersBounded => ServerTypeOK
<1> SUFFICES ASSUME ServerInv, BuffersBounded
             PROVE  ServerTypeOK
    OBVIOUS
<1>1. ASSUME NEW c \in ConnId, Live(c)
      PROVE  connections[c].rq \in Seq(Buffer)
    BY <1>1 DEF ServerInv, ServerTypes, Live, ConnectionType
<1>2. pool.queue \in Seq(Buffer)
    BY DEF ServerInv, ServerTypes, Pools
<1>3. Len(pool.queue) <= BufferCount
    <2>1. Len(pool.queue) \in Nat
        BY <1>2, LenProperties
    <2>2. Cardinality(posted_recv) \in Nat /\ Cardinality(DOMAIN posted_send) \in Nat
        BY FS_CardinalityType DEF BuffersBounded
    <2> QED
        BY <2>1, <2>2, KvServerAssumption DEF BuffersBounded
<1> QED
    BY <1>1, <1>2, <1>3 DEF ServerInv, ServerTypes, ServerTypeOK, Number

\* Every id is free at the start.
LEMMA ServerInitInv == ServerInit => ServerInv
<1> SUFFICES ASSUME ServerInit
             PROVE  ServerInv
    OBVIOUS
<1> USE DEF ServerInit, ManagerInit
<1>1. MaxConnections \in Nat \ {0}
    BY KvServerAssumption
<1>2. free_conn_ids \in [1 .. MaxConnections -> ConnId]
    BY <1>1 DEF ConnId
<1>3. free_conn_ids \in Seq(ConnId) /\ Len(free_conn_ids) = MaxConnections
    <2>1. free_conn_ids \in Seq(ConnId)
        BY <1>1, <1>2, SeqDef
    <2> QED
        BY <1>1, <2>1, LenProperties
<1>4. ServerTypes
    <2>1. todo \in [Client -> Seq(RequestKind)]
        <3>1. todo = Plan
            OBVIOUS
        <3> HIDE DEF ServerInit, ManagerInit
        <3> QED
            BY <3>1, PlanAssumption
    <2>2. cq \in [send : Seq(Wc), recv : Seq(Wc)]
        BY EmptySeq
    <2>3. batch \in Seq(Wc) /\ Len(batch) <= BatchSize
        BY EmptySeq, KvServerAssumption
    <2>4. \A w \in DOMAIN posted_send : w \in Number /\ posted_send[w] \in Buffer
        OBVIOUS
    <2>5. pool \in Pools(Buffer)
        <3>1. BufferCount \in Nat
            BY KvServerAssumption
        <3>2. [i \in 1 .. BufferCount |-> i] \in [1 .. BufferCount -> Buffer]
            BY <3>1 DEF Buffer
        <3>3. [i \in 1 .. BufferCount |-> i] \in Seq(Buffer)
            BY <3>1, <3>2, SeqDef
        <3> QED
            BY <3>3 DEF NewPool, Pools
    <2> QED
        BY <1>3, <2>1, <2>2, <2>3, <2>4, <2>5 DEF ServerTypes
<1>5. \A c \in ConnId : ~Live(c)
    BY DEF Live
<1>6. IdsAccounted
    <2>1. IsInjective(free_conn_ids)
        BY <1>1 DEF IsInjective
    <2>2. ASSUME NEW c \in ConnId
          PROVE  Contains(free_conn_ids, c)
        <3>1. MaxConnections - c \in 1 .. MaxConnections /\ MaxConnections - (MaxConnections - c) = c
            BY <1>1 DEF ConnId
        <3> QED
            BY <1>3, <3>1 DEF Contains
    <2> QED
        BY <1>5, <2>1, <2>2 DEF IdsAccounted
<1> QED
    BY <1>4, <1>5, <1>6 DEF ServerInv, AcceptingIsNew, ContextMatchesConnection

----------------------------------------------------------------------------
(* Every step keeps the invariant.                                         *)

\* What the NIC or a handler does to the queue pair of a connection changes
\* neither its id nor its context.
LEMMA ConnectionUpdate ==
    ASSUME ServerInv, NEW c \in ConnId, Live(c),
           NEW conn \in ConnectionType, conn.client = connections[c].client,
           connections' = [connections EXCEPT ![c] = conn],
           UNCHANGED <<accepting, free_conn_ids, conn_contexts, registered>>
    PROVE  /\ connections' \in [ConnId -> ConnectionType \cup {NoConnection}]
           /\ connections'[c] = conn
           /\ \A d \in ConnId \ {c} : connections'[d] = connections[d]
           /\ \A d \in ConnId : Live(d)' <=> Live(d)
           /\ \A d \in ConnId : connections'[d].client = connections[d].client
           /\ IdsAccounted'
           /\ ContextMatchesConnection'
<1>1. /\ connections' \in [ConnId -> ConnectionType \cup {NoConnection}]
      /\ connections'[c] = conn
      /\ \A d \in ConnId \ {c} : connections'[d] = connections[d]
    BY DEF ServerInv, ServerTypes
<1>2. conn # NoConnection
    BY ConnectionIsLive
<1>3. ASSUME NEW d \in ConnId
      PROVE  (Live(d)' <=> Live(d)) /\ connections'[d].client = connections[d].client
    BY <1>1, <1>2 DEF Live
<1>4. IdsAccounted'
    BY <1>3 DEF ServerInv, IdsAccounted
<1>5. ContextMatchesConnection'
    BY <1>3 DEF ServerInv, ContextMatchesConnection
<1> QED
    BY <1>1, <1>3, <1>4, <1>5

\* Removing a connection gives its id back, once.
LEMMA RemoveKeepsIds ==
    ASSUME ServerInv, NEW c \in ConnId, RemoveConnection(c)
    PROVE  /\ connections' = [connections EXCEPT ![c] = NoConnection]
           /\ connections' \in [ConnId -> ConnectionType \cup {NoConnection}]
           /\ free_conn_ids' \in Seq(ConnId)
           /\ connections'[c] = NoConnection
           /\ \A d \in ConnId \ {c} : connections'[d] = connections[d]
           /\ IdsAccounted'
<1> USE DEF ServerInv, ServerTypes
<1>1. CASE Live(c)
    <2>1. connections' = [connections EXCEPT ![c] = NoConnection]
        BY <1>1 DEF RemoveConnection
    <2>2. /\ connections' \in [ConnId -> ConnectionType \cup {NoConnection}]
          /\ connections'[c] = NoConnection
          /\ \A d \in ConnId \ {c} : connections'[d] = connections[d]
        BY <2>1 DEF Live
    <2>3. free_conn_ids' = Append(free_conn_ids, c)
        BY <1>1 DEF RemoveConnection
    <2>4. IsInjective(free_conn_ids) /\ ~Contains(free_conn_ids, c)
        BY <1>1 DEF IdsAccounted
    <2>5. /\ free_conn_ids' \in Seq(ConnId) /\ IsInjective(free_conn_ids')
          /\ \A y : Contains(free_conn_ids', y) <=> Contains(free_conn_ids, y) \/ y = c
        BY <2>3, <2>4, AppendToIds
    <2>6. ASSUME NEW d \in ConnId
          PROVE  Live(d)' <=> ~Contains(free_conn_ids', d)
        <3>1. CASE d = c
            BY <2>2, <2>5, <3>1 DEF Live
        <3>2. CASE d # c
            BY <2>2, <2>5, <3>2 DEF IdsAccounted, Live
        <3> QED
            BY <3>1, <3>2
    <2> QED
        BY <2>1, <2>2, <2>5, <2>6 DEF IdsAccounted
<1>2. CASE ~Live(c)
    <2>1. UNCHANGED <<connections, free_conn_ids>>
        BY <1>2 DEF RemoveConnection, managerVars
    <2>2. connections' = [connections EXCEPT ![c] = NoConnection]
        BY <1>2, <2>1 DEF Live
    <2> QED
        BY <1>2, <2>1, <2>2 DEF IdsAccounted, Live
<1> QED
    BY <1>1, <1>2

\* AcceptConnections takes an id from the free ones for the new connection.
LEMMA OfferParamsInv ==
    ASSUME ServerInv, NEW cl \in Client, OfferParams(cl)
    PROVE  ServerInv'
<1> DEFINE c == Last(free_conn_ids)
<1>1. /\ c \in ConnId /\ Contains(free_conn_ids, c)
      /\ free_conn_ids' \in Seq(ConnId) /\ IsInjective(free_conn_ids')
      /\ \A d : Contains(free_conn_ids', d) <=> Contains(free_conn_ids, d) /\ d # c
    BY FrontOfIds DEF OfferParams, ServerInv, ServerTypes, IdsAccounted
<1>2. NewConnection(cl) \in ConnectionType
    BY EmptySeq DEF NewConnection, ConnectionType, FreshCounters, Counters
<1>3. NewConnection(cl) # NoConnection
    BY <1>2, ConnectionIsLive
<1>4. connections' = [connections EXCEPT ![c] = NewConnection(cl)] /\ accepting' = c
    BY DEF OfferParams
<1>5. BetweenPolls /\ UNCHANGED <<todo, conn_contexts, registered, pool, posted_recv,
                                  posted_send, cq, turn, batch>>
    BY DEF OfferParams, bufferVars, loopVars
<1> HIDE DEF c
<1>6. /\ connections' \in [ConnId -> ConnectionType \cup {NoConnection}]
      /\ connections'[c] = NewConnection(cl)
      /\ \A d \in ConnId \ {c} : connections'[d] = connections[d]
    BY <1>1, <1>2, <1>4 DEF ServerInv, ServerTypes
<1>7. ~Live(c)
    BY <1>1 DEF ServerInv, IdsAccounted
<1>8. ServerTypes'
    BY <1>1, <1>4, <1>5, <1>6 DEF ServerInv, ServerTypes
<1>9. AcceptingIsNew'
    BY <1>1, <1>3, <1>4, <1>5, <1>6 DEF AcceptingIsNew, Live, NewConnection, BetweenPolls
<1>10. IdsAccounted'
    <2>1. ASSUME NEW d \in ConnId
          PROVE  Live(d)' <=> ~Contains(free_conn_ids', d)
        <3>1. CASE d = c
            BY <1>1, <1>3, <1>6, <3>1 DEF Live
        <3>2. CASE d # c
            BY <1>1, <1>6, <3>2 DEF Live, ServerInv, IdsAccounted
        <3> QED
            BY <3>1, <3>2
    <2> QED
        BY <1>1, <2>1 DEF IdsAccounted
<1>11. ContextMatchesConnection'
    <2> SUFFICES ASSUME NEW d \in ConnId
                 PROVE  IF Live(d)' /\ d # accepting'
                        THEN conn_contexts'[d].client = connections'[d].client /\ d \in registered'
                        ELSE conn_contexts'[d] = NoContext
        BY DEF ContextMatchesConnection
    <2>1. accepting = NoId /\ d # NoId
        BY <1>5, KvServerAssumption DEF BetweenPolls, NoId, ConnId
    <2>2. CASE d = c
        BY <1>4, <1>5, <1>7, <2>2 DEF ServerInv, ContextMatchesConnection
    <2>3. CASE d # c
        BY <1>4, <1>5, <1>6, <2>1, <2>3 DEF ServerInv, ContextMatchesConnection, Live
    <2> QED
        BY <2>2, <2>3
<1> QED
    BY <1>8, <1>9, <1>10, <1>11 DEF ServerInv

\* A handshake that fails gives its id back, and no context was made.
LEMMA GiveUpInv ==
    ASSUME ServerInv, GiveUp
    PROVE  ServerInv'
<1>1. PICK c \in ConnId : c = accepting /\ RemoveConnection(c)
    BY DEF GiveUp, ServerInv, ServerTypes
<1>2. /\ accepting' = NoId /\ turn' = "send"
      /\ UNCHANGED <<todo, conn_contexts, registered, pool, posted_recv, posted_send, cq, batch>>
    BY DEF GiveUp, bufferVars
<1>3. /\ connections' \in [ConnId -> ConnectionType \cup {NoConnection}]
      /\ free_conn_ids' \in Seq(ConnId)
      /\ connections'[c] = NoConnection
      /\ \A d \in ConnId \ {c} : connections'[d] = connections[d]
      /\ IdsAccounted'
    BY <1>1, RemoveKeepsIds
<1>4. ServerTypes'
    BY <1>2, <1>3 DEF ServerInv, ServerTypes
<1>5. ContextMatchesConnection'
    <2> SUFFICES ASSUME NEW d \in ConnId
                 PROVE  IF Live(d)' /\ d # accepting'
                        THEN conn_contexts'[d].client = connections'[d].client /\ d \in registered'
                        ELSE conn_contexts'[d] = NoContext
        BY DEF ContextMatchesConnection
    <2>1. d # NoId
        BY KvServerAssumption DEF NoId, ConnId
    <2>2. CASE d = c
        <3>1. conn_contexts[d] = NoContext
            BY <1>1, <2>2 DEF ServerInv, ContextMatchesConnection
        <3>2. ~(connections'[d] # NoConnection)
            BY <1>3, <2>2 DEF Live
        <3> QED
            BY <1>2, <3>1, <3>2 DEF Live
    <2>3. CASE d # c
        BY <1>1, <1>2, <1>3, <2>1, <2>3 DEF ServerInv, ContextMatchesConnection, Live
    <2> QED
        BY <2>2, <2>3
<1> QED
    BY <1>2, <1>3, <1>4, <1>5 DEF ServerInv, AcceptingIsNew

\* Posting receive buffers changes a connection in its receive queue only.
LEMMA PostRecvBuffersType ==
    ASSUME NEW c \in ConnId, NEW conn \in ConnectionType, NEW from \in Pools(Buffer),
           NEW n \in Nat, NEW tracked \in SUBSET (ConnId \X Buffer),
           PostRecvBuffers(c, conn, from, n, tracked)
    PROVE  /\ pool' \in Pools(Buffer)
           /\ posted_recv' \subseteq ConnId \X Buffer
           /\ \E new \in ConnectionType :
                 /\ new.client = conn.client /\ new.failed = conn.failed
                 /\ connections' = [connections EXCEPT ![c] = new]
<1> DEFINE bs == Allocated(from, n)
<1>1. bs \in Seq(Buffer) /\ AfterAllocate(from, n) \in Pools(Buffer)
    BY AllocateTakes
<1>2. /\ pool' = AfterAllocate(from, n)
      /\ posted_recv' = tracked \cup {<<c, b>> : b \in Range(bs)}
      /\ connections' = [connections EXCEPT ![c] = [conn EXCEPT !.rq = @ \o bs]]
    BY DEF PostRecvBuffers
<1> HIDE DEF bs
<1>3. Range(bs) \subseteq Buffer
    BY <1>1, LenProperties, ElementOfSeq DEF Range
<1>4. conn.rq \o bs \in Seq(Buffer)
    BY <1>1, ConcatProperties DEF ConnectionType
<1> DEFINE new == [conn EXCEPT !.rq = @ \o bs]
<1>5. new \in ConnectionType /\ new.client = conn.client /\ new.failed = conn.failed
    BY <1>4 DEF ConnectionType
<1>6. pool' \in Pools(Buffer) /\ posted_recv' \subseteq ConnId \X Buffer
    BY <1>1, <1>2, <1>3
<1>7. connections' = [connections EXCEPT ![c] = new]
    BY <1>2
<1> HIDE DEF new
<1> QED
    BY <1>5, <1>6, <1>7

\* A handshake that succeeds makes the context of its connection.
LEMMA FinishAcceptInv ==
    ASSUME ServerInv, FinishAccept
    PROVE  ServerInv'
<1>1. PICK c \in ConnId : c = accepting
    BY DEF FinishAccept, ServerInv, ServerTypes
<1> DEFINE conn == connections[c]
<1>2. Live(c) /\ conn \in ConnectionType
    BY <1>1 DEF FinishAccept, ServerInv, ServerTypes, AcceptingIsNew, Live
<1>3. /\ conn_contexts' = [conn_contexts EXCEPT ![c] =
                              [client |-> conn.client, gets |-> 0, puts |-> 0]]
      /\ PostRecvBuffers(c, conn, pool, RecvCount, posted_recv)
      /\ registered' = registered \cup {c}
      /\ accepting' = NoId /\ turn' = "send"
      /\ UNCHANGED <<todo, free_conn_ids, posted_send, cq, batch>>
    BY <1>1 DEF FinishAccept
<1> HIDE DEF conn
<1>4. pool \in Pools(Buffer) /\ posted_recv \in SUBSET (ConnId \X Buffer) /\ RecvCount \in Nat
    BY KvServerAssumption DEF ServerInv, ServerTypes
<1>5. /\ pool' \in Pools(Buffer)
      /\ posted_recv' \subseteq ConnId \X Buffer
      /\ \E new \in ConnectionType :
            /\ new.client = conn.client /\ new.failed = conn.failed
            /\ connections' = [connections EXCEPT ![c] = new]
    BY <1>2, <1>3, <1>4, PostRecvBuffersType
<1>6. PICK new \in ConnectionType :
            /\ new.client = conn.client
            /\ connections' = [connections EXCEPT ![c] = new]
    BY <1>5
<1>7. /\ connections' \in [ConnId -> ConnectionType \cup {NoConnection}]
      /\ connections'[c] = new
      /\ \A d \in ConnId \ {c} : connections'[d] = connections[d]
    BY <1>6 DEF ServerInv, ServerTypes
<1>8. new # NoConnection
    BY ConnectionIsLive
<1> DEFINE ctx == [client |-> conn.client, gets |-> 0, puts |-> 0]
<1>9. ctx \in ContextType /\ ctx.client = conn.client
    BY <1>2 DEF ContextType, ConnectionType
<1> HIDE DEF ctx
<1>10. /\ conn_contexts' \in [ConnId -> ContextType \cup {NoContext}]
       /\ conn_contexts'[c] = ctx
       /\ \A d \in ConnId \ {c} : conn_contexts'[d] = conn_contexts[d]
    <2>1. conn_contexts' = [conn_contexts EXCEPT ![c] = ctx]
        BY <1>3 DEF ctx
    <2> QED
        BY <1>9, <2>1 DEF ServerInv, ServerTypes
<1>11. ServerTypes'
    BY <1>3, <1>5, <1>7, <1>10 DEF ServerInv, ServerTypes
<1>12. \A d \in ConnId : Live(d)' <=> Live(d)
    BY <1>2, <1>7, <1>8 DEF Live
<1>13. IdsAccounted'
    BY <1>3, <1>12 DEF ServerInv, IdsAccounted
<1>14. ContextMatchesConnection'
    <2> SUFFICES ASSUME NEW d \in ConnId
                 PROVE  IF Live(d)' /\ d # accepting'
                        THEN conn_contexts'[d].client = connections'[d].client /\ d \in registered'
                        ELSE conn_contexts'[d] = NoContext
        BY DEF ContextMatchesConnection
    <2>1. d # NoId
        BY KvServerAssumption DEF NoId, ConnId
    <2>2. CASE d = c
        BY <1>2, <1>3, <1>6, <1>7, <1>9, <1>10, <1>12, <2>1, <2>2
    <2>3. CASE d # c
        BY <1>1, <1>3, <1>7, <1>10, <1>12, <2>1, <2>3 DEF ServerInv, ContextMatchesConnection
    <2> QED
        BY <2>2, <2>3
<1> QED
    BY <1>3, <1>11, <1>13, <1>14 DEF ServerInv, AcceptingIsNew

\* Polling moves completions from a completion queue to the batch.
LEMMA PollInv ==
    ASSUME ServerInv, Poll
    PROVE  ServerInv'
<1>1. turn # "accept" /\ turn \in {"send", "recv"} /\ batch = << >>
    BY DEF Poll
<1>2. accepting = NoId
    BY <1>1 DEF ServerInv, AcceptingIsNew
<1>3. /\ turn' \in {"recv", "accept"}
      /\ UNCHANGED <<todo, accepting, free_conn_ids, connections, conn_contexts, registered,
                     pool, posted_recv, posted_send>>
    BY DEF Poll, clientVars, managerVars, bufferVars
<1> DEFINE n == IF Len(cq[turn]) < BatchSize THEN Len(cq[turn]) ELSE BatchSize
<1>4. cq[turn] \in Seq(Wc)
    BY <1>1 DEF ServerInv, ServerTypes
<1>5. Len(cq[turn]) \in Nat
    BY <1>4, LenProperties
<1>6. n \in 0 .. Len(cq[turn]) /\ n <= BatchSize
    BY <1>5, KvServerAssumption
<1>7. /\ batch' = SubSeq(cq[turn], 1, n)
      /\ cq' = [cq EXCEPT ![turn] = SubSeq(cq[turn], n + 1, Len(cq[turn]))]
    BY DEF Poll
<1> HIDE DEF n
<1>8. /\ batch' \in Seq(Wc) /\ Len(batch') <= BatchSize
      /\ SubSeq(cq[turn], n + 1, Len(cq[turn])) \in Seq(Wc)
    BY <1>4, <1>6, <1>7, TakeBatch
<1>9. cq' \in [send : Seq(Wc), recv : Seq(Wc)]
    <2>1. cq \in [send : Seq(Wc), recv : Seq(Wc)]
        BY DEF ServerInv, ServerTypes
    <2>2. CASE turn = "send"
        BY <1>7, <1>8, <2>1, <2>2
    <2>3. CASE turn = "recv"
        BY <1>7, <1>8, <2>1, <2>3
    <2> QED
        BY <1>1, <2>2, <2>3
<1>10. ServerTypes'
    BY <1>3, <1>8, <1>9 DEF ServerInv, ServerTypes
<1>11. IdsAccounted' /\ ContextMatchesConnection'
    BY <1>3 DEF ServerInv, IdsAccounted, ContextMatchesConnection, Live
<1> QED
    BY <1>2, <1>3, <1>10, <1>11 DEF ServerInv, AcceptingIsNew

\* The loop takes the completions of its batch one by one.
LEMMA HandlingKeeps ==
    ASSUME ServerInv, NEW wc, NEW kind, NEW ok, Handling(wc, kind, ok)
    PROVE  /\ wc \in Wc /\ wc.kind = kind /\ wc.ok = ok
           /\ batch' \in Seq(Wc) /\ Len(batch') <= BatchSize
           /\ accepting = NoId /\ accepting' = NoId
           /\ UNCHANGED <<todo, registered, turn>>
<1>1. batch \in Seq(Wc) /\ batch # << >> /\ Len(batch) <= BatchSize
    BY DEF Handling, ServerInv, ServerTypes
<1>2. wc = Head(batch) /\ batch' = Tail(batch)
    BY DEF Handling
<1>3. Head(batch) \in Wc /\ Tail(batch) \in Seq(Wc) /\ Len(Tail(batch)) = Len(batch) - 1
    BY <1>1, HeadTailProperties
<1>4. Len(batch) \in Nat /\ BatchSize \in Nat
    BY <1>1, LenProperties, KvServerAssumption
<1>5. Len(batch') <= BatchSize
    BY <1>1, <1>2, <1>3, <1>4
<1> QED
    BY <1>2, <1>3, <1>5 DEF Handling, clientVars

\* A send completion returns a buffer and keeps connections and contexts.
LEMMA HandleSendCompletionInv ==
    ASSUME ServerInv, NEW wc, HandleSendCompletion(wc)
    PROVE  ServerInv'
<1>1. /\ batch' \in Seq(Wc) /\ Len(batch') <= BatchSize
      /\ accepting = NoId /\ accepting' = NoId
      /\ UNCHANGED <<todo, registered, turn>>
    BY HandlingKeeps DEF HandleSendCompletion
<1>2. UNCHANGED <<free_conn_ids, connections, conn_contexts, posted_recv, cq>>
    BY DEF HandleSendCompletion, managerVars
<1>3. /\ pool' \in Pools(Buffer)
      /\ \A w \in DOMAIN posted_send' : w \in Number /\ posted_send'[w] \in Buffer
    <2>1. CASE wc.conn \in registered /\ wc.wr_id \in DOMAIN posted_send
        <3>1. /\ pool' = AfterFree(pool, posted_send[wc.wr_id])
              /\ posted_send' = Without(posted_send, wc.wr_id)
            BY <2>1 DEF HandleSendCompletion
        <3>2. pool \in Pools(Buffer) /\ posted_send[wc.wr_id] \in Buffer
            BY <2>1 DEF ServerInv, ServerTypes
        <3>3. pool' \in Pools(Buffer)
            BY <3>1, <3>2, FreeAdds, BuffersNumbered
        <3> QED
            BY <3>1, <3>3 DEF ServerInv, ServerTypes, Without
    <2>2. CASE ~(wc.conn \in registered /\ wc.wr_id \in DOMAIN posted_send)
        BY <2>2 DEF HandleSendCompletion, ServerInv, ServerTypes
    <2> QED
        BY <2>1, <2>2
<1>4. ServerTypes'
    BY <1>1, <1>2, <1>3 DEF ServerInv, ServerTypes
<1>5. IdsAccounted' /\ ContextMatchesConnection'
    BY <1>1, <1>2 DEF ServerInv, IdsAccounted, ContextMatchesConnection, Live
<1> QED
    BY <1>1, <1>4, <1>5 DEF ServerInv, AcceptingIsNew

\* A request is answered and its buffer replaced on the connection it came by.
LEMMA ProcessKeeps ==
    ASSUME ServerInv, NEW c \in ConnId, NEW buf \in Buffer, NEW msg \in Request,
           conn_contexts[c] # NoContext, accepting = NoId,
           Process(c, buf, msg), UNCHANGED <<accepting, free_conn_ids, registered>>
    PROVE  /\ connections' \in [ConnId -> ConnectionType \cup {NoConnection}]
           /\ conn_contexts' \in [ConnId -> ContextType \cup {NoContext}]
           /\ pool' \in Pools(Buffer)
           /\ posted_recv' \subseteq ConnId \X Buffer
           /\ \A w \in DOMAIN posted_send' : w \in Number /\ posted_send'[w] \in Buffer
           /\ \A d \in ConnId : Live(d)' <=> Live(d)
           /\ \A d \in ConnId : /\ connections'[d].client = connections[d].client
                                /\ Live(d) => connections'[d].failed = connections[d].failed
           /\ IdsAccounted' /\ ContextMatchesConnection'
<1>1. Live(c) /\ c # accepting
    BY DEF ServerInv, ContextMatchesConnection
<1>2. connections[c] \in ConnectionType /\ conn_contexts[c] \in ContextType
    BY <1>1 DEF ServerInv, ServerTypes, Live
<1> DEFINE b == Head(pool.queue)
           wr_id == <<c, SendNumber(conn_contexts[c], msg.op)>>
           conn == Posted(connections[c], wr_id, b, ResponseTo(msg))
           ctx == Counted(conn_contexts[c], msg.op)
           tracked == posted_recv \ {<<c, buf>>}
<1>3. tracked \in SUBSET (ConnId \X Buffer) /\ 1 \in Nat
    BY DEF ServerInv, ServerTypes
<1>4. ctx \in ContextType /\ ctx.client = conn_contexts[c].client /\ wr_id \in Number
    BY <1>2, CountedType DEF Number
<1>0. pool \in Pools(Buffer)
    BY DEF ServerInv, ServerTypes
<1>5. CASE msg.op # "SHORT" /\ pool.queue # << >>
    <2>1. b \in Buffer
        <3>1. pool.queue \in Seq(Buffer)
            BY <1>0 DEF Pools
        <3> QED
            BY <1>5, <3>1, HeadTailProperties
    <2>2. ResponseTo(msg) \in Response /\ b \in Buffer
        BY <2>1, ResponseType
    <2>3. /\ conn \in ConnectionType /\ conn.client = connections[c].client
          /\ conn.failed = connections[c].failed
        BY <1>2, <1>4, <2>2, PostedType
    <2>4. /\ posted_send' = With(posted_send, wr_id, b)
          /\ conn_contexts' = [conn_contexts EXCEPT ![c] = ctx]
          /\ PostRecvBuffers(c, conn, AfterFree(AfterAllocate(pool, 1), buf), 1, tracked)
        BY <1>5 DEF Process
    <2> HIDE DEF b, wr_id, conn, ctx, tracked
    <2>5. AfterFree(AfterAllocate(pool, 1), buf) \in Pools(Buffer)
        <3>1. AfterAllocate(pool, 1) \in Pools(Buffer)
            BY <1>0, <1>3, AllocateTakes
        <3> QED
            BY <3>1, FreeAdds, BuffersNumbered
    <2>6. /\ pool' \in Pools(Buffer) /\ posted_recv' \subseteq ConnId \X Buffer
          /\ \E new \in ConnectionType :
                /\ new.client = conn.client /\ new.failed = conn.failed
                /\ connections' = [connections EXCEPT ![c] = new]
        BY <1>3, <2>3, <2>4, <2>5, PostRecvBuffersType
    <2>7. PICK new \in ConnectionType :
                /\ new.client = conn.client /\ new.failed = conn.failed
                /\ connections' = [connections EXCEPT ![c] = new]
        BY <2>6
    <2>8. /\ connections' \in [ConnId -> ConnectionType \cup {NoConnection}]
          /\ connections'[c] = new
          /\ \A d \in ConnId \ {c} : connections'[d] = connections[d]
        BY <2>7 DEF ServerInv, ServerTypes
    <2>9. /\ conn_contexts' \in [ConnId -> ContextType \cup {NoContext}]
          /\ conn_contexts'[c] = ctx
          /\ \A d \in ConnId \ {c} : conn_contexts'[d] = conn_contexts[d]
        BY <1>4, <2>4 DEF ServerInv, ServerTypes
    <2>10. \A d \in ConnId : Live(d)' <=> Live(d)
        BY <1>1, <2>8, ConnectionIsLive DEF Live
    <2>11. \A d \in ConnId : /\ connections'[d].client = connections[d].client
                             /\ Live(d) => connections'[d].failed = connections[d].failed
        BY <2>3, <2>7, <2>8
    <2>12. \A w \in DOMAIN posted_send' : w \in Number /\ posted_send'[w] \in Buffer
        BY <1>4, <2>2, <2>4 DEF With, ServerInv, ServerTypes
    <2>13. IdsAccounted'
        BY <2>10 DEF ServerInv, IdsAccounted
    <2>14. ContextMatchesConnection'
        <3> SUFFICES ASSUME NEW d \in ConnId
                     PROVE  IF Live(d)' /\ d # accepting'
                            THEN /\ conn_contexts'[d].client = connections'[d].client
                                 /\ d \in registered'
                            ELSE conn_contexts'[d] = NoContext
            BY DEF ContextMatchesConnection
        <3>1. CASE d = c
            BY <1>1, <1>4, <2>9, <2>10, <2>11, <3>1 DEF ServerInv, ContextMatchesConnection
        <3>2. CASE d # c
            BY <2>9, <2>10, <2>11, <3>2 DEF ServerInv, ContextMatchesConnection
        <3> QED
            BY <3>1, <3>2
    <2> QED
        BY <2>6, <2>8, <2>9, <2>10, <2>11, <2>12, <2>13, <2>14
<1>6. CASE ~(msg.op # "SHORT" /\ pool.queue # << >>)
    <2>1. /\ UNCHANGED <<posted_send, conn_contexts>>
          /\ PostRecvBuffers(c, connections[c], AfterFree(pool, buf), 1, tracked)
        BY <1>6 DEF Process
    <2>2. AfterFree(pool, buf) \in Pools(Buffer)
        BY <1>0, FreeAdds, BuffersNumbered
    <2> HIDE DEF tracked
    <2>3. /\ pool' \in Pools(Buffer) /\ posted_recv' \subseteq ConnId \X Buffer
          /\ \E new \in ConnectionType :
                /\ new.client = connections[c].client /\ new.failed = connections[c].failed
                /\ connections' = [connections EXCEPT ![c] = new]
        BY <1>2, <1>3, <2>1, <2>2, PostRecvBuffersType
    <2>4. PICK new \in ConnectionType :
                /\ new.client = connections[c].client /\ new.failed = connections[c].failed
                /\ connections' = [connections EXCEPT ![c] = new]
        BY <2>3
    <2>5. /\ connections' \in [ConnId -> ConnectionType \cup {NoConnection}]
          /\ connections'[c] = new
          /\ \A d \in ConnId \ {c} : connections'[d] = connections[d]
          /\ \A d \in ConnId : Live(d)' <=> Live(d)
          /\ \A d \in ConnId : connections'[d].client = connections[d].client
          /\ IdsAccounted' /\ ContextMatchesConnection'
        BY <1>1, <2>1, <2>4, ConnectionUpdate
    <2>6. \A d \in ConnId : Live(d) => connections'[d].failed = connections[d].failed
        BY <2>4, <2>5
    <2> QED
        BY <2>1, <2>3, <2>5, <2>6 DEF ServerInv, ServerTypes
<1> QED
    BY <1>5, <1>6

\* A request is answered on its connection, which stays the context's.
LEMMA HandleRequestInv ==
    ASSUME ServerInv, NEW wc, HandleRequest(wc)
    PROVE  ServerInv'
<1>1. /\ wc \in Wc /\ wc.kind = "recv"
      /\ batch' \in Seq(Wc) /\ Len(batch') <= BatchSize
      /\ accepting = NoId /\ accepting' = NoId
      /\ UNCHANGED <<todo, registered, turn>>
    BY HandlingKeeps DEF HandleRequest
<1>2. wc.conn \in ConnId /\ wc.buf \in Buffer /\ wc.msg \in Request
    <2>1. wc \in RecvWc
        BY <1>1 DEF Wc, SendWc, RecvWc
    <2> QED
        BY <2>1 DEF RecvWc
<1>3. UNCHANGED <<free_conn_ids, cq>>
    BY DEF HandleRequest
<1> DEFINE ready == /\ wc.conn \in registered
                    /\ conn_contexts[wc.conn] # NoContext
                    /\ <<wc.conn, wc.buf>> \in posted_recv
<1>4. /\ connections' \in [ConnId -> ConnectionType \cup {NoConnection}]
      /\ conn_contexts' \in [ConnId -> ContextType \cup {NoContext}]
      /\ pool' \in Pools(Buffer)
      /\ posted_recv' \subseteq ConnId \X Buffer
      /\ \A w \in DOMAIN posted_send' : w \in Number /\ posted_send'[w] \in Buffer
      /\ IdsAccounted' /\ ContextMatchesConnection'
    <2>1. CASE ready
        <3>1. Process(wc.conn, wc.buf, wc.msg) /\ conn_contexts[wc.conn] # NoContext
            BY <2>1 DEF HandleRequest
        <3> QED
            BY <1>1, <1>2, <1>3, <3>1, ProcessKeeps
    <2>2. CASE ~ready
        <3>1. UNCHANGED <<connections, conn_contexts, pool, posted_recv, posted_send>>
            BY <2>2 DEF HandleRequest, bufferVars
        <3> QED
            BY <1>1, <1>3, <3>1 DEF ServerInv, ServerTypes, IdsAccounted,
                                     ContextMatchesConnection, Live
    <2> QED
        BY <2>1, <2>2
<1>5. ServerTypes'
    BY <1>1, <1>3, <1>4 DEF ServerInv, ServerTypes
<1> QED
    BY <1>1, <1>4, <1>5 DEF ServerInv, AcceptingIsNew

\* An error removes the connection, its context and the registration, and gives
\* the id back once, also when the connection had been removed before.
LEMMA OnErrorInv ==
    ASSUME ServerInv, NEW wc, OnError(wc)
    PROVE  ServerInv'
<1>1. /\ wc \in Wc
      /\ batch' \in Seq(Wc) /\ Len(batch') <= BatchSize
      /\ accepting = NoId /\ accepting' = NoId
      /\ UNCHANGED <<todo, registered, turn>>
    BY HandlingKeeps DEF OnError
<1>2. PICK c \in ConnId : c = wc.conn
    BY <1>1 DEF Wc, SendWc, RecvWc
<1>3. /\ conn_contexts' = [conn_contexts EXCEPT ![c] = NoContext]
      /\ cq' = Purged(connections[c].client)
      /\ RemoveConnection(c)
      /\ UNCHANGED <<pool, posted_recv, posted_send>>
    BY <1>2 DEF OnError, bufferVars
<1>4. /\ connections' \in [ConnId -> ConnectionType \cup {NoConnection}]
      /\ free_conn_ids' \in Seq(ConnId)
      /\ connections'[c] = NoConnection
      /\ \A d \in ConnId \ {c} : connections'[d] = connections[d]
      /\ IdsAccounted'
    BY <1>3, RemoveKeepsIds
<1>5. cq' \in [send : Seq(Wc), recv : Seq(Wc)]
    <2>1. cq \in [send : Seq(Wc), recv : Seq(Wc)]
        BY DEF ServerInv, ServerTypes
    <2>2. Purged(connections[c].client) \in [send : Seq(Wc), recv : Seq(Wc)]
        BY <2>1, PurgedType
    <2> QED
        BY <1>3, <2>2
<1>6. /\ conn_contexts' \in [ConnId -> ContextType \cup {NoContext}]
      /\ conn_contexts'[c] = NoContext
      /\ \A d \in ConnId \ {c} : conn_contexts'[d] = conn_contexts[d]
    BY <1>3 DEF ServerInv, ServerTypes
<1>7. ServerTypes'
    BY <1>1, <1>3, <1>4, <1>5, <1>6 DEF ServerInv, ServerTypes
<1>8. ContextMatchesConnection'
    BY <1>1, <1>4, <1>6 DEF ServerInv, ContextMatchesConnection, Live
<1> QED
    BY <1>1, <1>4, <1>7, <1>8 DEF ServerInv, AcceptingIsNew

\* What the NIC reports of a connection has the type of a completion.
LEMMA CompletionType ==
    ASSUME ServerInv, NEW c \in ConnId, Live(c), NEW ok \in BOOLEAN
    PROVE  /\ \A w \in Number : SendCompletion(ok, c, w) \in Wc
           /\ \A b \in Buffer, msg \in Request : RecvCompletion(ok, c, b, msg) \in Wc
<1>1. connections[c].client \in Client
    BY DEF ServerInv, ServerTypes, Live, ConnectionType
<1> QED
    BY <1>1 DEF SendCompletion, RecvCompletion, Wc, SendWc, RecvWc

\* The completions of the connection with an id: it is an established one, and
\* it has failed if there is an error among them.
CompletionsOf(c) ==
    {wc \in Wc : /\ wc.conn = c /\ wc.client = connections[c].client
                 /\ ~wc.ok => connections[c].failed}

\* What the NIC does: it changes one queue pair and adds completions of it.
NicEffect(c) ==
    /\ Live(c) /\ c # accepting
    /\ \E conn \in ConnectionType :
          /\ conn.client = connections[c].client
          /\ connections[c].failed => conn.failed
          /\ connections' = [connections EXCEPT ![c] = conn]
    /\ \E s, r \in Seq(CompletionsOf(c)) :
          cq' = [send |-> cq.send \o s, recv |-> cq.recv \o r]
    /\ todo' \in [Client -> Seq(RequestKind)]
    /\ UNCHANGED <<accepting, free_conn_ids, conn_contexts, registered, bufferVars, loopVars>>

\* Nothing was posted to the connection that is being accepted.
LEMMA PostedIsAccepted ==
    ASSUME ServerInv, NEW c \in ConnId, Live(c),
           connections[c].failed \/ connections[c].sq # << >> \/ connections[c].rq # << >>
    PROVE  c # accepting
<1>1. c # NoId
    BY KvServerAssumption DEF NoId, ConnId
<1> QED
    BY <1>1 DEF ServerInv, AcceptingIsNew

\* No completions are added, in the form of NicEffect.
LEMMA NoCompletions ==
    ASSUME ServerInv
    PROVE  cq = [send |-> cq.send \o << >>, recv |-> cq.recv \o << >>]
<1>1. cq \in [send : Seq(Wc), recv : Seq(Wc)]
    BY DEF ServerInv, ServerTypes
<1>2. cq.send \o << >> = cq.send /\ cq.recv \o << >> = cq.recv
    BY <1>1, ConcatEmptySeq
<1> QED
    BY <1>1, <1>2

\* A connection fails.
LEMMA NicFailsEffect ==
    ASSUME ServerInv, NEW c \in ConnId, NicFails(c)
    PROVE  NicEffect(c)
<1> DEFINE conn == [connections[c] EXCEPT !.failed = TRUE]
<1>1. Live(c) /\ c # accepting
    BY DEF NicFails
<1>2. connections[c] \in ConnectionType
    BY <1>1 DEF ServerInv, ServerTypes, Live
<1>3. conn \in ConnectionType /\ conn.client = connections[c].client /\ conn.failed
    BY <1>2 DEF ConnectionType
<1>4. connections' = [connections EXCEPT ![c] = conn]
    BY DEF NicFails
<1> HIDE DEF conn
<1>5. /\ << >> \in Seq(CompletionsOf(c))
      /\ cq' = [send |-> cq.send \o << >>, recv |-> cq.recv \o << >>]
    BY EmptySeq, NoCompletions DEF NicFails
<1>6. todo' \in [Client -> Seq(RequestKind)]
    BY DEF NicFails, clientVars, ServerInv, ServerTypes
<1> QED
    BY <1>1, <1>3, <1>4, <1>5, <1>6 DEF NicEffect, NicFails

\* A failed connection's requests are flushed.
LEMMA NicFlushesEffect ==
    ASSUME ServerInv, NEW c \in ConnId, NicFlushes(c)
    PROVE  NicEffect(c)
<1> DEFINE old == connections[c]
           conn == [old EXCEPT !.sq = << >>, !.rq = << >>]
           s == [i \in DOMAIN old.sq |-> SendCompletion(FALSE, c, old.sq[i].wr_id)]
           r == [i \in DOMAIN old.rq |-> RecvCompletion(FALSE, c, old.rq[i], NoMessage)]
<1>1. Live(c) /\ c # accepting /\ old.failed
    BY PostedIsAccepted DEF NicFlushes
<1>2. old \in ConnectionType
    BY <1>1 DEF ServerInv, ServerTypes, Live
<1>3. conn \in ConnectionType /\ conn.client = old.client /\ conn.failed = old.failed
    BY <1>2, EmptySeq DEF ConnectionType
<1>4. connections' = [connections EXCEPT ![c] = conn]
    BY DEF NicFlushes, ServerInv, ServerTypes
<1>5. cq' = [send |-> cq.send \o s, recv |-> cq.recv \o r]
    BY DEF NicFlushes
<1>6. NoMessage \in Request /\ FALSE \in BOOLEAN
    BY DEF NoMessage, Request
<1>7. s \in Seq(CompletionsOf(c))
    <2>1. old.sq \in Seq(WorkRequests)
        BY <1>2 DEF ConnectionType
    <2>2. ASSUME NEW i \in DOMAIN old.sq
          PROVE  SendCompletion(FALSE, c, old.sq[i].wr_id) \in CompletionsOf(c)
        <3>1. old.sq[i] \in WorkRequests
            BY <2>1, LenProperties, ElementOfSeq
        <3>2. old.sq[i].wr_id \in Number
            BY <3>1 DEF WorkRequests
        <3>3. SendCompletion(FALSE, c, old.sq[i].wr_id) \in Wc
            BY <1>1, <1>6, <3>2, CompletionType
        <3> QED
            BY <1>1, <3>3 DEF CompletionsOf, SendCompletion
    <2> HIDE DEF old
    <2> QED
        BY <2>1, <2>2, FlushedSends
<1>8. r \in Seq(CompletionsOf(c))
    <2>1. old.rq \in Seq(Buffer)
        BY <1>2 DEF ConnectionType
    <2>2. ASSUME NEW b \in Buffer
          PROVE  RecvCompletion(FALSE, c, b, NoMessage) \in CompletionsOf(c)
        <3>1. RecvCompletion(FALSE, c, b, NoMessage) \in Wc
            BY <1>1, <1>6, <2>1, CompletionType
        <3> QED
            BY <1>1, <3>1 DEF CompletionsOf, RecvCompletion
    <2> HIDE DEF old
    <2> QED
        BY <2>1, <2>2, FlushedReceives
<1> HIDE DEF conn, s, r
<1>9. todo' \in [Client -> Seq(RequestKind)]
    BY DEF NicFlushes, clientVars, ServerInv, ServerTypes
<1> QED
    BY <1>1, <1>3, <1>4, <1>5, <1>7, <1>8, <1>9 DEF NicEffect, NicFlushes

\* A response is delivered and its send completed.
LEMMA ClientReceivesEffect ==
    ASSUME ServerInv, NEW c \in ConnId, ClientReceives(c)
    PROVE  NicEffect(c)
<1> USE DEF ClientReceives, FinishSend
<1> DEFINE old == connections[c]
           wr == Head(old.sq)
           conn == [old EXCEPT !.sq = Tail(@)]
           wc == SendCompletion(TRUE, c, wr.wr_id)
<1>1. Live(c) /\ c # accepting /\ old.sq # << >>
    BY PostedIsAccepted
<1>2. old \in ConnectionType /\ old.sq \in Seq(WorkRequests)
    BY <1>1 DEF ServerInv, ServerTypes, Live, ConnectionType
<1>3. wr \in WorkRequests /\ Tail(old.sq) \in Seq(WorkRequests)
    BY <1>1, <1>2, HeadTailProperties
<1>4. conn \in ConnectionType /\ conn.client = old.client /\ conn.failed = old.failed
    BY <1>2, <1>3 DEF ConnectionType
<1>5. connections' = [connections EXCEPT ![c] = conn]
    OBVIOUS
<1>6. wc \in CompletionsOf(c)
    <2>1. wr.wr_id \in Number /\ TRUE \in BOOLEAN
        BY <1>3 DEF WorkRequests
    <2>2. wc \in Wc
        BY <1>1, <2>1, CompletionType
    <2> QED
        BY <2>2 DEF CompletionsOf, SendCompletion
<1>7. \E s, r \in Seq(CompletionsOf(c)) : cq' = [send |-> cq.send \o s, recv |-> cq.recv \o r]
    <2> HIDE DEF wc
    <2>1. << >> \in Seq(CompletionsOf(c)) /\ <<wc>> \in Seq(CompletionsOf(c))
        BY <1>6, EmptySeq
    <2>2. cq \in [send : Seq(Wc), recv : Seq(Wc)]
        BY DEF ServerInv, ServerTypes
    <2>3. CASE wr.signaled
        <3>1. wc \in Wc
            BY <1>6 DEF CompletionsOf
        <3>2. Append(cq.send, wc) = cq.send \o <<wc>> /\ cq.recv \o << >> = cq.recv
            BY <2>2, <3>1, AppendIsConcat, ConcatEmptySeq
        <3>3. cq' = [cq EXCEPT !.send = Append(@, wc)]
            BY <2>3 DEF wc
        <3>4. cq' = [send |-> cq.send \o <<wc>>, recv |-> cq.recv \o << >>]
            BY <2>2, <3>2, <3>3
        <3> QED
            BY <2>1, <3>4
    <2>4. CASE ~wr.signaled
        <3>1. cq' = cq
            BY <2>4
        <3> QED
            BY <2>1, <3>1, NoCompletions
    <2> QED
        BY <2>3, <2>4
<1>8. /\ todo' \in [Client -> Seq(RequestKind)]
      /\ UNCHANGED <<accepting, free_conn_ids, conn_contexts, registered, bufferVars, loopVars>>
    BY DEF clientVars, ServerInv, ServerTypes
<1> HIDE DEF conn, wc, ClientReceives, FinishSend
<1> QED
    BY <1>1, <1>4, <1>5, <1>7, <1>8 DEF NicEffect

\* A message arrives in a posted buffer.
LEMMA ReceiveMessageEffect ==
    ASSUME ServerInv, NEW c \in ConnId, NEW msg \in Request, ReceiveMessage(c, msg),
           todo' \in [Client -> Seq(RequestKind)]
    PROVE  NicEffect(c)
<1> USE DEF ReceiveMessage
<1> DEFINE old == connections[c]
           b == Head(old.rq)
           conn == [old EXCEPT !.rq = Tail(@)]
           wc == RecvCompletion(TRUE, c, b, msg)
<1>1. Live(c) /\ c # accepting /\ old.rq # << >>
    BY PostedIsAccepted
<1>2. old \in ConnectionType /\ old.rq \in Seq(Buffer)
    BY <1>1 DEF ServerInv, ServerTypes, Live, ConnectionType
<1>b. b \in Buffer /\ Tail(old.rq) \in Seq(Buffer)
    BY <1>1, <1>2, HeadTailProperties
<1>3. conn \in ConnectionType /\ conn.client = old.client /\ conn.failed = old.failed
    BY <1>2, <1>b DEF ConnectionType
<1>4. connections' = [connections EXCEPT ![c] = conn]
    OBVIOUS
<1>5. wc \in CompletionsOf(c)
    <2>1. b \in Buffer /\ TRUE \in BOOLEAN
        BY <1>b
    <2>2. wc \in Wc
        BY <1>1, <2>1, CompletionType
    <2> QED
        BY <2>2 DEF CompletionsOf, RecvCompletion
<1>6. \E s, r \in Seq(CompletionsOf(c)) : cq' = [send |-> cq.send \o s, recv |-> cq.recv \o r]
    <2>1. cq' = [cq EXCEPT !.recv = Append(@, wc)]
        OBVIOUS
    <2> HIDE DEF wc, ReceiveMessage
    <2>2. << >> \in Seq(CompletionsOf(c)) /\ <<wc>> \in Seq(CompletionsOf(c))
        BY <1>5, EmptySeq
    <2>3. cq \in [send : Seq(Wc), recv : Seq(Wc)] /\ wc \in Wc
        BY <1>5 DEF ServerInv, ServerTypes, CompletionsOf
    <2>4. Append(cq.recv, wc) = cq.recv \o <<wc>> /\ cq.send \o << >> = cq.send
        BY <2>3, AppendIsConcat, ConcatEmptySeq
    <2>5. cq' = [send |-> cq.send \o << >>, recv |-> cq.recv \o <<wc>>]
        BY <2>1, <2>3, <2>4
    <2> QED
        BY <2>2, <2>5
<1>7. UNCHANGED <<accepting, free_conn_ids, conn_contexts, registered, bufferVars, loopVars>>
    OBVIOUS
<1> HIDE DEF conn, wc, ReceiveMessage
<1> QED
    BY <1>1, <1>3, <1>4, <1>6, <1>7 DEF NicEffect

\* A request of the plan arrives.
LEMMA ClientAsksEffect ==
    ASSUME ServerInv, NEW c \in ConnId, ClientAsks(c)
    PROVE  NicEffect(c)
<1> DEFINE cl == connections[c].client
           msg == [op |-> Head(todo[cl]), key |-> 1]
<1>1. /\ Live(c) /\ todo[cl] # << >> /\ ReceiveMessage(c, msg)
      /\ todo' = [todo EXCEPT ![cl] = Tail(todo[cl])]
    BY DEF ClientAsks
<1>2. cl \in Client
    BY <1>1 DEF ServerInv, ServerTypes, Live, ConnectionType
<1>3. todo[cl] \in Seq(RequestKind)
    BY <1>2 DEF ServerInv, ServerTypes
<1>4. Head(todo[cl]) \in RequestKind /\ Tail(todo[cl]) \in Seq(RequestKind)
    BY <1>1, <1>3, HeadTailProperties
<1>5. msg \in Request
    BY <1>4 DEF Request
<1> HIDE DEF cl, msg
<1>6. todo' \in [Client -> Seq(RequestKind)]
    BY <1>1, <1>4 DEF ServerInv, ServerTypes
<1> QED
    BY <1>1, <1>5, <1>6, ReceiveMessageEffect

\* What the NIC does leaves ids and contexts alone.
LEMMA NicEffectInv ==
    ASSUME ServerInv, NEW c \in ConnId, NicEffect(c)
    PROVE  ServerInv'
<1>1. PICK conn \in ConnectionType :
          /\ conn.client = connections[c].client
          /\ connections' = [connections EXCEPT ![c] = conn]
    BY DEF NicEffect
<1>2. PICK s, r \in Seq(CompletionsOf(c)) :
          cq' = [send |-> cq.send \o s, recv |-> cq.recv \o r]
    BY DEF NicEffect
<1>3. CompletionsOf(c) \subseteq Wc
    BY DEF CompletionsOf
<1>4. s \in Seq(Wc) /\ r \in Seq(Wc)
    BY <1>2, <1>3, SeqMonotonic
<1>5. cq.send \in Seq(Wc) /\ cq.recv \in Seq(Wc)
    BY DEF ServerInv, ServerTypes
<1>6. cq.send \o s \in Seq(Wc) /\ cq.recv \o r \in Seq(Wc)
    BY <1>4, <1>5, ConcatProperties
<1>7. cq' \in [send : Seq(Wc), recv : Seq(Wc)]
    BY <1>2, <1>6
<1>8. /\ connections' \in [ConnId -> ConnectionType \cup {NoConnection}]
      /\ \A d \in ConnId \ {c} : connections'[d] = connections[d]
      /\ IdsAccounted' /\ ContextMatchesConnection'
    BY <1>1, ConnectionUpdate DEF NicEffect
<1>9. ServerTypes'
    BY <1>7, <1>8 DEF NicEffect, ServerInv, ServerTypes, bufferVars, loopVars
<1>10. AcceptingIsNew'
    <2> SUFFICES ASSUME accepting # NoId
                 PROVE  AcceptingIsNew'
        BY DEF AcceptingIsNew, NicEffect
    <2>1. accepting \in ConnId \ {c}
        BY DEF NicEffect, ServerInv, ServerTypes
    <2>2. connections'[accepting'] = connections[accepting]
        BY <1>8, <2>1 DEF NicEffect
    <2> QED
        BY <2>2 DEF NicEffect, ServerInv, AcceptingIsNew, Live, loopVars
<1> QED
    BY <1>8, <1>9, <1>10 DEF ServerInv

\* The steps that only move a client's handshake or the loop along.
LEMMA TurnInv ==
    ASSUME ServerInv, turn' \in {turn, "send"}, turn' # turn => accepting = NoId,
           UNCHANGED <<todo, accepting, managerVars, conn_contexts, registered,
                       bufferVars, cq, batch>>
    PROVE  ServerInv'
<1>1. ServerTypes'
    BY DEF ServerInv, ServerTypes, managerVars, bufferVars
<1>2. AcceptingIsNew'
    BY DEF ServerInv, AcceptingIsNew, Live, managerVars
<1>3. IdsAccounted' /\ ContextMatchesConnection'
    BY DEF ServerInv, IdsAccounted, ContextMatchesConnection, Live, managerVars
<1> QED
    BY <1>1, <1>2, <1>3 DEF ServerInv

\* Every step keeps the invariant.
LEMMA ServerNextInv == ServerInv /\ [ServerNext]_serverVars => ServerInv'
<1> SUFFICES ASSUME ServerInv, [ServerNext]_serverVars
             PROVE  ServerInv'
    OBVIOUS
<1>1. CASE NobodyWaits
    BY <1>1, TurnInv DEF NobodyWaits, BetweenPolls, clientVars
<1>2. ASSUME NEW cl \in Client, RefuseClient(cl)
      PROVE  ServerInv'
    BY <1>2, TurnInv DEF RefuseClient, BetweenPolls
<1>3. ASSUME NEW cl \in Client, OfferParams(cl)
      PROVE  ServerInv'
    BY <1>3, OfferParamsInv
<1>4. CASE GiveUp
    BY <1>4, GiveUpInv
<1>5. CASE FinishAccept
    BY <1>5, FinishAcceptInv
<1>6. CASE Poll
    BY <1>6, PollInv
<1>7. CASE Handle
    <2>1. PICK wc : HandleSendCompletion(wc) \/ HandleRequest(wc) \/ OnError(wc)
        BY <1>7 DEF Handle
    <2> QED
        BY <2>1, HandleSendCompletionInv, HandleRequestInv, OnErrorInv
<1>8. ASSUME NEW c \in ConnId,
             ClientAsks(c) \/ ClientReceives(c) \/ NicFails(c) \/ NicFlushes(c)
      PROVE  ServerInv'
    BY <1>8, ClientAsksEffect, ClientReceivesEffect, NicFailsEffect, NicFlushesEffect,
       NicEffectInv
<1>9. ASSUME NEW cl \in Client, ClientCalls(cl)
      PROVE  ServerInv'
    BY <1>9, TurnInv DEF ClientCalls, loopVars
<1>10. ASSUME NEW cl \in Client, NEW answer, ClientReplies(cl, answer)
      PROVE  ServerInv'
    BY <1>10, TurnInv DEF ClientReplies, loopVars
<1>11. CASE UNCHANGED serverVars
    BY <1>11, TurnInv DEF serverVars, loopVars
<1> QED
    BY <1>1, <1>2, <1>3, <1>4, <1>5, <1>6, <1>7, <1>8, <1>9, <1>10, <1>11
    DEF ServerNext, ServerStep

\* The invariant of every behaviour.
LEMMA ServerInvariant == ServerSpec => []ServerInv
BY ServerInitInv, ServerNextInv, PTL DEF ServerSpec

\* What is queued is no more than was tracked, and what is tracked no more than
\* was queued.
LEMMA PostRecvBounded ==
    ASSUME NEW c, NEW conn, NEW from \in Pools(Buffer), NEW n \in Nat, NEW tracked,
           PostRecvBuffers(c, conn, from, n, tracked), IsFiniteSet(tracked)
    PROVE  /\ IsFiniteSet(posted_recv')
           /\ Len(pool'.queue) + Cardinality(posted_recv')
                  <= Len(from.queue) + Cardinality(tracked)
<1> DEFINE bs == Allocated(from, n)
           new == {<<c, b>> : b \in Range(bs)}
           f == [i \in 1 .. Len(bs) |-> <<c, bs[i]>>]
<1>1. /\ bs \in Seq(Buffer) /\ AfterAllocate(from, n) \in Pools(Buffer)
      /\ Len(bs) + Len(AfterAllocate(from, n).queue) = Len(from.queue)
    BY AllocateTakes
<1>2. pool' = AfterAllocate(from, n) /\ posted_recv' = tracked \cup new
    BY DEF PostRecvBuffers
<1> HIDE DEF bs
<1>3. Len(bs) \in Nat /\ DOMAIN bs = 1 .. Len(bs)
    BY <1>1, LenProperties
<1>4. f \in Surjection(1 .. Len(bs), new)
    BY <1>3 DEF Surjection, Range
<1>5. IsFiniteSet(1 .. Len(bs)) /\ Cardinality(1 .. Len(bs)) = Len(bs)
    <2>1. 1 \in Int /\ Len(bs) \in Int
        BY <1>3
    <2>2. /\ IsFiniteSet(1 .. Len(bs))
          /\ Cardinality(1 .. Len(bs)) = IF 1 > Len(bs) THEN 0 ELSE Len(bs) - 1 + 1
        BY <2>1, FS_Interval
    <2> QED
        BY <1>3, <2>2
<1> HIDE DEF f, new
<1>6. IsFiniteSet(new) /\ Cardinality(new) <= Len(bs)
    BY <1>4, <1>5, FS_Surjection
<1>7. /\ IsFiniteSet(tracked \cup new) /\ IsFiniteSet(tracked \cap new)
      /\ Cardinality(tracked \cup new) =
            Cardinality(tracked) + Cardinality(new) - Cardinality(tracked \cap new)
    BY <1>6, FS_Union, FS_Intersection
<1>8. /\ Cardinality(tracked) \in Nat /\ Cardinality(new) \in Nat
      /\ Cardinality(tracked \cap new) \in Nat
    BY <1>6, <1>7, FS_CardinalityType
<1>9. AfterAllocate(from, n).queue \in Seq(Buffer) /\ from.queue \in Seq(Buffer)
    BY <1>1 DEF Pools
<1>10. Len(AfterAllocate(from, n).queue) \in Nat /\ Len(from.queue) \in Nat
    BY <1>9, LenProperties
<1> QED
    BY <1>1, <1>2, <1>3, <1>6, <1>7, <1>8, <1>10

\* A request is answered with a buffer of the pool.
LEMMA ProcessBounded ==
    ASSUME ServerInv, BuffersBounded, NEW c \in ConnId, NEW buf \in Buffer, NEW msg,
           <<c, buf>> \in posted_recv, Process(c, buf, msg)
    PROVE  BuffersBounded'
<1> DEFINE tracked == posted_recv \ {<<c, buf>>}
<1>1. pool \in Pools(Buffer) /\ pool.queue \in Seq(Buffer)
    BY DEF ServerInv, ServerTypes, Pools
<1>2. IsFiniteSet(posted_recv) /\ IsFiniteSet(DOMAIN posted_send)
    BY DEF BuffersBounded
<1>3. /\ IsFiniteSet(tracked) /\ Cardinality(tracked) = Cardinality(posted_recv) - 1
      /\ Cardinality(posted_recv) \in Nat /\ Cardinality(DOMAIN posted_send) \in Nat
    BY <1>2, FS_RemoveElement, FS_CardinalityType
<1>4. Len(pool.queue) \in Nat /\ 1 \in Nat
    BY <1>1, LenProperties
<1>5. CASE msg.op # "SHORT" /\ pool.queue # << >>
    <2> DEFINE w == <<c, SendNumber(conn_contexts[c], msg.op)>>
               from == AfterFree(AfterAllocate(pool, 1), buf)
    <2>1. PICK conn :
             /\ posted_send' = With(posted_send, w, Head(pool.queue))
             /\ PostRecvBuffers(c, conn, from, 1, tracked)
        BY <1>5 DEF Process
    <2>2. /\ AfterAllocate(pool, 1) \in Pools(Buffer)
          /\ Len(AfterAllocate(pool, 1).queue) <= Len(pool.queue) - 1
          /\ Len(AfterAllocate(pool, 1).queue) \in Nat
        <3>1. /\ AfterAllocate(pool, 1) \in Pools(Buffer) /\ Allocated(pool, 1) \in Seq(Buffer)
              /\ Len(Allocated(pool, 1)) + Len(AfterAllocate(pool, 1).queue) = Len(pool.queue)
              /\ Len(Allocated(pool, 1)) >= 1
            BY <1>1, <1>4, <1>5, AllocateTakes
        <3>2. AfterAllocate(pool, 1).queue \in Seq(Buffer)
            BY <3>1 DEF Pools
        <3>3. Len(Allocated(pool, 1)) \in Nat /\ Len(AfterAllocate(pool, 1).queue) \in Nat
            BY <3>1, <3>2, LenProperties
        <3> QED
            BY <1>4, <3>1, <3>3
    <2>3. from \in Pools(Buffer) /\ Len(from.queue) = Len(AfterAllocate(pool, 1).queue) + 1
        BY <2>2, FreeAdds, BuffersNumbered
    <2> HIDE DEF from, tracked
    <2>4. /\ IsFiniteSet(posted_recv')
          /\ Len(pool'.queue) + Cardinality(posted_recv')
                 <= Len(from.queue) + Cardinality(tracked)
        BY <1>3, <1>4, <2>1, <2>3, PostRecvBounded
    <2>5. DOMAIN posted_send' = DOMAIN posted_send \cup {w}
        BY <2>1 DEF With
    <2> HIDE DEF w
    <2>6. /\ IsFiniteSet(DOMAIN posted_send')
          /\ Cardinality(DOMAIN posted_send') <= Cardinality(DOMAIN posted_send) + 1
          /\ Cardinality(DOMAIN posted_send') \in Nat
        <3>1. /\ IsFiniteSet(DOMAIN posted_send \cup {w})
              /\ Cardinality(DOMAIN posted_send \cup {w}) =
                    IF w \in DOMAIN posted_send THEN Cardinality(DOMAIN posted_send)
                    ELSE Cardinality(DOMAIN posted_send) + 1
            BY <1>2, FS_AddElement
        <3> QED
            BY <1>3, <2>5, <3>1
    <2>7. pool' \in Pools(Buffer)
        BY <1>4, <2>1, <2>3, AllocateTakes DEF PostRecvBuffers
    <2>8. Len(pool'.queue) \in Nat /\ Cardinality(posted_recv') \in Nat /\ BufferCount \in Nat
        BY <2>4, <2>7, LenProperties, FS_CardinalityType, KvServerAssumption DEF Pools
    <2>9. Len(pool.queue) + Cardinality(posted_recv) + Cardinality(DOMAIN posted_send)
              <= BufferCount
        BY DEF BuffersBounded
    <2>10. Len(pool'.queue) + Cardinality(posted_recv') + Cardinality(DOMAIN posted_send')
               <= BufferCount
        <3>1. Len(from.queue) + Cardinality(tracked)
                  <= Len(pool.queue) + Cardinality(posted_recv) - 1
            BY <1>3, <1>4, <2>2, <2>3
        <3>2. Len(from.queue) \in Nat /\ Cardinality(tracked) \in Int
            BY <1>3, <2>2, <2>3
        <3> QED
            <4> DEFINE q1 == Len(pool'.queue)
                       r1 == Cardinality(posted_recv')
                       s1 == Cardinality(DOMAIN posted_send')
                       q == Len(pool.queue)
                       r == Cardinality(posted_recv)
                       s == Cardinality(DOMAIN posted_send)
                       m == Len(from.queue)
                       t == Cardinality(tracked)
            <4>1. /\ q1 \in Nat /\ r1 \in Nat /\ s1 \in Nat /\ BufferCount \in Nat
                  /\ q \in Nat /\ r \in Nat /\ s \in Nat /\ m \in Nat /\ t \in Int
                BY <1>3, <1>4, <2>6, <2>8, <3>2
            <4>2. m + t <= q + r - 1
                BY <3>1
            <4>3. q1 + r1 <= m + t
                BY <2>4
            <4>4. s1 <= s + 1
                BY <2>6
            <4>5. q + r + s <= BufferCount
                BY <2>9
            <4> HIDE DEF q1, r1, s1, q, r, s, m, t
            <4>6. q1 + r1 + s1 <= BufferCount
                BY <4>1, <4>2, <4>3, <4>4, <4>5
            <4> QED
                BY <4>6 DEF q1, r1, s1
    <2> QED
        BY <2>4, <2>6, <2>10 DEF BuffersBounded
<1>6. CASE ~(msg.op # "SHORT" /\ pool.queue # << >>)
    <2> DEFINE from == AfterFree(pool, buf)
    <2>1. /\ posted_send' = posted_send
          /\ PostRecvBuffers(c, connections[c], from, 1, tracked)
        BY <1>6 DEF Process
    <2>2. from \in Pools(Buffer) /\ Len(from.queue) = Len(pool.queue) + 1
        BY <1>1, FreeAdds, BuffersNumbered
    <2> HIDE DEF from, tracked
    <2>3. /\ IsFiniteSet(posted_recv')
          /\ Len(pool'.queue) + Cardinality(posted_recv')
                 <= Len(from.queue) + Cardinality(tracked)
        BY <1>3, <1>4, <2>1, <2>2, PostRecvBounded
    <2>4. pool' \in Pools(Buffer)
        BY <1>4, <2>1, <2>2, AllocateTakes DEF PostRecvBuffers
    <2>5. Len(pool'.queue) \in Nat /\ Cardinality(posted_recv') \in Nat /\ BufferCount \in Nat
        BY <2>3, <2>4, LenProperties, FS_CardinalityType, KvServerAssumption DEF Pools
    <2>6. Len(pool.queue) + Cardinality(posted_recv) + Cardinality(DOMAIN posted_send)
              <= BufferCount
        BY DEF BuffersBounded
    <2>7. Len(pool'.queue) + Cardinality(posted_recv') + Cardinality(DOMAIN posted_send)
               <= BufferCount
        <3>1. /\ Len(from.queue) \in Nat /\ Cardinality(tracked) \in Int
              /\ Len(from.queue) + Cardinality(tracked)
                     <= Len(pool.queue) + Cardinality(posted_recv)
            BY <1>3, <1>4, <2>2
        <3> QED
            <4> DEFINE q1 == Len(pool'.queue)
                       r1 == Cardinality(posted_recv')
                       q == Len(pool.queue)
                       r == Cardinality(posted_recv)
                       s == Cardinality(DOMAIN posted_send)
                       m == Len(from.queue)
                       t == Cardinality(tracked)
            <4>1. /\ q1 \in Nat /\ r1 \in Nat /\ BufferCount \in Nat
                  /\ q \in Nat /\ r \in Nat /\ s \in Nat /\ m \in Nat /\ t \in Int
                BY <1>3, <1>4, <2>5, <3>1
            <4>2. m + t <= q + r
                BY <3>1
            <4>3. q1 + r1 <= m + t
                BY <2>3
            <4>4. q + r + s <= BufferCount
                BY <2>6
            <4> HIDE DEF q1, r1, q, r, s, m, t
            <4>5. q1 + r1 + s <= BufferCount
                BY <4>1, <4>2, <4>3, <4>4
            <4> QED
                BY <4>5 DEF q1, r1, s
    <2> QED
        BY <1>2, <2>1, <2>3, <2>7 DEF BuffersBounded
<1> QED
    BY <1>5, <1>6

\* A new connection's receives come from the pool.
LEMMA FinishAcceptBounded ==
    ASSUME ServerInv, BuffersBounded, FinishAccept
    PROVE  BuffersBounded'
<1>1. pool \in Pools(Buffer) /\ RecvCount \in Nat /\ BufferCount \in Nat
    BY KvServerAssumption DEF ServerInv, ServerTypes
<1>2. /\ PostRecvBuffers(accepting, connections[accepting], pool, RecvCount, posted_recv)
      /\ posted_send' = posted_send
    BY DEF FinishAccept
<1>3. IsFiniteSet(posted_recv) /\ IsFiniteSet(DOMAIN posted_send)
    BY DEF BuffersBounded
<1>4. /\ IsFiniteSet(posted_recv')
      /\ Len(pool'.queue) + Cardinality(posted_recv')
             <= Len(pool.queue) + Cardinality(posted_recv)
    BY <1>1, <1>2, <1>3, PostRecvBounded
<1>5. pool' \in Pools(Buffer)
    BY <1>1, <1>2, AllocateTakes DEF PostRecvBuffers
<1>6. /\ Len(pool'.queue) \in Nat /\ Len(pool.queue) \in Nat
      /\ Cardinality(posted_recv) \in Nat /\ Cardinality(posted_recv') \in Nat
      /\ Cardinality(DOMAIN posted_send) \in Nat
    BY <1>1, <1>3, <1>4, <1>5, LenProperties, FS_CardinalityType DEF Pools
<1>7. Len(pool.queue) + Cardinality(posted_recv) + Cardinality(DOMAIN posted_send)
          <= BufferCount
    BY DEF BuffersBounded
<1>8. Len(pool'.queue) + Cardinality(posted_recv') + Cardinality(DOMAIN posted_send)
          <= BufferCount
    BY <1>1, <1>4, <1>6, <1>7
<1> QED
    BY <1>2, <1>3, <1>4, <1>8 DEF BuffersBounded

\* A send completion takes the entry whose buffer it frees.
LEMMA HandleSendBounded ==
    ASSUME ServerInv, BuffersBounded, NEW wc, HandleSendCompletion(wc)
    PROVE  BuffersBounded'
<1>1. CASE wc.conn \in registered /\ wc.wr_id \in DOMAIN posted_send
    <2> DEFINE w == wc.wr_id
    <2>1. /\ pool' = AfterFree(pool, posted_send[w])
          /\ posted_send' = Without(posted_send, w) /\ posted_recv' = posted_recv
        BY <1>1 DEF HandleSendCompletion
    <2>2. pool \in Pools(Buffer) /\ posted_send[w] \in Buffer
        BY <1>1 DEF ServerInv, ServerTypes
    <2>3. Len(pool'.queue) = Len(pool.queue) + 1
        BY <2>1, <2>2, FreeAdds, BuffersNumbered
    <2>4. DOMAIN posted_send' = DOMAIN posted_send \ {w}
        BY <2>1 DEF Without
    <2>5. IsFiniteSet(posted_recv) /\ IsFiniteSet(DOMAIN posted_send)
        BY DEF BuffersBounded
    <2>6. /\ IsFiniteSet(DOMAIN posted_send')
          /\ Cardinality(DOMAIN posted_send') = Cardinality(DOMAIN posted_send) - 1
        BY <1>1, <2>4, <2>5, FS_RemoveElement
    <2>7. /\ Len(pool.queue) \in Nat /\ Cardinality(posted_recv) \in Nat
          /\ Cardinality(DOMAIN posted_send) \in Nat /\ BufferCount \in Nat
        BY <2>2, <2>5, LenProperties, FS_CardinalityType, KvServerAssumption DEF Pools
    <2>8. Len(pool.queue) + Cardinality(posted_recv) + Cardinality(DOMAIN posted_send)
              <= BufferCount
        BY DEF BuffersBounded
    <2>9. Len(pool'.queue) + Cardinality(posted_recv) + Cardinality(DOMAIN posted_send')
              <= BufferCount
        BY <2>3, <2>6, <2>7, <2>8
    <2> QED
        BY <2>1, <2>5, <2>6, <2>9 DEF BuffersBounded
<1>2. CASE ~(wc.conn \in registered /\ wc.wr_id \in DOMAIN posted_send)
    BY <1>2 DEF HandleSendCompletion, BuffersBounded
<1> QED
    BY <1>1, <1>2

\* Every step keeps the number of buffers.
LEMMA BoundedNext == ServerInv /\ BuffersBounded /\ [ServerNext]_serverVars => BuffersBounded'
<1> SUFFICES ASSUME ServerInv, BuffersBounded, [ServerNext]_serverVars
             PROVE  BuffersBounded'
    OBVIOUS
<1>0. UNCHANGED bufferVars => BuffersBounded'
    BY DEF BuffersBounded, bufferVars
<1>1. CASE FinishAccept
    BY <1>1, FinishAcceptBounded
<1>2. CASE Handle
    <2>1. PICK wc : HandleSendCompletion(wc) \/ HandleRequest(wc) \/ OnError(wc)
        BY <1>2 DEF Handle
    <2>2. CASE HandleRequest(wc)
        <3>1. wc \in Wc /\ wc.kind = "recv"
            BY <2>2, HandlingKeeps DEF HandleRequest
        <3>2. wc \in RecvWc
            BY <3>1 DEF Wc, SendWc, RecvWc
        <3>3. wc.conn \in ConnId /\ wc.buf \in Buffer
            BY <3>2 DEF RecvWc
        <3>4. \/ <<wc.conn, wc.buf>> \in posted_recv /\ Process(wc.conn, wc.buf, wc.msg)
              \/ UNCHANGED bufferVars
            BY <2>2 DEF HandleRequest
        <3> QED
            BY <1>0, <3>3, <3>4, ProcessBounded
    <2>3. CASE OnError(wc)
        BY <1>0, <2>3 DEF OnError
    <2> QED
        BY <2>1, <2>2, <2>3, HandleSendBounded
<1>3. CASE NobodyWaits \/ GiveUp \/ Poll \/ UNCHANGED serverVars
    BY <1>0, <1>3 DEF NobodyWaits, GiveUp, Poll, serverVars
<1>4. ASSUME NEW cl \in Client, NEW answer,
             RefuseClient(cl) \/ OfferParams(cl) \/ ClientCalls(cl) \/ ClientReplies(cl, answer)
      PROVE  BuffersBounded'
    BY <1>0, <1>4 DEF RefuseClient, OfferParams, ClientCalls, ClientReplies
<1>5. ASSUME NEW c \in ConnId,
             ClientAsks(c) \/ ClientReceives(c) \/ NicFails(c) \/ NicFlushes(c)
      PROVE  BuffersBounded'
    BY <1>0, <1>5 DEF ClientAsks, ReceiveMessage, ClientReceives, FinishSend, NicFails, NicFlushes
<1> QED
    BY <1>1, <1>2, <1>3, <1>4, <1>5 DEF ServerNext, ServerStep

\* All buffers are free at the start.
LEMMA BoundedInit == ServerInit => BuffersBounded
<1> SUFFICES ASSUME ServerInit
             PROVE  BuffersBounded
    OBVIOUS
<1>1. posted_recv = {} /\ DOMAIN posted_send = {}
    BY DEF ServerInit
<1>2. IsFiniteSet({}) /\ Cardinality({}) = 0
    BY FS_EmptySet
<1>3. BufferCount \in Nat /\ pool.queue = [i \in 1 .. BufferCount |-> i]
    BY KvServerAssumption DEF ServerInit, NewPool
<1>4. pool.queue \in Seq(Nat)
    BY <1>3, SeqDef
<1>5. Len(pool.queue) = BufferCount
    BY <1>3, <1>4, LenProperties
<1> QED
    BY <1>1, <1>2, <1>3, <1>5 DEF BuffersBounded

\* What the server keeps has its type: the buffers and the ids that it looks up
\* in its tables and hands to the NIC are always ones that exist, and a poll
\* never takes more completions than its buffer has room for.
THEOREM ServerTypesHold == ServerSpec => []ServerTypeOK
BY ServerInvariant, InvariantImpliesTypeOK, BoundedInit, BoundedNext, PTL DEF ServerSpec

\* The ConnectionManager accounts for its ids: each is free once or belongs to
\* one connection, however handshakes end and connections fail.
THEOREM IdsAreAccounted == ServerSpec => []IdsAccounted
<1>1. ServerInv => IdsAccounted
    BY DEF ServerInv
<1> QED
    BY <1>1, ServerInvariant, PTL

\* conn_contexts_ holds a context for every established connection, of that
\* connection, and for no other id.
THEOREM ContextsMatchConnections == ServerSpec => []ContextMatchesConnection
<1>1. ServerInv => ContextMatchesConnection
    BY DEF ServerInv
<1> QED
    BY <1>1, ServerInvariant, PTL

----------------------------------------------------------------------------
(* Errors reach the connection they are of, if destroying a queue pair     *)
(* takes its completions out of the completion queues: those in the queues *)
(* are of connections that exist.  Those of the batch that is being        *)
(* handled may be of a connection that an error before them removed, but   *)
(* its id is not given to another before the batch is done.                *)

\* A completion of a connection that exists and is established.
CurrentWc ==
    {wc \in Wc : /\ Live(wc.conn) /\ wc.conn # accepting
                 /\ wc \in CompletionsOf(wc.conn)}

\* A completion of a connection that was removed, or of one that exists.
BatchWc == {wc \in Wc : Live(wc.conn) => wc \in CurrentWc}

\* What the completion queues and the batch hold.
CompletionsCurrent ==
    /\ cq \in [send : Seq(CurrentWc), recv : Seq(CurrentWc)]
    /\ batch \in Seq(BatchWc)

\* The step leaves the connection with the id as it is, or it fails.
Kept(d) ==
    /\ connections'[d] # NoConnection /\ d # accepting'
    /\ connections'[d].client = connections[d].client
    /\ connections[d].failed => connections'[d].failed

\* A completion stays current while its connection does.
LEMMA CurrentIsKept ==
    ASSUME NEW wc \in CurrentWc, Kept(wc.conn)
    PROVE  wc \in CurrentWc'
<1>1. wc \in Wc
    BY DEF CurrentWc
<1> QED
    BY <1>1 DEF CurrentWc, CompletionsOf, Kept, Live

\* The completion queues stay current while the connections do.
LEMMA QueuesAreKept ==
    ASSUME CompletionsCurrent, \A d \in ConnId : Live(d) /\ d # accepting => Kept(d)
    PROVE  /\ CurrentWc \subseteq CurrentWc'
           /\ cq \in [send : Seq(CurrentWc'), recv : Seq(CurrentWc')]
<1>1. CurrentWc \subseteq CurrentWc'
    <2> SUFFICES ASSUME NEW wc \in CurrentWc
                 PROVE  wc \in CurrentWc'
        OBVIOUS
    <2>1. wc.conn \in ConnId /\ Live(wc.conn) /\ wc.conn # accepting
        BY DEF CurrentWc, Wc, SendWc, RecvWc
    <2> QED
        BY <2>1, CurrentIsKept
<1>2. cq.send \in Seq(CurrentWc) /\ cq.recv \in Seq(CurrentWc)
    BY DEF CompletionsCurrent
<1>3. cq.send \in Seq(CurrentWc') /\ cq.recv \in Seq(CurrentWc')
    BY <1>1, <1>2, SeqMonotonic
<1> QED
    BY <1>1, <1>3 DEF CompletionsCurrent

\* The batch stays current while no connection is new.
LEMMA BatchIsKept ==
    ASSUME NEW s \in Seq(BatchWc),
           \A d \in ConnId : connections'[d] # NoConnection => Live(d) /\ Kept(d)
    PROVE  s \in Seq(BatchWc')
<1>1. BatchWc \subseteq BatchWc'
    <2> SUFFICES ASSUME NEW wc \in BatchWc, connections'[wc.conn] # NoConnection
                 PROVE  wc \in CurrentWc'
        BY DEF BatchWc, Live
    <2>1. wc.conn \in ConnId
        BY DEF BatchWc, Wc, SendWc, RecvWc
    <2>2. wc \in CurrentWc /\ Kept(wc.conn)
        BY <2>1 DEF BatchWc
    <2> QED
        BY <2>2, CurrentIsKept
<1> QED
    BY <1>1, SeqMonotonic

\* The NIC adds completions of the connection it works for.
LEMMA NicEffectCurrent ==
    ASSUME ServerInv, CompletionsCurrent, NEW c \in ConnId, NicEffect(c)
    PROVE  CompletionsCurrent'
<1>1. PICK conn \in ConnectionType :
          /\ conn.client = connections[c].client
          /\ connections[c].failed => conn.failed
          /\ connections' = [connections EXCEPT ![c] = conn]
    BY DEF NicEffect
<1>2. PICK s, r \in Seq(CompletionsOf(c)) :
          cq' = [send |-> cq.send \o s, recv |-> cq.recv \o r]
    BY DEF NicEffect
<1>3. Live(c) /\ c # accepting /\ UNCHANGED <<accepting, batch>>
    BY DEF NicEffect, loopVars
<1>4. /\ connections'[c] = conn /\ conn # NoConnection
      /\ \A d \in ConnId \ {c} : connections'[d] = connections[d]
    BY <1>1, ConnectionIsLive DEF ServerInv, ServerTypes
<1>5. \A d \in ConnId : Live(d) /\ d # accepting => Kept(d)
    BY <1>1, <1>3, <1>4 DEF Kept, Live
<1>6. /\ CurrentWc \subseteq CurrentWc'
      /\ cq.send \in Seq(CurrentWc') /\ cq.recv \in Seq(CurrentWc')
    BY <1>5, QueuesAreKept
<1>7. CompletionsOf(c) \subseteq CurrentWc'
    <2>1. CompletionsOf(c) \subseteq CurrentWc
        BY <1>3 DEF CompletionsOf, CurrentWc
    <2> QED
        BY <1>6, <2>1
<1>8. s \in Seq(CurrentWc') /\ r \in Seq(CurrentWc')
    BY <1>2, <1>7, SeqMonotonic
<1>9. cq.send \o s \in Seq(CurrentWc') /\ cq.recv \o r \in Seq(CurrentWc')
    BY <1>6, <1>8, ConcatProperties
<1>10. cq' \in [send : Seq(CurrentWc'), recv : Seq(CurrentWc')]
    BY <1>2, <1>9
<1>11. batch' \in Seq(BatchWc')
    <2>1. CASE accepting = NoId
        <3>1. \A d \in ConnId : d # accepting
            BY <2>1, KvServerAssumption DEF ConnId, NoId
        <3>2. \A d \in ConnId : connections'[d] # NoConnection => Live(d) /\ Kept(d)
            BY <1>3, <1>4, <1>5, <3>1 DEF Live
        <3>3. batch \in Seq(BatchWc)
            BY DEF CompletionsCurrent
        <3> QED
            BY <1>3, <3>2, <3>3, BatchIsKept
    <2>2. CASE accepting # NoId
        BY <1>3, <2>2, EmptySeq DEF ServerInv, AcceptingIsNew
    <2> QED
        BY <2>1, <2>2
<1> QED
    BY <1>10, <1>11 DEF CompletionsCurrent

\* AcceptConnections runs between two polls.
LEMMA AcceptCurrent ==
    ASSUME ServerInv, CompletionsCurrent,
           (\E cl \in Client : OfferParams(cl)) \/ GiveUp \/ FinishAccept
    PROVE  CompletionsCurrent'
<1>1. batch' = << >> /\ cq' = cq
    BY DEF OfferParams, BetweenPolls, loopVars, GiveUp, FinishAccept, ServerInv, AcceptingIsNew
<1>2. ASSUME NEW d \in ConnId, Live(d), d # accepting
      PROVE  Kept(d)
    <2>1. d # NoId
        BY KvServerAssumption DEF ConnId, NoId
    <2>2. ASSUME NEW cl \in Client, OfferParams(cl)
          PROVE  Kept(d)
        <3>1. d # Last(free_conn_ids)
            <4>1. Contains(free_conn_ids, Last(free_conn_ids))
                BY <2>2, FrontOfIds DEF OfferParams, ServerInv, ServerTypes, IdsAccounted
            <4> QED
                BY <1>2, <4>1 DEF ServerInv, IdsAccounted
        <3>2. connections'[d] = connections[d]
            BY <2>2, <3>1 DEF OfferParams, ServerInv, ServerTypes
        <3> QED
            BY <1>2, <2>2, <3>1, <3>2 DEF OfferParams, Kept, Live
    <2>3. CASE GiveUp
        <3>1. PICK c \in ConnId : c = accepting /\ RemoveConnection(c)
            BY <2>3 DEF GiveUp, ServerInv, ServerTypes
        <3>2. connections'[d] = connections[d]
            BY <1>2, <3>1, RemoveKeepsIds
        <3> QED
            BY <1>2, <2>1, <2>3, <3>2 DEF GiveUp, Kept, Live
    <2>4. CASE FinishAccept
        <3>1. connections'[d] = connections[d]
            BY <1>2, <2>4 DEF FinishAccept, PostRecvBuffers, ServerInv, ServerTypes
        <3> QED
            BY <1>2, <2>1, <2>4, <3>1 DEF FinishAccept, Kept, Live
    <2> QED
        BY <2>2, <2>3, <2>4
<1>3. cq \in [send : Seq(CurrentWc'), recv : Seq(CurrentWc')]
    BY <1>2, QueuesAreKept
<1> QED
    BY <1>1, <1>3, EmptySeq DEF CompletionsCurrent

\* The completions polled were current in the completion queue.
LEMMA PollCurrent ==
    ASSUME CompletionsCurrent, Poll
    PROVE  CompletionsCurrent'
<1>1. turn \in {"send", "recv"} /\ UNCHANGED <<accepting, connections>>
    BY DEF Poll, managerVars
<1>2. CurrentWc' = CurrentWc /\ BatchWc' = BatchWc /\ CurrentWc \subseteq BatchWc
    BY <1>1 DEF CurrentWc, BatchWc, CompletionsOf, Live
<1> DEFINE n == IF Len(cq[turn]) < BatchSize THEN Len(cq[turn]) ELSE BatchSize
<1>3. cq[turn] \in Seq(CurrentWc)
    BY <1>1 DEF CompletionsCurrent
<1>4. Len(cq[turn]) \in Nat
    BY <1>3, LenProperties
<1>5. n \in 0 .. Len(cq[turn])
    BY <1>4, KvServerAssumption
<1>6. /\ batch' = SubSeq(cq[turn], 1, n)
      /\ cq' = [cq EXCEPT ![turn] = SubSeq(cq[turn], n + 1, Len(cq[turn]))]
    BY DEF Poll
<1> HIDE DEF n
<1>7. batch' \in Seq(CurrentWc) /\ SubSeq(cq[turn], n + 1, Len(cq[turn])) \in Seq(CurrentWc)
    BY <1>3, <1>5, <1>6, TakeBatch
<1>8. batch' \in Seq(BatchWc)
    BY <1>2, <1>7, SeqMonotonic
<1>9. cq' \in [send : Seq(CurrentWc), recv : Seq(CurrentWc)]
    <2>1. cq \in [send : Seq(CurrentWc), recv : Seq(CurrentWc)]
        BY DEF CompletionsCurrent
    <2>2. CASE turn = "send"
        BY <1>6, <1>7, <2>1, <2>2
    <2>3. CASE turn = "recv"
        BY <1>6, <1>7, <2>1, <2>3
    <2> QED
        BY <1>1, <2>2, <2>3
<1> QED
    BY <1>2, <1>8, <1>9 DEF CompletionsCurrent

\* The completion being handled was in the batch.
LEMMA HandledIsCurrent ==
    ASSUME CompletionsCurrent, NEW wc, NEW kind, NEW ok, Handling(wc, kind, ok)
    PROVE  wc \in BatchWc /\ batch' \in Seq(BatchWc)
<1>1. batch \in Seq(BatchWc) /\ batch # << >> /\ wc = Head(batch) /\ batch' = Tail(batch)
    BY DEF CompletionsCurrent, Handling
<1> QED
    BY <1>1, HeadTailProperties

\* Handling a completion without error keeps all connections.
LEMMA SuccessCurrent ==
    ASSUME ServerInv, CompletionsCurrent, NEW wc, HandleSendCompletion(wc) \/ HandleRequest(wc)
    PROVE  CompletionsCurrent'
<1>1. batch' \in Seq(BatchWc) /\ cq' = cq
    BY HandledIsCurrent DEF HandleSendCompletion, HandleRequest
<1>2. accepting' = NoId /\ accepting = NoId
    BY HandlingKeeps DEF HandleSendCompletion, HandleRequest
<1>3. \A d \in ConnId : /\ connections'[d] # NoConnection <=> Live(d)
                        /\ connections'[d].client = connections[d].client
                        /\ Live(d) => connections'[d].failed = connections[d].failed
    <2>1. CASE connections' = connections
        BY <2>1 DEF Live
    <2>2. CASE connections' # connections
        <3>1. HandleRequest(wc) /\ Process(wc.conn, wc.buf, wc.msg)
                /\ conn_contexts[wc.conn] # NoContext
            BY <2>2 DEF HandleSendCompletion, HandleRequest, managerVars
        <3>2. /\ wc \in Wc /\ wc.kind = "recv"
              /\ UNCHANGED <<accepting, free_conn_ids, registered>>
            BY <3>1, HandlingKeeps DEF HandleRequest
        <3>3. wc \in RecvWc
            BY <3>2 DEF Wc, SendWc, RecvWc
        <3>4. wc.conn \in ConnId /\ wc.buf \in Buffer /\ wc.msg \in Request
            BY <3>3 DEF RecvWc
        <3>5. /\ \A d \in ConnId : Live(d)' <=> Live(d)
              /\ \A d \in ConnId : /\ connections'[d].client = connections[d].client
                                   /\ Live(d) => connections'[d].failed = connections[d].failed
            BY <1>2, <3>1, <3>2, <3>4, ProcessKeeps
        <3> QED
            BY <3>5 DEF Live
    <2> QED
        BY <2>1, <2>2
<1>4. \A d \in ConnId : Live(d) => Kept(d)
    <2>1. \A d \in ConnId : d # NoId
        BY KvServerAssumption DEF ConnId, NoId
    <2> QED
        BY <1>2, <1>3, <2>1 DEF Kept
<1>5. cq \in [send : Seq(CurrentWc'), recv : Seq(CurrentWc')]
    BY <1>4, QueuesAreKept
<1>6. batch' \in Seq(BatchWc')
    BY <1>1, <1>3, <1>4, BatchIsKept
<1> QED
    BY <1>1, <1>5, <1>6 DEF CompletionsCurrent

\* An error removes the connection of its own, which has failed, together with
\* the completions that are left of it.
LEMMA OnErrorCurrent ==
    ASSUME DestroyPurges, ServerInv, CompletionsCurrent, NEW wc, OnError(wc)
    PROVE  /\ CompletionsCurrent'
           /\ \A d \in ConnId : Live(d) /\ connections'[d].client # connections[d].client
                                   => connections[d].failed
<1>1. wc \in BatchWc /\ wc.ok = FALSE /\ batch' \in Seq(BatchWc)
    BY HandledIsCurrent, HandlingKeeps DEF OnError
<1>2. accepting' = NoId /\ accepting = NoId
    BY HandlingKeeps DEF OnError
<1>3. PICK c \in ConnId : c = wc.conn
    BY <1>1 DEF BatchWc, Wc, SendWc, RecvWc
<1>4. cq' = Purged(connections[c].client) /\ RemoveConnection(c)
    BY <1>3 DEF OnError
<1>5. /\ connections'[c] = NoConnection
      /\ \A d \in ConnId \ {c} : connections'[d] = connections[d]
    BY <1>4, RemoveKeepsIds
<1>6. \A d \in ConnId : d # NoId
    BY KvServerAssumption DEF ConnId, NoId
<1>7. \A d \in ConnId \ {c} : Live(d) => Kept(d)
    BY <1>2, <1>5, <1>6 DEF Kept, Live
<1> DEFINE Other == {w \in CurrentWc : w.client # connections[c].client}
<1>8. cq' \in [send : Seq(Other), recv : Seq(Other)]
    <2>1. cq \in [send : Seq(CurrentWc), recv : Seq(CurrentWc)]
        BY DEF CompletionsCurrent
    <2>2. Purged(connections[c].client) \in [send : Seq(Other), recv : Seq(Other)]
        BY <2>1, PurgedType
    <2> QED
        BY <1>4, <2>2
<1>9. Other \subseteq CurrentWc'
    <2> SUFFICES ASSUME NEW w \in CurrentWc, w.client # connections[c].client
                 PROVE  w \in CurrentWc'
        OBVIOUS
    <2>1. w.conn \in ConnId /\ Live(w.conn) /\ w.conn # c
        BY DEF CurrentWc, CompletionsOf, Wc, SendWc, RecvWc
    <2> QED
        BY <1>7, <2>1, CurrentIsKept
<1> HIDE DEF Other
<1>10. cq' \in [send : Seq(CurrentWc'), recv : Seq(CurrentWc')]
    <2>1. cq'.send \in Seq(CurrentWc') /\ cq'.recv \in Seq(CurrentWc')
        BY <1>8, <1>9, SeqMonotonic
    <2> QED
        BY <1>8, <2>1
<1>11. batch' \in Seq(BatchWc')
    <2>1. \A d \in ConnId : connections'[d] # NoConnection => Live(d) /\ Kept(d)
        BY <1>5, <1>7 DEF Live
    <2> QED
        BY <1>1, <2>1, BatchIsKept
<1>12. Live(c) => connections[c].failed
    BY <1>1, <1>3 DEF BatchWc, CurrentWc, CompletionsOf
<1> QED
    BY <1>5, <1>10, <1>11, <1>12 DEF CompletionsCurrent

\* The steps that leave the connections and the completions as they are.
LEMMA OthersCurrent ==
    ASSUME CompletionsCurrent, UNCHANGED <<accepting, connections, cq, batch>>
    PROVE  CompletionsCurrent'
BY DEF CompletionsCurrent, CurrentWc, BatchWc, CompletionsOf, Live

\* Every step keeps the completions current.
LEMMA CurrentNext ==
    ASSUME DestroyPurges, ServerInv, CompletionsCurrent, [ServerNext]_serverVars
    PROVE  CompletionsCurrent'
<1>1. CASE NobodyWaits
    BY <1>1, OthersCurrent DEF NobodyWaits, managerVars
<1>2. ASSUME NEW cl \in Client, RefuseClient(cl)
      PROVE  CompletionsCurrent'
    BY <1>2, OthersCurrent DEF RefuseClient, managerVars
<1>3. CASE (\E cl \in Client : OfferParams(cl)) \/ GiveUp \/ FinishAccept
    BY <1>3, AcceptCurrent
<1>4. CASE Poll
    BY <1>4, PollCurrent
<1>5. CASE Handle
    <2>1. PICK wc : HandleSendCompletion(wc) \/ HandleRequest(wc) \/ OnError(wc)
        BY <1>5 DEF Handle
    <2> QED
        BY <2>1, SuccessCurrent, OnErrorCurrent
<1>6. ASSUME NEW c \in ConnId,
             ClientAsks(c) \/ ClientReceives(c) \/ NicFails(c) \/ NicFlushes(c)
      PROVE  CompletionsCurrent'
    BY <1>6, ClientAsksEffect, ClientReceivesEffect, NicFailsEffect, NicFlushesEffect,
       NicEffectCurrent
<1>7. ASSUME NEW cl \in Client, ClientCalls(cl)
      PROVE  CompletionsCurrent'
    BY <1>7, OthersCurrent DEF ClientCalls, managerVars, loopVars
<1>8. ASSUME NEW cl \in Client, NEW answer, ClientReplies(cl, answer)
      PROVE  CompletionsCurrent'
    BY <1>8, OthersCurrent DEF ClientReplies, managerVars, loopVars
<1>9. CASE UNCHANGED serverVars
    BY <1>9, OthersCurrent DEF serverVars, managerVars, loopVars
<1> QED
    BY <1>1, <1>2, <1>3, <1>4, <1>5, <1>6, <1>7, <1>8, <1>9 DEF ServerNext, ServerStep

\* There are no completions at the start.
LEMMA CurrentInit == ServerInit => CompletionsCurrent
BY EmptySeq DEF ServerInit, CompletionsCurrent

\* What one step may do to the client of an id.
LEMMA FailedBeforeRemoved ==
    ASSUME DestroyPurges, ServerInv, CompletionsCurrent, [ServerNext]_serverVars,
           NEW c \in ConnId, Live(c), c # accepting,
           connections'[c].client # connections[c].client
    PROVE  connections[c].failed
<1>1. connections' # connections
    OBVIOUS
<1>2. ~((\E cl \in Client : OfferParams(cl)) \/ GiveUp \/ FinishAccept)
    <2>1. SUFFICES ASSUME (\E cl \in Client : OfferParams(cl)) \/ GiveUp \/ FinishAccept
                   PROVE  connections'[c] = connections[c]
        OBVIOUS
    <2>2. ASSUME NEW cl \in Client, OfferParams(cl)
          PROVE  connections'[c] = connections[c]
        <3>1. Contains(free_conn_ids, Last(free_conn_ids))
            BY <2>2, FrontOfIds DEF OfferParams, ServerInv, ServerTypes, IdsAccounted
        <3>2. c # Last(free_conn_ids)
            BY <3>1 DEF ServerInv, IdsAccounted
        <3> QED
            BY <2>2, <3>2 DEF OfferParams, ServerInv, ServerTypes
    <2>3. CASE GiveUp
        <3>1. PICK d \in ConnId : d = accepting /\ RemoveConnection(d)
            BY <2>3 DEF GiveUp, ServerInv, ServerTypes
        <3> QED
            BY <3>1, RemoveKeepsIds
    <2>4. CASE FinishAccept
        BY <2>4 DEF FinishAccept, PostRecvBuffers, ServerInv, ServerTypes
    <2> QED
        BY <2>1, <2>2, <2>3, <2>4
<1>3. ~(\E d \in ConnId : NicEffect(d))
    BY ConnectionUpdate DEF NicEffect
<1>4. ~(\E d \in ConnId : ClientAsks(d) \/ ClientReceives(d) \/ NicFails(d) \/ NicFlushes(d))
    BY <1>3, ClientAsksEffect, ClientReceivesEffect, NicFailsEffect, NicFlushesEffect
<1>5. ASSUME NEW wc, HandleRequest(wc)
      PROVE  FALSE
    <2>1. Process(wc.conn, wc.buf, wc.msg) /\ conn_contexts[wc.conn] # NoContext
        BY <1>1, <1>5 DEF HandleRequest
    <2>2. /\ wc \in Wc /\ wc.kind = "recv" /\ accepting = NoId
          /\ UNCHANGED <<accepting, free_conn_ids, registered>>
        BY <1>5, HandlingKeeps DEF HandleRequest
    <2>3. wc \in RecvWc
        BY <2>2 DEF Wc, SendWc, RecvWc
    <2>4. wc.conn \in ConnId /\ wc.buf \in Buffer /\ wc.msg \in Request
        BY <2>3 DEF RecvWc
    <2> QED
        BY <2>1, <2>2, <2>4, ProcessKeeps
<1>6. PICK wc : OnError(wc)
    <2>1. ~NobodyWaits /\ ~Poll /\ \A wc : ~HandleSendCompletion(wc)
        BY <1>1 DEF NobodyWaits, Poll, HandleSendCompletion, managerVars
    <2>2. \A cl \in Client : ~RefuseClient(cl) /\ ~ClientCalls(cl)
        BY <1>1 DEF RefuseClient, ClientCalls, managerVars
    <2>3. \A cl \in Client : \A answer : ~ClientReplies(cl, answer)
        BY <1>1 DEF ClientReplies, managerVars
    <2>4. ~UNCHANGED serverVars
        BY <1>1 DEF serverVars, managerVars
    <2> QED
        BY <1>2, <1>4, <1>5, <2>1, <2>2, <2>3, <2>4 DEF ServerNext, ServerStep, Handle
<1> QED
    BY <1>6, OnErrorCurrent

\* When destroying a queue pair takes its completions along, an established
\* connection is removed only after it has failed, although OnError is told
\* no more than an id: no error is left for the next connection with the id.
THEOREM OnlyFailedAreRemoved ==
    ASSUME DestroyPurges
    PROVE  ServerSpec => OnlyFailedRemoved
<1>1. ServerInv /\ CompletionsCurrent /\ [ServerNext]_serverVars => CompletionsCurrent'
    BY CurrentNext
<1>2. ServerInv /\ CompletionsCurrent /\ [ServerNext]_serverVars =>
          [\A c \in ConnId :
              Live(c) /\ c # accepting /\ connections'[c].client # connections[c].client
                  => connections[c].failed]_serverVars
    BY FailedBeforeRemoved
<1> QED
    BY <1>1, <1>2, CurrentInit, ServerInvariant, PTL DEF ServerSpec, OnlyFailedRemoved

----------------------------------------------------------------------------
(* The receives of the server, while the pool is intact: a buffer is free, *)
(* or tracked for one receive or one send, and a receive completion to     *)
(* come for a connection that exists is the only one for its buffer.  Only *)
(* Free makes a pool that is not intact, and none makes it intact again.   *)

\* A completion queue holds completions of its kind, and so does a batch.
KindsApart ==
    /\ cq.send \in Seq(SendWc) /\ cq.recv \in Seq(RecvWc)
    /\ batch \in Seq(SendWc) \/ batch \in Seq(RecvWc)

\* The buffers that are free.
FreeBuffers == Range(pool.queue)

\* A buffer is in the pool once, or tracked once.
BuffersApart ==
    /\ IsInjective(pool.queue)
    /\ \A r \in posted_recv : r[2] \notin FreeBuffers
    /\ \A w \in DOMAIN posted_send : posted_send[w] \notin FreeBuffers
    /\ \A r, s \in posted_recv : r[2] = s[2] => r = s
    /\ \A v, w \in DOMAIN posted_send : posted_send[v] = posted_send[w] => v = w
    /\ \A r \in posted_recv, w \in DOMAIN posted_send : r[2] # posted_send[w]

\* The buffers posted to a queue pair are tracked under its id.
PostedTracked ==
    \A c \in ConnId : Live(c) =>
        /\ IsInjective(connections[c].rq)
        /\ \A b \in Range(connections[c].rq) : <<c, b>> \in posted_recv

\* The completions to handle, receives among them.
Arrivals == batch \o cq.recv

\* A message that has arrived on a connection that exists.
Arrived(wc) == wc.kind = "recv" /\ wc.ok /\ Live(wc.conn)

\* Arrived, after a step.
ArrivedNext(wc) == wc.kind = "recv" /\ wc.ok /\ connections'[wc.conn] # NoConnection

\* The buffer of a message is tracked and is not posted any more.
ArrivalsTracked ==
    \A i \in DOMAIN Arrivals : Arrived(Arrivals[i]) =>
        /\ <<Arrivals[i].conn, Arrivals[i].buf>> \in posted_recv
        /\ Arrivals[i].buf \notin Range(connections[Arrivals[i].conn].rq)

\* No two messages are in one buffer.
ArrivalsDistinct ==
    \A i, j \in DOMAIN Arrivals :
        Arrived(Arrivals[i]) /\ Arrived(Arrivals[j]) /\ Arrivals[i].buf = Arrivals[j].buf => i = j

\* What is inductive of the server's receives, on top of ServerInv and
\* CompletionsCurrent.
RecvsTracked == KindsApart /\ BuffersApart /\ PostedTracked /\ ArrivalsTracked /\ ArrivalsDistinct

\* What is left of a queue after n elements were taken from its head.
LEMMA RestOfQueue ==
    ASSUME NEW S, NEW s \in Seq(S), NEW n \in 0 .. Len(s)
    PROVE  /\ SubSeq(s, n + 1, Len(s)) \in Seq(S)
           /\ Len(SubSeq(s, n + 1, Len(s))) = Len(s) - n
           /\ DOMAIN SubSeq(s, n + 1, Len(s)) = 1 .. Len(s) - n
           /\ \A i \in 1 .. Len(s) - n : /\ n + i \in DOMAIN s
                                         /\ SubSeq(s, n + 1, Len(s))[i] = s[n + i]
<1> DEFINE L == Len(s)
           m == n + 1
           rest == SubSeq(s, m, L)
<1>1. L \in Nat /\ n \in Int /\ m \in Int /\ L \in Int /\ n >= 0 /\ DOMAIN s = 1 .. L
    BY LenProperties
<1>2. \A i \in 1 .. L : s[i] \in S
    BY ElementOfSeq
<1>3. \A i \in m .. L : s[i] \in S
    BY <1>1, <1>2
<1>4. L - m + 1 = L - n /\ n <= L /\ m = n + 1 /\ \A i \in Int : m + i - 1 = n + i
    BY <1>1
<1> HIDE DEF m, L
<1>5. /\ rest \in Seq(S) /\ Len(rest) = IF m <= L THEN L - m + 1 ELSE 0
      /\ \A i \in 1 .. L - m + 1 : rest[i] = s[m + i - 1]
    BY <1>1, <1>3, SubSeqProperties
<1> HIDE DEF rest
<1>6. Len(rest) = L - n
    <2>1. CASE m <= L
        BY <1>4, <1>5, <2>1
    <2>2. CASE ~(m <= L)
        <3>1. n = L
            BY <1>1, <1>4, <2>2
        <3> QED
            BY <1>1, <1>5, <2>2, <3>1
    <2> QED
        BY <2>1, <2>2
<1>7. DOMAIN rest = 1 .. L - n
    BY <1>5, <1>6, LenProperties
<1>8. ASSUME NEW i \in 1 .. L - n
      PROVE  n + i \in DOMAIN s /\ rest[i] = s[n + i]
    <2>1. n + i \in 1 .. L /\ i \in Int
        BY <1>1
    <2>2. m + i - 1 = n + i /\ i \in 1 .. L - m + 1
        BY <1>4, <2>1
    <2>3. rest[i] = s[m + i - 1]
        BY <1>5, <2>2
    <2> QED
        BY <1>1, <2>1, <2>2, <2>3
<1> QED
    BY <1>5, <1>6, <1>7, <1>8 DEF rest, m, L

\* A queue after its head was taken.
LEMMA TailOfQueue ==
    ASSUME NEW S, NEW s \in Seq(S), s # << >>
    PROVE  /\ Head(s) \in S /\ Head(s) = s[1] /\ 1 \in DOMAIN s
           /\ Tail(s) \in Seq(S) /\ Len(s) \in Nat \ {0} /\ Len(Tail(s)) = Len(s) - 1
           /\ DOMAIN s = 1 .. Len(s) /\ DOMAIN Tail(s) = 1 .. Len(s) - 1
           /\ \A i \in 1 .. Len(s) - 1 : i + 1 \in DOMAIN s /\ Tail(s)[i] = s[i + 1]
<1>1. Len(s) \in Nat \ {0} /\ DOMAIN s = 1 .. Len(s)
    BY LenProperties, EmptySeq
<1>2. /\ Head(s) \in S /\ Tail(s) \in Seq(S) /\ Len(Tail(s)) = Len(s) - 1
      /\ \A i \in 1 .. Len(Tail(s)) : Tail(s)[i] = s[i + 1]
    BY HeadTailProperties
<1>3. Head(s) = s[1]
    BY <1>1
<1>4. DOMAIN Tail(s) = 1 .. Len(s) - 1
    BY <1>2, LenProperties
<1> QED
    BY <1>1, <1>2, <1>3, <1>4

\* A queue after an element was put at its end.
LEMMA EndOfQueue ==
    ASSUME NEW S, NEW s \in Seq(S), NEW x \in S
    PROVE  /\ Append(s, x) \in Seq(S) /\ Len(s) \in Nat /\ Len(Append(s, x)) = Len(s) + 1
           /\ DOMAIN s = 1 .. Len(s) /\ DOMAIN Append(s, x) = 1 .. Len(s) + 1
           /\ \A i \in 1 .. Len(s) + 1 : i \in 1 .. Len(s) \/ i = Len(s) + 1
           /\ \A i \in 1 .. Len(s) : Append(s, x)[i] = s[i]
           /\ Append(s, x)[Len(s) + 1] = x
<1>1. /\ Append(s, x) \in Seq(S) /\ Len(Append(s, x)) = Len(s) + 1
      /\ \A i \in 1 .. Len(s) : Append(s, x)[i] = s[i]
      /\ Append(s, x)[Len(s) + 1] = x
    BY AppendProperties
<1>2. Len(s) \in Nat /\ DOMAIN s = 1 .. Len(s)
    BY LenProperties
<1>3. DOMAIN Append(s, x) = 1 .. Len(s) + 1
    BY <1>1, LenProperties
<1>4. \A i \in 1 .. Len(s) + 1 : i \in 1 .. Len(s) \/ i = Len(s) + 1
    BY <1>2
<1> QED
    BY <1>1, <1>2, <1>3, <1>4

\* Nothing is in an empty queue.
LEMMA EmptyQueue == Range(<< >>) = {} /\ IsInjective(<< >>)
BY DEF Range, IsInjective

\* A queue after its head was taken, and after an element was added, as the
\* set of its elements.
LEMMA QueueAsSet ==
    ASSUME NEW S, NEW s \in Seq(S), IsInjective(s)
    PROVE  /\ s # << >> => /\ Head(s) \in Range(s) /\ IsInjective(Tail(s))
                           /\ Range(Tail(s)) = Range(s) \ {Head(s)}
           /\ \A x \in S : x \notin Range(s) =>
                 IsInjective(Append(s, x)) /\ Range(Append(s, x)) = Range(s) \cup {x}
<1>1. Len(s) \in Nat /\ DOMAIN s = 1 .. Len(s)
    BY LenProperties
<1>2. \A i, j \in 1 .. Len(s) : s[i] = s[j] => i = j
    BY <1>1 DEF IsInjective
<1>3. ASSUME s # << >>
      PROVE  /\ Head(s) \in Range(s) /\ IsInjective(Tail(s))
             /\ Range(Tail(s)) = Range(s) \ {Head(s)}
    <2>1. /\ Head(s) = s[1] /\ Tail(s) \in Seq(S) /\ Len(s) \in Nat \ {0}
          /\ Len(Tail(s)) = Len(s) - 1
          /\ \A i \in 1 .. Len(s) - 1 : i + 1 \in DOMAIN s /\ Tail(s)[i] = s[i + 1]
        BY <1>3, TailOfQueue
    <2>2. DOMAIN Tail(s) = 1 .. Len(s) - 1 /\ 1 \in 1 .. Len(s)
        BY <2>1, LenProperties
    <2>3. IsInjective(Tail(s))
        <3> SUFFICES ASSUME NEW i \in 1 .. Len(s) - 1, NEW j \in 1 .. Len(s) - 1,
                            Tail(s)[i] = Tail(s)[j]
                     PROVE  i = j
            BY <2>2 DEF IsInjective
        <3>1. i + 1 = j + 1
            BY <1>1, <1>2, <2>1
        <3> QED
            BY <1>1, <3>1
    <2>4. \A x : x \in Range(Tail(s)) => x \in Range(s) /\ x # s[1]
        <3> SUFFICES ASSUME NEW i \in 1 .. Len(s) - 1
                     PROVE  Tail(s)[i] \in Range(s) /\ Tail(s)[i] # s[1]
            BY <2>2 DEF Range
        <3>1. Tail(s)[i] = s[i + 1] /\ i + 1 \in 1 .. Len(s) /\ i + 1 # 1
            BY <1>1, <2>1
        <3> QED
            BY <1>1, <1>2, <2>2, <3>1 DEF Range
    <2>5. \A x : x \in Range(s) /\ x # s[1] => x \in Range(Tail(s))
        <3> SUFFICES ASSUME NEW i \in 1 .. Len(s), s[i] # s[1]
                     PROVE  s[i] \in Range(Tail(s))
            BY <1>1 DEF Range
        <3>1. i - 1 \in 1 .. Len(s) - 1 /\ (i - 1) + 1 = i
            BY <1>1
        <3>2. Tail(s)[i - 1] = s[i]
            BY <2>1, <3>1
        <3> QED
            BY <2>2, <3>1, <3>2 DEF Range
    <2> QED
        BY <1>1, <2>1, <2>2, <2>3, <2>4, <2>5 DEF Range
<1>4. ASSUME NEW x \in S, x \notin Range(s)
      PROVE  IsInjective(Append(s, x)) /\ Range(Append(s, x)) = Range(s) \cup {x}
    <2> DEFINE a == Append(s, x)
    <2>1. /\ DOMAIN a = 1 .. Len(s) + 1
          /\ \A i \in 1 .. Len(s) + 1 : i \in 1 .. Len(s) \/ i = Len(s) + 1
          /\ \A i \in 1 .. Len(s) : a[i] = s[i]
          /\ a[Len(s) + 1] = x
        BY <1>1, EndOfQueue
    <2> HIDE DEF a
    <2>2. \A i \in 1 .. Len(s) : s[i] # x
        BY <1>1, <1>4 DEF Range
    <2>3. IsInjective(a)
        BY <1>2, <2>1, <2>2 DEF IsInjective
    <2>4. 1 .. Len(s) \subseteq 1 .. Len(s) + 1 /\ Len(s) + 1 \in 1 .. Len(s) + 1
        BY <1>1
    <2>5. Range(a) = Range(s) \cup {x}
        BY <1>1, <2>1, <2>4 DEF Range
    <2> QED
        BY <2>3, <2>5 DEF a
<1> QED
    BY <1>3, <1>4

\* What Allocate takes and what it leaves are apart.
LEMMA AllocateSplits ==
    ASSUME NEW S, NEW p \in Pools(S), NEW n \in Nat, IsInjective(p.queue)
    PROVE  /\ IsInjective(Allocated(p, n)) /\ IsInjective(AfterAllocate(p, n).queue)
           /\ Range(Allocated(p, n)) \subseteq Range(p.queue)
           /\ Range(AfterAllocate(p, n).queue) = Range(p.queue) \ Range(Allocated(p, n))
<1> DEFINE q == p.queue
           a == Allocated(p, n)
           r == AfterAllocate(p, n).queue
<1>1. /\ a \in Seq(S) /\ AfterAllocate(p, n) \in Pools(S)
      /\ Len(a) + Len(r) = Len(q)
    BY AllocateTakes
<1>2. \A i \in 1 .. Len(a) : a[i] = q[i]
    BY AllocateTakes
<1>3. \A i \in 1 .. Len(r) : r[i] = q[Len(a) + i]
    BY AllocateTakes
<1>4. q \in Seq(S) /\ r \in Seq(S)
    BY <1>1 DEF Pools
<1>5. /\ Len(q) \in Nat /\ Len(a) \in Nat /\ Len(r) \in Nat
      /\ DOMAIN q = 1 .. Len(q) /\ DOMAIN a = 1 .. Len(a) /\ DOMAIN r = 1 .. Len(r)
    BY <1>1, <1>4, LenProperties
<1>6. \A i, j \in 1 .. Len(q) : q[i] = q[j] => i = j
    BY <1>5 DEF IsInjective
<1> HIDE DEF q, a, r
<1>7. \A i \in 1 .. Len(a) : i \in 1 .. Len(q)
    BY <1>1, <1>5
<1>8. \A i \in 1 .. Len(r) : Len(a) + i \in 1 .. Len(q) /\ Len(a) + i \notin 1 .. Len(a)
    BY <1>1, <1>5
<1>9. \A i \in 1 .. Len(q) : i \in 1 .. Len(a) \/ (i - Len(a) \in 1 .. Len(r)
                                                     /\ Len(a) + (i - Len(a)) = i)
    BY <1>1, <1>5
<1>10. IsInjective(a)
    BY <1>2, <1>5, <1>6, <1>7 DEF IsInjective
<1>11. IsInjective(r)
    <2> SUFFICES ASSUME NEW i \in 1 .. Len(r), NEW j \in 1 .. Len(r), r[i] = r[j]
                 PROVE  i = j
        BY <1>5 DEF IsInjective
    <2>1. Len(a) + i = Len(a) + j
        BY <1>3, <1>6, <1>8
    <2> QED
        BY <1>5, <2>1
<1>12. Range(a) \subseteq Range(q)
    BY <1>2, <1>5, <1>7 DEF Range
<1>13. ASSUME NEW i \in 1 .. Len(r)
       PROVE  r[i] \in Range(q) /\ r[i] \notin Range(a)
    BY <1>2, <1>3, <1>5, <1>6, <1>7, <1>8 DEF Range
<1>14. ASSUME NEW i \in 1 .. Len(q), q[i] \notin Range(a)
       PROVE  q[i] \in Range(r)
    <2>1. i \notin 1 .. Len(a)
        BY <1>2, <1>5, <1>14 DEF Range
    <2>2. i - Len(a) \in 1 .. Len(r) /\ r[i - Len(a)] = q[i]
        BY <1>3, <1>9, <2>1
    <2> QED
        BY <1>5, <2>2 DEF Range
<1>15. Range(r) = Range(q) \ Range(a)
    BY <1>5, <1>13, <1>14 DEF Range
<1> QED
    BY <1>10, <1>11, <1>12, <1>15 DEF q, a, r

\* Allocate, called once, returns the head of the queue.
LEMMA AllocateOne ==
    ASSUME NEW S, NEW p \in Pools(S), p.queue # << >>
    PROVE  /\ Allocated(p, 1) = <<Head(p.queue)>> /\ Head(p.queue) \in S
           /\ Range(<<Head(p.queue)>>) = {Head(p.queue)}
<1> DEFINE h == Head(p.queue)
<1>1. /\ Allocated(p, 1) \in Seq(S) /\ Len(Allocated(p, 1)) <= 1
      /\ Len(Allocated(p, 1)) >= 1
      /\ \A i \in 1 .. Len(Allocated(p, 1)) : Allocated(p, 1)[i] = p.queue[i]
    BY AllocateTakes
<1>2. Len(Allocated(p, 1)) \in Nat
    BY <1>1, LenProperties
<1>3. Len(Allocated(p, 1)) = 1
    <2> DEFINE l == Len(Allocated(p, 1))
    <2>1. l \in Nat /\ l <= 1 /\ l >= 1
        BY <1>1, <1>2
    <2> HIDE DEF l
    <2>2. l = 1
        BY <2>1
    <2> QED
        BY <2>2 DEF l
<1>4. p.queue \in Seq(S)
    BY DEF Pools
<1>5. h \in S /\ h = p.queue[1]
    BY <1>4, TailOfQueue, HeadTailProperties
<1>6. 1 \in 1 .. 1 /\ Allocated(p, 1)[1] = h
    BY <1>1, <1>3, <1>5
<1> HIDE DEF h
<1>7. <<h>> \in Seq(S) /\ Len(<<h>>) = 1 /\ <<h>>[1] = h /\ DOMAIN <<h>> = 1 .. 1
    BY <1>5
<1>8. Allocated(p, 1) = <<h>>
    <2> DEFINE x == Allocated(p, 1)
               y == <<h>>
    <2>1. x \in Seq(S) /\ y \in Seq(S) /\ Len(x) = Len(y)
        BY <1>1, <1>3, <1>7
    <2>2. \A i \in 1 .. Len(x) : x[i] = y[i]
        BY <1>3, <1>6, <1>7
    <2> HIDE DEF x, y
    <2>3. x = y
        BY <2>1, <2>2, SeqEqual
    <2> QED
        BY <2>3 DEF x, y
<1>9. Range(<<h>>) = {h}
    BY <1>7 DEF Range
<1> QED
    BY <1>5, <1>8, <1>9 DEF h

\* The elements of two queues one after the other.
LEMMA TwoQueues ==
    ASSUME NEW S, NEW s \in Seq(S), NEW t \in Seq(S)
    PROVE  /\ s \o t \in Seq(S) /\ Len(s) \in Nat /\ Len(t) \in Nat
           /\ Len(s \o t) = Len(s) + Len(t)
           /\ DOMAIN s = 1 .. Len(s) /\ DOMAIN t = 1 .. Len(t)
           /\ DOMAIN (s \o t) = 1 .. Len(s) + Len(t)
           /\ \A i \in 1 .. Len(s) : i \in DOMAIN (s \o t) /\ (s \o t)[i] = s[i]
           /\ \A i \in 1 .. Len(t) : Len(s) + i \in DOMAIN (s \o t) /\ (s \o t)[Len(s) + i] = t[i]
           /\ \A i \in 1 .. Len(s) + Len(t) :
                 i \in 1 .. Len(s) \/ (i - Len(s) \in 1 .. Len(t) /\ (s \o t)[i] = t[i - Len(s)])
<1>1. /\ s \o t \in Seq(S) /\ Len(s \o t) = Len(s) + Len(t)
      /\ \A i \in 1 .. Len(s) + Len(t) : (s \o t)[i] = IF i <= Len(s) THEN s[i] ELSE t[i - Len(s)]
    BY ConcatProperties
<1>2. Len(s) \in Nat /\ Len(t) \in Nat /\ DOMAIN s = 1 .. Len(s) /\ DOMAIN t = 1 .. Len(t)
    BY LenProperties
<1>3. DOMAIN (s \o t) = 1 .. Len(s) + Len(t)
    BY <1>1, LenProperties
<1>4. \A i \in 1 .. Len(s) : i \in 1 .. Len(s) + Len(t) /\ (s \o t)[i] = s[i]
    BY <1>1, <1>2
<1>5. ASSUME NEW i \in 1 .. Len(t)
      PROVE  Len(s) + i \in 1 .. Len(s) + Len(t) /\ (s \o t)[Len(s) + i] = t[i]
    <2>1. Len(s) + i \in 1 .. Len(s) + Len(t) /\ ~(Len(s) + i <= Len(s)) /\ Len(s) + i - Len(s) = i
        BY <1>2
    <2> QED
        BY <1>1, <2>1
<1>6. \A i \in 1 .. Len(s) + Len(t) :
          i \in 1 .. Len(s) \/ (i - Len(s) \in 1 .. Len(t) /\ (s \o t)[i] = t[i - Len(s)])
    BY <1>1, <1>2
<1> QED
    BY <1>1, <1>2, <1>3, <1>4, <1>5, <1>6

\* Messages that were there before the step stay distinct, tracked and not
\* posted; f says where each of them was.
LEMMA ArrivalsEmbedded ==
    ASSUME ArrivalsTracked, ArrivalsDistinct,
           NEW new, new = Arrivals', NEW D, NEW f \in [D -> DOMAIN Arrivals],
           \A i, j \in D : f[i] = f[j] => i = j,
           \A i \in DOMAIN new : ArrivedNext(new[i]) =>
               i \in D /\ new[i] = Arrivals[f[i]] /\ Arrived(new[i])
    PROVE  /\ ArrivalsDistinct'
           /\ \A i \in DOMAIN new : ArrivedNext(new[i]) =>
                 /\ <<new[i].conn, new[i].buf>> \in posted_recv
                 /\ new[i].buf \notin Range(connections[new[i].conn].rq)
<1>1. ASSUME NEW i \in DOMAIN new, ArrivedNext(new[i])
      PROVE  /\ i \in D /\ f[i] \in DOMAIN Arrivals
             /\ Arrived(Arrivals[f[i]]) /\ new[i] = Arrivals[f[i]]
    BY <1>1
<1>2. ASSUME NEW i \in DOMAIN new, ArrivedNext(new[i])
      PROVE  /\ <<new[i].conn, new[i].buf>> \in posted_recv
             /\ new[i].buf \notin Range(connections[new[i].conn].rq)
    BY <1>1, <1>2 DEF ArrivalsTracked
<1>3. ASSUME NEW i \in DOMAIN new, NEW j \in DOMAIN new,
             ArrivedNext(new[i]), ArrivedNext(new[j]), new[i].buf = new[j].buf
      PROVE  i = j
    <2>1. f[i] = f[j]
        BY <1>1, <1>3 DEF ArrivalsDistinct
    <2> QED
        BY <1>1, <1>3, <2>1
<1>4. ArrivalsDistinct'
    BY <1>3 DEF ArrivalsDistinct, Arrived, ArrivedNext, Live
<1> QED
    BY <1>2, <1>4

\* The same when the buffers tracked and posted stay as they are, or those of
\* connections that are removed go.
LEMMA ArrivalsKept ==
    ASSUME RecvsTracked,
           NEW new, new = Arrivals', NEW D, NEW f \in [D -> DOMAIN Arrivals],
           \A i, j \in D : f[i] = f[j] => i = j,
           \A i \in DOMAIN new : ArrivedNext(new[i]) =>
               i \in D /\ new[i] = Arrivals[f[i]] /\ Arrived(new[i]) /\ new[i].conn \in ConnId,
           posted_recv \subseteq posted_recv',
           \A c \in ConnId : connections'[c] # NoConnection =>
               \/ connections'[c].rq = << >>
               \/ Live(c) /\ connections'[c].rq = connections[c].rq
    PROVE  ArrivalsDistinct' /\ ArrivalsTracked' /\ PostedTracked'
<1>1. /\ ArrivalsDistinct'
      /\ \A i \in DOMAIN new : ArrivedNext(new[i]) =>
            /\ <<new[i].conn, new[i].buf>> \in posted_recv
            /\ new[i].buf \notin Range(connections[new[i].conn].rq)
    BY ArrivalsEmbedded DEF RecvsTracked
<1>2. ASSUME NEW i \in DOMAIN new, ArrivedNext(new[i])
      PROVE  /\ <<new[i].conn, new[i].buf>> \in posted_recv'
             /\ new[i].buf \notin Range(connections'[new[i].conn].rq)
    <2>1. new[i].conn \in ConnId /\ connections'[new[i].conn] # NoConnection
        BY <1>2 DEF ArrivedNext
    <2>2. Range(connections'[new[i].conn].rq) \subseteq Range(connections[new[i].conn].rq)
        BY <2>1, EmptyQueue
    <2> QED
        BY <1>1, <1>2, <2>2
<1>3. ArrivalsTracked'
    BY <1>2 DEF ArrivalsTracked, Arrived, ArrivedNext, Live
<1>4. ASSUME NEW c \in ConnId, connections'[c] # NoConnection
      PROVE  /\ IsInjective(connections'[c].rq)
             /\ \A b \in Range(connections'[c].rq) : <<c, b>> \in posted_recv'
    <2>1. CASE connections'[c].rq = << >>
        BY <2>1, EmptyQueue
    <2>2. CASE Live(c) /\ connections'[c].rq = connections[c].rq
        BY <2>2 DEF RecvsTracked, PostedTracked
    <2> QED
        BY <1>4, <2>1, <2>2
<1>5. PostedTracked'
    BY <1>4 DEF PostedTracked, Live
<1> QED
    BY <1>1, <1>3, <1>5

\* The first of two queues after its head was taken.
LEMMA TailOfTwoQueues ==
    ASSUME NEW S, NEW s \in Seq(S), NEW t \in Seq(S), s # << >>
    PROVE  /\ 1 \in DOMAIN (s \o t) /\ (s \o t)[1] = Head(s)
           /\ \A i \in DOMAIN (Tail(s) \o t) :
                 /\ i \in Nat \ {0} /\ i + 1 \in DOMAIN (s \o t)
                 /\ (Tail(s) \o t)[i] = (s \o t)[i + 1]
<1> DEFINE m == Len(s)
           n == Len(t)
<1>1. /\ Head(s) = s[1] /\ Tail(s) \in Seq(S) /\ m \in Nat \ {0} /\ Len(Tail(s)) = m - 1
      /\ \A i \in 1 .. m - 1 : i + 1 \in DOMAIN s /\ Tail(s)[i] = s[i + 1]
    BY TailOfQueue
<1>2. /\ n \in Nat /\ DOMAIN s = 1 .. m
      /\ DOMAIN (s \o t) = 1 .. m + n
      /\ \A i \in 1 .. m : (s \o t)[i] = s[i]
      /\ \A i \in 1 .. n : (s \o t)[m + i] = t[i]
    BY TwoQueues
<1>3. /\ DOMAIN (Tail(s) \o t) = 1 .. (m - 1) + n
      /\ \A i \in 1 .. m - 1 : (Tail(s) \o t)[i] = Tail(s)[i]
      /\ \A i \in 1 .. (m - 1) + n :
            i \in 1 .. m - 1 \/ (i - (m - 1) \in 1 .. n /\ (Tail(s) \o t)[i] = t[i - (m - 1)])
    BY <1>1, TwoQueues
<1> HIDE DEF m, n
<1>4. ASSUME NEW i \in 1 .. (m - 1) + n
      PROVE  /\ i \in Nat \ {0} /\ i + 1 \in 1 .. m + n
             /\ (Tail(s) \o t)[i] = (s \o t)[i + 1]
    <2>1. i \in Nat \ {0} /\ i + 1 \in 1 .. m + n
        BY <1>1, <1>2
    <2>2. CASE i \in 1 .. m - 1
        <3>1. i + 1 \in 1 .. m
            BY <1>1, <2>2
        <3> QED
            BY <1>1, <1>2, <1>3, <2>1, <2>2, <3>1
    <2>3. CASE i \notin 1 .. m - 1
        <3>1. i - (m - 1) \in 1 .. n /\ (Tail(s) \o t)[i] = t[i - (m - 1)]
            BY <1>3, <2>3
        <3>2. m + (i - (m - 1)) = i + 1
            BY <1>1, <2>1
        <3>3. (s \o t)[m + (i - (m - 1))] = t[i - (m - 1)]
            BY <1>2, <3>1
        <3> QED
            BY <2>1, <3>1, <3>2, <3>3
    <2> QED
        BY <2>2, <2>3
<1>5. 1 \in 1 .. m + n /\ (s \o t)[1] = s[1]
    BY <1>1, <1>2
<1> QED
    BY <1>1, <1>2, <1>3, <1>4, <1>5

\* The types of the queues, in the form used below.
LEMMA QueuesTyped ==
    ASSUME ServerInv
    PROVE  /\ batch \in Seq(Wc) /\ cq.recv \in Seq(Wc) /\ cq.send \in Seq(Wc)
           /\ Arrivals \in Seq(Wc)
           /\ \A i \in DOMAIN Arrivals : Arrivals[i] \in Wc /\ Arrivals[i].conn \in ConnId
<1>1. batch \in Seq(Wc) /\ cq.recv \in Seq(Wc) /\ cq.send \in Seq(Wc)
    BY DEF ServerInv, ServerTypes
<1>2. Arrivals \in Seq(Wc)
    BY <1>1, ConcatProperties DEF Arrivals
<1>3. \A i \in DOMAIN Arrivals : Arrivals[i] \in Wc
    BY <1>2, LenProperties, ElementOfSeq
<1>4. \A wc \in Wc : wc.conn \in ConnId
    BY DEF Wc, SendWc, RecvWc
<1> QED
    BY <1>1, <1>2, <1>3, <1>4

\* A step that leaves the receive completions alone and posts no receive.
LEMMA SameArrivals ==
    ASSUME ServerInv, RecvsTracked, batch' = batch, cq'.recv = cq.recv,
           cq'.send \in Seq(SendWc), posted_recv \subseteq posted_recv',
           \A i \in DOMAIN Arrivals : ArrivedNext(Arrivals[i]) => Arrived(Arrivals[i]),
           \A c \in ConnId : connections'[c] # NoConnection =>
               \/ connections'[c].rq = << >>
               \/ Live(c) /\ connections'[c].rq = connections[c].rq
    PROVE  KindsApart' /\ ArrivalsDistinct' /\ ArrivalsTracked' /\ PostedTracked'
<1> DEFINE f == [i \in DOMAIN Arrivals |-> i]
<1>1. Arrivals = Arrivals'
    BY DEF Arrivals
<1>2. f \in [DOMAIN Arrivals -> DOMAIN Arrivals] /\ \A i \in DOMAIN Arrivals : f[i] = i
    OBVIOUS
<1>3. \A i \in DOMAIN Arrivals : Arrivals[i].conn \in ConnId
    BY QueuesTyped
<1> HIDE DEF f
<1>4. ArrivalsDistinct' /\ ArrivalsTracked' /\ PostedTracked'
    <2>1. \A i, j \in DOMAIN Arrivals : f[i] = f[j] => i = j
        BY <1>2
    <2>2. \A i \in DOMAIN Arrivals : ArrivedNext(Arrivals[i]) =>
              /\ i \in DOMAIN Arrivals /\ Arrivals[i] = Arrivals[f[i]]
              /\ Arrived(Arrivals[i]) /\ Arrivals[i].conn \in ConnId
        BY <1>2, <1>3
    <2> QED
        BY <1>1, <1>2, <2>1, <2>2, ArrivalsKept
<1>5. KindsApart'
    BY DEF RecvsTracked, KindsApart
<1> QED
    BY <1>4, <1>5

\* The completion that is handled leaves; the others move up.
LEMMA HandledArrivals ==
    ASSUME ServerInv, RecvsTracked, NEW wc, NEW kind, NEW ok, Handling(wc, kind, ok), cq' = cq,
           \A c \in ConnId : connections'[c] # NoConnection => Live(c)
    PROVE  /\ KindsApart' /\ 1 \in DOMAIN Arrivals /\ Arrivals[1] = wc
           /\ \A i \in DOMAIN Arrivals' :
                 /\ i \in Nat \ {0} /\ i + 1 \in DOMAIN Arrivals /\ Arrivals'[i] = Arrivals[i + 1]
                 /\ Arrivals[i + 1].conn \in ConnId
                 /\ ArrivedNext(Arrivals[i + 1]) => Arrived(Arrivals[i + 1])
<1>1. batch # << >> /\ wc = Head(batch) /\ batch' = Tail(batch)
    BY DEF Handling
<1>2. batch \in Seq(Wc) /\ cq.recv \in Seq(Wc)
    BY QueuesTyped
<1>3. Arrivals' = Tail(batch) \o cq.recv /\ Arrivals = batch \o cq.recv
    BY <1>1 DEF Arrivals
<1>4. /\ 1 \in DOMAIN Arrivals /\ Arrivals[1] = wc
      /\ \A i \in DOMAIN Arrivals' :
            /\ i \in Nat \ {0} /\ i + 1 \in DOMAIN Arrivals
            /\ Arrivals'[i] = Arrivals[i + 1]
    BY <1>1, <1>2, <1>3, TailOfTwoQueues, SMTT(30)
<1>5. \A i \in DOMAIN Arrivals : Arrivals[i].conn \in ConnId
    BY QueuesTyped
<1>6. \A i \in DOMAIN Arrivals : ArrivedNext(Arrivals[i]) => Arrived(Arrivals[i])
    BY <1>5 DEF ArrivedNext, Arrived
<1>7. KindsApart'
    <2>1. \A S : batch \in Seq(S) => Tail(batch) \in Seq(S)
        BY <1>1, HeadTailProperties
    <2> QED
        BY <1>1, <2>1 DEF RecvsTracked, KindsApart
<1> QED
    BY <1>4, <1>5, <1>6, <1>7

\* The same when the buffers posted and tracked stay, or those of a connection
\* that is removed go.
LEMMA HandledKept ==
    ASSUME ServerInv, RecvsTracked, NEW wc, NEW kind, NEW ok, Handling(wc, kind, ok), cq' = cq,
           UNCHANGED <<posted_recv, connections>>
    PROVE  KindsApart' /\ ArrivalsDistinct' /\ ArrivalsTracked' /\ PostedTracked'
<1> DEFINE new == Arrivals'
           f == [i \in DOMAIN new |-> i + 1]
<1>1. \A c \in ConnId : connections'[c] # NoConnection => Live(c)
    BY DEF Live
<1>2. /\ KindsApart'
      /\ \A i \in DOMAIN Arrivals' :
            /\ i \in Nat \ {0} /\ i + 1 \in DOMAIN Arrivals /\ Arrivals'[i] = Arrivals[i + 1]
            /\ Arrivals[i + 1].conn \in ConnId
            /\ ArrivedNext(Arrivals[i + 1]) => Arrived(Arrivals[i + 1])
    BY <1>1, HandledArrivals
<1>3. /\ f \in [DOMAIN new -> DOMAIN Arrivals] /\ \A i \in DOMAIN new : f[i] = i + 1
      /\ \A i, j \in DOMAIN new : f[i] = f[j] => i = j
    BY <1>2
<1> HIDE DEF f
<1>4. \A i \in DOMAIN new : ArrivedNext(new[i]) =>
          /\ i \in DOMAIN new /\ new[i] = Arrivals[f[i]]
          /\ Arrived(new[i]) /\ new[i].conn \in ConnId
    BY <1>2, <1>3
<1>5. \A c \in ConnId : connections'[c] # NoConnection =>
          \/ connections'[c].rq = << >>
          \/ Live(c) /\ connections'[c].rq = connections[c].rq
    BY <1>1
<1> HIDE DEF new
<1> QED
    BY <1>2, <1>3, <1>4, <1>5, ArrivalsKept DEF new

\* The receive buffer buf of connection c is replaced by the buffer b, taken
\* from it and the free ones that are left.
Replaced(c, buf, free, b) ==
    /\ b \in free \cup {buf}
    /\ IsInjective(pool'.queue) /\ Range(pool'.queue) = (free \cup {buf}) \ {b}
    /\ posted_recv' = (posted_recv \ {<<c, buf>>}) \cup {<<c, b>>}
    /\ \A d \in ConnId \ {c} : connections'[d] = connections[d]
    /\ connections'[c] # NoConnection
    /\ connections'[c].client = connections[c].client
    /\ connections'[c].rq = Append(connections[c].rq, b)

\* A request is dropped: it is too short, or there is no buffer for a response.
Dropped(c, buf, b) ==
    /\ Replaced(c, buf, FreeBuffers, b)
    /\ connections'[c].sq = connections[c].sq
    /\ connections'[c].counters = connections[c].counters
    /\ UNCHANGED <<posted_send, conn_contexts>>

\* The work request that answers a request.
AnswerTo(c, msg, rb) ==
    [wr_id |-> <<c, SendNumber(conn_contexts[c], msg.op)>>, buf |-> rb, msg |-> ResponseTo(msg),
     signaled |-> ShouldSignal(connections[c].counters)]

\* A request is answered, from the free buffer rb.
Answered(c, buf, msg, rb, b) ==
    /\ Replaced(c, buf, FreeBuffers \ {rb}, b)
    /\ AnswerTo(c, msg, rb) \in WorkRequests
    /\ connections'[c].sq = Append(connections[c].sq, AnswerTo(c, msg, rb))
    /\ connections'[c].counters = AfterShouldSignal(connections[c].counters)
    /\ posted_send' = With(posted_send, <<c, SendNumber(conn_contexts[c], msg.op)>>, rb)
    /\ conn_contexts' = [conn_contexts EXCEPT ![c] = Counted(@, msg.op)]

\* PostRecvBuffers, as it is called for a request.
LEMMA ReplacedByPost ==
    ASSUME ServerInv, NEW c \in ConnId, NEW conn \in ConnectionType,
           NEW p \in Pools(Buffer), NEW buf \in Buffer,
           IsInjective(p.queue), buf \notin Range(p.queue), Intact(pool'),
           conn.client = connections[c].client, conn.rq = connections[c].rq,
           PostRecvBuffers(c, conn, AfterFree(p, buf), 1, posted_recv \ {<<c, buf>>})
    PROVE  \E b \in Buffer :
              /\ Replaced(c, buf, Range(p.queue), b)
              /\ connections'[c].sq = conn.sq /\ connections'[c].counters = conn.counters
<1> DEFINE from == AfterFree(p, buf)
           b == Head(from.queue)
<1>1. from \in Pools(Buffer) /\ from.queue # << >>
    BY FreeAdds, BuffersNumbered
<1>2. /\ pool' = AfterAllocate(from, 1)
      /\ posted_recv' = (posted_recv \ {<<c, buf>>}) \cup {<<c, x>> : x \in Range(Allocated(from, 1))}
      /\ connections' = [connections EXCEPT ![c] = [conn EXCEPT !.rq = @ \o Allocated(from, 1)]]
    BY DEF PostRecvBuffers
<1>3. from.queue = Append(p.queue, buf)
    <2>1. AfterAllocate(from, 1).first_back = from.first_back
        BY <1>1, AllocateTakes
    <2>2. Intact(from)
        BY <1>2, <2>1 DEF Intact
    <2> QED
        BY <2>2, FreeAdds, BuffersNumbered
<1>4. p.queue \in Seq(Buffer)
    BY DEF Pools
<1>5. IsInjective(from.queue) /\ Range(from.queue) = Range(p.queue) \cup {buf}
    BY <1>3, <1>4, QueueAsSet
<1> HIDE DEF from
<1>6. Allocated(from, 1) = <<b>> /\ b \in Buffer /\ Range(<<b>>) = {b}
    BY <1>1, AllocateOne
<1>7. /\ IsInjective(pool'.queue) /\ {b} \subseteq Range(from.queue)
      /\ Range(pool'.queue) = Range(from.queue) \ {b}
    BY <1>1, <1>2, <1>5, <1>6, AllocateSplits
<1> HIDE DEF b
<1>8. conn.rq \in Seq(Buffer) /\ <<b>> \in Seq(Buffer)
    BY <1>6 DEF ConnectionType
<1>9. conn.rq \o <<b>> = Append(conn.rq, b) /\ Append(conn.rq, b) \in Seq(Buffer)
    BY <1>6, <1>8, AppendIsConcat, AppendProperties
<1> DEFINE new == [conn EXCEPT !.rq = Append(@, b)]
<1>10. /\ new \in ConnectionType /\ new.client = conn.client /\ new.rq = Append(conn.rq, b)
       /\ new.sq = conn.sq /\ new.counters = conn.counters
    BY <1>9 DEF ConnectionType
<1>11. connections' = [connections EXCEPT ![c] = new]
    BY <1>2, <1>6, <1>9
<1> HIDE DEF new
<1>12. connections'[c] = new /\ \A d \in ConnId \ {c} : connections'[d] = connections[d]
    BY <1>11 DEF ServerInv, ServerTypes
<1>13. new # NoConnection
    BY <1>10, ConnectionIsLive
<1>14. posted_recv' = (posted_recv \ {<<c, buf>>}) \cup {<<c, b>>}
    BY <1>2, <1>6
<1>15. Replaced(c, buf, Range(p.queue), b)
    BY <1>5, <1>7, <1>10, <1>12, <1>13, <1>14 DEF Replaced
<1> QED
    BY <1>6, <1>10, <1>12, <1>15

\* A request is dropped or answered.
LEMMA ProcessCases ==
    ASSUME ServerInv, BuffersApart, NEW c \in ConnId, NEW buf \in Buffer, NEW msg \in Request,
           <<c, buf>> \in posted_recv, Intact(pool'),
           conn_contexts[c] # NoContext, accepting = NoId, Process(c, buf, msg)
    PROVE  \E b \in Buffer :
              \/ (msg.op = "SHORT" \/ pool.queue = << >>) /\ Dropped(c, buf, b)
              \/ msg.op # "SHORT" /\ \E rb \in FreeBuffers : Answered(c, buf, msg, rb, b)
<1>1. Live(c)
    BY DEF ServerInv, ContextMatchesConnection
<1>2. connections[c] \in ConnectionType /\ conn_contexts[c] \in ContextType /\ pool \in Pools(Buffer)
    BY <1>1 DEF ServerInv, ServerTypes, Live
<1>3. pool.queue \in Seq(Buffer) /\ IsInjective(pool.queue) /\ buf \notin Range(pool.queue)
    BY <1>2 DEF Pools, BuffersApart, FreeBuffers
<1> DEFINE rb == Head(pool.queue)
           wr_id == <<c, SendNumber(conn_contexts[c], msg.op)>>
           conn == Posted(connections[c], wr_id, rb, ResponseTo(msg))
           p == AfterAllocate(pool, 1)
<1>4. CASE msg.op # "SHORT" /\ pool.queue # << >>
    <2>1. rb \in Buffer /\ rb \in FreeBuffers
        BY <1>2, <1>3, <1>4, AllocateOne, QueueAsSet DEF FreeBuffers
    <2>2. ResponseTo(msg) \in Response /\ wr_id \in Number
        BY <1>2, ResponseType, CountedType DEF Number
    <2>3. /\ conn \in ConnectionType /\ conn.client = connections[c].client
          /\ conn.rq = connections[c].rq
        BY <1>2, <2>1, <2>2, PostedType
    <2>4. /\ posted_send' = With(posted_send, wr_id, rb)
          /\ conn_contexts' = [conn_contexts EXCEPT ![c] = Counted(@, msg.op)]
          /\ PostRecvBuffers(c, conn, AfterFree(p, buf), 1, posted_recv \ {<<c, buf>>})
        BY <1>4 DEF Process
    <2>5. /\ conn.sq = Append(connections[c].sq, AnswerTo(c, msg, rb))
          /\ conn.counters = AfterShouldSignal(connections[c].counters)
        BY <1>2 DEF Posted, AnswerTo, ConnectionType
    <2>6. AnswerTo(c, msg, rb) \in WorkRequests
        <3>1. ShouldSignal(connections[c].counters) \in BOOLEAN
            BY DEF ShouldSignal
        <3> QED
            BY <2>1, <2>2, <3>1 DEF AnswerTo, WorkRequests
    <2>7. /\ p \in Pools(Buffer) /\ IsInjective(p.queue)
          /\ Range(p.queue) = FreeBuffers \ {rb}
        <3>1. p \in Pools(Buffer)
            BY <1>2, AllocateTakes
        <3>2. Allocated(pool, 1) = <<rb>> /\ Range(<<rb>>) = {rb}
            BY <1>2, <1>4, AllocateOne
        <3>3. /\ IsInjective(p.queue)
              /\ Range(p.queue) = Range(pool.queue) \ Range(Allocated(pool, 1))
            BY <1>2, <1>3, AllocateSplits
        <3> QED
            BY <3>1, <3>2, <3>3 DEF FreeBuffers
    <2>8. buf \notin Range(p.queue)
        BY <1>3, <2>7 DEF FreeBuffers
    <2> HIDE DEF rb, conn, p
    <2>9. PICK b \in Buffer :
              /\ Replaced(c, buf, Range(p.queue), b)
              /\ connections'[c].sq = conn.sq /\ connections'[c].counters = conn.counters
        BY <2>3, <2>4, <2>7, <2>8, ReplacedByPost
    <2>10. Answered(c, buf, msg, rb, b)
        BY <2>4, <2>5, <2>6, <2>7, <2>9 DEF Answered
    <2> QED
        BY <1>4, <2>1, <2>10
<1>5. CASE ~(msg.op # "SHORT" /\ pool.queue # << >>)
    <2>1. /\ UNCHANGED <<posted_send, conn_contexts>>
          /\ PostRecvBuffers(c, connections[c], AfterFree(pool, buf), 1, posted_recv \ {<<c, buf>>})
        BY <1>5 DEF Process
    <2>2. PICK b \in Buffer :
              /\ Replaced(c, buf, Range(pool.queue), b)
              /\ connections'[c].sq = connections[c].sq
              /\ connections'[c].counters = connections[c].counters
        BY <1>2, <1>3, <2>1, ReplacedByPost
    <2>3. Dropped(c, buf, b)
        BY <2>1, <2>2 DEF Dropped, FreeBuffers
    <2> QED
        BY <1>5, <2>3
<1> QED
    BY <1>4, <1>5

\* Replacing a tracked receive buffer keeps every buffer in one place, if the
\* free buffers taken away from the pool are the ones that sends are tracked
\* for.
LEMMA ReplacedApart ==
    ASSUME ServerInv, RecvsTracked, NEW c \in ConnId, NEW buf, <<c, buf>> \in posted_recv,
           NEW b, NEW free \in SUBSET FreeBuffers, Replaced(c, buf, free, b),
           \A w \in DOMAIN posted_send' :
               \/ w \in DOMAIN posted_send /\ posted_send'[w] = posted_send[w]
               \/ posted_send'[w] \in FreeBuffers \ free,
           \A v, w \in DOMAIN posted_send' : posted_send'[v] = posted_send'[w] => v = w
    PROVE  BuffersApart'
<1> USE DEF RecvsTracked, BuffersApart
<1>1. /\ Range(pool'.queue) = (free \cup {buf}) \ {b} /\ b \in free \cup {buf}
      /\ posted_recv' = (posted_recv \ {<<c, buf>>}) \cup {<<c, b>>}
    BY DEF Replaced
<1>2. buf \notin FreeBuffers
    BY DEF ServerInv, ServerTypes
<1>3. posted_recv \subseteq ConnId \X Buffer
    BY DEF ServerInv, ServerTypes
<1>4. ASSUME NEW r \in posted_recv'
      PROVE  \/ r \in posted_recv /\ r[2] # buf /\ r[2] \notin FreeBuffers /\ r # <<c, buf>>
             \/ r[1] = c /\ r[2] = b /\ r = <<c, r[2]>>
    <2>1. CASE r \in posted_recv \ {<<c, buf>>}
        <3>1. r[2] = buf => r = <<c, buf>>
            BY <2>1
        <3> QED
            BY <2>1, <3>1
    <2>2. CASE r \in {<<c, b>>}
        BY <2>2
    <2> QED
        BY <1>1, <2>1, <2>2
<1>5. \A r \in posted_recv' : r[2] \notin Range(pool'.queue)
    BY <1>1, <1>4
<1>6. \A r, s \in posted_recv' : r[2] = s[2] => r = s
    <2> SUFFICES ASSUME NEW r \in posted_recv', NEW s \in posted_recv', r[2] = s[2]
                 PROVE  r = s
        OBVIOUS
    <2>1. CASE r \in posted_recv /\ s \in posted_recv
        BY <2>1
    <2>2. CASE r \notin posted_recv \/ s \notin posted_recv
        <3>1. r[2] = b => r[2] \in FreeBuffers \cup {buf}
            BY <1>1
        <3> QED
            BY <1>4, <2>2, <3>1
    <2> QED
        BY <2>1, <2>2
<1>7. ASSUME NEW w \in DOMAIN posted_send'
      PROVE  posted_send'[w] \notin Range(pool'.queue) /\ \A r \in posted_recv' : r[2] # posted_send'[w]
    <2>1. CASE w \in DOMAIN posted_send /\ posted_send'[w] = posted_send[w]
        <3>1. posted_send[w] \notin FreeBuffers /\ posted_send[w] # buf
            BY <2>1
        <3>2. posted_send[w] # b
            BY <1>1, <3>1
        <3> QED
            BY <1>1, <1>4, <2>1, <3>1, <3>2
    <2>2. CASE posted_send'[w] \in FreeBuffers \ free
        <3>1. posted_send'[w] # b /\ posted_send'[w] # buf
            BY <1>1, <1>2, <2>2
        <3> QED
            BY <1>1, <1>4, <2>2, <3>1
    <2> QED
        BY <2>1, <2>2
<1>8. IsInjective(pool'.queue)
    BY DEF Replaced
<1> QED
    BY <1>5, <1>6, <1>7, <1>8 DEF FreeBuffers

\* It keeps the buffers of other messages tracked.
LEMMA ReplacedArrivals ==
    ASSUME ServerInv, RecvsTracked, NEW wc, wc.kind = "recv", wc.ok, wc.conn \in ConnId,
           Live(wc.conn), Handling(wc, "recv", TRUE), cq' = cq, NEW b \in Buffer,
           NEW free \in SUBSET FreeBuffers, Replaced(wc.conn, wc.buf, free, b)
    PROVE  KindsApart' /\ ArrivalsDistinct' /\ ArrivalsTracked' /\ PostedTracked'
<1> DEFINE new == Arrivals'
           f == [i \in DOMAIN new |-> i + 1]
           c == wc.conn
           buf == wc.buf
<1>1. \A d \in ConnId : connections'[d] # NoConnection => Live(d)
    BY DEF Replaced, Live
<1>2. /\ KindsApart' /\ 1 \in DOMAIN Arrivals /\ Arrivals[1] = wc
      /\ \A i \in DOMAIN new :
            /\ i \in Nat \ {0} /\ i + 1 \in DOMAIN Arrivals /\ new[i] = Arrivals[i + 1]
            /\ Arrivals[i + 1].conn \in ConnId
            /\ ArrivedNext(Arrivals[i + 1]) => Arrived(Arrivals[i + 1])
    BY <1>1, HandledArrivals
<1>3. /\ f \in [DOMAIN new -> DOMAIN Arrivals] /\ \A i \in DOMAIN new : f[i] = i + 1
      /\ \A i, j \in DOMAIN new : f[i] = f[j] => i = j
    BY <1>2
<1> HIDE DEF f
<1>4. \A i \in DOMAIN new : ArrivedNext(new[i]) =>
          i \in DOMAIN new /\ new[i] = Arrivals[f[i]] /\ Arrived(new[i])
    BY <1>2, <1>3
<1>5. /\ ArrivalsDistinct'
      /\ \A i \in DOMAIN new : ArrivedNext(new[i]) =>
            /\ <<new[i].conn, new[i].buf>> \in posted_recv
            /\ new[i].buf \notin Range(connections[new[i].conn].rq)
    <2>1. ArrivalsTracked /\ ArrivalsDistinct /\ new = Arrivals'
        BY DEF RecvsTracked
    <2> HIDE DEF new
    <2> QED
        BY <1>3, <1>4, <2>1, ArrivalsEmbedded
<1>6. <<c, buf>> \in posted_recv /\ buf \notin Range(connections[c].rq) /\ Arrived(wc)
    BY <1>2 DEF RecvsTracked, ArrivalsTracked, Arrived
<1>rq. /\ IsInjective(connections'[c].rq)
       /\ Range(connections'[c].rq) = Range(connections[c].rq) \cup {b}
    <2>1. connections[c].rq \in Seq(Buffer) /\ IsInjective(connections[c].rq)
        BY DEF ServerInv, ServerTypes, ConnectionType, Live, RecvsTracked, PostedTracked
    <2>2. b \notin Range(connections[c].rq)
        <3>1. ASSUME NEW x \in Range(connections[c].rq)
              PROVE  x \notin FreeBuffers /\ x # buf
            <4>1. <<c, x>> \in posted_recv
                BY DEF RecvsTracked, PostedTracked
            <4>2. <<c, x>>[2] \notin FreeBuffers
                BY <4>1 DEF RecvsTracked, BuffersApart
            <4> QED
                BY <1>6, <4>2
        <3> QED
            BY <3>1 DEF Replaced
    <2> QED
        BY <2>1, <2>2, QueueAsSet DEF Replaced
<1>7. ASSUME NEW i \in DOMAIN new, ArrivedNext(new[i])
      PROVE  /\ <<new[i].conn, new[i].buf>> \in posted_recv'
             /\ new[i].buf \notin Range(connections'[new[i].conn].rq)
    <2>1. new[i].buf # buf
        <3>1. i + 1 # 1 /\ i + 1 \in DOMAIN Arrivals /\ Arrived(Arrivals[i + 1])
            BY <1>2, <1>7
        <3> QED
            BY <1>2, <1>6, <3>1 DEF RecvsTracked, ArrivalsDistinct
    <2>2. /\ <<new[i].conn, new[i].buf>> \in posted_recv
          /\ new[i].buf \notin Range(connections[new[i].conn].rq)
        BY <1>5, <1>7
    <2>3. new[i].buf \notin FreeBuffers
        BY <2>2 DEF RecvsTracked, BuffersApart
    <2>4. new[i].buf # b
        BY <2>1, <2>3 DEF Replaced
    <2>5. <<new[i].conn, new[i].buf>> \in posted_recv'
        BY <2>1, <2>2 DEF Replaced
    <2>6. new[i].conn \in ConnId
        BY <1>2
    <2>7. CASE new[i].conn = c
        BY <1>rq, <2>2, <2>4, <2>5, <2>7
    <2>8. CASE new[i].conn # c
        BY <2>2, <2>5, <2>6, <2>8 DEF Replaced
    <2> QED
        BY <2>7, <2>8
<1>8. ArrivalsTracked'
    BY <1>7 DEF ArrivalsTracked, Arrived, ArrivedNext, Live
<1>9. ASSUME NEW d \in ConnId, connections'[d] # NoConnection
      PROVE  /\ IsInjective(connections'[d].rq)
             /\ \A x \in Range(connections'[d].rq) : <<d, x>> \in posted_recv'
    <2>1. CASE d = c
        <3>1. ASSUME NEW x \in Range(connections[c].rq)
              PROVE  <<c, x>> \in posted_recv'
            <4>1. <<c, x>> \in posted_recv /\ x # buf
                BY <1>6, <3>1 DEF RecvsTracked, PostedTracked
            <4> QED
                BY <4>1 DEF Replaced
        <3>2. <<c, b>> \in posted_recv'
            BY DEF Replaced
        <3> QED
            BY <1>rq, <2>1, <3>1, <3>2
    <2>2. CASE d # c
        <3>1. connections'[d] = connections[d] /\ Live(d)
            BY <1>1, <1>9, <2>2 DEF Replaced
        <3>2. \A x \in Range(connections[d].rq) : <<d, x>> \in posted_recv'
            BY <2>2, <3>1 DEF Replaced, RecvsTracked, PostedTracked
        <3> QED
            BY <3>1, <3>2 DEF RecvsTracked, PostedTracked
    <2> QED
        BY <2>1, <2>2
<1>10. PostedTracked'
    BY <1>9 DEF PostedTracked, Live
<1> QED
    BY <1>2, <1>5, <1>8, <1>10

\* A request that is answered takes a free buffer, which is tracked once.
LEMMA AnsweredSends ==
    ASSUME RecvsTracked, NEW rb \in FreeBuffers, NEW w, posted_send' = With(posted_send, w, rb)
    PROVE  /\ \A v \in DOMAIN posted_send' :
                 \/ v \in DOMAIN posted_send /\ v # w /\ posted_send'[v] = posted_send[v]
                 \/ v = w /\ posted_send'[v] = rb
           /\ \A u, v \in DOMAIN posted_send' : posted_send'[u] = posted_send'[v] => u = v
<1>1. \A v \in DOMAIN posted_send' :
          \/ v \in DOMAIN posted_send /\ v # w /\ posted_send'[v] = posted_send[v]
          \/ v = w /\ posted_send'[v] = rb
    BY DEF With
<1>2. \A v \in DOMAIN posted_send : posted_send[v] # rb
    BY DEF RecvsTracked, BuffersApart
<1>3. \A u, v \in DOMAIN posted_send' : posted_send'[u] = posted_send'[v] => u = v
    BY <1>1, <1>2 DEF RecvsTracked, BuffersApart
<1> QED
    BY <1>1, <1>3

\* Handling a request replaces its receive buffer, whether or not there is an
\* answer.
LEMMA HandleRequestTracked ==
    ASSUME ServerInv, RecvsTracked, NEW wc, HandleRequest(wc), Intact(pool')
    PROVE  RecvsTracked'
<1>1. Handling(wc, "recv", TRUE) /\ cq' = cq
    BY DEF HandleRequest
<1>2. wc \in Wc /\ wc.kind = "recv" /\ wc.ok = TRUE /\ accepting = NoId
    BY <1>1, HandlingKeeps
<1>3. wc.conn \in ConnId /\ wc.buf \in Buffer /\ wc.msg \in Request
    <2>1. wc \in RecvWc
        BY <1>2 DEF Wc, SendWc, RecvWc
    <2> QED
        BY <2>1 DEF RecvWc
<1> DEFINE c == wc.conn
           ready == /\ c \in registered /\ conn_contexts[c] # NoContext
                    /\ <<c, wc.buf>> \in posted_recv
<1>4. CASE ready
    <2>1. Process(c, wc.buf, wc.msg)
        BY <1>4 DEF HandleRequest
    <2>2. Live(c)
        BY <1>3, <1>4 DEF ServerInv, ContextMatchesConnection
    <2>3. PICK b \in Buffer :
              \/ (wc.msg.op = "SHORT" \/ pool.queue = << >>) /\ Dropped(c, wc.buf, b)
              \/ wc.msg.op # "SHORT" /\ \E rb \in FreeBuffers : Answered(c, wc.buf, wc.msg, rb, b)
        BY <1>2, <1>3, <1>4, <2>1, ProcessCases DEF RecvsTracked
    <2>4. CASE Dropped(c, wc.buf, b)
        <3>1. Replaced(c, wc.buf, FreeBuffers, b) /\ posted_send' = posted_send
            BY <2>4 DEF Dropped
        <3>2. KindsApart' /\ ArrivalsDistinct' /\ ArrivalsTracked' /\ PostedTracked'
            BY <1>1, <1>2, <1>3, <2>2, <3>1, ReplacedArrivals
        <3>3. /\ \A w \in DOMAIN posted_send' :
                    w \in DOMAIN posted_send /\ posted_send'[w] = posted_send[w]
              /\ \A v, w \in DOMAIN posted_send' : posted_send'[v] = posted_send'[w] => v = w
            BY <3>1 DEF RecvsTracked, BuffersApart
        <3>4. BuffersApart'
            BY <1>3, <1>4, <3>1, <3>3, ReplacedApart
        <3> QED
            BY <3>2, <3>4 DEF RecvsTracked
    <2>5. ASSUME NEW rb \in FreeBuffers, Answered(c, wc.buf, wc.msg, rb, b)
          PROVE  RecvsTracked'
        <3> DEFINE free == FreeBuffers \ {rb}
        <3>1. Replaced(c, wc.buf, free, b) /\ \E w : posted_send' = With(posted_send, w, rb)
            BY <2>5 DEF Answered
        <3>2. free \in SUBSET FreeBuffers /\ FreeBuffers \ free = {rb}
            OBVIOUS
        <3>3. /\ \A w \in DOMAIN posted_send' :
                    \/ w \in DOMAIN posted_send /\ posted_send'[w] = posted_send[w]
                    \/ posted_send'[w] = rb
              /\ \A v, w \in DOMAIN posted_send' : posted_send'[v] = posted_send'[w] => v = w
            BY <3>1, AnsweredSends
        <3> HIDE DEF free
        <3>4. KindsApart' /\ ArrivalsDistinct' /\ ArrivalsTracked' /\ PostedTracked'
            BY <1>1, <1>2, <1>3, <2>2, <3>1, <3>2, ReplacedArrivals
        <3>5. BuffersApart'
            BY <1>3, <1>4, <3>1, <3>2, <3>3, ReplacedApart
        <3> QED
            BY <3>4, <3>5 DEF RecvsTracked
    <2> QED
        BY <2>3, <2>4, <2>5
<1>5. CASE ~ready
    <2>1. UNCHANGED <<connections, pool, posted_recv, posted_send>>
        BY <1>5 DEF HandleRequest, bufferVars
    <2>2. KindsApart' /\ ArrivalsDistinct' /\ ArrivalsTracked' /\ PostedTracked'
        BY <1>1, <2>1, HandledKept
    <2>3. BuffersApart'
        BY <2>1 DEF RecvsTracked, BuffersApart, FreeBuffers
    <2> QED
        BY <2>2, <2>3 DEF RecvsTracked
<1> QED
    BY <1>4, <1>5

\* A send completion frees the buffer that was tracked for it.
LEMMA HandleSendTracked ==
    ASSUME ServerInv, RecvsTracked, NEW wc, HandleSendCompletion(wc), Intact(pool')
    PROVE  RecvsTracked'
<1>1. Handling(wc, "send", TRUE) /\ UNCHANGED <<connections, posted_recv, cq>>
    BY DEF HandleSendCompletion, managerVars
<1>2. KindsApart' /\ ArrivalsDistinct' /\ ArrivalsTracked' /\ PostedTracked'
    BY <1>1, HandledKept
<1>3. BuffersApart'
    <2>1. CASE wc.conn \in registered /\ wc.wr_id \in DOMAIN posted_send
        <3>1. /\ pool' = AfterFree(pool, posted_send[wc.wr_id])
              /\ posted_send' = Without(posted_send, wc.wr_id)
            BY <2>1 DEF HandleSendCompletion
        <3>2. \A w \in DOMAIN posted_send' : w \in DOMAIN posted_send /\ w # wc.wr_id
                                             /\ posted_send'[w] = posted_send[w]
            BY <3>1 DEF Without
        <3>3. pool \in Pools(Buffer) /\ pool.queue \in Seq(Buffer) /\ posted_send[wc.wr_id] \in Buffer
            BY <2>1 DEF ServerInv, ServerTypes, Pools
        <3>4. pool'.queue = Append(pool.queue, posted_send[wc.wr_id])
            BY <3>1, <3>3, FreeAdds, BuffersNumbered
        <3>5. /\ IsInjective(pool'.queue)
              /\ Range(pool'.queue) = FreeBuffers \cup {posted_send[wc.wr_id]}
            BY <2>1, <3>3, <3>4, QueueAsSet DEF RecvsTracked, BuffersApart, FreeBuffers
        <3>6. FreeBuffers' = FreeBuffers \cup {posted_send[wc.wr_id]}
            BY <3>5 DEF FreeBuffers
        <3> QED
            BY <1>1, <2>1, <3>2, <3>5, <3>6 DEF RecvsTracked, BuffersApart
    <2>2. CASE ~(wc.conn \in registered /\ wc.wr_id \in DOMAIN posted_send)
        <3>1. UNCHANGED <<pool, posted_send>>
            BY <2>2 DEF HandleSendCompletion
        <3> QED
            BY <1>1, <3>1 DEF RecvsTracked, BuffersApart, FreeBuffers
    <2> QED
        BY <2>1, <2>2
<1> QED
    BY <1>2, <1>3 DEF RecvsTracked

\* Messages keep their order and their number when a batch is polled.
LEMMA PollTracked ==
    ASSUME ServerInv, RecvsTracked, Poll
    PROVE  RecvsTracked'
<1>1. /\ turn \in {"send", "recv"} /\ batch = << >>
      /\ UNCHANGED <<connections, pool, posted_recv, posted_send>>
    BY DEF Poll, managerVars, bufferVars
<1> DEFINE q == cq[turn]
           n == IF Len(q) < BatchSize THEN Len(q) ELSE BatchSize
           rest == SubSeq(q, n + 1, Len(q))
           new == Arrivals'
<1>2. batch' = SubSeq(q, 1, n) /\ cq' = [cq EXCEPT ![turn] = rest]
    BY DEF Poll
<1>3. q \in Seq(Wc) /\ Len(q) \in Nat /\ cq \in [send : Seq(Wc), recv : Seq(Wc)]
    BY <1>1, LenProperties DEF ServerInv, ServerTypes
<1>4. n \in 0 .. Len(q) /\ n \in Nat
    BY <1>3, KvServerAssumption
<1> HIDE DEF n
<1>5. \A S : q \in Seq(S) => batch' \in Seq(S) /\ Len(batch') = n /\ rest \in Seq(S)
    BY <1>2, <1>4, TakeBatch
<1>6. /\ Len(rest) = Len(q) - n
      /\ \A i \in 1 .. Len(q) - n : rest[i] = q[n + i]
    BY <1>3, <1>4, RestOfQueue
<1> HIDE DEF rest, q
<1>7. KindsApart'
    <2>1. CASE turn = "send"
        <3>1. q \in Seq(SendWc) /\ cq'.send = rest /\ cq'.recv = cq.recv
            BY <1>2, <1>3, <2>1 DEF RecvsTracked, KindsApart, q
        <3> QED
            BY <1>5, <3>1 DEF RecvsTracked, KindsApart
    <2>2. CASE turn = "recv"
        <3>1. q \in Seq(RecvWc) /\ cq'.recv = rest /\ cq'.send = cq.send
            BY <1>2, <1>3, <2>2 DEF RecvsTracked, KindsApart, q
        <3> QED
            BY <1>5, <3>1 DEF RecvsTracked, KindsApart
    <2> QED
        BY <1>1, <2>1, <2>2
<1>8. Arrivals = cq.recv
    BY <1>1, <1>3, ConcatEmptySeq DEF Arrivals
<1>9. \A i \in DOMAIN Arrivals : Arrivals[i].conn \in ConnId
    BY QueuesTyped
<1>10. batch' \in Seq(Wc) /\ Len(batch') = n /\ rest \in Seq(Wc)
    BY <1>3, <1>5
<1>11. ArrivalsDistinct' /\ ArrivalsTracked' /\ PostedTracked'
    <2>1. \A c \in ConnId : connections'[c] # NoConnection =>
              \/ connections'[c].rq = << >>
              \/ Live(c) /\ connections'[c].rq = connections[c].rq
        BY <1>1 DEF Live
    <2>2. \A wc : ArrivedNext(wc) => Arrived(wc)
        BY <1>1 DEF ArrivedNext, Arrived, Live
    <2>3. CASE turn = "recv"
        <3> DEFINE f == [i \in DOMAIN Arrivals |-> i]
        <3>1. q = cq.recv /\ cq'.recv = rest /\ new = batch' \o rest
            BY <1>2, <1>3, <2>3 DEF q, Arrivals
        <3>2. DOMAIN Arrivals = 1 .. Len(q)
            BY <1>3, <1>8, <3>1, LenProperties
        <3>3. DOMAIN new = 1 .. Len(q)
            <4>1. DOMAIN new = 1 .. n + Len(rest)
                BY <1>10, <3>1, TwoQueues
            <4> QED
                BY <1>3, <1>4, <1>6, <4>1
        <3>4. ASSUME NEW i \in 1 .. Len(q)
              PROVE  new[i] = Arrivals[i]
            <4>1. CASE i <= n
                <5>1. i \in 1 .. n
                    BY <1>4, <4>1
                <5>2. new[i] = batch'[i]
                    BY <1>10, <3>1, <5>1, TwoQueues
                <5>3. batch'[i] = q[i]
                    <6>1. \A j \in 1 .. n : q[j] \in Wc
                        BY <1>3, <1>4, ElementOfSeq
                    <6>2. 1 \in Int /\ n \in Int
                        BY <1>4
                    <6>3. \A j \in 1 .. n - 1 + 1 : SubSeq(q, 1, n)[j] = q[1 + j - 1]
                        BY <6>1, <6>2, SubSeqProperties
                    <6>4. i \in 1 .. n - 1 + 1 /\ 1 + i - 1 = i
                        BY <1>4, <5>1
                    <6> QED
                        BY <1>2, <6>3, <6>4
                <5> QED
                    BY <1>8, <3>1, <5>2, <5>3
            <4>2. CASE i > n
                <5>1. i - n \in 1 .. Len(q) - n /\ n + (i - n) = i /\ Len(rest) = Len(q) - n
                    BY <1>4, <1>6, <4>2
                <5>2. new[n + (i - n)] = rest[i - n]
                    <6>1. \A j \in 1 .. Len(rest) : (batch' \o rest)[n + j] = rest[j]
                        BY <1>10, TwoQueues, SMTT(30)
                    <6> HIDE DEF new
                    <6> QED
                        BY <3>1, <5>1, <6>1
                <5> QED
                    BY <1>6, <1>8, <3>1, <5>1, <5>2
            <4> QED
                BY <1>4, <4>1, <4>2
        <3>5. f \in [DOMAIN Arrivals -> DOMAIN Arrivals] /\ \A i \in DOMAIN Arrivals : f[i] = i
            OBVIOUS
        <3> HIDE DEF f
        <3>6. \A i, j \in DOMAIN Arrivals : f[i] = f[j] => i = j
            BY <3>5
        <3>7. \A i \in DOMAIN new : ArrivedNext(new[i]) =>
                  /\ i \in DOMAIN Arrivals /\ new[i] = Arrivals[f[i]]
                  /\ Arrived(new[i]) /\ new[i].conn \in ConnId
            BY <1>9, <2>2, <3>2, <3>3, <3>4, <3>5
        <3> HIDE DEF new
        <3> QED
            BY <1>1, <2>1, <3>5, <3>6, <3>7, ArrivalsKept DEF new
    <2>4. CASE turn = "send"
        <3> DEFINE D == {i \in DOMAIN new : i > n}
                   f == [i \in D |-> i - n]
        <3>1. q = cq.send /\ cq'.recv = cq.recv /\ new = batch' \o cq.recv
            BY <1>2, <1>3, <2>4 DEF q, Arrivals
        <3>2. batch' \in Seq(SendWc)
            BY <1>5, <3>1 DEF RecvsTracked, KindsApart
        <3>3. /\ DOMAIN Arrivals = 1 .. Len(cq.recv) /\ DOMAIN new = 1 .. n + Len(cq.recv)
              /\ \A i \in 1 .. n : new[i] = batch'[i]
              /\ \A i \in 1 .. n + Len(cq.recv) :
                    i \in 1 .. n \/ (i - n \in 1 .. Len(cq.recv) /\ new[i] = cq.recv[i - n])
              /\ Len(cq.recv) \in Nat
            <4> DEFINE r == cq.recv
            <4>1. r \in Seq(Wc) /\ batch' \in Seq(Wc) /\ n = Len(batch')
                BY <1>3, <1>10
            <4> HIDE DEF r
            <4>2. /\ DOMAIN r = 1 .. Len(r) /\ Len(r) \in Nat
                  /\ DOMAIN (batch' \o r) = 1 .. n + Len(r)
                  /\ \A i \in 1 .. n : (batch' \o r)[i] = batch'[i]
                  /\ \A i \in 1 .. n + Len(r) :
                        i \in 1 .. n \/ (i - n \in 1 .. Len(r) /\ (batch' \o r)[i] = r[i - n])
                BY <4>1, TwoQueues
            <4>3. Arrivals = r /\ new = batch' \o r
                BY <1>8, <3>1 DEF r
            <4> HIDE DEF new
            <4> QED
                BY <4>2, <4>3 DEF r
        <3>4. \A i \in 1 .. n : new[i].kind = "send"
            <4>1. \A i \in 1 .. n : batch'[i] \in SendWc
                BY <1>10, <3>2, ElementOfSeq
            <4> QED
                BY <3>3, <4>1 DEF SendWc
        <3>5. \A i \in DOMAIN new : ArrivedNext(new[i]) =>
                  i \in D /\ i - n \in DOMAIN Arrivals /\ new[i] = Arrivals[i - n]
            <4>1. \A i \in DOMAIN new : ArrivedNext(new[i]) => i \notin 1 .. n
                BY <3>4 DEF ArrivedNext
            <4>2. \A i \in DOMAIN new : i \notin 1 .. n => i > n
                BY <1>4, <3>3
            <4> QED
                BY <1>8, <3>3, <4>1, <4>2
        <3>6. f \in [D -> DOMAIN Arrivals] /\ \A i \in D : f[i] = i - n
            <4>1. \A i \in D : i - n \in DOMAIN Arrivals
                BY <1>4, <3>3
            <4> QED
                BY <4>1
        <3>7. \A i, j \in D : f[i] = f[j] => i = j
            BY <1>4, <3>3, <3>6
        <3> HIDE DEF f, D
        <3>8. \A i \in DOMAIN new : ArrivedNext(new[i]) =>
                  /\ i \in D /\ new[i] = Arrivals[f[i]]
                  /\ Arrived(new[i]) /\ new[i].conn \in ConnId
            BY <1>9, <2>2, <3>5, <3>6
        <3> HIDE DEF new
        <3> QED
            BY <1>1, <2>1, <3>6, <3>7, <3>8, ArrivalsKept DEF new
    <2> QED
        BY <1>1, <2>3, <2>4
<1>12. BuffersApart'
    BY <1>1 DEF RecvsTracked, BuffersApart, FreeBuffers
<1> QED
    BY <1>7, <1>11, <1>12 DEF RecvsTracked

\* Two queues after the head of the first was taken and some of the second
\* were purged.
LEMMA EmbeddedTail ==
    ASSUME NEW S, NEW s \in Seq(S), s # << >>, NEW t \in Seq(S), NEW u \in Seq(S),
           NEW g, Embeds(g, u, t)
    PROVE  \E f : Embeds(f, Tail(s) \o u, s \o t)
<1> DEFINE m == Len(s) - 1
           k == Len(u)
           n == Len(t)
           old == s \o t
           new == Tail(s) \o u
           f == [i \in 1 .. m + k |-> IF i \in 1 .. m THEN i + 1 ELSE m + 1 + g[i - m]]
<1>1. /\ Tail(s) \in Seq(S) /\ m \in Nat /\ Len(s) = m + 1 /\ Len(Tail(s)) = m
      /\ \A i \in 1 .. m : Tail(s)[i] = s[i + 1]
    BY TailOfQueue
<1>2. /\ n \in Nat /\ DOMAIN t = 1 .. n /\ DOMAIN old = 1 .. (m + 1) + n
      /\ \A i \in 1 .. m + 1 : old[i] = s[i]
      /\ \A i \in 1 .. n : old[(m + 1) + i] = t[i]
    <2> HIDE DEF m, k, n, old, new, f
    <2>1. Len(t) \in Nat /\ DOMAIN t = 1 .. Len(t) /\ DOMAIN (s \o t) = 1 .. Len(s) + Len(t)
        BY TwoQueues
    <2>2. \A i \in 1 .. Len(s) : (s \o t)[i] = s[i]
        BY TwoQueues
    <2>3. \A i \in 1 .. Len(t) : (s \o t)[Len(s) + i] = t[i]
        BY TwoQueues
    <2>4. old = s \o t /\ n = Len(t) /\ m + 1 = Len(s)
        BY <1>1 DEF old, n
    <2> QED
        BY <2>1, <2>2, <2>3, <2>4
<1>3. /\ k \in Nat /\ DOMAIN u = 1 .. k /\ DOMAIN new = 1 .. m + k
      /\ \A i \in 1 .. m : new[i] = Tail(s)[i]
      /\ \A i \in 1 .. m + k : i \in 1 .. m \/ (i - m \in 1 .. k /\ new[i] = u[i - m])
    <2>0. PICK r \in Seq(S) : r = Tail(s)
        BY <1>1
    <2> HIDE DEF m, k, n, old, new, f
    <2>1. Len(u) \in Nat /\ DOMAIN u = 1 .. Len(u) /\ DOMAIN (r \o u) = 1 .. Len(r) + Len(u)
        BY TwoQueues
    <2>2. \A i \in 1 .. Len(r) : (r \o u)[i] = r[i]
        BY TwoQueues
    <2>3. \A i \in 1 .. Len(r) + Len(u) :
              i \in 1 .. Len(r) \/ (i - Len(r) \in 1 .. Len(u) /\ (r \o u)[i] = u[i - Len(r)])
        BY TwoQueues
    <2>4. new = r \o u /\ k = Len(u) /\ m = Len(r)
        BY <1>1, <2>0 DEF new, k
    <2> QED
        BY <2>0, <2>1, <2>2, <2>3, <2>4
<1> HIDE DEF m, k, n, old, new
<1>4. /\ \A i \in 1 .. k : g[i] \in 1 .. n /\ u[i] = t[g[i]]
      /\ \A i, j \in 1 .. k : g[i] = g[j] => i = j
    BY <1>2, <1>3 DEF Embeds
<1>5. ASSUME NEW i \in 1 .. m
      PROVE  f[i] = i + 1 /\ f[i] \in 1 .. (m + 1) + n /\ new[i] = old[f[i]]
    <2>1. i \in 1 .. m + k /\ i + 1 \in 1 .. m + 1 /\ i + 1 \in 1 .. (m + 1) + n
        BY <1>1, <1>2, <1>3
    <2>2. f[i] = i + 1
        BY <2>1
    <2> HIDE DEF f
    <2> QED
        BY <1>1, <1>2, <1>3, <2>1, <2>2
<1>6. ASSUME NEW i \in 1 .. m + k, i \notin 1 .. m
      PROVE  /\ i - m \in 1 .. k /\ g[i - m] \in 1 .. n
             /\ f[i] = (m + 1) + g[i - m] /\ f[i] \in 1 .. (m + 1) + n
             /\ new[i] = old[f[i]]
    <2>1. i - m \in 1 .. k /\ new[i] = u[i - m] /\ g[i - m] \in 1 .. n
        BY <1>3, <1>4, <1>6
    <2>2. f[i] = (m + 1) + g[i - m]
        BY <1>6
    <2> HIDE DEF f
    <2>3. f[i] \in 1 .. (m + 1) + n
        BY <1>1, <1>2, <2>1, <2>2
    <2>4. old[(m + 1) + g[i - m]] = t[g[i - m]]
        BY <1>2, <2>1
    <2> QED
        BY <1>4, <2>1, <2>2, <2>3, <2>4
<1>7. f \in [1 .. m + k -> 1 .. (m + 1) + n]
    <2>1. \A i \in 1 .. m + k : f[i] \in 1 .. (m + 1) + n
        <3> HIDE DEF f
        <3> QED
            BY <1>5, <1>6
    <2>2. f = [i \in 1 .. m + k |-> f[i]]
        OBVIOUS
    <2> HIDE DEF f
    <2> QED
        BY <2>1, <2>2
<1> HIDE DEF f
<1>8. ASSUME NEW i \in 1 .. m + k, NEW j \in 1 .. m + k, f[i] = f[j]
      PROVE  i = j
    <2>1. CASE i \in 1 .. m /\ j \in 1 .. m
        BY <1>5, <1>8, <2>1
    <2>2. CASE i \notin 1 .. m /\ j \notin 1 .. m
        <3>1. g[i - m] = g[j - m]
            BY <1>1, <1>6, <1>8, <2>2
        <3>2. i - m = j - m
            BY <1>4, <1>6, <2>2, <3>1
        <3> QED
            BY <1>1, <1>3, <3>2
    <2>3. CASE i \in 1 .. m /\ j \notin 1 .. m
        BY <1>1, <1>2, <1>5, <1>6, <1>8, <2>3, SMTT(30)
    <2>4. CASE i \notin 1 .. m /\ j \in 1 .. m
        BY <1>1, <1>2, <1>5, <1>6, <1>8, <2>4, SMTT(30)
    <2> QED
        BY <2>1, <2>2, <2>3, <2>4
<1>9. \A i \in 1 .. m + k : new[i] = old[f[i]]
    BY <1>5, <1>6
<1>10. Embeds(f, new, old)
    BY <1>2, <1>3, <1>7, <1>8, <1>9 DEF Embeds
<1> QED
    BY <1>10 DEF new, old

\* An error removes a connection and the completions that are left of it.
LEMMA OnErrorTracked ==
    ASSUME DestroyPurges, ServerInv, RecvsTracked, NEW wc, OnError(wc)
    PROVE  RecvsTracked'
<1>1. /\ wc \in Wc /\ batch # << >> /\ batch' = Tail(batch)
      /\ UNCHANGED <<pool, posted_recv, posted_send>>
    BY HandlingKeeps DEF OnError, Handling, bufferVars
<1>2. PICK c \in ConnId : c = wc.conn
    BY <1>1 DEF Wc, SendWc, RecvWc
<1> DEFINE cl == connections[c].client
           new == Arrivals'
<1>3. /\ cq' = [send |-> WithoutClient(cq.send, cl), recv |-> WithoutClient(cq.recv, cl)]
      /\ RemoveConnection(c)
    BY <1>2 DEF OnError, Purged
<1>4. /\ connections'[c] = NoConnection
      /\ \A d \in ConnId \ {c} : connections'[d] = connections[d]
    BY <1>3, RemoveKeepsIds
<1>5. batch \in Seq(Wc) /\ cq.recv \in Seq(Wc) /\ cq.send \in Seq(Wc)
    BY QueuesTyped
<1> HIDE DEF cl
<1>6. KindsApart'
    <2>1. cq.send \in Seq(SendWc) /\ cq.recv \in Seq(RecvWc)
        BY DEF RecvsTracked, KindsApart
    <2>2. /\ WithoutClient(cq.send, cl) \in Seq({x \in SendWc : x.client # cl})
          /\ WithoutClient(cq.recv, cl) \in Seq({x \in RecvWc : x.client # cl})
        BY <2>1, WithoutClientKeeps
    <2>3. {x \in SendWc : x.client # cl} \subseteq SendWc /\ {x \in RecvWc : x.client # cl} \subseteq RecvWc
        OBVIOUS
    <2>4. WithoutClient(cq.send, cl) \in Seq(SendWc) /\ WithoutClient(cq.recv, cl) \in Seq(RecvWc)
        BY <2>2, <2>3, SeqMonotonic
    <2>5. \A S : batch \in Seq(S) => Tail(batch) \in Seq(S)
        BY <1>1, HeadTailProperties
    <2> QED
        BY <1>1, <1>3, <2>4, <2>5 DEF RecvsTracked, KindsApart
<1>7. PICK f : Embeds(f, new, Arrivals)
    <2> DEFINE u == WithoutClient(cq.recv, cl)
    <2>1. PICK g : Embeds(g, u, cq.recv)
        BY <1>5, WithoutClientEmbeds
    <2>2. u \in Seq(Wc)
        <3> DEFINE Other == {x \in Wc : x.client # cl}
        <3>1. u \in Seq(Other)
            BY <1>5, WithoutClientKeeps
        <3>2. Other \subseteq Wc
            OBVIOUS
        <3> HIDE DEF Other, u
        <3> QED
            BY <3>1, <3>2, SeqMonotonic
    <2>3. new = Tail(batch) \o u /\ Arrivals = batch \o cq.recv
        BY <1>1, <1>3 DEF Arrivals
    <2> HIDE DEF u, new
    <2>4. \E f : Embeds(f, Tail(batch) \o u, batch \o cq.recv)
        BY <1>1, <1>5, <2>1, <2>2, EmbeddedTail
    <2> QED
        BY <2>3, <2>4
<1>8. ArrivalsDistinct' /\ ArrivalsTracked' /\ PostedTracked'
    <2>1. \A i \in DOMAIN Arrivals : Arrivals[i].conn \in ConnId
        BY QueuesTyped
    <2>2. \A i \in DOMAIN new : /\ f[i] \in DOMAIN Arrivals /\ new[i] = Arrivals[f[i]]
                                /\ new[i].conn \in ConnId
        <3> HIDE DEF new
        <3> QED
            BY <1>7, <2>1 DEF Embeds
    <2>3. \A x : x.conn \in ConnId /\ ArrivedNext(x) => Arrived(x)
        BY <1>4 DEF ArrivedNext, Arrived, Live
    <2>4. \A i \in DOMAIN new : ArrivedNext(new[i]) =>
              /\ i \in DOMAIN new /\ new[i] = Arrivals[f[i]]
              /\ Arrived(new[i]) /\ new[i].conn \in ConnId
        BY <2>2, <2>3
    <2>5. \A d \in ConnId : connections'[d] # NoConnection =>
              \/ connections'[d].rq = << >>
              \/ Live(d) /\ connections'[d].rq = connections[d].rq
        BY <1>4 DEF Live
    <2>6. f \in [DOMAIN new -> DOMAIN Arrivals] /\ \A i, j \in DOMAIN new : f[i] = f[j] => i = j
        BY <1>7 DEF Embeds
    <2>7. posted_recv \subseteq posted_recv' /\ new = Arrivals'
        BY <1>1
    <2> HIDE DEF new
    <2> QED
        BY <2>4, <2>5, <2>6, <2>7, ArrivalsKept
<1>9. BuffersApart'
    BY <1>1 DEF RecvsTracked, BuffersApart, FreeBuffers
<1> QED
    BY <1>6, <1>8, <1>9 DEF RecvsTracked

\* A completion is of the kind of its queue.
LEMMA CompletionKind ==
    ASSUME ServerInv, NEW c \in ConnId, Live(c), NEW ok \in BOOLEAN
    PROVE  /\ \A w \in Number : SendCompletion(ok, c, w) \in SendWc
           /\ \A b \in Buffer, msg \in Request : RecvCompletion(ok, c, b, msg) \in RecvWc
<1>1. connections[c].client \in Client
    BY DEF ServerInv, ServerTypes, Live, ConnectionType
<1> QED
    BY <1>1 DEF SendCompletion, RecvCompletion, SendWc, RecvWc

\* No completion in a completion queue is of the connection that an offer makes.
LEMMA OfferTracked ==
    ASSUME ServerInv, CompletionsCurrent, RecvsTracked, NEW cl \in Client, OfferParams(cl)
    PROVE  RecvsTracked'
<1> DEFINE c == Last(free_conn_ids)
<1>1. /\ batch = << >> /\ UNCHANGED <<pool, posted_recv, posted_send, cq, batch>>
      /\ connections' = [connections EXCEPT ![c] = NewConnection(cl)]
    BY DEF OfferParams, BetweenPolls, bufferVars, loopVars
<1>2. c \in ConnId
    BY FrontOfIds DEF OfferParams, ServerInv, ServerTypes, IdsAccounted
<1> HIDE DEF c
<1>3. /\ connections'[c].rq = << >>
      /\ \A d \in ConnId \ {c} : connections'[d] = connections[d]
    BY <1>1, <1>2 DEF ServerInv, ServerTypes, NewConnection
<1>4. \A i \in DOMAIN Arrivals : Live(Arrivals[i].conn)
    <2>1. cq.recv \in Seq(CurrentWc)
        BY DEF CompletionsCurrent
    <2>2. Arrivals = cq.recv
        BY <1>1, <2>1, ConcatEmptySeq DEF Arrivals
    <2>3. \A i \in DOMAIN Arrivals : Arrivals[i] \in CurrentWc
        BY <2>1, <2>2, LenProperties, ElementOfSeq
    <2> QED
        BY <2>3 DEF CurrentWc
<1>5. KindsApart' /\ ArrivalsDistinct' /\ ArrivalsTracked' /\ PostedTracked'
    <2>1. \A i \in DOMAIN Arrivals : ArrivedNext(Arrivals[i]) => Arrived(Arrivals[i])
        BY <1>4 DEF Arrived, ArrivedNext
    <2>2. \A d \in ConnId : connections'[d] # NoConnection =>
              \/ connections'[d].rq = << >>
              \/ Live(d) /\ connections'[d].rq = connections[d].rq
        BY <1>3 DEF Live
    <2>3. cq'.send \in Seq(SendWc)
        BY <1>1 DEF RecvsTracked, KindsApart
    <2> QED
        BY <1>1, <2>1, <2>2, <2>3, SameArrivals
<1>6. BuffersApart'
    BY <1>1 DEF RecvsTracked, BuffersApart, FreeBuffers
<1> QED
    BY <1>5, <1>6 DEF RecvsTracked

\* Nothing had been posted to the connection that is given up.
LEMMA GiveUpTracked ==
    ASSUME ServerInv, RecvsTracked, GiveUp
    PROVE  RecvsTracked'
<1>1. PICK c \in ConnId : c = accepting /\ RemoveConnection(c)
    BY DEF GiveUp, ServerInv, ServerTypes
<1>2. UNCHANGED <<pool, posted_recv, posted_send, cq, batch>>
    BY DEF GiveUp, bufferVars
<1>3. /\ connections'[c] = NoConnection
      /\ \A d \in ConnId \ {c} : connections'[d] = connections[d]
    BY <1>1, RemoveKeepsIds
<1>4. \A i \in DOMAIN Arrivals : Arrivals[i].conn \in ConnId
    BY QueuesTyped
<1>5. KindsApart' /\ ArrivalsDistinct' /\ ArrivalsTracked' /\ PostedTracked'
    <2>1. \A i \in DOMAIN Arrivals : ArrivedNext(Arrivals[i]) => Arrived(Arrivals[i])
        BY <1>3, <1>4 DEF Arrived, ArrivedNext, Live
    <2>2. \A d \in ConnId : connections'[d] # NoConnection =>
              \/ connections'[d].rq = << >>
              \/ Live(d) /\ connections'[d].rq = connections[d].rq
        BY <1>3 DEF Live
    <2>3. cq'.send \in Seq(SendWc)
        BY <1>2 DEF RecvsTracked, KindsApart
    <2> QED
        BY <1>2, <2>1, <2>2, <2>3, SameArrivals
<1>6. BuffersApart'
    BY <1>2 DEF RecvsTracked, BuffersApart, FreeBuffers
<1> QED
    BY <1>5, <1>6 DEF RecvsTracked

\* The receives of a new connection are posted from free buffers.
LEMMA FinishAcceptTracked ==
    ASSUME ServerInv, RecvsTracked, FinishAccept
    PROVE  RecvsTracked'
<1>1. PICK c \in ConnId : c = accepting
    BY DEF FinishAccept, ServerInv, ServerTypes
<1> DEFINE conn == connections[c]
           bs == Allocated(pool, RecvCount)
           new == Arrivals'
           f == [i \in DOMAIN Arrivals |-> i]
<1>2. Live(c) /\ conn \in ConnectionType /\ conn.rq = << >>
    BY <1>1 DEF FinishAccept, ServerInv, ServerTypes, AcceptingIsNew, Live
<1>3. PostRecvBuffers(c, conn, pool, RecvCount, posted_recv) /\ UNCHANGED <<posted_send, cq, batch>>
    BY <1>1 DEF FinishAccept
<1>4. /\ pool' = AfterAllocate(pool, RecvCount)
      /\ posted_recv' = posted_recv \cup {<<c, b>> : b \in Range(bs)}
      /\ connections' = [connections EXCEPT ![c] = [conn EXCEPT !.rq = @ \o bs]]
    BY <1>3 DEF PostRecvBuffers
<1>5. /\ bs \in Seq(Buffer) /\ IsInjective(bs) /\ Range(bs) \subseteq FreeBuffers
      /\ IsInjective(pool'.queue) /\ FreeBuffers' = FreeBuffers \ Range(bs)
    <2>1. pool \in Pools(Buffer) /\ RecvCount \in Nat /\ IsInjective(pool.queue)
        BY KvServerAssumption DEF ServerInv, ServerTypes, RecvsTracked, BuffersApart
    <2>2. bs \in Seq(Buffer)
        BY <2>1, AllocateTakes
    <2>3. /\ IsInjective(bs) /\ Range(bs) \subseteq Range(pool.queue)
          /\ IsInjective(AfterAllocate(pool, RecvCount).queue)
          /\ Range(AfterAllocate(pool, RecvCount).queue) = Range(pool.queue) \ Range(bs)
        BY <2>1, AllocateSplits
    <2> HIDE DEF bs
    <2> QED
        BY <1>4, <2>2, <2>3 DEF FreeBuffers
<1> HIDE DEF bs
<1>6. /\ connections'[c].rq = bs /\ connections'[c] # NoConnection
      /\ \A d \in ConnId \ {c} : connections'[d] = connections[d]
    <2>1. conn.rq \o bs = bs
        BY <1>2, <1>5, ConcatEmptySeq
    <2>2. connections' = [connections EXCEPT ![c] = [conn EXCEPT !.rq = bs]]
        BY <1>4, <2>1
    <2>3. [conn EXCEPT !.rq = bs] \in ConnectionType /\ [conn EXCEPT !.rq = bs].rq = bs
        BY <1>2, <1>5 DEF ConnectionType
    <2>4. [conn EXCEPT !.rq = bs] # NoConnection
        BY <2>3, ConnectionIsLive
    <2> QED
        BY <2>2, <2>3, <2>4 DEF ServerInv, ServerTypes
<1> HIDE DEF conn
<1>7. new = Arrivals
    BY <1>3 DEF Arrivals
<1>8. \A i \in DOMAIN Arrivals : Arrivals[i].conn \in ConnId
    BY QueuesTyped
<1>9. \A i \in DOMAIN Arrivals : ArrivedNext(Arrivals[i]) => Arrived(Arrivals[i])
    BY <1>2, <1>6, <1>8 DEF Arrived, ArrivedNext, Live
<1>10. f \in [DOMAIN Arrivals -> DOMAIN Arrivals] /\ \A i \in DOMAIN Arrivals : f[i] = i
    OBVIOUS
<1> HIDE DEF f, new
<1>11. /\ ArrivalsDistinct'
       /\ \A i \in DOMAIN new : ArrivedNext(new[i]) =>
             /\ <<new[i].conn, new[i].buf>> \in posted_recv
             /\ new[i].buf \notin Range(connections[new[i].conn].rq)
    <2>1. \A i, j \in DOMAIN Arrivals : f[i] = f[j] => i = j
        BY <1>10
    <2>2. \A i \in DOMAIN new : ArrivedNext(new[i]) =>
              i \in DOMAIN Arrivals /\ new[i] = Arrivals[f[i]] /\ Arrived(new[i])
        BY <1>7, <1>9, <1>10
    <2> QED
        BY <1>10, <2>1, <2>2, ArrivalsEmbedded DEF RecvsTracked, new
<1>12. ArrivalsTracked'
    <2>1. ASSUME NEW i \in DOMAIN new, ArrivedNext(new[i])
          PROVE  /\ <<new[i].conn, new[i].buf>> \in posted_recv'
                 /\ new[i].buf \notin Range(connections'[new[i].conn].rq)
        <3>1. /\ <<new[i].conn, new[i].buf>> \in posted_recv
              /\ new[i].buf \notin Range(connections[new[i].conn].rq)
            BY <1>11, <2>1
        <3>2. new[i].buf \notin Range(bs)
            BY <1>5, <3>1 DEF RecvsTracked, BuffersApart
        <3>3. new[i].conn \in ConnId
            BY <1>7, <1>8
        <3> QED
            BY <1>4, <1>6, <3>1, <3>2, <3>3
    <2> QED
        BY <2>1 DEF ArrivalsTracked, Arrived, ArrivedNext, Live, new
<1>13. PostedTracked'
    <2>1. ASSUME NEW d \in ConnId, connections'[d] # NoConnection
          PROVE  /\ IsInjective(connections'[d].rq)
                 /\ \A b \in Range(connections'[d].rq) : <<d, b>> \in posted_recv'
        <3>1. CASE d = c
            BY <1>4, <1>5, <1>6, <3>1
        <3>2. CASE d # c
            BY <1>4, <1>6, <2>1, <3>2 DEF RecvsTracked, PostedTracked, Live
        <3> QED
            BY <3>1, <3>2
    <2> QED
        BY <2>1 DEF PostedTracked, Live
<1>14. KindsApart'
    BY <1>3 DEF RecvsTracked, KindsApart
<1>15. BuffersApart'
    <2> USE DEF RecvsTracked, BuffersApart
    <2>1. ASSUME NEW r \in posted_recv'
          PROVE  r[2] \notin FreeBuffers' /\ (r \in posted_recv \/ (r[2] \in Range(bs) /\ r = <<c, r[2]>>))
        <3>1. CASE r \in posted_recv
            BY <1>5, <3>1
        <3>2. CASE r \in {<<c, b>> : b \in Range(bs)}
            BY <1>5, <3>2
        <3> QED
            BY <1>4, <3>1, <3>2
    <2>2. \A r, s \in posted_recv' : r[2] = s[2] => r = s
        BY <1>5, <2>1
    <2>3. \A w \in DOMAIN posted_send' : posted_send'[w] \notin FreeBuffers'
        BY <1>3, <1>5
    <2>4. \A r \in posted_recv', w \in DOMAIN posted_send' : r[2] # posted_send'[w]
        BY <1>3, <1>5, <2>1
    <2> QED
        BY <1>3, <1>5, <2>1, <2>2, <2>3, <2>4
<1> QED
    BY <1>11, <1>12, <1>13, <1>14, <1>15 DEF RecvsTracked

\* What is put at the end of the receive completions is handled last.
LEMMA ArrivalsExtended ==
    ASSUME ServerInv, NEW r \in Seq(Wc)
    PROVE  Arrivals \o r = batch \o (cq.recv \o r)
<1> DEFINE t == cq.recv
<1>1. batch \in Seq(Wc) /\ t \in Seq(Wc)
    BY QueuesTyped
<1> HIDE DEF t
<1>2. (batch \o t) \o r = batch \o (t \o r)
    BY <1>1, ConcatAssociative
<1> QED
    BY <1>2 DEF t, Arrivals

\* A message takes a buffer that is posted, and so tracked and in no other
\* message.
LEMMA ReceiveTracked ==
    ASSUME ServerInv, RecvsTracked, NEW c \in ConnId, NEW msg \in Request, ReceiveMessage(c, msg)
    PROVE  RecvsTracked'
<1> DEFINE b == Head(connections[c].rq)
           wc == RecvCompletion(TRUE, c, b, msg)
           L == Len(Arrivals)
           new == Arrivals'
<1>1. /\ Live(c) /\ connections[c].rq # << >>
      /\ connections' = [connections EXCEPT ![c].rq = Tail(@)]
      /\ cq' = [cq EXCEPT !.recv = Append(@, wc)]
      /\ UNCHANGED <<pool, posted_recv, posted_send, batch>>
    BY DEF ReceiveMessage, bufferVars, loopVars
<1>2. connections[c] \in ConnectionType
    BY <1>1 DEF ServerInv, ServerTypes, Live
<1>3. /\ b \in Range(connections[c].rq) /\ b \in Buffer
      /\ Tail(connections[c].rq) \in Seq(Buffer) /\ IsInjective(Tail(connections[c].rq))
      /\ Range(Tail(connections[c].rq)) = Range(connections[c].rq) \ {b}
    <2>1. connections[c].rq \in Seq(Buffer) /\ IsInjective(connections[c].rq)
        BY <1>1, <1>2 DEF ConnectionType, RecvsTracked, PostedTracked
    <2> QED
        BY <1>1, <2>1, QueueAsSet, HeadTailProperties
<1>4. wc \in RecvWc /\ wc \in Wc /\ wc.conn = c /\ wc.buf = b
    <2>1. TRUE \in BOOLEAN
        OBVIOUS
    <2>2. wc \in RecvWc
        BY <1>1, <1>3, <2>1, CompletionKind
    <2> QED
        BY <2>2 DEF Wc, RecvCompletion
<1> HIDE DEF b, wc
<1>5. /\ connections'[c] # NoConnection /\ connections'[c].rq = Tail(connections[c].rq)
      /\ Range(connections'[c].rq) = Range(connections[c].rq) \ {b}
      /\ \A d \in ConnId \ {c} : connections'[d] = connections[d]
    <2>1. connections'[c] \in ConnectionType
        BY <1>1, <1>2, <1>3 DEF ServerInv, ServerTypes, ConnectionType
    <2>2. connections'[c].rq = Tail(connections[c].rq)
        BY <1>1, <1>2 DEF ServerInv, ServerTypes, ConnectionType
    <2> QED
        BY <1>1, <1>2, <1>3, <2>1, <2>2, ConnectionIsLive DEF ServerInv, ServerTypes, ConnectionType
<1>6. batch \in Seq(Wc) /\ cq.recv \in Seq(Wc) /\ Arrivals \in Seq(Wc)
    BY QueuesTyped
<1>7. new = Append(Arrivals, wc)
    <2>1. Append(cq.recv, wc) = cq.recv \o <<wc>> /\ Append(Arrivals, wc) = Arrivals \o <<wc>>
        BY <1>4, <1>6, AppendIsConcat
    <2>2. <<wc>> \in Seq(Wc)
        BY <1>4
    <2>3. Arrivals \o <<wc>> = batch \o (cq.recv \o <<wc>>)
        BY <2>2, ArrivalsExtended
    <2>4. cq'.recv = Append(cq.recv, wc)
        BY <1>1 DEF ServerInv, ServerTypes
    <2> QED
        BY <1>1, <2>1, <2>3, <2>4 DEF Arrivals
<1>8. /\ L \in Nat /\ DOMAIN Arrivals = 1 .. L /\ DOMAIN new = 1 .. L + 1
      /\ \A i \in DOMAIN new : i \in DOMAIN Arrivals \/ i = L + 1
      /\ \A i \in DOMAIN Arrivals : new[i] = Arrivals[i]
      /\ new[L + 1] = wc
    BY <1>4, <1>6, <1>7, EndOfQueue
<1>9. \A i \in DOMAIN Arrivals : Arrivals[i].conn \in ConnId
    BY QueuesTyped
<1> HIDE DEF L, new
<1>10. ASSUME NEW i \in DOMAIN Arrivals, ArrivedNext(new[i])
       PROVE  /\ Arrived(Arrivals[i]) /\ new[i] = Arrivals[i] /\ new[i].conn \in ConnId
              /\ <<new[i].conn, new[i].buf>> \in posted_recv
              /\ new[i].buf \notin Range(connections[new[i].conn].rq)
    <2>1. Arrived(Arrivals[i]) /\ new[i] = Arrivals[i] /\ new[i].conn \in ConnId
        BY <1>1, <1>5, <1>8, <1>9, <1>10 DEF Arrived, ArrivedNext, Live
    <2> QED
        BY <2>1 DEF RecvsTracked, ArrivalsTracked
<1>11. <<c, b>> \in posted_recv
    BY <1>1, <1>3 DEF RecvsTracked, PostedTracked
<1>12. \A i \in DOMAIN Arrivals : ArrivedNext(new[i]) => new[i].buf # b
    BY <1>3, <1>10, <1>11 DEF RecvsTracked, BuffersApart
<1>13. ArrivalsDistinct'
    <2>1. ASSUME NEW i \in DOMAIN new, NEW j \in DOMAIN new,
                 ArrivedNext(new[i]), ArrivedNext(new[j]), new[i].buf = new[j].buf
          PROVE  i = j
        <3>1. CASE i \in DOMAIN Arrivals /\ j \in DOMAIN Arrivals
            BY <1>10, <2>1, <3>1 DEF RecvsTracked, ArrivalsDistinct
        <3>2. CASE i = L + 1 \/ j = L + 1
            BY <1>4, <1>8, <1>12, <2>1, <3>2
        <3> QED
            BY <1>8, <3>1, <3>2
    <2> QED
        BY <2>1 DEF ArrivalsDistinct, Arrived, ArrivedNext, Live, new
<1>14. ArrivalsTracked'
    <2>1. ASSUME NEW i \in DOMAIN new, ArrivedNext(new[i])
          PROVE  /\ <<new[i].conn, new[i].buf>> \in posted_recv'
                 /\ new[i].buf \notin Range(connections'[new[i].conn].rq)
        <3>1. CASE i \in DOMAIN Arrivals
            BY <1>1, <1>5, <1>10, <2>1, <3>1
        <3>2. CASE i = L + 1
            BY <1>1, <1>4, <1>5, <1>8, <1>11, <3>2
        <3> QED
            BY <1>8, <3>1, <3>2
    <2> QED
        BY <2>1 DEF ArrivalsTracked, Arrived, ArrivedNext, Live, new
<1>15. PostedTracked'
    BY <1>1, <1>3, <1>5 DEF RecvsTracked, PostedTracked, Live
<1>16. KindsApart'
    <2>1. cq.recv \in Seq(RecvWc) /\ cq.send \in Seq(SendWc)
        BY DEF RecvsTracked, KindsApart
    <2>2. Append(cq.recv, wc) \in Seq(RecvWc)
        BY <1>4, <2>1, AppendProperties
    <2>3. cq'.recv = Append(cq.recv, wc) /\ cq'.send = cq.send
        BY <1>1 DEF ServerInv, ServerTypes
    <2> QED
        BY <1>1, <2>1, <2>2, <2>3 DEF RecvsTracked, KindsApart
<1>17. BuffersApart'
    BY <1>1 DEF RecvsTracked, BuffersApart, FreeBuffers
<1> QED
    BY <1>13, <1>14, <1>15, <1>16, <1>17 DEF RecvsTracked

\* A send that is done leaves the receives alone.
LEMMA FinishSendTracked ==
    ASSUME ServerInv, RecvsTracked, NEW c \in ConnId, FinishSend(c)
    PROVE  RecvsTracked'
<1> DEFINE wr == Head(connections[c].sq)
           wc == SendCompletion(TRUE, c, wr.wr_id)
<1>1. /\ Live(c) /\ connections[c].sq # << >>
      /\ cq' = IF wr.signaled THEN [cq EXCEPT !.send = Append(@, wc)] ELSE cq
      /\ connections' = [connections EXCEPT ![c].sq = Tail(@)]
      /\ UNCHANGED <<pool, posted_recv, posted_send, batch>>
    BY DEF FinishSend, bufferVars, loopVars
<1>2. connections[c] \in ConnectionType /\ connections[c].sq \in Seq(WorkRequests)
    BY <1>1 DEF ServerInv, ServerTypes, Live, ConnectionType
<1>3. wc \in SendWc
    <2>1. wr \in WorkRequests /\ TRUE \in BOOLEAN
        BY <1>1, <1>2, HeadTailProperties
    <2>2. wr.wr_id \in Number
        BY <2>1 DEF WorkRequests
    <2> QED
        BY <1>1, <2>1, <2>2, CompletionKind
<1> HIDE DEF wc
<1>4. cq'.recv = cq.recv /\ cq'.send \in Seq(SendWc)
    <2>1. cq.send \in Seq(SendWc)
        BY DEF RecvsTracked, KindsApart
    <2>2. Append(cq.send, wc) \in Seq(SendWc)
        BY <1>3, <2>1, AppendProperties
    <2> QED
        BY <1>1, <2>1, <2>2 DEF ServerInv, ServerTypes
<1>5. \A d \in ConnId : connections'[d].rq = connections[d].rq \/ connections'[d] = connections[d]
    BY <1>1, <1>2 DEF ServerInv, ServerTypes, ConnectionType
<1>6. \A d \in ConnId : connections'[d] # NoConnection => Live(d)
    BY <1>1 DEF ServerInv, ServerTypes, Live
<1>7. \A d \in ConnId : connections'[d] # NoConnection =>
          \/ connections'[d].rq = << >>
          \/ Live(d) /\ connections'[d].rq = connections[d].rq
    BY <1>5, <1>6
<1>8. \A i \in DOMAIN Arrivals : ArrivedNext(Arrivals[i]) => Arrived(Arrivals[i])
    BY <1>6, QueuesTyped DEF Arrived, ArrivedNext
<1>9. KindsApart' /\ ArrivalsDistinct' /\ ArrivalsTracked' /\ PostedTracked'
    BY <1>1, <1>4, <1>7, <1>8, SameArrivals
<1>10. BuffersApart'
    BY <1>1 DEF RecvsTracked, BuffersApart, FreeBuffers
<1> QED
    BY <1>9, <1>10 DEF RecvsTracked

\* A connection that fails keeps its queue pair for now.
LEMMA NicFailsTracked ==
    ASSUME ServerInv, RecvsTracked, NEW c \in ConnId, NicFails(c)
    PROVE  RecvsTracked'
<1>1. /\ Live(c) /\ connections' = [connections EXCEPT ![c].failed = TRUE]
      /\ UNCHANGED <<pool, posted_recv, posted_send, cq, batch>>
    BY DEF NicFails, bufferVars, loopVars
<1>2. connections[c] \in ConnectionType
    BY <1>1 DEF ServerInv, ServerTypes, Live
<1>3. \A d \in ConnId : connections'[d].rq = connections[d].rq \/ connections'[d] = connections[d]
    BY <1>1, <1>2 DEF ServerInv, ServerTypes, ConnectionType
<1>4. \A d \in ConnId : connections'[d] # NoConnection => Live(d)
    BY <1>1 DEF ServerInv, ServerTypes, Live
<1>5. \A d \in ConnId : connections'[d] # NoConnection =>
          \/ connections'[d].rq = << >>
          \/ Live(d) /\ connections'[d].rq = connections[d].rq
    BY <1>3, <1>4
<1>6. \A i \in DOMAIN Arrivals : ArrivedNext(Arrivals[i]) => Arrived(Arrivals[i])
    BY <1>4, QueuesTyped DEF Arrived, ArrivedNext
<1>7. cq'.send \in Seq(SendWc)
    BY <1>1 DEF RecvsTracked, KindsApart
<1>8. KindsApart' /\ ArrivalsDistinct' /\ ArrivalsTracked' /\ PostedTracked'
    BY <1>1, <1>5, <1>6, <1>7, SameArrivals
<1>9. BuffersApart'
    BY <1>1 DEF RecvsTracked, BuffersApart, FreeBuffers
<1> QED
    BY <1>8, <1>9 DEF RecvsTracked

\* The completions of a flush are errors, and no buffer stays posted.
LEMMA NicFlushesTracked ==
    ASSUME ServerInv, RecvsTracked, NEW c \in ConnId, NicFlushes(c)
    PROVE  RecvsTracked'
<1> DEFINE old == connections[c]
           s == [i \in DOMAIN old.sq |-> SendCompletion(FALSE, c, old.sq[i].wr_id)]
           r == [i \in DOMAIN old.rq |-> RecvCompletion(FALSE, c, old.rq[i], NoMessage)]
           Failed == {wc \in RecvWc : ~wc.ok}
           new == Arrivals'
           n == Len(Arrivals)
           f == [i \in DOMAIN Arrivals |-> i]
<1>1. /\ Live(c) /\ cq' = [send |-> cq.send \o s, recv |-> cq.recv \o r]
      /\ connections' = [connections EXCEPT ![c].sq = << >>, ![c].rq = << >>]
      /\ UNCHANGED <<pool, posted_recv, posted_send, batch>>
    BY DEF NicFlushes, bufferVars, loopVars
<1>2. old \in ConnectionType
    BY <1>1 DEF ServerInv, ServerTypes, Live
<1>3. NoMessage \in Request /\ FALSE \in BOOLEAN
    BY DEF NoMessage, Request
<1>4. s \in Seq(SendWc)
    <2>1. old.sq \in Seq(WorkRequests)
        BY <1>2 DEF ConnectionType
    <2>2. ASSUME NEW i \in DOMAIN old.sq
          PROVE  SendCompletion(FALSE, c, old.sq[i].wr_id) \in SendWc
        <3>1. old.sq[i] \in WorkRequests
            BY <2>1, LenProperties, ElementOfSeq
        <3>2. old.sq[i].wr_id \in Number
            BY <3>1 DEF WorkRequests
        <3> QED
            BY <1>1, <1>3, <3>2, CompletionKind
    <2> HIDE DEF old
    <2> QED
        BY <2>1, <2>2, FlushedSends
<1>5. r \in Seq(Failed)
    <2>1. old.rq \in Seq(Buffer)
        BY <1>2 DEF ConnectionType
    <2>2. ASSUME NEW b \in Buffer
          PROVE  RecvCompletion(FALSE, c, b, NoMessage) \in Failed
        <3>1. RecvCompletion(FALSE, c, b, NoMessage) \in RecvWc
            BY <1>1, <1>3, <2>1, CompletionKind
        <3> QED
            BY <3>1 DEF RecvCompletion
    <2> HIDE DEF old, Failed
    <2> QED
        BY <2>1, <2>2, FlushedReceives
<1>6. /\ connections'[c].rq = << >> /\ connections'[c] # NoConnection
      /\ \A d \in ConnId \ {c} : connections'[d] = connections[d]
    <2>1. connections'[c] \in ConnectionType
        BY <1>1, <1>2, EmptySeq DEF ServerInv, ServerTypes, ConnectionType
    <2> QED
        BY <1>1, <1>2, <2>1, ConnectionIsLive DEF ServerInv, ServerTypes, ConnectionType
<1> HIDE DEF s, r, old
<1>7. r \in Seq(RecvWc) /\ r \in Seq(Wc)
    <2>1. Failed \subseteq RecvWc /\ Failed \subseteq Wc
        BY DEF Wc
    <2> QED
        BY <1>5, <2>1, SeqMonotonic
<1>8. KindsApart'
    <2>1. cq.recv \in Seq(RecvWc) /\ cq.send \in Seq(SendWc)
        BY DEF RecvsTracked, KindsApart
    <2>2. cq.recv \o r \in Seq(RecvWc) /\ cq.send \o s \in Seq(SendWc)
        BY <1>4, <1>7, <2>1, ConcatProperties
    <2> QED
        BY <1>1, <2>2 DEF RecvsTracked, KindsApart
<1>9. batch \in Seq(Wc) /\ cq.recv \in Seq(Wc) /\ Arrivals \in Seq(Wc)
    BY QueuesTyped
<1>10. new = Arrivals \o r
    BY <1>1, <1>7, ArrivalsExtended DEF Arrivals
<1>11. /\ n \in Nat /\ DOMAIN Arrivals = 1 .. n
       /\ \A i \in DOMAIN Arrivals : new[i] = Arrivals[i]
       /\ \A i \in DOMAIN new : i \in DOMAIN Arrivals \/ ~new[i].ok
    <2> HIDE DEF new, n
    <2>1. /\ n \in Nat /\ DOMAIN Arrivals = 1 .. n /\ DOMAIN new = 1 .. n + Len(r)
          /\ \A i \in 1 .. n : new[i] = Arrivals[i]
          /\ \A i \in 1 .. n + Len(r) :
                i \in 1 .. n \/ (i - n \in 1 .. Len(r) /\ new[i] = r[i - n])
        <3> DEFINE both == Arrivals \o r
        <3>1. /\ n \in Nat /\ DOMAIN Arrivals = 1 .. n /\ DOMAIN both = 1 .. n + Len(r)
              /\ \A i \in 1 .. n : both[i] = Arrivals[i]
              /\ \A i \in 1 .. n + Len(r) :
                    i \in 1 .. n \/ (i - n \in 1 .. Len(r) /\ both[i] = r[i - n])
            <4>1. Arrivals \in Seq(Wc) /\ r \in Seq(Wc)
                BY <1>7, <1>9
            <4>2. /\ Len(Arrivals) \in Nat /\ DOMAIN Arrivals = 1 .. Len(Arrivals)
                  /\ DOMAIN both = 1 .. Len(Arrivals) + Len(r)
                BY <4>1, TwoQueues
            <4>3. \A i \in 1 .. Len(Arrivals) : both[i] = Arrivals[i]
                BY <4>1, TwoQueues
            <4>4. \A i \in 1 .. Len(Arrivals) + Len(r) :
                     \/ i \in 1 .. Len(Arrivals)
                     \/ i - Len(Arrivals) \in 1 .. Len(r) /\ both[i] = r[i - Len(Arrivals)]
                BY <4>1, TwoQueues
            <4> HIDE DEF both
            <4> QED
                BY <4>2, <4>3, <4>4 DEF n
        <3> HIDE DEF both
        <3>2. new = both
            BY <1>10 DEF both
        <3> QED
            BY <3>1, <3>2
    <2>2. \A i \in 1 .. Len(r) : ~r[i].ok
        <3>1. \A i \in 1 .. Len(r) : r[i] \in Failed
            BY <1>5, ElementOfSeq
        <3> QED
            BY <3>1
    <2> QED
        BY <2>1, <2>2
<1>12. f \in [DOMAIN Arrivals -> DOMAIN Arrivals] /\ \A i \in DOMAIN Arrivals : f[i] = i
    OBVIOUS
<1> HIDE DEF f, new, n
<1>13. ArrivalsDistinct' /\ ArrivalsTracked' /\ PostedTracked'
    <2>1. \A i, j \in DOMAIN Arrivals : f[i] = f[j] => i = j
        BY <1>12
    <2>2. \A d \in ConnId : connections'[d] # NoConnection => Live(d)
        BY <1>1, <1>6 DEF Live
    <2>3. \A i \in DOMAIN Arrivals : Arrivals[i].conn \in ConnId
        BY QueuesTyped
    <2>4. \A i \in DOMAIN new : ArrivedNext(new[i]) =>
              /\ i \in DOMAIN Arrivals /\ new[i] = Arrivals[f[i]]
              /\ Arrived(new[i]) /\ new[i].conn \in ConnId
        BY <1>11, <1>12, <2>2, <2>3 DEF Arrived, ArrivedNext
    <2>5. \A d \in ConnId : connections'[d] # NoConnection =>
              \/ connections'[d].rq = << >>
              \/ Live(d) /\ connections'[d].rq = connections[d].rq
        BY <1>6, <2>2
    <2>6. new = Arrivals' /\ posted_recv \subseteq posted_recv'
        BY <1>1 DEF new
    <2> QED
        BY <1>12, <2>1, <2>4, <2>5, <2>6, ArrivalsKept
<1>14. BuffersApart'
    BY <1>1 DEF RecvsTracked, BuffersApart, FreeBuffers
<1> QED
    BY <1>8, <1>13, <1>14 DEF RecvsTracked

\* A step of nobody's buffers and completions.
LEMMA OthersTracked ==
    ASSUME RecvsTracked, UNCHANGED <<connections, pool, posted_recv, posted_send, cq, batch>>
    PROVE  RecvsTracked'
<1>1. KindsApart' /\ BuffersApart' /\ PostedTracked'
    BY DEF RecvsTracked, KindsApart, BuffersApart, FreeBuffers, PostedTracked, Live
<1>2. Arrivals' = Arrivals /\ \A wc : Arrived(wc)' <=> Arrived(wc)
    BY DEF Arrivals, Arrived, Live
<1>3. ArrivalsTracked' /\ ArrivalsDistinct'
    BY <1>2 DEF RecvsTracked, ArrivalsTracked, ArrivalsDistinct
<1> QED
    BY <1>1, <1>3 DEF RecvsTracked

\* Nothing is tracked or posted at the start.
LEMMA TrackedInit == ServerInit => RecvsTracked
<1> SUFFICES ASSUME ServerInit
             PROVE  RecvsTracked
    OBVIOUS
<1>1. /\ cq = [send |-> << >>, recv |-> << >>] /\ batch = << >> /\ posted_recv = {}
      /\ posted_send = << >> /\ \A c \in ConnId : ~Live(c)
    BY DEF ServerInit, ManagerInit, Live
<1>2. Arrivals = << >> /\ DOMAIN Arrivals = {}
    BY <1>1, EmptySeq, ConcatEmptySeq DEF Arrivals
<1>3. DOMAIN posted_send = {}
    BY <1>1
<1>4. IsInjective(pool.queue)
    BY DEF ServerInit, NewPool, IsInjective
<1> QED
    BY <1>1, <1>2, <1>3, <1>4, EmptySeq
    DEF RecvsTracked, KindsApart, BuffersApart, PostedTracked, ArrivalsTracked, ArrivalsDistinct

\* A client's request arrives.
LEMMA ClientAsksTracked ==
    ASSUME ServerInv, RecvsTracked, NEW c \in ConnId, ClientAsks(c)
    PROVE  RecvsTracked'
<1> DEFINE cl == connections[c].client
           msg == [op |-> Head(todo[cl]), key |-> 1]
<1>1. Live(c) /\ todo[cl] # << >> /\ ReceiveMessage(c, msg)
    BY DEF ClientAsks
<1>2. cl \in Client
    BY <1>1 DEF ServerInv, ServerTypes, Live, ConnectionType
<1>3. todo[cl] \in Seq(RequestKind)
    BY <1>2 DEF ServerInv, ServerTypes
<1>4. Head(todo[cl]) \in RequestKind
    BY <1>1, <1>3, HeadTailProperties
<1>5. msg \in Request
    BY <1>4 DEF Request
<1> HIDE DEF msg
<1> QED
    BY <1>1, <1>5, ReceiveTracked

\* Every step that leaves the pool intact keeps the receives tracked.
LEMMA TrackedNext ==
    ASSUME DestroyPurges, ServerInv, CompletionsCurrent, RecvsTracked, [ServerNext]_serverVars,
           Intact(pool')
    PROVE  RecvsTracked'
<1>1. CASE NobodyWaits
    BY <1>1, OthersTracked DEF NobodyWaits, managerVars, bufferVars
<1>2. ASSUME NEW cl \in Client, RefuseClient(cl)
      PROVE  RecvsTracked'
    BY <1>2, OthersTracked DEF RefuseClient, managerVars, bufferVars
<1>3. ASSUME NEW cl \in Client, OfferParams(cl)
      PROVE  RecvsTracked'
    BY <1>3, OfferTracked
<1>4. CASE GiveUp \/ FinishAccept
    BY <1>4, GiveUpTracked, FinishAcceptTracked
<1>5. CASE Poll
    BY <1>5, PollTracked
<1>6. CASE Handle
    <2>1. PICK wc : HandleSendCompletion(wc) \/ HandleRequest(wc) \/ OnError(wc)
        BY <1>6 DEF Handle
    <2> QED
        BY <2>1, HandleSendTracked, HandleRequestTracked, OnErrorTracked
<1>7. ASSUME NEW c \in ConnId,
             ClientAsks(c) \/ ClientReceives(c) \/ NicFails(c) \/ NicFlushes(c)
      PROVE  RecvsTracked'
    BY <1>7, ClientAsksTracked, FinishSendTracked, NicFailsTracked, NicFlushesTracked
    DEF ClientReceives
<1>8. ASSUME NEW cl \in Client, ClientCalls(cl)
      PROVE  RecvsTracked'
    BY <1>8, OthersTracked DEF ClientCalls, managerVars, loopVars, bufferVars
<1>9. ASSUME NEW cl \in Client, NEW answer, ClientReplies(cl, answer)
      PROVE  RecvsTracked'
    BY <1>9, OthersTracked DEF ClientReplies, managerVars, loopVars, bufferVars
<1>10. CASE UNCHANGED serverVars
    BY <1>10, OthersTracked DEF serverVars, managerVars, loopVars, bufferVars
<1> QED
    BY <1>1, <1>2, <1>3, <1>4, <1>5, <1>6, <1>7, <1>8, <1>9, <1>10 DEF ServerNext, ServerStep

\* A pool that is intact was so before the step.
LEMMA IntactBefore ==
    ASSUME ServerInv, [ServerNext]_serverVars, Intact(pool')
    PROVE  Intact(pool)
<1>0. pool \in Pools(Buffer) /\ 1 \in Nat /\ RecvCount \in Nat
    BY KvServerAssumption DEF ServerInv, ServerTypes
<1>p. ASSUME NEW c, NEW conn, NEW from \in Pools(Buffer), NEW n \in Nat, NEW tracked,
             PostRecvBuffers(c, conn, from, n, tracked)
      PROVE  Intact(from)
    <2>1. pool' = AfterAllocate(from, n) /\ AfterAllocate(from, n).first_back = from.first_back
        BY <1>p, AllocateTakes DEF PostRecvBuffers
    <2> QED
        BY <2>1 DEF Intact
<1>1. CASE FinishAccept
    BY <1>0, <1>1, <1>p DEF FinishAccept
<1>2. CASE Handle
    <2>1. PICK wc : HandleSendCompletion(wc) \/ HandleRequest(wc) \/ OnError(wc)
        BY <1>2 DEF Handle
    <2>2. CASE HandleRequest(wc)
        <3>1. wc \in Wc /\ wc.kind = "recv"
            BY <2>2, HandlingKeeps DEF HandleRequest
        <3>2. wc \in RecvWc
            BY <3>1 DEF Wc, SendWc, RecvWc
        <3>3. wc.buf \in Buffer
            BY <3>2 DEF RecvWc
        <3>4. CASE UNCHANGED bufferVars
            BY <3>4 DEF bufferVars
        <3>5. CASE Process(wc.conn, wc.buf, wc.msg)
            <4>1. CASE \E c, conn, tracked : PostRecvBuffers(c, conn, AfterFree(pool, wc.buf), 1, tracked)
                <5>1. AfterFree(pool, wc.buf) \in Pools(Buffer)
                    BY <1>0, <3>3, FreeAdds, BuffersNumbered
                <5>2. Intact(AfterFree(pool, wc.buf))
                    BY <1>0, <1>p, <4>1, <5>1
                <5> QED
                    BY <1>0, <3>3, <5>2, FreeAdds, BuffersNumbered
            <4>2. CASE \E c, conn, tracked :
                          PostRecvBuffers(c, conn, AfterFree(AfterAllocate(pool, 1), wc.buf), 1, tracked)
                <5>1. /\ AfterAllocate(pool, 1) \in Pools(Buffer)
                      /\ AfterAllocate(pool, 1).first_back = pool.first_back
                    BY <1>0, AllocateTakes
                <5>2. AfterFree(AfterAllocate(pool, 1), wc.buf) \in Pools(Buffer)
                    BY <3>3, <5>1, FreeAdds, BuffersNumbered
                <5>3. Intact(AfterFree(AfterAllocate(pool, 1), wc.buf))
                    BY <1>0, <1>p, <4>2, <5>2
                <5>4. Intact(AfterAllocate(pool, 1))
                    BY <3>3, <5>1, <5>3, FreeAdds, BuffersNumbered
                <5> QED
                    BY <5>1, <5>4 DEF Intact
            <4> QED
                BY <3>5, <4>1, <4>2 DEF Process
        <3> QED
            BY <2>2, <3>4, <3>5 DEF HandleRequest
    <2>3. CASE OnError(wc)
        BY <2>3 DEF OnError, bufferVars
    <2>4. CASE HandleSendCompletion(wc)
        <3>1. CASE wc.conn \in registered /\ wc.wr_id \in DOMAIN posted_send
            <4>1. pool' = AfterFree(pool, posted_send[wc.wr_id]) /\ posted_send[wc.wr_id] \in Buffer
                BY <2>4, <3>1 DEF HandleSendCompletion, ServerInv, ServerTypes
            <4> QED
                BY <1>0, <4>1, FreeAdds, BuffersNumbered
        <3>2. CASE ~(wc.conn \in registered /\ wc.wr_id \in DOMAIN posted_send)
            BY <2>4, <3>2 DEF HandleSendCompletion
        <3> QED
            BY <3>1, <3>2
    <2> QED
        BY <2>1, <2>2, <2>3, <2>4
<1>3. CASE NobodyWaits \/ GiveUp \/ Poll \/ UNCHANGED serverVars
    BY <1>3 DEF NobodyWaits, GiveUp, Poll, serverVars, bufferVars
<1>4. ASSUME NEW cl \in Client, NEW answer,
             RefuseClient(cl) \/ OfferParams(cl) \/ ClientCalls(cl) \/ ClientReplies(cl, answer)
      PROVE  Intact(pool)
    BY <1>4 DEF RefuseClient, OfferParams, ClientCalls, ClientReplies, bufferVars
<1>5. ASSUME NEW c \in ConnId,
             ClientAsks(c) \/ ClientReceives(c) \/ NicFails(c) \/ NicFlushes(c)
      PROVE  Intact(pool)
    BY <1>5 DEF ClientAsks, ReceiveMessage, ClientReceives, FinishSend, NicFails, NicFlushes,
                bufferVars
<1> QED
    BY <1>1, <1>2, <1>3, <1>4, <1>5 DEF ServerNext, ServerStep

\* A receive that is tracked is owned.
LEMMA TrackedOwned == ServerInv /\ RecvsTracked => ReceivesOwned
<1> SUFFICES ASSUME ServerInv, RecvsTracked
             PROVE  ReceivesOwned
    OBVIOUS
<1>1. ASSUME NEW r \in Receives
      PROVE  /\ r[1] \in ConnId /\ Live(r[1]) /\ r[2] \in DOMAIN connections[r[1]].rq
             /\ r = <<r[1], r[2]>>
             /\ ReceivedInto(r) \in Range(connections[r[1]].rq)
             /\ <<r[1], ReceivedInto(r)>> \in posted_recv
    <2>1. PICK c \in ConnId : Live(c) /\ r \in {<<c, i>> : i \in DOMAIN connections[c].rq}
        BY <1>1 DEF Receives
    <2>2. PICK i \in DOMAIN connections[c].rq : r = <<c, i>>
        BY <2>1
    <2>3. r[1] = c /\ r[2] = i
        BY <2>2
    <2>4. ReceivedInto(r) \in Range(connections[c].rq)
        BY <2>2, <2>3 DEF ReceivedInto, Range
    <2>5. <<c, ReceivedInto(r)>> \in posted_recv
        BY <2>1, <2>4 DEF RecvsTracked, PostedTracked
    <2> QED
        BY <2>1, <2>2, <2>3, <2>4, <2>5
<1>2. ASSUME NEW r \in Receives, NEW q \in Receives, r # q
      PROVE  ReceivedInto(r) # ReceivedInto(q)
    <2> SUFFICES ASSUME ReceivedInto(r) = ReceivedInto(q)
                 PROVE  r = q
        BY <1>2
    <2>1. r[1] = q[1]
        BY <1>1 DEF RecvsTracked, BuffersApart
    <2>2. r[2] = q[2]
        BY <1>1, <2>1 DEF ReceivedInto, RecvsTracked, PostedTracked, IsInjective
    <2> QED
        BY <1>1, <2>1, <2>2
<1>3. ASSUME NEW r \in Receives
      PROVE  ~Contains(pool.queue, ReceivedInto(r))
    <2>1. ReceivedInto(r) \notin FreeBuffers
        BY <1>1 DEF RecvsTracked, BuffersApart
    <2>2. pool.queue \in Seq(Buffer)
        BY DEF ServerInv, ServerTypes, Pools
    <2> QED
        BY <2>1, <2>2, LenProperties DEF Contains, FreeBuffers, Range
<1>4. ASSUME NEW r \in Receives, NEW w \in DOMAIN posted_send
      PROVE  posted_send[w] # ReceivedInto(r)
    BY <1>1 DEF RecvsTracked, BuffersApart
<1> QED
    BY <1>1, <1>2, <1>3, <1>4 DEF ReceivesOwned

\* While its pool is intact, the server owns the buffers posted for receives:
\* each is posted once and tracked under the id of its connection, and none is
\* free or the buffer of a response, whatever the clients ask, whatever
\* connections fail and however often ids are used again, if destroying a queue
\* pair takes its completions along.
THEOREM ReceivesAreOwned ==
    ASSUME DestroyPurges
    PROVE  ServerSpec => []ReceivesOwnedWhileIntact
<1> DEFINE Tracked == Intact(pool) => RecvsTracked
<1>1. ServerInit => Tracked
    BY TrackedInit
<1>2. ServerInv /\ CompletionsCurrent /\ Tracked /\ [ServerNext]_serverVars => Tracked'
    BY TrackedNext, IntactBefore
<1>3. ServerInv /\ CompletionsCurrent /\ [ServerNext]_serverVars => CompletionsCurrent'
    BY CurrentNext
<1>4. ServerInv /\ Tracked => ReceivesOwnedWhileIntact
    BY TrackedOwned DEF ReceivesOwnedWhileIntact
<1> HIDE DEF Tracked
<1> QED
    BY <1>1, <1>2, <1>3, <1>4, CurrentInit, ServerInvariant, PTL DEF ServerSpec


----------------------------------------------------------------------------
(* The benchmark: the client and its buffers.  What is shown of the server *)
(* holds of the server in the benchmark too, which takes no other steps    *)
(* than the server alone may take with other clients.                      *)

\* A buffer of the client.
ClientBuffer == 1 .. ClientBuffers

\* A request of the benchmark.
ClientRequest == [op : {"GET", "PUT"}, key : Nat]

\* A request that is posted.
ClientWr == [seq : Nat, buf : ClientBuffer, msg : ClientRequest, signaled : BOOLEAN]

\* A response that has arrived.
ClientWc == [buf : ClientBuffer, msg : Response]

\* The queue pair of the client, with its completion queues.
ClientQueues == [counters : Counters, sq : Seq(ClientWr), rq : Seq(ClientBuffer),
                 send_cq : Seq(Nat), recv_cq : Seq(ClientWc)]

\* The types of what the client keeps.
ClientTypes ==
    /\ ops \in Ops
    /\ sent \in Nat /\ completed \in Nat
    /\ c_pool \in Pools(ClientBuffer) /\ c_recvs \subseteq ClientBuffer
    /\ \A n \in DOMAIN c_sends : n \in Nat /\ n < sent /\ c_sends[n] \in ClientBuffer
    /\ c_qp \in ClientQueues
    /\ expected \in Seq(ClientRequest)

\* The buffers in the client's pool.
ClientFree == Range(c_pool.queue)

\* A buffer is free once, or tracked for one receive or one send.
ClientOwnsOnce ==
    /\ IsInjective(c_pool.queue)
    /\ ClientFree \cap c_recvs = {}
    /\ \A n \in DOMAIN c_sends : c_sends[n] \notin ClientFree \cup c_recvs
    /\ \A m, n \in DOMAIN c_sends : c_sends[m] = c_sends[n] => m = n
    /\ \A b \in ClientBuffer :
          b \in ClientFree \cup c_recvs \/ \E n \in DOMAIN c_sends : c_sends[n] = b

\* The buffers posted for receives, and those a response has come in, are
\* tracked; a buffer is in one place only.
ClientRecvsPosted ==
    /\ IsInjective(c_qp.rq) /\ Range(c_qp.rq) \subseteq c_recvs
    /\ \A i \in DOMAIN c_qp.recv_cq : c_qp.recv_cq[i].buf \in c_recvs \ Range(c_qp.rq)
    /\ \A i, j \in DOMAIN c_qp.recv_cq : c_qp.recv_cq[i].buf = c_qp.recv_cq[j].buf => i = j

\* The requests posted are tracked under their numbers, and no completion of
\* one of them has come yet.
ClientSendsPosted ==
    /\ \A i \in DOMAIN c_qp.sq : /\ c_qp.sq[i].seq \in DOMAIN c_sends
                                 /\ c_sends[c_qp.sq[i].seq] = c_qp.sq[i].buf
    /\ \A i, j \in DOMAIN c_qp.sq : c_qp.sq[i].seq = c_qp.sq[j].seq => i = j
    /\ \A i \in DOMAIN c_qp.send_cq :
          c_qp.send_cq[i] < sent /\ \A j \in DOMAIN c_qp.sq : c_qp.sq[j].seq # c_qp.send_cq[i]

\* What is inductive of the client's buffers, while its pool is intact.
ClientOwns == ClientOwnsOnce /\ ClientRecvsPosted /\ ClientSendsPosted

\* Where there is a buffer, there is the first.
LEMMA ClientBuffersNumbered ==
    /\ 0 \notin ClientBuffer
    /\ \A b \in ClientBuffer : 1 \in ClientBuffer
BY KvBenchmarkAssumption DEF ClientBuffer

\* A new pool has every buffer, in order.
LEMMA NewPoolHasAll ==
    ASSUME NEW n \in Nat
    PROVE  /\ NewPool(n) \in Pools(1 .. n) /\ NewPool(n).first_back = 0
           /\ IsInjective(NewPool(n).queue) /\ Range(NewPool(n).queue) = 1 .. n
           /\ Len(NewPool(n).queue) = n
           /\ \A i \in 1 .. n : NewPool(n).queue[i] = i
<1>1. NewPool(n) = [queue |-> [i \in 1 .. n |-> i], first_back |-> 0]
    BY DEF NewPool
<1> DEFINE q == [i \in 1 .. n |-> i]
<1>2. q \in Seq(1 .. n)
    BY SeqDef
<1>3. DOMAIN q = 1 .. n /\ \A i \in 1 .. n : q[i] = i
    OBVIOUS
<1> HIDE DEF q
<1>4. Len(q) = n
    BY <1>2, <1>3, LenProperties
<1>5. IsInjective(q) /\ Range(q) = 1 .. n
    BY <1>3 DEF IsInjective, Range
<1>6. NewPool(n).queue = q /\ NewPool(n).first_back = 0 /\ NewPool(n) \in Pools(1 .. n)
    BY <1>1, <1>2 DEF q, Pools
<1> QED
    BY <1>3, <1>4, <1>5, <1>6

\* The client has its buffers and nothing posted at the start.
LEMMA ClientInitInv == BenchmarkInit => ClientTypes /\ ClientOwns
<1> SUFFICES ASSUME BenchmarkInit
             PROVE  ClientTypes /\ ClientOwns
    OBVIOUS
<1>1. /\ ops \in Ops /\ sent = 0 /\ completed = 0 /\ c_pool = NewPool(ClientBuffers)
      /\ c_sends = << >> /\ c_recvs = {} /\ expected = << >>
      /\ c_qp = [counters |-> FreshCounters, sq |-> << >>, rq |-> << >>,
                 send_cq |-> << >>, recv_cq |-> << >>]
    BY DEF BenchmarkInit
<1>2. c_qp \in ClientQueues
    BY <1>1, EmptySeq DEF ClientQueues, FreshCounters, Counters
<1>3. DOMAIN c_sends = {} /\ DOMAIN c_qp.recv_cq = {} /\ DOMAIN c_qp.sq = {}
      /\ DOMAIN c_qp.send_cq = {} /\ c_qp.rq = << >>
    BY <1>1
<1>4. /\ c_pool \in Pools(ClientBuffer) /\ IsInjective(c_pool.queue)
      /\ Range(c_pool.queue) = ClientBuffer
    BY <1>1, NewPoolHasAll, KvBenchmarkAssumption DEF ClientBuffer
<1>5. ClientTypes
    BY <1>1, <1>2, <1>3, <1>4, EmptySeq DEF ClientTypes
<1>6. ClientOwnsOnce
    BY <1>1, <1>3, <1>4 DEF ClientOwnsOnce, ClientFree
<1>7. ClientRecvsPosted /\ ClientSendsPosted
    BY <1>1, <1>3, EmptyQueue DEF ClientRecvsPosted, ClientSendsPosted
<1> QED
    BY <1>5, <1>6, <1>7 DEF ClientOwns

\* The steps that leave the client alone.
LEMMA ClientUnchanged ==
    ASSUME ClientTypes, UNCHANGED benchmarkVars
    PROVE  ClientTypes' /\ (Intact(c_pool') => Intact(c_pool)) /\ (ClientOwns => ClientOwns')
BY DEF benchmarkVars, ClientTypes, ClientOwns, ClientOwnsOnce, ClientRecvsPosted,
       ClientSendsPosted, ClientFree

\* Sets of the client's buffers are finite.
LEMMA ClientBuffersFinite ==
    ASSUME NEW S \in SUBSET ClientBuffer
    PROVE  IsFiniteSet(S)
<1>1. ClientBuffers \in Int /\ 1 \in Int
    BY KvBenchmarkAssumption
<1>2. IsFiniteSet(ClientBuffer)
    BY <1>1, FS_Interval DEF ClientBuffer
<1> QED
    BY <1>2, FS_Subset

\* The client's buffers bs move from the pool to the receive queue.
ReceivesMoved(from, tracked, qp, bs) ==
    /\ c_pool' \in Pools(ClientBuffer) /\ c_pool'.first_back = from.first_back
    /\ bs \in Seq(ClientBuffer)
    /\ c_recvs' = tracked \cup Range(bs)
    /\ c_qp' \in ClientQueues
    /\ c_qp'.rq = qp.rq \o bs /\ c_qp'.sq = qp.sq
    /\ c_qp'.send_cq = qp.send_cq /\ c_qp'.recv_cq = qp.recv_cq
    /\ IsInjective(from.queue) =>
          /\ IsInjective(c_pool'.queue) /\ IsInjective(bs)
          /\ Range(bs) \subseteq Range(from.queue)
          /\ Range(c_pool'.queue) = Range(from.queue) \ Range(bs)

\* Posting receives moves buffers from the pool to the receive queue.
LEMMA PostClientRecvsMoves ==
    ASSUME NEW from \in Pools(ClientBuffer), NEW tracked, NEW qp \in ClientQueues,
           NEW n \in Nat, PostClientRecvs(from, tracked, qp, n)
    PROVE  \E bs : ReceivesMoved(from, tracked, qp, bs)
<1> DEFINE bs == Allocated(from, n)
<1>1. /\ bs \in Seq(ClientBuffer) /\ AfterAllocate(from, n) \in Pools(ClientBuffer)
      /\ AfterAllocate(from, n).first_back = from.first_back
    BY AllocateTakes
<1>2. IsInjective(from.queue) =>
          /\ IsInjective(bs) /\ IsInjective(AfterAllocate(from, n).queue)
          /\ Range(bs) \subseteq Range(from.queue)
          /\ Range(AfterAllocate(from, n).queue) = Range(from.queue) \ Range(bs)
    BY AllocateSplits
<1>3. /\ c_pool' = AfterAllocate(from, n) /\ c_recvs' = tracked \cup Range(bs)
      /\ c_qp' = [qp EXCEPT !.rq = @ \o bs]
    BY DEF PostClientRecvs
<1> HIDE DEF bs
<1>4. qp.rq \o bs \in Seq(ClientBuffer)
    BY <1>1, ConcatProperties DEF ClientQueues
<1>5. /\ c_qp' \in ClientQueues
      /\ c_qp'.rq = qp.rq \o bs /\ c_qp'.sq = qp.sq
      /\ c_qp'.send_cq = qp.send_cq /\ c_qp'.recv_cq = qp.recv_cq
    BY <1>3, <1>4 DEF ClientQueues
<1>6. ReceivesMoved(from, tracked, qp, bs)
    BY <1>1, <1>2, <1>3, <1>5 DEF ReceivesMoved
<1> QED
    BY <1>6

\* Two queues with nothing in common, one behind the other.
LEMMA ApartQueues ==
    ASSUME NEW S, NEW s \in Seq(S), NEW t \in Seq(S)
    PROVE  /\ Range(s \o t) = Range(s) \cup Range(t)
           /\ IsInjective(s) /\ IsInjective(t) /\ Range(s) \cap Range(t) = {}
                 => IsInjective(s \o t)
<1> DEFINE u == s \o t
           n == Len(s)
           m == Len(t)
<1>1. /\ n \in Nat /\ m \in Nat /\ DOMAIN s = 1 .. n /\ DOMAIN t = 1 .. m
      /\ DOMAIN u = 1 .. n + m
    BY TwoQueues
<1>2. \A i \in 1 .. n : i \in DOMAIN u /\ u[i] = s[i]
    BY TwoQueues
<1>3. \A i \in 1 .. m : n + i \in DOMAIN u /\ u[n + i] = t[i]
    BY TwoQueues
<1>4. \A i \in 1 .. n + m : i \in 1 .. n \/ (i - n \in 1 .. m /\ u[i] = t[i - n])
    BY TwoQueues
<1> HIDE DEF u, n, m
<1>5. Range(u) \subseteq Range(s) \cup Range(t)
    BY <1>1, <1>2, <1>4 DEF Range
<1>6. Range(s) \subseteq Range(u) /\ Range(t) \subseteq Range(u)
    BY <1>1, <1>2, <1>3 DEF Range
<1>7. ASSUME IsInjective(s), IsInjective(t), Range(s) \cap Range(t) = {},
             NEW i \in DOMAIN u, NEW j \in DOMAIN u, u[i] = u[j]
      PROVE  i = j
    <2>1. \A k \in DOMAIN s, l \in DOMAIN t : s[k] # t[l]
        BY <1>7 DEF Range
    <2>2. CASE i \in 1 .. n /\ j \in 1 .. n
        BY <1>1, <1>2, <1>7, <2>2 DEF IsInjective
    <2>3. CASE i \in 1 .. n /\ j \notin 1 .. n
        BY <1>1, <1>2, <1>4, <1>7, <2>1, <2>3
    <2>4. CASE i \notin 1 .. n /\ j \in 1 .. n
        BY <1>1, <1>2, <1>4, <1>7, <2>1, <2>4
    <2>5. CASE i \notin 1 .. n /\ j \notin 1 .. n
        <3>1. i - n \in DOMAIN t /\ j - n \in DOMAIN t /\ t[i - n] = t[j - n]
            BY <1>1, <1>4, <1>7, <2>5
        <3>2. i - n = j - n
            BY <1>7, <3>1 DEF IsInjective
        <3> QED
            BY <1>1, <3>2
    <2> QED
        BY <2>2, <2>3, <2>4, <2>5
<1>8. IsInjective(s) /\ IsInjective(t) /\ Range(s) \cap Range(t) = {} => IsInjective(u)
    BY <1>7 DEF IsInjective
<1> QED
    BY <1>5, <1>6, <1>8 DEF u

\* Receives that are posted are tracked.
LEMMA MovedReceives ==
    ASSUME ClientTypes, ClientRecvsPosted, NEW from, NEW tracked, NEW qp \in ClientQueues, NEW bs,
           ReceivesMoved(from, tracked, qp, bs), IsInjective(from.queue),
           qp.rq = c_qp.rq, Range(c_qp.rq) \subseteq tracked, Range(from.queue) \cap tracked = {},
           \A i \in DOMAIN qp.recv_cq : qp.recv_cq[i].buf \in tracked \ Range(c_qp.rq),
           \A i, j \in DOMAIN qp.recv_cq : qp.recv_cq[i].buf = qp.recv_cq[j].buf => i = j
    PROVE  ClientRecvsPosted'
<1>1. /\ bs \in Seq(ClientBuffer) /\ c_recvs' = tracked \cup Range(bs)
      /\ c_qp'.rq = c_qp.rq \o bs /\ c_qp'.recv_cq = qp.recv_cq
      /\ IsInjective(bs) /\ Range(bs) \subseteq Range(from.queue)
    BY DEF ReceivesMoved
<1>2. c_qp.rq \in Seq(ClientBuffer) /\ IsInjective(c_qp.rq)
    BY DEF ClientTypes, ClientQueues, ClientRecvsPosted
<1>3. Range(c_qp.rq) \cap Range(bs) = {}
    BY <1>1
<1>4. IsInjective(c_qp'.rq) /\ Range(c_qp'.rq) = Range(c_qp.rq) \cup Range(bs)
    BY <1>1, <1>2, <1>3, ApartQueues
<1> QED
    BY <1>1, <1>4 DEF ClientRecvsPosted

\* Connect posts the first receives.
LEMMA FinishConnectClient ==
    ASSUME ClientTypes, FinishConnect
    PROVE  ClientTypes' /\ (Intact(c_pool') => Intact(c_pool)) /\ (ClientOwns => ClientOwns')
<1>1. /\ PostClientRecvs(c_pool, c_recvs, c_qp, ClientRecv)
      /\ UNCHANGED <<ops, sent, completed, c_sends, expected>>
    BY DEF FinishConnect
<1>2. c_pool \in Pools(ClientBuffer) /\ c_qp \in ClientQueues /\ ClientRecv \in Nat
    BY KvBenchmarkAssumption DEF ClientTypes
<1>3. PICK bs : ReceivesMoved(c_pool, c_recvs, c_qp, bs)
    BY <1>1, <1>2, PostClientRecvsMoves
<1>4. Range(bs) \subseteq ClientBuffer
    <2>1. bs \in Seq(ClientBuffer)
        BY <1>3 DEF ReceivesMoved
    <2> QED
        BY <2>1, LenProperties, ElementOfSeq DEF Range
<1>5. ClientTypes'
    BY <1>1, <1>2, <1>3, <1>4 DEF ClientTypes, ReceivesMoved
<1>6. Intact(c_pool') => Intact(c_pool)
    BY <1>3 DEF ReceivesMoved, Intact
<1>7. ASSUME ClientOwns
      PROVE  ClientOwns'
    <2>1. ClientOwnsOnce'
        BY <1>1, <1>2, <1>3, <1>7 DEF ClientOwns, ClientOwnsOnce, ClientFree, ReceivesMoved
    <2>2. ClientRecvsPosted'
        <3>1. ClientOwnsOnce /\ ClientRecvsPosted
            BY <1>7 DEF ClientOwns
        <3> QED
            BY <1>2, <1>3, <3>1, MovedReceives DEF ClientOwnsOnce, ClientFree, ClientRecvsPosted
    <2>3. ClientSendsPosted'
        BY <1>1, <1>3, <1>7 DEF ClientOwns, ClientSendsPosted, ReceivesMoved
    <2> QED
        BY <2>1, <2>2, <2>3 DEF ClientOwns
<1> QED
    BY <1>5, <1>6, <1>7

\* What SendGet and SendPut do when there is a buffer.
RequestPosted(b, wr, m) ==
    /\ b \in ClientBuffer /\ m \in ClientRequest
    /\ wr \in ClientWr /\ wr.seq = sent /\ wr.buf = b /\ wr.msg = m
    /\ c_pool' \in Pools(ClientBuffer) /\ c_pool'.first_back = c_pool.first_back
    /\ IsInjective(c_pool.queue) =>
          /\ b \in ClientFree /\ IsInjective(c_pool'.queue)
          /\ Range(c_pool'.queue) = ClientFree \ {b}
    /\ c_sends' = With(c_sends, sent, b)
    /\ c_qp' \in ClientQueues
    /\ c_qp'.sq = Append(c_qp.sq, wr) /\ c_qp'.rq = c_qp.rq
    /\ c_qp'.send_cq = c_qp.send_cq /\ c_qp'.recv_cq = c_qp.recv_cq
    /\ expected' = Append(expected, m)

\* They post a request from the buffer at the head of the pool.
LEMMA SendRequestPosts ==
    ASSUME ClientTypes, NEW op \in ops, NEW key \in Key, SendRequest(op, key),
           c_pool.queue # << >>
    PROVE  \E b, wr, m : RequestPosted(b, wr, m)
<1> DEFINE b == Head(c_pool.queue)
           m == [op |-> op, key |-> key]
           wr == [seq |-> sent, buf |-> b, msg |-> m, signaled |-> ShouldSignal(c_qp.counters)]
           counters == AfterShouldSignal(c_qp.counters)
<1>1. /\ c_pool' = AfterAllocate(c_pool, 1)
      /\ c_sends' = With(c_sends, sent, b)
      /\ c_qp' = [c_qp EXCEPT !.sq = Append(@, wr), !.counters = counters]
      /\ expected' = Append(expected, m)
    BY DEF SendRequest
<1>2. /\ c_pool \in Pools(ClientBuffer) /\ 1 \in Nat /\ sent \in Nat
      /\ c_qp \in ClientQueues /\ c_qp.counters \in Counters /\ c_qp.sq \in Seq(ClientWr)
    BY DEF ClientTypes, ClientQueues
<1>3. Allocated(c_pool, 1) = <<b>> /\ b \in ClientBuffer /\ Range(<<b>>) = {b}
    BY <1>2, AllocateOne
<1>4. /\ AfterAllocate(c_pool, 1) \in Pools(ClientBuffer)
      /\ AfterAllocate(c_pool, 1).first_back = c_pool.first_back
    BY <1>2, AllocateTakes
<1>5. IsInjective(c_pool.queue) =>
          /\ IsInjective(AfterAllocate(c_pool, 1).queue)
          /\ Range(<<b>>) \subseteq Range(c_pool.queue)
          /\ Range(AfterAllocate(c_pool, 1).queue) = Range(c_pool.queue) \ Range(<<b>>)
    BY <1>2, <1>3, AllocateSplits
<1>6. m \in ClientRequest
    <2>1. ops \in Ops /\ key \in Nat
        BY KvBenchmarkAssumption DEF ClientTypes
    <2>2. op \in {"GET", "PUT"}
        BY <2>1, KvBenchmarkAssumption
    <2> QED
        BY <2>1, <2>2 DEF ClientRequest
<1>7. wr \in ClientWr /\ wr.seq = sent /\ wr.buf = b /\ wr.msg = m
    <2>1. ShouldSignal(c_qp.counters) \in BOOLEAN
        BY DEF ShouldSignal
    <2> QED
        BY <1>2, <1>3, <1>6, <2>1 DEF ClientWr
<1>8. counters \in Counters
    BY <1>2 DEF AfterShouldSignal, Counters
<1> HIDE DEF b, m, wr, counters
<1>9. Append(c_qp.sq, wr) \in Seq(ClientWr)
    BY <1>2, <1>7, AppendProperties
<1>10. /\ c_qp' \in ClientQueues
       /\ c_qp'.sq = Append(c_qp.sq, wr) /\ c_qp'.rq = c_qp.rq
       /\ c_qp'.send_cq = c_qp.send_cq /\ c_qp'.recv_cq = c_qp.recv_cq
    BY <1>1, <1>2, <1>8, <1>9 DEF ClientQueues
<1>11. IsInjective(c_pool.queue) =>
          /\ b \in ClientFree /\ IsInjective(c_pool'.queue)
          /\ Range(c_pool'.queue) = ClientFree \ {b}
    BY <1>1, <1>3, <1>5 DEF ClientFree
<1>12. RequestPosted(b, wr, m)
    BY <1>1, <1>3, <1>4, <1>6, <1>7, <1>10, <1>11 DEF RequestPosted
<1> QED
    BY <1>12

\* The request is tracked under a number that no other request has.
LEMMA PostedOwns ==
    ASSUME ClientTypes, ClientOwns, sent' = sent + 1, c_recvs' = c_recvs,
           NEW b, NEW wr, NEW m, RequestPosted(b, wr, m)
    PROVE  ClientOwns'
<1> USE DEF ClientOwns
<1> DEFINE sq == Append(c_qp.sq, wr)
           L == Len(c_qp.sq)
<1>1. /\ wr \in ClientWr /\ wr.seq = sent /\ wr.buf = b /\ b \in ClientBuffer
      /\ c_qp'.sq = sq /\ c_qp'.rq = c_qp.rq
      /\ c_qp'.send_cq = c_qp.send_cq /\ c_qp'.recv_cq = c_qp.recv_cq
      /\ c_sends' = With(c_sends, sent, b)
      /\ b \in ClientFree /\ IsInjective(c_pool'.queue) /\ ClientFree' = ClientFree \ {b}
    BY DEF RequestPosted, ClientOwnsOnce, ClientFree
<1>2. sent \in Nat /\ c_qp.sq \in Seq(ClientWr) /\ c_qp.send_cq \in Seq(Nat)
    BY DEF ClientTypes, ClientQueues
<1>3. /\ sq \in Seq(ClientWr) /\ L \in Nat /\ DOMAIN c_qp.sq = 1 .. L
      /\ DOMAIN sq = 1 .. L + 1
      /\ \A i \in 1 .. L : sq[i] = c_qp.sq[i]
      /\ sq[L + 1] = wr
    BY <1>1, <1>2, AppendProperties, LenProperties
<1> HIDE DEF sq, L
<1>4. /\ DOMAIN c_sends' = DOMAIN c_sends \cup {sent}
      /\ c_sends'[sent] = b
      /\ \A n \in DOMAIN c_sends : n < sent /\ n # sent /\ c_sends'[n] = c_sends[n]
    BY <1>1, <1>2 DEF With, ClientTypes
<1>5. ClientOwnsOnce'
    <2>1. \A n \in DOMAIN c_sends : c_sends[n] # b
        BY <1>1 DEF ClientOwnsOnce
    <2> QED
        BY <1>1, <1>4, <2>1 DEF ClientOwnsOnce
<1>6. ClientRecvsPosted'
    BY <1>1 DEF ClientRecvsPosted
<1>7. ClientSendsPosted'
    <2>1. ASSUME NEW i \in 1 .. L
          PROVE  /\ c_qp.sq[i].seq \in DOMAIN c_sends
                 /\ c_sends[c_qp.sq[i].seq] = c_qp.sq[i].buf
                 /\ c_qp.sq[i].seq < sent
        BY <1>3, <1>4 DEF ClientSendsPosted
    <2>2. ASSUME NEW i \in 1 .. L + 1
          PROVE  sq[i].seq \in DOMAIN c_sends' /\ c_sends'[sq[i].seq] = sq[i].buf
        <3>1. CASE i \in 1 .. L
            BY <1>3, <1>4, <2>1, <3>1
        <3>2. CASE i = L + 1
            BY <1>1, <1>3, <1>4, <3>2
        <3> QED
            BY <1>3, <3>1, <3>2
    <2>3. ASSUME NEW i \in 1 .. L + 1, NEW j \in 1 .. L + 1, sq[i].seq = sq[j].seq
          PROVE  i = j
        <3>1. \A k \in 1 .. L : sq[k].seq # sent
            BY <1>3, <1>4, <2>1
        <3>2. \A k \in 1 .. L + 1 : k \in 1 .. L \/ k = L + 1
            BY <1>3
        <3>3. \A k, l \in 1 .. L : sq[k].seq = sq[l].seq => k = l
            BY <1>3 DEF ClientSendsPosted
        <3> QED
            BY <1>1, <1>3, <2>3, <3>1, <3>2, <3>3
    <2>4. ASSUME NEW i \in DOMAIN c_qp.send_cq
          PROVE  /\ c_qp.send_cq[i] < sent'
                 /\ \A j \in 1 .. L + 1 : sq[j].seq # c_qp.send_cq[i]
        <3>1. c_qp.send_cq[i] \in Nat /\ c_qp.send_cq[i] < sent
            BY <1>2, LenProperties, ElementOfSeq DEF ClientSendsPosted
        <3>2. \A j \in 1 .. L : sq[j].seq # c_qp.send_cq[i]
            BY <1>3 DEF ClientSendsPosted
        <3>3. \A k \in 1 .. L + 1 : k \in 1 .. L \/ k = L + 1
            BY <1>3
        <3> QED
            BY <1>1, <1>2, <1>3, <3>1, <3>2, <3>3
    <2> QED
        BY <1>1, <1>3, <2>2, <2>3, <2>4 DEF ClientSendsPosted
<1> QED
    BY <1>5, <1>6, <1>7

\* SendGet and SendPut take a buffer from the pool, if there is one.
LEMMA SendRequestClient ==
    ASSUME ClientTypes, NEW op \in ops, NEW key \in Key, SendRequest(op, key)
    PROVE  ClientTypes' /\ (Intact(c_pool') => Intact(c_pool)) /\ (ClientOwns => ClientOwns')
<1>1. sent' = sent + 1 /\ UNCHANGED <<ops, completed, c_recvs>> /\ sent \in Nat
    BY DEF SendRequest, ClientTypes
<1>2. CASE c_pool.queue = << >>
    <2>1. UNCHANGED <<c_pool, c_sends, c_qp, expected>>
        BY <1>2 DEF SendRequest
    <2>2. ClientTypes'
        <3>1. \A n \in DOMAIN c_sends : n \in Nat /\ n < sent + 1
            BY <1>1 DEF ClientTypes
        <3> QED
            BY <1>1, <2>1, <3>1 DEF ClientTypes
    <2>3. ASSUME ClientOwns
          PROVE  ClientOwns'
        <3>1. ClientOwnsOnce' /\ ClientRecvsPosted'
            BY <1>1, <2>1, <2>3 DEF ClientOwns, ClientOwnsOnce, ClientRecvsPosted, ClientFree
        <3>2. c_qp.send_cq \in Seq(Nat)
            BY DEF ClientTypes, ClientQueues
        <3>3. \A i \in DOMAIN c_qp.send_cq : c_qp.send_cq[i] < sent + 1
            <4>1. \A i \in DOMAIN c_qp.send_cq : c_qp.send_cq[i] \in Nat
                BY <3>2, LenProperties, ElementOfSeq
            <4> QED
                BY <1>1, <2>3, <4>1 DEF ClientOwns, ClientSendsPosted
        <3>4. ClientSendsPosted'
            BY <1>1, <2>1, <2>3, <3>3 DEF ClientOwns, ClientSendsPosted
        <3> QED
            BY <3>1, <3>4 DEF ClientOwns
    <2> QED
        BY <2>1, <2>2, <2>3
<1>3. CASE c_pool.queue # << >>
    <2>1. PICK b, wr, m : RequestPosted(b, wr, m)
        BY <1>3, SendRequestPosts
    <2>2. /\ b \in ClientBuffer /\ c_pool' \in Pools(ClientBuffer) /\ c_qp' \in ClientQueues
          /\ expected' = Append(expected, m) /\ m \in ClientRequest
          /\ c_sends' = With(c_sends, sent, b) /\ c_pool'.first_back = c_pool.first_back
        BY <2>1 DEF RequestPosted
    <2>3. /\ DOMAIN c_sends' = DOMAIN c_sends \cup {sent}
          /\ c_sends'[sent] = b
          /\ \A n \in DOMAIN c_sends : n < sent /\ n # sent /\ c_sends'[n] = c_sends[n]
        BY <1>1, <2>2 DEF With, ClientTypes
    <2>4. expected' \in Seq(ClientRequest)
        BY <2>2, AppendProperties DEF ClientTypes
    <2>5. \A n \in DOMAIN c_sends' : n \in Nat /\ n < sent' /\ c_sends'[n] \in ClientBuffer
        BY <1>1, <2>2, <2>3 DEF ClientTypes
    <2>6. ClientTypes'
        BY <1>1, <2>2, <2>4, <2>5 DEF ClientTypes
    <2> QED
        BY <1>1, <2>1, <2>2, <2>6, PostedOwns DEF Intact
<1> QED
    BY <1>2, <1>3

\* What FreeSends has come to after each completion.
SendsFreedSoFar(after, n) ==
    /\ FreeSends(n) = after[n]
    /\ after[0] = [pool |-> c_pool, sends |-> c_sends]
    /\ \A i \in Nat : i + 1 <= n =>
          after[i + 1] = IF c_qp.send_cq[i + 1] \in DOMAIN after[i].sends
                         THEN [pool |-> AfterFree(after[i].pool, after[i].sends[c_qp.send_cq[i + 1]]),
                               sends |-> Without(after[i].sends, c_qp.send_cq[i + 1])]
                         ELSE after[i]

\* FreeSends takes the completions one by one.
LEMMA FreeSendsRecursion ==
    ASSUME NEW n \in Nat
    PROVE  \E after : SendsFreedSoFar(after, n)
<1> DEFINE Step(F, i) == IF i = 0 THEN [pool |-> c_pool, sends |-> c_sends]
                         ELSE IF c_qp.send_cq[i] \in DOMAIN F[i - 1].sends
                         THEN [pool |-> AfterFree(F[i - 1].pool, F[i - 1].sends[c_qp.send_cq[i]]),
                               sends |-> Without(F[i - 1].sends, c_qp.send_cq[i])]
                         ELSE F[i - 1]
           after == CHOOSE F : F = [i \in 0 .. n |-> Step(F, i)]
<1>2. FreeSends(n) = after[n]
    BY DEF FreeSends
<1>3. \A k \in Nat : \E F : F = [i \in 0 .. k |-> Step(F, i)]
    <2> DEFINE N == {k \in Nat : \E F : F = [i \in 0 .. k |-> Step(F, i)]}
    <2>1. 0 \in N
        <3> DEFINE F == [i \in 0 .. 0 |-> [pool |-> c_pool, sends |-> c_sends]]
        <3>1. F = [i \in 0 .. 0 |-> Step(F, i)]
            OBVIOUS
        <3>2. \E H : H = [i \in 0 .. 0 |-> Step(H, i)]
            <4> HIDE DEF Step, F
            <4> QED
                BY <3>1
        <3> HIDE DEF Step
        <3> QED
            BY <3>2
    <2>2. ASSUME NEW k \in Nat, k \in N
          PROVE  k + 1 \in N
        <3>1. PICK F : F = [i \in 0 .. k |-> Step(F, i)]
            BY <2>2
        <3> DEFINE G == [i \in 0 .. k + 1 |-> IF i = k + 1 THEN Step(F, i) ELSE F[i]]
        <3>2. ASSUME NEW i \in 0 .. k + 1
              PROVE  G[i] = Step(G, i)
            <4>1. CASE i = 0
                BY <3>1, <4>1
            <4>2. CASE i # 0
                <5>1. i - 1 \in 0 .. k /\ i - 1 # k + 1 /\ i - 1 \in 0 .. k + 1
                    BY <4>2
                <5>2. G[i - 1] = F[i - 1]
                    BY <5>1
                <5>3. G[i] = Step(F, i)
                    <6> HIDE DEF Step
                    <6>1. CASE i = k + 1
                        BY <6>1
                    <6>2. CASE i # k + 1
                        <7>1. i \in 0 .. k /\ G[i] = F[i]
                            BY <6>2
                        <7>2. F[i] = [j \in 0 .. k |-> Step(F, j)][i]
                            BY <3>1
                        <7> QED
                            BY <7>1, <7>2
                    <6> QED
                        BY <6>1, <6>2
                <5> HIDE DEF G
                <5> QED
                    BY <4>2, <5>2, <5>3
            <4> QED
                BY <4>1, <4>2
        <3>3. G = [i \in 0 .. k + 1 |-> Step(G, i)]
            <4> HIDE DEF Step
            <4> QED
                BY <3>2
        <3>4. \E H : H = [i \in 0 .. k + 1 |-> Step(H, i)]
            <4> HIDE DEF Step, G
            <4> QED
                BY <3>3
        <3> HIDE DEF Step, G
        <3> QED
            BY <3>4
    <2> HIDE DEF N
    <2>3. Nat \subseteq N
        BY <2>1, <2>2, NatSetInduction
    <2> QED
        BY <2>3 DEF N
<1>4. after = [i \in 0 .. n |-> Step(after, i)]
    <2>1. \E F : F = [i \in 0 .. n |-> Step(F, i)]
        BY <1>3
    <2> HIDE DEF Step
    <2> QED
        BY <2>1
<1> HIDE DEF after
<1>5. after[0] = [pool |-> c_pool, sends |-> c_sends]
    BY <1>4
<1>6. ASSUME NEW i \in Nat, i + 1 <= n
      PROVE  after[i + 1] = IF c_qp.send_cq[i + 1] \in DOMAIN after[i].sends
                            THEN [pool |-> AfterFree(after[i].pool, after[i].sends[c_qp.send_cq[i + 1]]),
                               sends |-> Without(after[i].sends, c_qp.send_cq[i + 1])]
                            ELSE after[i]
    <2>1. i + 1 \in 0 .. n
        BY <1>6
    <2>2. after[i + 1] = [j \in 0 .. n |-> Step(after, j)][i + 1]
        BY <1>4
    <2>3. after[i + 1] = Step(after, i + 1)
        <3> HIDE DEF Step
        <3> QED
            BY <2>1, <2>2
    <2>4. i + 1 # 0 /\ (i + 1) - 1 = i
        OBVIOUS
    <2> QED
        BY <2>3, <2>4
<1> HIDE DEF Step
<1>7. SendsFreedSoFar(after, n)
    BY <1>2, <1>5, <1>6 DEF SendsFreedSoFar
<1> QED
    BY <1>7

\* The numbers of the requests whose buffers the first n send completions free.
SendsDone(n) == {c_qp.send_cq[i] : i \in 1 .. n} \cap DOMAIN c_sends

\* What the loop over n send completions leaves.
SendsFreed(x, n) ==
    /\ x.pool \in Pools(ClientBuffer)
    /\ DOMAIN x.sends = DOMAIN c_sends \ SendsDone(n)
    /\ \A k \in DOMAIN x.sends : x.sends[k] = c_sends[k]
    /\ Intact(x.pool) =>
          /\ Intact(c_pool)
          /\ ClientOwnsOnce =>
                /\ IsInjective(x.pool.queue)
                /\ Range(x.pool.queue) = ClientFree \cup {c_sends[k] : k \in SendsDone(n)}

\* One send completion.
LEMMA SendFreed ==
    ASSUME ClientTypes, NEW n \in Nat, NEW x, SendsFreed(x, n), NEW seq,
           seq = c_qp.send_cq[n + 1], seq \in DOMAIN x.sends,
           NEW y, y = [pool |-> AfterFree(x.pool, x.sends[seq]), sends |-> Without(x.sends, seq)]
    PROVE  SendsFreed(y, n + 1)
<1> DEFINE b == c_sends[seq]
<1>1. seq \in DOMAIN c_sends /\ seq \notin SendsDone(n) /\ x.sends[seq] = b /\ b \in ClientBuffer
    BY DEF SendsFreed, ClientTypes
<1>2. SendsDone(n + 1) = SendsDone(n) \cup {seq}
    <2>1. 1 .. n + 1 = (1 .. n) \cup {n + 1}
        OBVIOUS
    <2> QED
        BY <1>1, <2>1 DEF SendsDone
<1>3. y.pool = AfterFree(x.pool, b) /\ y.sends = Without(x.sends, seq)
    BY <1>1
<1>4. /\ DOMAIN y.sends = DOMAIN c_sends \ SendsDone(n + 1)
      /\ \A k \in DOMAIN y.sends : y.sends[k] = c_sends[k]
    BY <1>2, <1>3 DEF Without, SendsFreed
<1>5. /\ y.pool \in Pools(ClientBuffer)
      /\ Intact(y.pool) => Intact(x.pool) /\ y.pool.queue = Append(x.pool.queue, b)
    BY <1>1, <1>3, FreeAdds, ClientBuffersNumbered DEF SendsFreed
<1>6. ASSUME Intact(y.pool), ClientOwnsOnce
      PROVE  /\ IsInjective(y.pool.queue)
             /\ Range(y.pool.queue) = ClientFree \cup {c_sends[k] : k \in SendsDone(n + 1)}
    <2>1. /\ IsInjective(x.pool.queue) /\ x.pool.queue \in Seq(ClientBuffer)
          /\ Range(x.pool.queue) = ClientFree \cup {c_sends[k] : k \in SendsDone(n)}
        BY <1>5, <1>6 DEF SendsFreed, Pools
    <2>2. b \notin ClientFree /\ \A k \in SendsDone(n) : c_sends[k] # b
        BY <1>1, <1>6 DEF ClientOwnsOnce, SendsDone
    <2>3. b \notin Range(x.pool.queue)
        BY <2>1, <2>2
    <2> HIDE DEF b
    <2>4. IsInjective(y.pool.queue) /\ Range(y.pool.queue) = Range(x.pool.queue) \cup {b}
        <3>1. x.pool.queue \in Seq(ClientBuffer) /\ IsInjective(x.pool.queue) /\ b \in ClientBuffer
            BY <1>1, <2>1
        <3>2. /\ IsInjective(Append(x.pool.queue, b))
              /\ Range(Append(x.pool.queue, b)) = Range(x.pool.queue) \cup {b}
            BY <2>3, <3>1, QueueAsSet
        <3>3. y.pool.queue = Append(x.pool.queue, b)
            BY <1>5, <1>6
        <3> QED
            BY <3>2, <3>3
    <2> QED
        BY <1>2, <2>1, <2>4 DEF b
<1>7. Intact(y.pool) => Intact(c_pool)
    BY <1>5 DEF SendsFreed
<1> QED
    BY <1>4, <1>5, <1>6, <1>7 DEF SendsFreed

\* The loop over the send completions.
LEMMA FreeSendsFrees ==
    ASSUME ClientTypes, NEW n \in Nat
    PROVE  SendsFreed(FreeSends(n), n)
<1>1. PICK after : SendsFreedSoFar(after, n)
    BY FreeSendsRecursion
<1>2. /\ FreeSends(n) = after[n]
      /\ after[0] = [pool |-> c_pool, sends |-> c_sends]
      /\ \A i \in Nat : i + 1 <= n =>
            after[i + 1] = IF c_qp.send_cq[i + 1] \in DOMAIN after[i].sends
                           THEN [pool |-> AfterFree(after[i].pool, after[i].sends[c_qp.send_cq[i + 1]]),
                                 sends |-> Without(after[i].sends, c_qp.send_cq[i + 1])]
                           ELSE after[i]
    BY <1>1 DEF SendsFreedSoFar
<1> DEFINE N == {i \in Nat : i <= n => SendsFreed(after[i], i)}
<1>3. 0 \in N
    <2>1. after[0].pool = c_pool /\ after[0].sends = c_sends
        BY <1>2
    <2>2. SendsDone(0) = {}
        BY DEF SendsDone
    <2> QED
        BY <2>1, <2>2 DEF SendsFreed, ClientTypes, ClientOwnsOnce, ClientFree
<1>4. ASSUME NEW i \in Nat, i \in N
      PROVE  i + 1 \in N
    <2> SUFFICES ASSUME i + 1 <= n
                 PROVE  SendsFreed(after[i + 1], i + 1)
        OBVIOUS
    <2>1. SendsFreed(after[i], i)
        BY <1>4
    <2>2. CASE c_qp.send_cq[i + 1] \in DOMAIN after[i].sends
        BY <1>2, <2>1, <2>2, SendFreed
    <2>3. CASE c_qp.send_cq[i + 1] \notin DOMAIN after[i].sends
        <3>1. after[i + 1] = after[i]
            BY <1>2, <2>3
        <3>2. 1 .. i + 1 = (1 .. i) \cup {i + 1}
            OBVIOUS
        <3>3. SendsDone(i + 1) = SendsDone(i)
            BY <2>1, <2>3, <3>2 DEF SendsDone, SendsFreed
        <3> QED
            BY <2>1, <3>1, <3>3 DEF SendsFreed
    <2> QED
        BY <2>2, <2>3
<1> HIDE DEF N
<1>5. Nat \subseteq N
    BY <1>3, <1>4, NatSetInduction
<1> QED
    BY <1>2, <1>5 DEF N

\* What FreeReceives has come to after each completion.
ReceivesFreedSoFar(after, n) ==
    /\ FreeReceives(n) = after[n]
    /\ after[0] = [pool |-> c_pool, recvs |-> c_recvs]
    /\ \A i \in Nat : i + 1 <= n =>
          after[i + 1] = IF c_qp.recv_cq[i + 1].buf \in after[i].recvs
                         THEN [pool |-> AfterFree(after[i].pool, c_qp.recv_cq[i + 1].buf),
                               recvs |-> after[i].recvs \ {c_qp.recv_cq[i + 1].buf}]
                         ELSE after[i]

\* FreeReceives takes the completions one by one.
LEMMA FreeReceivesRecursion ==
    ASSUME NEW n \in Nat
    PROVE  \E after : ReceivesFreedSoFar(after, n)
<1> DEFINE Step(F, i) == IF i = 0 THEN [pool |-> c_pool, recvs |-> c_recvs]
                         ELSE IF c_qp.recv_cq[i].buf \in F[i - 1].recvs
                         THEN [pool |-> AfterFree(F[i - 1].pool, c_qp.recv_cq[i].buf),
                               recvs |-> F[i - 1].recvs \ {c_qp.recv_cq[i].buf}]
                         ELSE F[i - 1]
           after == CHOOSE F : F = [i \in 0 .. n |-> Step(F, i)]
<1>2. FreeReceives(n) = after[n]
    BY DEF FreeReceives
<1>3. \A k \in Nat : \E F : F = [i \in 0 .. k |-> Step(F, i)]
    <2> DEFINE N == {k \in Nat : \E F : F = [i \in 0 .. k |-> Step(F, i)]}
    <2>1. 0 \in N
        <3> DEFINE F == [i \in 0 .. 0 |-> [pool |-> c_pool, recvs |-> c_recvs]]
        <3>1. F = [i \in 0 .. 0 |-> Step(F, i)]
            OBVIOUS
        <3>2. \E H : H = [i \in 0 .. 0 |-> Step(H, i)]
            <4> HIDE DEF Step, F
            <4> QED
                BY <3>1
        <3> HIDE DEF Step
        <3> QED
            BY <3>2
    <2>2. ASSUME NEW k \in Nat, k \in N
          PROVE  k + 1 \in N
        <3>1. PICK F : F = [i \in 0 .. k |-> Step(F, i)]
            BY <2>2
        <3> DEFINE G == [i \in 0 .. k + 1 |-> IF i = k + 1 THEN Step(F, i) ELSE F[i]]
        <3>2. ASSUME NEW i \in 0 .. k + 1
              PROVE  G[i] = Step(G, i)
            <4>1. CASE i = 0
                BY <3>1, <4>1
            <4>2. CASE i # 0
                <5>1. i - 1 \in 0 .. k /\ i - 1 # k + 1 /\ i - 1 \in 0 .. k + 1
                    BY <4>2
                <5>2. G[i - 1] = F[i - 1]
                    BY <5>1
                <5>3. G[i] = Step(F, i)
                    <6> HIDE DEF Step
                    <6>1. CASE i = k + 1
                        BY <6>1
                    <6>2. CASE i # k + 1
                        <7>1. i \in 0 .. k /\ G[i] = F[i]
                            BY <6>2
                        <7>2. F[i] = [j \in 0 .. k |-> Step(F, j)][i]
                            BY <3>1
                        <7> QED
                            BY <7>1, <7>2
                    <6> QED
                        BY <6>1, <6>2
                <5> HIDE DEF G
                <5> QED
                    BY <4>2, <5>2, <5>3
            <4> QED
                BY <4>1, <4>2
        <3>3. G = [i \in 0 .. k + 1 |-> Step(G, i)]
            <4> HIDE DEF Step
            <4> QED
                BY <3>2
        <3>4. \E H : H = [i \in 0 .. k + 1 |-> Step(H, i)]
            <4> HIDE DEF Step, G
            <4> QED
                BY <3>3
        <3> HIDE DEF Step, G
        <3> QED
            BY <3>4
    <2> HIDE DEF N
    <2>3. Nat \subseteq N
        BY <2>1, <2>2, NatSetInduction
    <2> QED
        BY <2>3 DEF N
<1>4. after = [i \in 0 .. n |-> Step(after, i)]
    <2>1. \E F : F = [i \in 0 .. n |-> Step(F, i)]
        BY <1>3
    <2> HIDE DEF Step
    <2> QED
        BY <2>1
<1> HIDE DEF after
<1>5. after[0] = [pool |-> c_pool, recvs |-> c_recvs]
    BY <1>4
<1>6. ASSUME NEW i \in Nat, i + 1 <= n
      PROVE  after[i + 1] = IF c_qp.recv_cq[i + 1].buf \in after[i].recvs
                            THEN [pool |-> AfterFree(after[i].pool, c_qp.recv_cq[i + 1].buf),
                               recvs |-> after[i].recvs \ {c_qp.recv_cq[i + 1].buf}]
                            ELSE after[i]
    <2>1. i + 1 \in 0 .. n
        BY <1>6
    <2>2. after[i + 1] = [j \in 0 .. n |-> Step(after, j)][i + 1]
        BY <1>4
    <2>3. after[i + 1] = Step(after, i + 1)
        <3> HIDE DEF Step
        <3> QED
            BY <2>1, <2>2
    <2>4. i + 1 # 0 /\ (i + 1) - 1 = i
        OBVIOUS
    <2> QED
        BY <2>3, <2>4
<1> HIDE DEF Step
<1>7. ReceivesFreedSoFar(after, n)
    BY <1>2, <1>5, <1>6 DEF ReceivesFreedSoFar
<1> QED
    BY <1>7

\* The buffers that the first n responses free.
ReceivesDone(n) == {c_qp.recv_cq[i].buf : i \in 1 .. n} \cap c_recvs

\* What the loop over n responses leaves.
ReceivesFreed(x, n) ==
    /\ x.pool \in Pools(ClientBuffer)
    /\ x.recvs = c_recvs \ ReceivesDone(n)
    /\ Intact(x.pool) =>
          /\ Intact(c_pool)
          /\ ClientOwnsOnce =>
                /\ IsInjective(x.pool.queue)
                /\ Range(x.pool.queue) = ClientFree \cup ReceivesDone(n)

\* One response.
LEMMA ReceiveFreed ==
    ASSUME ClientTypes, NEW n \in Nat, NEW x, ReceivesFreed(x, n), NEW b,
           b = c_qp.recv_cq[n + 1].buf, b \in x.recvs,
           NEW y, y = [pool |-> AfterFree(x.pool, b), recvs |-> x.recvs \ {b}]
    PROVE  ReceivesFreed(y, n + 1)
<1>1. b \in c_recvs /\ b \notin ReceivesDone(n) /\ b \in ClientBuffer
    BY DEF ReceivesFreed, ClientTypes
<1>2. ReceivesDone(n + 1) = ReceivesDone(n) \cup {b}
    <2>1. 1 .. n + 1 = (1 .. n) \cup {n + 1}
        OBVIOUS
    <2> QED
        BY <1>1, <2>1 DEF ReceivesDone
<1>3. y.pool = AfterFree(x.pool, b) /\ y.recvs = c_recvs \ ReceivesDone(n + 1)
    BY <1>2 DEF ReceivesFreed
<1>4. /\ y.pool \in Pools(ClientBuffer)
      /\ Intact(y.pool) => Intact(x.pool) /\ y.pool.queue = Append(x.pool.queue, b)
    BY <1>1, <1>3, FreeAdds, ClientBuffersNumbered DEF ReceivesFreed
<1>5. ASSUME Intact(y.pool), ClientOwnsOnce
      PROVE  /\ IsInjective(y.pool.queue)
             /\ Range(y.pool.queue) = ClientFree \cup ReceivesDone(n + 1)
    <2>1. /\ IsInjective(x.pool.queue) /\ x.pool.queue \in Seq(ClientBuffer)
          /\ Range(x.pool.queue) = ClientFree \cup ReceivesDone(n)
        BY <1>4, <1>5 DEF ReceivesFreed, Pools
    <2>2. b \notin ClientFree
        BY <1>1, <1>5 DEF ClientOwnsOnce
    <2>3. b \notin Range(x.pool.queue)
        BY <1>1, <2>1, <2>2
    <2>4. IsInjective(y.pool.queue) /\ Range(y.pool.queue) = Range(x.pool.queue) \cup {b}
        <3>1. x.pool.queue \in Seq(ClientBuffer) /\ IsInjective(x.pool.queue) /\ b \in ClientBuffer
            BY <1>1, <2>1
        <3>2. /\ IsInjective(Append(x.pool.queue, b))
              /\ Range(Append(x.pool.queue, b)) = Range(x.pool.queue) \cup {b}
            BY <2>3, <3>1, QueueAsSet
        <3>3. y.pool.queue = Append(x.pool.queue, b)
            BY <1>4, <1>5
        <3> QED
            BY <3>2, <3>3
    <2> QED
        BY <1>2, <2>1, <2>4
<1>6. Intact(y.pool) => Intact(c_pool)
    BY <1>4 DEF ReceivesFreed
<1> QED
    BY <1>3, <1>4, <1>5, <1>6 DEF ReceivesFreed

\* The loop over the responses.
LEMMA FreeReceivesFrees ==
    ASSUME ClientTypes, NEW n \in Nat
    PROVE  ReceivesFreed(FreeReceives(n), n)
<1>1. PICK after : ReceivesFreedSoFar(after, n)
    BY FreeReceivesRecursion
<1>2. /\ FreeReceives(n) = after[n]
      /\ after[0] = [pool |-> c_pool, recvs |-> c_recvs]
      /\ \A i \in Nat : i + 1 <= n =>
            after[i + 1] = IF c_qp.recv_cq[i + 1].buf \in after[i].recvs
                           THEN [pool |-> AfterFree(after[i].pool, c_qp.recv_cq[i + 1].buf),
                                 recvs |-> after[i].recvs \ {c_qp.recv_cq[i + 1].buf}]
                           ELSE after[i]
    BY <1>1 DEF ReceivesFreedSoFar
<1> DEFINE N == {i \in Nat : i <= n => ReceivesFreed(after[i], i)}
<1>3. 0 \in N
    <2>1. after[0].pool = c_pool /\ after[0].recvs = c_recvs
        BY <1>2
    <2>2. ReceivesDone(0) = {}
        BY DEF ReceivesDone
    <2> QED
        BY <2>1, <2>2 DEF ReceivesFreed, ClientTypes, ClientOwnsOnce, ClientFree
<1>4. ASSUME NEW i \in Nat, i \in N
      PROVE  i + 1 \in N
    <2> SUFFICES ASSUME i + 1 <= n
                 PROVE  ReceivesFreed(after[i + 1], i + 1)
        OBVIOUS
    <2>1. ReceivesFreed(after[i], i)
        BY <1>4
    <2>2. CASE c_qp.recv_cq[i + 1].buf \in after[i].recvs
        BY <1>2, <2>1, <2>2, ReceiveFreed
    <2>3. CASE c_qp.recv_cq[i + 1].buf \notin after[i].recvs
        <3>1. after[i + 1] = after[i]
            BY <1>2, <2>3
        <3>2. 1 .. i + 1 = (1 .. i) \cup {i + 1}
            OBVIOUS
        <3>3. ReceivesDone(i + 1) = ReceivesDone(i)
            BY <2>1, <2>3, <3>2 DEF ReceivesDone, ReceivesFreed
        <3> QED
            BY <2>1, <3>1, <3>3 DEF ReceivesFreed
    <2> QED
        BY <2>2, <2>3
<1> HIDE DEF N
<1>5. Nat \subseteq N
    BY <1>3, <1>4, NatSetInduction
<1> QED
    BY <1>2, <1>5 DEF N

\* One call of Poll on a completion queue takes what is there, up to the size
\* of wc_buffer.
LEMMA TakenType ==
    ASSUME NEW S, NEW s \in Seq(S)
    PROVE  Taken(s) \in 0 .. Len(s)
<1>1. Len(s) \in Nat /\ ClientBatch \in Nat
    BY LenProperties, KvBenchmarkAssumption
<1> QED
    BY <1>1 DEF Taken

\* The send completions that are polled free the buffers of their requests.
LEMMA PollSendsClient ==
    ASSUME ClientTypes, PollSends
    PROVE  ClientTypes' /\ (Intact(c_pool') => Intact(c_pool) /\ (ClientOwns => ClientOwns'))
<1> DEFINE q == c_qp.send_cq
           n == Taken(q)
           seqs == SendsDone(n)
           rest == SubSeq(q, n + 1, Len(q))
<1>1. /\ c_pool' = FreeSends(n).pool /\ c_sends' = FreeSends(n).sends
      /\ c_qp' = [c_qp EXCEPT !.send_cq = rest]
      /\ UNCHANGED <<ops, sent, completed, c_recvs, expected>>
    BY DEF PollSends
<1>2. c_qp \in ClientQueues /\ q \in Seq(Nat)
    BY DEF ClientTypes, ClientQueues
<1>3. n \in 0 .. Len(q) /\ Len(q) \in Nat /\ DOMAIN q = 1 .. Len(q) /\ n \in Nat
    BY <1>2, TakenType, LenProperties
<1> HIDE DEF n
<1>4. /\ rest \in Seq(Nat) /\ DOMAIN rest = 1 .. Len(q) - n
      /\ \A i \in 1 .. Len(q) - n : n + i \in DOMAIN q /\ rest[i] = q[n + i]
    BY <1>2, <1>3, RestOfQueue
<1>5. SendsFreed(FreeSends(n), n)
    BY <1>3, FreeSendsFrees
<1>6. ClientSendsPosted => \A j \in DOMAIN c_qp.sq : c_qp.sq[j].seq \notin seqs
    BY <1>3 DEF ClientSendsPosted, SendsDone
<1>7. seqs \subseteq DOMAIN c_sends
    BY DEF SendsDone
<1> HIDE DEF seqs, rest
<1>8. /\ c_qp' \in ClientQueues /\ c_qp'.sq = c_qp.sq /\ c_qp'.rq = c_qp.rq
      /\ c_qp'.send_cq = rest /\ c_qp'.recv_cq = c_qp.recv_cq
    BY <1>1, <1>2, <1>4 DEF ClientQueues
<1>9. /\ DOMAIN c_sends' = DOMAIN c_sends \ seqs
      /\ \A i \in DOMAIN c_sends \ seqs : c_sends'[i] = c_sends[i]
      /\ c_pool' \in Pools(ClientBuffer)
      /\ Intact(c_pool') => Intact(c_pool)
    BY <1>1, <1>5 DEF SendsFreed, seqs
<1>10. ClientTypes'
    BY <1>1, <1>8, <1>9 DEF ClientTypes
<1>11. ASSUME Intact(c_pool'), ClientOwns
       PROVE  ClientOwns'
    <2>0. ClientOwnsOnce /\ ClientRecvsPosted /\ ClientSendsPosted
        BY <1>11 DEF ClientOwns
    <2>1. IsInjective(c_pool'.queue) /\ ClientFree' = ClientFree \cup {c_sends[i] : i \in seqs}
        BY <1>1, <1>5, <1>11, <2>0 DEF SendsFreed, seqs, ClientFree
    <2>2. ClientOwnsOnce'
        <3>1. ClientFree' \cap c_recvs' = {}
            BY <1>1, <1>7, <2>0, <2>1 DEF ClientOwnsOnce
        <3>2. ASSUME NEW i \in DOMAIN c_sends'
              PROVE  c_sends'[i] \notin ClientFree' \cup c_recvs'
            <4>1. i \in DOMAIN c_sends /\ i \notin seqs /\ c_sends'[i] = c_sends[i]
                BY <1>9
            <4>2. \A j \in seqs : c_sends[j] # c_sends[i]
                BY <1>7, <2>0, <4>1 DEF ClientOwnsOnce
            <4> QED
                BY <1>1, <2>0, <2>1, <4>1, <4>2 DEF ClientOwnsOnce
        <3>3. \A i, j \in DOMAIN c_sends' : c_sends'[i] = c_sends'[j] => i = j
            BY <1>9, <2>0 DEF ClientOwnsOnce
        <3>4. ASSUME NEW b \in ClientBuffer
              PROVE  b \in ClientFree' \cup c_recvs' \/ \E i \in DOMAIN c_sends' : c_sends'[i] = b
            <4>1. CASE b \in ClientFree \cup c_recvs
                BY <1>1, <2>1, <4>1
            <4>2. ASSUME NEW i \in DOMAIN c_sends, c_sends[i] = b
                  PROVE  b \in ClientFree' \/ \E j \in DOMAIN c_sends' : c_sends'[j] = b
                <5>1. CASE i \in seqs
                    BY <2>1, <4>2, <5>1
                <5>2. CASE i \notin seqs
                    BY <1>9, <4>2, <5>2
                <5> QED
                    BY <5>1, <5>2
            <4> QED
                BY <2>0, <4>1, <4>2 DEF ClientOwnsOnce
        <3> QED
            BY <2>1, <3>1, <3>2, <3>3, <3>4 DEF ClientOwnsOnce
    <2>3. ClientRecvsPosted'
        BY <1>1, <1>8, <2>0 DEF ClientRecvsPosted
    <2>4. ClientSendsPosted'
        <3>1. \A i \in DOMAIN c_qp.sq : /\ c_qp.sq[i].seq \in DOMAIN c_sends'
                                        /\ c_sends'[c_qp.sq[i].seq] = c_qp.sq[i].buf
            BY <1>6, <1>9, <2>0 DEF ClientSendsPosted
        <3>2. \A i \in DOMAIN rest :
                  rest[i] < sent /\ \A j \in DOMAIN c_qp.sq : c_qp.sq[j].seq # rest[i]
            BY <1>4, <2>0 DEF ClientSendsPosted
        <3> QED
            BY <1>1, <1>8, <2>0, <3>1, <3>2 DEF ClientSendsPosted
    <2> QED
        BY <2>2, <2>3, <2>4 DEF ClientOwns
<1> QED
    BY <1>9, <1>10, <1>11

\* The responses that are polled return their buffers, of which some are posted
\* again.
LEMMA PollResponsesClient ==
    ASSUME ClientTypes, PollResponses
    PROVE  ClientTypes' /\ (Intact(c_pool') => Intact(c_pool) /\ (ClientOwns => ClientOwns'))
<1> DEFINE q == c_qp.recv_cq
           n == Taken(q)
           freed == FreeReceives(n)
           bs == ReceivesDone(n)
           rest == SubSeq(q, n + 1, Len(q))
           qp == [c_qp EXCEPT !.recv_cq = rest]
           missing == Missing(freed.recvs)
<1>1. /\ completed' = completed + n
      /\ expected' = SubSeq(expected, n + 1, Len(expected))
      /\ PostClientRecvs(freed.pool, freed.recvs, qp, missing)
      /\ UNCHANGED <<ops, sent, c_sends>>
    BY DEF PollResponses
<1>2. c_qp \in ClientQueues /\ q \in Seq(ClientWc)
    BY DEF ClientTypes, ClientQueues
<1>3. n \in 0 .. Len(q) /\ Len(q) \in Nat /\ DOMAIN q = 1 .. Len(q) /\ n \in Nat
    BY <1>2, TakenType, LenProperties
<1> HIDE DEF n
<1>4. ReceivesFreed(freed, n)
    BY <1>3, FreeReceivesFrees
<1> HIDE DEF freed
<1>5. /\ freed.pool \in Pools(ClientBuffer) /\ freed.recvs = c_recvs \ bs
      /\ Intact(freed.pool) => Intact(c_pool)
      /\ Intact(freed.pool) /\ ClientOwnsOnce =>
            IsInjective(freed.pool.queue) /\ Range(freed.pool.queue) = ClientFree \cup bs
    BY <1>4 DEF ReceivesFreed
<1>6. missing \in Nat
    <2>1. freed.recvs \in SUBSET ClientBuffer
        BY <1>5 DEF ClientTypes
    <2>2. Cardinality(freed.recvs) \in Nat /\ ClientRefill \in Nat
        BY <2>1, ClientBuffersFinite, FS_CardinalityType, KvBenchmarkAssumption
    <2> QED
        BY <2>2 DEF Missing
<1> HIDE DEF missing
<1>7. /\ rest \in Seq(ClientWc) /\ DOMAIN rest = 1 .. Len(q) - n
      /\ \A i \in 1 .. Len(q) - n : n + i \in DOMAIN q /\ rest[i] = q[n + i]
    BY <1>2, <1>3, RestOfQueue
<1> HIDE DEF rest
<1>8. /\ qp \in ClientQueues /\ qp.rq = c_qp.rq /\ qp.sq = c_qp.sq /\ qp.send_cq = c_qp.send_cq
      /\ qp.recv_cq = rest
    BY <1>2, <1>7 DEF ClientQueues
<1> HIDE DEF qp
<1>9. PICK new : ReceivesMoved(freed.pool, freed.recvs, qp, new)
    BY <1>1, <1>5, <1>6, <1>8, PostClientRecvsMoves
<1>10. /\ c_pool' \in Pools(ClientBuffer) /\ c_pool'.first_back = freed.pool.first_back
       /\ c_recvs' = (c_recvs \ bs) \cup Range(new)
       /\ c_qp' \in ClientQueues /\ new \in Seq(ClientBuffer) /\ c_qp'.sq = c_qp.sq
       /\ c_qp'.send_cq = c_qp.send_cq /\ c_qp'.recv_cq = rest
       /\ IsInjective(freed.pool.queue) =>
             /\ IsInjective(c_pool'.queue) /\ Range(new) \subseteq Range(freed.pool.queue)
             /\ Range(c_pool'.queue) = Range(freed.pool.queue) \ Range(new)
    BY <1>5, <1>8, <1>9 DEF ReceivesMoved
<1>11. ClientTypes'
    <2>1. completed' \in Nat
        BY <1>1, <1>3 DEF ClientTypes
    <2>2. expected' \in Seq(ClientRequest)
        <3>1. expected \in Seq(ClientRequest) /\ Len(expected) \in Nat
            BY LenProperties DEF ClientTypes
        <3>2. \A i \in n + 1 .. Len(expected) : expected[i] \in ClientRequest
            BY <1>3, <3>1, ElementOfSeq
        <3>3. n + 1 \in Int /\ Len(expected) \in Int
            BY <1>3, <3>1
        <3> QED
            BY <1>1, <3>1, <3>2, <3>3, SubSeqProperties
    <2>3. Range(new) \subseteq ClientBuffer
        BY <1>10, LenProperties, ElementOfSeq DEF Range
    <2> QED
        BY <1>1, <1>10, <2>1, <2>2, <2>3 DEF ClientTypes
<1>12. Intact(c_pool') => Intact(freed.pool)
    BY <1>10 DEF Intact
<1>13. ASSUME Intact(c_pool'), ClientOwns
       PROVE  ClientOwns'
    <2>0. ClientOwnsOnce /\ ClientRecvsPosted /\ ClientSendsPosted
        BY <1>13 DEF ClientOwns
    <2>1. IsInjective(freed.pool.queue) /\ Range(freed.pool.queue) = ClientFree \cup bs
        BY <1>5, <1>12, <1>13, <2>0
    <2>2. /\ IsInjective(c_pool'.queue) /\ Range(new) \subseteq ClientFree \cup bs
          /\ ClientFree' = (ClientFree \cup bs) \ Range(new)
        BY <1>10, <2>1 DEF ClientFree
    <2>3. bs \subseteq c_recvs
        BY DEF ReceivesDone
    <2>4. ASSUME NEW i \in 1 .. Len(q) - n
          PROVE  rest[i].buf \notin bs
        <3>1. \A j \in 1 .. n : j \in DOMAIN q /\ j # n + i
            BY <1>3
        <3>2. \A j \in 1 .. n : q[j].buf # q[n + i].buf
            BY <1>7, <2>0, <3>1 DEF ClientRecvsPosted
        <3> QED
            BY <1>7, <3>2 DEF ReceivesDone
    <2>5. Range(c_qp.rq) \cap bs = {}
        BY <1>3, <2>0 DEF ClientRecvsPosted, ReceivesDone
    <2> HIDE DEF bs
    <2>6. ClientOwnsOnce'
        BY <1>1, <1>10, <2>0, <2>2, <2>3 DEF ClientOwnsOnce
    <2>7. ClientRecvsPosted'
        <3>1. Range(c_qp.rq) \subseteq c_recvs \ bs
            BY <2>0, <2>5 DEF ClientRecvsPosted
        <3>2. Range(freed.pool.queue) \cap (c_recvs \ bs) = {}
            BY <2>0, <2>1 DEF ClientOwnsOnce
        <3>3. \A i \in DOMAIN rest : rest[i].buf \in (c_recvs \ bs) \ Range(c_qp.rq)
            BY <1>7, <2>0, <2>4 DEF ClientRecvsPosted
        <3>4. ASSUME NEW i \in DOMAIN rest, NEW j \in DOMAIN rest, rest[i].buf = rest[j].buf
              PROVE  i = j
            <4>1. n + i = n + j
                BY <1>7, <2>0, <3>4 DEF ClientRecvsPosted
            <4> QED
                BY <1>3, <1>7, <4>1
        <3> QED
            BY <1>5, <1>8, <1>9, <2>0, <2>1, <3>1, <3>2, <3>3, <3>4, MovedReceives
    <2>8. ClientSendsPosted'
        BY <1>1, <1>10, <2>0 DEF ClientSendsPosted
    <2> QED
        BY <2>6, <2>7, <2>8 DEF ClientOwns
<1> QED
    BY <1>5, <1>11, <1>12, <1>13

\* A request leaves the send queue, and completes if it is signaled.
LEMMA RequestTravelsClient ==
    ASSUME ClientTypes, NEW c \in ConnId, RequestTravels(c)
    PROVE  ClientTypes' /\ (Intact(c_pool') => Intact(c_pool)) /\ (ClientOwns => ClientOwns')
<1> DEFINE sq == c_qp.sq
           wr == Head(sq)
           done == IF wr.signaled THEN Append(c_qp.send_cq, wr.seq) ELSE c_qp.send_cq
<1>1. /\ sq # << >>
      /\ c_qp' = [c_qp EXCEPT !.sq = Tail(sq), !.send_cq = done]
      /\ UNCHANGED <<ops, sent, completed, c_pool, c_sends, c_recvs, expected>>
    BY DEF RequestTravels
<1>2. c_qp \in ClientQueues /\ sq \in Seq(ClientWr) /\ c_qp.send_cq \in Seq(Nat)
    BY DEF ClientTypes, ClientQueues
<1>3. /\ wr \in ClientWr /\ wr = sq[1] /\ 1 \in DOMAIN sq
      /\ Tail(sq) \in Seq(ClientWr) /\ Len(sq) \in Nat \ {0}
      /\ DOMAIN Tail(sq) = 1 .. Len(sq) - 1
      /\ \A i \in 1 .. Len(sq) - 1 : i + 1 \in DOMAIN sq /\ Tail(sq)[i] = sq[i + 1]
    BY <1>1, <1>2, TailOfQueue
<1>4. wr.seq \in Nat
    BY <1>3 DEF ClientWr
<1>5. /\ done \in Seq(Nat)
      /\ \A i \in DOMAIN done : done[i] = wr.seq \/ \E j \in DOMAIN c_qp.send_cq : done[i] = c_qp.send_cq[j]
    <2>1. CASE wr.signaled
        BY <1>2, <1>4, <2>1, EndOfQueue
    <2>2. CASE ~wr.signaled
        BY <1>2, <2>2
    <2> QED
        BY <2>1, <2>2
<1>6. /\ c_qp' \in ClientQueues /\ c_qp'.sq = Tail(sq) /\ c_qp'.rq = c_qp.rq
      /\ c_qp'.send_cq = done /\ c_qp'.recv_cq = c_qp.recv_cq
    <2> HIDE DEF wr, done
    <2> QED
        BY <1>1, <1>2, <1>3, <1>5 DEF ClientQueues
<1>7. ClientTypes'
    BY <1>1, <1>6 DEF ClientTypes
<1>8. ASSUME ClientOwns
      PROVE  ClientOwns'
    <2>0. ClientOwnsOnce /\ ClientRecvsPosted /\ ClientSendsPosted
        BY <1>8 DEF ClientOwns
    <2>1. wr.seq < sent
        BY <1>3, <2>0 DEF ClientSendsPosted, ClientTypes
    <2>2. ASSUME NEW i \in 1 .. Len(sq) - 1
          PROVE  /\ Tail(sq)[i].seq # wr.seq
                 /\ Tail(sq)[i].seq \in DOMAIN c_sends
                 /\ c_sends[Tail(sq)[i].seq] = Tail(sq)[i].buf
        <3>1. i + 1 # 1 /\ i + 1 \in DOMAIN sq /\ Tail(sq)[i] = sq[i + 1]
            BY <1>3
        <3> QED
            BY <1>3, <2>0, <3>1 DEF ClientSendsPosted
    <2>3. ASSUME NEW i \in 1 .. Len(sq) - 1, NEW j \in 1 .. Len(sq) - 1,
                 Tail(sq)[i].seq = Tail(sq)[j].seq
          PROVE  i = j
        <3>1. i + 1 = j + 1
            BY <1>3, <2>0, <2>3 DEF ClientSendsPosted
        <3> QED
            BY <3>1
    <2>4. \A j \in DOMAIN c_qp.send_cq :
              /\ c_qp.send_cq[j] < sent
              /\ \A i \in 1 .. Len(sq) - 1 : Tail(sq)[i].seq # c_qp.send_cq[j]
        BY <1>3, <2>0 DEF ClientSendsPosted
    <2> HIDE DEF wr, done
    <2>5. ClientOwnsOnce' /\ ClientRecvsPosted'
        BY <1>1, <1>6, <2>0 DEF ClientOwnsOnce, ClientRecvsPosted, ClientFree
    <2>6. \A i \in DOMAIN done :
              done[i] < sent /\ \A j \in 1 .. Len(sq) - 1 : Tail(sq)[j].seq # done[i]
        BY <1>4, <1>5, <2>1, <2>2, <2>4
    <2>7. ClientSendsPosted'
        BY <1>1, <1>3, <1>6, <2>2, <2>3, <2>6 DEF ClientSendsPosted
    <2> QED
        BY <2>5, <2>7 DEF ClientOwns
<1> QED
    BY <1>1, <1>7, <1>8

\* A response takes the buffer that was posted first.
LEMMA ResponseTravelsClient ==
    ASSUME ServerInv, ClientTypes, NEW c \in ConnId, ResponseTravels(c)
    PROVE  ClientTypes' /\ (Intact(c_pool') => Intact(c_pool)) /\ (ClientOwns => ClientOwns')
<1> DEFINE b == Head(c_qp.rq)
           q == c_qp.recv_cq
           msg == Head(connections[c].sq).msg
           wc == [buf |-> b, msg |-> msg]
<1>1. /\ c_qp.rq # << >> /\ Live(c) /\ connections[c].sq # << >>
      /\ c_qp' = [c_qp EXCEPT !.rq = Tail(@), !.recv_cq = Append(@, wc)]
      /\ UNCHANGED <<ops, sent, completed, c_pool, c_sends, c_recvs, expected>>
    BY DEF ResponseTravels, FinishSend
<1>2. c_qp \in ClientQueues /\ q \in Seq(ClientWc) /\ c_qp.rq \in Seq(ClientBuffer)
    BY DEF ClientTypes, ClientQueues
<1>3. msg \in Response
    <2>1. connections[c].sq \in Seq(WorkRequests)
        BY <1>1 DEF ServerInv, ServerTypes, Live, ConnectionType
    <2>2. Head(connections[c].sq) \in WorkRequests
        BY <1>1, <2>1, TailOfQueue
    <2> QED
        BY <2>2 DEF WorkRequests
<1>4. b \in ClientBuffer /\ Tail(c_qp.rq) \in Seq(ClientBuffer)
    BY <1>1, <1>2, TailOfQueue
<1>5. wc \in ClientWc /\ wc.buf = b
    BY <1>3, <1>4 DEF ClientWc
<1> HIDE DEF msg, wc
<1> DEFINE new == Append(q, wc)
           L == Len(q)
<1>6. /\ new \in Seq(ClientWc) /\ L \in Nat /\ DOMAIN q = 1 .. L /\ DOMAIN new = 1 .. L + 1
      /\ \A i \in 1 .. L + 1 : i \in 1 .. L \/ i = L + 1
      /\ \A i \in 1 .. L : new[i] = q[i]
      /\ new[L + 1] = wc
    BY <1>2, <1>5, EndOfQueue
<1> HIDE DEF new, L
<1>7. /\ c_qp' \in ClientQueues /\ c_qp'.sq = c_qp.sq /\ c_qp'.rq = Tail(c_qp.rq)
      /\ c_qp'.send_cq = c_qp.send_cq /\ c_qp'.recv_cq = new
    BY <1>1, <1>2, <1>4, <1>6 DEF ClientQueues, new
<1>8. ClientTypes'
    BY <1>1, <1>7 DEF ClientTypes
<1>9. ASSUME ClientOwns
      PROVE  ClientOwns'
    <2>0. ClientOwnsOnce /\ ClientRecvsPosted /\ ClientSendsPosted
        BY <1>9 DEF ClientOwns
    <2>1. IsInjective(c_qp.rq)
        BY <2>0 DEF ClientRecvsPosted
    <2>2. /\ b \in Range(c_qp.rq) /\ IsInjective(c_qp'.rq)
          /\ Range(c_qp'.rq) = Range(c_qp.rq) \ {b}
        BY <1>1, <1>2, <1>7, <2>1, QueueAsSet
    <2> HIDE DEF b
    <2>3. ClientOwnsOnce' /\ ClientSendsPosted'
        BY <1>1, <1>7, <2>0 DEF ClientOwnsOnce, ClientSendsPosted, ClientFree
    <2>4. ClientRecvsPosted'
        <3>1. \A i \in 1 .. L : new[i].buf \in c_recvs \ Range(c_qp.rq)
            BY <1>6, <2>0 DEF ClientRecvsPosted
        <3>2. \A i \in 1 .. L + 1 : new[i].buf \in c_recvs \ (Range(c_qp.rq) \ {b})
            BY <1>5, <1>6, <2>0, <2>2, <3>1 DEF ClientRecvsPosted
        <3>3. ASSUME NEW i \in 1 .. L + 1, NEW j \in 1 .. L + 1, new[i].buf = new[j].buf
              PROVE  i = j
            <4>1. \A k \in 1 .. L : new[k].buf # b
                BY <2>2, <3>1
            <4>2. \A k, l \in 1 .. L : new[k].buf = new[l].buf => k = l
                BY <1>6, <2>0 DEF ClientRecvsPosted
            <4> QED
                BY <1>5, <1>6, <3>3, <4>1, <4>2
        <3>4. Range(c_qp.rq) \ {b} \subseteq c_recvs
            BY <2>0 DEF ClientRecvsPosted
        <3> QED
            BY <1>1, <1>6, <1>7, <2>2, <3>2, <3>3, <3>4 DEF ClientRecvsPosted
    <2> QED
        BY <2>3, <2>4 DEF ClientOwns
<1> QED
    BY <1>1, <1>8, <1>9

\* TheClient is one of the clients.
LEMMA TheClientExists == TheClient \in Client
BY KvBenchmarkAssumption DEF TheClient

\* The step of the server that a request makes when it arrives.
LEMMA RequestTravelsEffect ==
    ASSUME ServerInv, ClientTypes, NEW c \in ConnId, RequestTravels(c)
    PROVE  NicEffect(c)
<1> DEFINE msg == Head(c_qp.sq).msg
<1>1. c_qp.sq # << >> /\ ReceiveMessage(c, msg) /\ todo' = todo
    BY DEF RequestTravels, clientVars
<1>2. c_qp.sq \in Seq(ClientWr)
    BY DEF ClientTypes, ClientQueues
<1>3. Head(c_qp.sq) \in ClientWr
    BY <1>1, <1>2, TailOfQueue
<1>4. msg \in Request
    BY <1>3 DEF ClientWr, ClientRequest, Request, RequestKind
<1>5. todo' \in [Client -> Seq(RequestKind)]
    BY <1>1 DEF ServerInv, ServerTypes
<1> HIDE DEF msg
<1> QED
    BY <1>1, <1>4, <1>5, ReceiveMessageEffect

\* The steps of the benchmark keep the invariants of the server ...
LEMMA BenchmarkServerNext ==
    ASSUME ServerInv, ClientTypes, [BenchmarkNext]_allVars
    PROVE  ServerInv'
<1>1. CASE UNCHANGED serverVars
    BY <1>1, TurnInv DEF serverVars, loopVars
<1>2. CASE ClientCalls(TheClient)
    BY <1>2, TurnInv DEF ClientCalls, loopVars
<1>3. CASE FinishConnect
    BY <1>3, TurnInv DEF FinishConnect, ClientReplies, loopVars
<1>4. CASE NobodyWaits
    BY <1>4, TurnInv DEF NobodyWaits, BetweenPolls, clientVars
<1>5. CASE OfferParams(TheClient)
    BY <1>5, OfferParamsInv, TheClientExists
<1>6. CASE FinishAccept
    BY <1>6, FinishAcceptInv
<1>7. CASE Poll
    BY <1>7, PollInv
<1>8. CASE Handle
    <2>1. PICK wc : HandleSendCompletion(wc) \/ HandleRequest(wc) \/ OnError(wc)
        BY <1>8 DEF Handle
    <2> QED
        BY <2>1, HandleSendCompletionInv, HandleRequestInv, OnErrorInv
<1>9. ASSUME NEW c \in ConnId, RequestTravels(c)
      PROVE  ServerInv'
    BY <1>9, RequestTravelsEffect, NicEffectInv
<1>10. ASSUME NEW c \in ConnId, ResponseTravels(c)
       PROVE  ServerInv'
    <2>1. ClientReceives(c)
        BY <1>10 DEF ResponseTravels, ClientReceives
    <2> QED
        BY <2>1, ClientReceivesEffect, NicEffectInv
<1>11. ASSUME NEW op, NEW key, SendRequest(op, key)
       PROVE  ServerInv'
    BY <1>1, <1>11 DEF SendRequest
<1>12. CASE PollSends \/ PollResponses
    BY <1>1, <1>12 DEF PollSends, PollResponses
<1>13. CASE UNCHANGED allVars
    BY <1>1, <1>13 DEF allVars
<1> QED
    BY <1>2, <1>3, <1>4, <1>5, <1>6, <1>7, <1>8, <1>9, <1>10, <1>11, <1>12, <1>13
    DEF BenchmarkNext, ClientStep, ServingStep

\* ... and those of the client: the types, and what it owns while its pool is
\* intact.
LEMMA BenchmarkClientNext ==
    ASSUME ServerInv, ClientTypes, [BenchmarkNext]_allVars
    PROVE  ClientTypes' /\ (Intact(c_pool') => Intact(c_pool) /\ (ClientOwns => ClientOwns'))
<1> DEFINE Keeps == ClientTypes' /\ (Intact(c_pool') => Intact(c_pool) /\ (ClientOwns => ClientOwns'))
<1>1. CASE UNCHANGED benchmarkVars
    BY <1>1, ClientUnchanged
<1>2. CASE FinishConnect
    BY <1>2, FinishConnectClient
<1>3. ASSUME NEW op \in ops, NEW key \in Key, SendRequest(op, key)
      PROVE  Keeps
    BY <1>3, SendRequestClient
<1>4. CASE PollSends
    BY <1>4, PollSendsClient
<1>5. CASE PollResponses
    BY <1>5, PollResponsesClient
<1>6. ASSUME NEW c \in ConnId, RequestTravels(c)
      PROVE  Keeps
    BY <1>6, RequestTravelsClient
<1>7. ASSUME NEW c \in ConnId, ResponseTravels(c)
      PROVE  Keeps
    BY <1>7, ResponseTravelsClient
<1> HIDE DEF Keeps
<1>8. CASE UNCHANGED benchmarkVars
    BY <1>1, <1>8 DEF Keeps
<1>9. Keeps
    BY <1>2, <1>3, <1>4, <1>5, <1>6, <1>7, <1>8
    DEF BenchmarkNext, ClientStep, ServingStep, allVars, Keeps
<1> QED
    BY <1>9 DEF Keeps

\* The types hold in every behaviour of the benchmark.
LEMMA BenchmarkInvariant == BenchmarkSpec => [](ServerInv /\ ClientTypes)
<1>1. BenchmarkInit => ServerInv /\ ClientTypes
    BY ServerInitInv, ClientInitInv DEF BenchmarkInit
<1>2. ServerInv /\ ClientTypes /\ [BenchmarkNext]_allVars => (ServerInv /\ ClientTypes)'
    BY BenchmarkServerNext, BenchmarkClientNext
<1> QED
    BY <1>1, <1>2, PTL DEF BenchmarkSpec

\* Disjoint sets count separately.
LEMMA DisjointUnion ==
    ASSUME NEW S, IsFiniteSet(S), NEW T, IsFiniteSet(T), S \cap T = {}
    PROVE  /\ IsFiniteSet(S \cup T)
           /\ Cardinality(S \cup T) = Cardinality(S) + Cardinality(T)
<1>1. /\ IsFiniteSet(S \cup T)
      /\ Cardinality(S \cup T) = Cardinality(S) + Cardinality(T) - Cardinality(S \cap T)
    BY FS_Union
<1>2. Cardinality(S \cap T) = 0
    BY FS_EmptySet
<1>3. Cardinality(S) \in Nat /\ Cardinality(T) \in Nat
    BY FS_CardinalityType
<1> QED
    BY <1>1, <1>2, <1>3

\* A queue without repetitions has as many elements as places.
LEMMA QueueCounts ==
    ASSUME NEW S, NEW s \in Seq(S), IsInjective(s)
    PROVE  IsFiniteSet(Range(s)) /\ Cardinality(Range(s)) = Len(s)
<1>1. Len(s) \in Nat /\ DOMAIN s = 1 .. Len(s)
    BY LenProperties
<1>2. s \in Bijection(1 .. Len(s), Range(s))
    <2>1. s = [i \in 1 .. Len(s) |-> s[i]]
        BY <1>1, SeqDef
    <2>2. s \in [1 .. Len(s) -> Range(s)]
        BY <1>1, <2>1 DEF Range
    <2>3. s \in Injection(1 .. Len(s), Range(s))
        BY <1>1, <2>2 DEF Injection, IsInjective
    <2>4. s \in Surjection(1 .. Len(s), Range(s))
        BY <1>1, <2>2 DEF Surjection, Range
    <2> QED
        BY <2>3, <2>4 DEF Bijection
<1>3. IsFiniteSet(1 .. Len(s)) /\ Cardinality(1 .. Len(s)) = Len(s)
    <2>1. Len(s) \in Int /\ 1 \in Int /\ Len(s) >= 0
        BY <1>1
    <2>2. /\ IsFiniteSet(1 .. Len(s))
          /\ Cardinality(1 .. Len(s)) = IF 1 > Len(s) THEN 0 ELSE Len(s) - 1 + 1
        BY <2>1, FS_Interval
    <2> QED
        BY <2>1, <2>2
<1>4. ExistsBijection(1 .. Len(s), Range(s))
    BY <1>2 DEF ExistsBijection
<1> QED
    BY <1>3, <1>4, FS_Bijection

\* The buffers of three disjoint places are counted in each of them.
LEMMA ClientOwnsCounts ==
    ASSUME ClientTypes, ClientOwns
    PROVE  ClientBuffersOwned
<1> USE DEF ClientOwns
<1> DEFINE free == Range(c_pool.queue)
           sending == {c_sends[n] : n \in DOMAIN c_sends}
           f == [n \in DOMAIN c_sends |-> c_sends[n]]
<1>0. c_pool.queue \in Seq(ClientBuffer) /\ IsInjective(c_pool.queue)
    BY DEF ClientTypes, Pools, ClientOwnsOnce
<1>1. sending \in SUBSET ClientBuffer /\ free \in SUBSET ClientBuffer
      /\ c_recvs \in SUBSET ClientBuffer
    <2>1. free \subseteq ClientBuffer
        BY <1>0, ElementOfSeq, LenProperties DEF Range
    <2> QED
        BY <2>1 DEF ClientTypes
<1>2. f \in Injection(DOMAIN c_sends, sending)
    BY DEF ClientOwnsOnce, Injection, IsInjective
<1>3. f \in Surjection(DOMAIN c_sends, sending)
    BY DEF Surjection
<1>4. f \in Bijection(DOMAIN c_sends, sending)
    BY <1>2, <1>3 DEF Bijection
<1>5. free \cup sending \cup c_recvs = ClientBuffer
    BY <1>1 DEF ClientOwnsOnce, ClientFree
<1>6. free \cap sending = {} /\ (free \cup sending) \cap c_recvs = {}
    BY DEF ClientOwnsOnce, ClientFree
<1> HIDE DEF sending, f, free
<1>7. IsFiniteSet(sending) /\ IsFiniteSet(free) /\ IsFiniteSet(c_recvs)
    BY <1>1, ClientBuffersFinite
<1>8. Cardinality(DOMAIN c_sends) = Cardinality(sending)
    <2>1. f \in Injection(DOMAIN c_sends, sending)
        BY <1>2
    <2>2. IsFiniteSet(DOMAIN c_sends)
        BY <1>7, <2>1, FS_Injection
    <2> QED
        BY <1>4, <2>2, FS_Bijection DEF ExistsBijection
<1>9. Cardinality(free) + Cardinality(sending) + Cardinality(c_recvs) = Cardinality(ClientBuffer)
    <2>1. /\ IsFiniteSet(free \cup sending)
          /\ Cardinality(free \cup sending) = Cardinality(free) + Cardinality(sending)
        BY <1>6, <1>7, DisjointUnion
    <2>2. Cardinality((free \cup sending) \cup c_recvs)
              = Cardinality(free \cup sending) + Cardinality(c_recvs)
        BY <1>6, <1>7, <2>1, DisjointUnion
    <2> QED
        BY <1>5, <2>1, <2>2
<1>10. Cardinality(ClientBuffer) = ClientBuffers
    <2>1. ClientBuffers \in Int /\ 1 \in Int /\ ClientBuffers >= 0
        BY KvBenchmarkAssumption
    <2>2. Cardinality(1 .. ClientBuffers) = IF 1 > ClientBuffers THEN 0 ELSE ClientBuffers - 1 + 1
        BY <2>1, FS_Interval
    <2> QED
        BY <2>1, <2>2 DEF ClientBuffer
<1>11. Cardinality(free) = Len(c_pool.queue)
    BY <1>0, QueueCounts DEF free
<1>12. Range(c_qp.rq) \subseteq c_recvs
    BY DEF ClientRecvsPosted
<1>13. \A i \in DOMAIN c_qp.sq :
          c_qp.sq[i].seq \in DOMAIN c_sends /\ c_sends[c_qp.sq[i].seq] = c_qp.sq[i].buf
    BY DEF ClientSendsPosted
<1>14. free \cup sending \cup c_recvs = 1 .. ClientBuffers
    BY <1>5 DEF ClientBuffer
<1>15. Len(c_pool.queue) + Cardinality(DOMAIN c_sends) + Cardinality(c_recvs) = ClientBuffers
    BY <1>8, <1>9, <1>10, <1>11
<1> QED
    BY <1>12, <1>13, <1>14, <1>15 DEF ClientBuffersOwned, sending, free

\* While its pool is intact the client accounts for its buffers, whatever it
\* asks, however the NICs and the server's loop interleave with its own, and
\* whichever requests are signaled: each is free or tracked for one send or one
\* receive, and a buffer that its NIC may still use is tracked.
THEOREM ClientBuffersAccounted == BenchmarkSpec => []ClientBuffersOwnedWhileIntact
<1> DEFINE Owns == Intact(c_pool) => ClientOwns
<1>1. BenchmarkInit => Owns
    BY ClientInitInv
<1>2. ServerInv /\ ClientTypes /\ Owns /\ [BenchmarkNext]_allVars => Owns'
    BY BenchmarkClientNext
<1>3. ClientTypes /\ Owns => ClientBuffersOwnedWhileIntact
    BY ClientOwnsCounts DEF ClientBuffersOwnedWhileIntact
<1> HIDE DEF Owns
<1> QED
    BY <1>1, <1>2, <1>3, BenchmarkInvariant, PTL DEF BenchmarkSpec

----------------------------------------------------------------------------
(* The order of the responses.  The requests not yet answered are, oldest  *)
(* first: the responses that have come, those the server has posted, the   *)
(* requests it is handling, those that have arrived and those on the way.  *)

\* The message answers the request.
Answers(msg, req) ==
    /\ msg.key = req.key
    /\ msg.op = IF req.op = "GET" THEN "GET_RESPONSE" ELSE "PUT_RESPONSE"

\* The requests e, laid out in the places they have come to.
Lined(e, a, s, b, r, q) ==
    /\ Len(e) = Len(a) + Len(s) + Len(b) + Len(r) + Len(q)
    /\ \A i \in 1 .. Len(a) : Answers(a[i].msg, e[i])
    /\ \A i \in 1 .. Len(s) : Answers(s[i].msg, e[Len(a) + i])
    /\ \A i \in 1 .. Len(b) : b[i].msg = e[Len(a) + Len(s) + i]
    /\ \A i \in 1 .. Len(r) : r[i].msg = e[Len(a) + Len(s) + Len(b) + i]
    /\ \A i \in 1 .. Len(q) : q[i].msg = e[Len(a) + Len(s) + Len(b) + Len(r) + i]

\* The first elements of a queue.
LEMMA StartOfQueue ==
    ASSUME NEW S, NEW s \in Seq(S), NEW n \in 0 .. Len(s)
    PROVE  Len(SubSeq(s, 1, n)) = n /\ \A i \in 1 .. n : SubSeq(s, 1, n)[i] = s[i]
<1>1. Len(s) \in Nat /\ n \in Nat
    BY LenProperties
<1>2. 1 \in Int /\ n \in Int /\ \A i \in 1 .. n : s[i] \in S
    BY <1>1, ElementOfSeq
<1>3. n - 1 + 1 = n /\ \A i \in 1 .. n : 1 + i - 1 = i
    BY <1>1
<1>4. \A i \in 1 .. n : SubSeq(s, 1, n)[i] = s[i]
    BY <1>2, <1>3, SubSeqProperties
<1> QED
    BY <1>4, TakeBatch

\* A request is sent.
LEMMA LinedSent ==
    ASSUME NEW E, NEW e \in Seq(E), NEW A, NEW a \in Seq(A), NEW S, NEW s \in Seq(S),
           NEW B, NEW b \in Seq(B), NEW R, NEW r \in Seq(R), NEW Q, NEW q \in Seq(Q),
           Lined(e, a, s, b, r, q), NEW m \in E, NEW x \in Q, x.msg = m
    PROVE  Lined(Append(e, m), a, s, b, r, Append(q, x))
<1> DEFINE la == Len(a)
           ls == Len(s)
           lb == Len(b)
           lr == Len(r)
           lq == Len(q)
           le == Len(e)
           en == Append(e, m)
           qn == Append(q, x)
<1>1. la \in Nat /\ ls \in Nat /\ lb \in Nat /\ lr \in Nat /\ lq \in Nat /\ le \in Nat
    BY LenProperties
<1>2. le = la + ls + lb + lr + lq
    BY DEF Lined
<1>a. \A i \in 1 .. la : Answers(a[i].msg, e[i])
    BY DEF Lined
<1>s. \A i \in 1 .. ls : Answers(s[i].msg, e[la + i])
    BY DEF Lined
<1>b. \A i \in 1 .. lb : b[i].msg = e[la + ls + i]
    BY DEF Lined
<1>r. \A i \in 1 .. lr : r[i].msg = e[la + ls + lb + i]
    BY DEF Lined
<1>q. \A i \in 1 .. lq : q[i].msg = e[la + ls + lb + lr + i]
    BY DEF Lined
<1>x. Len(en) = le + 1 /\ en[le + 1] = m /\ \A k \in 1 .. le : en[k] = e[k]
    BY EndOfQueue
<1>y. Len(qn) = lq + 1 /\ qn[lq + 1] = x /\ \A k \in 1 .. lq : qn[k] = q[k]
    BY EndOfQueue
<1> HIDE DEF la, ls, lb, lr, lq, le, en, qn
<1>l. Len(en) = la + ls + lb + lr + Len(qn)
    BY <1>1, <1>2, <1>x, <1>y
<1>21. ASSUME NEW i \in 1 .. la
       PROVE  Answers(a[i].msg, en[i])
    <2> DEFINE k == i
               j == i
    <2>1. j \in 1 .. la /\ k \in 1 .. le /\ k = j
        BY <1>1, <1>2
    <2>2. a[i] = a[j]
        BY <2>1
    <2> HIDE DEF k, j
    <2>3. Answers(a[j].msg, e[j])
        BY <1>a, <2>1
    <2>4. en[k] = e[j]
        BY <1>x, <2>1
    <2> QED
        BY <2>2, <2>3, <2>4 DEF k
<1>22. ASSUME NEW i \in 1 .. ls
       PROVE  Answers(s[i].msg, en[la + i])
    <2> DEFINE k == la + i
               j == i
    <2>1. j \in 1 .. ls /\ k \in 1 .. le /\ k = la + j
        BY <1>1, <1>2
    <2>2. s[i] = s[j]
        BY <2>1
    <2> HIDE DEF k, j
    <2>3. Answers(s[j].msg, e[la + j])
        BY <1>s, <2>1
    <2>4. en[k] = e[la + j]
        BY <1>x, <2>1
    <2> QED
        BY <2>2, <2>3, <2>4 DEF k
<1>23. ASSUME NEW i \in 1 .. lb
       PROVE  b[i].msg = en[la + ls + i]
    <2> DEFINE k == la + ls + i
               j == i
    <2>1. j \in 1 .. lb /\ k \in 1 .. le /\ k = la + ls + j
        BY <1>1, <1>2
    <2>2. b[i] = b[j]
        BY <2>1
    <2> HIDE DEF k, j
    <2>3. b[j].msg = e[la + ls + j]
        BY <1>b, <2>1
    <2>4. en[k] = e[la + ls + j]
        BY <1>x, <2>1
    <2> QED
        BY <2>2, <2>3, <2>4 DEF k
<1>24. ASSUME NEW i \in 1 .. lr
       PROVE  r[i].msg = en[la + ls + lb + i]
    <2> DEFINE k == la + ls + lb + i
               j == i
    <2>1. j \in 1 .. lr /\ k \in 1 .. le /\ k = la + ls + lb + j
        BY <1>1, <1>2
    <2>2. r[i] = r[j]
        BY <2>1
    <2> HIDE DEF k, j
    <2>3. r[j].msg = e[la + ls + lb + j]
        BY <1>r, <2>1
    <2>4. en[k] = e[la + ls + lb + j]
        BY <1>x, <2>1
    <2> QED
        BY <2>2, <2>3, <2>4 DEF k
<1>25. ASSUME NEW i \in 1 .. lq + 1
       PROVE  qn[i].msg = en[la + ls + lb + lr + i]
    <2>1. CASE i \in 1 .. lq
        <3> DEFINE k == la + ls + lb + lr + i
                   j == i
        <3>1. j \in 1 .. lq /\ k \in 1 .. le /\ k = la + ls + lb + lr + j
            BY <1>1, <1>2, <2>1
        <3>2. qn[i] = q[j]
            BY <1>y, <3>1, <2>1
        <3> HIDE DEF k, j
        <3>3. q[j].msg = e[la + ls + lb + lr + j]
            BY <1>q, <3>1
        <3>4. en[k] = e[la + ls + lb + lr + j]
            BY <1>x, <3>1
        <3> QED
            BY <3>2, <3>3, <3>4 DEF k
    <2>2. CASE i = lq + 1
        <3>1. la + ls + lb + lr + i = le + 1
            BY <1>1, <1>2, <2>2
        <3> QED
            BY <1>x, <1>y, <2>2, <3>1
    <2> QED
        BY <1>1, <1>y, <2>1, <2>2
<1> QED
    BY <1>l, <1>21, <1>22, <1>23, <1>24, <1>25, <1>y DEF Lined, la, ls, lb, lr, lq, en, qn

\* Responses are polled.
LEMMA LinedPolled ==
    ASSUME NEW E, NEW e \in Seq(E), NEW A, NEW a \in Seq(A), NEW S, NEW s \in Seq(S),
           NEW B, NEW b \in Seq(B), NEW R, NEW r \in Seq(R), NEW Q, NEW q \in Seq(Q),
           Lined(e, a, s, b, r, q), NEW n \in 0 .. Len(a)
    PROVE  Lined(SubSeq(e, n + 1, Len(e)), SubSeq(a, n + 1, Len(a)), s, b, r, q)
<1> DEFINE la == Len(a)
           ls == Len(s)
           lb == Len(b)
           lr == Len(r)
           lq == Len(q)
           le == Len(e)
           en == SubSeq(e, n + 1, Len(e))
           an == SubSeq(a, n + 1, Len(a))
           lan == la - n
<1>1. la \in Nat /\ ls \in Nat /\ lb \in Nat /\ lr \in Nat /\ lq \in Nat /\ le \in Nat
    BY LenProperties
<1>2. le = la + ls + lb + lr + lq
    BY DEF Lined
<1>a. \A i \in 1 .. la : Answers(a[i].msg, e[i])
    BY DEF Lined
<1>s. \A i \in 1 .. ls : Answers(s[i].msg, e[la + i])
    BY DEF Lined
<1>b. \A i \in 1 .. lb : b[i].msg = e[la + ls + i]
    BY DEF Lined
<1>r. \A i \in 1 .. lr : r[i].msg = e[la + ls + lb + i]
    BY DEF Lined
<1>q. \A i \in 1 .. lq : q[i].msg = e[la + ls + lb + lr + i]
    BY DEF Lined
<1>3. n \in Nat /\ n \in 0 .. le /\ n \in 0 .. la /\ lan \in Nat /\ la = n + lan
    BY <1>1, <1>2
<1>x. Len(en) = le - n /\ \A k \in 1 .. le - n : en[k] = e[n + k]
    BY <1>3, RestOfQueue
<1>y. Len(an) = lan /\ \A k \in 1 .. lan : an[k] = a[n + k]
    BY <1>3, RestOfQueue
<1> HIDE DEF la, ls, lb, lr, lq, le, en, an, lan
<1>l. Len(en) = lan + ls + lb + lr + lq
    BY <1>1, <1>2, <1>3, <1>x
<1>21. ASSUME NEW i \in 1 .. lan
       PROVE  Answers(an[i].msg, en[i])
    <2> DEFINE k == i
               j == n + i
    <2>1. j \in 1 .. la /\ k \in 1 .. le - n /\ n + k = j
        BY <1>1, <1>2, <1>3
    <2>2. an[i] = a[j]
        BY <1>y, <2>1
    <2> HIDE DEF k, j
    <2>3. Answers(a[j].msg, e[j])
        BY <1>a, <2>1
    <2>4. en[k] = e[j]
        BY <1>x, <2>1
    <2> QED
        BY <2>2, <2>3, <2>4 DEF k
<1>22. ASSUME NEW i \in 1 .. ls
       PROVE  Answers(s[i].msg, en[lan + i])
    <2> DEFINE k == lan + i
               j == i
    <2>1. j \in 1 .. ls /\ k \in 1 .. le - n /\ n + k = la + j
        BY <1>1, <1>2, <1>3
    <2>2. s[i] = s[j]
        BY <2>1
    <2> HIDE DEF k, j
    <2>3. Answers(s[j].msg, e[la + j])
        BY <1>s, <2>1
    <2>4. en[k] = e[la + j]
        BY <1>x, <2>1
    <2> QED
        BY <2>2, <2>3, <2>4 DEF k
<1>23. ASSUME NEW i \in 1 .. lb
       PROVE  b[i].msg = en[lan + ls + i]
    <2> DEFINE k == lan + ls + i
               j == i
    <2>1. j \in 1 .. lb /\ k \in 1 .. le - n /\ n + k = la + ls + j
        BY <1>1, <1>2, <1>3
    <2>2. b[i] = b[j]
        BY <2>1
    <2> HIDE DEF k, j
    <2>3. b[j].msg = e[la + ls + j]
        BY <1>b, <2>1
    <2>4. en[k] = e[la + ls + j]
        BY <1>x, <2>1
    <2> QED
        BY <2>2, <2>3, <2>4 DEF k
<1>24. ASSUME NEW i \in 1 .. lr
       PROVE  r[i].msg = en[lan + ls + lb + i]
    <2> DEFINE k == lan + ls + lb + i
               j == i
    <2>1. j \in 1 .. lr /\ k \in 1 .. le - n /\ n + k = la + ls + lb + j
        BY <1>1, <1>2, <1>3
    <2>2. r[i] = r[j]
        BY <2>1
    <2> HIDE DEF k, j
    <2>3. r[j].msg = e[la + ls + lb + j]
        BY <1>r, <2>1
    <2>4. en[k] = e[la + ls + lb + j]
        BY <1>x, <2>1
    <2> QED
        BY <2>2, <2>3, <2>4 DEF k
<1>25. ASSUME NEW i \in 1 .. lq
       PROVE  q[i].msg = en[lan + ls + lb + lr + i]
    <2> DEFINE k == lan + ls + lb + lr + i
               j == i
    <2>1. j \in 1 .. lq /\ k \in 1 .. le - n /\ n + k = la + ls + lb + lr + j
        BY <1>1, <1>2, <1>3
    <2>2. q[i] = q[j]
        BY <2>1
    <2> HIDE DEF k, j
    <2>3. q[j].msg = e[la + ls + lb + lr + j]
        BY <1>q, <2>1
    <2>4. en[k] = e[la + ls + lb + lr + j]
        BY <1>x, <2>1
    <2> QED
        BY <2>2, <2>3, <2>4 DEF k
<1> QED
    BY <1>l, <1>21, <1>22, <1>23, <1>24, <1>25, <1>y DEF Lined, ls, lb, lr, lq, en, an

\* A batch of requests is taken.
LEMMA LinedTaken ==
    ASSUME NEW E, NEW e \in Seq(E), NEW A, NEW a \in Seq(A), NEW S, NEW s \in Seq(S),
           NEW R, NEW r \in Seq(R), NEW Q, NEW q \in Seq(Q),
           Lined(e, a, s, << >>, r, q), NEW n \in 0 .. Len(r)
    PROVE  Lined(e, a, s, SubSeq(r, 1, n), SubSeq(r, n + 1, Len(r)), q)
<1> DEFINE la == Len(a)
           ls == Len(s)
           lr == Len(r)
           lq == Len(q)
           le == Len(e)
           bn == SubSeq(r, 1, n)
           rn == SubSeq(r, n + 1, Len(r))
           lrn == lr - n
<1>1. la \in Nat /\ ls \in Nat /\ lr \in Nat /\ lq \in Nat /\ le \in Nat
    BY LenProperties
<1>z. Len(<< >>) = 0 /\ la + ls + 0 = la + ls
    BY <1>1, EmptySeq
<1>2. le = la + ls + lr + lq
    BY <1>1, <1>z DEF Lined
<1>a. \A i \in 1 .. la : Answers(a[i].msg, e[i])
    BY <1>1, <1>z DEF Lined
<1>s. \A i \in 1 .. ls : Answers(s[i].msg, e[la + i])
    BY <1>1, <1>z DEF Lined
<1>r. \A i \in 1 .. lr : r[i].msg = e[la + ls + i]
    BY <1>1, <1>z DEF Lined
<1>q. \A i \in 1 .. lq : q[i].msg = e[la + ls + lr + i]
    BY <1>1, <1>z DEF Lined
<1>3. n \in Nat /\ n \in 0 .. lr /\ lrn \in Nat /\ lr = n + lrn
    BY <1>1
<1>y. Len(rn) = lrn /\ \A k \in 1 .. lrn : rn[k] = r[n + k]
    BY <1>3, RestOfQueue
<1>w. Len(bn) = n /\ \A k \in 1 .. n : bn[k] = r[k]
    BY <1>3, StartOfQueue
<1> HIDE DEF la, ls, lr, lq, le, bn, rn, lrn
<1>l. le = la + ls + n + lrn + lq
    BY <1>1, <1>2, <1>3
<1>21. ASSUME NEW i \in 1 .. n
       PROVE  bn[i].msg = e[la + ls + i]
    <2> DEFINE k == la + ls + i
               j == i
    <2>1. j \in 1 .. lr /\ k = la + ls + j
        BY <1>1, <1>3
    <2>2. bn[i] = r[j]
        BY <1>w, <2>1
    <2> HIDE DEF k, j
    <2>3. r[j].msg = e[la + ls + j]
        BY <1>r, <2>1
    <2>4. e[k] = e[la + ls + j]
        BY <2>1
    <2> QED
        BY <2>2, <2>3, <2>4 DEF k
<1>22. ASSUME NEW i \in 1 .. lrn
       PROVE  rn[i].msg = e[la + ls + n + i]
    <2> DEFINE k == la + ls + n + i
               j == n + i
    <2>1. j \in 1 .. lr /\ k = la + ls + j
        BY <1>1, <1>3
    <2>2. rn[i] = r[j]
        BY <1>y, <2>1
    <2> HIDE DEF k, j
    <2>3. r[j].msg = e[la + ls + j]
        BY <1>r, <2>1
    <2>4. e[k] = e[la + ls + j]
        BY <2>1
    <2> QED
        BY <2>2, <2>3, <2>4 DEF k
<1>23. ASSUME NEW i \in 1 .. lq
       PROVE  q[i].msg = e[la + ls + n + lrn + i]
    <2> DEFINE k == la + ls + n + lrn + i
               j == i
    <2>1. j \in 1 .. lq /\ k = la + ls + lr + j
        BY <1>1, <1>3
    <2>2. q[i] = q[j]
        BY <2>1
    <2> HIDE DEF k, j
    <2>3. q[j].msg = e[la + ls + lr + j]
        BY <1>q, <2>1
    <2>4. e[k] = e[la + ls + lr + j]
        BY <2>1
    <2> QED
        BY <2>2, <2>3, <2>4 DEF k
<1> QED
    BY <1>l, <1>a, <1>s, <1>21, <1>22, <1>23, <1>y, <1>w DEF Lined, la, ls, lq, le, bn, rn

\* A request is answered.
LEMMA LinedAnswered ==
    ASSUME NEW E, NEW e \in Seq(E), NEW A, NEW a \in Seq(A), NEW S, NEW s \in Seq(S),
           NEW B, NEW b \in Seq(B), NEW R, NEW r \in Seq(R), NEW Q, NEW q \in Seq(Q),
           Lined(e, a, s, b, r, q), b # << >>, NEW x \in S, Answers(x.msg, Head(b).msg)
    PROVE  Lined(e, a, Append(s, x), Tail(b), r, q)
<1> DEFINE la == Len(a)
           ls == Len(s)
           lb == Len(b)
           lr == Len(r)
           lq == Len(q)
           le == Len(e)
           sn == Append(s, x)
           bn == Tail(b)
           lbn == lb - 1
<1>1. la \in Nat /\ ls \in Nat /\ lb \in Nat /\ lr \in Nat /\ lq \in Nat /\ le \in Nat
    BY LenProperties
<1>2. le = la + ls + lb + lr + lq
    BY DEF Lined
<1>a. \A i \in 1 .. la : Answers(a[i].msg, e[i])
    BY DEF Lined
<1>s. \A i \in 1 .. ls : Answers(s[i].msg, e[la + i])
    BY DEF Lined
<1>b. \A i \in 1 .. lb : b[i].msg = e[la + ls + i]
    BY DEF Lined
<1>r. \A i \in 1 .. lr : r[i].msg = e[la + ls + lb + i]
    BY DEF Lined
<1>q. \A i \in 1 .. lq : q[i].msg = e[la + ls + lb + lr + i]
    BY DEF Lined
<1>y. Len(bn) = lbn /\ Head(b) = b[1] /\ \A k \in 1 .. lbn : bn[k] = b[k + 1]
    BY TailOfQueue
<1>3. lbn \in Nat /\ lb = lbn + 1
    BY <1>1, TailOfQueue
<1>4. Answers(x.msg, b[1].msg)
    BY <1>y
<1>x. Len(sn) = ls + 1 /\ sn[ls + 1] = x /\ \A k \in 1 .. ls : sn[k] = s[k]
    BY EndOfQueue
<1> HIDE DEF la, ls, lb, lr, lq, le, sn, bn, lbn
<1>l. le = la + (ls + 1) + lbn + lr + lq
    BY <1>1, <1>2, <1>3
<1>21. ASSUME NEW i \in 1 .. ls + 1
       PROVE  Answers(sn[i].msg, e[la + i])
    <2>1. CASE i \in 1 .. ls
        <3> DEFINE k == la + i
                   j == i
        <3>1. j \in 1 .. ls /\ k = la + j
            BY <1>1, <2>1
        <3>2. sn[i] = s[j]
            BY <1>x, <3>1, <2>1
        <3> HIDE DEF k, j
        <3>3. Answers(s[j].msg, e[la + j])
            BY <1>s, <3>1
        <3>4. e[k] = e[la + j]
            BY <3>1
        <3> QED
            BY <3>2, <3>3, <3>4 DEF k
    <2>2. CASE i = ls + 1
        <3>1. 1 \in 1 .. lb /\ la + i = la + ls + 1
            BY <1>1, <1>3, <2>2
        <3>2. b[1].msg = e[la + i]
            BY <1>b, <3>1
        <3> QED
            BY <1>4, <1>x, <2>2, <3>2
    <2> QED
        BY <1>1, <1>y, <2>1, <2>2
<1>22. ASSUME NEW i \in 1 .. lbn
       PROVE  bn[i].msg = e[la + (ls + 1) + i]
    <2> DEFINE k == la + (ls + 1) + i
               j == i + 1
    <2>1. j \in 1 .. lb /\ k = la + ls + j
        BY <1>1, <1>3
    <2>2. bn[i] = b[j]
        BY <1>y, <2>1
    <2> HIDE DEF k, j
    <2>3. b[j].msg = e[la + ls + j]
        BY <1>b, <2>1
    <2>4. e[k] = e[la + ls + j]
        BY <2>1
    <2> QED
        BY <2>2, <2>3, <2>4 DEF k
<1>23. ASSUME NEW i \in 1 .. lr
       PROVE  r[i].msg = e[la + (ls + 1) + lbn + i]
    <2> DEFINE k == la + (ls + 1) + lbn + i
               j == i
    <2>1. j \in 1 .. lr /\ k = la + ls + lb + j
        BY <1>1, <1>3
    <2>2. r[i] = r[j]
        BY <2>1
    <2> HIDE DEF k, j
    <2>3. r[j].msg = e[la + ls + lb + j]
        BY <1>r, <2>1
    <2>4. e[k] = e[la + ls + lb + j]
        BY <2>1
    <2> QED
        BY <2>2, <2>3, <2>4 DEF k
<1>24. ASSUME NEW i \in 1 .. lq
       PROVE  q[i].msg = e[la + (ls + 1) + lbn + lr + i]
    <2> DEFINE k == la + (ls + 1) + lbn + lr + i
               j == i
    <2>1. j \in 1 .. lq /\ k = la + ls + lb + lr + j
        BY <1>1, <1>3
    <2>2. q[i] = q[j]
        BY <2>1
    <2> HIDE DEF k, j
    <2>3. q[j].msg = e[la + ls + lb + lr + j]
        BY <1>q, <2>1
    <2>4. e[k] = e[la + ls + lb + lr + j]
        BY <2>1
    <2> QED
        BY <2>2, <2>3, <2>4 DEF k
<1> QED
    BY <1>l, <1>a, <1>21, <1>22, <1>23, <1>24, <1>x, <1>y, ZenonT(60)
    DEF Lined, la, lr, lq, le, sn, bn

\* A request arrives.
LEMMA LinedArrived ==
    ASSUME NEW E, NEW e \in Seq(E), NEW A, NEW a \in Seq(A), NEW S, NEW s \in Seq(S),
           NEW B, NEW b \in Seq(B), NEW R, NEW r \in Seq(R), NEW Q, NEW q \in Seq(Q),
           Lined(e, a, s, b, r, q), q # << >>, NEW x \in R, x.msg = Head(q).msg
    PROVE  Lined(e, a, s, b, Append(r, x), Tail(q))
<1> DEFINE la == Len(a)
           ls == Len(s)
           lb == Len(b)
           lr == Len(r)
           lq == Len(q)
           le == Len(e)
           rn == Append(r, x)
           qn == Tail(q)
           lqn == lq - 1
<1>1. la \in Nat /\ ls \in Nat /\ lb \in Nat /\ lr \in Nat /\ lq \in Nat /\ le \in Nat
    BY LenProperties
<1>2. le = la + ls + lb + lr + lq
    BY DEF Lined
<1>a. \A i \in 1 .. la : Answers(a[i].msg, e[i])
    BY DEF Lined
<1>s. \A i \in 1 .. ls : Answers(s[i].msg, e[la + i])
    BY DEF Lined
<1>b. \A i \in 1 .. lb : b[i].msg = e[la + ls + i]
    BY DEF Lined
<1>r. \A i \in 1 .. lr : r[i].msg = e[la + ls + lb + i]
    BY DEF Lined
<1>q. \A i \in 1 .. lq : q[i].msg = e[la + ls + lb + lr + i]
    BY DEF Lined
<1>y. Len(qn) = lqn /\ Head(q) = q[1] /\ \A k \in 1 .. lqn : qn[k] = q[k + 1]
    BY TailOfQueue
<1>3. lqn \in Nat /\ lq = lqn + 1
    BY <1>1, TailOfQueue
<1>4. x.msg = q[1].msg
    BY <1>y
<1>x. Len(rn) = lr + 1 /\ rn[lr + 1] = x /\ \A k \in 1 .. lr : rn[k] = r[k]
    BY EndOfQueue
<1> HIDE DEF la, ls, lb, lr, lq, le, rn, qn, lqn
<1>l. le = la + ls + lb + (lr + 1) + lqn
    BY <1>1, <1>2, <1>3
<1>21. ASSUME NEW i \in 1 .. lr + 1
       PROVE  rn[i].msg = e[la + ls + lb + i]
    <2>1. CASE i \in 1 .. lr
        <3> DEFINE k == la + ls + lb + i
                   j == i
        <3>1. j \in 1 .. lr /\ k = la + ls + lb + j
            BY <1>1, <2>1
        <3>2. rn[i] = r[j]
            BY <1>x, <3>1, <2>1
        <3> HIDE DEF k, j
        <3>3. r[j].msg = e[la + ls + lb + j]
            BY <1>r, <3>1
        <3>4. e[k] = e[la + ls + lb + j]
            BY <3>1
        <3> QED
            BY <3>2, <3>3, <3>4 DEF k
    <2>2. CASE i = lr + 1
        <3>1. 1 \in 1 .. lq /\ la + ls + lb + i = la + ls + lb + lr + 1
            BY <1>1, <1>3, <2>2
        <3>2. q[1].msg = e[la + ls + lb + i]
            BY <1>q, <3>1
        <3> QED
            BY <1>4, <1>x, <2>2, <3>2
    <2> QED
        BY <1>1, <1>y, <2>1, <2>2
<1>22. ASSUME NEW i \in 1 .. lqn
       PROVE  qn[i].msg = e[la + ls + lb + (lr + 1) + i]
    <2> DEFINE k == la + ls + lb + (lr + 1) + i
               j == i + 1
    <2>1. j \in 1 .. lq /\ k = la + ls + lb + lr + j
        BY <1>1, <1>3
    <2>2. qn[i] = q[j]
        BY <1>y, <2>1
    <2> HIDE DEF k, j
    <2>3. q[j].msg = e[la + ls + lb + lr + j]
        BY <1>q, <2>1
    <2>4. e[k] = e[la + ls + lb + lr + j]
        BY <2>1
    <2> QED
        BY <2>2, <2>3, <2>4 DEF k
<1> QED
    BY <1>l, <1>a, <1>s, <1>b, <1>21, <1>22, <1>x, <1>y DEF Lined, la, ls, lb, le, rn, qn

\* A response arrives.
LEMMA LinedReceived ==
    ASSUME NEW E, NEW e \in Seq(E), NEW A, NEW a \in Seq(A), NEW S, NEW s \in Seq(S),
           NEW B, NEW b \in Seq(B), NEW R, NEW r \in Seq(R), NEW Q, NEW q \in Seq(Q),
           Lined(e, a, s, b, r, q), s # << >>, NEW x \in A, x.msg = Head(s).msg
    PROVE  Lined(e, Append(a, x), Tail(s), b, r, q)
<1> DEFINE la == Len(a)
           ls == Len(s)
           lb == Len(b)
           lr == Len(r)
           lq == Len(q)
           le == Len(e)
           an == Append(a, x)
           sn == Tail(s)
           lsn == ls - 1
<1>1. la \in Nat /\ ls \in Nat /\ lb \in Nat /\ lr \in Nat /\ lq \in Nat /\ le \in Nat
    BY LenProperties
<1>2. le = la + ls + lb + lr + lq
    BY DEF Lined
<1>a. \A i \in 1 .. la : Answers(a[i].msg, e[i])
    BY DEF Lined
<1>s. \A i \in 1 .. ls : Answers(s[i].msg, e[la + i])
    BY DEF Lined
<1>b. \A i \in 1 .. lb : b[i].msg = e[la + ls + i]
    BY DEF Lined
<1>r. \A i \in 1 .. lr : r[i].msg = e[la + ls + lb + i]
    BY DEF Lined
<1>q. \A i \in 1 .. lq : q[i].msg = e[la + ls + lb + lr + i]
    BY DEF Lined
<1>y. Len(sn) = lsn /\ Head(s) = s[1] /\ \A k \in 1 .. lsn : sn[k] = s[k + 1]
    BY TailOfQueue
<1>3. lsn \in Nat /\ ls = lsn + 1
    BY <1>1, TailOfQueue
<1>4. x.msg = s[1].msg
    BY <1>y
<1>x. Len(an) = la + 1 /\ an[la + 1] = x /\ \A k \in 1 .. la : an[k] = a[k]
    BY EndOfQueue
<1> HIDE DEF la, ls, lb, lr, lq, le, an, sn, lsn
<1>l. le = la + 1 + lsn + lb + lr + lq
    BY <1>1, <1>2, <1>3
<1>21. ASSUME NEW i \in 1 .. la + 1
       PROVE  Answers(an[i].msg, e[i])
    <2>1. CASE i \in 1 .. la
        <3> DEFINE k == i
                   j == i
        <3>1. j \in 1 .. la /\ k = j
            BY <1>1, <2>1
        <3>2. an[i] = a[j]
            BY <1>x, <3>1, <2>1
        <3> HIDE DEF k, j
        <3>3. Answers(a[j].msg, e[j])
            BY <1>a, <3>1
        <3>4. e[k] = e[j]
            BY <3>1
        <3> QED
            BY <3>2, <3>3, <3>4 DEF k
    <2>2. CASE i = la + 1
        <3>1. 1 \in 1 .. ls
            BY <1>1, <1>3
        <3>2. Answers(s[1].msg, e[i])
            BY <1>s, <2>2, <3>1
        <3> QED
            BY <1>4, <1>x, <2>2, <3>2
    <2> QED
        BY <1>1, <1>y, <2>1, <2>2
<1>22. ASSUME NEW i \in 1 .. lsn
       PROVE  Answers(sn[i].msg, e[la + 1 + i])
    <2> DEFINE k == la + 1 + i
               j == i + 1
    <2>1. j \in 1 .. ls /\ k = la + j
        BY <1>1, <1>3
    <2>2. sn[i] = s[j]
        BY <1>y, <2>1
    <2> HIDE DEF k, j
    <2>3. Answers(s[j].msg, e[la + j])
        BY <1>s, <2>1
    <2>4. e[k] = e[la + j]
        BY <2>1
    <2> QED
        BY <2>2, <2>3, <2>4 DEF k
<1>23. ASSUME NEW i \in 1 .. lb
       PROVE  b[i].msg = e[la + 1 + lsn + i]
    <2> DEFINE k == la + 1 + lsn + i
               j == i
    <2>1. j \in 1 .. lb /\ k = la + ls + j
        BY <1>1, <1>3
    <2>2. b[i] = b[j]
        BY <2>1
    <2> HIDE DEF k, j
    <2>3. b[j].msg = e[la + ls + j]
        BY <1>b, <2>1
    <2>4. e[k] = e[la + ls + j]
        BY <2>1
    <2> QED
        BY <2>2, <2>3, <2>4 DEF k
<1>24. ASSUME NEW i \in 1 .. lr
       PROVE  r[i].msg = e[la + 1 + lsn + lb + i]
    <2> DEFINE k == la + 1 + lsn + lb + i
               j == i
    <2>1. j \in 1 .. lr /\ k = la + ls + lb + j
        BY <1>1, <1>3
    <2>2. r[i] = r[j]
        BY <2>1
    <2> HIDE DEF k, j
    <2>3. r[j].msg = e[la + ls + lb + j]
        BY <1>r, <2>1
    <2>4. e[k] = e[la + ls + lb + j]
        BY <2>1
    <2> QED
        BY <2>2, <2>3, <2>4 DEF k
<1>25. ASSUME NEW i \in 1 .. lq
       PROVE  q[i].msg = e[la + 1 + lsn + lb + lr + i]
    <2> DEFINE k == la + 1 + lsn + lb + lr + i
               j == i
    <2>1. j \in 1 .. lq /\ k = la + ls + lb + lr + j
        BY <1>1, <1>3
    <2>2. q[i] = q[j]
        BY <2>1
    <2> HIDE DEF k, j
    <2>3. q[j].msg = e[la + ls + lb + lr + j]
        BY <1>q, <2>1
    <2>4. e[k] = e[la + ls + lb + lr + j]
        BY <2>1
    <2> QED
        BY <2>2, <2>3, <2>4 DEF k
<1> QED
    BY <1>l, <1>21, <1>22, <1>23, <1>24, <1>25, <1>x, <1>y DEF Lined, lb, lr, lq, le, an, sn

\* The completions of a connection that does not fail.
ServedWc(c) == {wc \in Wc : wc.ok /\ wc.conn = c /\ Live(c)}

\* The responses posted to a connection.
SendQueue(c) == IF Live(c) THEN connections[c].sq ELSE << >>

\* The requests in a batch: a batch of send completions has none.
AskedOf(t) == IF t \in Seq(RecvWc) THEN t ELSE << >>

\* Connection c is the only one, and it does not fail.
OneConnection(c) ==
    /\ DOMAIN handshake = Client
    /\ \A d \in ConnId : Live(d) => d = c
    /\ Live(c) => handshake[TheClient] \notin {"idle", "backlog"}
    /\ cq.send \in Seq(ServedWc(c)) /\ cq.recv \in Seq(ServedWc(c))
    /\ batch \in Seq(ServedWc(c))

\* The receive buffer that is given back next, if any, is buffer 1: it is that of
\* the first request being handled, of the first that has arrived, or the one
\* posted first.
FirstDue(c) ==
    /\ AskedOf(batch) # << >> => Head(AskedOf(batch)).buf = 1
    /\ AskedOf(batch) = << >> /\ cq.recv # << >> => Head(cq.recv).buf = 1
    /\ AskedOf(batch) = << >> /\ cq.recv = << >> /\ Live(c) /\ connections[c].rq # << >> =>
          Head(connections[c].rq) = 1

\* The pool is intact; until a buffer is given back there is no response whose
\* buffer could be, and until the client has been accepted the pool is as it was
\* created.
PoolOf(c) ==
    /\ Intact(pool)
    /\ pool.first_back = 0 => DOMAIN posted_send = {} /\ FirstDue(c)
    /\ ~Live(c) \/ accepting = c =>
          pool = NewPool(BufferCount) /\ cq.recv = << >> /\ AskedOf(batch) = << >>

\* What is inductive of the only connection, on top of ServerInv, ClientTypes
\* and RecvsTracked.
Serving(c) == OneConnection(c) /\ PoolOf(c)

\* The requests not yet answered are in the places of connection c.
Ordered(c) == Lined(expected, c_qp.recv_cq, SendQueue(c), AskedOf(batch), cq.recv, c_qp.sq)

\* The types of the places of a request.
LEMMA LineTyped ==
    ASSUME ServerInv, ClientTypes, NEW c \in ConnId, OneConnection(c)
    PROVE  /\ expected \in Seq(ClientRequest) /\ c_qp.recv_cq \in Seq(ClientWc)
           /\ SendQueue(c) \in Seq(WorkRequests) /\ AskedOf(batch) \in Seq(RecvWc)
           /\ cq.recv \in Seq(ServedWc(c)) /\ c_qp.sq \in Seq(ClientWr)
<1>1. << >> \in Seq(WorkRequests) /\ << >> \in Seq(RecvWc)
    BY EmptySeq
<1>2. Live(c) => connections[c] \in ConnectionType
    BY DEF ServerInv, ServerTypes, Live
<1>3. SendQueue(c) \in Seq(WorkRequests) /\ AskedOf(batch) \in Seq(RecvWc)
    BY <1>1, <1>2 DEF SendQueue, AskedOf, ConnectionType
<1> QED
    BY <1>3 DEF OneConnection, ClientTypes, ClientQueues

\* Completions of a connection that stays are kept.
LEMMA ServedKept ==
    ASSUME NEW c \in ConnId, Live(c) => connections'[c] # NoConnection, NEW t \in Seq(ServedWc(c))
    PROVE  t \in Seq(ServedWc(c)')
<1>1. ServedWc(c) \subseteq ServedWc(c)'
    BY DEF ServedWc, Live
<1> QED
    BY <1>1, SeqMonotonic

\* Send completions are no requests.
LEMMA SendsNotAsked ==
    ASSUME NEW t \in Seq(SendWc)
    PROVE  AskedOf(t) = << >>
<1>1. CASE t = << >>
    BY <1>1 DEF AskedOf
<1>2. CASE t # << >>
    <2>1. t[1] \in SendWc /\ 1 \in DOMAIN t
        BY <1>2, TailOfQueue
    <2>2. ASSUME t \in Seq(RecvWc)
          PROVE  t[1] \in RecvWc
        BY <1>2, <2>2, TailOfQueue
    <2> QED
        BY <2>1, <2>2 DEF AskedOf, SendWc, RecvWc
<1> QED
    BY <1>1, <1>2

\* Receive completions are requests.
LEMMA RecvsAsked ==
    ASSUME NEW t \in Seq(RecvWc)
    PROVE  AskedOf(t) = t
BY DEF AskedOf

\* The pool and the receives stay as they are.
LEMMA PoolStays ==
    ASSUME NEW c \in ConnId, PoolOf(c),
           UNCHANGED <<connections, accepting, pool, posted_send, cq>>,
           AskedOf(batch)' = AskedOf(batch)
    PROVE  PoolOf(c)'
BY DEF PoolOf, FirstDue, Live

\* A step of the client alone.
LEMMA ClientAlone ==
    ASSUME NEW c \in ConnId, Serving(c),
           UNCHANGED <<connections, accepting, pool, posted_send, cq, batch>>,
           handshake' = handshake \/ (~Live(c) /\ DOMAIN handshake' = DOMAIN handshake)
               \/ handshake' = [handshake EXCEPT ![TheClient] = "replied"]
    PROVE  Serving(c)' /\ UNCHANGED <<SendQueue(c), AskedOf(batch), cq.recv>>
<1> USE DEF Serving
<1>1. ServedWc(c)' = ServedWc(c)
    BY DEF ServedWc, Live
<1>2. SendQueue(c)' = SendQueue(c) /\ AskedOf(batch)' = AskedOf(batch) /\ cq.recv' = cq.recv
    BY DEF SendQueue, AskedOf, Live
<1>3. DOMAIN handshake' = Client /\ (Live(c) => handshake'[TheClient] \notin {"idle", "backlog"})
    BY TheClientExists DEF OneConnection
<1>4. Live(c)' <=> Live(c)
    BY DEF Live
<1>5. \A d \in ConnId : connections'[d] # NoConnection => d = c
    BY DEF OneConnection, Live
<1>6. OneConnection(c)'
    BY <1>1, <1>2, <1>3, <1>4, <1>5 DEF OneConnection, Live
<1>7. PoolOf(c)'
    BY <1>2, PoolStays
<1> QED
    BY <1>2, <1>6, <1>7

\* The client calls, or it answers the offer.
LEMMA ConnectInOrder ==
    ASSUME ServerInv, ClientTypes, NEW c \in ConnId, Serving(c),
           (ClientCalls(TheClient) /\ UNCHANGED benchmarkVars) \/ FinishConnect
    PROVE  Serving(c)' /\ (Ordered(c) => Ordered(c)')
<1>2. UNCHANGED <<connections, accepting, pool, posted_send, cq, batch, expected>>
    BY DEF ClientCalls, FinishConnect, ClientReplies, managerVars, loopVars, bufferVars, benchmarkVars
<1>3. c_qp'.sq = c_qp.sq /\ c_qp'.recv_cq = c_qp.recv_cq
    <2>1. c_qp' = c_qp \/ \E bs : c_qp' = [c_qp EXCEPT !.rq = bs]
        BY DEF FinishConnect, PostClientRecvs, benchmarkVars
    <2> QED
        BY <2>1 DEF ClientTypes, ClientQueues
<1>4. handshake' = handshake \/ (~Live(c) /\ DOMAIN handshake' = DOMAIN handshake)
          \/ handshake' = [handshake EXCEPT ![TheClient] = "replied"]
    <2>1. CASE ClientCalls(TheClient)
        <3>1. /\ handshake[TheClient] = "idle"
              /\ handshake' = [handshake EXCEPT ![TheClient] = "backlog"]
            BY <2>1 DEF ClientCalls
        <3> QED
            BY <3>1 DEF Serving, OneConnection
    <2>2. CASE FinishConnect
        BY <2>2 DEF FinishConnect, ClientReplies
    <2> QED
        BY <2>1, <2>2
<1>5. Serving(c)' /\ UNCHANGED <<SendQueue(c), AskedOf(batch), cq.recv>>
    BY <1>2, <1>4, ClientAlone
<1> QED
    BY <1>2, <1>3, <1>5 DEF Ordered

\* A request is sent, or counted without being sent.
LEMMA SendInOrder ==
    ASSUME ServerInv, ClientTypes, NEW c \in ConnId, Serving(c),
           NEW op \in ops, NEW key \in Key, SendRequest(op, key)
    PROVE  Serving(c)' /\ (Ordered(c) => Ordered(c)')
<1>2. UNCHANGED <<handshake, connections, accepting, pool, posted_send, cq, batch>>
    BY DEF SendRequest, serverVars, managerVars, loopVars, bufferVars
<1>3. Serving(c)' /\ UNCHANGED <<SendQueue(c), AskedOf(batch), cq.recv>>
    BY <1>2, ClientAlone
<1>4. CASE c_pool.queue = << >>
    <2>1. UNCHANGED <<c_qp, expected>>
        BY <1>4 DEF SendRequest
    <2> QED
        BY <1>3, <2>1 DEF Ordered
<1>5. CASE c_pool.queue # << >>
    <2>1. PICK b, wr, m : RequestPosted(b, wr, m)
        BY <1>5, SendRequestPosts
    <2>2. /\ m \in ClientRequest /\ wr \in ClientWr /\ wr.msg = m
          /\ expected' = Append(expected, m)
          /\ c_qp'.sq = Append(c_qp.sq, wr) /\ c_qp'.recv_cq = c_qp.recv_cq
        BY <2>1 DEF RequestPosted
    <2>3. /\ expected \in Seq(ClientRequest) /\ c_qp.recv_cq \in Seq(ClientWc)
          /\ SendQueue(c) \in Seq(WorkRequests) /\ AskedOf(batch) \in Seq(RecvWc)
          /\ cq.recv \in Seq(ServedWc(c)) /\ c_qp.sq \in Seq(ClientWr)
        BY LineTyped DEF Serving
    <2>4. ASSUME Ordered(c)
          PROVE  Lined(Append(expected, m), c_qp.recv_cq, SendQueue(c), AskedOf(batch), cq.recv,
                       Append(c_qp.sq, wr))
        BY <2>2, <2>3, <2>4, LinedSent DEF Ordered
    <2> QED
        BY <1>3, <2>2, <2>4 DEF Ordered
<1> QED
    BY <1>4, <1>5

\* The client polls its queues.
LEMMA PollsInOrder ==
    ASSUME ServerInv, ClientTypes, NEW c \in ConnId, Serving(c), PollSends \/ PollResponses
    PROVE  Serving(c)' /\ (Ordered(c) => Ordered(c)')
<1>2. UNCHANGED <<handshake, connections, accepting, pool, posted_send, cq, batch>>
    BY DEF PollSends, PollResponses, serverVars, managerVars, loopVars, bufferVars
<1>3. Serving(c)' /\ UNCHANGED <<SendQueue(c), AskedOf(batch), cq.recv>>
    BY <1>2, ClientAlone
<1>4. CASE PollSends
    <2>1. expected' = expected /\ \E t : c_qp' = [c_qp EXCEPT !.send_cq = t]
        BY <1>4 DEF PollSends
    <2>2. c_qp'.sq = c_qp.sq /\ c_qp'.recv_cq = c_qp.recv_cq
        BY <2>1 DEF ClientTypes, ClientQueues
    <2> QED
        BY <1>3, <2>1, <2>2 DEF Ordered
<1>5. CASE PollResponses
    <2> DEFINE n == Taken(c_qp.recv_cq)
               rest == SubSeq(c_qp.recv_cq, n + 1, Len(c_qp.recv_cq))
    <2>1. /\ expected' = SubSeq(expected, n + 1, Len(expected))
          /\ \E bs : c_qp' = [[c_qp EXCEPT !.recv_cq = rest] EXCEPT !.rq = bs]
        BY <1>5 DEF PollResponses, PostClientRecvs
    <2>2. c_qp.recv_cq \in Seq(ClientWc)
        BY LineTyped DEF Serving
    <2>3. n \in 0 .. Len(c_qp.recv_cq)
        BY <2>2, TakenType
    <2>4. c_qp'.sq = c_qp.sq /\ c_qp'.recv_cq = rest
        BY <2>1 DEF ClientTypes, ClientQueues
    <2> HIDE DEF n
    <2>5. ASSUME Ordered(c)
          PROVE  Lined(expected', rest, SendQueue(c), AskedOf(batch), cq.recv, c_qp.sq)
        BY <2>1, <2>3, <2>5, LineTyped, LinedPolled DEF Ordered, Serving
    <2> HIDE DEF rest
    <2> QED
        BY <1>3, <2>4, <2>5 DEF Ordered
<1> QED
    BY <1>4, <1>5

\* The client is offered a connection, the first there is.
LEMMA OfferInOrder ==
    ASSUME ServerInv, NEW c \in ConnId, Serving(c), OfferParams(TheClient), UNCHANGED benchmarkVars
    PROVE  /\ cq.send = << >> /\ cq.recv = << >> /\ batch = << >>
           /\ \E d \in ConnId : Serving(d)' /\ (Ordered(c) => Ordered(d)')
<1>1. OneConnection(c)
    BY DEF Serving
<1>2. /\ handshake[TheClient] = "backlog" /\ free_conn_ids # << >>
      /\ handshake' = [handshake EXCEPT ![TheClient] = "offered"]
      /\ connections' = [connections EXCEPT ![Last(free_conn_ids)] = NewConnection(TheClient)]
      /\ UNCHANGED <<cq, batch, pool, posted_send, c_qp, expected>>
    BY DEF OfferParams, loopVars, bufferVars, benchmarkVars
<1>3. PICK d \in ConnId : d = Last(free_conn_ids)
    BY <1>2, FrontOfIds DEF ServerInv, ServerTypes, IdsAccounted
<1>4. ~Live(c) /\ \A x \in ConnId : ~Live(x)
    BY <1>1, <1>2 DEF OneConnection
<1>5. ServedWc(c) = {}
    BY <1>4 DEF ServedWc
<1>6. cq.send = << >> /\ cq.recv = << >> /\ batch = << >>
    <2>1. ASSUME NEW t \in Seq({})
          PROVE  t = << >>
        BY TailOfQueue
    <2> QED
        BY <1>1, <1>5, <2>1 DEF OneConnection
<1>7. /\ connections'[d] = NewConnection(TheClient)
      /\ \A x \in ConnId \ {d} : connections'[x] = connections[x]
    BY <1>2, <1>3 DEF ServerInv, ServerTypes
<1>8. SendQueue(c) = << >> /\ SendQueue(d)' = << >>
    BY <1>4, <1>7 DEF SendQueue, NewConnection
<1>9. OneConnection(d)'
    <2>1. DOMAIN handshake' = Client /\ handshake'[TheClient] = "offered"
        BY <1>1, <1>2, TheClientExists DEF OneConnection
    <2>2. \A x \in ConnId : connections'[x] # NoConnection => x = d
        BY <1>4, <1>7 DEF Live
    <2>3. cq'.send \in Seq(ServedWc(d)') /\ cq'.recv \in Seq(ServedWc(d)') /\ batch' \in Seq(ServedWc(d)')
        BY <1>2, <1>6, EmptySeq
    <2> QED
        BY <2>1, <2>2, <2>3 DEF OneConnection, Live
<1>10. Ordered(c) => Ordered(d)'
    BY <1>2, <1>8 DEF AskedOf, Ordered
<1>11. AskedOf(batch)' = << >> /\ cq'.recv = << >> /\ connections'[d].rq = << >>
    BY <1>2, <1>6, <1>7 DEF AskedOf, NewConnection
<1>12. PoolOf(d)'
    BY <1>2, <1>4, <1>11 DEF PoolOf, FirstDue, Serving
<1> QED
    BY <1>3, <1>6, <1>9, <1>10, <1>12 DEF Serving

\* The connection stays, and its posted responses with it.
LEMMA SameConnection ==
    ASSUME NEW c \in ConnId, OneConnection(c), DOMAIN handshake' = DOMAIN handshake,
           handshake' = handshake \/ handshake'[TheClient] = "connected",
           \A d \in ConnId : connections'[d] # NoConnection <=> Live(d),
           cq'.send \in Seq(ServedWc(c)), cq'.recv \in Seq(ServedWc(c)), batch' \in Seq(ServedWc(c))
    PROVE  OneConnection(c)'
<1>1. /\ cq'.send \in Seq(ServedWc(c)') /\ cq'.recv \in Seq(ServedWc(c)')
      /\ batch' \in Seq(ServedWc(c)')
    BY ServedKept
<1>2. \A d \in ConnId : connections'[d] # NoConnection => d = c
    BY DEF OneConnection
<1>3. DOMAIN handshake' = Client
    BY DEF OneConnection
<1>4. connections'[c] # NoConnection => handshake'[TheClient] \notin {"idle", "backlog"}
    BY DEF OneConnection
<1> QED
    BY <1>1, <1>2, <1>3, <1>4 DEF OneConnection, Live

\* The client's answer is accepted.
LEMMA AcceptInOrder ==
    ASSUME ServerInv, NEW c \in ConnId, Serving(c), FinishAccept, UNCHANGED benchmarkVars
    PROVE  Serving(c)' /\ (Ordered(c) => Ordered(c)')
<1>1. OneConnection(c) /\ PoolOf(c)
    BY DEF Serving
<1>2. Live(accepting) /\ accepting = c /\ connections[c] \in ConnectionType
    BY <1>1 DEF FinishAccept, ServerInv, ServerTypes, AcceptingIsNew, OneConnection, Live
<1>3. /\ handshake' = [handshake EXCEPT ![connections[c].client] = "connected"]
      /\ \E bs : connections' = [connections EXCEPT ![c] = [connections[c] EXCEPT !.rq = bs]]
      /\ UNCHANGED <<cq, batch, posted_send, c_qp, expected>>
    BY <1>2 DEF FinishAccept, PostRecvBuffers, benchmarkVars
<1>4. /\ connections'[c] # NoConnection /\ connections'[c].sq = connections[c].sq
      /\ \A d \in ConnId : connections'[d] # NoConnection <=> Live(d)
    <2>1. PICK bs : connections' = [connections EXCEPT ![c] = [connections[c] EXCEPT !.rq = bs]]
        BY <1>3
    <2>2. connections'[c].sq = connections[c].sq /\ \A d \in ConnId \ {c} : connections'[d] = connections[d]
        BY <1>2, <2>1 DEF ServerInv, ServerTypes, ConnectionType
    <2>3. connections'[c] = [connections[c] EXCEPT !.rq = bs]
        BY <2>1 DEF ServerInv, ServerTypes
    <2>4. connections'[c] # NoConnection
        <3>1. DOMAIN [connections[c] EXCEPT !.rq = bs] = {"client", "failed", "counters", "sq", "rq"}
            BY <1>2 DEF ConnectionType
        <3>2. DOMAIN NoConnection = {"client"}
            BY DEF NoConnection
        <3> QED
            BY <2>3, <3>1, <3>2
    <2> QED
        BY <1>2, <2>2, <2>4 DEF Live
<1>5. /\ DOMAIN handshake' = DOMAIN handshake
      /\ handshake'[TheClient] \notin {"idle", "backlog"}
    <2>1. handshake[TheClient] \notin {"idle", "backlog"}
        BY <1>1, <1>2 DEF OneConnection
    <2> QED
        BY <1>1, <1>3, <2>1, TheClientExists DEF OneConnection
<1>6. OneConnection(c)'
    <2>1. /\ cq'.send \in Seq(ServedWc(c)') /\ cq'.recv \in Seq(ServedWc(c)')
          /\ batch' \in Seq(ServedWc(c)')
        BY <1>1, <1>3, <1>4, ServedKept DEF OneConnection
    <2>2. \A d \in ConnId : connections'[d] # NoConnection => d = c
        BY <1>1, <1>4 DEF OneConnection
    <2> QED
        BY <1>1, <1>5, <2>1, <2>2 DEF OneConnection, Live
<1>7. SendQueue(c)' = SendQueue(c) /\ AskedOf(batch)' = AskedOf(batch)
    BY <1>2, <1>3, <1>4 DEF SendQueue, AskedOf, Live
<1>8. /\ pool = NewPool(BufferCount) /\ cq.recv = << >> /\ AskedOf(batch) = << >>
      /\ pool \in Pools(Buffer) /\ pool.first_back = 0 /\ DOMAIN posted_send = {}
    <2>1. pool = NewPool(BufferCount) /\ cq.recv = << >> /\ AskedOf(batch) = << >>
        BY <1>1, <1>2 DEF PoolOf
    <2>2. pool.first_back = 0
        BY <2>1, NewPoolHasAll, KvServerAssumption
    <2> QED
        BY <1>1, <2>1, <2>2 DEF PoolOf, ServerInv, ServerTypes
<1> DEFINE bs == Allocated(pool, RecvCount)
<1>9. /\ pool' = AfterAllocate(pool, RecvCount) /\ accepting' = NoId
      /\ connections' = [connections EXCEPT ![c] = [connections[c] EXCEPT !.rq = @ \o bs]]
    BY <1>2 DEF FinishAccept, PostRecvBuffers
<1>10. /\ bs \in Seq(Buffer) /\ Len(bs) \in Nat /\ Len(bs) <= Len(pool.queue)
       /\ pool'.first_back = 0
       /\ \A i \in 1 .. Len(bs) : bs[i] = pool.queue[i]
    <2>1. /\ bs \in Seq(Buffer) /\ AfterAllocate(pool, RecvCount) \in Pools(Buffer)
          /\ AfterAllocate(pool, RecvCount).first_back = 0
          /\ \A i \in 1 .. Len(bs) : bs[i] = pool.queue[i]
        BY <1>8, AllocateTakes, KvServerAssumption
    <2>2. Len(bs) + Len(AfterAllocate(pool, RecvCount).queue) = Len(pool.queue)
        <3>1. pool \in Pools(Buffer) /\ RecvCount \in Nat
            BY <1>8, KvServerAssumption
        <3> QED
            BY <3>1, AllocateTakes
    <2>3. /\ Len(bs) \in Nat /\ Len(AfterAllocate(pool, RecvCount).queue) \in Nat
          /\ Len(pool.queue) \in Nat
        BY <1>8, <2>1, LenProperties DEF Pools
    <2> QED
        BY <1>9, <2>1, <2>2, <2>3
<1> HIDE DEF bs
<1>11. bs # << >> => Head(bs) = 1
    <2> SUFFICES ASSUME bs # << >>
                 PROVE  Head(bs) = 1
        OBVIOUS
    <2>1. 1 \in 1 .. Len(bs) /\ Head(bs) = bs[1]
        BY <1>10, TailOfQueue
    <2>2. Len(pool.queue) = BufferCount /\ \A i \in 1 .. BufferCount : pool.queue[i] = i
        BY <1>8, NewPoolHasAll, KvServerAssumption
    <2>3. 1 \in 1 .. BufferCount
        BY <1>10, <2>1, <2>2, KvServerAssumption
    <2> QED
        BY <1>10, <2>1, <2>2, <2>3
<1>12. connections'[c].rq = bs
    <2>1. connections[c].rq = << >>
        BY <1>2 DEF FinishAccept, ServerInv, AcceptingIsNew
    <2>2. << >> \o bs = bs
        BY <1>10, ConcatProperties, EmptySeq
    <2>3. connections'[c] = [connections[c] EXCEPT !.rq = @ \o bs]
        BY <1>9 DEF ServerInv, ServerTypes
    <2> QED
        BY <1>2, <2>1, <2>2, <2>3 DEF ConnectionType
<1>13. FirstDue(c)'
    BY <1>3, <1>7, <1>8, <1>11, <1>12 DEF FirstDue
<1>14. PoolOf(c)'
    <2>1. accepting' # c
        BY <1>9 DEF NoId, ConnId
    <2>2. pool'.first_back = 0
        BY <1>10
    <2>3. Intact(pool')
        BY <2>2 DEF Intact
    <2>4. DOMAIN posted_send' = {}
        BY <1>3, <1>8
    <2>5. connections'[c] # NoConnection
        BY <1>4
    <2> QED
        BY <1>13, <2>1, <2>3, <2>4, <2>5 DEF PoolOf, Live
<1>15. UNCHANGED <<expected, c_qp, SendQueue(c), AskedOf(batch), cq>>
    BY <1>3, <1>7
<1>16. Ordered(c) => Ordered(c)'
    BY <1>15 DEF Ordered
<1> QED
    BY <1>6, <1>14, <1>16 DEF Serving

\* The server polls: a batch of requests is taken in the order they came.
LEMMA PollInOrder ==
    ASSUME ServerInv, ClientTypes, RecvsTracked, NEW c \in ConnId, Serving(c), Poll, UNCHANGED benchmarkVars
    PROVE  Serving(c)' /\ (Ordered(c) => Ordered(c)')
<1>1. OneConnection(c) /\ PoolOf(c)
    BY DEF Serving
<1> DEFINE q == cq[turn]
           n == IF Len(q) < BatchSize THEN Len(q) ELSE BatchSize
           rest == SubSeq(q, n + 1, Len(q))
<1>2. /\ turn \in {"send", "recv"} /\ batch = << >>
      /\ batch' = SubSeq(q, 1, n) /\ cq' = [cq EXCEPT ![turn] = rest]
      /\ UNCHANGED <<handshake, connections, accepting, pool, posted_send, c_qp, expected>>
    BY DEF Poll, managerVars, bufferVars, clientVars, benchmarkVars
<1>3. q \in Seq(ServedWc(c)) /\ Len(q) \in Nat /\ cq \in [send : Seq(Wc), recv : Seq(Wc)]
    BY <1>1, <1>2, LenProperties DEF OneConnection, ServerInv, ServerTypes
<1>4. n \in 0 .. Len(q)
    BY <1>3, KvServerAssumption
<1> HIDE DEF n
<1>5. \A S : q \in Seq(S) => batch' \in Seq(S) /\ rest \in Seq(S)
    BY <1>2, <1>4, TakeBatch
<1> HIDE DEF rest, q
<1>6. OneConnection(c)'
    <2>1. cq'.send \in Seq(ServedWc(c)) /\ cq'.recv \in Seq(ServedWc(c)) /\ batch' \in Seq(ServedWc(c))
        BY <1>1, <1>2, <1>3, <1>5 DEF OneConnection
    <2> QED
        BY <1>1, <1>2, <2>1, SameConnection DEF Live
<1>7. SendQueue(c)' = SendQueue(c) /\ AskedOf(batch) = << >>
    BY <1>2 DEF SendQueue, AskedOf, Live
<1>8. /\ expected \in Seq(ClientRequest) /\ c_qp.recv_cq \in Seq(ClientWc)
      /\ SendQueue(c) \in Seq(WorkRequests) /\ c_qp.sq \in Seq(ClientWr)
    BY <1>1, LineTyped
<1>9. CASE turn = "send"
    <2>1. q \in Seq(SendWc) /\ cq'.recv = cq.recv
        BY <1>2, <1>3, <1>9 DEF RecvsTracked, KindsApart, q
    <2>2. AskedOf(batch)' = << >>
        BY <1>5, <2>1, SendsNotAsked
    <2> QED
        BY <1>1, <1>2, <1>6, <1>7, <2>1, <2>2 DEF Serving, Ordered, PoolOf, FirstDue, Live
<1>10. CASE turn = "recv"
    <2>1. q \in Seq(RecvWc) /\ q = cq.recv /\ cq'.recv = rest
        BY <1>2, <1>3, <1>10 DEF RecvsTracked, KindsApart, q
    <2>2. AskedOf(batch)' = batch'
        BY <1>5, <2>1, RecvsAsked
    <2>3. ASSUME Ordered(c)
          PROVE  Lined(expected, c_qp.recv_cq, SendQueue(c), << >>, q, c_qp.sq)
        BY <1>7, <2>1, <2>3 DEF Ordered
    <2>4. ASSUME Ordered(c)
          PROVE  Lined(expected, c_qp.recv_cq, SendQueue(c), batch', rest, c_qp.sq)
        BY <1>2, <1>4, <1>8, <2>1, <2>3, <2>4, LinedTaken DEF rest
    <2>5. Ordered(c) => Ordered(c)'
        BY <1>2, <1>6, <1>7, <2>1, <2>2, <2>4 DEF Ordered
    <2>6. /\ q = << >> => batch' = << >> /\ rest = << >>
          /\ q # << >> => batch' # << >> /\ Head(batch') = Head(q)
        <3>1. Len(batch') = n /\ Len(rest) = Len(q) - n /\ \A i \in 1 .. n : batch'[i] = q[i]
            BY <1>2, <1>3, <1>4, StartOfQueue, RestOfQueue DEF rest
        <3>2. batch' \in Seq(RecvWc) /\ rest \in Seq(RecvWc)
            BY <1>5, <2>1
        <3>3. CASE q = << >>
            <4>1. Len(q) = 0 /\ n = 0
                BY <1>3, <1>4, <3>3, EmptySeq
            <4> QED
                BY <3>1, <3>2, <3>3, <4>1, EmptySeq
        <3>4. CASE q # << >>
            <4>1. Len(q) # 0 /\ Head(q) = q[1]
                BY <1>3, <3>4, TailOfQueue
            <4>2. n \in Nat \ {0} /\ 1 \in 1 .. n
                BY <1>3, <4>1, KvServerAssumption DEF n
            <4>3. batch' # << >>
                BY <3>1, <4>2, EmptySeq
            <4>4. Head(batch') = batch'[1]
                BY <3>2, <4>3, TailOfQueue
            <4> QED
                BY <3>1, <3>4, <4>1, <4>2, <4>3, <4>4
        <3> QED
            BY <3>3, <3>4
    <2>7. PoolOf(c)'
        <3>1. FirstDue(c) => FirstDue(c)'
            BY <1>2, <1>7, <2>1, <2>2, <2>6 DEF FirstDue, Live
        <3>2. ~Live(c) \/ accepting = c => q = << >>
            BY <1>1, <2>1 DEF PoolOf
        <3> QED
            BY <1>1, <1>2, <2>1, <2>2, <2>6, <3>1, <3>2 DEF PoolOf, Live
    <2> QED
        BY <1>6, <2>5, <2>7 DEF Serving
<1> QED
    BY <1>2, <1>9, <1>10

\* The completion that is handled is of the connection; what is left of the
\* batch is of its kind.
LEMMA HandledServed ==
    ASSUME ServerInv, RecvsTracked, NEW c \in ConnId, OneConnection(c),
           NEW wc, NEW kind, NEW ok, Handling(wc, kind, ok)
    PROVE  /\ wc \in Wc /\ wc.kind = kind /\ wc.ok = ok /\ wc.ok /\ wc.conn = c /\ Live(c)
           /\ batch # << >> /\ wc = Head(batch) /\ batch' = Tail(batch)
           /\ batch' \in Seq(ServedWc(c)) /\ accepting = NoId /\ handshake' = handshake
           /\ kind = "send" => batch \in Seq(SendWc) /\ batch' \in Seq(SendWc)
           /\ kind = "recv" => wc \in RecvWc /\ batch \in Seq(RecvWc) /\ batch' \in Seq(RecvWc)
<1>1. /\ batch # << >> /\ wc = Head(batch) /\ batch' = Tail(batch) /\ wc.kind = kind
      /\ wc.ok = ok /\ accepting = NoId /\ handshake' = handshake
    BY DEF Handling, clientVars
<1>2. wc \in ServedWc(c) /\ batch' \in Seq(ServedWc(c))
    BY <1>1, TailOfQueue DEF OneConnection
<1>3. wc \in Wc /\ wc.ok /\ wc.conn = c /\ Live(c)
    BY <1>2 DEF ServedWc
<1>4. CASE batch \in Seq(SendWc)
    <2>1. wc \in SendWc /\ batch' \in Seq(SendWc)
        BY <1>1, <1>4, TailOfQueue
    <2> QED
        BY <1>1, <1>2, <1>3, <1>4, <2>1 DEF SendWc
<1>5. CASE batch \in Seq(RecvWc)
    <2>1. wc \in RecvWc /\ batch' \in Seq(RecvWc)
        BY <1>1, <1>5, TailOfQueue
    <2> QED
        BY <1>1, <1>2, <1>3, <1>5, <2>1 DEF RecvWc
<1> QED
    BY <1>4, <1>5 DEF RecvsTracked, KindsApart

\* A send completion has no part in the order.
LEMMA HandleSendInOrder ==
    ASSUME ServerInv, RecvsTracked, NEW c \in ConnId, Serving(c),
           NEW wc, HandleSendCompletion(wc), UNCHANGED benchmarkVars
    PROVE  Serving(c)' /\ (Ordered(c) => Ordered(c)')
<1>1. OneConnection(c) /\ PoolOf(c)
    BY DEF Serving
<1>2. /\ Handling(wc, "send", TRUE) /\ UNCHANGED <<connections, cq, c_qp, expected>>
    BY DEF HandleSendCompletion, managerVars, benchmarkVars
<1>3. /\ batch' \in Seq(ServedWc(c)) /\ handshake' = handshake
      /\ batch \in Seq(SendWc) /\ batch' \in Seq(SendWc)
    BY <1>1, <1>2, HandledServed
<1>4. AskedOf(batch) = << >> /\ AskedOf(batch)' = << >>
    BY <1>3, SendsNotAsked
<1>5. SendQueue(c)' = SendQueue(c)
    BY <1>2 DEF SendQueue, Live
<1>6. OneConnection(c)'
    <2>1. cq'.send \in Seq(ServedWc(c)) /\ cq'.recv \in Seq(ServedWc(c))
        BY <1>1, <1>2 DEF OneConnection
    <2> QED
        BY <1>1, <1>2, <1>3, <2>1, SameConnection DEF Live
<1>7. PoolOf(c)'
    <2>1. accepting' = NoId /\ NoId # c /\ Live(c)
        BY <1>1, <1>2, HandledServed DEF Handling, NoId, ConnId
    <2>2. CASE pool.first_back = 0
        <3>1. DOMAIN posted_send = {} /\ FirstDue(c)
            BY <1>1, <2>2 DEF PoolOf
        <3>2. UNCHANGED <<pool, posted_send>>
            BY <3>1 DEF HandleSendCompletion
        <3>3. FirstDue(c)'
            BY <1>2, <1>4, <3>1 DEF FirstDue, Live
        <3> QED
            BY <1>1, <1>2, <2>1, <3>1, <3>2, <3>3 DEF PoolOf, Live
    <2>3. CASE pool.first_back = 1
        <3>1. pool'.first_back = 1
            BY <2>3 DEF HandleSendCompletion, AfterFree
        <3> QED
            BY <1>2, <2>1, <3>1 DEF PoolOf, Intact, Live
    <2> QED
        BY <1>1, <2>2, <2>3 DEF PoolOf, Intact
<1> QED
    BY <1>2, <1>4, <1>5, <1>6, <1>7 DEF Serving, Ordered

\* A response answers its request.
LEMMA ResponseAnswers ==
    ASSUME NEW msg \in ClientRequest
    PROVE  Answers(ResponseTo(msg), msg)
BY DEF Answers, ResponseTo, ClientRequest

\* A request that is being handled finds a free buffer for its response.
BuffersSuffice == batch # << >> /\ Head(batch).kind = "recv" => pool.queue # << >>

\* A request of the client is processed: its context is there and its buffer
\* tracked.
LEMMA RequestProcessed ==
    ASSUME ServerInv, RecvsTracked, NEW c \in ConnId, OneConnection(c), NEW wc, HandleRequest(wc)
    PROVE  /\ <<c, wc.buf>> \in posted_recv /\ conn_contexts[c] # NoContext
           /\ Process(c, wc.buf, wc.msg)
<1>1. OneConnection(c)
    OBVIOUS
<1>2. Handling(wc, "recv", TRUE)
    BY DEF HandleRequest
<1>3. /\ wc.conn = c /\ Live(c) /\ batch # << >> /\ wc = Head(batch) /\ batch' = Tail(batch)
      /\ wc \in RecvWc /\ wc.kind = "recv" /\ wc.ok /\ accepting = NoId /\ handshake' = handshake
      /\ batch' \in Seq(ServedWc(c)) /\ batch \in Seq(RecvWc) /\ batch' \in Seq(RecvWc)
    <2>1. /\ wc.conn = c /\ Live(c) /\ batch # << >> /\ wc = Head(batch) /\ batch' = Tail(batch)
          /\ wc.kind = "recv" /\ wc.ok /\ accepting = NoId /\ handshake' = handshake
          /\ batch' \in Seq(ServedWc(c))
        BY <1>1, <1>2, HandledServed
    <2>2. wc \in RecvWc /\ batch \in Seq(RecvWc) /\ batch' \in Seq(RecvWc)
        BY <1>1, <1>2, HandledServed
    <2> QED
        BY <2>1, <2>2
<1>7. <<c, wc.buf>> \in posted_recv
    <2>1. 1 \in DOMAIN Arrivals /\ Arrivals[1] = wc
        <3>1. batch \in Seq(Wc) /\ cq.recv \in Seq(Wc)
            BY DEF ServerInv, ServerTypes
        <3>2. Len(batch) \in Nat \ {0} /\ Len(cq.recv) \in Nat /\ 1 \in 1 .. Len(batch) /\ batch[1] = wc
            BY <1>3, <3>1, TailOfQueue, LenProperties
        <3>3. /\ batch \o cq.recv \in Seq(Wc) /\ Len(batch \o cq.recv) = Len(batch) + Len(cq.recv)
              /\ (batch \o cq.recv)[1] = batch[1]
            BY <3>1, <3>2, ConcatProperties
        <3>4. 1 \in DOMAIN (batch \o cq.recv)
            BY <3>2, <3>3, LenProperties
        <3> QED
            BY <3>2, <3>3, <3>4 DEF Arrivals
    <2> QED
        BY <1>3, <2>1 DEF RecvsTracked, ArrivalsTracked, Arrived
<1>8. c \in registered /\ conn_contexts[c] # NoContext
    <2>1. c # accepting
        BY <1>3 DEF NoId, ConnId
    <2>2. connections[c].client \in Client
        BY <1>3 DEF ServerInv, ServerTypes, Live, ConnectionType
    <2>3. conn_contexts[c].client = connections[c].client /\ c \in registered
        BY <1>3, <2>1 DEF ServerInv, ContextMatchesConnection
    <2> QED
        BY <2>2, <2>3, ClientAssumption DEF NoContext
<1>9. Process(c, wc.buf, wc.msg)
    BY <1>3, <1>7, <1>8 DEF HandleRequest
<1> QED
    BY <1>7, <1>8, <1>9

\* The buffer of the first request is the first that is given back.
LEMMA HandleRequestPool ==
    ASSUME ServerInv, RecvsTracked, NEW c \in ConnId, Serving(c), NEW wc, HandleRequest(wc)
    PROVE  pool'.first_back = 1 /\ accepting' = NoId
<1>1. OneConnection(c) /\ PoolOf(c)
    BY DEF Serving
<1>2. Handling(wc, "recv", TRUE)
    BY DEF HandleRequest
<1>3. Process(c, wc.buf, wc.msg)
    BY <1>1, RequestProcessed
<1>4. batch # << >> /\ wc = Head(batch) /\ wc \in RecvWc /\ batch \in Seq(RecvWc)
    <2>1. batch # << >> /\ wc = Head(batch)
        BY <1>1, <1>2, HandledServed
    <2>2. wc \in RecvWc /\ batch \in Seq(RecvWc)
        BY <1>1, <1>2, HandledServed
    <2> QED
        BY <2>1, <2>2
<1>5. pool.first_back = 0 => wc.buf = 1
    <2>1. AskedOf(batch) = batch
        BY <1>4, RecvsAsked
    <2> QED
        BY <1>1, <1>4, <2>1 DEF PoolOf, FirstDue
<1>6. pool.first_back \in {0, 1} /\ pool \in Pools(Buffer)
    BY <1>1 DEF PoolOf, Intact, ServerInv, ServerTypes
<1>7. PICK p : /\ p = pool \/ p = AfterAllocate(pool, 1)
               /\ pool' = AfterAllocate(AfterFree(p, wc.buf), 1)
    BY <1>3 DEF Process, PostRecvBuffers
<1>8. p \in Pools(Buffer) /\ p.first_back = pool.first_back
    BY <1>6, <1>7, AllocateTakes
<1>9. wc.buf \in Buffer
    BY <1>4 DEF RecvWc
<1>10. AfterFree(p, wc.buf) \in Pools(Buffer)
    BY <1>8, <1>9, FreeAdds, BuffersNumbered
<1>11. AfterFree(p, wc.buf).first_back = 1
    BY <1>5, <1>6, <1>8 DEF AfterFree
<1>12. AfterAllocate(AfterFree(p, wc.buf), 1).first_back = 1
    BY <1>10, <1>11, AllocateTakes
<1> QED
    BY <1>2, <1>7, <1>12 DEF Handling

\* A request is answered: its response is posted behind those of the requests
\* before it.  Without a buffer for the response it is dropped.
LEMMA HandleRequestInOrder ==
    ASSUME ServerInv, ClientTypes, RecvsTracked, NEW c \in ConnId, Serving(c),
           NEW wc, HandleRequest(wc), UNCHANGED benchmarkVars
    PROVE  Serving(c)' /\ (BuffersSuffice /\ Ordered(c) => Ordered(c)')
<1>1. OneConnection(c)
    BY DEF Serving
<1>2. Handling(wc, "recv", TRUE) /\ UNCHANGED <<cq, c_qp, expected>>
    BY DEF HandleRequest, benchmarkVars
<1>3. /\ wc.conn = c /\ Live(c) /\ batch # << >> /\ wc = Head(batch) /\ batch' = Tail(batch)
      /\ wc \in RecvWc /\ wc.kind = "recv" /\ wc.ok /\ accepting = NoId /\ handshake' = handshake
      /\ batch' \in Seq(ServedWc(c)) /\ batch \in Seq(RecvWc) /\ batch' \in Seq(RecvWc)
    <2>1. /\ wc.conn = c /\ Live(c) /\ batch # << >> /\ wc = Head(batch) /\ batch' = Tail(batch)
          /\ wc.kind = "recv" /\ wc.ok /\ accepting = NoId /\ handshake' = handshake
          /\ batch' \in Seq(ServedWc(c))
        BY <1>1, <1>2, HandledServed
    <2>2. wc \in RecvWc /\ batch \in Seq(RecvWc) /\ batch' \in Seq(RecvWc)
        BY <1>1, <1>2, HandledServed
    <2> QED
        BY <2>1, <2>2
<1>4. AskedOf(batch) = batch /\ AskedOf(batch)' = batch' /\ SendQueue(c) = connections[c].sq
    BY <1>3, RecvsAsked DEF SendQueue
<1>5. /\ expected \in Seq(ClientRequest) /\ c_qp.recv_cq \in Seq(ClientWc)
      /\ SendQueue(c) \in Seq(WorkRequests) /\ cq.recv \in Seq(ServedWc(c)) /\ c_qp.sq \in Seq(ClientWr)
    BY <1>1, LineTyped
<1>7. pool'.first_back = 1 /\ accepting' = NoId /\ Intact(pool')
    BY HandleRequestPool DEF Intact
<1>8. /\ <<c, wc.buf>> \in posted_recv /\ conn_contexts[c] # NoContext
      /\ Process(c, wc.buf, wc.msg)
    BY <1>1, RequestProcessed
<1>10. wc.buf \in Buffer /\ wc.msg \in Request
    BY <1>3 DEF RecvWc
<1>11. PICK b \in Buffer :
          \/ (wc.msg.op = "SHORT" \/ pool.queue = << >>) /\ Dropped(c, wc.buf, b)
          \/ wc.msg.op # "SHORT" /\ \E rb \in FreeBuffers : Answered(c, wc.buf, wc.msg, rb, b)
    BY <1>3, <1>7, <1>8, <1>10, ProcessCases DEF RecvsTracked
<1>12. connections'[c] # NoConnection /\ \A d \in ConnId \ {c} : connections'[d] = connections[d]
    BY <1>11 DEF Answered, Dropped, Replaced
<1>13. OneConnection(c)'
    <2>1. cq'.send \in Seq(ServedWc(c)) /\ cq'.recv \in Seq(ServedWc(c))
        BY <1>1, <1>2 DEF OneConnection
    <2>2. \A d \in ConnId : connections'[d] # NoConnection <=> Live(d)
        BY <1>3, <1>12 DEF Live
    <2> QED
        BY <1>1, <1>3, <2>1, <2>2, SameConnection
<1>14. PoolOf(c)'
    <2>1. accepting' # c
        BY <1>7 DEF NoId, ConnId
    <2> QED
        BY <1>7, <1>12, <2>1 DEF PoolOf, Live
<1>15. ASSUME BuffersSuffice, Ordered(c)
       PROVE  Ordered(c)'
    <2>1. Lined(expected, c_qp.recv_cq, SendQueue(c), batch, cq.recv, c_qp.sq)
        BY <1>4, <1>15 DEF Ordered
    <2>2. wc.msg \in ClientRequest
        <3> DEFINE la == Len(c_qp.recv_cq)
                   ls == Len(SendQueue(c))
                   lb == Len(batch)
                   lr == Len(cq.recv)
                   lq == Len(c_qp.sq)
                   le == Len(expected)
                   k == la + ls + 1
        <3>1. lb \in Nat \ {0} /\ wc = batch[1] /\ 1 \in 1 .. lb
            BY <1>3, TailOfQueue
        <3>2. wc.msg = expected[k]
            BY <2>1, <3>1 DEF Lined
        <3>3. k \in 1 .. le
            <4>1. la \in Nat /\ ls \in Nat /\ lr \in Nat /\ lq \in Nat
                BY <1>5, LenProperties
            <4>2. le = la + ls + lb + lr + lq
                BY <2>1 DEF Lined
            <4> HIDE DEF la, ls, lb, lr, lq, le
            <4> QED
                BY <3>1, <4>1, <4>2
        <3> QED
            BY <1>5, <3>2, <3>3, ElementOfSeq
    <2>3. wc.msg.op # "SHORT" /\ pool.queue # << >>
        BY <1>3, <1>15, <2>2 DEF ClientRequest, BuffersSuffice
    <2>4. PICK rb \in FreeBuffers : Answered(c, wc.buf, wc.msg, rb, b)
        BY <1>11, <2>3
    <2> DEFINE wr == AnswerTo(c, wc.msg, rb)
    <2>5. /\ connections'[c].sq = Append(connections[c].sq, wr)
          /\ wr \in WorkRequests /\ wr.msg = ResponseTo(wc.msg)
        BY <2>4 DEF Answered, AnswerTo
    <2> HIDE DEF wr
    <2>6. SendQueue(c)' = Append(SendQueue(c), wr)
        BY <1>4, <1>12, <2>5 DEF SendQueue, Live
    <2>7. Answers(wr.msg, Head(batch).msg)
        BY <1>3, <2>2, <2>5, ResponseAnswers
    <2>8. Lined(expected, c_qp.recv_cq, Append(SendQueue(c), wr), Tail(batch), cq.recv, c_qp.sq)
        <3>1. batch \in Seq(RecvWc) /\ batch # << >> /\ wr \in WorkRequests
            BY <1>3, <2>5
        <3> QED
            BY <1>5, <2>1, <2>7, <3>1, LinedAnswered
    <2> QED
        BY <1>2, <1>3, <1>4, <2>6, <2>8 DEF Ordered
<1> QED
    BY <1>13, <1>14, <1>15 DEF Serving

\* A request arrives behind those before it.
LEMMA RequestInOrder ==
    ASSUME ServerInv, ClientTypes, NEW c \in ConnId, Serving(c), NEW d \in ConnId, RequestTravels(d)
    PROVE  Serving(c)' /\ (Ordered(c) => Ordered(c)')
<1>1. OneConnection(c) /\ PoolOf(c)
    BY DEF Serving
<1>2. d = c /\ Live(c)
    BY <1>1 DEF RequestTravels, ReceiveMessage, OneConnection
<1>3. PICK wr : wr = Head(c_qp.sq)
    OBVIOUS
<1>4. PICK b : b = Head(connections[c].rq)
    OBVIOUS
<1>5. PICK wc : wc = RecvCompletion(TRUE, c, b, wr.msg)
    OBVIOUS
<1>6. /\ c_qp.sq # << >> /\ connections[c].rq # << >>
      /\ connections' = [connections EXCEPT ![c].rq = Tail(@)]
      /\ cq' = [cq EXCEPT !.recv = Append(@, wc)]
      /\ \E t : c_qp' = [c_qp EXCEPT !.sq = Tail(@), !.send_cq = t]
      /\ UNCHANGED <<handshake, batch, accepting, pool, posted_send, expected>>
    BY <1>2, <1>3, <1>4, <1>5 DEF RequestTravels, ReceiveMessage, loopVars, bufferVars, clientVars
<1>7. connections[c] \in ConnectionType /\ b \in Buffer /\ Tail(connections[c].rq) \in Seq(Buffer)
    <2>1. connections[c] \in ConnectionType
        BY <1>2 DEF ServerInv, ServerTypes, Live
    <2> QED
        BY <1>4, <1>6, <2>1, TailOfQueue DEF ConnectionType
<1>8. /\ expected \in Seq(ClientRequest) /\ c_qp.recv_cq \in Seq(ClientWc)
      /\ SendQueue(c) \in Seq(WorkRequests) /\ AskedOf(batch) \in Seq(RecvWc)
      /\ cq.recv \in Seq(ServedWc(c)) /\ c_qp.sq \in Seq(ClientWr)
    BY <1>1, LineTyped
<1>9. wr.msg \in Request
    <2>1. wr \in ClientWr
        BY <1>3, <1>6, <1>8, TailOfQueue
    <2> QED
        BY <2>1 DEF ClientWr, ClientRequest, Request, RequestKind
<1>10. wc \in ServedWc(c) /\ wc.msg = wr.msg
    <2>1. wc.ok /\ wc.conn = c /\ wc.msg = wr.msg
        BY <1>5 DEF RecvCompletion
    <2>2. wc \in Wc
        BY <1>2, <1>5, <1>7, <1>9, CompletionType
    <2> QED
        BY <1>2, <2>1, <2>2 DEF ServedWc
<1>11. c_qp'.sq = Tail(c_qp.sq) /\ c_qp'.recv_cq = c_qp.recv_cq
    BY <1>6 DEF ClientTypes, ClientQueues
<1>12. cq'.send = cq.send /\ cq'.recv = Append(cq.recv, wc)
    BY <1>6 DEF ServerInv, ServerTypes
<1>13. ASSUME Ordered(c)
       PROVE  Lined(expected, c_qp.recv_cq, SendQueue(c), AskedOf(batch), Append(cq.recv, wc),
                    Tail(c_qp.sq))
    BY <1>3, <1>6, <1>8, <1>10, <1>13, LinedArrived DEF Ordered
<1>14. /\ connections'[c] # NoConnection /\ connections'[c].sq = connections[c].sq
       /\ \A x \in ConnId \ {c} : connections'[x] = connections[x]
    <2>1. /\ connections'[c] \in ConnectionType /\ connections'[c].sq = connections[c].sq
          /\ \A x \in ConnId \ {c} : connections'[x] = connections[x]
        BY <1>6, <1>7 DEF ServerInv, ServerTypes, ConnectionType
    <2> QED
        BY <2>1, ConnectionIsLive
<1>15. SendQueue(c)' = SendQueue(c) /\ AskedOf(batch)' = AskedOf(batch)
    BY <1>2, <1>6, <1>14 DEF SendQueue, AskedOf, Live
<1>16. OneConnection(c)'
    <2>1. /\ cq'.send \in Seq(ServedWc(c)) /\ cq'.recv \in Seq(ServedWc(c))
          /\ batch' \in Seq(ServedWc(c))
        BY <1>1, <1>6, <1>10, <1>12, AppendProperties DEF OneConnection
    <2>2. \A x \in ConnId : connections'[x] # NoConnection <=> Live(x)
        BY <1>2, <1>14 DEF Live
    <2> QED
        BY <1>1, <1>6, <2>1, <2>2, SameConnection
<1>17. Ordered(c) => Ordered(c)'
    BY <1>6, <1>11, <1>12, <1>13, <1>15 DEF Ordered
<1>18. PoolOf(c)'
    <2>1. accepting # c
        BY <1>2, <1>6 DEF ServerInv, AcceptingIsNew, NoId, ConnId
    <2>2. cq'.recv # << >> /\ (cq.recv = << >> => Head(cq'.recv) = wc)
          /\ (cq.recv # << >> => Head(cq'.recv) = Head(cq.recv))
        <3>1. /\ Len(cq'.recv) = Len(cq.recv) + 1 /\ cq'.recv[Len(cq.recv) + 1] = wc
              /\ \A i \in 1 .. Len(cq.recv) : cq'.recv[i] = cq.recv[i]
              /\ Len(cq.recv) \in Nat /\ cq'.recv \in Seq(ServedWc(c))
            BY <1>8, <1>10, <1>12, EndOfQueue, LenProperties, AppendProperties
        <3>2. cq'.recv # << >>
            BY <3>1, EmptySeq
        <3>3. Head(cq'.recv) = cq'.recv[1]
            BY <3>1, <3>2, TailOfQueue
        <3>4. CASE cq.recv = << >>
            <4>1. Len(cq.recv) = 0
                BY <3>4, EmptySeq
            <4> QED
                BY <3>1, <3>2, <3>3, <3>4, <4>1
        <3>5. CASE cq.recv # << >>
            <4>1. Head(cq.recv) = cq.recv[1] /\ Len(cq.recv) # 0
                BY <1>8, <3>5, TailOfQueue
            <4> QED
                BY <3>1, <3>2, <3>3, <3>5, <4>1
        <3> QED
            BY <3>4, <3>5
    <2>3. wc.buf = b
        BY <1>5 DEF RecvCompletion
    <2>4. FirstDue(c) => FirstDue(c)'
        BY <1>2, <1>4, <1>6, <1>15, <2>2, <2>3 DEF FirstDue
    <2> QED
        BY <1>1, <1>2, <1>6, <1>14, <2>1, <2>4 DEF PoolOf, Live
<1> QED
    BY <1>16, <1>17, <1>18 DEF Serving

\* A response arrives behind those before it.
LEMMA ResponseInOrder ==
    ASSUME ServerInv, ClientTypes, NEW c \in ConnId, Serving(c), NEW d \in ConnId, ResponseTravels(d)
    PROVE  Serving(c)' /\ (Ordered(c) => Ordered(c)')
<1>1. OneConnection(c) /\ PoolOf(c)
    BY DEF Serving
<1>2. d = c /\ Live(c)
    BY <1>1 DEF ResponseTravels, FinishSend, OneConnection
<1>3. PICK wr : wr = Head(connections[c].sq)
    OBVIOUS
<1>4. PICK x : x = [buf |-> Head(c_qp.rq), msg |-> wr.msg]
    OBVIOUS
<1>5. PICK wc : wc = SendCompletion(TRUE, c, wr.wr_id)
    OBVIOUS
<1>6. /\ c_qp.rq # << >> /\ connections[c].sq # << >>
      /\ connections' = [connections EXCEPT ![c].sq = Tail(@)]
      /\ cq' = IF wr.signaled THEN [cq EXCEPT !.send = Append(@, wc)] ELSE cq
      /\ \E t : c_qp' = [c_qp EXCEPT !.rq = t, !.recv_cq = Append(@, x)]
      /\ UNCHANGED <<handshake, batch, accepting, pool, posted_send, expected>>
    BY <1>2, <1>3, <1>4, <1>5 DEF ResponseTravels, FinishSend, loopVars, bufferVars, clientVars
<1>7. /\ expected \in Seq(ClientRequest) /\ c_qp.recv_cq \in Seq(ClientWc)
      /\ SendQueue(c) \in Seq(WorkRequests) /\ AskedOf(batch) \in Seq(RecvWc)
      /\ cq.recv \in Seq(ServedWc(c)) /\ c_qp.sq \in Seq(ClientWr)
    BY <1>1, LineTyped
<1>8. SendQueue(c) = connections[c].sq
    BY <1>2 DEF SendQueue
<1>9. wr \in WorkRequests /\ Tail(connections[c].sq) \in Seq(WorkRequests)
    BY <1>3, <1>6, <1>7, <1>8, TailOfQueue
<1>10. x \in ClientWc /\ x.msg = wr.msg
    <2>1. Head(c_qp.rq) \in ClientBuffer
        BY <1>6, TailOfQueue DEF ClientTypes, ClientQueues
    <2> QED
        BY <1>4, <1>9, <2>1 DEF ClientWc, WorkRequests
<1>11. wc \in ServedWc(c)
    <2>1. wr.wr_id \in Number /\ TRUE \in BOOLEAN
        BY <1>9 DEF WorkRequests
    <2>2. wc \in Wc
        BY <1>2, <1>5, <2>1, CompletionType
    <2>3. wc.ok /\ wc.conn = c
        BY <1>5 DEF SendCompletion
    <2> QED
        BY <1>2, <2>2, <2>3 DEF ServedWc
<1>12. c_qp'.sq = c_qp.sq /\ c_qp'.recv_cq = Append(c_qp.recv_cq, x)
    BY <1>6 DEF ClientTypes, ClientQueues
<1>13. cq'.recv = cq.recv /\ (cq'.send = cq.send \/ cq'.send = Append(cq.send, wc))
    BY <1>6 DEF ServerInv, ServerTypes
<1>14. ASSUME Ordered(c)
       PROVE  Lined(expected, Append(c_qp.recv_cq, x), Tail(SendQueue(c)), AskedOf(batch), cq.recv,
                    c_qp.sq)
    BY <1>3, <1>6, <1>7, <1>8, <1>10, <1>14, LinedReceived DEF Ordered
<1>15. /\ connections'[c] # NoConnection /\ connections'[c].sq = Tail(connections[c].sq)
       /\ connections'[c].rq = connections[c].rq
       /\ \A y \in ConnId \ {c} : connections'[y] = connections[y]
    <2>1. connections[c] \in ConnectionType
        BY <1>2 DEF ServerInv, ServerTypes, Live
    <2>2. /\ connections'[c] \in ConnectionType /\ connections'[c].sq = Tail(connections[c].sq)
          /\ connections'[c].rq = connections[c].rq
          /\ \A y \in ConnId \ {c} : connections'[y] = connections[y]
        BY <1>6, <1>9, <2>1 DEF ServerInv, ServerTypes, ConnectionType
    <2> QED
        BY <2>2, ConnectionIsLive
<1>16. SendQueue(c)' = Tail(SendQueue(c)) /\ AskedOf(batch)' = AskedOf(batch)
    BY <1>6, <1>8, <1>15 DEF SendQueue, AskedOf, Live
<1>17. OneConnection(c)'
    <2>1. cq.send \in Seq(ServedWc(c)) /\ Append(cq.send, wc) \in Seq(ServedWc(c))
        BY <1>1, <1>11, AppendProperties DEF OneConnection
    <2>2. /\ cq'.send \in Seq(ServedWc(c)) /\ cq'.recv \in Seq(ServedWc(c))
          /\ batch' \in Seq(ServedWc(c))
        BY <1>1, <1>6, <1>13, <2>1 DEF OneConnection
    <2>3. \A y \in ConnId : connections'[y] # NoConnection <=> Live(y)
        BY <1>2, <1>15 DEF Live
    <2> QED
        BY <1>1, <1>6, <2>2, <2>3, SameConnection
<1>18. Ordered(c) => Ordered(c)'
    BY <1>6, <1>12, <1>13, <1>14, <1>16 DEF Ordered
<1>19. PoolOf(c)'
    <2>1. FirstDue(c) => FirstDue(c)'
        BY <1>2, <1>13, <1>15, <1>16 DEF FirstDue
    <2> QED
        BY <1>1, <1>2, <1>6, <1>13, <1>15, <1>16, <2>1 DEF PoolOf, Live
<1> QED
    BY <1>17, <1>18, <1>19 DEF Serving

\* Nothing is under way at the start.
LEMMA ServingInit == BenchmarkInit => \E c \in ConnId : Serving(c) /\ Ordered(c)
<1> SUFFICES ASSUME BenchmarkInit
             PROVE  \E c \in ConnId : Serving(c) /\ Ordered(c)
    OBVIOUS
<1>1. /\ cq = [send |-> << >>, recv |-> << >>] /\ batch = << >> /\ expected = << >>
      /\ c_qp.sq = << >> /\ c_qp.recv_cq = << >> /\ DOMAIN handshake = Client
      /\ pool = NewPool(BufferCount) /\ posted_send = << >>
      /\ \A c \in ConnId : ~Live(c)
    BY DEF BenchmarkInit, ServerInit, ManagerInit, Live
<1>2. 0 \in ConnId
    BY KvServerAssumption DEF ConnId
<1>3. OneConnection(0)
    BY <1>1, <1>2, EmptySeq DEF OneConnection
<1>4. SendQueue(0) = << >> /\ AskedOf(batch) = << >>
    BY <1>1, <1>2 DEF SendQueue, AskedOf
<1>5. Lined(<< >>, << >>, << >>, << >>, << >>, << >>)
    <2>1. Len(<< >>) = 0 /\ 0 + 0 + 0 + 0 + 0 = 0 /\ 1 .. 0 = {}
        BY EmptySeq
    <2> QED
        BY <2>1 DEF Lined
<1>6. PoolOf(0)
    <2>1. pool.first_back = 0
        BY <1>1, NewPoolHasAll, KvServerAssumption
    <2>2. DOMAIN posted_send = {}
        BY <1>1
    <2> QED
        BY <1>1, <1>2, <1>4, <2>1, <2>2 DEF PoolOf, FirstDue, Intact
<1> QED
    BY <1>1, <1>2, <1>3, <1>4, <1>5, <1>6 DEF Serving, Ordered

\* Every step keeps the only connection served, with an intact pool, and the
\* requests in order as long as there is a buffer for every response.
LEMMA ServingNext ==
    ASSUME ServerInv, ClientTypes, RecvsTracked, NEW c \in ConnId, Serving(c),
           [BenchmarkNext]_allVars
    PROVE  /\ RecvsTracked'
           /\ \E d \in ConnId : Serving(d)' /\ (BuffersSuffice /\ Ordered(c) => Ordered(d)')
<1> DEFINE Done == Serving(c)' /\ (BuffersSuffice /\ Ordered(c) => Ordered(c)')
<1>1. CASE (ClientCalls(TheClient) /\ UNCHANGED benchmarkVars) \/ FinishConnect
    <2>1. RecvsTracked'
        BY <1>1, OthersTracked
        DEF ClientCalls, FinishConnect, ClientReplies, managerVars, loopVars, bufferVars
    <2>2. Done
        BY <1>1, ConnectInOrder
    <2> QED
        BY <2>1, <2>2
<1>2. ASSUME NEW op \in ops, NEW key \in Key, SendRequest(op, key)
      PROVE  RecvsTracked' /\ Done
    <2>1. RecvsTracked'
        BY <1>2, OthersTracked DEF SendRequest, serverVars, managerVars, loopVars, bufferVars
    <2> QED
        BY <1>2, <2>1, SendInOrder
<1>3. CASE PollSends \/ PollResponses
    <2>1. RecvsTracked'
        BY <1>3, OthersTracked DEF PollSends, PollResponses, serverVars, managerVars, loopVars, bufferVars
    <2>2. Done
        BY <1>3, PollsInOrder
    <2> QED
        BY <2>1, <2>2
<1>4. CASE (NobodyWaits /\ UNCHANGED benchmarkVars) \/ UNCHANGED allVars
    <2>1. /\ UNCHANGED <<handshake, connections, accepting, pool, posted_recv, posted_send, cq, batch>>
          /\ UNCHANGED <<c_qp, expected>>
        BY <1>4 DEF NobodyWaits, clientVars, managerVars, bufferVars, benchmarkVars, allVars,
                    serverVars, loopVars
    <2>2. Serving(c)' /\ UNCHANGED <<SendQueue(c), AskedOf(batch), cq.recv>>
        BY <2>1, ClientAlone
    <2>3. Done
        BY <2>1, <2>2 DEF Ordered
    <2>4. RecvsTracked'
        BY <2>1, OthersTracked
    <2> QED
        BY <2>3, <2>4
<1>5. CASE OfferParams(TheClient) /\ UNCHANGED benchmarkVars
    <2>1. /\ cq.send = << >> /\ cq.recv = << >> /\ batch = << >>
          /\ \E d \in ConnId : Serving(d)' /\ (Ordered(c) => Ordered(d)')
        BY <1>5, OfferInOrder
    <2>2. CompletionsCurrent
        <3>1. cq = [send |-> << >>, recv |-> << >>]
            BY <2>1 DEF ServerInv, ServerTypes
        <3> QED
            BY <2>1, <3>1, EmptySeq DEF CompletionsCurrent
    <2>3. RecvsTracked'
        BY <1>5, <2>2, OfferTracked, TheClientExists
    <2> QED
        BY <2>1, <2>3
<1>6. CASE FinishAccept /\ UNCHANGED benchmarkVars
    BY <1>6, AcceptInOrder, FinishAcceptTracked
<1>7. CASE Poll /\ UNCHANGED benchmarkVars
    BY <1>7, PollInOrder, PollTracked
<1>8. CASE Handle /\ UNCHANGED benchmarkVars
    <2>1. PICK wc : HandleSendCompletion(wc) \/ HandleRequest(wc) \/ OnError(wc)
        BY <1>8 DEF Handle
    <2>2. CASE HandleSendCompletion(wc)
        <3>1. Done
            BY <1>8, <2>2, HandleSendInOrder
        <3>2. Intact(pool')
            BY <3>1 DEF Serving, PoolOf
        <3> QED
            BY <2>2, <3>1, <3>2, HandleSendTracked
    <2>3. CASE HandleRequest(wc)
        <3>1. Done
            BY <1>8, <2>3, HandleRequestInOrder
        <3>2. Intact(pool')
            BY <3>1 DEF Serving, PoolOf
        <3> QED
            BY <2>3, <3>1, <3>2, HandleRequestTracked
    <2>4. CASE OnError(wc)
        <3>1. Handling(wc, wc.kind, FALSE) /\ OneConnection(c)
            BY <2>4 DEF OnError, Serving
        <3>2. wc.ok /\ wc.ok = FALSE
            BY <3>1, HandledServed
        <3> QED
            BY <3>2
    <2> QED
        BY <2>1, <2>2, <2>3, <2>4
<1>9. ASSUME NEW d \in ConnId, RequestTravels(d)
      PROVE  RecvsTracked' /\ Done
    <2> DEFINE msg == Head(c_qp.sq).msg
    <2>1. c_qp.sq # << >> /\ ReceiveMessage(d, msg) /\ c_qp.sq \in Seq(ClientWr)
        BY <1>9 DEF RequestTravels, ClientTypes, ClientQueues
    <2>2. msg \in Request
        <3>1. Head(c_qp.sq) \in ClientWr
            BY <2>1, TailOfQueue
        <3> QED
            BY <3>1 DEF ClientWr, ClientRequest, Request, RequestKind
    <2> HIDE DEF msg
    <2> QED
        BY <1>9, <2>1, <2>2, ReceiveTracked, RequestInOrder
<1>10. ASSUME NEW d \in ConnId, ResponseTravels(d)
       PROVE  RecvsTracked' /\ Done
    BY <1>10, ResponseInOrder, FinishSendTracked DEF ResponseTravels
<1> HIDE DEF Done
<1>11. RecvsTracked' /\ (Done \/ \E d \in ConnId : Serving(d)' /\ (BuffersSuffice /\ Ordered(c) => Ordered(d)'))
    BY <1>1, <1>2, <1>3, <1>4, <1>5, <1>6, <1>7, <1>8, <1>9, <1>10
    DEF BenchmarkNext, ClientStep, ServingStep
<1> QED
    BY <1>11 DEF Done

\* What is inductive of the pool: some connection, of which there is at most
\* one, is served.
ClientServed == RecvsTracked /\ \E c \in ConnId : Serving(c)

\* What is inductive of the order.
OrderKept == RecvsTracked /\ \E c \in ConnId : Serving(c) /\ Ordered(c)

\* With the one client of the benchmark the server's pool stays intact, however
\* many receives it posts, whatever the sizes of its batches and the signal
\* interval, and also when it runs out of buffers: the first buffer given back
\* is buffer 1, since the requests come and are handled in the order of the
\* receives, and no response is completed, or even posted, before that.  So the
\* buffers posted for receives are always owned.
THEOREM PoolStaysIntact == BenchmarkSpec => [](ServerPoolIntact /\ ReceivesOwned)
<1>1. BenchmarkInit => ClientServed
    BY ServingInit, TrackedInit DEF ClientServed, BenchmarkInit
<1>2. ServerInv /\ ClientTypes /\ ClientServed /\ [BenchmarkNext]_allVars => ClientServed'
    <2> SUFFICES ASSUME ServerInv, ClientTypes, ClientServed, [BenchmarkNext]_allVars
                 PROVE  ClientServed'
        OBVIOUS
    <2>1. PICK c \in ConnId : Serving(c)
        BY DEF ClientServed
    <2>2. RecvsTracked' /\ \E d \in ConnId : Serving(d)'
        BY <2>1, ServingNext DEF ClientServed
    <2> QED
        BY <2>2 DEF ClientServed
<1>3. ServerInv /\ ClientServed => ServerPoolIntact /\ ReceivesOwned
    BY TrackedOwned DEF ClientServed, Serving, PoolOf, ServerPoolIntact
<1> QED
    BY <1>1, <1>2, <1>3, BenchmarkInvariant, PTL DEF BenchmarkSpec

\* The responses that have come are those to the oldest requests.
LEMMA LinedResponses == ServerInv /\ ClientTypes /\ OrderKept => ResponsesInOrder
<1> SUFFICES ASSUME ServerInv, ClientTypes, OrderKept, NEW i \in DOMAIN c_qp.recv_cq
             PROVE  /\ i \in DOMAIN expected
                    /\ Answers(c_qp.recv_cq[i].msg, expected[i])
    BY DEF ResponsesInOrder, Answers
<1>1. PICK c \in ConnId : OneConnection(c) /\ Ordered(c)
    BY DEF OrderKept, Serving
<1> DEFINE la == Len(c_qp.recv_cq)
           ls == Len(SendQueue(c))
           lb == Len(AskedOf(batch))
           lr == Len(cq.recv)
           lq == Len(c_qp.sq)
           le == Len(expected)
<1>2. /\ expected \in Seq(ClientRequest) /\ c_qp.recv_cq \in Seq(ClientWc)
      /\ SendQueue(c) \in Seq(WorkRequests) /\ AskedOf(batch) \in Seq(RecvWc)
      /\ cq.recv \in Seq(ServedWc(c)) /\ c_qp.sq \in Seq(ClientWr)
    BY <1>1, LineTyped
<1>3. la \in Nat /\ ls \in Nat /\ lb \in Nat /\ lr \in Nat /\ lq \in Nat
    BY <1>2, LenProperties
<1>4. i \in 1 .. la /\ DOMAIN expected = 1 .. le
    BY <1>2, LenProperties
<1>5. le = la + ls + lb + lr + lq /\ Answers(c_qp.recv_cq[i].msg, expected[i])
    BY <1>1, <1>4 DEF Ordered, Lined
<1> HIDE DEF la, ls, lb, lr, lq, le
<1> QED
    BY <1>3, <1>4, <1>5

\* KVClient counts responses without looking which request they answer, and
\* need not: in every behaviour of the benchmark in which the server always
\* finds a buffer for a response, the responses come in the order of the
\* requests, whatever the numbers of buffers, receives and requests under way,
\* the sizes of the batches and the signal interval, and whether gets and puts
\* are mixed.  The server drops the request it finds no buffer for, after which
\* the counts of the client are off.
THEOREM ResponsesOrdered == BenchmarkSpec /\ []BuffersSuffice => []ResponsesInOrder
<1>1. BenchmarkInit => OrderKept
    BY ServingInit, TrackedInit DEF OrderKept, BenchmarkInit
<1>2. ServerInv /\ ClientTypes /\ BuffersSuffice /\ OrderKept /\ [BenchmarkNext]_allVars => OrderKept'
    <2> SUFFICES ASSUME ServerInv, ClientTypes, BuffersSuffice, OrderKept, [BenchmarkNext]_allVars
                 PROVE  OrderKept'
        OBVIOUS
    <2>1. PICK c \in ConnId : Serving(c) /\ Ordered(c)
        BY DEF OrderKept
    <2>2. RecvsTracked' /\ \E d \in ConnId : Serving(d)' /\ Ordered(d)'
        BY <2>1, ServingNext DEF OrderKept
    <2> QED
        BY <2>2 DEF OrderKept
<1> QED
    BY <1>1, <1>2, LinedResponses, BenchmarkInvariant, PTL DEF BenchmarkSpec
============================================================================
