--------------------- MODULE CompletionDispatcherProofs ---------------------
(***************************************************************************)
(* The levels of the dispatcher never disagree with the registrations, so  *)
(* that a completion reaches the handler its connection has: for any       *)
(* connections, any sizes of the levels and any number of registrations,   *)
(* as long as                                                              *)
(*   - a connection is not registered while it is registered, and its      *)
(*     handler does not unregister it;                                     *)
(*   - connections that come and go share no position of L1;               *)
(*   - a registration finds room in L1.                                    *)
(* Without the last two a copy is missed or promoted for another           *)
(* connection.                                                             *)
(***************************************************************************)
EXTENDS CompletionDispatcher, TLAPS

----------------------------------------------------------------------------
(* The conditions.                                                         *)

\* Two connections that may be unregistered share no position of L1.
RemovablesApart ==
    \A c, d \in Removable : c # d => \A i, j \in Probe : Pos(c, i) # Pos(d, j)

\* A connection that is not registered has room in L1: no other is replaced.
LinesHaveRoom == \A c \in Conn : l2[c] = 0 => Stop(c, Line(c)) # {}

----------------------------------------------------------------------------
(* The invariant.                                                          *)

\* The sets of L0.
Sets == 0 .. L0SetCount - 1

\* The positions of L1.
Positions == 0 .. L1Size - 1

\* A copy is of a connection that is registered, with its handler.
Copy(e) == e.conn \in Conn /\ e = Holding(e.conn, l2[e.conn]) /\ l2[e.conn] # 0

\* The types of the three levels.
DispatcherTypes ==
    /\ l0 \in [Sets -> [Way -> [conn : Nat, handler : Nat]]]
    /\ l1 \in [Positions -> [conn : Nat, handler : Nat]]
    /\ l2 \in [Conn -> Nat]
    /\ regs \in Nat

\* The copies in L0, each in its set and in one way only.
L0Copies ==
    \A s \in Sets :
        /\ \A w \in Way : l0[s][w] = Unused \/ (Copy(l0[s][w]) /\ SetOf(l0[s][w].conn) = s)
        /\ l0[s][0].conn = l0[s][1].conn => l0[s][0] = Unused

\* The copies in L1, each where it is probed for.
L1Copies ==
    \A p \in Positions :
        l1[p] = Unused \/ (Copy(l1[p]) /\ \E i \in Probe : Pos(l1[p].conn, i) = p)

\* A scan for a connection that may be unregistered ends at its copy, which is
\* therefore the only one.
L1Found ==
    \A c \in Removable, k \in Probe : l1[Pos(c, k)].conn = c => k \in Stop(c, Line(c))

\* While a handler runs its connection stays registered with it, and Dispatch
\* still knows where it found it.
RunningKnown ==
    running # NoHandler =>
        /\ running.conn \in Conn
        /\ running.handler = l2[running.conn] /\ running.owner = l2[running.conn]
        /\ l2[running.conn] # 0
        /\ running.level = "L1" =>
              /\ \A w \in Way : l0[SetOf(running.conn)][w].conn # running.conn
              /\ running.pos \in Positions /\ l1[running.pos].conn = running.conn

\* What is inductive under the conditions.
DispatcherInv ==
    DispatcherTypes /\ L0Copies /\ L1Copies /\ L1Found /\ RunningKnown

----------------------------------------------------------------------------
(* Where a connection may be.                                              *)

\* No connection has the id that marks an entry as unused.
LEMMA ConnType ==
    ASSUME NEW c \in Conn
    PROVE  c \in Nat /\ c # NoConn
BY DispatcherAssumption DEF NoConn

\* A connection's set is one of L0's.
LEMMA SetOfType ==
    ASSUME NEW c \in Conn
    PROVE  SetOf(c) \in Sets
<1>1. c \in Nat /\ L0SetCount \in Nat \ {0}
    BY ConnType, DispatcherAssumption
<1> QED
    BY <1>1 DEF SetOf, Sets

\* The four positions of a line are in L1, and are different.
LEMMA PosType ==
    ASSUME NEW c \in Conn
    PROVE  /\ \A i \in Probe : Pos(c, i) \in Positions
           /\ \A i, j \in Probe : Pos(c, i) = Pos(c, j) => i = j
<1>1. c \in Nat /\ L1Size \in Nat /\ L1Size >= 4
    BY DispatcherAssumption
<1> DEFINE h == Hash(c)
<1>2. c * 57 \in Nat
    BY <1>1
<1>3. h \in 0 .. L1Size - 1
    <2> DEFINE x == c * 57
    <2>1. x \in Nat /\ h = x % L1Size
        BY <1>2 DEF Hash
    <2> HIDE DEF x, h
    <2> QED
        BY <1>1, <2>1
<1> HIDE DEF h
<1>4. ASSUME NEW i \in Probe
      PROVE  (h + i) % L1Size = IF h + i < L1Size THEN h + i ELSE h + i - L1Size
    <2>1. i \in 0 .. 3
        BY DEF Probe
    <2>2. CASE h + i < L1Size
        BY <1>1, <1>3, <2>1, <2>2
    <2>3. CASE h + i >= L1Size
        <3>1. h + i - L1Size \in 0 .. L1Size - 1
            BY <1>1, <1>3, <2>1, <2>3
        <3>2. h + i = 1 * L1Size + (h + i - L1Size)
            BY <1>1, <1>3, <2>1
        <3> QED
            BY <1>1, <1>3, <2>1, <2>3, <3>1, <3>2
    <2> QED
        BY <1>1, <1>3, <2>1, <2>2, <2>3
<1>5. ASSUME NEW i \in Probe
      PROVE  Pos(c, i) = IF h + i < L1Size THEN h + i ELSE h + i - L1Size
    BY <1>4 DEF Pos, h
<1>6. ASSUME NEW i \in Probe
      PROVE  Pos(c, i) \in Positions
    <2>1. i \in 0 .. 3
        BY DEF Probe
    <2> QED
        BY <1>1, <1>3, <1>5, <2>1 DEF Positions
<1>7. ASSUME NEW i \in Probe, NEW j \in Probe, Pos(c, i) = Pos(c, j)
      PROVE  i = j
    <2>1. i \in 0 .. 3 /\ j \in 0 .. 3
        BY DEF Probe
    <2> QED
        BY <1>1, <1>3, <1>5, <1>7, <2>1
<1> QED
    BY <1>6, <1>7

\* Writing a connection's line changes its probed positions and no other.
LEMMA WithLineAt ==
    ASSUME DispatcherTypes, NEW c \in Conn, NEW line
    PROVE  /\ DOMAIN WithLine(c, line) = Positions
           /\ \A k \in Probe : WithLine(c, line)[Pos(c, k)] = line[k]
           /\ \A p \in Positions :
                 (\A k \in Probe : Pos(c, k) # p) => WithLine(c, line)[p] = l1[p]
<1>1. DOMAIN l1 = Positions
    BY DEF DispatcherTypes
<1>2. ASSUME NEW k \in Probe
      PROVE  WithLine(c, line)[Pos(c, k)] = line[k]
    <2>1. Pos(c, k) \in Positions
        BY PosType
    <2>2. (CHOOSE probe \in Probe : Pos(c, probe) = Pos(c, k)) = k
        BY PosType
    <2> QED
        BY <1>1, <2>1, <2>2 DEF WithLine
<1> QED
    BY <1>1, <1>2 DEF WithLine

\* Where the scan for a connection ends, and that it ends unless the line is
\* full of others.
LEMMA StopAt ==
    ASSUME NEW c, NEW line, DOMAIN line = Probe
    PROVE  /\ \A k \in Probe :
                 k \in Stop(c, line) <=>
                    /\ line[k].conn \in {c, NoConn}
                    /\ \A j \in Probe : j < k => line[j].conn \notin {c, NoConn}
           /\ Stop(c, line) \subseteq Probe
           /\ \A j, k \in Stop(c, line) : j = k
           /\ Stop(c, line) = {} => \A k \in Probe : line[k].conn \notin {c, NoConn}
<1>1. ASSUME NEW k \in Probe
      PROVE  k \in Stop(c, line) <=>
                    /\ line[k].conn \in {c, NoConn}
                    /\ \A j \in Probe : j < k => line[j].conn \notin {c, NoConn}
    BY DEF Stop, Unused
<1>2. Stop(c, line) \subseteq Probe
    BY DEF Stop
<1> DEFINE Ends(k) == line[k].conn \in {c, NoConn}
<1>3. \A k \in Probe : k \in Stop(c, line) <=> Ends(k) /\ \A j \in Probe : j < k => ~Ends(j)
    BY <1>1
<1> HIDE DEF Ends
<1>4. \A j, k \in Stop(c, line) : j = k
    BY <1>2, <1>3 DEF Probe
<1>5. Stop(c, line) = {} => \A k \in Probe : ~Ends(k)
    <2> SUFFICES ASSUME NEW k \in Probe, Ends(k)
                 PROVE  \E j \in Probe : Ends(j) /\ \A i \in Probe : i < j => ~Ends(i)
        BY <1>3
    <2>1. Probe = {0, 1, 2, 3}
        BY DEF Probe
    <2> QED
        BY <2>1
<1> QED
    BY <1>1, <1>2, <1>4, <1>5 DEF Ends

\* A line is the part of L1 that is probed.
LEMMA LineAt ==
    ASSUME NEW c
    PROVE  DOMAIN Line(c) = Probe /\ \A k \in Probe : Line(c)[k] = l1[Pos(c, k)]
BY DEF Line

\* The same of a line of L1.
LEMMA StopInL1 ==
    ASSUME NEW c
    PROVE  /\ \A k \in Probe :
                 k \in Stop(c, Line(c)) <=>
                    /\ l1[Pos(c, k)].conn \in {c, NoConn}
                    /\ \A j \in Probe : j < k => l1[Pos(c, j)].conn \notin {c, NoConn}
           /\ Stop(c, Line(c)) \subseteq Probe
           /\ \A j, k \in Stop(c, Line(c)) : j = k
           /\ Stop(c, Line(c)) = {} => \A k \in Probe : l1[Pos(c, k)].conn \notin {c, NoConn}
BY LineAt, StopAt

\* An insertion changes one entry of the line.
LEMMA InsertEffect ==
    ASSUME DispatcherTypes, NEW c \in Conn, NEW h, InsertHotCache(c, h)
    PROVE  \E k \in Probe : /\ k \in Targets(c, Line(c))
                            /\ l1' = [l1 EXCEPT ![Pos(c, k)] = Holding(c, h)]
<1>1. PICK k \in Targets(c, Line(c)) :
          l1' = WithLine(c, [Line(c) EXCEPT ![k] = Holding(c, h)])
    BY DEF InsertHotCache
<1>2. k \in Probe
    BY LineAt, StopInL1 DEF Targets
<1> DEFINE line == [Line(c) EXCEPT ![k] = Holding(c, h)]
<1>3. \A j \in Probe : line[j] = IF j = k THEN Holding(c, h) ELSE l1[Pos(c, j)]
    BY <1>2, LineAt
<1> HIDE DEF line
<1>4. /\ DOMAIN l1' = Positions
      /\ \A j \in Probe : l1'[Pos(c, j)] = line[j]
      /\ \A p \in Positions : (\A j \in Probe : Pos(c, j) # p) => l1'[p] = l1[p]
    BY <1>1, WithLineAt, ZenonT(30) DEF line
<1>5. l1' = WithLine(c, line)
    BY <1>1 DEF line
<1>6. ASSUME NEW p \in Positions
      PROVE  l1'[p] = [l1 EXCEPT ![Pos(c, k)] = Holding(c, h)][p]
    <2>1. DOMAIN l1 = Positions
        BY DEF DispatcherTypes
    <2>2. CASE \E j \in Probe : Pos(c, j) = p
        <3>1. PICK j \in Probe : Pos(c, j) = p
            BY <2>2
        <3>2. Pos(c, j) = Pos(c, k) <=> j = k
            BY <1>2, PosType
        <3> QED
            BY <1>3, <1>4, <2>1, <3>1, <3>2
    <2>3. CASE \A j \in Probe : Pos(c, j) # p
        BY <1>2, <1>4, <2>1, <2>3
    <2> QED
        BY <2>2, <2>3
<1>7. l1' = [l1 EXCEPT ![Pos(c, k)] = Holding(c, h)]
    <2>1. DOMAIN l1 = Positions
        BY DEF DispatcherTypes
    <2>2. l1' = [p \in Positions |-> l1'[p]]
        BY <1>4, <1>5 DEF WithLine
    <2> QED
        BY <1>6, <2>1, <2>2
<1> QED
    BY <1>1, <1>2, <1>7

\* An insertion leaves every scan that found its copy finding it.
LEMMA InsertKeepsFound ==
    ASSUME DispatcherTypes, L1Found, NEW c \in Conn, NEW h, NEW k \in Probe,
           k \in Targets(c, Line(c)), l1' = [l1 EXCEPT ![Pos(c, k)] = Holding(c, h)]
    PROVE  L1Found'
<1>1. Removable \subseteq Conn
    BY DispatcherAssumption
<1>2. /\ Pos(c, k) \in Positions /\ l1'[Pos(c, k)].conn = c
      /\ \A p \in Positions \ {Pos(c, k)} : l1'[p] = l1[p]
    BY PosType DEF DispatcherTypes, Holding
<1>3. SUFFICES ASSUME NEW r \in Removable, NEW i \in Probe, l1'[Pos(r, i)].conn = r
               PROVE  /\ l1'[Pos(r, i)].conn \in {r, NoConn}
                      /\ \A j \in Probe : j < i => l1'[Pos(r, j)].conn \notin {r, NoConn}
    <2>1. \A r \in Removable, i \in Probe :
              i \in Stop(r, Line(r))' <=>
                 /\ l1'[Pos(r, i)].conn \in {r, NoConn}
                 /\ \A j \in Probe : j < i => l1'[Pos(r, j)].conn \notin {r, NoConn}
        BY StopAt DEF Line
    <2> QED
        BY <1>3, <2>1 DEF L1Found
<1>4. r \in Conn /\ \A j \in Probe : Pos(r, j) \in Positions
    BY <1>1, PosType
<1>5. CASE r # c
    <2>1. Pos(r, i) # Pos(c, k) /\ l1[Pos(r, i)].conn = r
        BY <1>2, <1>3, <1>4, <1>5
    <2>2. i \in Stop(r, Line(r))
        BY <2>1 DEF L1Found
    <2>3. \A j \in Probe : j < i => l1[Pos(r, j)].conn \notin {r, NoConn}
        BY <2>2, StopInL1
    <2>4. c \notin {r, NoConn}
        BY <1>5, ConnType
    <2> QED
        BY <1>2, <1>3, <1>4, <2>3, <2>4
<1>6. CASE r = c
    <2>1. \A j \in Probe : Pos(c, j) = Pos(c, k) => j = k
        BY PosType
    <2>2. i = k
        <3>1. CASE i # k
            <4>1. l1[Pos(c, i)].conn = c
                BY <1>2, <1>3, <1>4, <1>6, <2>1, <3>1
            <4>2. i \in Stop(c, Line(c))
                BY <1>6, <4>1 DEF L1Found
            <4>3. k \in Stop(c, Line(c))
                BY <4>2 DEF Targets
            <4> QED
                BY <3>1, <4>2, <4>3, StopInL1
        <3> QED
            BY <3>1
    <2>3. \A j \in Probe : j < k => l1[Pos(c, j)].conn \notin {c, NoConn}
        <3>1. CASE Stop(c, Line(c)) = {}
            BY <3>1, StopInL1
        <3>2. CASE Stop(c, Line(c)) # {}
            <4>1. k \in Stop(c, Line(c))
                BY <3>2 DEF Targets
            <4> QED
                BY <4>1, StopInL1
        <3> QED
            BY <3>1, <3>2
    <2>4. \A j \in Probe : j < k => Pos(c, j) # Pos(c, k)
        BY <2>1 DEF Probe
    <2> QED
        BY <1>2, <1>3, <1>4, <1>6, <2>2, <2>3, <2>4
<1> QED
    BY <1>5, <1>6

----------------------------------------------------------------------------
(* Insertions of a connection, when it is registered or promoted.          *)

\* The connection c is registered with h, which is new or what it had before.
NowHas(c, h) ==
    /\ l2[c] = 0 \/ l2'[c] = l2[c]
    /\ l2' \in [Conn -> Nat] /\ l2'[c] = h /\ h # 0
    /\ \A d \in Conn \ {c} : l2'[d] = l2[d]

\* A registration keeps the copies that are there.
LEMMA CopyKept ==
    ASSUME NEW c \in Conn, NEW h, NowHas(c, h), NEW e, Copy(e)
    PROVE  e.conn \in Conn /\ e = Holding(e.conn, l2'[e.conn]) /\ l2'[e.conn] # 0
BY DEF NowHas, Copy

\* A registration or MaybePromoteToL0 puts a connection in one way of its set.
LEMMA PutInL0Keeps ==
    ASSUME DispatcherTypes, L0Copies, NEW c \in Conn, NEW h, NowHas(c, h),
           NEW w \in Way, PutInL0(c, w, h),
           \A v \in Way : l0[SetOf(c)][v].conn # c
    PROVE  /\ l0' \in [Sets -> [Way -> [conn : Nat, handler : Nat]]]
           /\ L0Copies'
           /\ \A s \in Sets, v \in Way : l0'[s][v] = l0[s][v] \/ l0'[s][v].conn = c
<1>1. SetOf(c) \in Sets /\ c \in Nat /\ h \in Nat
    BY SetOfType, ConnType DEF NowHas
<1>2. Holding(c, h) \in [conn : Nat, handler : Nat]
    BY <1>1 DEF Holding
<1>3. l0' = [l0 EXCEPT ![SetOf(c)] = [l0[SetOf(c)] EXCEPT ![w] = Holding(c, h)]]
    BY DEF PutInL0
<1> DEFINE row == [l0[SetOf(c)] EXCEPT ![w] = Holding(c, h)]
<1>4. l0[SetOf(c)] \in [Way -> [conn : Nat, handler : Nat]]
    BY <1>1 DEF DispatcherTypes
<1>5. /\ row \in [Way -> [conn : Nat, handler : Nat]]
      /\ row[w] = Holding(c, h)
      /\ \A v \in Way \ {w} : row[v] = l0[SetOf(c)][v]
    BY <1>2, <1>4
<1> HIDE DEF row
<1>6. /\ l0' \in [Sets -> [Way -> [conn : Nat, handler : Nat]]]
      /\ l0'[SetOf(c)] = row
      /\ \A s \in Sets \ {SetOf(c)} : l0'[s] = l0[s]
    BY <1>1, <1>3, <1>5 DEF DispatcherTypes, row
<1>7. \A s \in Sets, v \in Way :
          \/ l0'[s][v] = l0[s][v]
          \/ s = SetOf(c) /\ v = w /\ l0'[s][v] = Holding(c, h)
    BY <1>5, <1>6
<1>8. Holding(c, h).conn = c
    BY DEF Holding
<1>9. ASSUME NEW s \in Sets, NEW v \in Way
      PROVE  \/ l0'[s][v] = Unused
             \/ /\ l0'[s][v].conn \in Conn /\ l0'[s][v] = Holding(l0'[s][v].conn, l2'[l0'[s][v].conn])
                /\ l2'[l0'[s][v].conn] # 0
                /\ SetOf(l0'[s][v].conn) = s
    <2>1. CASE l0'[s][v] = l0[s][v]
        BY <2>1, CopyKept DEF L0Copies
    <2>2. CASE s = SetOf(c) /\ v = w /\ l0'[s][v] = Holding(c, h)
        BY <1>8, <2>2 DEF NowHas
    <2> QED
        BY <1>7, <2>1, <2>2
<1>10. ASSUME NEW s \in Sets, l0'[s][0].conn = l0'[s][1].conn
       PROVE  l0'[s][0] = Unused
    <2>1. CASE s # SetOf(c)
        BY <1>6, <1>10, <2>1 DEF L0Copies
    <2>2. CASE s = SetOf(c)
        <3>1. w \in {0, 1} /\ Way = {0, 1}
            BY DEF Way
        <3>2. row[0].conn = row[1].conn
            BY <1>6, <1>10, <2>2
        <3> QED
            BY <1>5, <1>8, <3>1, <3>2
    <2> QED
        BY <2>1, <2>2
<1>11. L0Copies'
    BY <1>9, <1>10 DEF L0Copies, Copy
<1> QED
    BY <1>6, <1>7, <1>8, <1>11

\* A registration puts a connection in L1 at a position it is probed for.
LEMMA InsertKeepsCopies ==
    ASSUME DispatcherTypes, L1Copies, NEW c \in Conn, NEW h, NowHas(c, h),
           NEW k \in Probe, l1' = [l1 EXCEPT ![Pos(c, k)] = Holding(c, h)]
    PROVE  /\ l1' \in [Positions -> [conn : Nat, handler : Nat]]
           /\ L1Copies'
<1>1. Pos(c, k) \in Positions /\ c \in Nat /\ h \in Nat
    BY PosType, ConnType DEF NowHas
<1>2. Holding(c, h) \in [conn : Nat, handler : Nat] /\ Holding(c, h).conn = c
    BY <1>1 DEF Holding
<1>3. /\ l1' \in [Positions -> [conn : Nat, handler : Nat]]
      /\ l1'[Pos(c, k)] = Holding(c, h)
      /\ \A p \in Positions \ {Pos(c, k)} : l1'[p] = l1[p]
    BY <1>1, <1>2 DEF DispatcherTypes
<1>4. ASSUME NEW p \in Positions
      PROVE  \/ l1'[p] = Unused
             \/ /\ l1'[p].conn \in Conn /\ l1'[p] = Holding(l1'[p].conn, l2'[l1'[p].conn])
                /\ l2'[l1'[p].conn] # 0
                /\ \E i \in Probe : Pos(l1'[p].conn, i) = p
    <2>1. CASE p = Pos(c, k)
        BY <1>2, <1>3, <2>1 DEF NowHas
    <2>2. CASE p # Pos(c, k)
        BY <1>3, <2>2, CopyKept DEF L1Copies
    <2> QED
        BY <2>1, <2>2
<1> QED
    BY <1>3, <1>4 DEF L1Copies, Copy

\* A connection that is not registered has no copy.
LEMMA NoCopyOf ==
    ASSUME L0Copies, L1Copies, NEW c \in Conn, l2[c] = 0
    PROVE  /\ \A s \in Sets, w \in Way : l0[s][w].conn # c
           /\ \A p \in Positions : l1[p].conn # c
<1>1. Unused.conn # c
    BY ConnType DEF Unused
<1> QED
    BY <1>1 DEF L0Copies, L1Copies, Copy

\* RegisterConnection, with room in L1, replaces no other connection there.
LEMMA RegisterInv ==
    ASSUME DispatcherInv, ~Updates, LinesHaveRoom, NEW c \in Conn, RegisterConnection(c)
    PROVE  DispatcherInv'
<1> DEFINE h == regs + 1
<1>1. l2[c] = 0
    BY DEF RegisterConnection
<1>2. /\ regs' = h /\ regs' \in Nat /\ h # 0
      /\ l2' = [l2 EXCEPT ![c] = h] /\ running' = running
      /\ InsertHotCache(c, h)
      /\ \E w \in Targets(c, l0[SetOf(c)]) : PutInL0(c, w, h)
    BY DEF RegisterConnection, DispatcherInv, DispatcherTypes
<1> HIDE DEF h
<1>3. NowHas(c, h)
    BY <1>1, <1>2 DEF NowHas, DispatcherInv, DispatcherTypes
<1>4. /\ \A s \in Sets, w \in Way : l0[s][w].conn # c
      /\ \A p \in Positions : l1[p].conn # c
    BY <1>1, NoCopyOf DEF DispatcherInv
<1>5. PICK w \in Way : PutInL0(c, w, h)
    <2>1. SetOf(c) \in Sets
        BY SetOfType
    <2>2. DOMAIN l0[SetOf(c)] = Way
        BY <2>1 DEF DispatcherInv, DispatcherTypes
    <2> QED
        BY <1>2, <2>2 DEF Targets, Stop
<1>6. /\ l0' \in [Sets -> [Way -> [conn : Nat, handler : Nat]]]
      /\ L0Copies'
      /\ \A s \in Sets, v \in Way : l0'[s][v] = l0[s][v] \/ l0'[s][v].conn = c
    <2>1. \A v \in Way : l0[SetOf(c)][v].conn # c
        BY <1>4, SetOfType
    <2> QED
        BY <1>3, <1>5, <2>1, PutInL0Keeps DEF DispatcherInv
<1>7. PICK k \in Probe : /\ k \in Targets(c, Line(c))
                         /\ l1' = [l1 EXCEPT ![Pos(c, k)] = Holding(c, h)]
    BY <1>2, InsertEffect DEF DispatcherInv
<1>8. l1' \in [Positions -> [conn : Nat, handler : Nat]] /\ L1Copies' /\ L1Found'
    BY <1>3, <1>7, InsertKeepsCopies, InsertKeepsFound DEF DispatcherInv
<1>9. DispatcherTypes'
    BY <1>2, <1>3, <1>6, <1>8 DEF DispatcherTypes, NowHas
<1>10. RunningKnown'
    <2> SUFFICES ASSUME running # NoHandler
                 PROVE  RunningKnown'
        BY <1>2 DEF RunningKnown
    <2>1. PICK d \in Conn : d = running.conn
        BY DEF DispatcherInv, RunningKnown
    <2>2. l2[d] # 0 /\ d # c /\ l2'[d] = l2[d]
        BY <1>1, <1>3, <2>1 DEF DispatcherInv, RunningKnown, NowHas
    <2>3. \A w1 \in Way : l0[SetOf(d)][w1].conn # d => l0'[SetOf(d)][w1].conn # d
        BY <1>6, <2>2, SetOfType
    <2>4. l1[Pos(c, k)].conn \in {c, NoConn}
        <3>1. k \in Stop(c, Line(c))
            BY <1>1, <1>7 DEF LinesHaveRoom, Targets
        <3> QED
            BY <3>1, StopInL1
    <2>5. d \notin {c, NoConn}
        BY <2>2, ConnType
    <2>6. ASSUME NEW p \in Positions, l1[p].conn = d
          PROVE  l1'[p].conn = d
        BY <1>7, <2>4, <2>5, <2>6, PosType DEF DispatcherInv, DispatcherTypes
    <2> QED
        BY <1>2, <2>1, <2>2, <2>3, <2>6 DEF DispatcherInv, RunningKnown
<1> QED
    BY <1>6, <1>8, <1>9, <1>10 DEF DispatcherInv

----------------------------------------------------------------------------
(* Unregistration: the first copy in each level is the only one.           *)

\* Clearing a line takes its first entry of the connection.
LEMMA ClearAt ==
    ASSUME NEW c, NEW line
    PROVE  /\ DOMAIN Clear(c, line) = DOMAIN line
           /\ \A k \in DOMAIN line :
                 Clear(c, line)[k] =
                     IF line[k].conn = c /\ \A j \in DOMAIN line : j < k => line[j].conn # c
                     THEN Unused ELSE line[k]
BY DEF Clear

\* Since a connection is in one way only, InvalidateL0 leaves no copy of it.
LEMMA InvalidateL0Effect ==
    ASSUME DispatcherTypes, L0Copies, NEW c \in Conn, l0' = InvalidateL0(c)
    PROVE  /\ l0' \in [Sets -> [Way -> [conn : Nat, handler : Nat]]]
           /\ \A s \in Sets, w \in Way :
                 l0'[s][w] = Unused \/ (l0'[s][w] = l0[s][w] /\ l0[s][w].conn # c)
<1>1. SetOf(c) \in Sets /\ Way = {0, 1}
    BY SetOfType DEF Way
<1> DEFINE old == l0[SetOf(c)]
           row == Clear(c, old)
<1>2. old \in [Way -> [conn : Nat, handler : Nat]]
    BY <1>1 DEF DispatcherTypes
<1>3. Unused \in [conn : Nat, handler : Nat] /\ Unused.conn # c
    BY ConnType DEF Unused, NoConn
<1>4. old[0].conn # c \/ old[1].conn # c
    BY <1>1, <1>3 DEF L0Copies
<1>5. /\ l0' = [l0 EXCEPT ![SetOf(c)] = row]
      /\ DOMAIN row = Way
      /\ \A k \in Way : row[k] = IF old[k].conn = c /\ \A j \in Way : j < k => old[j].conn # c
                                 THEN Unused ELSE old[k]
    <2>1. l0' = [l0 EXCEPT ![SetOf(c)] = row]
        BY DEF InvalidateL0
    <2>2. DOMAIN old = Way
        BY <1>2
    <2> HIDE DEF old
    <2> QED
        BY <2>1, <2>2, ClearAt
<1> HIDE DEF old
<1>6. \A k \in Way : row[k] = Unused \/ (row[k] = old[k] /\ old[k].conn # c)
    BY <1>1, <1>4, <1>5
<1>7. row \in [Way -> [conn : Nat, handler : Nat]]
    <2>1. \A k \in Way : row[k] \in [conn : Nat, handler : Nat]
        BY <1>2, <1>3, <1>6
    <2>2. row = [k \in DOMAIN old |-> row[k]]
        BY DEF Clear
    <2>3. DOMAIN old = Way
        BY <1>2
    <2> HIDE DEF row
    <2> QED
        BY <2>1, <2>2, <2>3
<1> HIDE DEF row
<1>8. /\ l0' \in [Sets -> [Way -> [conn : Nat, handler : Nat]]]
      /\ l0'[SetOf(c)] = row
      /\ \A s \in Sets \ {SetOf(c)} : l0'[s] = l0[s]
    BY <1>1, <1>5, <1>7 DEF DispatcherTypes
<1>9. ASSUME NEW s \in Sets, NEW w \in Way
      PROVE  l0'[s][w] = Unused \/ (l0'[s][w] = l0[s][w] /\ l0[s][w].conn # c)
    <2>1. CASE s = SetOf(c)
        BY <1>6, <1>8, <2>1 DEF old
    <2>2. CASE s # SetOf(c)
        BY <1>8, <2>2 DEF L0Copies
    <2> QED
        BY <2>1, <2>2
<1> QED
    BY <1>8, <1>9

\* Since a scan ends at the only copy, InvalidateL1 leaves none.
LEMMA InvalidateL1Effect ==
    ASSUME DispatcherTypes, L1Copies, L1Found, NEW c \in Removable, l1' = InvalidateL1(c)
    PROVE  /\ l1' \in [Positions -> [conn : Nat, handler : Nat]]
           /\ \A p \in Positions :
                 /\ l1'[p] = Unused \/ (l1'[p] = l1[p] /\ l1[p].conn # c)
                 /\ (\A k \in Probe : Pos(c, k) # p) => l1'[p] = l1[p]
                 /\ l1'[p] # l1[p] => l1[p].conn = c
<1>1. c \in Conn
    BY DispatcherAssumption
<1>2. Unused \in [conn : Nat, handler : Nat] /\ Unused.conn # c
    BY <1>1, ConnType DEF Unused, NoConn
<1> DEFINE line == Clear(c, Line(c))
<1>3. \A k \in Probe :
          line[k] = IF /\ l1[Pos(c, k)].conn = c
                       /\ \A j \in Probe : j < k => l1[Pos(c, j)].conn # c
                    THEN Unused ELSE l1[Pos(c, k)]
    BY LineAt, ClearAt
<1>4. l1' = WithLine(c, line)
    BY DEF InvalidateL1
<1> HIDE DEF line
<1>5. /\ DOMAIN l1' = Positions
      /\ \A k \in Probe : l1'[Pos(c, k)] = line[k]
      /\ \A p \in Positions : (\A k \in Probe : Pos(c, k) # p) => l1'[p] = l1[p]
    BY <1>1, <1>4, WithLineAt
<1>6. ASSUME NEW k \in Probe, l1[Pos(c, k)].conn = c
      PROVE  \A j \in Probe : j < k => l1[Pos(c, j)].conn # c
    <2>1. k \in Stop(c, Line(c))
        BY <1>6 DEF L1Found
    <2> QED
        BY <2>1, StopInL1
<1>7. ASSUME NEW p \in Positions
      PROVE  /\ l1'[p] = Unused \/ (l1'[p] = l1[p] /\ l1[p].conn # c)
             /\ l1'[p] # l1[p] => l1[p].conn = c
    <2>1. CASE \E k \in Probe : Pos(c, k) = p
        BY <1>3, <1>5, <1>6, <2>1
    <2>2. CASE \A k \in Probe : Pos(c, k) # p
        <3>1. l1'[p] = l1[p]
            BY <1>5, <2>2
        <3>2. l1[p] = Unused \/ l1[p].conn # c
            BY <2>2 DEF L1Copies
        <3> QED
            BY <1>2, <3>1, <3>2
    <2> QED
        BY <2>1, <2>2
<1>8. l1' \in [Positions -> [conn : Nat, handler : Nat]]
    <2>1. \A p \in Positions : l1'[p] \in [conn : Nat, handler : Nat]
        BY <1>2, <1>7 DEF DispatcherTypes
    <2>2. l1' = [p \in DOMAIN l1 |-> l1'[p]] /\ DOMAIN l1 = Positions
        BY <1>4 DEF WithLine, DispatcherTypes
    <2> QED
        BY <2>1, <2>2
<1> QED
    BY <1>5, <1>7, <1>8

\* UnregisterConnection takes the copies of all levels, and no position that
\* another connection's scan relies on.
LEMMA UnregisterInv ==
    ASSUME DispatcherInv, ~SelfRemoval, RemovablesApart, NEW c \in Conn, UnregisterConnection(c)
    PROVE  DispatcherInv'
<1>1. /\ c \in Removable /\ l2' = [l2 EXCEPT ![c] = 0]
      /\ l0' = InvalidateL0(c) /\ l1' = InvalidateL1(c)
      /\ UNCHANGED <<running, regs>> /\ running.conn # c
    BY DEF UnregisterConnection
<1>2. l2' \in [Conn -> Nat] /\ \A d \in Conn \ {c} : l2'[d] = l2[d]
    BY <1>1 DEF DispatcherInv, DispatcherTypes
<1>3. /\ l0' \in [Sets -> [Way -> [conn : Nat, handler : Nat]]]
      /\ \A s \in Sets, w \in Way :
            l0'[s][w] = Unused \/ (l0'[s][w] = l0[s][w] /\ l0[s][w].conn # c)
    BY <1>1, InvalidateL0Effect DEF DispatcherInv
<1>4. /\ l1' \in [Positions -> [conn : Nat, handler : Nat]]
      /\ \A p \in Positions :
            /\ l1'[p] = Unused \/ (l1'[p] = l1[p] /\ l1[p].conn # c)
            /\ (\A k \in Probe : Pos(c, k) # p) => l1'[p] = l1[p]
            /\ l1'[p] # l1[p] => l1[p].conn = c
    BY <1>1, InvalidateL1Effect DEF DispatcherInv
<1>5. DispatcherTypes'
    BY <1>1, <1>2, <1>3, <1>4 DEF DispatcherInv, DispatcherTypes
<1>6. ASSUME NEW e, Copy(e), e.conn # c
      PROVE  e.conn \in Conn /\ e = Holding(e.conn, l2'[e.conn]) /\ l2'[e.conn] # 0
    BY <1>2, <1>6 DEF Copy
<1>7. L0Copies'
    <2>1. ASSUME NEW s \in Sets, NEW w \in Way
          PROVE  \/ l0'[s][w] = Unused
                 \/ /\ l0'[s][w].conn \in Conn
                    /\ l0'[s][w] = Holding(l0'[s][w].conn, l2'[l0'[s][w].conn])
                    /\ l2'[l0'[s][w].conn] # 0
                    /\ SetOf(l0'[s][w].conn) = s
        BY <1>3, <1>6 DEF DispatcherInv, L0Copies
    <2>2. ASSUME NEW s \in Sets, l0'[s][0].conn = l0'[s][1].conn, l0'[s][0] # Unused
          PROVE  FALSE
        <3>1. 0 \in Way /\ 1 \in Way
            BY DEF Way
        <3>2. l0'[s][0].conn \in Conn
            BY <2>1, <2>2, <3>1
        <3>3. l0'[s][1] # Unused
            BY <2>2, <3>2, ConnType DEF Unused
        <3>4. l0'[s][0] = l0[s][0] /\ l0'[s][1] = l0[s][1]
            BY <1>3, <2>2, <3>1, <3>3
        <3> QED
            BY <2>2, <3>4 DEF DispatcherInv, L0Copies
    <2> QED
        BY <2>1, <2>2 DEF L0Copies, Copy
<1>8. L1Copies'
    <2>1. ASSUME NEW p \in Positions
          PROVE  \/ l1'[p] = Unused
                 \/ /\ l1'[p].conn \in Conn
                    /\ l1'[p] = Holding(l1'[p].conn, l2'[l1'[p].conn])
                    /\ l2'[l1'[p].conn] # 0
                    /\ \E i \in Probe : Pos(l1'[p].conn, i) = p
        BY <1>4, <1>6 DEF DispatcherInv, L1Copies
    <2> QED
        BY <2>1 DEF L1Copies, Copy
<1>9. L1Found'
    <2>1. SUFFICES ASSUME NEW r \in Removable, NEW i \in Probe, l1'[Pos(r, i)].conn = r
                   PROVE  /\ l1'[Pos(r, i)].conn \in {r, NoConn}
                          /\ \A j \in Probe : j < i => l1'[Pos(r, j)].conn \notin {r, NoConn}
        <3>1. \A r \in Removable, i \in Probe :
                  i \in Stop(r, Line(r))' <=>
                     /\ l1'[Pos(r, i)].conn \in {r, NoConn}
                     /\ \A j \in Probe : j < i => l1'[Pos(r, j)].conn \notin {r, NoConn}
            BY StopAt DEF Line
        <3> QED
            BY <2>1, <3>1 DEF L1Found
    <2>2. r \in Conn /\ \A j \in Probe : Pos(r, j) \in Positions
        BY PosType, DispatcherAssumption
    <2>3. r # c
        <3>1. Unused.conn # c
            BY ConnType DEF Unused
        <3> QED
            BY <1>4, <2>1, <2>2, <3>1
    <2>4. \A j \in Probe : l1'[Pos(r, j)] = l1[Pos(r, j)]
        BY <1>1, <1>4, <2>2, <2>3 DEF RemovablesApart
    <2>5. i \in Stop(r, Line(r))
        BY <2>1, <2>4 DEF DispatcherInv, L1Found
    <2> QED
        BY <2>1, <2>4, <2>5, StopInL1
<1>10. RunningKnown'
    <2> SUFFICES ASSUME running # NoHandler
                 PROVE  RunningKnown'
        BY <1>1 DEF RunningKnown
    <2>1. PICK d \in Conn : d = running.conn
        BY DEF DispatcherInv, RunningKnown
    <2>2. d # c /\ l2'[d] = l2[d] /\ Unused.conn # d
        BY <1>1, <1>2, <2>1, ConnType DEF Unused
    <2>3. \A w \in Way : l0[SetOf(d)][w].conn # d => l0'[SetOf(d)][w].conn # d
        BY <1>3, <2>2, SetOfType
    <2>4. \A p \in Positions : l1[p].conn = d => l1'[p].conn = d
        BY <1>4, <2>2
    <2> QED
        BY <1>1, <2>1, <2>2, <2>3, <2>4 DEF DispatcherInv, RunningKnown
<1> QED
    BY <1>5, <1>7, <1>8, <1>9, <1>10 DEF DispatcherInv

----------------------------------------------------------------------------
(* Dispatch, and what it does when the handler returns.                    *)

\* Dispatch finds the handler of the registration, in whichever level.
LEMMA DispatchInv ==
    ASSUME DispatcherInv, NEW c \in Conn,
           DispatchFromL0(c) \/ DispatchFromL1(c) \/ DispatchFromL2(c)
    PROVE  DispatcherInv'
<1>1. UNCHANGED <<l0, l1, l2, regs>>
    BY DEF DispatchFromL0, DispatchFromL1, DispatchFromL2, Call
<1>2. DispatcherTypes' /\ L0Copies' /\ L1Copies' /\ L1Found'
    BY <1>1 DEF DispatcherInv, DispatcherTypes, L0Copies, L1Copies, L1Found, Copy, Line
<1>3. Unused.conn # c /\ \A h : Holding(c, h).handler = h
    BY ConnType DEF Unused, Holding
<1>4. CASE DispatchFromL0(c)
    <2>1. PICK w \in Way : /\ l0[SetOf(c)][w].conn = c
                           /\ Call("L0", c, w, l0[SetOf(c)][w].handler)
        BY <1>4 DEF DispatchFromL0, WaysOf
    <2>2. Copy(l0[SetOf(c)][w])
        BY <1>3, <2>1, SetOfType DEF DispatcherInv, L0Copies
    <2>3. l0[SetOf(c)][w].handler = l2[c] /\ l2[c] # 0
        BY <1>3, <2>1, <2>2 DEF Copy
    <2>4. running' = [level |-> "L0", conn |-> c, pos |-> w, handler |-> l2[c], owner |-> l2[c]]
        BY <2>1, <2>3 DEF Call
    <2> QED
        BY <1>1, <1>2, <2>3, <2>4 DEF DispatcherInv, RunningKnown
<1>5. CASE DispatchFromL1(c)
    <2>1. PICK k \in FoundIn(c) : Call("L1", c, Pos(c, k), Line(c)[k].handler)
        BY <1>5 DEF DispatchFromL1
    <2>2. k \in Probe /\ l1[Pos(c, k)].conn = c /\ Line(c)[k] = l1[Pos(c, k)]
        BY LineAt, StopInL1 DEF FoundIn
    <2>3. Pos(c, k) \in Positions
        BY <2>2, PosType
    <2>4. Copy(l1[Pos(c, k)])
        BY <1>3, <2>2, <2>3 DEF DispatcherInv, L1Copies
    <2>5. l1[Pos(c, k)].handler = l2[c] /\ l2[c] # 0
        BY <1>3, <2>2, <2>4 DEF Copy
    <2>6. running' = [level |-> "L1", conn |-> c, pos |-> Pos(c, k),
                      handler |-> l2[c], owner |-> l2[c]]
        BY <2>1, <2>2, <2>5 DEF Call
    <2>7. \A w \in Way : l0[SetOf(c)][w].conn # c
        BY <1>5 DEF DispatchFromL1, WaysOf
    <2> QED
        BY <1>1, <1>2, <2>2, <2>3, <2>5, <2>6, <2>7 DEF DispatcherInv, RunningKnown
<1>6. CASE DispatchFromL2(c)
    <2>1. running' = [level |-> "L2", conn |-> c, pos |-> 0, handler |-> l2[c], owner |-> l2[c]]
        BY <1>6 DEF DispatchFromL2, Call
    <2> QED
        BY <1>1, <1>2, <1>6, <2>1 DEF DispatcherInv, RunningKnown, DispatchFromL2
<1> QED
    BY <1>4, <1>5, <1>6

\* What Dispatch promotes after the handler has returned is still registered.
LEMMA HandlerReturnsInv ==
    ASSUME DispatcherInv, HandlerReturns
    PROVE  DispatcherInv'
<1>1. PICK c \in Conn : c = running.conn
    BY DEF HandlerReturns, DispatcherInv, RunningKnown
<1>2. /\ running' = NoHandler /\ UNCHANGED <<l2, regs>>
      /\ l2[c] # 0
    BY <1>1 DEF HandlerReturns, DispatcherInv, RunningKnown
<1>3. NowHas(c, l2[c])
    BY <1>2 DEF NowHas, DispatcherInv, DispatcherTypes
<1>4. RunningKnown'
    BY <1>2 DEF RunningKnown
<1>5. l0' \in [Sets -> [Way -> [conn : Nat, handler : Nat]]] /\ L0Copies'
    <2>1. CASE l0' = l0
        BY <1>2, <2>1 DEF DispatcherInv, DispatcherTypes, L0Copies, Copy
    <2>2. CASE l0' # l0
        <3>1. running.level = "L1" /\ MaybePromoteToL0(c, l1[running.pos].handler)
            BY <1>1, <2>2 DEF HandlerReturns
        <3>2. /\ \A w \in Way : l0[SetOf(c)][w].conn # c
              /\ running.pos \in Positions /\ l1[running.pos].conn = c
            BY <1>1, <3>1 DEF HandlerReturns, DispatcherInv, RunningKnown
        <3>3. l1[running.pos].handler = l2[c]
            <4>1. Unused.conn # c /\ \A h : Holding(c, h).handler = h
                BY ConnType DEF Unused, Holding
            <4>2. Copy(l1[running.pos])
                BY <3>2, <4>1 DEF DispatcherInv, L1Copies
            <4> QED
                BY <3>2, <4>1, <4>2 DEF Copy
        <3>4. PICK w \in Targets(c, l0[SetOf(c)]) : PutInL0(c, w, l2[c])
            BY <2>2, <3>1, <3>3 DEF MaybePromoteToL0
        <3>5. w \in Way
            <4>1. DOMAIN l0[SetOf(c)] = Way
                BY SetOfType DEF DispatcherInv, DispatcherTypes
            <4> QED
                BY <4>1 DEF Targets, Stop
        <3> QED
            BY <1>3, <3>2, <3>4, <3>5, PutInL0Keeps DEF DispatcherInv
    <2> QED
        BY <2>1, <2>2
<1>6. l1' \in [Positions -> [conn : Nat, handler : Nat]] /\ L1Copies' /\ L1Found'
    <2>1. CASE l1' = l1
        BY <1>2, <2>1 DEF DispatcherInv, DispatcherTypes, L1Copies, L1Found, Copy, Line
    <2>2. CASE l1' # l1
        <3>1. InsertHotCache(c, l2[c])
            BY <1>1, <2>2 DEF HandlerReturns
        <3>2. PICK k \in Probe : /\ k \in Targets(c, Line(c))
                                 /\ l1' = [l1 EXCEPT ![Pos(c, k)] = Holding(c, l2[c])]
            BY <3>1, InsertEffect DEF DispatcherInv
        <3> QED
            BY <1>3, <3>2, InsertKeepsCopies, InsertKeepsFound DEF DispatcherInv
    <2> QED
        BY <2>1, <2>2
<1> QED
    BY <1>2, <1>4, <1>5, <1>6 DEF DispatcherInv, DispatcherTypes

----------------------------------------------------------------------------

\* The levels are empty at the start.
LEMMA DispatcherStart == DispatcherInit => DispatcherInv
<1> SUFFICES ASSUME DispatcherInit
             PROVE  DispatcherInv
    OBVIOUS
<1> USE DEF DispatcherInit
<1>1. Unused \in [conn : Nat, handler : Nat] /\ Unused.conn = NoConn
    BY DEF Unused, NoConn
<1>2. /\ \A s \in Sets, w \in Way : l0[s][w] = Unused
      /\ \A p \in Positions : l1[p] = Unused
    BY DEF Sets, Positions
<1>3. DispatcherTypes
    BY <1>1 DEF DispatcherTypes, Sets, Positions
<1>4. L0Copies /\ L1Copies
    <2>1. 0 \in Way
        BY DEF Way
    <2> HIDE DEF DispatcherInit
    <2> QED
        BY <1>2, <2>1 DEF L0Copies, L1Copies
<1>5. L1Found
    <2> SUFFICES ASSUME NEW c \in Removable, NEW k \in Probe
                 PROVE  l1[Pos(c, k)].conn # c
        BY DEF L1Found
    <2>1. c \in Conn
        BY DispatcherAssumption
    <2>2. l1[Pos(c, k)] = Unused
        BY <1>2, <2>1, PosType
    <2> QED
        BY <1>1, <2>1, <2>2, ConnType
<1> QED
    BY <1>3, <1>4, <1>5 DEF DispatcherInv, RunningKnown

\* Every step keeps the invariant where there is room in L1.
LEMMA DispatcherStep ==
    ASSUME ~Updates, ~SelfRemoval, RemovablesApart
    PROVE  DispatcherInv /\ LinesHaveRoom /\ [DispatcherNext]_dispatcherVars => DispatcherInv'
<1> SUFFICES ASSUME DispatcherInv, LinesHaveRoom, [DispatcherNext]_dispatcherVars
             PROVE  DispatcherInv'
    OBVIOUS
<1>1. ASSUME NEW c \in Conn, RegisterConnection(c)
      PROVE  DispatcherInv'
    BY <1>1, RegisterInv
<1>2. ASSUME NEW c \in Conn, UnregisterConnection(c)
      PROVE  DispatcherInv'
    BY <1>2, UnregisterInv
<1>3. ASSUME NEW c \in Conn, DispatchFromL0(c) \/ DispatchFromL1(c) \/ DispatchFromL2(c)
      PROVE  DispatcherInv'
    BY <1>3, DispatchInv
<1>4. CASE HandlerReturns
    BY <1>4, HandlerReturnsInv
<1>5. CASE UNCHANGED dispatcherVars
    BY <1>5 DEF dispatcherVars, DispatcherInv, DispatcherTypes, L0Copies, L1Copies, L1Found,
                RunningKnown, Copy, Line
<1> QED
    BY <1>1, <1>2, <1>3, <1>4, <1>5 DEF DispatcherNext

\* What the invariant says of the copies and of the handler that runs.
LEMMA InvariantRoutes == DispatcherInv => LevelsAgree /\ RoutedToOwner /\ HandlerNotNull
<1> SUFFICES ASSUME DispatcherInv
             PROVE  LevelsAgree /\ RoutedToOwner /\ HandlerNotNull
    OBVIOUS
<1>1. \A e : Copy(e) => e.handler = l2[e.conn]
    BY DEF Copy, Holding
<1>2. LevelsAgree
    BY <1>1 DEF DispatcherInv, DispatcherTypes, L0Copies, L1Copies, LevelsAgree
<1>3. RoutedToOwner
    BY DEF DispatcherInv, RunningKnown, RoutedToOwner, NoHandler
<1>4. HandlerNotNull
    BY DEF DispatcherInv, RunningKnown, HandlerNotNull
<1> QED
    BY <1>2, <1>3, <1>4

\* As long as registrations find room in L1, every completion goes to the
\* handler its connection has at that moment, no handler is null, and no copy
\* outlives its registration.
THEOREM RoutedWhileRoom ==
    ASSUME ~Updates, ~SelfRemoval, RemovablesApart
    PROVE  DispatcherSpec /\ []LinesHaveRoom => [](LevelsAgree /\ RoutedToOwner /\ HandlerNotNull)
BY DispatcherStart, DispatcherStep, InvariantRoutes, PTL DEF DispatcherSpec
=============================================================================
