------------------------ MODULE CompletionDispatcher ------------------------
(***************************************************************************)
(* Finding the handler of a completion by its connection id, in three      *)
(* levels: L0, sets of two ways; L1, a hash table probed linearly; L2, the *)
(* complete map.  A registration goes into all three, a dispatch promotes  *)
(* what it found one level up, and an unregistration has to reach every    *)
(* copy.                                                                   *)
(*                                                                         *)
(* A handler and its context are one value, the number of the registration *)
(* they came with; 0 stands for null.  Handlers run inside Dispatch and may *)
(* register and unregister connections; what Dispatch does after a handler *)
(* is a step of its own.  The access counts only choose which entry of a   *)
(* full line is replaced: here, any of them.                               *)
(***************************************************************************)
EXTENDS Integers

CONSTANTS Conn,         \* connection ids, of 16 bits
          L0SetCount,   \* kL0SetCount
          L1Size,       \* kHotCacheSize
          MaxReg,       \* bound: number of registrations
          Removable,    \* the connections that are unregistered some time
          Updates,      \* a registered connection may be registered again
          SelfRemoval   \* a handler may unregister its own connection

ASSUME DispatcherAssumption ==
    /\ \A c \in Conn : c \in Nat /\ c < 65535
    /\ L0SetCount \in Nat \ {0}
    /\ L1Size \in Nat /\ L1Size >= 4
    /\ MaxReg \in Nat
    /\ Removable \subseteq Conn
    /\ Updates \in BOOLEAN /\ SelfRemoval \in BOOLEAN

VARIABLES l0,       \* l0_cache_
          l1,       \* hot_cache_
          l2,       \* buckets_
          running,  \* the handler that Dispatch is in, if any
          regs      \* registrations so far

dispatcherVars == <<l0, l1, l2, running, regs>>

Way == 0 .. 1
Probe == 0 .. 3

\* conn_id 0xFFFF marks an entry as unused.
NoConn == 65535

Unused == [conn |-> NoConn, handler |-> 0]

Holding(c, h) == [conn |-> c, handler |-> h]

NoHandler == [level |-> "none", conn |-> NoConn, pos |-> 0, handler |-> 0, owner |-> 0]

----------------------------------------------------------------------------

SetOf(c) == c % L0SetCount

\* The multiplier is 0x9E3779B9, of which the mask to 64 positions leaves the
\* low six bits: 57.
Hash(c) == (c * 57) % L1Size

Pos(c, probe) == (Hash(c) + probe) % L1Size

\* The positions of L1 where c may be, in the order they are probed.
Line(c) == [probe \in Probe |-> l1[Pos(c, probe)]]

WithLine(c, line) ==
    [p \in DOMAIN l1 |->
        IF \E probe \in Probe : Pos(c, probe) = p
        THEN line[CHOOSE probe \in Probe : Pos(c, probe) = p]
        ELSE l1[p]]

\* Where a scan for c ends: at the first entry that is c's or unused.
Stop(c, line) ==
    {k \in DOMAIN line :
        /\ line[k].conn \in {c, Unused.conn}
        /\ \A j \in DOMAIN line : j < k => line[j].conn \notin {c, Unused.conn}}

\* The entries an insertion of c may use: that one, or else one it replaces.
Targets(c, line) == IF Stop(c, line) = {} THEN DOMAIN line ELSE Stop(c, line)

\* The first entry of c is cleared.
Clear(c, line) ==
    [k \in DOMAIN line |->
        IF line[k].conn = c /\ \A j \in DOMAIN line : j < k => line[j].conn # c
        THEN Unused
        ELSE line[k]]

\* InsertHotCache.
InsertHotCache(c, h) ==
    \E k \in Targets(c, Line(c)) :
        l1' = WithLine(c, [Line(c) EXCEPT ![k] = Holding(c, h)])

PutInL0(c, w, h) == l0' = [l0 EXCEPT ![SetOf(c)][w] = Holding(c, h)]

DispatcherInit ==
    /\ l0 = [s \in 0 .. L0SetCount - 1 |-> [w \in Way |-> Unused]]
    /\ l1 = [p \in 0 .. L1Size - 1 |-> Unused]
    /\ l2 = [c \in Conn |-> 0]
    /\ running = NoHandler
    /\ regs = 0

----------------------------------------------------------------------------
(* Registration, from anywhere, handlers included.                         *)

\* RegisterConnection.
RegisterConnection(c) ==
    /\ regs < MaxReg
    /\ l2[c] = 0 \/ Updates
    /\ regs' = regs + 1
    /\ l2' = [l2 EXCEPT ![c] = regs + 1]
    /\ \E w \in Targets(c, l0[SetOf(c)]) : PutInL0(c, w, regs + 1)
    /\ InsertHotCache(c, regs + 1)
    /\ UNCHANGED running

\* Mutant of InvalidateL0: only the first way is looked at.
InvalidateFirstWay(c) ==
    [l0 EXCEPT ![SetOf(c)][0] = IF @.conn = c THEN Unused ELSE @]

InvalidateL0(c) == [l0 EXCEPT ![SetOf(c)] = Clear(c, @)]

\* Mutant of InvalidateL1: the hash table is forgotten.
InvalidateNothing(c) == l1

\* All four positions are looked at, past unused ones.
InvalidateL1(c) == WithLine(c, Clear(c, Line(c)))

\* UnregisterConnection.
UnregisterConnection(c) ==
    /\ c \in Removable
    /\ l2[c] # 0
    /\ running.conn = c => SelfRemoval
    /\ l2' = [l2 EXCEPT ![c] = 0]
    /\ l0' = InvalidateL0(c)
    /\ l1' = InvalidateL1(c)
    /\ UNCHANGED <<running, regs>>

----------------------------------------------------------------------------
(* Dispatch of a successful completion, which may also come after its      *)
(* connection was unregistered.  (A failed one goes to the error handler   *)
(* and touches nothing here.)                                              *)

WaysOf(c) == {w \in Way : l0[SetOf(c)][w].conn = c}

\* FindInHotCache: the scan ends at an entry of c.
FoundIn(c) == {k \in Stop(c, Line(c)) : Line(c)[k].conn = c}

Call(level, c, pos, h) ==
    /\ running' = [level |-> level, conn |-> c, pos |-> pos,
                   handler |-> h, owner |-> l2[c]]
    /\ UNCHANGED <<l0, l1, l2, regs>>

DispatchFromL0(c) ==
    /\ running = NoHandler
    /\ \E w \in WaysOf(c) :
           /\ \A v \in WaysOf(c) : w <= v
           /\ Call("L0", c, w, l0[SetOf(c)][w].handler)

DispatchFromL1(c) ==
    /\ running = NoHandler
    /\ WaysOf(c) = {}
    /\ \E k \in FoundIn(c) : Call("L1", c, Pos(c, k), Line(c)[k].handler)

\* Mutant of DispatchFromL2: the null check is missing.
DispatchFromL2Unchecked(c) ==
    /\ running = NoHandler
    /\ WaysOf(c) = {} /\ FoundIn(c) = {}
    /\ Call("L2", c, 0, l2[c])

\* DispatchFromL2; the completion of an unknown connection is dropped.
DispatchFromL2(c) ==
    /\ running = NoHandler
    /\ WaysOf(c) = {} /\ FoundIn(c) = {}
    /\ l2[c] # 0
    /\ Call("L2", c, 0, l2[c])

\* MaybePromoteToL0: nothing if the scan ends at an entry of c.
MaybePromoteToL0(c, h) ==
    IF \E w \in Stop(c, l0[SetOf(c)]) : l0[SetOf(c)][w].conn = c
    THEN UNCHANGED l0
    ELSE \E w \in Targets(c, l0[SetOf(c)]) : PutInL0(c, w, h)

\* The handler returns, and Dispatch goes on with the entry it had found,
\* reading it again: it promotes an entry of L1 to L0, and one of L2 to L1.
\* (A null handler never returns.)
HandlerReturns ==
    /\ running # NoHandler /\ running.handler # 0
    /\ IF running.level = "L1"
       THEN MaybePromoteToL0(running.conn, l1[running.pos].handler)
       ELSE UNCHANGED l0
    /\ IF running.level = "L2"
       THEN InsertHotCache(running.conn, l2[running.conn])
       ELSE UNCHANGED l1
    /\ running' = NoHandler
    /\ UNCHANGED <<l2, regs>>

DispatcherNext ==
    \/ \E c \in Conn :
          \/ RegisterConnection(c)
          \/ UnregisterConnection(c)
          \/ DispatchFromL0(c)
          \/ DispatchFromL1(c)
          \/ DispatchFromL2(c)
    \/ HandlerReturns

DispatcherSpec == DispatcherInit /\ [][DispatcherNext]_dispatcherVars

----------------------------------------------------------------------------

\* A completion is handed to the handler its connection is registered with at
\* that moment: never to one that was unregistered or replaced, and to none if
\* the connection is not registered, through whichever level it is found.
RoutedToOwner == running.handler = running.owner

\* Dispatch calls no null handler.
HandlerNotNull == running # NoHandler => running.handler # 0

\* No copy in L0 or L1 outlives the registration it was made from.
LevelsAgree ==
    /\ \A s \in DOMAIN l0, w \in Way :
           l0[s][w] # Unused => l0[s][w].handler = l2[l0[s][w].conn]
    /\ \A p \in DOMAIN l1 :
           l1[p] # Unused => l1[p].handler = l2[l1[p].conn]
=============================================================================
