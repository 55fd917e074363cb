------------------------------ MODULE KvServer ------------------------------
(***************************************************************************)
(* The key-value server: one thread that accepts connections and handles   *)
(* completions in turn, the ConnectionManager it takes connection ids      *)
(* from, its side of the TCP handshake, and its buffers.                   *)
(*                                                                         *)
(* A client connects once; it stands for the Connection the server makes   *)
(* for it, so that a late completion can be told from one of the next      *)
(* connection with the same id.  Here clients are the environment: they    *)
(* ask what their plan says.  KvBenchmark puts the real client in their    *)
(* place.                                                                  *)
(*                                                                         *)
(* The store is the map that KvStore implements, and the pool a FifoPool,  *)
(* since the server leaves the default policy.  The NIC is external: it    *)
(* takes receives and sends in the order they were posted, uses their      *)
(* buffers until the completion, and flushes what is left with errors when *)
(* the connection fails.  A message travels with its work request; it is   *)
(* what is in the buffer as long as the buffer has no other user.          *)
(***************************************************************************)
EXTENDS Integers, Sequences, FiniteSets, SequencesExt, SendSignaling, FifoPool

CONSTANTS Client,
          MaxConnections,  \* ConnectionManagerConfig::max_connections
          BufferCount,     \* BufferPoolConfig::buffer_count
          RecvCount,       \* receives posted on a new connection
          BatchSize,       \* completions taken by one poll
          Capacity,        \* slots of the store
          Plan,            \* the kinds of requests that each client sends
          MaxFaults,       \* bound: connections that fail
          DestroyPurges    \* destroying a queue pair takes its completions
                           \* out of the completion queues

\* What a client may send: a get, a put, a put that is shorter than its header
\* says or of a size the store does not take, less than a header, or a header
\* with any other type.
RequestKind == {"GET", "PUT", "CUT", "SHORT", "OTHER"}

ASSUME KvServerAssumption ==
    /\ MaxConnections \in Nat \ {0} /\ MaxConnections <= 65535
    /\ BufferCount \in Nat /\ RecvCount \in Nat
    /\ BatchSize \in Nat \ {0} /\ Capacity \in Nat /\ MaxFaults \in Nat
    /\ DestroyPurges \in BOOLEAN

\* "none" is the client of no connection, below.
ASSUME ClientAssumption == "none" \notin Client

ASSUME PlanAssumption == Plan \in [Client -> Seq(RequestKind)]

ConnId == 0 .. MaxConnections - 1
Buffer == 1 .. BufferCount

NoConnection == [client |-> "none"]
NoContext == [client |-> "none"]
NoId == -1

VARIABLES
    handshake,      \* how far each client's TCP channel has come
    todo,           \* what each client has yet to ask
    accepting,      \* the id of the connection AcceptConnections waits with
    free_conn_ids,  \* ConnectionManager: the stack of free ids ...
    connections,    \* ... and the connections, with their queue pairs
    conn_contexts,  \* KVServer::conn_contexts_
    registered,     \* the ids the dispatcher has a handler for
    store,          \* the values stored
    pool,           \* buffer_pool_
    posted_recv,    \* posted_recv_buffers_: pairs of an id and a buffer
    posted_send,    \* posted_send_buffers_: from pairs of an id and a number
    cq,             \* the two completion queues
    turn, batch,    \* what the loop does next; the completions it is handling
    faults

managerVars == <<free_conn_ids, connections>>
bufferVars == <<pool, posted_recv, posted_send>>
loopVars == <<turn, batch>>
clientVars == <<handshake, todo>>
serverVars == <<handshake, todo, accepting, managerVars, conn_contexts, registered,
                store, bufferVars, cq, loopVars, faults>>

----------------------------------------------------------------------------

\* ConnectionManager::Create.
ManagerInit ==
    /\ free_conn_ids = [i \in 1 .. MaxConnections |-> MaxConnections - i]
    /\ connections = [c \in ConnId |-> NoConnection]

ServerInit ==
    /\ ManagerInit
    /\ handshake = [cl \in Client |-> "idle"]
    /\ todo = Plan
    /\ accepting = NoId
    /\ conn_contexts = [c \in ConnId |-> NoContext]
    /\ registered = {}
    /\ store = << >>
    /\ pool = NewPool(BufferCount)
    /\ posted_recv = {}
    /\ posted_send = << >>
    /\ cq = [send |-> << >>, recv |-> << >>]
    /\ turn = "accept" /\ batch = << >>
    /\ faults = 0

Live(c) == connections[c] # NoConnection

\* A new Connection with its queue pair: the requests that wait to be sent and
\* the buffers posted for receives.
NewConnection(cl) ==
    [client |-> cl, failed |-> FALSE, counters |-> FreshCounters, sq |-> << >>, rq |-> << >>]

\* Mutant of RemoveConnection: the slot is not looked at.
RemoveUnchecked(c) ==
    /\ connections' = [connections EXCEPT ![c] = NoConnection]
    /\ free_conn_ids' = Append(free_conn_ids, c)

RemoveConnection(c) ==
    IF Live(c)
    THEN /\ connections' = [connections EXCEPT ![c] = NoConnection]
         /\ free_conn_ids' = Append(free_conn_ids, c)
    ELSE UNCHANGED managerVars

----------------------------------------------------------------------------
(* AcceptConnections, which does nothing without a client in the backlog.  *)
(* A client that is refused sees its channel closed.                       *)

\* Mutant of BetweenPolls: completions of the last batch are still to come.
BetweenHandlers == turn = "accept" /\ accepting = NoId

\* Run calls AcceptConnections between two polls.
BetweenPolls == turn = "accept" /\ batch = << >> /\ accepting = NoId

NobodyWaits ==
    /\ BetweenPolls
    /\ \A cl \in Client : handshake[cl] # "backlog"
    /\ turn' = "send"
    /\ UNCHANGED <<clientVars, accepting, managerVars, conn_contexts, registered,
                   store, bufferVars, cq, batch, faults>>

\* CreateConnection, GetLocalParams or Send fails; an id taken is put back.
RefuseClient(cl) ==
    /\ BetweenPolls
    /\ handshake[cl] = "backlog"
    /\ handshake' = [handshake EXCEPT ![cl] = "refused"]
    /\ turn' = "send"
    /\ UNCHANGED <<todo, accepting, managerVars, conn_contexts, registered,
                   store, bufferVars, cq, batch, faults>>

\* The parameters are sent; Receive then blocks the server.
OfferParams(cl) ==
    /\ BetweenPolls
    /\ handshake[cl] = "backlog"
    /\ free_conn_ids # << >>
    /\ LET c == Last(free_conn_ids)
       IN  /\ connections' = [connections EXCEPT ![c] = NewConnection(cl)]
           /\ accepting' = c
    /\ free_conn_ids' = Front(free_conn_ids)
    /\ handshake' = [handshake EXCEPT ![cl] = "offered"]
    /\ UNCHANGED <<todo, conn_contexts, registered, store, bufferVars, cq, loopVars, faults>>

\* Mutant of GiveUp: a channel that is closed is read again.
GiveUpWhenAnswered ==
    /\ accepting # NoId
    /\ LET cl == connections[accepting].client
       IN  /\ handshake[cl] = "replied"
           /\ handshake' = [handshake EXCEPT ![cl] = "refused"]
    /\ RemoveConnection(accepting)
    /\ accepting' = NoId /\ turn' = "send"
    /\ UNCHANGED <<todo, conn_contexts, registered, store, bufferVars, cq, batch, faults>>

\* Receive fails because the client closed its channel, or Connect does.
GiveUp ==
    /\ accepting # NoId
    /\ LET cl == connections[accepting].client
       IN  /\ handshake[cl] \in {"closed", "replied"}
           /\ handshake' = [handshake EXCEPT ![cl] = "refused"]
    /\ RemoveConnection(accepting)
    /\ accepting' = NoId /\ turn' = "send"
    /\ UNCHANGED <<todo, conn_contexts, registered, store, bufferVars, cq, batch, faults>>

\* PostRecvBuffers: each buffer is tracked, then posted.
PostRecvBuffers(c, conn, from, n, tracked) ==
    LET bs == Allocated(from, n)
    IN  /\ pool' = AfterAllocate(from, n)
        /\ posted_recv' = tracked \cup {<<c, b>> : b \in Range(bs)}
        /\ connections' = [connections EXCEPT ![c] = [conn EXCEPT !.rq = @ \o bs]]

FinishAccept ==
    /\ accepting # NoId
    /\ LET conn == connections[accepting]
       IN  /\ handshake[conn.client] = "replied"
           /\ handshake' = [handshake EXCEPT ![conn.client] = "connected"]
           /\ conn_contexts' = [conn_contexts EXCEPT ![accepting] =
                                   [client |-> conn.client, gets |-> 0, puts |-> 0]]
           /\ PostRecvBuffers(accepting, conn, pool, RecvCount, posted_recv)
    /\ registered' = registered \cup {accepting}
    /\ accepting' = NoId /\ turn' = "send"
    /\ UNCHANGED <<todo, free_conn_ids, store, posted_send, cq, batch, faults>>

----------------------------------------------------------------------------
(* Reactor::Poll: one batch of each completion queue in turn, dispatched   *)
(* completion by completion.                                               *)

\* Mutant of Poll: the queue of receive completions was not registered.
PollSendsOnly ==
    /\ turn \in {"send", "recv"} /\ batch = << >>
    /\ LET n == IF Len(cq.send) < BatchSize THEN Len(cq.send) ELSE BatchSize
       IN  /\ batch' = SubSeq(cq.send, 1, n)
           /\ cq' = [cq EXCEPT !.send = SubSeq(@, n + 1, Len(@))]
    /\ turn' = "accept"
    /\ UNCHANGED <<clientVars, accepting, managerVars, conn_contexts, registered,
                   store, bufferVars, faults>>

\* Mutant of Poll: more completions than the buffer has room for.
PollAll ==
    /\ turn \in {"send", "recv"} /\ batch = << >>
    /\ batch' = cq[turn]
    /\ cq' = [cq EXCEPT ![turn] = << >>]
    /\ turn' = IF turn = "send" THEN "recv" ELSE "accept"
    /\ UNCHANGED <<clientVars, accepting, managerVars, conn_contexts, registered,
                   store, bufferVars, faults>>

\* Mutant of Poll: the completions of a batch are handled last to first.
PollBackwards ==
    /\ turn \in {"send", "recv"} /\ batch = << >>
    /\ LET n == IF Len(cq[turn]) < BatchSize THEN Len(cq[turn]) ELSE BatchSize
       IN  /\ batch' = Reverse(SubSeq(cq[turn], 1, n))
           /\ cq' = [cq EXCEPT ![turn] = SubSeq(@, n + 1, Len(@))]
    /\ turn' = IF turn = "send" THEN "recv" ELSE "accept"
    /\ UNCHANGED <<clientVars, accepting, managerVars, conn_contexts, registered,
                   store, bufferVars, faults>>

Poll ==
    /\ turn \in {"send", "recv"} /\ batch = << >>
    /\ LET n == IF Len(cq[turn]) < BatchSize THEN Len(cq[turn]) ELSE BatchSize
       IN  /\ batch' = SubSeq(cq[turn], 1, n)
           /\ cq' = [cq EXCEPT ![turn] = SubSeq(@, n + 1, Len(@))]
    /\ turn' = IF turn = "send" THEN "recv" ELSE "accept"
    /\ UNCHANGED <<clientVars, accepting, managerVars, conn_contexts, registered,
                   store, bufferVars, faults>>

\* The completion to handle: of the given kind, at the head of the batch.
Handling(wc, kind, ok) ==
    /\ accepting = NoId
    /\ batch # << >> /\ wc = Head(batch)
    /\ wc.kind = kind /\ wc.ok = ok
    /\ batch' = Tail(batch)
    /\ UNCHANGED <<clientVars, accepting, registered, turn, faults>>

Without(f, w) == [v \in DOMAIN f \ {w} |-> f[v]]

With(f, w, b) == [v \in DOMAIN f \cup {w} |-> IF v = w THEN b ELSE f[v]]

\* Mutant of HandleSendCompletion: the buffer is freed and stays tracked.
HandleSendKeeping(wc) ==
    /\ Handling(wc, "send", TRUE)
    /\ IF wc.conn \in registered /\ wc.wr_id \in DOMAIN posted_send
       THEN pool' = AfterFree(pool, posted_send[wc.wr_id])
       ELSE UNCHANGED pool
    /\ UNCHANGED <<managerVars, conn_contexts, store, posted_recv, posted_send, cq>>

\* HandleCompletion of a send: its buffer is freed.
HandleSendCompletion(wc) ==
    /\ Handling(wc, "send", TRUE)
    /\ IF wc.conn \in registered /\ wc.wr_id \in DOMAIN posted_send
       THEN /\ pool' = AfterFree(pool, posted_send[wc.wr_id])
            /\ posted_send' = Without(posted_send, wc.wr_id)
       ELSE UNCHANGED <<pool, posted_send>>
    /\ UNCHANGED <<managerVars, conn_contexts, store, posted_recv, cq>>

\* KVStore as its users see it: see KvMap.
PutStatus == IF Cardinality(DOMAIN store) < Capacity THEN "OK" ELSE "NO_SPACE"

\* The answer to a request, ...
ResponseTo(msg) ==
    IF msg.op = "GET"
    THEN [op |-> "GET_RESPONSE", key |-> msg.key,
          status |-> IF msg.key \in DOMAIN store THEN "OK" ELSE "NOT_FOUND"]
    ELSE [op |-> "PUT_RESPONSE", key |-> msg.key,
          status |-> IF msg.op = "PUT" THEN PutStatus ELSE "INVALID_REQUEST"]

\* ... the number its send is tracked under, ...
SendNumber(ctx, op) ==
    CASE op = "GET" -> ctx.gets [] op \in {"PUT", "CUT"} -> ctx.puts [] OTHER -> 0


\* ... and the context afterwards.
Counted(ctx, op) ==
    CASE op = "GET" -> [ctx EXCEPT !.gets = @ + 1]
      [] op \in {"PUT", "CUT"} -> [ctx EXCEPT !.puts = @ + 1]
      [] OTHER -> ctx

\* Connection::Send; its result is ignored.  (A send queue of 4096 does not
\* fill up: every send takes a buffer, and few of the 512 come back.)
Posted(conn, wr_id, b, msg) ==
    [conn EXCEPT !.sq = Append(@, [wr_id |-> wr_id, buf |-> b, msg |-> msg,
                                   signaled |-> ShouldSignal(conn.counters)]),
                 !.counters = AfterShouldSignal(@)]

\* HandleRequest with ProcessRequest, ProcessGet, ProcessPut or
\* SendErrorResponse: the store first, then a buffer for the response, which
\* is not sent if there is none, and last the receive buffer is replaced.  A
\* message shorter than a header is dropped.
Process(c, buf, msg) ==
    LET answered == msg.op # "SHORT" /\ pool.queue # << >>
        response_buf == Head(pool.queue)
        wr_id == <<c, SendNumber(conn_contexts[c], msg.op)>>
    IN  /\ store' = IF msg.op = "PUT" /\ PutStatus = "OK"
                    THEN With(store, msg.key, "value") ELSE store
        /\ IF answered
           THEN /\ posted_send' = With(posted_send, wr_id, response_buf)
                /\ conn_contexts' = [conn_contexts EXCEPT ![c] = Counted(@, msg.op)]
                /\ PostRecvBuffers(c, Posted(connections[c], wr_id, response_buf,
                                             ResponseTo(msg)),
                                   AfterFree(AfterAllocate(pool, 1), buf), 1,
                                   posted_recv \ {<<c, buf>>})
           ELSE /\ UNCHANGED <<posted_send, conn_contexts>>
                /\ PostRecvBuffers(c, connections[c], AfterFree(pool, buf), 1,
                                   posted_recv \ {<<c, buf>>})

\* Without a context or a tracked buffer HandleRequest returns at once.
HandleRequest(wc) ==
    /\ Handling(wc, "recv", TRUE)
    /\ IF /\ wc.conn \in registered
          /\ conn_contexts[wc.conn] # NoContext
          /\ <<wc.conn, wc.buf>> \in posted_recv
       THEN Process(wc.conn, wc.buf, wc.msg)
       ELSE UNCHANGED <<connections, conn_contexts, store, bufferVars>>
    /\ UNCHANGED <<free_conn_ids, cq>>

\* The completions of a queue that are not of a client, in their order.
WithoutClient(wcs, cl) ==
    LET kept[i \in 0 .. Len(wcs)] ==
            IF i = 0 THEN << >>
            ELSE IF wcs[i].client = cl THEN kept[i - 1]
            ELSE Append(kept[i - 1], wcs[i])
    IN  kept[Len(wcs)]

\* Destroying the queue pair of a client may take its completions along.
Purged(cl) ==
    IF DestroyPurges
    THEN [send |-> WithoutClient(cq.send, cl), recv |-> WithoutClient(cq.recv, cl)]
    ELSE cq

\* Mutant of OnError: the context is kept.
OnErrorKeepingContext(wc) ==
    /\ Handling(wc, wc.kind, FALSE)
    /\ cq' = Purged(connections[wc.conn].client)
    /\ RemoveConnection(wc.conn)
    /\ UNCHANGED <<conn_contexts, store, bufferVars>>

\* A failed completion goes to OnError.  The handler stays registered and the
\* buffers of the connection stay tracked.
OnError(wc) ==
    /\ Handling(wc, wc.kind, FALSE)
    /\ conn_contexts' = [conn_contexts EXCEPT ![wc.conn] = NoContext]
    /\ cq' = Purged(connections[wc.conn].client)
    /\ RemoveConnection(wc.conn)
    /\ UNCHANGED <<store, bufferVars>>

Handle ==
    /\ batch # << >>
    /\ LET wc == Head(batch)
       IN  HandleSendCompletion(wc) \/ HandleRequest(wc) \/ OnError(wc)

ServerStep ==
    \/ NobodyWaits
    \/ \E cl \in Client : RefuseClient(cl) \/ OfferParams(cl)
    \/ GiveUp \/ FinishAccept
    \/ Poll \/ Handle

----------------------------------------------------------------------------
(* The NIC of the server.                                                  *)

\* A receive that is flushed has no message.
NoMessage == [op |-> "NONE", key |-> 0]

SendCompletion(ok, c, wr_id) ==
    [kind |-> "send", ok |-> ok, conn |-> c, client |-> connections[c].client,
     wr_id |-> wr_id]

RecvCompletion(ok, c, b, msg) ==
    [kind |-> "recv", ok |-> ok, conn |-> c, client |-> connections[c].client,
     buf |-> b, msg |-> msg]

\* A message arrives in the buffer that was posted first.
ReceiveMessage(c, msg) ==
    /\ Live(c) /\ ~connections[c].failed /\ connections[c].rq # << >>
    /\ LET b == Head(connections[c].rq)
       IN  /\ connections' = [connections EXCEPT ![c].rq = Tail(@)]
           /\ cq' = [cq EXCEPT !.recv = Append(@, RecvCompletion(TRUE, c, b, msg))]
    /\ UNCHANGED <<accepting, free_conn_ids, conn_contexts, registered,
                   store, bufferVars, loopVars, faults>>

\* The oldest request of a send queue is done; a signaled one completes.
FinishSend(c) ==
    /\ Live(c) /\ ~connections[c].failed /\ connections[c].sq # << >>
    /\ LET wr == Head(connections[c].sq)
       IN  cq' = IF wr.signaled
                 THEN [cq EXCEPT !.send = Append(@, SendCompletion(TRUE, c, wr.wr_id))]
                 ELSE cq
    /\ connections' = [connections EXCEPT ![c].sq = Tail(@)]
    /\ UNCHANGED <<accepting, free_conn_ids, conn_contexts, registered,
                   store, bufferVars, loopVars, faults>>

\* The connection fails, once it is established.
NicFails(c) ==
    /\ faults < MaxFaults
    /\ Live(c) /\ c # accepting /\ ~connections[c].failed
    /\ connections' = [connections EXCEPT ![c].failed = TRUE]
    /\ faults' = faults + 1
    /\ UNCHANGED <<clientVars, accepting, free_conn_ids, conn_contexts, registered,
                   store, bufferVars, cq, loopVars>>

\* Whatever is posted to a failed connection completes with an error.
NicFlushes(c) ==
    /\ Live(c) /\ connections[c].failed
    /\ connections[c].sq # << >> \/ connections[c].rq # << >>
    /\ LET sends == [i \in DOMAIN connections[c].sq |->
                        SendCompletion(FALSE, c, connections[c].sq[i].wr_id)]
           receives == [i \in DOMAIN connections[c].rq |->
                           RecvCompletion(FALSE, c, connections[c].rq[i], NoMessage)]
       IN  cq' = [send |-> cq.send \o sends, recv |-> cq.recv \o receives]
    /\ connections' = [connections EXCEPT ![c].sq = << >>, ![c].rq = << >>]
    /\ UNCHANGED <<clientVars, accepting, free_conn_ids, conn_contexts, registered,
                   store, bufferVars, loopVars, faults>>

----------------------------------------------------------------------------
(* The clients, as the server sees them.                                   *)

ClientCalls(cl) ==
    /\ handshake[cl] = "idle"
    /\ handshake' = [handshake EXCEPT ![cl] = "backlog"]
    /\ UNCHANGED <<todo, accepting, managerVars, conn_contexts, registered,
                   store, bufferVars, cq, loopVars, faults>>

\* A client answers the offer, or closes its channel.
ClientReplies(cl, answer) ==
    /\ handshake[cl] = "offered"
    /\ handshake' = [handshake EXCEPT ![cl] = answer]
    /\ UNCHANGED <<todo, accepting, managerVars, conn_contexts, registered,
                   store, bufferVars, cq, loopVars, faults>>

ClientAsks(c) ==
    /\ Live(c)
    /\ LET cl == connections[c].client
       IN  /\ handshake[cl] = "connected" /\ todo[cl] # << >>
           /\ ReceiveMessage(c, [op |-> Head(todo[cl]), key |-> 1])
           /\ todo' = [todo EXCEPT ![cl] = Tail(@)]
    /\ UNCHANGED handshake

ClientReceives(c) == FinishSend(c) /\ UNCHANGED clientVars

ServerNext ==
    \/ ServerStep
    \/ \E c \in ConnId :
          ClientAsks(c) \/ ClientReceives(c) \/ NicFails(c) \/ NicFlushes(c)
    \/ \E cl \in Client :
          ClientCalls(cl) \/ \E answer \in {"replied", "closed"} : ClientReplies(cl, answer)

\* The server's loop runs, the NIC flushes, and a client that was sent an offer
\* answers it or closes its channel.
ServerFairness ==
    /\ WF_serverVars(ServerStep)
    /\ \A c \in ConnId : WF_serverVars(NicFlushes(c))
    /\ \A cl \in Client :
          WF_serverVars(\E answer \in {"replied", "closed"} : ClientReplies(cl, answer))

ServerSpec == ServerInit /\ [][ServerNext]_serverVars /\ ServerFairness

----------------------------------------------------------------------------

ServerTypeOK ==
    /\ accepting \in ConnId \cup {NoId}
    /\ free_conn_ids \in Seq(ConnId)
    /\ \A c \in ConnId : Live(c) => connections[c].rq \in Seq(Buffer)
    /\ registered \subseteq ConnId
    /\ pool.queue \in Seq(Buffer) /\ Len(pool.queue) <= BufferCount
    /\ posted_recv \subseteq ConnId \X Buffer
    /\ \A w \in DOMAIN posted_send : w \in ConnId \X Nat /\ posted_send[w] \in Buffer
    /\ turn \in {"accept", "send", "recv"}
    /\ Len(batch) <= BatchSize

\* Every id is free once or belongs to one connection: no way out of the
\* handshake loses one, and a connection whose requests all fail gives its id
\* back once.
IdsAccounted ==
    /\ IsInjective(free_conn_ids)
    /\ \A c \in ConnId : Live(c) <=> ~Contains(free_conn_ids, c)

\* A context is there for every established connection and for no other: the
\* pointer it keeps never outlives the connection, and its handler is
\* registered, although ids are used again and again.
ContextMatchesConnection ==
    \A c \in ConnId :
        IF Live(c) /\ c # accepting
        THEN conn_contexts[c].client = connections[c].client /\ c \in registered
        ELSE conn_contexts[c] = NoContext

\* The receives posted on a connection and the sends that wait there, by their
\* places.
Receives == UNION {{<<c, i>> : i \in DOMAIN connections[c].rq} : c \in {d \in ConnId : Live(d)}}
Sends == UNION {{<<c, i>> : i \in DOMAIN connections[c].sq} : c \in {d \in ConnId : Live(d)}}

ReceivedInto(r) == connections[r[1]].rq[r[2]]
SentFrom(s) == connections[s[1]].sq[s[2]]

\* A buffer posted for a receive is posted once, is tracked under the id of its
\* connection, and is neither free nor the buffer of a response, so that
\* a request can be read when it has come.
ReceivesOwned ==
    /\ \A r, q \in Receives : r # q => ReceivedInto(r) # ReceivedInto(q)
    /\ \A r \in Receives :
          /\ <<r[1], ReceivedInto(r)>> \in posted_recv
          /\ ~Contains(pool.queue, ReceivedInto(r))
          /\ \A w \in DOMAIN posted_send : posted_send[w] # ReceivedInto(r)

\* A response that waits to be sent is tracked under its number, and its buffer
\* is not free and not that of another response.
SendsOwned ==
    /\ \A s, t \in Sends : s # t => SentFrom(s).buf # SentFrom(t).buf
    /\ \A s \in Sends :
          /\ SentFrom(s).wr_id \in DOMAIN posted_send
          /\ posted_send[SentFrom(s).wr_id] = SentFrom(s).buf
          /\ ~Contains(pool.queue, SentFrom(s).buf)

\* Receives are owned for as long as the pool is intact, whatever connections
\* fail, are removed and used again.  The pool stays intact if the first buffer
\* that comes back is the first that was handed out: with one client always,
\* with two not if the second is served first.
ReceivesOwnedWhileIntact == Intact(pool) => ReceivesOwned


\* An established connection is removed only after it has failed: the errors
\* that are left of an earlier connection never hit the next one with its id.
OnlyFailedRemoved ==
    [][\A c \in ConnId :
          Live(c) /\ c # accepting /\ connections'[c].client # connections[c].client
              => connections[c].failed]_serverVars

\* A connection that fails is removed, and its id can be used again.
FailedIsRemoved ==
    \A c \in ConnId : (Live(c) /\ connections[c].failed) ~> ~Live(c)

\* A client in the backlog gets its connection or is turned away, whether the
\* clients before it finished their handshakes or closed their channels.  (A
\* client that does neither blocks the server: Receive has no timeout.)
ClientIsAnswered ==
    \A cl \in Client : handshake[cl] = "backlog" ~> handshake[cl] \in {"connected", "refused"}
=============================================================================
