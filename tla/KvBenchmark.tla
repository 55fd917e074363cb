---------------------------- MODULE KvBenchmark ----------------------------
(***************************************************************************)
(* KVClient running its benchmark against KvServer, over one connection    *)
(* that does not fail.  The client keeps a number of requests under way,   *)
(* polls its two completion queues and replaces its receives; it counts    *)
(* responses without matching them to requests.                            *)
(*                                                                         *)
(* Messages of a connection arrive in order, once a receive is posted; a   *)
(* send completes when its message has arrived, before anything the        *)
(* receiver sends in return.                                               *)
(***************************************************************************)
EXTENDS KvServer

CONSTANTS Ops,            \* kinds of requests in one benchmark: a set of sets
          Key,
          NumOperations,  \* num_operations
          MaxOutstanding, \* MAX_OUTSTANDING
          ClientBuffers,  \* buffer_count of the client's pool
          ClientRecv,     \* receives posted by Connect, ...
          ClientRefill,   \* ... and kept up by the loop
          ClientBatch     \* size of wc_buffer

ASSUME KvBenchmarkAssumption ==
    /\ Client # {} /\ Key \subseteq Nat /\ Ops \subseteq SUBSET {"GET", "PUT"}
    /\ NumOperations \in Nat /\ MaxOutstanding \in Nat /\ ClientBuffers \in Nat
    /\ ClientRecv \in Nat /\ ClientRefill \in Nat /\ ClientBatch \in Nat \ {0}

VARIABLES pc, ops,
          sent, completed,
          c_pool,    \* buffer_pool_ of the client, with the default policy too
          c_sends,   \* posted_send_buffers_, by the number of the request
          c_recvs,   \* posted_recv_buffers_
          c_qp,      \* its queue pair and completion queues
          expected   \* history: the requests not yet answered

benchmarkVars == <<pc, ops, sent, completed, c_pool, c_sends, c_recvs, c_qp, expected>>
allVars == <<serverVars, benchmarkVars>>

TheClient == CHOOSE cl \in Client : TRUE

BenchmarkInit ==
    /\ ServerInit
    /\ pc = "connect" /\ ops \in Ops
    /\ sent = 0 /\ completed = 0
    /\ c_pool = NewPool(ClientBuffers)
    /\ c_sends = << >> /\ c_recvs = {}
    /\ c_qp = [counters |-> FreshCounters, sq |-> << >>, rq |-> << >>,
               send_cq |-> << >>, recv_cq |-> << >>]
    /\ expected = << >>

\* PostRecvBuffers.
PostClientRecvs(from, tracked, qp, n) ==
    LET bs == Allocated(from, n)
    IN  /\ c_pool' = AfterAllocate(from, n)
        /\ c_recvs' = tracked \cup Range(bs)
        /\ c_qp' = [qp EXCEPT !.rq = @ \o bs]

\* The rest of Connect, once the server's parameters have come.
FinishConnect ==
    /\ pc = "connect"
    /\ ClientReplies(TheClient, "replied")
    /\ PostClientRecvs(c_pool, c_recvs, c_qp, ClientRecv)
    /\ pc' = "send"
    /\ UNCHANGED <<ops, sent, completed, c_sends, expected>>

----------------------------------------------------------------------------
(* The loop of RunBenchmark.                                               *)

MaySend == sent < NumOperations /\ sent - completed < MaxOutstanding

\* SendGet, SendPut and SendPutSGL: without a buffer nothing is sent, and the
\* loop counts the request all the same.
SendRequest(op, key) ==
    /\ pc = "send" /\ MaySend
    /\ IF c_pool.queue = << >>
       THEN UNCHANGED <<c_pool, c_sends, c_qp, expected>>
       ELSE LET b == Head(c_pool.queue)
                wr == [seq |-> sent, buf |-> b, msg |-> [op |-> op, key |-> key],
                       signaled |-> ShouldSignal(c_qp.counters)]
            IN  /\ c_pool' = AfterAllocate(c_pool, 1)
                /\ c_sends' = With(c_sends, sent, b)
                /\ c_qp' = [c_qp EXCEPT !.sq = Append(@, wr),
                                        !.counters = AfterShouldSignal(@)]
                /\ expected' = Append(expected, [op |-> op, key |-> key])
    /\ sent' = sent + 1
    /\ UNCHANGED <<serverVars, pc, ops, completed, c_recvs>>

Taken(s) == IF Len(s) < ClientBatch THEN Len(s) ELSE ClientBatch

\* The loop over the first n send completions: the buffer tracked for each is
\* freed, whatever its status.
FreeSends(n) ==
    LET after[i \in 0 .. n] ==
            IF i = 0 THEN [pool |-> c_pool, sends |-> c_sends]
            ELSE LET seq == c_qp.send_cq[i]
                 IN  IF seq \in DOMAIN after[i - 1].sends
                     THEN [pool |-> AfterFree(after[i - 1].pool, after[i - 1].sends[seq]),
                           sends |-> Without(after[i - 1].sends, seq)]
                     ELSE after[i - 1]
    IN  after[n]

\* When it may send no more, the client polls for send completions.
PollSends ==
    /\ pc = "send" /\ ~MaySend
    /\ LET n == Taken(c_qp.send_cq)
       IN  /\ c_pool' = FreeSends(n).pool
           /\ c_sends' = FreeSends(n).sends
           /\ c_qp' = [c_qp EXCEPT !.send_cq = SubSeq(@, n + 1, Len(@))]
    /\ pc' = "poll_recv"
    /\ UNCHANGED <<serverVars, ops, sent, completed, c_recvs, expected>>

\* Mutant of FreeReceives: the buffer stays tracked.
FreeReceivesKeeping(n) ==
    LET after[i \in 0 .. n] ==
            IF i = 0 THEN [pool |-> c_pool, recvs |-> c_recvs]
            ELSE LET b == c_qp.recv_cq[i].buf
                 IN  IF b \in after[i - 1].recvs
                     THEN [pool |-> AfterFree(after[i - 1].pool, b),
                           recvs |-> after[i - 1].recvs]
                     ELSE after[i - 1]
    IN  after[n]

\* The loop over the first n receive completions: a buffer that is tracked is
\* freed.
FreeReceives(n) ==
    LET after[i \in 0 .. n] ==
            IF i = 0 THEN [pool |-> c_pool, recvs |-> c_recvs]
            ELSE LET b == c_qp.recv_cq[i].buf
                 IN  IF b \in after[i - 1].recvs
                     THEN [pool |-> AfterFree(after[i - 1].pool, b),
                           recvs |-> after[i - 1].recvs \ {b}]
                     ELSE after[i - 1]
    IN  after[n]

\* Mutant of Missing: a low stock of receives is not noticed.
NoneMissing(tracked) == 0

\* The receives to be posted anew, with those tracked.
Missing(tracked) ==
    IF Cardinality(tracked) < ClientRefill THEN ClientRefill - Cardinality(tracked) ELSE 0

\* It then polls for responses, each of which counts, and replaces the receives
\* they took.
PollResponses ==
    /\ pc = "poll_recv"
    /\ LET n == Taken(c_qp.recv_cq)
           freed == FreeReceives(n)
       IN  /\ completed' = completed + n
           /\ expected' = SubSeq(expected, n + 1, Len(expected))
           /\ PostClientRecvs(freed.pool, freed.recvs,
                              [c_qp EXCEPT !.recv_cq = SubSeq(@, n + 1, Len(@))],
                              Missing(freed.recvs))
    /\ pc' = IF completed' < NumOperations THEN "send" ELSE "done"
    /\ UNCHANGED <<serverVars, ops, sent, c_sends>>

----------------------------------------------------------------------------
(* The network.                                                            *)

RequestTravels(c) ==
    /\ c_qp.sq # << >>
    /\ handshake[TheClient] = "connected"
    /\ ReceiveMessage(c, Head(c_qp.sq).msg)
    /\ c_qp' = [c_qp EXCEPT !.sq = Tail(@),
                            !.send_cq = IF Head(c_qp.sq).signaled
                                        THEN Append(@, Head(c_qp.sq).seq) ELSE @]
    /\ UNCHANGED <<clientVars, pc, ops, sent, completed, c_pool, c_sends, c_recvs, expected>>

ResponseTravels(c) ==
    /\ c_qp.rq # << >>
    /\ FinishSend(c)
    /\ c_qp' = [c_qp EXCEPT !.rq = Tail(@),
                            !.recv_cq = Append(@, [buf |-> Head(c_qp.rq),
                                                   msg |-> Head(connections[c].sq).msg])]
    /\ UNCHANGED <<clientVars, pc, ops, sent, completed, c_pool, c_sends, c_recvs, expected>>

ClientStep ==
    \/ FinishConnect
    \/ \E op \in ops, key \in Key : SendRequest(op, key)
    \/ PollSends \/ PollResponses

\* What the server does for a client it does not turn away.
ServingStep ==
    /\ NobodyWaits \/ OfferParams(TheClient) \/ FinishAccept \/ Poll \/ Handle
    /\ UNCHANGED benchmarkVars

BenchmarkNext ==
    \/ ClientCalls(TheClient) /\ UNCHANGED benchmarkVars
    \/ ClientStep
    \/ ServingStep
    \/ \E c \in ConnId : RequestTravels(c) \/ ResponseTravels(c)

\* Both loops run, and messages arrive.
BenchmarkFairness ==
    /\ WF_allVars(ClientCalls(TheClient) /\ UNCHANGED benchmarkVars)
    /\ WF_allVars(ClientStep) /\ WF_allVars(ServingStep)
    /\ \A c \in ConnId : WF_allVars(RequestTravels(c)) /\ WF_allVars(ResponseTravels(c))

BenchmarkSpec == BenchmarkInit /\ [][BenchmarkNext]_allVars /\ BenchmarkFairness

----------------------------------------------------------------------------

\* On either side, a buffer that is tracked for a send has a completion to
\* come that will free it.  (Not so if SignalInterval > 1, as in the code.)
SendBuffersReturn ==
    /\ \A w \in DOMAIN posted_send :
          \/ \E c \in ConnId : Live(c) /\ \E i \in DOMAIN connections[c].sq :
                connections[c].sq[i].wr_id = w /\ connections[c].sq[i].signaled
          \/ \E i \in DOMAIN cq.send : cq.send[i].wr_id = w
          \/ \E i \in DOMAIN batch : batch[i].kind = "send" /\ batch[i].wr_id = w
    /\ \A n \in DOMAIN c_sends :
          \/ \E i \in DOMAIN c_qp.sq : c_qp.sq[i].seq = n /\ c_qp.sq[i].signaled
          \/ \E i \in DOMAIN c_qp.send_cq : c_qp.send_cq[i] = n

\* Every buffer of the client is free, tracked for a send or tracked for a
\* receive, and in one of these places only; those the NIC may still use are
\* tracked.
ClientBuffersOwned ==
    LET sending == {c_sends[n] : n \in DOMAIN c_sends}
    IN  /\ Range(c_pool.queue) \cup sending \cup c_recvs = 1 .. ClientBuffers
        /\ Len(c_pool.queue) + Cardinality(DOMAIN c_sends) + Cardinality(c_recvs)
               = ClientBuffers
        /\ Range(c_qp.rq) \subseteq c_recvs
        /\ \A i \in DOMAIN c_qp.sq :
              c_qp.sq[i].seq \in DOMAIN c_sends /\ c_sends[c_qp.sq[i].seq] = c_qp.sq[i].buf

\* The client's buffers are owned for as long as its pool is intact, although
\* most send buffers never come back: so in benchmarks shorter than the signal
\* interval, and in longer ones if a response is polled before the first send
\* completion.
ClientBuffersOwnedWhileIntact == Intact(c_pool) => ClientBuffersOwned

\* With one client the server's pool stays intact: the first buffer given back
\* is that of the first request, which came into the first buffer posted,
\* and no response is sent, let alone completed, before.
ServerPoolIntact == Intact(pool)

\* The client does not look which request a response is for; it need not,
\* since responses come in the order of the requests.  (When the client's pool
\* is no longer intact, a request may be overwritten before it is sent.)
ResponsesInOrder ==
    Intact(c_pool) =>
        \A i \in DOMAIN c_qp.recv_cq :
            /\ i \in DOMAIN expected
            /\ c_qp.recv_cq[i].msg.key = expected[i].key
            /\ c_qp.recv_cq[i].msg.op =
                  IF expected[i].op = "GET" THEN "GET_RESPONSE" ELSE "PUT_RESPONSE"

\* Every request that is really sent is answered in the end, also when the
\* client has run out of buffers for more: there is always a receive for the
\* response, since the loop keeps some posted.
SentIsAnswered == <>[](expected = << >>)
=============================================================================
