----------------------------- MODULE MCKvServer -----------------------------
(***************************************************************************)
(* What the clients of the server ask for.                                 *)
(***************************************************************************)
EXTENDS KvServer

\* One client puts, the second time with less than its header says; the other
\* sends a request that is too short and one of no known kind.
MCPlan == [cl \in Client |-> IF cl = "x" THEN <<"PUT", "CUT">> ELSE <<"SHORT", "OTHER">>]

\* Gets and puts in turn, as in the benchmark: with this plan SendsOwned fails.
MCMixedPlan == [cl \in Client |-> <<"GET", "GET", "PUT", "PUT">>]
=============================================================================
