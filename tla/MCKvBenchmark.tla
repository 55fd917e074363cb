--------------------------- MODULE MCKvBenchmark ---------------------------
(***************************************************************************)
(* The benchmark of one client: what it sends is up to RunBenchmark.       *)
(***************************************************************************)
EXTENDS KvBenchmark

MCPlan == [cl \in Client |-> << >>]
=============================================================================
