----------------------------- MODULE MCKvStore -----------------------------
(***************************************************************************)
(* A store of three slots.  Keys 1, 2 and 3 collide at the end of the      *)
(* table, so that probing wraps; key 4 starts where they spill over.       *)
(***************************************************************************)
EXTENDS KvStore

MCHashKey == [k \in Key |-> IF k = 4 THEN 8 ELSE 7]

MCValues == {<<"a", "a">>, <<"b", "b", "b", "b">>, <<"a">>}

MCSegmentLists == {<< <<"b", "b", "b">>, <<"b">> >>, << <<"a">>, <<"a", "a", "a">>, <<"a", "a">> >>, << >>}
============================================================================
