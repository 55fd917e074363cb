------------------------------- MODULE KvMap -------------------------------
(***************************************************************************)
(* What a KVStore promises: a map from keys to values with room for        *)
(* `capacity' keys.  A read returns what was last written; a write of a    *)
(* well-formed value is accepted unless there is no room left.             *)
(***************************************************************************)
EXTENDS Integers, Sequences, FiniteSets

CONSTANTS Key, Value,
          WellFormed(_, _),   \* a value and the size claimed for it
          Sizes               \* the sizes writers claim and readers have room for

VARIABLES map,       \* the value of each key that is stored
          capacity,  \* the number of keys that fit
          request,   \* the last operation and its key ...
          reply      \* ... and the answer to it

mapVars == <<map, capacity, request, reply>>

Answer(status, value) == [status |-> status, value |-> value]

MapInit ==
    /\ map = << >>
    /\ capacity \in Nat
    /\ request = <<"none", 0>>
    /\ reply = Answer("OK", << >>)

IsFull == Cardinality(DOMAIN map) >= capacity

Written(k, v) == [j \in DOMAIN map \cup {k} |-> IF j = k THEN v ELSE map[j]]

\* A full store may refuse a key it holds as well as a new one.
Write(k, v, size) ==
    \/ /\ WellFormed(v, size)
       /\ k \in DOMAIN map \/ ~IsFull
       /\ reply' = Answer("OK", << >>)
       /\ map' = Written(k, v)
    \/ /\ WellFormed(v, size) /\ IsFull
       /\ reply' = Answer("NO_SPACE", << >>)
       /\ UNCHANGED map
    \/ /\ ~WellFormed(v, size)
       /\ reply' = Answer("INVALID_REQUEST", << >>)
       /\ UNCHANGED map

Read(k, room) ==
    /\ reply' = IF k \notin DOMAIN map THEN Answer("NOT_FOUND", << >>)
                ELSE IF Len(map[k]) > room THEN Answer("INVALID_REQUEST", << >>)
                ELSE Answer("OK", map[k])
    /\ UNCHANGED map

MapNext ==
    \E op \in {"put", "put_sgl", "get", "value_ptr"}, k \in Key :
        /\ request' = <<op, k>>
        /\ \E size \in Sizes :
              IF op \in {"put", "put_sgl"}
              THEN \E v \in Value : Write(k, v, size)
              ELSE Read(k, size)
        /\ UNCHANGED capacity

MapSpec == MapInit /\ [][MapNext]_mapVars
============================================================================
