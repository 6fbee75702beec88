----------------------------- MODULE MCKeyspace -----------------------------
(* Small instances of Keyspace. *)
EXTENDS Keyspace

CONSTANTS k1, k2,   \* keys
          s1, n1,   \* strings, n1 a number
          e1,       \* an element of a container
          c1, c2    \* connections

\* The expire table is iterated k1 first.
MCRank == [k \in Key |-> IF k = k1 THEN 0 ELSE 1]
=============================================================================
