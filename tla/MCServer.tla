------------------------------ MODULE MCServer ------------------------------
(* Two shards; a string key and an integer key, which a process may hash to  *)
(* either shard.                                                             *)
EXTENDS Server, TLC

CONSTANTS k1, n1, empty

MCRank == (k1 :> 1) @@ (n1 :> 2) @@ (empty :> 3)

\* Two ways to hash the keys.
MCHomes == {(k1 :> 0) @@ (n1 :> 1) @@ (empty :> 0), (k1 :> 1) @@ (n1 :> 0) @@ (empty :> 0)}

\* Either much may go wrong around the start and the stop, or saves overlap, or
\* a save is followed by a restart.
Bound(writes, saves, faults, signals, restarts) ==
    [writes |-> writes, saves |-> saves, faults |-> faults, signals |-> signals,
     restarts |-> restarts]

MCBudgets == {Bound(0, 0, 2, 1, 1), Bound(1, 2, 1, 0, 0), Bound(2, 1, 0, 0, 1),
              Bound(0, 2, 0, 0, 1), Bound(1, 1, 0, 1, 0)}

\* Strings with and without a deadline, under both kinds of keys, and a set.
A(key, db, val, ttl) == [key |-> key, db |-> db, val |-> val, ttl |-> ttl]

MCWrites == {A(k1, 0, <<"string", "a">>, 1), A(k1, 1, <<"string", "a">>, 0),
             A(n1, 1, <<"string", "a">>, 0), A(k1, 0, <<"set", {"m"}>>, 0)}
=============================================================================
