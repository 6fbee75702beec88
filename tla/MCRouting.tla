----------------------------- MODULE MCRouting ------------------------------
(* Two shards with a connection each; keys a and b and member m are on shard *)
(* 0, key z on shard 1.                                                      *)
EXTENDS Routing

MCHome == [x \in {"a", "b", "z", "m"} |-> IF x = "z" THEN 1 ELSE 0]
MCVcpuOf == [c \in {"c0", "c1"} |-> IF c = "c0" THEN 0 ELSE 1]

Req(op, keys, vals, members) == [op |-> op, keys |-> keys, vals |-> vals, members |-> members]

MCCommand ==
    {Req(op, <<>>, <<>>, {}) : op \in {"KEYS", "RANDOMKEY", "DBSIZE", "FLUSHDB"}} \cup
    {Req("SET", <<k>>, <<"x">>, {}) : k \in {"a", "z"}} \cup
    {Req("SADD", <<k>>, <<>>, {"m"}) : k \in {"a", "z"}} \cup
    {Req(op, <<"a", "z">>, <<>>, {}) : op \in {"DEL", "EXISTS", "SDIFF"}} \cup
    {Req("MSET", <<"b", "z", "a", "a">>, <<"x", "y", "y", "x">>, {}),
     Req("MGET", <<"z", "a", "b">>, <<>>, {}),
     Req("EXISTS", <<"a", "z", "a">>, <<>>, {}),
     Req("SINTER", <<"a", "b">>, <<>>, {}),
     Req("SUNION", <<"a", "b">>, <<>>, {}),
     Req("SMOVE", <<"a", "b">>, <<>>, {"m"})}
=============================================================================
