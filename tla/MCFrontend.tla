----------------------------- MODULE MCFrontend -----------------------------
(* Two vCPUs, one connection on each.                                        *)
EXTENDS Frontend

CONSTANTS c1, c2

Array(w) == [form |-> "array", word |-> w]
Inline(w) == [form |-> "inline", word |-> w]

MCVcpuOf == (c1 :> 0) @@ (c2 :> 1)
MCVictim == (c1 :> c2) @@ (c2 :> c1)
MCShardOf == [w \in {"g", "f"} |-> IF w = "g" THEN 0 ELSE 1]

\* A script sent with at most one or two recv() boundaries, anywhere.
Cut(script, n) ==
    {[script |-> script, bytes |-> BytesOf(script), cuts |-> {i, j} \ {0}] :
        i \in 0 .. Len(BytesOf(script)) - 1,
        j \in IF n = 2 THEN 1 .. Len(BytesOf(script)) - 1 ELSE {0}}

\* A script that arrives in one piece.
Whole(script) == {[script |-> script, bytes |-> BytesOf(script), cuts |-> {}]}

\* The first client pipelines, and the second one disturbs it.
MCInput ==
    (c1 :> (Cut(<<Array("g"), Array("f")>>, 1) \cup Cut(<<Inline("f"), Array("q")>>, 1)
            \cup Cut(<<Inline("p"), Inline("g")>>, 2))) @@
    (c2 :> (Whole(<<Array("k")>>) \cup Whole(<<Inline("p"), Inline("p")>>)))

=============================================================================
