---------------------------- MODULE MCDashTable ----------------------------
(* DashTable on four-bit hashes with long common prefixes.                 *)
EXTENDS DashTable

\* Keys are numbers, and the hash of a key is the key: 0, 1 and 2 differ only
\* in their last two bits, so that one Insert may split several times.
SmallHash == [k \in Key |-> k]
=============================================================================
