------------------------------- MODULE KeyMap -------------------------------
(***************************************************************************)
(* What a DashTable promises: a map from keys to values.                   *)
(***************************************************************************)
CONSTANTS Key, Val, Absent

VARIABLES
    contents,   \* what Find returns for each key
    call        \* the last call that changes the map

Empty == [k \in Key |-> Absent]

Insert(k, v) == call' = <<"Insert", k, v>> /\ contents' = [contents EXCEPT ![k] = v]
Erase(k) == call' = <<"Erase", k>> /\ contents' = [contents EXCEPT ![k] = Absent]
Clear == call' = <<"Clear">> /\ contents' = Empty

MInit == contents = Empty /\ call = <<"none">>

MNext == \/ \E k \in Key, v \in Val : Insert(k, v)
         \/ \E k \in Key : Erase(k)
         \/ Clear

MSpec == MInit /\ [][MNext]_<<contents, call>>
=============================================================================
