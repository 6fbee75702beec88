---------------------------- MODULE TaskChannel ----------------------------
(***************************************************************************)
(* What a TaskQueue promises: closures are accepted into a bounded FIFO,   *)
(* taken out in the order in which they were accepted, and every closure   *)
(* taken out is run, once.                                                 *)
(***************************************************************************)
EXTENDS Naturals, Sequences

CONSTANTS Closure,  \* what can be submitted
          Bound     \* how many may be pending

VARIABLES pending,  \* accepted and not yet taken, oldest first
          taken,    \* taken and not yet run
          done      \* run

cVars == <<pending, taken, done>>

New(f) == f \notin taken \cup done /\ \A i \in 1 .. Len(pending) : pending[i] # f

CInit == pending = <<>> /\ taken = {} /\ done = {}

Accept(f) ==
    /\ New(f) /\ Len(pending) < Bound
    /\ pending' = Append(pending, f)
    /\ UNCHANGED <<taken, done>>

Take ==
    /\ pending # <<>>
    /\ pending' = Tail(pending)
    /\ taken' = taken \cup {Head(pending)}
    /\ UNCHANGED done

Execute(f) ==
    /\ f \in taken
    /\ taken' = taken \ {f}
    /\ done' = done \cup {f}
    /\ UNCHANGED pending

CNext == Take \/ \E f \in Closure : Accept(f) \/ Execute(f)

CSpec == CInit /\ [][CNext]_cVars
=============================================================================
