---------------------------- MODULE MCTaskQueue ----------------------------
(* Small instances of TaskQueue. *)
EXTENDS TaskQueue

CONSTANTS p1, p2,   \* producers
          f1, f2    \* consumer fibers
=============================================================================
