------------------------------ MODULE JobQueue ------------------------------
(***************************************************************************)
(* What a queue of jobs with one consumer promises when any command may be *)
(* refused or lose its answer and the process may die: a job comes to the  *)
(* tail of the list once at most, leaves it from the head only, and is     *)
(* handed out once at most.  A job may be lost on the way; it is never     *)
(* worked on twice, nor before one that was accepted earlier.              *)
(***************************************************************************)
EXTENDS Sequences

CONSTANTS Jobs, NoJob

VARIABLES fresh,    \* jobs that may still come to the list
          list,     \* jobs that wait
          held      \* the job handed out last; NoJob after a restart

vars == <<fresh, list, held>>

Init == fresh = Jobs /\ list = <<>> /\ held = NoJob

Accept ==
    /\ \E j \in fresh : list' = Append(list, j) /\ fresh' = fresh \ {j}
    /\ UNCHANGED held

\* A submission that fails before the list.
Reject ==
    /\ \E j \in fresh : fresh' = fresh \ {j}
    /\ UNCHANGED <<list, held>>

\* The head of the list is handed out, or lost with its answer.
Deliver ==
    /\ list # <<>>
    /\ list' = Tail(list)
    /\ held' \in {Head(list), held}
    /\ UNCHANGED fresh

\* The process dies, with what it held and at most one submission.
Restart ==
    /\ held' = NoJob
    /\ fresh' = fresh \/ \E j \in fresh : fresh' = fresh \ {j}
    /\ UNCHANGED list

Next == Accept \/ Reject \/ Deliver \/ Restart

Spec == Init /\ [][Next]_vars
=============================================================================
