----------------------------- MODULE CursorSink -----------------------------
(***************************************************************************)
(* What an incremental extract over an order of rows promises, whatever    *)
(* its queries, retries and crashes look like.  It looks ahead from a mark *)
(* to a frontier, copies the rows in between, all of them and no others,   *)
(* and only then puts the mark at the frontier.  An attempt may be given   *)
(* up at any point: what was copied is copied again, nothing is left out.  *)
(*                                                                         *)
(* Rows may become visible in another order.  Those that come behind the   *)
(* frontier are late, and of these nothing is promised.                    *)
(***************************************************************************)
EXTENDS Integers

CONSTANTS Rows,          \* the rows, as values of the cursor columns
          Origin,        \* the mark before all rows
          Before(_, _)   \* the order of the cursor columns

VARIABLES visible,       \* rows in the source
          late,          \* visible rows that came behind the frontier
          copies,        \* copies[r]: copies of a row in the sink
          mark,          \* all up to here is done
          frontier       \* what is being copied ends here; the mark when nothing is

vars == <<visible, late, copies, mark, frontier>>

InHand(r) == Before(mark, r) /\ ~Before(frontier, r)

Init ==
    /\ visible = {} /\ late = {}
    /\ copies = [r \in Rows |-> 0]
    /\ mark = Origin /\ frontier = Origin

\* A row becomes visible and may replace others.
Appear ==
    /\ \E r \in Rows :
          /\ r \in visible' /\ visible' \subseteq visible \cup {r}
          /\ late' = (late \cap visible') \cup (IF Before(frontier, r) THEN {} ELSE {r})
    /\ UNCHANGED <<copies, mark, frontier>>

LookAhead ==
    /\ frontier = mark
    /\ frontier' \in visible /\ Before(mark, frontier')
    /\ UNCHANGED <<visible, late, copies, mark>>

\* One transaction; its acknowledgement may be lost, and with it the frontier.
Copy ==
    /\ DOMAIN copies' = Rows
    /\ \A r \in Rows : copies'[r] = copies[r] \/ (InHand(r) /\ copies'[r] = copies[r] + 1)
    /\ \A r \in visible \ late : InHand(r) => copies'[r] = copies[r] + 1
    /\ frontier' \in {frontier, mark}
    /\ UNCHANGED <<visible, late, mark>>

Advance ==
    /\ \A r \in visible \ late : ~Before(frontier, r) => copies[r] > 0
    /\ Before(mark, frontier)
    /\ mark' = frontier
    /\ UNCHANGED <<visible, late, copies, frontier>>

GiveUp ==
    /\ frontier' = mark
    /\ UNCHANGED <<visible, late, copies, mark>>

Next == Appear \/ LookAhead \/ Copy \/ Advance \/ GiveUp

Spec == Init /\ [][Next]_vars
=============================================================================
