------------------------------- MODULE Stream -------------------------------
(***************************************************************************)
(* What the output path of a session promises: those who watch are shown   *)
(* what the remote sent, in its order, each byte once, and when the stream *)
(* is over they have been shown all of it.  OutBatch implements this.      *)
(***************************************************************************)
EXTENDS Naturals, Sequences

VARIABLES
    sent,       \* what the remote sent
    shown,      \* what was handed on
    over        \* the stream ended

vars == <<sent, shown, over>>

Begins(s, t) == Len(s) <= Len(t) /\ \A i \in 1..Len(s) : t[i] = s[i]

Init == sent = <<>> /\ shown = <<>> /\ over = FALSE

\* More arrives, or more of what arrived is handed on, or both.
Flow ==
    /\ ~over /\ over' = FALSE
    /\ Begins(sent, sent') /\ Begins(shown, shown') /\ Begins(shown', sent')

Finish ==
    /\ ~over /\ over' = TRUE
    /\ sent' = sent
    /\ Begins(shown, shown') /\ Begins(shown', sent) /\ Len(shown') = Len(sent)

Next == Flow \/ Finish

Spec == Init /\ [][Next]_vars
=============================================================================
