------------------------- MODULE MCSessionDispatch -------------------------
(* The project itself, the audit-only worktree, the remediator's worktree and *)
(* a container with a broker.                                                 *)
EXTENDS SessionDispatch

P(i, w, b, n) == [isolating |-> i, writable |-> w, backend |-> b, broker |-> n]

MCProfiles == {P(FALSE, TRUE, FALSE, FALSE), P(TRUE, FALSE, FALSE, FALSE),
               P(TRUE, TRUE, FALSE, FALSE), P(TRUE, FALSE, TRUE, TRUE)}
=============================================================================
