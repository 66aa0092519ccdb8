----------------------------- MODULE MCAuditLoop -----------------------------
(* Two passes that may run side by side; a session costs more than it         *)
(* reserves, or what nobody has measured.                                     *)
EXTENDS AuditLoop

CONSTANTS p1, p2

MCQueue == <<p1, p2>>
MCNone  == {}
MCCosts == {<<3, "provider">>, <<2, "none">>}
=============================================================================
