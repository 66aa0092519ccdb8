----------------------------- MODULE Vocabulary -----------------------------
(***************************************************************************)
(* The statuses of a finding and the moves between them: the tables of     *)
(* xcheck/util.py that the write verbs, the decision and reconcile share.  *)
(***************************************************************************)

TERMINAL == {"closed", "rejected", "withdrawn", "obsolete", "superseded-by-class"}
STATUSES == TERMINAL \cup {"reported", "accepted", "deferred", "validated", "planned",
                           "fixed", "reopened", "disputed"}

(* Legal moves; "unfiled" stands for a record that does not exist yet. *)
TRANSITIONS ==
  [s \in STATUSES \cup {"unfiled"} |->
    CASE s = "reported"  -> {"accepted", "rejected", "deferred"}
      [] s = "deferred"  -> {"accepted", "rejected"}
      [] s = "accepted"  -> {"validated", "disputed", "obsolete", "superseded-by-class"}
      [] s = "validated" -> {"planned", "superseded-by-class"}
      [] s = "planned"   -> {"fixed", "superseded-by-class"}
      [] s = "fixed"     -> {"closed", "reopened"}
      [] s = "reopened"  -> {"planned", "superseded-by-class"}
      [] s = "disputed"  -> {"accepted", "withdrawn"}
      [] s = "superseded-by-class" -> {"accepted"}
      [] OTHER -> {}]

(* Moves that carry provenance set-status cannot record. *)
RESERVED == {<<"planned", "fixed">>, <<"fixed", "closed">>, <<"fixed", "reopened">>}
=============================================================================
