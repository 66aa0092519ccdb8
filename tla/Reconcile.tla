----------------------------- MODULE Reconcile -----------------------------
(***************************************************************************)
(* xcheck reconcile: maps the open findings onto the tree as it is and     *)
(* prints commands an operator may type (reconcile.py).  It writes nothing *)
(* and takes no lock; what it printed may be typed at any later time, and  *)
(* a command typed from it is an ordinary set-status.                      *)
(*                                                                         *)
(* What a body quotes is abstracted to where the quoted lines of its       *)
(* primary path are now; findings are numbered in the order of filing.     *)
(***************************************************************************)
EXTENDS Nothing, Naturals, Vocabulary

CONSTANTS Filings,  \* how many findings are ever filed
          Key       \* the unit and the title of each

ASSUME FilingsAssumption == Filings \in Nat
ASSUME KeyAssumption     == DOMAIN Key = 1..Filings

Ids == 1..Filings

(* Of a body: quoted lines with a path, which are where they were, somewhere *)
(* else in the tree or nowhere; quotes without a path; paths only, of which  *)
(* some file is there or none is; nothing a machine can check.               *)
Anchors == {"here", "moved", "gone", "unplaced", "path", "no-path", "none"}

VARIABLES
  status,   \* of each finding; "unfiled" is one that is yet to come
  anchor,   \* what its body and the tree have in common
  printed,  \* every command a report has printed: the finding and its status then
  typed     \* history: the findings accepted by a printed command

reconcileVars == <<status, anchor, printed, typed>>

ReconcileTypeOK ==
  /\ status \in [Ids -> STATUSES \cup {"unfiled"}] /\ anchor \in [Ids -> Anchors]
  /\ printed \subseteq Ids \X STATUSES /\ typed \subseteq Ids

-----------------------------------------------------------------------------
(* The findings a human has ruled on, by the names reconcile.py has for them: *)
(* two of them are no status, and of the statuses with no way out two are     *)
(* missing.                                                                   *)
Ruled == {"closed", "rejected", "verified", "superseded"}
Live  == {f \in Ids : status[f] \notin Ruled \cup {"unfiled"}}

(* Mutant: the last of the twins is the one that is kept. *)
DuplicatesOfLast == {f \in Live : \E g \in Live : g > f /\ Key[g] = Key[f]}

(* duplicate_map: the first filed wins. *)
Duplicates == {f \in Live : \E g \in Live : g < f /\ Key[g] = Key[f]}

(* verdict_for.  A quote that is not where it was filed has changed, whether *)
(* it moved or is gone, and so has one that never had a path.                *)
verdict_for(f) ==
  CASE f \in Duplicates                              -> "possible-duplicate"
    [] f \notin Duplicates /\ anchor[f] = "here"     -> "anchor-unchanged"
    [] f \notin Duplicates /\ anchor[f] \in {"moved", "gone", "unplaced"} -> "anchor-changed"
    [] OTHER                                         -> "anchor-missing"

(* WANTS *)
Wants(verdict) == IF verdict = "anchor-unchanged" THEN {"accepted"} ELSE {}

(* proposal_for: the move set-status would be asked for, if it is legal. *)
Proposals(f) == {want \in Wants(verdict_for(f)) :
                   want \in TRANSITIONS[status[f]] /\ <<status[f], want>> \notin RESERVED}

Report ==
  /\ printed' = printed \cup {<<f, status[f]>> : f \in {g \in Live : Proposals(g) # {}}}
  /\ UNCHANGED <<status, anchor, typed>>

(* set-status takes a move of the table that no other verb has to record; a  *)
(* finding of this desk is in no class and carries no flag.                  *)
Takes(f, want) == /\ want \in TRANSITIONS[status[f]]
                  /\ <<status[f], want>> \notin RESERVED
                  /\ want # "superseded-by-class"

TypeCommand ==
  /\ \E command \in printed :
       /\ Takes(command[1], "accepted")
       /\ status' = [status EXCEPT ![command[1]] = "accepted"]
       /\ typed' = typed \cup {command[1]}
  /\ UNCHANGED <<anchor, printed>>

(* Any other verb moves a finding, a finding is filed, the tree is edited. *)
MoveFinding ==
  /\ \E f \in Ids : \E want \in TRANSITIONS[status[f]] \ {"superseded-by-class"} :
       /\ status' = [status EXCEPT ![f] = want]
       /\ typed' = typed \ (IF want = "accepted" THEN {f} ELSE {})
  /\ UNCHANGED <<anchor, printed>>

FileNext ==
  /\ \E f \in Ids, a \in Anchors :
       /\ status[f] = "unfiled" /\ \A g \in 1..(f - 1) : status[g] # "unfiled"
       /\ status' = [status EXCEPT ![f] = "reported"]
       /\ anchor' = [anchor EXCEPT ![f] = a]
  /\ UNCHANGED <<printed, typed>>

EditTree ==
  /\ \E f \in Ids : \E after \in {{"here", "moved", "gone"}, {"path", "no-path"}} :
       /\ anchor[f] \in after
       /\ \E a \in after \ {anchor[f]} : anchor' = [anchor EXCEPT ![f] = a]
  /\ UNCHANGED <<status, printed, typed>>

ReconcileInit == /\ status = [f \in Ids |-> "unfiled"] /\ anchor = [f \in Ids |-> "none"]
                 /\ printed = {} /\ typed = {}

-----------------------------------------------------------------------------
(* reconcile.py:108 "A proposal the CLI would reject is not advice; it is a  *)
(* bug": a printed command is one set-status takes for as long as its        *)
(* finding has not moved.  reconcile.py:78: two findings of one unit and     *)
(* title are never both in work because the operator typed what the reports  *)
(* said, whichever reports, and however late.                                *)
Settled(f) == status[f] \in TERMINAL

AdviceHolds ==
  /\ \A command \in printed : status[command[1]] = command[2] => Takes(command[1], "accepted")
  /\ \A f, g \in typed : f # g /\ Key[f] = Key[g] => Settled(f) \/ Settled(g)

(* Not kept: the command of an old report settles a dispute that was raised  *)
(* after it was printed.                                                     *)
AdviceIsCurrent ==
  [][\A f \in Ids : f \in typed' \ typed => <<f, status[f]>> \in printed]_reconcileVars

(* Not kept (reconcile.py:134 "a finding a human has already ruled on is not *)
(* backlog"): a finding whose only twins are settled is one the report can   *)
(* propose; a withdrawn or an obsolete twin hides it.                        *)
TwinNotHidden ==
  \A f \in Live :
    anchor[f] = "here" /\ status[f] = "reported"
    /\ (\A g \in Ids : g < f /\ Key[g] = Key[f] => Settled(g)) => Proposals(f) # {}
=============================================================================
