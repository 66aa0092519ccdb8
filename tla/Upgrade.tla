------------------------------- MODULE Upgrade -------------------------------
(***************************************************************************)
(* The files xcheck ships into a project and the evidence of what it       *)
(* shipped: upgrade.py, and install.sh, which it checks up on.  Nothing    *)
(* here takes the writing lock.                                            *)
(***************************************************************************)
EXTENDS Nothing, Integers, FiniteSets

CONSTANTS Files,     \* SHIPPED
          Core,      \* of these, XCHECK.md
          Versions,  \* the releases, as numbers
          Ships,     \* what a release ships of each file; 0 is no such file
          Schema,    \* the state schema a release reads
          Edit, Torn

ASSUME ShipsAssumption == /\ Ships \in [Versions -> [Files -> Nat]] /\ Core \in Files
                          /\ Schema \in [Versions -> Nat]
ASSUME ContentsAssumption == None \notin Nat /\ Edit \notin Nat /\ Edit # None

VARIABLES
  copy,      \* the installed files: a shipped content, Edit, Torn
  sums,      \* MANIFEST.sha256: the digest last shipped of each, or None
  stamp,     \* the release in .provenance.json, or None
  upgrading, \* the upgrade under way, or None
  touched    \* history: files edited under an upgrade

upgradeVars == <<copy, sums, stamp, upgrading, touched>>

UpgradeTypeOK ==
  /\ copy \in [Files -> Nat \cup {Edit, Torn, None}]
  /\ sums \in [Files -> Nat \cup {Edit, Torn, None}]
  /\ stamp \in Versions \cup {None}
  /\ touched \subseteq Files

-----------------------------------------------------------------------------
(* plan: what is to be done about one file. *)
plan(v, f) ==
  CASE Ships[v][f] = 0          -> "skip"
    [] copy[f] = None           -> "install"
    [] copy[f] = Ships[v][f]    -> "current"
    [] sums[f] = None           -> "refuse"
    [] copy[f] = sums[f]        -> "refresh"
    [] OTHER                    -> "refuse"

Rows(v) == [f \in Files |-> plan(v, f)]
Todo(rows) == {f \in Files : rows[f] \in {"refresh", "install"}}
Blocked(rows) == \E f \in Files : rows[f] = "refuse"

(* upgrade: reads everything first, and then writes file by file.  With     *)
(* nothing to write it restamps, if nothing was refused.                    *)
BeginUpgrade == \E v \in Versions :
  /\ upgrading = None /\ copy[Core] # None
  /\ stamp # None => Schema[stamp] = Schema[v]
  /\ Todo(Rows(v)) # {} \/ (~Blocked(Rows(v)) /\ stamp # v)
  /\ upgrading' = [to |-> v, rows |-> Rows(v), todo |-> Todo(Rows(v)), step |-> "files"]
  /\ UNCHANGED <<copy, sums, stamp, touched>>

WriteFile ==
  /\ upgrading # None /\ upgrading.step = "files"
  /\ \E f \in upgrading.todo :
       /\ copy' = [copy EXCEPT ![f] = Ships[upgrading.to][f]]
       /\ upgrading' = [upgrading EXCEPT !.todo = @ \ {f}]
  /\ UNCHANGED <<sums, stamp, touched>>

(* Mutant: the manifest describes what is there. *)
SummedAsFound(rows, f) == IF copy[f] # None THEN copy[f] ELSE sums[f]

(* _write_manifest: a refused file keeps its old entry. *)
Summed(rows, f) == IF rows[f] \in {"refresh", "install", "current"} THEN copy[f] ELSE sums[f]

WriteManifest ==
  /\ upgrading # None /\ upgrading.step = "files" /\ upgrading.todo = {}
  /\ sums' = [f \in Files |-> Summed(upgrading.rows, f)]
  /\ upgrading' = [upgrading EXCEPT !.step = "manifest"]
  /\ UNCHANGED <<copy, stamp, touched>>

(* _write_provenance: only when the whole shipped set is this release's.    *)
Stampable(rows) == ~Blocked(rows)

WriteProvenance ==
  /\ upgrading # None /\ upgrading.step = "manifest"
  /\ stamp' = IF Stampable(upgrading.rows) THEN upgrading.to ELSE stamp
  /\ upgrading' = None
  /\ UNCHANGED <<copy, sums, touched>>

(* It is killed, perhaps in the middle of a file. *)
KillUpgrade ==
  /\ upgrading # None /\ upgrading' = None
  /\ \/ UNCHANGED copy
     \/ \E f \in upgrading.todo : copy' = [copy EXCEPT ![f] = Torn]
  /\ UNCHANGED <<sums, stamp, touched>>

(* install.sh, of a release that is whole, also over an installed copy: it  *)
(* assumes the files are xcheck's.  Without a sha256 tool it leaves the     *)
(* evidence there is.                                                       *)
Install == \E v \in Versions, summed \in BOOLEAN :
  /\ upgrading = None /\ \A f \in Files : Ships[v][f] # 0
  /\ copy' = Ships[v]
  /\ IF summed THEN stamp' = v /\ sums' = Ships[v] ELSE UNCHANGED <<stamp, sums>>
  /\ UNCHANGED <<upgrading, touched>>

(* The operator, or a session, edits or removes a shipped file. *)
EditShipped == \E f \in Files, c \in {Edit, None} :
  /\ copy[f] \notin {c, None}
  /\ copy' = [copy EXCEPT ![f] = c]
  /\ touched' = IF upgrading # None THEN touched \cup {f} ELSE touched
  /\ UNCHANGED <<sums, stamp, upgrading>>

UpgradeInit ==
  /\ copy = [f \in Files |-> None] /\ sums = [f \in Files |-> None] /\ stamp = None
  /\ upgrading = None /\ touched = {}

-----------------------------------------------------------------------------
(* upgrade.py:9: "An upgrade that silently reconciles by overwriting is    *)
(* how a project loses an operator's edit".  Over any number of releases,   *)
(* with upgrades that refuse some files or are killed, no upgrade writes    *)
(* over an edit in a file that was never edited under an upgrade.           *)
EditsSurvive ==
  [][\A f \in Files : upgrading # None /\ copy[f] = Edit /\ copy'[f] \notin {Edit, None}
       => f \in touched]_upgradeVars

(* upgrade.py:151: a stamp is a claim about every shipped file: when it     *)
(* advances, each is that release's, but for those edited under an upgrade. *)
StampTrue ==
  [][upgrading # None /\ stamp' # stamp =>
       \A f \in Files \ touched : Ships[stamp'][f] \in {0, copy[f]}]_upgradeVars
=============================================================================
