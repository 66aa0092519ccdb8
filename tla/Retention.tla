------------------------------ MODULE Retention ------------------------------
(***************************************************************************)
(* The logs of sessions and the manifest that accounts for them            *)
(* (retention.py): record, find, prune-logs and the migration of logs that *)
(* are still in the tree.  The manifest is appended to and never edited.   *)
(***************************************************************************)
EXTENDS Nothing, Integers, Sequences, FiniteSets, SequencesExt, Functions

CONSTANTS Logs,    \* names of log files; each is of one session
          Legacy,  \* those that are in the tree to begin with
          RootPaths, \* where the paths a log root is searched at may lead
          MaxRows    \* bound: rows in the manifest

ASSUME LogsAssumption == Legacy \subseteq Logs /\ IsFiniteSet(Logs) /\ MaxRows \in Nat

Places   == {"tree", "root"}   \* audit/orchestrator-logs, and the log root
Contents == {"written", "altered"}

VARIABLES
  paths,     \* log_dir, the variable, XDG: unset, or where each leads
  disk,      \* what each place holds of each log: None, "written", "altered"
  manifest,  \* the rows
  job,       \* the command under way, or None
  strayed    \* recorded logs a kill, or somebody outside, got at

retentionVars == <<paths, disk, manifest, job, strayed>>

Row == [kind : {"log", "pruned"}, log : Logs, place : Places, sha : Contents]

(* A prune has rows of the manifest before it, a migration files of the tree. *)
Prunes     == [verb : {"prune"}, todo : SUBSET Nat, receipts : Seq(Row)]
Migrations == [verb : {"migrate"}, todo : Seq(Row), moved : Row \cup {None}]

ASSUME NothingAssumption == /\ None \notin Contents /\ None \notin Row
                            /\ None \notin Prunes /\ None \notin Migrations

RetentionTypeOK ==
  /\ paths \in RootPaths
  /\ disk \in [Places -> [Logs -> Contents \cup {None}]]
  /\ manifest \in Seq(Row)
  /\ job \in Prunes \cup Migrations \cup {None}
  /\ strayed \subseteq Logs

-----------------------------------------------------------------------------
(* log_search_order: it ends with the temp directory of the system. *)
log_root == LET order == paths \o <<"outside">>
            IN order[Min({i \in DOMAIN order : order[i] # "unset"})]

(* refuse_frozen, and root_location_problem over every checkout of the      *)
(* subject.                                                                 *)
Usable(at) == at \notin {"inside", "worktree", "frozen"}

(* Where the manifest has rows of one kind on a log, and the last it recorded. *)
RowsOf(l, kind) == {i \in DOMAIN manifest : manifest[i].log = l /\ manifest[i].kind = kind}

LastRow(l) == manifest[Max(RowsOf(l, "log"))]

(* find: a receipt wins, and of the log rows the last. *)
find(l) ==
  IF RowsOf(l, "log") = {} THEN "unrecorded"
  ELSE IF RowsOf(l, "pruned") # {} THEN "pruned"
  ELSE LET there == disk[LastRow(l).place][l] IN
       CASE there = None           -> "missing"
         [] there = LastRow(l).sha -> "present"
         [] OTHER                  -> "corrupt"

InTree == {l \in Logs : disk["tree"][l] # None}

Free(n) == Len(manifest) + n <= MaxRows

(* record *)
Recorded(l, place, sha) ==
  Append(manifest, [kind |-> "log", log |-> l, place |-> place, sha |-> sha])

(* A session has ended: its log is in the root. *)
LogSession == \E l \in Logs \ Legacy :
  /\ Usable(log_root) /\ find(l) = "unrecorded" /\ Free(1)
  /\ disk' = [disk EXCEPT !["root"][l] = "written"]
  /\ manifest' = Recorded(l, "root", "written")
  /\ UNCHANGED <<paths, job, strayed>>

-----------------------------------------------------------------------------
(* prune --apply: of the rows of unpruned logs, those old enough whose file *)
(* is there; the rows are in the order of their age.                        *)
prunable(n) == {i \in 1..n : LET r == manifest[i] IN
                  r.kind = "log" /\ RowsOf(r.log, "pruned") = {} /\ disk[r.place][r.log] # None}

BeginPrune == \E n \in 1..Len(manifest) :
  /\ job = None /\ prunable(n) # {} /\ Free(Cardinality(prunable(n)))
  /\ job' = [verb |-> "prune", todo |-> prunable(n), receipts |-> <<>>]
  /\ UNCHANGED <<paths, disk, manifest, strayed>>

(* Mutant: the receipt is for what was selected, whether or not it went.    *)
ReceiptAlways(r, gone) == Append(job.receipts, [r EXCEPT !.kind = "pruned"])

(* A receipt is for a file that went, and it is written when the file of    *)
(* the manifest is closed.                                                  *)
Receipt(r, gone) == IF gone THEN Append(job.receipts, [r EXCEPT !.kind = "pruned"])
                    ELSE job.receipts

Unlink ==
  /\ job # None /\ job.verb = "prune" /\ job.todo # {}
  /\ LET next == Min(job.todo)
         r    == manifest[next]
     IN \E gone \in {disk[r.place][r.log] # None, FALSE} :
       /\ disk' = IF gone THEN [disk EXCEPT ![r.place][r.log] = None] ELSE disk
       /\ job' = [job EXCEPT !.todo = @ \ {next}, !.receipts = Receipt(r, gone)]
  /\ UNCHANGED <<paths, manifest, strayed>>

EndPrune == /\ job # None /\ job.verb = "prune" /\ job.todo = {}
            /\ manifest' = manifest \o job.receipts /\ job' = None
            /\ UNCHANGED <<paths, disk, strayed>>

-----------------------------------------------------------------------------
(* migrate_logs --apply *)

(* premigration_check: nothing moves over a digest that disagrees. *)
Verified == \A l \in InTree : RowsOf(l, "log") # {} => disk["tree"][l] = LastRow(l).sha

(* Every log is recorded where it is, one after the other, and must read  *)
(* back as present.                                                       *)
BeginMigrate == \E files \in SetToSeqs(InTree) :
  LET rows  == [i \in DOMAIN files |-> [kind |-> "log", log |-> files[i], place |-> "tree",
                                        sha |-> disk["tree"][files[i]]]]
  IN /\ job = None /\ Usable(log_root) /\ files # <<>> /\ Verified /\ Free(2 * Len(files))
     /\ manifest' = manifest \o rows
     /\ job' = IF \A l \in InTree : RowsOf(l, "pruned") = {}
               THEN [verb |-> "migrate", todo |-> rows, moved |-> None] ELSE None
     /\ UNCHANGED <<paths, disk, strayed>>

(* shutil.move overwrites what is there; it may fail, and then there is no  *)
(* row.                                                                     *)
Move ==
  /\ job # None /\ job.verb = "migrate" /\ job.moved = None /\ job.todo # <<>>
  /\ LET l == Head(job.todo).log IN
     \/ /\ disk["tree"][l] # None
        /\ disk' = [disk EXCEPT !["root"][l] = disk["tree"][l], !["tree"][l] = None]
        /\ job' = [job EXCEPT !.todo = Tail(@), !.moved = Head(job.todo)]
     \/ job' = [job EXCEPT !.todo = Tail(@)] /\ UNCHANGED disk
  /\ UNCHANGED <<paths, manifest, strayed>>

Landed(r) == Recorded(r.log, "root", r.sha)

RecordMoved ==
  /\ job # None /\ job.verb = "migrate" /\ job.moved # None
  /\ manifest' = Landed(job.moved)
  /\ job' = [job EXCEPT !.moved = None]
  /\ UNCHANGED <<paths, disk, strayed>>

EndMigrate == /\ job # None /\ job.verb = "migrate" /\ job.todo = <<>> /\ job.moved = None
              /\ job' = None /\ UNCHANGED <<paths, disk, manifest, strayed>>

-----------------------------------------------------------------------------
(* The command is killed: what it did since its last row is in no row, and  *)
(* of the receipts some have been written.                                  *)
KillJob ==
  /\ job # None /\ job' = None
  /\ IF job.verb = "prune"
     THEN \E n \in 0..Len(job.receipts) :
            /\ manifest' = manifest \o SubSeq(job.receipts, 1, n)
            /\ strayed' = strayed \cup {job.receipts[i].log : i \in (n + 1)..Len(job.receipts)}
     ELSE /\ strayed' = strayed \cup (IF job.moved = None THEN {} ELSE {job.moved.log})
          /\ UNCHANGED manifest
  /\ UNCHANGED <<paths, disk>>

(* To a session a log in the tree is a file like any other, and so is one   *)
(* in a root that lies in one of its checkouts.                             *)
Exposed == {"tree"} \cup (IF log_root \in {"inside", "worktree"} THEN {"root"} ELSE {})

SessionTampers == \E place \in Exposed, l \in Logs, c \in {"altered", None} :
  /\ disk[place][l] \notin {None, c}
  /\ disk' = [disk EXCEPT ![place][l] = c]
  /\ strayed' = IF place = "tree" THEN strayed \cup {l} ELSE strayed
  /\ UNCHANGED <<paths, manifest, job>>

RetentionInit ==
  /\ paths \in RootPaths
  /\ disk = [p \in Places |-> [l \in Logs |-> IF p = "tree" /\ l \in Legacy
                                              THEN "written" ELSE None]]
  /\ manifest = <<>> /\ job = None /\ strayed = {}

-----------------------------------------------------------------------------
(* retention.py:274: five answers that are five different facts.  Between   *)
(* commands, what reads as pruned is nowhere, and what reads as missing or  *)
(* as corrupt was got at in the tree, or by a command that was killed: a    *)
(* command that ended accounts for all it did, and a session reaches no log *)
(* outside the tree.                                                        *)
LogsAccounted ==
  job = None => \A l \in Logs :
    /\ find(l) = "pruned" => \A p \in Places : disk[p][l] = None
    /\ find(l) \in {"missing", "corrupt"} => l \in strayed
=============================================================================
