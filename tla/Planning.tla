------------------------------ MODULE Planning ------------------------------
(***************************************************************************)
(* From the Markdown of an audit to its state document, and the plan in    *)
(* that document: migrate.migrate, the decision before there is a state,   *)
(* the verbs of write.py that change queue, catalogs and construals, and   *)
(* what state._validate takes for a document.                              *)
(*                                                                         *)
(* The writing lock (module WritingLock) is one variable here: while a     *)
(* session runs the operator's verbs are refused, and migrate, which takes *)
(* no lock, is not.  What becomes of findings is module Lifecycle, of the  *)
(* stops claimed on passes module Cycle.                                   *)
(***************************************************************************)
EXTENDS Integers, Sequences, FiniteSets, SequencesExt, Functions

CONSTANTS
  PassOrder,                     \* pass ids, in the order they are queued
  Charters, Dims, Units, Norms,  \* charter texts and the keys of the catalogs
  Findings,                      \* the findings that may be filed
  Trees,                         \* the Markdown trees an audit may begin as
  Drafts,                        \* the plans a Planner may write into one
  None, Human,
  MaxSessions,                   \* bound: sessions dispatched
  MaxVerbs                       \* bound: verbs that change the document

Passes  == ToSet(PassOrder)
Targets == Passes \cup {"PLAN"}  \* what a charter may be about

ASSUME BoundsAssumption   == MaxSessions \in Nat /\ MaxVerbs \in Nat
ASSUME PassAssumption     == IsInjective(PassOrder) /\ "PLAN" \notin Passes

(* What a document is made of: a table is a function of the keys it lists.  *)
Table(K, E) == UNION {[D -> E] : D \in SUBSET K}
Put(f, k, e) == [x \in DOMAIN f \cup {k} |-> IF x = k THEN e ELSE f[x]]

Claims == 1..MaxSessions  \* the ids a session may say it has

PassEntry == [dim : Dims, units : SUBSET Units, charter : Charters,
              done : BOOLEAN, coverage : (SUBSET Findings) \cup {None}]
Finding   == [pass : Passes, dim : Dims, units : SUBSET Units]
Construal == [on : Targets, session : Claims, admitter : Claims \cup {None, Human},
              read : Charters \cup {"plan", None}]

Document == [queue : Table(Passes, PassEntry), norms : SUBSET Norms,
             dims : Table(Dims, SUBSET Norms), units : SUBSET Units,
             findings : Table(Findings, Finding), construals : SUBSET Construal]

(* What may not read: a catalog, or a directory of records.                 *)
Parts == {"AUDIT.md", "units", "findings", "plans", "construals"}
Tree  == [doc : Document, unread : SUBSET Parts, halves : SUBSET Passes,
          reports : [Passes -> Nat], installed : BOOLEAN, records : BOOLEAN]

ASSUME TreeAssumption ==
  Trees \subseteq Tree /\ Drafts \subseteq [doc : Document, unread : SUBSET Parts, halves : SUBSET Passes]

VARIABLES
  tree,    \* the Markdown: what AUDIT.md and the record directories hold
  doc,     \* audit/state.json, or None
  views,   \* whose bytes the views hold: "before" migration, or "generated"
  backup,  \* .migration-backup: None, or whose bytes it holds
  step,    \* how far a running migrate has come
  gate,    \* construal_gate
  stopped, \* has a session stopped on PLAN?
  moved,   \* how many state_transitions the stream holds
  session, \* the running session, or None
  count    \* sessions so far; the last one's id

vars == <<tree, doc, views, backup, step, gate, stopped, moved, session, count>>

-----------------------------------------------------------------------------
(* state._validate, of a document                                           *)
(*   [queue, norms, dims, units, findings, construals]                      *)
(* where queue, dims and findings are functions: of the passes to what they *)
(* look at, of the dimensions to their norms, of the findings to what they  *)
(* are about.                                                               *)

(* A catalog nobody filled in refuses nothing. *)
Known(key, catalog) == catalog = {} \/ key \in catalog

Placed(d, x) == Known(x.dim, DOMAIN d.dims) /\ \A u \in x.units : Known(u, d.units)

QueueValid(d) == \A p \in DOMAIN d.queue :
                   /\ Placed(d, d.queue[p])
                   /\ d.queue[p].units # {}
                   /\ d.queue[p].coverage # None => d.queue[p].coverage \subseteq DOMAIN d.findings
                   /\ d.queue[p].done => d.queue[p].coverage # None

FindingsValid(d) == \A f \in DOMAIN d.findings :
                      Placed(d, d.findings[f]) /\ d.findings[f].pass \in DOMAIN d.queue

ConstrualsValid(d) == \A c, e \in d.construals :
                        c.admitter # c.session /\ (c.on = e.on => c = e)

DimsValid(d) == \A k \in DOMAIN d.dims : d.dims[k] # {} /\ d.dims[k] \subseteq d.norms

_validate(d) == QueueValid(d) /\ FindingsValid(d) /\ ConstrualsValid(d) /\ DimsValid(d)

(* decision.plan_complete *)
plan_complete(d) == d.norms # {} /\ DOMAIN d.dims # {} /\ d.units # {} /\ DOMAIN d.queue # {}

-----------------------------------------------------------------------------
(* migrate.py.  A tree holds what a document holds; the passes named in a   *)
(* line of the queue that is not a full entry, and the tables that do not   *)
(* read; how many reports match each pass; whether install.sh made it, and  *)
(* whether it holds records.                                                *)

(* The catalogs of AUDIT.md, the files of the records, and the lines of the *)
(* queue that name a pass all read.                                         *)
TablesRead(t)  == t.unread \cap {"AUDIT.md", "units"} = {}
RecordsRead(t) == t.unread \cap {"findings", "plans", "construals"} = {}
QueueReads(t)  == t.halves = {}

(* A checked pass is one that exactly one report matches. *)
CoverageReads(t) == \A p \in DOMAIN t.doc.queue : t.doc.queue[p].done => t.reports[p] = 1

(* convert: with a single defect there is no document. *)
Converts(t) == TablesRead(t) /\ RecordsRead(t) /\ QueueReads(t) /\ CoverageReads(t)
               /\ _validate(t.doc)

not_fresh_install == ~tree.installed \/ tree.records \/ moved > 0

(* migrate: the document, the backup of what the views will overwrite, and  *)
(* the views, one after another.                                            *)
Convert == /\ doc = None /\ step = "none" /\ Converts(tree)
           /\ doc' = tree.doc /\ step' = "written"
           /\ UNCHANGED <<tree, views, backup, gate, stopped, moved, session, count>>

_backup_views == /\ step = "written" /\ doc # None
                 /\ backup' = views /\ step' = "kept"
                 /\ UNCHANGED <<tree, doc, views, gate, stopped, moved, session, count>>

Regenerate == /\ step = "kept"
              /\ views' = "generated" /\ step' = "none"
              /\ UNCHANGED <<tree, doc, backup, gate, stopped, moved, session, count>>

(* It is killed between two of them. *)
Crash == /\ step # "none" /\ step' = "none"
         /\ UNCHANGED <<tree, doc, views, backup, gate, stopped, moved, session, count>>

(* The three commands migrate prints. *)
Undo == /\ doc # None /\ step = "none" /\ session = None /\ backup # None
        /\ doc' = None /\ views' = backup /\ backup' = None
        /\ UNCHANGED <<tree, step, gate, stopped, moved, session, count>>

-----------------------------------------------------------------------------
(* The decision, and the session it dispatches. *)

Unchecked == SelectSeq(PassOrder, LAMBDA p : p \in DOMAIN doc.queue /\ ~doc.queue[p].done)

(* pre_state_decision: a Planner is dispatched into a fresh install only.  *)
PlanFirst == /\ ~not_fresh_install
             /\ ~(Converts(tree) /\ plan_complete(tree.doc))
             /\ ~gate /\ ~stopped

(* _decide_core: the first pass, or the plan when it is not complete.       *)
Due == IF plan_complete(doc)
       THEN IF Unchecked = <<>> THEN None ELSE Head(Unchecked)
       ELSE IF stopped THEN None ELSE "PLAN"

RoleOf(target) == IF target = "PLAN" THEN "Planner" ELSE "Auditor"

(* construal_gate_resolver: what is to be done about the charter.  The key  *)
(* is of the charter the role is given, which of an Auditor is the pass id. *)
Resolve(target) ==
  LET recs == {c \in doc.construals : c.on = target} IN
  CASE ~gate                                 -> "work"
    [] gate /\ recs = {}                     -> "construe"
    [] gate /\ \E c \in recs : c.admitter # None -> "work"
    [] OTHER                                 -> "stop"

Begin(target, act, enveloped) ==
  /\ session' = [role |-> RoleOf(target), on |-> target, act |-> act,
                 id |-> count + 1, enveloped |-> enveloped]
  /\ count' = count + 1
  /\ UNCHANGED <<tree, doc, views, backup, step, gate, stopped, moved>>

DispatchPlanner == /\ doc = None /\ session = None /\ count < MaxSessions
                   /\ PlanFirst
                   /\ Begin("PLAN", "work", FALSE)

Dispatch == /\ doc # None /\ session = None /\ count < MaxSessions
            /\ Due # None /\ Resolve(Due) # "stop"
            /\ Begin(Due, Resolve(Due), TRUE)

(* A Planner writes AUDIT.md, or stops.  With a document AUDIT.md is prose. *)
WritePlan == /\ session # None /\ session.role = "Planner" /\ doc = None
             /\ \E d \in Drafts : tree' = [tree EXCEPT !.doc = d.doc, !.unread = d.unread,
                                                       !.halves = d.halves]
             /\ UNCHANGED <<doc, views, backup, step, gate, stopped, moved, session, count>>

EndSession == /\ session # None /\ session' = None
              /\ stopped' \in {stopped, stopped \/ session.on = "PLAN"}
              /\ UNCHANGED <<tree, doc, views, backup, step, gate, moved, count>>

(* Between sessions the operator resolves the stop, or turns the gate.      *)
Operate == /\ session = None
           /\ \/ stopped /\ stopped' = FALSE /\ UNCHANGED gate
              \/ gate' = ~gate /\ UNCHANGED stopped
           /\ UNCHANGED <<tree, doc, views, backup, step, moved, session, count>>

-----------------------------------------------------------------------------
(* write.py: who may run a verb, and what every verb does in the end.      *)

Admin  == {"amend-pass", "cancel-pass", "update-catalog"}
Routes == [Planner |-> {"propose-construal"},
           Auditor |-> {"file-finding", "record-coverage", "queue-pass",
                        "propose-construal", "admit-construal"}]

(* Mutant: the table is asked of the verbs on findings only. *)
AuthorizedLoosely(verb) == session # None /\ session.enveloped /\ verb = "file-finding" =>
                             verb \in Routes[session.role]

(* authorize_dispatch_write.  Without an open envelope it is the operator,  *)
(* whom only the lock of a running session keeps out; the session of a      *)
(* Planner from before the document has no envelope in it.                  *)
Authorized(verb) == session # None /\ session.enveloped =>
                      verb \notin Admin /\ verb \in Routes[session.role]

(* _apply: the document is validated before it replaces the old one, and    *)
(* the views are generated from it.                                         *)
Commit(d) == /\ _validate(d)
             /\ doc' = d /\ views' = "generated" /\ moved' = moved + 1
             /\ UNCHANGED <<tree, backup, step, gate, stopped, session, count>>

Verb(name) == doc # None /\ moved < MaxVerbs /\ Authorized(name)

Entry == [dim : Dims, units : (SUBSET Units) \ {{}}, charter : Charters,
          done : {FALSE}, coverage : {None}]

_queue_pass == \E p \in Passes, e \in Entry :
  /\ Verb("queue-pass") /\ p \notin DOMAIN doc.queue /\ Placed(doc, e)
  /\ Commit([doc EXCEPT !.queue = Put(@, p, e)])

(* _pass_entry, _refuse_if_done *)
Changeable(p) == p \in DOMAIN doc.queue /\ ~doc.queue[p].done

_amend_pass == \E p \in Passes, e \in Entry :
  /\ Verb("amend-pass") /\ Changeable(p)
  /\ e # doc.queue[p] /\ Placed(doc, e)
  /\ Commit([doc EXCEPT !.queue[p] = e])

Cancellable(p) == /\ Changeable(p)
                  /\ \A f \in DOMAIN doc.findings : doc.findings[f].pass # p

Cancelled(p) == [doc EXCEPT !.queue = Restrict(@, DOMAIN @ \ {p})]

_cancel_pass == \E p \in Passes :
  Verb("cancel-pass") /\ Cancellable(p) /\ Commit(Cancelled(p))

_record_coverage == \E p \in Passes, F \in SUBSET Findings :
  /\ Verb("record-coverage") /\ p \in DOMAIN doc.queue
  /\ doc.queue[p].coverage = None /\ F \subseteq DOMAIN doc.findings
  /\ Commit([doc EXCEPT !.queue[p] = [@ EXCEPT !.coverage = F, !.done = TRUE]])

_file_finding == \E f \in Findings, p \in Passes, k \in Dims, U \in SUBSET Units :
  /\ Verb("file-finding") /\ f \notin DOMAIN doc.findings /\ U # {}
  /\ Commit([doc EXCEPT !.findings = Put(@, f, [pass |-> p, dim |-> k, units |-> U])])

-----------------------------------------------------------------------------
(* Construals.  The ids given are claims: the verb asks that they have the  *)
(* shape of an id.  `read` is the charter that the pass had when it was     *)
(* construed: None if it was not queued yet, which nobody asks.             *)
Text(target) == CASE target = "PLAN"              -> "plan"
                  [] target \in DOMAIN doc.queue -> doc.queue[target].charter
                  [] OTHER                      -> None

_propose_construal == \E t \in Targets, s \in Claims :
  /\ Verb("propose-construal") /\ \A c \in doc.construals : c.on # t
  /\ session # None => t = session.on
  /\ Commit([doc EXCEPT !.construals = @ \cup
       {[on |-> t, session |-> s, admitter |-> None, read |-> Text(t)]}])

_admit_construal ==
  /\ Verb("admit-construal")
  /\ \E c \in doc.construals, a \in Claims \cup {Human} :
       /\ c.admitter = None /\ a # c.session
       /\ Commit([doc EXCEPT !.construals = (@ \ {c}) \cup {[c EXCEPT !.admitter = a]}])

-----------------------------------------------------------------------------
(* update-catalog *)

(* Mutant: the queue is not asked. *)
ReferencesFindings(kind, key) ==
  CASE kind = "norm"      -> {k \in DOMAIN doc.dims : key \in doc.dims[k]}
    [] kind = "dimension" -> {f \in DOMAIN doc.findings : doc.findings[f].dim = key}
    [] kind = "unit"      -> {f \in DOMAIN doc.findings : key \in doc.findings[f].units}

(* _catalog_references *)
References(kind, key) ==
  CASE kind = "norm"      -> {k \in DOMAIN doc.dims : key \in doc.dims[k]}
    [] kind = "dimension" -> {f \in DOMAIN doc.findings : doc.findings[f].dim = key}
                             \cup {p \in DOMAIN doc.queue : doc.queue[p].dim = key}
    [] kind = "unit"      -> {f \in DOMAIN doc.findings : key \in doc.findings[f].units}
                             \cup {p \in DOMAIN doc.queue : key \in doc.queue[p].units}

Catalog == [norm |-> Norms, dimension |-> Dims, unit |-> Units]

Listed(kind) == CASE kind = "norm"      -> doc.norms
                  [] kind = "dimension" -> DOMAIN doc.dims
                  [] kind = "unit"      -> doc.units

Removable(kind, key) == key \in Listed(kind) /\ References(kind, key) = {}

Removed(kind, key) ==
  CASE kind = "norm"      -> [doc EXCEPT !.norms = @ \ {key}]
    [] kind = "dimension" -> [doc EXCEPT !.dims = Restrict(@, DOMAIN @ \ {key})]
    [] kind = "unit"      -> [doc EXCEPT !.units = @ \ {key}]

RemoveEntry == \E kind \in DOMAIN Catalog : \E key \in Catalog[kind] :
  Verb("update-catalog") /\ Removable(kind, key) /\ Commit(Removed(kind, key))

(* An addition gives every field; of what may be amended only the norms of  *)
(* a dimension are more than words.                                         *)
PutEntry == \E kind \in DOMAIN Catalog : \E key \in Catalog[kind], N \in SUBSET Norms :
  /\ Verb("update-catalog")
  /\ kind # "dimension" => key \notin Listed(kind) /\ N = {}
  /\ Commit(CASE kind = "norm"      -> [doc EXCEPT !.norms = @ \cup {key}]
              [] kind = "unit"      -> [doc EXCEPT !.units = @ \cup {key}]
              [] kind = "dimension" -> [doc EXCEPT !.dims = Put(@, key, N)])

-----------------------------------------------------------------------------
Init == /\ tree \in Trees /\ doc = None
        /\ views = "before" /\ backup = None /\ step = "none"
        /\ gate \in BOOLEAN /\ stopped = FALSE /\ moved = 0
        /\ session = None /\ count = 0

Verbs == \/ _queue_pass \/ _amend_pass \/ _cancel_pass \/ _record_coverage \/ _file_finding
         \/ _propose_construal \/ _admit_construal \/ RemoveEntry \/ PutEntry

Migration == Convert \/ _backup_views \/ Regenerate \/ Crash \/ Undo

Next == Migration \/ DispatchPlanner \/ Dispatch \/ WritePlan \/ EndSession \/ Operate \/ Verbs

Spec == Init /\ [][Next]_vars

-----------------------------------------------------------------------------
(* write.py:1549: what the guards of the verbs take away is never what      *)
(* something else in the document still names, so that no removal ends in   *)
(* a document the next load refuses.                                        *)
RemovalsStayReadable ==
  doc # None =>
    /\ \A kind \in DOMAIN Catalog : \A key \in Catalog[kind] :
         Removable(kind, key) => _validate(Removed(kind, key))
    /\ \A p \in Passes : Cancellable(p) => _validate(Cancelled(p))

(* write.py:1407, write.py:662: what a session works on, and what a report  *)
(* has certified, stays as it was for as long as there is the document,     *)
(* whoever runs which verb; a certificate's findings stay filed.            *)
Given(d, p) == [dim |-> d.queue[p].dim, units |-> d.queue[p].units,
                charter |-> d.queue[p].charter, coverage |-> d.queue[p].coverage]

PassStands ==
  [][\A p \in Passes :
       /\ doc # None /\ doc' # None /\ p \in DOMAIN doc.queue
       /\ doc.queue[p].done \/ (session # None /\ session' = session /\ session.on = p)
       => /\ p \in DOMAIN doc'.queue
          /\ [Given(doc, p) EXCEPT !.coverage = None] = [Given(doc', p) EXCEPT !.coverage = None]
          /\ doc.queue[p].done => Given(doc, p) = Given(doc', p)]_vars

(* util.py:759: "a construal admitted for one reading must not silently     *)
(* license another": whoever works under the gate works on the charter that *)
(* was read.                                                                *)
ReadingMatchesCharter ==
  [][session = None /\ session' # None /\ gate /\ session'.act = "work" =>
       \E c \in doc.construals : c.on = session'.on /\ c.read \in {None, Text(c.on)}]_vars

(* Not kept when a verb or a kill comes before the backup.                  *)
(* migrate.py:616: undone, a migration leaves what was there before it.     *)
UndoRestores == doc # None /\ views = "generated" => backup = "before"
=============================================================================
