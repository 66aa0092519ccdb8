----------------------------- MODULE Lifecycle -----------------------------
(***************************************************************************)
(* The lifecycle of a finding: the write verbs of xcheck/write.py that     *)
(* move a finding or a class finding, the transition table of util.py, the *)
(* role table and authorize_dispatch_write, and the binding of a fix and a *)
(* verdict to the dispatch the orchestrator has open (envelope.py).        *)
(*                                                                         *)
(* A verb is one action: _apply makes it atomic.  Its authorization is not *)
(* part of that: run() reads the state before the verb takes the lock, so  *)
(* a verb may be authorized on a status the target has left since.  seen   *)
(* holds every status a call of the open session may have been authorized  *)
(* on; a call does not outlive its session, whose process group is ended.  *)
(*                                                                         *)
(* Abstractions: titles, bodies, plans, scopes and the reason of a refusal *)
(* are left out; the evidence of a closing verdict (an oracle run or a     *)
(* manual note) is an input that lets the verb through.  An operator's     *)
(* call is taken in one piece.  --next only names another owner here.      *)
(***************************************************************************)
EXTENDS Integers, FiniteSets, Vocabulary

CONSTANTS
  Findings,    \* F-NNNN
  Classes,     \* CF-NNNN
  Sessions,    \* session ids
  ReopenLimit, \* limits.reopen_limit
  Norms,       \* what an owner may type as a ruling: a norm's token, other text
  Overlapping, \* may the calls of one session overlap?
  None         \* no session, no class

Roles == {"Auditor", "Triage", "Remediator", "Verifier"}

ASSUME IdAssumption    == /\ Findings \cap Classes = {}
                          /\ None \notin Sessions \cup Classes \cup Roles
ASSUME LimitAssumption == ReopenLimit \in Nat \ {0}
ASSUME NormAssumption  == Norms \subseteq {"token", "other"}
ASSUME OverlapAssumption == Overlapping \in BOOLEAN

VARIABLES
  rec,      \* the records of findings[] and class_findings[]
  members,  \* the members of each class finding
  roleOf,   \* sessions[]: the role each session was dispatched as
  dispatch, \* the envelope without an outcome: the session that is open
  seen      \* what an authorization in the open session may have read

vars == <<rec, members, roleOf, dispatch, seen>>

Records  == Findings \cup Classes
Absorbable(s) == "superseded-by-class" \in TRANSITIONS[s]

-----------------------------------------------------------------------------
(* ROLE_ROUTES: who may run which verb, from and into which statuses.  A   *)
(* target that does not exist yet passes every from.                       *)

Route(verb, from, to) == [verb |-> verb, from |-> from, to |-> to]
Free(verb) == Route(verb, STATUSES \cup {"unfiled"}, STATUSES)

ROLE_ROUTES ==
  [Auditor    |-> {Free("file-finding"),
                   Route("set-status", {"disputed", "unfiled"}, {"accepted", "withdrawn"})},
   Triage     |-> {Route("set-status", {"reported", "deferred", "unfiled"},
                                       {"accepted", "rejected", "deferred"})},
   Remediator |-> {Free("record-fix"), Free("record-refusal"),
                   Free("file-finding"), Free("block-on-norm"),
                   Route("set-status", STATUSES \cup {"unfiled"},
                         {"validated", "planned", "disputed", "obsolete",
                          "superseded-by-class"})},
   Verifier   |-> {Free("record-verdict"), Free("record-refusal")}]

(* Mutant: the rule's from is not looked at. *)
AuthorizedAnyFrom(verb, r, want) ==
  dispatch # None =>
    \E route \in ROLE_ROUTES[roleOf[dispatch]] : verb = route.verb /\ want \in route.to

(* authorize_dispatch_write.  No dispatch open is the operator: everything. *)
Authorized(verb, r, want) ==
  dispatch # None =>
    \E route \in ROLE_ROUTES[roleOf[dispatch]] :
      /\ verb = route.verb
      /\ want \in route.to
      /\ \E x \in seen : x[1] = r /\ x[2] \in route.from

(* Mutant: the claim is believed. *)
BoundClaimed(s) == s \in Sessions

(* _bound_session: the dispatch record decides; without any the claim stands. *)
Bound(s) == IF dispatch = None THEN \A t \in Sessions : roleOf[t] = None
                               ELSE s = dispatch

-----------------------------------------------------------------------------

Fresh(status) ==
  [status |-> status, attempts |-> 0, flag |-> FALSE, class |-> None,
   fixed_by |-> None, refusal |-> FALSE, blocked |-> FALSE, ruling |-> "none"]

SeenIn(rs) == {<<r, rs[r].status>> : r \in Records}

Init == /\ rec = [r \in Records |-> Fresh("unfiled")]
        /\ members = [c \in Classes |-> {}]
        /\ roleOf = [s \in Sessions |-> None]
        /\ dispatch = None
        /\ seen = {}

Write(rs) == /\ rec' = rs
             /\ seen' = IF dispatch = None THEN {}
                        ELSE SeenIn(rs) \cup (IF Overlapping THEN seen ELSE {})
             /\ UNCHANGED <<roleOf, dispatch>>

(* set-status; --retake is the word of whoever types it, so it is always there. *)
SetStatus(r, want) ==
  /\ want \in TRANSITIONS[rec[r].status]
  /\ <<rec[r].status, want>> \notin RESERVED
  /\ Authorized("set-status", r, want)
  /\ want = "superseded-by-class" => rec[r].class # None
  /\ Write([rec EXCEPT ![r].status = want, ![r].flag = FALSE,
                       ![r].attempts = IF rec[r].flag THEN 0 ELSE @])
  /\ UNCHANGED members

(* Mutant: the norm gate is not looked at. *)
RecordFixBlocked(r, s) ==
  /\ rec[r].status = "planned"
  /\ Authorized("record-fix", r, "fixed")
  /\ Bound(s)
  /\ Write([rec EXCEPT ![r].status = "fixed", ![r].fixed_by = s, ![r].flag = FALSE])
  /\ UNCHANGED members

RecordFix(r, s) ==
  /\ rec[r].status = "planned"
  /\ Authorized("record-fix", r, "fixed")
  /\ Bound(s)
  /\ ~rec[r].blocked
  /\ Write([rec EXCEPT ![r].status = "fixed", ![r].fixed_by = s, ![r].flag = FALSE])
  /\ UNCHANGED members

(* record-verdict: closed, or reopened with the count and, at the limit, the flag. *)
RecordVerdict(r, verdict, s) ==
  /\ rec[r].status = "fixed"
  /\ rec[r].fixed_by # s
  /\ Authorized("record-verdict", r, verdict)
  /\ Bound(s)
  /\ LET n == rec[r].attempts + (IF verdict = "reopened" THEN 1 ELSE 0) IN
       Write([rec EXCEPT ![r].status = verdict, ![r].attempts = n,
                         ![r].flag = (verdict = "reopened" /\ n >= ReopenLimit)])
  /\ UNCHANGED members

FileFinding(f) ==
  /\ rec[f].status = "unfiled"
  /\ Authorized("file-finding", f, "reported")
  /\ Write([rec EXCEPT ![f] = Fresh("reported")])
  /\ UNCHANGED members

(* Mutant: only the member's own record is looked at, never the other classes. *)
FileClassAgain(c, S) ==
  /\ rec[c].status = "unfiled"
  /\ Authorized("file-finding", c, "reported")
  /\ S # {} /\ \A f \in S : Absorbable(rec[f].status)
  /\ Write([r \in Records |->
              CASE r = c -> Fresh("reported")
                [] r \in S -> [rec[r] EXCEPT !.status = "superseded-by-class",
                                             !.class = c, !.flag = FALSE]
                [] OTHER -> rec[r]])
  /\ members' = [members EXCEPT ![c] = S]

(* file-finding --members: minting a class absorbs its members in one write; *)
(* _validate refuses a member that another class finding lists.              *)
FileClass(c, S) ==
  /\ rec[c].status = "unfiled"
  /\ Authorized("file-finding", c, "reported")
  /\ S # {} /\ \A f \in S : Absorbable(rec[f].status)
  /\ \A d \in Classes : S \cap members[d] = {}
  /\ Write([r \in Records |->
              CASE r = c -> Fresh("reported")
                [] r \in S -> [rec[r] EXCEPT !.status = "superseded-by-class",
                                             !.class = c, !.flag = FALSE]
                [] OTHER -> rec[r]])
  /\ members' = [members EXCEPT ![c] = S]

RecordRefusal(r) ==
  /\ rec[r].status \notin TERMINAL \cup {"unfiled"}
  /\ Authorized("record-refusal", r, "reported")
  /\ Write([rec EXCEPT ![r].refusal = TRUE])
  /\ UNCHANGED members

ClearRefusal(r) ==
  /\ rec[r].refusal
  /\ Authorized("record-refusal", r, "reported")
  /\ Write([rec EXCEPT ![r].refusal = FALSE])
  /\ UNCHANGED members

BlockOnNorm(c) ==
  /\ ~rec[c].blocked
  /\ rec[c].status \in {"validated", "planned"}
  /\ Authorized("block-on-norm", c, "planned")
  /\ Write([rec EXCEPT ![c].blocked = TRUE, ![c].ruling = "pending"])
  /\ UNCHANGED members

(* An administrative verb: the operator's.  Any text but "pending" is a ruling. *)
RecordRuling(c, norm) ==
  /\ dispatch = None
  /\ rec[c].blocked
  /\ Write([rec EXCEPT ![c].blocked = FALSE, ![c].ruling = norm])
  /\ UNCHANGED members

(* envelope.store opens a dispatch, and closes one that was never finalised. *)
OpenDispatch(s, role) ==
  /\ roleOf[s] = None
  /\ \A r \in Records : s # rec[r].fixed_by
  /\ roleOf' = [roleOf EXCEPT ![s] = role]
  /\ dispatch' = s
  /\ seen' = SeenIn(rec)
  /\ UNCHANGED <<rec, members>>

CloseDispatch ==
  /\ dispatch # None
  /\ dispatch' = None
  /\ seen' = {}
  /\ UNCHANGED <<rec, members, roleOf>>

(* The verbs on a record that exists, and the two that file one. *)
Move(r) == \/ \E want \in TRANSITIONS[rec[r].status] : SetStatus(r, want)
           \/ \E s \in Sessions : \/ RecordFix(r, s)
                                \/ RecordVerdict(r, "closed", s)
                                \/ RecordVerdict(r, "reopened", s)
           \/ RecordRefusal(r) \/ ClearRefusal(r)
           \/ r \in Classes /\ BlockOnNorm(r)
           \/ \E norm \in Norms : RecordRuling(r, norm)
File    == \/ \E f \in Findings : FileFinding(f)
           \/ \E c \in Classes, S \in SUBSET Findings : FileClass(c, S)

Next == \/ \E r \in Records : Move(r)
        \/ File
        \/ \E s \in Sessions, role \in Roles : OpenDispatch(s, role)
        \/ CloseDispatch

Spec == Init /\ [][Next]_vars

-----------------------------------------------------------------------------
(* Properties. *)

Entry == [status : STATUSES \cup {"unfiled"}, attempts : 0..(ReopenLimit + 1),
          flag : BOOLEAN, class : Classes \cup {None}, fixed_by : Sessions \cup {None},
          refusal : BOOLEAN, blocked : BOOLEAN, ruling : {"none", "pending", "token", "other"}]

(* The types; a finding never collects more reopened verdicts than the     *)
(* limit and one, whatever re-takes and classes it goes through.           *)
TypeOK ==
  /\ rec \in [Records -> Entry]
  /\ members \in [Classes -> SUBSET Findings]
  /\ roleOf \in [Sessions -> Roles \cup {None}]
  /\ dispatch \in Sessions \cup {None}
  /\ dispatch # None => roleOf[dispatch] # None
  /\ seen \subseteq Records \X (STATUSES \cup {"unfiled"})

(* The Verifier is not the fixer: where sessions are dispatched, a verdict *)
(* on a fix is returned by a Verifier, in another session than the one that *)
(* recorded the fix, and what it judges is the work of a Remediator.       *)
IndependentVerdict ==
  [][\A r \in Records :
       rec[r].status = "fixed" /\ rec'[r].status # "fixed" =>
         IF dispatch = None
         THEN \A s \in Sessions : roleOf[s] = None
         ELSE /\ roleOf[dispatch] = "Verifier" /\ dispatch # rec[r].fixed_by
              /\ rec[r].fixed_by # None
              /\ roleOf[rec[r].fixed_by] \in {"Remediator", None}]_vars

(* Both directions of a class: whom it lists points back at it, nobody is  *)
(* listed twice, and whoever is superseded is listed by its class.         *)
ClassLinks ==
  /\ \A c \in Classes : \A f \in members[c] : rec[f].class = c
  /\ \A f \in Findings :
       rec[f].status = "superseded-by-class" =>
         rec[f].class # None /\ f \in members[rec[f].class]

(* The norm gate is fail-closed: a class that waits for a ruling is never  *)
(* fixed, closed or absorbed meanwhile, whichever verbs are tried.         *)
NormGateHolds ==
  \A r \in Records : rec[r].blocked => rec[r].status \in {"validated", "planned"}

(* A triage session decides only what is due for triage, even when a call  *)
(* was authorized on a status the finding has left.                        *)
TriageDecidesDue ==
  [][dispatch # None /\ roleOf[dispatch] = "Triage" =>
       \A r \in Records : rec'[r].status # rec[r].status
                            => rec[r].status \in {"reported", "deferred"}]_vars

(* Not kept by a census (write.py:761).                                    *)
(* A needs-human flag is cleared by a re-take only, which restarts the     *)
(* count: no other transition walks past it.                               *)
FlagClearedByRetake ==
  [][\A r \in Records : rec[r].flag /\ ~rec'[r].flag => rec'[r].attempts = 0]_vars
=============================================================================
