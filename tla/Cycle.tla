------------------------------- MODULE Cycle -------------------------------
(***************************************************************************)
(* The orchestrated cycle over the lifecycle of module Lifecycle: what     *)
(* decision.state_and_decision answers for a state, the session that       *)
(* cli.cmd_next dispatches for it, and the human who answers its gates.    *)
(*                                                                         *)
(* A session works under the envelope that is open; an orchestrator that   *)
(* is killed, or cannot write its record, leaves that envelope open.  The  *)
(* lock keeps the operator out while a session runs.                       *)
(*                                                                         *)
(* The plan is complete and migrated, and the construal gate, the embargo, *)
(* the budgets and parallel passes are off.  A batch is the whole set the  *)
(* branch names.  A dispatched session has an id of its own: one that no   *)
(* fix under verification names is as good as new, and of the roles of the *)
(* sessions before it nothing here depends.                                *)
(***************************************************************************)
EXTENDS Lifecycle, Sequences, TLC

CONSTANTS
  Passes,    \* the queue
  Critical,  \* the findings of severity critical
  TriageCap, \* triage_batch_cap, 0 for none
  CanCrash,  \* may a session end without its record being closed?
  Meddling   \* does the operator write also when no gate asks?

ASSUME QueueAssumption    == Passes # {} /\ Passes \cap (Records \cup {None}) = {}
ASSUME CriticalAssumption == Critical \subseteq Findings
ASSUME CapAssumption      == TriageCap \in Nat
ASSUME CycleSwitches      == {CanCrash, Meddling} \subseteq BOOLEAN

VARIABLES
  done,    \* the passes with a coverage record
  stops,   \* live_stops: the targets with a claimed stop
  running, \* is there a session process?
  charter  \* what the open session was given

cvars == <<rec, members, roleOf, dispatch, seen, done, stops, running, charter>>

-----------------------------------------------------------------------------
(* decision.py: the branches in the order of their priority. *)

Filed == {r \in Records : rec[r].status # "unfiled"}
In(S) == {r \in Records : rec[r].status \in S}
Unchecked == Passes \ done

(* Reopened attempts + 1 times, says state_and_decision. *)
AtLimit == {r \in In({"reopened"}) : ~rec[r].flag /\ rec[r].attempts + 1 >= ReopenLimit}

Flagged == {r \in In({"reopened"}) : rec[r].flag}
(* Mutant: a ruling row in whatever form opens the gate. *)
BlockedUntilRow == {r \in Filed : rec[r].blocked /\ rec[r].ruling = "none"}

(* norm_ruling_pending *)
Blocked == {r \in Filed : rec[r].blocked /\ rec[r].ruling # "token"}
Owed    == Filed \ In(TERMINAL)
Refused == {r \in Owed : rec[r].refusal} \cup (stops \cap (Owed \cup Unchecked))
Open(S) == {r \in S \cap Filed : rec[r].status \notin TERMINAL}

(* _broken_superseded: a member whose class is not closed, or does not list it. *)
Orphans == {f \in In({"superseded-by-class"}) :
              \/ rec[f].class = None
              \/ rec[rec[f].class].status # "closed"
              \/ f \notin members[rec[f].class]}

(* verifier_independence: what was fixed by nobody can be verified by nobody; *)
(* the session that is about to verify is a fresh one.                        *)
Unprovable == {r \in In({"fixed"}) : rec[r].fixed_by = None}

Branch(kind, on) == [kind |-> kind, on |-> on]

(* One at a time: a class is a change of its own, a pass a session of its own. *)
First(S) == IF S = {} THEN {} ELSE {CHOOSE x \in S : TRUE}

(* The branches from the last to the first, each deferring to what follows *)
(* it: what is only owed, a class that left its members behind, what is    *)
(* asked or dispatched when no finding waits for a session, what is        *)
(* dispatched on findings, a dispute, and what is asked of the human first. *)
Or(kind, on, rest) == IF on # {} THEN Branch(kind, on) ELSE rest

Debt == Or("done-deferred-debt", In({"deferred"}), Branch("done", {}))

(* Mutant: a superseded finding is terminal whatever became of its class. *)
FlatTerminal == Debt

Broken == Or("stop-broken-class", Orphans, Debt)

Rest ==
  Or("stop-triage", IF TriageCap > 0 /\ Cardinality(In({"reported"})) >= TriageCap
                    THEN In({"reported"}) ELSE {},
  Or("stop-critical", IF Unchecked # {} THEN Open(Critical) ELSE {},
  Or("run-auditor", First(Unchecked),
  Or("stop-triage", In({"reported"}),
  Broken))))

Work ==
  Or("stop-verifier-independence", Unprovable,
  Or("run-verifier", In({"fixed"}),
  Or("run-remediator", In({"reopened"}),
  Or("run-remediator", In({"validated", "planned"}),
  Or("run-remediator", First(In({"accepted"}) \cap Classes),
  Or("run-remediator", In({"accepted"}),
  Rest))))))

Disputes == Or("stop-disputed", In({"disputed"}), Work)

Decision ==
  Or("stop-needs-human", AtLimit,
  Or("stop-norm-ratification", Blocked,
  Or("stop-needs-human", Flagged,
  Or("stop-refusal", Refused,
  Disputes))))

(* role_and_charter *)
Runs == {"run-verifier", "run-remediator", "run-auditor"}
RoleFor == [run \in Runs |-> CASE run = "run-verifier"   -> "Verifier"
                               [] run = "run-remediator" -> "Remediator"
                               [] run = "run-auditor"    -> "Auditor"]
Dones == {"done", "done-deferred-debt"}

-----------------------------------------------------------------------------

CycleInit == /\ Init
             /\ done = {} /\ stops = {}
             /\ running = FALSE /\ charter = {}

(* next: decide, then open the envelope; an open one is abandoned by it. *)
FreshIds == {s \in Sessions : s # dispatch /\
                \A r \in In({"fixed"}) : s # rec[r].fixed_by}

Launch ==
  /\ ~running
  /\ LET d == Decision IN
       /\ d.kind \in Runs
       /\ \E s \in FreshIds :
            /\ dispatch' = s
            /\ roleOf' = [t \in Sessions |-> IF t = s THEN RoleFor[d.kind] ELSE None]
       /\ charter' = d.on
  /\ seen' = SeenIn(rec)
  /\ running' = TRUE
  /\ UNCHANGED <<rec, members, done, stops>>

(* The session, or the operator while none runs: a verb on a record lifts a *)
(* stop that is claimed on it, filing a record lifts none.                  *)
MayWrite == running \/ Meddling \/ Decision.kind \notin Runs

Act(r) == /\ Move(r)
          /\ stops' = stops \ {r}
          /\ UNCHANGED <<done, running, charter>>

FileRecord == /\ File
              /\ UNCHANGED <<done, stops, running, charter>>

(* record-coverage is the Auditor's, or the operator's. *)
RecordCoverage(p) ==
  /\ p \in Unchecked
  /\ dispatch # None => roleOf[dispatch] = "Auditor"
  /\ done' = done \cup {p}
  /\ stops' = stops \ {p}
  /\ UNCHANGED <<vars, running, charter>>

(* The record is closed; a stop counts only on a target the session was given. *)
Finish(claimed) ==
  /\ running
  /\ claimed \subseteq charter /\ Cardinality(claimed) <= 1
  /\ CloseDispatch
  /\ stops' = stops \cup claimed
  /\ running' = FALSE /\ charter' = {}
  /\ UNCHANGED done

(* Killed, or settled and not recorded: the envelope stays open. *)
Die == /\ CanCrash
       /\ running
       /\ running' = FALSE /\ charter' = {}
       /\ UNCHANGED <<vars, done, stops>>

(* Mutant: a stop can be resolved on a record only. *)
ResolveStopOnRecord(t) ==
  /\ ~running
  /\ t \in stops \cap Records
  /\ stops' = stops \ {t}
  /\ UNCHANGED <<vars, done, running, charter>>

(* resolve-stop, the operator's own answer. *)
ResolveStop(t) ==
  /\ ~running
  /\ t \in stops
  /\ stops' = stops \ {t}
  /\ UNCHANGED <<vars, done, running, charter>>

CycleNext == \/ Launch
             \/ /\ MayWrite
                /\ \/ \E r \in Records : Act(r)
                   \/ FileRecord
                   \/ \E p \in Passes : RecordCoverage(p)
             \/ \E S \in SUBSET charter : Finish(S)
             \/ Die
             \/ \E t \in stops : ResolveStop(t)

CycleSpec == CycleInit /\ [][CycleNext]_cvars

-----------------------------------------------------------------------------
(* Properties. *)

CycleTypeOK ==
  /\ TypeOK
  /\ done \subseteq Passes
  /\ stops \subseteq Passes \cup Records
  /\ running \in BOOLEAN
  /\ charter \subseteq Passes \cup Records
  /\ running => dispatch # None

(* "done" certifies: every pass is covered and every record has come to    *)
(* its end, a superseded one under a class that closed and lists it; what  *)
(* is only deferred is said to be debt.                                    *)
DoneIsDone ==
  ~running => LET kind == Decision.kind IN
    kind \in Dones =>
      /\ Unchecked = {}
      /\ \A r \in Filed :
           CASE rec[r].status = "superseded-by-class" ->
                  rec[rec[r].class].status = "closed" /\ r \in members[rec[r].class]
             [] rec[r].status = "deferred" -> kind = "done-deferred-debt"
             [] OTHER -> rec[r].status \in TERMINAL

(* Whoever is dispatched has work it is entitled to: for every record its  *)
(* charter names there is a transition its role may make.                  *)
Grants(role, verb, s, want) ==
  \E route \in ROLE_ROUTES[role] :
    verb = route.verb /\ s \in route.from /\ want \in route.to

CanMove(role, r) ==
  LET s == rec[r].status IN
    \/ \E want \in TRANSITIONS[s] : /\ <<s, want>> \notin RESERVED
                                    /\ Grants(role, "set-status", s, want)
                                    /\ ~rec[r].flag
                                    /\ want # "superseded-by-class"
    \/ s = "planned" /\ ~rec[r].blocked /\ Grants(role, "record-fix", s, "fixed")
    \/ s = "fixed" /\ Grants(role, "record-verdict", s, "closed")

DispatchHasWork ==
  ~running => LET d == Decision IN
    d.kind \in {"run-verifier", "run-remediator"}
      => \A r \in d.on : CanMove(RoleFor[d.kind], r)

(* A gate is a question somebody can answer: when the cycle stops for the  *)
(* human, some verb of theirs on a record the gate names, or the           *)
(* resolution of a stop, changes what it decides.                          *)
Answerable(d) == ENABLED (/\ \/ \E t \in stops : ResolveStop(t)
                             \/ \E r \in d.on \cap Records : Act(r)
                          /\ Decision' # d)

GateAnswerable ==
  ~running => LET d == Decision IN d.kind \notin Runs \cup Dones => Answerable(d)

(* The same as long as the envelope of the last session is closed, that is *)
(* whenever that session was recorded, whatever became of earlier ones.    *)
HasWayOut == dispatch = None => GateAnswerable

(* Not kept: it stops one verdict early (README.md:83).                    *)
(* The cycle stops for a human once a finding was reopened as often as the *)
(* limit says, and not before.                                             *)
StopsAtTheLimit ==
  Decision.kind = "stop-needs-human" =>
    \E r \in In({"reopened"}) : rec[r].attempts >= ReopenLimit
=============================================================================
