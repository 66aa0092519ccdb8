-------------------------------- MODULE Oracle --------------------------------
(***************************************************************************)
(* Acceptance by result: the oracle of one finding (oracle.py), the        *)
(* command that runs it on a clone of the material (cli.cmd_run_oracle),   *)
(* and the closure that rests on its runs (write._closing_evidence).       *)
(*                                                                         *)
(* run-oracle takes no lock: the material may change while it runs.        *)
(***************************************************************************)
EXTENDS Nothing, Integers, Sequences

CONSTANTS Materials,   \* contents of the material
          Checkers,    \* contents of the oracle and of the checker it runs
          Says,        \* what a checker says of a material: a verdict
          MaxRuns

ASSUME RunsAssumption == MaxRuns \in Nat
ASSUME MaterialsAssumption == /\ Materials # {} /\ Checkers # {}
                              /\ None \notin Materials \cup Checkers

Verdicts == {"defect-present", "defect-absent", "error"}
ASSUME SaysAssumption == Says \in [Checkers -> [Materials -> Verdicts]]

VARIABLES
  material,  \* the tree as it is
  checker,   \* the oracle in the finding's body, with its checker
  running,   \* the run under way, or None
  events,    \* the stream: runs and closures of this finding
  closed,    \* is the finding closed?
  raced      \* history: was anything edited while a run began?

oracleVars == <<material, checker, running, events, closed, raced>>

OracleTypeOK ==
  /\ material \in Materials /\ checker \in Checkers
  /\ {closed, raced} \subseteq BOOLEAN /\ Len(events) <= MaxRuns + 1

-----------------------------------------------------------------------------
(* material_identity: a digest stands for what it is taken over; there is   *)
(* none of a tree that cannot be read or changes while it is read.          *)
material_identity == {material, None}

(* cmd_run_oracle: the identity of the material and the digest of the       *)
(* oracle, the clone, the run and its event.                                *)
ReadIdentity ==
  /\ running = None /\ Len(events) < MaxRuns
  /\ \E id \in material_identity \ {None} :
       running' = [snapshot |-> id, digest |-> checker, on |-> None, by |-> None]
  /\ UNCHANGED <<material, checker, events, closed, raced>>

EnterClone ==
  /\ running # None /\ running.on = None
  /\ running' = [running EXCEPT !.on = material, !.by = checker]
  /\ UNCHANGED <<material, checker, events, closed, raced>>

(* verdict: of the exit status; a run that times out is an error.           *)
RecordRun ==
  /\ running # None /\ running.on # None
  /\ \E v \in {Says[running.by][running.on], "error"} :
       events' = Append(events, [event |-> "oracle_run", snapshot |-> running.snapshot,
                                 digest |-> running.digest, verdict |-> v])
  /\ raced' = (raced \/ running.on # running.snapshot \/ running.by # running.digest)
  /\ running' = None
  /\ UNCHANGED <<material, checker, closed>>

(* A session, or the operator, changes what the oracle looks at, or the     *)
(* oracle itself.                                                           *)
EditMaterial == /\ \E m \in Materials \ {material} : material' = m
                /\ UNCHANGED <<checker, running, events, closed, raced>>
EditChecker  == /\ \E k \in Checkers \ {checker} : checker' = k
                /\ UNCHANGED <<material, running, events, closed, raced>>

-----------------------------------------------------------------------------
Runs(v) == {i \in 1..Len(events) : events[i].event = "oracle_run" /\ events[i].verdict = v}

(* Mutant: any oracle that was seen to fail will do. *)
EarnedByAny(snapshot, digest) ==
  /\ \E i \in Runs("defect-absent") : events[i].snapshot = snapshot
                                      /\ events[i].digest = digest
  /\ \E i \in Runs("defect-present") : events[i].snapshot # snapshot

(* closing_problems, of sessions that can be told apart *)
Earned(snapshot, digest) ==
  /\ \E i \in Runs("defect-absent") : events[i].snapshot = snapshot
                                      /\ events[i].digest = digest
  /\ \E i \in Runs("defect-present") : events[i].snapshot # snapshot
                                       /\ events[i].digest = digest

(* record-verdict --verdict closed: with an oracle, or on somebody's word.  *)
Closure(snapshot, manual) ==
  /\ ~closed /\ closed' = TRUE
  /\ events' = Append(events, [event |-> "closed", snapshot |-> snapshot, manual |-> manual,
                               digest |-> IF manual THEN None ELSE checker,
                               verdict |-> "closed"])
  /\ UNCHANGED <<material, checker, running, raced>>

CloseByOracle == \E id \in material_identity \ {None} :
                   Earned(id, checker) /\ Closure(id, FALSE)
CloseByHand   == Closure(None, TRUE)

(* evidence_level *)
Closes == {i \in 1..Len(events) : events[i].event = "closed"}

Reobserved == \E i \in Closes, j \in Runs("defect-absent") :
                i < j /\ events[j].snapshot # events[i].snapshot

(* durable *)
durable == closed /\ Reobserved

(* From any material and checker, edits lead to the others. *)
OracleInit ==
  /\ material = (CHOOSE m \in Materials : TRUE) /\ checker = (CHOOSE k \in Checkers : TRUE)
  /\ running = None /\ events = <<>> /\ closed = FALSE /\ raced = FALSE

-----------------------------------------------------------------------------
(* oracle.py:120: "an oracle that was never seen to fail proves nothing by  *)
(* passing".  A closure by oracle rests on a checker that tells the         *)
(* material of the closure from another, whatever was edited in between;    *)
(* a fix becomes durable only by material that is not the material of its   *)
(* closure.  A run is of what its event names unless something was edited   *)
(* while it began: the identity is read before the clone is made.           *)
ClosureEarned ==
  \A i \in Closes : ~events[i].manual /\ ~raced =>
    LET k == Says[events[i].digest] IN
    /\ k[events[i].snapshot] = "defect-absent"
    /\ \E m \in Materials : k[m] = "defect-present"
    /\ durable => \E j \in i..Len(events) :
         events[j].event = "oracle_run" /\ events[j].snapshot # events[i].snapshot
=============================================================================
