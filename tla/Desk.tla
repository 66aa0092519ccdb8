--------------------------------- MODULE Desk ---------------------------------
(***************************************************************************)
(* The desks around the sessions: the policy they run under, the oracles   *)
(* that close findings, the logs, the shipped files, the report on the     *)
(* backlog and the meter.  No desk reads what another writes, so a         *)
(* behaviour stays at one of them: nothing is lost by leaving the          *)
(* interleavings of different desks out.                                   *)
(***************************************************************************)
EXTENDS Policy, Oracle, Retention, Upgrade, Reconcile, Metering

VARIABLE desk

vars == <<policyVars, oracleVars, retentionVars, upgradeVars, reconcileVars, meterVars, desk>>

AtPolicy ==
  /\ desk = "policy"
  /\ Start \/ Launch \/ RecordPolicy \/ SessionEnds \/ LoopEnds \/ OperatorSets \/ SessionSets
  /\ UNCHANGED <<oracleVars, retentionVars, upgradeVars, reconcileVars, meterVars, desk>>

AtOracle ==
  /\ desk = "oracle"
  /\ \/ ReadIdentity \/ EnterClone \/ RecordRun \/ EditMaterial \/ EditChecker
     \/ CloseByOracle \/ CloseByHand
  /\ UNCHANGED <<policyVars, retentionVars, upgradeVars, reconcileVars, meterVars, desk>>

AtLogs ==
  /\ desk = "logs"
  /\ \/ LogSession \/ BeginPrune \/ Unlink \/ EndPrune \/ BeginMigrate \/ Move
     \/ RecordMoved \/ EndMigrate \/ KillJob \/ SessionTampers
  /\ UNCHANGED <<policyVars, oracleVars, upgradeVars, reconcileVars, meterVars, desk>>

AtUpgrade ==
  /\ desk = "upgrade"
  /\ \/ BeginUpgrade \/ WriteFile \/ WriteManifest \/ WriteProvenance \/ KillUpgrade
     \/ Install \/ EditShipped
  /\ UNCHANGED <<policyVars, oracleVars, retentionVars, reconcileVars, meterVars, desk>>

AtBacklog ==
  /\ desk = "backlog"
  /\ Report \/ TypeCommand \/ MoveFinding \/ FileNext \/ EditTree
  /\ UNCHANGED <<policyVars, oracleVars, retentionVars, upgradeVars, meterVars, desk>>

AtMeter ==
  /\ desk = "meter"
  /\ \/ TurnCompletes \/ TurnUncounted \/ TurnCut \/ TurnUnbelievable \/ WritesTurn
     \/ Prints \/ WritesSidecar \/ Finish
  /\ UNCHANGED <<policyVars, oracleVars, retentionVars, upgradeVars, reconcileVars, desk>>

Init == /\ PolicyInit /\ OracleInit /\ RetentionInit /\ UpgradeInit
        /\ ReconcileInit /\ MeterInit
        /\ desk \in {"policy", "oracle", "logs", "upgrade", "backlog", "meter"}
        /\ desk = "policy" \/ reach = (CHOOSE m \in Setups : TRUE).reach
        /\ desk = "logs"   \/ paths = CHOOSE p \in RootPaths : TRUE
        /\ desk = "meter"  \/ adapter = CHOOSE a \in Adapters : TRUE

Next == AtPolicy \/ AtOracle \/ AtLogs \/ AtUpgrade \/ AtBacklog \/ AtMeter

Spec == Init /\ [][Next]_vars
=============================================================================
