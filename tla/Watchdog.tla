------------------------------ MODULE Watchdog ------------------------------
(***************************************************************************)
(* runner.run_child: one session child, and the loop of its parent that    *)
(* waits for it.  At every poll the parent beats the lease, looks for a    *)
(* cancel and at the egress broker, judges the child by four deadlines     *)
(* and by the timeout of the session, and kills its process group at the   *)
(* first of them that has passed.                                          *)
(*                                                                         *)
(* A tick is a poll: between two of them the child prints, acts or exits.  *)
(* What it printed is nothing, an echo (no more than the banner and its    *)
(* own prompt) or more than that.  What it did is evidence in the sense of *)
(* activity_probe.  In a sandbox the child's verbs write the stream of the *)
(* worktree, and the parent looks at the one of the project.               *)
(***************************************************************************)
EXTENDS Integers, FiniteSets

CONSTANTS
  StartupDeadline, OutputDeadline, ActivityDeadline, IdleDeadline, \* 0: off
  SessionTimeout

ASSUME DeadlineAssumption ==
  /\ {StartupDeadline, OutputDeadline, ActivityDeadline, IdleDeadline} \subseteq Nat
  /\ SessionTimeout \in Nat \ {0}

VARIABLES
  profile, \* the capability profile: does it isolate, may the role write material,
           \* is there an egress broker?
  child,   \* "none", "running" or "gone"
  clock,   \* the ticks since it was started
  bytes,   \* what it has printed: "none", "echo" or "useful"
  last,    \* when it printed last
  acts,    \* what it has done, in the sense of activity_probe
  active,  \* has a poll seen it act?
  ended    \* why the wait is over, None while it is not

wvars == <<child, clock, bytes, last, acts, active, ended>>

Waiting == "waiting"
Acts    == {"transition", "sidecar", "write", "overwrite", "rewrite"}
Stalls  == {"startup", "output", "activity", "idle"}
Endings == {"exit", "cancelled", "egress", "timeout"} \cup Stalls

WatchInit == /\ child = "none" /\ clock = 0
             /\ bytes = "none" /\ last = 0
             /\ acts = {} /\ active = FALSE
             /\ ended = Waiting

Spawn == /\ child' = "running"
         /\ clock' = 0 /\ bytes' = "none" /\ last' = 0
         /\ acts' = {} /\ active' = FALSE /\ ended' = Waiting

-----------------------------------------------------------------------------
(* The child.  It records a transition with a verb, writes its telemetry      *)
(* sidecar, writes a file or one that was dirty before it started, or rewrites *)
(* the event stream it was given, which is always dirty.                       *)

Printed == {"none", "echo", "useful"}

PrintLine == /\ child = "running" /\ ended = Waiting
             /\ \E b \in {"echo", "useful"} :
                  bytes' = IF bytes = "useful" THEN "useful" ELSE b
             /\ last' = clock
             /\ UNCHANGED <<child, clock, acts, active, ended>>

Work == /\ child = "running" /\ ended = Waiting
        /\ \E s \in Acts \ acts : acts' = acts \cup {s}
        /\ UNCHANGED <<child, clock, bytes, last, active, ended>>

Exit == /\ child = "running" /\ ended = Waiting
        /\ child' = "gone" /\ ended' = "exit"
        /\ UNCHANGED <<clock, bytes, last, acts, active>>

-----------------------------------------------------------------------------
(* The deadlines, for a poll at time t. *)

(* session_moved reads the stream of the project. *)
Moved == "transition" \in acts /\ ~profile.isolating

(* activity_probe: a path that was dirty already is dirty still.  The seed    *)
(* commit of a sandbox leaves none.                                           *)
Observed == \/ acts \cap {"transition", "sidecar", "write"} # {}
            \/ profile.isolating /\ acts # {}

Over(deadline, t) == deadline > 0 /\ t >= deadline

(* A child that has printed nothing is the startup deadline's business. *)
Silent == StartupDeadline > 0 /\ bytes = "none"

StartupOver(t)  == Silent /\ Over(StartupDeadline, t)
OutputOver(t)   == ~Silent /\ bytes # "useful" /\ ~Moved /\ Over(OutputDeadline, t)
ActivityOver(t) == ~Silent /\ ~active /\ ~Observed /\ Over(ActivityDeadline, t)
IdleOver(t)     == ~Silent /\ Over(IdleDeadline, t - last)

(* Mutant: a chain of elifs, in which a child that has not acted yet is never *)
(* looked at by the idle deadline.                                            *)
PassedChained(t) ==
  IF StartupOver(t) THEN {"startup"} ELSE IF OutputOver(t) THEN {"output"}
  ELSE IF ~active /\ ActivityDeadline > 0
       THEN (IF ActivityOver(t) THEN {"activity"} ELSE {})
       ELSE IF IdleOver(t) THEN {"idle"} ELSE {}

(* The first that has passed, in the order they are judged in. *)
Passed(t) ==
  IF StartupOver(t) THEN {"startup"} ELSE IF OutputOver(t) THEN {"output"}
  ELSE IF ActivityOver(t) THEN {"activity"} ELSE IF IdleOver(t) THEN {"idle"} ELSE {}

(* The process group is killed: SIGTERM, and SIGKILL when the leader stays. *)
Kill(why) == child' = "gone" /\ ended' = why

Poll ==
  /\ child = "running" /\ ended = Waiting
  /\ clock < SessionTimeout
  /\ clock' = clock + 1
  /\ \/ Kill("cancelled") /\ active' = active
     \/ profile.broker /\ Kill("egress") /\ active' = active
     \/ /\ active' = (active \/ (ActivityDeadline > 0 /\ ~Silent /\ Observed))
        /\ \/ Passed(clock') # {} /\ \E why \in Passed(clock') : Kill(why)
           \/ Passed(clock') = {} /\ clock' >= SessionTimeout /\ Kill("timeout")
           \/ Passed(clock') = {} /\ clock' < SessionTimeout /\ UNCHANGED <<child, ended>>
  /\ UNCHANGED <<bytes, last, acts>>

(* What the log of a failed run looks like to the signatures, and whether a  *)
(* needle of a lost connection is anywhere in it.                            *)
Logs == [says : {"crash", "blocked", "provider-error", "refused"}, lost : BOOLEAN]

(* classify_outcome, of a run that ended so with exit status zero or not. *)
classify_outcome(why, ok, log) ==
  CASE why = "cancelled" -> "cancelled"
    [] why \in Stalls    -> "stalled"
    [] why = "timeout"   -> "timeout"
    [] OTHER             -> IF ok THEN "ok" ELSE log.says

-----------------------------------------------------------------------------
(* runner.py:1430, "adding a fourth bound to a chain silently disables the   *)
(* fifth": whatever else the child does or leaves undone, it is not running  *)
(* past a deadline that applies to it.                                       *)
Judged == StartupDeadline = 0 \/ bytes # "none"

Within(deadline, t) == deadline > 0 => t < deadline \/ last = clock

EveryDeadlineBites ==
  child = "running" =>
    /\ clock < SessionTimeout
    /\ ~Judged => clock < StartupDeadline
    /\ Judged /\ bytes # "useful" /\ acts = {} => Within(OutputDeadline, clock)
    /\ Judged /\ acts = {} => Within(ActivityDeadline, clock)
    /\ Judged => Within(IdleDeadline, clock - last)

(* Not kept in a sandbox, whose stream is not the one that is looked at.       *)
(* README.md:426 on output_deadline: it kills a session that has "recorded no *)
(* canonical transition".                                                     *)
QuietWorkerSpared == ended = "output" => "transition" \notin acts
=============================================================================
