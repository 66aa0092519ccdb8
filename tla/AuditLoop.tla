------------------------------ MODULE AuditLoop ------------------------------
(***************************************************************************)
(* cli.cmd_loop: iteration after iteration of cmd_next, and what is to end *)
(* it: the wall clock, the tokens the payer admits, the embargo on a       *)
(* charter that moves nothing, the limit on repeats of a charter, the      *)
(* detector of a cycle that does not converge and the number of sessions.  *)
(* None of them stores a counter: but for the clock and the detector, each *)
(* is counted again from the event stream at every decision.               *)
(*                                                                         *)
(* Of the decision (module Cycle) all that matters here is whether some    *)
(* other record is owed work, which goes before auditing, and which passes *)
(* are queued.  How one session runs is module SessionDispatch, how a      *)
(* group of passes runs is module ParallelPasses.                          *)
(***************************************************************************)
EXTENDS Integers, Sequences, FiniteSets, FiniteSetsExt, SequencesExt

CONSTANTS
  Queue,         \* the passes, in queue order
  Meets,         \* the pairs of passes that share a unit
  After,         \* embargo_after
  RepeatLimit,   \* charter_repeat_limit
  ProgressLimit, \* loop_progress_limit, 0: off
  RetryLimit,    \* retry_limit
  MaxSessions,   \* max_sessions
  Budget,        \* --budget, in ticks
  Timeout,       \* session_timeout
  Workers,       \* parallel_workers
  Ceiling, Reservation, \* tokens_per_audit and tokens_per_session of the payer
  PassCeiling,   \* tokens_per_pass, 0: off
  Costs,         \* what a session may cost, and who has measured it
  Parallel,      \* the values parallel_passes takes
  MaxLoops, MaxStream, MaxSlice  \* bounds: the loops the operator starts, the
                 \* sessions in all, the decisions on the findings of a pass

Passes == ToSet(Queue)
Nobody == "nobody"   \* the pass of a session that audits none

ASSUME QueueAssumption == /\ Queue \in Seq(Passes) /\ IsInjective(Queue)
                          /\ Nobody \notin Passes
                          /\ Meets \subseteq Passes \X Passes
ASSUME LimitAssumption ==
  /\ {After, RepeatLimit, MaxSessions, Timeout, Workers, Reservation} \subseteq Nat \ {0}
  /\ {ProgressLimit, RetryLimit, Budget, Ceiling, PassCeiling, MaxLoops, MaxStream, MaxSlice} \subseteq Nat
  /\ Costs \subseteq Nat \X {"provider", "agent", "none"} /\ Parallel \subseteq BOOLEAN

VARIABLES
  queue,    \* per pass: is it done, and which version of its slice is current
  other,    \* is a record of another role's owed work?
  source,   \* the version of the orchestrator's own source
  stream,   \* every session dispatched, in order
  pc,
  turn, clock, stall, prev,  \* of cmd_loop: i, the time spent, and its detector
  base,     \* src_baseline
  attempt,  \* of _dispatch_with_retry
  loops

loopVars == <<turn, clock, stall, prev, base, loops>>
vars     == <<queue, other, source, stream, pc, attempt, loopVars>>

Init == /\ queue = [p \in Passes |-> [done |-> FALSE, slice |-> 0]]
        /\ other = FALSE /\ source = 0
        /\ stream = <<>>
        /\ pc = "over" /\ attempt = 0
        /\ turn = 0 /\ clock = 0 /\ stall = 0 /\ prev = "none" /\ base = 0 /\ loops = 0

-----------------------------------------------------------------------------
(* budget.ledger: what every session of the stream is charged. *)

(* Mutant: spend nobody measured is read as zero. *)
ChargeMeasured(s) == IF s.seen = "open" THEN Reservation
                     ELSE IF s.seen = "none" THEN 0 ELSE s.spent

Charge(s) == CASE s.seen = "provider" -> s.spent
               [] s.seen = "agent"    -> Max({Reservation, s.spent})
               [] OTHER               -> Reservation  \* no figure; open

(* The sum of the first N numbers of g. *)
Tally(g, N) ==
  LET upto[n \in 0..N] == IF n = 0 THEN 0 ELSE upto[n - 1] + g[n] IN upto[N]

Charged == Tally([n \in DOMAIN stream |-> Charge(stream[n])], Len(stream))

(* budget.admit, of n dispatches. *)
admit(n) == Max({0, Min({n, (Ceiling - Charged) \div Reservation})})

-----------------------------------------------------------------------------
(* decision.embargo_report.  A parallel pass is dispatched under a charter of *)
(* its own, which names its ids, so neither count knows it.                   *)
Sessions(p) == {n \in DOMAIN stream : stream[n].pass = p /\ ~stream[n].parallel}

Key(p) == <<queue[p].slice, source>>

Barren(p) == {n \in Sessions(p) : stream[n].moved = "none" /\ stream[n].key = Key(p)}

(* Mutant: a counter of the process, which starts again with each loop. *)
EmbargoHeldLoop(p) == Cardinality({n \in Barren(p) : stream[n].loop = loops}) >= After

EmbargoHeld(p) == Cardinality(Barren(p)) >= After

Unchecked == {p \in Passes : ~queue[p].done}
Takeable  == {p \in Unchecked : ~EmbargoHeld(p)}

(* state_and_decision *)
Decision == CASE other                          -> "run-other"
              [] ~other /\ Takeable # {}        -> "run-auditor"
              [] ~other /\ Takeable = {}        -> IF Unchecked = {} THEN "done"
                                                  ELSE "stop-embargo"

(* budget.charter_attempts *)
Repeats(p) == Cardinality(Sessions(p))

(* budget.attribution: the pass whose charter a session had; none has the      *)
(* charter of a parallel one.                                                  *)
attribution(n) == IF stream[n].parallel THEN Nobody ELSE stream[n].pass

(* budget.current_pass_spend: what somebody has measured of them. *)
Measured(S) ==
  Tally([n \in DOMAIN stream |-> IF n \in S /\ stream[n].seen \in {"provider", "agent"}
                                 THEN stream[n].spent ELSE 0], Len(stream))

current_pass_spend(p) == Measured({n \in DOMAIN stream : attribution(n) = p})

(* What is known to be spent has reached a ceiling, whatever is not known. *)
known_overrun(p) ==
  \/ Ceiling > 0 /\ Measured(DOMAIN stream) >= Ceiling
  \/ PassCeiling > 0 /\ p # Nobody /\ current_pass_spend(p) >= PassCeiling

Chosen == IF other THEN Nobody ELSE Queue[Min({n \in DOMAIN Queue : Queue[n] \in Takeable})]

Gated == \/ admit(1) < 1
         \/ Chosen # Nobody /\ Repeats(Chosen) >= RepeatLimit
         \/ known_overrun(Chosen)

(* _parallel_group: from the queue, not from what is takeable. *)
_group[n \in 0..Len(Queue)] ==
  IF n = 0 THEN <<>>
  ELSE LET p == Queue[n] IN
       IF queue[p].done \/ \E q \in ToSet(_group[n - 1]) : {<<p, q>>, <<q, p>>} \cap Meets # {}
       THEN _group[n - 1] ELSE Append(_group[n - 1], p)

_parallel_group == _group[Len(Queue)]

-----------------------------------------------------------------------------
(* cmd_loop *)

Over == pc' = "over"

(* The operator starts a loop. *)
Start == /\ pc = "over" /\ loops < MaxLoops
         /\ pc' = "top" /\ loops' = loops + 1
         /\ turn' = 0 /\ clock' = 0 /\ stall' = 0 /\ prev' = "none" /\ base' = source
         /\ UNCHANGED <<queue, other, source, stream, attempt>>

(* Between loops the operator decides on findings, or repairs xcheck itself,  *)
(* which may happen under a running loop as well.                             *)
Triage == /\ pc = "over" /\ loops \in 1..(MaxLoops - 1)
          /\ \/ other' = TRUE /\ UNCHANGED queue
             \/ \E p \in Passes : /\ queue[p].slice < MaxSlice
                                  /\ queue' = [queue EXCEPT ![p].slice = @ + 1]
                                  /\ UNCHANGED other
          /\ UNCHANGED <<source, stream, pc, attempt, loopVars>>

Repair == /\ source = 0 /\ loops > 0 /\ pc \in {"over", "session"} /\ source' = 1
          /\ UNCHANGED <<queue, other, stream, pc, attempt, loopVars>>

OutOfTime == clock >= Budget \/ (turn > 0 /\ Budget - clock < Timeout)

Stopped == OutOfTime \/ source # base \/ turn >= MaxSessions

Stop == /\ pc = "top" /\ Stopped
        /\ Over
        /\ UNCHANGED <<queue, other, source, stream, attempt, loopVars>>

(* cmd_next stops at a gate: nothing to do, the embargo, a ceiling, or one of *)
(* the gates that judge by measured means, which may speak at any time.       *)
Gate == /\ pc = "top" /\ ~Stopped
        /\ Over
        /\ UNCHANGED <<queue, other, source, stream, attempt, loopVars>>

Open(p, parallel, isRetry) ==
  [pass |-> p, parallel |-> parallel, isRetry |-> isRetry, turn |-> turn,
   loop |-> loops, kind |-> IF p = Nobody THEN "run-other" ELSE "run-auditor",
   key |-> IF p = Nobody THEN <<0, 0>> ELSE Key(p),
   moved |-> "none", spent |-> 0, seen |-> "open"]

Room(n) == Len(stream) + n <= MaxStream

Dispatch ==
  /\ pc = "top" /\ ~Stopped
  /\ Decision \in {"run-other", "run-auditor"} /\ ~Gated
  /\ \E par \in Parallel :
       IF Decision = "run-auditor" /\ par /\ Len(_parallel_group) > 1
       THEN LET k == admit(Len(_parallel_group))
                group == SubSeq(_parallel_group, 1, k) IN
            /\ Room(k)
            /\ stream' = stream \o [n \in 1..k |-> Open(group[n], TRUE, FALSE)]
            /\ pc' = "parallel"
       ELSE /\ Room(1)
            /\ stream' = Append(stream, Open(Chosen, FALSE, FALSE))
            /\ pc' = "session"
  /\ attempt' = 0
  /\ UNCHANGED <<queue, other, source, loopVars>>

-----------------------------------------------------------------------------
(* A session ends: what it moved, what it cost, who measured that, and how it *)
(* exited.  A finding or a coverage report of its own pass changes the slice. *)
Moves == {"none", "own", "done", "elsewhere"}

Moved(p, m) ==
  /\ queue' = IF p = Nobody \/ m \notin {"own", "done"} THEN queue
              ELSE [queue EXCEPT ![p] = [done |-> @.done \/ m = "done", slice |-> @.slice + 1]]
  /\ other' = IF p = Nobody THEN other /\ m = "none" ELSE other

Ends(n, m) ==
  \E cost \in Costs :
    stream' = [stream EXCEPT ![n].moved = m, ![n].spent = cost[1], ![n].seen = cost[2]]

(* One of a group; passes in flight together take the time of a batch. *)
Batches == (Cardinality({n \in DOMAIN stream : stream[n].turn = turn /\ stream[n].loop = loops})
            + Workers - 1) \div Workers

OpenNow == {n \in DOMAIN stream : /\ stream[n].seen = "open" /\ stream[n].turn = turn
                                  /\ stream[n].loop = loops}

PassEnds == /\ pc = "parallel" /\ OpenNow # {}
            /\ \E m \in Moves, rc \in {"ok", "failed"} :
                 LET n == Min(OpenNow) IN
                 /\ rc = "failed" => m = "none"       \* it is not merged
                 /\ Ends(n, m) /\ Moved(stream[n].pass, m)
            /\ UNCHANGED <<source, pc, attempt, loopVars>>

GroupEnds == /\ pc = "parallel" /\ OpenNow = {}
             /\ \E d \in {1, Batches * Timeout} : clock' = clock + d
             /\ pc' \in {"after", "over"}             \* an error stops the loop
             /\ UNCHANGED <<queue, other, source, stream, attempt, turn, stall, prev, base, loops>>

SessionEnds ==
  /\ pc = "session"
  /\ \E m \in Moves, rc \in {"ok", "failed"} :
       /\ Ends(Len(stream), m) /\ Moved(stream[Len(stream)].pass, m)
       /\ pc' = IF rc = "ok" THEN "after"
                ELSE IF m = "none" /\ attempt < RetryLimit THEN "retry" ELSE "over"
  /\ \E d \in {1, Timeout} : clock' = clock + d
  /\ UNCHANGED <<source, attempt, turn, stall, prev, base, loops>>

(* Its record could not be written: SystemExit, and the session stays open. *)
SessionLost == /\ pc = "session"
               /\ \E d \in {1, Timeout} : clock' = clock + d
               /\ Over
               /\ UNCHANGED <<queue, other, source, stream, attempt, turn, stall, prev, base, loops>>

(* A transient fault and nothing moved: another session, if the payer admits. *)
Retry == /\ pc = "retry"
         /\ \/ Over /\ UNCHANGED <<stream, attempt>>  \* not transient; refused
            \/ /\ admit(1) = 1 /\ Room(1)
               /\ stream' = Append(stream, Open(stream[Len(stream)].pass, FALSE, TRUE))
               /\ attempt' = attempt + 1 /\ pc' = "session"
         /\ UNCHANGED <<queue, other, source, loopVars>>

(* The detector, after cmd_next: has the digest of the state changed?         *)
InTurn(l, t)   == {n \in DOMAIN stream : stream[n].loop = l /\ stream[n].turn = t}
Quiet(l, t)    == \A n \in InTurn(l, t) : stream[n].moved = "none"
KindOf(l, t)   == stream[Min(InTurn(l, t))].kind

(* Mutant: a fresh decision that moves nothing starts the count at zero. *)
StalledFromZero(kind) == IF ~Quiet(loops, turn) THEN 0
                         ELSE IF prev # "none" /\ kind # prev THEN 0 ELSE stall + 1

Stalled(kind) == IF ~Quiet(loops, turn) THEN 0
                 ELSE IF prev # "none" /\ kind # prev THEN 1 ELSE stall + 1

Iterate == /\ pc = "after"
           /\ LET kind == KindOf(loops, turn) IN
              /\ stall' = Stalled(kind) /\ prev' = kind
              /\ pc' = IF ProgressLimit > 0 /\ stall' >= ProgressLimit THEN "over" ELSE "top"
           /\ turn' = turn + 1
           /\ UNCHANGED <<queue, other, source, stream, attempt, clock, base, loops>>

Next == \/ Start \/ Triage \/ Repair \/ Stop \/ Gate \/ Dispatch \/ PassEnds \/ GroupEnds
        \/ SessionEnds \/ SessionLost \/ Retry \/ Iterate

Spec == Init /\ [][Next]_vars

-----------------------------------------------------------------------------
(* A session's cost beyond what it reserved.                                  *)
Beyond(s) == Max({0, s.spent - Reservation})
LastBatch == {n \in DOMAIN stream : /\ stream[n].turn = stream[Len(stream)].turn
                                    /\ stream[n].loop = stream[Len(stream)].loop
                                    /\ stream[n].parallel \/ n = Len(stream)}

(* budget.GUARANTEE: "no session is dispatched unless the operator's remaining *)
(* tokens cover its reservation; one in-flight session may exceed its          *)
(* reservation".  So whatever was measured by whom, over retries, groups and   *)
(* restarts, the audit costs no more than the ceiling, plus what the sessions  *)
(* dispatched last took beyond their reservations, plus what a session without *)
(* a figure took beyond its own.                                               *)
Spent == Tally([n \in DOMAIN stream |-> stream[n].spent], Len(stream))

BeyondOf(S) == Tally([n \in DOMAIN stream |-> IF n \in S THEN Beyond(stream[n]) ELSE 0],
                     Len(stream))

CeilingHolds ==
  LET blind == {n \in DOMAIN stream : stream[n].seen = "none"} IN
  stream # <<>> => Spent <= Ceiling + BeyondOf(LastBatch \cup blind)

(* README.md:437: a charter that has moved nothing in embargo_after sessions   *)
(* is not bought again while what it reads is the same, over loops and         *)
(* restarts; the retries of the last of them are not asked.                    *)
EmbargoHolds ==
  \A p \in Passes : Cardinality(Barren(p)) <= After + RetryLimit

(* Not kept (README.md:384): the retries of the last session, and the batches  *)
(* of the last group, run on after the budget's end.                           *)
WithinBudget == clock <= Max({Budget, Timeout})

(* README.md:402: a loop never goes on after loop_progress_limit iterations of *)
(* one kind that moved nothing.                                                *)
StallStops ==
  pc = "top" /\ ProgressLimit > 0 /\ turn >= ProgressLimit =>
    ~ \A t \in (turn - ProgressLimit)..(turn - 1) :
         Quiet(loops, t) /\ KindOf(loops, t) = KindOf(loops, turn - 1)

(* Not kept in a group of parallel passes.                                     *)
(* README.md:437, the embargo refuses "to dispatch a charter whose last        *)
(* `embargo_after` sessions each ended WITHOUT recording a canonical           *)
(* transition": no pass starts while it is held.                               *)
HeldNotDispatched ==
  [][\A n \in DOMAIN stream' \ DOMAIN stream :
       stream'[n].pass # Nobody /\ ~stream'[n].isRetry => ~EmbargoHeld(stream'[n].pass)]_vars

(* Not kept in a group of parallel passes.                                     *)
(* README.md:418, tokens_per_pass: no pass is bought again once what has been *)
(* measured of its sessions reached the ceiling, however they were dispatched. *)
PassCeilingHolds ==
  [][\A n \in DOMAIN stream' \ DOMAIN stream :
       LET p == stream'[n].pass IN
       p # Nobody /\ PassCeiling > 0 /\ ~stream'[n].isRetry =>
         Measured({m \in DOMAIN stream : stream[m].pass = p}) < PassCeiling]_vars
=============================================================================
