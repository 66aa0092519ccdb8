-------------------------- MODULE SessionDispatch --------------------------
(***************************************************************************)
(* One dispatch of cli._dispatch_with_retry: the sessions runner.          *)
(* run_session starts for one charter, the sandbox each runs in, and what  *)
(* runner.settle and the courier make of what it did.  How a session comes *)
(* to its end is module Watchdog.                                          *)
(*                                                                         *)
(* A session's work is what it changed: a transition in state.json, a file *)
(* of the material that was clean, one that was dirty already.  A sandbox  *)
(* holds it back until collect; without one it is in the project at once.  *)
(* The disk, git, docker and the budget may refuse at every step.          *)
(***************************************************************************)
EXTENDS Watchdog

CONSTANTS RetryLimit, \* retry_limit
          Profiles    \* the capability profiles, see Watchdog

ASSUME RetryAssumption   == RetryLimit \in Nat
ASSUME ProfileAssumption ==
  Profiles \subseteq {p \in [isolating : BOOLEAN, writable : BOOLEAN,
                             backend : BOOLEAN, broker : BOOLEAN] :
                        (p.broker => p.backend) /\ (p.backend => p.isolating)}

VARIABLES
  pc,
  attempt,  \* how many sessions came before this one
  box,      \* what of the sandbox exists: its tree, its container, its broker
  landed,   \* the work of this session that is in the project
  kept,     \* where else it is: "none", "bundle", "patch", or "lost" when filing failed
  filed,    \* what of it the bundle and the patch hold
  hidden,   \* what of it git failed to show, unnoticed
  outcome,  \* settle's outcome
  ok,       \* is the exit status zero?
  transport,\* does the log name a lost connection?
  raising,  \* is an exception on its way out of settle?
  record    \* the envelope: "none", "open", or the outcome it was closed with

dvars == <<pc, attempt, box, landed, kept, filed, hidden, outcome, ok, transport, raising, record>>
vars  == <<wvars, profile, dvars>>

Outcomes == {"ok", "refused", "blocked", "provider-error", "timeout", "crash",
             "cancelled", "stalled"}

Product == acts \ {"sidecar"}   \* what the session changed

SessionInit == /\ WatchInit /\ profile \in Profiles
               /\ pc = "ready" /\ attempt = 0
               /\ box = {} /\ landed = {} /\ kept = "none"
               /\ filed = {} /\ hidden = {}
               /\ outcome = "crash" /\ ok = FALSE /\ transport = FALSE
               /\ raising = FALSE /\ record = "none"

-----------------------------------------------------------------------------
(* run_session: the door checks, then the envelope, before anything runs. *)
TurnedAway     == pc' = "over" /\ UNCHANGED record
DispatchStored == pc' = "opened" /\ record' = "open"

Open == /\ pc = "ready"
        /\ TurnedAway \/ DispatchStored
        /\ landed' = {} /\ kept' = "none" /\ filed' = {} /\ hidden' = {}
        /\ outcome' = "crash" /\ ok' = FALSE /\ transport' = FALSE /\ raising' = FALSE
        /\ acts' = {}
        /\ UNCHANGED <<profile, attempt, box, child, clock, bytes, last, active, ended>>

(* Sandbox.enter: the broker, then the tree.  What is refused before there is *)
(* a tree leaves without leave(); what fails in checkout or seed does not.    *)
Broker == IF profile.broker THEN {"broker"} ELSE {}

Enter ==
  /\ pc = "opened"
  /\ \/ /\ box' = Broker \cup (IF profile.isolating THEN {"tree"} ELSE {})
        /\ pc' = "entered" /\ UNCHANGED record
     \/ /\ box' \in {{}, Broker}                     \* no backend; no HEAD
        /\ pc' = "over" /\ UNCHANGED record
     \/ /\ profile.isolating /\ box' = {}            \* checkout, seed
        /\ pc' = "over" /\ UNCHANGED record
     \/ /\ profile.isolating /\ box' = Broker        \* OSError of mkdtemp
        /\ pc' = "answer" /\ record' = "crash"
  /\ UNCHANGED <<wvars, profile, attempt, landed, kept, filed, hidden, outcome, ok, transport, raising>>

(* wrap, and the spawn; what it raises is settle's to absorb. *)
Launch ==
  /\ pc = "entered"
  /\ \/ /\ Spawn
        /\ box' = box \cup (IF profile.backend THEN {"container"} ELSE {})
        /\ pc' = "running" /\ UNCHANGED raising
     \/ /\ profile.backend /\ raising' = TRUE        \* an unpinned image
        /\ pc' = "judged" /\ UNCHANGED <<wvars, box>>
     \/ /\ pc' = "judged" /\ UNCHANGED <<wvars, box, raising>>  \* not runnable
  /\ UNCHANGED <<profile, attempt, landed, kept, filed, hidden, outcome, ok, transport, record>>

(* Without a sandbox the child writes the project. *)
Landing == /\ landed' = IF profile.isolating THEN {} ELSE acts' \ {"sidecar"}
           /\ UNCHANGED <<profile, pc, attempt, box, kept, filed, hidden, outcome, ok, transport, raising, record>>

Run   == pc = "running" /\ (PrintLine \/ Work \/ Exit) /\ Landing
Watch == pc = "running" /\ Poll /\ Landing

(* The stop file a session may leave, well formed or not; it is removed.  One *)
(* the parent cannot read stops the session all the same.                     *)
StopFiles == {"absent", "unreadable", "stop"}
read_stop_file(file) == file # "absent"

(* It makes any session refused that its parent did not end. *)
Stoppable(o) == o \notin {"cancelled", "timeout", "stalled"}

(* classify_outcome; a route the provider contradicts; the stop file. *)
Judge ==
  /\ pc = "running" /\ ended # Waiting
  /\ \E rc \in BOOLEAN, log \in Logs, file \in StopFiles, route \in BOOLEAN :
       LET said == IF ended = "egress" THEN "crash" ELSE classify_outcome(ended, rc, log)
       IN /\ outcome' = IF (read_stop_file(file) /\ Stoppable(said)) \/ (route /\ said = "ok")
                        THEN "refused" ELSE said
          /\ ok' = (rc /\ ended # "egress")
          /\ transport' = log.lost
  /\ raising' = (ended = "egress")
  /\ pc' = "judged"
  /\ child' = "gone" /\ clock' = 0 /\ bytes' = "none" /\ last' = 0 /\ active' = FALSE
  /\ UNCHANGED <<profile, acts, ended, attempt, box, landed, kept, filed, hidden, record>>

-----------------------------------------------------------------------------
(* settle.  Under the merge lock an ok session is collected, a cancelled one  *)
(* left alone, any other filed for a human.                                   *)

(* Sandbox.capture: what git shows of the work.  Nobody asks `git add` or     *)
(* `git diff` whether it succeeded, and of one that failed there is what the  *)
(* session had staged itself; where there is nothing, nothing was changed.    *)
Captures == IF profile.isolating THEN SUBSET Product ELSE {{}}
Whole    == IF profile.isolating THEN Product ELSE {}

(* quarantine: a bundle of what git shows, next to the patch collect left.    *)
(* The bundle may fail, or git by an exception.                               *)
File(patch) ==
  \/ \E found \in Captures :
       /\ filed' = patch \cup found /\ hidden' = Whole \ filed'
       /\ kept' = IF found # {} THEN "bundle" ELSE IF patch # {} THEN "patch" ELSE "none"
  \/ /\ profile.isolating /\ filed' = patch
     /\ IF patch = {} THEN kept' = "lost" /\ hidden' = {}
                      ELSE kept' = "patch" /\ hidden' = Whole \ patch

(* A session may append to the stream it was given, and rewrite none of it. *)
prefix_problem == "rewrite" \in Product

(* collect refuses a rewritten stream, and work on the material by a role     *)
(* that may only read it; git may refuse anything.  The patch stays, unless   *)
(* it could not be captured or written.                                       *)
MayApply(found) == /\ ~prefix_problem
                   /\ profile.writable \/ found \cap {"write", "overwrite"} = {}

Apply == /\ outcome = "ok"
         /\ \E found \in Captures :
              /\ found # {} => MayApply(found)
              /\ landed' = IF profile.isolating THEN found ELSE landed
              /\ hidden' = Whole \ found
         /\ UNCHANGED <<kept, filed, outcome, raising>>

(* Mutant: a refusal to apply is only raised. *)
NotAppliedRaised == /\ outcome = "ok" /\ profile.isolating
                    /\ raising' = TRUE /\ \E patch \in Captures : File(patch)
                    /\ UNCHANGED <<landed, outcome>>

NotApplied == /\ outcome = "ok" /\ profile.isolating
              /\ outcome' = "refused" /\ raising' = TRUE
              /\ \E patch \in Captures : File(patch)
              /\ UNCHANGED landed

(* Mutant: what failed for a reason of the parent's is not filed. *)
QuarantineOwn == /\ outcome \notin {"ok", "cancelled"}
                 /\ IF outcome = "crash" THEN UNCHANGED <<kept, filed, hidden>> ELSE File({})
                 /\ UNCHANGED <<landed, outcome, raising>>

Quarantine == /\ outcome \notin {"ok", "cancelled"}
              /\ File({})
              /\ UNCHANGED <<landed, outcome, raising>>

Leave == /\ outcome = "cancelled"
         /\ UNCHANGED <<landed, kept, filed, hidden, outcome, raising>>

Settle == /\ pc = "judged"
          /\ Apply \/ NotApplied \/ Quarantine \/ Leave
          /\ pc' = "settled"
          /\ UNCHANGED <<wvars, profile, attempt, box, ok, transport, record>>

(* finish, and Sandbox.leave whatever finish did.  A route the provider       *)
(* contradicts closes a record that was not ok as refused; the outcome the    *)
(* dispatch goes on with is settle's all the same.                            *)
Close == /\ pc = "settled"
         /\ \/ record' \in {outcome} \cup (IF outcome # "ok" THEN {"refused"} ELSE {})
               /\ UNCHANGED raising
            \/ raising' = TRUE /\ UNCHANGED record
         /\ pc' = "closed"
         /\ UNCHANGED <<wvars, profile, attempt, box, landed, kept, filed, hidden, outcome, ok, transport>>

(* A command that could not be spawned returns here, past the courier. *)
TearDown == /\ pc = "closed"
            /\ box' = {}
            /\ pc' = IF raising THEN "over" ELSE IF ended = Waiting THEN "answer" ELSE "courier"
            /\ UNCHANGED <<wvars, profile, attempt, landed, kept, filed, hidden, outcome, ok, transport, raising, record>>

(* courier_commit; a handoff that is not durable is not a success. *)
Courier == /\ pc = "courier"
           /\ ok' \in {ok, FALSE}
           /\ pc' = "answer"
           /\ UNCHANGED <<wvars, profile, attempt, box, landed, kept, filed, hidden, outcome, transport, raising, record>>

-----------------------------------------------------------------------------
(* _dispatch_with_retry *)

(* What the project shows of a session: paths newly dirty or committed that   *)
(* are no bookkeeping, the material half of state.json, and a bundle, which is *)
(* a new path as well.                                                         *)
Material == (IF profile.isolating THEN landed ELSE landed \ {"overwrite", "rewrite"})
            \cup (IF kept = "bundle" THEN {"bundle"} ELSE {})

(* The account of the session: that, and the paths of the applied patch. *)
SessionResult ==
  [outcome         |-> outcome,
   applied_paths   |-> IF profile.isolating THEN landed ELSE {},
   effects_applied |-> Material # {} \/ (profile.isolating /\ landed # {})]

(* Mutant: only state.json is asked whether anything happened. *)
retry_decision_state == /\ "transition" \notin landed
                        /\ outcome = "provider-error" \/ (outcome = "timeout" /\ transport)
                        /\ attempt < RetryLimit

(* The account and the project are asked apart, and either can say no. *)
retry_decision == /\ ~SessionResult.effects_applied /\ Material = {}
                  /\ \/ SessionResult.outcome = "provider-error"
                     \/ SessionResult.outcome = "timeout" /\ transport
                  /\ attempt < RetryLimit

Answer == /\ pc = "answer"
          /\ \/ ok \/ ~retry_decision
          /\ pc' = "over"
          /\ UNCHANGED <<wvars, profile, attempt, box, landed, kept, filed, hidden, outcome, ok, transport, raising, record>>

(* Mutant: the attempts are not counted. *)
RetryUncounted == /\ pc = "answer" /\ ~ok /\ retry_decision
                  /\ pc' = "ready"
                  /\ ended' = Waiting /\ child' = "none"
                  /\ UNCHANGED <<clock, bytes, last, acts, active, profile, attempt, box, landed,
                                 kept, filed, hidden, outcome, ok, transport, raising, record>>

(* budget.admit may refuse the retry; else the back-off passes. *)
Retry == /\ pc = "answer" /\ ~ok /\ retry_decision
         /\ \/ pc' = "over" /\ UNCHANGED attempt
            \/ pc' = "ready" /\ attempt' = attempt + 1
         /\ ended' = Waiting /\ child' = "none"
         /\ UNCHANGED <<clock, bytes, last, acts, active, profile, box, landed, kept, filed, hidden,
                        outcome, ok, transport, raising, record>>

Done == pc = "over" /\ UNCHANGED vars

Orchestrate == Open \/ Enter \/ Launch \/ Judge \/ Settle \/ Close \/ TearDown
               \/ Courier \/ Answer \/ Retry

Next == Orchestrate \/ Run \/ Watch \/ Done

(* The parent is one thread that always has something to do next, and its     *)
(* loop always comes round; of the child nothing is assumed.                  *)
Spec == SessionInit /\ [][Next]_vars /\ WF_vars(Orchestrate) /\ WF_vars(Watch)

-----------------------------------------------------------------------------
TypeOK == /\ profile \in Profiles
          /\ attempt \in 0..RetryLimit
          /\ box \subseteq {"tree", "container", "broker"}
          /\ landed \subseteq Acts /\ acts \subseteq Acts
          /\ outcome \in Outcomes /\ record \in Outcomes \cup {"none", "open"}

(* runner.settle: whatever a session in a sandbox changed is in the project,  *)
(* in a bundle or in a patch when the sandbox goes, unless the operator       *)
(* cancelled it or the disk refused the bundle.  Lost without a word is only  *)
(* what git failed to show (runner.py:1799).                                  *)
WorkPreserved ==
  profile.isolating /\ child = "gone" /\ "tree" \notin box =>
    Product \subseteq landed \cup filed \cup hidden \/ outcome = "cancelled" \/ kept = "lost"

(* README.md:472: a record that says ok is of work that was applied, all of   *)
(* it that git showed, and of a session with any other outcome nothing was.   *)
(* An outcome that says ok has no other record, and work that was refused     *)
(* stays out: a stream that was rewritten (runner.py:1876), and the material, *)
(* for a role that may only read it.                                          *)
RecordIsTrue ==
  profile.isolating /\ pc \in {"closed", "courier", "answer", "over"} =>
    /\ record = "ok" => outcome = "ok" /\ landed = Product \ hidden
    /\ "rewrite" \notin landed
    /\ ~profile.writable => landed \cap {"write", "overwrite"} = {}
    /\ outcome # "ok" => landed = {}
    /\ record # "ok" /\ landed # {} => raising /\ record = "open"

(* A retry starts from what the session before it found: nothing a clean path *)
(* can show is left of it.                                                    *)
RetryRepeatsNothing ==
  [][attempt' # attempt => landed \subseteq {"overwrite", "rewrite"} /\ kept # "bundle"]_vars

(* However the child behaves, the dispatch comes to an end. *)
DispatchEnds == <>(pc = "over")
=============================================================================
