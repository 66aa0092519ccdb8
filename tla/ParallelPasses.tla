--------------------------- MODULE ParallelPasses ---------------------------
(***************************************************************************)
(* One fan-out of parallel.run_passes: a pool of worker threads, each      *)
(* running agent_pass.session for one queued pass in a disposable tree,    *)
(* and the main thread, which merges what they bring back in the order in  *)
(* which they finish.  Both write state.json: the workers their envelopes  *)
(* (envelope.store), the main thread the merges (write._apply).            *)
(*                                                                         *)
(* A read-modify-write of state.json is two steps, with the window of      *)
(* util.serialized around them; reading the working tree into a sandbox    *)
(* is a step that takes no window.  A write that fails may have replaced   *)
(* the document before it did.  What a session does is a member of Menu:   *)
(* the ids it files, the pass it files them under, the pass it queues, the *)
(* artifacts it writes, and how it ends.                                   *)
(***************************************************************************)
EXTENDS Naturals, FiniteSets, Sequences

CONSTANTS
  Group,         \* the passes of this fan-out, in queue order
  Others,        \* pass ids that are not in it
  Files,         \* artifact paths under audit/
  Block,         \* max_findings_per_pass, what id_block reserves
  Workers,       \* parallel_workers
  MaxSessions,   \* max_sessions_per_run
  MERGE_ATTEMPTS,
  Used,          \* the highest finding id before the fan-out
  Menu,          \* what a session may do
  CanFail,       \* may a write fail?
  Nobody         \* no thread, no pass

Passes == {Group[i] : i \in 1..Len(Group)}
Ids    == 1..(Used + Block * Len(Group) + 1)

ASSUME GroupAssumption ==
  /\ Group \in Seq(Passes) /\ \A i, j \in 1..Len(Group) : Group[i] = Group[j] => i = j
  /\ Others \cap Passes = {} /\ Nobody \notin Passes \cup Others \cup {"main"}
  /\ "main" \notin Passes
ASSUME NumberAssumption ==
  /\ Block \in Nat \ {0} /\ Workers \in Nat /\ MaxSessions \in Nat
  /\ MERGE_ATTEMPTS \in Nat \ {0} /\ Used \in Nat
Acts == [offsets : SUBSET (0..Block), wrong : BOOLEAN, queues : SUBSET Others,
         files : SUBSET Files, ends : {"ok", "failed", "lapsed", "material"}]
ASSUME MenuAssumption == Menu \subseteq Acts

VARIABLES
  doc,      \* state.json: rev, findings, queue, sessions; and the passes whose
            \* merge is among its ledger_commits
  files,    \* the artifacts in the working tree: whose bytes, or Nobody
  window,   \* the thread inside util.serialized
  seen,     \* the document each thread's read-modify-write started from
  pc,       \* where each worker is
  seed,     \* what its sandbox was seeded with
  did,      \* what its session did, as git staged it
  answer,   \* what its future holds
  main,     \* where the main thread is
  turn,     \* the pass it is merging
  expect,   \* the revision that merge was computed against
  attempt,
  undo,     \* the artifacts it has landed and may have to take back
  result    \* run_passes' answer per pass

workerVars == <<pc, seed, did, answer>>
mainVars   == <<main, turn, expect, attempt, undo, result>>
vars       == <<doc, files, window, seen, workerVars, mainVars>>

Findings == [id : Ids, pass : Passes \cup {Nobody}]
Ends     == {"none", "open", "ok", "refused", "crash"}
Docs     == [rev : Nat, findings : SUBSET Findings, queue : SUBSET (Passes \cup Others),
             sessions : [Passes -> Ends], merges : SUBSET Passes]
Seeds    == [findings : SUBSET Findings, queue : SUBSET (Passes \cup Others),
             files : [Files -> Passes \cup {Nobody}]]

(* agent_pass loads base_state and reserves the ids before a session starts. *)
Base == [rev |-> 0,
         findings |-> {[id |-> i, pass |-> Nobody] : i \in 1..Used},
         queue |-> Passes, sessions |-> [p \in Passes |-> "none"], merges |-> {}]

Place(p) == CHOOSE i \in 1..Len(Group) : Group[i] = p

(* Mutant: the start does not move from pass to pass. *)
reserve_ids_still(p) == (Used + 1)..(Used + Block)

reserve_ids(p) == (Used + Block * (Place(p) - 1) + 1)..(Used + Block * Place(p))

Idle    == [offsets |-> {}, wrong |-> FALSE, queues |-> {}, files |-> {}, ends |-> "failed"]
NoSeed  == [findings |-> {}, queue |-> {}, files |-> [f \in Files |-> Nobody]]

Init == /\ doc = Base
        /\ files = [f \in Files |-> Nobody]
        /\ window = Nobody
        /\ seen = [t \in Passes \cup {"main"} |-> Base]
        /\ pc = [p \in Passes |-> "queued"]
        /\ seed = [p \in Passes |-> NoSeed]
        /\ did = [p \in Passes |-> Idle]
        /\ answer = [p \in Passes |-> "none"]
        /\ main = "start" /\ turn = Nobody /\ expect = 0 /\ attempt = 0
        /\ undo = {} /\ result = [p \in Passes |-> "none"]

-----------------------------------------------------------------------------
(* The window of util.serialized. *)
Free      == window = Nobody

(* Mutant: the write takes no window, the read-modify-write is two steps.      *)
BeginOpen(t) == /\ window' = t
                /\ seen' = [seen EXCEPT ![t] = doc]

Begin(t)  == /\ Free /\ window' = t
             /\ seen' = [seen EXCEPT ![t] = doc]
Leave(t)  == /\ window' = Nobody
             /\ seen' = [seen EXCEPT ![t] = Base]

(* envelope.store: a new dispatch closes every open one that is not live. *)
Live(p) == {q \in Passes : pc[q] \notin {"queued", "starting"}} \cup {p}

Stored(d, p, end) ==
  [d EXCEPT !.rev = @ + 1,
            !.sessions = [q \in Passes |->
               IF q = p THEN end
               ELSE IF end = "open" /\ d.sessions[q] = "open" /\ q \notin Live(p)
                    THEN "crash" ELSE d.sessions[q]]]

-----------------------------------------------------------------------------
(* run_passes, before anything is dispatched: the ceilings refuse the run, or *)
(* the admission ceiling all of it but its first passes.                      *)
worker_count(n) == IF Workers < 1 THEN 1 ELSE IF Workers < n THEN Workers ELSE n

Start ==
  /\ main = "start"
  /\ \/ main' = "refused" /\ UNCHANGED <<result, pc>>    \* overlap, unconfirmed, minutes
     \/ /\ Len(Group) <= MaxSessions
        /\ \E k \in 0..Len(Group) :
             LET out == {p \in Passes : Place(p) > k} IN
             /\ result' = [p \in Passes |-> IF p \in out THEN "ceiling" ELSE "none"]
             /\ pc' = [p \in Passes |-> IF p \in out THEN "out" ELSE "queued"]
             /\ main' = IF k = 0 THEN "over" ELSE "waiting"
  /\ UNCHANGED <<doc, files, window, seen, seed, did, answer, turn, expect, attempt, undo>>

Admitted == {p \in Passes : pc[p] # "out"}
InFlight == {p \in Admitted : pc[p] \notin {"queued", "done"}}

(* The pool starts the passes in order. *)
Submit(p) ==
  /\ main \notin {"start", "refused"}
  /\ pc[p] = "queued"
  /\ Cardinality(InFlight) < worker_count(Cardinality(Admitted))
  /\ \A q \in Admitted : Place(q) < Place(p) => pc[q] # "queued"
  /\ pc' = [pc EXCEPT ![p] = "starting"]
  /\ UNCHANGED <<doc, files, window, seen, seed, did, answer, mainVars>>

Answered(p, a) == /\ pc' = [pc EXCEPT ![p] = "done"]
                  /\ answer' = [answer EXCEPT ![p] = a]

(* session: the doors may refuse; then the dispatch is recorded, or not, or   *)
(* the store fails when it is.                                                *)
Door(p) == /\ pc[p] = "starting"
           /\ \E a \in {"raised", "exit"} : Answered(p, a)
           /\ UNCHANGED <<doc, files, window, seen, seed, did, mainVars>>

Dispatch(p) == /\ pc[p] = "starting" /\ Begin(p)
               /\ pc' = [pc EXCEPT ![p] = "storing"]
               /\ UNCHANGED <<doc, files, seed, did, answer, mainVars>>

Dispatched(p) ==
  /\ pc[p] = "storing" /\ Leave(p)
  /\ \/ /\ doc' = Stored(seen[p], p, "open")
        /\ pc' = [pc EXCEPT ![p] = "recorded"] /\ UNCHANGED answer
     \/ /\ CanFail /\ Answered(p, "raised")
        /\ doc' \in {doc, Stored(seen[p], p, "open")}
  /\ UNCHANGED <<files, seed, did, mainVars>>

(* write_views comes after write_state: for a while, or for good where it fails, *)
(* the views of the tree are not those of the document.                         *)
ViewsBehind == main = "writing" \/ (main \in {"escaping", "escaped"} /\ turn \in doc.merges)

(* Sandbox.enter: the working tree as it is, committed or not.  In one whose   *)
(* views are behind, every verb of the session refuses on the drift.           *)
Enter(p) ==
  /\ pc[p] = "recorded"
  /\ \/ /\ seed' = [seed EXCEPT ![p] = [findings |-> doc.findings, queue |-> doc.queue,
                                       files |-> files]]
        /\ pc' = [pc EXCEPT ![p] = "entered"] /\ UNCHANGED did
     \/ /\ \E act \in {[Idle EXCEPT !.ends = "lapsed"]} \cup (IF ViewsBehind THEN {Idle} ELSE {}) :
             did' = [did EXCEPT ![p] = act]
        /\ pc' = [pc EXCEPT ![p] = "ran"] /\ UNCHANGED seed
  /\ UNCHANGED <<doc, files, window, seen, answer, mainVars>>

(* _staged_changes does not ask whether git add -A failed: what it has not     *)
(* staged is neither carried nor refused.                                      *)
Staged(m) ==
  {m} \cup IF CanFail THEN {[m EXCEPT !.files = F, !.ends = IF @ = "material" THEN "ok" ELSE @] :
                             F \in SUBSET m.files}
                      ELSE {}

Run(p) == /\ pc[p] = "entered"
          /\ \E m \in Menu : \E act \in Staged(m) : did' = [did EXCEPT ![p] = act]
          /\ pc' = [pc EXCEPT ![p] = "ran"]
          /\ UNCHANGED <<doc, files, window, seen, seed, answer, mainVars>>

-----------------------------------------------------------------------------
(* harvest: what the tree of the session has and base_state has not. *)
First(p) == CHOOSE i \in reserve_ids(p) : \A j \in reserve_ids(p) : i <= j

Filed(p) == {[id |-> First(p) + o,
              pass |-> IF did[p].wrong THEN CHOOSE q \in Passes : q # p ELSE p] :
             o \in did[p].offsets}

New(p)       == {r \in seed[p].findings \cup Filed(p) : \A b \in Base.findings : b.id # r.id}
Remainder(p) == (seed[p].queue \cup did[p].queues) \ Base.queue

Foreign(p)  == \E r \in New(p) : r.pass # p
Outside(p)  == \E r \in New(p) : r.id \notin reserve_ids(p)

(* Mutant: what is filed against another pass is harvested.                   *)
HarvestedForeign(p) == did[p].ends = "ok" /\ ~Outside(p)

Harvested(p) == did[p].ends = "ok" /\ ~Foreign(p) /\ ~Outside(p)

(* settle, on_ok under the window; then what finish will record, and answer. *)
Settle(p) ==
  /\ pc[p] = "ran" /\ Free
  /\ answer' = [answer EXCEPT ![p] = CASE Harvested(p)            -> "product"
                                       [] did[p].ends = "lapsed"  -> "exit"
                                       [] did[p].ends = "failed"  -> "nothing"
                                       [] OTHER                   -> "raised"]
  /\ pc' = [pc EXCEPT ![p] = "settled"]
  /\ UNCHANGED <<doc, files, window, seen, seed, did, mainVars>>

OutcomeOf(a) == CASE a = "product" -> "ok"
                  [] a \in {"exit", "nothing"} -> "crash"
                  [] OTHER -> "refused"

Finish(p) == /\ pc[p] = "settled" /\ Begin(p)
             /\ pc' = [pc EXCEPT ![p] = "closing"]
             /\ UNCHANGED <<doc, files, seed, did, answer, mainVars>>

(* Sandbox.leave: of a tree that was not harvested nothing remains. *)
Gone(p) == IF answer'[p] = "product" THEN UNCHANGED <<seed, did>>
           ELSE seed' = [seed EXCEPT ![p] = NoSeed] /\ did' = [did EXCEPT ![p] = Idle]

(* Mutant: a store that fails does not leave the window. *)
FinishedHeld(p) ==
  /\ pc[p] = "closing"
  /\ \/ doc' = Stored(seen[p], p, OutcomeOf(answer[p])) /\ window' = Nobody /\ UNCHANGED answer
     \/ CanFail /\ answer' = [answer EXCEPT ![p] = "exit"] /\ UNCHANGED <<doc, window>>
  /\ pc' = [pc EXCEPT ![p] = "done"]
  /\ Gone(p)
  /\ UNCHANGED <<files, seen, mainVars>>

Finished(p) ==
  /\ pc[p] = "closing" /\ Leave(p)
  /\ \/ doc' = Stored(seen[p], p, OutcomeOf(answer[p])) /\ UNCHANGED answer
     \/ /\ CanFail /\ answer' = [answer EXCEPT ![p] = "exit"]        \* SessionNotRecorded
        /\ doc' \in {doc, Stored(seen[p], p, OutcomeOf(answer[p]))}
  /\ pc' = [pc EXCEPT ![p] = "done"]
  /\ Gone(p)
  /\ UNCHANGED <<files, mainVars>>

-----------------------------------------------------------------------------
(* The main thread takes the futures as they complete.  `except Exception`    *)
(* does not catch SystemExit: that leaves run_passes, once the pool is done.  *)
Ready(p) == pc[p] = "done" /\ result[p] = "none"

Report(p, r) == result' = [result EXCEPT ![p] = r]

Escape(p) == main' = "escaping" /\ Report(p, "escaped")

Take(p) ==
  /\ main = "waiting" /\ Ready(p)
  /\ CASE answer[p] = "raised"  -> Report(p, "error") /\ UNCHANGED <<main, turn>>
       [] answer[p] = "nothing" -> Report(p, "nothing") /\ UNCHANGED <<main, turn>>
       [] answer[p] = "exit"    -> Escape(p) /\ UNCHANGED turn
       [] answer[p] = "product" -> main' = "applying" /\ turn' = p /\ UNCHANGED result
  /\ UNCHANGED <<doc, files, window, seen, workerVars, expect, attempt, undo>>

(* apply_artifacts, outside the window: every path as the session found it,   *)
(* or holding these bytes already, or nothing is written.                     *)
Manifest(p) == did[p].files                       \* stage_artifacts
Todo(p)     == {f \in Manifest(p) : files[f] # p}
Conflict(p) == \E f \in Todo(p) : files[f] # seed[p].files[f]

Apply ==
  /\ main = "applying"
  /\ \/ /\ Conflict(turn) \/ CanFail        \* a path changed, or landed otherwise
        /\ Report(turn, "conflict") /\ main' = "waiting" /\ UNCHANGED <<files, undo>>
     \/ /\ ~Conflict(turn)
        /\ files' = [f \in Files |-> IF f \in Todo(turn) THEN turn ELSE files[f]]
        /\ undo' = Todo(turn)
        /\ main' = "merging" /\ UNCHANGED result
     \/ /\ CanFail /\ ~Conflict(turn) /\ Escape(turn) /\ UNCHANGED <<files, undo>>
  /\ expect' = Base.rev /\ attempt' = 1
  /\ UNCHANGED <<doc, window, seen, workerVars, turn>>

(* merge: _apply under the window, against the revision it was computed from. *)
Merge == /\ main = "merging" /\ Begin("main")
         /\ main' = "writing"
         /\ UNCHANGED <<doc, files, workerVars, turn, expect, attempt, undo, result>>

Stale == seen["main"].rev # expect
Taken(p) == \/ \E r \in New(p), b \in seen["main"].findings : r.id = b.id
            \/ Remainder(p) \cap seen["main"].queue # {}

(* Mutant: a refused merge leaves its artifacts. *)
UndoneNot == files

(* _restore *)
Undone == [f \in Files |-> IF f \in undo THEN seed[turn].files[f] ELSE files[f]]

Mutated == [seen["main"] EXCEPT !.rev = @ + 1, !.findings = @ \cup New(turn),
                                !.queue = @ \cup Remainder(turn), !.merges = @ \cup {turn}]

Merged ==
  /\ main = "writing" /\ Leave("main") /\ ~Stale /\ ~Taken(turn)
  /\ doc' = Mutated
  /\ Report(turn, "merged") /\ main' = "waiting" /\ undo' = {}
  /\ UNCHANGED <<files, workerVars, turn, expect, attempt>>

Retry ==
  /\ main = "writing" /\ Leave("main") /\ Stale /\ attempt < MERGE_ATTEMPTS
  /\ attempt' = attempt + 1 /\ main' = "rereading"
  /\ UNCHANGED <<doc, files, workerVars, turn, expect, undo, result>>

Reread == /\ main = "rereading" /\ expect' = doc.rev /\ main' = "merging"
          /\ UNCHANGED <<doc, files, window, seen, workerVars, turn, attempt, undo, result>>

GiveUp ==
  /\ main = "writing" /\ Leave("main")
  /\ (Stale /\ attempt = MERGE_ATTEMPTS) \/ (~Stale /\ Taken(turn))
  /\ files' = Undone /\ undo' = {}
  /\ Report(turn, IF Stale THEN "stale" ELSE "taken") /\ main' = "waiting"
  /\ UNCHANGED <<doc, workerVars, turn, expect, attempt>>

(* Neither StaleRevision nor StateError: the artifacts stay.  So do the records *)
(* where it was write_views that failed, or write_state after its os.replace.   *)
WriteFails ==
  /\ CanFail /\ main = "writing" /\ Leave("main") /\ ~Stale
  /\ \/ UNCHANGED doc
     \/ ~Taken(turn) /\ doc' = Mutated
  /\ Escape(turn)
  /\ UNCHANGED <<files, workerVars, turn, expect, attempt, undo>>

(* The results are complete; or the pool has been waited for. *)
Return == /\ \/ main = "waiting" /\ main' = "over"
                /\ \A p \in Passes : result[p] # "none"
             \/ main = "escaping" /\ main' = "escaped"
                /\ \A p \in Admitted : pc[p] = "done"
          /\ UNCHANGED <<doc, files, window, seen, workerVars, turn, expect, attempt,
                         undo, result>>

Worker(p) == \/ Submit(p) \/ Door(p) \/ Dispatch(p) \/ Dispatched(p) \/ Enter(p)
             \/ Run(p) \/ Settle(p) \/ Finish(p) \/ Finished(p)

Main == \/ Start \/ Apply \/ Merge \/ Merged \/ Retry \/ Reread \/ GiveUp \/ WriteFails
        \/ Return \/ \E p \in Passes : Take(p)

Next == Main \/ \E p \in Passes : Worker(p)

(* Threads run; every session ends, by a deadline if need be (module Watchdog). *)
Spec == Init /\ [][Next]_vars
FairSpec == /\ Spec /\ WF_vars(Main) /\ \A p \in Passes : WF_vars(Worker(p))

-----------------------------------------------------------------------------
TypeOK ==
  /\ doc \in Docs /\ files \in [Files -> Passes \cup {Nobody}]
  /\ window \in Passes \cup {"main", Nobody}
  /\ seen \in [Passes \cup {"main"} -> Docs]
  /\ pc \in [Passes -> {"queued", "out", "starting", "storing", "recorded", "entered",
                        "ran", "settled", "closing", "done"}]
  /\ seed \in [Passes -> Seeds] /\ did \in [Passes -> Acts]
  /\ answer \in [Passes -> {"none", "raised", "exit", "nothing", "product"}]
  /\ main \in {"start", "refused", "waiting", "applying", "merging", "writing",
               "rereading", "escaping", "escaped", "over"}
  /\ turn \in Passes \cup {Nobody} /\ expect \in Nat /\ attempt \in 0..MERGE_ATTEMPTS
  /\ undo \subseteq Files
  /\ result \in [Passes -> {"none", "ceiling", "error", "nothing", "escaped", "merged",
                            "conflict", "stale", "taken"}]

(* Each write of state.json is made from the document the last one left: a     *)
(* finding or a closed envelope is never written over, and nobody closes the   *)
(* envelope of a pass that is still running.                                   *)
NothingOverwritten ==
  [][/\ doc.findings \subseteq doc'.findings /\ doc.queue \subseteq doc'.queue
     /\ \A p \in Passes :
          /\ doc.sessions[p] \notin {"none", "open"} => doc'.sessions[p] = doc.sessions[p]
          /\ doc.sessions[p] = "open" => doc'.sessions[p] # "none"
          /\ doc.sessions[p] = "open" /\ doc'.sessions[p] # "open" => pc[p] = "closing"]_vars

(* Two passes never meet on a finding id, whatever their sessions file: a     *)
(* merge is never refused because an id it brings is taken.                   *)
IdsNeverMeet ==
  main = "writing" => \A r \in New(turn), b \in seen["main"].findings : r.id # b.id

(* An artifact in the project belongs to a record: it is there only once the   *)
(* merge of its pass is in the document, or while it is being merged - unless  *)
(* a write failed and left run_passes as an exception.                         *)
Explained(p) == p \in doc.merges \/ (turn = p /\ main \in {"merging", "writing", "rereading"})
ArtifactsExplained ==
  \A f \in Files : files[f] # Nobody =>
     Explained(files[f]) \/ result[files[f]] = "escaped"

(* The fan-out keeps the promise of module Serial: whoever reads the audit     *)
(* sees the passes one after the other, each with all its records or none, and *)
(* with no artifact where it has no record.  What a merge has landed and may   *)
(* still take back counts as not there yet; where an exception ended the merge *)
(* before its records were in, it never will be.                               *)
InPlace == [f \in Files |-> IF f \in undo /\ turn \notin doc.merges
                            THEN seed[turn].files[f] ELSE files[f]]

OneByOne == INSTANCE Serial WITH
              Pass      <- Passes,
              Path      <- Files,
              Before    <- Base.findings,
              Queued    <- Base.queue,
              findings  <- doc.findings,
              queue     <- doc.queue,
              artifacts <- InPlace,
              sessions  <- doc.sessions,
              merged    <- doc.merges

ImplementsSerial == OneByOne!Spec

(* Not kept (parallel.py:766): a merge that did not land leaves no artifact   *)
(* behind, also when a write of the project failed.  Only a StateError takes  *)
(* back what was landed; an OSError, or the SystemExit of write_views, is not *)
(* one.                                                                       *)
MergeWhole ==
  \A f \in Files : files[f] # Nobody => Explained(files[f])

(* Not kept with more passes than workers (parallel.py:595): harvest refuses  *)
(* a pass for filing against another one only when it did.                    *)
RefusedForItsOwn ==
  \A p \in Passes : pc[p] = "settled" /\ answer[p] = "raised" =>
     did[p].wrong \/ did[p].ends = "material" \/ \E r \in Filed(p) : r.id \notin reserve_ids(p)

(* The fan-out ends: every pass is answered for, whatever the sessions do.     *)
FanOutEnds == <>(main \in {"refused", "over", "escaped"})
=============================================================================
