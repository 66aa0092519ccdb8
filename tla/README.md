# Verification of xcheck

xcheck runs an audit of a source tree as a sequence of sessions of coding agents.
Each session has a role (Planner, Auditor, Remediator, Verifier; triage is the
human's), works under a lock, and changes the audit's canonical state only
through write verbs. The specifications here model the parts of `xcheck/` whose
correctness depends on the order of steps, on failures, or on who may touch a file
meanwhile. Paths below are relative to `src/`, and a bare `x.py` is `src/xcheck/x.py`.

## The system

| Part | State it keeps | Operations | What makes it correct | Module |
|---|---|---|---|---|
| Event ledger (`ledger.py`) | `audit/events.jsonl`, its outbox | reserve, commit, replay, recover, status | a transition that landed is recorded once, while the commit window proves it; one that did not never | EventLedger, Journal |
| Write path (`write.py:_apply`, `state.py:write_state`, `views.py`) | `audit/state.json` with checkpoint and commit window; the views | load, mutate, reserve, replace, render, commit | the state replacement is the commit point; no checkpoint covers a loss | EventLedger |
| Writing lock (`runner.py:Lock`, `cli.py` cancel and unlock) | the directory `audit/.lock` | acquire, beat, release, remove, cancel | one writer begins at a time; a dead holder is replaceable, a live one is not | WritingLock |
| Verbs on findings (`write.py`, `util.py`) | `findings[]`, `class_findings[]` | set-status, record-fix, record-verdict, file-finding, record-refusal, block-on-norm, record-ruling | the verifier is not the fixer; classes and members agree; gates hold | Lifecycle, Vocabulary |
| Plan, queue and catalogs (`write.py`, `state.py:_validate`, `migrate.py`) | `queue[]`, `catalogs`, `plans[]`, `construals[]` | migrate, queue-pass, amend-pass, cancel-pass, update-catalog, propose and admit a construal | every write leaves a document that loads; what is certified or being worked on stands | Planning |
| Decision and cycle (`decision.py`, `cli.py`) | the queue, the live stops | decide, dispatch, finish, resolve-stop | `done` certifies; a gate is never run over and can be answered | Cycle |
| Session dispatch (`runner.py`) | a sandbox, a process group, deadlines | run, settle, quarantine, record, retry | work is preserved; the record is true; a retry repeats nothing | SessionDispatch, Watchdog |
| Courier (`courier.py`) | the git commits of a session | commit, hold, roll back | nothing git had named before is committed, no half move | Courier |
| Parallel passes (`parallel.py`, `agent_pass.py`) | workers, id blocks, the merge window | seed, store, harvest, merge | no lost update, no id twice, each pass whole or not at all | ParallelPasses, Serial |
| Loop and budgets (`cli.py:cmd_loop`, `budget.py`, `decision.py`) | none of its own: counted from the stream | admit, charge, embargo, stall | the payer's ceiling holds; nothing repeats for ever | AuditLoop |
| Metering (`provider.py`, `envelope.telemetry`) | a session's figure | read, bind, charge | a discount is a figure the provider reported | Metering |
| Policy (`policy.py`, `util.load_conf`) | the operator profile, the subject's conf | search, locate, merge, record | the subject sets no policy | Policy |
| Oracle (`oracle.py`, `run-oracle`) | runs on a finding | run, close, re-observe | a closure was earned | Oracle |
| Retention (`retention.py`) | log roots, the manifest | record, migrate, prune | logs are accounted for | Retention |
| Upgrade (`upgrade.py`, `install.sh`) | shipped files, `MANIFEST.sha256`, `.provenance.json` | plan, write, stamp | no edit is written over | Upgrade |
| Reconcile (`reconcile.py`) | a printed report | propose | advice stays takeable | Reconcile |
| Envelopes (`envelope.py`) | `sessions[]`, one open at a time | store, abandon, finish, emit | what a session wrote is bound to it | EventLedger, Lifecycle, Cycle, SessionDispatch |
| Capsule, scope, routing, egress, evidence, export, lint, reports | derived | pure functions and I/O | | not modelled |

How they interact: a verb acquires the lock, or proves by its nonce that its
parent holds it, replays the outbox, and writes state and stream in two phases.
`next` holds the lock over decision, dispatch and carry-back; it opens an envelope
through `envelope.store`, which is what a verb inside the session reads to know
its role. `runner.py` gives the session a tree, waits for it, and settles what it
did; the courier commits it. `loop` calls `next` again and again and counts
everything from the stream. Threads of a fan-out write the same state document.
`cancel`, `unlock`, `migrate`, `run-oracle`, `reconcile`, `upgrade` and the log
commands run beside all this, without the lock.

What is hard: a crash or a full disk between any two durable steps; appends that
fail half-way; check and act on the lock by path; an authorization read before the
lock; sessions that hang, die, or end unrecorded; operator's work in the same tree;
merges that lose a race; long orders of legal verbs; evidence, advice, digests and
profiles that are stale when they are used. `PROJECT.json` lists these hazards at
their lines, with the properties that cover each or the reason none does.

## The modules

### EventLedger, Journal

`EventLedger` has one action per durable step of the writer of the moment: the
replay of each row (present, held, discarded, appended), the pruning of the
outbox, `Reserve`, `WriteState`, `WriteViews`, `CommitAppend`, `CommitDrop`, the
observational `emit` and the envelope's `store`. `Crash` takes the writer away
between any two. Every fault is part of the specification, there are no switches: an
append may do all, nothing, all and raise, or part; whole lines may go from the end
of the stream behind the tool's back, and the operator may cut a partial last line.
`doc` is `state.json`: the revision, the checkpoint (`digest`, `anchorRev`)
and the commit window. A chain digest is taken as the prefix it hashes. Two bounds of
the promise show in definitions: a row is `Outrun` when as many later writes, verbs
and envelopes alike, have landed as the window holds, and `spoiled` remembers the
transitions of which a whole line was glued to a partial one or cut off.

`Journal` is the promise with no files in it: announce, land, record, withdraw, and
the other writes of the document, which count towards the window.
`ImplementsJournal` checks that the protocol implements it under the mapping
pending = rows of the outbox, applied = transitions that landed, recorded = events
of the stream. A `Withdraw` may drop only what is recorded, spoiled, overtaken by a
window of writes, or has not landed.

### WritingLock

One action per file operation on `audit/.lock`: mkdir, owner record (which may be
left half-written), heartbeat, and in the take-down heartbeat, cancel file, owner,
rmdir, each separately, for `release` and for `unlock` without `--force` alike.
`cancel` looks, creates the directory, writes its file. The processes in `Parents` run a
session child, which checks the nonce and writes in two steps; it is in a process group
of its own and goes on when its orchestrator is killed (`runner.py:1373`). `Unlockers`
may be any number of `unlock`s at once. Every step names the lock by its path, so a step
that was decided about an earlier directory may land in a later one: `about` is the
directory an actor made or read the heartbeat of, and `spoiled` the directories such a
late step has changed. `LeaseStops` is the clock. The code lets any holder
be reclaimed once its beat is older than `lease_ttl`; the model takes a process
that is alive to beat or to release in time, so the heartbeat goes stale only
after a kill. A holder that works longer than the ttl without a beat is outside it, and
so is an `unlock` that is itself killed half-way.

### Vocabulary, Lifecycle

`Vocabulary` has the tables of `util.py`: the statuses, the legal moves and who
owns a status. `Lifecycle` has the records of findings and class findings, with
one action per verb. `_apply` makes a verb atomic, its authorization is not part
of that: `run()` reads state before the lock is taken. `seen` holds every status
an authorization of the open session may have read; with `Overlapping` it grows
while the session runs, which stands for any number of calls that are authorized
early and applied late. The text fields, the evidence of a closing verdict and the
reason of a refusal are inputs that let a verb through.

### Cycle

Extends `Lifecycle` with the queue, the live stops, and the session process.
`Decision` is the code's list of branches in its order, filters included: a cascade of
`Or(kind, on, rest)`, each of which decides when its set is not empty, in the named
parts `Broken`, `Debt`, `Disputes`, `Work` and `Rest`. `Launch` opens the envelope
for the decided charter and abandons an open one. `Finish` closes it, with a stop
that counts only on a target of the charter; `Die` leaves it open. The operator
writes while no session runs, at a gate, or, with `Meddling`, at any time.
The incomplete plan and the construal gate are in `Planning`, the embargo, budgets
and retries in `AuditLoop` and `SessionDispatch`. A batch of findings is the whole
set the branch names. Session ids are reused once no fix under verification names
them; roles of sessions before the last one are not kept, so `Lifecycle`'s action
properties are checked in its own run.

### Watchdog, SessionDispatch

`Watchdog` is `run_child`: a child that prints nothing, an echo or something
useful, acts or does not, and the parent's poll with its four deadlines, the
session timeout, the cancel file and the broker. `SessionDispatch` is what goes
around it: the profile, the envelope, entering a sandbox (each part of which can
fail), `settle` with capture, quarantine, the read-back and the merge into the
project, the record, the courier and the retry policy. `box` holds the resources
that are alive, `landed` what is in the project, `kept` and `filed` what was set aside
and how much of it. `Sandbox.capture` does not ask whether its `git add` and `git diff`
succeeded (`runner.py:1799`): a patch may hold any part of what the session changed, an
empty one reads as "changed nothing", and what git failed to show is `hidden`.

### Courier

The operator edits and stages, a session is dispatched, writes, moves files and changes
the index, and `courier_commit` takes what became dirty: scratch outside `audit/` is held
back, both ends of a rename are held when one is, the rest is committed, refused, or
committed without being pushed. `dirty_paths` is what `git status --porcelain -z` says: a
path, or, of a directory in which the index (`tracked`) has nothing, the directory
alone, the highest of that kind (`Untracked`). Git's rename detection is external: it may
pair a path that appeared with any vanished one of the same content. The event stream is
no file here: `Lock.acquire` has written to it before the courier first looks, so it is
dirty before every session and never the courier's (`runner.py:319`, where `README.md:499`
says "The courier commits it, so the record survives a clone."). Definitions carry
the component's name (`CourierSpec`, `courierVars`) because `SessionDispatchProofs`
extends this module and `SessionDispatch` together. Commits a session makes itself and
contents staged apart from the working tree's are not modelled.

### ParallelPasses, Serial

The workers of `run_passes` seed a tree, open an envelope, work and close it; the
main thread harvests, applies artifacts, and merges with `MERGE_ATTEMPTS`.
A read-modify-write of the state document is two steps, with `util.serialized` as
the window around it where the code has one. What a session brings is a member of
`Menu`: ids in and beyond its block, another pass's ids, artifacts, queue entries.

Writes fail before or after `os.replace`: a store or a merge that raises may have
landed (`util.py:843`), and `write_views` runs after the document was replaced
(`write.py:408`) and may raise too (`views.py:148`). `WriteFails` is either; the merge it
ends leaves `run_passes` as an exception, with its artifacts and, in the second case,
its records in place. `doc.merges` stands for the merges among the document's
`ledger_commits`, so it says what landed whatever was reported. While a
merge is between the two writes, or after it failed there, the views are behind
(`ViewsBehind`) and the verbs of a session seeded then refuse. `git add -A` may stage a part
only, and `_staged_changes` does not notice (`Staged`).

`Serial` is the promise with no threads in it: a session opens and closes, and what a
pass found, queued and wrote arrives all at once after an envelope that says ok, or
never; taken in is what the document says (`doc.merges`), not what the caller was told.
`ImplementsSerial` maps the document and the artifacts to it. `InPlace` is the
artifacts as a reader may count on them: what a merge has landed and may still take
back is not there yet, and where an exception ended the merge before its records were
in, it never will be (see `MergeWhole` below: the bytes are left behind, the promise
does not cover them).

### AuditLoop

Every iteration decides, admits, dispatches one session with its retries or a
group of passes, and is charged. The stream is the only memory: the embargo, the
repeat limit and the spent tokens are counted from it, as in the code; a sum over it
is `Tally`, a recursive function of the position. The clock, the stall detector and
the session counter are the process's own and start again with it. The operator may
restart the loop, write, or take a triage decision.

### Planning

From the Markdown tree of an audit to its state document: `migrate` with its
refusals, then `write_state`, then the backup of the views, with a kill or a verb
between them; and the verbs on queue, catalogs and construals on the result, by
the operator, by a dispatched session within its role, and by a Planner whose
session began before the migration. `_validate` is the schema every write and
every load go through; `Document` and `Tree` are the shapes of what the two hold, and
`TreeAssumption` says what a tree can be. Parsing is abstracted to what each file
yields or refuses.

### Desk: Policy, Oracle, Retention, Upgrade, Reconcile, Metering

Six small components that share no state with each other. `Desk` composes them: a
behaviour picks one desk and stays there. `Nothing` declares the `None` they share.

- `Policy`: which of the flag, the variable and the fall-back names the profile,
  the location gate, the merge with the subject's configuration and ceilings, the
  refusal of a ceiling no command carries, the trust level, and the digest that is
  recorded a moment later. A session may write everything in the project.
- `Oracle`: a run takes its identity, clones, runs, records, while material and
  checker are edited; a closure rests on runs, or is by hand.
- `Retention`: log roots that may lead into the tree, the migration of logs file by
  file, the manifest, the prune in two phases, kills between any two.
- `Upgrade`: the plan, each file, the manifest, the provenance stamp, kills between
  them, edits at any time, and `install.sh`.
- `Reconcile`: the report is printed and typed later; findings move meanwhile.
- `Metering`: turns that complete, are cut short, are unbelievable or carry no counts;
  a `turn.completed` line the session writes to the CLI's stdout itself; figures it
  prints; sidecars of this and of other sessions; and the charge made of them. `heard` is
  the sum of the CLI's own lines, `blurred` says that the stream holds something else.
  The path of the sidecar is taken as the code gives it, told to nobody but the
  operator's command (`envelope.py:438`).

## The runs

Every property of a passing run has a mutant of the code in `PROJECT.json` that
TLC refutes under that run's configuration.

| Run | Bounds | What it shows |
|---|---|---|
| `ledger_faults` | 3 events, window 2, every fault, envelopes | the protocol invents and duplicates nothing, discards nothing that landed before it is outrun, takes no checkpoint over a lost history, implements `Journal`, and records in the end what landed |
| `ledger_unprovable` | as `ledger_faults` | ends in the violation described below |
| `lock_lease` | 3 processes, one of them with a session child, 2 unlocks, 1 cancel, 3 lock directories, kills | nobody begins to write beside a writer, live holders keep the lock, and a dead holder's lock becomes free, but for late steps |
| `lifecycle_verbs` | 1 finding, 2 classes, 3 sessions, limit 2, overlapping calls | independent verdicts, class links, norm gate, triage |
| `cycle_gates` | 1 finding, 1 class, 1 pass, 3 sessions, triage cap 2 | `done` certifies, dispatches have work, and a gate after a recorded session can be answered |
| `session_retry` | 4 profiles, deadlines 2 to 5 ticks, 1 retry | every deadline bites, the work git shows is preserved, records are true, retries repeat nothing, the dispatch ends |
| `courier_commit` | 4 files: two in one directory of `audit/`, one in the root, one in a directory of its own; 2 contents; 1 path of the operator's | the operator's work stays, a clean move is whole, but for untracked directories |
| `parallel_merge` | 3 passes, 2 workers, blocks of 1, 3 attempts, failures | no overwritten write, no id twice, no unexplained artifact after failures on either side of a write, the audit reads as if the passes had run one after the other, the fan-out ends |
| `loop_limits` | 2 passes, ceiling 8, reservation 2, 3 sessions a loop, 1 retry, 2 loops | the ceiling, the embargo and the stall stop hold |
| `planning_verbs` | 2 passes, 2 charters, 2 dimensions, 2 sessions, 4 verbs, 4 trees | removals stay readable, what is certified or worked on stands |
| `desk_all` | 2 machines, 2 materials and oracles, 2 logs, 2 files in 3 releases, 2 findings, 3 adapters | the six properties of the desks |
| `planning_reworded` | as `planning_verbs` | ends in the violation described below |

Why the bounds suffice. Three events with a window of two let a landed row be outrun by
two envelopes and then be held or discarded: the exceptions of `EventuallyRecorded`,
`DiscardsOnlyUncommitted` and `Journal` are met, and TLC refutes each property without
them. Three lock directories are one that is stranded, the one a second unlock's late
steps take from its holder, and the one a third process then makes: the exceptions of
`MutualExclusion` and `LiveHolderOwns` are met, and TLC refutes each property without
them. Two classes compete for one member; three sessions give a fixer, a verifier and a
third that tries to be either; limit 2 lets a finding be reopened below, at and above
it. The five deadlines are all different or meet on purpose, so each can be the first or
the second to pass. Four files are the origin and the destination of a move and a
bystander git may pair with either, and a directory under `audit/` and one outside it
that git can each come to name as a whole; the second file in the audit's is the
operator's where the session touches the first. Three passes over two workers seed a
tree both before and after another pass merged. In the loop two sessions of the dear
kind fill the ceiling but for less than one reservation, and two loops carry a count
over a restart. Four verbs are enough to fill, reword and empty a pass of a migrated
plan under a session. Three releases let an upgrade meet the remains of the one before.

Deadlock is checked in `courier_commit` and `session_retry`, which end in a state
that stutters. Elsewhere a bounded model stops when its events, locks, verbs or ids
are used up, and the code is allowed to wait for a human. The operator, an agent and
git are nondeterministic: they do what the code lets them.

### Fairness

- `EventLedger.FairSpec`: the writer takes its next step (weak), the operator runs
  recover on a pending outbox and cuts a partial last line (weak), an append that is
  tried again and again does not fail every time (strong, on replay's successful
  append), and crashes and people who shorten the stream come to an end. Without the
  strong one a disk that is full for ever refutes `EventuallyRecorded`, without the last
  a machine that always dies in replay does. A crash changes nothing
  but the program counter, so some steps of a living writer (a prune whose rewrite
  failed, a verb that is refused) are crashes to look at. Only a crash that is no step
  of the writer's is ruled out in the end; `<>[][~Crash]_vars` would forbid those
  steps too, and with them every cycle of recover that has nothing to settle.
- `WritingLock.FairSpec`: a running process goes on, its child ends (a deadline ends it
  if need be), the clock goes on, and the operator runs `unlock`; release is strongly
  fair because a session may begin and end any number of times.
- `SessionDispatch.Spec`: the orchestrator goes on (weak) and polls (weak). Nothing
  is assumed of the child: it may do nothing for ever.
- `ParallelPasses.FairSpec`: the main thread and each worker thread go on (weak): a
  blocking wait for the window is not enabled, and a window is given back.

## Where the code and its documents disagree

Two are violation runs:

- `ledger_unprovable`: a transition lands and its process dies before the append; two
  envelopes are stored, and its transaction leaves the window. `ledger.uncommitted` then
  compares the row's revision with the revision of the checkpoint, which no envelope
  moves (`ledger.py:453`), takes the row for one the window would still name, and
  answers "did not happen": replay drops the row of a change that is in the document.
  `ledger.py:432` says "it is held, reported, and left for a human or a later run".
  Every dispatched session stores two envelopes; it takes `COMMIT_WINDOW` (64) writes
  with no successful replay between them. What the code keeps is
  `DiscardsOnlyUncommitted`: nothing is dropped before as many writes have come after
  it.
- `planning_reworded`: the construal key of an Auditor is over the pass id, not over
  the text of the pass (`decision.py:316`), so `amend-pass` leaves an admitted construal
  in force for the new wording. `xcheck/util.py:761`: "a construal admitted for one
  reading must not silently license another".

The modules contain the behaviour of the code, never of the document, and state the
document's sentence as a definition marked "Not kept" where it can be said of one
module. These definitions are in no run; TLC refutes each of them when it is added
to the configuration of the run named here.

| Statement | Add to | What the code does | What is said |
|---|---|---|---|
| `FlagClearedByRetake` | `lifecycle_verbs` | a census drops a needs-human flag and keeps the count (`write.py:1194`) | `write.py:761` |
| `StopsAtTheLimit` | `cycle_gates` | the cycle stops one reopened verdict before the limit (`decision.py:587`) | `README.md:83` |
| `GateAnswerable` | `cycle_gates` | an unrecorded session keeps its envelope open, and the operator's verbs are refused as that session's (`write.py:648`) | `write.py:632` |
| `QuietWorkerSpared` | `session_retry` | `session_moved` reads the project's stream while the isolated child writes the worktree's | `README.md:426` |
| `MoveKept` | `courier_commit` | git pairs the origin with a copy the operator left, so the destination is held and the deletion committed (`courier.py:312`) | `courier.py:293` |
| `MergeWhole` | `parallel_merge` | only a StateError takes back what was landed; the OSError of a write and the SystemExit of `write_views` are none, and leave artifacts behind | the comment at `parallel.py:766` |
| `RefusedForItsOwn` | `parallel_merge` | a pass whose tree was seeded after another merged is refused for that one's findings (`parallel.py:595`) | `parallel.py:737` "all computed against state revision" |
| `WithinBudget` | `loop_limits` | retries and groups run past `--budget` | `README.md:384` |
| `HeldNotDispatched` | `loop_limits` | a group dispatches a held charter: its sessions' charter hash is of another text (`cli.py:583`) | `README.md:437` |
| `PassCeilingHolds` | `loop_limits` | a group ignores `tokens_per_pass` | `README.md:418` |
| `UndoRestores` | `planning_verbs` | a kill or a verb between `write_state` and the backup loses the bytes from before the migration (`migrate.py:605`) | `migrate.py:616` |
| `AdviceIsCurrent`, `TwinNotHidden` | `desk_all` | an old report's command settles a later dispute; a withdrawn or obsolete twin hides a finding (`reconcile.py:78`) | `reconcile.py:134` |
| `UnmeasuredIsNotZero` | `desk_all` | a `turn.completed` whose usage has no counts is a turn of 0 tokens, and its session a measured one (`provider.py:280`) | `provider.py:257` "NOT MEASURED, never zero" |
| `ChargeCoversSpend` | `desk_all` | a stream that ends inside a turn is charged for the turns before it | `budget.py:311` |

Others are exceptions that a property names, or were met while the modules were written.

Ledger and lock:

- A partial append to the outbox is joined by the next row, and both are lost
  (`ledger.py:132`; `ledger.py:17` says "A full disk during an append still does not
  lose the work"). These are the `spoiled` transitions of `Accounted` and `Journal`.
- Two unlocks that read one dead heartbeat: the second deletes the lock that was made in
  between (`cli.py:1162`; `README.md:503` "A lock with a live heartbeat is never reclaimed
  that way."), and from then on two processes may write. These are the `spoiled` locks of
  `MutualExclusion`, `LiveHolderOwns`, `NoOrphan` and `LeaseReclaimed`.
- The child of a killed orchestrator leads its own process group and survives; once
  past `held_lock` it writes next to a new holder, where `README.md:503` says one
  writing session runs at a time. `MutualExclusion` exempts that one write: a child begins
  no other, because its nonce is no longer the owner's.
- `cancel` during a release (`runner.py:359`) creates the directory again, or fills it
  after the lease files were cleared, "exactly the wedge the lease exists to prevent"
  (`runner.py:369`).
- A landed row whose append keeps failing while `COMMIT_WINDOW` (64) later verbs land, and
  no envelope, is held for ever. `ledger.py:519` leaves it "in the outbox for a run that can
  decide", but the window only moves on, so no later run can (`HeldRowsStayHeld`), and
  `ledger.py:483` ("a stream that lost an append heals on the next verb") does not hold
  of it. Hence the exception in `EventuallyRecorded`.
- Replay over a short stream may append rows that are not the missing ones
  (`ledger.py:999`, `:990`). The checkpoint of a transition is taken before its event is
  appended, so the last events can be lost from a stream that status calls "a complete
  record" (`ledger.py:963`).

Verbs and plan:

- An Auditor's class finding moves its members to `superseded-by-class`
  (`write.py:539`), where `XCHECK.md:324` says "One status, one owner". `set-status`
  returns a member to accepted whatever became of its class (`util.py:183`;
  `XCHECK.md:321`). A class can end obsolete or withdrawn (`util.py:177`;
  `XCHECK.md:332`). `record-ruling` takes any text and lifts the gate (`write.py:1294`;
  `XCHECK.md:341`).
- `class_threshold` may be 1, which `_set_limit` itself calls raising every finding to a
  class (`state.py:104`, `write.py:1453`).
- A construal session may propose under one `--session` and admit under another
  `--admitter` (`README.md:582`). A group of parallel passes goes past the construal gate.
- A Planner whose session outlives the migration has no envelope in the new document,
  so its verbs count as the operator's. A Planner dispatched after migration has no
  verb that completes the plan (`XCHECK.md:210`). The first unit or dimension cannot be
  added to an empty catalog when records already name others; `queue-pass` takes a
  pass without units, which the schema then refuses.
- `record-coverage` and construal proposals are not bound to the session's own pass.

Sessions:

- A `git add` or `git diff` that fails in `Sandbox.capture` (`runner.py:1799`) gives an
  empty or a short patch, and nobody asks for the exit status. The work of the session is
  then neither applied nor set aside, under a record that may say `ok`; `README.md:472`
  promises that it is. It is what `WorkPreserved` and `RecordIsTrue` call `hidden`.
- `finish_session` absorbs a RouteError (`runner.py:2688`): the record then says `refused`
  where the outcome that the retry policy reads is still the one `settle` found.
- An untracked directory is one path of `git status` (`courier.py:34`). Where the session
  takes the last tracked file of a directory of `audit/` out of the index, or stages one
  in a directory that had none, the operator's untracked files in it are swept into the
  commit (`README.md:507`). A file moved into a new directory outside `audit/` is held back
  as `dir/`, which no rename names, and its deletion is committed alone
  (`courier.py:293`, "no operation is ever committed half"). `OperatorWorkStays` and
  `MoveKeptClean` say so (`Untracked`, `Swallowed`).
- A failure of `write_views`, or of the directory's fsync after `os.replace`
  (`write.py:408`, `views.py:148`, `util.py:843`), comes when the merge has landed: the
  findings of a pass are in the audit although its fan-out ended with an exception. Until
  `render-views` the views are behind, and every verb refuses, those of sessions seeded
  then too. A store that fails there leaves a session recorded as `ok` whose product is
  never merged.
- `_staged_changes` ignores the exit status of `git add -A` (`parallel.py:455`): findings
  may be merged without the artifacts they speak of, and the guard of the material sees
  only what was staged.
- `runner.py:3112` hands the courier a set where it expects a commit, so the check of
  the event prefix never refuses the rewrite of an unsandboxed session (`README.md:507`).
- The retry probe and the courier do not see writes to a path that was dirty already.
- A killed child that exits with 0 is recorded as such. `kill_group` returns when the
  leader is gone. A sandbox that cannot be entered for a missing HEAD leaks its broker.
- `except Exception` in a worker (`parallel.py:749`) lets `SystemExit` through. The comment
  on `MERGE_ATTEMPTS` (`parallel.py:42`) counts merges only, the envelopes move the
  revision too.
- Sessions of a group are recorded under another charter hash than single sessions of
  the same pass, so `charter_repeat_limit` and attribution do not count them.

Around the sessions:

- `budget.py:313` says a figure the subject printed never lowers the charge. A line the
  session writes to the CLI's stdout can (`envelope.py:566` and
  `docs/codex-provider.md:105` name the way): one of 0 tokens in a session whose only turn
  was cut short makes it a measured one, and an impossible one spoils a sum that was above
  the reservation. What is kept is that a charge below the reservation is not below what the
  CLI's own lines say (`DiscountIsVouched`).
- `run-oracle` reads identity and digest before it clones and takes no lock
  (`cli.py:1059`). "On material NEWER than the closure's" (`oracle.py:20`) is satisfied by
  any other snapshot and any oracle digest.
- A profile named by `--policy` that disappears during a loop is replaced by the
  fall-back profile; `cli.py:1970` calls that "the failure mode this flag exists to
  remove". The digest recorded a moment after the dispatch can then be another
  profile's (`policy.py:546`).
- A kill between a log's move and its row leaves a log that reads as missing although
  its bytes are in the root (`retention.py:472`). Prune receipts are buffered until the
  manifest is closed.
- `_write_manifest` records the digest of the file as found, so an edit made between
  plan and manifest is taken for xcheck's own, and the next upgrade overwrites it
  (`upgrade.py:135`). After a schema bump `upgrade` asks for `xcheck migrate`, which
  refuses where a state document exists; only `install.sh` leads out.
- `reconcile.py` calls "verified" and "superseded" terminal, which are no statuses, and
  proposes to accept members a class has absorbed.

## What is proved

The proofs hold for every value of the constants under the modules' own
assumptions (`ASSUME`), checked with tlapm. No theorem assumes the absence of a fault;
where the code does not keep something, the statement names the exception.

`EventLedgerProofs` has four invariants, none of which restricts a fault; the second
and the third contain or assume the first, the last contains the third:

- `IInv`. `TypeCorrect` is inductive by itself with the window at least two.
  `NoPhantomEvents` needs to know why replay may trust the window: everything in
  `doc.commits` is the id of an event that landed, ids are handed out once and grow,
  and the row in the outbox, the event in flight and the landed event of one id are
  one event. `ReplayIdempotent` adds that an event in flight between its state write
  and its append is not in the stream yet.
- `AnchorCovered`: from the moment a verb has looked at the stream until it replaces
  the document, what the old checkpoint covers is a prefix of what the new one is
  taken over. Hence `CheckpointsGrow`.
- `WindowInv`: the window holds the newest writes, verbs and envelopes, each in the place
  its revision says (`WindowExact`), and one that is not full holds them all (`Filling`).
  So a write that is not in the window has been outrun. Hence `DiscardedNeverLanded` and
  `HeldRowsAreOutrun`; and `HeldRowsStayHeld`, because neither the window nor the
  checkpoint's revision goes back.
- `JournalInv`: what replay has settled is in the stream, never happened, is outrun or
  spoiled (`Settled`), the stream holds the known event of an id and no other (`Named`),
  and `Accounted` itself. Hence `NothingUnaccounted`, and
  `LedgerKeepsPromise`: each action of the protocol is a step of `Journal` or leaves
  its variables alone. From
  `Journal` alone follows what a reader of the audit relies on (`LedgerIsFaithful`). No run
  checks `Accounted` beside `ImplementsJournal`, which implies it. The safety half of
  `EventuallyRecorded` is `LandedRowsWaitProved`: a landed transition that is not in the
  stream waits in the outbox, proved, until it is outrun or spoiled.

`WritingLockProofs` is for any number of processes, parents, unlocks and cancels. The
invariant `Safe` says that, unless a late step got at the directory (`spoiled`), a process
between mkdir and rmdir is the only one there and its owner record is there with it, and
that whoever takes a directory down read the heartbeat of this one after its holder was
gone. `OneWriter` then follows step by step: who begins to write has the owner record,
which no other holder or child can have at that moment. `HolderKeepsLock` is a part of the
invariant; `NoOrphanLock` adds that somebody handles a directory without an owner. The
safety half of `LeaseReclaimed` is about a lock that is `Stranded`:
nobody who could give it back is left. A killed holder's lock is stranded unless a
cancel is in it or a late step was (`KilledHoldersLockIsStranded`); `ToFree` counts the
steps to a free directory, and no step of anybody makes it more (`StrandedLocksComeDown`);
and there is always a step of the clock or of an unlocker that makes it less
(`StrandedLocksCanComeDown`).

`LifecycleProofs`. The invariant is `TypeOK` with five parts: members and classes point
at each other (`Linked`), the reopen count stays within the limit and one while the flag
says so (`Counted`), the norm gate (`Gated`), a fix under verification is signed by a
Remediator's session or an unrecorded one (`Signed`), and whatever an authorization may
have seen was possible for the record (`Seated`). From it `LifecycleTypes`,
`ClassesLinked`, `GateHolds`, and the action properties `Independence` and
`TriageStaysInItsLane`. The cycle above the verbs has an invariant of its own, `CInv`: a
record that is flagged is reopened, and one that is blocked waits for its ruling. The
gates ask only in those states, so without it a flagged or blocked record could pass
them and be dispatched to a Remediator whose verbs are refused on it; this is
`RecordIsSound`, `[]CInv`. `ChartersHaveWork` shows a verb for what each branch selects;
`DoneMeansDone` follows the cascade down to the branch that says done, every branch
above it being empty. `EveryGateHasAWayOut` is `HasWayOut` without `ENABLED`:
`AnswerStep` writes the operator's answer to each gate as functions of the state, so it
can be taken anywhere, and wherever the cycle stands at a gate with no open envelope
that step is a verb on what the gate names, the cycle allows it, and the decision after
it is another.

`SessionDispatchProofs`, for two components:

- `WatchInv`: the child that runs is the session's, and no clock of it is past its
  deadline. Hence `DispatchTypes` and `DeadlinesBite`, for any four deadlines.
- `WorkKept`: an isolated session has its tree until the sandbox is left, and once it
  is judged what git shows of its product is merged, set aside, or it was cancelled; hence
  `WorkIsPreserved`. `RecordHolds` follows record and project from the envelope to
  the end: nothing is in the project before `settle`, then all or nothing by the
  outcome, and the record says `ok` only where all of it is; hence `RecordsAreTrue`.
  `RetriesRepeatNothing` is an action property that needs no invariant.
- `StepsLeft` counts what is left of a dispatch: the sessions it may still start, the
  stages of this one, and the ticks to its timeout. It is bounded
  (`DispatchIsBounded`), every step of the parent lowers it and no step of the child
  raises it (`EveryStepCounts`), and until the dispatch is over the parent has a step
  (`ParentHasAStep`, the step written out as `GivesUp`).
- `CourierInv`: the trees and the index; the baseline of a session is the paths HEAD has;
  and of a directory that was named before the session, what HEAD had was named too.
  Hence `OperatorsWorkStays` and `MovesAreKept`, for any pairing git may make and any
  directories in which paths form a tree (`ChainAssumption`) and no two have the same
  paths (`DirAssumption`).

`ParallelPassesProofs`. `Typed` (what is merged is a product, harvested once) carries
the rest. `Guarded`: whoever holds the window began from the document as it still is,
the envelope of a pass says where the pass is, and a pass the document has merged was
reported so or ended the fan-out (`MergesReported`); hence `NothingIsOverwritten`.
`IdsAccounted`: every finding was there before the fan-out or is of the block of a
pass that has merged, and blocks are apart; hence `IdsAreApart`. `LandedKnown`: between
landing its artifacts and recording them a merge knows which it landed, and what it
would put back belongs to a merge that is recorded; hence `ArtifactsAreExplained`.
`Told` adds to these that the product a future holds is of a session recorded as ok
(`ProductRecorded`), and that what a merge may take back is what it landed itself over
what its session had been seeded with (`HalfLanded`). With it every step is a step of
`Serial` or invisible there (`FanOutReadsSerially`), and from `Serial` alone, what is in
the audit is of a pass that was taken in whole (`AuditIsWhole`). The end of a fan-out:
every step of a thread takes a worker to a later stage, answers for a pass, or raises
`MainRank` of the pass whose turn it is, and none takes any of these back
(`FanOutGoesOn`); `MERGE_ATTEMPTS` bounds `MainRank` (`MergesAreBounded`); until
`run_passes` is over some thread waits for nobody (`NobodyWaitsForEver`), because
whoever holds the window is in a step that gives it back; and that thread's next step,
written out, is a step of the fan-out (`WhoCanGoOnDoes`).

`PlanningProofs`. What is on disk passed `_validate` when it was written, and a
session on a pass has an envelope and is an Auditor's. Hence `DocumentsValidate`,
`RemovalsRead` and the action property `PassesStand`. The proof is by verb: each
either leaves the document or replaces it by one that was validated.

`AuditLoopProofs`. The invariant has four parts on top of the types:

- `Placed`: where in loops and turns a session of the stream belongs.
- `Covered`: what is counted of the last batch is never more than its reservation,
  and the sum of that and of all charges before is within the ceiling. The ceiling
  alone is not inductive, because a session's charge may rise when it ends; hence
  `CeilingIsKept`.
- `Held`: the keys in the stream are old, and what a pass was sold under its present
  key is within the limit and the attempts of the dispatch under way; hence
  `EmbargoIsKept`.
- `Counted`: the stall counter is at least the length of every run of like turns that
  moved nothing; hence `StallsStop`.

The sums are over a sequence of any length. Lemmas about `Tally` (that it is
monotone, that it depends on the prefix, that it is bounded term by term) are proved
by the least position at which they would fail, `LeastOf`.

`DeskProofs` has a section for each of six desks, which begins with the fact that
a step of `Desk` is a step of this desk or leaves its variables alone.

- Policy: what lies outside the project is the operator's (`OutsideIsOperators`),
  because a session reaches only paths that lead into it; a session's terms come from
  a believed profile, and the cache holds the bytes its dispatch parsed
  (`SessionBound`). Hence `SubjectNeverSetsPolicy` and `DigestIsOfTheBytes`.
- Oracle: a finished run says what its checker says of its material (`RunsHonest`),
  unless an edit raced it; a closure by oracle names two such runs. Hence
  `ClosuresEarned`.
- Upgrade: a digest in the manifest is of something shipped, or of a file that was
  touched under an upgrade (`SumsShipped`), and the row of a plan still describes its
  file (`RowsTrue`). Hence `NoEditOverwritten`, and `StampIsTrue`, a stronger reading
  of the provenance stamp.
- Reconcile: a printed command's finding is still where the report saw it, or has
  moved on, and twins were filed in order (`FiledInOrder`, `PrintedHolds`). Hence
  `AdviceIsSound`.
- Metering: every figure with the provider's name on it, in the stream, the sidecar
  and the account, is one the provider vouched for; of a stream with other lines in it
  (`blurred`) it is no less than the CLI's own lines (`StreamVouched`). Hence
  `DiscountVouched`.
- Retention: a log nobody got at is where its last row says, with the bytes the row
  says, or it is in the hands of the command under way (`Held`); what a receipt names is
  on no disk (`GoneForGood`), which needs that a log is in one place (`OneHome`); and no
  log is in a root a session could reach (`RootApart`). Hence `LogsAreAccountedFor`. Rows
  of the manifest are named by position, so that `Min`, `Max` and what an append does to
  the last row of a log can be proved (`LeastOf`, `ManifestGrows`).

Only model-checked:

- `EventuallyRecorded`, `LeaseReclaimed`, `DispatchEnds` and `FanOutEnds`: liveness under
  fairness is outside the prover's reach. For the last three what is proved above is
  all but the fairness rule itself: a measure that is bounded and never goes back, and
  a step that moves it. For the first it is the state the appends are tried in.
- `HasWayOut` as it is checked is about `ENABLED`; the step it promises is in
  `EveryGateHasAWayOut`.

No module declares a `RECURSIVE` operator. The library's induction theorems take an
operator as a parameter, so what a recursive function computes is proved only as far
as an argument by the least counterexample goes, which is how `Tally` is treated.

## Not modelled

- Pure functions over a tree or a document, which have no order of steps to go wrong:
  capsule, preprocess, scope, the class census, lint, routing, evidence bundles, the
  knowledge export, doctor, dashboard, benchmark, the reports of `status` and `metrics`.
- Containers, capability tiers, host limits and the egress broker: what they do is the
  operating system's; that they may fail to start or die is in `SessionDispatch`.
- The Markdown and configuration parsers, the types of single fields, prompts and
  messages. Where a parser can refuse, it may refuse in the model.
- A second verb at once under one inherited nonce (`write.py:492`): each loads the same
  revision and the later write wins. `Lifecycle` and `EventLedger` take one verb at a
  time.
- `unlock --force`, legacy lock files, relabel; Ctrl-C; the chain format of the stream;
  damage to the log manifest itself; quota windows and cost estimates; `set-limit`;
  `reconcile`'s pass report.
- `selftest.py` and `tests/` are test code.

Hazards known and covered by no property, besides those in `PROJECT.json`: an event
emitted without the lock reads the chain head another is appending to
(`envelope.py:787`, `:840`, `:892`); `recover` reads the anchor before it takes the lock
(`cli.py:782`) and `render-views` takes none (`cli.py:1234`); the lease is not renewed
outside a child's run (`runner.py:1408`); `unlock --force` may be followed by a holder's
unlink of another's lock (`runner.py:424`).

## Plan

Done: the modules above, the proofs of every safety property and both refinements the
runs check, and the safety half of each liveness property. Next, in this order:

1. `SharedWrites`: two verbs under one nonce, events emitted without the lock,
   `render-views` and `recover` next to a verb; `set-limit` with it. Its invariant is the
   one `EventLedger` gets from the lock: whoever writes has read the last revision.
2. Commits that a session makes itself, and contents staged apart from the working tree's,
   in `Courier`; an `unlock` that is killed, in `WritingLock`.
3. `Serial` with the artifacts an exception leaves behind: what a reader may still
   count on after a write of the project failed in the middle of a merge.
