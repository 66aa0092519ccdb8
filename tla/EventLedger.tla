---------------------------- MODULE EventLedger ----------------------------
(***************************************************************************)
(* The durable event stream of an audit and the canonical state document   *)
(* it accounts for: xcheck/ledger.py, the one write path write._apply, the *)
(* orchestrator's envelope.store and the observational envelope.emit.      *)
(*                                                                         *)
(* A transition is one unit with two phases.  RESERVE makes its event      *)
(* durable in an outbox, then the state document is replaced, then COMMIT  *)
(* appends the event to the stream and drops the outbox row.  A process    *)
(* can die, and a disk can refuse, between any two of those steps; replay  *)
(* finishes or discards what was left.                                     *)
(*                                                                         *)
(* Writers are serialised (audit/.lock between processes, MERGE_LOCK       *)
(* between threads), so one program counter pc stands for the writer of    *)
(* the moment.  Each action is one durable step of it.                     *)
(*                                                                         *)
(* Abstractions: a chain digest is the prefix it is taken over (SHA-256    *)
(* taken as injective), so an anchor holds that prefix; an event is its    *)
(* identity, kind and the state revision it names; a transaction has the   *)
(* identity of the event reserved for it.                                  *)
(***************************************************************************)
EXTENDS Integers, Sequences, FiniteSets
LOCAL INSTANCE SequencesExt

CONSTANTS
  CommitWindow, \* COMMIT_WINDOW: how many committed transactions are remembered
  MaxEvents     \* bound: how many events are ever minted

ASSUME WindowAssumption == CommitWindow \in Nat \ {0, 1}
ASSUME BoundAssumption  == MaxEvents \in Nat

VARIABLES
  stream,     \* audit/events.jsonl, the lines in file order
  streamTorn, \* does it end in a partial line?
  outbox,     \* the readable rows of audit/events.outbox.jsonl; ids are file order
  outboxTorn, \* does it end in a partial line that the next append is glued to?
  doc,        \* audit/state.json
  views,      \* the transition the generated Markdown views were rendered from
  pc,         \* where the writer is
  mode,       \* who asked for a replay: a write verb or xcheck recover --apply
  cur,        \* the event in flight
  snap,       \* ledger.snapshot(): the stream when the anchor was taken
  cursor,     \* the last outbox row replay looked at
  done,       \* the rows replay has settled and will drop
  nextId,     \* the next event identity
  committed,  \* history: the events whose state write landed
  discarded,  \* history: the identities replay dropped as never committed
  spoiled     \* history: the transitions of which a whole line was destroyed:
              \* it was appended to a partial one, or cut off behind the tool

ioVars    == <<stream, streamTorn, outbox, outboxTorn>>
docVars   == <<doc, views, committed>>
localVars == <<mode, cur, snap, cursor, done>>
vars == <<stream, streamTorn, outbox, outboxTorn, doc, views, pc, mode, cur,
          snap, cursor, done, nextId, committed, discarded, spoiled>>

Kinds == {"transition", "session", "plain"}
Event == [id : Nat, kind : Kinds, rev : Nat]
NoEvent == [id |-> 0, kind |-> "plain", rev |-> 0]

EventOf(kind, rev) == [id |-> nextId, kind |-> kind, rev |-> rev]

(* Only a plain event belongs to no state write: its outbox row has no txn. *)
HasTxn(e) == e.kind # "plain"

IdsOf(s) == {s[i].id : i \in DOMAIN s}
(* Mutant: only what the checkpoint covers is looked up. *)
InCheckpoint(id) == id \in IdsOf(doc.digest)
InStream(id) == id \in IdsOf(stream)

(***************************************************************************)
(* What an append to a file may have done when it returns or raises: all   *)
(* of the line and fsync; nothing; all of the line although fsync raised;  *)
(* part of the line.                                                       *)
(***************************************************************************)
Outcomes == {"ok", "fail", "unsure", "torn"}
Wrote(o) == o \in {"ok", "unsure"}

(* A line appended after a partial one joins it and parses as neither. *)
AppendStream(e, o) ==
  /\ stream' = IF Wrote(o) /\ ~streamTorn THEN Append(stream, e) ELSE stream
  /\ streamTorn' = (streamTorn \/ o = "torn")

AppendOutbox(e, o) ==
  /\ outbox' = IF Wrote(o) /\ ~outboxTorn THEN outbox \cup {e} ELSE outbox
  /\ outboxTorn' = \/ o = "torn"
                   \/ o = "fail" /\ outboxTorn

(* History: the whole line of a transition joined a partial one. *)
Transitions(S) == {e \in S : e.kind = "transition"}
Spoils(e, torn, o) ==
  spoiled' = spoiled \cup (IF Wrote(o) /\ torn THEN Transitions({e}) ELSE {})

(* _drop rewrites the file from its readable rows, or fails and leaves it. *)
(* Mutant: the file is removed whatever else it holds. *)
DropAllRows(ids) ==
  \/ /\ ids # {} /\ outbox' = {}
     /\ outboxTorn' = FALSE
  \/ UNCHANGED <<outbox, outboxTorn>>

DropRows(ids) ==
  \/ /\ outbox' = {r \in outbox : r.id \notin ids}
     /\ outboxTorn' = FALSE
  \/ UNCHANGED <<outbox, outboxTorn>>

-----------------------------------------------------------------------------
(* ledger.status and the table FORBIDS. *)

IsShort    == doc.anchored /\ Len(stream) < Len(doc.digest)
IsReplaced == /\ doc.anchored
              /\ ~IsShort
              /\ ~IsPrefix(doc.digest, stream)

(* validate: every line is an event and its link holds; no line is edited here. *)
Valid == ~streamTorn

LedgerState == CASE ~Valid -> "unreadable"
                 [] Valid /\ IsShort -> "short"
                 [] Valid /\ IsReplaced -> "replaced"
                 [] OTHER -> "intact"

(* Mutant: a missing tail is taken for a stream one may write over. *)
AllowsShort(action) == LedgerState \in {"intact", "short"}

Allows(action) == \/ LedgerState = "intact"
                  \/ LedgerState = "short" /\ action = "replay"

-----------------------------------------------------------------------------
(* ledger.committed_revision, committed_txns and uncommitted. *)

CommittedRevision == IF doc.anchored THEN doc.anchorRev ELSE doc.rev
Commits == {doc.commits[i] : i \in DOMAIN doc.commits}

(* Mutant: the rule used before transactions had an identity. *)
ProvedByRevision(r) == HasTxn(r) => r.rev <= CommittedRevision
Proved(r) == HasTxn(r) => r.id \in Commits

Held(r)   == /\ ~Proved(r)
             /\ Commits # {}
             /\ r.rev <= CommittedRevision - Len(doc.commits)

(* write_state: the revision and the transaction id land in one os.replace. *)
Remember(t) == Append(IF Len(doc.commits) < CommitWindow
                      THEN doc.commits ELSE Tail(doc.commits), t)

-----------------------------------------------------------------------------
Init ==
  /\ stream = <<>> /\ streamTorn = FALSE
  /\ outbox = {}   /\ outboxTorn = FALSE
  /\ doc = [rev |-> 0, last |-> 0, anchored |-> FALSE, digest |-> <<>>,
            anchorRev |-> 0, commits |-> <<>>]
  /\ views = 0
  /\ pc = "idle" /\ mode = "verb" /\ cur = NoEvent /\ snap = <<>>
  /\ cursor = 0 /\ done = {}
  /\ nextId = 1
  /\ committed = {} /\ discarded = {} /\ spoiled = {}

(***************************************************************************)
(* A write verb, or recover --apply, starts.  An empty outbox has nothing  *)
(* to replay; a verb goes on to read the state, recover does nothing.      *)
(***************************************************************************)
BeginVerb ==
  /\ pc = "idle"
  /\ Allows("write")
  /\ pc' = IF outbox = {} THEN "load" ELSE "replay"
  /\ mode' = "verb"
  /\ cursor' = 0 /\ done' = {}
  /\ UNCHANGED <<ioVars, docVars, cur, snap, nextId, discarded, spoiled>>

(* recover_report never appends to a stream that is unreadable or replaced. *)
recover_report == Allows("replay")

BeginRecover ==
  /\ pc = "idle"
  /\ outbox # {}
  /\ recover_report
  /\ pc' = "replay"
  /\ mode' = "recover"
  /\ cursor' = 0 /\ done' = {}
  /\ UNCHANGED <<ioVars, docVars, cur, snap, nextId, discarded, spoiled>>

(* replay looks at the rows in file order. *)
NextRow(r) == /\ pc = "replay"
              /\ r \in outbox
              /\ r.id > cursor
              /\ \A q \in outbox : q.id > cursor => r.id <= q.id

ReplayPresent(r) ==
  /\ NextRow(r)
  /\ InStream(r.id)
  /\ cursor' = r.id
  /\ done' = done \cup {r.id}
  /\ UNCHANGED <<ioVars, docVars, pc, mode, cur, snap, nextId, discarded, spoiled>>

ReplayHold(r) ==
  /\ NextRow(r)
  /\ ~InStream(r.id)
  /\ Held(r)
  /\ cursor' = r.id
  /\ UNCHANGED <<ioVars, docVars, pc, mode, cur, snap, done, nextId, discarded, spoiled>>

ReplayDiscard(r) ==
  /\ NextRow(r)
  /\ ~InStream(r.id)
  /\ ~Proved(r) /\ ~Held(r)
  /\ cursor' = r.id
  /\ done' = done \cup {r.id}
  /\ discarded' = discarded \cup {r.id}
  /\ UNCHANGED <<ioVars, docVars, pc, mode, cur, snap, nextId, spoiled>>

(* Mutant: the row is settled although its append raised. *)
ReplayAppendSettled(r) ==
  /\ NextRow(r)
  /\ ~InStream(r.id)
  /\ Proved(r)
  /\ \E o \in Outcomes : AppendStream(r, o) /\ Spoils(r, streamTorn, o)
  /\ cursor' = r.id
  /\ done' = done \cup {r.id}
  /\ UNCHANGED <<outbox, outboxTorn, docVars, pc, mode, cur, snap, nextId, discarded>>

ReplayAppend(r) ==
  /\ NextRow(r)
  /\ ~InStream(r.id)
  /\ Proved(r)
  /\ \E o \in Outcomes :
       /\ AppendStream(r, o) /\ Spoils(r, streamTorn, o)
       /\ IF o = "ok" THEN /\ cursor' = r.id
                           /\ done' = done \cup {r.id}
                           /\ pc' = pc
                      ELSE /\ pc' = "prune"
                           /\ UNCHANGED <<cursor, done>>
  /\ UNCHANGED <<outbox, outboxTorn, docVars, mode, cur, snap, nextId, discarded>>

ReplayEnd ==
  /\ pc = "replay"
  /\ \A r \in outbox : r.id <= cursor
  /\ pc' = "prune"
  /\ UNCHANGED <<ioVars, docVars, localVars, nextId, discarded, spoiled>>

(* The verb goes on to load the state even when an append made replay stop. *)
Prune ==
  /\ pc = "prune"
  /\ DropRows(done)
  /\ pc' = IF mode = "verb" THEN "load" ELSE "idle"
  /\ UNCHANGED <<stream, streamTorn, docVars, localVars, nextId, discarded, spoiled>>

-----------------------------------------------------------------------------
(* write._apply, from the loaded state to the dropped outbox row. *)

(* verify_views: a mirror that is not what its document renders to. *)
Drift == views # doc.last

(* View drift, a stale revision, the verb's own rules, a document that does *)
(* not validate: nothing has been written yet.                              *)
Refuse ==
  /\ pc = "load"
  /\ pc' = "idle"
  /\ UNCHANGED <<ioVars, docVars, localVars, nextId, discarded, spoiled>>

(* The anchor is read, then the event is reserved; a LedgerError ends the verb. *)
Reserve ==
  /\ pc = "load"
  /\ ~Drift
  /\ nextId <= MaxEvents
  /\ LET e == EventOf("transition", doc.rev + 1) IN
       /\ cur' = e
       /\ snap' = stream
       /\ \E o \in Outcomes :
            /\ AppendOutbox(e, o) /\ Spoils(e, outboxTorn, o)
            /\ pc' = IF o = "ok" THEN "reserved" ELSE "idle"
  /\ nextId' = nextId + 1
  /\ UNCHANGED <<stream, streamTorn, docVars, mode, cursor, done, discarded>>

(* os.replace is the commit point; the directory fsync after it may still raise. *)
WriteState ==
  /\ pc = "reserved"
  /\ \E o \in {"ok", "fail", "unsure"} :
       /\ IF Wrote(o)
          THEN /\ doc' = [rev |-> doc.rev + 1, last |-> cur.id, anchored |-> TRUE,
                          digest |-> snap, anchorRev |-> doc.rev + 1,
                          commits |-> Remember(cur.id)]
               /\ committed' = committed \cup {cur}
          ELSE UNCHANGED <<doc, committed>>
       /\ pc' = IF o = "ok" THEN "written" ELSE "idle"
  /\ UNCHANGED <<ioVars, views, localVars, nextId, discarded, spoiled>>

WriteViews ==
  /\ pc = "written"
  /\ \/ views' = doc.last /\ pc' = "rendered"
     \/ views' = views /\ pc' = "idle"
  /\ UNCHANGED <<ioVars, doc, committed, localVars, nextId, discarded, spoiled>>

CommitAppend ==
  /\ pc = "rendered"
  /\ \E o \in Outcomes :
       /\ AppendStream(cur, o) /\ Spoils(cur, streamTorn, o)
       /\ pc' = IF o = "ok" THEN "appended" ELSE "idle"
  /\ UNCHANGED <<outbox, outboxTorn, docVars, localVars, nextId, discarded>>

CommitDrop ==
  /\ pc = "appended"
  /\ DropRows({cur.id})
  /\ pc' = "idle"
  /\ UNCHANGED <<stream, streamTorn, docVars, localVars, nextId, discarded, spoiled>>

-----------------------------------------------------------------------------
(* Observational events, and the session envelope with its event. *)

(* Mutant: the write of an envelope confirms no transaction. *)
StoreUnconfirmed ==
  /\ pc = "idle"
  /\ nextId <= MaxEvents
  /\ LET e == EventOf("session", doc.rev + 1) IN
       /\ doc' = [doc EXCEPT !.rev = @ + 1]
       /\ committed' = committed \cup {e}
       /\ cur' = e
  /\ nextId' = nextId + 1
  /\ pc' = "emit"
  /\ UNCHANGED <<ioVars, views, mode, snap, cursor, done, discarded, spoiled>>

(* envelope.store: the revision and the confirmations move, the anchor does not. *)
StoreEnvelope ==
  /\ pc = "idle"
  /\ nextId <= MaxEvents
  /\ LET e == EventOf("session", doc.rev + 1) IN
       /\ doc' = [doc EXCEPT !.rev = @ + 1, !.commits = Remember(e.id)]
       /\ committed' = committed \cup {e}
       /\ cur' = e
  /\ nextId' = nextId + 1
  /\ pc' = "emit"
  /\ UNCHANGED <<ioVars, views, mode, snap, cursor, done, discarded, spoiled>>

(* A lease, a gate, a receipt, a refused write: an event about no state write. *)
Observe ==
  /\ pc = "idle"
  /\ nextId <= MaxEvents
  /\ cur' = EventOf("plain", 0)
  /\ nextId' = nextId + 1
  /\ pc' = "emit"
  /\ UNCHANGED <<ioVars, docVars, mode, snap, cursor, done, discarded, spoiled>>

(* envelope.emit appends, or turns to the outbox when it may not or cannot. *)
EmitAppend ==
  /\ pc = "emit"
  /\ Allows("emit")
  /\ AppendStream(cur, "ok")
  /\ pc' = "idle"
  /\ UNCHANGED <<outbox, outboxTorn, docVars, localVars, nextId, discarded, spoiled>>

EmitDefer ==
  /\ pc = "emit"
  /\ IF Allows("emit") THEN \E o \in Outcomes \ {"ok"} : AppendStream(cur, o)
                       ELSE UNCHANGED <<stream, streamTorn>>
  /\ \E o \in Outcomes : AppendOutbox(cur, o)
  /\ pc' = "idle"
  /\ UNCHANGED <<docVars, localVars, nextId, discarded, spoiled>>

-----------------------------------------------------------------------------
(* What happens to the writer and to its files. *)

Crash ==
  /\ pc # "idle"
  /\ pc' = "idle"
  /\ UNCHANGED <<ioVars, docVars, localVars, nextId, discarded, spoiled>>

(* xcheck render-views: the one declared repair of view drift. *)
RenderViews ==
  /\ pc = "idle"
  /\ Drift
  /\ views' = doc.last
  /\ UNCHANGED <<ioVars, doc, committed, pc, localVars, nextId, discarded, spoiled>>

(* Whole lines go from the end of the stream behind the tool's back. *)
LoseTail ==
  /\ pc = "idle"
  /\ ~streamTorn
  /\ \E n \in 0..(Len(stream) - 1) :
       /\ stream' = SubSeq(stream, 1, n)
       /\ spoiled' = spoiled \cup Transitions({stream[i] : i \in (n + 1)..Len(stream)})
  /\ UNCHANGED <<streamTorn, outbox, outboxTorn, docVars, pc, localVars, nextId,
                 discarded>>

(* The operator cuts a partial last line, the repair an unreadable stream asks for. *)
CutTornLine ==
  /\ pc = "idle"
  /\ streamTorn
  /\ streamTorn' = FALSE
  /\ UNCHANGED <<stream, outbox, outboxTorn, docVars, pc, localVars, nextId,
                 discarded, spoiled>>

Replay == \/ \E r \in outbox : \/ ReplayPresent(r) \/ ReplayHold(r)
                               \/ ReplayDiscard(r) \/ ReplayAppend(r)
          \/ ReplayEnd
          \/ Prune
Apply  == \/ Refuse \/ Reserve \/ WriteState \/ WriteViews
          \/ CommitAppend \/ CommitDrop
Emit   == StoreEnvelope \/ Observe \/ EmitAppend \/ EmitDefer
Outside == Crash \/ RenderViews \/ LoseTail \/ CutTornLine

Next == BeginVerb \/ BeginRecover \/ Replay \/ Apply \/ Emit \/ Outside

Spec == Init /\ [][Next]_vars

-----------------------------------------------------------------------------
(* Properties. *)

(* The types; canonical state never remembers more than COMMIT_WINDOW      *)
(* commits, however many verbs and envelope stores have written it.        *)
TypeOK ==
  /\ stream \in Seq(Event)  /\ streamTorn \in BOOLEAN
  /\ outbox \subseteq Event /\ outboxTorn \in BOOLEAN
  /\ doc \in [rev : Nat, last : Nat, anchored : BOOLEAN, digest : Seq(Event),
              anchorRev : Nat, commits : Seq(Nat)]
  /\ Len(doc.commits) <= CommitWindow
  /\ views \in Nat
  /\ pc \in {"idle", "replay", "prune", "load", "reserved", "written",
            "rendered", "appended", "emit"}
  /\ mode \in {"verb", "recover"}
  /\ cur \in Event
  /\ snap \in Seq(Event)
  /\ cursor \in Nat /\ done \subseteq Nat
  /\ nextId \in Nat
  /\ committed \subseteq Event /\ discarded \subseteq Nat /\ spoiled \subseteq Event

(* The stream never claims a change that did not land: every event of a    *)
(* state write in it describes a write that reached state.json, whatever   *)
(* crashed or failed in between and however often it was replayed.         *)
NoPhantom == \A i \in DOMAIN stream : HasTxn(stream[i]) => stream[i] \in committed

(* Replay is idempotent: no event is in the stream twice. *)
NoDuplicate == \A i, j \in DOMAIN stream : stream[i].id = stream[j].id => i = j

(* As many writes have landed after this row's as canonical state          *)
(* remembers, so that nothing proves the row any more.                     *)
Outrun(r) == r.rev + CommitWindow <= doc.rev

(* A transition that landed is never unaccounted for: its event is in the  *)
(* stream or waits in the outbox, until it is outrun or spoiled.           *)
Accounted ==
  \A e \in committed : e.kind = "transition"
    => InStream(e.id) \/ e \in outbox \/ Outrun(e) \/ e \in spoiled

(* A checkpoint only ever grows: a write never replaces it by one taken    *)
(* over a stream that has lost part of the history the old one covers.     *)
CheckpointGrows ==
  [][doc.anchored => doc'.anchored /\ IsPrefix(doc.digest, doc'.digest)]_doc

(* What replay drops as "did not happen" did not happen, unless as many    *)
(* later writes have landed as canonical state remembers.                  *)
DiscardsOnlyUncommitted == \A e \in committed : e.id \in discarded => Outrun(e)

(* ledger.uncommitted on such a row: "it is held, reported, and left for a *)
(* human or a later run".  The code discards it when envelopes moved the   *)
(* window and not the anchored revision it is compared with.               *)
UnprovableIsHeld == \A e \in committed : e.id \notin discarded

(* The two-phase protocol keeps the promise of module Journal: what the    *)
(* outbox holds is announced, a state write lands it, the stream records   *)
(* it, and no row is dropped while a change it describes is unrecorded and *)
(* within COMMIT_WINDOW writes of the last.                                *)
Promise == INSTANCE Journal WITH
             Transition <- [id : 1..MaxEvents, kind : {"transition"}, rev : 1..MaxEvents],
             Window     <- CommitWindow,
             pending    <- Transitions(outbox),
             applied    <- Transitions(committed),
             recorded   <- Transitions({stream[i] : i \in DOMAIN stream}),
             spoiled    <- spoiled,
             writes     <- doc.rev

ImplementsJournal == Promise!Spec

(* Fairness: the writer of the moment takes its next step; an operator who *)
(* sees a pending row runs recover, and one whose stream ends in a partial *)
(* line cuts it; an append that is tried again and again does not fail     *)
(* every time; crashes, and people who shorten the stream, come to an end: *)
(* what a crash leaves is what a writer's own step may leave (a drop that  *)
(* failed, a verb that refused), so only the steps no writer takes are     *)
(* ruled out.  Nothing forces a verb or an observation to happen.          *)
WriterStep == Replay \/ Apply \/ EmitAppend \/ EmitDefer

AppendSucceeds == \E r \in outbox : ReplayAppend(r) /\ cursor' = r.id

FairSpec == /\ Spec
            /\ WF_vars(WriterStep)
            /\ WF_vars(BeginRecover)
            /\ WF_vars(CutTornLine)
            /\ SF_vars(AppendSucceeds)
            /\ <>[][Crash \/ LoseTail => WriterStep]_vars

(* A transition that landed reaches the stream in the end: a commit that   *)
(* failed, or a process that died before it, only delays the event, so     *)
(* that again and again nothing that landed is missing.  The exceptions    *)
(* are a row that COMMIT_WINDOW later writes have outrun, one of which a   *)
(* whole line was destroyed, and a stream recover refuses because it is    *)
(* not the one the checkpoint was taken over.                              *)
EventuallyRecorded ==
  []<>(\/ LedgerState = "replaced"
       \/ \A e \in committed : e.kind = "transition"
            => InStream(e.id) \/ Outrun(e) \/ e \in spoiled)
=============================================================================
