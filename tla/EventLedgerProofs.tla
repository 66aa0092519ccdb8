------------------------- MODULE EventLedgerProofs -------------------------
(***************************************************************************)
(* Theorems of EventLedger for every window and every number of events,    *)
(* with every fault of the module: crashes, appends that fail or tear,     *)
(* state writes that raise after they landed, a stream shortened from      *)
(* outside, and session envelopes that move the document between verbs.    *)
(*                                                                         *)
(* First the types, NoPhantom, NoDuplicate and CheckpointGrows.  Then what *)
(* the window of remembered transactions says: what replay may discard,    *)
(* and when a row is held.  Then the account of every landed transition,   *)
(* and the refinement of module Journal that rests on it.  At the end the  *)
(* safety half of EventuallyRecorded: a landed row is replayable until it  *)
(* is outrun or spoiled.                                                   *)
(***************************************************************************)
EXTENDS EventLedger, TLAPS
LOCAL INSTANCE SequencesExt

(* The events the protocol may still put into the stream, or has told      *)
(* canonical state about.                                                  *)
Known == outbox \cup committed \cup {cur}

(* An identity is used once.                                               *)
Unique == /\ \A e \in Known : e.id < nextId
          /\ \A e, f \in Known : e.id = f.id => e = f
          /\ \A i \in DOMAIN stream : stream[i].id < nextId

(* What canonical state remembers as committed was committed.              *)
Landed == \A i \in DOMAIN doc.commits : \E e \in committed : e.id = doc.commits[i]

(* What the writer is about to append describes a write that has landed,   *)
(* and the stream does not have it yet.                                    *)
InFlight ==
  /\ pc \in {"written", "rendered", "emit"} /\ HasTxn(cur) => cur \in committed
  /\ pc \in {"reserved", "written", "rendered", "emit"} => ~InStream(cur.id)

IInv == TypeOK /\ Unique /\ Landed /\ InFlight /\ NoPhantom /\ NoDuplicate

-----------------------------------------------------------------------------
(* What the helpers do to the files and to the window. *)

(* An append leaves the stream as it is or puts the event at its end. *)
LEMMA StreamAppend ==
  ASSUME TypeOK, NEW e \in Event, NEW o, AppendStream(e, o)
  PROVE  /\ stream' \in Seq(Event) /\ streamTorn' \in BOOLEAN
         /\ stream' = stream \/ stream' = Append(stream, e)
BY DEF TypeOK, AppendStream

LEMMA OutboxAppend ==
  ASSUME TypeOK, NEW e \in Event, NEW o, AppendOutbox(e, o)
  PROVE  /\ outbox' \subseteq Event /\ outboxTorn' \in BOOLEAN
         /\ outbox' \subseteq outbox \cup {e}
BY DEF TypeOK, AppendOutbox

(* What an append spoils is the event it appends. *)
LEMMA SpoilsOne ==
  ASSUME TypeOK, NEW e \in Event, NEW torn, NEW o, Spoils(e, torn, o)
  PROVE  spoiled \subseteq spoiled' /\ spoiled' \subseteq Event
BY DEF TypeOK, Spoils, Transitions

LEMMA OutboxDrop ==
  ASSUME TypeOK, NEW ids, DropRows(ids)
  PROVE  outbox' \subseteq outbox /\ outboxTorn' \in BOOLEAN
BY DEF TypeOK, DropRows

(* The window remembers the new transaction and nothing it did not know. *)
LEMMA RememberFacts ==
  ASSUME TypeOK, NEW t \in Nat
  PROVE  /\ Remember(t) \in Seq(Nat)
         /\ Len(Remember(t)) <= CommitWindow
         /\ \A i \in DOMAIN Remember(t) :
              \/ Remember(t)[i] = t
              \/ \E j \in DOMAIN doc.commits : Remember(t)[i] = doc.commits[j]
<1>1. doc.commits \in Seq(Nat) /\ Len(doc.commits) <= CommitWindow
  BY DEF TypeOK
<1>2. CommitWindow \in Nat /\ CommitWindow > 1
  BY WindowAssumption
<1>3. CASE Len(doc.commits) < CommitWindow
  BY <1>1, <1>2, <1>3 DEF Remember
<1>4. CASE ~(Len(doc.commits) < CommitWindow)
  <2> DEFINE old == Tail(doc.commits)
  <2>1. old \in Seq(Nat) /\ Len(old) = Len(doc.commits) - 1
    BY <1>1, <1>2, <1>4
  <2>2. \A i \in 1..Len(old) : old[i] = doc.commits[i + 1] /\ i + 1 \in DOMAIN doc.commits
    BY <1>1, <1>2, <1>4
  <2>3. Remember(t) = Append(old, t)
    BY <1>4 DEF Remember
  <2> QED
    BY <1>1, <1>2, <2>1, <2>2, <2>3
<1> QED
  BY <1>3, <1>4

(* A new event differs from every known one. *)
LEMMA EventOfType ==
  ASSUME TypeOK, NEW k \in Kinds, NEW v \in Nat
  PROVE  EventOf(k, v) \in Event /\ EventOf(k, v).id = nextId /\ EventOf(k, v).kind = k
BY DEF TypeOK, EventOf, Event

(* The three events the code mints. *)
LEMMA Minted ==
  ASSUME TypeOK, NEW e,
         \/ e = EventOf("transition", doc.rev + 1)
         \/ e = EventOf("session", doc.rev + 1)
         \/ e = EventOf("plain", 0)
  PROVE  e \in Event /\ e.id = nextId
<1>1. doc.rev + 1 \in Nat
  BY DEF TypeOK
<1>2. "transition" \in Kinds /\ "session" \in Kinds /\ "plain" \in Kinds
  BY DEF Kinds
<1> QED
  BY <1>1, <1>2, EventOfType

-----------------------------------------------------------------------------
(* Type correctness. *)

LEMMA InitTypeOK == Init => TypeOK
<1> SUFFICES ASSUME Init PROVE TypeOK
  OBVIOUS
<1>1. cur \in Event
  BY DEF Init, NoEvent, Event, Kinds
<1>2. doc \in [rev : Nat, last : Nat, anchored : BOOLEAN, digest : Seq(Event),
               anchorRev : Nat, commits : Seq(Nat)]
  BY DEF Init
<1>3. Len(doc.commits) <= CommitWindow
  BY WindowAssumption DEF Init
<1> QED
  BY <1>1, <1>2, <1>3 DEF Init, TypeOK

LEMMA ReplayTypeOK == TypeOK /\ Replay => TypeOK'
<1> SUFFICES ASSUME TypeOK, Replay PROVE TypeOK'
  OBVIOUS
<1> USE DEF TypeOK, ioVars, docVars, localVars
<1>1. ASSUME NEW r \in outbox, NextRow(r), cursor' = r.id,
             UNCHANGED <<ioVars, docVars, pc, mode, cur, snap, nextId, spoiled>>,
             done' \in {done, done \cup {r.id}},
             discarded' \in {discarded, discarded \cup {r.id}}
      PROVE  TypeOK'
  BY <1>1 DEF Event
<1>2. ASSUME NEW r \in outbox, ReplayPresent(r) PROVE TypeOK'
  BY <1>1, <1>2 DEF ReplayPresent
<1>3. ASSUME NEW r \in outbox, ReplayHold(r) PROVE TypeOK'
  BY <1>1, <1>3 DEF ReplayHold
<1>4. ASSUME NEW r \in outbox, ReplayDiscard(r) PROVE TypeOK'
  BY <1>1, <1>4 DEF ReplayDiscard
<1>5. ASSUME NEW r \in outbox, ReplayAppend(r) PROVE TypeOK'
  <2>1. r \in Event
    OBVIOUS
  <2>2. stream' \in Seq(Event) /\ streamTorn' \in BOOLEAN
    BY <1>5, <2>1, StreamAppend DEF ReplayAppend
  <2>3. spoiled' \subseteq Event
    BY <1>5, <2>1, SpoilsOne DEF ReplayAppend
  <2> QED
    BY <1>5, <2>1, <2>2, <2>3 DEF ReplayAppend, Event
<1>6. CASE ReplayEnd
  BY <1>6 DEF ReplayEnd
<1>7. CASE Prune
  <2>1. outbox' \subseteq outbox /\ outboxTorn' \in BOOLEAN
    BY <1>7, OutboxDrop DEF Prune
  <2> QED
    BY <1>7, <2>1 DEF Prune
<1> QED
  BY <1>2, <1>3, <1>4, <1>5, <1>6, <1>7 DEF Replay

LEMMA ApplyTypeOK == TypeOK /\ Apply => TypeOK'
<1> SUFFICES ASSUME TypeOK, Apply PROVE TypeOK'
  OBVIOUS
<1> USE DEF TypeOK, ioVars, docVars, localVars
<1>1. CASE Refuse
  BY <1>1 DEF Refuse
<1>2. CASE Reserve
  <2> DEFINE e == EventOf("transition", doc.rev + 1)
  <2>1. e \in Event /\ cur' = e
    BY <1>2, Minted DEF Reserve
  <2>2. outbox' \subseteq Event /\ outboxTorn' \in BOOLEAN
    BY <1>2, <2>1, OutboxAppend DEF Reserve
  <2>3. pc' \in {"reserved", "idle"}
    BY <1>2 DEF Reserve
  <2>4. spoiled' \subseteq Event
    BY <1>2, <2>1, SpoilsOne DEF Reserve
  <2> QED
    BY <1>2, <2>1, <2>2, <2>3, <2>4 DEF Reserve
<1>3. CASE WriteState
  <2>1. doc' \in [rev : Nat, last : Nat, anchored : BOOLEAN, digest : Seq(Event),
                  anchorRev : Nat, commits : Seq(Nat)]
        /\ Len(doc'.commits) <= CommitWindow
    <3>1. cur.id \in Nat
      BY DEF Event
    <3>2. Remember(cur.id) \in Seq(Nat) /\ Len(Remember(cur.id)) <= CommitWindow
      BY <3>1, RememberFacts
    <3>3. snap \in Seq(Event) /\ doc.rev \in Nat
      OBVIOUS
    <3>4. CASE doc' = doc
      BY <3>4
    <3>5. CASE doc' = [rev |-> doc.rev + 1, last |-> cur.id, anchored |-> TRUE,
                       digest |-> snap, anchorRev |-> doc.rev + 1,
                       commits |-> Remember(cur.id)]
      BY <3>1, <3>2, <3>3, <3>5
    <3> QED
      BY <1>3, <3>4, <3>5 DEF WriteState
  <2>2. committed' \subseteq Event /\ pc' \in {"written", "idle"}
    BY <1>3 DEF WriteState
  <2> QED
    BY <1>3, <2>1, <2>2 DEF WriteState
<1>4. CASE WriteViews
  BY <1>4 DEF WriteViews
<1>5. CASE CommitAppend
  <2>1. stream' \in Seq(Event) /\ streamTorn' \in BOOLEAN
    BY <1>5, StreamAppend DEF CommitAppend
  <2>2. pc' \in {"appended", "idle"}
    BY <1>5 DEF CommitAppend
  <2>3. spoiled' \subseteq Event
    BY <1>5, SpoilsOne DEF CommitAppend
  <2> QED
    BY <1>5, <2>1, <2>2, <2>3 DEF CommitAppend
<1>6. CASE CommitDrop
  <2>1. outbox' \subseteq outbox /\ outboxTorn' \in BOOLEAN
    BY <1>6, OutboxDrop DEF CommitDrop
  <2> QED
    BY <1>6, <2>1 DEF CommitDrop
<1> QED
  BY <1>1, <1>2, <1>3, <1>4, <1>5, <1>6 DEF Apply

LEMMA EmitTypeOK == TypeOK /\ Emit => TypeOK'
<1> SUFFICES ASSUME TypeOK, Emit PROVE TypeOK'
  OBVIOUS
<1> USE DEF TypeOK, ioVars, docVars, localVars
<1>1. CASE StoreEnvelope
  <2> DEFINE e == EventOf("session", doc.rev + 1)
  <2>a. cur' = e
    BY <1>1 DEF StoreEnvelope
  <2>1. e \in Event /\ e.id = nextId /\ cur' = e
    BY ONLY <2>a, TypeOK, Minted
  <2> HIDE DEF e
  <2>2. Remember(e.id) \in Seq(Nat) /\ Len(Remember(e.id)) <= CommitWindow
    BY <2>1, RememberFacts
  <2>3. doc' \in [rev : Nat, last : Nat, anchored : BOOLEAN, digest : Seq(Event),
                  anchorRev : Nat, commits : Seq(Nat)]
        /\ Len(doc'.commits) <= CommitWindow
    <3>1. doc' = [doc EXCEPT !.rev = @ + 1, !.commits = Remember(e.id)]
      BY <1>1 DEF StoreEnvelope, e
    <3>2. doc.rev + 1 \in Nat
      OBVIOUS
    <3>3. doc' = [rev |-> doc.rev + 1, last |-> doc.last, anchored |-> doc.anchored,
                  digest |-> doc.digest, anchorRev |-> doc.anchorRev,
                  commits |-> Remember(e.id)]
      BY <3>1
    <3> QED
      BY <2>2, <3>2, <3>3
  <2>4. committed' \subseteq Event
    BY <1>1, <2>1 DEF StoreEnvelope, e
  <2>5. /\ nextId' = nextId + 1 /\ pc' = "emit"
        /\ UNCHANGED <<ioVars, views, mode, snap, cursor, done, discarded, spoiled>>
    BY <1>1 DEF StoreEnvelope
  <2> QED
    BY <2>1, <2>3, <2>4, <2>5
<1>2. CASE Observe
  <2>1. cur' \in Event
    BY <1>2, Minted DEF Observe
  <2> QED
    BY <1>2, <2>1 DEF Observe
<1>3. CASE EmitAppend
  <2>1. stream' \in Seq(Event) /\ streamTorn' \in BOOLEAN
    BY <1>3, StreamAppend DEF EmitAppend
  <2> QED
    BY <1>3, <2>1 DEF EmitAppend
<1>4. CASE EmitDefer
  <2>1. stream' \in Seq(Event) /\ streamTorn' \in BOOLEAN
    BY <1>4, StreamAppend DEF EmitDefer
  <2>2. outbox' \subseteq Event /\ outboxTorn' \in BOOLEAN
    BY <1>4, OutboxAppend DEF EmitDefer
  <2> QED
    BY <1>4, <2>1, <2>2 DEF EmitDefer
<1> QED
  BY <1>1, <1>2, <1>3, <1>4 DEF Emit

LEMMA OutsideTypeOK == TypeOK /\ Outside => TypeOK'
<1> SUFFICES ASSUME TypeOK, Outside PROVE TypeOK'
  OBVIOUS
<1> USE DEF TypeOK, ioVars, docVars, localVars
<1>1. CASE Crash
  BY <1>1 DEF Crash
<1>2. CASE RenderViews
  BY <1>2 DEF RenderViews
<1>3. CASE LoseTail
  <2>1. PICK n \in 0..(Len(stream) - 1) :
          /\ stream' = SubSeq(stream, 1, n)
          /\ spoiled' = spoiled \cup Transitions({stream[i] : i \in (n + 1)..Len(stream)})
    BY <1>3 DEF LoseTail
  <2>2. \A i \in (n + 1)..Len(stream) : stream[i] \in Event
    OBVIOUS
  <2>3. spoiled' \subseteq Event
    BY <2>1, <2>2 DEF Transitions
  <2> QED
    <3>1. stream' \in Seq(Event)
      BY ONLY <2>1, TypeOK DEF TypeOK
    <3>2. UNCHANGED <<streamTorn, outbox, outboxTorn, docVars, pc, localVars, nextId, discarded>>
      BY <1>3 DEF LoseTail
    <3> QED
      BY <2>3, <3>1, <3>2
<1>4. CASE CutTornLine
  BY <1>4 DEF CutTornLine
<1> QED
  BY <1>1, <1>2, <1>3, <1>4 DEF Outside

LEMMA NextTypeOK == TypeOK /\ [Next]_vars => TypeOK'
<1> SUFFICES ASSUME TypeOK, [Next]_vars PROVE TypeOK'
  OBVIOUS
<1>1. CASE BeginVerb
  BY <1>1 DEF BeginVerb, TypeOK, ioVars, docVars
<1>2. CASE BeginRecover
  BY <1>2 DEF BeginRecover, TypeOK, ioVars, docVars
<1>3. CASE UNCHANGED vars
  BY <1>3 DEF vars, TypeOK
<1> QED
  BY <1>1, <1>2, <1>3, ReplayTypeOK, ApplyTypeOK, EmitTypeOK, OutsideTypeOK DEF Next

(* Every variable keeps the type the code gives it, and the list of        *)
(* remembered transactions never outgrows its window.                      *)
THEOREM TypeCorrect == Spec => []TypeOK
<1> QED
  BY InitTypeOK, NextTypeOK, PTL DEF Spec

-----------------------------------------------------------------------------
(* What one step may do to the stream, to the known events and to the      *)
(* window.                                                                 *)

(* A step leaves the stream, cuts its tail, or appends one known event     *)
(* that is not in it and, if it tells of a state write, one that landed.   *)
StreamKept == stream' = stream /\ spoiled \subseteq spoiled'
StreamCut  == \E n \in 0..Len(stream) :
                /\ stream' = SubSeq(stream, 1, n)
                /\ spoiled' = spoiled \cup Transitions({stream[i] : i \in (n + 1)..Len(stream)})
StreamGrew == \E e \in Known : /\ stream' = Append(stream, e) /\ spoiled' = spoiled
                               /\ ~InStream(e.id)
                               /\ HasTxn(e) => e \in committed
Quiet == /\ pc' \notin {"reserved", "written", "rendered", "emit"}
         /\ UNCHANGED <<nextId, committed>>

(* An append that reaches the end of the file spoils nothing. *)
LEMMA WholeAppend ==
  ASSUME NEW e, NEW o, AppendStream(e, o), Spoils(e, streamTorn, o)
  PROVE  \/ stream' = stream /\ spoiled \subseteq spoiled'
         \/ stream' = Append(stream, e) /\ spoiled' = spoiled
BY DEF AppendStream, Spoils, Transitions

LEMMA StreamStep ==
  ASSUME IInv, [Next]_vars
  PROVE  StreamKept \/ (StreamCut /\ Quiet) \/ (StreamGrew /\ Quiet)
<1>1. CASE BeginVerb
  BY <1>1 DEF BeginVerb, ioVars, StreamKept
<1>2. CASE BeginRecover
  BY <1>2 DEF BeginRecover, ioVars, StreamKept
<1>3. ASSUME NEW r \in outbox, ReplayPresent(r) \/ ReplayHold(r) \/ ReplayDiscard(r)
      PROVE  StreamKept
  BY <1>3 DEF ReplayPresent, ReplayHold, ReplayDiscard, ioVars, StreamKept
<1>4. ASSUME NEW r \in outbox, ReplayAppend(r)
      PROVE  StreamKept \/ (StreamGrew /\ Quiet)
  <2>1. r \in Event /\ r \in Known
    BY DEF IInv, TypeOK, Known
  <2>2. \/ stream' = stream /\ spoiled \subseteq spoiled'
        \/ stream' = Append(stream, r) /\ spoiled' = spoiled
    BY <1>4, WholeAppend DEF ReplayAppend
  <2>3. ~InStream(r.id) /\ Proved(r) /\ pc = "replay"
    BY <1>4 DEF ReplayAppend, NextRow
  <2>4. HasTxn(r) => r \in committed
    <3> SUFFICES ASSUME HasTxn(r) PROVE r \in committed
      OBVIOUS
    <3>1. r.id \in Commits
      BY <2>3 DEF Proved
    <3>2. PICK e \in committed : e.id = r.id
      BY <3>1 DEF IInv, Landed, Commits
    <3> QED
      BY <2>1, <3>2 DEF IInv, Unique, Known
  <2>5. Quiet
    BY <1>4, <2>3 DEF ReplayAppend, docVars, Quiet
  <2> QED
    BY <2>1, <2>2, <2>3, <2>4, <2>5 DEF StreamKept, StreamGrew
<1>5. CASE ReplayEnd \/ Prune
  BY <1>5 DEF ReplayEnd, Prune, ioVars, StreamKept
<1>6. CASE Refuse \/ Reserve \/ WriteState \/ WriteViews \/ CommitDrop
  BY <1>6 DEF Refuse, Reserve, WriteState, WriteViews, CommitDrop, ioVars, StreamKept, Spoils
<1>7. CASE CommitAppend \/ EmitAppend \/ EmitDefer
  <2>1. cur \in Event /\ cur \in Known
    BY DEF IInv, TypeOK, Known
  <2>2. pc \in {"rendered", "emit"}
    BY <1>7 DEF CommitAppend, EmitAppend, EmitDefer
  <2>3. ~InStream(cur.id) /\ (HasTxn(cur) => cur \in committed)
    BY <2>2 DEF IInv, InFlight
  <2>4. \/ stream' = stream /\ spoiled \subseteq spoiled'
        \/ stream' = Append(stream, cur) /\ spoiled' = spoiled
    BY <1>7, WholeAppend DEF CommitAppend, EmitAppend, EmitDefer, AppendStream
  <2>5. Quiet
    BY <1>7 DEF CommitAppend, EmitAppend, EmitDefer, docVars, Quiet
  <2> QED
    BY <2>1, <2>3, <2>4, <2>5 DEF StreamKept, StreamGrew
<1>8. CASE StoreEnvelope \/ Observe
  BY <1>8 DEF StoreEnvelope, Observe, ioVars, StreamKept
<1>9. CASE Crash \/ RenderViews \/ CutTornLine
  BY <1>9 DEF Crash, RenderViews, CutTornLine, ioVars, StreamKept
<1>10. CASE LoseTail
  <2>1. PICK n \in 0..(Len(stream) - 1) :
          /\ stream' = SubSeq(stream, 1, n)
          /\ spoiled' = spoiled \cup Transitions({stream[i] : i \in (n + 1)..Len(stream)})
    BY <1>10 DEF LoseTail
  <2>2. Len(stream) \in Nat
    BY DEF IInv, TypeOK
  <2>3. n \in 0..Len(stream)
    BY <2>2
  <2>4. StreamCut
    BY <1>10, <2>1, <2>3 DEF StreamCut, LoseTail
  <2> QED
    BY <1>10, <2>4 DEF LoseTail, docVars, Quiet
<1>11. CASE UNCHANGED vars
  BY <1>11 DEF vars, StreamKept
<1> QED
  BY <1>1, <1>2, <1>3, <1>4, <1>5, <1>6, <1>7, <1>8, <1>9, <1>10, <1>11
     DEF Next, Replay, Apply, Emit, Outside

(* A step knows no new event, or exactly the one it mints. *)
LEMMA KnownStep ==
  ASSUME IInv, [Next]_vars
  PROVE  /\ committed \subseteq committed'
         /\ \/ Known' \subseteq Known /\ nextId' = nextId
            \/ /\ nextId' = nextId + 1
               /\ \E e \in Event :
                    /\ e.id = nextId /\ Known' \subseteq Known \cup {e}
                    /\ e.kind = "transition" => e.rev = doc.rev + 1 /\ nextId <= MaxEvents
<1> USE DEF Known
<1>1. CASE BeginVerb \/ BeginRecover
  BY <1>1 DEF BeginVerb, BeginRecover, ioVars, docVars
<1>2. ASSUME NEW r \in outbox,
             ReplayPresent(r) \/ ReplayHold(r) \/ ReplayDiscard(r) \/ ReplayAppend(r)
      PROVE  Known' \subseteq Known /\ UNCHANGED <<nextId, committed>>
  BY <1>2 DEF ReplayPresent, ReplayHold, ReplayDiscard, ReplayAppend, ioVars, docVars
<1>3. CASE ReplayEnd \/ Prune \/ CommitDrop
  <2>1. outbox' \subseteq outbox
    BY <1>3, OutboxDrop DEF ReplayEnd, Prune, CommitDrop, ioVars, IInv
  <2> QED
    BY <1>3, <2>1 DEF ReplayEnd, Prune, CommitDrop, docVars, localVars
<1>4. CASE Refuse \/ WriteViews \/ CommitAppend \/ EmitAppend
  BY <1>4 DEF Refuse, WriteViews, CommitAppend, EmitAppend, ioVars, docVars, localVars
<1>5. CASE Reserve
  <2> DEFINE e == EventOf("transition", doc.rev + 1)
  <2>1. e \in Event /\ e.id = nextId
    BY Minted DEF IInv
  <2>2. cur' = e /\ outbox' \subseteq outbox \cup {e}
    BY <1>5, <2>1, OutboxAppend DEF Reserve, IInv
  <2>3. committed' = committed /\ nextId' = nextId + 1 /\ nextId <= MaxEvents
    BY <1>5 DEF Reserve, docVars
  <2>4. e.rev = doc.rev + 1
    BY DEF EventOf
  <2> HIDE DEF e
  <2> QED
    BY <2>1, <2>2, <2>3, <2>4
<1>6. CASE WriteState
  BY <1>6 DEF WriteState, ioVars, localVars
<1>7. CASE EmitDefer
  <2>1. outbox' \subseteq outbox \cup {cur}
    BY <1>7, OutboxAppend DEF EmitDefer, IInv, TypeOK
  <2> QED
    BY <1>7, <2>1 DEF EmitDefer, docVars, localVars
<1>8. CASE StoreEnvelope
  <2> DEFINE e == EventOf("session", doc.rev + 1)
  <2>1. e \in Event /\ e.id = nextId /\ e.kind # "transition"
    BY Minted DEF IInv, EventOf
  <2>2. cur' = e /\ outbox' = outbox /\ committed' = committed \cup {e}
        /\ nextId' = nextId + 1
    BY <1>8 DEF StoreEnvelope, ioVars
  <2> QED
    BY <2>1, <2>2
<1>9. CASE Observe
  <2> DEFINE e == EventOf("plain", 0)
  <2>1. e \in Event /\ e.id = nextId /\ e.kind # "transition"
    BY Minted DEF IInv, EventOf
  <2>2. cur' = e /\ outbox' = outbox /\ committed' = committed /\ nextId' = nextId + 1
    BY <1>9 DEF Observe, ioVars, docVars
  <2> QED
    BY <2>1, <2>2
<1>10. CASE Crash \/ RenderViews \/ LoseTail \/ CutTornLine
  BY <1>10 DEF Crash, RenderViews, LoseTail, CutTornLine, ioVars, docVars, localVars
<1>11. CASE UNCHANGED vars
  BY <1>11 DEF vars
<1> QED
  BY <1>1, <1>2, <1>3, <1>4, <1>5, <1>6, <1>7, <1>8, <1>9, <1>10, <1>11
     DEF Next, Replay, Apply, Emit, Outside

(* The window only takes in a transaction whose event has landed. *)
LEMMA WindowStep == IInv /\ [Next]_vars => Landed'
<1> SUFFICES ASSUME IInv, [Next]_vars PROVE Landed'
  OBVIOUS
<1>1. CASE doc' = doc
  BY <1>1, KnownStep DEF Landed, IInv
<1>2. ASSUME NEW e \in Event, e \in committed', doc'.commits = Remember(e.id),
             committed \subseteq committed'
      PROVE  Landed'
  <2>1. e.id \in Nat
    BY DEF Event
  <2> SUFFICES ASSUME NEW i \in DOMAIN Remember(e.id)
               PROVE  \E c \in committed' : c.id = Remember(e.id)[i]
    BY <1>2 DEF Landed
  <2>2. CASE Remember(e.id)[i] = e.id
    BY <1>2, <2>2
  <2>3. CASE \E j \in DOMAIN doc.commits : Remember(e.id)[i] = doc.commits[j]
    BY <1>2, <2>3 DEF Landed, IInv
  <2> QED
    BY <2>1, <2>2, <2>3, RememberFacts DEF IInv
<1>3. CASE WriteState
  <2>1. CASE doc' = [rev |-> doc.rev + 1, last |-> cur.id, anchored |-> TRUE,
                     digest |-> snap, anchorRev |-> doc.rev + 1,
                     commits |-> Remember(cur.id)]
             /\ committed' = committed \cup {cur}
    BY <1>2, <2>1 DEF IInv, TypeOK
  <2> QED
    BY <1>1, <1>3, <2>1 DEF WriteState
<1>4. CASE StoreEnvelope
  <2> DEFINE e == EventOf("session", doc.rev + 1)
  <2>1. e \in Event
    BY Minted DEF IInv
  <2>2. doc' = [doc EXCEPT !.rev = @ + 1, !.commits = Remember(e.id)]
        /\ committed' = committed \cup {e}
    BY <1>4 DEF StoreEnvelope
  <2> HIDE DEF e
  <2>3. doc'.commits = Remember(e.id)
    BY <2>2 DEF IInv, TypeOK
  <2> QED
    BY <1>2, <2>1, <2>2, <2>3
<1>5. CASE ~WriteState /\ ~StoreEnvelope
  <2>1. doc' = doc
    BY <1>5
       DEF Next, Replay, Apply, Emit, Outside, BeginVerb, BeginRecover, ReplayPresent,
           ReplayHold, ReplayDiscard, ReplayAppend, ReplayEnd, Prune, Refuse, Reserve,
           WriteViews, CommitAppend, CommitDrop, Observe, EmitAppend, EmitDefer, Crash,
           RenderViews, LoseTail, CutTornLine, docVars, vars
  <2> QED
    BY <1>1, <2>1
<1> QED
  BY <1>3, <1>4, <1>5

(* The event in flight stays new to the stream until it is appended. *)
LEMMA InFlightStep == IInv /\ [Next]_vars => InFlight'
<1> SUFFICES ASSUME IInv, [Next]_vars PROVE InFlight'
  OBVIOUS
<1>1. CASE pc' \notin {"reserved", "written", "rendered", "emit"}
  BY <1>1 DEF InFlight
<1>2. ASSUME UNCHANGED <<stream, cur>>, committed \subseteq committed',
             pc' \in {"written", "rendered", "emit"} /\ HasTxn(cur) => cur \in committed',
             pc \in {"reserved", "written", "rendered", "emit"}
      PROVE  InFlight'
  BY <1>2 DEF InFlight, IInv, InStream, IdsOf
<1>3. ASSUME NEW e, cur' = e, e.id = nextId, stream' = stream,
             pc' \in {"written", "rendered", "emit"} /\ HasTxn(e) => e \in committed'
      PROVE  InFlight'
  BY <1>3 DEF InFlight, IInv, TypeOK, Unique, InStream, IdsOf
<1>4. CASE Reserve
  <2> DEFINE e == EventOf("transition", doc.rev + 1)
  <2>1. e.id = nextId /\ cur' = e /\ stream' = stream /\ pc' \in {"reserved", "idle"}
    BY <1>4, Minted DEF Reserve, IInv
  <2> QED
    BY <1>3, <2>1
<1>5. CASE WriteState
  <2>1. pc' = "written" => cur \in committed'
    BY <1>5 DEF WriteState, Wrote
  <2> QED
    BY <1>1, <1>2, <1>5, <2>1, KnownStep DEF WriteState, ioVars, localVars
<1>6. CASE WriteViews
  BY <1>1, <1>2, <1>6 DEF WriteViews, ioVars, localVars, IInv, InFlight
<1>7. CASE StoreEnvelope
  <2> DEFINE e == EventOf("session", doc.rev + 1)
  <2>1. e.id = nextId /\ cur' = e /\ stream' = stream /\ e \in committed'
    BY <1>7, Minted DEF StoreEnvelope, ioVars, IInv
  <2> QED
    BY <1>3, <2>1
<1>8. CASE Observe
  <2> DEFINE e == EventOf("plain", 0)
  <2>1. e.id = nextId /\ cur' = e /\ stream' = stream /\ ~HasTxn(e)
    BY <1>8, Minted DEF Observe, EventOf, ioVars, HasTxn, IInv
  <2> QED
    BY <1>3, <2>1
<1>9. CASE BeginVerb \/ BeginRecover \/ Replay \/ Refuse \/ CommitAppend \/ CommitDrop
           \/ EmitAppend \/ EmitDefer \/ Outside
  <2>1. pc' \notin {"reserved", "written", "rendered", "emit"}
    BY <1>9
       DEF BeginVerb, BeginRecover, Replay, ReplayPresent, ReplayHold, ReplayDiscard,
           ReplayAppend, NextRow, ReplayEnd, Prune, Refuse, CommitAppend, CommitDrop,
           EmitAppend, EmitDefer, Outside, Crash, RenderViews, LoseTail, CutTornLine
  <2> QED
    BY <1>1, <2>1
<1>10. CASE UNCHANGED vars
  BY <1>10 DEF vars, IInv, InFlight, InStream, IdsOf
<1> QED
  BY <1>4, <1>5, <1>6, <1>7, <1>8, <1>9, <1>10 DEF Next, Apply, Emit

-----------------------------------------------------------------------------
LEMMA InitIInv == Init => IInv
<1> SUFFICES ASSUME Init PROVE IInv
  OBVIOUS
<1>1. TypeOK
  BY InitTypeOK
<1>2. Unique
  BY DEF Init, Unique, Known, NoEvent
<1>3. Landed /\ NoPhantom /\ NoDuplicate
  BY DEF Init, Landed, NoPhantom, NoDuplicate
<1>4. InFlight
  BY DEF Init, InFlight
<1> QED
  BY <1>1, <1>2, <1>3, <1>4 DEF IInv

LEMMA NextIInv == IInv /\ [Next]_vars => IInv'
<1> SUFFICES ASSUME IInv, [Next]_vars PROVE IInv'
  OBVIOUS
<1>1. TypeOK /\ TypeOK'
  BY NextTypeOK DEF IInv
<1>2. stream \in Seq(Event) /\ nextId \in Nat /\ Known \subseteq Event
  BY <1>1 DEF TypeOK, Known
<1>3. /\ \A e \in Known' : e.id < nextId'
      /\ \A e, f \in Known' : e.id = f.id => e = f
  <2>1. CASE Known' \subseteq Known /\ nextId' = nextId
    BY <2>1 DEF IInv, Unique
  <2>2. ASSUME NEW e \in Event, e.id = nextId, Known' \subseteq Known \cup {e},
               nextId' = nextId + 1
        PROVE  /\ \A g \in Known' : g.id < nextId'
               /\ \A g, f \in Known' : g.id = f.id => g = f
    <3>1. \A g \in Known : g.id \in Nat /\ g.id < nextId
      BY <1>2 DEF IInv, Unique, Event
    <3>2. \A g, f \in Known : g.id = f.id => g = f
      BY DEF IInv, Unique
    <3> QED
      BY <1>2, <2>2, <3>1, <3>2
  <2> QED
    BY <2>1, <2>2, KnownStep
<1>4. nextId <= nextId' /\ nextId' \in Nat /\ committed \subseteq committed'
  BY <1>2, KnownStep
<1>5. /\ \A i \in DOMAIN stream' : stream'[i].id < nextId'
      /\ NoPhantom' /\ NoDuplicate'
  <2>1. /\ \A i \in DOMAIN stream : stream[i].id < nextId /\ stream[i] \in Event
        /\ \A i \in DOMAIN stream : HasTxn(stream[i]) => stream[i] \in committed
        /\ \A i, j \in DOMAIN stream : stream[i].id = stream[j].id => i = j
    BY <1>2 DEF IInv, Unique, NoPhantom, NoDuplicate
  <2> DEFINE Older == \A i \in DOMAIN stream : stream[i].id < nextId'
  <2>0. Older
    <3> SUFFICES ASSUME NEW i \in DOMAIN stream PROVE stream[i].id < nextId'
      OBVIOUS
    <3>1. stream[i].id \in Nat
      BY <2>1 DEF Event
    <3> QED
      BY <1>2, <1>4, <2>1, <3>1
  <2>2. CASE StreamKept
    BY <1>4, <2>0, <2>1, <2>2 DEF StreamKept, NoPhantom, NoDuplicate
  <2>3. CASE StreamCut
    <3>1. PICK n \in 0..Len(stream) : stream' = SubSeq(stream, 1, n)
      BY <2>3 DEF StreamCut
    <3>2. DOMAIN stream' = 1..n /\ \A i \in 1..n : stream'[i] = stream[i] /\ i \in DOMAIN stream
      BY <1>2, <3>1
    <3>3. \A i \in DOMAIN stream' : stream'[i].id < nextId'
      BY <2>0, <3>2
    <3>4. NoPhantom'
      BY <1>4, <2>1, <3>2 DEF NoPhantom
    <3>5. NoDuplicate'
      BY <2>1, <3>2 DEF NoDuplicate
    <3> QED
      BY <3>3, <3>4, <3>5
  <2>4. CASE StreamGrew /\ Quiet
    <3>1. PICK e \in Known : stream' = Append(stream, e) /\ ~InStream(e.id)
                             /\ (HasTxn(e) => e \in committed)
      BY <2>4 DEF StreamGrew
    <3>2. e \in Event /\ e.id < nextId
      BY <1>2 DEF IInv, Unique
    <3>3. /\ DOMAIN stream' = 1..(Len(stream) + 1)
          /\ \A i \in DOMAIN stream : stream'[i] = stream[i]
          /\ stream'[Len(stream) + 1] = e
          /\ DOMAIN stream = 1..Len(stream) /\ Len(stream) \in Nat
      BY <1>2, <3>1, <3>2
    <3>4. \A i \in DOMAIN stream : stream[i].id # e.id
      BY <3>1 DEF InStream, IdsOf
    <3>5. \A i \in DOMAIN stream' : i \in DOMAIN stream \/ i = Len(stream) + 1
      BY <3>3
    <3>6. \A i \in DOMAIN stream' : stream'[i].id < nextId'
      BY <1>2, <1>4, <2>1, <2>4, <3>2, <3>3, <3>5 DEF Quiet
    <3>7. NoPhantom'
      BY <1>4, <2>1, <3>1, <3>3, <3>5 DEF NoPhantom
    <3>8. NoDuplicate'
      BY <2>1, <3>3, <3>4, <3>5 DEF NoDuplicate
    <3> QED
      BY <3>6, <3>7, <3>8
  <2> QED
    BY <2>2, <2>3, <2>4, StreamStep
<1>6. Unique'
  BY <1>3, <1>5 DEF Unique
<1> QED
  BY <1>1, <1>5, <1>6, WindowStep, InFlightStep DEF IInv

LEMMA Invariance == Spec => []IInv
<1> QED
  BY InitIInv, NextIInv, PTL DEF Spec

(* Whatever crashes, fails, tears or is lost, the stream never records a   *)
(* state write that did not land.                                          *)
THEOREM NoPhantomEvents == Spec => []NoPhantom
<1>1. IInv => NoPhantom
  BY DEF IInv
<1> QED
  BY <1>1, Invariance, PTL

(* However often the outbox is replayed, no event is in the stream twice.  *)
THEOREM ReplayIdempotent == Spec => []NoDuplicate
<1>1. IInv => NoDuplicate
  BY DEF IInv
<1> QED
  BY <1>1, Invariance, PTL
-----------------------------------------------------------------------------
(* The checkpoint. *)

(* From the moment a verb has looked at the stream until it replaces the   *)
(* document, what the old checkpoint covers is a prefix of the stream, or  *)
(* of the copy of it the new checkpoint is taken from.                     *)
AnchorCovered ==
  doc.anchored =>
    /\ pc = "load" \/ (pc \in {"replay", "prune"} /\ mode = "verb")
         => IsPrefix(doc.digest, stream)
    /\ pc = "reserved" => IsPrefix(doc.digest, snap)

LEMMA PrefixReads ==
  ASSUME NEW s \in Seq(Event), NEW t \in Seq(Event)
  PROVE  IsPrefix(s, t) <=> Len(s) <= Len(t) /\ \A i \in 1..Len(s) : s[i] = t[i]
<1>1. Len(s) \in Nat /\ Len(t) \in Nat
  OBVIOUS
<1>2. CASE Len(s) <= Len(t)
  <2>1. /\ SubSeq(s, 1, Len(s)) = [i \in 1..Len(s) |-> s[i]]
        /\ SubSeq(t, 1, Len(s)) = [i \in 1..Len(s) |-> t[i]]
    BY <1>1, <1>2
  <2> QED
    BY <1>2, <2>1 DEF IsPrefix
<1> QED
  BY <1>2 DEF IsPrefix

(* A stream that grows still begins with what it began with.               *)
LEMMA PrefixGrows ==
  ASSUME NEW s \in Seq(Event), NEW t \in Seq(Event), NEW e \in Event, IsPrefix(s, t)
  PROVE  IsPrefix(s, Append(t, e))
<1> DEFINE u == Append(t, e)
<1>1. u \in Seq(Event) /\ Len(u) = Len(t) + 1
  OBVIOUS
<1>2. Len(s) <= Len(t) /\ \A i \in 1..Len(s) : s[i] = t[i]
  BY PrefixReads
<1>3. Len(s) \in Nat /\ Len(t) \in Nat /\ \A i \in 1..Len(t) : u[i] = t[i]
  OBVIOUS
<1> HIDE DEF u
<1>4. Len(s) <= Len(u) /\ \A i \in 1..Len(s) : s[i] = u[i]
  BY <1>1, <1>2, <1>3
<1>5. IsPrefix(s, u)
  BY <1>1, <1>4, PrefixReads
<1> QED
  BY <1>5 DEF u

(* A verb starts only on a stream that still holds what is anchored.       *)
LEMMA IntactCovers == TypeOK /\ Allows("write") /\ doc.anchored => IsPrefix(doc.digest, stream)
BY DEF TypeOK, Allows, LedgerState, IsShort, IsReplaced

LEMMA AnchorStep == TypeOK /\ AnchorCovered /\ [Next]_vars => AnchorCovered'
<1> SUFFICES ASSUME TypeOK, AnchorCovered, [Next]_vars, doc'.anchored
             PROVE  /\ pc' = "load" \/ (pc' \in {"replay", "prune"} /\ mode' = "verb")
                         => IsPrefix(doc'.digest, stream')
                    /\ pc' = "reserved" => IsPrefix(doc'.digest, snap')
  BY DEF AnchorCovered
<1>1. CASE BeginVerb
  BY <1>1, IntactCovers DEF BeginVerb, ioVars, docVars
<1>2. CASE BeginRecover
  BY <1>2 DEF BeginRecover
<1>3. ASSUME NEW r \in outbox, ReplayPresent(r) \/ ReplayHold(r) \/ ReplayDiscard(r)
      PROVE  UNCHANGED <<stream, doc, pc, mode, snap>>
  BY <1>3 DEF ReplayPresent, ReplayHold, ReplayDiscard, ioVars, docVars
<1>4. ASSUME NEW r \in outbox, ReplayAppend(r)
      PROVE  /\ pc = "replay" /\ pc' \in {"replay", "prune"} /\ UNCHANGED <<doc, mode, snap>>
             /\ IsPrefix(doc.digest, stream) => IsPrefix(doc.digest, stream')
  <2>1. r \in Event /\ doc.digest \in Seq(Event) /\ stream \in Seq(Event)
    BY DEF TypeOK
  <2>2. stream' = stream \/ stream' = Append(stream, r)
    BY <1>4, <2>1, StreamAppend DEF ReplayAppend
  <2> QED
    BY <1>4, <2>1, <2>2, PrefixGrows DEF ReplayAppend, NextRow, docVars
<1>5. CASE ReplayEnd \/ Prune
  BY <1>5 DEF ReplayEnd, Prune, ioVars, docVars, localVars, AnchorCovered
<1>6. CASE Reserve
  BY <1>6 DEF Reserve, docVars, AnchorCovered
<1>7. CASE Refuse \/ WriteState \/ WriteViews \/ CommitAppend \/ CommitDrop \/ Emit
           \/ Outside
  BY <1>7 DEF Refuse, WriteState, WriteViews, CommitAppend, CommitDrop, Emit,
              StoreEnvelope, Observe, EmitAppend, EmitDefer, Outside, Crash, RenderViews,
              LoseTail, CutTornLine
<1>8. CASE UNCHANGED vars
  BY <1>8 DEF vars, AnchorCovered
<1>9. CASE Replay
  BY <1>3, <1>4, <1>5, <1>9 DEF Replay, AnchorCovered
<1> QED
  BY <1>1, <1>2, <1>6, <1>7, <1>8, <1>9 DEF Next, Apply

(* Only a verb and the envelope store replace the document, and neither    *)
(* gives up what the checkpoint covers.                                    *)
LEMMA CheckpointStep ==
  ASSUME TypeOK, AnchorCovered, [Next]_vars, doc' # doc, doc.anchored
  PROVE  doc'.anchored /\ IsPrefix(doc.digest, doc'.digest)
<1>1. CASE WriteState
  <2>1. doc'.anchored /\ doc'.digest = snap
    BY <1>1 DEF WriteState
  <2> QED
    BY <1>1, <2>1 DEF WriteState, AnchorCovered
<1>2. CASE StoreEnvelope
  <2>1. doc'.anchored = doc.anchored /\ doc'.digest = doc.digest
    BY <1>2 DEF StoreEnvelope, TypeOK
  <2>2. doc.digest \in Seq(Event)
    BY DEF TypeOK
  <2> QED
    BY <2>1, <2>2, PrefixReads
<1>3. CASE ~WriteState /\ ~StoreEnvelope
  BY <1>3
     DEF Next, Replay, Apply, Emit, Outside, BeginVerb, BeginRecover, ReplayPresent,
         ReplayHold, ReplayDiscard, ReplayAppend, ReplayEnd, Prune, Refuse, Reserve,
         WriteViews, CommitAppend, CommitDrop, Observe, EmitAppend, EmitDefer, Crash,
         RenderViews, LoseTail, CutTornLine, docVars, vars
<1> QED
  BY <1>1, <1>2, <1>3

(* Whatever the stream loses and whoever writes, a checkpoint is only ever *)
(* replaced by one that covers at least the same events.                   *)
THEOREM CheckpointsGrow == Spec => CheckpointGrows
<1>1. Init => AnchorCovered
  BY DEF Init, AnchorCovered
<1>2. TypeOK /\ AnchorCovered /\ [Next]_vars
        => [doc.anchored => doc'.anchored /\ IsPrefix(doc.digest, doc'.digest)]_doc
  BY CheckpointStep
<1> QED
  BY <1>1, <1>2, AnchorStep, TypeCorrect, PTL DEF Spec, CheckpointGrows
-----------------------------------------------------------------------------
(* What the window says.  Every write of the document carries one revision *)
(* and one transaction, so a revision says where in the window its         *)
(* transaction is; the anchored revision may lag behind.                   *)

Oldest == doc.rev - Len(doc.commits)

Anchoring == doc.anchored => doc.anchorRev <= doc.rev

WindowExact ==
  /\ Len(doc.commits) <= doc.rev
  /\ committed # {} => doc.commits # <<>>
  /\ \A e \in committed : /\ e.rev \in 1..doc.rev
                          /\ e.rev > Oldest => doc.commits[e.rev - Oldest] = e.id

(* Until the window is full it remembers every write there was.            *)
Filling == Len(doc.commits) < CommitWindow => doc.rev = Len(doc.commits)

(* A reserved transition is the next revision, and nobody has judged it.   *)
ReservedNew ==
  pc = "reserved" => /\ cur.kind = "transition" /\ cur.rev = doc.rev + 1
                     /\ cur.id \notin discarded

DroppedOld == \A d \in discarded : d < nextId

WindowInv == /\ IInv /\ Anchoring /\ WindowExact /\ Filling /\ ReservedNew /\ DroppedOld
             /\ DiscardsOnlyUncommitted

(* Remembering a transaction puts it last and moves the others by what     *)
(* falls out in front.                                                     *)
LEMMA RememberExact ==
  ASSUME TypeOK, NEW t \in Nat
  PROVE  \E out \in {0, 1} :
           /\ Len(Remember(t)) = Len(doc.commits) + 1 - out
           /\ Len(Remember(t)) > 0
           /\ Remember(t)[Len(Remember(t))] = t
           /\ \A i \in 1..Len(doc.commits) :
                i > out => Remember(t)[i - out] = doc.commits[i]
<1>1. doc.commits \in Seq(Nat)
  BY DEF TypeOK
<1>2. CommitWindow \in Nat /\ CommitWindow > 1
  BY WindowAssumption
<1> DEFINE n == Len(doc.commits)
<1>3. n \in Nat
  BY <1>1
<1>4. CASE n < CommitWindow
  <2> DEFINE w == Append(doc.commits, t)
  <2>1. Remember(t) = w
    BY <1>4 DEF Remember
  <2>2. Len(w) = n + 1 /\ w[n + 1] = t /\ \A i \in 1..n : w[i] = doc.commits[i]
    BY <1>1
  <2> HIDE DEF w, n
  <2>3. Len(w) = n + 1 - 0 /\ Len(w) > 0 /\ w[Len(w)] = t
        /\ \A i \in 1..n : i > 0 => w[i - 0] = doc.commits[i]
    BY <1>3, <2>2
  <2> QED
    BY <2>1, <2>3 DEF n
<1>5. CASE ~(n < CommitWindow)
  <2> DEFINE old == Tail(doc.commits)
             w == Append(old, t)
  <2>1. Remember(t) = w
    BY <1>5 DEF Remember
  <2>2. old \in Seq(Nat) /\ Len(old) = n - 1 /\ \A i \in 1..(n - 1) : old[i] = doc.commits[i + 1]
    BY <1>1, <1>2, <1>5
  <2> HIDE DEF old
  <2>3. Len(w) = n /\ w[n] = t /\ \A i \in 1..(n - 1) : w[i] = doc.commits[i + 1]
    BY <1>3, <2>2
  <2> HIDE DEF w, n
  <2>4. \A i \in 1..n : i > 1 => w[i - 1] = doc.commits[i]
    <3> SUFFICES ASSUME NEW i \in 1..n, i > 1 PROVE w[i - 1] = doc.commits[i]
      OBVIOUS
    <3>1. i - 1 \in 1..(n - 1) /\ (i - 1) + 1 = i
      BY <1>3
    <3> QED
      BY <2>3, <3>1
  <2>5. Len(w) = n + 1 - 1 /\ Len(w) > 0 /\ w[Len(w)] = t
    BY <1>2, <1>3, <1>5, <2>3
  <2> QED
    BY <2>1, <2>4, <2>5 DEF n
<1> QED
  BY <1>4, <1>5

(* A step moves the document by one revision, which is the revision of the *)
(* one event it commits, or leaves document and history alone.             *)
DocMoved(e) ==
  /\ e.rev = doc.rev + 1 /\ e.id \in Nat
  /\ doc'.rev = doc.rev + 1 /\ doc'.commits = Remember(e.id)
  /\ doc'.anchored => (doc.anchored /\ doc'.anchorRev = doc.anchorRev) \/ doc'.anchorRev = doc'.rev
  /\ doc.anchored => doc'.anchored
  /\ committed' = committed \cup {e}
  /\ e.id \notin discarded /\ discarded' = discarded

LEMMA CommitFrame ==
  ASSUME [Next]_vars, ~WriteState, ~StoreEnvelope
  PROVE  UNCHANGED <<doc, committed>>
BY DEF Next, Replay, Apply, Emit, Outside, BeginVerb, BeginRecover, ReplayPresent,
       ReplayHold, ReplayDiscard, ReplayAppend, ReplayEnd, Prune, Refuse, Reserve,
       WriteViews, CommitAppend, CommitDrop, Observe, EmitAppend,
       EmitDefer, Crash, RenderViews, LoseTail, CutTornLine, docVars, vars

LEMMA DocStep ==
  ASSUME WindowInv, [Next]_vars
  PROVE  \/ UNCHANGED <<doc, committed>>
         \/ WriteState /\ DocMoved(cur)
         \/ StoreEnvelope /\ DocMoved(EventOf("session", doc.rev + 1))
<1>1. CASE WriteState
  <2>1. CASE doc' = [rev |-> doc.rev + 1, last |-> cur.id, anchored |-> TRUE,
                     digest |-> snap, anchorRev |-> doc.rev + 1,
                     commits |-> Remember(cur.id)]
             /\ committed' = committed \cup {cur}
    <3>1. cur.id \in Nat /\ cur.rev = doc.rev + 1 /\ cur.id \notin discarded
      BY <1>1 DEF WindowInv, ReservedNew, WriteState, IInv, TypeOK, Event
    <3>2. discarded' = discarded
      BY <1>1 DEF WriteState
    <3> QED
      BY <1>1, <2>1, <3>1, <3>2 DEF DocMoved
  <2> QED
    BY <1>1, <2>1 DEF WriteState
<1>2. CASE StoreEnvelope
  <2> DEFINE e == EventOf("session", doc.rev + 1)
  <2>1. e.id = nextId /\ e.rev = doc.rev + 1
    BY DEF EventOf
  <2>2. nextId \in Nat /\ nextId \notin discarded /\ TypeOK
    BY DEF WindowInv, IInv, TypeOK, DroppedOld
  <2>3. /\ doc' = [doc EXCEPT !.rev = @ + 1, !.commits = Remember(e.id)]
        /\ committed' = committed \cup {e} /\ discarded' = discarded
    BY <1>2 DEF StoreEnvelope
  <2> HIDE DEF e
  <2>4. /\ doc'.rev = doc.rev + 1 /\ doc'.commits = Remember(e.id)
        /\ doc'.anchored = doc.anchored /\ doc'.anchorRev = doc.anchorRev
    BY <2>2, <2>3 DEF TypeOK
  <2>5. DocMoved(e)
    BY <2>1, <2>2, <2>3, <2>4 DEF DocMoved
  <2> QED
    BY <1>2, <2>5 DEF e
<1> QED
  BY <1>1, <1>2, CommitFrame

LEMMA DiscardFrame ==
  ASSUME [Next]_vars, \A r \in outbox : ~ReplayDiscard(r)
  PROVE  discarded' = discarded
BY DEF Next, Replay, Apply, Emit, Outside, BeginVerb, BeginRecover, ReplayPresent,
       ReplayHold, ReplayAppend, ReplayEnd, Prune, Refuse, Reserve, WriteState,
       WriteViews, CommitAppend, CommitDrop, StoreEnvelope, Observe, EmitAppend,
       EmitDefer, Crash, RenderViews, LoseTail, CutTornLine, vars

LEMMA ReserveFrame ==
  ASSUME [Next]_vars, ~Reserve, pc' = "reserved"
  PROVE  UNCHANGED vars
BY DEF Next, Replay, Apply, Emit, Outside, BeginVerb, BeginRecover, ReplayPresent,
       ReplayHold, ReplayDiscard, ReplayAppend, NextRow, ReplayEnd, Prune, Refuse,
       WriteState, WriteViews, CommitAppend, CommitDrop, StoreEnvelope, Observe,
       EmitAppend, EmitDefer, Crash, RenderViews, LoseTail, CutTornLine

(* Revisions and window stay in step.                                      *)
LEMMA MoveKeepsWindow ==
  ASSUME WindowInv, NEW new, DocMoved(new)
  PROVE  Anchoring' /\ WindowExact' /\ Filling'
<1> DEFINE n == Len(doc.commits)
           w == Remember(new.id)
<1>1. TypeOK /\ new.id \in Nat /\ new.rev = doc.rev + 1
  BY DEF WindowInv, IInv, DocMoved
<1>2. PICK out \in {0, 1} : /\ Len(w) = n + 1 - out /\ Len(w) > 0 /\ w[Len(w)] = new.id
                            /\ \A i \in 1..n : i > out => w[i - out] = doc.commits[i]
  BY <1>1, RememberExact
<1>3. doc.rev \in Nat /\ n \in Nat /\ n <= doc.rev /\ n <= CommitWindow /\ CommitWindow \in Nat
  BY <1>1, WindowAssumption DEF TypeOK, WindowInv, WindowExact
<1>4. /\ doc'.rev = doc.rev + 1 /\ doc'.commits = w
      /\ committed' = committed \cup {new}
  BY DEF DocMoved
<1>5. \A e \in committed : /\ e.rev \in 1..doc.rev
                           /\ e.rev > doc.rev - n => doc.commits[e.rev - (doc.rev - n)] = e.id
  BY DEF WindowInv, WindowExact, Oldest
<1>14. /\ n < CommitWindow => Len(w) = n + 1
       /\ n = CommitWindow => Len(w) = n
  <2>1. doc.commits \in Seq(Nat) /\ CommitWindow > 1
    BY <1>1, WindowAssumption DEF TypeOK
  <2>2. CASE n < CommitWindow
    BY <1>3, <2>1, <2>2 DEF Remember
  <2>3. CASE n = CommitWindow
    <3>1. Tail(doc.commits) \in Seq(Nat) /\ Len(Tail(doc.commits)) = n - 1
      BY <2>1, <2>3
    <3>2. w = Append(Tail(doc.commits), new.id)
      BY <1>3, <2>3 DEF Remember
    <3> QED
      BY <1>1, <1>3, <2>3, <3>1, <3>2
  <2> QED
    BY <1>3, <2>2, <2>3
<1>15. n < CommitWindow => doc.rev = n
  BY DEF WindowInv, Filling
<1> HIDE DEF n, w
<1>6. Len(w) <= doc.rev + 1 /\ (doc.rev + 1) - Len(w) = (doc.rev - n) + out
  BY <1>2, <1>3
<1>7. ASSUME NEW e \in committed, e.rev > (doc.rev - n) + out
      PROVE  w[e.rev - ((doc.rev - n) + out)] = e.id
  <2>1. e.rev \in Nat /\ e.rev <= doc.rev /\ e.rev > doc.rev - n
    BY <1>2, <1>3, <1>5, <1>7
  <2>2. e.rev - (doc.rev - n) \in 1..n /\ e.rev - (doc.rev - n) > out
        /\ (e.rev - (doc.rev - n)) - out = e.rev - ((doc.rev - n) + out)
    <3>1. out \in {0, 1} /\ e.rev > (doc.rev - n) + out
      BY <1>2, <1>7
    <3> QED
      BY ONLY <1>3, <2>1, <3>1
  <2> QED
    BY <1>2, <1>5, <2>1, <2>2
<1>8. w[new.rev - ((doc.rev - n) + out)] = new.id
  <2>1. new.rev - ((doc.rev - n) + out) = Len(w)
    BY <1>1, <1>2, <1>3
  <2> QED
    BY <1>2, <2>1
<1>9. w # <<>>
  BY <1>2
<1>10. Oldest' = (doc.rev - n) + out
  BY <1>4, <1>6 DEF Oldest
<1>11. \A e \in committed' : e.rev \in 1..(doc.rev + 1)
  BY <1>1, <1>3, <1>4, <1>5
<1>12. \A e \in committed' : e.rev > Oldest' => doc'.commits[e.rev - Oldest'] = e.id
  BY <1>4, <1>7, <1>8, <1>10
<1>13. Anchoring'
  <2>1. doc.anchored => doc.anchorRev \in Nat /\ doc.anchorRev <= doc.rev
    BY <1>1 DEF TypeOK, WindowInv, Anchoring
  <2>2. doc'.anchored => (doc.anchored /\ doc'.anchorRev = doc.anchorRev) \/ doc'.anchorRev = doc'.rev
    BY DEF DocMoved
  <2> QED
    BY <1>3, <1>4, <2>1, <2>2 DEF Anchoring
<1>16. Filling'
  BY <1>3, <1>4, <1>14, <1>15 DEF Filling
<1> QED
  BY <1>4, <1>6, <1>9, <1>11, <1>12, <1>13, <1>16 DEF WindowExact

(* What the window still reaches it proves, and it reaches every write     *)
(* that has not been outrun.                                               *)
LEMMA NotOutrunProved ==
  ASSUME WindowInv, NEW e \in committed, ~Outrun(e)
  PROVE  Proved(e)
<1>1. /\ e.rev \in 1..doc.rev
      /\ e.rev > Oldest => doc.commits[e.rev - Oldest] = e.id
  BY DEF WindowInv, WindowExact
<1>2. /\ doc.commits \in Seq(Nat) /\ doc.rev \in Nat
      /\ Len(doc.commits) <= CommitWindow /\ CommitWindow \in Nat
      /\ Len(doc.commits) <= doc.rev
      /\ Len(doc.commits) < CommitWindow => doc.rev = Len(doc.commits)
  BY WindowAssumption DEF WindowInv, WindowExact, Filling, IInv, TypeOK
<1>3. e.rev > Oldest
  <2>1. ~(e.rev + CommitWindow <= doc.rev)
    BY DEF Outrun
  <2>2. CASE Len(doc.commits) < CommitWindow
    BY <1>1, <1>2, <2>2 DEF Oldest
  <2>3. CASE Len(doc.commits) = CommitWindow
    BY <1>1, <1>2, <2>1, <2>3 DEF Oldest
  <2> QED
    BY <1>2, <2>2, <2>3
<1>4. e.rev - Oldest \in DOMAIN doc.commits
  BY <1>1, <1>2, <1>3 DEF Oldest
<1> QED
  BY <1>1, <1>3, <1>4 DEF Proved, Commits

(* What has been outrun stays outrun: revisions only grow.                 *)
LEMMA OutrunStays ==
  ASSUME WindowInv, [Next]_vars, NEW e \in committed, Outrun(e)
  PROVE  Outrun(e)'
<1>1. e.rev \in Nat /\ doc.rev \in Nat /\ CommitWindow \in Nat
  BY WindowAssumption DEF WindowInv, IInv, TypeOK, Event
<1>2. doc'.rev = doc.rev \/ doc'.rev = doc.rev + 1
  BY DocStep DEF DocMoved
<1> QED
  BY <1>1, <1>2 DEF Outrun

LEMMA WindowInvStep ==
  ASSUME WindowInv, [Next]_vars
  PROVE  WindowInv'
<1>1. IInv /\ IInv'
  BY NextIInv DEF WindowInv
<1>2. Anchoring' /\ WindowExact' /\ Filling'
  <2>1. CASE UNCHANGED <<doc, committed>>
    BY <2>1 DEF WindowInv, Anchoring, WindowExact, Filling, Oldest
  <2> QED
    BY <2>1, DocStep, MoveKeepsWindow
<1>3. nextId \in Nat /\ nextId' \in Nat /\ nextId <= nextId' /\ discarded \subseteq Nat
      /\ \A e \in Known : e.id \in Nat /\ e.id < nextId
  <2>1. TypeOK /\ Known \subseteq Event /\ \A e \in Known : e.id < nextId
    BY <1>1 DEF IInv, TypeOK, Unique, Known
  <2>2. nextId' = nextId \/ nextId' = nextId + 1
    BY <1>1, KnownStep
  <2> QED
    BY <2>1, <2>2 DEF TypeOK, Event
<1>4. ReservedNew'
  <2>1. CASE Reserve
    <3> DEFINE e == EventOf("transition", doc.rev + 1)
    <3>1. cur' = e /\ UNCHANGED <<doc, discarded>>
      BY <2>1 DEF Reserve, docVars
    <3>2. e.id = nextId /\ e.kind = "transition" /\ e.rev = doc.rev + 1
      BY DEF EventOf
    <3>3. nextId \notin discarded
      BY <1>3 DEF WindowInv, DroppedOld
    <3> QED
      BY <3>1, <3>2, <3>3 DEF ReservedNew
  <2>2. CASE pc' = "reserved" /\ UNCHANGED vars
    BY <2>2 DEF vars, WindowInv, ReservedNew
  <2> QED
    BY <2>1, <2>2, ReserveFrame DEF ReservedNew
<1>5. DroppedOld'
  <2>1. ASSUME NEW d \in discarded' PROVE d \in Nat /\ d < nextId
    <3>1. CASE d \in discarded
      BY <1>3, <3>1 DEF WindowInv, DroppedOld
    <3>2. ASSUME NEW r \in outbox, ReplayDiscard(r) PROVE d \in discarded \/ d = r.id
      BY <2>1, <3>2 DEF ReplayDiscard
    <3>3. \A r \in outbox : r.id \in Nat /\ r.id < nextId
      BY <1>3 DEF Known
    <3> QED
      BY <2>1, <3>1, <3>2, <3>3, DiscardFrame
  <2> QED
    BY <1>3, <2>1 DEF DroppedOld
<1>6. DiscardsOnlyUncommitted'
  <2> SUFFICES ASSUME NEW e \in committed', e.id \in discarded' PROVE Outrun(e)'
    BY DEF DiscardsOnlyUncommitted
  <2>1. ASSUME NEW r \in outbox, ReplayDiscard(r)
        PROVE  Outrun(e)'
    <3>1. e \in committed /\ discarded' = discarded \cup {r.id} /\ ~Proved(r)
      BY <2>1 DEF ReplayDiscard, docVars
    <3>2. CASE e.id \in discarded
      BY <3>1, <3>2, OutrunStays DEF WindowInv, DiscardsOnlyUncommitted
    <3>3. CASE e.id = r.id
      <4>1. e = r
        BY <3>1, <3>3 DEF WindowInv, IInv, Unique, Known
      <4>2. Outrun(e)
        BY <3>1, <4>1, NotOutrunProved
      <4> QED
        BY <3>1, <4>2, OutrunStays
    <3> QED
      BY <3>1, <3>2, <3>3
  <2>2. CASE \A r \in outbox : ~ReplayDiscard(r)
    <3>1. discarded' = discarded
      BY <2>2, DiscardFrame
    <3>2. e \in committed
      BY <3>1, DocStep DEF DocMoved
    <3> QED
      BY <3>1, <3>2, OutrunStays DEF WindowInv, DiscardsOnlyUncommitted
  <2> QED
    BY <2>1, <2>2
<1> QED
  BY <1>1, <1>2, <1>4, <1>5, <1>6 DEF WindowInv

LEMMA InitWindowInv == Init => WindowInv
<1> SUFFICES ASSUME Init PROVE WindowInv
  OBVIOUS
<1>1. Anchoring /\ WindowExact /\ Filling
  BY DEF Init, Anchoring, WindowExact, Filling
<1>2. ReservedNew /\ DroppedOld /\ DiscardsOnlyUncommitted
  BY DEF Init, ReservedNew, DroppedOld, DiscardsOnlyUncommitted
<1> QED
  BY <1>1, <1>2, InitIInv DEF WindowInv

LEMMA WindowInvariance == Spec => []WindowInv
<1> QED
  BY InitWindowInv, WindowInvStep, PTL DEF Spec

(* Whatever crashes, tears or is lost, and whoever moves the document, what *)
(* replay drops as "did not happen" did not happen, or COMMIT_WINDOW later  *)
(* writes have landed since.                                                *)
THEOREM DiscardedNeverLanded == Spec => []DiscardsOnlyUncommitted
<1>1. WindowInv => DiscardsOnlyUncommitted
  BY DEF WindowInv
<1> QED
  BY <1>1, WindowInvariance, PTL

(* Nothing a write landed is held before it is outrun.                     *)
HeldLate == \A e \in committed : Held(e) => Outrun(e)

(* A row is called unprovable only after as many later writes have landed  *)
(* as canonical state remembers, whatever failed or tore in between.       *)
THEOREM HeldRowsAreOutrun == Spec => []HeldLate
<1>1. WindowInv => HeldLate
  BY NotOutrunProved DEF HeldLate, Held
<1> QED
  BY <1>1, WindowInvariance, PTL

(* The window never reaches back: no later run can decide about a landed   *)
(* row that is held, although ledger.py:519 keeps it for one that can.     *)
HeldStays == [][\A r \in committed : Held(r) => Held(r)']_vars

LEMMA HeldStep ==
  ASSUME WindowInv, [Next]_vars, NEW r \in committed, Held(r)
  PROVE  Held(r)'
<1>1. CASE UNCHANGED doc
  BY <1>1 DEF Held, Proved, HasTxn, Commits, CommittedRevision
<1>2. ASSUME NEW new, DocMoved(new), new \notin committed
      PROVE  Held(r)'
  <2> DEFINE w == Remember(new.id)
             n == Len(doc.commits)
  <2>1. /\ TypeOK /\ new.id \in Nat /\ doc.commits \in Seq(Nat) /\ doc.rev \in Nat
        /\ r.rev \in 1..doc.rev /\ new.rev = doc.rev + 1
        /\ CommitWindow \in Nat /\ n \in Nat
    BY <1>2, WindowAssumption DEF WindowInv, IInv, TypeOK, WindowExact, DocMoved
  <2>2. PICK out \in {0, 1} : /\ Len(w) = n + 1 - out /\ Len(w) > 0 /\ w[Len(w)] = new.id
    BY <2>1, RememberExact
  <2>3. /\ w \in Seq(Nat) /\ Len(w) <= CommitWindow
        /\ \A i \in DOMAIN w : w[i] = new.id \/ w[i] \in Commits
    BY <2>1, RememberFacts DEF Commits
  <2>4. r.id # new.id
    <3>1. new \in committed' /\ IInv' /\ r \in committed'
      BY <1>2, NextIInv DEF WindowInv, DocMoved
    <3>2. new.id = r.id => new = r
      BY <3>1 DEF IInv, Unique, Known
    <3> QED
      BY <1>2, <3>2
  <2>5. /\ HasTxn(r) /\ r.id \notin Commits
        /\ r.rev <= CommittedRevision - n
    BY DEF Held, Proved
  <2>6. doc'.commits = w /\ doc'.rev = doc.rev + 1
    BY <1>2 DEF DocMoved
  <2>7. r.id \notin Commits' /\ Commits' # {}
    BY <2>2, <2>3, <2>4, <2>5, <2>6 DEF Commits
  (* A landed row is held only when the window is full. *)
  <2>8. n = CommitWindow
    <3>1. Outrun(r)
      BY NotOutrunProved DEF Held
    <3>2. doc.rev >= CommitWindow + 1
      BY <2>1, <3>1 DEF Outrun
    <3>3. n <= CommitWindow /\ (n < CommitWindow => doc.rev = n)
      BY DEF WindowInv, Filling, IInv, TypeOK
    <3> QED
      BY <2>1, <3>2, <3>3
  <2>9. Len(w) <= n
    BY <2>3, <2>8
  <2>10. CommittedRevision <= CommittedRevision' /\ CommittedRevision \in Nat
         /\ CommittedRevision' \in Nat
    <3>1. doc.anchorRev \in Nat /\ (doc.anchored => doc.anchorRev <= doc.rev)
      BY <2>1 DEF TypeOK, WindowInv, Anchoring
    <3>2. doc'.anchored => (doc.anchored /\ doc'.anchorRev = doc.anchorRev) \/ doc'.anchorRev = doc'.rev
      BY <1>2 DEF DocMoved
    <3>3. doc.anchored => doc'.anchored
      BY <1>2 DEF DocMoved
    <3> QED
      BY <2>1, <2>6, <3>1, <3>2, <3>3 DEF CommittedRevision
  <2>11. r.rev <= CommittedRevision' - Len(doc'.commits)
    <3>1. Len(w) \in Nat
      BY <2>3
    <3> HIDE DEF w, n
    <3> QED
      BY <2>1, <2>5, <2>6, <2>9, <2>10, <3>1
  <2> QED
    BY <2>5, <2>7, <2>11 DEF Held, Proved, HasTxn
<1>3. ASSUME NEW new, DocMoved(new) PROVE new \notin committed
  BY <1>3 DEF DocMoved, WindowInv, WindowExact, IInv, TypeOK
<1> QED
  BY <1>1, <1>2, <1>3, DocStep

(* So a landed row that was held once is held for good, whatever fails or   *)
(* tears, whoever writes and however often recover runs.                   *)
THEOREM HeldRowsStayHeld == Spec => HeldStays
<1>1. WindowInv /\ [Next]_vars => [\A r \in committed : Held(r) => Held(r)']_vars
  BY HeldStep
<1> QED
  BY <1>1, WindowInvariance, PTL DEF Spec, HeldStays

-----------------------------------------------------------------------------
(* Every transition accounted for.                                         *)

(* A transition is in the outbox before its state write; what replay has   *)
(* settled is in the stream or was discarded; a row is dropped at the end  *)
(* of a commit only when its event is in the stream: or a whole line of it *)
(* was destroyed.                                                          *)
Settled ==
  /\ pc = "reserved" => cur \in outbox \cup spoiled
  /\ pc \in {"replay", "prune"} =>
       \A e \in Transitions(committed) :
         e.id \in done => InStream(e.id) \/ e.id \in discarded \/ e \in spoiled
  /\ pc = "appended" /\ cur.kind = "transition" => InStream(cur.id) \/ cur \in spoiled

(* The stream holds the known event of an identity and no other.           *)
Named == \A i \in DOMAIN stream : \A e \in Known : stream[i].id = e.id => stream[i] = e

(* Identities outrun revisions, so the bound on events bounds both.        *)
InRange ==
  /\ doc.rev < nextId
  /\ pc = "reserved" => doc.rev + 1 < nextId
  /\ pc = "emit" => cur.kind # "transition"
  /\ \A e \in Known : e.kind = "transition" => e.id \in 1..MaxEvents /\ e.rev \in 1..MaxEvents

JournalInv == WindowInv /\ Settled /\ Accounted /\ Named /\ InRange

(* What is recorded stays recorded, or is spoiled.                         *)
LEMMA RecordStays ==
  ASSUME IInv, Named, [Next]_vars, NEW e \in Known, e.kind = "transition",
         e.id \in IdsOf(stream) \/ e \in spoiled
  PROVE  e.id \in IdsOf(stream') \/ e \in spoiled'
<1>1. stream \in Seq(Event) /\ Known \subseteq Event
  BY DEF IInv, TypeOK, Known
<1>2. CASE StreamKept
  BY <1>2 DEF StreamKept
<1>3. ASSUME NEW g \in Known, stream' = Append(stream, g), spoiled' = spoiled
      PROVE  e.id \in IdsOf(stream') \/ e \in spoiled'
  <2>1. \A i \in DOMAIN stream : i \in DOMAIN stream' /\ stream'[i] = stream[i]
    BY <1>1, <1>3
  <2> QED
    BY <1>3, <2>1 DEF IdsOf
<1>4. CASE StreamCut
  <2>1. PICK n \in 0..Len(stream) :
          /\ stream' = SubSeq(stream, 1, n)
          /\ spoiled' = spoiled \cup Transitions({stream[i] : i \in (n + 1)..Len(stream)})
    BY <1>4 DEF StreamCut
  <2>2. CASE e \in spoiled
    BY <2>1, <2>2
  <2>3. ASSUME NEW i \in DOMAIN stream, stream[i].id = e.id
        PROVE  e.id \in IdsOf(stream') \/ e \in spoiled'
    <3>1. stream[i] = e /\ i \in 1..Len(stream) /\ Len(stream) \in Nat
      BY <1>1, <2>3 DEF Named
    <3>2. CASE i \in 1..n
      <4>1. i \in DOMAIN stream' /\ stream'[i] = stream[i]
        BY <1>1, <2>1, <3>2
      <4> QED
        BY <2>3, <4>1 DEF IdsOf
    <3>3. CASE i \in (n + 1)..Len(stream)
      <4>1. e \in {stream[j] : j \in (n + 1)..Len(stream)}
        BY <3>1, <3>3
      <4> QED
        BY <2>1, <4>1 DEF Transitions
    <3> QED
      BY <3>1, <3>2, <3>3
  <2> QED
    BY <2>2, <2>3 DEF IdsOf
<1> QED
  BY <1>2, <1>3, <1>4, StreamStep DEF StreamGrew

(* An append that returned is in the stream, or joined a partial line.     *)
LEMMA AppendedThere ==
  ASSUME TypeOK, NEW e \in Event, NEW o, AppendStream(e, o), Spoils(e, streamTorn, o),
         Wrote(o), e.kind = "transition"
  PROVE  e.id \in IdsOf(stream') \/ e \in spoiled'
<1>1. CASE streamTorn
  BY <1>1 DEF Spoils, Transitions
<1>2. CASE ~streamTorn
  <2>1. stream' = Append(stream, e) /\ stream \in Seq(Event)
    BY <1>2 DEF AppendStream, TypeOK
  <2>2. Len(stream) + 1 \in DOMAIN stream' /\ stream'[Len(stream) + 1] = e
    BY <2>1
  <2> QED
    BY <2>2 DEF IdsOf
<1> QED
  BY <1>1, <1>2

LEMMA SettledStep ==
  ASSUME IInv, Named, Settled, [Next]_vars
  PROVE  Settled'
<1>1. pc' = "reserved" => cur' \in outbox' \cup spoiled'
  <2>1. CASE Reserve
    <3>1. PICK o \in Outcomes :
            /\ AppendOutbox(cur', o) /\ Spoils(cur', outboxTorn, o)
            /\ pc' = IF o = "ok" THEN "reserved" ELSE "idle"
      BY <2>1 DEF Reserve
    <3>2. cur'.kind = "transition"
      BY <2>1 DEF Reserve, EventOf
    <3> QED
      BY <3>1, <3>2 DEF AppendOutbox, Spoils, Wrote, Transitions
  <2> QED
    BY <2>1, ReserveFrame DEF vars, Settled
<1>2. pc' = "appended" /\ cur'.kind = "transition"
        => cur'.id \in IdsOf(stream') \/ cur' \in spoiled'
  <2>1. CASE CommitAppend
    <3>1. cur \in Event /\ cur' = cur /\ TypeOK
      BY <2>1 DEF CommitAppend, localVars, IInv, TypeOK
    <3>2. PICK o \in Outcomes : /\ AppendStream(cur, o) /\ Spoils(cur, streamTorn, o)
                                /\ pc' = "appended" => o = "ok"
      BY <2>1 DEF CommitAppend
    <3> QED
      BY <3>1, <3>2, AppendedThere DEF Wrote
  <2>2. CASE UNCHANGED vars
    BY <2>2 DEF vars, Settled, InStream
  <2>3. CASE ~CommitAppend /\ Next
    BY <2>3 DEF Next, Replay, Apply, Emit, Outside, BeginVerb, BeginRecover,
       ReplayPresent, ReplayHold, ReplayDiscard, ReplayAppend, NextRow, ReplayEnd, Prune,
       Refuse, Reserve, WriteState, WriteViews, CommitDrop, StoreEnvelope, Observe,
       EmitAppend, EmitDefer, Crash, RenderViews, LoseTail, CutTornLine
  <2> QED
    BY <2>1, <2>2, <2>3
<1>3. ASSUME pc' \in {"replay", "prune"}, NEW e \in Transitions(committed'), e.id \in done'
      PROVE  e.id \in IdsOf(stream') \/ e.id \in discarded' \/ e \in spoiled'
  <2> DEFINE Fine == e.id \in IdsOf(stream') \/ e.id \in discarded' \/ e \in spoiled'
  <2>0. ASSUME e \in committed, e.id \in IdsOf(stream) \/ e.id \in discarded \/ e \in spoiled,
               discarded \subseteq discarded'
        PROVE  Fine
    <3>1. e \in Known /\ e.kind = "transition"
      BY <1>3, <2>0 DEF Known, Transitions
    <3> QED
      BY <2>0, <3>1, RecordStays
  <2>1. CASE BeginVerb \/ BeginRecover
    BY <1>3, <2>1 DEF BeginVerb, BeginRecover
  <2>2. ASSUME NEW r \in outbox, ReplayPresent(r) \/ ReplayHold(r) \/ ReplayDiscard(r)
        PROVE  Fine
    <3>1. /\ pc = "replay" /\ committed' = committed /\ discarded \subseteq discarded'
          /\ e.id \in done \/ e.id \in IdsOf(stream) \/ e.id \in discarded'
      BY <1>3, <2>2 DEF ReplayPresent, ReplayHold, ReplayDiscard, NextRow, docVars, InStream
    <3>2. e \in committed /\ e \in Transitions(committed)
      BY <1>3, <3>1 DEF Transitions
    <3> QED
      BY <2>0, <3>1, <3>2 DEF Settled, InStream
  <2>3. ASSUME NEW r \in outbox, ReplayAppend(r)
        PROVE  Fine
    <3>1. PICK o \in Outcomes :
            /\ AppendStream(r, o) /\ Spoils(r, streamTorn, o)
            /\ IF o = "ok" THEN cursor' = r.id /\ done' = done \cup {r.id} /\ pc' = pc
                           ELSE pc' = "prune" /\ UNCHANGED <<cursor, done>>
      BY <2>3, Zenon DEF ReplayAppend
    <3>2. pc = "replay" /\ discarded' = discarded /\ committed' = committed
      BY <2>3 DEF ReplayAppend, NextRow, docVars
    <3>3. r \in Event /\ TypeOK /\ e \in committed /\ e \in Transitions(committed)
          /\ e.kind = "transition"
      BY <1>3, <3>2 DEF IInv, TypeOK, Transitions
    <3>4. CASE e.id \in done
      BY <2>0, <3>2, <3>3, <3>4 DEF Settled, InStream
    <3>5. CASE e.id \notin done
      <4>1. o = "ok" /\ e.id = r.id
        BY <1>3, <3>1, <3>5
      <4>2. e = r
        BY <3>3, <4>1 DEF IInv, Unique, Known
      <4> QED
        BY <3>1, <3>3, <4>1, <4>2, AppendedThere DEF Wrote
    <3> QED
      BY <3>4, <3>5
  <2>4. CASE ReplayEnd \/ UNCHANGED vars
    <3>1. /\ pc \in {"replay", "prune"} /\ done' = done /\ discarded' = discarded
          /\ committed' = committed
      BY <1>3, <2>4 DEF ReplayEnd, docVars, localVars, vars
    <3>2. e \in committed /\ e \in Transitions(committed)
      BY <1>3, <3>1 DEF Transitions
    <3> QED
      BY <1>3, <2>0, <3>1, <3>2 DEF Settled, InStream
  <2>6. CASE Prune \/ Apply \/ Emit \/ Outside
    BY <1>3, <2>6 DEF Apply, Emit, Outside, Prune, Refuse, Reserve, WriteState, WriteViews,
       CommitAppend, CommitDrop, StoreEnvelope, Observe, EmitAppend, EmitDefer, Crash,
       RenderViews, LoseTail, CutTornLine
  <2> QED
    BY <2>1, <2>2, <2>3, <2>4, <2>6 DEF Next, Replay
<1> QED
  BY <1>1, <1>2, <1>3 DEF Settled, InStream

(* Rows leave the outbox in two places, and there only rows whose event is *)
(* in the stream, was discarded or spoiled.                                *)
LEMMA RowsDropped ==
  ASSUME IInv, Settled, [Next]_vars, NEW e \in outbox, e \notin outbox',
         e \in Transitions(committed)
  PROVE  /\ e.id \in IdsOf(stream) \/ e.id \in discarded \/ e \in spoiled
         /\ Prune \/ CommitDrop
<1>1. CASE Prune
  <2>1. e.id \in done
    BY <1>1 DEF Prune, DropRows
  <2> QED
    BY <1>1, <2>1 DEF Prune, Settled, InStream
<1>2. CASE CommitDrop
  <2>1. e.id = cur.id
    BY <1>2 DEF CommitDrop, DropRows
  <2>2. e = cur /\ e.kind = "transition"
    BY <2>1 DEF IInv, Unique, Known, Transitions
  <2> QED
    BY <1>2, <2>2 DEF CommitDrop, Settled, InStream
<1>3. CASE Reserve
  BY <1>3 DEF Reserve, AppendOutbox
<1>4. CASE EmitDefer
  BY <1>4 DEF EmitDefer, AppendOutbox
<1>5. CASE ~Prune /\ ~CommitDrop /\ ~Reserve /\ ~EmitDefer
  BY <1>5 DEF Next, Replay, Apply, Emit, Outside, BeginVerb, BeginRecover,
     ReplayPresent, ReplayHold, ReplayDiscard, ReplayAppend, ReplayEnd, Refuse,
     WriteState, WriteViews, CommitAppend, StoreEnvelope, Observe, EmitAppend, Crash,
     RenderViews, LoseTail, CutTornLine, ioVars, vars
<1> QED
  BY <1>1, <1>2, <1>3, <1>4, <1>5

LEMMA AccountedStep ==
  ASSUME WindowInv, Named, Settled, Accounted, [Next]_vars
  PROVE  Accounted'
<1> SUFFICES ASSUME NEW e \in committed', e.kind = "transition"
             PROVE  e.id \in IdsOf(stream') \/ e \in outbox' \/ Outrun(e)' \/ e \in spoiled'
  BY DEF Accounted, InStream
<1>0. IInv
  BY DEF WindowInv
<1>2. CASE e \in committed
  <2>0. e \in Known /\ e \in Transitions(committed)
    BY <1>2 DEF Known, Transitions
  <2>1. e.id \in IdsOf(stream) \/ e \in outbox \/ Outrun(e) \/ e \in spoiled
    BY <1>2 DEF Accounted, InStream
  <2>2. e.id \in discarded => Outrun(e)
    BY <1>2 DEF WindowInv, DiscardsOnlyUncommitted
  <2>3. CASE e.id \in IdsOf(stream) \/ e \in spoiled
    BY <1>0, <2>0, <2>3, RecordStays
  <2>4. CASE Outrun(e)
    BY <1>2, <2>4, OutrunStays
  <2>5. CASE e \in outbox
    BY <1>0, <2>0, <2>2, <2>3, <2>4, <2>5, RowsDropped
  <2> QED
    BY <2>1, <2>3, <2>4, <2>5
<1>3. CASE e \notin committed
  <2>1. CASE WriteState
    <3>1. e = cur /\ cur \in outbox \cup spoiled /\ UNCHANGED <<outbox, spoiled>>
      BY <1>3, <2>1 DEF WriteState, Settled, ioVars
    <3> QED
      BY <3>1
  <2>2. CASE StoreEnvelope
    BY <1>3, <2>2 DEF StoreEnvelope, EventOf
  <2> QED
    BY <1>3, <2>1, <2>2, CommitFrame
<1> QED
  BY <1>2, <1>3

LEMMA NamedStep == ASSUME IInv, Named, [Next]_vars PROVE Named'
<1> SUFFICES ASSUME NEW i \in DOMAIN stream', NEW e \in Known', stream'[i].id = e.id
             PROVE  stream'[i] = e
  BY DEF Named
<1>1. stream \in Seq(Event) /\ nextId \in Nat /\ Known \subseteq Event
      /\ \A j \in DOMAIN stream : stream[j].id < nextId
  BY DEF IInv, TypeOK, Unique, Known
<1>6. \A g, f \in Known : g.id = f.id => g = f
  BY DEF IInv, Unique
<1>2. (i \in DOMAIN stream /\ stream'[i] = stream[i]) \/ (stream'[i] \in Known /\ Quiet)
  <2>1. CASE StreamKept
    BY <2>1 DEF StreamKept
  <2>2. CASE StreamCut
    <3>1. PICK n \in 0..Len(stream) : stream' = SubSeq(stream, 1, n)
      BY <2>2 DEF StreamCut
    <3> QED
      BY <1>1, <3>1
  <2>3. CASE StreamGrew /\ Quiet
    <3>1. PICK g \in Known : stream' = Append(stream, g)
      BY <2>3 DEF StreamGrew
    <3>2. g \in Event
      BY <1>1
    <3> QED
      BY <1>1, <2>3, <3>1, <3>2
  <2> QED
    BY <2>1, <2>2, <2>3, StreamStep
<1>3. e \in Known \/ (e.id = nextId /\ nextId' = nextId + 1)
  BY KnownStep
<1>4. CASE i \in DOMAIN stream /\ stream'[i] = stream[i]
  <2>1. stream[i].id \in Nat /\ stream[i].id < nextId
    <3>1. stream[i] \in Event
      BY <1>1, <1>4
    <3> QED
      BY <1>1, <1>4, <3>1 DEF Event
  <2>2. e.id # nextId
    BY <1>1, <1>4, <2>1
  <2>3. e \in Known
    BY <1>3, <2>2
  <2> QED
    BY <1>4, <2>3 DEF Named
<1>5. CASE stream'[i] \in Known /\ Quiet
  <2>1. nextId' # nextId + 1
    BY <1>1, <1>5 DEF Quiet
  <2>2. e \in Known
    BY <1>3, <2>1
  <2> QED
    BY <1>5, <1>6, <2>2
<1> QED
  BY <1>2, <1>4, <1>5

LEMMA InRangeStep ==
  ASSUME WindowInv, InRange, [Next]_vars
  PROVE  InRange'
<1>1. TypeOK /\ doc.rev \in Nat /\ nextId \in Nat /\ MaxEvents \in Nat /\ IInv
  BY BoundAssumption DEF WindowInv, IInv, TypeOK
<1>2. nextId' \in {nextId, nextId + 1}
  BY <1>1, KnownStep
<1>3. doc'.rev < nextId'
  <2>1. CASE UNCHANGED doc
    BY <1>1, <1>2, <2>1 DEF InRange
  <2>2. CASE WriteState /\ DocMoved(cur)
    BY <1>1, <2>2 DEF WriteState, DocMoved, InRange
  <2>3. CASE StoreEnvelope /\ doc'.rev = doc.rev + 1
    BY <1>1, <2>3 DEF StoreEnvelope, InRange
  <2> QED
    BY <2>1, <2>2, <2>3, DocStep DEF DocMoved
<1>4. pc' = "reserved" => doc'.rev + 1 < nextId'
  <2>1. CASE Reserve
    BY <1>1, <2>1 DEF Reserve, docVars, InRange
  <2> QED
    BY <2>1, ReserveFrame DEF vars, InRange
<1>5. pc' = "emit" => cur'.kind # "transition"
  <2>1. CASE Observe \/ StoreEnvelope
    BY <2>1 DEF Observe, StoreEnvelope, EventOf
  <2>2. CASE UNCHANGED vars
    BY <2>2 DEF vars, InRange
  <2>3. CASE Next /\ ~Observe /\ ~StoreEnvelope
    BY <2>3 DEF Next, Replay, Apply, Emit, Outside, BeginVerb, BeginRecover,
       ReplayPresent, ReplayHold, ReplayDiscard, ReplayAppend, NextRow, ReplayEnd, Prune,
       Refuse, Reserve, WriteState, WriteViews, CommitAppend, CommitDrop,
       EmitAppend, EmitDefer, Crash, RenderViews, LoseTail, CutTornLine
  <2> QED
    BY <2>1, <2>2, <2>3
<1>6. ASSUME NEW e \in Known', e.kind = "transition"
      PROVE  e.id \in 1..MaxEvents /\ e.rev \in 1..MaxEvents
  <2>1. CASE e \in Known
    BY <1>6, <2>1 DEF InRange
  <2>2. CASE e \notin Known
    <3>1. e.id = nextId /\ e.rev = doc.rev + 1 /\ nextId <= MaxEvents
      BY <1>1, <1>6, <2>2, KnownStep
    <3> QED
      BY <1>1, <3>1 DEF InRange
  <2> QED
    BY <2>1, <2>2
<1> QED
  BY <1>3, <1>4, <1>5, <1>6 DEF InRange

LEMMA JournalInvariance == Spec => []JournalInv
<1>1. Init => JournalInv
  <2> SUFFICES ASSUME Init PROVE JournalInv
    OBVIOUS
  <2>1. Settled /\ Accounted /\ Named
    BY DEF Init, Settled, Accounted, Named
  <2>2. InRange
    BY DEF Init, InRange, Known, NoEvent
  <2> QED
    BY <2>1, <2>2, InitWindowInv DEF JournalInv
<1>2. JournalInv /\ [Next]_vars => JournalInv'
  <2> SUFFICES ASSUME JournalInv, [Next]_vars PROVE JournalInv'
    OBVIOUS
  <2>1. IInv /\ WindowInv /\ Settled /\ Accounted /\ Named /\ InRange
    BY DEF JournalInv, WindowInv
  <2> QED
    BY <2>1, WindowInvStep, SettledStep, AccountedStep, NamedStep, InRangeStep
       DEF JournalInv
<1> QED
  BY <1>1, <1>2, PTL DEF Spec

(* Whatever dies or fails between two steps of a verb or of a replay, the  *)
(* event of a transition that landed is in the stream or in the outbox,    *)
(* unless COMMIT_WINDOW later writes have outrun it or one of its lines    *)
(* was destroyed.                                                          *)
THEOREM NothingUnaccounted == Spec => []Accounted
<1>1. JournalInv => Accounted
  BY DEF JournalInv
<1> QED
  BY <1>1, JournalInvariance, PTL

-----------------------------------------------------------------------------
(* Every step of the protocol is a step of the journal, or none. *)

Recorded == {stream[i] : i \in DOMAIN stream}

Transition == [id : 1..MaxEvents, kind : {"transition"}, rev : 1..MaxEvents]

LEMMA TransitionRange ==
  ASSUME InRange, TypeOK, NEW e \in Known, e.kind = "transition"
  PROVE  e \in Transition
<1>1. e \in Event /\ e.id \in 1..MaxEvents /\ e.rev \in 1..MaxEvents
  BY DEF InRange, TypeOK, Known
<1> QED
  BY <1>1 DEF Event, Transition

(* The stream holds every known event whose identity is in it.             *)
LEMMA RecordedById ==
  ASSUME Named, NEW e \in Known, InStream(e.id)
  PROVE  e \in Recorded
BY DEF Named, InStream, IdsOf, Recorded

(* What a step does to the recorded transitions, when it leaves the outbox *)
(* and the document: it records one, or only spoils.                       *)
LEMMA RecordsOne ==
  ASSUME JournalInv, [Next]_vars,
         Transitions(outbox)' = Transitions(outbox),
         Transitions(committed)' = Transitions(committed), doc'.rev = doc.rev
  PROVE  [Promise!Next]_(Promise!jvars)
<1>1. IInv /\ TypeOK /\ InRange /\ stream \in Seq(Event)
  BY DEF JournalInv, WindowInv, IInv, TypeOK
<1>2. CASE StreamKept
  <2>1. Recorded' = Recorded
    BY <1>2 DEF StreamKept, Recorded
  <2>2. Promise!Spoil
    BY <1>2, <2>1 DEF StreamKept, Promise!Spoil, Recorded
  <2> QED
    BY <2>2 DEF Promise!Next
<1>3. ASSUME NEW e \in Known, stream' = Append(stream, e), spoiled' = spoiled,
             ~InStream(e.id), HasTxn(e) => e \in committed
      PROVE  [Promise!Next]_(Promise!jvars)
  <2>1. e \in Event
    BY <1>1 DEF TypeOK, Known
  <2>2. Recorded' = Recorded \cup {e}
    <3>1. /\ DOMAIN stream' = (DOMAIN stream) \cup {Len(stream) + 1}
          /\ \A i \in DOMAIN stream : stream'[i] = stream[i]
          /\ stream'[Len(stream) + 1] = e
      BY <1>1, <1>3, <2>1
    <3> QED
      BY <3>1 DEF Recorded
  <2>3. e \notin Recorded
    BY <1>3 DEF Recorded, InStream, IdsOf
  <2>4. CASE e.kind = "transition"
    <3>1. e \in Transitions(committed) \ Transitions(Recorded)
      BY <1>3, <2>3, <2>4 DEF HasTxn, Transitions
    <3>2. Transitions(Recorded)' = Transitions(Recorded) \cup {e}
      BY <2>2, <2>4 DEF Transitions
    <3>3. e \in Transition
      BY <1>1, <2>4, TransitionRange
    <3> QED
      BY <1>3, <3>1, <3>2, <3>3 DEF Promise!Next, Promise!Record, Recorded, Transition
  <2>5. CASE e.kind # "transition"
    <3>1. Transitions(Recorded)' = Transitions(Recorded)
      BY <2>2, <2>5 DEF Transitions
    <3> QED
      BY <1>3, <3>1 DEF Promise!jvars, Recorded
  <2> QED
    BY <2>4, <2>5
<1>4. CASE StreamCut
  <2>1. PICK n \in 0..Len(stream) :
          /\ stream' = SubSeq(stream, 1, n)
          /\ spoiled' = spoiled \cup Transitions({stream[i] : i \in (n + 1)..Len(stream)})
    BY <1>4 DEF StreamCut
  <2>2. DOMAIN stream' = 1..n /\ DOMAIN stream = 1..Len(stream) /\ Len(stream) \in Nat
        /\ \A i \in 1..n : stream'[i] = stream[i]
    BY <1>1, <2>1
  <2>3. Recorded' \subseteq Recorded
    BY <2>2 DEF Recorded
  <2>4. Recorded \ Recorded' \subseteq {stream[i] : i \in (n + 1)..Len(stream)}
    <3> SUFFICES ASSUME NEW i \in DOMAIN stream, stream[i] \notin Recorded'
                 PROVE  i \in (n + 1)..Len(stream)
      BY DEF Recorded
    <3>1. i \notin 1..n
      BY <2>2 DEF Recorded
    <3> QED
      BY <2>2, <3>1
  <2>5. Transitions(Recorded') \subseteq Transitions(Recorded)
        /\ Transitions(Recorded) \ Transitions(Recorded') \subseteq spoiled'
        /\ spoiled \subseteq spoiled'
    BY <2>1, <2>3, <2>4 DEF Transitions
  <2>6. Promise!Spoil
    BY <2>5 DEF Promise!Spoil, Recorded
  <2> QED
    BY <2>6 DEF Promise!Next
<1> QED
  BY <1>1, <1>2, <1>3, <1>4, StreamStep DEF StreamGrew

(* Rows that leave the outbox are withdrawn for a reason.                  *)
LEMMA WithdrawStep ==
  ASSUME JournalInv, Prune \/ CommitDrop, [Next]_vars
  PROVE  [Promise!Next]_(Promise!jvars)
<1>1. /\ IInv /\ Settled /\ Named /\ DiscardsOnlyUncommitted
      /\ outbox' \subseteq outbox
  BY OutboxDrop DEF JournalInv, WindowInv, IInv, Prune, CommitDrop
<1>2. stream' = stream /\ committed' = committed /\ spoiled' = spoiled /\ doc' = doc
  BY DEF Prune, CommitDrop, docVars
<1>3. ASSUME NEW e \in Transitions(outbox) \ Transitions(outbox'), e \in Transitions(committed)
      PROVE  e \in Transitions(Recorded) \cup spoiled \/ Outrun(e)
  <2>1. e \in outbox /\ e \notin outbox' /\ e \in committed /\ e.kind = "transition"
        /\ e \in Known
    BY <1>3 DEF Transitions, Known
  <2>2. e.id \in IdsOf(stream) \/ e.id \in discarded \/ e \in spoiled
    BY <1>1, <1>3, <2>1, RowsDropped
  <2> QED
    BY <1>1, <2>1, <2>2, RecordedById DEF InStream, DiscardsOnlyUncommitted, Transitions
<1>4. Transitions(outbox') \subseteq Transitions(outbox)
  BY <1>1 DEF Transitions
<1>5. Transitions(committed)' = Transitions(committed) /\ Recorded' = Recorded
  BY <1>2 DEF Recorded
<1>6. Promise!Withdraw
  BY <1>2, <1>3, <1>4, <1>5 DEF Promise!Withdraw, Promise!Overtaken, Outrun, Recorded
<1> QED
  BY <1>6 DEF Promise!Next

LEMMA AnnounceStep ==
  ASSUME JournalInv, Reserve, [Next]_vars
  PROVE  [Promise!Next]_(Promise!jvars)
<1> DEFINE e == EventOf("transition", doc.rev + 1)
<1>1. IInv /\ TypeOK /\ InRange
  BY DEF JournalInv, WindowInv, IInv
<1>0. doc.rev \in Nat /\ nextId \in Nat /\ doc.rev < nextId
  BY <1>1 DEF TypeOK, InRange
<1>2. e.id = nextId /\ e.kind = "transition" /\ e.rev = doc.rev + 1
  BY DEF EventOf
<1>3. UNCHANGED <<stream, committed, doc>> /\ nextId <= MaxEvents
      /\ \E o \in Outcomes : AppendOutbox(e, o) /\ Spoils(e, outboxTorn, o)
  BY DEF Reserve, docVars
<1> HIDE DEF e
<1>4. e \in Transition
  <2>1. e.id \in 1..MaxEvents /\ e.rev \in 1..MaxEvents
    BY <1>0, <1>2, <1>3, BoundAssumption
  <2>2. e = [id |-> e.id, kind |-> e.kind, rev |-> e.rev]
    BY DEF e, EventOf
  <2> QED
    BY <1>2, <2>1, <2>2 DEF Transition
<1>5. e \notin Known
  <2>1. \A g \in Known : g.id < nextId
    BY <1>1 DEF IInv, Unique
  <2> QED
    BY <1>0, <1>2, <2>1
<1>6. \/ outbox' = outbox /\ spoiled \subseteq spoiled'
      \/ outbox' = outbox \cup {e} /\ spoiled' = spoiled
  BY <1>3 DEF AppendOutbox, Spoils, Transitions
<1>7. Recorded' = Recorded /\ Transitions(committed)' = Transitions(committed)
  BY <1>3 DEF Recorded
<1>8. CASE outbox' = outbox /\ spoiled \subseteq spoiled'
  <2>1. Promise!Spoil
    BY <1>3, <1>7, <1>8 DEF Promise!Spoil, Recorded
  <2> QED
    BY <2>1 DEF Promise!Next
<1>9. CASE outbox' = outbox \cup {e} /\ spoiled' = spoiled
  <2>1. Transitions(outbox)' = Transitions(outbox) \cup {e}
    BY <1>2, <1>9 DEF Transitions
  <2>2. e \notin Transitions(outbox) \cup Transitions(committed)
    BY <1>5 DEF Known, Transitions
  <2> QED
    BY <1>3, <1>4, <1>7, <1>9, <2>1, <2>2 DEF Promise!Next, Promise!Announce, Recorded, Transition
<1> QED
  BY <1>6, <1>8, <1>9

LEMMA LandStep ==
  ASSUME JournalInv, WriteState, DocMoved(cur), [Next]_vars
  PROVE  [Promise!Next]_(Promise!jvars)
<1>1. cur \in outbox \cup spoiled /\ cur.kind = "transition" /\ TypeOK /\ InRange
      /\ cur.rev = doc.rev + 1
  BY DEF JournalInv, Settled, WindowInv, ReservedNew, WriteState, IInv
<1>2. cur \in Transition
  BY <1>1, TransitionRange DEF Known
<1>3. UNCHANGED <<stream, outbox, spoiled>>
  BY DEF WriteState, ioVars
<1>4. Recorded' = Recorded /\ Transitions(outbox)' = Transitions(outbox)
  BY <1>3 DEF Recorded
<1>5. cur \notin committed
  BY <1>1 DEF JournalInv, WindowInv, WindowExact, TypeOK
<1>6. committed' = committed \cup {cur} /\ doc'.rev = doc.rev + 1
  BY DEF DocMoved
<1>7. Transitions(committed)' = Transitions(committed) \cup {cur}
  BY <1>1, <1>6 DEF Transitions
<1>8. cur \in (Transitions(outbox) \cup spoiled) \ Transitions(committed)
  BY <1>1, <1>5 DEF Transitions
<1> QED
  BY <1>1, <1>2, <1>3, <1>4, <1>6, <1>7, <1>8
     DEF Promise!Next, Promise!Land, Recorded, Transition

(* The store of an envelope moves the document and nothing else the        *)
(* journal knows of.                                                       *)
LEMMA StoreStep ==
  ASSUME StoreEnvelope, doc'.rev = doc.rev + 1
  PROVE  [Promise!Next]_(Promise!jvars)
<1> DEFINE e == EventOf("session", doc.rev + 1)
<1>1. committed' = committed \cup {e} /\ UNCHANGED <<stream, outbox, spoiled>>
  BY DEF StoreEnvelope, ioVars
<1>2. e.kind # "transition"
  BY DEF EventOf
<1> HIDE DEF e
<1>3. Transitions(committed)' = Transitions(committed)
  BY <1>1, <1>2 DEF Transitions
<1>4. Promise!OtherWrite
  BY <1>1, <1>3 DEF Promise!OtherWrite
<1> QED
  BY <1>4 DEF Promise!Next

LEMMA JournalStep ==
  ASSUME JournalInv, [Next]_vars
  PROVE  [Promise!Next]_(Promise!jvars)
<1>0. WindowInv
  BY DEF JournalInv
<1>1. CASE Prune \/ CommitDrop
  BY <1>1, WithdrawStep
<1>2. CASE EmitDefer
  <2>1. cur.kind # "transition" /\ committed' = committed /\ doc' = doc
    BY <1>2 DEF EmitDefer, JournalInv, InRange, docVars
  <2>2. outbox' = outbox \/ outbox' = outbox \cup {cur}
    BY <1>2 DEF EmitDefer, AppendOutbox
  <2>3. Transitions(outbox)' = Transitions(outbox)
    BY <2>1, <2>2 DEF Transitions
  <2> QED
    BY <2>1, <2>3, RecordsOne
<1>4. CASE WriteState /\ DocMoved(cur)
  BY <1>4, LandStep
<1>5. CASE StoreEnvelope /\ DocMoved(EventOf("session", doc.rev + 1))
  BY <1>5, StoreStep DEF DocMoved
<1>3. CASE ~Prune /\ ~CommitDrop /\ ~EmitDefer /\ ~Reserve /\ UNCHANGED <<doc, committed>>
  <2>1. outbox' = outbox
    BY <1>3 DEF Next, Replay, Apply, Emit, Outside, BeginVerb, BeginRecover,
       ReplayPresent, ReplayHold, ReplayDiscard, ReplayAppend, ReplayEnd, Refuse,
       WriteState, WriteViews, CommitAppend, StoreEnvelope, Observe, EmitAppend, Crash,
       RenderViews, LoseTail, CutTornLine, ioVars, vars
  <2> QED
    BY <1>3, <2>1, RecordsOne
<1> QED
  BY <1>0, <1>1, <1>2, <1>3, <1>4, <1>5, AnnounceStep, DocStep

(* The two-phase protocol over an outbox, a state document and a stream    *)
(* implements the promise of module Journal, under every fault.            *)
THEOREM LedgerKeepsPromise == Spec => ImplementsJournal
<1>1. Init => Promise!Init
  BY DEF Init, Promise!Init, Transitions
<1>2. JournalInv /\ [Next]_vars => [Promise!Next]_(Promise!jvars)
  BY JournalStep
<1> QED
  BY <1>1, <1>2, JournalInvariance, PTL DEF Spec, ImplementsJournal, Promise!Spec

(* The promise alone says what a reader of the audit can rely on: a          *)
(* transition that landed is in the stream or still announced, unless it was *)
(* spoiled or overtaken, and none is in the stream that did not land.        *)
THEOREM LedgerIsFaithful == Spec => []Promise!Faithful
<1>1. Init => Promise!Faithful
  BY DEF Init, Promise!Faithful, Transitions
<1>2. JournalInv /\ [Next]_vars => JournalInv /\ [Promise!Next]_(Promise!jvars)
  BY JournalStep
<1>3. JournalInv /\ Promise!Faithful /\ [Promise!Next]_(Promise!jvars) => Promise!Faithful'
  <2> SUFFICES ASSUME JournalInv, Promise!Faithful, [Promise!Next]_(Promise!jvars)
               PROVE  Promise!Faithful'
    OBVIOUS
  <2>0. /\ doc.rev \in Nat /\ CommitWindow \in Nat
        /\ \A t \in Transitions(committed) : t.rev \in Nat
    BY WindowAssumption DEF JournalInv, WindowInv, IInv, TypeOK, Event, Transitions
  <2>1. ASSUME NEW t \in Transition, \/ Promise!Announce(t) \/ Promise!Record(t)
        PROVE  Promise!Faithful'
    BY <2>1 DEF Promise!Announce, Promise!Record, Promise!Faithful, Promise!Overtaken
  <2>2. ASSUME NEW t \in Transition, Promise!Land(t)
        PROVE  Promise!Faithful'
    <3>1. doc'.rev = doc.rev + 1
      BY <2>2 DEF Promise!Land
    <3>2. \A u \in Transitions(committed) :
            u.rev + CommitWindow <= doc.rev => u.rev + CommitWindow <= doc'.rev
      BY <2>0, <3>1
    <3>3. \A u \in Transitions(committed) :
            u \in Transitions(Recorded) \cup Transitions(outbox) \cup spoiled
              \/ u.rev + CommitWindow <= doc.rev
      BY DEF Promise!Faithful, Promise!Overtaken, Recorded
    <3>4. Transitions(committed)' = Transitions(committed) \cup {t}
          /\ t \in Transitions(outbox) \cup spoiled
          /\ UNCHANGED <<Transitions(Recorded), Transitions(outbox), spoiled>>
      BY <2>2 DEF Promise!Land, Recorded
    <3>5. Transitions(Recorded) \subseteq Transitions(committed)
      BY DEF Promise!Faithful, Recorded
    <3> QED
      BY <3>2, <3>3, <3>4, <3>5 DEF Promise!Faithful, Promise!Overtaken, Recorded
  <2>3. CASE Promise!OtherWrite
    <3>1. \A u \in Transitions(committed) :
            u.rev + CommitWindow <= doc.rev => u.rev + CommitWindow <= doc'.rev
      BY <2>0, <2>3 DEF Promise!OtherWrite
    <3> QED
      BY <2>3, <3>1 DEF Promise!OtherWrite, Promise!Faithful, Promise!Overtaken
  <2>4. CASE Promise!Withdraw
    BY <2>4 DEF Promise!Withdraw, Promise!Faithful, Promise!Overtaken
  <2>5. CASE Promise!Spoil
    BY <2>5 DEF Promise!Spoil, Promise!Faithful, Promise!Overtaken
  <2>6. CASE UNCHANGED Promise!jvars
    BY <2>6 DEF Promise!jvars, Promise!Faithful, Promise!Overtaken
  <2> QED
    BY <2>1, <2>2, <2>3, <2>4, <2>5, <2>6 DEF Promise!Next, Transition
<1> QED
  BY <1>1, <1>2, <1>3, JournalInvariance, PTL DEF Spec
-----------------------------------------------------------------------------
(* The safety half of EventuallyRecorded: the row of a transition that     *)
(* landed and is not in the stream waits in the outbox, proved, unless     *)
(* COMMIT_WINDOW later writes have outrun it or a line of it was destroyed.*)

Waits ==
  \A e \in committed :
    e.kind = "transition" /\ ~InStream(e.id) /\ ~Outrun(e) /\ e \notin spoiled
      => e \in outbox /\ Proved(e)

(* A landed transition that is not yet recorded, outrun or spoiled is in   *)
(* the outbox and proved, so the next replay appends it.                   *)
THEOREM LandedRowsWaitProved == Spec => []Waits
<1>1. WindowInv /\ Accounted => Waits
  BY NotOutrunProved DEF Waits, Accounted
<1> QED
  BY <1>1, WindowInvariance, NothingUnaccounted, PTL
=============================================================================
