------------------------ MODULE ParallelPassesProofs ------------------------
(***************************************************************************)
(* Theorems of ParallelPasses, for every group of passes, every pool,      *)
(* block of ids and menu of sessions.  The argument is in four parts: who  *)
(* is in the window started from the document as it is; where a pass is    *)
(* says what its envelope says; a product was harvested, so that its ids   *)
(* are of its own block; and what a merge has landed is what it can take   *)
(* back.                                                                   *)
(***************************************************************************)
EXTENDS ParallelPasses, FiniteSetTheorems, WellFoundedInduction, TLAPS

Threads     == Passes \cup {"main"}
Dispatching == {"queued", "out", "starting", "storing"}
InSession   == {"recorded", "entered", "ran", "settled", "closing"}
Merging     == {"applying", "merging", "writing", "rereading"}

-----------------------------------------------------------------------------
(* Places in the group, and blocks of ids. *)

LEMMA PlaceIsIndex ==
  ASSUME NEW p \in Passes
  PROVE  Place(p) \in 1..Len(Group) /\ Group[Place(p)] = p
BY DEF Place, Passes

LEMMA PlacesDiffer ==
  ASSUME NEW p \in Passes, NEW q \in Passes, p # q
  PROVE  Place(p) # Place(q)
BY PlaceIsIndex

(* Every set of numbers has a least one. *)
LEMMA LeastOf ==
  ASSUME NEW S \in SUBSET Nat, S # {}
  PROVE  \E n \in S : \A m \in S : n <= m
<1> DEFINE R == {p \in Nat \X Nat : p[1] < p[2]}
<1>1. R = OpToRel(<, Nat)
  BY DEF OpToRel
<1>2. IsWellFoundedOn(R, Nat)
  BY <1>1, NatLessThanWellFounded
<1>3. \E x \in S : \A y \in S : ~ (<<y, x>> \in R)
  BY <1>2, WFMin
<1>4. \A x, y \in Nat : y < x => <<y, x>> \in R
  OBVIOUS
<1> HIDE DEF R
<1>5. PICK n \in S : \A y \in S : ~ (<<y, n>> \in R)
  BY <1>3
<1>6. ASSUME NEW m \in S PROVE n <= m
  <2>1. n \in Nat /\ m \in Nat
    OBVIOUS
  <2>2. ~ (m < n)
    BY <1>4, <1>5, <2>1
  <2> QED
    BY <2>1, <2>2
<1> QED
  BY <1>6

LEMMA LenIsNat == Len(Group) \in Nat
BY GroupAssumption

LEMMA TimesGrows ==
  ASSUME NEW b \in Nat, NEW i \in Nat, NEW j \in Nat, i <= j
  PROVE  b * i \in Nat /\ b * i <= b * j
<1>1. PICK k \in Nat : j = i + k
  OBVIOUS
<1>2. b * j = b * i + b * k /\ b * i \in Nat /\ b * k \in Nat
  BY <1>1, SMTT(30)
<1> QED
  BY <1>2

(* The block of a pass lies above the ids there were and below the bound of  *)
(* Ids.                                                                      *)
LEMMA BlockIsIds ==
  ASSUME NEW p \in Passes, NEW i \in reserve_ids(p)
  PROVE  i \in Ids /\ i \in Nat /\ i > Used
<1> DEFINE n == Place(p)
<1>1. n \in 1..Len(Group) /\ Len(Group) \in Nat /\ Block \in Nat /\ Used \in Nat
  BY PlaceIsIndex, LenIsNat, NumberAssumption
<1>2. Block * (n - 1) \in Nat /\ Block * n \in Nat
      /\ Block * n <= Block * Len(Group) /\ Block * Len(Group) \in Nat
  BY <1>1, TimesGrows
<1>3. i \in (Used + Block * (n - 1) + 1)..(Used + Block * n)
  BY DEF reserve_ids
<1> HIDE DEF n
<1> QED
  BY <1>1, <1>2, <1>3 DEF Ids

(* Two passes never have an id in common. *)
LEMMA BlocksApart ==
  ASSUME NEW p \in Passes, NEW q \in Passes, p # q, NEW i \in reserve_ids(p)
  PROVE  i \notin reserve_ids(q)
<1> DEFINE m == Place(p)
           n == Place(q)
<1>1. /\ m \in Nat \ {0} /\ n \in Nat \ {0} /\ m # n
      /\ Block \in Nat /\ Used \in Nat
  BY PlaceIsIndex, PlacesDiffer, LenIsNat, NumberAssumption
<1>2. i \in (Used + Block * (m - 1) + 1)..(Used + Block * m)
  BY DEF reserve_ids
<1>3. SUFFICES ASSUME i \in (Used + Block * (n - 1) + 1)..(Used + Block * n)
               PROVE  FALSE
  BY DEF reserve_ids
<1> HIDE DEF m, n
<1>4. Block * (m - 1) \in Nat /\ Block * m \in Nat /\ Block * (n - 1) \in Nat /\ Block * n \in Nat
  BY <1>1, TimesGrows
<1>5. CASE m < n
  <2>1. Block * m <= Block * (n - 1)
    BY <1>1, <1>5, TimesGrows
  <2> QED
    BY <1>1, <1>2, <1>3, <1>4, <2>1
<1>6. CASE n < m
  <2>1. Block * n <= Block * (m - 1)
    BY <1>1, <1>6, TimesGrows
  <2> QED
    BY <1>1, <1>2, <1>3, <1>4, <2>1
<1> QED
  BY <1>1, <1>5, <1>6

-----------------------------------------------------------------------------
(* What envelope.store makes of a document. *)

LEMMA StoredDoc ==
  ASSUME NEW d \in Docs, NEW p \in Passes, NEW end \in Ends
  PROVE  /\ Stored(d, p, end) \in Docs
         /\ Stored(d, p, end).findings = d.findings
         /\ Stored(d, p, end).queue = d.queue
         /\ Stored(d, p, end).merges = d.merges
         /\ Stored(d, p, end).sessions[p] = end
         /\ \A q \in Passes \ {p} :
              Stored(d, p, end).sessions[q] =
                IF end = "open" /\ d.sessions[q] = "open" /\ q \notin Live(p)
                THEN "crash" ELSE d.sessions[q]
<1> DEFINE s == [q \in Passes |->
                   IF q = p THEN end
                   ELSE IF end = "open" /\ d.sessions[q] = "open" /\ q \notin Live(p)
                        THEN "crash" ELSE d.sessions[q]]
<1>1. s \in [Passes -> Ends]
  BY DEF Docs, Ends
<1>2. Stored(d, p, end) = [d EXCEPT !.rev = @ + 1, !.sessions = s]
  BY DEF Stored
<1> HIDE DEF s
<1> DEFINE e == Stored(d, p, end)
<1>3. d.rev \in Nat /\ DOMAIN d = {"rev", "findings", "queue", "sessions", "merges"}
  BY DEF Docs
<1>4. /\ e.findings = d.findings /\ e.queue = d.queue
      /\ e.sessions = s /\ e.rev = d.rev + 1 /\ e.merges = d.merges
  BY <1>2, <1>3
<1>5. e = [rev |-> d.rev + 1, findings |-> d.findings, queue |-> d.queue, sessions |-> s,
           merges |-> d.merges]
  BY <1>2, <1>3 DEF Docs
<1>6. e \in Docs
  BY <1>1, <1>3, <1>5 DEF Docs
<1> QED
  BY <1>4, <1>6 DEF s

LEMMA BaseIsDoc == Base \in Docs
<1>1. \A i \in 1..Used : i \in Ids
  <2>1. Used \in Nat /\ Block * Len(Group) \in Nat
    BY NumberAssumption, LenIsNat, TimesGrows
  <2> QED
    BY <2>1 DEF Ids
<1>2. Base.findings \subseteq Findings
  BY <1>1 DEF Base, Findings
<1> DEFINE fs == Base.findings
<1>3. Base = [rev |-> 0, findings |-> fs, queue |-> Passes,
              sessions |-> [p \in Passes |-> "none"], merges |-> {}]
  BY DEF Base
<1>4. fs \in SUBSET Findings
  BY <1>2
<1> HIDE DEF fs
<1> QED
  BY <1>3, <1>4 DEF Docs, Ends

(* What a merge makes of one. *)
Extended(d, fs, qs, ps) ==
  [d EXCEPT !.rev = @ + 1, !.findings = @ \cup fs, !.queue = @ \cup qs, !.merges = @ \cup ps]

LEMMA MergedDoc ==
  ASSUME NEW d \in Docs, NEW fs \in SUBSET Findings, NEW qs \in SUBSET (Passes \cup Others),
         NEW ps \in SUBSET Passes
  PROVE  Extended(d, fs, qs, ps) \in Docs
<1> DEFINE e == Extended(d, fs, qs, ps)
<1>1. e = [d EXCEPT !.rev = @ + 1, !.findings = @ \cup fs, !.queue = @ \cup qs,
                    !.merges = @ \cup ps]
  BY DEF Extended
<1> HIDE DEF e
<1>2. e = [rev |-> d.rev + 1, findings |-> d.findings \cup fs,
           queue |-> d.queue \cup qs, sessions |-> d.sessions, merges |-> d.merges \cup ps]
  BY <1>1 DEF Docs
<1>3. d.findings \cup fs \in SUBSET Findings /\ d.queue \cup qs \in SUBSET (Passes \cup Others)
      /\ d.sessions \in [Passes -> Ends] /\ d.rev + 1 \in Nat
      /\ d.merges \cup ps \in SUBSET Passes
  BY DEF Docs
<1>4. e \in Docs
  BY <1>2, <1>3 DEF Docs
<1> QED
  BY <1>4 DEF e

-----------------------------------------------------------------------------
(* Types, and what a product and a merge are. *)

(* What a session did is an act, whatever of it git has staged.              *)
LEMMA ActsTyped ==
  /\ Idle \in Acts /\ [Idle EXCEPT !.ends = "lapsed"] \in Acts /\ NoSeed \in Seeds
  /\ \A m \in Menu : m \in Acts /\ Staged(m) \subseteq Acts
<1>1. Idle \in Acts /\ NoSeed \in Seeds
  BY NumberAssumption DEF Idle, Acts, NoSeed, Seeds
<1>2. [Idle EXCEPT !.ends = "lapsed"] \in Acts
  BY <1>1 DEF Acts
<1>3. ASSUME NEW m \in Menu PROVE m \in Acts /\ Staged(m) \subseteq Acts
  <2>1. m \in Acts
    BY MenuAssumption
  <2>2. ASSUME NEW F \in SUBSET m.files
        PROVE  [m EXCEPT !.files = F, !.ends = IF @ = "material" THEN "ok" ELSE @] \in Acts
    <3>1. /\ m.files \in SUBSET Files
          /\ (IF m.ends = "material" THEN "ok" ELSE m.ends) \in {"ok", "failed", "lapsed", "material"}
      BY <2>1 DEF Acts
    <3> QED
      BY <2>1, <3>1 DEF Acts
  <2> QED
    BY <2>1, <2>2 DEF Staged
<1> QED
  BY <1>1, <1>2, <1>3

(* A product was harvested, and what it was harvested from is fixed since. *)
ProductsHarvested ==
  \A p \in Passes : answer[p] = "product" =>
     pc[p] \in {"settled", "closing", "done"} /\ Harvested(p)

(* What is being merged is a product, and it was not merged before. *)
OneMerge ==
  main \in Merging =>
    /\ turn \in Passes
    /\ pc[turn] = "done" /\ answer[turn] = "product" /\ result[turn] = "none"

(* Nothing has begun before the run was admitted. *)
NothingBegun ==
  main = "start" => \A p \in Passes : pc[p] = "queued" /\ result[p] = "none"

(* A future that has completed holds an answer. *)
FuturesHold ==
  \A p \in Passes : pc[p] \in {"settled", "closing", "done"} => answer[p] # "none"

Typed == TypeOK /\ ProductsHarvested /\ OneMerge /\ NothingBegun /\ FuturesHold

(* What a harvested pass brings is of its own block and of itself. *)
LEMMA HarvestTyped ==
  ASSUME TypeOK, NEW p \in Passes, Harvested(p)
  PROVE  /\ New(p) \in SUBSET Findings /\ Remainder(p) \in SUBSET (Passes \cup Others)
         /\ \A r \in New(p) : r.id \in reserve_ids(p) /\ r.pass = p
<1>1. \A r \in New(p) : r.id \in reserve_ids(p) /\ r.pass = p
  BY DEF Harvested, Foreign, Outside
<1>2. New(p) \in SUBSET Findings
  <2> SUFFICES ASSUME NEW r \in New(p) PROVE r \in Findings
    OBVIOUS
  <2>1. r.id \in Ids /\ r.pass \in Passes
    BY <1>1, BlockIsIds
  <2>2. r \in seed[p].findings \/ r \in Filed(p)
    BY DEF New
  <2>3. CASE r \in seed[p].findings
    <3>1. seed[p] \in Seeds
      BY DEF TypeOK
    <3> QED
      BY <2>3, <3>1 DEF Seeds
  <2>4. CASE r \in Filed(p)
    <3>1. PICK i, q : r = [id |-> i, pass |-> q]
      BY <2>4 DEF Filed
    <3> QED
      BY <2>1, <3>1 DEF Findings
  <2> QED
    BY <2>2, <2>3, <2>4
<1>3. Remainder(p) \in SUBSET (Passes \cup Others)
  <2>1. did[p] \in Acts /\ seed[p] \in Seeds
    BY DEF TypeOK
  <2>2. did[p].queues \in SUBSET Others
    BY <2>1 DEF Acts
  <2>3. seed[p].queue \in SUBSET (Passes \cup Others)
    BY <2>1 DEF Seeds
  <2> QED
    BY <2>2, <2>3 DEF Remainder
<1> QED
  BY <1>1, <1>2, <1>3

LEMMA InitTyped == Init => Typed
<1> SUFFICES ASSUME Init PROVE Typed
  OBVIOUS
<1>1. doc \in Docs /\ seen \in [Passes \cup {"main"} -> Docs]
  BY BaseIsDoc DEF Init
<1>2. seed \in [Passes -> Seeds]
  <2>1. NoSeed \in Seeds
    BY ActsTyped
  <2> QED
    BY <2>1 DEF Init
<1>3. did \in [Passes -> Acts]
  BY ActsTyped DEF Init
<1>4. TypeOK
  BY <1>1, <1>2, <1>3, NumberAssumption DEF Init, TypeOK
<1> QED
  BY <1>4 DEF Init, Typed, ProductsHarvested, OneMerge, NothingBegun, FuturesHold, Merging

(* Taking and leaving the window. *)
LEMMA WindowTyped ==
  ASSUME TypeOK, NEW t \in Threads
  PROVE  /\ Begin(t) => window' \in Passes \cup {"main", Nobody} /\ seen' \in [Threads -> Docs]
         /\ Leave(t) => window' \in Passes \cup {"main", Nobody} /\ seen' \in [Threads -> Docs]
<1>1. /\ Begin(t) => seen' = [seen EXCEPT ![t] = doc] /\ window' = t
      /\ Leave(t) => seen' = [seen EXCEPT ![t] = Base] /\ window' = Nobody
  BY DEF Begin, Leave
<1>2. seen \in [Threads -> Docs] /\ doc \in Docs
  BY DEF TypeOK, Threads
<1> QED
  BY <1>1, <1>2, BaseIsDoc DEF Threads

LEMMA WorkerTyped ==
  ASSUME TypeOK, NEW p \in Passes, Worker(p)
  PROVE  TypeOK'
<1> USE DEF TypeOK
<1>1. CASE Submit(p)
  BY <1>1 DEF Submit, mainVars
<1>2. CASE Door(p)
  BY <1>2 DEF Door, Answered, mainVars
<1>3. CASE Dispatch(p)
  BY <1>3, WindowTyped DEF Dispatch, Threads, mainVars
<1>4. CASE Dispatched(p)
  <2>1. doc' \in Docs
    <3>1. seen[p] \in Docs /\ "open" \in Ends
      BY DEF Ends
    <3> QED
      BY <1>4, <3>1, StoredDoc DEF Dispatched
  <2>2. window' \in Passes \cup {"main", Nobody} /\ seen' \in [Passes \cup {"main"} -> Docs]
    BY <1>4, WindowTyped DEF Dispatched, Threads
  <2> QED
    BY <1>4, <2>1, <2>2 DEF Dispatched, Answered, mainVars
<1>5. CASE Enter(p)
  <2>1. seed' \in [Passes -> Seeds]
    <3>1. [findings |-> doc.findings, queue |-> doc.queue, files |-> files] \in Seeds
      BY DEF Docs, Seeds
    <3> QED
      BY <1>5, <3>1 DEF Enter
  <2>2. did' \in [Passes -> Acts]
    BY <1>5, ActsTyped DEF Enter
  <2> QED
    BY <1>5, <2>1, <2>2 DEF Enter, mainVars
<1>6. CASE Run(p)
  <2>1. did' \in [Passes -> Acts]
    BY <1>6, ActsTyped DEF Run
  <2> QED
    BY <1>6, <2>1 DEF Run, mainVars
<1>7. CASE Settle(p)
  BY <1>7 DEF Settle, mainVars
<1>8. CASE Finish(p)
  BY <1>8, WindowTyped DEF Finish, Threads, mainVars
<1>9. CASE Finished(p)
  <2>1. doc' \in Docs
    <3>1. seen[p] \in Docs /\ OutcomeOf(answer[p]) \in Ends
      BY DEF Ends, OutcomeOf
    <3> QED
      BY <1>9, <3>1, StoredDoc DEF Finished
  <2>2. window' \in Passes \cup {"main", Nobody} /\ seen' \in [Passes \cup {"main"} -> Docs]
    BY <1>9, WindowTyped DEF Finished, Threads
  <2>3. seed' \in [Passes -> Seeds] /\ did' \in [Passes -> Acts]
    BY <1>9, ActsTyped DEF Finished, Gone
  <2> QED
    BY <1>9, <2>1, <2>2, <2>3 DEF Finished, mainVars
<1> QED
  BY <1>1, <1>2, <1>3, <1>4, <1>5, <1>6, <1>7, <1>8, <1>9 DEF Worker

(* What a merge writes is a document. *)
LEMMA MutatedDoc ==
  ASSUME Typed, main = "writing"
  PROVE  Mutated \in Docs
<1>1. turn \in Passes /\ Harvested(turn) /\ TypeOK
  BY DEF Typed, OneMerge, Merging, ProductsHarvested
<1>2. New(turn) \in SUBSET Findings /\ Remainder(turn) \in SUBSET (Passes \cup Others)
  BY <1>1, HarvestTyped
<1>3. Mutated = Extended(seen["main"], New(turn), Remainder(turn), {turn}) /\ seen["main"] \in Docs
  BY <1>1 DEF Mutated, Extended, TypeOK
<1> QED
  BY <1>1, <1>2, <1>3, MergedDoc

(* The main thread takes one completed future and does one of three things. *)
LEMMA TakeAnswers ==
  ASSUME Typed, NEW p \in Passes, Take(p)
  PROVE  /\ main = "waiting" /\ pc[p] = "done" /\ result[p] = "none"
         /\ UNCHANGED <<doc, files, window, seen, workerVars, expect, attempt, undo>>
         /\ \/ /\ answer[p] = "product" /\ main' = "applying" /\ turn' = p
               /\ result' = result
            \/ /\ main' \in {"waiting", "escaping"} /\ turn' = turn
               /\ \E a \in {"error", "nothing", "escaped"} :
                    result' = [result EXCEPT ![p] = a]
<1>1. /\ main = "waiting" /\ pc[p] = "done" /\ result[p] = "none"
      /\ UNCHANGED <<doc, files, window, seen, workerVars, expect, attempt, undo>>
  BY DEF Take, Ready
<1>2. answer[p] \in {"raised", "exit", "nothing", "product"}
  BY <1>1 DEF Typed, TypeOK, FuturesHold
<1>3. CASE answer[p] = "raised"
  BY <1>1, <1>3 DEF Take, Report
<1>4. CASE answer[p] = "nothing"
  BY <1>1, <1>4 DEF Take, Report
<1>5. CASE answer[p] = "exit"
  BY <1>1, <1>5 DEF Take, Report, Escape
<1>6. CASE answer[p] = "product"
  BY <1>1, <1>6 DEF Take
<1> QED
  BY <1>2, <1>3, <1>4, <1>5, <1>6

LEMMA MainTyped ==
  ASSUME Typed, Main
  PROVE  TypeOK'
<1> USE DEF TypeOK, Typed
<1> DEFINE Answers == {"none", "ceiling", "error", "nothing", "escaped", "merged",
                       "conflict", "stale", "taken"}
<1>1. CASE Start
  <2>1. result' \in [Passes -> Answers]
    BY <1>1 DEF Start
  <2> QED
    BY <1>1, <2>1 DEF Start
<1>2. CASE Apply
  <2>1. result' \in [Passes -> Answers]
    BY <1>2 DEF Apply, Report, Escape
  <2>2. turn \in Passes /\ attempt' = 1 /\ expect' = 0
    BY <1>2 DEF Apply, OneMerge, Merging, Base
  <2>3. files' \in [Files -> Passes \cup {Nobody}]
    BY <1>2, <2>2 DEF Apply
  <2>4. undo' \subseteq Files
    <3>1. did[turn] \in Acts
      BY <2>2
    <3>2. did[turn].files \subseteq Files
      BY <3>1 DEF Acts
    <3> QED
      BY <1>2, <3>2 DEF Apply, Todo, Manifest
  <2> QED
    BY <1>2, <2>1, <2>2, <2>3, <2>4, NumberAssumption DEF Apply, Report, Escape, workerVars
<1>3. CASE Merge
  BY <1>3, WindowTyped DEF Merge, Threads, workerVars
<1>4. CASE Merged
  <2>2. doc' \in Docs
    BY <1>4, MutatedDoc DEF Merged
  <2>3. window' \in Passes \cup {"main", Nobody} /\ seen' \in [Passes \cup {"main"} -> Docs]
    BY <1>4, WindowTyped DEF Merged, Threads
  <2> QED
    BY <1>4, <2>2, <2>3 DEF Merged, Report, workerVars
<1>5. CASE Retry
  <2>1. window' \in Passes \cup {"main", Nobody} /\ seen' \in [Passes \cup {"main"} -> Docs]
    BY <1>5, WindowTyped DEF Retry, Threads
  <2>2. attempt' \in 0..MERGE_ATTEMPTS
    BY <1>5, NumberAssumption DEF Retry
  <2> QED
    BY <1>5, <2>1, <2>2 DEF Retry, workerVars
<1>6. CASE Reread
  BY <1>6 DEF Reread, Docs, workerVars
<1>7. CASE GiveUp
  <2>1. window' \in Passes \cup {"main", Nobody} /\ seen' \in [Passes \cup {"main"} -> Docs]
    BY <1>7, WindowTyped DEF GiveUp, Threads
  <2>2. files' \in [Files -> Passes \cup {Nobody}]
    <3>1. turn \in Passes
      BY <1>7 DEF GiveUp, OneMerge, Merging
    <3>2. seed[turn].files \in [Files -> Passes \cup {Nobody}]
      BY <3>1 DEF Seeds
    <3> QED
      BY <1>7, <3>2 DEF GiveUp, Undone
  <2>3. result' \in [Passes -> Answers]
    BY <1>7 DEF GiveUp, Report
  <2> QED
    BY <1>7, <2>1, <2>2, <2>3 DEF GiveUp, workerVars
<1>8. CASE WriteFails
  <2>1. window' \in Passes \cup {"main", Nobody} /\ seen' \in [Passes \cup {"main"} -> Docs]
    BY <1>8, WindowTyped DEF WriteFails, Threads
  <2>2. doc' \in Docs
    BY <1>8, MutatedDoc DEF WriteFails
  <2> QED
    BY <1>8, <2>1, <2>2 DEF WriteFails, Escape, Report, workerVars
<1>9. CASE Return
  BY <1>9 DEF Return, workerVars
<1>10. ASSUME NEW p \in Passes, Take(p) PROVE TypeOK'
  <2>1. /\ UNCHANGED <<doc, files, window, seen, workerVars, expect, attempt, undo>>
        /\ main' \in {"waiting", "escaping", "applying"} /\ turn' \in {turn, p}
        /\ \/ result' = result
           \/ \E a \in Answers : result' = [result EXCEPT ![p] = a]
    BY <1>10, TakeAnswers
  <2> QED
    BY <2>1 DEF workerVars
<1> QED
  BY <1>1, <1>2, <1>3, <1>4, <1>5, <1>6, <1>7, <1>8, <1>9, <1>10 DEF Main

(* After it was settled, a pass keeps its seed, its session and - unless its *)
(* record fails - its answer.                                                *)
LEMMA WorkerProducts ==
  ASSUME Typed, NEW p \in Passes, Worker(p)
  PROVE  ProductsHarvested' /\ OneMerge' /\ NothingBegun' /\ FuturesHold'
<1>1. /\ \A q \in Passes \ {p} : pc'[q] = pc[q] /\ answer'[q] = answer[q]
                                 /\ seed'[q] = seed[q] /\ did'[q] = did[q]
      /\ UNCHANGED <<main, turn, result>>
  BY DEF Typed, TypeOK, Worker, Submit, Door, Dispatch, Dispatched, Enter, Run, Settle, Finish,
     Finished, Gone, Answered, mainVars
<1>2. \A q \in Passes : seed'[q] = seed[q] /\ did'[q] = did[q] => (Harvested(q)' <=> Harvested(q))
  BY DEF Harvested, Foreign, Outside, New, Filed
<1>3. pc[p] # "done"
  BY DEF Worker, Submit, Door, Dispatch, Dispatched, Enter, Run, Settle, Finish, Finished
<1>4. answer'[p] = "product" =>
        pc'[p] \in {"settled", "closing", "done"} /\ Harvested(p)'
  <2> SUFFICES ASSUME answer'[p] = "product"
               PROVE  pc'[p] \in {"settled", "closing", "done"} /\ Harvested(p)'
    OBVIOUS
  <2> USE DEF Typed, TypeOK
  <2>1. CASE Settle(p)
    <3>1. Harvested(p) /\ pc'[p] = "settled" /\ UNCHANGED <<seed, did>>
      BY <2>1 DEF Settle
    <3> QED
      BY <1>2, <3>1
  <2>2. CASE Finish(p) \/ Finished(p)
    <3>1. UNCHANGED <<seed, did>> /\ answer[p] = "product" /\ pc'[p] \in {"closing", "done"}
      BY <2>2 DEF Finish, Finished, Gone
    <3> QED
      BY <1>2, <3>1 DEF ProductsHarvested
  <2>3. CASE Submit(p) \/ Door(p) \/ Dispatch(p) \/ Dispatched(p) \/ Enter(p) \/ Run(p)
    <3>1. answer[p] = "product" /\ pc[p] \notin {"settled", "closing", "done"}
      BY <2>3 DEF Submit, Door, Dispatch, Dispatched, Enter, Run, Answered
    <3> QED
      BY <3>1 DEF ProductsHarvested
  <2> QED
    BY <2>1, <2>2, <2>3 DEF Worker
<1>5. ProductsHarvested'
  BY <1>1, <1>2, <1>4 DEF Typed, ProductsHarvested
<1>6. OneMerge'
  BY <1>1, <1>3 DEF Typed, OneMerge
<1>7. NothingBegun'
  <2>1. main # "start" \/ pc[p] # "queued"
    BY DEF Worker, Submit, Door, Dispatch, Dispatched, Enter, Run, Settle, Finish, Finished
  <2> QED
    BY <1>1, <2>1 DEF Typed, NothingBegun
<1>8. FuturesHold'
  <2>1. pc'[p] \in {"settled", "closing", "done"} => answer'[p] # "none"
    BY DEF Typed, TypeOK, FuturesHold, Worker, Submit, Door, Dispatch, Dispatched, Enter, Run,
       Settle, Finish, Finished, Answered
  <2> QED
    BY <1>1, <2>1 DEF Typed, FuturesHold
<1> QED
  BY <1>5, <1>6, <1>7, <1>8

LEMMA MainProducts ==
  ASSUME Typed, Main
  PROVE  ProductsHarvested' /\ OneMerge' /\ NothingBegun' /\ FuturesHold'
<1> USE DEF Typed
<1>1. UNCHANGED <<seed, did, answer>> /\ main' # "start" /\ (main = "start" \/ pc' = pc)
  <2>1. ASSUME NEW p \in Passes, Take(p)
        PROVE  UNCHANGED <<seed, did, answer, pc>> /\ main' # "start"
    BY <2>1, TakeAnswers DEF workerVars
  <2> QED
    BY <2>1 DEF Main, Start, Apply, Merge, Merged, Retry, Reread, GiveUp, WriteFails, Return,
       Escape, workerVars
<1>2. \A q \in Passes : Harvested(q)' <=> Harvested(q)
  BY <1>1 DEF Harvested, Foreign, Outside, New, Filed
<1>3. ProductsHarvested'
  <2>1. \A q \in Passes : answer[q] = "product" => pc'[q] = pc[q]
    BY <1>1 DEF ProductsHarvested, NothingBegun
  <2> QED
    BY <1>1, <1>2, <2>1 DEF ProductsHarvested
<1>4. OneMerge'
  <2> USE DEF Merging
  <2>1. CASE Start
    <3>1. main' \notin Merging
      BY <2>1 DEF Start
    <3> QED
      BY <3>1 DEF OneMerge
  <2>2. CASE Apply \/ Merge \/ Retry \/ Reread
    <3>1. /\ main \in Merging /\ turn' = turn /\ UNCHANGED <<pc, answer>>
          /\ main' \in Merging => result' = result
      BY <2>2 DEF Apply, Merge, Retry, Reread, Escape, workerVars
    <3> QED
      BY <3>1 DEF OneMerge
  <2>3. CASE Merged \/ GiveUp \/ WriteFails \/ Return
    <3>1. main' \notin Merging
      BY <2>3 DEF Merged, GiveUp, WriteFails, Return, Escape
    <3> QED
      BY <3>1 DEF OneMerge
  <2>4. ASSUME NEW p \in Passes, Take(p) PROVE OneMerge'
    BY <2>4, TakeAnswers DEF workerVars, OneMerge
  <2> QED
    BY <2>1, <2>2, <2>3, <2>4 DEF Main
<1>5. NothingBegun'
  BY <1>1 DEF NothingBegun
<1>6. FuturesHold'
  <2>1. \A q \in Passes : pc'[q] \in {"settled", "closing", "done"} => pc'[q] = pc[q]
    <3>1. main = "start" => \A q \in Passes : pc'[q] \in {"queued", "out"}
      <4> SUFFICES ASSUME main = "start" PROVE \A q \in Passes : pc'[q] \in {"queued", "out"}
        OBVIOUS
      <4>1. Start
        BY DEF Main, Apply, Merge, Merged, Retry, Reread, GiveUp, WriteFails, Return, Take
      <4> QED
        BY <4>1 DEF Start, NothingBegun
    <3> QED
      BY <1>1, <3>1
  <2> QED
    BY <1>1, <2>1 DEF FuturesHold
<1> QED
  BY <1>3, <1>4, <1>5, <1>6

LEMMA TypedInvariance == Spec => []Typed
<1>1. Typed /\ [Next]_vars => Typed'
  <2> SUFFICES ASSUME Typed, [Next]_vars PROVE Typed'
    OBVIOUS
  <2>1. CASE Main
    BY <2>1, MainTyped, MainProducts DEF Typed
  <2>2. ASSUME NEW p \in Passes, Worker(p) PROVE Typed'
    BY <2>2, WorkerTyped, WorkerProducts DEF Typed
  <2>3. CASE UNCHANGED vars
    BY <2>3 DEF Typed, TypeOK, ProductsHarvested, OneMerge, NothingBegun, FuturesHold, Harvested, Foreign,
       Outside, New, Filed, vars, workerVars, mainVars
  <2> QED
    BY <2>1, <2>2, <2>3 DEF Next
<1> QED
  BY <1>1, InitTyped, PTL DEF Spec

(* Every variable keeps the values the code gives it: what is merged into   *)
(* the document is a finding of this run, whatever a session filed.         *)
THEOREM PassesTypes == Spec => []TypeOK
<1>1. Typed => TypeOK
  BY DEF Typed
<1> QED
  BY <1>1, TypedInvariance, PTL

-----------------------------------------------------------------------------
(* The window.  Its holder is in the second half of a read-modify-write, and *)
(* started it from the document as it still is.                              *)
WindowHeld ==
  /\ \A p \in Passes : window = p <=> pc[p] \in {"storing", "closing"}
  /\ window = "main" <=> main = "writing"
  /\ window # Nobody => seen[window] = doc

(* The envelope of a pass says where the pass is. *)
SessionsTracked ==
  \A p \in Passes :
    /\ pc[p] \in Dispatching => doc.sessions[p] = "none"
    /\ pc[p] \in InSession   => doc.sessions[p] = "open"

(* A merge that is in the document is reported, or was ended by an exception; *)
(* one that is reported is in the document.                                   *)
MergesReported ==
  \A p \in Passes :
    /\ p \in doc.merges => result[p] \in {"merged", "escaped"}
    /\ result[p] = "merged" => p \in doc.merges

Guarded == WindowHeld /\ SessionsTracked /\ MergesReported

LEMMA InitGuarded == Init => Guarded
<1> SUFFICES ASSUME Init PROVE Guarded
  OBVIOUS
<1>1. \A p \in Passes : p # Nobody
  BY GroupAssumption
<1>2. doc.sessions = [p \in Passes |-> "none"]
  BY DEF Init, Base
<1> QED
  BY <1>1, <1>2, GroupAssumption DEF Init, Base, Guarded, WindowHeld, SessionsTracked, InSession,
     MergesReported

(* An answer of run_passes is never taken back. *)
LEMMA ResultsStay ==
  ASSUME Typed, [Next]_vars, NEW p \in Passes, result[p] # "none"
  PROVE  result'[p] = result[p]
<1> USE DEF Typed, TypeOK
<1>1. CASE Start
  BY <1>1 DEF Start, NothingBegun
<1>2. CASE Apply \/ Merged \/ GiveUp \/ WriteFails
  <2>1. main \in Merging
    BY <1>2 DEF Apply, Merged, GiveUp, WriteFails, Merging
  <2>2. turn # p
    BY <2>1 DEF OneMerge
  <2>3. result' = result \/ \E r : result' = [result EXCEPT ![turn] = r]
    BY <1>2 DEF Apply, Merged, GiveUp, WriteFails, Report, Escape
  <2> QED
    BY <2>2, <2>3
<1>3. CASE Merge \/ Retry \/ Reread \/ Return
  BY <1>3 DEF Merge, Retry, Reread, Return
<1>4. ASSUME NEW q \in Passes, Take(q) PROVE result'[p] = result[p]
  <2>1. result[q] = "none" /\ (result' = result \/ \E r : result' = [result EXCEPT ![q] = r])
    BY <1>4, TakeAnswers
  <2> QED
    BY <2>1
<1>5. ASSUME NEW q \in Passes, Worker(q) PROVE result'[p] = result[p]
  BY <1>5 DEF Worker, Submit, Door, Dispatch, Dispatched, Enter, Run, Settle, Finish,
     Finished, mainVars
<1>6. CASE UNCHANGED vars
  BY <1>6 DEF vars, mainVars
<1> QED
  BY <1>1, <1>2, <1>3, <1>4, <1>5, <1>6 DEF Next, Main

(* What a worker writes.  The second half of its read-modify-write is all    *)
(* that touches the document.                                                *)
LEMMA WorkerWrites ==
  ASSUME Typed, Guarded, NEW p \in Passes, Worker(p)
  PROVE  /\ doc'.findings = doc.findings /\ doc'.queue = doc.queue /\ doc'.merges = doc.merges
         /\ \A q \in Passes \ {p} : doc'.sessions[q] = doc.sessions[q]
         /\ \/ doc' = doc
            \/ pc[p] = "storing" /\ pc'[p] \in {"recorded", "done"} /\ doc'.sessions[p] = "open"
            \/ pc[p] = "closing" /\ pc'[p] = "done" /\ doc'.sessions[p] \notin {"none", "open"}
<1> USE DEF Typed, TypeOK
<1>0. p # Nobody
  BY GroupAssumption
<1>1. CASE Dispatched(p)
  <2>1. pc[p] = "storing" /\ seen[p] = doc /\ pc'[p] \in {"recorded", "done"}
    BY <1>1, <1>0 DEF Dispatched, Answered, Guarded, WindowHeld
  <2>2. \A q \in Passes \ {p} : doc.sessions[q] = "open" => q \in Live(p)
    BY DEF Live, Guarded, SessionsTracked, Dispatching
  <2>3. CASE doc' = Stored(doc, p, "open")
    <3>1. "open" \in Ends
      BY DEF Ends
    <3> HIDE DEF Typed, TypeOK
    <3>2. doc \in Docs
      BY DEF Typed, TypeOK
    <3> QED
      BY <2>1, <2>2, <2>3, <3>1, <3>2, StoredDoc
  <2> QED
    BY <1>1, <2>1, <2>3 DEF Dispatched
<1>2. CASE Finished(p)
  <2>1. pc[p] = "closing" /\ pc'[p] = "done" /\ seen[p] = doc
    BY <1>2, <1>0 DEF Finished, Guarded, WindowHeld
  <2>2. CASE doc' = Stored(doc, p, OutcomeOf(answer[p]))
    <3>1. OutcomeOf(answer[p]) \in Ends \ {"none", "open"}
      BY DEF Ends, OutcomeOf
    <3>2. doc \in Docs
      OBVIOUS
    <3> HIDE DEF Typed, TypeOK
    <3> QED
      BY <2>1, <2>2, <3>1, <3>2, StoredDoc
  <2> QED
    BY <1>2, <2>1, <2>2 DEF Finished
<1>3. CASE ~Dispatched(p) /\ ~Finished(p)
  <2>1. doc' = doc
    BY <1>3 DEF Worker, Submit, Door, Dispatch, Enter, Run, Settle, Finish
  <2> QED
    BY <2>1
<1> QED
  BY <1>1, <1>2, <1>3

(* What a merge writes, whether the write says so or fails after it. *)
Lands == (Merged \/ WriteFails) /\ doc' = Mutated

LEMMA MainWrites ==
  ASSUME Typed, Guarded, Main
  PROVE  /\ doc.findings \subseteq doc'.findings /\ doc.queue \subseteq doc'.queue
         /\ doc'.sessions = doc.sessions
         /\ \/ doc' = doc /\ ~Merged
            \/ /\ Lands /\ doc'.findings = doc.findings \cup New(turn)
               /\ doc'.merges = doc.merges \cup {turn}
<1>1. CASE Lands
  <2>1. main = "writing" /\ seen["main"] = doc /\ doc \in Docs
    BY <1>1, GroupAssumption DEF Lands, Merged, WriteFails, Guarded, WindowHeld, Typed, TypeOK
  <2>2. /\ doc'.findings = doc.findings \cup New(turn)
        /\ doc'.queue = doc.queue \cup Remainder(turn) /\ doc'.sessions = doc.sessions
        /\ doc'.merges = doc.merges \cup {turn}
    <3>1. doc' = [doc EXCEPT !.rev = @ + 1, !.findings = @ \cup New(turn),
                             !.queue = @ \cup Remainder(turn), !.merges = @ \cup {turn}]
      BY <1>1, <2>1 DEF Lands, Mutated
    <3> QED
      BY <2>1, <3>1 DEF Docs
  <2> QED
    BY <1>1, <2>2
<1>2. CASE ~Lands
  <2>1. doc' = doc /\ ~Merged
    BY <1>2 DEF Main, Start, Apply, Merge, Merged, Retry, Reread, GiveUp, WriteFails, Return,
       Take, Lands
  <2> QED
    BY <2>1
<1> QED
  BY <1>1, <1>2

(* Who lands a merge is answered for. *)
LEMMA MainReports ==
  ASSUME Typed, Guarded, Main
  PROVE  MergesReported'
<1>1. \A p \in Passes : result[p] # "none" => result'[p] = result[p]
  BY ResultsStay DEF Next
<1>2. CASE Lands
  <2>1. /\ turn \in Passes /\ result'[turn] \in {"merged", "escaped"}
        /\ \A p \in Passes \ {turn} : result'[p] = result[p]
    BY <1>2 DEF Lands, Merged, WriteFails, Report, Escape, Typed, TypeOK, OneMerge, Merging
  <2>2. (doc' = doc /\ ~Merged) \/ doc'.merges = doc.merges \cup {turn}
    BY MainWrites
  <2>3. CASE doc' = doc /\ ~Merged
    <3>1. result'[turn] # "merged"
      BY <1>2, <2>3, <2>1 DEF Lands, WriteFails, Report, Escape, Typed, TypeOK
    <3> QED
      BY <1>1, <2>1, <2>3, <3>1 DEF Guarded, MergesReported
  <2>4. CASE doc'.merges = doc.merges \cup {turn}
    BY <1>1, <2>1, <2>4 DEF Guarded, MergesReported
  <2> QED
    BY <2>2, <2>3, <2>4
<1>3. CASE ~Lands
  <2>1. doc' = doc /\ ~Merged
    BY <1>3, MainWrites, Zenon
  <2>2. \A p \in Passes : result'[p] = "merged" => result[p] = "merged"
    <3>1. CASE Start
      BY <3>1 DEF Start
    <3>2. CASE Apply \/ GiveUp \/ WriteFails
      <4>1. result' = result
            \/ \E r \in {"conflict", "stale", "taken", "escaped"} :
                 result' = [result EXCEPT ![turn] = r]
        BY <3>2 DEF Apply, GiveUp, WriteFails, Report, Escape
      <4> QED
        BY <4>1 DEF Typed, TypeOK
    <3>3. CASE Merge \/ Retry \/ Reread \/ Return
      BY <3>3 DEF Merge, Retry, Reread, Return
    <3>4. ASSUME NEW q \in Passes, Take(q)
          PROVE  \A p \in Passes : result'[p] = "merged" => result[p] = "merged"
      <4>1. result' = result \/ \E r \in {"error", "nothing", "escaped"} :
                                  result' = [result EXCEPT ![q] = r]
        BY <3>4, TakeAnswers
      <4> QED
        BY <4>1 DEF Typed, TypeOK
    <3> QED
      BY <2>1, <3>1, <3>2, <3>3, <3>4 DEF Main
  <2> QED
    BY <1>1, <2>1, <2>2 DEF Guarded, MergesReported
<1> QED
  BY <1>2, <1>3

LEMMA WorkerGuarded ==
  ASSUME Typed, Guarded, NEW p \in Passes, Worker(p)
  PROVE  Guarded'
<1> USE GroupAssumption DEF Typed, TypeOK
<1>1. /\ \A q \in Passes \ {p} : pc'[q] = pc[q]
      /\ main' = main
  BY DEF Worker, Submit, Door, Dispatch, Dispatched, Enter, Run, Settle, Finish,
     Finished, Answered, mainVars
<1>2. SessionsTracked'
  <2>1. \/ doc' = doc
        \/ pc[p] = "storing" /\ pc'[p] \in {"recorded", "done"} /\ doc'.sessions[p] = "open"
        \/ pc[p] = "closing" /\ pc'[p] = "done" /\ doc'.sessions[p] \notin {"none", "open"}
    BY WorkerWrites, Zenon
  <2>2. \A q \in Passes \ {p} : doc'.sessions[q] = doc.sessions[q]
    BY WorkerWrites, Zenon
  <2>3. doc' = doc => /\ pc'[p] \in Dispatching => pc[p] \in Dispatching
                      /\ pc'[p] \in InSession => pc[p] \in InSession
    <3>1. CASE Dispatched(p)
      <4>1. doc'.rev # doc.rev \/ pc'[p] = "done"
        <5>1. seen[p] = doc
          BY <3>1 DEF Dispatched, Guarded, WindowHeld
        <5>2. Stored(doc, p, "open").rev = doc.rev + 1
          BY DEF Stored, Docs
        <5>3. doc.rev \in Nat
          BY DEF Docs
        <5> QED
          BY <3>1, <5>1, <5>2, <5>3 DEF Dispatched, Answered
      <4> QED
        BY <4>1 DEF Dispatching, InSession
    <3>2. CASE ~Dispatched(p)
      BY <3>2 DEF Worker, Submit, Door, Dispatch, Enter, Run, Settle, Finish, Finished, Answered,
         Dispatching, InSession
    <3> QED
      BY <3>1, <3>2
  <2> HIDE DEF Typed, TypeOK
  <2>4. \A q \in Passes \ {p} : /\ pc'[q] \in Dispatching => doc'.sessions[q] = "none"
                                /\ pc'[q] \in InSession   => doc'.sessions[q] = "open"
    BY <1>1, <2>2 DEF Guarded, SessionsTracked
  <2>5. /\ pc'[p] \in Dispatching => doc'.sessions[p] = "none"
        /\ pc'[p] \in InSession   => doc'.sessions[p] = "open"
    BY <2>1, <2>3 DEF Guarded, SessionsTracked, Dispatching, InSession
  <2> QED
    BY <2>4, <2>5 DEF SessionsTracked
<1>3. WindowHeld'
  <2> USE DEF Guarded, WindowHeld
  <2>1. CASE Dispatch(p) \/ Finish(p)
    <3>1. /\ window = Nobody /\ window' = p /\ seen'[p] = doc /\ doc' = doc
          /\ pc'[p] \in {"storing", "closing"}
      BY <2>1 DEF Dispatch, Finish, Begin, Free
    <3>2. \A q \in Passes : pc[q] \notin {"storing", "closing"}
      BY <3>1
    <3>3. main # "writing"
      BY <3>1
    <3> HIDE DEF Typed, TypeOK
    <3> QED
      BY <1>1, <3>1, <3>2, <3>3
  <2>2. CASE Dispatched(p) \/ Finished(p)
    <3>1. /\ window = p /\ window' = Nobody /\ pc'[p] \notin {"storing", "closing"}
      BY <2>2 DEF Dispatched, Finished, Leave, Answered
    <3>2. \A q \in Passes \ {p} : pc[q] \notin {"storing", "closing"}
      BY <3>1
    <3>3. main # "writing"
      BY <3>1
    <3> HIDE DEF Typed, TypeOK
    <3> QED
      BY <1>1, <3>1, <3>2, <3>3
  <2>3. CASE Submit(p) \/ Door(p) \/ Enter(p) \/ Run(p) \/ Settle(p)
    <3>1. /\ UNCHANGED <<window, seen, doc>>
          /\ pc[p] \notin {"storing", "closing"} /\ pc'[p] \notin {"storing", "closing"}
      BY <2>3 DEF Submit, Door, Enter, Run, Settle, Answered
    <3> HIDE DEF Typed, TypeOK
    <3> QED
      BY <1>1, <3>1
  <2> QED
    BY <2>1, <2>2, <2>3 DEF Worker
<1>4. MergesReported'
  <2>1. doc'.merges = doc.merges
    BY WorkerWrites, Zenon
  <2>2. result' = result
    BY DEF Worker, Submit, Door, Dispatch, Dispatched, Enter, Run, Settle, Finish, Finished,
       mainVars
  <2> QED
    BY <2>1, <2>2 DEF Guarded, MergesReported
<1> QED
  BY <1>2, <1>3, <1>4 DEF Guarded

(* The main thread leaves every pass where it is, but for those the          *)
(* admission ceiling keeps out.                                              *)
LEMMA MainPlaces ==
  ASSUME Typed, Main
  PROVE  \A q \in Passes : pc'[q] = pc[q] \/ (pc[q] = "queued" /\ pc'[q] \in {"queued", "out"})
<1>1. CASE Start
  BY <1>1 DEF Start, Typed, NothingBegun
<1>2. CASE ~Start
  <2>1. pc' = pc
    BY <1>2 DEF Main, Apply, Merge, Merged, Retry, Reread, GiveUp, WriteFails, Return, Take,
       workerVars
  <2> QED
    BY <2>1
<1> QED
  BY <1>1, <1>2

LEMMA MainGuarded ==
  ASSUME Typed, Guarded, Main
  PROVE  Guarded'
<1>1. \A q \in Passes : pc'[q] = pc[q] \/ (pc[q] = "queued" /\ pc'[q] \in {"queued", "out"})
  BY MainPlaces
<1>2. SessionsTracked'
  <2>1. doc'.sessions = doc.sessions
    BY MainWrites, Zenon
  <2> QED
    BY <1>1, <2>1 DEF Guarded, SessionsTracked, Dispatching, InSession
<1>3. \A q \in Passes : pc'[q] \in {"storing", "closing"} <=> pc[q] \in {"storing", "closing"}
  BY <1>1
<1>4. WindowHeld'
  <2> USE DEF Guarded, WindowHeld
  <2>1. CASE Merge
    <3>1. /\ window = Nobody /\ window' = "main" /\ main' = "writing" /\ doc' = doc
          /\ seen' = [seen EXCEPT !["main"] = doc]
      BY <2>1 DEF Merge, Begin, Free
    <3>2. seen'["main"] = doc
      BY <3>1 DEF Typed, TypeOK
    <3>3. \A q \in Passes : q # "main" /\ pc[q] \notin {"storing", "closing"}
      BY <3>1, GroupAssumption
    <3> QED
      BY <1>3, <3>1, <3>2, <3>3
  <2>2. CASE Merged \/ Retry \/ GiveUp \/ WriteFails
    <3>1. window = "main" /\ window' = Nobody /\ main' # "writing"
      BY <2>2 DEF Merged, Retry, GiveUp, WriteFails, Leave, Escape
    <3>2. \A q \in Passes : q # Nobody /\ q # "main" /\ Nobody # "main"
      BY GroupAssumption
    <3> QED
      BY <1>3, <3>1, <3>2, GroupAssumption
  <2>3. CASE Start \/ Apply \/ Reread \/ Return \/ \E p \in Passes : Take(p)
    <3>1. UNCHANGED <<doc, window, seen>> /\ main # "writing" /\ main' # "writing"
      <4>1. ASSUME NEW p \in Passes, Take(p)
            PROVE  UNCHANGED <<doc, window, seen>> /\ main # "writing" /\ main' # "writing"
        BY <4>1, TakeAnswers
      <4> QED
        BY <2>3, <4>1 DEF Start, Apply, Reread, Return, Escape
    <3> QED
      BY <1>3, <3>1
  <2> QED
    BY <2>1, <2>2, <2>3 DEF Main
<1>5. MergesReported'
  BY MainReports
<1> QED
  BY <1>2, <1>4, <1>5 DEF Guarded

LEMMA GuardedInvariance == Spec => [](Typed /\ Guarded)
<1>1. Typed /\ Guarded /\ [Next]_vars => Guarded'
  <2> SUFFICES ASSUME Typed, Guarded, [Next]_vars PROVE Guarded'
    OBVIOUS
  <2>1. CASE Main
    BY <2>1, MainGuarded
  <2>2. ASSUME NEW p \in Passes, Worker(p) PROVE Guarded'
    BY <2>2, WorkerGuarded
  <2>3. CASE UNCHANGED vars
    BY <2>3 DEF Guarded, WindowHeld, SessionsTracked, MergesReported, vars, workerVars,
       mainVars
  <2> QED
    BY <2>1, <2>2, <2>3 DEF Next
<1> QED
  BY <1>1, InitGuarded, TypedInvariance, PTL DEF Spec

(* However the threads interleave around the window, no write of state.json  *)
(* loses a finding, a queued pass or a closed envelope, and the envelope of  *)
(* a pass that is still running is closed by that pass alone.                *)
THEOREM NothingIsOverwritten == Spec => NothingOverwritten
<1> DEFINE Kept == /\ doc.findings \subseteq doc'.findings /\ doc.queue \subseteq doc'.queue
                   /\ \A p \in Passes :
                        /\ doc.sessions[p] \notin {"none", "open"} =>
                             doc'.sessions[p] = doc.sessions[p]
                        /\ doc.sessions[p] = "open" => doc'.sessions[p] # "none"
                        /\ doc.sessions[p] = "open" /\ doc'.sessions[p] # "open" =>
                             pc[p] = "closing"
<1>1. ASSUME Typed, Guarded, [Next]_vars PROVE Kept
  <2>1. CASE Main
    <3>1. /\ doc.findings \subseteq doc'.findings /\ doc.queue \subseteq doc'.queue
          /\ doc'.sessions = doc.sessions
      BY <1>1, <2>1, MainWrites, Zenon
    <3> QED
      BY <3>1
  <2>2. ASSUME NEW p \in Passes, Worker(p) PROVE Kept
    <3>1. /\ doc'.findings = doc.findings /\ doc'.queue = doc.queue
          /\ \A q \in Passes \ {p} : doc'.sessions[q] = doc.sessions[q]
          /\ \/ doc' = doc
             \/ pc[p] = "storing" /\ pc'[p] \in {"recorded", "done"} /\ doc'.sessions[p] = "open"
             \/ pc[p] = "closing" /\ pc'[p] = "done" /\ doc'.sessions[p] \notin {"none", "open"}
      BY <1>1, <2>2, WorkerWrites, Zenon
    <3>2. /\ pc[p] = "storing" => doc.sessions[p] = "none"
          /\ pc[p] = "closing" => doc.sessions[p] = "open"
      BY <1>1 DEF Guarded, SessionsTracked, Dispatching, InSession
    <3> QED
      BY <3>1, <3>2
  <2>3. CASE UNCHANGED vars
    BY <2>3 DEF vars
  <2> QED
    BY <1>1, <2>1, <2>2, <2>3 DEF Next
<1>2. Typed /\ Guarded /\ [Next]_vars => [Kept]_vars
  BY <1>1
<1> QED
  BY <1>2, GuardedInvariance, PTL DEF Spec, NothingOverwritten

-----------------------------------------------------------------------------
(* Ids.  Every finding of the document was there before the fan-out or is of *)
(* the block of a pass whose merge is in it.                                 *)
IdsAccounted ==
  \A r \in doc.findings :
     \/ r.id \in 1..Used
     \/ \E p \in Passes : p \in doc.merges /\ r.id \in reserve_ids(p)

LEMMA IdsStep ==
  ASSUME Typed, Guarded, IdsAccounted, [Next]_vars
  PROVE  IdsAccounted'
<1>1. CASE doc'.findings = doc.findings /\ doc'.merges = doc.merges
  BY <1>1 DEF IdsAccounted, reserve_ids, Place
<1>2. CASE /\ Lands /\ doc'.findings = doc.findings \cup New(turn)
           /\ doc'.merges = doc.merges \cup {turn}
  <2>1. turn \in Passes /\ Harvested(turn) /\ TypeOK
    BY <1>2 DEF Lands, Merged, WriteFails, Typed, OneMerge, Merging, ProductsHarvested
  <2>2. \A r \in New(turn) : r.id \in reserve_ids(turn)
    BY <2>1, HarvestTyped
  <2> QED
    BY <1>2, <2>1, <2>2 DEF IdsAccounted, reserve_ids, Place
<1>3. CASE Main
  BY <1>1, <1>2, <1>3, MainWrites, Zenon
<1>4. ASSUME NEW p \in Passes, Worker(p) PROVE IdsAccounted'
  BY <1>1, <1>4, WorkerWrites, Zenon
<1>5. CASE UNCHANGED vars
  BY <1>1, <1>5 DEF vars
<1> QED
  BY <1>3, <1>4, <1>5 DEF Next

(* What no merge can meet: an id of the pass it merges is not in the         *)
(* document it merges it into.                                               *)
LEMMA IdsMeetNot ==
  ASSUME Typed, Guarded, IdsAccounted
  PROVE  IdsNeverMeet
<1> SUFFICES ASSUME main = "writing", NEW r \in New(turn), NEW b \in doc.findings, r.id = b.id
             PROVE  FALSE
  BY GroupAssumption DEF IdsNeverMeet, Guarded, WindowHeld
<1>1. turn \in Passes /\ Harvested(turn) /\ TypeOK /\ result[turn] = "none"
  BY DEF Typed, OneMerge, Merging, ProductsHarvested
<1>2. r.id \in reserve_ids(turn)
  BY <1>1, HarvestTyped
<1>3. r.id > Used /\ r.id \in Nat
  BY <1>1, <1>2, BlockIsIds
<1>4. r.id \notin 1..Used
  BY <1>3, NumberAssumption
<1>5. PICK p \in Passes : p \in doc.merges /\ r.id \in reserve_ids(p)
  BY <1>4 DEF IdsAccounted
<1>6. p # turn
  BY <1>1, <1>5 DEF Guarded, MergesReported
<1> QED
  BY <1>1, <1>2, <1>5, <1>6, BlocksApart

LEMMA IdsInvariance == Spec => [](Typed /\ Guarded /\ IdsAccounted)
<1>1. Init => IdsAccounted
  BY DEF Init, Base, IdsAccounted
<1>2. Typed /\ Guarded /\ IdsAccounted /\ [Next]_vars => IdsAccounted'
  BY IdsStep
<1> QED
  BY <1>1, <1>2, GuardedInvariance, PTL DEF Spec

(* Whatever the sessions file, in whatever order they finish, no merge is    *)
(* refused because an id it brings is taken.                                 *)
THEOREM IdsAreApart == Spec => []IdsNeverMeet
<1>1. Typed /\ Guarded /\ IdsAccounted => IdsNeverMeet
  BY IdsMeetNot
<1> QED
  BY <1>1, IdsInvariance, PTL

-----------------------------------------------------------------------------
(* Nothing more will become of a pass that is in the document, or whose merge *)
(* an exception ended.                                                       *)
Past(p) == p \in doc.merges \/ result[p] = "escaped"

LEMMA PastStays ==
  ASSUME Typed, Guarded, [Next]_vars, NEW p \in Passes, Past(p)
  PROVE  Past(p)'
<1>1. result[p] = "escaped" => result'[p] = "escaped"
  BY ResultsStay
<1>2. doc.merges \subseteq doc'.merges
  <2>1. CASE Main
    <3>1. doc' = doc \/ doc'.merges = doc.merges \cup {turn}
      BY <2>1, MainWrites, Zenon
    <3> QED
      BY <3>1
  <2>2. ASSUME NEW q \in Passes, Worker(q) PROVE doc.merges \subseteq doc'.merges
    <3>1. doc'.merges = doc.merges
      BY <2>2, WorkerWrites, Zenon
    <3> QED
      BY <3>1
  <2>3. CASE UNCHANGED vars
    BY <2>3 DEF vars
  <2> QED
    BY <2>1, <2>2, <2>3 DEF Next
<1> QED
  BY <1>1, <1>2 DEF Past

(* Artifacts.  Between landing its artifacts and recording them, a merge     *)
(* knows which it landed, and what it would put back belongs to a merge that *)
(* is recorded or to none.                                                   *)
LandedKnown ==
  main \in Merging \ {"applying"} =>
    \A f \in Files :
      /\ files[f] = turn => f \in undo
      /\ f \in undo => \/ seed[turn].files[f] = Nobody
                       \/ Past(seed[turn].files[f])

Landed == LandedKnown /\ ArtifactsExplained

(* A file of a pass that is not being merged is that of a merge that is      *)
(* recorded, or that an exception ended.                                     *)
LEMMA OthersRecorded ==
  ASSUME Typed, ArtifactsExplained, NEW f \in Files, files[f] # Nobody,
         main \in {"merging", "writing", "rereading"} => files[f] # turn
  PROVE  files[f] \in Passes /\ Past(files[f])
BY DEF ArtifactsExplained, Explained, Past, Typed, TypeOK

LEMMA LandedStep ==
  ASSUME Typed, Guarded, Landed, [Next]_vars
  PROVE  Landed'
<1> USE DEF Landed
<1>0. \A p \in Passes : Past(p) => p \in doc'.merges \/ result'[p] = "escaped"
  <2>1. ASSUME NEW p \in Passes, Past(p) PROVE p \in doc'.merges \/ result'[p] = "escaped"
    <3>1. Past(p)'
      BY <2>1, PastStays
    <3> QED
      BY <3>1 DEF Past
  <2> QED
    BY <2>1
<1>seeds. \A p \in Passes, f \in Files : seed[p].files[f] \in Passes \cup {Nobody}
  <2> SUFFICES ASSUME NEW p \in Passes, NEW f \in Files
               PROVE  seed[p].files[f] \in Passes \cup {Nobody}
    OBVIOUS
  <2>1. seed[p] \in Seeds
    BY DEF Typed, TypeOK
  <2> QED
    BY <2>1 DEF Seeds
(* No merge is under way, and none begins: the files are recorded.           *)
<1>1. CASE /\ main \notin {"merging", "writing", "rereading"} /\ files' = files
           /\ main' \notin {"merging", "writing", "rereading"}
  <2>1. LandedKnown'
    BY <1>1 DEF LandedKnown, Merging
  <2>2. \A f \in Files : files[f] # Nobody =>
          files[f] \in doc'.merges \/ result'[files[f]] = "escaped"
    BY <1>0, <1>1, OthersRecorded
  <2>3. ArtifactsExplained'
    BY <1>1, <2>2 DEF ArtifactsExplained, Explained
  <2> QED
    BY <2>1, <2>3
(* A merge goes on.                                                          *)
<1>2. CASE /\ main \in {"merging", "writing", "rereading"}
           /\ main' \in {"merging", "writing", "rereading"}
           /\ UNCHANGED <<files, turn, undo, result>> /\ seed'[turn] = seed[turn]
  <2>0. seed' \in [Passes -> Seeds] => \A f \in undo : seed'[turn].files[f] = seed[turn].files[f]
    BY <1>2
  <2>1. LandedKnown'
    BY <1>0, <1>2, <1>seeds DEF LandedKnown, Merging, Past, Typed, OneMerge
  <2>2. ArtifactsExplained'
    BY <1>0, <1>2, OthersRecorded DEF ArtifactsExplained, Explained
  <2> QED
    BY <2>1, <2>2
<1>3. CASE Apply /\ main' = "merging"
  <2>1. /\ turn \in Passes /\ result[turn] = "none" /\ main = "applying"
        /\ ~Conflict(turn) /\ undo' = Todo(turn) /\ UNCHANGED <<turn, seed, result>>
        /\ files' = [f \in Files |-> IF f \in Todo(turn) THEN turn ELSE files[f]]
    BY <1>3 DEF Apply, Escape, Report, Typed, OneMerge, Merging, workerVars
  <2>2. \A f \in Files : files[f] # Nobody => files[f] \in Passes /\ Past(files[f])
    BY <2>1, OthersRecorded
  <2>3. \A f \in Files : files[f] # turn
    BY <2>1, <2>2, GroupAssumption DEF Past, Guarded, MergesReported
  <2>4. \A f \in Todo(turn) : seed[turn].files[f] = files[f]
    BY <2>1 DEF Conflict
  <2>7. doc' = doc
    BY <1>3 DEF Apply
  <2>5. LandedKnown'
    BY <1>3, <2>1, <2>2, <2>3, <2>4, <2>7 DEF LandedKnown, Todo, Manifest, Past
  <2>6. ArtifactsExplained'
    BY <1>3, <2>1, <2>2, <2>7 DEF ArtifactsExplained, Explained, Past
  <2> QED
    BY <2>5, <2>6
<1>4. CASE Merged \/ WriteFails
  <2>1. /\ turn \in Passes /\ main = "writing" /\ main' \notin Merging
        /\ UNCHANGED <<files, turn>>
        /\ turn \in doc'.merges \/ result'[turn] = "escaped"
    <3>1. Merged => turn \in doc'.merges
      BY MainWrites, Zenon DEF Main
    <3> QED
      BY <1>4, <3>1 DEF Merged, WriteFails, Escape, Report, Typed, TypeOK, OneMerge, Merging
  <2>2. \A f \in Files : files[f] # Nobody =>
          files[f] \in doc'.merges \/ result'[files[f]] = "escaped"
    BY <1>0, <2>1, OthersRecorded
  <2> QED
    BY <2>1, <2>2 DEF LandedKnown, ArtifactsExplained, Explained
<1>5. CASE GiveUp
  <2>1. /\ turn \in Passes /\ main = "writing" /\ main' = "waiting"
        /\ files' = [f \in Files |-> IF f \in undo THEN seed[turn].files[f] ELSE files[f]]
    BY <1>5 DEF GiveUp, Undone, Typed, OneMerge, Merging
  <2>2. \A f \in Files : files'[f] # Nobody =>
          files'[f] \in Passes /\ (files'[f] \in doc.merges \/ result[files'[f]] = "escaped")
    <3> SUFFICES ASSUME NEW f \in Files, files'[f] # Nobody
                 PROVE  files'[f] \in Passes
                        /\ (files'[f] \in doc.merges \/ result[files'[f]] = "escaped")
      OBVIOUS
    <3>1. CASE f \in undo
      BY <1>seeds, <2>1, <3>1 DEF LandedKnown, Merging, Past
    <3>2. CASE f \notin undo
      <4>1. files'[f] = files[f] /\ files[f] # turn
        BY <2>1, <3>2 DEF LandedKnown, Merging
      <4> QED
        BY <4>1, OthersRecorded DEF Past
    <3> QED
      BY <3>1, <3>2
  <2>3. \A f \in Files : files'[f] # Nobody =>
          files'[f] \in doc'.merges \/ result'[files'[f]] = "escaped"
    BY <1>0, <2>2 DEF Past
  <2> QED
    BY <2>1, <2>3 DEF LandedKnown, ArtifactsExplained, Explained, Merging
<1>6. CASE Main
  <2>1. CASE Start \/ Return \/ (Apply /\ main' # "merging")
    BY <1>1, <2>1 DEF Start, Return, Apply, Escape
  <2>2. CASE Merge \/ Retry \/ Reread
    BY <1>2, <2>2 DEF Merge, Retry, Reread, workerVars
  <2>3. ASSUME NEW p \in Passes, Take(p) PROVE Landed'
    <3>1. /\ main = "waiting" /\ main' \in {"waiting", "escaping", "applying"}
          /\ files' = files
      BY <2>3, TakeAnswers
    <3> QED
      BY <1>1, <3>1
  <2> QED
    BY <1>3, <1>4, <1>5, <1>6, <2>1, <2>2, <2>3 DEF Main
<1>7. ASSUME NEW p \in Passes, Worker(p) PROVE Landed'
  <2>1. /\ UNCHANGED <<files, main, turn, undo, result>> /\ pc[p] # "done"
        /\ \A q \in Passes \ {p} : seed'[q] = seed[q]
    BY <1>7 DEF Worker, Submit, Door, Dispatch, Dispatched, Enter, Run, Settle, Finish,
       Finished, Gone, mainVars, Typed, TypeOK
  <2>2. main \in {"merging", "writing", "rereading"} => seed'[turn] = seed[turn]
    BY <2>1 DEF Typed, OneMerge, Merging
  <2> QED
    BY <1>1, <1>2, <2>1, <2>2
<1>8. CASE UNCHANGED vars
  BY <1>1, <1>2, <1>8 DEF vars, mainVars, workerVars
<1> QED
  BY <1>6, <1>7, <1>8 DEF Next

(* An artifact in the project is that of a pass whose merge is in the        *)
(* document, of the one that is being merged, or of one whose merge an       *)
(* exception of the disk ended: a merge that was refused leaves none behind. *)
THEOREM ArtifactsAreExplained == Spec => []ArtifactsExplained
<1>1. Init => Landed
  BY DEF Init, Landed, LandedKnown, ArtifactsExplained, Merging
<1>2. Typed /\ Guarded /\ Landed /\ [Next]_vars => Landed'
  BY LandedStep
<1>3. Landed => ArtifactsExplained
  BY DEF Landed
<1> QED
  BY <1>1, <1>2, <1>3, GuardedInvariance, PTL DEF Spec

-----------------------------------------------------------------------------
(* The way to the end.  FanOutEnds is a liveness property; what it rests on *)
(* is not: no step takes anything back, every step brings something on, and *)
(* before the end there is a thread that can go on.                         *)

StageOf == [queued |-> 0, out |-> 1, starting |-> 2, storing |-> 3, recorded |-> 4,
            entered |-> 5, ran |-> 6, settled |-> 7, closing |-> 8, done |-> 9]

(* Where the main thread is with the pass whose turn it is. *)
MainRank == CASE main = "start"      -> 0
              [] main = "waiting"    -> 1
              [] main \in {"applying", "escaping"} -> 2
              [] main = "rereading"  -> 3 * attempt - 1
              [] main = "merging"    -> 3 * attempt
              [] main = "writing"    -> 3 * attempt + 1
              [] OTHER               -> 3

Onward ==
  /\ \A p \in Passes : /\ StageOf[pc[p]] <= StageOf[pc'[p]]
                       /\ result[p] # "none" => result'[p] = result[p]
  /\ \/ \E p \in Passes : StageOf[pc[p]] < StageOf[pc'[p]]
     \/ \E p \in Passes : result[p] = "none" /\ result'[p] # "none"
     \/ MainRank < MainRank'

LEMMA StageNumbers ==
  /\ StageOf["queued"] = 0 /\ StageOf["out"] = 1 /\ StageOf["starting"] = 2
  /\ StageOf["storing"] = 3 /\ StageOf["recorded"] = 4 /\ StageOf["entered"] = 5
  /\ StageOf["ran"] = 6 /\ StageOf["settled"] = 7 /\ StageOf["closing"] = 8
  /\ StageOf["done"] = 9
BY DEF StageOf

LEMMA StagesAreNumbers ==
  ASSUME TypeOK, NEW p \in Passes
  PROVE  StageOf[pc[p]] \in Nat
<1>1. pc[p] \in {"queued", "out", "starting", "storing", "recorded", "entered",
                 "ran", "settled", "closing", "done"}
  BY DEF TypeOK
<1> QED
  BY <1>1, StageNumbers

(* A worker's step is its own next stage. *)
LEMMA WorkerOnward ==
  ASSUME Typed, NEW p \in Passes, Worker(p)
  PROVE  Onward
<1>1. /\ result' = result
      /\ \A q \in Passes \ {p} : pc'[q] = pc[q]
  BY DEF Typed, TypeOK, Worker, Submit, Door, Dispatch, Dispatched, Enter, Run, Settle, Finish,
     Finished, Answered, mainVars
<1>2. StageOf[pc[p]] < StageOf[pc'[p]] /\ StageOf[pc[p]] <= StageOf[pc'[p]]
  <2>1. \/ pc[p] = "queued"   /\ pc'[p] = "starting"
        \/ pc[p] = "starting" /\ pc'[p] \in {"storing", "done"}
        \/ pc[p] = "storing"  /\ pc'[p] \in {"recorded", "done"}
        \/ pc[p] = "recorded" /\ pc'[p] \in {"entered", "ran"}
        \/ pc[p] = "entered"  /\ pc'[p] = "ran"
        \/ pc[p] = "ran"      /\ pc'[p] = "settled"
        \/ pc[p] = "settled"  /\ pc'[p] = "closing"
        \/ pc[p] = "closing"  /\ pc'[p] = "done"
    BY DEF Typed, TypeOK, Worker, Submit, Door, Dispatch, Dispatched, Enter, Run, Settle, Finish,
       Finished, Answered
  <2> QED
    BY <2>1, StageNumbers
<1>3. \A q \in Passes : StageOf[pc[q]] <= StageOf[pc'[q]]
  <2> SUFFICES ASSUME NEW q \in Passes PROVE StageOf[pc[q]] <= StageOf[pc'[q]]
    OBVIOUS
  <2>1. StageOf[pc[q]] \in Nat
    BY StagesAreNumbers DEF Typed
  <2>2. CASE q = p
    BY <1>2, <2>2
  <2>3. CASE q # p
    BY <1>1, <2>1, <2>3
  <2> QED
    BY <2>2, <2>3
<1> QED
  BY <1>1, <1>2, <1>3 DEF Onward

(* A step of the main thread answers for a pass or goes on with one. *)
LEMMA MainOnward ==
  ASSUME Typed, Main
  PROVE  Onward
<1>1. \A p \in Passes : result[p] # "none" => result'[p] = result[p]
  BY ResultsStay DEF Next
<1>2. \A p \in Passes : StageOf[pc[p]] <= StageOf[pc'[p]]
  <2> SUFFICES ASSUME NEW p \in Passes PROVE StageOf[pc[p]] <= StageOf[pc'[p]]
    OBVIOUS
  <2>1. pc'[p] = pc[p] \/ (pc[p] = "queued" /\ pc'[p] \in {"queued", "out"})
    BY MainPlaces
  <2>2. StageOf[pc[p]] \in Nat
    BY StagesAreNumbers DEF Typed
  <2> QED
    BY <2>1, <2>2, StageNumbers
<1>3. \/ \E p \in Passes : result[p] = "none" /\ result'[p] # "none"
      \/ MainRank < MainRank'
  <2>0. attempt \in Nat /\ result \in [Passes -> {"none", "ceiling", "error", "nothing", "escaped",
                                                  "merged", "conflict", "stale", "taken"}]
    BY NumberAssumption DEF Typed, TypeOK
  <2>1. CASE Start
    BY <2>1 DEF Start, MainRank
  <2>2. ASSUME Report(turn, "conflict") \/ Report(turn, "merged") \/ Report(turn, "stale")
               \/ Report(turn, "taken") \/ Escape(turn), main \in Merging
        PROVE  \E p \in Passes : result[p] = "none" /\ result'[p] # "none"
    BY <2>0, <2>2 DEF Report, Escape, Typed, OneMerge
  <2>3. CASE Apply
    <3>1. main = "applying"
      BY <2>3 DEF Apply
    <3>2. CASE main' = "merging" /\ attempt' = 1
      BY <3>1, <3>2 DEF MainRank
    <3> QED
      BY <2>2, <2>3, <3>1, <3>2 DEF Apply, Merging
  <2>4. CASE Merge
    BY <2>0, <2>4 DEF Merge, MainRank
  <2>5. CASE Merged \/ GiveUp \/ WriteFails
    BY <2>2, <2>5 DEF Merged, GiveUp, WriteFails, Merging
  <2>6. CASE Retry
    BY <2>0, <2>6 DEF Retry, MainRank
  <2>7. CASE Reread
    BY <2>0, <2>7 DEF Reread, MainRank
  <2>8. CASE Return
    BY <2>8 DEF Return, MainRank
  <2>9. ASSUME NEW p \in Passes, Take(p)
        PROVE  \/ \E q \in Passes : result[q] = "none" /\ result'[q] # "none"
               \/ MainRank < MainRank'
    <3>1. main = "waiting" /\ result[p] = "none"
      BY <2>9, TakeAnswers
    <3>2. CASE main' = "applying"
      BY <3>1, <3>2 DEF MainRank
    <3>3. CASE \E a \in {"error", "nothing", "escaped"} : result' = [result EXCEPT ![p] = a]
      BY <2>0, <3>1, <3>3
    <3> QED
      BY <2>9, <3>2, <3>3, TakeAnswers
  <2> QED
    BY <2>1, <2>3, <2>4, <2>5, <2>6, <2>7, <2>8, <2>9 DEF Main
<1> QED
  BY <1>1, <1>2, <1>3 DEF Onward

(* Each step of a fan-out takes a worker to a later stage, or answers for a  *)
(* pass, or brings the pass whose turn it is nearer to its answer, and none   *)
(* takes any of these back: the pool cannot go round for ever, not in the     *)
(* retries of a merge either, whose rank is bounded (MergesAreBounded).       *)
THEOREM FanOutGoesOn == Spec => [][Onward]_vars
<1>1. Typed /\ [Next]_vars => [Onward]_vars
  BY WorkerOnward, MainOnward DEF Next
<1> QED
  BY <1>1, TypedInvariance, PTL DEF Spec

(* MERGE_ATTEMPTS bounds what the main thread does with one pass. *)
THEOREM MergesAreBounded == Spec => [](MainRank <= 3 * MERGE_ATTEMPTS + 1)
<1>1. Typed => MainRank <= 3 * MERGE_ATTEMPTS + 1
  <2> SUFFICES ASSUME Typed PROVE MainRank <= 3 * MERGE_ATTEMPTS + 1
    OBVIOUS
  <2>1. attempt \in Nat /\ attempt <= MERGE_ATTEMPTS /\ MERGE_ATTEMPTS \in Nat \ {0}
    BY NumberAssumption DEF Typed, TypeOK
  <2> QED
    BY <2>1 DEF MainRank
<1> QED
  BY <1>1, TypedInvariance, PTL
-----------------------------------------------------------------------------
(* Nobody waits for ever: what lets a thread go on, read off the guards.    *)

Over == {"refused", "over", "escaped"}

MainCan ==
  \/ main \in {"start", "applying", "rereading", "writing"}
  \/ main = "merging" /\ Free
  \/ main = "waiting" /\ ((\E p \in Passes : Ready(p)) \/ \A p \in Passes : result[p] # "none")
  \/ main = "escaping" /\ \A p \in Admitted : pc[p] = "done"

WorkerCan(p) ==
  \/ pc[p] \in {"starting", "storing", "recorded", "entered", "closing"}
  \/ pc[p] \in {"ran", "settled"} /\ Free
  \/ /\ pc[p] = "queued" /\ main \notin {"start", "refused"}
     /\ Cardinality(InFlight) < worker_count(Cardinality(Admitted))
     /\ \A q \in Admitted : Place(q) < Place(p) => pc[q] # "queued"

(* Whom the admission ceiling kept out is answered for. *)
OutAnswered == \A p \in Passes : pc[p] = "out" => result[p] # "none"

LEMMA OutAnsweredInvariance == Spec => [](Typed /\ Guarded /\ OutAnswered)
<1>1. Init => OutAnswered
  BY DEF Init, OutAnswered
<1>2. Typed /\ OutAnswered /\ [Next]_vars => OutAnswered'
  <2> SUFFICES ASSUME Typed, OutAnswered, [Next]_vars, NEW p \in Passes, pc'[p] = "out"
               PROVE  result'[p] # "none"
    BY DEF OutAnswered
  <2>1. CASE pc[p] = "out"
    BY <2>1, ResultsStay DEF OutAnswered
  <2>2. CASE pc[p] # "out"
    <3>1. ASSUME NEW q \in Passes, Worker(q) PROVE FALSE
      BY <2>2, <3>1 DEF Typed, TypeOK, Worker, Submit, Door, Dispatch, Dispatched, Enter, Run,
         Settle, Finish, Finished, Answered
    <3>2. Start
      BY <2>2, <3>1 DEF Next, Main, Apply, Merge, Merged, Retry, Reread, GiveUp, WriteFails,
         Return, Take, workerVars, vars
    <3> QED
      BY <2>2, <3>2 DEF Start
  <2> QED
    BY <2>1, <2>2
<1> QED
  BY <1>1, <1>2, GuardedInvariance, PTL DEF Spec

LEMMA PassesFinite == IsFiniteSet(Passes)
<1> DEFINE I == 1..Len(Group)
           g == [i \in I |-> Group[i]]
<1>1. IsFiniteSet(I)
  BY LenIsNat, FS_Interval
<1>2. g \in Surjection(I, Passes)
  BY DEF Surjection, Passes
<1> HIDE DEF I, g
<1> QED
  BY <1>1, <1>2, FS_Surjection

(* Of some passes one comes first in the queue. *)
LEMMA FirstOf ==
  ASSUME NEW S \in SUBSET Passes, S # {}
  PROVE  \E p \in S : \A q \in S : ~ (Place(q) < Place(p))
<1> DEFINE N == {Place(p) : p \in S}
<1>1. N \in SUBSET Nat /\ N # {}
  BY PlaceIsIndex, LenIsNat
<1>2. PICK n \in N : \A m \in N : n <= m
  BY <1>1, LeastOf
<1>3. PICK p \in S : Place(p) = n
  BY <1>2
<1>4. ASSUME NEW q \in S PROVE ~ (Place(q) < Place(p))
  <2>1. n <= Place(q) /\ Place(q) \in Nat /\ n \in Nat
    BY <1>1, <1>2
  <2> QED
    BY <1>3, <2>1
<1> QED
  BY <1>4

(* A pool in which nobody is at work takes the next pass of the queue. *)
LEMMA IdlePoolSubmits ==
  ASSUME Typed, InFlight = {}, main \notin {"start", "refused"},
         NEW p \in Passes, pc[p] = "queued"
  PROVE  \E q \in Passes : WorkerCan(q)
<1> DEFINE S == {q \in Passes : pc[q] = "queued"}
<1>1. PICK q \in S : \A r \in S : ~ (Place(r) < Place(q))
  BY FirstOf
<1>2. Cardinality(InFlight) = 0
  BY FS_EmptySet
<1>3. Cardinality(Admitted) \in Nat /\ Cardinality(Admitted) # 0
  <2>1. IsFiniteSet(Admitted) /\ p \in Admitted
    BY PassesFinite, FS_Subset DEF Admitted
  <2> QED
    BY <2>1, FS_CardinalityType, FS_EmptySet
<1>4. worker_count(Cardinality(Admitted)) > 0
  BY <1>3, NumberAssumption DEF worker_count
<1>5. \A r \in Admitted : Place(r) < Place(q) => pc[r] # "queued"
  BY <1>1 DEF Admitted
<1> QED
  BY <1>1, <1>2, <1>4, <1>5 DEF WorkerCan

(* Somebody can go on, whoever holds the window. *)
LEMMA SomebodyCan ==
  ASSUME Typed, Guarded, OutAnswered, main \notin Over
  PROVE  MainCan \/ \E p \in Passes : WorkerCan(p)
<1> SUFFICES ASSUME ~MainCan, \A p \in Passes : ~WorkerCan(p) PROVE FALSE
  OBVIOUS
<1>1. main \in {"merging", "waiting", "escaping"}
  BY DEF Typed, TypeOK, MainCan, Over
<1>2. \A p \in Passes : pc[p] \in {"queued", "out", "ran", "settled", "done"}
  BY DEF Typed, TypeOK, WorkerCan
<1>3. Free
  <2>1. window # "main"
    BY <1>1 DEF Guarded, WindowHeld
  <2>2. \A p \in Passes : window # p
    BY <1>2 DEF Guarded, WindowHeld
  <2> QED
    BY <2>1, <2>2 DEF Free, Typed, TypeOK
<1>4. \A p \in Passes : pc[p] \in {"queued", "out", "done"}
  BY <1>2, <1>3 DEF WorkerCan
<1>5. InFlight = {}
  BY <1>4 DEF InFlight, Admitted
<1>6. \A p \in Passes : pc[p] # "queued"
  BY <1>1, <1>5, IdlePoolSubmits
<1>7. CASE main = "merging"
  BY <1>3, <1>7 DEF MainCan
<1>8. CASE main = "waiting"
  <2>1. PICK p \in Passes : result[p] = "none"
    BY <1>8 DEF MainCan
  <2>2. pc[p] = "done"
    BY <1>4, <1>6, <2>1 DEF OutAnswered
  <2> QED
    BY <1>8, <2>1, <2>2 DEF MainCan, Ready
<1>9. CASE main = "escaping"
  BY <1>4, <1>6, <1>9 DEF MainCan, Admitted
<1> QED
  BY <1>1, <1>7, <1>8, <1>9

(* parallel.run_passes, the pool and the window of util.serialized: until    *)
(* run_passes has returned or raised, there is a thread that waits for       *)
(* nobody, however the sessions ended, whatever write failed and whichever   *)
(* merge was refused.                                                        *)
THEOREM NobodyWaitsForEver ==
  Spec => [](main \notin Over => MainCan \/ \E p \in Passes : WorkerCan(p))
<1>1. Typed /\ Guarded /\ OutAnswered =>
        (main \notin Over => MainCan \/ \E p \in Passes : WorkerCan(p))
  BY SomebodyCan
<1> QED
  BY <1>1, OutAnsweredInvariance, PTL
(* What a thread that can go on does next, as functions of the state: where  *)
(* the code may fail or refuse, one of the outcomes.                         *)
WorkerGoes(p) ==
  /\ pc' = [pc EXCEPT ![p] =
              [queued |-> "starting", starting |-> "done", storing |-> "recorded",
               recorded |-> "ran", entered |-> "ran", ran |-> "settled",
               settled |-> "closing", closing |-> "done"][pc[p]]]
  /\ answer' = CASE pc[p] = "starting" -> [answer EXCEPT ![p] = "raised"]
                 [] pc[p] = "ran" ->
                      [answer EXCEPT ![p] = CASE Harvested(p)           -> "product"
                                              [] did[p].ends = "lapsed" -> "exit"
                                              [] did[p].ends = "failed" -> "nothing"
                                              [] OTHER                  -> "raised"]
                 [] OTHER -> answer
  /\ doc' = CASE pc[p] = "storing" -> Stored(seen[p], p, "open")
              [] pc[p] = "closing" -> Stored(seen[p], p, OutcomeOf(answer[p]))
              [] OTHER -> doc
  /\ window' = CASE pc[p] = "settled" -> p
                 [] pc[p] \in {"storing", "closing"} -> Nobody
                 [] OTHER -> window
  /\ seen' = CASE pc[p] = "settled" -> [seen EXCEPT ![p] = doc]
               [] pc[p] \in {"storing", "closing"} -> [seen EXCEPT ![p] = Base]
               [] OTHER -> seen
  /\ did' = CASE pc[p] = "recorded" -> [did EXCEPT ![p] = [Idle EXCEPT !.ends = "lapsed"]]
              [] pc[p] = "entered" ->
                   [did EXCEPT ![p] = CHOOSE m \in Menu : TRUE]
              [] pc[p] = "closing" /\ answer[p] # "product" -> [did EXCEPT ![p] = Idle]
              [] OTHER -> did
  /\ seed' = IF pc[p] = "closing" /\ answer[p] # "product" THEN [seed EXCEPT ![p] = NoSeed]
             ELSE seed
  /\ UNCHANGED <<files, mainVars>>

Somebody == \E p \in Passes : Ready(p)
NextUp   == CHOOSE p \in Passes : Ready(p)
Retrying == main = "writing" /\ Stale /\ attempt < MERGE_ATTEMPTS
Refusing == main = "writing" /\ ~Retrying /\ (Stale \/ Taken(turn))
Writing  == main = "writing" /\ ~Retrying /\ ~Refusing
Landing  == main = "applying" /\ ~Conflict(turn)
Taking   == main = "waiting" /\ Somebody

MainGoes ==
  /\ main' = CASE main = "start"     -> "refused"
               [] main = "waiting"   -> IF ~Somebody THEN "over"
                                        ELSE CASE answer[NextUp] = "exit"    -> "escaping"
                                               [] answer[NextUp] = "product" -> "applying"
                                               [] OTHER                      -> "waiting"
               [] main = "applying"  -> IF Landing THEN "merging" ELSE "waiting"
               [] main = "merging"   -> "writing"
               [] main = "writing"   -> IF Retrying THEN "rereading" ELSE "waiting"
               [] main = "rereading" -> "merging"
               [] OTHER              -> "escaped"
  /\ turn' = IF Taking /\ answer[NextUp] = "product" THEN NextUp ELSE turn
  /\ expect' = CASE main = "applying" -> Base.rev [] main = "rereading" -> doc.rev
                 [] OTHER -> expect
  /\ attempt' = CASE main = "applying" -> 1 [] Retrying -> attempt + 1 [] OTHER -> attempt
  /\ result' = CASE Taking /\ answer[NextUp] = "raised"  -> [result EXCEPT ![NextUp] = "error"]
                 [] Taking /\ answer[NextUp] = "nothing" -> [result EXCEPT ![NextUp] = "nothing"]
                 [] Taking /\ answer[NextUp] = "exit"    -> [result EXCEPT ![NextUp] = "escaped"]
                 [] main = "applying" /\ ~Landing        -> [result EXCEPT ![turn] = "conflict"]
                 [] Refusing -> [result EXCEPT ![turn] = IF Stale THEN "stale" ELSE "taken"]
                 [] Writing  -> [result EXCEPT ![turn] = "merged"]
                 [] OTHER    -> result
  /\ files' = CASE Landing  -> [f \in Files |-> IF f \in Todo(turn) THEN turn ELSE files[f]]
                [] Refusing -> Undone
                [] OTHER    -> files
  /\ undo' = CASE Landing -> Todo(turn) [] Refusing \/ Writing -> {} [] OTHER -> undo
  /\ doc' = IF Writing THEN Mutated ELSE doc
  /\ window' = CASE main = "merging" -> "main" [] main = "writing" -> Nobody
                 [] OTHER -> window
  /\ seen' = CASE main = "merging" -> [seen EXCEPT !["main"] = doc]
               [] main = "writing" -> [seen EXCEPT !["main"] = Base]
               [] OTHER -> seen
  /\ UNCHANGED workerVars

LEMMA WorkerThatCan ==
  ASSUME Typed, Menu # {}, NEW p \in Passes, WorkerCan(p), WorkerGoes(p)
  PROVE  Worker(p)
<1>1. CASE pc[p] = "queued"
  BY <1>1 DEF WorkerCan, WorkerGoes, Worker, Submit
<1>2. CASE pc[p] = "starting"
  BY <1>2 DEF WorkerGoes, Worker, Door, Answered
<1>3. CASE pc[p] = "storing"
  BY <1>3 DEF WorkerGoes, Worker, Dispatched, Leave
<1>4. CASE pc[p] = "recorded"
  <2>1. /\ did' = [did EXCEPT ![p] = [Idle EXCEPT !.ends = "lapsed"]]
        /\ pc' = [pc EXCEPT ![p] = "ran"]
        /\ UNCHANGED <<doc, files, window, seen, seed, answer, mainVars>>
    BY <1>4 DEF WorkerGoes
  <2>2. \E act \in {[Idle EXCEPT !.ends = "lapsed"]} \cup (IF ViewsBehind THEN {Idle} ELSE {}) :
          did' = [did EXCEPT ![p] = act]
    BY <2>1, Zenon
  <2>3. Enter(p)
    BY <1>4, <2>1, <2>2 DEF Enter
  <2> QED
    BY <2>3 DEF Worker
<1>5. CASE pc[p] = "entered"
  <2>1. PICK m \in Menu : m = CHOOSE x \in Menu : TRUE
    OBVIOUS
  <2>2. /\ did' = [did EXCEPT ![p] = m]
        /\ pc' = [pc EXCEPT ![p] = "ran"]
        /\ UNCHANGED <<doc, files, window, seen, seed, answer, mainVars>>
    BY <1>5, <2>1 DEF WorkerGoes
  <2>3. Run(p)
    BY <1>5, <2>2 DEF Run, Staged
  <2> QED
    BY <2>3 DEF Worker
<1>6. CASE pc[p] = "ran"
  BY <1>6 DEF WorkerCan, WorkerGoes, Worker, Settle
<1>7. CASE pc[p] = "settled"
  BY <1>7 DEF WorkerCan, WorkerGoes, Worker, Finish, Begin
<1>8. CASE pc[p] = "closing"
  BY <1>8 DEF WorkerGoes, Worker, Finished, Gone, Leave
<1> QED
  BY <1>1, <1>2, <1>3, <1>4, <1>5, <1>6, <1>7, <1>8 DEF WorkerCan

LEMMA MainThatCan ==
  ASSUME Typed, MainCan, MainGoes
  PROVE  Main
<1> USE DEF MainGoes, Taking, Landing, Retrying, Refusing, Writing
<1>1. CASE main = "start"
  BY <1>1 DEF Main, Start, workerVars
<1>2. CASE main = "waiting" /\ Somebody
  <2>1. NextUp \in Passes /\ Ready(NextUp)
    BY <1>2 DEF Somebody, NextUp
  <2>2. answer[NextUp] \in {"raised", "exit", "nothing", "product"}
    BY <2>1 DEF Typed, TypeOK, FuturesHold, Ready
  <2>3. Take(NextUp)
    <3>1. CASE answer[NextUp] = "raised"
      BY <1>2, <2>1, <3>1 DEF Take, Report
    <3>2. CASE answer[NextUp] = "nothing"
      BY <1>2, <2>1, <3>2 DEF Take, Report
    <3>3. CASE answer[NextUp] = "exit"
      BY <1>2, <2>1, <3>3 DEF Take, Escape, Report
    <3>4. CASE answer[NextUp] = "product"
      BY <1>2, <2>1, <3>4 DEF Take
    <3> QED
      BY <2>2, <3>1, <3>2, <3>3, <3>4
  <2> QED
    BY <2>1, <2>3 DEF Main
<1>3. CASE main = "waiting" /\ ~Somebody
  BY <1>3 DEF Main, Return, MainCan, Somebody
<1>4. CASE main = "applying"
  BY <1>4 DEF Main, Apply, Report
<1>5. CASE main = "merging"
  BY <1>5 DEF Main, Merge, Begin, MainCan
<1>6. CASE main = "writing"
  <2>1. CASE Retrying
    BY <1>6, <2>1 DEF Main, Retry, Leave
  <2>2. CASE Refusing
    <3>1. Stale => attempt = MERGE_ATTEMPTS
      BY <2>2, NumberAssumption DEF Typed, TypeOK
    <3> QED
      BY <1>6, <2>2, <3>1 DEF Main, GiveUp, Leave, Report
  <2>3. CASE Writing
    BY <1>6, <2>3 DEF Main, Merged, Leave, Report
  <2> QED
    BY <1>6, <2>1, <2>2, <2>3
<1>7. CASE main = "rereading"
  BY <1>7 DEF Main, Reread
<1>8. CASE main = "escaping"
  BY <1>8 DEF Main, Return, MainCan
<1> QED
  BY <1>1, <1>2, <1>3, <1>4, <1>5, <1>6, <1>7, <1>8 DEF MainCan

(* MainCan and WorkerCan are no promise but a step: a thread of which they    *)
(* hold can do what MainGoes or WorkerGoes writes, and that is a step of the *)
(* fan-out, and by FanOutGoesOn one that brings it on.                       *)
THEOREM WhoCanGoOnDoes ==
  ASSUME Typed, Menu # {},
         \/ MainCan /\ MainGoes
         \/ \E p \in Passes : WorkerCan(p) /\ WorkerGoes(p)
  PROVE  Next /\ Onward
BY WorkerThatCan, MainThatCan, WorkerOnward, MainOnward DEF Next

-----------------------------------------------------------------------------
(* One after the other.  Every step of the fan-out is a step of Serial or    *)
(* cannot be seen there.  Two facts make it so: the product a future holds   *)
(* is of a session whose envelope says ok, and what a merge may still take   *)
(* back is what it landed itself, over what its session had been seeded with. *)

ProductRecorded ==
  \A p \in Passes : pc[p] = "done" /\ answer[p] = "product" => doc.sessions[p] = "ok"

Unsettled == {"merging", "writing", "rereading"}

HalfLanded ==
  /\ undo # {} => /\ main \in Unsettled \cup {"escaping", "escaped"}
                  /\ turn \in Passes /\ pc[turn] = "done"
  /\ main \in Unsettled => \A f \in undo : files[f] = turn

Told == Typed /\ Guarded /\ IdsAccounted /\ ProductRecorded /\ HalfLanded

LEMMA ProductsAreRecorded ==
  ASSUME Typed, Guarded, ProductRecorded, [Next]_vars
  PROVE  ProductRecorded'
<1>1. CASE Main
  <2>1. \A q \in Passes : pc'[q] = "done" => pc[q] = "done"
    BY <1>1, MainPlaces
  <2>2. doc'.sessions = doc.sessions
    BY <1>1, MainWrites
  <2>3. answer' = answer
    <3>1. ASSUME NEW p \in Passes, Take(p) PROVE answer' = answer
      BY <3>1, TakeAnswers DEF workerVars
    <3> QED
      BY <1>1, <3>1 DEF Main, Start, Apply, Merge, Merged, Retry, Reread, GiveUp, WriteFails,
         Return, workerVars
  <2> QED
    BY <2>1, <2>2, <2>3 DEF ProductRecorded
<1>2. ASSUME NEW p \in Passes, Worker(p) PROVE ProductRecorded'
  <2>1. \A q \in Passes \ {p} : /\ pc'[q] = pc[q] /\ answer'[q] = answer[q]
                                /\ doc'.sessions[q] = doc.sessions[q]
    <3>1. \A q \in Passes \ {p} : doc'.sessions[q] = doc.sessions[q]
      BY <1>2, WorkerWrites
    <3>2. \A q \in Passes \ {p} : pc'[q] = pc[q] /\ answer'[q] = answer[q]
      BY <1>2 DEF Typed, TypeOK, Worker, Submit, Door, Dispatch, Dispatched, Enter, Run, Settle,
         Finish, Finished, Answered
    <3> QED
      BY <3>1, <3>2
  <2>2. pc'[p] = "done" /\ answer'[p] = "product" => doc'.sessions[p] = "ok"
    <3> SUFFICES ASSUME pc'[p] = "done", answer'[p] = "product"
                 PROVE  doc'.sessions[p] = "ok"
      OBVIOUS
    <3>1. Finished(p)
      BY <1>2 DEF Typed, TypeOK, Worker, Submit, Door, Dispatch, Dispatched, Enter, Run, Settle,
         Finish, Answered
    <3>2. doc' = Stored(seen[p], p, OutcomeOf(answer[p])) /\ answer[p] = "product"
      BY <3>1 DEF Finished, Typed, TypeOK
    <3>3. OutcomeOf(answer[p]) = "ok" /\ "ok" \in Ends
      BY <3>2 DEF OutcomeOf, Ends
    <3>4. seen[p] \in Docs
      BY DEF Typed, TypeOK
    <3> QED
      BY <3>2, <3>3, <3>4, StoredDoc
  <2> QED
    BY <2>1, <2>2 DEF ProductRecorded
<1>3. CASE UNCHANGED vars
  BY <1>3 DEF ProductRecorded, vars, workerVars
<1> QED
  BY <1>1, <1>2, <1>3 DEF Next

LEMMA HalfLandedStays ==
  ASSUME Typed, HalfLanded, [Next]_vars
  PROVE  HalfLanded'
<1> USE DEF HalfLanded, Unsettled
<1>1. CASE Apply
  <2>1. main = "applying" /\ undo = {} /\ turn' = turn /\ pc' = pc
    BY <1>1 DEF Apply, workerVars
  <2>2. turn \in Passes /\ pc[turn] = "done"
    BY <2>1 DEF Typed, OneMerge, Merging
  <2>3. CASE main' = "merging"
    <3>1. \A f \in undo' : f \in Files /\ files'[f] = turn
      <4>1. undo' = Todo(turn) /\ TypeOK'
        BY <1>1, <2>3, MainTyped DEF Apply, Escape, Main
      <4>2. undo' \subseteq Files
        BY <4>1 DEF TypeOK
      <4>3. files' = [f \in Files |-> IF f \in Todo(turn) THEN turn ELSE files[f]]
        BY <1>1, <2>3 DEF Apply, Escape
      <4> QED
        BY <4>1, <4>2, <4>3
    <3> QED
      BY <2>1, <2>2, <2>3, <3>1
  <2>4. CASE main' # "merging"
    BY <1>1, <2>1, <2>4 DEF Apply, Escape
  <2> QED
    BY <2>3, <2>4
<1>2. CASE Merged \/ GiveUp
  BY <1>2 DEF Merged, GiveUp
<1>3. CASE Merge \/ Retry \/ Reread \/ WriteFails \/ Return
  <2>1. /\ UNCHANGED <<files, turn, undo, pc>>
        /\ main' \in Unsettled => main \in Unsettled
        /\ main \in Unsettled => main' \in Unsettled \cup {"escaping"}
        /\ main = "escaping" => main' = "escaped"
        /\ main # "escaped"
    BY <1>3 DEF Merge, Retry, Reread, WriteFails, Escape, Return, workerVars
  <2> QED
    BY <2>1
<1>4. CASE Start
  BY <1>4 DEF Start
<1>5. ASSUME NEW p \in Passes, Take(p) PROVE HalfLanded'
  BY <1>5, TakeAnswers
<1>6. ASSUME NEW p \in Passes, Worker(p) PROVE HalfLanded'
  <2>1. /\ UNCHANGED <<files, main, turn, undo>> /\ pc[p] # "done"
        /\ \A q \in Passes \ {p} : pc'[q] = pc[q]
    BY <1>6 DEF Worker, Submit, Door, Dispatch, Dispatched, Enter, Run, Settle, Finish,
       Finished, Answered, mainVars, Typed, TypeOK
  <2> QED
    BY <2>1
<1>7. CASE UNCHANGED vars
  BY <1>7 DEF vars, mainVars, workerVars
<1> QED
  BY <1>1, <1>2, <1>3, <1>4, <1>5, <1>6, <1>7 DEF Next, Main

LEMMA ToldInvariance == Spec => []Told
<1>1. Init => ProductRecorded /\ HalfLanded
  BY DEF Init, ProductRecorded, HalfLanded, Unsettled
<1>2. Typed /\ Guarded /\ ProductRecorded /\ [Next]_vars => ProductRecorded'
  BY ProductsAreRecorded
<1>3. Typed /\ HalfLanded /\ [Next]_vars => HalfLanded'
  BY HalfLandedStays
<1> QED
  BY <1>1, <1>2, <1>3, IdsInvariance, PTL DEF Spec, Told

(* What has landed in part is not in place, and stays so.                    *)
LEMMA InPlaceStays ==
  ASSUME UNCHANGED <<files, undo>>,
         undo = {} \/ (turn' = turn /\ seed'[turn] = seed[turn] /\ doc'.merges = doc.merges)
  PROVE  InPlace' = InPlace
BY DEF InPlace

(* A worker opens and closes the envelope of its pass.                       *)
LEMMA WorkerOneByOne ==
  ASSUME Told, NEW p \in Passes, Worker(p)
  PROVE  [OneByOne!Next]_(OneByOne!svars)
<1>1. /\ UNCHANGED <<files, undo, turn, result>> /\ pc[p] # "done"
      /\ \A q \in Passes \ {p} : seed'[q] = seed[q]
  BY DEF Worker, Submit, Door, Dispatch, Dispatched, Enter, Run, Settle, Finish,
     Finished, Gone, mainVars, Told, Typed, TypeOK
<1>2. InPlace' = InPlace
  <2>1. doc'.merges = doc.merges
    BY WorkerWrites, Zenon DEF Told
  <2> QED
    BY <1>1, <2>1, InPlaceStays DEF Told, HalfLanded
<1>4. /\ doc'.findings = doc.findings /\ doc'.queue = doc.queue /\ doc'.merges = doc.merges
      /\ \A q \in Passes \ {p} : doc'.sessions[q] = doc.sessions[q]
      /\ \/ doc' = doc
         \/ pc[p] = "storing" /\ pc'[p] \in {"recorded", "done"} /\ doc'.sessions[p] = "open"
         \/ pc[p] = "closing" /\ pc'[p] = "done" /\ doc'.sessions[p] \notin {"none", "open"}
  BY WorkerWrites, Zenon DEF Told
<1>5. /\ doc.sessions \in [Passes -> Ends] /\ doc'.sessions \in [Passes -> Ends]
      /\ pc[p] = "storing" => doc.sessions[p] = "none"
      /\ pc[p] = "closing" => doc.sessions[p] = "open"
  <2>1. doc' \in Docs
    BY WorkerTyped DEF Told, Typed, TypeOK
  <2>2. doc \in Docs
    BY DEF Told, Typed, TypeOK
  <2>3. /\ pc[p] = "storing" => doc.sessions[p] = "none"
        /\ pc[p] = "closing" => doc.sessions[p] = "open"
    BY DEF Told, Guarded, SessionsTracked, Dispatching, InSession
  <2> QED
    BY <2>1, <2>2, <2>3 DEF Docs
<1>6. doc'.sessions = [doc.sessions EXCEPT ![p] = doc'.sessions[p]]
  BY <1>4, <1>5
<1>7. CASE doc' = doc
  BY <1>2, <1>7 DEF OneByOne!svars
<1>8. CASE pc[p] = "storing" /\ doc'.sessions[p] = "open"
  <2>1. OneByOne!Open(p)
    BY <1>2, <1>4, <1>5, <1>6, <1>8 DEF OneByOne!Open
  <2> QED
    BY <2>1 DEF OneByOne!Next
<1>9. CASE pc[p] = "closing" /\ doc'.sessions[p] \notin {"none", "open"}
  <2>1. doc'.sessions[p] \in {"ok", "refused", "crash"}
    BY <1>5, <1>9 DEF Ends
  <2>2. OneByOne!Close(p)
    BY <1>2, <1>4, <1>5, <1>6, <1>9, <2>1 DEF OneByOne!Close
  <2> QED
    BY <2>2 DEF OneByOne!Next
<1> QED
  BY <1>4, <1>7, <1>8, <1>9

(* A merge that lands is the pass arriving, all at once.                     *)
LEMMA MergedOneByOne ==
  ASSUME Told, Main, Lands, NEW p \in Passes, p = turn
  PROVE  OneByOne!Merge(p)
<1>1. /\ turn \in Passes /\ pc[turn] = "done" /\ answer[turn] = "product"
      /\ result[turn] = "none" /\ Harvested(turn) /\ TypeOK /\ main = "writing"
  BY DEF Told, Typed, Lands, Merged, WriteFails, OneMerge, Merging, ProductsHarvested
<1>2. /\ doc.findings \subseteq doc'.findings /\ doc.queue \subseteq doc'.queue
      /\ doc'.sessions = doc.sessions
      /\ doc'.findings \ doc.findings \subseteq New(turn)
  <2>1. doc' = doc \/ doc'.findings = doc.findings \cup New(turn)
    BY MainWrites, Zenon DEF Told
  <2>2. /\ doc.findings \subseteq doc'.findings /\ doc.queue \subseteq doc'.queue
        /\ doc'.sessions = doc.sessions
    BY MainWrites, Zenon DEF Told
  <2> QED
    BY <2>1, <2>2
<1>3. doc.sessions[turn] = "ok"
  BY <1>1 DEF Told, ProductRecorded
<1>4. \A r \in New(turn) : r \in Findings /\ r.pass = turn
  BY <1>1, HarvestTyped
<1>5. ASSUME NEW r \in doc'.findings \ doc.findings
      PROVE  r.pass = turn /\ \A s \in doc'.findings : s.id = r.id => s = r
  <2>1. r \in New(turn)
    BY <1>2
  <2>2. ASSUME NEW s \in doc'.findings, s.id = r.id PROVE s = r
    <3>1. CASE s \in doc.findings
      <4>1. seen["main"] = doc
        BY <1>1, GroupAssumption DEF Told, Guarded, WindowHeld
      <4>2. r.id # s.id
        BY <1>1, <2>1, <3>1, <4>1, IdsMeetNot DEF Told, IdsNeverMeet
      <4> QED
        BY <2>2, <4>2
    <3>2. CASE s \notin doc.findings
      <4>1. s \in New(turn)
        BY <1>2, <3>2
      <4> QED
        BY <1>4, <2>1, <2>2, <4>1 DEF Findings
    <3> QED
      BY <3>1, <3>2
  <2> QED
    BY <1>4, <2>1, <2>2
<1>7. doc'.merges = doc.merges \cup {turn}
  <2>1. doc'.merges = doc.merges \cup {turn} \/ (doc' = doc /\ ~Merged)
    BY MainWrites, Zenon DEF Told
  <2>2. doc'.rev # doc.rev
    <3>1. seen["main"] = doc /\ doc \in Docs
      BY <1>1, GroupAssumption DEF Told, Guarded, WindowHeld, TypeOK
    <3>2. doc' = [doc EXCEPT !.rev = @ + 1, !.findings = @ \cup New(turn),
                             !.queue = @ \cup Remainder(turn), !.merges = @ \cup {turn}]
      BY <3>1 DEF Lands, Mutated
    <3>3. doc.rev \in Nat /\ doc'.rev = doc.rev + 1
      BY <3>1, <3>2 DEF Docs
    <3> QED
      BY <3>3
  <2> QED
    BY <2>1, <2>2
<1>6. /\ InPlace' \in [Files -> Passes \cup {Nobody}]
      /\ \A f \in Files : InPlace'[f] \in {InPlace[f], turn}
  <2>1. files' = files /\ turn' = turn /\ turn \in doc'.merges
    BY <1>7 DEF Lands, Merged, WriteFails
  <2>2. InPlace' = [f \in Files |-> files[f]] /\ files \in [Files -> Passes \cup {Nobody}]
    BY <1>1, <2>1 DEF InPlace, TypeOK
  <2>3. \A f \in undo : files[f] = turn
    BY <1>1 DEF Told, HalfLanded, Unsettled
  <2> QED
    BY <2>2, <2>3 DEF InPlace
<1>8. turn \notin doc.merges
  BY <1>1 DEF Told, Guarded, MergesReported
<1> QED
  BY <1>2, <1>3, <1>5, <1>6, <1>7, <1>8, p = turn DEF OneByOne!Merge

(* Nothing else the main thread does can be seen: artifacts that land are    *)
(* not in place until they are recorded, and those taken back never were.    *)
LEMMA MainOneByOne ==
  ASSUME Told, Main, ~Lands
  PROVE  UNCHANGED OneByOne!svars
<1>1. doc' = doc /\ ~Merged
  BY MainWrites, Zenon DEF Told
<1>2. InPlace' = InPlace
  <2> USE DEF Told, Typed
  <2>1. CASE Start
    <3>1. UNCHANGED <<files, undo, turn, seed>>
      BY <2>1 DEF Start
    <3> QED
      BY <1>1, <3>1, InPlaceStays
  <2>2. CASE Apply
    <3>1. /\ main = "applying" /\ undo = {} /\ turn' = turn /\ seed' = seed
      BY <2>2 DEF Apply, Escape, HalfLanded, Unsettled, workerVars
    <3>2. turn \notin doc.merges
      BY <3>1 DEF OneMerge, Merging, Guarded, MergesReported
    <3>3. CASE main' = "merging"
      <4>1. /\ ~Conflict(turn) /\ undo' = Todo(turn)
            /\ files' = [f \in Files |-> IF f \in Todo(turn) THEN turn ELSE files[f]]
        BY <2>2, <3>3 DEF Apply, Escape
      <4>2. \A f \in Todo(turn) : files[f] = seed[turn].files[f]
        BY <4>1 DEF Conflict
      <4>3. \A f \in Files :
              (IF f \in Todo(turn) THEN seed[turn].files[f] ELSE files'[f]) = files[f]
        BY <4>1, <4>2
      <4>4. InPlace' = [f \in Files |-> IF f \in Todo(turn) THEN seed[turn].files[f]
                                                             ELSE files'[f]]
        BY <1>1, <3>1, <3>2, <4>1 DEF InPlace
      <4>5. InPlace = [f \in Files |-> files[f]]
        BY <3>1 DEF InPlace
      <4> QED
        BY <4>3, <4>4, <4>5
    <3>4. CASE main' # "merging"
      <4>1. UNCHANGED <<files, undo>>
        BY <2>2, <3>4 DEF Apply, Escape
      <4> QED
        BY <1>1, <3>1, <4>1, InPlaceStays
    <3> QED
      BY <3>3, <3>4
  <2>3. CASE Merge \/ Retry \/ Reread \/ Return
    <3>1. UNCHANGED <<files, undo, turn, seed>>
      BY <2>3 DEF Merge, Retry, Reread, Return, workerVars
    <3> QED
      BY <1>1, <3>1, InPlaceStays
  <2>4. CASE GiveUp \/ WriteFails
    <3>1. /\ main = "writing" /\ turn' = turn /\ seed' = seed
      BY <2>4 DEF GiveUp, WriteFails, Escape, workerVars
    <3>2. turn \notin doc.merges
      BY <3>1 DEF OneMerge, Merging, Guarded, MergesReported
    <3>3. CASE GiveUp
      <4>1. undo' = {} /\ files' = Undone
        BY <3>3 DEF GiveUp
      <4> QED
        BY <1>1, <3>1, <3>2, <4>1 DEF InPlace, Undone
    <3>4. CASE WriteFails
      <4>1. UNCHANGED <<files, undo>>
        BY <3>4 DEF WriteFails
      <4> QED
        BY <1>1, <3>1, <4>1, InPlaceStays
    <3> QED
      BY <2>4, <3>3, <3>4
  <2>5. ASSUME NEW p \in Passes, Take(p) PROVE InPlace' = InPlace
    <3>1. main = "waiting" /\ UNCHANGED <<files, undo, seed>>
      BY <2>5, TakeAnswers DEF workerVars
    <3>2. undo = {}
      BY <3>1 DEF HalfLanded, Unsettled
    <3> QED
      BY <3>1, <3>2, InPlaceStays
  <2> QED
    BY <1>1, <2>1, <2>2, <2>3, <2>4, <2>5 DEF Main
<1> QED
  BY <1>1, <1>2 DEF OneByOne!svars

LEMMA StepOneByOne ==
  ASSUME Told, [Next]_vars
  PROVE  [OneByOne!Next]_(OneByOne!svars)
<1>1. CASE Main /\ Lands
  <2>1. PICK p \in Passes : p = turn
    BY <1>1 DEF Told, Typed, OneMerge, Merging, Lands, Merged, WriteFails
  <2>2. OneByOne!Merge(p)
    BY <1>1, <2>1, MergedOneByOne
  <2> QED
    BY <2>2 DEF OneByOne!Next
<1>2. CASE Main /\ ~Lands
  BY <1>2, MainOneByOne
<1>3. ASSUME NEW p \in Passes, Worker(p) PROVE [OneByOne!Next]_(OneByOne!svars)
  BY <1>3, WorkerOneByOne
<1>4. CASE UNCHANGED vars
  BY <1>4 DEF vars, mainVars, workerVars, OneByOne!svars, InPlace
<1> QED
  BY <1>1, <1>2, <1>3, <1>4 DEF Next

(* However the workers and the merges interleave and whatever write fails,   *)
(* the audit reads as if the passes had been run one after the other: what a *)
(* session filed and queued, and what was carried of what it wrote, arrives  *)
(* in one step, after an envelope that says ok, and once, or never.          *)
THEOREM FanOutReadsSerially == Spec => ImplementsSerial
<1>1. Init => OneByOne!Init
  <2> SUFFICES ASSUME Init PROVE OneByOne!Init
    OBVIOUS
  <2>1. InPlace = [f \in Files |-> Nobody]
    BY DEF Init, InPlace
  <2>2. doc.merges = {}
    BY DEF Init, Base
  <2>3. doc.findings = Base.findings /\ doc.queue = Base.queue
        /\ doc.sessions = [p \in Passes |-> "none"]
    BY DEF Init, Base
  <2> QED
    BY <2>1, <2>2, <2>3 DEF OneByOne!Init
<1>2. Told /\ [Next]_vars => [OneByOne!Next]_(OneByOne!svars)
  BY StepOneByOne
<1> QED
  BY <1>1, <1>2, ToldInvariance, PTL DEF Spec, ImplementsSerial, OneByOne!Spec

(* What a reader of the audit can rely on at any moment follows from the     *)
(* promise alone.                                                            *)
LEMMA WholeStays ==
  ASSUME TypeOK, OneByOne!Whole, [OneByOne!Next]_(OneByOne!svars)
  PROVE  OneByOne!Whole'
<1> DEFINE done == doc.merges
<1>0. doc.sessions \in [Passes -> Ends]
  BY DEF TypeOK, Docs
<1>1. ASSUME NEW p \in Passes, OneByOne!Open(p) \/ OneByOne!Close(p) PROVE OneByOne!Whole'
  <2>1. /\ doc'.findings = doc.findings /\ InPlace' = InPlace /\ done' = done
        /\ doc.sessions[p] # "ok"
        /\ \E end : doc'.sessions = [doc.sessions EXCEPT ![p] = end]
    BY <1>1 DEF OneByOne!Open, OneByOne!Close
  <2> HIDE DEF done
  <2>2. /\ \A r \in doc.findings \ Base.findings : r.pass \in done
        /\ \A f \in Files : InPlace[f] # Nobody => InPlace[f] \in done
        /\ \A q \in done : q \in Passes /\ doc.sessions[q] = "ok"
    BY DEF OneByOne!Whole, done
  <2>3. \A q \in done : doc'.sessions[q] = "ok"
    BY <1>0, <2>1, <2>2
  <2>4. Base' = Base
    BY DEF Base
  <2>5. /\ \A r \in doc'.findings \ Base'.findings : r.pass \in done'
        /\ \A f \in Files : InPlace'[f] # Nobody => InPlace'[f] \in done'
        /\ \A q \in done' : q \in Passes /\ doc'.sessions[q] = "ok"
    BY <2>1, <2>2, <2>3, <2>4
  <2> QED
    BY <2>5 DEF OneByOne!Whole, done
<1>2. ASSUME NEW p \in Passes, OneByOne!Merge(p) PROVE OneByOne!Whole'
  <2>1. /\ doc.sessions[p] = "ok" /\ done' = done \cup {p} /\ doc'.sessions = doc.sessions
        /\ \A r \in doc'.findings \ doc.findings : r.pass = p
        /\ \A f \in Files : InPlace'[f] \in {InPlace[f], p}
    BY <1>2 DEF OneByOne!Merge
  <2> HIDE DEF done
  <2>2. /\ \A r \in doc.findings \ Base.findings : r.pass \in done
        /\ \A f \in Files : InPlace[f] # Nobody => InPlace[f] \in done
        /\ \A q \in done : q \in Passes /\ doc.sessions[q] = "ok"
    BY DEF OneByOne!Whole, done
  <2>3. Base' = Base
    BY DEF Base
  <2>4. /\ \A r \in doc'.findings \ Base'.findings : r.pass \in done'
        /\ \A f \in Files : InPlace'[f] # Nobody => InPlace'[f] \in done'
        /\ \A q \in done' : q \in Passes /\ doc'.sessions[q] = "ok"
    BY <2>1, <2>2, <2>3
  <2> QED
    BY <2>4 DEF OneByOne!Whole, done
<1>3. CASE UNCHANGED OneByOne!svars
  BY <1>3 DEF OneByOne!svars, OneByOne!Whole, Base
<1> QED
  BY <1>1, <1>2, <1>3 DEF OneByOne!Next

(* At every moment each finding and each artifact in the audit was there     *)
(* before the fan-out or is of a pass that was taken in whole, after a       *)
(* session that ended well: nothing of a refused, crashed or half-merged     *)
(* pass is read as audited.                                                  *)
THEOREM AuditIsWhole == Spec => []OneByOne!Whole
<1>1. Init => OneByOne!Whole
  <2> SUFFICES ASSUME Init PROVE OneByOne!Whole
    OBVIOUS
  <2>1. /\ \A f \in Files : InPlace[f] = Nobody
        /\ doc.merges = {}
        /\ doc.findings = Base.findings
    BY DEF Init, Base, InPlace
  <2> QED
    BY <2>1 DEF OneByOne!Whole
<1>2. Told /\ OneByOne!Whole /\ [Next]_vars => OneByOne!Whole'
  BY StepOneByOne, WholeStays DEF Told, Typed
<1> QED
  BY <1>1, <1>2, ToldInvariance, PTL DEF Spec
=============================================================================
