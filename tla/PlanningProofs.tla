--------------------------- MODULE PlanningProofs ---------------------------
(***************************************************************************)
(* What the verbs that change queue, catalogs and construals keep true,    *)
(* for any plan, any catalogs and any number of sessions and verbs.        *)
(*                                                                         *)
(* Both results rest on IInv: the document in force is one that _validate  *)
(* takes, for migrate converts no other and every verb validates before it *)
(* replaces the old one, and a session on a pass has an envelope, so the   *)
(* role table is asked of all it runs.                                     *)
(***************************************************************************)
EXTENDS Planning, TLAPS

IInv == /\ tree \in Tree
        /\ doc # None => doc \in Document /\ _validate(doc)
        /\ session # None /\ session.on \in Passes => session.enveloped /\ session.role = "Auditor"

-----------------------------------------------------------------------------
(* Tables. *)

LEMMA TableFacts ==
  ASSUME NEW K, NEW E, NEW f \in Table(K, E)
  PROVE  /\ DOMAIN f \subseteq K /\ f = [x \in DOMAIN f |-> f[x]]
         /\ \A x \in DOMAIN f : f[x] \in E
BY DEF Table

LEMMA TableIntro ==
  ASSUME NEW K, NEW E, NEW D \in SUBSET K, NEW f \in [D -> E]
  PROVE  f \in Table(K, E)
BY DEF Table

LEMMA TablePut ==
  ASSUME NEW K, NEW E, NEW f \in Table(K, E), NEW k \in K, NEW e \in E
  PROVE  /\ Put(f, k, e) \in Table(K, E)
         /\ DOMAIN Put(f, k, e) = DOMAIN f \cup {k}
         /\ \A x \in DOMAIN f : x # k => Put(f, k, e)[x] = f[x]
<1>1. DOMAIN f \cup {k} \in SUBSET K /\ \A x \in DOMAIN f : f[x] \in E
  BY TableFacts
<1>2. Put(f, k, e) \in [DOMAIN f \cup {k} -> E]
  BY <1>1 DEF Put
<1>3. \A x \in DOMAIN f : x # k => Put(f, k, e)[x] = f[x]
  BY DEF Put
<1> QED
  BY <1>1, <1>2, <1>3, TableIntro

LEMMA TableRestrict ==
  ASSUME NEW K, NEW E, NEW f \in Table(K, E), NEW k
  PROVE  /\ Restrict(f, DOMAIN f \ {k}) \in Table(K, E)
         /\ DOMAIN Restrict(f, DOMAIN f \ {k}) = DOMAIN f \ {k}
         /\ \A x \in DOMAIN f \ {k} : Restrict(f, DOMAIN f \ {k})[x] = f[x]
<1>1. DOMAIN f \ {k} \in SUBSET K /\ \A x \in DOMAIN f : f[x] \in E
  BY TableFacts
<1>2. Restrict(f, DOMAIN f \ {k}) \in [DOMAIN f \ {k} -> E]
  BY <1>1 DEF Restrict
<1>3. \A x \in DOMAIN f \ {k} : Restrict(f, DOMAIN f \ {k})[x] = f[x]
  BY DEF Restrict
<1> QED
  BY <1>1, <1>2, <1>3, TableIntro

LEMMA TableSet ==
  ASSUME NEW K, NEW E, NEW f \in Table(K, E), NEW k \in DOMAIN f, NEW e \in E
  PROVE  /\ [f EXCEPT ![k] = e] \in Table(K, E)
         /\ DOMAIN [f EXCEPT ![k] = e] = DOMAIN f
         /\ [f EXCEPT ![k] = e][k] = e
         /\ \A x \in DOMAIN f : x # k => [f EXCEPT ![k] = e][x] = f[x]
<1>1. DOMAIN f \in SUBSET K /\ f \in [DOMAIN f -> E]
  BY TableFacts
<1>2. [f EXCEPT ![k] = e] \in [DOMAIN f -> E]
  BY <1>1
<1> QED
  BY <1>1, <1>2, TableIntro

(* A document with one of its parts replaced. *)
LEMMA Parts6 ==
  ASSUME NEW d \in Document
  PROVE  /\ d.queue \in Table(Passes, PassEntry) /\ d.norms \subseteq Norms
         /\ d.dims \in Table(Dims, SUBSET Norms) /\ d.units \subseteq Units
         /\ d.findings \in Table(Findings, Finding) /\ d.construals \subseteq Construal
BY DEF Document

LEMMA WithQueue ==
  ASSUME NEW d \in Document, NEW q \in Table(Passes, PassEntry)
  PROVE  LET e == [d EXCEPT !.queue = q] IN
         /\ e \in Document /\ e.queue = q /\ e.norms = d.norms /\ e.dims = d.dims
         /\ e.units = d.units /\ e.findings = d.findings /\ e.construals = d.construals
BY DEF Document

LEMMA WithNorms ==
  ASSUME NEW d \in Document, NEW q \in SUBSET Norms
  PROVE  LET e == [d EXCEPT !.norms = q] IN
         /\ e \in Document /\ e.queue = d.queue /\ e.norms = q /\ e.dims = d.dims
         /\ e.units = d.units /\ e.findings = d.findings /\ e.construals = d.construals
BY DEF Document

LEMMA WithUnits ==
  ASSUME NEW d \in Document, NEW q \in SUBSET Units
  PROVE  LET e == [d EXCEPT !.units = q] IN
         /\ e \in Document /\ e.queue = d.queue /\ e.norms = d.norms /\ e.dims = d.dims
         /\ e.units = q /\ e.findings = d.findings /\ e.construals = d.construals
BY DEF Document

LEMMA WithFindings ==
  ASSUME NEW d \in Document, NEW q \in Table(Findings, Finding)
  PROVE  LET e == [d EXCEPT !.findings = q] IN
         /\ e \in Document /\ e.queue = d.queue /\ e.norms = d.norms /\ e.dims = d.dims
         /\ e.units = d.units /\ e.findings = q /\ e.construals = d.construals
BY DEF Document

LEMMA WithConstruals ==
  ASSUME NEW d \in Document, NEW q \in SUBSET Construal
  PROVE  LET e == [d EXCEPT !.construals = q] IN
         /\ e \in Document /\ e.queue = d.queue /\ e.norms = d.norms /\ e.dims = d.dims
         /\ e.units = d.units /\ e.findings = d.findings /\ e.construals = q
BY DEF Document

-----------------------------------------------------------------------------
(* What a verb does to a document it is let write. *)

Certified(p) == doc.queue[p].done \/ (session # None /\ session.on = p)

Stands(p) == /\ p \in DOMAIN doc'.queue
             /\ doc'.queue[p].dim = doc.queue[p].dim
             /\ doc'.queue[p].units = doc.queue[p].units
             /\ doc'.queue[p].charter = doc.queue[p].charter
             /\ doc.queue[p].done => doc'.queue[p].coverage = doc.queue[p].coverage

Rewrites == /\ doc # None /\ doc' \in Document /\ _validate(doc')
            /\ tree' = tree /\ session' = session
            /\ \A p \in DOMAIN doc.queue : Certified(p) => Stands(p)

(* A pass that is worked on is in nobody's hands but the session's. *)
LEMMA AdminOnFree ==
  ASSUME IInv, NEW p \in Passes, NEW verb \in Admin, Authorized(verb)
  PROVE  ~(session # None /\ session.on = p)
BY DEF IInv, Authorized

LEMMA SameQueue ==
  ASSUME doc # None, NEW d \in Document, d.queue = doc.queue, Commit(d)
  PROVE  Rewrites
BY DEF Commit, Rewrites, Stands

LEMMA QueuePassRewrites ==
  ASSUME IInv, _queue_pass
  PROVE  Rewrites
<1>1. PICK p \in Passes, e \in Entry :
        /\ doc # None /\ p \notin DOMAIN doc.queue
        /\ Commit([doc EXCEPT !.queue = Put(@, p, e)])
  BY DEF _queue_pass, Verb
<1>2. doc \in Document /\ e \in PassEntry
  BY <1>1 DEF IInv, Entry, PassEntry
<1> DEFINE q == Put(doc.queue, p, e)
           d == [doc EXCEPT !.queue = q]
<1>3. /\ q \in Table(Passes, PassEntry)
      /\ \A x \in DOMAIN doc.queue : x \in DOMAIN q /\ q[x] = doc.queue[x]
  <2>1. doc.queue \in Table(Passes, PassEntry)
    BY <1>2, Parts6
  <2>2. q \in Table(Passes, PassEntry)
    BY <1>2, <2>1, TablePut
  <2>3. DOMAIN q = DOMAIN doc.queue \cup {p} /\ \A x \in DOMAIN doc.queue : x # p => q[x] = doc.queue[x]
    BY DEF Put
  <2> HIDE DEF q
  <2> QED
    BY <1>1, <2>2, <2>3
<1>4. Commit(d)
  BY <1>1
<1> HIDE DEF q
<1>5. d \in Document /\ d.queue = q
  BY <1>2, <1>3, WithQueue
<1> HIDE DEF d
<1> QED
  BY <1>1, <1>3, <1>4, <1>5 DEF Commit, Rewrites, Stands

LEMMA AmendPassRewrites ==
  ASSUME IInv, _amend_pass
  PROVE  Rewrites
<1>1. PICK p \in Passes, e \in Entry :
        /\ doc # None /\ Authorized("amend-pass") /\ p \in DOMAIN doc.queue /\ ~doc.queue[p].done
        /\ Commit([doc EXCEPT !.queue[p] = e])
  BY DEF _amend_pass, Verb, Changeable
<1>2. doc \in Document /\ e \in PassEntry
  BY <1>1 DEF IInv, Entry, PassEntry
<1> DEFINE q == [doc.queue EXCEPT ![p] = e]
           d == [doc EXCEPT !.queue = q]
<1>3. /\ q \in Table(Passes, PassEntry) /\ DOMAIN q = DOMAIN doc.queue
      /\ \A x \in DOMAIN doc.queue : x # p => q[x] = doc.queue[x]
  BY <1>1, <1>2, Parts6, TableSet
<1>4. Commit(d)
  BY <1>1
<1> HIDE DEF q
<1>5. d \in Document /\ d.queue = q
  BY <1>2, <1>3, WithQueue
<1> HIDE DEF d
<1>6. ~Certified(p)
  BY <1>1, AdminOnFree DEF Certified, Admin
<1> QED
  BY <1>1, <1>3, <1>4, <1>5, <1>6 DEF Commit, Rewrites, Stands

LEMMA CancelPassRewrites ==
  ASSUME IInv, _cancel_pass
  PROVE  Rewrites
<1>1. PICK p \in Passes :
        /\ doc # None /\ Authorized("cancel-pass") /\ p \in DOMAIN doc.queue /\ ~doc.queue[p].done
        /\ Commit([doc EXCEPT !.queue = Restrict(@, DOMAIN @ \ {p})])
  BY DEF _cancel_pass, Verb, Cancellable, Changeable, Cancelled
<1>2. doc \in Document
  BY <1>1 DEF IInv
<1> DEFINE q == Restrict(doc.queue, DOMAIN doc.queue \ {p})
           d == [doc EXCEPT !.queue = q]
<1>3. /\ q \in Table(Passes, PassEntry)
      /\ \A x \in DOMAIN doc.queue : x # p => x \in DOMAIN q /\ q[x] = doc.queue[x]
  <2>1. doc.queue \in Table(Passes, PassEntry)
    BY <1>2, Parts6
  <2>2. q \in Table(Passes, PassEntry)
    BY <2>1, TableRestrict
  <2>3. DOMAIN q = DOMAIN doc.queue \ {p} /\ \A x \in DOMAIN doc.queue \ {p} : q[x] = doc.queue[x]
    BY DEF Restrict
  <2> HIDE DEF q
  <2> QED
    BY <2>2, <2>3
<1>4. Commit(d)
  BY <1>1
<1> HIDE DEF q
<1>5. d \in Document /\ d.queue = q
  BY <1>2, <1>3, WithQueue
<1> HIDE DEF d
<1>6. ~Certified(p)
  BY <1>1, AdminOnFree DEF Certified, Admin
<1> QED
  BY <1>1, <1>3, <1>4, <1>5, <1>6 DEF Commit, Rewrites, Stands

LEMMA RecordCoverageRewrites ==
  ASSUME IInv, _record_coverage
  PROVE  Rewrites
<1>1. PICK p \in Passes, F \in SUBSET Findings :
        /\ doc # None /\ p \in DOMAIN doc.queue /\ doc.queue[p].coverage = None
        /\ Commit([doc EXCEPT !.queue[p] = [@ EXCEPT !.coverage = F, !.done = TRUE]])
  BY DEF _record_coverage, Verb
<1>2. doc \in Document /\ doc.queue[p] \in PassEntry /\ ~doc.queue[p].done
  <2>1. doc \in Document /\ QueueValid(doc)
    BY <1>1 DEF IInv, _validate
  <2>2. doc.queue[p] \in PassEntry
    BY <1>1, <2>1, Parts6, TableFacts
  <2> QED
    BY <1>1, <2>1, <2>2 DEF QueueValid
<1> DEFINE e == [doc.queue[p] EXCEPT !.coverage = F, !.done = TRUE]
           q == [doc.queue EXCEPT ![p] = e]
           d == [doc EXCEPT !.queue = q]
<1>3. e \in PassEntry /\ e.dim = doc.queue[p].dim /\ e.units = doc.queue[p].units
      /\ e.charter = doc.queue[p].charter
  BY <1>2 DEF PassEntry
<1>4. Commit(d)
  BY <1>1
<1> HIDE DEF e
<1>5. /\ q \in Table(Passes, PassEntry) /\ DOMAIN q = DOMAIN doc.queue /\ q[p] = e
      /\ \A x \in DOMAIN doc.queue : x # p => q[x] = doc.queue[x]
  BY <1>1, <1>2, <1>3, Parts6, TableSet
<1> HIDE DEF q
<1>6. d \in Document /\ d.queue = q
  BY <1>2, <1>5, WithQueue
<1> HIDE DEF d
<1> QED
  BY <1>1, <1>2, <1>3, <1>4, <1>5, <1>6 DEF Commit, Rewrites, Stands

LEMMA FileFindingRewrites ==
  ASSUME IInv, _file_finding
  PROVE  Rewrites
<1>1. PICK f \in Findings, p \in Passes, k \in Dims, U \in SUBSET Units :
        /\ doc # None
        /\ Commit([doc EXCEPT !.findings = Put(@, f, [pass |-> p, dim |-> k, units |-> U])])
  BY DEF _file_finding, Verb
<1>2. doc \in Document /\ [pass |-> p, dim |-> k, units |-> U] \in Finding
  BY <1>1 DEF IInv, Finding
<1> DEFINE q == Put(doc.findings, f, [pass |-> p, dim |-> k, units |-> U])
           d == [doc EXCEPT !.findings = q]
<1>3. q \in Table(Findings, Finding)
  BY <1>2, Parts6, TablePut
<1>4. Commit(d)
  BY <1>1
<1> HIDE DEF q
<1>5. d \in Document /\ d.queue = doc.queue
  BY <1>2, <1>3, WithFindings
<1> HIDE DEF d
<1> QED
  BY <1>1, <1>4, <1>5, SameQueue

LEMMA TextType ==
  ASSUME IInv, doc # None, NEW t
  PROVE  Text(t) \in Charters \cup {"plan", None}
<1>1. ASSUME t \in DOMAIN doc.queue PROVE doc.queue[t].charter \in Charters
  <2>1. doc.queue[t] \in PassEntry
    BY <1>1, Parts6, TableFacts DEF IInv
  <2> QED
    BY <2>1 DEF PassEntry
<1> QED
  BY <1>1, PassAssumption, Parts6, TableFacts DEF Text, IInv

LEMMA ProposeRewrites ==
  ASSUME IInv, _propose_construal
  PROVE  Rewrites
<1>1. PICK t \in Targets, s \in Claims :
        /\ doc # None
        /\ Commit([doc EXCEPT !.construals = @ \cup
             {[on |-> t, session |-> s, admitter |-> None, read |-> Text(t)]}])
  BY DEF _propose_construal, Verb
<1> DEFINE c == [on |-> t, session |-> s, admitter |-> None, read |-> Text(t)]
           d == [doc EXCEPT !.construals = @ \cup {c}]
<1>2. c \in Construal
  BY <1>1, TextType DEF Construal
<1>3. Commit(d)
  BY <1>1
<1> HIDE DEF c
<1>4. doc \in Document /\ doc.construals \cup {c} \in SUBSET Construal
  BY <1>1, <1>2, Parts6 DEF IInv
<1>5. d \in Document /\ d.queue = doc.queue
  BY <1>4, WithConstruals
<1> HIDE DEF d
<1> QED
  BY <1>1, <1>3, <1>5, SameQueue

LEMMA AdmitRewrites ==
  ASSUME IInv, _admit_construal
  PROVE  Rewrites
<1>1. PICK c \in doc.construals, a \in Claims \cup {Human} :
        /\ doc # None
        /\ Commit([doc EXCEPT !.construals = (@ \ {c}) \cup {[c EXCEPT !.admitter = a]}])
  BY DEF _admit_construal, Verb
<1>2. doc \in Document /\ doc.construals \subseteq Construal /\ c \in Construal
  BY <1>1, Parts6 DEF IInv
<1> DEFINE e == [c EXCEPT !.admitter = a]
           d == [doc EXCEPT !.construals = (@ \ {c}) \cup {e}]
<1>3. e \in Construal
  BY <1>2 DEF Construal
<1>4. Commit(d)
  BY <1>1
<1> HIDE DEF e
<1>5. (doc.construals \ {c}) \cup {e} \in SUBSET Construal
  BY <1>2, <1>3
<1>6. d \in Document /\ d.queue = doc.queue
  BY <1>2, <1>5, WithConstruals
<1> HIDE DEF d
<1> QED
  BY <1>1, <1>4, <1>6, SameQueue

LEMMA RemovedType ==
  ASSUME doc \in Document, NEW kind \in DOMAIN Catalog, NEW key
  PROVE  Removed(kind, key) \in Document /\ Removed(kind, key).queue = doc.queue
<1>1. kind \in {"norm", "dimension", "unit"}
  BY DEF Catalog
<1>2. CASE kind = "norm"
  <2>1. Removed(kind, key) = [doc EXCEPT !.norms = doc.norms \ {key}]
    BY <1>2 DEF Removed
  <2>2. doc.norms \ {key} \in SUBSET Norms
    BY Parts6
  <2> QED
    BY <2>1, <2>2, WithNorms
<1>3. CASE kind = "dimension"
  <2> DEFINE q == Restrict(doc.dims, DOMAIN doc.dims \ {key})
  <2>1. Removed(kind, key) = [doc EXCEPT !.dims = q]
    BY <1>3 DEF Removed
  <2>2. q \in Table(Dims, SUBSET Norms)
    <3>1. doc.dims \in Table(Dims, SUBSET Norms)
      BY Parts6
    <3> QED
      BY <3>1, TableRestrict
  <2> HIDE DEF q
  <2> QED
    BY <2>1, <2>2 DEF Document
<1>4. CASE kind = "unit"
  <2>1. Removed(kind, key) = [doc EXCEPT !.units = doc.units \ {key}]
    BY <1>4 DEF Removed
  <2>2. doc.units \ {key} \in SUBSET Units
    BY Parts6
  <2> QED
    BY <2>1, <2>2, WithUnits
<1> QED
  BY <1>1, <1>2, <1>3, <1>4

LEMMA RemoveRewrites ==
  ASSUME IInv, RemoveEntry
  PROVE  Rewrites
<1>1. PICK kind \in DOMAIN Catalog : \E key \in Catalog[kind] :
        doc # None /\ Commit(Removed(kind, key))
  BY DEF RemoveEntry, Verb
<1>2. PICK key \in Catalog[kind] : doc # None /\ Commit(Removed(kind, key))
  BY <1>1
<1> QED
  BY <1>2, RemovedType, SameQueue DEF IInv

LEMMA PutRewrites ==
  ASSUME IInv, PutEntry
  PROVE  Rewrites
<1> DEFINE D(kind, key, N) ==
             CASE kind = "norm"      -> [doc EXCEPT !.norms = @ \cup {key}]
               [] kind = "unit"      -> [doc EXCEPT !.units = @ \cup {key}]
               [] kind = "dimension" -> [doc EXCEPT !.dims = Put(@, key, N)]
<1>1. PICK kind \in DOMAIN Catalog : \E key \in Catalog[kind], N \in SUBSET Norms :
        doc # None /\ Commit(D(kind, key, N))
  BY DEF PutEntry, Verb
<1>2. PICK key \in Catalog[kind], N \in SUBSET Norms : doc # None /\ Commit(D(kind, key, N))
  BY <1>1
<1>3. kind \in {"norm", "dimension", "unit"} /\ doc \in Document
  BY <1>2 DEF Catalog, IInv
<1>4. D(kind, key, N) \in Document /\ D(kind, key, N).queue = doc.queue
  <2>1. CASE kind = "norm"
    <3>1. D(kind, key, N) = [doc EXCEPT !.norms = doc.norms \cup {key}]
      BY <2>1
    <3>2. doc.norms \cup {key} \in SUBSET Norms
      BY <1>3, <2>1, Parts6 DEF Catalog
    <3> QED
      BY <1>3, <3>1, <3>2, WithNorms
  <2>2. CASE kind = "unit"
    <3>1. D(kind, key, N) = [doc EXCEPT !.units = doc.units \cup {key}]
      BY <2>2
    <3>2. doc.units \cup {key} \in SUBSET Units
      BY <1>3, <2>2, Parts6 DEF Catalog
    <3> QED
      BY <1>3, <3>1, <3>2, WithUnits
  <2>3. CASE kind = "dimension"
    <3> DEFINE q == Put(doc.dims, key, N)
    <3>1. D(kind, key, N) = [doc EXCEPT !.dims = q]
      BY <2>3
    <3>2. q \in Table(Dims, SUBSET Norms)
      <4>1. key \in Dims
        BY <2>3 DEF Catalog
      <4>2. doc.dims \in Table(Dims, SUBSET Norms)
        BY <1>3, Parts6
      <4> QED
        BY <4>1, <4>2, TablePut
    <3> HIDE DEF q
    <3> QED
      BY <1>3, <3>1, <3>2 DEF Document
  <2> QED
    BY <1>3, <2>1, <2>2, <2>3
<1> HIDE DEF D
<1> QED
  BY <1>2, <1>4, SameQueue

LEMMA VerbsRewrite ==
  ASSUME IInv, Verbs
  PROVE  Rewrites
BY QueuePassRewrites, AmendPassRewrites, CancelPassRewrites, RecordCoverageRewrites,
   FileFindingRewrites, ProposeRewrites, AdmitRewrites, RemoveRewrites, PutRewrites DEF Verbs

-----------------------------------------------------------------------------
LEMMA InitInv == Init => IInv
BY TreeAssumption DEF Init, IInv

LEMMA Keeps == IInv /\ [Next]_vars => IInv'
<1> SUFFICES ASSUME IInv, [Next]_vars PROVE IInv'
  OBVIOUS
<1>1. CASE Verbs
  BY <1>1, VerbsRewrite DEF Rewrites, IInv
<1>2. CASE Migration
  <2>1. tree' = tree /\ session' = session
    BY <1>2 DEF Migration, Convert, _backup_views, Regenerate, Crash, Undo
  <2>2. \/ doc' = doc \/ doc' = None
        \/ doc' = tree.doc /\ _validate(tree.doc)
    BY <1>2 DEF Migration, Convert, _backup_views, Regenerate, Crash, Undo, Converts
  <2>3. tree.doc \in Document
    BY DEF IInv, Tree
  <2> QED
    BY <2>1, <2>2, <2>3 DEF IInv
<1>3. CASE DispatchPlanner
  <2>1. tree' = tree /\ doc' = doc /\ session'.on = "PLAN"
    BY <1>3 DEF DispatchPlanner, Begin
  <2> QED
    BY <2>1, PassAssumption DEF IInv
<1>4. CASE Dispatch
  <2>1. /\ tree' = tree /\ doc' = doc
        /\ session'.enveloped = TRUE /\ session'.role = RoleOf(session'.on)
    BY <1>4 DEF Dispatch, Begin
  <2>2. session'.on \in Passes => session'.role = "Auditor"
    BY <2>1, PassAssumption DEF RoleOf
  <2> QED
    BY <2>1, <2>2 DEF IInv
<1>5. CASE WritePlan
  <2>1. PICK d \in Drafts : tree' = [tree EXCEPT !.doc = d.doc, !.unread = d.unread,
                                                 !.halves = d.halves]
    BY <1>5 DEF WritePlan
  <2>2. d.doc \in Document /\ d.unread \in SUBSET Parts /\ d.halves \in SUBSET Passes
    BY TreeAssumption
  <2>3. tree' \in Tree
    BY <2>1, <2>2 DEF IInv, Tree
  <2>4. doc' = doc /\ session' = session
    BY <1>5 DEF WritePlan
  <2> QED
    BY <2>3, <2>4 DEF IInv
<1>6. CASE EndSession
  BY <1>6 DEF EndSession, IInv
<1>7. CASE Operate
  BY <1>7 DEF Operate, IInv
<1>8. CASE UNCHANGED vars
  BY <1>8 DEF vars, IInv
<1> QED
  BY <1>1, <1>2, <1>3, <1>4, <1>5, <1>6, <1>7, <1>8 DEF Next

(* state.py's promise to whoever loads: the document in force is a document, *)
(* and one that _validate takes.                                             *)
THEOREM DocumentsValidate == Spec => [](doc # None => doc \in Document /\ _validate(doc))
<1>1. IInv => (doc # None => doc \in Document /\ _validate(doc))
  BY DEF IInv
<1> QED
  BY <1>1, InitInv, Keeps, PTL DEF Spec

(* PassStands, of one step. *)
LEMMA StepStands ==
  ASSUME IInv, [Next]_vars, NEW p \in Passes, doc # None, doc' # None, p \in DOMAIN doc.queue,
         doc.queue[p].done \/ (session # None /\ session' = session /\ session.on = p)
  PROVE  Stands(p)
<1>1. CASE Verbs
  BY <1>1, VerbsRewrite DEF Rewrites, Certified
<1>2. CASE ~Verbs
  <2>1. doc' = doc
    BY <1>2 DEF Next, vars, Migration, Convert, _backup_views, Regenerate, Crash, Undo,
                DispatchPlanner, Dispatch, Begin, WritePlan, EndSession, Operate
  <2> QED
    BY <2>1 DEF Stands
<1> QED
  BY <1>1, <1>2

(* write.py:1407, write.py:662: a pass under audit keeps its charter and a   *)
(* certified one its certificate too, whoever runs which verb.               *)
THEOREM PassesStand == Spec => PassStands
<1>1. Spec => []IInv
  BY InitInv, Keeps, PTL DEF Spec
<1>2. IInv /\ [Next]_vars =>
        [\A p \in Passes :
           /\ doc # None /\ doc' # None /\ p \in DOMAIN doc.queue
           /\ doc.queue[p].done \/ (session # None /\ session' = session /\ session.on = p)
           => /\ p \in DOMAIN doc'.queue
              /\ [Given(doc, p) EXCEPT !.coverage = None] = [Given(doc', p) EXCEPT !.coverage = None]
              /\ doc.queue[p].done => Given(doc, p) = Given(doc', p)]_vars
  <2>1. ASSUME NEW p, Stands(p)
        PROVE  /\ [Given(doc, p) EXCEPT !.coverage = None] = [Given(doc', p) EXCEPT !.coverage = None]
               /\ doc.queue[p].done => Given(doc, p) = Given(doc', p)
    BY <2>1 DEF Given, Stands
  <2> QED
    BY <2>1, StepStands DEF Stands
<1> QED
  BY <1>1, <1>2, PTL DEF Spec, PassStands

-----------------------------------------------------------------------------
(* What the guards of the removing verbs leave is a document again. *)

LEMMA NormRemoved ==
  ASSUME IInv, doc # None, NEW key, Removable("norm", key)
  PROVE  _validate(Removed("norm", key))
<1> DEFINE d == Removed("norm", key)
<1>1. /\ d.queue = doc.queue /\ d.norms = doc.norms \ {key} /\ d.dims = doc.dims
      /\ d.units = doc.units /\ d.findings = doc.findings /\ d.construals = doc.construals
  BY DEF Removed, IInv, Document
<1>2. \A k \in DOMAIN doc.dims : key \notin doc.dims[k]
  BY DEF Removable, References
<1>3. QueueValid(doc) /\ FindingsValid(doc) /\ ConstrualsValid(doc) /\ DimsValid(doc)
  BY DEF IInv, _validate
<1> HIDE DEF d
<1>4. QueueValid(d) /\ FindingsValid(d) /\ ConstrualsValid(d)
  BY <1>1, <1>3 DEF QueueValid, FindingsValid, ConstrualsValid, Placed
<1>5. DimsValid(d)
  BY <1>1, <1>2, <1>3 DEF DimsValid
<1> QED
  BY <1>4, <1>5 DEF _validate, d

LEMMA DimensionRemoved ==
  ASSUME IInv, doc # None, NEW key, Removable("dimension", key)
  PROVE  _validate(Removed("dimension", key))
<1> DEFINE d == Removed("dimension", key)
           q == Restrict(doc.dims, DOMAIN doc.dims \ {key})
<1>1. d = [doc EXCEPT !.dims = q]
  BY DEF Removed
<1>2. /\ key \in DOMAIN doc.dims
      /\ \A f \in DOMAIN doc.findings : doc.findings[f].dim # key
      /\ \A p \in DOMAIN doc.queue : doc.queue[p].dim # key
  BY DEF Removable, References, Listed
<1>3. QueueValid(doc) /\ FindingsValid(doc) /\ ConstrualsValid(doc) /\ DimsValid(doc)
  BY DEF IInv, _validate
<1>4. DOMAIN q = DOMAIN doc.dims \ {key} /\ \A k \in DOMAIN q : q[k] = doc.dims[k]
  BY DEF Restrict
<1> HIDE DEF d, q
<1>5. /\ d.queue = doc.queue /\ d.norms = doc.norms /\ d.dims = q
      /\ d.units = doc.units /\ d.findings = doc.findings /\ d.construals = doc.construals
  BY <1>1 DEF IInv, Document
<1>6. ASSUME NEW x, Placed(doc, x), x.dim # key PROVE Placed(d, x)
  BY <1>2, <1>4, <1>5, <1>6 DEF Placed, Known
<1>7. QueueValid(d)
  BY <1>2, <1>3, <1>5, <1>6 DEF QueueValid
<1>8. FindingsValid(d)
  BY <1>2, <1>3, <1>5, <1>6 DEF FindingsValid
<1>9. ConstrualsValid(d) /\ DimsValid(d)
  BY <1>3, <1>4, <1>5 DEF ConstrualsValid, DimsValid
<1> QED
  BY <1>7, <1>8, <1>9 DEF _validate, d

LEMMA UnitRemoved ==
  ASSUME IInv, doc # None, NEW key, Removable("unit", key)
  PROVE  _validate(Removed("unit", key))
<1> DEFINE d == Removed("unit", key)
<1>1. /\ d.queue = doc.queue /\ d.norms = doc.norms /\ d.dims = doc.dims
      /\ d.units = doc.units \ {key} /\ d.findings = doc.findings /\ d.construals = doc.construals
  BY DEF Removed, IInv, Document
<1>2. /\ key \in doc.units
      /\ \A f \in DOMAIN doc.findings : key \notin doc.findings[f].units
      /\ \A p \in DOMAIN doc.queue : key \notin doc.queue[p].units
  BY DEF Removable, References, Listed
<1>3. QueueValid(doc) /\ FindingsValid(doc) /\ ConstrualsValid(doc) /\ DimsValid(doc)
  BY DEF IInv, _validate
<1> HIDE DEF d
<1>4. ASSUME NEW x, Placed(doc, x), key \notin x.units PROVE Placed(d, x)
  BY <1>1, <1>2, <1>4 DEF Placed, Known
<1>5. QueueValid(d)
  BY <1>1, <1>2, <1>3, <1>4 DEF QueueValid
<1>6. FindingsValid(d)
  BY <1>1, <1>2, <1>3, <1>4 DEF FindingsValid
<1>7. ConstrualsValid(d) /\ DimsValid(d)
  BY <1>1, <1>3 DEF ConstrualsValid, DimsValid
<1> QED
  BY <1>5, <1>6, <1>7 DEF _validate, d

LEMMA PassRemoved ==
  ASSUME IInv, doc # None, NEW p \in Passes, Cancellable(p)
  PROVE  _validate(Cancelled(p))
<1> DEFINE d == Cancelled(p)
           q == Restrict(doc.queue, DOMAIN doc.queue \ {p})
<1>1. d = [doc EXCEPT !.queue = q]
  BY DEF Cancelled
<1>2. \A f \in DOMAIN doc.findings : doc.findings[f].pass # p
  BY DEF Cancellable
<1>3. QueueValid(doc) /\ FindingsValid(doc) /\ ConstrualsValid(doc) /\ DimsValid(doc)
  BY DEF IInv, _validate
<1>4. DOMAIN q = DOMAIN doc.queue \ {p} /\ \A k \in DOMAIN q : q[k] = doc.queue[k]
  BY DEF Restrict
<1> HIDE DEF d, q
<1>5. /\ d.queue = q /\ d.norms = doc.norms /\ d.dims = doc.dims
      /\ d.units = doc.units /\ d.findings = doc.findings /\ d.construals = doc.construals
  BY <1>1 DEF IInv, Document
<1>6. \A x : Placed(d, x) <=> Placed(doc, x)
  BY <1>5 DEF Placed
<1>7. QueueValid(d)
  BY <1>3, <1>4, <1>5, <1>6 DEF QueueValid
<1>8. FindingsValid(d)
  BY <1>2, <1>3, <1>4, <1>5, <1>6 DEF FindingsValid
<1>9. ConstrualsValid(d) /\ DimsValid(d)
  BY <1>3, <1>5 DEF ConstrualsValid, DimsValid
<1> QED
  BY <1>7, <1>8, <1>9 DEF _validate, d

LEMMA InvReadable == IInv => RemovalsStayReadable
<1> SUFFICES ASSUME IInv, doc # None
             PROVE  /\ \A kind \in DOMAIN Catalog : \A key \in Catalog[kind] :
                         Removable(kind, key) => _validate(Removed(kind, key))
                    /\ \A p \in Passes : Cancellable(p) => _validate(Cancelled(p))
  BY DEF RemovalsStayReadable
<1>1. DOMAIN Catalog = {"norm", "dimension", "unit"}
  BY DEF Catalog
<1> QED
  BY <1>1, NormRemoved, DimensionRemoved, UnitRemoved, PassRemoved

(* write.py:1549: no removal the guards let through leaves a document that   *)
(* the next load refuses, whatever names what in it.                         *)
THEOREM RemovalsRead == Spec => []RemovalsStayReadable
<1>1. Spec => []IInv
  BY InitInv, Keeps, PTL DEF Spec
<1> QED
  BY <1>1, InvReadable, PTL
=============================================================================
