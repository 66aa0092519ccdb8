-------------------------- MODULE LifecycleProofs --------------------------
(***************************************************************************)
(* What the write verbs keep true, for every number of findings, classes   *)
(* and sessions and every reopen limit: the types with the bound on the    *)
(* attempts, the two directions of a class, the norm gate, the independence*)
(* of a verdict and the lane of a triage session.                          *)
(*                                                                         *)
(* None of them is inductive by itself.  IInv adds what they lean on: a    *)
(* count at the limit belongs to a flagged record or to one that a class   *)
(* absorbed once, membership is for ever, only a class is blocked, a fix   *)
(* is signed by a Remediator, and under a triage session a record that was *)
(* due is due or decided.  Every verb but --members writes one record:     *)
(* WriteStep says once what such a write may do, and each verb's lemma     *)
(* shows that it does no more.                                             *)
(*                                                                         *)
(* The orchestrated cycle over the verbs takes the sessions' roles away at *)
(* each launch, so it keeps an invariant of its own, CInv, and what the    *)
(* decision says is read off its branches.                                 *)
(***************************************************************************)
EXTENDS Cycle, TLAPS

(* A class lists whom points at it, for ever; it is in no class itself. *)
Linked ==
  /\ \A c \in Classes : \A f \in members[c] : rec[f].class = c /\ rec[f].status # "unfiled"
  /\ \A f \in Findings : rec[f].class # None => f \in members[rec[f].class]
  /\ \A c \in Classes : rec[c].class = None /\ (rec[c].status = "unfiled" => members[c] = {})
  /\ \A r \in Records : rec[r].status = "superseded-by-class" => rec[r].class # None

(* The reopened count against the limit and the needs-human flag. *)
Counted ==
  \A r \in Records :
    /\ rec[r].flag => rec[r].status = "reopened"
    /\ rec[r].attempts > ReopenLimit => rec[r].flag /\ rec[r].class # None
    /\ ~rec[r].flag /\ rec[r].attempts >= ReopenLimit => rec[r].class # None

(* What is blocked is a class in remediation. *)
Gated == \A r \in Records : rec[r].blocked =>
           r \in Classes /\ rec[r].status \in {"validated", "planned"}

(* Every fix names its session, a Remediator's where sessions are kept. *)
Signed == \A r \in Records :
            /\ rec[r].status = "fixed" => rec[r].fixed_by # None
            /\ rec[r].fixed_by # None => roleOf[rec[r].fixed_by] \in {"Remediator", None}

(* Under a triage session, what was due for triage is due or decided. *)
DueOrDecided == {"reported", "deferred", "unfiled", "accepted", "rejected"}
Seated == dispatch # None /\ roleOf[dispatch] = "Triage" =>
            \A r \in Records, s \in {"reported", "deferred", "unfiled"} :
              <<r, s>> \in seen => rec[r].status \in DueOrDecided

IInv == TypeOK /\ Linked /\ Counted /\ Gated /\ Signed /\ Seated

-----------------------------------------------------------------------------
(* Lemmas about the data. *)

LEMMA Types ==
  ASSUME TypeOK, NEW r \in Records
  PROVE  /\ rec[r] \in Entry
         /\ rec[r].status \in STATUSES \cup {"unfiled"}
         /\ rec[r].attempts \in 0..(ReopenLimit + 1) /\ rec[r].attempts \in Int
         /\ rec[r].flag \in BOOLEAN /\ rec[r].blocked \in BOOLEAN
         /\ rec[r].class \in Classes \cup {None}
         /\ rec[r].fixed_by \in Sessions \cup {None}
BY LimitAssumption DEF TypeOK, Entry

LEMMA FreshEntry ==
  ASSUME NEW s \in STATUSES \cup {"unfiled"}
  PROVE  /\ Fresh(s) \in Entry
         /\ Fresh(s).status = s /\ Fresh(s).attempts = 0 /\ Fresh(s).flag = FALSE
         /\ Fresh(s).class = None /\ Fresh(s).fixed_by = None /\ Fresh(s).blocked = FALSE
BY LimitAssumption DEF Fresh, Entry

LEMMA InitInv == Init => IInv
<1> SUFFICES ASSUME Init PROVE IInv
  OBVIOUS
<1>1. \A r \in Records : rec[r] = Fresh("unfiled")
  BY DEF Init
<1>2. TypeOK
  BY <1>1, FreshEntry, IdAssumption DEF Init, TypeOK
<1>3. Linked
  BY <1>1, FreshEntry DEF Init, Linked, Records
<1>4. Counted
  <2>1. \A r \in Records : rec[r].attempts = 0 /\ rec[r].flag = FALSE
    BY <1>1, FreshEntry
  <2> QED
    BY <2>1, LimitAssumption DEF Counted
<1>5. Gated /\ Signed /\ Seated
  BY <1>1, FreshEntry DEF Init, Gated, Signed, Seated
<1> QED
  BY <1>2, <1>3, <1>4, <1>5 DEF IInv

(* A write of one record. *)
LEMMA PutOne ==
  ASSUME rec \in [Records -> Entry], NEW r \in Records, NEW e \in Entry,
         rec' = [rec EXCEPT ![r] = e]
  PROVE  rec' \in [Records -> Entry] /\ rec'[r] = e /\ \A q \in Records \ {r} : rec'[q] = rec[q]
OBVIOUS

(* util.TRANSITIONS, row by row. *)
LEMMA Moves ==
  /\ TRANSITIONS["reported"] = {"accepted", "rejected", "deferred"}
  /\ TRANSITIONS["deferred"] = {"accepted", "rejected"}
  /\ TRANSITIONS["accepted"] = {"validated", "disputed", "obsolete", "superseded-by-class"}
  /\ TRANSITIONS["validated"] = {"planned", "superseded-by-class"}
  /\ TRANSITIONS["planned"] = {"fixed", "superseded-by-class"}
  /\ TRANSITIONS["fixed"] = {"closed", "reopened"}
  /\ TRANSITIONS["reopened"] = {"planned", "superseded-by-class"}
  /\ TRANSITIONS["disputed"] = {"accepted", "withdrawn"}
  /\ TRANSITIONS["superseded-by-class"] = {"accepted"}
  /\ \A s \in {"closed", "rejected", "withdrawn", "obsolete", "unfiled"} : TRANSITIONS[s] = {}
<1> DEFINE
      S == STATUSES \cup {"unfiled"}
      T(s) == CASE s = "reported"  -> {"accepted", "rejected", "deferred"}
      [] s = "deferred"  -> {"accepted", "rejected"}
      [] s = "accepted"  -> {"validated", "disputed", "obsolete", "superseded-by-class"}
      [] s = "validated" -> {"planned", "superseded-by-class"}
      [] s = "planned"   -> {"fixed", "superseded-by-class"}
      [] s = "fixed"     -> {"closed", "reopened"}
      [] s = "reopened"  -> {"planned", "superseded-by-class"}
      [] s = "disputed"  -> {"accepted", "withdrawn"}
      [] s = "superseded-by-class" -> {"accepted"}
      [] OTHER -> {}
<1>1. \A s \in S : TRANSITIONS[s] = T(s)
  BY DEF TRANSITIONS
<1>2. {"closed", "rejected", "withdrawn", "obsolete", "superseded-by-class",
       "reported", "accepted", "deferred", "validated", "planned",
                           "fixed", "reopened", "disputed", "unfiled"} \subseteq S
  BY DEF STATUSES, TERMINAL
<1> QED
  BY <1>1, <1>2

(* What set-status can and cannot reach. *)
LEMMA MoveFacts ==
  ASSUME NEW s \in STATUSES \cup {"unfiled"}, NEW want \in TRANSITIONS[s], <<s, want>> \notin RESERVED
  PROVE  /\ want \in STATUSES /\ want \notin {"fixed", "reopened", "unfiled"}
         /\ s \notin {"fixed", "unfiled"}
         /\ s \in {"validated", "planned"} => want \in {"validated", "planned", "superseded-by-class"}
         /\ want \in {"accepted", "rejected", "deferred"} /\ s \in DueOrDecided => s \in {"reported", "deferred"}
BY Moves DEF STATUSES, TERMINAL, RESERVED, DueOrDecided


-----------------------------------------------------------------------------
(* What a verb may do to the one record it writes. *)
Admissible(r) ==
  /\ rec'[r].class = rec[r].class
  /\ rec'[r].status = "unfiled" => rec[r].status = "unfiled"
  /\ rec'[r].status = "superseded-by-class" => rec[r].class # None
  /\ rec'[r].flag => rec'[r].status = "reopened"
  /\ rec'[r].attempts > ReopenLimit => rec'[r].flag /\ rec[r].class # None
  /\ ~rec'[r].flag /\ rec'[r].attempts >= ReopenLimit => rec[r].class # None
  /\ rec'[r].blocked => r \in Classes /\ rec'[r].status \in {"validated", "planned"}
  /\ rec'[r].status = "fixed" => rec'[r].fixed_by # None
  /\ rec'[r].fixed_by # None => roleOf[rec'[r].fixed_by] \in {"Remediator", None}
  /\ dispatch # None /\ roleOf[dispatch] = "Triage" =>
       rec'[r].status = rec[r].status \/ rec'[r].status \in DueOrDecided

LEMMA WriteType ==
  ASSUME TypeOK, Write(rec'), rec' \in [Records -> Entry], members' \in [Classes -> SUBSET Findings]
  PROVE  TypeOK' /\ UNCHANGED <<roleOf, dispatch>>
<1>1. \A r \in Records : rec'[r].status \in STATUSES \cup {"unfiled"}
  BY DEF Entry
<1>2. SeenIn(rec') \subseteq Records \X (STATUSES \cup {"unfiled"})
  BY <1>1 DEF SeenIn
<1> QED
  BY <1>2 DEF TypeOK, Write

LEMMA WriteSeen ==
  ASSUME TypeOK, Seated, Write(rec'),
         dispatch # None /\ roleOf[dispatch] = "Triage" =>
           \A r \in Records : rec'[r].status = rec[r].status \/ rec'[r].status \in DueOrDecided
  PROVE  Seated'
<1> SUFFICES ASSUME dispatch # None, roleOf[dispatch] = "Triage",
                    NEW r \in Records, NEW s \in {"reported", "deferred", "unfiled"},
                    <<r, s>> \in seen'
             PROVE  rec'[r].status \in DueOrDecided
  BY DEF Seated, Write
<1>1. CASE <<r, s>> \in seen
  BY <1>1 DEF Seated
<1>2. CASE <<r, s>> \in SeenIn(rec')
  <2>1. rec'[r].status = s
    BY <1>2 DEF SeenIn
  <2> QED
    BY <2>1 DEF DueOrDecided
<1>3. <<r, s>> \in seen \/ <<r, s>> \in SeenIn(rec')
  BY DEF Write
<1> QED
  BY <1>1, <1>2, <1>3

LEMMA WriteStep ==
  ASSUME IInv, NEW r \in Records, Write(rec'), members' = members,
         rec' \in [Records -> Entry], \A q \in Records \ {r} : rec'[q] = rec[q],
         Admissible(r)
  PROVE  IInv'
<1>1. TypeOK' /\ UNCHANGED <<roleOf, dispatch>>
  BY WriteType DEF IInv, TypeOK
<1>2. Linked'
  <2>1. \A q \in Records : /\ rec'[q].class = rec[q].class
                           /\ rec'[q].status = "unfiled" => rec[q].status = "unfiled"
                           /\ rec'[q].status = "superseded-by-class" => rec'[q].class # None
    BY DEF Admissible, IInv, Linked
  <2>2. \A c \in Classes : members[c] \subseteq Records
    BY DEF IInv, TypeOK, Records
  <2>3. Findings \subseteq Records /\ Classes \subseteq Records
    BY DEF Records
  <2> QED
    BY <2>1, <2>2, <2>3 DEF IInv, Linked
<1>3. Counted'
  BY DEF Admissible, IInv, Counted
<1>4. Gated'
  BY DEF Admissible, IInv, Gated
<1>5. Signed'
  BY <1>1 DEF Admissible, IInv, Signed
<1>6. Seated'
  BY WriteSeen DEF Admissible, IInv
<1> QED
  BY <1>1, <1>2, <1>3, <1>4, <1>5, <1>6 DEF IInv

-----------------------------------------------------------------------------
(* Who may run what, and the verbs one by one. *)

LEMMA RoleFacts ==
  ASSUME NEW role \in Roles, NEW route \in ROLE_ROUTES[role]
  PROVE  /\ route.verb = "record-verdict" => role = "Verifier"
         /\ route.verb = "record-fix" => role = "Remediator"
         /\ role = "Triage" => /\ route.verb = "set-status"
                               /\ route.from = {"reported", "deferred", "unfiled"}
                               /\ route.to = {"accepted", "rejected", "deferred"}
<1>1. CASE role = "Auditor"
  BY <1>1 DEF ROLE_ROUTES, Route, Free
<1>2. CASE role = "Triage"
  BY <1>2 DEF ROLE_ROUTES, Route, Free
<1>3. CASE role = "Remediator"
  BY <1>3 DEF ROLE_ROUTES, Route, Free
<1>4. CASE role = "Verifier"
  BY <1>4 DEF ROLE_ROUTES, Route, Free
<1> QED
  BY <1>1, <1>2, <1>3, <1>4 DEF Roles

LEMMA Authority ==
  ASSUME TypeOK, dispatch # None, NEW verb, NEW r, NEW want, Authorized(verb, r, want)
  PROVE  /\ roleOf[dispatch] \in Roles
         /\ verb = "record-verdict" => roleOf[dispatch] = "Verifier"
         /\ verb = "record-fix" => roleOf[dispatch] = "Remediator"
         /\ roleOf[dispatch] = "Triage" =>
              /\ verb = "set-status"
              /\ want \in {"accepted", "rejected", "deferred"}
              /\ \E s \in {"reported", "deferred", "unfiled"} : <<r, s>> \in seen
<1>1. roleOf[dispatch] \in Roles
  BY DEF TypeOK
<1>2. PICK route \in ROLE_ROUTES[roleOf[dispatch]] :
        /\ verb = route.verb /\ want \in route.to
        /\ \E x \in seen : x[1] = r /\ x[2] \in route.from
  BY DEF Authorized
<1>3. \A x \in seen : x = <<x[1], x[2]>>
  BY DEF TypeOK
<1>4. \E s \in route.from : <<r, s>> \in seen
  BY <1>2, <1>3
<1> QED
  BY <1>1, <1>2, <1>4, RoleFacts

LEMMA TriageSetsStatus ==
  ASSUME TypeOK, dispatch # None, roleOf[dispatch] = "Triage",
         NEW verb, NEW r, NEW want, Authorized(verb, r, want)
  PROVE  verb = "set-status"
BY Authority

LEMMA SetStatusStep ==
  ASSUME IInv, NEW r \in Records, NEW want \in TRANSITIONS[rec[r].status], SetStatus(r, want)
  PROVE  IInv'
<1> DEFINE n == IF rec[r].flag THEN 0 ELSE rec[r].attempts
           e == [rec[r] EXCEPT !.status = want, !.flag = FALSE, !.attempts = n]
<1>1. /\ <<rec[r].status, want>> \notin RESERVED
      /\ want = "superseded-by-class" => rec[r].class # None
      /\ rec' = [rec EXCEPT ![r].status = want, ![r].flag = FALSE,
                       ![r].attempts = IF rec[r].flag THEN 0 ELSE @]
      /\ Write(rec') /\ UNCHANGED <<members, roleOf, dispatch>>
      /\ Authorized("set-status", r, want)
  BY DEF SetStatus, Write
<1>2. /\ want \in STATUSES /\ want \notin {"reopened", "fixed", "unfiled"}
      /\ rec[r].status \in {"validated", "planned"}
           => want \in {"validated", "planned", "superseded-by-class"}
  BY <1>1, Types, MoveFacts DEF IInv
<1>3. rec' = [rec EXCEPT ![r] = e]
  BY <1>1 DEF IInv, TypeOK
<1>4. e \in Entry /\ e.status = want /\ e.flag = FALSE /\ e.attempts = n
      /\ e.class = rec[r].class /\ e.fixed_by = rec[r].fixed_by /\ e.blocked = rec[r].blocked
  <2>1. rec[r].attempts \in 0..(ReopenLimit + 1) /\ rec[r] \in Entry
    BY Types DEF IInv
  <2>2. 0 \in 0..(ReopenLimit + 1)
    BY LimitAssumption
  <2>3. n \in 0..(ReopenLimit + 1)
    BY <2>1, <2>2
  <2> HIDE DEF n
  <2> QED
    BY <1>2, <2>1, <2>3 DEF Entry
<1>5. /\ rec' \in [Records -> Entry] /\ rec'[r] = e
      /\ \A q \in Records \ {r} : rec'[q] = rec[q]
  BY <1>3, <1>4, PutOne DEF IInv, TypeOK
<1>6. n <= ReopenLimit /\ (n >= ReopenLimit => rec[r].class # None) /\ n \in Int
  BY Types, LimitAssumption DEF IInv, Counted
<1>7. dispatch # None /\ roleOf[dispatch] = "Triage" => want \in DueOrDecided
  BY <1>1, Authority DEF IInv, DueOrDecided
<1>8. rec[r].blocked => r \in Classes /\ want \in {"validated", "planned"}
  BY <1>1, <1>2 DEF IInv, Gated, Linked
<1> HIDE DEF n, e
<1>9. Admissible(r)
  <2> USE <1>2, <1>4, <1>5
  <2>1. /\ rec'[r].class = rec[r].class /\ rec'[r].status = want
        /\ rec'[r].flag = FALSE /\ rec'[r].attempts = n
        /\ rec'[r].fixed_by = rec[r].fixed_by /\ rec'[r].blocked = rec[r].blocked
    OBVIOUS
  <2>2. rec[r].fixed_by # None => roleOf[rec[r].fixed_by] \in {"Remediator", None}
    BY DEF IInv, Signed
  <2>3. ~(n > ReopenLimit)
    BY <1>6, LimitAssumption
  <2> QED
    BY <1>1, <1>6, <1>7, <1>8, <2>1, <2>2, <2>3 DEF Admissible
<1> QED
  BY <1>1, <1>5, <1>9, WriteStep

LEMMA RecordFixStep ==
  ASSUME IInv, NEW r \in Records, NEW s \in Sessions, RecordFix(r, s)
  PROVE  IInv'
<1> DEFINE e == [rec[r] EXCEPT !.status = "fixed", !.fixed_by = s, !.flag = FALSE]
<1>1. /\ rec[r].status = "planned" /\ rec[r].blocked = FALSE
      /\ rec' = [rec EXCEPT ![r].status = "fixed", ![r].fixed_by = s, ![r].flag = FALSE]
      /\ Write(rec') /\ UNCHANGED members
      /\ Authorized("record-fix", r, "fixed") /\ Bound(s)
  BY Types DEF RecordFix, Write, IInv
<1>2. rec' = [rec EXCEPT ![r] = e]
  BY <1>1 DEF IInv, TypeOK
<1>3. /\ e \in Entry /\ e.status = "fixed" /\ e.fixed_by = s /\ e.flag = FALSE
      /\ e.class = rec[r].class /\ e.attempts = rec[r].attempts /\ e.blocked = rec[r].blocked
  BY Types DEF IInv, Entry, STATUSES
<1>4. /\ rec' \in [Records -> Entry] /\ rec'[r] = e
      /\ \A q \in Records \ {r} : rec'[q] = rec[q]
  BY <1>2, <1>3, PutOne DEF IInv, TypeOK
<1>5. roleOf[s] \in {"Remediator", None} /\ ~(dispatch # None /\ roleOf[dispatch] = "Triage")
  BY <1>1, Authority DEF IInv, Bound
<1>6. rec[r].flag = FALSE
  BY <1>1, Types DEF IInv, Counted
<1> HIDE DEF e
<1>7. Admissible(r)
  BY <1>1, <1>3, <1>4, <1>5, <1>6, IdAssumption DEF Admissible, IInv, Counted
<1> QED
  BY <1>1, <1>4, <1>7, WriteStep

LEMMA RecordVerdictStep ==
  ASSUME IInv, NEW r \in Records, NEW s \in Sessions, NEW verdict \in {"closed", "reopened"},
         RecordVerdict(r, verdict, s)
  PROVE  IInv'
<1> DEFINE n == rec[r].attempts + (IF verdict = "reopened" THEN 1 ELSE 0)
           b == (verdict = "reopened" /\ n >= ReopenLimit)
           e == [rec[r] EXCEPT !.status = verdict, !.flag = b, !.attempts = n]
<1>1. /\ rec[r].status = "fixed"
      /\ rec' = [rec EXCEPT ![r].status = verdict, ![r].attempts = n, ![r].flag = b]
      /\ Write(rec') /\ UNCHANGED members
      /\ Authorized("record-verdict", r, verdict)
  BY DEF RecordVerdict, Write
<1>2. rec' = [rec EXCEPT ![r] = e]
  BY <1>1 DEF IInv, TypeOK
<1>3. rec[r].flag = FALSE /\ rec[r].blocked = FALSE
  BY <1>1, Types DEF IInv, Counted, Gated
<1>4. /\ rec[r].attempts \in 0..ReopenLimit
      /\ rec[r].attempts = ReopenLimit => rec[r].class # None
  BY <1>3, Types, LimitAssumption DEF IInv, Counted
<1>5. n \in 0..(ReopenLimit + 1) /\ b \in BOOLEAN
  BY <1>4, LimitAssumption
<1>6. /\ n > ReopenLimit => b /\ rec[r].class # None
      /\ ~b /\ n >= ReopenLimit => rec[r].class # None
      /\ b => verdict = "reopened"
  BY <1>4, LimitAssumption
<1> HIDE DEF n, b
<1>7. /\ e \in Entry /\ e.status = verdict /\ e.flag = b /\ e.attempts = n
      /\ e.class = rec[r].class /\ e.fixed_by = rec[r].fixed_by /\ e.blocked = rec[r].blocked
  <2>1. rec[r] \in Entry /\ verdict \in STATUSES
    BY Types DEF IInv, STATUSES, TERMINAL
  <2> QED
    BY <1>5, <2>1 DEF Entry
<1> HIDE DEF e
<1>8. /\ rec' \in [Records -> Entry] /\ rec'[r] = e
      /\ \A q \in Records \ {r} : rec'[q] = rec[q]
  BY <1>2, <1>7, PutOne DEF IInv, TypeOK
<1>9. ~(dispatch # None /\ roleOf[dispatch] = "Triage")
  BY <1>1, Authority DEF IInv
<1>10. Admissible(r)
  BY <1>1, <1>3, <1>6, <1>7, <1>8, <1>9 DEF Admissible, IInv, Signed
<1> QED
  BY <1>1, <1>8, <1>10, WriteStep

LEMMA FileFindingStep ==
  ASSUME IInv, NEW f \in Findings, FileFinding(f)
  PROVE  IInv'
<1>1. /\ rec[f].status = "unfiled"
      /\ rec' = [rec EXCEPT ![f] = Fresh("reported")]
      /\ Write(rec') /\ UNCHANGED members
      /\ f \in Records
  BY DEF FileFinding, Write, Records
<1>2. /\ Fresh("reported") \in Entry
      /\ Fresh("reported").status = "reported" /\ Fresh("reported").attempts = 0
      /\ Fresh("reported").flag = FALSE /\ Fresh("reported").class = None
      /\ Fresh("reported").fixed_by = None /\ Fresh("reported").blocked = FALSE
  BY FreshEntry DEF STATUSES
<1>3. /\ rec' \in [Records -> Entry] /\ rec'[f] = Fresh("reported")
      /\ \A q \in Records \ {f} : rec'[q] = rec[q]
  BY <1>1, <1>2, PutOne DEF IInv, TypeOK
<1>4. rec[f].class = None
  BY <1>1, Types DEF IInv, Linked
<1>5. Admissible(f)
  BY <1>2, <1>3, <1>4, LimitAssumption DEF Admissible, DueOrDecided
<1> QED
  BY <1>1, <1>3, <1>5, WriteStep

(* A verb that leaves everything but the refusal alone. *)
LEMMA RefusalStep ==
  ASSUME IInv, NEW r \in Records, RecordRefusal(r) \/ ClearRefusal(r)
  PROVE  IInv'
<1>1. PICK b \in BOOLEAN : rec' = [rec EXCEPT ![r].refusal = b]
  BY DEF RecordRefusal, ClearRefusal, Write
<1>2. Write(rec') /\ UNCHANGED members
  BY DEF RecordRefusal, ClearRefusal, Write
<1> DEFINE e == [rec[r] EXCEPT !.refusal = b]
<1>3. rec' = [rec EXCEPT ![r] = e]
  BY <1>1 DEF IInv, TypeOK
<1>4. /\ e \in Entry /\ e.status = rec[r].status /\ e.flag = rec[r].flag
      /\ e.attempts = rec[r].attempts /\ e.class = rec[r].class
      /\ e.fixed_by = rec[r].fixed_by /\ e.blocked = rec[r].blocked
  BY Types DEF IInv, Entry
<1> HIDE DEF e
<1>5. /\ rec' \in [Records -> Entry] /\ rec'[r] = e
      /\ \A q \in Records \ {r} : rec'[q] = rec[q]
  BY <1>3, <1>4, PutOne DEF IInv, TypeOK
<1>6. Admissible(r)
  BY <1>4, <1>5 DEF Admissible, IInv, Linked, Counted, Gated, Signed
<1> QED
  BY <1>2, <1>5, <1>6, WriteStep

LEMMA BlockStep ==
  ASSUME IInv, NEW c \in Classes, BlockOnNorm(c)
  PROVE  IInv'
<1> DEFINE e == [rec[c] EXCEPT !.blocked = TRUE, !.ruling = "pending"]
<1>1. /\ rec[c].status \in {"validated", "planned"} /\ c \in Records
      /\ rec' = [rec EXCEPT ![c].blocked = TRUE, ![c].ruling = "pending"]
      /\ Write(rec') /\ UNCHANGED members
  BY DEF BlockOnNorm, Write, Records
<1>2. rec' = [rec EXCEPT ![c] = e]
  BY <1>1 DEF IInv, TypeOK
<1>3. /\ e \in Entry /\ e.status = rec[c].status /\ e.flag = rec[c].flag
      /\ e.attempts = rec[c].attempts /\ e.class = rec[c].class
      /\ e.fixed_by = rec[c].fixed_by
  BY <1>1, Types DEF IInv, Entry
<1> HIDE DEF e
<1>4. /\ rec' \in [Records -> Entry] /\ rec'[c] = e
      /\ \A q \in Records \ {c} : rec'[q] = rec[q]
  BY <1>1, <1>2, <1>3, PutOne DEF IInv, TypeOK
<1>5. Admissible(c)
  BY <1>1, <1>3, <1>4 DEF Admissible, IInv, Linked, Counted, Gated, Signed
<1> QED
  BY <1>1, <1>4, <1>5, WriteStep

LEMMA RulingStep ==
  ASSUME IInv, NEW r \in Records, NEW norm \in Norms, RecordRuling(r, norm)
  PROVE  IInv'
<1> DEFINE e == [rec[r] EXCEPT !.blocked = FALSE, !.ruling = norm]
<1>1. /\ rec' = [rec EXCEPT ![r].blocked = FALSE, ![r].ruling = norm]
      /\ Write(rec') /\ UNCHANGED members
  BY DEF RecordRuling, Write
<1>2. rec' = [rec EXCEPT ![r] = e]
  BY <1>1 DEF IInv, TypeOK
<1>3. /\ e \in Entry /\ e.status = rec[r].status /\ e.flag = rec[r].flag
      /\ e.attempts = rec[r].attempts /\ e.class = rec[r].class
      /\ e.fixed_by = rec[r].fixed_by /\ e.blocked = FALSE
  BY Types, NormAssumption DEF IInv, Entry
<1> HIDE DEF e
<1>4. /\ rec' \in [Records -> Entry] /\ rec'[r] = e
      /\ \A q \in Records \ {r} : rec'[q] = rec[q]
  BY <1>2, <1>3, PutOne DEF IInv, TypeOK
<1>5. Admissible(r)
  BY <1>3, <1>4 DEF Admissible, IInv, Linked, Counted, Gated, Signed
<1> QED
  BY <1>1, <1>4, <1>5, WriteStep

LEMMA FileClassStep ==
  ASSUME IInv, NEW c \in Classes, NEW S \in SUBSET Findings, FileClass(c, S)
  PROVE  IInv'
<1> DEFINE e(r) == [rec[r] EXCEPT !.status = "superseded-by-class", !.class = c, !.flag = FALSE]
<1>1. /\ rec[c].status = "unfiled"
      /\ \A f \in S : "superseded-by-class" \in TRANSITIONS[rec[f].status]
      /\ \A d \in Classes : S \cap members[d] = {}
      /\ rec' = [r \in Records |-> CASE r = c -> Fresh("reported")
                                     [] r \in S -> e(r)
                                     [] OTHER -> rec[r]]
      /\ Write(rec') /\ members' = [members EXCEPT ![c] = S]
      /\ Authorized("file-finding", c, "reported")
  BY DEF FileClass, Write, Absorbable
<1>2. c \in Records /\ S \subseteq Records /\ c \notin S
  BY IdAssumption DEF Records
<1>3. /\ rec'[c] = Fresh("reported")
      /\ \A f \in S : rec'[f] = e(f)
      /\ \A r \in Records \ (S \cup {c}) : rec'[r] = rec[r]
  BY <1>1, <1>2
<1>4. /\ Fresh("reported") \in Entry
      /\ Fresh("reported").status = "reported" /\ Fresh("reported").attempts = 0
      /\ Fresh("reported").flag = FALSE /\ Fresh("reported").class = None
      /\ Fresh("reported").fixed_by = None /\ Fresh("reported").blocked = FALSE
  BY FreshEntry DEF STATUSES
<1>5. \A f \in S :
        /\ e(f) \in Entry /\ e(f).status = "superseded-by-class" /\ e(f).class = c
        /\ e(f).flag = FALSE /\ e(f).attempts = rec[f].attempts
        /\ e(f).fixed_by = rec[f].fixed_by /\ e(f).blocked = rec[f].blocked
  BY <1>2, Types DEF IInv, Entry, STATUSES, TERMINAL
<1> HIDE DEF e
<1>6. \A f \in S : rec[f].class = None
  <2> SUFFICES ASSUME NEW f \in S, rec[f].class # None PROVE FALSE
    OBVIOUS
  <2>1. rec[f].class \in Classes
    BY <1>2, Types DEF IInv
  <2>2. f \in members[rec[f].class]
    BY DEF IInv, Linked
  <2> QED
    BY <1>1, <2>1, <2>2
<1>7. \A f \in S : rec[f].status # "unfiled"
  <2>1. TRANSITIONS["unfiled"] = {}
    BY Moves
  <2> QED
    BY <1>1, <2>1
<1>8. rec' \in [Records -> Entry] /\ members' \in [Classes -> SUBSET Findings]
  <2>1. \A r \in Records : rec'[r] \in Entry
    BY <1>2, <1>3, <1>4, <1>5, Types DEF IInv
  <2>2. rec' = [r \in Records |-> rec'[r]]
    BY <1>1
  <2> QED
    BY <1>1, <2>1, <2>2 DEF IInv, TypeOK
<1>9. TypeOK' /\ UNCHANGED <<roleOf, dispatch>>
  BY <1>1, <1>8, WriteType DEF IInv
<1>10. members[c] = {} /\ rec[c].class = None
  BY <1>1 DEF IInv, Linked
<1>11. members'[c] = S /\ \A d \in Classes \ {c} : members'[d] = members[d]
  BY <1>1 DEF IInv, TypeOK
<1>12. Linked'
  <2>1. \A d \in Classes : \A f \in members'[d] :
          rec'[f].class = d /\ rec'[f].status # "unfiled"
    <3> SUFFICES ASSUME NEW d \in Classes, NEW f \in members'[d]
                 PROVE  rec'[f].class = d /\ rec'[f].status # "unfiled"
      OBVIOUS
    <3>1. CASE d = c
      BY <1>3, <1>5, <1>11, <3>1
    <3>2. CASE d # c
      <4>1. f \in members[d] /\ f \in Findings
        BY <1>11, <3>2 DEF IInv, TypeOK
      <4>2. f \notin S /\ f # c /\ f \in Records
        BY <1>1, <4>1, IdAssumption DEF Records
      <4> QED
        BY <1>3, <4>1, <4>2 DEF IInv, Linked
    <3> QED
      BY <3>1, <3>2
  <2>2. \A f \in Findings : rec'[f].class # None => f \in members'[rec'[f].class]
    <3> SUFFICES ASSUME NEW f \in Findings, rec'[f].class # None
                 PROVE  f \in members'[rec'[f].class]
      OBVIOUS
    <3>1. CASE f \in S
      BY <1>3, <1>5, <1>11, <3>1
    <3>2. CASE f \notin S
      <4>1. f \in Records /\ f # c /\ rec'[f] = rec[f]
        BY <1>3, <3>2, IdAssumption DEF Records
      <4>2. f \in members[rec[f].class] /\ rec[f].class \in Classes
        BY <4>1, Types DEF IInv, Linked
      <4>3. rec[f].class # c
        BY <1>10, <4>2
      <4> QED
        BY <1>11, <4>1, <4>2, <4>3
    <3> QED
      BY <3>1, <3>2
  <2>3. \A d \in Classes : rec'[d].class = None /\ (rec'[d].status = "unfiled" => members'[d] = {})
    <3> SUFFICES ASSUME NEW d \in Classes
                 PROVE rec'[d].class = None /\ (rec'[d].status = "unfiled" => members'[d] = {})
      OBVIOUS
    <3>1. CASE d = c
      BY <1>3, <1>4, <3>1
    <3>2. CASE d # c
      <4>1. rec'[d] = rec[d]
        BY <1>3, <3>2, IdAssumption DEF Records
      <4> QED
        BY <1>11, <3>2, <4>1 DEF IInv, Linked
    <3> QED
      BY <3>1, <3>2
  <2>4. \A r \in Records : rec'[r].status = "superseded-by-class" => rec'[r].class # None
    <3>1. c # None
      BY IdAssumption
    <3> QED
      BY <1>3, <1>4, <1>5, <3>1 DEF IInv, Linked
  <2> QED
    BY <2>1, <2>2, <2>3, <2>4 DEF Linked
<1>13. Counted'
  <2> SUFFICES ASSUME NEW r \in Records
               PROVE  /\ rec'[r].flag => rec'[r].status = "reopened"
                      /\ rec'[r].attempts > ReopenLimit => rec'[r].flag /\ rec'[r].class # None
                      /\ ~rec'[r].flag /\ rec'[r].attempts >= ReopenLimit => rec'[r].class # None
    BY DEF Counted
  <2>1. CASE r = c
    BY <1>3, <1>4, <2>1, LimitAssumption
  <2>2. CASE r \in S
    <3>1. ~(rec[r].attempts > ReopenLimit)
      BY <1>6, <2>2 DEF IInv, Counted
    <3>2. c # None
      BY IdAssumption
    <3> QED
      BY <1>3, <1>5, <2>2, <3>1, <3>2
  <2>3. CASE r \notin S \cup {c}
    BY <1>3, <2>3 DEF IInv, Counted
  <2> QED
    BY <2>1, <2>2, <2>3
<1>14. Gated'
  <2>1. \A f \in S : rec[f].blocked = FALSE
    BY <1>2, Types, IdAssumption DEF IInv, Gated
  <2> QED
    BY <1>3, <1>4, <1>5, <2>1 DEF IInv, Gated
<1>15. Signed'
  BY <1>3, <1>4, <1>5, <1>9 DEF IInv, Signed
<1>16. Seated'
  <2>1. dispatch # None /\ roleOf[dispatch] = "Triage" => "file-finding" = "set-status"
    BY <1>1, TriageSetsStatus DEF IInv
  <2> QED
    BY <1>9, <2>1 DEF Seated
<1> QED
  BY <1>9, <1>12, <1>13, <1>14, <1>15, <1>16 DEF IInv

LEMMA DispatchStep ==
  ASSUME IInv,
         CloseDispatch \/ \E s \in Sessions, role \in Roles : OpenDispatch(s, role)
  PROVE  IInv'
<1>1. UNCHANGED <<rec, members>>
  BY DEF CloseDispatch, OpenDispatch
<1>2. Linked' /\ Counted' /\ Gated'
  BY <1>1 DEF IInv, Linked, Counted, Gated
<1>3. CASE CloseDispatch
  <2>1. dispatch' = None /\ seen' = {} /\ UNCHANGED roleOf
    BY <1>3 DEF CloseDispatch
  <2>2. TypeOK'
    BY <1>1, <2>1 DEF IInv, TypeOK
  <2>3. Signed' /\ Seated'
    BY <1>1, <2>1 DEF IInv, Signed, Seated
  <2> QED
    BY <1>2, <2>2, <2>3 DEF IInv
<1>4. CASE \E s \in Sessions, role \in Roles : OpenDispatch(s, role)
  <2>1. PICK s \in Sessions, role \in Roles : OpenDispatch(s, role)
    BY <1>4
  <2>2. /\ \A r \in Records : s # rec[r].fixed_by
        /\ roleOf' = [roleOf EXCEPT ![s] = role] /\ dispatch' = s /\ seen' = SeenIn(rec)
    BY <2>1 DEF OpenDispatch
  <2>3. SeenIn(rec) \subseteq Records \X (STATUSES \cup {"unfiled"})
    BY Types DEF SeenIn, IInv
  <2>4. TypeOK'
    BY <1>1, <2>2, <2>3, IdAssumption DEF IInv, TypeOK
  <2>5. Signed'
    <3>1. \A r \in Records : rec[r].fixed_by # None =>
            roleOf'[rec[r].fixed_by] = roleOf[rec[r].fixed_by]
      BY <2>2, Types DEF IInv, TypeOK
    <3> QED
      BY <1>1, <3>1 DEF IInv, Signed
  <2>6. Seated'
    BY <1>1, <2>2 DEF Seated, SeenIn, DueOrDecided
  <2> QED
    BY <1>2, <2>4, <2>5, <2>6 DEF IInv
<1> QED
  BY <1>3, <1>4

LEMMA NextInv == IInv /\ [Next]_vars => IInv'
<1> SUFFICES ASSUME IInv, [Next]_vars PROVE IInv'
  OBVIOUS
<1>1. CASE UNCHANGED vars
  BY <1>1 DEF vars, IInv, TypeOK, Linked, Counted, Gated, Signed, Seated
<1>2. ASSUME NEW r \in Records, Move(r) PROVE IInv'
  BY <1>2, SetStatusStep, RecordFixStep, RecordVerdictStep, RefusalStep, BlockStep, RulingStep
     DEF Move
<1>3. CASE File
  BY <1>3, FileFindingStep, FileClassStep DEF File
<1>4. CASE CloseDispatch \/ \E s \in Sessions, role \in Roles : OpenDispatch(s, role)
  BY <1>4, DispatchStep
<1> QED
  BY <1>1, <1>2, <1>3, <1>4 DEF Next

LEMMA Invariance == Spec => []IInv
BY InitInv, NextInv, PTL DEF Spec

-----------------------------------------------------------------------------

(* Every record keeps its type, and no finding is reopened more than once  *)
(* past the limit, whatever re-takes and classes it goes through.          *)
THEOREM LifecycleTypes == Spec => []TypeOK
BY Invariance, PTL DEF IInv

(* A superseded finding is listed by its class, and whom a class lists     *)
(* points back at it: _validate's cross-record rules hold of every write.  *)
THEOREM ClassesLinked == Spec => []ClassLinks
<1>1. IInv => ClassLinks
  BY DEF IInv, Linked, ClassLinks, Records
<1> QED
  BY <1>1, Invariance, PTL

(* A class blocked on a norm is neither fixed, closed nor absorbed until a *)
(* ruling is recorded.                                                     *)
THEOREM GateHolds == Spec => []NormGateHolds
<1>1. IInv => NormGateHolds
  BY DEF IInv, Gated, NormGateHolds
<1> QED
  BY <1>1, Invariance, PTL

(* Who leaves "fixed" is judged. *)
LEMMA OnlyVerdict ==
  ASSUME IInv, Next, NEW r \in Records, rec[r].status = "fixed", rec'[r].status # "fixed"
  PROVE  \E s \in Sessions, verdict \in {"closed", "reopened"} : RecordVerdict(r, verdict, s)
<1> USE DEF IInv, TypeOK
<1>1. ASSUME NEW q \in Records, NEW want \in TRANSITIONS[rec[q].status], SetStatus(q, want)
      PROVE  rec'[r].status = "fixed"
  <2>1. rec[q].status # "fixed"
    BY <1>1, Types, MoveFacts DEF SetStatus
  <2> QED
    BY <1>1, <2>1 DEF SetStatus, Write
<1>2. ASSUME NEW q \in Records, NEW s \in Sessions, RecordFix(q, s)
      PROVE  rec'[r].status = "fixed"
  BY <1>2 DEF RecordFix, Write, Entry
<1>3. ASSUME NEW q \in Records, NEW s \in Sessions, NEW v \in {"closed", "reopened"},
             RecordVerdict(q, v, s)
      PROVE  q = r
  <2> SUFFICES ASSUME q # r PROVE FALSE
    OBVIOUS
  <2>1. rec'[r] = rec[r]
    BY <1>3 DEF RecordVerdict, Write
  <2> QED
    BY <2>1
<1>4. ASSUME NEW q \in Records,
             \/ RecordRefusal(q) \/ ClearRefusal(q)
             \/ q \in Classes /\ BlockOnNorm(q)
             \/ \E norm \in Norms : RecordRuling(q, norm)
      PROVE  rec'[r].status = "fixed"
  <2>1. ASSUME RecordRefusal(q) \/ ClearRefusal(q) \/ BlockOnNorm(q)
        PROVE  rec'[r].status = "fixed"
    BY <2>1 DEF RecordRefusal, ClearRefusal, BlockOnNorm, Write, Entry
  <2>2. ASSUME NEW norm \in Norms, RecordRuling(q, norm) PROVE rec'[r].status = "fixed"
    <3>1. rec' = [rec EXCEPT ![q].blocked = FALSE, ![q].ruling = norm]
      BY <2>2 DEF RecordRuling, Write
    <3> QED
      BY <3>1 DEF Entry
  <2> QED
    BY <1>4, <2>1, <2>2
<1>5. ASSUME File PROVE rec'[r].status = "fixed"
  <2>1. ASSUME NEW f \in Findings, FileFinding(f) PROVE rec'[r].status = "fixed"
    BY <2>1 DEF FileFinding, Write
  <2>2. ASSUME NEW c \in Classes, NEW S \in SUBSET Findings, FileClass(c, S)
        PROVE  rec'[r].status = "fixed"
    <3>1. r # c /\ r \notin S
      BY <2>2, Moves DEF FileClass, Absorbable
    <3> QED
      BY <2>2, <3>1 DEF FileClass, Write
  <2> QED
    BY <1>5, <2>1, <2>2 DEF File
<1>6. ASSUME CloseDispatch \/ \E s \in Sessions, role \in Roles : OpenDispatch(s, role)
      PROVE  rec'[r].status = "fixed"
  BY <1>6 DEF CloseDispatch, OpenDispatch
<1> QED
  BY <1>1, <1>2, <1>3, <1>4, <1>5, <1>6 DEF Next, Move

(* A verdict is a Verifier's, in another session than the fix it is on.    *)
THEOREM Independence == Spec => IndependentVerdict
<1> DEFINE Judged(r) ==
      IF dispatch = None
      THEN \A s \in Sessions : roleOf[s] = None
      ELSE /\ roleOf[dispatch] = "Verifier" /\ dispatch # rec[r].fixed_by
           /\ rec[r].fixed_by # None
           /\ roleOf[rec[r].fixed_by] \in {"Remediator", None}
<1>1. ASSUME IInv, Next, NEW r \in Records, rec[r].status = "fixed", rec'[r].status # "fixed"
      PROVE  Judged(r)
  <2>1. PICK s \in Sessions, verdict \in {"closed", "reopened"} : RecordVerdict(r, verdict, s)
    BY <1>1, OnlyVerdict
  <2>2. /\ Bound(s) /\ rec[r].fixed_by # s
        /\ Authorized("record-verdict", r, verdict)
    BY <2>1 DEF RecordVerdict
  <2>3. rec[r].fixed_by # None /\ roleOf[rec[r].fixed_by] \in {"Remediator", None}
    BY <1>1 DEF IInv, Signed
  <2>4. dispatch # None => roleOf[dispatch] = "Verifier"
    BY <1>1, <2>2, Authority DEF IInv
  <2> QED
    BY <2>2, <2>3, <2>4 DEF Bound
<1>2. IInv /\ [Next]_vars =>
        [\A r \in Records : rec[r].status = "fixed" /\ rec'[r].status # "fixed" => Judged(r)]_vars
  BY <1>1
<1> QED
  BY <1>2, Invariance, PTL DEF Spec, IndependentVerdict

(* A triage session decides only what is due, even on a stale              *)
(* authorization.                                                          *)
THEOREM TriageStaysInItsLane == Spec => TriageDecidesDue
<1> DEFINE Due == dispatch # None /\ roleOf[dispatch] = "Triage" =>
                    \A r \in Records : rec'[r].status # rec[r].status
                                         => rec[r].status \in {"reported", "deferred"}
<1>1. ASSUME IInv, Next, dispatch # None, roleOf[dispatch] = "Triage", NEW r \in Records,
             rec'[r].status # rec[r].status
      PROVE  rec[r].status \in {"reported", "deferred"}
  <2> USE <1>1 DEF IInv, TypeOK
  <2>1. ASSUME NEW q \in Records, NEW want \in TRANSITIONS[rec[q].status], SetStatus(q, want)
        PROVE  rec[r].status \in {"reported", "deferred"}
    <3>1. /\ Authorized("set-status", q, want) /\ <<rec[q].status, want>> \notin RESERVED
          /\ q # r => rec'[r] = rec[r]
      BY <2>1 DEF SetStatus, Write
    <3>2. q = r
      BY <3>1
    <3>3. want \in {"accepted", "rejected", "deferred"} /\ rec[q].status \in DueOrDecided
      BY <3>1, Authority DEF Seated
    <3> QED
      BY <2>1, <3>1, <3>2, <3>3, Types, MoveFacts
  <2>2. ASSUME NEW q \in Records, NEW s \in Sessions, NEW v \in {"closed", "reopened"},
               RecordFix(q, s) \/ RecordVerdict(q, v, s)
        PROVE  FALSE
    BY <2>2, Authority DEF RecordFix, RecordVerdict
  <2>3. ASSUME NEW q \in Records,
               \/ RecordRefusal(q) \/ ClearRefusal(q)
               \/ q \in Classes /\ BlockOnNorm(q)
               \/ \E norm \in Norms : RecordRuling(q, norm)
        PROVE  FALSE
    <3>1. \/ Authorized("record-refusal", q, "reported")
          \/ Authorized("block-on-norm", q, "planned")
      BY <2>3 DEF RecordRefusal, ClearRefusal, BlockOnNorm, RecordRuling
    <3>2. "record-refusal" = "set-status" \/ "block-on-norm" = "set-status"
      BY <3>1, TriageSetsStatus
    <3> QED
      BY <3>2
  <2>4. ASSUME File PROVE FALSE
    <3>1. \E q : Authorized("file-finding", q, "reported")
      BY <2>4 DEF File, FileFinding, FileClass
    <3>2. "file-finding" = "set-status"
      BY <3>1, TriageSetsStatus
    <3> QED
      BY <3>2
  <2>5. ASSUME CloseDispatch \/ \E s \in Sessions, role \in Roles : OpenDispatch(s, role)
        PROVE  FALSE
    BY <2>5 DEF CloseDispatch, OpenDispatch
  <2> QED
    BY <2>1, <2>2, <2>3, <2>4, <2>5 DEF Next, Move
<1>2. IInv /\ [Next]_vars => [Due]_vars
  BY <1>1
<1> QED
  BY <1>2, Invariance, PTL DEF Spec, TriageDecidesDue

-----------------------------------------------------------------------------
(* The cycle over the verbs: its own invariant. *)

Row == [status : STATUSES \cup {"unfiled"}, attempts : Nat,
        flag : BOOLEAN, class : Classes \cup {None}, fixed_by : Sessions \cup {None},
        refusal : BOOLEAN, blocked : BOOLEAN, ruling : {"none", "pending", "token", "other"}]

(* Only what is reopened is flagged, what is blocked waits for its ruling, *)
(* and a fix names the session that made it.                               *)
Sound(e) == /\ e.flag => e.status = "reopened"
            /\ e.blocked => e.ruling = "pending"
            /\ e.status = "fixed" => e.fixed_by # None

CInv == rec \in [Records -> Row] /\ \A r \in Records : Sound(rec[r])

LEMMA FreshRow ==
  ASSUME NEW s \in STATUSES \cup {"unfiled"}, s # "fixed"
  PROVE  Fresh(s) \in Row /\ Sound(Fresh(s))
BY DEF Fresh, Row, Sound

LEMMA CycleInitInv == CycleInit => CInv
BY FreshRow DEF CycleInit, Init, CInv

LEMMA PutSound ==
  ASSUME CInv, NEW r \in Records, NEW e \in Row, Sound(e), rec' = [rec EXCEPT ![r] = e]
  PROVE  CInv'
BY DEF CInv

LEMMA SetStatusSound ==
  ASSUME CInv, NEW r \in Records, NEW want \in TRANSITIONS[rec[r].status], SetStatus(r, want)
  PROVE  CInv'
<1> DEFINE e == [rec[r] EXCEPT !.status = want, !.flag = FALSE,
                               !.attempts = IF rec[r].flag THEN 0 ELSE @]
<1>1. rec[r] \in Row
  BY DEF CInv
<1>2. want \in STATUSES
  <2>1. rec[r].status \in STATUSES \cup {"unfiled"}
    BY <1>1 DEF Row
  <2> QED
    BY <2>1 DEF TRANSITIONS, STATUSES, TERMINAL
<1>3. e \in Row /\ e.flag = FALSE /\ e.blocked = rec[r].blocked /\ e.ruling = rec[r].ruling
      /\ e.status = want
  BY <1>1, <1>2 DEF Row
<1>6. want # "fixed"
  <2>1. <<rec[r].status, want>> \notin RESERVED /\ rec[r].status \in STATUSES \cup {"unfiled"}
    BY <1>1 DEF SetStatus, Row
  <2> QED
    BY <2>1, MoveFacts
<1>4. Sound(e)
  BY <1>3, <1>6 DEF CInv, Sound
<1>5. rec' = [rec EXCEPT ![r] = e]
  BY DEF SetStatus, Write, CInv
<1> HIDE DEF e
<1> QED
  BY <1>3, <1>4, <1>5, PutSound

LEMMA RecordFixSound ==
  ASSUME CInv, NEW r \in Records, NEW s \in Sessions, RecordFix(r, s)
  PROVE  CInv'
<1> DEFINE e == [rec[r] EXCEPT !.status = "fixed", !.fixed_by = s, !.flag = FALSE]
<1>1. rec[r] \in Row
  BY DEF CInv
<1>3. e \in Row /\ e.flag = FALSE /\ e.blocked = rec[r].blocked /\ e.ruling = rec[r].ruling
      /\ e.fixed_by # None
  BY <1>1, IdAssumption DEF Row, STATUSES
<1>4. Sound(e)
  BY <1>3 DEF CInv, Sound
<1>5. rec' = [rec EXCEPT ![r] = e]
  BY DEF RecordFix, Write, CInv
<1> HIDE DEF e
<1> QED
  BY <1>3, <1>4, <1>5, PutSound

LEMMA RecordVerdictSound ==
  ASSUME CInv, NEW r \in Records, NEW verdict \in {"closed", "reopened"}, NEW s \in Sessions,
         RecordVerdict(r, verdict, s)
  PROVE  CInv'
<1> DEFINE n == rec[r].attempts + (IF verdict = "reopened" THEN 1 ELSE 0)
           b == verdict = "reopened" /\ n >= ReopenLimit
           e == [rec[r] EXCEPT !.status = verdict, !.attempts = n, !.flag = b]
<1>1. rec[r] \in Row
  BY DEF CInv
<1>2. n \in Nat /\ b \in BOOLEAN /\ (b => verdict = "reopened")
  BY <1>1 DEF Row
<1>5. rec' = [rec EXCEPT ![r] = e]
  BY DEF RecordVerdict, Write, CInv
<1> HIDE DEF n, b
<1>3. e \in Row /\ e.flag = b /\ e.status = verdict
      /\ e.blocked = rec[r].blocked /\ e.ruling = rec[r].ruling
  BY <1>1, <1>2 DEF Row, STATUSES, TERMINAL
<1>4. Sound(e)
  BY <1>2, <1>3 DEF CInv, Sound
<1> HIDE DEF e
<1> QED
  BY <1>3, <1>4, <1>5, PutSound

LEMMA MarkSound ==
  ASSUME CInv, NEW r \in Records,
         \/ RecordRefusal(r) \/ ClearRefusal(r) \/ BlockOnNorm(r)
         \/ \E norm \in Norms : RecordRuling(r, norm)
  PROVE  CInv'
<1>1. rec[r] \in Row /\ Sound(rec[r])
  BY DEF CInv
<1>2. CASE RecordRefusal(r) \/ ClearRefusal(r)
  <2>1. PICK b \in BOOLEAN : rec' = [rec EXCEPT ![r].refusal = b]
    BY <1>2 DEF RecordRefusal, ClearRefusal, Write
  <2> DEFINE e == [rec[r] EXCEPT !.refusal = b]
  <2>2. e \in Row /\ Sound(e)
    BY <1>1 DEF Row, Sound
  <2>3. rec' = [rec EXCEPT ![r] = e]
    BY <2>1 DEF CInv
  <2> HIDE DEF e
  <2> QED
    BY <2>2, <2>3, PutSound
<1>3. CASE BlockOnNorm(r)
  <2> DEFINE e == [rec[r] EXCEPT !.blocked = TRUE, !.ruling = "pending"]
  <2>2. e \in Row /\ Sound(e)
    BY <1>1 DEF Row, Sound
  <2>3. rec' = [rec EXCEPT ![r] = e]
    BY <1>3 DEF CInv, BlockOnNorm, Write
  <2> HIDE DEF e
  <2> QED
    BY <2>2, <2>3, PutSound
<1>4. ASSUME NEW norm \in Norms, RecordRuling(r, norm) PROVE CInv'
  <2> DEFINE e == [rec[r] EXCEPT !.blocked = FALSE, !.ruling = norm]
  <2>2. e \in Row /\ Sound(e)
    BY <1>1, NormAssumption DEF Row, Sound
  <2>3. rec' = [rec EXCEPT ![r] = e]
    BY <1>4 DEF CInv, RecordRuling, Write
  <2> HIDE DEF e
  <2> QED
    BY <2>2, <2>3, PutSound
<1> QED
  BY <1>2, <1>3, <1>4

LEMMA FileFindingSound ==
  ASSUME CInv, NEW f \in Findings, FileFinding(f)
  PROVE  CInv'
<1>1. Fresh("reported") \in Row /\ Sound(Fresh("reported"))
  BY FreshRow DEF STATUSES
<1>2. rec' = [rec EXCEPT ![f] = Fresh("reported")] /\ f \in Records
  BY DEF FileFinding, Write, Records
<1> QED
  BY <1>1, <1>2, PutSound

LEMMA FileClassSound ==
  ASSUME CInv, NEW c \in Classes, NEW S \in SUBSET Findings, FileClass(c, S)
  PROVE  CInv'
<1> DEFINE m(r) == [rec[r] EXCEPT !.status = "superseded-by-class", !.class = c, !.flag = FALSE]
           e(r) == CASE r = c -> Fresh("reported") [] r \in S -> m(r) [] OTHER -> rec[r]
<1>1. Fresh("reported") \in Row /\ Sound(Fresh("reported"))
  BY FreshRow DEF STATUSES
<1>2. ASSUME NEW r \in Records PROVE m(r) \in Row /\ Sound(m(r))
  <2>1. rec[r] \in Row /\ Sound(rec[r])
    BY DEF CInv
  <2>2. m(r) \in Row /\ m(r).flag = FALSE /\ m(r).blocked = rec[r].blocked
        /\ m(r).ruling = rec[r].ruling /\ m(r).status = "superseded-by-class"
    BY <2>1 DEF Row, STATUSES, TERMINAL
  <2> QED
    BY <2>1, <2>2 DEF Sound
<1>3. rec' = [r \in Records |-> e(r)]
  BY DEF FileClass, Write
<1> HIDE DEF m
<1>4. ASSUME NEW r \in Records PROVE e(r) \in Row /\ Sound(e(r))
  BY <1>1, <1>2 DEF CInv
<1> HIDE DEF e
<1> QED
  BY <1>3, <1>4 DEF CInv

LEMMA CycleKeeps == CInv /\ [CycleNext]_cvars => CInv'
<1> SUFFICES ASSUME CInv, [CycleNext]_cvars PROVE CInv'
  OBVIOUS
<1>1. CASE rec' = rec
  BY <1>1 DEF CInv
<1>2. ASSUME NEW r \in Records, Act(r) PROVE CInv'
  <2>1. Move(r)
    BY <1>2 DEF Act
  <2> QED
    BY <2>1, SetStatusSound, RecordFixSound, RecordVerdictSound, MarkSound DEF Move
<1>3. CASE FileRecord
  BY <1>3, FileFindingSound, FileClassSound DEF FileRecord, File
<1>4. Launch \/ (\E S \in SUBSET charter : Finish(S)) \/ Die
      \/ (\E t \in stops : ResolveStop(t)) \/ (\E p \in Passes : RecordCoverage(p))
      \/ UNCHANGED cvars => rec' = rec
  BY DEF Launch, Finish, Die, ResolveStop, RecordCoverage, CloseDispatch, vars, cvars
<1> QED
  BY <1>1, <1>2, <1>3, <1>4 DEF CycleNext

-----------------------------------------------------------------------------
(* What the decision says of the record. *)

(* Where it certifies, none of the earlier branches had anything to say. *)
LEMMA NothingDue ==
  ASSUME Decision.kind \in Dones
  PROVE  /\ In({"disputed"}) = {} /\ In({"fixed"}) = {} /\ In({"reopened"}) = {}
         /\ In({"validated", "planned"}) = {} /\ In({"accepted"}) = {}
         /\ In({"reported"}) = {} /\ First(Unchecked) = {} /\ Orphans = {}
         /\ In({"deferred"}) # {} => Decision.kind = "done-deferred-debt"
<1>1. Debt.kind \in Dones /\ (In({"deferred"}) # {} => Debt.kind = "done-deferred-debt")
  BY DEF Debt, Or, Branch, Dones
<1>4. Decision = Disputes
  BY DEF Decision, Or, Branch, Dones
<1>5. In({"disputed"}) = {} /\ Disputes = Work
  BY <1>4 DEF Disputes, Or, Branch, Dones
<1>6. /\ In({"fixed"}) = {} /\ In({"reopened"}) = {} /\ In({"validated", "planned"}) = {}
      /\ In({"accepted"}) = {} /\ Work = Rest
  BY <1>4, <1>5 DEF Work, Or, Branch, Dones
<1>7. First(Unchecked) = {} /\ In({"reported"}) = {} /\ Rest = Broken
  BY <1>4, <1>5, <1>6 DEF Rest, Or, Branch, Dones
<1>8. Orphans = {} /\ Broken = Debt
  BY <1>4, <1>5, <1>6, <1>7 DEF Broken, Or, Branch, Dones
<1> QED
  BY <1>1, <1>4, <1>5, <1>6, <1>7, <1>8

LEMMA InvDone == CInv => DoneIsDone
<1> SUFFICES ASSUME CInv, Decision.kind \in Dones
             PROVE  /\ Unchecked = {}
                    /\ \A r \in Filed :
                         CASE rec[r].status = "superseded-by-class" ->
                                rec[rec[r].class].status = "closed" /\ r \in members[rec[r].class]
                           [] rec[r].status = "deferred" -> Decision.kind = "done-deferred-debt"
                           [] OTHER -> rec[r].status \in TERMINAL
  BY DEF DoneIsDone
<1>1. Unchecked = {}
  BY NothingDue DEF First
<1>2. ASSUME NEW r \in Filed
      PROVE  /\ rec[r].status = "superseded-by-class" =>
                  rec[rec[r].class].status = "closed" /\ r \in members[rec[r].class]
             /\ rec[r].status = "deferred" => Decision.kind = "done-deferred-debt"
             /\ rec[r].status \in TERMINAL \cup {"deferred"}
  <2>1. r \in Records /\ rec[r].status \in STATUSES
    BY DEF Filed, CInv, Row
  <2>2. rec[r].status \notin {"disputed", "fixed", "reopened", "validated", "planned",
                              "accepted", "reported"}
    BY <2>1, NothingDue DEF In
  <2>3. rec[r].status \in TERMINAL \cup {"deferred"}
    BY <2>1, <2>2 DEF STATUSES
  <2>4. ASSUME rec[r].status = "superseded-by-class"
        PROVE  rec[rec[r].class].status = "closed" /\ r \in members[rec[r].class]
    BY <2>1, <2>4, NothingDue DEF Orphans, In
  <2>5. ASSUME rec[r].status = "deferred" PROVE Decision.kind = "done-deferred-debt"
    BY <2>1, <2>5, NothingDue DEF In
  <2> QED
    BY <2>3, <2>4, <2>5
<1>3. "superseded-by-class" # "deferred"
  OBVIOUS
<1> QED
  BY <1>1, <1>2, <1>3

(* A session is launched on one of four statuses, past the questions of the gates. *)
LEMMA WhatIsLaunched ==
  ASSUME Decision.kind \in {"run-verifier", "run-remediator"}
  PROVE  /\ Blocked = {} /\ Flagged = {}
         /\ Decision.kind = "run-verifier" => Decision.on = In({"fixed"})
         /\ Decision.kind = "run-remediator" =>
              Decision.on \subseteq In({"reopened", "validated", "planned", "accepted"})
<1> DEFINE R == {"run-verifier", "run-remediator"}
<1>2. Decision = Disputes /\ Blocked = {} /\ Flagged = {}
  BY DEF Decision, Or, Branch
<1>3. Disputes = Work
  BY <1>2 DEF Disputes, Or, Branch
<1>4. Rest.kind \notin R
  BY DEF Rest, Broken, Debt, Or, Branch
<1>5. /\ In({"reopened"}) \subseteq In({"reopened", "validated", "planned", "accepted"})
      /\ In({"validated", "planned"}) \subseteq In({"reopened", "validated", "planned", "accepted"})
      /\ In({"accepted"}) \subseteq In({"reopened", "validated", "planned", "accepted"})
      /\ First(In({"accepted"}) \cap Classes) \subseteq In({"reopened", "validated", "planned", "accepted"})
  BY DEF In, First
<1>6. /\ Work.kind = "run-verifier" => Work.on = In({"fixed"})
      /\ Work.kind = "run-remediator" =>
           Work.on \subseteq In({"reopened", "validated", "planned", "accepted"})
  BY <1>4, <1>5 DEF Work, Or, Branch
<1> QED
  BY <1>2, <1>3, <1>6

LEMMA Roles4 == RoleFor["run-verifier"] = "Verifier" /\ RoleFor["run-remediator"] = "Remediator"
BY DEF RoleFor, Runs

LEMMA InvHasWork == CInv => DispatchHasWork
<1> SUFFICES ASSUME CInv, Decision.kind \in {"run-verifier", "run-remediator"},
                    NEW r \in Decision.on
             PROVE  CanMove(RoleFor[Decision.kind], r)
  BY DEF DispatchHasWork
<1>1. CASE Decision.kind = "run-verifier"
  <2>1. rec[r].status = "fixed"
    BY <1>1, WhatIsLaunched DEF In
  <2>2. Grants("Verifier", "record-verdict", "fixed", "closed")
    BY DEF Grants, ROLE_ROUTES, Route, Free, STATUSES, TERMINAL
  <2> QED
    BY <1>1, <2>1, <2>2, Roles4 DEF CanMove
<1>2. CASE Decision.kind = "run-remediator"
  <2>1. r \in Records /\ rec[r].status \in {"reopened", "validated", "planned", "accepted"}
    BY <1>2, WhatIsLaunched DEF In
  <2>2. Sound(rec[r]) /\ rec[r] \in Row
    BY <2>1 DEF CInv
  <2>3. rec[r].flag = FALSE
    <3>1. r \notin Flagged
      BY WhatIsLaunched
    <3> QED
      BY <2>1, <2>2, <3>1 DEF Flagged, In, Sound, Row
  <2>4. rec[r].blocked = FALSE
    <3>1. r \notin Blocked
      BY WhatIsLaunched
    <3> QED
      BY <2>1, <2>2, <3>1 DEF Blocked, Filed, Sound, Row
  <2>5. CASE rec[r].status = "planned"
    <3>1. Grants("Remediator", "record-fix", "planned", "fixed")
      BY DEF Grants, ROLE_ROUTES, Route, Free, STATUSES, TERMINAL
    <3> QED
      BY <1>2, <2>4, <2>5, <3>1, Roles4 DEF CanMove
  <2>6. ASSUME NEW want \in {"planned", "validated"},
               want \in TRANSITIONS[rec[r].status], <<rec[r].status, want>> \notin RESERVED
        PROVE  CanMove("Remediator", r)
    <3>1. Grants("Remediator", "set-status", rec[r].status, want)
      BY <2>1 DEF Grants, ROLE_ROUTES, Route, Free, STATUSES, TERMINAL
    <3> QED
      BY <2>3, <2>6, <3>1 DEF CanMove
  <2>7. /\ "planned" \in TRANSITIONS["reopened"] /\ <<"reopened", "planned">> \notin RESERVED
        /\ "planned" \in TRANSITIONS["validated"] /\ <<"validated", "planned">> \notin RESERVED
        /\ "validated" \in TRANSITIONS["accepted"] /\ <<"accepted", "validated">> \notin RESERVED
    BY DEF TRANSITIONS, RESERVED, STATUSES, TERMINAL
  <2> QED
    BY <1>2, <2>1, <2>5, <2>6, <2>7, Roles4
<1> QED
  BY <1>1, <1>2

(* In every state of the cycle what is flagged is reopened, what is blocked  *)
(* waits for its ruling, and what is fixed names the session that fixed it:  *)
(* the three facts decision.py's branches read the record by.                *)
THEOREM RecordIsSound == CycleSpec => []CInv
BY CycleInitInv, CycleKeeps, PTL DEF CycleSpec

(* decision.py certifies "done" only on a record that has come to its end,   *)
(* however the sessions, the operator and the crashes interleaved.           *)
THEOREM DoneMeansDone == CycleSpec => []DoneIsDone
BY RecordIsSound, InvDone, PTL

(* next dispatches no verifier and no remediator on a charter of which a     *)
(* record leaves that role nothing it may do.                                *)
THEOREM ChartersHaveWork == CycleSpec => []DispatchHasWork
BY RecordIsSound, InvHasWork, PTL

-----------------------------------------------------------------------------
(* The way out of a gate.  ENABLED is beyond the provers, so the step that *)
(* leaves the gate is written down: AnswerStep gives every variable its    *)
(* next value as a function of the state, so it can be taken in any state, *)
(* and what is to be shown is that at a gate it is a step of the cycle.    *)

AtGate == ~running /\ dispatch = None /\ Decision.kind \notin Runs \cup Dones

(* The record or pass that is asked about, and what is answered. *)
Asked == CHOOSE x \in Decision.on : TRUE

(* A stop that no refusal on the record backs is resolved by itself. *)
Claimed == /\ Decision.kind = "stop-refusal"
           /\ Asked \in Records => ~rec[Asked].refusal

(* The status the operator gives, by the gate. *)
Given == CASE Decision.kind = "stop-needs-human" -> "planned"
           [] Decision.kind \in {"stop-disputed", "stop-broken-class"} -> "accepted"
           [] OTHER -> "rejected"

Answered ==
  CASE Decision.kind = "stop-norm-ratification" ->
         [rec[Asked] EXCEPT !.blocked = FALSE, !.ruling = CHOOSE n \in Norms : TRUE]
    [] Decision.kind = "stop-refusal" -> [rec[Asked] EXCEPT !.refusal = FALSE]
    [] OTHER -> [rec[Asked] EXCEPT !.status = Given, !.flag = FALSE,
                                   !.attempts = IF rec[Asked].flag THEN 0 ELSE @]

AnswerStep ==
  cvars' = <<IF Claimed THEN rec ELSE [rec EXCEPT ![Asked] = Answered],
             members, roleOf, dispatch, IF Claimed THEN seen ELSE {},
             done, stops \ {Asked}, running, charter>>

(* What each gate asks about. *)
GateNames ==
  Decision.kind \notin Runs \cup Dones =>
    /\ Decision.on # {}
    /\ Decision.kind \in {"stop-needs-human", "stop-norm-ratification", "stop-refusal",
                           "stop-disputed", "stop-verifier-independence", "stop-critical",
                           "stop-triage", "stop-broken-class"}
    /\ Decision.kind = "stop-needs-human"       => Decision.on \subseteq In({"reopened"})
    /\ Decision.kind = "stop-norm-ratification" => Decision.on = Blocked
    /\ Decision.kind = "stop-refusal"           => Decision.on = Refused
    /\ Decision.kind = "stop-disputed"          => Decision.on = In({"disputed"})
    /\ Decision.kind = "stop-verifier-independence" => Decision.on = Unprovable
    /\ Decision.kind = "stop-critical"          => Decision.on = Open(Critical)
    /\ Decision.kind = "stop-triage"            => Decision.on = In({"reported"})
    /\ Decision.kind = "stop-broken-class"      => Decision.on = Orphans

LEMMA WhatIsAsked == GateNames
<1> DEFINE
      Says(d) == d.kind \notin Runs \cup Dones =>
        /\ d.on # {}
        /\ d.kind \in {"stop-needs-human", "stop-norm-ratification", "stop-refusal",
                        "stop-disputed", "stop-verifier-independence", "stop-critical",
                        "stop-triage", "stop-broken-class"}
        /\ d.kind = "stop-needs-human"       => d.on \subseteq In({"reopened"})
        /\ d.kind = "stop-norm-ratification" => d.on = Blocked
        /\ d.kind = "stop-refusal"           => d.on = Refused
        /\ d.kind = "stop-disputed"          => d.on = In({"disputed"})
        /\ d.kind = "stop-verifier-independence" => d.on = Unprovable
        /\ d.kind = "stop-critical"          => d.on = Open(Critical)
        /\ d.kind = "stop-triage"            => d.on = In({"reported"})
        /\ d.kind = "stop-broken-class"      => d.on = Orphans
<1>1. AtLimit \subseteq In({"reopened"}) /\ Flagged \subseteq In({"reopened"})
  BY DEF AtLimit, Flagged
<1>2. Says(Debt)
  BY DEF Debt, Or, Branch, Runs, Dones
<1>3. Says(Broken)
  BY <1>2 DEF Broken, Or, Branch
<1>4. Says(Rest)
  <2> HIDE DEF Says
  <2>1. \A S : Says(Branch("run-auditor", S))
    BY DEF Says, Branch, Runs
  <2>2. In({"reported"}) # {} => Says(Branch("stop-triage", In({"reported"})))
    BY DEF Says, Branch
  <2>3. Open(Critical) # {} => Says(Branch("stop-critical", Open(Critical)))
    BY DEF Says, Branch
  <2> QED
    BY <1>3, <2>1, <2>2, <2>3 DEF Rest, Or
<1>5. Says(Work)
  <2>1. Unprovable # {} => Says(Branch("stop-verifier-independence", Unprovable))
    BY DEF Branch
  <2>2. \A S : Says(Branch("run-verifier", S)) /\ Says(Branch("run-remediator", S))
    BY DEF Branch, Runs
  <2> HIDE DEF Says
  <2> QED
    BY <1>4, <2>1, <2>2 DEF Work, Or
<1>6. Says(Disputes)
  <2>1. In({"disputed"}) # {} => Says(Branch("stop-disputed", In({"disputed"})))
    BY DEF Branch
  <2> HIDE DEF Says
  <2> QED
    BY <1>5, <2>1 DEF Disputes, Or
<1>7. Says(Decision)
  <2>1. /\ AtLimit # {} => Says(Branch("stop-needs-human", AtLimit))
        /\ Flagged # {} => Says(Branch("stop-needs-human", Flagged))
    BY <1>1 DEF Branch
  <2>2. /\ Blocked # {} => Says(Branch("stop-norm-ratification", Blocked))
        /\ Refused # {} => Says(Branch("stop-refusal", Refused))
    BY DEF Branch
  <2> HIDE DEF Says
  <2> QED
    BY <1>6, <2>1, <2>2 DEF Decision, Or
<1> QED
  BY <1>7 DEF GateNames

(* The critical gate is behind the sessions: what it asks about awaits triage. *)
LEMMA CriticalAsked ==
  ASSUME CInv, Decision.kind = "stop-critical"
  PROVE  Decision.on \subseteq In({"reported", "deferred"})
<1>1. Decision = Disputes
  BY DEF Decision, Or, Branch
<1>2. In({"disputed"}) = {} /\ Disputes = Work
  BY <1>1 DEF Disputes, Or, Branch
<1>3. /\ In({"fixed"}) = {} /\ In({"reopened"}) = {}
      /\ In({"validated", "planned"}) = {} /\ In({"accepted"}) = {}
  BY <1>1, <1>2 DEF Work, Or, Branch
<1>4. Decision.on = Open(Critical)
  BY WhatIsAsked DEF Runs, Dones, GateNames
<1> SUFFICES ASSUME NEW r \in Open(Critical) PROVE r \in In({"reported", "deferred"})
  BY <1>4
<1>5. r \in Records /\ rec[r].status \in STATUSES \ TERMINAL
  BY DEF Open, Filed, CInv, Row
<1>6. rec[r].status \notin {"disputed", "fixed", "reopened", "validated", "planned", "accepted"}
  BY <1>2, <1>3, <1>5 DEF In
<1> QED
  BY <1>5, <1>6 DEF STATUSES, In

(* The step, variable by variable. *)
LEMMA AnswerWrites ==
  ASSUME AnswerStep
  PROVE  /\ members' = members /\ roleOf' = roleOf /\ dispatch' = dispatch
         /\ done' = done /\ running' = running /\ charter' = charter
         /\ stops' = stops \ {Asked}
         /\ Claimed => rec' = rec /\ seen' = seen
         /\ ~Claimed => rec' = [rec EXCEPT ![Asked] = Answered] /\ seen' = {}
BY DEF AnswerStep, cvars

(* A gate that is answered with a status: the move is one of the table. *)
LEMMA AnswerByStatus ==
  ASSUME CInv, AtGate, AnswerStep,
         Decision.kind \notin {"stop-norm-ratification", "stop-refusal"}
  PROVE  /\ Asked \in Records /\ Act(Asked)
         /\ rec' \in [Records -> Row] /\ rec'[Asked].status = Given
<1>1. Decision.kind \notin Runs \cup Dones /\ dispatch = None
  BY DEF AtGate
<1>2. Asked \in Decision.on
  BY <1>1, WhatIsAsked DEF Asked, GateNames
<1>3. Asked \in Records
  BY <1>1, <1>2, WhatIsAsked DEF In, Unprovable, Open, Filed, Orphans, GateNames
<1>4. rec[Asked] \in Row /\ Sound(rec[Asked])
  BY <1>3 DEF CInv
<1>5. Decision.kind # "stop-verifier-independence"
  <2>1. ASSUME Decision.kind = "stop-verifier-independence" PROVE FALSE
    BY <1>1, <1>2, <1>3, <1>4, <2>1, WhatIsAsked DEF Unprovable, In, Sound, GateNames
  <2> QED
    BY <2>1
<1>6. /\ Given \in TRANSITIONS[rec[Asked].status]
      /\ <<rec[Asked].status, Given>> \notin RESERVED
      /\ Given \in STATUSES /\ Given # "superseded-by-class"
  <2>1. CASE Decision.kind = "stop-needs-human"
    BY <1>1, <1>2, <2>1, WhatIsAsked, Moves DEF In, Given, RESERVED, STATUSES, GateNames
  <2>2. CASE Decision.kind = "stop-disputed"
    BY <1>1, <1>2, <2>2, WhatIsAsked, Moves DEF In, Given, RESERVED, STATUSES, GateNames
  <2>3. CASE Decision.kind = "stop-critical"
    BY <1>2, <2>3, CriticalAsked, Moves DEF In, Given, RESERVED, STATUSES, TERMINAL
  <2>4. CASE Decision.kind = "stop-triage"
    BY <1>1, <1>2, <2>4, WhatIsAsked, Moves DEF In, Given, RESERVED, STATUSES, TERMINAL, GateNames
  <2>5. CASE Decision.kind = "stop-broken-class"
    BY <1>1, <1>2, <2>5, WhatIsAsked, Moves DEF In, Orphans, Given, RESERVED, STATUSES, GateNames
  <2> QED
    BY <1>1, <1>5, <2>1, <2>2, <2>3, <2>4, <2>5, WhatIsAsked DEF GateNames
<1> DEFINE e == [rec[Asked] EXCEPT !.status = Given, !.flag = FALSE,
                                   !.attempts = IF rec[Asked].flag THEN 0 ELSE @]
<1>7. ~Claimed /\ Answered = e
  BY DEF Claimed, Answered
<1>8. rec' = [rec EXCEPT ![Asked] = e] /\ seen' = {}
  BY <1>7, AnswerWrites
<1>9. e \in Row /\ e.status = Given
  BY <1>4, <1>6 DEF Row
<1>10. rec' \in [Records -> Row] /\ rec'[Asked] = e
  <2> HIDE DEF e
  <2> QED
    BY <1>3, <1>8, <1>9 DEF CInv
<1>11. SetStatus(Asked, Given)
  <2>1. rec' = [rec EXCEPT ![Asked].status = Given, ![Asked].flag = FALSE,
                           ![Asked].attempts = IF rec[Asked].flag THEN 0 ELSE @]
    BY <1>3, <1>4, <1>8 DEF CInv, Row
  <2>2. Authorized("set-status", Asked, Given)
    BY <1>1 DEF Authorized
  <2> QED
    BY <1>1, <1>6, <1>8, <2>1, <2>2, AnswerWrites DEF SetStatus, Write
<1>12. Act(Asked)
  BY <1>6, <1>11, AnswerWrites DEF Act, Move
<1> QED
  BY <1>3, <1>9, <1>10, <1>12

(* The owner's ruling, and the refusal that is cleared or the stop resolved. *)
LEMMA AnswerByRuling ==
  ASSUME CInv, AtGate, AnswerStep, Norms # {}, Decision.kind = "stop-norm-ratification"
  PROVE  Asked \in Records /\ Act(Asked) /\ rec'[Asked].blocked = FALSE
<1>1. Decision.kind \notin Runs \cup Dones /\ dispatch = None
  BY DEF AtGate
<1>2. Asked \in Blocked
  BY <1>1, WhatIsAsked DEF Asked, GateNames
<1>3. Asked \in Records /\ rec[Asked].blocked
  BY <1>2 DEF Blocked, Filed
<1>4. rec[Asked] \in Row
  BY <1>3 DEF CInv
<1>5. PICK n \in Norms : n = CHOOSE m \in Norms : TRUE
  OBVIOUS
<1>6. rec' = [rec EXCEPT ![Asked] = [rec[Asked] EXCEPT !.blocked = FALSE, !.ruling = n]]
      /\ seen' = {}
  BY <1>5, AnswerWrites DEF Claimed, Answered
<1>7. rec' = [rec EXCEPT ![Asked].blocked = FALSE, ![Asked].ruling = n]
  BY <1>3, <1>4, <1>6 DEF CInv, Row
<1>8. RecordRuling(Asked, n)
  BY <1>1, <1>3, <1>6, <1>7, AnswerWrites DEF RecordRuling, Write
<1>9. Act(Asked)
  BY <1>8, AnswerWrites DEF Act, Move
<1> QED
  BY <1>3, <1>4, <1>6, <1>9 DEF CInv, Row

LEMMA AnswerARefusal ==
  ASSUME CInv, AtGate, AnswerStep, Decision.kind = "stop-refusal"
  PROVE  /\ \/ Asked \in stops /\ ResolveStop(Asked)
            \/ Asked \in Records /\ Act(Asked)
         /\ Asked \notin Refused'
<1>1. Decision.kind \notin Runs \cup Dones /\ dispatch = None /\ ~running
  BY DEF AtGate
<1>2. Asked \in Refused
  BY <1>1, WhatIsAsked DEF Asked, GateNames
<1>3. PICK x : x = Asked
  OBVIOUS
<1>4. stops' = stops \ {x}
  BY <1>3, AnswerWrites
<1>5. CASE Claimed
  <2>1. x \in stops /\ (x \in Records => ~rec[x].refusal)
    BY <1>2, <1>3, <1>5 DEF Claimed, Refused, Owed, Filed
  <2>2. rec' = rec /\ ResolveStop(Asked)
    BY <1>1, <1>3, <1>5, <2>1, AnswerWrites DEF ResolveStop, vars
  <2>3. x \notin {r \in Owed : rec[r].refusal}'
    BY <2>1, <2>2 DEF Owed, Filed
  <2>4. x \notin Refused'
    BY <1>4, <2>3 DEF Refused
  <2> QED
    BY <1>3, <2>1, <2>2, <2>4
<1>6. CASE ~Claimed
  <2>1. x \in Records /\ rec[x].refusal
    BY <1>3, <1>6 DEF Claimed
  <2>2. rec[x] \in Row
    BY <2>1 DEF CInv
  <2>3. rec' = [rec EXCEPT ![x] = [rec[x] EXCEPT !.refusal = FALSE]] /\ seen' = {}
    BY <1>3, <1>6, AnswerWrites DEF Answered
  <2>4. rec' = [rec EXCEPT ![x].refusal = FALSE] /\ rec'[x].refusal = FALSE
    BY <2>1, <2>2, <2>3 DEF CInv, Row
  <2>5. ClearRefusal(Asked)
    BY <1>1, <1>3, <2>1, <2>3, <2>4, AnswerWrites DEF ClearRefusal, Authorized, Write
  <2>6. Act(Asked)
    BY <2>5, AnswerWrites DEF Act, Move
  <2>7. x \notin Refused'
    BY <1>4, <2>4 DEF Refused
  <2> QED
    BY <1>3, <2>1, <2>6, <2>7
<1> QED
  BY <1>5, <1>6

(* Whatever gate asks next, it is not this one about the same record. *)
LEMMA AnswerMovesOn ==
  ASSUME CInv, AtGate, AnswerStep, Norms # {}
  PROVE  Decision' # Decision
<1> SUFFICES ASSUME Decision' = Decision PROVE FALSE
  OBVIOUS
<1>1. Decision.kind \notin Runs \cup Dones
  BY DEF AtGate
<1>2. PICK x : x = Asked
  OBVIOUS
<1>3. x \in Decision.on /\ x \in Decision'.on
  BY <1>1, <1>2, WhatIsAsked DEF Asked, GateNames
<1>4. /\ Decision'.kind = "stop-needs-human"       => Decision'.on \subseteq In({"reopened"})'
      /\ Decision'.kind = "stop-norm-ratification" => Decision'.on = Blocked'
      /\ Decision'.kind = "stop-refusal"           => Decision'.on = Refused'
      /\ Decision'.kind = "stop-disputed"          => Decision'.on = In({"disputed"})'
      /\ Decision'.kind = "stop-verifier-independence" => Decision'.on = Unprovable'
      /\ Decision'.kind = "stop-critical"          => Decision'.on = Open(Critical)'
      /\ Decision'.kind = "stop-triage"            => Decision'.on = In({"reported"})'
      /\ Decision'.kind = "stop-broken-class"      => Decision'.on = Orphans'
      /\ Decision'.kind \in {"stop-needs-human", "stop-norm-ratification", "stop-refusal",
                              "stop-disputed", "stop-verifier-independence", "stop-critical",
                              "stop-triage", "stop-broken-class"}
  <2>1. (Decision.kind \notin Runs \cup Dones)'
    BY <1>1 DEF Runs, Dones
  <2>2. GateNames'
    BY WhatIsAsked, PTL
  <2> QED
    BY <2>1, <2>2 DEF GateNames
<1>5. CASE Decision.kind = "stop-norm-ratification"
  <2>1. rec'[x].blocked = FALSE
    BY <1>2, <1>5, AnswerByRuling
  <2> QED
    BY <1>3, <1>4, <1>5, <2>1 DEF Blocked
<1>6. CASE Decision.kind = "stop-refusal"
  BY <1>2, <1>3, <1>4, <1>6, AnswerARefusal
<1>7. CASE Decision.kind \notin {"stop-norm-ratification", "stop-refusal"}
  <2>1. rec'[x].status = Given
    BY <1>2, <1>7, AnswerByStatus
  <2>2. CASE Decision.kind = "stop-needs-human"
    BY <1>3, <1>4, <2>1, <2>2 DEF Given, In
  <2>3. CASE Decision.kind = "stop-disputed"
    BY <1>3, <1>4, <2>1, <2>3 DEF Given, In
  <2>4. CASE Decision.kind = "stop-verifier-independence"
    BY <1>3, <1>4, <2>1, <2>4 DEF Given, Unprovable, In
  <2>5. CASE Decision.kind = "stop-critical"
    BY <1>3, <1>4, <2>1, <2>5 DEF Given, Open, TERMINAL
  <2>6. CASE Decision.kind = "stop-triage"
    BY <1>3, <1>4, <2>1, <2>6 DEF Given, In
  <2>7. CASE Decision.kind = "stop-broken-class"
    BY <1>3, <1>4, <2>1, <2>7 DEF Given, Orphans, In
  <2> QED
    BY <1>4, <1>7, <2>2, <2>3, <2>4, <2>5, <2>6, <2>7
<1> QED
  BY <1>5, <1>6, <1>7

(* Wherever the cycle stops for the human and no envelope is open, the       *)
(* answer that AnswerStep writes is a step of the operator's on what the     *)
(* gate names, the cycle lets it through, and the decision is another one    *)
(* after it. A step given by state functions can be taken in every state, so *)
(* this is HasWayOut with the step it promises in the place of ENABLED; by   *)
(* RecordIsSound it is so in every state the cycle reaches.                  *)
THEOREM EveryGateHasAWayOut ==
  ASSUME Norms # {}, CInv, AtGate, AnswerStep
  PROVE  /\ \/ \E t \in stops : ResolveStop(t)
            \/ \E r \in Decision.on \cap Records : Act(r)
         /\ CycleNext
         /\ Decision' # Decision
<1>1. Decision.kind \notin Runs \cup Dones
  BY DEF AtGate
<1>2. Asked \in Decision.on
  BY <1>1, WhatIsAsked DEF Asked, GateNames
<1>3. \/ Asked \in stops /\ ResolveStop(Asked)
      \/ Asked \in Records /\ Act(Asked)
  BY AnswerByStatus, AnswerByRuling, AnswerARefusal
<1>4. MayWrite
  BY <1>1 DEF MayWrite
<1>5. CycleNext
  BY <1>3, <1>4 DEF CycleNext
<1> QED
  BY <1>2, <1>3, <1>5, AnswerMovesOn
=============================================================================
