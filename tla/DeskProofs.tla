------------------------------ MODULE DeskProofs ------------------------------
(***************************************************************************)
(* Proofs about the modules of the desks, in the steps they take there.    *)
(* Each desk has its own inductive invariant; at the other desks nothing   *)
(* of it moves.                                                            *)
(***************************************************************************)
EXTENDS Desk, FiniteSetTheorems, WellFoundedInduction, TLAPS

-----------------------------------------------------------------------------
(* Upgrade.  What an upgrade has read stays true while it writes, of every *)
(* file that is not edited meanwhile: that is the inductive invariant.     *)

Kinds == {"skip", "install", "current", "refuse", "refresh"}

Plans == [to : Versions, rows : [Files -> Kinds], todo : SUBSET Files,
          step : {"files", "manifest"}]

UpgradeData ==
  /\ UpgradeTypeOK
  /\ upgrading # None =>
       /\ upgrading \in Plans
       /\ upgrading.todo \subseteq Todo(upgrading.rows)
       /\ upgrading.step = "manifest" => upgrading.todo = {}

(* The manifest names no edit as shipped, but one made under an upgrade. *)
SumsShipped == \A f \in Files \ touched : sums[f] # Edit

(* Of a file nobody touched the upgrade's row is as true as when it was read, *)
(* and what it has written is there.                                          *)
Handled == {"refresh", "install", "current"}

RowTrue(f) ==
  /\ upgrading.rows[f] \in Handled => copy[f] # Edit
  /\ upgrading.rows[f] = "skip" => Ships[upgrading.to][f] = 0
  /\ upgrading.rows[f] \in Handled /\ f \notin upgrading.todo =>
       copy[f] = Ships[upgrading.to][f]

RowsTrue == upgrading # None => \A f \in Files \ touched : RowTrue(f)

UpgradeInv == UpgradeData /\ SumsShipped /\ RowsTrue

UpgradeStep == \/ BeginUpgrade \/ WriteFile \/ WriteManifest \/ WriteProvenance
               \/ KillUpgrade \/ Install \/ EditShipped

LEMMA UpgradeAtItsDesk == [Next]_vars => UpgradeStep \/ UNCHANGED upgradeVars
BY DEF Next, vars, AtPolicy, AtOracle, AtLogs, AtUpgrade, AtBacklog, AtMeter, UpgradeStep

LEMMA InitUpgradeInv == Init => UpgradeInv
BY ContentsAssumption
DEF Init, UpgradeInit, UpgradeInv, UpgradeData, UpgradeTypeOK, SumsShipped, RowsTrue

LEMMA ShippedContent == ASSUME NEW v \in Versions, NEW f \in Files
                        PROVE  Ships[v][f] \in Nat /\ Ships[v][f] # Edit
BY ShipsAssumption, ContentsAssumption

(* What the plan of one file says of it. *)
LEMMA PlanSays ==
  ASSUME NEW v, NEW f
  PROVE  /\ plan(v, f) \in Kinds
         /\ plan(v, f) = "skip" => Ships[v][f] = 0
         /\ plan(v, f) = "install" => copy[f] = None
         /\ plan(v, f) = "current" => copy[f] = Ships[v][f]
         /\ plan(v, f) = "refresh" => copy[f] = sums[f]
BY DEF plan, Kinds

LEMMA BeginKeeps == UpgradeInv /\ BeginUpgrade => UpgradeInv'
<1> SUFFICES ASSUME UpgradeInv, BeginUpgrade PROVE UpgradeInv'
  OBVIOUS
<1> USE DEF UpgradeInv, UpgradeData
<1>1. PICK v \in Versions :
        upgrading' = [to |-> v, rows |-> Rows(v), todo |-> Todo(Rows(v)), step |-> "files"]
  BY DEF BeginUpgrade
<1>2. UNCHANGED <<copy, sums, stamp, touched>>
  BY DEF BeginUpgrade
<1>3. Rows(v) \in [Files -> Kinds] /\ \A f \in Files : Rows(v)[f] = plan(v, f)
  BY PlanSays DEF Rows
<1>4. UpgradeData'
  BY <1>1, <1>2, <1>3 DEF UpgradeTypeOK, Todo, Plans
<1>5. SumsShipped'
  BY <1>2 DEF SumsShipped
<1>6. ASSUME NEW f \in Files \ touched PROVE RowTrue(f)'
  <2>1. upgrading'.rows[f] = plan(v, f) /\ upgrading'.to = v
        /\ upgrading'.todo = Todo(Rows(v))
    BY <1>1, <1>3
  <2>2. plan(v, f) \in Handled => copy[f] # Edit
    BY PlanSays, ShippedContent, ContentsAssumption DEF Handled, SumsShipped
  <2>3. plan(v, f) \in Handled /\ f \notin Todo(Rows(v)) => copy[f] = Ships[v][f]
    BY <1>3, PlanSays DEF Handled, Todo
  <2> QED BY <1>2, <2>1, <2>2, <2>3, PlanSays DEF RowTrue
<1>7. RowsTrue'
  BY <1>2, <1>6 DEF RowsTrue
<1> QED BY <1>4, <1>5, <1>7

LEMMA WriteFileKeeps == UpgradeInv /\ WriteFile => UpgradeInv'
<1> SUFFICES ASSUME UpgradeInv, WriteFile PROVE UpgradeInv'
  OBVIOUS
<1> USE DEF UpgradeInv, UpgradeData
<1>1. PICK g \in upgrading.todo :
        /\ copy' = [copy EXCEPT ![g] = Ships[upgrading.to][g]]
        /\ upgrading' = [upgrading EXCEPT !.todo = @ \ {g}]
  BY DEF WriteFile
<1>2. /\ upgrading # None /\ upgrading \in Plans /\ g \in Files
      /\ upgrading.step = "files" /\ UNCHANGED <<sums, stamp, touched>>
  BY DEF WriteFile, Plans
<1>3. upgrading' = [to |-> upgrading.to, rows |-> upgrading.rows,
                    todo |-> upgrading.todo \ {g}, step |-> "files"]
  BY <1>1, <1>2 DEF Plans
<1>4. UpgradeData'
  BY <1>1, <1>2, <1>3, ShippedContent DEF UpgradeTypeOK, Plans
<1>5. SumsShipped'
  BY <1>2 DEF SumsShipped
<1>6. ASSUME NEW f \in Files \ touched PROVE RowTrue(f)'
  <2>1. copy'[f] = IF f = g THEN Ships[upgrading.to][f] ELSE copy[f]
    BY <1>1, <1>2 DEF UpgradeTypeOK
  <2>2. Ships[upgrading.to][f] # Edit
    BY <1>2, ShippedContent DEF Plans
  <2>3. RowTrue(f)
    BY <1>2 DEF RowsTrue
  <2> QED BY <1>3, <2>1, <2>2, <2>3 DEF RowTrue
<1>7. RowsTrue'
  BY <1>2, <1>6 DEF RowsTrue
<1> QED BY <1>4, <1>5, <1>7

LEMMA WriteManifestKeeps == UpgradeInv /\ WriteManifest => UpgradeInv'
<1> SUFFICES ASSUME UpgradeInv, WriteManifest PROVE UpgradeInv'
  OBVIOUS
<1> USE DEF UpgradeInv, UpgradeData
<1>1. /\ upgrading # None /\ upgrading \in Plans /\ upgrading.todo = {}
      /\ sums' = [f \in Files |-> Summed(upgrading.rows, f)]
      /\ upgrading' = [upgrading EXCEPT !.step = "manifest"]
      /\ UNCHANGED <<copy, stamp, touched>>
  BY DEF WriteManifest
<1>2. upgrading' = [to |-> upgrading.to, rows |-> upgrading.rows,
                    todo |-> upgrading.todo, step |-> "manifest"]
  BY <1>1 DEF Plans
<1>3. UpgradeData'
  BY <1>1, <1>2 DEF UpgradeTypeOK, Plans, Summed
<1>4. SumsShipped'
  <2> SUFFICES ASSUME NEW f \in Files \ touched PROVE Summed(upgrading.rows, f) # Edit
    BY <1>1 DEF SumsShipped
  <2> QED BY <1>1 DEF Summed, SumsShipped, RowsTrue, RowTrue, Handled
<1>5. RowsTrue'
  BY <1>1, <1>2 DEF RowsTrue, RowTrue
<1> QED BY <1>3, <1>4, <1>5

LEMMA EditKeeps == UpgradeInv /\ EditShipped => UpgradeInv'
<1> SUFFICES ASSUME UpgradeInv, EditShipped PROVE UpgradeInv'
  OBVIOUS
<1> USE DEF UpgradeInv, UpgradeData
<1>1. PICK g \in Files, c \in {Edit, None} :
        /\ copy' = [copy EXCEPT ![g] = c]
        /\ touched' = IF upgrading # None THEN touched \cup {g} ELSE touched
  BY DEF EditShipped
<1>2. UNCHANGED <<sums, stamp, upgrading>>
  BY DEF EditShipped
<1>3. UpgradeData'
  BY <1>1, <1>2 DEF UpgradeTypeOK
<1>4. SumsShipped'
  BY <1>1, <1>2 DEF SumsShipped
<1>5. ASSUME upgrading # None, NEW f \in Files \ touched' PROVE RowTrue(f)'
  <2>1. f # g /\ f \notin touched
    BY <1>1, <1>5
  <2>2. copy'[f] = copy[f]
    BY <1>1, <2>1 DEF UpgradeTypeOK
  <2> QED BY <1>2, <1>5, <2>1, <2>2 DEF RowsTrue, RowTrue
<1>6. RowsTrue'
  BY <1>2, <1>5 DEF RowsTrue
<1> QED BY <1>3, <1>4, <1>6

LEMMA UpgradeInvStep == UpgradeInv /\ [Next]_vars => UpgradeInv'
<1> SUFFICES ASSUME UpgradeInv, UpgradeStep \/ UNCHANGED upgradeVars PROVE UpgradeInv'
  BY UpgradeAtItsDesk
<1> USE DEF UpgradeInv, UpgradeData
<1>1. CASE WriteProvenance
  BY <1>1 DEF WriteProvenance, UpgradeTypeOK, SumsShipped, RowsTrue, Plans
<1>2. CASE KillUpgrade
  <2>1. UpgradeTypeOK'
    BY <1>2 DEF KillUpgrade, UpgradeTypeOK, Plans
  <2> QED BY <1>2, <2>1 DEF KillUpgrade, SumsShipped, RowsTrue
<1>3. CASE Install
  <2>1. PICK v \in Versions : /\ copy' = Ships[v] /\ UNCHANGED <<upgrading, touched>>
                              /\ (stamp' = v /\ sums' = Ships[v]) \/ UNCHANGED <<stamp, sums>>
    BY <1>3 DEF Install
  <2>2. Ships[v] \in [Files -> Nat]
    BY ShipsAssumption
  <2>3. upgrading = None
    BY <1>3 DEF Install
  <2> QED BY <2>1, <2>2, <2>3, ShippedContent DEF UpgradeTypeOK, SumsShipped, RowsTrue
<1>4. CASE UNCHANGED upgradeVars
  BY <1>4 DEF upgradeVars, UpgradeTypeOK, SumsShipped, RowsTrue, RowTrue
<1> QED BY <1>1, <1>2, <1>3, <1>4, BeginKeeps, WriteFileKeeps, WriteManifestKeeps, EditKeeps
        DEF UpgradeStep

LEMMA UpgradeInvariance == Spec => []UpgradeInv
BY InitUpgradeInv, UpgradeInvStep, PTL DEF Spec

-----------------------------------------------------------------------------
(* The types: what is installed is something shipped, an edit, or what a    *)
(* killed upgrade left of a file.                                           *)
THEOREM UpgradeTypes == Spec => []UpgradeTypeOK
<1>1. UpgradeInv => UpgradeTypeOK
  BY DEF UpgradeInv, UpgradeData
<1> QED BY <1>1, UpgradeInvariance, PTL

(* An upgrade of any releases, however often it was refused, killed or run   *)
(* again, writes over no edit but one that was made while an upgrade ran.    *)
THEOREM NoEditOverwritten == Spec => EditsSurvive
<1> DEFINE Overwritten(f) == /\ upgrading # None /\ copy[f] = Edit
                             /\ copy'[f] \notin {Edit, None}
<1>1. ASSUME UpgradeInv, UpgradeStep, NEW f \in Files, Overwritten(f) PROVE f \in touched
  <2> USE DEF UpgradeInv, UpgradeData
  <2>1. copy'[f] # copy[f] /\ upgrading \in Plans
    BY <1>1
  <2>2. CASE WriteFile
    <3>1. PICK g \in upgrading.todo : copy' = [copy EXCEPT ![g] = Ships[upgrading.to][g]]
      BY <2>2 DEF WriteFile
    <3>2. g = f /\ upgrading.rows[f] \in Handled
      BY <1>1, <2>1, <3>1 DEF UpgradeTypeOK, Todo, Handled
    <3> QED BY <1>1, <3>2 DEF RowsTrue, RowTrue
  <2>3. CASE KillUpgrade
    <3>1. PICK g \in upgrading.todo : copy' = [copy EXCEPT ![g] = Torn]
      BY <2>1, <2>3 DEF KillUpgrade
    <3>2. g = f /\ upgrading.rows[f] \in Handled
      BY <1>1, <2>1, <3>1 DEF UpgradeTypeOK, Todo, Handled
    <3> QED BY <1>1, <3>2 DEF RowsTrue, RowTrue
  <2>4. CASE EditShipped
    BY <1>1, <2>1, <2>4 DEF EditShipped, UpgradeTypeOK
  <2>5. CASE BeginUpgrade \/ Install
    BY <1>1, <2>5 DEF BeginUpgrade, Install
  <2>6. CASE WriteManifest \/ WriteProvenance
    BY <2>1, <2>6 DEF WriteManifest, WriteProvenance
  <2> QED BY <1>1, <2>2, <2>3, <2>4, <2>5, <2>6 DEF UpgradeStep
<1> DEFINE Kept == \A f \in Files : upgrading # None /\ copy[f] = Edit
                                  /\ copy'[f] \notin {Edit, None} => f \in touched
<1>2. UpgradeInv /\ [Next]_vars => [Kept]_upgradeVars
  BY <1>1, UpgradeAtItsDesk
<1> QED BY <1>2, UpgradeInvariance, PTL DEF Spec, EditsSurvive

(* When the stamp advances, every shipped file is what that release ships,  *)
(* but for those edited while an upgrade ran.                               *)
THEOREM StampIsTrue == Spec => StampTrue
<1> DEFINE Advances == upgrading # None /\ stamp' # stamp
<1> DEFINE Whole == \A f \in Files \ touched : Ships[stamp'][f] \in {0, copy[f]}
<1>1. ASSUME UpgradeInv, UpgradeStep, Advances PROVE Whole
  <2> USE DEF UpgradeInv, UpgradeData
  <2>1. WriteProvenance
    BY <1>1 DEF UpgradeStep, BeginUpgrade, WriteFile, WriteManifest, KillUpgrade, Install,
                EditShipped
  <2>2. /\ upgrading \in Plans /\ upgrading.todo = {} /\ stamp' = upgrading.to
        /\ \A f \in Files : upgrading.rows[f] # "refuse"
    BY <1>1, <2>1 DEF WriteProvenance, Stampable, Blocked
  <2>3. ASSUME NEW f \in Files \ touched PROVE Ships[stamp'][f] \in {0, copy[f]}
    <3>1. upgrading.rows[f] \in Handled \/ upgrading.rows[f] = "skip"
      BY <2>2 DEF Plans, Kinds, Handled
    <3> QED BY <1>1, <2>2, <3>1 DEF RowsTrue, RowTrue
  <2> QED BY <2>3
<1>2. UpgradeInv /\ [Next]_vars => [Advances => Whole]_upgradeVars
  BY <1>1, UpgradeAtItsDesk
<1> QED BY <1>2, UpgradeInvariance, PTL DEF Spec, StampTrue

-----------------------------------------------------------------------------
(* Policy.  The invariant says whose the files outside the project are,    *)
(* and that the bytes a process remembers of the profile it runs a session *)
(* under are the ones the session was given.                               *)

Sessions == [src : Sources, by : {"operator", "session"}, text : Texts,
             on : BOOLEAN, cap : Nat,
             recorded : [src : Sources \cup {None}, bytes : Texted \cup {None}] \cup {None}]

OutsideIsOperators ==
  \A s \in Sources : files[s] # None /\ ~is_inside(s) => files[s].by = "operator"

Terms(x) == /\ x.by = "operator"
            /\ x.text.armed \/ x.text.cap > 0 => x.on
            /\ x.text.cap > 0 => x.cap \in 1..x.text.cap

Bytes(x) == [by |-> x.by, text |-> x.text]

SessionBound ==
  session # None =>
    /\ loop # None /\ session \in Sessions
    /\ Terms(session) /\ cache[session.src] = Bytes(session)
    /\ session.recorded # None /\ session.recorded.src = session.src =>
         session.recorded.bytes = Bytes(session)

PolicyInv == PolicyTypeOK /\ OutsideIsOperators /\ SessionBound

PolicyStep == \/ Start \/ Launch \/ RecordPolicy \/ SessionEnds \/ LoopEnds
              \/ OperatorSets \/ SessionSets

LEMMA PolicyAtItsDesk == [Next]_vars => PolicyStep \/ UNCHANGED policyVars
BY DEF Next, vars, AtPolicy, AtOracle, AtLogs, AtUpgrade, AtBacklog, AtMeter, PolicyStep

LEMMA InitPolicyInv == Init => PolicyInv
<1> SUFFICES ASSUME Init PROVE PolicyInv
  OBVIOUS
<1>1. PICK m \in Setups : reach = m.reach /\ files = m.files
  BY DEF Init, PolicyInit
<1>2. conf \in Confs
  BY TextsAssumption DEF Init, PolicyInit
<1> QED BY <1>1, <1>2, SetupsAssumption
        DEF Init, PolicyInit, PolicyInv, PolicyTypeOK, OutsideIsOperators, SessionBound, is_inside

(* Where the search ends there is a file. *)
LEMMA Resolved ==
  ASSUME NEW flag, resolve(flag) # None
  PROVE  /\ resolve(flag) \in Sources
         /\ files[resolve(flag)] # None /\ reach[resolve(flag)] # "unset"
BY DEF resolve, search_order, Sources

(* The merged ceiling is a ceiling, and not looser than the payer's.  *)
LEMMA CeilingsTighten ==
  ASSUME NEW c \in Confs, NEW t \in Texts
  PROVE  LET e == effective_ceilings(c, t) IN
         /\ e.on \in BOOLEAN /\ e.cap \in Nat
         /\ t.armed \/ t.cap > 0 => e.on
         /\ t.cap > 0 => e.cap \in 1..t.cap
<1>1. c.on \in BOOLEAN /\ c.cap \in Nat /\ t.armed \in BOOLEAN /\ t.cap \in Nat
  BY TextsAssumption
<1>2. CASE t.cap = 0 /\ ~t.armed
  BY <1>1, <1>2 DEF effective_ceilings
<1>3. CASE ~(t.cap = 0 /\ ~t.armed)
  <2> DEFINE e == effective_ceilings(c, t)
  <2>1. e.on = TRUE
    BY <1>3 DEF effective_ceilings
  <2>2. e.cap = IF t.cap = 0 THEN c.cap ELSE Tighter(c.cap, t.cap)
    BY <1>3 DEF effective_ceilings
  <2>3. t.cap > 0 => Tighter(c.cap, t.cap) \in 1..t.cap
    BY <1>1 DEF Tighter
  <2> HIDE DEF e
  <2>4. e.cap \in Nat /\ (t.cap > 0 => e.cap \in 1..t.cap)
    BY <1>1, <2>2, <2>3
  <2> QED BY <2>1, <2>4 DEF e
<1> QED BY <1>2, <1>3

LEMMA LaunchKeeps == PolicyInv /\ Launch => PolicyInv'
<1> SUFFICES ASSUME PolicyInv, Launch PROVE PolicyInv'
  OBVIOUS
<1> USE DEF PolicyInv
<1> DEFINE s == resolve(loop)
<1>1. /\ loop # None /\ s # None /\ Loads(loop)
      /\ cache' = [cache EXCEPT ![s] = files[s]] /\ session' = Merged(loop)
      /\ UNCHANGED <<reach, files, conf, loop>>
  BY DEF Launch
<1>2. s \in Sources /\ files[s] # None
  BY <1>1, Resolved
<1>3. files[s] \in Texted /\ files[s].text \in Texts /\ conf \in Confs
  BY <1>2 DEF PolicyTypeOK, Texted
<1>4. ~is_inside(s)
  BY <1>1 DEF Loads, Believed
<1>5. files[s].by = "operator"
  BY <1>2, <1>4 DEF OutsideIsOperators
<1> DEFINE e == effective_ceilings(conf, files[s].text)
<1>6. session' = [src |-> s, by |-> files[s].by, text |-> files[s].text,
                  on |-> e.on, cap |-> e.cap, recorded |-> None]
  BY <1>1 DEF Merged
<1>7. /\ e.on \in BOOLEAN /\ e.cap \in Nat
      /\ files[s].text.armed \/ files[s].text.cap > 0 => e.on
      /\ files[s].text.cap > 0 => e.cap \in 1..files[s].text.cap
  BY <1>3, CeilingsTighten
<1> HIDE DEF e, s
<1>8. cache'[s] = files[s] /\ files[s] = [by |-> files[s].by, text |-> files[s].text]
  BY <1>1, <1>2, <1>3 DEF PolicyTypeOK, Texted
<1>9. PolicyTypeOK'
  BY <1>1, <1>2, <1>3 DEF PolicyTypeOK
<1>10. session' \in Sessions
  BY <1>2, <1>3, <1>5, <1>6, <1>7 DEF Sessions
<1>11. SessionBound'
  BY <1>1, <1>5, <1>6, <1>7, <1>8, <1>10 DEF SessionBound, Terms, Bytes
<1> QED BY <1>1, <1>9, <1>11 DEF OutsideIsOperators, is_inside

LEMMA RecordKeeps == PolicyInv /\ RecordPolicy => PolicyInv'
<1> SUFFICES ASSUME PolicyInv, RecordPolicy PROVE PolicyInv'
  OBVIOUS
<1> USE DEF PolicyInv
<1> DEFINE s == resolve(loop)
           b == IF s = None THEN None ELSE profile_digest(s)
<1>1. /\ session # None /\ session' = [session EXCEPT !.recorded = [src |-> s, bytes |-> b]]
      /\ UNCHANGED <<reach, files, conf, loop, cache>>
  BY DEF RecordPolicy
<1>2. session \in Sessions
  BY <1>1 DEF SessionBound
<1>3. s # None => s \in Sources /\ files[s] # None
  BY Resolved
<1>4. s \in Sources \cup {None} /\ b \in Texted \cup {None}
  BY <1>3 DEF PolicyTypeOK, profile_digest
<1>5. s = session.src => b = Bytes(session)
  <2>1. Bytes(session) \in Texted /\ session.src \in Sources
    BY <1>2 DEF Sessions, Texted, Bytes
  <2>2. cache[session.src] = Bytes(session)
    BY <1>1 DEF SessionBound
  <2>3. Bytes(session) # None /\ session.src # None
    BY <2>1, TextsAssumption
  <2>4. s = session.src => b = profile_digest(s) /\ cache[s] # None
    BY <2>2, <2>3
  <2> HIDE DEF s
  <2> QED BY <2>2, <2>4 DEF profile_digest
<1> HIDE DEF b, s
<1>6. session' \in Sessions /\ session'.recorded = [src |-> s, bytes |-> b]
      /\ session'.by = session.by /\ session'.text = session.text /\ session'.on = session.on
      /\ session'.cap = session.cap /\ session'.src = session.src
  BY <1>1, <1>2, <1>4 DEF Sessions
<1>7. SessionBound'
  BY <1>1, <1>5, <1>6 DEF SessionBound, Terms, Bytes
<1> QED BY <1>1, <1>7 DEF PolicyTypeOK, OutsideIsOperators, is_inside

LEMMA SetsKeeps == PolicyInv /\ (OperatorSets \/ SessionSets) => PolicyInv'
<1> SUFFICES ASSUME PolicyInv, OperatorSets \/ SessionSets PROVE PolicyInv'
  OBVIOUS
<1> USE DEF PolicyInv
<1>1. UNCHANGED <<reach, loop, cache, session>>
  BY DEF OperatorSets, SessionSets
<1>2. \/ conf' \in Confs /\ files' = files
      \/ /\ conf' = conf
         /\ \E s \in Sources, t \in Texts \cup {None}, who \in {"operator", "session"} :
              Writes(s, t, who) /\ (who = "session" => is_inside(s))
  BY DEF OperatorSets, SessionSets, is_inside
<1>3. CASE conf' \in Confs /\ files' = files
  BY <1>1, <1>3 DEF PolicyTypeOK, OutsideIsOperators, is_inside, SessionBound
<1>4. ASSUME conf' = conf, NEW s \in Sources, NEW t \in Texts \cup {None},
             NEW who \in {"operator", "session"}, Writes(s, t, who),
             who = "session" => is_inside(s)
      PROVE  PolicyInv'
  <2>1. files' = [files EXCEPT ![s] = IF t = None THEN None ELSE [by |-> who, text |-> t]]
    BY <1>4 DEF Writes
  <2>2. PolicyTypeOK'
    BY <1>1, <1>4, <2>1 DEF PolicyTypeOK, Texted
  <2>3. OutsideIsOperators'
    BY <1>1, <1>4, <2>1 DEF PolicyTypeOK, OutsideIsOperators, is_inside
  <2> QED BY <1>1, <2>2, <2>3 DEF SessionBound
<1> QED BY <1>2, <1>3, <1>4

LEMMA PolicyInvStep == PolicyInv /\ [Next]_vars => PolicyInv'
<1> SUFFICES ASSUME PolicyInv, PolicyStep \/ UNCHANGED policyVars PROVE PolicyInv'
  BY PolicyAtItsDesk
<1> USE DEF PolicyInv
<1>1. CASE Start
  <2>1. PICK flag \in BOOLEAN :
          /\ loop = None /\ loop' = flag /\ require_policy(flag)
          /\ cache' = [cache EXCEPT ![resolve(flag)] = files[resolve(flag)]]
          /\ UNCHANGED <<reach, files, conf, session>>
    BY <1>1 DEF Start
  <2>2. resolve(flag) \in Sources
    BY <2>1, Resolved DEF require_policy
  <2> QED BY <2>1, <2>2 DEF PolicyTypeOK, OutsideIsOperators, is_inside, SessionBound
<1>2. CASE SessionEnds \/ LoopEnds
  BY <1>2 DEF SessionEnds, LoopEnds, PolicyTypeOK, OutsideIsOperators, is_inside, SessionBound
<1>3. CASE UNCHANGED policyVars
  BY <1>3 DEF policyVars, PolicyTypeOK, OutsideIsOperators, is_inside, SessionBound
<1> QED BY <1>1, <1>2, <1>3, LaunchKeeps, RecordKeeps, SetsKeeps DEF PolicyStep

LEMMA PolicyInvariance == Spec => []PolicyInv
BY InitPolicyInv, PolicyInvStep, PTL DEF Spec

-----------------------------------------------------------------------------
(* The types.  *)
THEOREM PolicyTypes == Spec => []PolicyTypeOK
<1>1. PolicyInv => PolicyTypeOK
  BY DEF PolicyInv
<1> QED BY <1>1, PolicyInvariance, PTL

(* For any profiles, configurations and paths, and whatever sessions write   *)
(* into the project, every session runs under a profile the operator wrote   *)
(* and under ceilings that are not looser than the ones in it.               *)
THEOREM SubjectNeverSetsPolicy == Spec => []SubjectSetsNoPolicy
<1>1. PolicyInv => SubjectSetsNoPolicy
  BY DEF PolicyInv, SessionBound, Terms, SubjectSetsNoPolicy
<1> QED BY <1>1, PolicyInvariance, PTL

(* The digest in an envelope is of the bytes the session runs under, if the  *)
(* search that takes it ends where the search of the dispatch ended.         *)
THEOREM DigestIsOfTheBytes == Spec => []DigestNamesPolicy
<1>1. PolicyInv => DigestNamesPolicy
  BY DEF PolicyInv, SessionBound, Bytes, DigestNamesPolicy
<1> QED BY <1>1, PolicyInvariance, PTL

-----------------------------------------------------------------------------
(* Metering.  Each channel a provider's figure may come by holds a figure  *)
(* the provider reported: the sum of a stream is one for as long as no     *)
(* turn was cut short and its lines are the CLI's, and a sidecar bound to  *)
(* this session is one.                                                    *)

Sidecars == [total : Nat \cup {None}, legal : BOOLEAN, model : BOOLEAN,
             session : {"this", "other", None}, digest : {"this", "other", None}]

MeterData ==
  /\ MeterTypeOK /\ spent \in Nat
  /\ side # None => side \in Sidecars
  /\ account # None => account \in [source : {"provider", "agent-reported", "log-parse", None},
                                    tokens : Nat \cup {None}]

(* A turn that was cut short leaves a total the provider never reported,     *)
(* and no turn follows it.  What the session writes only adds.               *)
StreamVouched ==
  /\ \A v \in vouched : v <= spent
  /\ heard <= turns.sum /\ (blurred => streamed)
  /\ streamed /\ ~blurred => /\ IF turns.any THEN turns.sum \in vouched ELSE turns.sum = 0
                             /\ spent \in vouched \cup {0} => turns.sum = spent

SidecarVouched ==
  ~streamed /\ side # None /\ Bound(side) => side.total \in vouched \cup {None}

(* What a provider's figure is worth.  *)
Told(n) == n \in vouched \/ (blurred /\ n >= heard)

AccountVouched ==
  account # None /\ account.source = "provider" => Told(account.tokens)

MeterInv == MeterData /\ StreamVouched /\ SidecarVouched /\ AccountVouched

MeterStep == \/ TurnCompletes \/ TurnUncounted \/ TurnCut \/ TurnUnbelievable \/ WritesTurn
             \/ Prints \/ WritesSidecar \/ Finish

LEMMA MeterAtItsDesk == [Next]_vars => MeterStep \/ UNCHANGED meterVars
BY DEF Next, vars, AtPolicy, AtOracle, AtLogs, AtUpgrade, AtBacklog, AtMeter, MeterStep

LEMMA InitMeterInv == Init => MeterInv
<1> SUFFICES ASSUME MeterInit PROVE MeterInv
  BY DEF Init
<1>1. turns \in [any : BOOLEAN, sum : Nat, spoiled : BOOLEAN] /\ turns.sum = 0 /\ ~turns.any
  <2>1. turns = [any |-> FALSE, sum |-> 0, spoiled |-> FALSE]
    BY DEF MeterInit
  <2> QED BY <2>1
<1>2. MeterData
  BY <1>1 DEF MeterInit, MeterData, MeterTypeOK
<1>3. StreamVouched
  BY <1>1 DEF MeterInit, StreamVouched
<1> QED BY <1>2, <1>3 DEF MeterInit, MeterInv, SidecarVouched, AccountVouched

(* A turn that is answered leaves a total the provider reported.  *)
LEMMA AnswersFacts ==
  ASSUME MeterInv, NEW n \in Totals, Answers(n)
  PROVE  /\ n \in Nat /\ spent \in Nat /\ spent' = spent + n /\ spent \in vouched \cup {0}
         /\ vouched \subseteq Nat /\ vouched' = vouched \cup {spent'}
         /\ \A v \in vouched' : v <= spent'
         /\ account = None /\ UNCHANGED <<adapter, said, used, side, account>>
         /\ turns \in [any : BOOLEAN, sum : Nat, spoiled : BOOLEAN] /\ heard \in Nat
<1> USE DEF MeterInv
<1>1. /\ n \in Nat /\ spent \in Nat /\ vouched \subseteq Nat
      /\ turns \in [any : BOOLEAN, sum : Nat, spoiled : BOOLEAN] /\ heard \in Nat
  BY MeterAssumption DEF MeterData, MeterTypeOK
<1>2. /\ account = None /\ UNCHANGED <<adapter, said, used, side, account>>
      /\ spent' = spent + n /\ vouched' = vouched \cup {spent'} /\ spent \in vouched \cup {0}
  BY DEF Answers
<1>3. \A v \in vouched' : v <= spent'
  BY <1>1, <1>2 DEF StreamVouched
<1> QED BY <1>1, <1>2, <1>3

LEMMA TurnCompletesKeeps == MeterInv /\ TurnCompletes => MeterInv'
<1> SUFFICES ASSUME MeterInv, TurnCompletes PROVE MeterInv'
  OBVIOUS
<1>1. PICK n \in Totals :
        /\ Answers(n) /\ UNCHANGED blurred
        /\ IF streamed THEN /\ turns' = [turns EXCEPT !.sum = @ + n, !.any = TRUE]
                            /\ heard' = heard + n
                       ELSE UNCHANGED <<turns, heard>>
  BY DEF TurnCompletes
<1>2. /\ n \in Nat /\ spent \in Nat /\ spent' = spent + n /\ spent \in vouched \cup {0}
      /\ vouched \subseteq Nat /\ vouched' = vouched \cup {spent'}
      /\ \A v \in vouched' : v <= spent'
      /\ account = None /\ UNCHANGED <<adapter, said, used, side, account>>
      /\ turns \in [any : BOOLEAN, sum : Nat, spoiled : BOOLEAN] /\ heard \in Nat
  BY <1>1, AnswersFacts
<1> USE DEF MeterInv
<1>3. streamed' = streamed
  BY <1>2 DEF streamed
<1>4. CASE streamed
  <2>1. /\ turns'.any = TRUE /\ turns'.sum = turns.sum + n
        /\ turns' \in [any : BOOLEAN, sum : Nat, spoiled : BOOLEAN] /\ heard' = heard + n
    <3>1. turns' = [any |-> TRUE, sum |-> turns.sum + n, spoiled |-> turns.spoiled]
      BY <1>1, <1>2, <1>4
    <3>2. turns.sum + n \in Nat /\ turns.spoiled \in BOOLEAN
      BY <1>2
    <3> QED BY <1>1, <1>4, <3>1, <3>2
  <2>2. MeterData'
    BY <1>1, <1>2, <2>1 DEF MeterData, MeterTypeOK
  <2>3. StreamVouched'
    BY <1>1, <1>2, <1>3, <1>4, <2>1 DEF StreamVouched
  <2> QED BY <1>1, <1>2, <1>3, <1>4, <2>2, <2>3 DEF SidecarVouched, AccountVouched
<1>5. CASE ~streamed
  BY <1>1, <1>2, <1>3, <1>5
  DEF MeterData, MeterTypeOK, StreamVouched, SidecarVouched, AccountVouched, Bound
<1> QED BY <1>4, <1>5

LEMMA TurnUncountedKeeps == MeterInv /\ TurnUncounted => MeterInv'
<1> SUFFICES ASSUME MeterInv, TurnUncounted PROVE MeterInv'
  OBVIOUS
<1>1. PICK n \in Totals \ {0}, any \in {TRUE, turns.any} :
        /\ Answers(n) /\ streamed /\ blurred' = TRUE /\ heard' = heard
        /\ turns' = [turns EXCEPT !.any = any]
  BY DEF TurnUncounted
<1>2. /\ n \in Nat /\ spent \in Nat /\ spent' = spent + n
      /\ vouched \subseteq Nat /\ vouched' = vouched \cup {spent'}
      /\ \A v \in vouched' : v <= spent'
      /\ account = None /\ UNCHANGED <<adapter, said, used, side, account>>
      /\ turns \in [any : BOOLEAN, sum : Nat, spoiled : BOOLEAN] /\ heard \in Nat
  BY <1>1, AnswersFacts
<1> USE DEF MeterInv
<1>3. streamed' = streamed
  BY <1>2 DEF streamed
<1>4. /\ turns'.sum = turns.sum
      /\ turns' \in [any : BOOLEAN, sum : Nat, spoiled : BOOLEAN]
  BY <1>1, <1>2
<1>5. MeterData'
  BY <1>1, <1>2, <1>4 DEF MeterData, MeterTypeOK
<1>6. StreamVouched'
  BY <1>1, <1>2, <1>3, <1>4 DEF StreamVouched
<1> QED BY <1>1, <1>2, <1>3, <1>5, <1>6 DEF SidecarVouched, AccountVouched

LEMMA TurnCutKeeps == MeterInv /\ TurnCut => MeterInv'
<1> SUFFICES ASSUME MeterInv, TurnCut PROVE MeterInv'
  OBVIOUS
<1> USE DEF MeterInv
<1>1. PICK n \in Totals \ {0} : spent' = spent + n
  BY DEF TurnCut
<1>2. /\ account = None
      /\ UNCHANGED <<adapter, turns, said, used, side, account, vouched, heard, blurred>>
  BY DEF TurnCut
<1>3. n \in Nat \ {0} /\ spent \in Nat /\ vouched \subseteq Nat
  BY MeterAssumption DEF MeterData, MeterTypeOK
<1>4. spent' \notin vouched \cup {0} /\ \A v \in vouched : v <= spent'
  BY <1>1, <1>3 DEF StreamVouched
<1>5. MeterData' /\ SidecarVouched' /\ AccountVouched'
  BY <1>1, <1>2, <1>3 DEF MeterData, MeterTypeOK, SidecarVouched, AccountVouched, Bound, streamed
<1> QED BY <1>2, <1>4, <1>5 DEF StreamVouched, streamed

LEMMA WritesTurnKeeps == MeterInv /\ WritesTurn => MeterInv'
<1> SUFFICES ASSUME MeterInv, WritesTurn PROVE MeterInv'
  OBVIOUS
<1> USE DEF MeterInv
<1>1. /\ account = None /\ streamed /\ blurred' = TRUE
      /\ UNCHANGED <<adapter, spent, said, used, side, account, vouched, heard>>
  BY DEF WritesTurn
<1>2. /\ turns \in [any : BOOLEAN, sum : Nat, spoiled : BOOLEAN] /\ heard \in Nat
      /\ heard <= turns.sum
  BY DEF MeterData, MeterTypeOK, StreamVouched
<1>3. /\ turns' \in [any : BOOLEAN, sum : Nat, spoiled : BOOLEAN]
      /\ turns.sum <= turns'.sum
  <2>1. CASE turns' = [turns EXCEPT !.spoiled = TRUE]
    <3>1. turns' = [any |-> turns.any, sum |-> turns.sum, spoiled |-> TRUE]
      BY <1>2, <2>1
    <3>2. turns.sum \in Nat /\ turns.any \in BOOLEAN
      BY <1>2
    <3> QED BY <3>1, <3>2
  <2>2. ASSUME NEW n \in Totals, turns' = [turns EXCEPT !.sum = @ + n, !.any = TRUE]
        PROVE  /\ turns' \in [any : BOOLEAN, sum : Nat, spoiled : BOOLEAN]
               /\ turns.sum <= turns'.sum
    <3>1. n \in Nat
      BY MeterAssumption
    <3>2. turns' = [any |-> TRUE, sum |-> turns.sum + n, spoiled |-> turns.spoiled]
      BY <1>2, <2>2, <3>1
    <3>3. turns.sum + n \in Nat /\ turns.sum <= turns.sum + n /\ turns.spoiled \in BOOLEAN
      BY <1>2, <3>1
    <3> QED BY <3>2, <3>3
  <2> QED BY <2>1, <2>2 DEF WritesTurn
<1>4. heard' <= turns'.sum
  BY <1>1, <1>2, <1>3
<1>5. MeterData'
  BY <1>1, <1>3 DEF MeterData, MeterTypeOK
<1> QED BY <1>1, <1>4, <1>5 DEF StreamVouched, SidecarVouched, AccountVouched, streamed

LEMMA SidecarType ==
  ASSUME NEW total \in Nat \cup {None}, NEW model \in BOOLEAN,
         NEW session_ \in {"this", "other", None}, NEW digest \in {"this", "other", None}
  PROVE  Sidecar(total, model, session_, digest) \in Sidecars
BY DEF Sidecar, Sidecars

LEMMA WritesSidecarKeeps == MeterInv /\ WritesSidecar => MeterInv'
<1> SUFFICES ASSUME MeterInv, WritesSidecar PROVE MeterInv'
  OBVIOUS
<1> USE DEF MeterInv
<1>1. PICK model \in BOOLEAN :
        \/ \E total \in vouched \cup {None}, session_ \in {"this", None}, digest \in {"this", None} :
             side' = Sidecar(total, model, session_, digest)
        \/ \E total \in Totals, digest \in {"other", None} :
             side' = Sidecar(total, model, "other", digest)
  BY DEF WritesSidecar
<1>2. account = None
      /\ UNCHANGED <<adapter, spent, turns, said, used, account, vouched, heard, blurred>>
  BY DEF WritesSidecar
<1>3. MeterData'
  <2>1. vouched \subseteq Nat /\ Totals \subseteq Nat
    BY MeterAssumption DEF MeterData, MeterTypeOK
  <2>2. side' \in Sidecars
    BY <1>1, <2>1, SidecarType
  <2> QED BY <1>2, <2>2 DEF MeterData, MeterTypeOK
<1>4. SidecarVouched'
  BY <1>1, <1>2 DEF SidecarVouched, Sidecar, Bound, streamed
<1> QED BY <1>2, <1>3, <1>4 DEF StreamVouched, AccountVouched, streamed

(* What telemetry takes for a provider's figure is one.  *)
LEMMA TelemetryVouched ==
  ASSUME MeterInv
  PROVE  /\ telemetry.source \in {"provider", "agent-reported", "log-parse", None}
         /\ telemetry.tokens \in Nat \cup {None}
         /\ telemetry.source = "provider" => Told(telemetry.tokens)
<1> USE DEF MeterInv
<1> DEFINE s == write_stream_sidecar
           sided == s # None /\ Bound(s)
           agent == ~sided /\ ~streamed /\ said # None /\ said.legal
           source == telemetry.source
<1>1. s # None /\ Bound(s) => s.total \in Nat \cup {None} /\ (s.total # None => Told(s.total))
  <2>1. CASE streamed
    <3>1. s # None => s.total = turns.sum /\ turns.any
      BY <2>1 DEF write_stream_sidecar, stream_usage, Sidecar
    <3>2. turns.sum \in Nat
      BY DEF MeterData, MeterTypeOK
    <3>3. turns.any => Told(turns.sum)
      BY <2>1, <3>2 DEF StreamVouched, Told, MeterData, MeterTypeOK
    <3> QED BY <3>1, <3>2, <3>3
  <2>2. CASE ~streamed
    <3>1. s # None /\ Bound(s) => s.total \in vouched \cup {None}
      BY <2>2 DEF write_stream_sidecar, SidecarVouched
    <3> QED BY <3>1 DEF Told, MeterData, MeterTypeOK
  <2> QED BY <2>1, <2>2
<1>2. /\ source = "provider" => sided /\ s.total # None /\ telemetry.tokens = s.total
      /\ source = "agent-reported" => agent /\ telemetry.tokens = said.total
      /\ source = "log-parse" => telemetry.tokens = used
      /\ source \in {"provider", "agent-reported", "log-parse", None}
      /\ source = None => telemetry.tokens = None
  BY MeterAssumption DEF telemetry
<1>3. said # None => said.total \in Totals \cup {None}
  BY DEF MeterData, MeterTypeOK, Usage
<1>4. used \in Totals \cup {None} /\ vouched \subseteq Nat /\ Totals \subseteq Nat
  BY MeterAssumption DEF MeterData, MeterTypeOK
<1> QED BY <1>1, <1>2, <1>3, <1>4

LEMMA FinishKeeps == MeterInv /\ Finish => MeterInv'
<1> SUFFICES ASSUME MeterInv, Finish PROVE MeterInv'
  OBVIOUS
<1> USE DEF MeterInv
<1>1. /\ account' = telemetry /\ side' = write_stream_sidecar
      /\ UNCHANGED <<adapter, spent, turns, said, used, vouched, heard, blurred>>
  BY DEF Finish
<1>2. telemetry = [source |-> telemetry.source, tokens |-> telemetry.tokens]
  BY DEF telemetry
<1>3. account' \in [source : {"provider", "agent-reported", "log-parse", None},
                    tokens : Nat \cup {None}]
  BY <1>1, <1>2, TelemetryVouched
<1>4. MeterData'
  <2>1. turns \in [any : BOOLEAN, sum : Nat, spoiled : BOOLEAN]
    BY DEF MeterData, MeterTypeOK
  <2>2. Sidecar(turns.sum, FALSE, "this", "this") \in Sidecars
    BY <2>1, SidecarType
  <2>3. side' # None => side' \in Sidecars
    BY <1>1, <2>2 DEF write_stream_sidecar, stream_usage, MeterData
  <2> QED BY <1>1, <1>3, <2>3 DEF MeterData, MeterTypeOK
<1>5. AccountVouched'
  <2>1. telemetry.source = "provider" => Told(telemetry.tokens)
    BY TelemetryVouched
  <2> QED BY <1>1, <2>1 DEF AccountVouched, Told
<1>6. SidecarVouched'
  BY <1>1 DEF SidecarVouched, write_stream_sidecar, streamed
<1> QED BY <1>1, <1>4, <1>5, <1>6 DEF StreamVouched, streamed

LEMMA MeterInvStep == MeterInv /\ [Next]_vars => MeterInv'
<1> SUFFICES ASSUME MeterInv, MeterStep \/ UNCHANGED meterVars PROVE MeterInv'
  BY MeterAtItsDesk
<1> USE DEF MeterInv
<1>1. CASE TurnUnbelievable
  <2>1. /\ turns' = [turns EXCEPT !.spoiled = TRUE]
        /\ UNCHANGED <<adapter, spent, said, used, side, account, vouched, heard, blurred>>
    BY <1>1 DEF TurnUnbelievable
  <2>2. /\ turns'.any = turns.any /\ turns'.sum = turns.sum
        /\ turns' \in [any : BOOLEAN, sum : Nat, spoiled : BOOLEAN]
    BY <2>1 DEF MeterData, MeterTypeOK
  <2> QED BY <2>1, <2>2 DEF MeterData, MeterTypeOK, StreamVouched, SidecarVouched, AccountVouched,
              Told, Bound, streamed
<1>2. CASE Prints
  BY <1>2 DEF Prints, MeterData, MeterTypeOK, StreamVouched, SidecarVouched, AccountVouched,
              Told, Bound, streamed
<1>3. CASE UNCHANGED meterVars
  BY <1>3 DEF meterVars, MeterData, MeterTypeOK, StreamVouched, SidecarVouched, AccountVouched,
              Told, Bound, streamed
<1> QED BY <1>1, <1>2, <1>3, TurnCompletesKeeps, TurnUncountedKeeps, TurnCutKeeps, WritesTurnKeeps,
           WritesSidecarKeeps, FinishKeeps
        DEF MeterStep

LEMMA MeterInvariance == Spec => []MeterInv
BY InitMeterInv, MeterInvStep, PTL DEF Spec

-----------------------------------------------------------------------------
(* For any adapter, reservation and figures, whatever is printed, copied or  *)
(* left about, a session is charged less than its reservation only by a      *)
(* figure the provider reported of it; and where the stream says other than  *)
(* the provider, by no less than what the CLI's own lines add up to.         *)
THEOREM DiscountVouched == Spec => []DiscountIsVouched
<1>1. ASSUME MeterInv PROVE DiscountIsVouched
  <2> SUFFICES ASSUME account # None, Charge(account) < Reservation
               PROVE  Told(Charge(account))
    BY DEF DiscountIsVouched, Told
  <2>1. account.tokens \in Nat \cup {None} /\ Reservation \in Nat
    BY <1>1, MeterAssumption DEF MeterInv, MeterData
  <2>2. account.source = "provider"
    BY <2>1 DEF Charge
  <2>3. Charge(account) = account.tokens
    BY <2>2 DEF Charge
  <2> QED BY <1>1, <2>2, <2>3 DEF MeterInv, AccountVouched
<1> QED BY <1>1, MeterInvariance, PTL

-----------------------------------------------------------------------------
(* Reconcile.  A report proposes a finding only when its older twins were  *)
(* all closed or rejected, and no finding leaves those two statuses: so a  *)
(* command that is typed late finds the twins as the report found them.    *)

(* The statuses of Ruled that are statuses. *)
Final == {"closed", "rejected"}

(* Findings are filed in their order. *)
FiledInOrder == \A f, g \in Ids : f < g /\ status[g] # "unfiled" => status[f] # "unfiled"

PrintedHolds ==
  \A command \in printed :
    /\ status[command[1]] # "unfiled"
    /\ "accepted" \in TRANSITIONS[command[2]] /\ <<command[2], "accepted">> \notin RESERVED
    /\ \A f \in Ids : f < command[1] /\ Key[f] = Key[command[1]] => status[f] \in Final

TypedWasPrinted == \A f \in typed : \E command \in printed : command[1] = f

ReconcileInv == ReconcileTypeOK /\ FiledInOrder /\ PrintedHolds /\ TypedWasPrinted

ReconcileStep == Report \/ TypeCommand \/ MoveFinding \/ FileNext \/ EditTree

LEMMA ReconcileAtItsDesk == [Next]_vars => ReconcileStep \/ UNCHANGED reconcileVars
BY DEF Next, vars, AtPolicy, AtOracle, AtLogs, AtUpgrade, AtBacklog, AtMeter, ReconcileStep

(* The table leads to statuses, and out of the final ones nowhere. *)
LEMMA Moves ==
  /\ \A s \in STATUSES \cup {"unfiled"} : TRANSITIONS[s] \subseteq STATUSES
  /\ \A s \in Final \cup {"unfiled"} : TRANSITIONS[s] = {}
  /\ "unfiled" \notin STATUSES /\ "reported" \in STATUSES /\ "accepted" \in STATUSES
<1>1. \A s \in STATUSES \cup {"unfiled"} : TRANSITIONS[s] =
        CASE s = "reported"  -> {"accepted", "rejected", "deferred"}
          [] s = "deferred"  -> {"accepted", "rejected"}
          [] s = "accepted"  -> {"validated", "disputed", "obsolete", "superseded-by-class"}
          [] s = "validated" -> {"planned", "superseded-by-class"}
          [] s = "planned"   -> {"fixed", "superseded-by-class"}
          [] s = "fixed"     -> {"closed", "reopened"}
          [] s = "reopened"  -> {"planned", "superseded-by-class"}
          [] s = "disputed"  -> {"accepted", "withdrawn"}
          [] s = "superseded-by-class" -> {"accepted"}
          [] OTHER -> {}
  BY DEF TRANSITIONS
<1>2. \A s \in STATUSES \cup {"unfiled"} : TRANSITIONS[s] \subseteq STATUSES
  BY <1>1 DEF STATUSES, TERMINAL
<1>3. \A s \in Final \cup {"unfiled"} : TRANSITIONS[s] = {}
  BY <1>1 DEF STATUSES, TERMINAL, Final
<1> QED BY <1>2, <1>3 DEF STATUSES, TERMINAL

LEMMA InitReconcileInv == Init => ReconcileInv
BY DEF Init, ReconcileInit, ReconcileInv, ReconcileTypeOK, Anchors, FiledInOrder, PrintedHolds,
       TypedWasPrinted

LEMMA ReportKeeps == ReconcileInv /\ Report => ReconcileInv'
<1> SUFFICES ASSUME ReconcileInv, Report PROVE ReconcileInv'
  OBVIOUS
<1> USE DEF ReconcileInv
<1>1. /\ printed' = printed \cup {<<f, status[f]>> : f \in {g \in Live : Proposals(g) # {}}}
      /\ UNCHANGED <<status, anchor, typed>>
  BY DEF Report
<1>2. ASSUME NEW f \in Live, Proposals(f) # {}
      PROVE  /\ f \in Ids /\ status[f] \in STATUSES
             /\ "accepted" \in TRANSITIONS[status[f]] /\ <<status[f], "accepted">> \notin RESERVED
             /\ \A g \in Ids : g < f /\ Key[g] = Key[f] => status[g] \in Final
  <2>1. f \in Ids /\ status[f] \in STATUSES
    BY <1>2 DEF Live, ReconcileTypeOK
  <2>2. /\ "accepted" \in TRANSITIONS[status[f]] /\ <<status[f], "accepted">> \notin RESERVED
        /\ verdict_for(f) = "anchor-unchanged"
    BY <1>2 DEF Proposals, Wants
  <2>3. f \notin Duplicates
    BY <2>2 DEF verdict_for
  <2>4. ASSUME NEW g \in Ids, g < f, Key[g] = Key[f] PROVE status[g] \in Final
    <3>1. g \notin Live
      BY <1>2, <2>3, <2>4 DEF Duplicates
    <3>2. status[g] # "unfiled" /\ status[g] \in STATUSES
      BY <2>1, <2>4, Moves DEF FiledInOrder, ReconcileTypeOK
    <3> QED BY <3>1, <3>2 DEF Live, Ruled, STATUSES, TERMINAL, Final
  <2> QED BY <2>1, <2>2, <2>4
<1>3. ASSUME NEW command \in printed', command \notin printed
      PROVE  \E f \in Live : Proposals(f) # {} /\ command = <<f, status[f]>>
  BY <1>1, <1>3
<1>4. ReconcileTypeOK'
  <2>1. ASSUME NEW command \in printed' PROVE command \in Ids \X STATUSES
    <3>1. CASE command \in printed
      BY <3>1 DEF ReconcileTypeOK
    <3>2. CASE command \notin printed
      <4>1. PICK f \in Live : Proposals(f) # {} /\ command = <<f, status[f]>>
        BY <1>3, <3>2
      <4>2. f \in Ids /\ status[f] \in STATUSES
        BY <1>2, <4>1
      <4> QED BY <4>1, <4>2
    <3> QED BY <3>1, <3>2
  <2> QED BY <1>1, <2>1 DEF ReconcileTypeOK
<1>5. PrintedHolds'
  <2>1. ASSUME NEW command \in printed', command \notin printed
        PROVE  /\ status[command[1]] # "unfiled"
               /\ "accepted" \in TRANSITIONS[command[2]]
               /\ <<command[2], "accepted">> \notin RESERVED
               /\ \A f \in Ids : f < command[1] /\ Key[f] = Key[command[1]] =>
                                status[f] \in Final
    <3>1. PICK f \in Live : Proposals(f) # {} /\ command = <<f, status[f]>>
      BY <1>3, <2>1
    <3>2. command[1] = f /\ command[2] = status[f]
      BY <3>1
    <3> QED BY <1>2, <3>1, <3>2, Moves
  <2> QED BY <1>1, <2>1 DEF PrintedHolds
<1> QED BY <1>1, <1>4, <1>5 DEF FiledInOrder, TypedWasPrinted

(* Whatever moves one finding along the table keeps the rest. *)
LEMMA MoveKeeps ==
  ASSUME ReconcileInv, NEW f \in Ids, NEW want \in TRANSITIONS[status[f]],
         status' = [status EXCEPT ![f] = want], UNCHANGED <<anchor, printed>>
  PROVE  /\ status' \in [Ids -> STATUSES \cup {"unfiled"}]
         /\ FiledInOrder' /\ PrintedHolds'
<1> USE DEF ReconcileInv
<1>1. status[f] \notin Final \cup {"unfiled"} /\ want \in STATUSES /\ want # "unfiled"
  BY Moves DEF ReconcileTypeOK
<1>2. status' \in [Ids -> STATUSES \cup {"unfiled"}]
  BY <1>1 DEF ReconcileTypeOK
<1>3. \A g \in Ids : (status[g] = "unfiled") <=> (status'[g] = "unfiled")
  BY <1>1 DEF ReconcileTypeOK
<1>4. \A g \in Ids : status[g] \in Final => status'[g] \in Final
  BY <1>1 DEF ReconcileTypeOK
<1>5. FiledInOrder'
  BY <1>3 DEF FiledInOrder
<1>6. \A command \in printed : command[1] \in Ids
  BY DEF ReconcileTypeOK
<1>7. PrintedHolds'
  BY <1>3, <1>4, <1>6 DEF PrintedHolds
<1> QED BY <1>2, <1>5, <1>7

LEMMA FileKeeps == ReconcileInv /\ FileNext => ReconcileInv'
<1> SUFFICES ASSUME ReconcileInv, FileNext PROVE ReconcileInv'
  OBVIOUS
<1> USE DEF ReconcileInv
<1>1. PICK f \in Ids, a \in Anchors :
        /\ status[f] = "unfiled" /\ \A g \in 1..(f - 1) : status[g] # "unfiled"
        /\ status' = [status EXCEPT ![f] = "reported"]
        /\ anchor' = [anchor EXCEPT ![f] = a]
  BY DEF FileNext
<1>2. UNCHANGED <<printed, typed>>
  BY DEF FileNext
<1>3. Ids \subseteq Nat /\ \A g \in Ids : g < f => g \in 1..(f - 1)
  BY FilingsAssumption DEF Ids
<1>4. ReconcileTypeOK'
  BY <1>1, <1>2, Moves DEF ReconcileTypeOK
<1>5. FiledInOrder'
  BY <1>1, <1>3, Moves DEF FiledInOrder, ReconcileTypeOK
<1>6. \A command \in printed : command[1] \in Ids /\ command[1] # f
  BY <1>1 DEF ReconcileTypeOK, PrintedHolds
<1>7. \A g \in Ids : status[g] \in Final => g # f
  BY <1>1 DEF Final
<1>8. PrintedHolds'
  BY <1>1, <1>2, <1>6, <1>7 DEF PrintedHolds, ReconcileTypeOK
<1> QED BY <1>2, <1>4, <1>5, <1>8 DEF TypedWasPrinted

LEMMA ReconcileInvStep == ReconcileInv /\ [Next]_vars => ReconcileInv'
<1> SUFFICES ASSUME ReconcileInv, ReconcileStep \/ UNCHANGED reconcileVars PROVE ReconcileInv'
  BY ReconcileAtItsDesk
<1> USE DEF ReconcileInv
<1>1. CASE TypeCommand
  <2>1. PICK command \in printed :
          /\ Takes(command[1], "accepted")
          /\ status' = [status EXCEPT ![command[1]] = "accepted"]
          /\ typed' = typed \cup {command[1]}
    BY <1>1 DEF TypeCommand
  <2>2. command[1] \in Ids /\ UNCHANGED <<anchor, printed>>
    BY <1>1 DEF TypeCommand, ReconcileTypeOK
  <2>3. "accepted" \in TRANSITIONS[status[command[1]]]
    BY <2>1 DEF Takes
  <2>4. /\ status' \in [Ids -> STATUSES \cup {"unfiled"}]
        /\ FiledInOrder' /\ PrintedHolds'
    BY <2>1, <2>2, <2>3, MoveKeeps
  <2> QED BY <2>1, <2>2, <2>4 DEF ReconcileTypeOK, TypedWasPrinted
<1>2. CASE MoveFinding
  <2>1. PICK f \in Ids : \E want \in TRANSITIONS[status[f]] \ {"superseded-by-class"} :
          /\ status' = [status EXCEPT ![f] = want]
          /\ typed' = typed \ (IF want = "accepted" THEN {f} ELSE {})
    BY <1>2 DEF MoveFinding
  <2>2. PICK want \in TRANSITIONS[status[f]] :
          /\ status' = [status EXCEPT ![f] = want]
          /\ typed' = typed \ (IF want = "accepted" THEN {f} ELSE {})
    BY <2>1
  <2>3. UNCHANGED <<anchor, printed>>
    BY <1>2 DEF MoveFinding
  <2>4. /\ status' \in [Ids -> STATUSES \cup {"unfiled"}]
        /\ FiledInOrder' /\ PrintedHolds'
    BY <2>2, <2>3, MoveKeeps
  <2> QED BY <2>2, <2>3, <2>4 DEF ReconcileTypeOK, TypedWasPrinted
<1>3. CASE EditTree
  BY <1>3 DEF EditTree, ReconcileTypeOK, Anchors, FiledInOrder, PrintedHolds, TypedWasPrinted
<1>4. CASE UNCHANGED reconcileVars
  BY <1>4 DEF reconcileVars, ReconcileTypeOK, FiledInOrder, PrintedHolds, TypedWasPrinted
<1> QED BY <1>1, <1>2, <1>3, <1>4, ReportKeeps, FileKeeps DEF ReconcileStep

LEMMA ReconcileInvariance == Spec => []ReconcileInv
BY InitReconcileInv, ReconcileInvStep, PTL DEF Spec

-----------------------------------------------------------------------------
(* For any number of findings and any units and titles: a command a report   *)
(* printed is one set-status takes for as long as its finding has not moved, *)
(* and of two twins that were accepted because reports said so one is        *)
(* settled.                                                                  *)
THEOREM AdviceIsSound == Spec => []AdviceHolds
<1>1. ASSUME ReconcileInv PROVE AdviceHolds
  <2> USE <1>1 DEF ReconcileInv
  <2>1. ASSUME NEW command \in printed, status[command[1]] = command[2]
        PROVE  Takes(command[1], "accepted")
    BY <2>1 DEF PrintedHolds, Takes
  <2>2. ASSUME NEW f \in typed, NEW g \in typed, f < g, Key[f] = Key[g] PROVE Settled(f)
    <3>1. PICK command \in printed : command[1] = g
      BY DEF TypedWasPrinted
    <3>2. f \in Ids
      BY DEF ReconcileTypeOK
    <3>3. status[f] \in Final
      BY <2>2, <3>1, <3>2 DEF PrintedHolds
    <3> QED BY <3>3 DEF Settled, Final, TERMINAL
  <2>3. ASSUME NEW f \in typed, NEW g \in typed, f # g PROVE f < g \/ g < f
    BY <2>3, FilingsAssumption DEF ReconcileTypeOK, Ids
  <2> QED BY <2>1, <2>2, <2>3 DEF AdviceHolds
<1> QED BY <1>1, ReconcileInvariance, PTL

-----------------------------------------------------------------------------
(* Oracle.  A run in the stream is what its oracle says of its material,   *)
(* unless an edit raced a run, and there is one closure.                   *)

RunEvents == [event : {"oracle_run"}, snapshot : Materials, digest : Checkers, verdict : Verdicts]
ClosureEvents == [event : {"closed"}, snapshot : Materials \cup {None}, manual : BOOLEAN,
              digest : Checkers \cup {None}, verdict : {"closed"}]

UnderWay == [snapshot : Materials, digest : Checkers,
             on : Materials \cup {None}, by : Checkers \cup {None}]

OracleData ==
  /\ material \in Materials /\ checker \in Checkers
  /\ closed \in BOOLEAN /\ raced \in BOOLEAN
  /\ events \in Seq(RunEvents \cup ClosureEvents)
  /\ running # None => running \in UnderWay /\ (running.on # None => running.by # None)

(* What a recorded run says. *)
Honest(e) == e.event = "oracle_run" => e.verdict \in {Says[e.digest][e.snapshot], "error"}

RunsHonest == ~raced => \A i \in 1..Len(events) : Honest(events[i])

Tells(k, snapshot) == /\ Says[k][snapshot] = "defect-absent"
                      /\ \E m \in Materials : Says[k][m] = "defect-present"

ClosedOnce ==
  \A i \in Closes :
    /\ closed /\ \A k \in Closes : k = i
    /\ ~events[i].manual /\ ~raced => Tells(events[i].digest, events[i].snapshot)

OracleInv == OracleData /\ RunsHonest /\ ClosedOnce

OracleStep == \/ ReadIdentity \/ EnterClone \/ RecordRun \/ EditMaterial \/ EditChecker
              \/ CloseByOracle \/ CloseByHand

LEMMA OracleAtItsDesk == [Next]_vars => OracleStep \/ UNCHANGED oracleVars
BY DEF Next, vars, AtPolicy, AtOracle, AtLogs, AtUpgrade, AtBacklog, AtMeter, OracleStep

LEMMA InitOracleInv == Init => OracleInv
<1> SUFFICES ASSUME Init PROVE OracleInv
  OBVIOUS
<1>1. material \in Materials /\ checker \in Checkers
  BY MaterialsAssumption DEF Init, OracleInit
<1>2. /\ running = None /\ events = <<>> /\ closed = FALSE /\ raced = FALSE
      /\ Len(events) = 0 /\ events \in Seq(RunEvents \cup ClosureEvents)
  BY DEF Init, OracleInit
<1>3. 1..Len(events) = {}
  BY <1>2
<1> QED BY <1>1, <1>2, <1>3 DEF OracleInv, OracleData, RunsHonest, ClosedOnce, Closes

(* An event that is appended is the last one, and the others stay. *)
LEMMA Appended ==
  ASSUME OracleData, NEW e \in RunEvents \cup ClosureEvents, events' = Append(events, e)
  PROVE  /\ events' \in Seq(RunEvents \cup ClosureEvents)
         /\ Len(events') = Len(events) + 1 /\ Len(events) \in Nat
         /\ events'[Len(events) + 1] = e
         /\ \A i \in 1..Len(events) : events'[i] = events[i]
BY DEF OracleData

LEMMA RecordRunKeeps == OracleInv /\ RecordRun => OracleInv'
<1> SUFFICES ASSUME OracleInv, RecordRun PROVE OracleInv'
  OBVIOUS
<1> USE DEF OracleInv
<1>1. PICK v \in {Says[running.by][running.on], "error"} :
        events' = Append(events, [event |-> "oracle_run", snapshot |-> running.snapshot,
                                  digest |-> running.digest, verdict |-> v])
  BY DEF RecordRun
<1>2. /\ running # None /\ running.on # None /\ running' = None
      /\ raced' = (raced \/ running.on # running.snapshot \/ running.by # running.digest)
      /\ UNCHANGED <<material, checker, closed>>
  BY DEF RecordRun
<1> DEFINE e == [event |-> "oracle_run", snapshot |-> running.snapshot,
                 digest |-> running.digest, verdict |-> v]
<1>3. /\ running.snapshot \in Materials /\ running.digest \in Checkers
      /\ running.on \in Materials /\ running.by \in Checkers
  BY <1>2 DEF OracleData, UnderWay
<1>4. e \in RunEvents
  BY <1>3, SaysAssumption DEF RunEvents, Verdicts
<1>5. /\ events' \in Seq(RunEvents \cup ClosureEvents)
      /\ Len(events') = Len(events) + 1 /\ Len(events) \in Nat
      /\ events'[Len(events) + 1] = e
      /\ \A i \in 1..Len(events) : events'[i] = events[i]
  BY <1>1, <1>4, Appended
<1>6. ~raced' => Honest(e)
  BY <1>2, <1>3 DEF Honest
<1>7. e.event = "oracle_run"
  OBVIOUS
<1> HIDE DEF e
<1>8. OracleData'
  BY <1>2, <1>5 DEF OracleData
<1>9. RunsHonest'
  <2> SUFFICES ASSUME ~raced', NEW i \in 1..Len(events') PROVE Honest(events'[i])
    BY DEF RunsHonest
  <2>1. i \in 1..Len(events) \/ i = Len(events) + 1
    BY <1>5
  <2> QED BY <1>2, <1>5, <1>6, <2>1 DEF RunsHonest
<1>10. Closes' = Closes
  BY <1>5, <1>7 DEF Closes
<1>11. ClosedOnce'
  <2>1. Closes \subseteq 1..Len(events)
    BY DEF Closes
  <2> QED BY <1>2, <1>5, <1>10, <2>1 DEF ClosedOnce
<1> QED BY <1>8, <1>9, <1>11

(* What earns a closure by oracle tells the two apart. *)
LEMMA EarnedTells ==
  ASSUME OracleInv, ~raced, NEW snapshot \in Materials, NEW k \in Checkers, Earned(snapshot, k)
  PROVE  Tells(k, snapshot)
<1>1. PICK i \in Runs("defect-absent") : events[i].snapshot = snapshot /\ events[i].digest = k
  BY DEF Earned
<1>2. PICK j \in Runs("defect-present") : events[j].digest = k
  BY DEF Earned
<1>3. /\ i \in 1..Len(events) /\ events[i].event = "oracle_run"
      /\ events[i].verdict = "defect-absent"
      /\ j \in 1..Len(events) /\ events[j].event = "oracle_run"
      /\ events[j].verdict = "defect-present"
  BY DEF Runs
<1>4. Honest(events[i]) /\ Honest(events[j])
  BY <1>3 DEF OracleInv, RunsHonest
<1>5. events[j].snapshot \in Materials
  <2>1. events[j] \in RunEvents \cup ClosureEvents
    BY <1>3 DEF OracleInv, OracleData
  <2> QED BY <1>3, <2>1 DEF RunEvents, ClosureEvents
<1> QED BY <1>1, <1>2, <1>3, <1>4, <1>5 DEF Honest, Tells

LEMMA CloseKeeps == OracleInv /\ (CloseByOracle \/ CloseByHand) => OracleInv'
<1> SUFFICES ASSUME OracleInv, CloseByOracle \/ CloseByHand PROVE OracleInv'
  OBVIOUS
<1> USE DEF OracleInv
<1>1. PICK snapshot \in Materials \cup {None}, manual \in BOOLEAN :
        /\ Closure(snapshot, manual)
        /\ ~manual => snapshot \in Materials /\ Earned(snapshot, checker)
  BY DEF CloseByOracle, CloseByHand, material_identity, OracleData
<1> DEFINE e == [event |-> "closed", snapshot |-> snapshot, manual |-> manual,
                 digest |-> IF manual THEN None ELSE checker, verdict |-> "closed"]
<1>2. /\ ~closed /\ closed' = TRUE /\ events' = Append(events, e)
      /\ UNCHANGED <<material, checker, running, raced>>
  BY <1>1 DEF Closure
<1>3. e \in ClosureEvents
  BY DEF ClosureEvents, OracleData
<1>4. /\ events' \in Seq(RunEvents \cup ClosureEvents)
      /\ Len(events') = Len(events) + 1 /\ Len(events) \in Nat
      /\ events'[Len(events) + 1] = e
      /\ \A i \in 1..Len(events) : events'[i] = events[i]
  BY <1>2, <1>3, Appended
<1>5. e.event = "closed" /\ e.manual = manual /\ e.snapshot = snapshot
      /\ (~manual => e.digest = checker)
  OBVIOUS
<1> HIDE DEF e
<1>6. OracleData'
  BY <1>2, <1>4 DEF OracleData
<1>7. RunsHonest'
  <2> SUFFICES ASSUME ~raced', NEW i \in 1..Len(events') PROVE Honest(events'[i])
    BY DEF RunsHonest
  <2>1. i \in 1..Len(events) \/ i = Len(events) + 1
    BY <1>4
  <2>2. Honest(e)
    BY <1>5 DEF Honest
  <2> QED BY <1>2, <1>4, <2>1, <2>2 DEF RunsHonest
<1>8. Closes = {}
  BY <1>2 DEF ClosedOnce
<1>9. \A i \in Closes' : i = Len(events) + 1
  BY <1>4, <1>8 DEF Closes
<1>10. ~manual /\ ~raced => Tells(checker, snapshot)
  BY <1>1, EarnedTells DEF OracleData
<1>11. ClosedOnce'
  BY <1>2, <1>4, <1>5, <1>9, <1>10 DEF ClosedOnce
<1> QED BY <1>6, <1>7, <1>11

LEMMA OracleInvStep == OracleInv /\ [Next]_vars => OracleInv'
<1> SUFFICES ASSUME OracleInv, OracleStep \/ UNCHANGED oracleVars PROVE OracleInv'
  BY OracleAtItsDesk
<1> USE DEF OracleInv
<1>1. CASE ReadIdentity
  BY <1>1, MaterialsAssumption
  DEF ReadIdentity, material_identity, OracleData, UnderWay, RunsHonest, ClosedOnce, Closes
<1>2. CASE EnterClone
  <2>1. running' = [snapshot |-> running.snapshot, digest |-> running.digest,
                    on |-> material, by |-> checker]
    BY <1>2 DEF EnterClone, OracleData, UnderWay
  <2> QED BY <1>2, <2>1, MaterialsAssumption
          DEF EnterClone, OracleData, UnderWay, RunsHonest, ClosedOnce, Closes
<1>3. CASE EditMaterial \/ EditChecker
  BY <1>3 DEF EditMaterial, EditChecker, OracleData, RunsHonest, ClosedOnce, Closes
<1>4. CASE UNCHANGED oracleVars
  BY <1>4 DEF oracleVars, OracleData, RunsHonest, ClosedOnce, Closes
<1> QED BY <1>1, <1>2, <1>3, <1>4, RecordRunKeeps, CloseKeeps DEF OracleStep

LEMMA OracleInvariance == Spec => []OracleInv
BY InitOracleInv, OracleInvStep, PTL DEF Spec

-----------------------------------------------------------------------------
(* For any materials, checkers and verdicts: a closure by oracle rests on a  *)
(* checker that tells its material from another, and a durable fix on a run  *)
(* elsewhere, unless something was edited while a run began.                 *)
THEOREM ClosuresEarned == Spec => []ClosureEarned
<1>1. ASSUME OracleInv PROVE ClosureEarned
  <2> USE <1>1 DEF OracleInv
  <2> SUFFICES ASSUME NEW i \in Closes, ~events[i].manual, ~raced
               PROVE  /\ Tells(events[i].digest, events[i].snapshot)
                      /\ durable => \E j \in i..Len(events) :
                           events[j].event = "oracle_run"
                           /\ events[j].snapshot # events[i].snapshot
    BY DEF ClosureEarned, Tells
  <2>1. Tells(events[i].digest, events[i].snapshot)
    BY DEF ClosedOnce
  <2>2. ASSUME durable
        PROVE  \E j \in i..Len(events) : events[j].event = "oracle_run"
                                         /\ events[j].snapshot # events[i].snapshot
    <3>1. PICK k \in Closes, j \in Runs("defect-absent") :
            k < j /\ events[j].snapshot # events[k].snapshot
      BY <2>2 DEF durable, Reobserved
    <3>2. k = i
      BY DEF ClosedOnce
    <3>3. j \in 1..Len(events) /\ i \in 1..Len(events) /\ events[j].event = "oracle_run"
      BY DEF Runs, Closes
    <3>4. j \in i..Len(events)
      BY <3>1, <3>2, <3>3 DEF OracleData
    <3> QED BY <3>1, <3>2, <3>3, <3>4
  <2> QED BY <2>1, <2>2
<1> QED BY <1>1, OracleInvariance, PTL

-----------------------------------------------------------------------------
(* Retention.  A log that nobody got at is where its last row says and as    *)
(* the row says, or a command under way has it in hand; what a receipt names *)
(* is nowhere.                                                               *)

Pruning   == job # None /\ job.verb = "prune"
Migrating == job # None /\ job.verb = "migrate"

Rowed  == {l \in Logs : RowsOf(l, "log") # {}}
Pruned == {l \in Logs : RowsOf(l, "pruned") # {}}

(* Gone, with the receipt not yet in the manifest; moved, and not yet recorded. *)
Going  == IF Pruning THEN {job.receipts[i].log : i \in DOMAIN job.receipts} ELSE {}
InHand == IF Migrating /\ job.moved # None THEN {job.moved.log} ELSE {}

PruneTask ==
  Pruning => /\ job.todo \subseteq DOMAIN manifest
             /\ \A i \in job.todo : manifest[i].kind = "log"
             /\ \A i \in DOMAIN job.receipts : job.receipts[i].kind = "pruned"

MigrateTask ==
  /\ InHand \subseteq Rowed
  /\ \A l \in InHand \ strayed : disk["root"][l] = job.moved.sha
  /\ Migrating => \A i \in DOMAIN job.todo :
       /\ job.todo[i].log \in Rowed
       /\ job.todo[i].log \in strayed \/ disk["tree"][job.todo[i].log] \in {None, job.todo[i].sha}

(* A log is in one place, and only an old one in the tree. *)
OneHome == \A l \in Logs : /\ disk["tree"][l] = None \/ disk["root"][l] = None
                           /\ l \notin Legacy => disk["tree"][l] = None

(* No log was put into a root that a session could reach. *)
RootApart == Migrating \/ (\E l \in Logs : disk["root"][l] # None) => Usable(log_root)

Nowhere(l) == \A p \in Places : disk[p][l] = None

GoneForGood == \A l \in Pruned \cup Going : l \in Rowed /\ Nowhere(l)

Held == \A l \in Rowed \ (Pruned \cup Going \cup InHand \cup strayed) :
          disk[LastRow(l).place][l] = LastRow(l).sha

RetentionInv == /\ RetentionTypeOK /\ PruneTask /\ MigrateTask /\ OneHome /\ RootApart
                /\ GoneForGood /\ Held

RetentionStep == \/ LogSession \/ BeginPrune \/ Unlink \/ EndPrune \/ BeginMigrate \/ Move
                 \/ RecordMoved \/ EndMigrate \/ KillJob \/ SessionTampers

LEMMA RetentionAtItsDesk == [Next]_vars => RetentionStep \/ UNCHANGED retentionVars
BY DEF Next, vars, AtPolicy, AtOracle, AtLogs, AtUpgrade, AtBacklog, AtMeter, RetentionStep

(* What Min and Max of positions of the manifest are. *)
LEMMA LeastOf ==
  ASSUME NEW S \in SUBSET Nat, S # {}
  PROVE  Min(S) \in S /\ \A m \in S : Min(S) <= m
<1> DEFINE R == {p \in Nat \X Nat : p[1] < p[2]}
<1>1. R = OpToRel(<, Nat)
  BY DEF OpToRel
<1>2. IsWellFoundedOn(R, Nat)
  BY <1>1, NatLessThanWellFounded
<1>3. \E x \in S : \A y \in S : ~ (<<y, x>> \in R)
  BY <1>2, WFMin
<1>4. \A x, y \in Nat : y < x => <<y, x>> \in R
  OBVIOUS
<1> HIDE DEF R
<1>5. PICK n \in S : \A y \in S : ~ (<<y, n>> \in R)
  BY <1>3
<1>6. ASSUME NEW m \in S PROVE n <= m
  <2>1. n \in Nat /\ m \in Nat
    OBVIOUS
  <2>2. ~ (m < n)
    BY <1>4, <1>5, <2>1
  <2> QED
    BY <2>1, <2>2
<1> QED
  BY <1>6 DEF Min

LEMMA GreatestOf ==
  ASSUME NEW n \in Nat, NEW S \in SUBSET (1..n), S # {}
  PROVE  Max(S) \in S /\ \A m \in S : m <= Max(S)
<1> DEFINE T == {n - m : m \in S}
<1>1. T \in SUBSET Nat /\ T # {}
  <2>1. \A m \in S : m \in 1..n /\ n - m \in Nat
    OBVIOUS
  <2> QED
    BY <2>1
<1>2. PICK t \in T : \A u \in T : t <= u
  BY <1>1, LeastOf
<1>3. PICK g \in S : t = n - g
  BY <1>2
<1>4. ASSUME NEW m \in S PROVE g >= m
  <2>1. n - m \in T
    OBVIOUS
  <2>2. n - g <= n - m
    BY <1>2, <1>3, <2>1
  <2>3. g \in 1..n /\ m \in 1..n
    OBVIOUS
  <2> QED
    BY <2>2, <2>3
<1>5. Max(S) \in S /\ \A m \in S : Max(S) >= m
  BY <1>4 DEF Max
<1> QED
  BY <1>5

LEMMA RowedRow ==
  ASSUME manifest \in Seq(Row), NEW l \in Rowed
  PROVE  /\ l \in Logs /\ LastRow(l) \in Row
         /\ LastRow(l).place \in Places /\ LastRow(l).sha \in Contents
<1>1. Len(manifest) \in Nat /\ RowsOf(l, "log") \in SUBSET (1..Len(manifest))
  BY DEF RowsOf
<1>2. RowsOf(l, "log") # {} /\ l \in Logs
  BY DEF Rowed
<1>3. Max(RowsOf(l, "log")) \in 1..Len(manifest)
  BY <1>1, <1>2, GreatestOf
<1>4. LastRow(l) \in Row
  BY <1>3 DEF LastRow
<1> QED
  BY <1>2, <1>4 DEF Row

(* What rows at the end of the manifest change of what it says. *)
LEMMA ManifestGrows ==
  ASSUME manifest \in Seq(Row), NEW rows \in Seq(Row), manifest' = manifest \o rows
  PROVE  /\ manifest' \in Seq(Row)
         /\ \A i \in DOMAIN manifest : i \in DOMAIN manifest' /\ manifest'[i] = manifest[i]
         /\ Pruned' = Pruned \cup {l \in Logs : \E i \in DOMAIN rows :
                                     rows[i].log = l /\ rows[i].kind = "pruned"}
         /\ Rowed' = Rowed \cup {l \in Logs : \E i \in DOMAIN rows :
                                     rows[i].log = l /\ rows[i].kind = "log"}
         /\ \A l \in Rowed' :
              \/ l \in Rowed /\ LastRow(l)' = LastRow(l)
                 /\ ~ \E i \in DOMAIN rows : rows[i].log = l /\ rows[i].kind = "log"
              \/ \E i \in DOMAIN rows :
                   rows[i].log = l /\ rows[i].kind = "log" /\ LastRow(l)' = rows[i]
<1> DEFINE n == Len(manifest)
           New(l, k) == {i \in DOMAIN rows : rows[i].log = l /\ rows[i].kind = k}
<1>1. n \in Nat /\ Len(rows) \in Nat /\ DOMAIN manifest = 1..n /\ DOMAIN rows = 1..Len(rows)
  OBVIOUS
<1>2. /\ manifest' \in Seq(Row) /\ DOMAIN manifest' = 1..(n + Len(rows))
      /\ \A i \in 1..n : manifest'[i] = manifest[i]
      /\ \A i \in 1..Len(rows) : manifest'[n + i] = rows[i]
  BY <1>1
<1>3. ASSUME NEW i \in DOMAIN manifest', i \notin DOMAIN manifest
      PROVE  \E j \in DOMAIN rows : i = n + j /\ manifest'[i] = rows[j]
  <2>1. i - n \in 1..Len(rows) /\ i = n + (i - n)
    BY <1>1, <1>2, <1>3
  <2> QED
    BY <1>1, <1>2, <2>1
<1>4. ASSUME NEW l, NEW k
      PROVE  /\ RowsOf(l, k) \subseteq RowsOf(l, k)'
             /\ \A j \in New(l, k) : n + j \in RowsOf(l, k)'
             /\ \A i \in RowsOf(l, k)' : i \in RowsOf(l, k) \/ \E j \in New(l, k) : i = n + j
  <2>1. \A j \in DOMAIN rows : n + j \in DOMAIN manifest' /\ manifest'[n + j] = rows[j]
    BY <1>1, <1>2
  <2>2. \A i \in DOMAIN manifest : i \in DOMAIN manifest' /\ manifest'[i] = manifest[i]
    BY <1>1, <1>2
  <2> QED
    BY <1>3, <2>1, <2>2 DEF RowsOf
<1>5. ASSUME NEW l, NEW k PROVE RowsOf(l, k)' # {} <=> RowsOf(l, k) # {} \/ New(l, k) # {}
  BY <1>4
<1>6. ASSUME NEW l \in Rowed'
      PROVE  \/ l \in Rowed /\ LastRow(l)' = LastRow(l) /\ New(l, "log") = {}
             \/ \E i \in New(l, "log") : LastRow(l)' = rows[i]
  <2> DEFINE S == RowsOf(l, "log")'
             g == Max(S)
  <2>1. S \in SUBSET (1..(n + Len(rows))) /\ S # {}
    BY <1>2 DEF RowsOf, Rowed
  <2>2. g \in S /\ \A m \in S : m <= g
    <3>1. n + Len(rows) \in Nat
      BY <1>1
    <3> HIDE DEF S
    <3> QED BY <2>1, <3>1, GreatestOf
  <2>3. LastRow(l)' = manifest'[g]
    BY DEF LastRow
  <2>4. CASE New(l, "log") = {}
    <3>1. S = RowsOf(l, "log")
      <4>1. /\ RowsOf(l, "log") \subseteq RowsOf(l, "log")'
            /\ \A i \in RowsOf(l, "log")' :
                  i \in RowsOf(l, "log") \/ \E j \in New(l, "log") : i = n + j
        BY <1>4
      <4> HIDE DEF New
      <4> QED BY <2>4, <4>1
    <3>2. l \in Rowed
      BY <2>1, <3>1 DEF Rowed
    <3>3. g \in 1..n
      BY <1>1, <2>2, <3>1 DEF RowsOf
    <3>4. LastRow(l) = manifest[g]
      BY <3>1 DEF LastRow
    <3> QED BY <1>2, <2>3, <2>4, <3>2, <3>3, <3>4
  <2>5. CASE New(l, "log") # {}
    <3>1. PICK j \in New(l, "log") : n + j \in S
      BY <1>4, <2>5
    <3>2. g \notin DOMAIN manifest
      <4>1. n + j <= g /\ j \in Nat /\ j > 0
        BY <1>1, <2>2, <3>1
      <4> QED BY <1>1, <4>1
    <3>3. PICK i \in DOMAIN rows : g = n + i /\ manifest'[g] = rows[i]
      BY <1>3, <2>2, <3>2 DEF RowsOf
    <3>4. i \in New(l, "log")
      BY <2>2, <3>3 DEF RowsOf
    <3> QED BY <2>3, <3>3, <3>4
  <2> QED BY <2>4, <2>5
<1>7. /\ Pruned' = Pruned \cup {l \in Logs : New(l, "pruned") # {}}
      /\ Rowed' = Rowed \cup {l \in Logs : New(l, "log") # {}}
  <2> HIDE DEF New
  <2> QED BY <1>5 DEF Rowed, Pruned
<1>8. \A l, k : New(l, k) # {} <=> \E i \in DOMAIN rows : rows[i].log = l /\ rows[i].kind = k
  OBVIOUS
<1>9. \A i \in DOMAIN manifest : i \in DOMAIN manifest' /\ manifest'[i] = manifest[i]
  BY <1>1, <1>2
<1>10. \A l \in Rowed' :
         \/ l \in Rowed /\ LastRow(l)' = LastRow(l)
            /\ ~ \E i \in DOMAIN rows : rows[i].log = l /\ rows[i].kind = "log"
         \/ \E i \in DOMAIN rows :
              rows[i].log = l /\ rows[i].kind = "log" /\ LastRow(l)' = rows[i]
  BY <1>6
<1>11. /\ {l \in Logs : New(l, "pruned") # {}}
           = {l \in Logs : \E i \in DOMAIN rows : rows[i].log = l /\ rows[i].kind = "pruned"}
       /\ {l \in Logs : New(l, "log") # {}}
           = {l \in Logs : \E i \in DOMAIN rows : rows[i].log = l /\ rows[i].kind = "log"}
  OBVIOUS
<1> QED
  BY <1>2, <1>7, <1>9, <1>10, <1>11

(* And what one more row of a log changes. *)
LEMMA OneMoreRow ==
  ASSUME manifest \in Seq(Row), NEW row \in Row, row.kind = "log",
         manifest' = Append(manifest, row)
  PROVE  /\ manifest' \in Seq(Row)
         /\ \A i \in DOMAIN manifest : i \in DOMAIN manifest' /\ manifest'[i] = manifest[i]
         /\ Pruned' = Pruned /\ Rowed' = Rowed \cup {row.log} /\ LastRow(row.log)' = row
         /\ \A l \in Rowed \ {row.log} : LastRow(l)' = LastRow(l)
<1> DEFINE rows == <<row>>
<1>1. rows \in Seq(Row) /\ DOMAIN rows = {1} /\ rows[1] = row /\ row.log \in Logs
  BY DEF Row
<1>2. manifest' = manifest \o rows
  BY <1>1
<1> HIDE DEF rows
<1>3. \A l \in Logs, kind \in {"log", "pruned"} :
        (\E i \in DOMAIN rows : rows[i].log = l /\ rows[i].kind = kind)
          <=> l = row.log /\ kind = "log"
  BY <1>1
<1>4. /\ manifest' \in Seq(Row)
      /\ \A i \in DOMAIN manifest : i \in DOMAIN manifest' /\ manifest'[i] = manifest[i]
      /\ Pruned' = Pruned \cup {l \in Logs : \E i \in DOMAIN rows :
                                  rows[i].log = l /\ rows[i].kind = "pruned"}
      /\ Rowed' = Rowed \cup {l \in Logs : \E i \in DOMAIN rows :
                                  rows[i].log = l /\ rows[i].kind = "log"}
      /\ \A l \in Rowed' :
           \/ l \in Rowed /\ LastRow(l)' = LastRow(l)
              /\ ~ \E i \in DOMAIN rows : rows[i].log = l /\ rows[i].kind = "log"
           \/ \E i \in DOMAIN rows :
                rows[i].log = l /\ rows[i].kind = "log" /\ LastRow(l)' = rows[i]
  BY <1>1, <1>2, ManifestGrows
<1>5. Pruned' = Pruned /\ Rowed' = Rowed \cup {row.log}
  BY <1>1, <1>3, <1>4
<1>6. \A l \in Rowed' : l # row.log => LastRow(l)' = LastRow(l)
  BY <1>1, <1>4
<1>7. LastRow(row.log)' = row
  <2>1. row.log \in Rowed' /\ \E i \in DOMAIN rows : rows[i].log = row.log /\ rows[i].kind = "log"
    BY <1>1, <1>5
  <2> QED
    BY <1>1, <1>4, <2>1
<1> QED
  BY <1>4, <1>5, <1>6, <1>7

LEMMA InitRetentionInv == Init => RetentionInv
<1> SUFFICES ASSUME RetentionInit PROVE RetentionInv
  BY DEF Init
<1> USE DEF RetentionInit
<1>1. RetentionTypeOK
  BY LogsAssumption DEF RetentionTypeOK, Contents, Places
<1>2. Rowed = {} /\ Pruned = {} /\ Going = {} /\ InHand = {} /\ ~Pruning /\ ~Migrating
  BY DEF Rowed, Pruned, Going, InHand, Pruning, Migrating, RowsOf
<1> QED
  BY <1>1, <1>2, LogsAssumption
     DEF RetentionInv, PruneTask, MigrateTask, OneHome, RootApart, GoneForGood, Held, Places

LEMMA LogSessionKeeps == RetentionInv /\ LogSession => RetentionInv'
<1> SUFFICES ASSUME RetentionInv, LogSession PROVE RetentionInv'
  OBVIOUS
<1> USE DEF RetentionInv
<1>1. PICK l \in Logs \ Legacy :
        /\ Usable(log_root) /\ find(l) = "unrecorded"
        /\ disk' = [disk EXCEPT !["root"][l] = "written"]
        /\ manifest' = Recorded(l, "root", "written")
  BY DEF LogSession
<1>2. UNCHANGED <<paths, job, strayed>>
  BY DEF LogSession
<1> DEFINE row == [kind |-> "log", log |-> l, place |-> "root", sha |-> "written"]
<1>3. row \in Row
  BY DEF Row, Places, Contents
<1>4. manifest \in Seq(Row) /\ manifest' = Append(manifest, row)
  BY <1>1 DEF Recorded, RetentionTypeOK
<1>6. l \notin Rowed
  BY <1>1 DEF find, Rowed
<1>7. /\ manifest' \in Seq(Row)
      /\ \A i \in DOMAIN manifest : i \in DOMAIN manifest' /\ manifest'[i] = manifest[i]
      /\ Pruned' = Pruned /\ Rowed' = Rowed \cup {l} /\ LastRow(l)' = row
      /\ \A k \in Rowed : LastRow(k)' = LastRow(k)
  <2>1. row.log = l /\ row.kind = "log"
    OBVIOUS
  <2> HIDE DEF row
  <2> QED BY <1>3, <1>4, <1>6, <2>1, OneMoreRow
<1>8. /\ disk' \in [Places -> [Logs -> Contents \cup {None}]]
      /\ disk'["root"][l] = "written" /\ disk'["tree"] = disk["tree"]
      /\ \A k \in Logs \ {l} : \A p \in Places : disk'[p][k] = disk[p][k]
  BY <1>1 DEF RetentionTypeOK, Places, Contents
<1>9. Going' = Going /\ InHand' = InHand /\ Pruning' = Pruning /\ Migrating' = Migrating
  BY <1>2 DEF Going, InHand, Pruning, Migrating
<1>10. RetentionTypeOK'
  BY <1>2, <1>7, <1>8 DEF RetentionTypeOK
<1>11. PruneTask'
  BY <1>2, <1>7, <1>9 DEF PruneTask
<1>12. MigrateTask'
  <2>1. \A k \in InHand : k # l /\ k \in Logs
    BY <1>6 DEF MigrateTask, Rowed
  <2>2. "root" \in Places /\ "tree" \in Places
    BY DEF Places
  <2> QED BY <1>2, <1>7, <1>8, <1>9, <2>1, <2>2 DEF MigrateTask
<1>13. OneHome'
  <2>1. disk["tree"][l] = None
    BY DEF OneHome
  <2> QED BY <1>8, <2>1 DEF OneHome, Places
<1>14. RootApart'
  BY <1>1, <1>2 DEF RootApart, Usable, log_root
<1>15. GoneForGood'
  <2>1. \A k \in Pruned \cup Going : k # l /\ k \in Logs
    BY <1>6 DEF GoneForGood, Rowed
  <2> QED BY <1>7, <1>8, <1>9, <2>1 DEF GoneForGood, Nowhere
<1>16. Held'
  <2>1. ASSUME NEW k \in Rowed' \ (Pruned \cup Going \cup InHand \cup strayed)
        PROVE  disk'[LastRow(k)'.place][k] = LastRow(k)'.sha
    <3>1. CASE k = l
      BY <1>7, <1>8, <3>1
    <3>2. CASE k # l
      <4>1. k \in Rowed /\ k \in Logs
        BY <1>7, <3>2 DEF Rowed
      <4>2. LastRow(k).place \in Places
          BY <1>4, <4>1, RowedRow
      <4> QED BY <1>7, <1>8, <3>2, <4>1, <4>2 DEF Held
    <3> QED BY <3>1, <3>2
  <2> QED BY <1>2, <1>7, <1>9, <2>1 DEF Held
<1> QED
  BY <1>10, <1>11, <1>12, <1>13, <1>14, <1>15, <1>16

LEMMA BeginPruneKeeps == RetentionInv /\ BeginPrune => RetentionInv'
<1> SUFFICES ASSUME RetentionInv, BeginPrune PROVE RetentionInv'
  OBVIOUS
<1> USE DEF RetentionInv
<1>1. PICK n \in 1..Len(manifest) :
        /\ job = None /\ job' = [verb |-> "prune", todo |-> prunable(n), receipts |-> <<>>]
  BY DEF BeginPrune
<1>2. UNCHANGED <<paths, disk, manifest, strayed>>
  BY DEF BeginPrune
<1>3. manifest \in Seq(Row) /\ n \in Nat /\ \A i \in 1..n : i \in DOMAIN manifest
  BY DEF RetentionTypeOK
<1>4. prunable(n) \in SUBSET Nat /\ prunable(n) \subseteq DOMAIN manifest
      /\ \A i \in prunable(n) : manifest[i].kind = "log"
  BY <1>3 DEF prunable
<1>5. job' \in Prunes
  BY <1>1, <1>4 DEF Prunes
<1>6. /\ Going' = Going /\ InHand' = InHand /\ ~Migrating' /\ Pruning'
      /\ Rowed' = Rowed /\ Pruned' = Pruned /\ \A l : LastRow(l)' = LastRow(l)
  BY <1>1, <1>2, <1>5, NothingAssumption
     DEF Going, InHand, Pruning, Migrating, Rowed, Pruned, RowsOf, LastRow
<1>7. RetentionTypeOK' /\ PruneTask'
  BY <1>1, <1>2, <1>4, <1>5, <1>6 DEF RetentionTypeOK, PruneTask
<1>8. MigrateTask' /\ OneHome' /\ RootApart' /\ GoneForGood' /\ Held'
  BY <1>1, <1>2, <1>6
     DEF InHand, Migrating, MigrateTask, OneHome, RootApart, log_root, GoneForGood, Nowhere, Held
<1> QED
  BY <1>7, <1>8

(* A prune removes the file of one row, or does not. *)
LEMMA UnlinkKeeps == RetentionInv /\ Unlink => RetentionInv'
<1> SUFFICES ASSUME RetentionInv, Unlink PROVE RetentionInv'
  OBVIOUS
<1> USE DEF RetentionInv
<1> DEFINE next == Min(job.todo)
           r    == manifest[next]
           x    == [r EXCEPT !.kind = "pruned"]
<1>1. \/ /\ disk[r.place][r.log] # None
         /\ disk' = [disk EXCEPT ![r.place][r.log] = None]
         /\ job' = [job EXCEPT !.todo = @ \ {next}, !.receipts = Append(job.receipts, x)]
      \/ /\ disk' = disk
         /\ job' = [job EXCEPT !.todo = @ \ {next}, !.receipts = job.receipts]
  <2>1. PICK gone \in {disk[r.place][r.log] # None, FALSE} :
          /\ disk' = IF gone THEN [disk EXCEPT ![r.place][r.log] = None] ELSE disk
          /\ job' = [job EXCEPT !.todo = @ \ {next}, !.receipts = Receipt(r, gone)]
    BY DEF Unlink
  <2>2. CASE gone = (disk[r.place][r.log] # None)
    BY <2>1, <2>2 DEF Receipt
  <2>3. CASE gone = FALSE
    BY <2>1, <2>3 DEF Receipt
  <2> QED BY <2>1, <2>2, <2>3
<1>2. /\ job # None /\ job.verb = "prune" /\ job.todo # {}
      /\ UNCHANGED <<paths, manifest, strayed>>
  BY DEF Unlink
<1>3. job \in Prunes /\ Pruning /\ ~Migrating
  BY <1>2 DEF RetentionTypeOK, Migrations, Pruning, Migrating
<1>4. next \in job.todo /\ next \in DOMAIN manifest /\ r \in Row /\ r.kind = "log"
  <2>1. job.todo \in SUBSET Nat
    BY <1>3 DEF Prunes
  <2>2. next \in job.todo
    BY <1>2, <2>1, LeastOf
  <2>3. next \in DOMAIN manifest /\ r.kind = "log"
    BY <1>3, <2>2 DEF PruneTask
  <2> QED BY <2>2, <2>3 DEF RetentionTypeOK
<1>5. r.log \in Logs /\ r.place \in Places /\ r.log \in Rowed
  <2>1. next \in RowsOf(r.log, "log")
    BY <1>4 DEF RowsOf
  <2> HIDE DEF next, r
  <2> QED BY <1>4, <2>1 DEF Row, Rowed
<1>6. job.receipts \in Seq(Row) /\ x \in Row /\ x.log = r.log /\ x.kind = "pruned"
  BY <1>3, <1>4 DEF Prunes, Row
<1> HIDE DEF next, r, x
<1>7. /\ Rowed' = Rowed /\ Pruned' = Pruned /\ \A l : LastRow(l)' = LastRow(l)
      /\ InHand = {}
  BY <1>2, <1>3 DEF Rowed, Pruned, RowsOf, LastRow, InHand
<1>8. ASSUME NEW now \in Seq(Row), job' = [job EXCEPT !.todo = @ \ {next}, !.receipts = now]
      PROVE  /\ job' \in Prunes /\ job'.todo = job.todo \ {next} /\ job'.receipts = now
             /\ Pruning' /\ ~Migrating' /\ InHand' = {}
             /\ RetentionTypeOK' <=> disk' \in [Places -> [Logs -> Contents \cup {None}]]
             /\ MigrateTask'
  <2>1. job' \in Prunes /\ job'.todo = job.todo \ {next} /\ job'.receipts = now
    BY <1>3, <1>8 DEF Prunes
  <2>2. Pruning' /\ ~Migrating' /\ InHand' = {}
    BY <2>1, NothingAssumption DEF Pruning, Migrating, InHand, Prunes
  <2> QED BY <1>2, <2>1, <2>2 DEF RetentionTypeOK, MigrateTask
<1>9. CASE /\ disk' = disk
           /\ job' = [job EXCEPT !.todo = @ \ {next}, !.receipts = job.receipts]
  <2>1. /\ job' \in Prunes /\ job'.todo = job.todo \ {next} /\ job'.receipts = job.receipts
        /\ Pruning' /\ ~Migrating' /\ InHand' = {} /\ RetentionTypeOK' /\ MigrateTask'
    BY <1>6, <1>8, <1>9 DEF RetentionTypeOK
  <2>2. Going' = Going
    BY <1>3, <2>1 DEF Going
  <2>3. PruneTask'
    BY <1>2, <1>3, <2>1 DEF PruneTask
  <2> QED BY <1>2, <1>7, <1>9, <2>1, <2>2, <2>3
          DEF OneHome, RootApart, log_root, GoneForGood, Nowhere, Held
<1>10. CASE /\ disk[r.place][r.log] # None
            /\ disk' = [disk EXCEPT ![r.place][r.log] = None]
            /\ job' = [job EXCEPT !.todo = @ \ {next}, !.receipts = Append(job.receipts, x)]
  <2> DEFINE now == Append(job.receipts, x)
             n   == Len(job.receipts)
  <2>1. /\ now \in Seq(Row) /\ n \in Nat /\ DOMAIN now = 1..(n + 1)
        /\ DOMAIN job.receipts = 1..n /\ now[n + 1] = x
        /\ \A i \in 1..n : now[i] = job.receipts[i]
    BY <1>6
  <2> HIDE DEF now
  <2>2. /\ job' \in Prunes /\ job'.todo = job.todo \ {next} /\ job'.receipts = now
        /\ Pruning' /\ ~Migrating' /\ InHand' = {} /\ MigrateTask'
        /\ RetentionTypeOK' <=> disk' \in [Places -> [Logs -> Contents \cup {None}]]
    BY <1>8, <1>10, <2>1 DEF now
  <2>3. \A i \in DOMAIN now : \/ i \in DOMAIN job.receipts /\ now[i] = job.receipts[i]
                             \/ now[i] = x
    BY <2>1
  <2>4. /\ \A i \in DOMAIN job.receipts : i \in DOMAIN now /\ now[i] = job.receipts[i]
        /\ \E i \in DOMAIN now : now[i] = x
    BY <2>1
  <2>5. Going' = Going \cup {r.log}
    BY <1>3, <1>6, <2>2, <2>3, <2>4 DEF Going
  <2>6. /\ disk' \in [Places -> [Logs -> Contents \cup {None}]]
        /\ disk'[r.place][r.log] = None
        /\ \A p \in Places, l \in Logs : p # r.place \/ l # r.log => disk'[p][l] = disk[p][l]
    BY <1>5, <1>10 DEF RetentionTypeOK
  <2>7. PruneTask'
    BY <1>2, <1>3, <1>6, <2>2, <2>3 DEF PruneTask
  <2>8. \A p \in Places, l \in Logs : disk[p][l] = None => disk'[p][l] = None
    BY <2>6
  <2>9. OneHome' /\ RootApart'
    BY <1>2, <2>2, <2>8 DEF OneHome, RootApart, log_root, Places
  <2>10. ASSUME NEW p \in Places PROVE disk'[p][r.log] = None
    <3>1. p # r.place => disk[p][r.log] = None
      BY <1>5, <1>10 DEF OneHome, Places
    <3> QED BY <1>5, <2>6, <3>1
  <2>11. GoneForGood'
    <3>1. \A l \in Pruned \cup Going : l \in Rowed /\ \A p \in Places : disk'[p][l] = None
      BY <2>8 DEF GoneForGood, Nowhere, Rowed
    <3> QED BY <1>5, <1>7, <2>5, <2>10, <3>1 DEF GoneForGood, Nowhere
  <2>12. Held'
    <3>1. ASSUME NEW l \in Rowed \ (Pruned \cup Going' \cup strayed)
          PROVE  disk'[LastRow(l).place][l] = LastRow(l).sha
      <4>1. l \in Logs /\ LastRow(l).place \in Places
        BY RowedRow DEF RetentionTypeOK
      <4>2. disk[LastRow(l).place][l] = LastRow(l).sha /\ l # r.log
        BY <1>7, <2>5 DEF Held
      <4> QED BY <2>6, <4>1, <4>2
    <3> QED BY <1>2, <1>7, <2>2, <3>1 DEF Held
  <2> QED BY <2>2, <2>6, <2>7, <2>9, <2>11, <2>12
<1> QED
  BY <1>1, <1>9, <1>10

(* Receipts that are written make what was on its way to be gone pruned. *)
LEMMA ReceiptsWritten ==
  ASSUME RetentionInv, Pruning, NEW n \in 0..Len(job.receipts),
         manifest' = manifest \o SubSeq(job.receipts, 1, n), job' = None,
         strayed' = strayed \cup {job.receipts[i].log : i \in (n + 1)..Len(job.receipts)},
         UNCHANGED <<paths, disk>>
  PROVE  RetentionInv'
<1> USE DEF RetentionInv
<1> DEFINE rows == SubSeq(job.receipts, 1, n)
<1>1. job \in Prunes /\ job.receipts \in Seq(Row) /\ manifest \in Seq(Row)
  BY DEF Pruning, RetentionTypeOK, Migrations, Prunes
<1>2. /\ rows \in Seq(Row) /\ DOMAIN rows = 1..n /\ DOMAIN job.receipts = 1..Len(job.receipts)
      /\ \A i \in 1..n : rows[i] = job.receipts[i] /\ i \in DOMAIN job.receipts
      /\ \A i \in DOMAIN job.receipts : i \in 1..n \/ i \in (n + 1)..Len(job.receipts)
      /\ \A i \in (n + 1)..Len(job.receipts) : i \in DOMAIN job.receipts
  BY <1>1
<1> HIDE DEF rows
<1>3. /\ \A i \in DOMAIN rows : rows[i].kind = "pruned"
      /\ \A i \in DOMAIN job.receipts : job.receipts[i] \in Row /\ job.receipts[i].log \in Logs
  <2>1. \A i \in DOMAIN job.receipts : job.receipts[i].kind = "pruned"
    BY DEF PruneTask
  <2>2. \A i \in DOMAIN job.receipts : job.receipts[i] \in Row
    BY <1>1
  <2>3. \A row \in Row : row.log \in Logs
    BY DEF Row
  <2> QED BY <1>2, <2>1, <2>2, <2>3
<1>4. /\ manifest' \in Seq(Row)
      /\ Pruned' = Pruned \cup {l \in Logs : \E i \in DOMAIN rows :
                                  rows[i].log = l /\ rows[i].kind = "pruned"}
      /\ Rowed' = Rowed \cup {l \in Logs : \E i \in DOMAIN rows :
                                  rows[i].log = l /\ rows[i].kind = "log"}
      /\ \A l \in Rowed' :
           \/ l \in Rowed /\ LastRow(l)' = LastRow(l)
              /\ ~ \E i \in DOMAIN rows : rows[i].log = l /\ rows[i].kind = "log"
           \/ \E i \in DOMAIN rows :
                rows[i].log = l /\ rows[i].kind = "log" /\ LastRow(l)' = rows[i]
  <2>1. manifest' = manifest \o rows
    BY DEF rows
  <2> QED BY <1>1, <1>2, <2>1, ManifestGrows
<1>5. Rowed' = Rowed /\ \A l \in Rowed : LastRow(l)' = LastRow(l)
  BY <1>3, <1>4
<1>6. /\ Pruned' = Pruned \cup {job.receipts[i].log : i \in 1..n}
      /\ Going = {job.receipts[i].log : i \in DOMAIN job.receipts}
  <2>1. Going = {job.receipts[i].log : i \in DOMAIN job.receipts}
    BY DEF Going
  <2>2. ASSUME NEW l \in Logs
        PROVE  (\E i \in DOMAIN rows : rows[i].log = l /\ rows[i].kind = "pruned")
                 <=> \E i \in 1..n : job.receipts[i].log = l
    BY <1>2, <1>3
  <2>3. \A i \in 1..n : job.receipts[i].log \in Logs
    BY <1>2, <1>3
  <2>4. {l \in Logs : \E i \in DOMAIN rows : rows[i].log = l /\ rows[i].kind = "pruned"}
          = {l \in Logs : \E i \in 1..n : job.receipts[i].log = l}
    BY <2>2
  <2>5. {l \in Logs : \E i \in 1..n : job.receipts[i].log = l}
          = {job.receipts[i].log : i \in 1..n}
    BY <2>3
  <2>6. Pruned' = Pruned \cup {l \in Logs : \E i \in DOMAIN rows :
                                 rows[i].log = l /\ rows[i].kind = "pruned"}
    BY <1>4
  <2>7. Pruned' = Pruned \cup {job.receipts[i].log : i \in 1..n}
    BY <2>4, <2>5, <2>6
  <2> QED BY <2>1, <2>7
<1>7. ~Pruning' /\ ~Migrating' /\ Going' = {} /\ InHand' = {} /\ ~Migrating /\ InHand = {}
  BY DEF Pruning, Migrating, Going, InHand
<1>8. Pruned' \subseteq Pruned \cup Going /\ Pruned \cup Going \subseteq Pruned' \cup strayed'
  BY <1>2, <1>6
<1>9. RetentionTypeOK'
  BY <1>2, <1>3, <1>4 DEF RetentionTypeOK
<1>10. PruneTask' /\ MigrateTask' /\ OneHome' /\ RootApart'
  BY <1>7 DEF PruneTask, MigrateTask, OneHome, RootApart, log_root
<1>11. GoneForGood' /\ Held'
  BY <1>5, <1>7, <1>8 DEF GoneForGood, Nowhere, Held
<1> QED
  BY <1>9, <1>10, <1>11

LEMMA EndPruneKeeps == RetentionInv /\ EndPrune => RetentionInv'
<1> SUFFICES ASSUME RetentionInv, EndPrune PROVE RetentionInv'
  OBVIOUS
<1>1. /\ Pruning /\ manifest' = manifest \o job.receipts /\ job' = None
      /\ UNCHANGED <<paths, disk, strayed>>
  BY DEF EndPrune, Pruning
<1>2. job.receipts \in Seq(Row)
  BY <1>1 DEF Pruning, RetentionInv, RetentionTypeOK, Migrations, Prunes
<1> DEFINE n == Len(job.receipts)
<1>3. /\ n \in 0..Len(job.receipts) /\ SubSeq(job.receipts, 1, n) = job.receipts
      /\ {job.receipts[i].log : i \in (n + 1)..Len(job.receipts)} = {}
  <2>1. n \in Nat /\ (n + 1)..n = {}
    BY <1>2
  <2>2. SubSeq(job.receipts, 1, n) = job.receipts
    BY <1>2, <2>1
  <2> QED BY <2>1, <2>2
<1> QED
  BY <1>1, <1>3, ReceiptsWritten

(* migrate_logs writes a row of the tree for each file it is about to move. *)
LEMMA BeginMigrateKeeps == RetentionInv /\ BeginMigrate => RetentionInv'
<1> SUFFICES ASSUME RetentionInv, BeginMigrate PROVE RetentionInv'
  OBVIOUS
<1> USE DEF RetentionInv
<1> DEFINE Tree(f) == [i \in DOMAIN f |-> [kind |-> "log", log |-> f[i], place |-> "tree",
                                           sha |-> disk["tree"][f[i]]]]
<1>1. PICK f \in SetToSeqs(InTree) :
        /\ job = None /\ Usable(log_root) /\ manifest' = manifest \o Tree(f)
        /\ \/ job' = [verb |-> "migrate", todo |-> Tree(f), moved |-> None]
           \/ job' = None
  BY DEF BeginMigrate
<1>2. UNCHANGED <<paths, disk, strayed>>
  BY DEF BeginMigrate
<1> DEFINE rows == Tree(f)
<1>3. \E m \in Nat : DOMAIN f = 1..m /\ \A i \in 1..m : f[i] \in InTree
  <2>1. IsFiniteSet(InTree)
    BY LogsAssumption, FS_Subset DEF InTree
  <2>2. Cardinality(InTree) \in Nat
    BY <2>1, FS_CardinalityType
  <2> QED BY <2>2 DEF SetToSeqs
<1>4. \A l \in InTree : l \in Logs /\ disk["tree"][l] \in Contents
  BY DEF InTree, RetentionTypeOK, Places
<1>5. /\ rows \in Seq(Row)
      /\ \A i \in DOMAIN rows :
           /\ rows[i].kind = "log" /\ rows[i].place = "tree" /\ rows[i].log \in InTree
           /\ rows[i].sha = disk["tree"][rows[i].log]
  <2>1. PICK m \in Nat : DOMAIN f = 1..m /\ \A i \in 1..m : f[i] \in InTree
    BY <1>3
  <2>2. \A i \in 1..m : rows[i] = [kind |-> "log", log |-> f[i], place |-> "tree",
                                   sha |-> disk["tree"][f[i]]]
    BY <2>1
  <2>3. DOMAIN rows = 1..m
    BY <2>1
  <2>4. \A i \in 1..m : rows[i] \in Row
    BY <1>4, <2>1, <2>2 DEF Row, Places
  <2>5. rows \in [1..m -> Row]
    BY <2>1, <2>4
  <2> QED BY <2>1, <2>2, <2>3, <2>5
<1> HIDE DEF Tree
<1>6. manifest \in Seq(Row) /\ manifest' = manifest \o rows
  BY <1>1 DEF RetentionTypeOK
<1>7. /\ manifest' \in Seq(Row)
      /\ Pruned' = Pruned \cup {l \in Logs : \E i \in DOMAIN rows :
                                  rows[i].log = l /\ rows[i].kind = "pruned"}
      /\ Rowed' = Rowed \cup {l \in Logs : \E i \in DOMAIN rows :
                                  rows[i].log = l /\ rows[i].kind = "log"}
      /\ \A l \in Rowed' :
           \/ l \in Rowed /\ LastRow(l)' = LastRow(l)
              /\ ~ \E i \in DOMAIN rows : rows[i].log = l /\ rows[i].kind = "log"
           \/ \E i \in DOMAIN rows :
                rows[i].log = l /\ rows[i].kind = "log" /\ LastRow(l)' = rows[i]
  BY <1>5, <1>6, ManifestGrows
<1>8. /\ Pruned' = Pruned /\ Rowed \subseteq Rowed'
      /\ \A i \in DOMAIN rows : rows[i].log \in Rowed'
      /\ \A l \in Rowed' : \/ l \in Rowed /\ LastRow(l)' = LastRow(l)
                           \/ LastRow(l)'.place = "tree" /\ LastRow(l)'.sha = disk["tree"][l]
  <2>1. \A i \in DOMAIN rows : rows[i].kind = "log" /\ rows[i].log \in Logs
    BY <1>4, <1>5
  <2>2. Pruned' = Pruned
    BY <1>7, <2>1
  <2>3. Rowed \subseteq Rowed' /\ \A i \in DOMAIN rows : rows[i].log \in Rowed'
    BY <1>7, <2>1
  <2>4. ASSUME NEW l \in Rowed'
        PROVE  \/ l \in Rowed /\ LastRow(l)' = LastRow(l)
               \/ LastRow(l)'.place = "tree" /\ LastRow(l)'.sha = disk["tree"][l]
    <3>1. \/ l \in Rowed /\ LastRow(l)' = LastRow(l)
          \/ \E i \in DOMAIN rows : rows[i].log = l /\ LastRow(l)' = rows[i]
      BY <1>7
    <3> QED BY <1>5, <3>1
  <2>5. \A l \in Rowed' : \/ l \in Rowed /\ LastRow(l)' = LastRow(l)
                          \/ LastRow(l)'.place = "tree" /\ LastRow(l)'.sha = disk["tree"][l]
    BY <2>4
  <2> QED BY <2>2, <2>3, <2>5
<1>9. job' \in Migrations \cup {None} /\ (job' # None => job'.todo = rows /\ job'.moved = None)
  BY <1>1, <1>5 DEF Migrations
<1>10. ~Pruning /\ ~Pruning' /\ Going = {} /\ Going' = {} /\ InHand = {} /\ InHand' = {}
  BY <1>1, <1>9 DEF Pruning, Going, InHand, Migrating, Migrations
<1>11. RetentionTypeOK'
  BY <1>2, <1>7, <1>9 DEF RetentionTypeOK
<1>12. MigrateTask'
  BY <1>2, <1>5, <1>8, <1>9, <1>10 DEF MigrateTask, Migrating
<1>13. PruneTask' /\ OneHome' /\ RootApart'
  BY <1>1, <1>2, <1>10 DEF PruneTask, OneHome, RootApart, Usable, log_root
<1>14. GoneForGood' /\ Held'
  BY <1>2, <1>8, <1>10 DEF GoneForGood, Nowhere, Held
<1> QED
  BY <1>11, <1>12, <1>13, <1>14

LEMMA MoveLogKeeps == RetentionInv /\ Move => RetentionInv'
<1> SUFFICES ASSUME RetentionInv, Move PROVE RetentionInv'
  OBVIOUS
<1> USE DEF RetentionInv
<1> DEFINE r == Head(job.todo)
           l == r.log
<1>1. /\ Migrating /\ job.moved = None /\ job.todo # <<>>
      /\ UNCHANGED <<paths, manifest, strayed>>
      /\ \/ /\ disk["tree"][l] # None
            /\ disk' = [disk EXCEPT !["root"][l] = disk["tree"][l], !["tree"][l] = None]
            /\ job' = [job EXCEPT !.todo = Tail(@), !.moved = r]
         \/ job' = [job EXCEPT !.todo = Tail(@)] /\ UNCHANGED disk
  BY DEF Move, Migrating
<1>2. job \in Migrations /\ job.todo \in Seq(Row)
  BY <1>1 DEF Migrating, RetentionTypeOK, Prunes, Migrations
<1>3. /\ 1 \in DOMAIN job.todo /\ r = job.todo[1] /\ r \in Row /\ Tail(job.todo) \in Seq(Row)
      /\ \A i \in DOMAIN Tail(job.todo) : i + 1 \in DOMAIN job.todo
                                          /\ Tail(job.todo)[i] = job.todo[i + 1]
  BY <1>1, <1>2
<1>4. l \in Logs /\ l \in Rowed /\ (l \in strayed \/ disk["tree"][l] \in {None, r.sha})
  BY <1>1, <1>3 DEF MigrateTask, Row
<1> HIDE DEF r
<1>5. ASSUME NEW m \in Row \cup {None}, job' = [job EXCEPT !.todo = Tail(@), !.moved = m]
      PROVE  /\ job' \in Migrations /\ job'.todo = Tail(job.todo) /\ job'.moved = m
             /\ Migrating' /\ ~Pruning' /\ Going' = {}
             /\ InHand' = IF m = None THEN {} ELSE {m.log}
  <2>1. job' \in Migrations /\ job'.todo = Tail(job.todo) /\ job'.moved = m
    BY <1>2, <1>3, <1>5 DEF Migrations
  <2>2. Migrating' /\ ~Pruning'
    BY <2>1, NothingAssumption DEF Migrating, Pruning, Migrations
  <2> QED BY <2>1, <2>2 DEF Going, InHand
<1>6. ~Pruning /\ Going = {} /\ InHand = {}
  BY <1>1, <1>2 DEF Pruning, Going, InHand, Migrations
<1>7. Rowed' = Rowed /\ Pruned' = Pruned /\ \A k : LastRow(k)' = LastRow(k)
  BY <1>1 DEF Rowed, Pruned, RowsOf, LastRow
<1>8. CASE job' = [job EXCEPT !.todo = Tail(@)] /\ UNCHANGED disk
  <2>1. job' = [job EXCEPT !.todo = Tail(@), !.moved = None]
    BY <1>1, <1>2, <1>8 DEF Migrations
  <2>2. /\ job' \in Migrations /\ job'.todo = Tail(job.todo) /\ Migrating' /\ ~Pruning'
        /\ Going' = {} /\ InHand' = {}
    BY <1>5, <2>1
  <2>3. MigrateTask'
    BY <1>1, <1>3, <1>7, <1>8, <2>2 DEF MigrateTask
  <2> QED BY <1>1, <1>6, <1>7, <1>8, <2>2, <2>3
          DEF RetentionTypeOK, PruneTask, OneHome, RootApart, log_root, GoneForGood, Nowhere, Held
<1>9. CASE /\ disk["tree"][l] # None
           /\ disk' = [disk EXCEPT !["root"][l] = disk["tree"][l], !["tree"][l] = None]
           /\ job' = [job EXCEPT !.todo = Tail(@), !.moved = r]
  <2>1. /\ job' \in Migrations /\ job'.todo = Tail(job.todo) /\ job'.moved = r
        /\ Migrating' /\ ~Pruning' /\ Going' = {} /\ InHand' = {l}
    <3>1. r # None
      BY <1>3, NothingAssumption
    <3> QED BY <1>3, <1>5, <1>9, <3>1
  <2>2. /\ disk' \in [Places -> [Logs -> Contents \cup {None}]]
        /\ disk'["tree"][l] = None /\ disk'["root"][l] = disk["tree"][l]
        /\ \A p \in Places, k \in Logs : k # l => disk'[p][k] = disk[p][k]
    BY <1>4, <1>9 DEF RetentionTypeOK, Places
  <2>3. RetentionTypeOK' /\ PruneTask'
    BY <1>1, <2>1, <2>2 DEF RetentionTypeOK, PruneTask
  <2>4. MigrateTask'
    <3>1. l \notin strayed => disk'["root"][l] = r.sha
      BY <1>4, <1>9, <2>2
    <3>2. ASSUME NEW i \in DOMAIN Tail(job.todo)
          PROVE  /\ Tail(job.todo)[i].log \in Rowed
                 /\ \/ Tail(job.todo)[i].log \in strayed
                    \/ disk'["tree"][Tail(job.todo)[i].log] \in {None, Tail(job.todo)[i].sha}
      <4> DEFINE t == Tail(job.todo)[i]
      <4>1. t.log \in Rowed /\ (t.log \in strayed \/ disk["tree"][t.log] \in {None, t.sha})
        BY <1>1, <1>3 DEF MigrateTask
      <4>2. t.log \in Logs /\ "tree" \in Places
        BY <4>1 DEF Rowed, Places
      <4> HIDE DEF t
      <4>3. t.log \in strayed \/ disk'["tree"][t.log] \in {None, t.sha}
        BY <2>2, <4>1, <4>2
      <4> QED BY <4>1, <4>3 DEF t
    <3> QED BY <1>1, <1>4, <1>7, <2>1, <3>1, <3>2 DEF MigrateTask
  <2>5. OneHome'
    BY <1>9, <2>2 DEF OneHome, Places
  <2>6. RootApart'
    BY <1>1, <2>1 DEF RootApart, Usable, log_root
  <2>7. GoneForGood'
    <3>1. \A k \in Pruned : k # l /\ k \in Logs
      BY <1>9 DEF GoneForGood, Nowhere, Places, Pruned
    <3> QED BY <1>6, <1>7, <2>1, <2>2, <3>1 DEF GoneForGood, Nowhere
  <2>8. Held'
    <3>1. ASSUME NEW k \in Rowed \ (Pruned \cup {l} \cup strayed)
          PROVE  disk'[LastRow(k).place][k] = LastRow(k).sha
      <4>1. k \in Logs /\ LastRow(k).place \in Places
        BY RowedRow DEF RetentionTypeOK
      <4> QED BY <1>6, <2>2, <3>1, <4>1 DEF Held
    <3> QED BY <1>1, <1>7, <2>1, <3>1 DEF Held
  <2> QED BY <2>3, <2>4, <2>5, <2>6, <2>7, <2>8
<1> QED
  BY <1>1, <1>8, <1>9

LEMMA RecordMovedKeeps == RetentionInv /\ RecordMoved => RetentionInv'
<1> SUFFICES ASSUME RetentionInv, RecordMoved PROVE RetentionInv'
  OBVIOUS
<1> USE DEF RetentionInv
<1>0. PICK m, l : m = job.moved /\ l = m.log
  OBVIOUS
<1> DEFINE row == [kind |-> "log", log |-> l, place |-> "root", sha |-> m.sha]
<1>1. /\ Migrating /\ m # None /\ manifest' = Append(manifest, row)
      /\ job' = [job EXCEPT !.moved = None] /\ UNCHANGED <<paths, disk, strayed>>
  BY <1>0 DEF RecordMoved, Migrating, Landed, Recorded
<1>2. job \in Migrations /\ m \in Row
  BY <1>0, <1>1 DEF Migrating, RetentionTypeOK, Prunes, Migrations
<1>3. row \in Row /\ l \in Logs
  BY <1>0, <1>2 DEF Row, Places
<1>4. /\ job' \in Migrations /\ job'.todo = job.todo /\ job'.moved = None
      /\ Migrating' /\ ~Pruning /\ ~Pruning' /\ Going = {} /\ Going' = {}
      /\ InHand = {l} /\ InHand' = {}
  <2>1. job' \in Migrations /\ job'.todo = job.todo /\ job'.moved = None
    BY <1>1, <1>2 DEF Migrations
  <2>2. Migrating' /\ ~Pruning' /\ ~Pruning
    BY <1>2, <2>1, NothingAssumption DEF Migrating, Pruning, Migrations
  <2> QED BY <1>0, <1>1, <2>1, <2>2 DEF Going, InHand
<1>5. l \in Rowed /\ (l \notin strayed => disk["root"][l] = m.sha)
  BY <1>0, <1>4 DEF MigrateTask
<1>6. /\ manifest' \in Seq(Row) /\ Pruned' = Pruned /\ Rowed' = Rowed /\ LastRow(l)' = row
      /\ \A k \in Rowed \ {l} : LastRow(k)' = LastRow(k)
  <2>1. manifest \in Seq(Row) /\ row.kind = "log" /\ row.log = l
    BY DEF RetentionTypeOK
  <2> HIDE DEF row
  <2> QED BY <1>1, <1>3, <1>5, <2>1, OneMoreRow
<1>7. RetentionTypeOK' /\ PruneTask' /\ OneHome' /\ RootApart'
  BY <1>1, <1>4, <1>6 DEF RetentionTypeOK, PruneTask, OneHome, RootApart, log_root
<1>8. MigrateTask'
  BY <1>1, <1>4, <1>6 DEF MigrateTask
<1>9. GoneForGood'
  BY <1>1, <1>4, <1>6 DEF GoneForGood, Nowhere
<1>10. Held'
  <2>1. ASSUME NEW k \in Rowed \ (Pruned \cup strayed)
        PROVE  disk[LastRow(k)'.place][k] = LastRow(k)'.sha
    <3>1. CASE k = l
      BY <1>5, <1>6, <2>1, <3>1
    <3>2. CASE k # l
      BY <1>4, <1>6, <2>1, <3>2 DEF Held
    <3> QED BY <3>1, <3>2
  <2> QED BY <1>1, <1>4, <1>6, <2>1 DEF Held
<1> QED
  BY <1>7, <1>8, <1>9, <1>10

(* A migration that is over or killed has a log in hand only if it strays. *)
LEMMA MigrationOver ==
  ASSUME RetentionInv, Migrating, job' = None, strayed' \in SUBSET Logs,
         strayed \cup InHand \subseteq strayed', UNCHANGED <<paths, disk, manifest>>
  PROVE  RetentionInv'
<1> USE DEF RetentionInv
<1>1. ~Pruning /\ ~Pruning' /\ ~Migrating' /\ Going = {} /\ Going' = {} /\ InHand' = {}
  <2>1. job.verb # "prune"
    BY DEF Migrating
  <2> QED BY <2>1 DEF Pruning, Migrating, Going, InHand
<1>2. Rowed' = Rowed /\ Pruned' = Pruned /\ \A k : LastRow(k)' = LastRow(k)
  BY DEF Rowed, Pruned, RowsOf, LastRow
<1>3. RetentionTypeOK'
  BY DEF RetentionTypeOK
<1>4. PruneTask' /\ MigrateTask' /\ OneHome' /\ RootApart'
  BY <1>1 DEF PruneTask, MigrateTask, OneHome, RootApart, log_root
<1>5. GoneForGood' /\ Held'
  BY <1>1, <1>2 DEF GoneForGood, Nowhere, Held
<1> QED
  BY <1>3, <1>4, <1>5

LEMMA EndMigrateKeeps == RetentionInv /\ EndMigrate => RetentionInv'
<1> SUFFICES ASSUME RetentionInv, EndMigrate PROVE RetentionInv'
  OBVIOUS
<1>1. /\ Migrating /\ InHand = {} /\ job' = None
      /\ UNCHANGED <<paths, disk, manifest, strayed>>
  BY DEF EndMigrate, Migrating, InHand
<1>2. strayed' \in SUBSET Logs
  BY <1>1 DEF RetentionInv, RetentionTypeOK
<1> QED
  BY <1>1, <1>2, MigrationOver

LEMMA KillJobKeeps == RetentionInv /\ KillJob => RetentionInv'
<1> SUFFICES ASSUME RetentionInv, KillJob PROVE RetentionInv'
  OBVIOUS
<1>1. job # None /\ job' = None /\ UNCHANGED <<paths, disk>>
  BY DEF KillJob
<1>2. job \in Prunes \/ job \in Migrations
  BY <1>1 DEF RetentionInv, RetentionTypeOK
<1>3. CASE job \in Prunes
  <2>1. Pruning
    BY <1>1, <1>3 DEF Pruning, Prunes
  <2>2. PICK n \in 0..Len(job.receipts) :
          /\ manifest' = manifest \o SubSeq(job.receipts, 1, n)
          /\ strayed' = strayed \cup {job.receipts[i].log : i \in (n + 1)..Len(job.receipts)}
    BY <2>1 DEF KillJob, Pruning
  <2> QED BY <1>1, <2>1, <2>2, ReceiptsWritten
<1>4. CASE job \in Migrations
  <2>1. Migrating /\ job.verb # "prune"
    BY <1>1, <1>4 DEF Migrating, Migrations
  <2>2. strayed' = strayed \cup InHand /\ UNCHANGED manifest
    BY <2>1 DEF KillJob, InHand
  <2>3. strayed' \in SUBSET Logs
    <3>1. InHand \subseteq Logs
      BY DEF RetentionInv, MigrateTask, Rowed
    <3> QED BY <2>2, <3>1 DEF RetentionInv, RetentionTypeOK
  <2> QED BY <1>1, <2>1, <2>2, <2>3, MigrationOver
<1> QED
  BY <1>2, <1>3, <1>4

LEMMA SessionTampersKeeps == RetentionInv /\ SessionTampers => RetentionInv'
<1> SUFFICES ASSUME RetentionInv, SessionTampers PROVE RetentionInv'
  OBVIOUS
<1> USE DEF RetentionInv
<1>1. PICK place \in Exposed, l \in Logs, c \in {"altered", None} :
        /\ disk[place][l] \notin {None, c}
        /\ disk' = [disk EXCEPT ![place][l] = c]
        /\ strayed' = IF place = "tree" THEN strayed \cup {l} ELSE strayed
  BY DEF SessionTampers
<1>2. UNCHANGED <<paths, manifest, job>>
  BY DEF SessionTampers
<1>3. place = "tree"
  <2>1. SUFFICES ASSUME place # "tree" PROVE FALSE
    OBVIOUS
  <2>2. place = "root" /\ log_root \in {"inside", "worktree"}
    BY <2>1 DEF Exposed
  <2>3. Usable(log_root)
    BY <1>1, <2>2 DEF RootApart
  <2> QED BY <2>2, <2>3 DEF Usable
<1>4. disk' = [disk EXCEPT !["tree"][l] = c] /\ strayed' = strayed \cup {l}
      /\ disk["tree"][l] # None
  BY <1>1, <1>3
<1>5. /\ disk' \in [Places -> [Logs -> Contents \cup {None}]] /\ disk'["root"] = disk["root"]
      /\ \A p \in Places, k \in Logs : k # l => disk'[p][k] = disk[p][k]
  BY <1>4 DEF RetentionTypeOK, Places, Contents
<1>6. /\ Rowed' = Rowed /\ Pruned' = Pruned /\ \A k : LastRow(k)' = LastRow(k)
      /\ Pruning' = Pruning /\ Migrating' = Migrating /\ Going' = Going /\ InHand' = InHand
  BY <1>2 DEF Rowed, Pruned, RowsOf, LastRow, Pruning, Migrating, Going, InHand
<1>7. RetentionTypeOK' /\ PruneTask' /\ RootApart'
  BY <1>2, <1>4, <1>5, <1>6 DEF RetentionTypeOK, PruneTask, RootApart, log_root, Usable
<1>8. MigrateTask'
  <2>1. ASSUME Migrating, NEW i \in DOMAIN job.todo
        PROVE  /\ job.todo[i].log \in Rowed
               /\ \/ job.todo[i].log \in strayed'
                  \/ disk'["tree"][job.todo[i].log] \in {None, job.todo[i].sha}
    <3> DEFINE t == job.todo[i]
    <3>1. t.log \in Rowed /\ (t.log \in strayed \/ disk["tree"][t.log] \in {None, t.sha})
      BY <2>1 DEF MigrateTask
    <3>2. t.log \in Logs /\ "tree" \in Places
      BY <3>1 DEF Rowed, Places
    <3> HIDE DEF t
    <3>3. t.log \in strayed' \/ disk'["tree"][t.log] \in {None, t.sha}
      BY <1>4, <1>5, <3>1, <3>2
    <3> QED BY <3>1, <3>3 DEF t
  <2> QED BY <1>2, <1>4, <1>5, <1>6, <2>1 DEF MigrateTask
<1>9. OneHome'
  BY <1>4, <1>5 DEF OneHome, Places
<1>10. GoneForGood'
  <2>1. \A k \in Pruned \cup Going : k # l /\ k \in Logs
    BY <1>4 DEF GoneForGood, Nowhere, Places, Rowed
  <2> QED BY <1>5, <1>6, <2>1 DEF GoneForGood, Nowhere
<1>11. Held'
  <2>1. ASSUME NEW k \in Rowed \ (Pruned \cup Going \cup InHand \cup strayed')
        PROVE  disk'[LastRow(k).place][k] = LastRow(k).sha
    <3>1. k \in Logs /\ k # l /\ LastRow(k).place \in Places
      BY <1>4, <2>1, RowedRow DEF RetentionTypeOK
    <3> QED BY <1>4, <1>5, <2>1, <3>1 DEF Held
  <2> QED BY <1>6, <2>1 DEF Held
<1> QED
  BY <1>7, <1>8, <1>9, <1>10, <1>11

LEMMA RetentionInvStep == RetentionInv /\ [Next]_vars => RetentionInv'
<1>1. ASSUME RetentionInv, UNCHANGED retentionVars PROVE RetentionInv'
  <2>1. UNCHANGED <<paths, disk, manifest, job, strayed>>
    BY <1>1 DEF retentionVars
  <2>2. /\ Rowed' = Rowed /\ Pruned' = Pruned /\ \A k : LastRow(k)' = LastRow(k)
        /\ Pruning' = Pruning /\ Migrating' = Migrating /\ Going' = Going /\ InHand' = InHand
    BY <2>1 DEF Rowed, Pruned, RowsOf, LastRow, Pruning, Migrating, Going, InHand
  <2>3. RetentionTypeOK' /\ PruneTask' /\ MigrateTask' /\ OneHome' /\ RootApart'
    BY <1>1, <2>1, <2>2
       DEF RetentionInv, RetentionTypeOK, PruneTask, MigrateTask, OneHome, RootApart, log_root
  <2>4. GoneForGood' /\ Held'
    BY <1>1, <2>1, <2>2 DEF RetentionInv, GoneForGood, Nowhere, Held
  <2> QED BY <2>3, <2>4 DEF RetentionInv
<1> QED
  BY <1>1, RetentionAtItsDesk, LogSessionKeeps, BeginPruneKeeps, UnlinkKeeps, EndPruneKeeps,
     BeginMigrateKeeps, MoveLogKeeps, RecordMovedKeeps, EndMigrateKeeps, KillJobKeeps,
     SessionTampersKeeps DEF RetentionStep

LEMMA RetentionInvariance == Spec => []RetentionInv
BY InitRetentionInv, RetentionInvStep, PTL DEF Spec

(* Whatever order sessions, prunes and migrations come in, and wherever one  *)
(* of them is killed or a session writes over a log it can reach: between    *)
(* commands, a log that find calls pruned is on no disk, and one that it     *)
(* calls missing or corrupt was in the tree for a session to reach, or was   *)
(* under a command that was killed.                                          *)
THEOREM LogsAreAccountedFor == Spec => []LogsAccounted
<1>1. RetentionInv => LogsAccounted
  <2> SUFFICES ASSUME RetentionInv, job = None, NEW l \in Logs
               PROVE  /\ find(l) = "pruned" => \A p \in Places : disk[p][l] = None
                      /\ find(l) \in {"missing", "corrupt"} => l \in strayed
    BY DEF LogsAccounted
  <2>1. Going = {} /\ InHand = {}
    BY DEF Going, InHand, Pruning, Migrating
  <2>2. find(l) = "pruned" => l \in Pruned
    BY DEF find, Pruned
  <2>3. find(l) \in {"missing", "corrupt"} =>
          /\ l \in Rowed /\ l \notin Pruned /\ disk[LastRow(l).place][l] # LastRow(l).sha
    <3>1. l \in Rowed => LastRow(l).sha # None
      BY RowedRow, NothingAssumption DEF RetentionInv, RetentionTypeOK
    <3> QED BY <3>1 DEF find, Pruned, Rowed
  <2> QED BY <2>1, <2>2, <2>3 DEF RetentionInv, GoneForGood, Nowhere, Held
<1> QED
  BY <1>1, RetentionInvariance, PTL
=============================================================================
