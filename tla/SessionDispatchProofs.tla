------------------------ MODULE SessionDispatchProofs ------------------------
(***************************************************************************)
(* Theorems of SessionDispatch and of the Watchdog in it, for every        *)
(* setting of the deadlines, the timeout, the retries and the capability   *)
(* profiles.  Each is an invariant of its own over the same steps.  At the *)
(* end those of Courier, which shares no state with them: the action of    *)
(* that name in SessionDispatch is one commit of it.                       *)
(***************************************************************************)
EXTENDS SessionDispatch, Courier, TLAPS

Places == {"ready", "opened", "entered", "running", "judged", "settled", "closed",
           "courier", "answer", "over"}

(* The values of what the parent and the child write. *)
Values ==
  /\ TypeOK
  /\ pc \in Places
  /\ clock \in Nat /\ last \in Nat /\ active \in BOOLEAN
  /\ bytes \in Printed /\ child \in {"none", "running", "gone"}

(* There is a child only once one was started, and activity only where a poll *)
(* has seen the child act.                                                    *)
ChildIsSessions ==
  /\ pc \in {"ready", "opened", "entered"} => child = "none"
  /\ child = "running" => pc = "running"
  /\ active => acts # {} /\ pc = "running"

WatchInv == Values /\ ChildIsSessions /\ EveryDeadlineBites

-----------------------------------------------------------------------------
(* What a step does to the child's side of the state. *)

LEMMA InitWatch == SessionInit => WatchInv
<1> SUFFICES ASSUME SessionInit PROVE WatchInv
  OBVIOUS
<1> USE DEF SessionInit, WatchInit
<1>1. TypeOK
  BY RetryAssumption DEF TypeOK, Outcomes
<1>2. Values
  BY <1>1 DEF Values, Printed, Places
<1>3. ChildIsSessions /\ EveryDeadlineBites
  BY DEF ChildIsSessions, EveryDeadlineBites
<1> QED
  BY <1>2, <1>3 DEF WatchInv

(* The outcomes classify_outcome knows. *)
LEMMA Classified ==
  ASSUME NEW why, NEW rc, NEW log \in Logs
  PROVE  classify_outcome(why, rc, log) \in Outcomes
BY DEF classify_outcome, Logs, Outcomes, Stalls

LEMMA Moves ==
  ASSUME Values, [Next]_vars
  PROVE  Values'
<1> USE DEF Values, TypeOK, Places
<1>1. CASE Open
  BY <1>1 DEF Open, TurnedAway, DispatchStored, Outcomes
<1>2. CASE Enter
  BY <1>2 DEF Enter, Broker, Outcomes, wvars
<1>3. CASE Launch
  <2>1. /\ UNCHANGED <<profile, attempt, landed, outcome, record>>
        /\ box' \subseteq {"tree", "container", "broker"}
        /\ pc' \in {"running", "judged"}
        /\ Spawn \/ UNCHANGED wvars
    BY <1>3 DEF Launch
  <2>2. /\ acts' \subseteq Acts /\ clock' \in Nat /\ last' \in Nat
        /\ bytes' \in Printed /\ child' \in {"none", "running", "gone"}
    <3>1. CASE Spawn
      BY <3>1 DEF Spawn, Printed
    <3>2. CASE UNCHANGED wvars
      BY <3>2 DEF wvars
    <3> QED
      BY <2>1, <3>1, <3>2
  <2>3. active' \in BOOLEAN
    <3>1. CASE Spawn
      BY <3>1 DEF Spawn
    <3>2. CASE UNCHANGED wvars
      BY <3>2, Zenon DEF wvars
    <3> QED
      BY <2>1, <3>1, <3>2
  <2> QED
    BY <2>1, <2>2, <2>3
<1>4. CASE Judge
  <2>1. PICK rc \in BOOLEAN, log \in Logs, file \in StopFiles, route \in BOOLEAN :
          LET said == IF ended = "egress" THEN "crash" ELSE classify_outcome(ended, rc, log)
          IN outcome' = IF (read_stop_file(file) /\ Stoppable(said)) \/ (route /\ said = "ok")
                        THEN "refused" ELSE said
    BY <1>4 DEF Judge
  <2>2. outcome' \in Outcomes
    BY <2>1, Classified DEF Outcomes
  <2> QED
    BY <1>4, <2>2 DEF Judge, Printed
<1>5. CASE Settle
  <2>1. landed' \subseteq Acts /\ outcome' \in Outcomes
    BY <1>5 DEF Settle, Apply, NotApplied, Quarantine, Leave, Captures, Product, Outcomes
  <2> QED
    BY <1>5, <2>1 DEF Settle, wvars
<1>6. CASE Close
  BY <1>6 DEF Close, Outcomes, wvars
<1>7. CASE TearDown \/ Courier \/ Answer
  BY <1>7 DEF TearDown, Courier, Answer, wvars
<1>8. CASE Retry
  <2>1. attempt' \in 0..RetryLimit
    BY <1>8, RetryAssumption DEF Retry, retry_decision
  <2> QED
    BY <1>8, <2>1 DEF Retry
<1>9. CASE Run
  BY <1>9 DEF Run, PrintLine, Work, Exit, Landing, Printed, Acts
<1>10. CASE Watch
  <2>1. landed' \subseteq Acts
    BY <1>10 DEF Watch, Poll, Landing
  <2>2. child' \in {"none", "running", "gone"}
    BY <1>10 DEF Watch, Poll, Kill
  <2>3. active' \in BOOLEAN
    BY <1>10, Zenon DEF Watch, Poll
  <2>4. clock' = clock + 1 /\ UNCHANGED <<bytes, last, acts>>
    BY <1>10 DEF Watch, Poll
  <2> QED
    BY <1>10, <2>1, <2>2, <2>3, <2>4 DEF Watch, Landing
<1>11. CASE UNCHANGED vars
  BY <1>11 DEF vars, wvars, dvars
<1> QED
  BY <1>1, <1>2, <1>3, <1>4, <1>5, <1>6, <1>7, <1>8, <1>9, <1>10, <1>11
  DEF Next, Orchestrate, Done

LEMMA ChildStep ==
  ASSUME Values, ChildIsSessions, [Next]_vars
  PROVE  ChildIsSessions'
<1> USE DEF ChildIsSessions
<1>1. CASE Open
  BY <1>1 DEF Open, TurnedAway, DispatchStored
<1>2. CASE Enter
  BY <1>2 DEF Enter, wvars
<1>3. CASE Launch
  BY <1>3 DEF Launch, Spawn, wvars
<1>4. CASE Judge
  BY <1>4 DEF Judge
<1>5. CASE Settle \/ Close \/ TearDown \/ Courier \/ Answer
  <2>1. /\ UNCHANGED <<child, active, acts>> /\ pc # "running"
        /\ pc' \notin {"ready", "opened", "entered"}
    BY <1>5 DEF Settle, Close, TearDown, Courier, Answer, wvars
  <2> QED
    BY <2>1
<1>6. CASE Retry
  BY <1>6 DEF Retry
<1>7. CASE Run
  BY <1>7 DEF Run, PrintLine, Work, Exit, Landing
<1>8. CASE Watch
  <2>1. active' => active \/ Observed
    BY <1>8 DEF Watch, Poll, Values
  <2>2. Observed => acts # {}
    BY DEF Observed
  <2> QED
    BY <1>8, <2>1, <2>2 DEF Watch, Poll, Kill, Landing
<1>9. CASE UNCHANGED vars
  BY <1>9 DEF vars, wvars, dvars
<1> QED
  BY <1>1, <1>2, <1>3, <1>4, <1>5, <1>6, <1>7, <1>8, <1>9 DEF Next, Orchestrate, Done

-----------------------------------------------------------------------------
(* The deadlines. *)

(* A poll that lets the child run on has found no deadline over. *)
LEMMA PollJudges ==
  ASSUME WatchInv, Watch, child' = "running"
  PROVE  EveryDeadlineBites'
<1>1. /\ clock' = clock + 1 /\ UNCHANGED <<bytes, last, acts>>
      /\ Passed(clock') = {} /\ clock' < SessionTimeout
  BY DEF Watch, Poll, Kill
<1>2. /\ ~StartupOver(clock') /\ ~OutputOver(clock')
      /\ ~ActivityOver(clock') /\ ~IdleOver(clock')
  BY <1>1 DEF Passed
<1>3. /\ {StartupDeadline, OutputDeadline, ActivityDeadline, IdleDeadline} \subseteq Nat
      /\ clock \in Nat /\ last \in Nat
  BY DeadlineAssumption DEF WatchInv, Values
<1>4. Judged <=> ~Silent
  BY <1>3 DEF Judged, Silent
<1>5. acts = {} => ~active /\ ~Observed /\ ~Moved
  BY DEF WatchInv, ChildIsSessions, Observed, Moved
<1>6. ~Judged => clock' < StartupDeadline
  BY <1>1, <1>2, <1>3, <1>4 DEF StartupOver, Over, Silent
<1>7. Judged /\ bytes # "useful" /\ acts = {} => (OutputDeadline > 0 => clock' < OutputDeadline)
  BY <1>1, <1>2, <1>3, <1>4, <1>5 DEF OutputOver, Over
<1>8. Judged /\ acts = {} => (ActivityDeadline > 0 => clock' < ActivityDeadline)
  BY <1>1, <1>2, <1>3, <1>4, <1>5 DEF ActivityOver, Over
<1>9. Judged => (IdleDeadline > 0 => clock' - last < IdleDeadline)
  BY <1>1, <1>2, <1>3, <1>4 DEF IdleOver, Over
<1> QED
  BY <1>1, <1>6, <1>7, <1>8, <1>9 DEF EveryDeadlineBites, Judged, Within

LEMMA DeadlineStep == WatchInv /\ [Next]_vars => EveryDeadlineBites'
<1> SUFFICES ASSUME WatchInv, [Next]_vars, child' = "running"
             PROVE  EveryDeadlineBites'
  BY DEF EveryDeadlineBites
<1>1. CASE Launch
  <2>1. child # "running"
    BY <1>1 DEF Launch, WatchInv, ChildIsSessions
  <2>2. clock' = 0 /\ last' = 0 /\ bytes' = "none"
    BY <1>1, <2>1 DEF Launch, Spawn, wvars
  <2> QED
    BY <2>2, DeadlineAssumption DEF EveryDeadlineBites, Judged, Within
<1>2. CASE Run
  <2>1. child = "running" /\ clock' = clock /\ clock \in Nat
    BY <1>2 DEF Run, PrintLine, Work, Exit, WatchInv, Values
  <2>2. CASE PrintLine
    <3>1. last' = clock /\ acts' = acts /\ bytes' \in {"echo", "useful"}
      BY <2>2 DEF PrintLine
    <3> QED
      BY <2>1, <3>1 DEF WatchInv, EveryDeadlineBites, Judged, Within
  <2>3. CASE Work
    <3>1. last' = last /\ bytes' = bytes /\ acts' # {}
      BY <2>3 DEF Work
    <3> QED
      BY <2>1, <3>1 DEF WatchInv, EveryDeadlineBites, Judged, Within
  <2> QED
    BY <1>2, <2>2, <2>3 DEF Run, Exit
<1>3. CASE Watch
  BY <1>3, PollJudges
<1>4. CASE Open \/ Enter \/ Settle \/ Close \/ TearDown \/ Courier \/ Answer
           \/ UNCHANGED vars
  <2>1. child' = child
    BY <1>4 DEF Open, Enter, Settle, Close, TearDown, Courier, Answer, vars, wvars
  <2>2. pc = "running"
    BY <2>1 DEF WatchInv, ChildIsSessions
  <2>3. UNCHANGED vars
    BY <1>4, <2>2 DEF Open, Enter, Settle, Close, TearDown, Courier, Answer
  <2> QED
    BY <2>3 DEF vars, wvars, WatchInv, EveryDeadlineBites, Judged, Within
<1>5. CASE Judge \/ Retry
  BY <1>5 DEF Judge, Retry
<1> QED
  BY <1>1, <1>2, <1>3, <1>4, <1>5 DEF Next, Orchestrate, Done

LEMMA WatchInvariance == Spec => []WatchInv
<1>1. WatchInv /\ [Next]_vars => WatchInv'
  BY Moves, ChildStep, DeadlineStep DEF WatchInv
<1> QED
  BY <1>1, InitWatch, PTL DEF Spec

(* Every variable keeps the values the code gives it; among them attempt,  *)
(* which never passes the retry limit.                                     *)
THEOREM DispatchTypes == Spec => []TypeOK
<1>1. WatchInv => TypeOK
  BY DEF WatchInv, Values
<1> QED
  BY <1>1, WatchInvariance, PTL

(* However the four deadlines, the session timeout, the output and the     *)
(* evidence of work meet, no child is running past a deadline that applies *)
(* to it.                                                                  *)
THEOREM DeadlinesBite == Spec => []EveryDeadlineBites
<1>1. WatchInv => EveryDeadlineBites
  BY DEF WatchInv
<1> QED
  BY <1>1, WatchInvariance, PTL

-----------------------------------------------------------------------------
(* The work of a session in a sandbox. *)

Ending == {"settled", "closed", "courier", "answer", "over"}

(* The tree of a sandbox stays until the record is closed, and from the    *)
(* moment settle has judged the session its work is accounted for.         *)
WorkKept ==
  /\ profile.isolating /\ pc \in {"entered", "running", "judged", "settled", "closed"}
       => "tree" \in box
  /\ profile.isolating /\ pc \in Ending /\ child = "gone"
       => \/ Product \subseteq landed \cup filed \cup hidden
          \/ outcome = "cancelled" \/ kept = "lost"

LEMMA WorkKeptStep ==
  ASSUME ChildIsSessions, WorkKept, [Next]_vars
  PROVE  WorkKept'
<1> USE DEF WorkKept, ChildIsSessions
<1>1. CASE Open \/ Retry
  BY <1>1 DEF Open, TurnedAway, DispatchStored, Retry, Ending
<1>2. CASE Enter
  BY <1>2 DEF Enter, wvars, Ending
<1>3. CASE Launch
  BY <1>3 DEF Launch, Ending
<1>4. CASE Judge
  BY <1>4 DEF Judge, Ending
<1>5. CASE Settle
  <2>1. /\ pc = "judged" /\ pc' = "settled" /\ UNCHANGED <<child, acts, profile, box>>
        /\ Apply \/ NotApplied \/ Quarantine \/ Leave
    BY <1>5 DEF Settle, wvars
  <2>2. Product' = Product
    BY <2>1 DEF Product
  <2>3. ASSUME profile.isolating
        PROVE  \/ Product \subseteq landed' \cup filed' \cup hidden'
               \/ outcome' = "cancelled" \/ kept' = "lost"
    <3>1. Whole = Product
      BY <2>3 DEF Whole
    <3>2. \A patch : File(patch) => \/ Product \subseteq filed' \cup hidden'
                                  \/ kept' = "lost"
      BY <3>1 DEF File
    <3>3. CASE Apply
      BY <2>3, <3>1, <3>3 DEF Apply
    <3>4. CASE NotApplied
      BY <3>2, <3>4 DEF NotApplied
    <3>5. CASE Quarantine
      BY <3>2, <3>5 DEF Quarantine
    <3>6. CASE Leave
      BY <3>6 DEF Leave
    <3> QED
      BY <2>1, <3>3, <3>4, <3>5, <3>6
  <2> QED
    BY <2>1, <2>2, <2>3
<1>6. CASE Close \/ TearDown \/ Courier \/ Answer
  <2>1. /\ UNCHANGED <<child, acts, profile, landed, kept, filed, hidden, outcome>>
        /\ pc \in Ending
        /\ pc' \in {"closed"} => pc = "settled" /\ box' = box
        /\ pc' \in {"closed", "courier", "answer", "over"}
    BY <1>6 DEF Close, TearDown, Courier, Answer, wvars, Ending
  <2>2. Product' = Product
    BY <2>1 DEF Product
  <2> QED
    BY <2>1, <2>2
<1>7. CASE Run \/ Watch
  BY <1>7 DEF Run, Watch, Landing, Ending
<1>8. CASE UNCHANGED vars
  BY <1>8 DEF vars, wvars, dvars, Product
<1> QED
  BY <1>1, <1>2, <1>3, <1>4, <1>5, <1>6, <1>7, <1>8 DEF Next, Orchestrate, Done

(* Whatever fails between the end of a session and the end of its sandbox, *)
(* what the session changed is in the project, in a bundle or in a patch,  *)
(* unless the operator cancelled it, the bundle could not be written, or   *)
(* git failed to show that part of it without being asked.                 *)
THEOREM WorkIsPreserved == Spec => []WorkPreserved
<1>1. SessionInit => WorkKept
  BY DEF SessionInit, WatchInit, WorkKept, Ending, Product
<1>2. WatchInv /\ WorkKept /\ [Next]_vars => WorkKept'
  BY WorkKeptStep DEF WatchInv
<1>3. WatchInv /\ WorkKept => WorkPreserved
  <2> SUFFICES ASSUME WatchInv, WorkKept, profile.isolating, child = "gone", "tree" \notin box
               PROVE  \/ Product \subseteq landed \cup filed \cup hidden
                      \/ outcome = "cancelled" \/ kept = "lost"
    BY DEF WorkPreserved
  <2>1. pc \notin {"ready", "opened", "entered", "running", "judged", "settled", "closed"}
    BY DEF WorkKept, WatchInv, ChildIsSessions
  <2>2. pc \in Places
    BY DEF WatchInv, Values
  <2> QED
    BY <2>1, <2>2 DEF WorkKept, Ending, Places
<1> QED
  BY <1>1, <1>2, <1>3, WatchInvariance, PTL DEF Spec

-----------------------------------------------------------------------------
(* The record of a session in a sandbox. *)

RecordHolds ==
  profile.isolating =>
    /\ pc = "ready" => record # "ok"
    /\ pc \in {"opened", "entered", "running", "judged", "settled"} => record = "open"
    /\ pc \in {"opened", "entered", "running", "judged"} => landed = {}
    /\ pc = "settled" /\ outcome = "ok" => landed = Product \ hidden
    /\ pc \in Ending => /\ outcome # "ok" => landed = {}
                        /\ "rewrite" \notin landed
                        /\ ~profile.writable => landed \cap {"write", "overwrite"} = {}
    /\ pc \in Ending \ {"settled"} =>
         /\ record = "ok" => outcome = "ok" /\ landed = Product \ hidden
         /\ record # "ok" /\ landed # {} => raising /\ record = "open"

LEMMA RecordStep ==
  ASSUME RecordHolds, [Next]_vars
  PROVE  RecordHolds'
<1> USE DEF RecordHolds
<1>1. CASE Open
  BY <1>1 DEF Open, TurnedAway, DispatchStored, Ending, Product
<1>2. CASE Enter
  <2>1. /\ pc = "opened" /\ UNCHANGED <<acts, profile, landed>>
        /\ UNCHANGED <<hidden, outcome>>
        /\ \/ /\ pc' \in {"entered", "over"}
              /\ record' = record
           \/ /\ pc' = "answer"
              /\ record' = "crash"
    BY <1>2 DEF Enter, wvars
  <2> QED
    BY <2>1 DEF Ending, Product
<1>3. CASE Launch
  BY <1>3 DEF Launch, Ending
<1>4. CASE Judge
  BY <1>4 DEF Judge, Ending
<1>5. CASE Settle
  <2>1. /\ pc = "judged" /\ pc' = "settled" /\ UNCHANGED <<acts, profile, record>>
        /\ Apply \/ NotApplied \/ Quarantine \/ Leave
    BY <1>5 DEF Settle, wvars
  <2>2. Product' = Product
    BY <2>1 DEF Product
  <2>3. ASSUME profile.isolating
        PROVE  /\ outcome' = "ok" => landed' = Product \ hidden'
               /\ outcome' # "ok" => landed' = {}
               /\ "rewrite" \notin landed'
               /\ ~profile.writable => landed' \cap {"write", "overwrite"} = {}
    <3>1. landed = {}
      BY <2>1, <2>3
    <3>2. CASE Apply
      <4>1. PICK found \in SUBSET Product :
              /\ found # {} => MayApply(found)
              /\ landed' = found /\ hidden' = Product \ found
        BY <2>3, <3>2 DEF Apply, Captures, Whole
      <4>2. found = {} \/ MayApply(found)
        BY <4>1
      <4> QED
        BY <3>2, <4>1, <4>2 DEF Apply, MayApply, prefix_problem
    <3>3. CASE NotApplied \/ Quarantine \/ Leave
      BY <3>1, <3>3 DEF NotApplied, Quarantine, Leave
    <3> QED
      BY <2>1, <3>2, <3>3
  <2> QED
    BY <2>1, <2>2, <2>3 DEF Ending
<1>6. CASE Close
  <2>1. /\ pc = "settled" /\ pc' = "closed" /\ UNCHANGED <<acts, profile, landed, hidden, outcome>>
        /\ \/ record' = outcome
           \/ /\ record' = "refused"
              /\ outcome # "ok"
           \/ /\ record' = record
              /\ raising' = TRUE
    BY <1>6 DEF Close, wvars
  <2>2. Product' = Product
    BY <2>1 DEF Product
  <2>3. pc \in Ending /\ pc' \in Ending
    BY <2>1 DEF Ending
  <2>4. ASSUME profile.isolating
        PROVE  /\ outcome' = "ok" => landed' = Product' \ hidden'
               /\ outcome' # "ok" => landed' = {}
               /\ record' = "ok" => outcome' = "ok"
               /\ "rewrite" \notin landed'
               /\ ~profile'.writable => landed' \cap {"write", "overwrite"} = {}
    <3>1. record = "open"
      BY <2>1, <2>4
    <3> QED
      BY <2>1, <2>2, <2>3, <2>4, <3>1
  <2>5. ASSUME profile.isolating, record' # "ok", landed' # {}
        PROVE  raising' /\ record' = "open"
    <3>1. record = "open" /\ (outcome # "ok" => landed = {})
      BY <2>1, <2>3, <2>5
    <3> QED
      BY <2>1, <2>5, <3>1
  <2> QED
    BY <2>1, <2>4, <2>5
<1>7. CASE TearDown \/ Courier \/ Answer
  <2>1. /\ UNCHANGED <<acts, profile, landed, hidden, outcome, record, raising>>
        /\ pc \in Ending \ {"settled"} /\ pc' \in Ending \ {"settled"}
    BY <1>7 DEF TearDown, Courier, Answer, wvars, Ending
  <2>2. Product' = Product
    BY <2>1 DEF Product
  <2> QED
    BY <2>1, <2>2 DEF Ending
<1>8. CASE Retry
  <2>1. /\ pc = "answer" /\ pc' \in {"over", "ready"}
        /\ UNCHANGED <<acts, profile, landed, hidden, outcome, record, raising>>
        /\ outcome # "ok"
    BY <1>8 DEF Retry, retry_decision, SessionResult
  <2>2. Product' = Product
    BY <2>1 DEF Product
  <2> QED
    BY <2>1, <2>2 DEF Ending
<1>9. CASE Run \/ Watch
  BY <1>9 DEF Run, Watch, Landing, Ending
<1>10. CASE UNCHANGED vars
  BY <1>10 DEF vars, wvars, dvars, Product
<1> QED
  BY <1>1, <1>2, <1>3, <1>4, <1>5, <1>6, <1>7, <1>8, <1>9, <1>10
  DEF Next, Orchestrate, Done

(* A record says ok only of work that was applied, up to what git failed to *)
(* show of it; of every other session nothing was, nor ever of one that     *)
(* rewrote the stream it was given, nor of work its role may not do.        *)
THEOREM RecordsAreTrue == Spec => []RecordIsTrue
<1>1. SessionInit => RecordHolds
  BY DEF SessionInit, RecordHolds, Ending
<1>2. RecordHolds => RecordIsTrue
  <2> SUFFICES ASSUME RecordHolds, profile.isolating, pc \in {"closed", "courier", "answer", "over"}
               PROVE  RecordIsTrue
    BY DEF RecordIsTrue
  <2>1. pc \in Ending /\ pc \in Ending \ {"settled"}
    BY DEF Ending
  <2> QED
    BY <2>1 DEF RecordHolds, RecordIsTrue
<1> QED
  BY <1>1, <1>2, RecordStep, PTL DEF Spec

(* A retry is dispatched only from a project in which the session before   *)
(* it left nothing a clean path can show.                                  *)
THEOREM RetriesRepeatNothing == Spec => RetryRepeatsNothing
<1> DEFINE Clean == landed \subseteq {"overwrite", "rewrite"} /\ kept # "bundle"
<1>1. ASSUME [Next]_vars, attempt' # attempt PROVE Clean
  <2>1. Retry
    BY <1>1 DEF Next, Orchestrate, Open, Enter, Launch, Judge, Settle, Close, TearDown,
       Courier, Answer, Run, Watch, Landing, Done, vars, dvars
  <2>2. Material = {}
    BY <2>1 DEF Retry, retry_decision
  <2>3. kept # "bundle"
    BY <2>2 DEF Material
  <2>4. landed \subseteq {"overwrite", "rewrite"}
    <3>1. CASE profile.isolating
      BY <2>2, <3>1 DEF Material
    <3>2. CASE ~profile.isolating
      BY <2>2, <3>2 DEF Material
    <3> QED
      BY <3>1, <3>2
  <2> QED
    BY <2>3, <2>4
<1>2. [Next]_vars => [attempt' # attempt => Clean]_vars
  BY <1>1
<1> QED
  BY <1>2, PTL DEF Spec, RetryRepeatsNothing

-----------------------------------------------------------------------------
(* How far the dispatch is from its end.  DispatchEnds is a liveness       *)
(* property; what it rests on is not: the parent's steps count down a      *)
(* number, the child's never raise it, and the parent always has a step.   *)

Attended == pc = "running" /\ ended = Waiting => child = "running"

PerSession == SessionTimeout + 9   \* the stages of a session, and its polls

StageLeft == [ready |-> SessionTimeout + 9, opened |-> SessionTimeout + 8,
              entered |-> SessionTimeout + 7, running |-> 6, judged |-> 5, settled |-> 4,
              closed |-> 3, courier |-> 2, answer |-> 1, over |-> 0]

StepsLeft ==
  (RetryLimit - attempt) * PerSession + StageLeft[pc]
    + (IF pc = "running" /\ ended = Waiting THEN SessionTimeout - clock ELSE 0)

LEMMA Stages ==
  /\ StageLeft["ready"] = SessionTimeout + 9 /\ StageLeft["opened"] = SessionTimeout + 8
  /\ StageLeft["entered"] = SessionTimeout + 7 /\ StageLeft["running"] = 6
  /\ StageLeft["judged"] = 5 /\ StageLeft["settled"] = 4 /\ StageLeft["closed"] = 3
  /\ StageLeft["courier"] = 2 /\ StageLeft["answer"] = 1 /\ StageLeft["over"] = 0
BY DEF StageLeft

LEMMA AttendedStep ==
  ASSUME WatchInv, Attended, [Next]_vars
  PROVE  Attended'
<1> USE DEF Attended
<1>1. CASE Open
  BY <1>1 DEF Open, TurnedAway, DispatchStored
<1>2. CASE Enter
  BY <1>2 DEF Enter
<1>3. CASE Launch
  BY <1>3 DEF Launch, Spawn
<1>4. CASE Judge \/ Settle \/ Close \/ TearDown \/ Courier \/ Answer \/ Retry
  BY <1>4 DEF Judge, Settle, Close, TearDown, Courier, Answer, Retry
<1>5. CASE Run
  BY <1>5 DEF Run, PrintLine, Work, Exit, Landing, Waiting
<1>6. CASE Watch
  <2>1. \/ child' = child
        \/ \E why \in Endings : ended' = why
    BY <1>6 DEF Watch, Poll, Kill, Passed, Endings, Stalls
  <2>2. Waiting \notin Endings
    BY DEF Waiting, Endings, Stalls
  <2>3. child = "running"
    BY <1>6 DEF Watch, Poll
  <2> QED
    BY <2>1, <2>2, <2>3
<1>7. CASE UNCHANGED vars
  BY <1>7 DEF vars, wvars, dvars
<1> QED
  BY <1>1, <1>2, <1>3, <1>4, <1>5, <1>6, <1>7 DEF Next, Orchestrate, Done

LEMMA AttendedInvariance == Spec => [](WatchInv /\ Attended)
<1>1. SessionInit => Attended
  BY DEF SessionInit, Attended
<1> QED
  BY <1>1, AttendedStep, WatchInvariance, PTL DEF Spec

(* What is left is a number, and never more than all sessions take together. *)
LEMMA LeftBounded ==
  ASSUME WatchInv, Attended
  PROVE  StepsLeft \in 0..((RetryLimit + 1) * PerSession)
<1>1. attempt \in 0..RetryLimit /\ pc \in Places /\ clock \in Nat
  BY DEF WatchInv, Values, TypeOK
<1>2. SessionTimeout \in Nat \ {0} /\ RetryLimit \in Nat /\ PerSession \in Nat
  BY DeadlineAssumption, RetryAssumption DEF PerSession
<1> DEFINE a == (RetryLimit - attempt) * PerSession
           b == StageLeft[pc]
           c == IF pc = "running" /\ ended = Waiting THEN SessionTimeout - clock ELSE 0
<1>3. a \in Nat /\ a + PerSession <= (RetryLimit + 1) * PerSession
  <2>1. PICK n \in Nat : n = attempt
    BY <1>1
  <2>2. n * PerSession \in Nat
    BY <1>2
  <2>3. /\ (RetryLimit - n) * PerSession = RetryLimit * PerSession - n * PerSession
        /\ (RetryLimit + 1) * PerSession = RetryLimit * PerSession + PerSession
    BY <1>2
  <2>4. n * PerSession <= RetryLimit * PerSession
    BY <1>1, <1>2, <2>1
  <2>5. RetryLimit * PerSession \in Nat
    BY <1>2
  <2> HIDE DEF PerSession
  <2> QED
    BY <1>2, <2>1, <2>2, <2>3, <2>4, <2>5
<1>4. b \in Nat /\ c \in Nat /\ b + c <= PerSession
  <2>1. pc = "running" /\ ended = Waiting => clock < SessionTimeout
    BY DEF Attended, WatchInv, EveryDeadlineBites
  <2> QED
    BY <1>1, <1>2, <2>1, Stages DEF PerSession, Places
<1>5. (RetryLimit + 1) * PerSession \in Nat
  BY <1>2
<1>6. StepsLeft = a + b + c
  BY DEF StepsLeft
<1>7. PICK i \in Nat, j \in Nat, k \in Nat, m \in Nat, n \in Nat :
        i = a /\ j = b /\ k = c /\ m = PerSession /\ n = (RetryLimit + 1) * PerSession
  BY <1>2, <1>3, <1>4, <1>5
<1>8. StepsLeft = i + j + k /\ i + m <= n /\ j + k <= m
  BY <1>3, <1>4, <1>6, <1>7
<1> HIDE DEF a, b, c
<1> QED
  BY <1>7, <1>8

(* Within one session only the stage and the clock count. *)
Left(stage, e, t) == StageLeft[stage] + (IF stage = "running" /\ e = Waiting
                                         THEN SessionTimeout - t ELSE 0)

LEMMA SameSession ==
  ASSUME WatchInv, WatchInv', Attended, Attended', attempt' = attempt
  PROVE  /\ StepsLeft' < StepsLeft <=> Left(pc', ended', clock') < Left(pc, ended, clock)
         /\ StepsLeft' = StepsLeft <=> Left(pc', ended', clock') = Left(pc, ended, clock)
<1> DEFINE a == (RetryLimit - attempt) * PerSession
<1>1. a \in Int /\ a' = a
  BY RetryAssumption, DeadlineAssumption DEF WatchInv, Values, TypeOK, PerSession
<1>2. Left(pc, ended, clock) \in Int /\ Left(pc', ended', clock') \in Int
  BY Stages, DeadlineAssumption DEF WatchInv, Values, Places, Left
<1>3. StepsLeft = a + Left(pc, ended, clock) /\ StepsLeft' = a' + Left(pc', ended', clock')
  <2>1. StepsLeft = a + Left(pc, ended, clock)
    <3>1. StageLeft[pc] \in Int /\ (IF pc = "running" /\ ended = Waiting
                                     THEN SessionTimeout - clock ELSE 0) \in Int
      BY Stages, DeadlineAssumption DEF WatchInv, Values, Places
    <3> HIDE DEF a
    <3>2. StepsLeft = a + StageLeft[pc] + (IF pc = "running" /\ ended = Waiting
                                           THEN SessionTimeout - clock ELSE 0)
      BY DEF StepsLeft, a
    <3> QED
      BY <1>1, <3>1, <3>2 DEF Left
  <2>2. StepsLeft' = a' + Left(pc', ended', clock')
    <3>1. StageLeft[pc'] \in Int /\ (IF pc' = "running" /\ ended' = Waiting
                                     THEN SessionTimeout - clock' ELSE 0) \in Int
      BY Stages, DeadlineAssumption DEF WatchInv, Values, Places
    <3>2. StepsLeft' = a' + StageLeft[pc'] + (IF pc' = "running" /\ ended' = Waiting
                                              THEN SessionTimeout - clock' ELSE 0)
      BY DEF StepsLeft, StageLeft
    <3>3. a' \in Int
      BY <1>1
    <3> HIDE DEF a
    <3> QED
      BY <3>1, <3>2, <3>3 DEF Left
  <2> QED
    BY <2>1, <2>2
<1>4. PICK k \in Int : k = a
  BY <1>1
<1>5. PICK l \in Int, m \in Int : l = Left(pc, ended, clock) /\ m = Left(pc', ended', clock')
  BY <1>2
<1>6. StepsLeft = k + l /\ StepsLeft' = k + m
  BY <1>1, <1>3, <1>4, <1>5
<1> HIDE DEF a
<1> QED
  BY <1>5, <1>6

(* Every step of the parent counts down. *)
LEMMA ParentCountsDown ==
  ASSUME WatchInv, WatchInv', Attended, Attended', Orchestrate \/ Watch
  PROVE  StepsLeft' < StepsLeft
<1> SessionTimeout \in Nat \ {0}
  BY DeadlineAssumption
<1>1. ASSUME attempt' = attempt, Left(pc', ended', clock') < Left(pc, ended, clock)
      PROVE  StepsLeft' < StepsLeft
  BY <1>1, SameSession
<1>2. CASE Open
  BY <1>1, <1>2, Stages DEF Open, TurnedAway, DispatchStored, Left
<1>3. CASE Enter
  BY <1>1, <1>3, Stages DEF Enter, Left
<1>4. CASE Launch
  <2>1. /\ pc = "entered" /\ attempt' = attempt
        /\ pc' \in {"judged", "running"} /\ (pc' = "running" => clock' = 0)
    BY <1>4 DEF Launch, Spawn
  <2> QED
    BY <1>1, <2>1, Stages DEF Left
<1>5. CASE Judge
  BY <1>1, <1>5, Stages DEF Judge, Left
<1>6. CASE Settle
  BY <1>1, <1>6, Stages DEF Settle, Left
<1>7. CASE Close \/ TearDown \/ Courier \/ Answer
  <2>1. /\ attempt' = attempt
        /\ \/ pc = "settled" /\ pc' = "closed"
           \/ pc = "closed"  /\ pc' \in {"courier", "answer", "over"}
           \/ pc = "courier" /\ pc' = "answer"
           \/ pc = "answer"  /\ pc' = "over"
    BY <1>7 DEF Close, TearDown, Courier, Answer
  <2> QED
    BY <1>1, <2>1, Stages DEF Left
<1>8. CASE Retry
  <2>1. CASE pc' = "over" /\ attempt' = attempt
    BY <1>1, <1>8, <2>1, Stages DEF Retry, Left
  <2>2. CASE pc' = "ready" /\ attempt' = attempt + 1
    <3>1. PICK n \in Int : n = RetryLimit - attempt
      BY RetryAssumption DEF WatchInv, Values, TypeOK
    <3>2. StepsLeft = n * PerSession + 1
      BY <1>8, <3>1, Stages, DeadlineAssumption DEF StepsLeft, Retry, PerSession
    <3>3. RetryLimit - attempt' = n - 1
      BY <2>2, <3>1, RetryAssumption DEF WatchInv, Values, TypeOK
    <3>4. StepsLeft' = (n - 1) * PerSession + PerSession
      BY <2>2, <3>3, Stages DEF StepsLeft, PerSession
    <3>5. (n - 1) * PerSession = n * PerSession - PerSession
      BY DEF PerSession
    <3>6. n * PerSession \in Int /\ PerSession \in Int
      BY DEF PerSession
    <3> QED
      BY <3>2, <3>4, <3>5, <3>6
  <2> QED
    BY <1>8, <2>1, <2>2 DEF Retry
<1>9. CASE Watch
  <2>1. /\ pc = "running" /\ pc' = pc /\ ended = Waiting /\ attempt' = attempt
        /\ clock < SessionTimeout /\ clock' = clock + 1 /\ clock \in Nat
    BY <1>9 DEF Watch, Poll, Landing, WatchInv, Values
  <2> QED
    BY <1>1, <2>1, Stages DEF Left
<1> QED
  BY <1>2, <1>3, <1>4, <1>5, <1>6, <1>7, <1>8, <1>9 DEF Orchestrate

(* The child may print and work as long as it likes and sets nothing back. *)
LEMMA ChildSetsNothingBack ==
  ASSUME WatchInv, WatchInv', Attended, Attended', Run \/ UNCHANGED vars
  PROVE  StepsLeft' <= StepsLeft
<1>1. /\ pc' = pc /\ attempt' = attempt /\ clock' = clock
      /\ ended' # ended => pc = "running" /\ ended = Waiting /\ ended' # Waiting
  <2>1. CASE Run
    BY <2>1 DEF Run, PrintLine, Work, Exit, Landing, Waiting
  <2>2. CASE UNCHANGED vars
    BY <2>2 DEF vars, wvars, dvars
  <2> QED
    BY <2>1, <2>2
<1>2. pc = "running" /\ ended = Waiting => clock < SessionTimeout
  BY DEF Attended, WatchInv, EveryDeadlineBites
<1>3. clock \in Nat /\ SessionTimeout \in Nat
  BY DeadlineAssumption DEF WatchInv, Values
<1>4. \/ Left(pc', ended', clock') = Left(pc, ended, clock)
      \/ Left(pc', ended', clock') < Left(pc, ended, clock)
  BY <1>1, <1>2, <1>3, Stages DEF Left
<1>5. StepsLeft' < StepsLeft \/ StepsLeft' = StepsLeft
  BY <1>1, <1>4, SameSession
<1>6. StepsLeft \in Int /\ StepsLeft' \in Int
  <2>1. StepsLeft \in 0..((RetryLimit + 1) * PerSession)
    BY LeftBounded
  <2>2. (WatchInv /\ Attended => StepsLeft \in 0..((RetryLimit + 1) * PerSession))'
    BY LeftBounded, PTL
  <2> QED
    BY <2>1, <2>2
<1> QED
  BY <1>5, <1>6

(* cli._dispatch_with_retry: what is left of a dispatch is bounded by the    *)
(* sessions it may still start and by the timeout of each.                   *)
THEOREM DispatchIsBounded == Spec => [](StepsLeft \in 0..((RetryLimit + 1) * PerSession))
<1>1. WatchInv /\ Attended => StepsLeft \in 0..((RetryLimit + 1) * PerSession)
  BY LeftBounded
<1> QED
  BY <1>1, AttendedInvariance, PTL

(* However the child behaves and whatever fails, each step of the parent     *)
(* brings the dispatch nearer to its end, and no step of the child takes it  *)
(* back: neither a retry nor a poll can go on for ever.                      *)
THEOREM EveryStepCounts ==
  Spec => [][/\ Orchestrate \/ Watch => StepsLeft' < StepsLeft
             /\ StepsLeft' <= StepsLeft]_vars
<1> DEFINE I == WatchInv /\ Attended
           Counts == /\ Orchestrate \/ Watch => StepsLeft' < StepsLeft
                     /\ StepsLeft' <= StepsLeft
<1>1. I /\ I' /\ [Next]_vars => [Counts]_vars
  <2> SUFFICES ASSUME I, I', Next PROVE Counts
    OBVIOUS
  <2>1. StepsLeft \in Int /\ StepsLeft' \in Int
    <3>1. (WatchInv /\ Attended => StepsLeft \in 0..((RetryLimit + 1) * PerSession))'
      BY LeftBounded, PTL
    <3> QED
      BY <3>1, LeftBounded
  <2>2. Orchestrate \/ Watch => StepsLeft' < StepsLeft
    BY ParentCountsDown
  <2>3. Run \/ Done => StepsLeft' <= StepsLeft
    BY ChildSetsNothingBack DEF Done
  <2> QED
    BY <2>1, <2>2, <2>3 DEF Next
<1> QED
  BY <1>1, AttendedInvariance, PTL DEF Spec

(* A step the parent has in every state, variable by variable: what is       *)
(* refused at the door, cancelled at a poll, or fails.  It is given by state  *)
(* functions, so that it can be taken is not in question.                     *)
Polling == pc = "running" /\ ended = Waiting
Judging == pc = "running" /\ ended # Waiting
Again   == pc = "answer" /\ ~ok /\ retry_decision
Filing  == pc = "judged" /\ profile.isolating /\ outcome # "cancelled"
Bare    == pc = "judged" /\ ~profile.isolating /\ outcome \notin {"ok", "cancelled"}

AnyCrash == [says |-> "crash", lost |-> FALSE]

GivesUp ==
  /\ pc' = [ready |-> "over", opened |-> "over", entered |-> "judged",
            running |-> IF Polling THEN "running" ELSE "judged",
            judged |-> "settled", settled |-> "closed",
            closed |-> IF raising THEN "over" ELSE IF ended = Waiting THEN "answer" ELSE "courier",
            courier |-> "answer", answer |-> "over"][pc]
  /\ child' = IF pc = "running" THEN "gone" ELSE IF Again THEN "none" ELSE child
  /\ clock' = IF Polling THEN clock + 1 ELSE IF Judging THEN 0 ELSE clock
  /\ ended' = IF Polling THEN "cancelled" ELSE IF Again THEN Waiting ELSE ended
  /\ acts' = IF pc = "ready" THEN {} ELSE acts
  /\ box' = IF pc \in {"opened", "closed"} THEN {} ELSE box
  /\ landed' = IF pc = "ready" THEN {}
               ELSE IF Polling THEN (IF profile.isolating THEN {} ELSE acts \ {"sidecar"})
               ELSE landed
  /\ kept' = CASE pc = "ready" -> "none"
               [] Filing -> "lost"
               [] Bare -> "none"
               [] OTHER -> kept
  /\ filed' = IF pc = "ready" \/ Filing \/ Bare THEN {} ELSE filed
  /\ hidden' = IF pc = "ready" \/ (pc = "judged" /\ outcome # "cancelled") THEN {} ELSE hidden
  /\ outcome' = CASE pc = "ready" -> "crash"
                  [] Judging -> IF ended = "egress" THEN "crash"
                                ELSE classify_outcome(ended, FALSE, AnyCrash)
                  [] Filing /\ outcome = "ok" -> "refused"
                  [] OTHER -> outcome
  /\ raising' = CASE pc = "ready" -> FALSE
                  [] Judging -> ended = "egress"
                  [] pc = "settled" \/ (Filing /\ outcome = "ok") -> TRUE
                  [] OTHER -> raising
  /\ IF Judging THEN bytes' = "none" /\ last' = 0 /\ active' = FALSE
     ELSE UNCHANGED <<bytes, last, active>>
  /\ IF pc = "ready" \/ Judging THEN ok' = FALSE /\ transport' = FALSE
     ELSE UNCHANGED <<ok, transport>>
  /\ UNCHANGED <<profile, attempt, record>>

(* Until the dispatch is over, the thread of cli._dispatch_with_retry is     *)
(* never without a next step: it does not wait for the child beyond a poll.  *)
(* With EveryStepCounts this is DispatchEnds but for the scheduler.          *)
THEOREM ParentHasAStep ==
  ASSUME WatchInv, Attended, pc # "over", GivesUp
  PROVE  Orchestrate \/ Watch
<1> USE DEF GivesUp, Polling, Judging, Again, Filing, Bare
<1>1. CASE pc = "ready"
  BY <1>1 DEF Orchestrate, Open, TurnedAway
<1>2. CASE pc = "opened"
  BY <1>2 DEF Orchestrate, Enter, wvars
<1>3. CASE pc = "entered"
  BY <1>3 DEF Orchestrate, Launch, wvars
<1>4. CASE Polling
  <2>1. child = "running" /\ clock < SessionTimeout
    BY <1>4 DEF Attended, WatchInv, EveryDeadlineBites
  <2>2. Poll
    BY <1>4, <2>1 DEF Poll, Kill
  <2>3. Landing
    BY <1>4 DEF Landing
  <2> QED
    BY <1>4, <2>2, <2>3 DEF Watch
<1>5. CASE Judging
  <2>1. AnyCrash \in Logs /\ AnyCrash.lost = FALSE
    BY DEF AnyCrash, Logs
  <2>2. LET said == IF ended = "egress" THEN "crash" ELSE classify_outcome(ended, FALSE, AnyCrash)
        IN outcome' = IF (read_stop_file("absent") /\ Stoppable(said)) \/ (FALSE /\ said = "ok")
                      THEN "refused" ELSE said
    BY <1>5 DEF read_stop_file
  <2>3. Judge
    BY <1>5, <2>1, <2>2 DEF Judge, StopFiles
  <2> QED
    BY <2>3 DEF Orchestrate
<1>6. CASE pc = "judged"
  <2>1. Apply \/ NotApplied \/ Quarantine \/ Leave
    <3>1. CASE outcome = "cancelled"
      BY <1>6, <3>1 DEF Leave
    <3>2. CASE Filing
      <4>1. File({}) /\ UNCHANGED landed
        BY <1>6, <3>2 DEF File
      <4>2. {} \in Captures
        BY DEF Captures
      <4>3. IF outcome = "ok" THEN outcome' = "refused" /\ raising' = TRUE
                              ELSE UNCHANGED <<outcome, raising>>
        BY <1>6, <3>2
      <4> QED
        BY <3>2, <4>1, <4>2, <4>3 DEF NotApplied, Quarantine
    <3>3. CASE Bare
      BY <1>6, <3>3 DEF Quarantine, File, Captures, Whole
    <3>4. CASE ~profile.isolating /\ outcome = "ok"
      BY <1>6, <3>4 DEF Apply, Captures, Whole
    <3> QED
      BY <1>6, <3>1, <3>2, <3>3, <3>4
  <2>2. pc' = "settled" /\ UNCHANGED <<wvars, profile, attempt, box, ok, transport, record>>
    BY <1>6 DEF wvars
  <2> QED
    BY <1>6, <2>1, <2>2 DEF Orchestrate, Settle
<1>7. CASE pc = "settled"
  BY <1>7 DEF Orchestrate, Close, wvars
<1>8. CASE pc = "closed"
  BY <1>8 DEF Orchestrate, TearDown, wvars
<1>9. CASE pc = "courier"
  BY <1>9 DEF Orchestrate, Courier, wvars
<1>10. CASE pc = "answer"
  <2>1. CASE Again
    BY <1>10, <2>1 DEF Orchestrate, Retry
  <2>2. CASE ~Again
    BY <1>10, <2>2 DEF Orchestrate, Answer, wvars
  <2> QED
    BY <2>1, <2>2
<1> QED
  BY <1>1, <1>2, <1>3, <1>4, <1>5, <1>6, <1>7, <1>8, <1>9, <1>10
  DEF WatchInv, Values, Places
-----------------------------------------------------------------------------
(* The courier's commit after a session, for every project, every content and  *)
(* every pairing of renames that git may answer.  What run_session recorded    *)
(* before the session must still be what HEAD holds when courier_commit reads  *)
(* it: CourierInv says so, since nothing but the courier commits while the     *)
(* lease is held; and that of a directory git named then, what HEAD had was    *)
(* named too.  The rest is the arithmetic of Held over one commit.             *)

CourierInv == /\ head \in Tree /\ tree \in Tree
              /\ tracked \subseteq Files
              /\ moves \subseteq Files \X Files
              /\ phase = "session" =>
                   /\ before.base = Present(head)
                   /\ \A d \in before.dirty \cap Dirs : Under[d] \cap Present(head) \subseteq before.dirty

(* What this session left dirty. *)
SessionDirt == session_dirt(dirty_paths)

LEMMA CourierStarts == CourierInit => CourierInv
BY DEF CourierInit, CourierInv, Present

(* A directory is named where nothing under it is in the index. *)
LEMMA NamedDirs ==
  ASSUME NEW d \in Dirs, d \in dirty_paths
  PROVE  Untracked(d) /\ \E p \in Loose : d \in Tops(p)
<1>1. d \notin Files
  BY FileAssumption
<1>2. PICK p \in Loose : d \in Tops(p)
  BY <1>1 DEF dirty_paths, Listed, Loose, Present
<1> QED
  BY <1>2 DEF Tops, Above

LEMMA CourierKeeps == CourierInv /\ [CourierNext]_courierVars => CourierInv'
<1> SUFFICES ASSUME CourierInv, [CourierNext]_courierVars PROVE CourierInv'
  OBVIOUS
<1>1. CASE Edit
  BY <1>1 DEF CourierInv, Edit, Tree
<1>2. CASE Index
  <2>1. /\ head' = head /\ tree' = tree /\ phase' = phase /\ before' = before /\ moves' = moves
        /\ tracked' \subseteq Files
    BY <1>2 DEF Index, CourierInv, Loose, Present
  <2>2. Present(head)' = Present(head)
    BY <2>1 DEF Present
  <2> QED
    BY <2>1, <2>2 DEF CourierInv
<1>3. CASE Dispatch
  <2>1. before' = [dirty |-> dirty_paths, base |-> Present(head)]
        /\ head' = head /\ tree' = tree /\ tracked' = tracked /\ moves' = {}
    BY <1>3 DEF Dispatch
  <2>2. before'.base = Present(head) /\ Present(head)' = Present(head) /\ before'.dirty = dirty_paths
    BY <2>1 DEF Present
  <2>3. ASSUME NEW d \in Dirs, d \in dirty_paths, NEW p \in Under[d], p \in Present(head)
        PROVE  p \in dirty_paths
    <3>1. p \notin tracked
      BY <2>3, NamedDirs DEF Untracked
    <3> QED
      BY <2>3, <3>1 DEF dirty_paths, Listed, Present
  <2> QED
    BY <2>1, <2>2, <2>3 DEF CourierInv
<1>4. CASE Write
  <2>1. head' = head /\ tracked' = tracked /\ before' = before /\ phase' = phase /\ moves' \subseteq moves
    BY <1>4 DEF Write
  <2>2. tree' \in Tree
    BY <1>4 DEF Write, CourierInv, Tree
  <2>3. Present(head)' = Present(head)
    BY <2>1 DEF Present
  <2> QED
    BY <2>1, <2>2, <2>3 DEF CourierInv
<1>5. CASE MoveFile
  <2>1. PICK o \in Present(tree), d \in Files :
          /\ o # d
          /\ tree' = [tree EXCEPT ![d] = tree[o], ![o] = None]
          /\ moves' \in {{m \in moves : {m[1], m[2]} \cap {o, d} = {}}, {<<o, d>>}}
    BY <1>5 DEF MoveFile
  <2>2. o \in Files /\ tree[o] \in Contents \cup {None}
    BY DEF Present, CourierInv, Tree
  <2>3. tree' \in Tree
    BY <2>1, <2>2 DEF CourierInv, Tree
  <2>4. moves' \subseteq Files \X Files
    BY <2>1, <2>2 DEF CourierInv
  <2>5. head' = head /\ tracked' = tracked /\ before' = before /\ phase' = phase
    BY <1>5 DEF MoveFile
  <2>6. Present(head)' = Present(head)
    BY <2>5 DEF Present
  <2> QED
    BY <2>3, <2>4, <2>5, <2>6 DEF CourierInv
<1>6. CASE Commit
  <2>1. PICK paths \in SUBSET Files, fate \in {"done", "staged", "refused"} :
          /\ head' = IF fate = "done" THEN [p \in Files |-> IF p \in paths THEN tree[p] ELSE head[p]]
                                      ELSE head
          /\ tracked' = IF fate = "refused" THEN tracked
                        ELSE (tracked \ paths) \cup (paths \cap Present(tree))
    BY <1>6 DEF Commit, Covered
  <2>2. head' \in Tree /\ tracked' \subseteq Files
    BY <2>1 DEF CourierInv, Tree
  <2>3. tree' = tree /\ moves' = {} /\ phase' = "idle"
    BY <1>6 DEF Commit
  <2> QED
    BY <2>2, <2>3 DEF CourierInv
<1>7. CASE UNCHANGED courierVars
  BY <1>7 DEF CourierInv, courierVars, Present
<1> QED
  BY <1>1, <1>2, <1>3, <1>4, <1>5, <1>6, <1>7 DEF CourierNext

(* HEAD moves at a commit only, and what a commit takes lies under what was  *)
(* not dirty before the session and is not held back.                        *)
LEMMA HeadMoves ==
  ASSUME CourierInv, [CourierNext]_courierVars, head' # head
  PROVE  /\ phase = "session" /\ tree' = tree
         /\ \E r \in rename_pairs :
              \A p \in Files :
                head'[p] = IF p \in Covered(Deliverable(SessionDirt, Held(SessionDirt, r)))
                           THEN tree[p] ELSE head[p]
<1>1. Commit
  BY DEF CourierNext, courierVars, Edit, Index, Dispatch, Write, MoveFile
<1>2. phase = "session" /\ tree' = tree
  BY <1>1 DEF Commit
<1>3. PICK r \in rename_pairs :
        head' = [p \in Files |-> IF p \in Covered(Deliverable(SessionDirt, Held(SessionDirt, r)))
                                 THEN tree[p] ELSE head[p]]
  BY <1>1 DEF Commit, SessionDirt
<1> QED
  BY <1>2, <1>3

(* The pairs, read off their definition: what appeared with what is gone. *)
LEMMA Pairs ==
  ASSUME NEW r \in rename_pairs, NEW d \in DOMAIN r
  PROVE  d \in Added /\ r[d] \in Gone /\ tree[d] = head[r[d]]
BY DEF rename_pairs

(* All scratch is held. *)
LEMMA ScratchHeld ==
  ASSUME NEW new, NEW r
  PROVE  Scratch(new, r) \subseteq Held(new, r)
BY DEF Held

(* A pair is never split: the origin of what is scratch is held with it. *)
LEMMA OriginHeld ==
  ASSUME NEW new, NEW r, NEW d \in DOMAIN r,
         d \in Scratch(new, r) \/ r[d] \in Scratch(new, r), r[d] \in new
  PROVE  r[d] \in Held(new, r)
BY DEF Held

(* A deletion goes through beside something held only as an origin. *)
LEMMA LoneDeletionHeld ==
  ASSUME NEW new, NEW r, Held(new, r) # {}, NEW p \in new \cap before.base,
         tree[p] = None, p \notin Held(new, r)
  PROVE  p \in Range(r)
BY DEF Held

(* What is held and is not a deletion is an end of a pair one end of which is *)
(* scratch, or scratch itself.                                                *)
LEMMA WhyHeld ==
  ASSUME NEW new, NEW r, NEW p \in Held(new, r), tree[p] # None
  PROVE  \/ p \in Scratch(new, r)
         \/ \E d \in DOMAIN r : /\ d \in Scratch(new, r) \/ r[d] \in Scratch(new, r)
                                /\ p = d \/ p = r[d]
BY DEF Held

(* A directory is held where it is not of audit/, and only there. *)
LEMMA DirsHeld ==
  ASSUME CourierInv, phase = "session", NEW r \in rename_pairs, NEW d \in Dirs, d \in SessionDirt
  PROVE  d \in Held(SessionDirt, r) <=> d \notin Audit
<1>1. d \notin Files /\ d \notin before.base
  BY FileAssumption DEF CourierInv, Present
<1>2. d \notin DOMAIN r
  BY <1>1, Pairs DEF Added, Present
<1>3. \A e \in DOMAIN r : r[e] # d
  BY <1>1, Pairs DEF Gone, Present
<1>4. d \in Scratch(SessionDirt, r) <=> d \notin Audit
  BY <1>1, <1>2 DEF Scratch
<1>5. d \in Held(SessionDirt, r) => d \in Scratch(SessionDirt, r)
  BY <1>1, <1>2, <1>3 DEF Held
<1> QED
  BY <1>4, <1>5, ScratchHeld

(* git names what is dirty, itself or by a directory. *)
LEMMA Named ==
  ASSUME NEW p \in Files, tree[p] # head[p]
  PROVE  p \in dirty_paths \/ \E d \in Dirs : p \in Under[d] /\ d \in dirty_paths
<1>1. CASE head[p] # None \/ p \in tracked
  BY <1>1 DEF dirty_paths, Listed
<1>2. CASE head[p] = None /\ p \notin tracked
  <2>1. p \in Loose
    BY <1>2 DEF Loose, Present
  <2>2. CASE Above(p) = {}
    BY <2>1, <2>2 DEF dirty_paths
  <2>3. CASE Above(p) # {}
    <3>1. Above(p) \in SUBSET {d \in Dirs : p \in Under[d]}
      BY DEF Above
    <3>2. PICK d \in Above(p) : \A e \in Above(p) : Under[e] \subseteq Under[d]
      BY <2>3, <3>1, ChainAssumption
    <3>3. d \in Tops(p) /\ d \in Dirs /\ p \in Under[d]
      BY <3>2 DEF Tops, Above
    <3> QED
      BY <2>1, <3>3 DEF dirty_paths
  <2> QED
    BY <2>2, <2>3
<1> QED
  BY <1>1, <1>2

(* No two directories that git names lie one in the other. *)
LEMMA NamedApart ==
  ASSUME NEW d \in Dirs, NEW e \in Dirs, d \in dirty_paths, e \in dirty_paths,
         NEW p \in Files, p \in Under[d], p \in Under[e]
  PROVE  d = e
<1>1. ASSUME NEW c \in Dirs, NEW b \in Dirs, c \in dirty_paths, b \in dirty_paths,
             Under[c] \subseteq Under[b]
      PROVE  Under[b] \subseteq Under[c]
  <2>1. PICK q \in Loose : c \in Tops(q)
    BY <1>1, NamedDirs
  <2>2. q \in Under[c] /\ Untracked(b)
    BY <1>1, <2>1, NamedDirs DEF Tops, Above
  <2>3. b \in Above(q)
    BY <1>1, <2>2 DEF Above
  <2> QED
    BY <2>1, <2>3 DEF Tops
<1>2. {d, e} \in SUBSET {c \in Dirs : p \in Under[c]}
  OBVIOUS
<1>3. Under[d] \subseteq Under[e] \/ Under[e] \subseteq Under[d]
  BY <1>2, ChainAssumption
<1>4. Under[d] = Under[e]
  BY <1>1, <1>3
<1> QED
  BY <1>4, DirAssumption DEF IsInjective

-----------------------------------------------------------------------------
LEMMA CommitStays ==
  ASSUME CourierInv, [CourierNext]_courierVars, NEW p \in Files, head'[p] # head[p]
  PROVE  /\ p \in before.dirty => p \in Audit /\ \E d \in Dirs : p \in Under[d] /\ Untracked(d)
         /\ \A d \in before.dirty \cap dirty_paths \cap Dirs : p \notin Under[d]
         /\ head[p] = None /\ p \notin Audit => \E o \in before.base : tree[p] = head[o]
<1>1. PICK r \in rename_pairs :
        \A q \in Files :
          head'[q] = IF q \in Covered(Deliverable(SessionDirt, Held(SessionDirt, r)))
                     THEN tree[q] ELSE head[q]
  BY HeadMoves
<1>2. phase = "session" /\ before.base = Present(head)
  BY HeadMoves DEF CourierInv
<1>3. \/ p \in SessionDirt /\ p \notin Held(SessionDirt, r)
      \/ \E d \in Dirs : p \in Under[d] /\ d \in SessionDirt /\ d \notin Held(SessionDirt, r)
  BY <1>1 DEF Covered, Deliverable
<1>4. SessionDirt = dirty_paths \ before.dirty
  BY DEF SessionDirt, session_dirt
<1>5. ASSUME NEW d \in Dirs, p \in Under[d], d \in SessionDirt, d \notin Held(SessionDirt, r)
      PROVE  p \in Audit /\ Untracked(d)
  <2>1. d \in Audit
    BY <1>2, <1>5, DirsHeld
  <2>2. Untracked(d)
    BY <1>4, <1>5, NamedDirs
  <2> QED
    BY <1>5, <2>1, <2>2, DirAssumption
<1>6. ASSUME p \in before.dirty
      PROVE  p \in Audit /\ \E d \in Dirs : p \in Under[d] /\ Untracked(d)
  BY <1>3, <1>4, <1>5, <1>6
<1>7. ASSUME NEW d \in Dirs, d \in before.dirty, d \in dirty_paths, p \in Under[d]
      PROVE  FALSE
  <2>1. p \notin tracked /\ d \in Above(p)
    BY <1>7, NamedDirs DEF Untracked, Above
  <2>2. CASE p \in SessionDirt
    <3>1. p \in Listed
      <4>1. p \notin Dirs
        BY FileAssumption
      <4>2. \A q \in Loose : p \notin Tops(q)
        BY <4>1 DEF Tops, Above
      <4> QED
        BY <1>4, <2>1, <2>2, <4>2 DEF dirty_paths
    <3>2. p \in Present(head)
      BY <2>1, <3>1 DEF Listed, Present
    <3> QED
      BY <1>2, <1>4, <1>7, <2>2, <3>2 DEF CourierInv
  <2>3. CASE \E e \in Dirs : p \in Under[e] /\ e \in SessionDirt
    BY <1>4, <1>7, <2>3, NamedApart
  <2> QED
    BY <1>3, <2>2, <2>3
<1>8. ASSUME head[p] = None, p \notin Audit
      PROVE  \E o \in before.base : tree[p] = head[o]
  <2>1. p \in SessionDirt /\ p \notin Held(SessionDirt, r)
    BY <1>3, <1>5, <1>8
  <2>2. p \notin Scratch(SessionDirt, r)
    BY <2>1, ScratchHeld
  <2>3. p \notin before.base
    BY <1>2, <1>8 DEF Present
  <2>4. p \in DOMAIN r /\ r[p] \in before.base
    BY <1>8, <2>1, <2>2, <2>3 DEF Scratch
  <2> QED
    BY <2>4, Pairs
<1> QED
  BY <1>6, <1>7, <1>8

(* README.md:507: what the operator had left dirty is in no commit of the    *)
(* courier, but by way of a directory of audit/ where nothing is tracked any *)
(* more, and so for what is in a directory it had named and still names; nor *)
(* does a commit add a file outside audit/ that was not tracked material.    *)
THEOREM OperatorsWorkStays == CourierSpec => OperatorWorkStays
<1>1. CourierSpec => []CourierInv
  BY CourierStarts, CourierKeeps, PTL DEF CourierSpec
<1>2. CourierInv /\ [CourierNext]_courierVars =>
        [\A p \in Files : head'[p] # head[p] =>
           /\ p \in before.dirty => p \in Audit /\ \E d \in Dirs : p \in Under[d] /\ Untracked(d)
           /\ \A d \in before.dirty \cap dirty_paths \cap Dirs : p \notin Under[d]
           /\ head[p] = None /\ p \notin Audit => \E o \in before.base : tree[p] = head[o]]_courierVars
  BY CommitStays
<1> QED
  BY <1>1, <1>2, PTL DEF CourierSpec, OperatorWorkStays

LEMMA NothingLost ==
  ASSUME CourierInv, [CourierNext]_courierVars, before.dirty = {}, NEW m \in moves, Lost(m)
  PROVE  Swallowed(m)
<1> SUFFICES ASSUME ~Swallowed(m) PROVE FALSE
  OBVIOUS
<1> DEFINE o == m[1]
           d == m[2]
<1>0. /\ o \in Files /\ d \in Files
      /\ head[o] # None /\ head'[o] = None /\ head[o] = tree[d]
      /\ \A p \in Files : head'[p] # tree[d]
  BY DEF CourierInv, Lost
<1>1. PICK r \in rename_pairs :
        \A q \in Files :
          head'[q] = IF q \in Covered(Deliverable(SessionDirt, Held(SessionDirt, r)))
                     THEN tree[q] ELSE head[q]
  BY <1>0, HeadMoves
<1>2. phase = "session" /\ before.base = Present(head)
  BY <1>0, HeadMoves DEF CourierInv
<1>3. SessionDirt = dirty_paths
  BY DEF SessionDirt, session_dirt
<1>4. ASSUME NEW e \in Dirs, e \in dirty_paths, e \notin Audit, NEW p \in Under[e] PROVE tree[p] # tree[d]
  BY <1>4 DEF Swallowed
<1>5. ASSUME NEW e \in Dirs, e \in dirty_paths, e \in Audit PROVE o \notin Under[e]
  BY <1>5 DEF Swallowed
<1> HIDE DEF o, d
(* The origin is committed under its own name. *)
<1>6. o \in SessionDirt /\ o \notin Held(SessionDirt, r) /\ tree[o] = None
  <2>1. o \in Covered(Deliverable(SessionDirt, Held(SessionDirt, r))) /\ tree[o] = None
    BY <1>0, <1>1
  <2>2. ASSUME NEW e \in Dirs, o \in Under[e], e \in SessionDirt, e \notin Held(SessionDirt, r)
        PROVE  FALSE
    BY <1>2, <1>3, <1>5, <2>2, DirsHeld
  <2> QED
    BY <2>1, <2>2 DEF Covered, Deliverable
(* Where the moved content is not committed, it is held back. *)
<1>7. ASSUME NEW p \in Files, tree[p] = head[o] PROVE p \in Held(SessionDirt, r)
  <2>1. head'[p] # tree[p]
    BY <1>0, <1>7
  <2>2. p \notin Covered(Deliverable(SessionDirt, Held(SessionDirt, r))) /\ head[p] # tree[p]
    BY <1>1, <2>1
  <2>3. ASSUME NEW e \in Dirs, p \in Under[e], e \in dirty_paths PROVE FALSE
    <3>1. e \in Audit
      BY <1>0, <1>4, <1>7, <2>3
    <3>2. e \notin Held(SessionDirt, r)
      BY <1>2, <1>3, <2>3, <3>1, DirsHeld
    <3> QED
      BY <1>3, <2>2, <2>3, <3>2 DEF Covered, Deliverable
  <2>4. p \in SessionDirt
    BY <1>3, <2>2, <2>3, Named
  <2> QED
    BY <2>2, <2>4 DEF Covered, Deliverable
<1>8. o \in Range(r)
  <2>1. Held(SessionDirt, r) # {}
    BY <1>0, <1>7
  <2>2. o \in before.base
    BY <1>0, <1>2 DEF Present
  <2> QED
    BY <1>6, <2>1, <2>2, LoneDeletionHeld
<1>9. PICK e \in DOMAIN r : r[e] = o
  BY <1>8 DEF Range
<1>10. e \in Added /\ tree[e] = head[o] /\ e \in Files
  BY <1>9, Pairs DEF Added, Present
<1>11. tree[e] # None /\ e \in Held(SessionDirt, r)
  BY <1>7, <1>10 DEF Added, Present
<1>12. e \in Scratch(SessionDirt, r) \/ r[e] \in Scratch(SessionDirt, r)
  <2>1. ASSUME NEW f \in DOMAIN r, e = r[f] PROVE FALSE
    BY <1>10, <2>1, Pairs DEF Added, Gone
  <2> QED
    BY <1>11, <2>1, WhyHeld
<1> QED
  BY <1>6, <1>9, <1>12, OriginHeld

(* courier.py:293: what a session moved is never committed as a deletion     *)
(* only, where the operator had left no file of their own and git names no   *)
(* end of the move by its directory.                                         *)
THEOREM MovesAreKept == CourierSpec => MoveKeptClean
<1>1. CourierSpec => []CourierInv
  BY CourierStarts, CourierKeeps, PTL DEF CourierSpec
<1>2. CourierInv /\ [CourierNext]_courierVars =>
        [before.dirty = {} => \A m \in moves : Lost(m) => Swallowed(m)]_courierVars
  BY NothingLost
<1> QED
  BY <1>1, <1>2, PTL DEF CourierSpec, MoveKeptClean
=============================================================================
