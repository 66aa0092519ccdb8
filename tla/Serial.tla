------------------------------- MODULE Serial -------------------------------
(***************************************************************************)
(* What a fan-out promises about the passes it runs side by side: the      *)
(* audit reads as if they had been run one after the other.  There are no  *)
(* threads, no windows, no revisions and no artifacts half-landed in it.   *)
(* The session of a pass is opened and closed; what it found and queued,   *)
(* with the artifacts that were carried out of its tree, arrives all at    *)
(* once, after a session that was recorded as ok, or never.                *)
(***************************************************************************)
CONSTANTS
  Pass,      \* the passes of the fan-out
  Path,      \* the artifacts they may write
  Before,    \* the findings there were before it
  Queued,    \* and the queue
  Nobody

VARIABLES
  findings,  \* records with an id and the pass they were filed under
  queue,
  artifacts, \* whose bytes each path holds
  sessions,  \* the envelope of each pass
  merged     \* the passes that have been taken into the audit

svars == <<findings, queue, artifacts, sessions, merged>>

Init == /\ findings = Before /\ queue = Queued
        /\ artifacts = [f \in Path |-> Nobody]
        /\ sessions = [p \in Pass |-> "none"]
        /\ merged = {}

Open(p) ==
  /\ sessions[p] = "none"
  /\ sessions' = [sessions EXCEPT ![p] = "open"]
  /\ UNCHANGED <<findings, queue, artifacts, merged>>

Close(p) ==
  /\ sessions[p] = "open"
  /\ \E end \in {"ok", "refused", "crash"} : sessions' = [sessions EXCEPT ![p] = end]
  /\ UNCHANGED <<findings, queue, artifacts, merged>>

(* Nothing is taken away; a new finding is the pass's own, and no other one *)
(* has its id; a path that changes holds what the pass wrote.               *)
Merge(p) ==
  /\ sessions[p] = "ok" /\ p \notin merged
  /\ merged' = merged \cup {p}
  /\ findings \subseteq findings' /\ queue \subseteq queue'
  /\ \A r \in findings' \ findings :
       r.pass = p /\ \A s \in findings' : s.id = r.id => s = r
  /\ artifacts' \in [Path -> Pass \cup {Nobody}]
  /\ \A f \in Path : artifacts'[f] \in {artifacts[f], p}
  /\ UNCHANGED sessions

Next == \E p \in Pass : Open(p) \/ Close(p) \/ Merge(p)

Spec == Init /\ [][Next]_svars

(* Every finding and every artifact that was not there before is of a pass  *)
(* that was taken in whole, after a session that ended well.                *)
Whole == /\ \A r \in findings \ Before : r.pass \in merged
         /\ \A f \in Path : artifacts[f] # Nobody => artifacts[f] \in merged
         /\ \A p \in merged : p \in Pass /\ sessions[p] = "ok"
=============================================================================
