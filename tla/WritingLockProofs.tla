------------------------- MODULE WritingLockProofs -------------------------
(***************************************************************************)
(* The lock of WritingLock for any number of processes, session children,  *)
(* unlocks and cancel requests and kills at any point.  What a late step   *)
(* has changed is marked in spoiled; the invariant says of every other     *)
(* lock that it is there for the process that made it.  At the end the     *)
(* lock of a holder that was killed: nothing happens to it but that it     *)
(* gets closer to being free, and there is always a step that does.        *)
(***************************************************************************)
EXTENDS WritingLock, TLAPS

(* From mkdir to rmdir a process that is alive is inside. *)
TakingDown == {"clear_beat", "clear_cancel", "unlink", "rmdir"}
Stages     == {"made", "undo", "owned", "held"} \cup TakingDown
Inside(a)  == pc[a] \in Stages

(* An unlock is never in an acquisition, and a canceller never inside. *)
Roles == /\ \A u \in Unlockers : pc[u] \in {"idle"} \cup TakingDown
         /\ \A p \in Procs : pc[p] \in {"idle", "dead"} \cup Stages
         /\ \A c \in Cancellers : pc[c] \in {"idle", "cancel_dir", "cancel_file"}
                                  /\ about[c] = Absent

(* No two processes made the same directory, and whoever is inside, or was *)
(* when it was killed, made one.                                           *)
Apart == \A p, q \in Procs : /\ pc[p] # "idle" => about[p] # Absent
                             /\ about[p] # Absent /\ about[p] = about[q] => p = q

ChildInside == \A p \in Procs : child[p] # "none" => pc[p] \in {"held", "dead"}

(* The directory of a process that is inside is the one that is there, and *)
(* as the process left it.                                                 *)
Kept == \A p \in Procs : Inside(p) /\ about[p] \notin spoiled =>
          /\ lock.dir /\ about[p] = locks
          /\ lock.beat = IF pc[p] \in {"held", "clear_beat"} THEN "fresh" ELSE "none"
          /\ pc[p] \in {"owned", "held"} => lock.owner = about[p]
          /\ pc[p] = "rmdir" => lock.owner = Absent

(* An unlock that read the heartbeat of this directory is alone with other *)
(* unlocks, and finds it as they left it.                                  *)
Reclaimed == \A u \in Unlockers :
               Inside(u) /\ about[u] = locks /\ locks \notin spoiled /\ lock.dir =>
                 /\ \A p \in Procs : about[p] = locks => ~Inside(p)
                 /\ lock.beat # "fresh"
                 /\ pc[u] # "clear_beat" => lock.beat = "none"
                 /\ pc[u] = "rmdir" => lock.owner = Absent

(* The owner record is the maker's, and the directory somebody's. *)
Owned == lock.owner \in {Absent, Partial, locks} \/ locks \in spoiled

Attended == lock.dir /\ ~lock.cancel /\ locks \notin spoiled =>
              \/ \E p \in Procs : about[p] = locks /\ (Inside(p) \/ pc[p] = "dead")
              \/ \E u \in Unlockers : about[u] = locks /\ Inside(u)
              \/ \E c \in Cancellers : pc[c] = "cancel_file"

Safe == /\ TypeOK /\ Roles /\ Apart /\ ChildInside
        /\ Kept /\ Reclaimed /\ Owned /\ Attended

(* Every step on the files of the lock leaves a lock. *)
LockTypes(l) == /\ l \in [dir : BOOLEAN, owner : Numbers \cup {Absent, Partial},
                          beat : {"none", "fresh", "stale"}, cancel : BOOLEAN]
                /\ ~l.dir => l = Free
                /\ l.dir => lock.dir

LEMMA LeaveTypes ==
  ASSUME TypeOK, NEW a,
         NEW l \in {With("beat", "fresh"), With("beat", "none"), With("owner", Absent),
                   With("owner", Partial), With("cancel", FALSE), Free, lock},
         Leave(a, l)
  PROVE  LockTypes(lock') /\ spoiled' \subseteq 1..locks
<1>1. LockTypes(l)
  <2>1. CASE lock.dir
    <3>1. LockTypes([lock EXCEPT !["beat"] = "fresh"]) /\ LockTypes([lock EXCEPT !["beat"] = "none"])
      BY <2>1 DEF LockTypes, TypeOK
    <3>2. LockTypes([lock EXCEPT !["owner"] = Absent]) /\ LockTypes([lock EXCEPT !["owner"] = Partial])
      BY <2>1 DEF LockTypes, TypeOK
    <3>3. LockTypes([lock EXCEPT !["cancel"] = FALSE]) /\ LockTypes(lock)
      BY <2>1 DEF LockTypes, TypeOK
    <3>4. LockTypes(Free)
      BY DEF LockTypes, Free
    <3> QED
      BY <2>1, <3>1, <3>2, <3>3, <3>4 DEF With
  <2>2. CASE ~lock.dir
    <3>1. l = Free
      BY <2>2 DEF With, TypeOK
    <3> QED
      BY <3>1 DEF LockTypes, Free
  <2> QED
    BY <2>1, <2>2
<1>2. l # lock => lock.dir
  BY DEF With, TypeOK
<1>3. lock.dir => locks \in 1..locks
  BY BoundAssumption DEF TypeOK
<1> QED
  BY <1>1, <1>2, <1>3 DEF Leave, TypeOK

LEMMA InitSafe == Init => Safe
<1> SUFFICES ASSUME Init PROVE Safe
  OBVIOUS
<1>1. \A a \in Actors : pc[a] = "idle" /\ about[a] = Absent
  BY DEF Init
<1>2. TypeOK
  BY <1>1, BoundAssumption DEF Init, TypeOK, Free, Absent, Partial, Numbers, Actors
<1>3. Roles /\ Apart /\ Kept /\ Reclaimed
  BY <1>1 DEF Roles, Apart, Kept, Reclaimed, Inside, Stages, TakingDown, Actors
<1>4. ChildInside /\ Owned /\ Attended
  BY DEF Init, ChildInside, Owned, Attended, Free
<1> QED
  BY <1>2, <1>3, <1>4 DEF Safe

LEMMA NextSafe ==
  ASSUME Safe, [Next]_vars
  PROVE  Safe'
<1> USE ActorAssumption, BoundAssumption
<1> USE DEF Safe, Roles, Apart, ChildInside, Kept, Reclaimed, Owned, Attended,
            Inside, Stages, TakingDown, Actors, Goto, Done, Free, Empty, Absent, Partial, Numbers
<1>1. ASSUME NEW p \in Procs, Mkdir(p) PROVE Safe'
  <2>1. TypeOK'
    BY <1>1 DEF Mkdir, TypeOK, Leave, With
  <2>2. (Roles /\ Apart /\ ChildInside)'
    BY <1>1 DEF Mkdir, TypeOK
  <2>3. (Kept /\ Reclaimed)'
    BY <1>1 DEF Mkdir, TypeOK, Leave, With
  <2>4. (Owned /\ Attended)'
    BY <1>1 DEF Mkdir, TypeOK, Leave, With
  <2> QED
    BY <2>1, <2>2, <2>3, <2>4
<1>2. ASSUME NEW p \in Procs, WriteOwner(p) PROVE Safe'
  <2>1. TypeOK'
    BY <1>2 DEF WriteOwner, TypeOK, Leave, With
  <2>2. (Roles /\ Apart /\ ChildInside)'
    BY <1>2 DEF WriteOwner, TypeOK
  <2>3. (Kept /\ Reclaimed)'
    BY <1>2 DEF WriteOwner, TypeOK, Leave, With
  <2>4. (Owned /\ Attended)'
    BY <1>2 DEF WriteOwner, TypeOK, Leave, With
  <2> QED
    BY <2>1, <2>2, <2>3, <2>4
<1>3. ASSUME NEW p \in Procs, WriteOwnerFails(p) PROVE Safe'
  <2>1. TypeOK'
    <3>1. LockTypes(lock') /\ spoiled' \subseteq 1..locks
      BY <1>3, LeaveTypes DEF WriteOwnerFails
    <3> QED
      BY <1>3, <3>1 DEF WriteOwnerFails, TypeOK, LockTypes
  <2>2. (Roles /\ Apart /\ ChildInside)'
    BY <1>3 DEF WriteOwnerFails, TypeOK
  <2>3. (Kept /\ Reclaimed)'
    BY <1>3 DEF WriteOwnerFails, TypeOK, Leave, With
  <2>4. (Owned /\ Attended)'
    BY <1>3 DEF WriteOwnerFails, TypeOK, Leave, With
  <2> QED
    BY <2>1, <2>2, <2>3, <2>4
<1>4. ASSUME NEW p \in Procs, UndoOwner(p) PROVE Safe'
  <2>1. TypeOK'
    <3>1. LockTypes(lock') /\ spoiled' \subseteq 1..locks
      BY <1>4, LeaveTypes DEF UndoOwner
    <3> QED
      BY <1>4, <3>1 DEF UndoOwner, TypeOK, LockTypes
  <2>2. (Roles /\ Apart /\ ChildInside)'
    BY <1>4 DEF UndoOwner, TypeOK
  <2>3. (Kept /\ Reclaimed)'
    BY <1>4 DEF UndoOwner, TypeOK, Leave, With
  <2>4. (Owned /\ Attended)'
    BY <1>4 DEF UndoOwner, TypeOK, Leave, With
  <2> QED
    BY <2>1, <2>2, <2>3, <2>4
<1>5. ASSUME NEW p \in Procs, FirstBeat(p) PROVE Safe'
  <2>1. TypeOK'
    <3>1. LockTypes(lock') /\ spoiled' \subseteq 1..locks
      BY <1>5, LeaveTypes DEF FirstBeat
    <3> QED
      BY <1>5, <3>1 DEF FirstBeat, TypeOK, LockTypes
  <2>2. (Roles /\ Apart /\ ChildInside)'
    BY <1>5 DEF FirstBeat, TypeOK
  <2>3. (Kept /\ Reclaimed)'
    BY <1>5 DEF FirstBeat, TypeOK, Leave, With
  <2>4. (Owned /\ Attended)'
    BY <1>5 DEF FirstBeat, TypeOK, Leave, With
  <2> QED
    BY <2>1, <2>2, <2>3, <2>4
<1>6. ASSUME NEW p \in Procs, Spawn(p) PROVE Safe'
  <2>1. TypeOK'
    BY <1>6 DEF Spawn, TypeOK, Leave, With
  <2>2. (Roles /\ Apart /\ ChildInside)'
    BY <1>6 DEF Spawn, TypeOK
  <2>3. (Kept /\ Reclaimed)'
    BY <1>6 DEF Spawn, TypeOK, Leave, With
  <2>4. (Owned /\ Attended)'
    BY <1>6 DEF Spawn, TypeOK, Leave, With
  <2> QED
    BY <2>1, <2>2, <2>3, <2>4
<1>7. ASSUME NEW p \in Procs, Beat(p) PROVE Safe'
  <2>1. TypeOK'
    <3>1. LockTypes(lock') /\ spoiled' \subseteq 1..locks
      BY <1>7, LeaveTypes DEF Beat
    <3> QED
      BY <1>7, <3>1 DEF Beat, TypeOK, LockTypes
  <2>2. (Roles /\ Apart /\ ChildInside)'
    BY <1>7 DEF Beat, TypeOK
  <2>3. (Kept /\ Reclaimed)'
    BY <1>7 DEF Beat, TypeOK, Leave, With
  <2>4. (Owned /\ Attended)'
    BY <1>7 DEF Beat, TypeOK, Leave, With
  <2> QED
    BY <2>1, <2>2, <2>3, <2>4
<1>8. ASSUME NEW p \in Procs, ChildCheck(p) PROVE Safe'
  <2>1. TypeOK'
    BY <1>8 DEF ChildCheck, TypeOK, Leave, With
  <2>2. (Roles /\ Apart /\ ChildInside)'
    BY <1>8 DEF ChildCheck, TypeOK
  <2>3. (Kept /\ Reclaimed)'
    BY <1>8 DEF ChildCheck, TypeOK, Leave, With
  <2>4. (Owned /\ Attended)'
    BY <1>8 DEF ChildCheck, TypeOK, Leave, With
  <2> QED
    BY <2>1, <2>2, <2>3, <2>4
<1>9. ASSUME NEW p \in Procs, ChildWrote(p) PROVE Safe'
  <2>1. TypeOK'
    BY <1>9 DEF ChildWrote, TypeOK, Leave, With
  <2>2. (Roles /\ Apart /\ ChildInside)'
    BY <1>9 DEF ChildWrote, TypeOK
  <2>3. (Kept /\ Reclaimed)'
    BY <1>9 DEF ChildWrote, TypeOK, Leave, With
  <2>4. (Owned /\ Attended)'
    BY <1>9 DEF ChildWrote, TypeOK, Leave, With
  <2> QED
    BY <2>1, <2>2, <2>3, <2>4
<1>10. ASSUME NEW p \in Procs, ChildEnds(p) PROVE Safe'
  <2>1. TypeOK'
    BY <1>10 DEF ChildEnds, TypeOK, Leave, With
  <2>2. (Roles /\ Apart /\ ChildInside)'
    BY <1>10 DEF ChildEnds, TypeOK
  <2>3. (Kept /\ Reclaimed)'
    BY <1>10 DEF ChildEnds, TypeOK, Leave, With
  <2>4. (Owned /\ Attended)'
    BY <1>10 DEF ChildEnds, TypeOK, Leave, With
  <2> QED
    BY <2>1, <2>2, <2>3, <2>4
<1>11. ASSUME NEW p \in Procs, Release(p) PROVE Safe'
  <2>1. TypeOK'
    BY <1>11 DEF Release, TypeOK, Leave, With
  <2>2. (Roles /\ Apart /\ ChildInside)'
    BY <1>11 DEF Release, TypeOK
  <2>3. (Kept /\ Reclaimed)'
    BY <1>11 DEF Release, TypeOK, Leave, With
  <2>4. (Owned /\ Attended)'
    BY <1>11 DEF Release, TypeOK, Leave, With
  <2> QED
    BY <2>1, <2>2, <2>3, <2>4
<1>12. ASSUME NEW p \in Procs, Crash(p) PROVE Safe'
  <2>1. TypeOK'
    BY <1>12 DEF Crash, TypeOK, Leave, With
  <2>2. (Roles /\ Apart /\ ChildInside)'
    BY <1>12 DEF Crash, TypeOK
  <2>3. (Kept /\ Reclaimed)'
    BY <1>12 DEF Crash, TypeOK, Leave, With
  <2>4. (Owned /\ Attended)'
    BY <1>12 DEF Crash, TypeOK, Leave, With
  <2> QED
    BY <2>1, <2>2, <2>3, <2>4
<1>13. ASSUME NEW u \in Unlockers, Reclaim(u) PROVE Safe'
  <2>1. TypeOK'
    BY <1>13 DEF Reclaim, TypeOK, Leave, With
  <2>2. (Roles /\ Apart /\ ChildInside)'
    BY <1>13 DEF Reclaim, TypeOK
  <2>3. (Kept /\ Reclaimed)'
    BY <1>13 DEF Reclaim, TypeOK, Leave, With
  <2>4. (Owned /\ Attended)'
    BY <1>13 DEF Reclaim, TypeOK, Leave, With
  <2> QED
    BY <2>1, <2>2, <2>3, <2>4
<1>14. ASSUME NEW a \in Procs \cup Unlockers, ClearBeat(a) PROVE Safe'
  <2>1. TypeOK'
    <3>1. LockTypes(lock') /\ spoiled' \subseteq 1..locks
      BY <1>14, LeaveTypes DEF ClearBeat
    <3> QED
      BY <1>14, <3>1 DEF ClearBeat, TypeOK, LockTypes
  <2>2. (Roles /\ Apart /\ ChildInside)'
    BY <1>14 DEF ClearBeat, TypeOK
  <2>3. (Kept /\ Reclaimed)'
    BY <1>14 DEF ClearBeat, TypeOK, Leave, With
  <2>4. (Owned /\ Attended)'
    BY <1>14 DEF ClearBeat, TypeOK, Leave, With
  <2> QED
    BY <2>1, <2>2, <2>3, <2>4
<1>15. ASSUME NEW a \in Procs \cup Unlockers, ClearCancel(a) PROVE Safe'
  <2>1. TypeOK'
    <3>1. LockTypes(lock') /\ spoiled' \subseteq 1..locks
      BY <1>15, LeaveTypes DEF ClearCancel
    <3> QED
      BY <1>15, <3>1 DEF ClearCancel, TypeOK, LockTypes
  <2>2. (Roles /\ Apart /\ ChildInside)'
    BY <1>15 DEF ClearCancel, TypeOK
  <2>3. (Kept /\ Reclaimed)'
    BY <1>15 DEF ClearCancel, TypeOK, Leave, With
  <2>4. (Owned /\ Attended)'
    BY <1>15 DEF ClearCancel, TypeOK, Leave, With
  <2> QED
    BY <2>1, <2>2, <2>3, <2>4
<1>16. ASSUME NEW a \in Procs \cup Unlockers, Unlink(a) PROVE Safe'
  <2>1. TypeOK'
    <3>1. LockTypes(lock') /\ spoiled' \subseteq 1..locks
      BY <1>16, LeaveTypes DEF Unlink
    <3> QED
      BY <1>16, <3>1 DEF Unlink, TypeOK, LockTypes
  <2>2. (Roles /\ Apart /\ ChildInside)'
    BY <1>16 DEF Unlink, TypeOK
  <2>3. (Kept /\ Reclaimed)'
    BY <1>16 DEF Unlink, TypeOK, Leave, With
  <2>4. (Owned /\ Attended)'
    BY <1>16 DEF Unlink, TypeOK, Leave, With
  <2> QED
    BY <2>1, <2>2, <2>3, <2>4
<1>17. ASSUME NEW a \in Procs \cup Unlockers, Rmdir(a) PROVE Safe'
  <2>1. TypeOK'
    <3>1. LockTypes(lock') /\ spoiled' \subseteq 1..locks
      BY <1>17, LeaveTypes DEF Rmdir
    <3> QED
      BY <1>17, <3>1 DEF Rmdir, TypeOK, LockTypes
  <2>2. (Roles /\ Apart /\ ChildInside)'
    BY <1>17 DEF Rmdir, TypeOK
  <2>3. (Kept /\ Reclaimed)'
    BY <1>17 DEF Rmdir, TypeOK, Leave, With
  <2>4. (Owned /\ Attended)'
    BY <1>17 DEF Rmdir, TypeOK, Leave, With
  <2> QED
    BY <2>1, <2>2, <2>3, <2>4
<1>18. ASSUME NEW c \in Cancellers, CancelSeen(c) PROVE Safe'
  <2>1. TypeOK'
    BY <1>18 DEF CancelSeen, TypeOK, Leave, With
  <2>2. (Roles /\ Apart /\ ChildInside)'
    BY <1>18 DEF CancelSeen, TypeOK
  <2>3. (Kept /\ Reclaimed)'
    BY <1>18 DEF CancelSeen, TypeOK, Leave, With
  <2>4. (Owned /\ Attended)'
    BY <1>18 DEF CancelSeen, TypeOK, Leave, With
  <2> QED
    BY <2>1, <2>2, <2>3, <2>4
<1>19. ASSUME NEW c \in Cancellers, CancelMkdir(c) PROVE Safe'
  <2>1. TypeOK'
    <3>1. CASE lock.dir
      BY <1>19, <3>1 DEF CancelMkdir, TypeOK
    <3>2. CASE ~lock.dir
      <4>1. lock' = Empty /\ locks' = locks + 1 /\ locks < MaxLocks
        BY <1>19, <3>2 DEF CancelMkdir
      <4>2. about' = about /\ spoiled' = spoiled /\ child' = child
        BY <1>19 DEF CancelMkdir
      <4>3. pc' \in [Actors -> {"idle", "made", "undo", "owned", "held", "clear_beat",
                        "clear_cancel", "unlink", "rmdir", "cancel_dir",
                        "cancel_file", "dead"}]
        BY <1>19 DEF CancelMkdir, TypeOK
      <4>4. about \in [Actors -> 0..(locks + 1)] /\ spoiled \subseteq 1..(locks + 1)
            /\ locks + 1 \in 0..MaxLocks /\ locks + 1 # 0
        BY <4>1 DEF TypeOK
      <4> QED
        BY <4>1, <4>2, <4>3, <4>4 DEF TypeOK
    <3> QED
      BY <3>1, <3>2
  <2>2. (Roles /\ Apart /\ ChildInside)'
    BY <1>19 DEF CancelMkdir, TypeOK
  <2>3. (Kept /\ Reclaimed)'
    BY <1>19 DEF CancelMkdir, TypeOK, Leave, With
  <2>4. (Owned /\ Attended)'
    BY <1>19 DEF CancelMkdir, TypeOK, Leave, With
  <2> QED
    BY <2>1, <2>2, <2>3, <2>4
<1>20. ASSUME NEW c \in Cancellers, CancelWrite(c) PROVE Safe'
  <2>1. TypeOK'
    BY <1>20 DEF CancelWrite, TypeOK, Leave, With
  <2>2. (Roles /\ Apart /\ ChildInside)'
    BY <1>20 DEF CancelWrite, TypeOK
  <2>3. (Kept /\ Reclaimed)'
    BY <1>20 DEF CancelWrite, TypeOK, Leave, With
  <2>4. (Owned /\ Attended)'
    BY <1>20 DEF CancelWrite, TypeOK, Leave, With
  <2> QED
    BY <2>1, <2>2, <2>3, <2>4
<1>21. CASE LeaseStops
  BY <1>21 DEF LeaseStops, TypeOK
<1>22. CASE UNCHANGED vars
  BY <1>22 DEF vars, TypeOK
<1> QED
  BY <1>1, <1>2, <1>3, <1>4, <1>5, <1>6, <1>7, <1>8, <1>9, <1>10, <1>11,
     <1>12, <1>13, <1>14, <1>15, <1>16, <1>17, <1>18, <1>19, <1>20, <1>21, <1>22
     DEF Next, Acquire, Session, TakeDown, Cancel

LEMMA SafeHolds == Spec => []Safe
<1>1. Safe /\ [Next]_vars => Safe'
  BY NextSafe
<1> QED
  BY <1>1, InitSafe, PTL DEF Spec

(* One writing session at a time, its child included, for any number of    *)
(* processes, unlocks and cancels and with kills at any point: who begins  *)
(* to write finds nobody writing but a child that its orchestrator left    *)
(* behind in the middle of a write, unless one of the two locks was got    *)
(* at by a step that was about an earlier one.                             *)
THEOREM OneWriter == Spec => MutualExclusion
<1>1. ASSUME Safe, [Next]_vars, NEW p \in Procs, NEW q \in Procs,
             p # q, Writing(q), ~Writing(p), Writing(p)', pc[q] # "dead",
             about[p] \notin spoiled, about[q] \notin spoiled
      PROVE  FALSE
  <2> USE ActorAssumption
  <2>1. pc[q] = "held" /\ about[q] = locks /\ lock.owner = about[q] /\ about[q] # Absent
    BY <1>1 DEF Safe, ChildInside, Kept, Apart, Inside, Stages, Writing
  <2>2. about[p] # about[q]
    BY <1>1, <2>1 DEF Safe, Apart
  <2>3. FirstBeat(p) \/ ChildCheck(p)
    <3> SUFFICES ASSUME ~FirstBeat(p), ~ChildCheck(p) PROVE FALSE
      OBVIOUS
    <3>0. p \in DOMAIN pc /\ p \in DOMAIN child /\ pc[p] # "held" /\ child[p] # "writing"
      BY <1>1 DEF Safe, TypeOK, Actors, Writing
    <3>1. ASSUME NEW r \in Procs, Acquire(r) \/ Session(r) \/ Release(r) \/ Crash(r) PROVE ~Writing(p)'
      BY <3>0, <3>1
         DEF Acquire, Session, Writing, Mkdir, WriteOwner, WriteOwnerFails, UndoOwner, FirstBeat,
             Spawn, Beat, ChildCheck, ChildWrote, ChildEnds, Release, Crash, Goto, Done
    <3>2. ASSUME NEW a \in Procs \cup Unlockers, TakeDown(a) PROVE ~Writing(p)'
      BY <3>0, <3>2 DEF TakeDown, Writing, ClearBeat, ClearCancel, Unlink, Rmdir, Goto, Done
    <3>3. ASSUME NEW u \in Unlockers, Reclaim(u) PROVE ~Writing(p)'
      BY <3>0, <3>3 DEF Reclaim, Writing, Goto
    <3>4. ASSUME NEW c \in Cancellers, Cancel(c) PROVE ~Writing(p)'
      BY <3>0, <3>4 DEF Cancel, Writing, CancelSeen, CancelMkdir, CancelWrite, Goto
    <3>5. CASE LeaseStops \/ UNCHANGED vars
      BY <1>1, <3>0, <3>5 DEF LeaseStops, Writing, vars
    <3> QED
      BY <1>1, <3>1, <3>2, <3>3, <3>4, <3>5 DEF Next
  <2>4. CASE FirstBeat(p)
    BY <1>1, <2>1, <2>2, <2>4 DEF FirstBeat, Safe, Kept, Inside, Stages
  <2>5. CASE ChildCheck(p)
    BY <2>1, <2>2, <2>5 DEF ChildCheck
  <2> QED
    BY <2>3, <2>4, <2>5
<1> DEFINE Step == \A p, q \in Procs : p # q /\ Writing(q) /\ ~Writing(p) /\ Writing(p)'
                     => \/ pc[q] = "dead"
                        \/ {about[p], about[q]} \cap spoiled # {}
<1>2. Safe /\ [Next]_vars => [Step]_vars
  BY <1>1
<1> QED
  BY <1>2, SafeHolds, PTL DEF Spec, MutualExclusion

(* Nobody takes the owner record of a process that is alive and holds the  *)
(* lock but a step that is late: whatever was decided about this very lock *)
(* was right that its holder is gone.                                      *)
THEOREM HolderKeepsLock == Spec => []LiveHolderOwns
<1>1. Safe => LiveHolderOwns
  BY DEF Safe, Kept, Inside, Stages, LiveHolderOwns
<1> QED
  BY <1>1, SafeHolds, PTL

(* A lock directory without a valid owner record never outlives those who  *)
(* are making, removing or reclaiming it unless a process was killed, a    *)
(* cancel came or a late step got into it, so no writer is blocked for     *)
(* ever by an acquisition that failed half-way or by a release.            *)
THEOREM NoOrphanLock == Spec => []NoOrphan
<1>1. ASSUME Safe, lock.dir, ~lock.cancel, lock.owner \in {Absent, Partial}, locks \notin spoiled
      PROVE  \E a \in Actors : Handles(a)
  <2>1. ASSUME NEW p \in Procs, about[p] = locks, Inside(p) \/ pc[p] = "dead" PROVE Handles(p)
    <3>1. pc[p] \notin {"owned", "held"}
      <4> SUFFICES ASSUME pc[p] \in {"owned", "held"} PROVE FALSE
        OBVIOUS
      <4>1. lock.owner = about[p] /\ about[p] # Absent
        BY <1>1, <2>1 DEF Safe, Kept, Apart, Inside, Stages
      <4>2. about[p] \in 0..locks /\ locks \in 0..MaxLocks
        BY <1>1 DEF Safe, TypeOK, Actors
      <4> QED
        BY <1>1, <4>1, <4>2, BoundAssumption DEF Absent, Partial
    <3> QED
      BY <2>1, <3>1 DEF Handles, Inside, Stages, TakingDown
  <2>2. ASSUME NEW u \in Unlockers, about[u] = locks, Inside(u) PROVE Handles(u)
    BY <1>1, <2>2 DEF Handles, Safe, Roles, Inside, Stages, TakingDown
  <2>3. ASSUME NEW c \in Cancellers, pc[c] = "cancel_file" PROVE Handles(c)
    BY <2>3 DEF Handles
  <2> QED
    BY <1>1, <2>1, <2>2, <2>3 DEF Safe, Attended, Actors
<1>2. Safe => NoOrphan
  BY <1>1 DEF NoOrphan
<1> QED
  BY <1>2, SafeHolds, PTL
-----------------------------------------------------------------------------
(* The lease of a process that was killed.  Whoever made the directory is    *)
(* gone, and either the heartbeat still tells so, or an unlock has read it.  *)
AtWork(u) == Inside(u) /\ about[u] = locks

Stranded ==
  /\ lock.dir /\ ~lock.cancel /\ locks \notin spoiled
  /\ \A p \in Procs : about[p] = locks => ~Inside(p)
  /\ lock.beat # "none" \/ \E u \in Unlockers : AtWork(u)

(* The lock of a holder that was killed is stranded, unless a cancel request *)
(* or a late step got into it.                                               *)
THEOREM KilledHoldersLockIsStranded ==
  Spec => [](\A p \in Procs :
               pc[p] = "dead" /\ lock.owner = about[p] /\ lock.beat # "none"
                 => Stranded \/ lock.cancel \/ locks \in spoiled)
<1>1. ASSUME Safe, NEW p \in Procs, pc[p] = "dead", lock.owner = about[p],
             lock.beat # "none", ~lock.cancel, locks \notin spoiled
      PROVE  Stranded
  <2>1. lock.dir
    BY <1>1 DEF Safe, TypeOK, Free
  <2>2. about[p] # Absent /\ about[p] # Partial
    BY <1>1 DEF Safe, Apart, TypeOK, Actors, Partial
  <2>3. about[p] = locks /\ locks # Absent
    BY <1>1, <2>2 DEF Safe, Owned
  <2>4. ASSUME NEW q \in Procs, about[q] = locks PROVE ~Inside(q)
    <3>1. p = q
      BY <1>1, <2>3, <2>4 DEF Safe, Apart
    <3> QED
      BY <1>1, <3>1 DEF Inside, Stages, TakingDown
  <2> QED
    BY <1>1, <2>1, <2>4 DEF Stranded
<1>2. Safe => \A p \in Procs :
                pc[p] = "dead" /\ lock.owner = about[p] /\ lock.beat # "none"
                  => Stranded \/ lock.cancel \/ locks \in spoiled
  BY <1>1
<1> QED
  BY <1>2, SafeHolds, PTL

(* How many steps a stranded lock is from being free: the lease stops, an    *)
(* unlock sees it, and takes the directory down file by file; of several     *)
(* unlocks the one that is furthest counts.                                  *)
Reached(l) == \E u \in Unlockers : about[u] = locks /\ pc[u] = l

ToFree == IF Reached("rmdir")             THEN 1
          ELSE IF Reached("unlink")       THEN 2
          ELSE IF Reached("clear_cancel") THEN 3
          ELSE IF Reached("clear_beat")   THEN 4
          ELSE IF lock.beat = "stale"     THEN 5
          ELSE 6

ComesDown == Stranded => \/ ~lock'.dir \/ lock'.cancel \/ locks \in spoiled'
                         \/ Stranded' /\ ToFree' < ToFree
                         \/ Stranded' /\ ToFree' = ToFree /\ lock' = lock

(* What somebody else does to a stranded lock is nothing, or a late step. *)
Elsewhere ==
  /\ lock' = lock /\ locks' = locks
  /\ \A q \in Procs : about'[q] = locks => ~Inside(q)'
  /\ \A v \in Unlockers : \/ about'[v] = about[v] /\ pc'[v] = pc[v]
                          \/ about'[v] # locks /\ about[v] # locks

LEMMA StrandedElsewhere ==
  ASSUME Stranded, Elsewhere
  PROVE  locks \in spoiled' \/ (Stranded' /\ ToFree' = ToFree /\ lock' = lock)
<1>1. \A l : Reached(l)' <=> Reached(l)
  BY DEF Elsewhere, Reached
<1>2. ToFree' = ToFree
  BY <1>1 DEF ToFree, Elsewhere
<1>3. (\E u \in Unlockers : AtWork(u)) => \E u \in Unlockers : AtWork(u)'
  BY DEF Elsewhere, AtWork, Inside
<1>4. locks \notin spoiled' => Stranded'
  BY <1>3 DEF Stranded, Elsewhere
<1> QED
  BY <1>2, <1>4 DEF Elsewhere

LEMMA OfProcs ==
  ASSUME Safe, Stranded, NEW p \in Procs,
         Acquire(p) \/ Session(p) \/ Release(p) \/ Crash(p) \/ TakeDown(p)
  PROVE  locks \in spoiled' \/ Elsewhere
<1> USE ActorAssumption
<1>1. /\ lock.dir /\ locks # Absent /\ locks \notin spoiled
      /\ \A q \in Procs : about[q] = locks => ~Inside(q)
      /\ \A v \in Unlockers : v # p
  BY DEF Stranded, Safe, TypeOK, Absent
<1>2. DOMAIN pc = Actors /\ DOMAIN about = Actors
  BY DEF Safe, TypeOK
<1>3. CASE Mkdir(p)
  BY <1>1, <1>3 DEF Mkdir
<1>4. CASE WriteOwner(p) \/ WriteOwnerFails(p) \/ UndoOwner(p) \/ FirstBeat(p) \/ Beat(p)
           \/ ClearBeat(p) \/ ClearCancel(p) \/ Unlink(p) \/ Rmdir(p)
  <2>1. about[p] # locks
    BY <1>1, <1>4 DEF Inside, Stages, TakingDown, WriteOwner, WriteOwnerFails, UndoOwner, FirstBeat,
       Beat, ClearBeat, ClearCancel, Unlink, Rmdir
  <2>2. \E l : Leave(p, l)
    BY <1>4 DEF WriteOwner, WriteOwnerFails, UndoOwner, FirstBeat, Beat, ClearBeat, ClearCancel,
       Unlink, Rmdir
  <2>3. locks \in spoiled' \/ lock' = lock
    BY <2>1, <2>2 DEF Leave
  <2>4. locks' = locks
    BY <1>4 DEF WriteOwner, WriteOwnerFails, UndoOwner, FirstBeat, Beat, ClearBeat, ClearCancel,
       Unlink, Rmdir
  <2>5. about'[p] # locks /\ \A a \in Actors : a # p => about'[a] = about[a] /\ pc'[a] = pc[a]
    BY <1>1, <1>2, <1>4, <2>1 DEF WriteOwner, WriteOwnerFails, UndoOwner, FirstBeat, Beat, ClearBeat,
       ClearCancel, Unlink, Rmdir, Goto, Done, Actors
  <2> QED
    BY <1>1, <2>3, <2>4, <2>5 DEF Elsewhere, Inside, Actors
<1>5. CASE Spawn(p) \/ ChildCheck(p) \/ ChildWrote(p) \/ ChildEnds(p) \/ Release(p) \/ Crash(p)
  <2>1. lock' = lock /\ locks' = locks
    BY <1>5 DEF Spawn, ChildCheck, ChildWrote, ChildEnds, Release, Crash
  <2>2. \A a \in Actors : a # p => about'[a] = about[a] /\ pc'[a] = pc[a]
    BY <1>2, <1>5 DEF Spawn, ChildCheck, ChildWrote, ChildEnds, Release, Crash, Goto, Done
  <2>3. about'[p] = locks => ~Inside(p)'
    BY <1>1, <1>2, <1>5 DEF Spawn, ChildCheck, ChildWrote, ChildEnds, Release, Crash, Goto, Done,
       Inside, Stages, TakingDown, Actors
  <2> QED
    BY <1>1, <2>1, <2>2, <2>3 DEF Elsewhere, Inside, Actors
<1> QED
  BY <1>3, <1>4, <1>5 DEF Acquire, Session, TakeDown

(* An unlock at work on this directory moves on by one file. *)
LEMMA StepReached ==
  ASSUME Safe, NEW u \in Unlockers, AtWork(u), NEW m, pc' = [pc EXCEPT ![u] = m],
         about' = about, locks' = locks
  PROVE  /\ Reached(pc[u]) /\ Reached(m)'
         /\ \A l : l # m /\ Reached(l)' => Reached(l)
         /\ \A l : l # pc[u] /\ Reached(l) => Reached(l)'
<1>1. u \in DOMAIN pc
  BY DEF Safe, TypeOK, Actors
<1>2. Reached(pc[u]) /\ Reached(m)'
  BY <1>1 DEF Reached, AtWork
<1>3. \A v \in Unlockers : v # u => pc'[v] = pc[v]
  BY DEF Safe, TypeOK, Actors
<1>4. pc'[u] = m
  BY <1>1
<1> QED
  BY <1>2, <1>3, <1>4 DEF Reached

LEMMA OfUnlocks ==
  ASSUME Safe, Stranded, NEW u \in Unlockers, Reclaim(u) \/ TakeDown(u)
  PROVE  \/ ~lock'.dir \/ locks \in spoiled'
         \/ Stranded' /\ ToFree' < ToFree
         \/ Stranded' /\ ToFree' = ToFree /\ lock' = lock
<1> USE ActorAssumption
<1>1. /\ lock.dir /\ ~lock.cancel /\ locks # Absent /\ locks \notin spoiled /\ TypeOK
      /\ \A q \in Procs : about[q] = locks => ~Inside(q)
  BY DEF Stranded, Safe, TypeOK, Absent
<1>2. DOMAIN pc = Actors /\ DOMAIN about = Actors /\ u \in Actors /\ u \notin Procs
  BY DEF Safe, TypeOK, Actors
<1>3. \A v \in Unlockers : AtWork(v) =>
        /\ lock.beat # "fresh"
        /\ pc[v] # "clear_beat" => lock.beat = "none"
        /\ pc[v] = "rmdir" => lock.owner = Absent
  BY <1>1 DEF Safe, Reclaimed, AtWork
<1>a. \A l \in TakingDown : Reached(l) => \E v \in Unlockers : AtWork(v) /\ pc[v] = l
  BY DEF Reached, AtWork, Inside, Stages
<1>4. CASE Reclaim(u)
  <2>1. /\ lock.beat = "stale" /\ lock' = lock /\ locks' = locks
        /\ pc' = [pc EXCEPT ![u] = "clear_beat"] /\ about' = [about EXCEPT ![u] = locks]
        /\ spoiled' = spoiled
    BY <1>4 DEF Reclaim, Goto
  <2>2. ~Reached("rmdir") /\ ~Reached("unlink") /\ ~Reached("clear_cancel")
    BY <1>3, <1>a, <2>1 DEF TakingDown
  <2>3. Reached("clear_beat")'
    BY <1>2, <2>1 DEF Reached
  <2>4. ~Reached("rmdir")' /\ ~Reached("unlink")' /\ ~Reached("clear_cancel")'
    <3>1. \A v \in Unlockers : pc'[v] = "clear_beat" \/ (pc'[v] = pc[v] /\ about'[v] = about[v])
      BY <1>2, <2>1 DEF Actors
    <3> QED
      BY <2>1, <2>2, <3>1 DEF Reached
  <2>5. ToFree' = 4 /\ ToFree \in {4, 5}
    BY <2>1, <2>2, <2>3, <2>4 DEF ToFree
  <2>6. Stranded'
    <3>1. \A q \in Procs : about'[q] = about[q] /\ pc'[q] = pc[q]
      BY <1>2, <2>1 DEF Actors
    <3> QED
      BY <1>1, <2>1, <3>1 DEF Stranded, Inside
  <2> QED
    BY <2>1, <2>5, <2>6
<1>5. CASE TakeDown(u) /\ ~AtWork(u)
  <2>1. about[u] # locks
    BY <1>5 DEF TakeDown, ClearBeat, ClearCancel, Unlink, Rmdir, AtWork, Inside, Stages, TakingDown
  <2>2. \E l : Leave(u, l)
    BY <1>5 DEF TakeDown, ClearBeat, ClearCancel, Unlink, Rmdir
  <2>3. locks \in spoiled' \/ lock' = lock
    BY <2>1, <2>2 DEF Leave
  <2>4. locks' = locks
    BY <1>5 DEF TakeDown, ClearBeat, ClearCancel, Unlink, Rmdir
  <2>5. about'[u] # locks /\ \A a \in Actors : a # u => about'[a] = about[a] /\ pc'[a] = pc[a]
    BY <1>1, <1>2, <1>5, <2>1 DEF TakeDown, ClearBeat, ClearCancel, Unlink, Rmdir, Goto, Done
  <2>6. locks \in spoiled' \/ Elsewhere
    BY <1>1, <1>2, <2>1, <2>3, <2>4, <2>5 DEF Elsewhere, Inside, Actors
  <2> QED
    BY <2>6, StrandedElsewhere
<1>6. CASE Rmdir(u) /\ AtWork(u)
  <2>1. lock.owner = Absent /\ lock.beat = "none"
    BY <1>3, <1>6 DEF Rmdir
  <2>2. lock = Empty
    BY <1>1, <2>1 DEF TypeOK, Empty
  <2> QED
    BY <1>6, <2>2 DEF Rmdir, Leave, Free
<1>7. CASE AtWork(u) /\ (ClearBeat(u) \/ ClearCancel(u) \/ Unlink(u))
  <2> DEFINE next == IF ClearBeat(u) THEN "clear_cancel" ELSE IF ClearCancel(u) THEN "unlink"
                     ELSE "rmdir"
  <2>1. /\ locks' = locks /\ about' = about /\ lock'.dir /\ lock'.cancel = FALSE
        /\ spoiled' = spoiled
    BY <1>1, <1>7 DEF ClearBeat, ClearCancel, Unlink, Leave, With, AtWork, TypeOK
  <2>2. \A q \in Procs : pc'[q] = pc[q]
    BY <1>2, <1>7 DEF ClearBeat, ClearCancel, Unlink, Goto, Actors
  <2>3. AtWork(u)'
    BY <1>2, <1>7, <2>1 DEF AtWork, Inside, Stages, TakingDown, ClearBeat, ClearCancel, Unlink, Goto
  <2>4. Stranded'
    BY <1>1, <2>1, <2>2, <2>3 DEF Stranded, Inside
  <2>5. CASE ClearBeat(u)
    <3>1. /\ pc[u] = "clear_beat" /\ Reached("clear_beat") /\ Reached("clear_cancel")'
          /\ \A l : l # "clear_cancel" /\ Reached(l)' => Reached(l)
          /\ \A l : l # "clear_beat" /\ Reached(l) => Reached(l)'
      BY <1>7, <2>1, <2>5, StepReached DEF ClearBeat, Goto
    <3>2. Reached("rmdir") \/ Reached("unlink") \/ Reached("clear_cancel") => lock.beat = "none"
      BY <1>3, <1>a DEF TakingDown
    <3>3. lock.beat = "none" => lock' = lock
      BY <1>1, <2>5 DEF ClearBeat, Leave, With, TypeOK
    <3>4. /\ Reached("rmdir")' <=> Reached("rmdir")
          /\ Reached("unlink")' <=> Reached("unlink")
          /\ Reached("clear_cancel") => Reached("clear_cancel")'
      BY <3>1
    <3>5. CASE Reached("rmdir") \/ Reached("unlink") \/ Reached("clear_cancel")
      <4>1. ToFree' = ToFree
        BY <3>1, <3>4, <3>5 DEF ToFree
      <4> QED
        BY <2>4, <3>2, <3>3, <3>5, <4>1
    <3>6. CASE ~Reached("rmdir") /\ ~Reached("unlink") /\ ~Reached("clear_cancel")
      <4>1. ToFree = 4 /\ ToFree' = 3
        BY <3>1, <3>4, <3>6 DEF ToFree
      <4> QED
        BY <2>4, <4>1
    <3> QED
      BY <3>5, <3>6
  <2>6. CASE ClearCancel(u)
    <3>1. /\ pc[u] = "clear_cancel" /\ Reached("clear_cancel") /\ Reached("unlink")'
          /\ \A l : l # "unlink" /\ Reached(l)' => Reached(l)
          /\ \A l : l # "clear_cancel" /\ Reached(l) => Reached(l)'
      BY <1>7, <2>1, <2>6, StepReached DEF ClearCancel, Goto
    <3>3. lock' = lock
      <4>1. lock' = [lock EXCEPT !["cancel"] = FALSE] /\ lock.cancel = FALSE
        BY <1>1, <2>6 DEF ClearCancel, Leave, With, TypeOK
      <4> QED
        BY <1>1, <4>1 DEF TypeOK
    <3>4. ToFree' <= 2 /\ (ToFree = 3 \/ ToFree' = ToFree) /\ ToFree' \in Nat
      BY <3>1 DEF ToFree
    <3> QED
      BY <2>4, <3>3, <3>4
  <2>7. CASE Unlink(u)
    <3>1. /\ pc[u] = "unlink" /\ Reached("unlink") /\ Reached("rmdir")'
          /\ \A l : l # "rmdir" /\ Reached(l)' => Reached(l)
          /\ \A l : l # "unlink" /\ Reached(l) => Reached(l)'
      <4>1. pc' = [pc EXCEPT ![u] = "rmdir"] /\ pc[u] = "unlink"
        BY <2>7 DEF Unlink, Goto
      <4> QED
        BY <1>7, <2>1, <4>1, StepReached
    <3>2. Reached("rmdir") => lock.owner = Absent
      BY <1>3, <1>a DEF TakingDown
    <3>3. lock.owner = Absent => lock' = lock
      BY <1>1, <2>7 DEF Unlink, Leave, With, TypeOK
    <3>4. ToFree' = 1 /\ ToFree = IF Reached("rmdir") THEN 1 ELSE 2
      BY <3>1 DEF ToFree
    <3> QED
      BY <2>4, <3>2, <3>3, <3>4
  <2> QED
    BY <1>7, <2>5, <2>6, <2>7
<1> QED
  BY <1>4, <1>5, <1>6, <1>7 DEF TakeDown

(* For any number of processes and of unlocks, and until a cancel request or *)
(* a late step gets into it, nothing happens to a stranded lock but that it  *)
(* gets closer to being free.                                                *)
THEOREM StrandedLocksComeDown == Spec => [][ComesDown]_vars
<1>1. ASSUME Safe, Stranded, [Next]_vars
      PROVE  \/ ~lock'.dir \/ lock'.cancel \/ locks \in spoiled'
             \/ Stranded' /\ ToFree' < ToFree
             \/ Stranded' /\ ToFree' = ToFree /\ lock' = lock
  <2> USE ActorAssumption
  <2>0. /\ lock.dir /\ ~lock.cancel /\ TypeOK /\ locks \notin spoiled
        /\ \A q \in Procs : about[q] = locks => ~Inside(q)
    BY <1>1 DEF Stranded, Safe
  <2>1. ASSUME NEW p \in Procs,
               Acquire(p) \/ Session(p) \/ Release(p) \/ Crash(p) \/ TakeDown(p)
        PROVE  locks \in spoiled' \/ (Stranded' /\ ToFree' = ToFree /\ lock' = lock)
    <3>1. locks \in spoiled' \/ Elsewhere
      BY <1>1, <2>1, OfProcs
    <3>2. Elsewhere => locks \in spoiled' \/ (Stranded' /\ ToFree' = ToFree /\ lock' = lock)
      BY ONLY <1>1, StrandedElsewhere
    <3> QED
      BY ONLY <3>1, <3>2
  <2>2. ASSUME NEW c \in Cancellers, Cancel(c)
        PROVE  \/ lock'.cancel \/ locks \in spoiled'
               \/ Stranded' /\ ToFree' = ToFree /\ lock' = lock
    <3>1. CASE CancelWrite(c)
      <4>1. lock' = [lock EXCEPT !["cancel"] = TRUE]
        BY <2>0, <3>1 DEF CancelWrite, With
      <4>2. lock'.cancel = TRUE
        BY <2>0, <4>1 DEF TypeOK
      <4> QED
        BY <4>2
    <3>2. CASE CancelSeen(c) \/ CancelMkdir(c)
      <4>1. lock' = lock /\ locks' = locks /\ about' = about
        BY <2>0, <3>2 DEF CancelSeen, CancelMkdir
      <4>2. \A a \in Procs \cup Unlockers : pc'[a] = pc[a]
        BY <2>0, <3>2 DEF CancelSeen, CancelMkdir, Goto, TypeOK, Actors
      <4>3. Elsewhere
        BY <2>0, <4>1, <4>2 DEF Elsewhere, Inside
      <4> QED
        BY <1>1, <4>3, StrandedElsewhere
    <3> QED
      BY <2>2, <3>1, <3>2 DEF Cancel
  <2>3. CASE LeaseStops
    <3>1. /\ lock.beat = "fresh" /\ lock' = [lock EXCEPT !.beat = "stale"] /\ pc' = pc
          /\ about' = about /\ locks' = locks /\ spoiled' = spoiled
      BY <2>3 DEF LeaseStops
    <3>2. lock'.beat = "stale" /\ lock'.dir /\ ~lock'.cancel
      BY <2>0, <3>1 DEF TypeOK
    <3>3. \A l \in TakingDown : ~Reached(l) /\ ~Reached(l)'
      BY <1>1, <2>0, <3>1 DEF Safe, Reclaimed, Reached, Inside, Stages
    <3>4. ToFree = 6 /\ ToFree' = 5
      BY <3>1, <3>2, <3>3 DEF ToFree, TakingDown
    <3>5. Stranded'
      BY <2>0, <3>1, <3>2 DEF Stranded, Inside
    <3> QED
      BY <3>4, <3>5
  <2>4. CASE UNCHANGED vars
    <3>1. Elsewhere
      BY <2>0, <2>4 DEF vars, Elsewhere, Inside
    <3> QED
      BY <1>1, <3>1, StrandedElsewhere
  <2> QED
    BY <1>1, <2>1, <2>2, <2>3, <2>4, OfUnlocks DEF Next
<1>2. Safe /\ [Next]_vars => [ComesDown]_vars
  BY <1>1 DEF ComesDown
<1> QED
  BY <1>2, SafeHolds, PTL DEF Spec
(* The next step towards it: the clock's while the heartbeat is fresh, then  *)
(* each of unlock's, by an unlock at work on this lock or, while the         *)
(* heartbeat is there to read, by an idle one.                               *)
MayGiveBack(u) == \/ AtWork(u)
                  \/ pc[u] = "idle" /\ lock.beat # "none"

GivesBack(u) ==
  /\ UNCHANGED <<child, locks, spoiled>>
  /\ IF pc[u] = "idle" /\ lock.beat = "fresh" THEN UNCHANGED <<pc, about>>
     ELSE /\ pc' = [pc EXCEPT ![u] = [idle |-> "clear_beat", clear_beat |-> "clear_cancel",
                                      clear_cancel |-> "unlink", unlink |-> "rmdir",
                                      rmdir |-> "idle"][pc[u]]]
          /\ about' = [about EXCEPT ![u] = IF pc[u] = "rmdir" THEN Absent ELSE locks]
  /\ lock' = CASE pc[u] = "idle"         -> [lock EXCEPT !.beat = "stale"]
               [] pc[u] = "clear_beat"   -> [lock EXCEPT !.beat = "none"]
               [] pc[u] = "clear_cancel" -> [lock EXCEPT !.cancel = FALSE]
               [] pc[u] = "unlink"       -> [lock EXCEPT !.owner = Absent]
               [] pc[u] = "rmdir"        -> Free

(* How far the one unlock is from giving the lock back. *)
Distance(u) == IF pc[u] = "rmdir" THEN 1 ELSE IF pc[u] = "unlink" THEN 2
               ELSE IF pc[u] = "clear_cancel" THEN 3 ELSE IF pc[u] = "clear_beat" THEN 4
               ELSE IF lock.beat = "stale" THEN 5 ELSE 6

(* A stranded lock is never stuck: whatever other unlocks and cancels are    *)
(* under way, an unlock that may give it back has a step that brings it      *)
(* closer to being free, or frees it, and it is one of those the code's      *)
(* fairness is about.  The clock waits only for a process that was robbed of *)
(* an earlier lock and still believes that it holds one.                     *)
THEOREM StrandedLocksCanComeDown ==
  ASSUME Safe, Stranded, NEW u \in Unlockers, MayGiveBack(u), GivesBack(u),
         lock.beat = "fresh" => \A p \in Procs : pc[p] \notin {"held", "clear_beat"}
  PROVE  /\ LeaseStops \/ Reclaim(u) \/ TakeDown(u)
         /\ ~lock'.dir \/ Distance(u)' < Distance(u)
<1>0. /\ lock.dir /\ ~lock.cancel /\ TypeOK
      /\ pc[u] \in {"idle"} \cup TakingDown
      /\ u \in Actors /\ DOMAIN pc = Actors /\ DOMAIN about = Actors
  BY DEF Stranded, Safe, Roles, TypeOK, Actors
<1>1. pc[u] # "idle" => about[u] = locks
  BY DEF MayGiveBack, AtWork
<1>2. [about EXCEPT ![u] = locks] = about \/ pc[u] = "idle"
  BY <1>0, <1>1 DEF TypeOK
<1>3. CASE pc[u] = "idle" /\ lock.beat = "fresh"
  <2>1. LeaseStops
    BY <1>0, <1>3 DEF GivesBack, LeaseStops
  <2>2. lock'.beat = "stale" /\ pc' = pc
    BY <1>0, <2>1 DEF LeaseStops, TypeOK
  <2> QED
    BY <1>0, <1>3, <2>1, <2>2 DEF Distance
<1>4. CASE pc[u] = "idle" /\ lock.beat # "fresh"
  <2>1. lock.beat = "stale"
    BY <1>0, <1>4 DEF MayGiveBack, AtWork, Inside, Stages, TakingDown, TypeOK
  <2>2. [lock EXCEPT !.beat = "stale"] = lock
    BY <1>0, <2>1 DEF TypeOK
  <2>3. Reclaim(u)
    BY <1>0, <1>4, <2>1, <2>2 DEF GivesBack, Reclaim, Goto
  <2>4. pc'[u] = "clear_beat"
    BY <1>0, <2>3 DEF Reclaim, Goto
  <2> QED
    BY <1>4, <2>1, <2>3, <2>4 DEF Distance
<1>5. CASE pc[u] = "clear_beat"
  <2>1. ClearBeat(u)
    <3>1. Leave(u, With("beat", "none"))
      BY <1>0, <1>1, <1>5 DEF GivesBack, Leave, With
    <3> QED
      BY <1>2, <1>5, <3>1 DEF GivesBack, ClearBeat, Goto
  <2>2. pc'[u] = "clear_cancel"
    BY <1>0, <2>1 DEF ClearBeat, Goto
  <2> QED
    BY <1>5, <2>1, <2>2 DEF Distance, TakeDown
<1>6. CASE pc[u] = "clear_cancel"
  <2>1. ClearCancel(u)
    <3>1. lock' = [lock EXCEPT !["cancel"] = FALSE]
      BY <1>6 DEF GivesBack
    <3>2. Leave(u, With("cancel", FALSE))
      BY <1>0, <1>1, <1>6, <3>1 DEF GivesBack, Leave, With
    <3>3. Goto(u, "unlink") /\ UNCHANGED <<child, locks, about>>
      BY <1>2, <1>6 DEF GivesBack, Goto
    <3> QED
      BY <1>6, <3>2, <3>3, Zenon DEF ClearCancel
  <2>2. pc'[u] = "unlink"
    BY <1>0, <2>1 DEF ClearCancel, Goto
  <2>3. Distance(u)' < Distance(u)
    BY <1>6, <2>2 DEF Distance
  <2> QED
    BY <2>1, <2>3 DEF TakeDown
<1>7. CASE pc[u] = "unlink"
  <2>1. Unlink(u)
    <3>1. Leave(u, With("owner", Absent))
      BY <1>0, <1>1, <1>7 DEF GivesBack, Leave, With
    <3> QED
      BY <1>2, <1>7, <3>1 DEF GivesBack, Unlink, Goto
  <2>2. pc'[u] = "rmdir"
    BY <1>0, <2>1 DEF Unlink, Goto
  <2> QED
    BY <1>7, <2>1, <2>2 DEF Distance, TakeDown
<1>8. CASE pc[u] = "rmdir"
  <2>1. lock.owner = Absent /\ lock.beat = "none"
    BY <1>1, <1>8 DEF Stranded, Safe, Reclaimed, Inside, Stages, TakingDown
  <2>2. lock = Empty
    BY <1>0, <2>1 DEF TypeOK, Empty
  <2>3. Rmdir(u) /\ lock' = Free
    BY <1>1, <1>8, <2>2 DEF GivesBack, Rmdir, Goto, Done, Leave
  <2> QED
    BY <2>3 DEF TakeDown, Free
<1> QED
  BY <1>0, <1>3, <1>4, <1>5, <1>6, <1>7, <1>8 DEF TakingDown
=============================================================================
