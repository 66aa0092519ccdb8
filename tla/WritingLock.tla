---------------------------- MODULE WritingLock ----------------------------
(***************************************************************************)
(* audit/.lock, the single-writer lock of an audit: class Lock of          *)
(* xcheck/runner.py and the verbs cancel and unlock of xcheck/cli.py.      *)
(*                                                                         *)
(* The lock is a directory.  mkdir is the acquisition; the owner record in *)
(* it carries the holder's nonce; the heartbeat makes it a lease that      *)
(* plain unlock may reclaim once it has stopped; the cancel file is a      *)
(* request to the holder.  Every file operation is an action, because any  *)
(* two processes may interleave between them.                              *)
(*                                                                         *)
(* An orchestrator runs a session child that writes under its parent's     *)
(* lock by naming the nonce (write.held_lock checks it, then _apply        *)
(* writes).  Without isolation the child works in the project itself.  It  *)
(* is started in a session of its own, so it outlives an orchestrator that *)
(* is killed.                                                              *)
(*                                                                         *)
(* Every step names the lock by its path.  Whoever made a directory, or    *)
(* read its heartbeat, goes on with the path whatever has become of it: a  *)
(* step about a directory that is gone is late and lands in the next one.  *)
(*                                                                         *)
(* Left out: legacy lock files, the host and pid rules (they choose the    *)
(* words of a refusal, never a removal), unlock --force (the operator's    *)
(* own word that nobody writes), an unlock that is killed and the events a *)
(* lease emits.                                                            *)
(***************************************************************************)
EXTENDS Integers

CONSTANTS
  Procs,      \* processes that acquire the lock: verbs, next and loop
  Parents,    \* those of them that run a session child: next and loop
  Unlockers,  \* invocations of unlock without --force
  Cancellers, \* invocations of cancel
  MaxLocks    \* bound: how often the lock directory is made

ASSUME ActorAssumption == /\ Parents \subseteq Procs
                          /\ Procs \cap Unlockers = {}
                          /\ Procs \cap Cancellers = {}
                          /\ Unlockers \cap Cancellers = {}
ASSUME BoundAssumption == MaxLocks \in Nat

VARIABLES
  lock,   \* audit/.lock: the directory and the three files in it
  pc,     \* where each process is
  child,  \* the session child of each process
  locks,  \* how many lock directories were made; the last is the one there
  about,  \* the directory each actor made, or read the heartbeat of; a
          \* process writes its number, Lock.token, into the owner record
  spoiled \* history: the directories a late step has changed

vars == <<lock, pc, child, locks, about, spoiled>>

Actors  == Procs \cup Unlockers \cup Cancellers
Absent  == 0     \* no owner record, or no token
Partial == -1    \* a half-written owner record parses as none
Numbers == 1..MaxLocks

Free  == [dir |-> FALSE, owner |-> Absent, beat |-> "none", cancel |-> FALSE]
Empty == [dir |-> TRUE, owner |-> Absent, beat |-> "none", cancel |-> FALSE]

Goto(a, l) == pc' = [pc EXCEPT ![a] = l]
Done(a)    == Goto(a, "idle") /\ about' = [about EXCEPT ![a] = Absent]

(* Writing or unlinking a file inside a directory that is gone has no effect. *)
With(f, v) == IF lock.dir THEN [lock EXCEPT ![f] = v] ELSE lock

(* What a step does to the directory at the path, whichever it was about. *)
Leave(a, l) == /\ lock' = l
               /\ spoiled' = IF l # lock /\ about[a] # locks
                              THEN spoiled \cup {locks} ELSE spoiled

Init == /\ lock = Free
        /\ pc = [a \in Actors |-> "idle"]
        /\ child = [p \in Procs |-> "none"]
        /\ locks = 0
        /\ about = [a \in Actors |-> Absent]
        /\ spoiled = {}

-----------------------------------------------------------------------------
(* Lock.acquire *)

(* Mutant: the directory may exist already. *)
MkdirExistOk(p) == /\ pc[p] = "idle"
                   /\ locks < MaxLocks
                   /\ lock' = [lock EXCEPT !.dir = TRUE]
                   /\ locks' = locks + 1
                   /\ about' = [about EXCEPT ![p] = locks']
                   /\ Goto(p, "made")
                   /\ UNCHANGED <<child, spoiled>>

(* A directory that exists refuses the acquisition, whoever made it. *)
Mkdir(p) == /\ pc[p] = "idle"
            /\ locks < MaxLocks
            /\ ~lock.dir
            /\ lock' = Empty
            /\ locks' = locks + 1
            /\ about' = [about EXCEPT ![p] = locks']
            /\ Goto(p, "made")
            /\ UNCHANGED <<child, spoiled>>

WriteOwner(p) == /\ pc[p] = "made"
                 /\ lock.dir
                 /\ Leave(p, With("owner", about[p]))
                 /\ Goto(p, "owned")
                 /\ UNCHANGED <<child, locks, about>>

(* The write may leave nothing or part of the record behind. *)
WriteOwnerFails(p) == /\ pc[p] = "made"
                      /\ Leave(p, lock) \/ Leave(p, With("owner", Partial))
                      /\ Goto(p, "undo")
                      /\ UNCHANGED <<child, locks, about>>

(* Mutant: the rollback is a bare rmdir. *)
UndoNothing(p) == /\ pc[p] = "undo"
                  /\ Goto(p, "rmdir")
                  /\ UNCHANGED <<lock, child, locks, about, spoiled>>

UndoOwner(p) == /\ pc[p] = "undo"
                /\ Leave(p, With("owner", Absent))
                /\ Goto(p, "rmdir")
                /\ UNCHANGED <<child, locks, about>>

FirstBeat(p) == /\ pc[p] = "owned"
                /\ Leave(p, With("beat", "fresh"))
                /\ Goto(p, "held")
                /\ UNCHANGED <<child, locks, about>>

-----------------------------------------------------------------------------
(* The holder's session. *)

Spawn(p) == /\ p \in Parents
            /\ pc[p] = "held"
            /\ child[p] = "none"
            /\ child' = [child EXCEPT ![p] = "running"]
            /\ UNCHANGED <<lock, pc, locks, about, spoiled>>

(* run_child's wait loop renews the lease while the child runs. *)
Beat(p) == /\ pc[p] = "held"
           /\ child[p] # "none"
           /\ Leave(p, With("beat", "fresh"))
           /\ UNCHANGED <<pc, child, locks, about>>

(* held_lock: the nonce handed down must name the owner on disk. *)
ChildCheck(p) == /\ child[p] = "running"
                 /\ lock.owner = about[p]
                 /\ child' = [child EXCEPT ![p] = "writing"]
                 /\ UNCHANGED <<lock, pc, locks, about, spoiled>>

ChildWrote(p) == /\ child[p] = "writing"
                 /\ child' = [child EXCEPT ![p] = "running"]
                 /\ UNCHANGED <<lock, pc, locks, about, spoiled>>

(* The child ends, or the wait loop ends its process group. *)
ChildEnds(p) == /\ child[p] # "none"
                /\ child' = [child EXCEPT ![p] = "none"]
                /\ UNCHANGED <<lock, pc, locks, about, spoiled>>

-----------------------------------------------------------------------------
(* Lock.release and Lock.remove take the same steps after different checks. *)

Release(p) == /\ pc[p] = "held"
              /\ child[p] = "none"
              /\ IF lock.owner = about[p] THEN Goto(p, "clear_beat") /\ UNCHANGED about
                                          ELSE Done(p)
              /\ UNCHANGED <<lock, child, locks, spoiled>>

(* Mutant: any lock whose owner has ever beaten may be reclaimed. *)
ReclaimBeaten(u) == /\ pc[u] = "idle"
                    /\ lock.dir /\ lock.beat # "none"
                    /\ Goto(u, "clear_beat")
                    /\ about' = [about EXCEPT ![u] = locks]
                    /\ UNCHANGED <<lock, child, locks, spoiled>>

(* unlock without --force: only a heartbeat that has stopped is acted on. *)
Reclaim(u) == /\ pc[u] = "idle"
              /\ lock.dir /\ lock.beat = "stale"
              /\ Goto(u, "clear_beat")
              /\ about' = [about EXCEPT ![u] = locks]
              /\ UNCHANGED <<lock, child, locks, spoiled>>

(* Mutant: the heartbeat stays in the directory. *)
ClearNothing(a) == /\ pc[a] = "clear_beat"
                   /\ Goto(a, "clear_cancel")
                   /\ UNCHANGED <<lock, child, locks, about, spoiled>>

ClearBeat(a) == /\ pc[a] = "clear_beat"
                /\ Leave(a, With("beat", "none"))
                /\ Goto(a, "clear_cancel")
                /\ UNCHANGED <<child, locks, about>>

ClearCancel(a) == /\ pc[a] = "clear_cancel"
                  /\ Leave(a, With("cancel", FALSE))
                  /\ Goto(a, "unlink")
                  /\ UNCHANGED <<child, locks, about>>

Unlink(a) == /\ pc[a] = "unlink"
             /\ Leave(a, With("owner", Absent))
             /\ Goto(a, "rmdir")
             /\ UNCHANGED <<child, locks, about>>

(* A directory that is not empty stays. *)
Rmdir(a) == /\ pc[a] = "rmdir"
            /\ Leave(a, IF lock = Empty THEN Free ELSE lock)
            /\ Done(a)
            /\ UNCHANGED <<child, locks>>

-----------------------------------------------------------------------------
(* cancel: the lock is there, then request_cancel makes sure that it is. *)

CancelSeen(c) == /\ pc[c] = "idle"
                 /\ lock.dir /\ ~lock.cancel
                 /\ Goto(c, "cancel_dir")
                 /\ UNCHANGED <<lock, child, locks, about, spoiled>>

CancelMkdir(c) == /\ pc[c] = "cancel_dir"
                  /\ IF lock.dir THEN UNCHANGED <<lock, locks>>
                     ELSE /\ locks < MaxLocks
                          /\ lock' = Empty
                          /\ locks' = locks + 1
                  /\ Goto(c, "cancel_file")
                  /\ UNCHANGED <<child, about, spoiled>>

(* A request is about the lock, not about one directory: it is never late. *)
CancelWrite(c) == /\ pc[c] = "cancel_file"
                  /\ lock' = With("cancel", TRUE)
                  /\ Goto(c, "idle")
                  /\ UNCHANGED <<child, locks, about, spoiled>>

-----------------------------------------------------------------------------
(* The clock and the kill. *)

(* lease_ttl passes without a beat.  A process that is alive and holds the *)
(* lock is taken to beat, or to release, in time.                          *)
LeaseStops == /\ lock.beat = "fresh"
              /\ \A p \in Procs : pc[p] \notin {"held", "clear_beat"}
              /\ lock' = [lock EXCEPT !.beat = "stale"]
              /\ UNCHANGED <<pc, child, locks, about, spoiled>>

(* The child is in a session of its own and goes on. *)
Crash(p) == /\ pc[p] \notin {"idle", "dead"}
            /\ Goto(p, "dead")
            /\ UNCHANGED <<lock, child, locks, about, spoiled>>

Acquire(p) == \/ Mkdir(p) \/ WriteOwner(p) \/ WriteOwnerFails(p) \/ UndoOwner(p)
              \/ FirstBeat(p)
Session(p) == Spawn(p) \/ Beat(p) \/ ChildCheck(p) \/ ChildWrote(p) \/ ChildEnds(p)
TakeDown(a) == ClearBeat(a) \/ ClearCancel(a) \/ Unlink(a) \/ Rmdir(a)
Cancel(c)  == CancelSeen(c) \/ CancelMkdir(c) \/ CancelWrite(c)

Next == \/ \E p \in Procs : Acquire(p) \/ Session(p) \/ Release(p) \/ Crash(p)
        \/ \E u \in Unlockers : Reclaim(u)
        \/ \E a \in Procs \cup Unlockers : TakeDown(a)
        \/ \E c \in Cancellers : Cancel(c)
        \/ LeaseStops

Spec == Init /\ [][Next]_vars

-----------------------------------------------------------------------------
(* Properties. *)

(* A lock directory that is gone has nothing in it. *)
TypeOK ==
  /\ lock \in [dir : BOOLEAN, owner : Numbers \cup {Absent, Partial},
               beat : {"none", "fresh", "stale"}, cancel : BOOLEAN]
  /\ ~lock.dir => lock = Free
  /\ lock.dir => locks # 0
  /\ pc \in [Actors -> {"idle", "made", "undo", "owned", "held", "clear_beat",
                        "clear_cancel", "unlink", "rmdir", "cancel_dir",
                        "cancel_file", "dead"}]
  /\ child \in [Procs -> {"none", "running", "writing"}]
  /\ locks \in 0..MaxLocks
  /\ about \in [Actors -> 0..locks]
  /\ spoiled \subseteq 1..locks

Writing(p) == pc[p] = "held" \/ child[p] = "writing"

(* One writing session at a time, the child that writes under its parent's *)
(* lock included, whoever is killed and whatever is reclaimed or cancelled:*)
(* nobody begins to write while another does.  Two things are beyond the   *)
(* lock.  A child whose orchestrator was killed ends the write it began    *)
(* under the nonce, whoever holds the lock by then; it begins none after   *)
(* that.  And a step that was about an earlier lock, the second of two     *)
(* unlocks that read one heartbeat, or what follows from it, may take down *)
(* or overwrite a lock that is held.                                       *)
MutualExclusion ==
  [][\A p, q \in Procs :
       p # q /\ Writing(q) /\ ~Writing(p) /\ Writing(p)'
         => \/ pc[q] = "dead"
            \/ {about[p], about[q]} \cap spoiled # {}]_vars

(* Nobody deletes or replaces the owner record of a process that is alive  *)
(* and holds the lock, a late step excepted: whoever read the heartbeat of *)
(* this very lock was right that its holder is gone.                       *)
LiveHolderOwns ==
  \A p \in Procs : pc[p] = "held" => lock.owner = about[p] \/ about[p] \in spoiled

(* Who handles the lock directory that is there: the one that made it, or  *)
(* read its heartbeat, killed or not, or a cancel that is about to write.  *)
Handles(a) == \/ /\ about[a] = locks
                 /\ pc[a] \in {"made", "undo", "clear_beat", "clear_cancel",
                               "unlink", "rmdir", "dead"}
              \/ pc[a] = "cancel_file"

(* The lock directory never outlives those who handle it without a valid   *)
(* owner record, unless one of them was killed, a cancel made the          *)
(* directory again or a late step got into it: such a lock blocks every    *)
(* writer until --force.                                                   *)
NoOrphan ==
  lock.dir /\ ~lock.cancel /\ lock.owner \in {Absent, Partial}
    => locks \in spoiled \/ \E a \in Actors : Handles(a)

(* Fairness: processes that are running go on, the clock does too, and an  *)
(* operator runs unlock on a lock whose heartbeat has stopped.             *)
FairSpec ==
  /\ Spec
  /\ WF_vars(LeaseStops)
  /\ \A u \in Unlockers : WF_vars(Reclaim(u) \/ TakeDown(u))
  /\ \A p \in Procs : /\ WF_vars(WriteOwner(p) \/ WriteOwnerFails(p) \/ UndoOwner(p)
                                 \/ FirstBeat(p) \/ TakeDown(p))
                      /\ WF_vars(ChildEnds(p)) /\ SF_vars(Release(p))

(* The lease of a process that was killed is reclaimed: the lock becomes   *)
(* free without --force, unless a cancel file is put into it meanwhile or  *)
(* a late step gets into it.                                               *)
LeaseReclaimed ==
  (\E p \in Procs : pc[p] = "dead" /\ lock.owner = about[p] /\ lock.beat # "none")
    ~> ~lock.dir \/ lock.cancel \/ locks \in spoiled
=============================================================================
