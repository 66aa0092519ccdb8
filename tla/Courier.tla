------------------------------ MODULE Courier ------------------------------
(***************************************************************************)
(* The courier of xcheck/courier.py: after a session it commits what that  *)
(* session left dirty, and neither what the operator had left dirty before *)
(* it nor the scratch the session forgot outside audit/.                   *)
(*                                                                         *)
(* Contents stand for themselves and git for what git answers.  A path is  *)
(* dirty when its content is not the one in HEAD or when the index and     *)
(* HEAD do not both have it; what git does not track it names by the       *)
(* directory, where it tracks nothing in that.  Rename detection may pair  *)
(* a path that appeared with one of the same content that is gone, each    *)
(* origin once, in whatever way its heuristics find.  Of the index only    *)
(* the paths count, not the contents staged.  The event stream is left     *)
(* out: Lock.acquire has written to it before the courier first looks, so  *)
(* it is never what a session left dirty.                                  *)
(***************************************************************************)
EXTENDS FiniteSets, Functions

CONSTANTS
  Files,    \* the paths of the project
  Dirs,     \* its directories, below the root and below audit/; the highest of
            \* those with the same paths
  Under,    \* the paths under each, at any depth
  Audit,    \* the paths and the directories under audit/
  Contents, \* what a file may hold
  None,     \* no such file
  MaxDirt   \* bound: paths the operator leaves dirty at a dispatch

ASSUME FileAssumption == /\ Audit \subseteq Files \cup Dirs
                         /\ Files \cap Dirs = {}
                         /\ None \notin Contents
ASSUME DirAssumption == /\ Under \in [Dirs -> SUBSET Files]
                        /\ IsInjective(Under)
                        /\ \A d \in Dirs : \/ d \in Audit /\ Under[d] \subseteq Audit
                                           \/ d \notin Audit /\ Under[d] \cap Audit = {}

(* The directories above a path are a chain. *)
ASSUME ChainAssumption ==
  \A p \in Files : \A D \in SUBSET {d \in Dirs : p \in Under[d]} :
    D # {} => \E d \in D : \A e \in D : Under[e] \subseteq Under[d]

VARIABLES
  head,     \* the files of the HEAD commit
  tree,     \* the files of the working tree
  tracked,  \* the files of the index
  phase,    \* "idle" or "session"
  before,   \* what run_session saw first: dirty_paths and head_baseline_paths
  moves     \* a move the session made, any one of them, while both its ends stand

courierVars == <<head, tree, tracked, phase, before, moves>>

Tree == [Files -> Contents \cup {None}]

Nothing == [dirty |-> {}, base |-> {}]

Present(t) == {p \in Files : t[p] # None}

(* The directory by which git names an untracked path: the highest in which    *)
(* it tracks nothing.                                                          *)
Untracked(d) == Under[d] \cap tracked = {}
Above(p)     == {d \in Dirs : p \in Under[d] /\ Untracked(d)}
Tops(p)      == {d \in Above(p) : \A e \in Above(p) : Under[e] \subseteq Under[d]}

Listed == {p \in Files : IF head[p] # None THEN tree[p] # head[p] \/ p \notin tracked
                                           ELSE p \in tracked}
Loose  == Present(tree) \ tracked

dirty_paths == Listed \cup {p \in Loose : Above(p) = {}} \cup UNION {Tops(p) : p \in Loose}

(* What a pathspec takes. *)
Covered(paths) == {p \in Files : p \in paths \/ \E d \in paths \cap Dirs : p \in Under[d]}

CourierInit == /\ head \in Tree
               /\ tree = head /\ tracked = Present(head)
               /\ phase = "idle"
               /\ before = Nothing /\ moves = {}

-----------------------------------------------------------------------------
(* The operator edits whatever they like while no session runs. *)
Edit == /\ phase = "idle"
        /\ \E p \in Files, c \in Contents \cup {None} : tree' = [tree EXCEPT ![p] = c]
        /\ UNCHANGED <<head, tracked, phase, before, moves>>

(* git add -N and git rm --cached, by the operator or by the session; with a  *)
(* write or a move before it, git add, git rm and git mv.                      *)
Index == /\ phase \in {"idle", "session"}
         /\ \/ \E p \in Loose   : tracked' = tracked \cup {p}
            \/ \E p \in tracked : tracked' = tracked \ {p}
         /\ UNCHANGED <<head, tree, phase, before, moves>>

(* run_session notes what is dirty and what HEAD holds, before anything runs. *)
Dispatch == /\ phase = "idle"
            /\ Cardinality(dirty_paths) <= MaxDirt
            /\ before' = [dirty |-> dirty_paths, base |-> Present(head)]
            /\ moves' = {}
            /\ phase' = "session"
            /\ UNCHANGED <<head, tree, tracked>>

(* The session: it writes, deletes and moves files. *)
Write == /\ phase = "session"
         /\ \E p \in Files, c \in Contents \cup {None} :
              /\ tree' = [tree EXCEPT ![p] = c]
              /\ moves' = {m \in moves : p \notin {m[1], m[2]}}
         /\ UNCHANGED <<head, tracked, phase, before>>

MoveFile == /\ phase = "session"
            /\ \E o \in Present(tree), d \in Files :
                 /\ o # d
                 /\ tree' = [tree EXCEPT ![d] = tree[o], ![o] = None]
                 /\ moves' \in {{m \in moves : {m[1], m[2]} \cap {o, d} = {}}, {<<o, d>>}}
            /\ UNCHANGED <<head, tracked, phase, before>>

-----------------------------------------------------------------------------
(* rename_pairs: which origin git gives each path that HEAD does not have. *)
Added == Present(tree) \ Present(head)
Gone  == Present(head) \ Present(tree)

rename_pairs ==
  {r \in UNION {[D -> Gone] : D \in SUBSET Added} :
     /\ \A d \in DOMAIN r : tree[d] = head[r[d]]
     /\ IsInjective(r)}

(* Mutant: the operator's dirt is the session's too. *)
SweptDirt(post) == post

(* session_dirt: what was dirty before belongs to the operator. *)
session_dirt(post) == post \ before.dirty

(* _is_session_scratch: absent from HEAD, outside audit/, and not moved there *)
(* by this session.                                                           *)
Scratch(new, r) ==
  {p \in new : /\ p \notin Audit \cup before.base
               /\ ~(p \in DOMAIN r /\ r[p] \in before.base \cap new)}

(* Mutant: a deletion is committed whatever is held. *)
HeldWithoutRollback(new, r) ==
  LET scratch == Scratch(new, r) IN
    scratch \cup (UNION {{d, r[d]} : d \in {e \in DOMAIN r : {e, r[e]} \cap scratch # {}}} \cap new)

(* Both ends of a rename are held when one is; while anything is held, so is *)
(* a lone deletion that is nobody's origin.                                  *)
Held(new, r) ==
  LET scratch == Scratch(new, r)
      split   == {d \in DOMAIN r : {d, r[d]} \cap scratch # {}}
      pairs   == scratch \cup ((split \cup {r[d] : d \in split}) \cap new)
  IN IF pairs = {} THEN {}
     ELSE pairs \cup {p \in new \cap before.base : tree[p] = None /\ p \notin Range(r)}

Deliverable(new, held) == new \ held

(* courier_commit.  The guard on the event stream refuses, an unreadable or   *)
(* drifted state document, git add, or, after the paths are staged, git       *)
(* commit; a push that fails leaves the commit behind.                        *)
Commit ==
  /\ phase = "session"
  /\ \E r \in rename_pairs, fate \in {"done", "staged", "refused"} :
       LET new   == session_dirt(dirty_paths)
           added == Covered(Deliverable(new, Held(new, r)))
       IN /\ head' = IF fate = "done" THEN [p \in Files |-> IF p \in added THEN tree[p] ELSE head[p]]
                                       ELSE head
          /\ tracked' = IF fate = "refused" THEN tracked
                        ELSE (tracked \ added) \cup (added \cap Present(tree))
  /\ phase' = "idle" /\ before' = Nothing /\ moves' = {}
  /\ UNCHANGED tree

CourierNext == Index \/ Edit \/ Dispatch \/ Write \/ MoveFile \/ Commit

CourierSpec == CourierInit /\ [][CourierNext]_courierVars

-----------------------------------------------------------------------------
(* The variables hold what the code keeps in them.                            *)
CourierTypeOK == /\ head \in Tree /\ tree \in Tree
                 /\ tracked \subseteq Files
                 /\ phase \in {"idle", "session"}
                 /\ before.dirty \subseteq Files \cup Dirs /\ before.base \subseteq Files
                 /\ moves \subseteq Files \X Files

(* README.md:507: what was dirty before the session is never swept into an    *)
(* audit commit.  No commit changes in HEAD a path that git had named to the  *)
(* courier before, but one in a directory of audit/ where nothing is tracked  *)
(* any more; nor anything in a directory it had named, unless it names that   *)
(* no more.  And none adds a file outside audit/ whose content was not in     *)
(* tracked material.                                                          *)
OperatorWorkStays ==
  [][\A p \in Files : head'[p] # head[p] =>
       /\ p \in before.dirty => p \in Audit /\ \E d \in Dirs : p \in Under[d] /\ Untracked(d)
       /\ \A d \in before.dirty \cap dirty_paths \cap Dirs : p \notin Under[d]
       /\ head[p] = None /\ p \notin Audit => \E o \in before.base : tree[p] = head[o]]_courierVars

(* Not kept when git pairs the origin with a copy the operator left.           *)
(* courier.py:293, "no operation is ever committed half": HEAD does not lose   *)
(* a file that the session moved, to a place where the operator had nothing,   *)
(* while the content it moved is nowhere in HEAD.                              *)
Lost(m) == /\ head[m[1]] # None /\ head'[m[1]] = None
           /\ head[m[1]] = tree[m[2]]
           /\ \A p \in Files : head'[p] # tree[m[2]]

MoveKept == [][\A m \in moves : m[2] \notin before.dirty => ~Lost(m)]_courierVars

(* The same where the operator had left no file of their own behind, and no   *)
(* directory that git names as a whole hides an end of the move: in audit/    *)
(* the place it left, elsewhere its content.  A move into a new directory     *)
(* outside audit/ is committed as its deletion alone.                         *)
Swallowed(m) == \E d \in dirty_paths \cap Dirs :
                  IF d \in Audit THEN m[1] \in Under[d]
                                 ELSE \E p \in Under[d] : tree[p] = tree[m[2]]

MoveKeptClean ==
  [][before.dirty = {} => \A m \in moves : Lost(m) => Swallowed(m)]_courierVars
=============================================================================
