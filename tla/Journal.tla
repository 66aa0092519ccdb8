------------------------------ MODULE Journal ------------------------------
(***************************************************************************)
(* What the event ledger promises about a transition, with no files and no *)
(* crashes in it: a transition is announced before it changes anything, it *)
(* is recorded only after it has, and its announcement is withdrawn only   *)
(* when it is recorded, can never be applied, or Window later writes of    *)
(* the document have outrun it.  What a partial line swallows, and what    *)
(* somebody cuts off the record, is spoiled: the environment may do that   *)
(* at any time, and nothing is promised of it afterwards.                  *)
(***************************************************************************)
EXTENDS Integers

CONSTANTS
  Transition, \* a record whose field rev numbers the write that applies it
  Window      \* how many writes the document remembers

VARIABLES
  pending,   \* announced: the event is durable although nothing has changed
  applied,   \* the change has landed
  recorded,  \* the event is in the stream
  spoiled,   \* a durable line of the event was destroyed
  writes     \* how many writes the document has seen

jvars == <<pending, applied, recorded, spoiled, writes>>

Init == /\ pending = {} /\ applied = {} /\ recorded = {} /\ spoiled = {}
        /\ writes = 0

Overtaken(t) == t.rev + Window <= writes

Announce(t) ==
  /\ t \notin pending \cup applied
  /\ pending' = pending \cup {t}
  /\ UNCHANGED <<applied, recorded, spoiled, writes>>

(* A transition is the next write of the document. *)
Land(t) ==
  /\ t \in (pending \cup spoiled) \ applied
  /\ t.rev = writes + 1
  /\ applied' = applied \cup {t}
  /\ writes' = writes + 1
  /\ UNCHANGED <<pending, recorded, spoiled>>

(* A write of the document that is no transition. *)
OtherWrite ==
  /\ writes' = writes + 1
  /\ UNCHANGED <<pending, applied, recorded, spoiled>>

Record(t) ==
  /\ t \in applied \ recorded
  /\ recorded' = recorded \cup {t}
  /\ UNCHANGED <<pending, applied, spoiled, writes>>

Withdraw ==
  /\ pending' \subseteq pending
  /\ \A t \in (pending \ pending') \cap applied :
       t \in recorded \cup spoiled \/ Overtaken(t)
  /\ UNCHANGED <<applied, recorded, spoiled, writes>>

(* The environment's: what leaves the record here is spoiled. *)
Spoil ==
  /\ spoiled \subseteq spoiled'
  /\ recorded' \subseteq recorded
  /\ recorded \ recorded' \subseteq spoiled'
  /\ UNCHANGED <<pending, applied, writes>>

Next == \/ \E t \in Transition : Announce(t) \/ Land(t) \/ Record(t)
        \/ OtherWrite \/ Withdraw \/ Spoil

Spec == Init /\ [][Next]_jvars

(* Every transition that has landed is recorded or still announced, unless *)
(* it was spoiled or overtaken, and nothing is recorded that has not       *)
(* landed.                                                                 *)
Faithful ==
  /\ \A t \in applied : t \in recorded \cup pending \cup spoiled \/ Overtaken(t)
  /\ recorded \subseteq applied
=============================================================================
