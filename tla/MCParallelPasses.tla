-------------------------- MODULE MCParallelPasses --------------------------
(* A session reports and writes the artifact all of them may write; queues;   *)
(* files against another pass; files beyond its block; comes to nothing; or   *)
(* writes outside audit/.                                                     *)
EXTENDS ParallelPasses

CONSTANTS p1, p2, p3, r1, f1

S(o, w, q, f, e) == [offsets |-> o, wrong |-> w, queues |-> q, files |-> f, ends |-> e]

MCMenu == {S({0}, FALSE, {}, {f1}, "ok"), S({0}, FALSE, {r1}, {}, "ok"),
           S({0}, TRUE, {}, {}, "ok"),
           S({1}, FALSE, {}, {}, "ok"), S({0}, FALSE, {}, {}, "failed"),
           S({0}, FALSE, {}, {}, "material")}

MCGroup3 == <<p1, p2, p3>>
=============================================================================
