----------------------------- MODULE MCPlanning -----------------------------
(* Two passes and two charter texts over two dimensions, one unit and one   *)
(* norm; an install, and audits from before the state document: with a      *)
(* report, with a record that does not read, with a line that is no entry.  *)
EXTENDS Planning, TLC

CONSTANTS p1, p2, c1, c2, d1, d2, u1, n1, f1

MCOrder == <<p1, p2>>

Ready(p, done) ==
  p :> [dim |-> d1, units |-> {u1}, charter |-> c1, done |-> done,
        coverage |-> IF done THEN {} ELSE None]

Doc(queue, dims) ==
  [queue |-> queue, norms |-> {n1}, dims |-> dims, units |-> {u1},
   findings |-> <<>>, construals |-> {}]

MCTree(d, halves, reports, installed) ==
  [doc |-> d, unread |-> {}, halves |-> halves,
   reports |-> [p \in Passes |-> reports], installed |-> installed, records |-> ~installed]

MCTrees == {[MCTree(Doc(<<>>, <<>>), {}, 0, TRUE) EXCEPT !.unread = {"AUDIT.md"}],
            MCTree(Doc(Ready(p1, TRUE), d1 :> {n1}), {}, 1, FALSE),
            [MCTree(Doc(Ready(p1, TRUE), d1 :> {n1}), {}, 1, FALSE) EXCEPT !.unread = {"findings"}],
            MCTree(Doc(Ready(p1, FALSE), d1 :> {n1}), {p2}, 0, FALSE)}

MCDrafts == {[doc |-> Doc(Ready(p1, FALSE), d1 :> {n1}), unread |-> {}, halves |-> {}],
             [doc |-> Doc(Ready(p1, FALSE), <<>>), unread |-> {}, halves |-> {p2}],
             [doc |-> Doc(<<>>, d1 :> {n1}), unread |-> {"units"}, halves |-> {}]}
=============================================================================
