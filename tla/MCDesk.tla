-------------------------------- MODULE MCDesk --------------------------------
(* Two machines: one whose variable leads into the project by a link, one   *)
(* with the fall-back profile only; two log roots, the second in a worktree *)
(* of the subject; a good and a blind oracle; three releases of two files;  *)
(* two findings of one unit and title; a session at each kind of adapter.   *)
EXTENDS Desk

CONSTANTS m1, m2, k1, k2, l1, l2, x1, x2

Text(trust, armed, cap, ok) ==
  [ok |-> ok, trust |-> trust, boundary |-> FALSE, armed |-> armed, cap |-> cap,
   tells |-> FALSE]

Capped == Text("trusted", FALSE, 1, TRUE)

MCTexts == {Capped, Text("trusted", TRUE, 0, TRUE), Text("none", FALSE, 2, FALSE)}

MCConfs == {[ok |-> TRUE, on |-> FALSE, cap |-> 0], [ok |-> TRUE, on |-> TRUE, cap |-> 2],
            [ok |-> FALSE, on |-> TRUE, cap |-> 2]}

Paths(f, e, x) == "flag" :> f @@ "env" :> e @@ "xdg" :> x

Profile == [by |-> "operator", text |-> Capped]

MCSetups == {[reach |-> Paths("outside", "link", "outside"), files |-> Paths(Profile, None, Profile)],
             [reach |-> Paths("unset", "inside", "outside"), files |-> Paths(None, None, Profile)]}

MCSays == k1 :> (m1 :> "defect-present" @@ m2 :> "defect-absent")
       @@ k2 :> [m \in {m1, m2} |-> "defect-absent"]

MCRoots == {<<"unset">>, <<"worktree">>}

MCShips == <<x1 :> 1 @@ x2 :> 1, x1 :> 2 @@ x2 :> 1, x1 :> 3 @@ x2 :> 0>>
MCSchema == <<1, 1, 2>>

MCKey == <<"unit and title", "unit and title">>
=============================================================================
