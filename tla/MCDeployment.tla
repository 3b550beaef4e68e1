---------------------------- MODULE MCDeployment ----------------------------
(* Two builds of gmf-remote, two clients whose uploads fall into the same  *)
(* second, three configurations of which one is right.                     *)
EXTENDS Deployment

Account(password, r2) == [password |-> password, private_key |-> "right", r2 |-> r2]
MCInput == {Account("none", "right"), Account("wrong", "right"), Account("none", "wrong")}
=============================================================================
