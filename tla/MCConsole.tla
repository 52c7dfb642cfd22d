----------------------------- MODULE MCConsole -----------------------------
(* Two users asked about one resource that a team and a user have a grant  *)
(* on: the page offers the team's grant to both, and only one is in it.    *)
EXTENDS Console, TLC

MCSeeds == <<"contractors", "grace">>
MCRevocable == "mallory" :> {"contractors"} @@ "grace" :> {"contractors", "grace"}
MCDeciding == "mallory" :> {"contractors"} @@ "grace" :> {"grace"}
=============================================================================
