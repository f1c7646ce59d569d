-------------------------- MODULE MCStateRetention --------------------------
(* Model-checking instance of StateRetention. *)
EXTENDS StateRetention, TLC

CONSTANTS p1, named, planned, unnamed

MCProject == {p1}
MCDir == {named, planned, unnamed}
MCSort == named :> "named" @@ planned :> "planned" @@ unnamed :> "unnamed"
MCProjectOf == named :> p1 @@ planned :> p1 @@ unnamed :> p1
=============================================================================
