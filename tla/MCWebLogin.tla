----------------------------- MODULE MCWebLogin -----------------------------
(* Constant values for model checking WebLogin. *)
EXTENDS WebLogin

CONSTANTS a1, a2

TwoLogins == {a1, a2}
=============================================================================
