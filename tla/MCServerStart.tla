--------------------------- MODULE MCServerStart ---------------------------
(* Constant values for model checking ServerStart. *)
EXTENDS ServerStart

CONSTANTS w1, w2, t1, t2, t3, p1, p2

TwoWorkers == {w1, w2}
ThreeTenants == {t1, t2, t3}
TwoPaths == {p1, p2}
OneOrTwo == {1, 2}
=============================================================================
