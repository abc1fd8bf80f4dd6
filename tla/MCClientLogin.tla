---------------------------- MODULE MCClientLogin ----------------------------
(* Constant values for model checking ClientLogin. *)
EXTENDS ClientLogin

CONSTANTS p1, p2, r1, r2

TwoProcs == {p1, p2}
\* Two logins at once, or a login beside a sync.  Two syncs exclude each other.
Jobs == [p \in TwoProcs |-> IF p = p1 THEN {"init", "loopback"} ELSE {"device", "sync"}]
TwoReqs == {r1, r2}
=============================================================================
