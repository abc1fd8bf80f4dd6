-------------------------- MODULE MCTokenValidator --------------------------
(* Constant values for model checking TokenValidator. *)
EXTENDS TokenValidator

CONSTANTS r1, r2

TwoRequests == {r1, r2}
Documents == {[issuer |-> "own", uri |-> 1], [issuer |-> "own", uri |-> 2],
              [issuer |-> "other", uri |-> 1]}
Tokens == {[kid |-> 1, good |-> TRUE], [kid |-> 2, good |-> TRUE],
           [kid |-> 1, good |-> FALSE], [kid |-> None, good |-> FALSE]}
=============================================================================
