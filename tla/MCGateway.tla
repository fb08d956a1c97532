----------------------------- MODULE MCGateway -----------------------------
(* Values for model checking Gateway.                                      *)
EXTENDS Gateway, TLC

CONSTANTS r1, r2, r3

TwoRequests == {r1, r2}
ThreeRequests == {r1, r2, r3}

\* The request slots are interchangeable.
RequestSymmetry == Permutations(Requests)
=============================================================================
