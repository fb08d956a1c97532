--------------------------- MODULE MCTokenization ---------------------------
(* Values for model checking Tokenization.                                 *)
EXTENDS Tokenization

CONSTANTS gold, bar, none, r1, r2, r3

OneDeposit == {gold}
TwoDeposits == {gold, bar}
TwoRequests == {r1, r2}
ThreeRequests == {r1, r2, r3}
One == {1}
AllKinds == {"create", "mint", "burn", "deposit", "withdraw", "audit"}
MintOnly == {"mint"}
=============================================================================
