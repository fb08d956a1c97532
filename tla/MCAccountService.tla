-------------------------- MODULE MCAccountService --------------------------
(* Values for model checking AccountService.                               *)
EXTENDS AccountService, TLC

CONSTANTS alice, bob, carol, r1, r2, USD, EUR

Everyone == {alice, bob, carol}
\* Carol has no account.
AliceAndBob == {alice, bob}
TwoRequests == {r1, r2}
Dollars == {USD}
DollarsAndEuros == {USD, EUR}
One == {1}
OneOrTwo == {1, 2}

\* The request slots are interchangeable.
RequestSymmetry == Permutations(TwoRequests)

AllKinds == {"deposit", "withdraw", "transfer", "convert", "detailed", "token",
             "charge", "status", "open"}
DepositAndStatus == {"deposit", "status"}
=============================================================================
