----------------------------- MODULE MCPayment -----------------------------
(* Values for model checking PaymentOrchestrator.                          *)
EXTENDS PaymentOrchestrator, TLC

CONSTANTS t1, t2, t3, Controller

ThreeTasks == {t1, t2, t3}
OneTask == {t1}
BothInstances == {Service, Controller}
AllTypes == {"asset_deposit", "bitcoin_purchase", "fiat_transfer"}
TransferOnly == {"fiat_transfer"}

\* The slots are interchangeable.
TaskSymmetry == Permutations(Tasks)
=============================================================================
