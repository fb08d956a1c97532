---------------------------- MODULE MCDiscovery ----------------------------
(* Values for model checking ServiceDiscovery.                             *)
EXTENDS ServiceDiscovery

CONSTANTS ledger, accounts, u1, u2, c1, c2

OneName == {ledger}
TwoNames == {ledger, accounts}
TwoUrls == {u1, u2}
TwoSlots == {c1, c2}
=============================================================================
