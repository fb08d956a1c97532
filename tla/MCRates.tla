------------------------------ MODULE MCRates ------------------------------
(* Values for model checking ExchangeRates.                                *)
EXTENDS ExchangeRates

CONSTANTS EUR, GBP, fixer, u1, p1, r1

EuroAndPound == {EUR, GBP}
EuroRate == <<<<<<USD, EUR>>>>>>
NoMetals == <<>>
EuroBase == {<<<<EUR, USD>>, <<EUR, GBP>>>>}
OneSource == {fixer}
OneUpdate == {u1}
OnePriceRun == {p1}
OneRequest == {r1}
BothWays == {<<USD, EUR>>, <<EUR, USD>>}
=============================================================================
