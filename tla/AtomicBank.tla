----------------------------- MODULE AtomicBank -----------------------------
(***************************************************************************)
(* What the clients of the account service can count on: an order is       *)
(* carried out in one step, with all of its legs, or nothing moves; at     *)
(* worst it is cut short after its first leg, which is what a transfer or  *)
(* an exchange takes out, or the first initial balance of a new account.   *)
(***************************************************************************)
EXTENDS Integers, Sequences

CONSTANTS Accounts, Currencies, Requests, Amounts, Opened, InitialBalance

VARIABLES balance, order, outcome

vars == <<balance, order, outcome>>

In(a, c, n) == [account |-> a, currency |-> c, delta |-> n]
Out(a, c, n) == [account |-> a, currency |-> c, delta |-> -n]

\* Nothing to move, a payment in or out, a transfer between two accounts, an
\* exchange between two currencies of one account, one or two initial balances
\* of a new one.
Orders ==
  LET A == Accounts
      C == Currencies
      N == Amounts
  IN {<<>>}
     \cup {<<In(a, c, n)>> : a \in A, c \in C, n \in N}
     \cup {<<Out(a, c, n)>> : a \in A, c \in C, n \in N}
     \cup {o \in {<<Out(a, c, n), In(b, c, n)>> : a, b \in A, c \in C, n \in N} :
             o[1].account # o[2].account}
     \cup {o \in {<<Out(a, c, n), In(a, d, m)>> :
                    a \in A, c, d \in C, n, m \in N} :
             o[1].currency # o[2].currency}
     \cup {<<In(a, c, n)>> : a \in A, c \in C, n \in N \cup {0}}
     \cup {<<In(a, c, n), In(a, d, m)>> :
             a \in A, c, d \in C, n, m \in N \cup {0}}

\* What order o does to the balance in currency c of account a.
Net(o, a, c) ==
  LET Of(i) == IF i \in DOMAIN o /\ o[i].account = a /\ o[i].currency = c
               THEN o[i].delta ELSE 0
  IN Of(1) + Of(2)

Init ==
  /\ balance = [a \in Accounts |-> [c \in Currencies |->
                  IF a \in Opened THEN InitialBalance ELSE 0]]
  /\ order = [r \in Requests |-> <<>>]
  /\ outcome = [r \in Requests |-> "none"]

Ask(r) ==
  /\ outcome[r] = "none"
  /\ \E o \in Orders : order' = [order EXCEPT ![r] = o]
  /\ outcome' = [outcome EXCEPT ![r] = "asked"]
  /\ UNCHANGED balance

CarryOut(r) ==
  /\ outcome[r] = "asked"
  /\ \A a \in Accounts, c \in Currencies :
       balance[a][c] + Net(order[r], a, c) >= 0
  /\ balance' = [a \in Accounts |-> [c \in Currencies |->
                   balance[a][c] + Net(order[r], a, c)]]
  /\ outcome' = [outcome EXCEPT ![r] = "done"]
  /\ UNCHANGED order

Refuse(r) ==
  /\ outcome[r] = "asked"
  /\ outcome' = [outcome EXCEPT ![r] = "refused"]
  /\ UNCHANGED <<balance, order>>

CutShort(r) ==
  /\ outcome[r] = "asked"
  /\ Len(order[r]) = 2
  /\ \A a \in Accounts, c \in Currencies :
       balance[a][c] + Net(<<order[r][1]>>, a, c) >= 0
  /\ balance' = [a \in Accounts |-> [c \in Currencies |->
                   balance[a][c] + Net(<<order[r][1]>>, a, c)]]
  /\ outcome' = [outcome EXCEPT ![r] = "cut"]
  /\ UNCHANGED order

Next == \E r \in Requests : Ask(r) \/ CarryOut(r) \/ Refuse(r) \/ CutShort(r)

Spec == Init /\ [][Next]_vars
=============================================================================
