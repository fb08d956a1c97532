------------------------ MODULE AccountServiceProofs ------------------------
(***************************************************************************)
(* Proofs about AccountService for any accounts, currencies, amounts,      *)
(* number of concurrent requests and number of faults.                     *)
(***************************************************************************)
EXTENDS AccountService, SequenceTheorems, TLAPS

\* Every operation inserts at most three records.
LEMMA RecordCountRange ==
  ASSUME NEW o
  PROVE  RecordCount(o) \in 0..3
BY DEF RecordCount

\* Amounts are positive, so a leg is typed and its sign known.
LEMMA LegTyped ==
  ASSUME NEW a \in Accounts, NEW c \in Currencies, NEW n \in Amounts
  PROVE  /\ TakeFrom(a, c, n) \in Leg /\ AddTo(a, c, n) \in Leg
         /\ TakeFrom(a, c, n).account = a /\ AddTo(a, c, n).account = a
         /\ TakeFrom(a, c, n).delta < 0 /\ AddTo(a, c, n).delta > 0
<1>1. n \in Nat /\ n > 0
  BY AccountServiceAssumption
<1> QED
  BY <1>1 DEF TakeFrom, AddTo, Leg

\* Operations with one account and at most one leg.
LEMMA ShortWellFormed ==
  ASSUME NEW k \in Kinds \ {"open"}, NEW a \in Accounts, NEW s \in AccountStatus,
         NEW legs \in Seq(Leg), Len(legs) <= 1,
         Len(legs) = 1 => legs[1].account = a /\ legs[1].delta # 0,
         legs = <<>> <=> k = "status"
  PROVE  /\ Operation(k, <<a>>, legs, s) \in OperationType
         /\ WellFormed(Operation(k, <<a>>, legs, s))
<1> DEFINE o == Operation(k, <<a>>, legs, s)
<1>1. <<a>> \in Seq(Accounts) /\ Len(<<a>>) = 1 /\ <<a>>[1] = a
  OBVIOUS
<1>2. /\ o \in OperationType /\ o.kind = k
      /\ o.accounts = <<a>> /\ o.legs = legs
  BY <1>1 DEF Operation, OperationType
<1> HIDE DEF o
<1>3. DOMAIN legs = 1..Len(legs) /\ Len(legs) \in Nat
  OBVIOUS
<1>4. \A i \in DOMAIN legs : i = 1 /\ Len(legs) = 1
  BY <1>3
<1>5. \A i \in DOMAIN o.legs :
        \E j \in DOMAIN o.accounts : o.legs[i].account = o.accounts[j]
  <2> SUFFICES ASSUME NEW i \in DOMAIN legs
               PROVE  \E j \in DOMAIN <<a>> : legs[i].account = <<a>>[j]
    BY <1>2
  <2>1. legs[i].account = a
    BY <1>4
  <2> QED
    BY <2>1, <1>1
<1>6. RecordCount(o) # 0 => o.legs # <<>>
  BY <1>2 DEF RecordCount
<1>7. \A i \in DOMAIN o.legs :
        o.legs[i].delta # 0 /\ (o.legs[i].delta < 0 \/ i = Len(o.legs))
  BY <1>2, <1>4
<1>9. /\ o.kind \in Kinds /\ o.kind # "open"
      /\ (o.kind = "status" => o.legs = <<>>)
  BY <1>2
<1>10. WellFormed(o)
  BY <1>1, <1>2, <1>3, <1>5, <1>6, <1>7, <1>9 DEF WellFormed
<1> QED
  BY <1>2, <1>10 DEF o

\* Creations.
LEMMA OpenWellFormed ==
  ASSUME "open" \in Kinds, NEW a \in Accounts, NEW n \in 0..MaxInitialBalances,
         NEW legs \in [1..n -> {AddTo(a, c, m) : c \in Currencies,
                                               m \in Amounts \cup {0}}]
  PROVE  /\ Operation("open", <<a>>, legs, "active") \in OperationType
         /\ WellFormed(Operation("open", <<a>>, legs, "active"))
<1> DEFINE o == Operation("open", <<a>>, legs, "active")
<1>1. /\ <<a>> \in Seq(Accounts) /\ Len(<<a>>) = 1 /\ <<a>>[1] = a
      /\ 1 \in DOMAIN <<a>> /\ <<a>> # <<>>
  OBVIOUS
<1>2. \A i \in 1..n : /\ legs[i] \in Leg /\ legs[i].account = a
                      /\ legs[i].delta >= 0
  <2>1. SUFFICES ASSUME NEW c \in Currencies, NEW m \in Amounts \cup {0}
                 PROVE  /\ AddTo(a, c, m) \in Leg /\ AddTo(a, c, m).account = a
                        /\ AddTo(a, c, m).delta >= 0
    OBVIOUS
  <2>2. m \in Nat
    BY AccountServiceAssumption
  <2> QED
    BY <2>2 DEF AddTo, Leg
<1>3. legs \in Seq(Leg) /\ Len(legs) = n /\ DOMAIN legs = 1..n /\ n \in Nat
  <2>1. n \in Nat /\ legs \in [1..n -> Leg]
    BY <1>2 DEF MaxInitialBalances
  <2> QED
    BY <2>1
<1>4. n <= 2
  BY DEF MaxInitialBalances
<1>5. /\ o \in OperationType /\ o.kind = "open"
      /\ o.accounts = <<a>> /\ o.legs = legs
  BY <1>1, <1>3 DEF Operation, OperationType, AccountStatus
<1> HIDE DEF o
<1>6. \A i \in DOMAIN o.legs :
        \E j \in DOMAIN o.accounts : o.legs[i].account = o.accounts[j]
  BY <1>1, <1>2, <1>3, <1>5
<1>7. \A i \in DOMAIN o.legs : o.legs[i].delta >= 0
  BY <1>2, <1>3, <1>5
<1>8. RecordCount(o) = 0
  BY <1>5 DEF RecordCount
<1>9. WellFormed(o)
  BY <1>1, <1>3, <1>4, <1>5, <1>6, <1>7, <1>8 DEF WellFormed
<1> QED
  BY <1>5, <1>9 DEF o

\* Operations with two legs, a debit and a credit.
LEMMA LongWellFormed ==
  ASSUME NEW k \in Kinds \ {"open", "status"}, NEW accs \in Seq(Accounts),
         NEW from \in Leg, NEW to \in Leg,
         accs # <<>>, Len(accs) <= 2, from.delta < 0, to.delta # 0,
         \E j \in DOMAIN accs : from.account = accs[j],
         \E j \in DOMAIN accs : to.account = accs[j]
  PROVE  /\ Operation(k, accs, <<from, to>>, "active") \in OperationType
         /\ WellFormed(Operation(k, accs, <<from, to>>, "active"))
<1> DEFINE legs == <<from, to>>
           o == Operation(k, accs, legs, "active")
<1>1. /\ legs \in Seq(Leg) /\ Len(legs) = 2 /\ legs # <<>>
      /\ legs[1] = from /\ legs[2] = to /\ DOMAIN legs = 1..2
  OBVIOUS
<1>2. /\ o \in OperationType /\ o.kind = k
      /\ o.accounts = accs /\ o.legs = legs
  BY <1>1 DEF Operation, OperationType, AccountStatus
<1>3. \A i \in DOMAIN legs : i = 1 \/ i = 2
  BY <1>1
<1> HIDE DEF legs, o
<1>4. \A i \in DOMAIN o.legs :
        \E j \in DOMAIN o.accounts : o.legs[i].account = o.accounts[j]
  <2> SUFFICES ASSUME NEW i \in DOMAIN legs
               PROVE  \E j \in DOMAIN accs : legs[i].account = accs[j]
    BY <1>2
  <2> QED
    BY <1>1, <1>3
<1>5. \A i \in DOMAIN o.legs :
        o.legs[i].delta # 0 /\ (o.legs[i].delta < 0 \/ i = Len(o.legs))
  BY <1>1, <1>2, <1>3
<1>6. Len(accs) \in Nat /\ k # "open" /\ k # "status"
  OBVIOUS
<1>7. o.accounts # <<>> /\ Len(o.accounts) <= 2 /\ Len(o.legs) <= 2
  <2>1. Len(o.legs) = 2 /\ o.accounts = accs
    BY <1>1, <1>2
  <2> QED
    BY <2>1
<1>8. /\ o.legs # <<>> /\ o.kind # "open" /\ o.kind # "status"
      /\ o.kind \in Kinds
  BY <1>1, <1>2, <1>6
<1>9. WellFormed(o)
  BY <1>4, <1>5, <1>7, <1>8 DEF WellFormed
<1> QED
  BY <1>2, <1>9 DEF o, legs

\* The operations the handlers build are typed and well formed.
LEMMA ArriveWellFormed ==
  ASSUME NEW r \in Requests, Arrive(r)
  PROVE  \E o \in OperationType : Receive(r, o) /\ WellFormed(o)
<1>0. "active" \in AccountStatus
  BY DEF AccountStatus
<1>1. ASSUME NEW k, NEW accs, NEW legs, NEW s,
             Receive(r, Operation(k, accs, legs, s))
      PROVE  k \in Kinds
  BY <1>1 DEF Receive, Operation
<1>2. ASSUME NEW k, NEW a \in Accounts, NEW l \in Leg,
             k # "status", k # "open", l.account = a, l.delta # 0,
             Receive(r, Operation(k, <<a>>, <<l>>, "active"))
      PROVE  \E o \in OperationType : Receive(r, o) /\ WellFormed(o)
  <2>1. k \in Kinds
    BY <1>1, <1>2
  <2>2. /\ <<l>> \in Seq(Leg) /\ Len(<<l>>) = 1
        /\ <<l>>[1] = l /\ <<l>> # <<>>
    OBVIOUS
  <2>3. ASSUME NEW legs, legs = <<l>>
        PROVE  /\ Operation(k, <<a>>, legs, "active") \in OperationType
               /\ WellFormed(Operation(k, <<a>>, legs, "active"))
    <3>1. /\ legs \in Seq(Leg) /\ Len(legs) <= 1 /\ legs # <<>> /\ k # "status"
          /\ legs[1].account = a /\ legs[1].delta # 0
          /\ k \in Kinds \ {"open"}
      BY <2>1, <2>2, <2>3, <1>2
    <3> QED
      BY <3>1, <1>0, ShortWellFormed
  <2> QED
    BY <2>3, <1>2
<1>3. CASE Deposit(r)
  BY <1>2, <1>3, LegTyped DEF Deposit
<1>4. CASE Withdraw(r)
  BY <1>2, <1>4, LegTyped DEF Withdraw
<1>5. CASE Transfer(r)
  <2>1. PICK a \in Accounts, b \in Accounts, c \in Currencies, n \in Amounts :
          Receive(r, Operation("transfer", <<a, b>>,
                    <<TakeFrom(a, c, n), AddTo(b, c, n)>>, "active"))
    BY <1>5 DEF Transfer
  <2>2. "transfer" \in Kinds \ {"open", "status"}
    BY <1>1, <2>1
  <2>3. /\ <<a, b>> \in Seq(Accounts) /\ <<a, b>> # <<>> /\ Len(<<a, b>>) = 2
        /\ DOMAIN <<a, b>> = 1..2 /\ <<a, b>>[1] = a /\ <<a, b>>[2] = b
    OBVIOUS
  <2>4. ASSUME NEW accs, accs = <<a, b>>,
               NEW from, from = TakeFrom(a, c, n), NEW to, to = AddTo(b, c, n)
        PROVE  LET o == Operation("transfer", accs, <<from, to>>, "active")
               IN  o \in OperationType /\ WellFormed(o)
    <3>1. /\ from \in Leg /\ from.account = a /\ from.delta < 0
          /\ to \in Leg /\ to.account = b /\ to.delta # 0
      BY <2>4, LegTyped
    <3>2. /\ accs \in Seq(Accounts) /\ accs # <<>> /\ Len(accs) <= 2
          /\ \E j \in DOMAIN accs : from.account = accs[j]
          /\ \E j \in DOMAIN accs : to.account = accs[j]
      BY <2>3, <2>4, <3>1
    <3> QED
      BY <3>1, <3>2, <2>2, LongWellFormed
  <2> QED
    BY <2>1, <2>4
<1>6. ASSUME NEW kind \in {"convert", "detailed"},
             NEW a \in Accounts, NEW c \in Currencies, NEW d \in Currencies,
             NEW n \in Amounts, NEW net \in Amounts,
             Receive(r, Operation(kind, <<a>>,
                    <<TakeFrom(a, c, n), AddTo(a, d, net)>>, "active"))
      PROVE  \E o \in OperationType : Receive(r, o) /\ WellFormed(o)
  <2>2. kind \in Kinds \ {"open", "status"}
    BY <1>1, <1>6
  <2>3. /\ <<a>> \in Seq(Accounts) /\ <<a>> # <<>> /\ Len(<<a>>) = 1
        /\ DOMAIN <<a>> = 1..1 /\ <<a>>[1] = a
    OBVIOUS
  <2>4. ASSUME NEW accs, accs = <<a>>,
               NEW from, from = TakeFrom(a, c, n), NEW to, to = AddTo(a, d, net)
        PROVE  LET o == Operation(kind, accs, <<from, to>>, "active")
               IN  o \in OperationType /\ WellFormed(o)
    <3>1. /\ from \in Leg /\ from.account = a /\ from.delta < 0
          /\ to \in Leg /\ to.account = a /\ to.delta # 0
      BY <2>4, LegTyped
    <3>2. /\ accs \in Seq(Accounts) /\ accs # <<>> /\ Len(accs) <= 2
          /\ \E j \in DOMAIN accs : from.account = accs[j]
          /\ \E j \in DOMAIN accs : to.account = accs[j]
      BY <2>3, <2>4, <3>1
    <3> QED
      BY <3>1, <3>2, <2>2, LongWellFormed
  <2> QED
    BY <1>6, <2>4
<1>7. CASE ConvertCurrency(r)
  BY <1>6, <1>7 DEF ConvertCurrency
<1>8. CASE ConvertAssetTokenToFiat(r)
  BY <1>2, <1>8, LegTyped DEF ConvertAssetTokenToFiat
<1>9. CASE ChargeFiatForCryptoPurchase(r)
  BY <1>2, <1>9, LegTyped DEF ChargeFiatForCryptoPurchase
<1>10. CASE UpdateAccountStatus(r)
  <2>1. PICK a \in Accounts, s \in AccountStatus :
          Receive(r, Operation("status", <<a>>, <<>>, s))
    BY <1>10 DEF UpdateAccountStatus
  <2>2. "status" \in Kinds \ {"open"}
    BY <1>1, <2>1
  <2>3. ASSUME NEW legs, legs = <<>>
        PROVE  /\ Operation("status", <<a>>, legs, s) \in OperationType
               /\ WellFormed(Operation("status", <<a>>, legs, s))
    <3>1. legs \in Seq(Leg) /\ Len(legs) <= 1 /\ Len(legs) # 1
      BY <2>3
    <3> QED
      BY <3>1, <2>2, <2>3, ShortWellFormed
  <2> QED
    BY <2>1, <2>3
<1>11. CASE CreateAccount(r)
  <2>1. PICK a \in Accounts, n \in 0..MaxInitialBalances :
          \E legs \in [1..n -> {AddTo(a, c, m) : c \in Currencies,
                                               m \in Amounts \cup {0}}] :
            Receive(r, Operation("open", <<a>>, legs, "active"))
    BY <1>11 DEF CreateAccount
  <2>2. PICK legs \in [1..n -> {AddTo(a, c, m) : c \in Currencies,
                                               m \in Amounts \cup {0}}] :
          Receive(r, Operation("open", <<a>>, legs, "active"))
    BY <2>1
  <2>3. "open" \in Kinds
    BY <1>1, <2>2
  <2> QED
    BY <2>2, <2>3, OpenWellFormed
<1> QED
  BY <1>3, <1>4, <1>5, <1>7, <1>8, <1>9, <1>10, <1>11 DEF Arrive
-----------------------------------------------------------------------------
(* Types and progress.                                                     *)

Phases == {"idle"} \cup Waiting \cup Ended

Inv1 == TypeOK /\ \A r \in Requests : Progress(r)

\* What moving a request to another call changes.
LEMMA GotoEffect ==
  ASSUME pc \in [Requests -> Phases], step \in [Requests -> 1..3],
         NEW r \in Requests, NEW p \in Phases, NEW i \in 1..3, Goto(r, p, i)
  PROVE  /\ pc' \in [Requests -> Phases] /\ step' \in [Requests -> 1..3]
         /\ pc'[r] = p /\ step'[r] = i
         /\ \A q \in Requests \ {r} : pc'[q] = pc[q] /\ step'[q] = step[q]
BY DEF Goto

LEMMA AdvanceEffect ==
  ASSUME pc \in [Requests -> Phases], step \in [Requests -> 1..3],
         NEW r \in Requests, NEW p \in Phases, NEW last \in 0..3,
         Advance(r, last, p)
  PROVE  /\ pc' \in [Requests -> Phases] /\ step' \in [Requests -> 1..3]
         /\ \/ /\ step[r] < last
               /\ pc'[r] = pc[r] /\ step'[r] = step[r] + 1
            \/ /\ ~(step[r] < last)
               /\ pc'[r] = p /\ step'[r] = 1
         /\ \A q \in Requests \ {r} : pc'[q] = pc[q] /\ step'[q] = step[q]
<1>1. CASE step[r] < last
  <2>1. pc[r] \in Phases /\ step[r] + 1 \in 1..3
    BY <1>1
  <2>2. Goto(r, pc[r], step[r] + 1)
    BY <1>1 DEF Advance
  <2> QED
    BY <1>1, <2>1, <2>2, GotoEffect
<1>2. CASE ~(step[r] < last)
  <2>1. Goto(r, p, 1)
    BY <1>2 DEF Advance
  <2> QED
    BY <1>2, <2>1, GotoEffect
<1> QED
  BY <1>1, <1>2

\* A request nothing of which changes keeps its progress.
LEMMA ProgressFrame ==
  ASSUME NEW r \in Requests, Progress(r), op'[r] = op[r], pc'[r] = pc[r],
         step'[r] = step[r], applied'[r] = applied[r],
         records'[r] = records[r]
  PROVE  Progress(r)'
BY DEF Progress, WellFormed, RecordCount, Moves

\* The lengths the calls count to.
LEMMA Lengths ==
  ASSUME TypeOK, NEW r \in Requests, Progress(r), pc[r] # "idle"
  PROVE  /\ WellFormed(op[r])
         /\ op[r] \in OperationType
         /\ op[r].accounts \in Seq(Accounts) /\ op[r].legs \in Seq(Leg)
         /\ Len(op[r].accounts) \in 1..2 /\ Len(op[r].legs) \in 0..2
         /\ DOMAIN op[r].accounts = 1..Len(op[r].accounts)
         /\ DOMAIN op[r].legs = 1..Len(op[r].legs)
<1>1. WellFormed(op[r]) /\ op[r] \in OperationType
  BY DEF TypeOK, Progress
<1>2. op[r].accounts \in Seq(Accounts) /\ op[r].legs \in Seq(Leg)
  BY <1>1 DEF OperationType
<1>3. /\ op[r].accounts # <<>> /\ Len(op[r].accounts) <= 2
      /\ Len(op[r].legs) <= 2
  BY <1>1 DEF WellFormed
<1>4. ASSUME NEW S, NEW s \in Seq(S)
      PROVE  /\ Len(s) \in Nat /\ DOMAIN s = 1..Len(s)
             /\ Len(s) = 0 => s = <<>>
  <2>1. Len(s) \in Nat /\ DOMAIN s = 1..Len(s)
    OBVIOUS
  <2>2. ASSUME Len(s) = 0
        PROVE  s = <<>>
    BY <2>2, EmptySeq
  <2> QED
    BY <2>1, <2>2
<1>5. /\ Len(op[r].accounts) \in Nat /\ Len(op[r].accounts) # 0
      /\ DOMAIN op[r].accounts = 1..Len(op[r].accounts)
  BY <1>2, <1>3, <1>4
<1>6. Len(op[r].legs) \in Nat /\ DOMAIN op[r].legs = 1..Len(op[r].legs)
  BY <1>2, <1>4
<1>7. Len(op[r].accounts) \in 1..2
  <2>1. ASSUME NEW n \in Nat, n # 0, n <= 2
        PROVE  n \in 1..2
    BY <2>1
  <2> QED
    BY <1>3, <1>5, <2>1, Zenon
<1>8. Len(op[r].legs) \in 0..2
  <2>1. ASSUME NEW n \in Nat, n <= 2
        PROVE  n \in 0..2
    BY <2>1
  <2> QED
    BY <1>3, <1>6, <2>1, Zenon
<1> QED
  BY <1>1, <1>2, <1>5, <1>6, <1>7, <1>8

LEMMA InitInv1 ==
  ASSUME Init
  PROVE  Inv1
<1>1. NoDocument \in Document
  BY AccountServiceAssumption DEF NoDocument, Document
<1>2. NoOperation \in OperationType
  BY DEF NoOperation, Operation, OperationType, AccountStatus
<1>3. NoRecords \in [1..3 -> RecordStatus]
  BY DEF NoRecords, RecordStatus
<1>4. accounts \in [Accounts -> Document]
  <2>1. ASSUME NEW a \in Accounts
        PROVE  accounts[a] \in Document
    <3>1. CASE a \in Opened
      <4>1. accounts[a] = [status |-> "active",
                           available |-> [c \in Currencies |-> InitialBalance]]
        BY <3>1 DEF Init
      <4>2. InitialBalance \in Int
        BY AccountServiceAssumption
      <4> QED
        BY <4>1, <4>2 DEF Document, AccountStatus
    <3>2. CASE a \notin Opened
      BY <3>2, <1>1 DEF Init
    <3> QED
      BY <3>1, <3>2
  <2> QED
    BY <2>1 DEF Init
<1>5. posted \in [Accounts -> [Currencies -> Int]]
  BY <1>4 DEF Init, Document
<1>6. TypeOK
  <2>1. /\ op \in [Requests -> OperationType]
        /\ records \in [Requests -> [1..3 -> RecordStatus]]
        /\ memory \in [Requests -> [1..3 -> RecordStatus]]
        /\ doc \in [Requests -> [Accounts -> Document]]
    BY <1>1, <1>2, <1>3 DEF Init
  <2>2. /\ pc \in [Requests -> {"idle"} \cup Waiting \cup Ended]
        /\ step \in [Requests -> 1..3]
        /\ applied \in [Requests -> SUBSET (1..2)]
        /\ overwritten \in [Requests -> SUBSET Balances]
        /\ contended \subseteq Balances
    BY DEF Init
  <2>3. faults \in 0..MaxFaults
    BY AccountServiceAssumption DEF Init
  <2> QED
    BY <1>4, <1>5, <2>1, <2>2, <2>3 DEF TypeOK
<1>7. ASSUME NEW r \in Requests
      PROVE  Progress(r)
  BY DEF Init, Progress, NoRecords
<1> QED
  BY <1>6, <1>7 DEF Inv1

LEMMA ArriveInv1 ==
  ASSUME Inv1, NEW r \in Requests, Arrive(r)
  PROVE  Inv1'
<1>1. PICK o \in OperationType : Receive(r, o) /\ WellFormed(o)
  BY ArriveWellFormed
<1>2. /\ TypeOK /\ \A q \in Requests : Progress(q)
      /\ pc \in [Requests -> Phases] /\ step \in [Requests -> 1..3]
  BY DEF Inv1, TypeOK, Phases
<1>3. /\ Goto(r, "load", 1) /\ op' = [op EXCEPT ![r] = o] /\ pc[r] = "idle"
      /\ UNCHANGED <<accounts, records, doc, memory, faults, history>>
  BY <1>1 DEF Receive
<1>4. "load" \in Phases
  BY DEF Phases, Waiting
<1>5. /\ pc' \in [Requests -> Phases] /\ step' \in [Requests -> 1..3]
      /\ pc'[r] = "load" /\ step'[r] = 1
      /\ \A q \in Requests \ {r} : pc'[q] = pc[q] /\ step'[q] = step[q]
  BY <1>2, <1>3, <1>4, GotoEffect
<1>6. TypeOK'
  BY <1>2, <1>3, <1>5 DEF TypeOK, history, Phases
<1>7. ASSUME NEW q \in Requests
      PROVE  Progress(q)'
  <2>1. CASE q = r
    <3>1. /\ op'[r] = o /\ applied'[r] = applied[r] /\ records'[r] = records[r]
      BY <1>2, <1>3 DEF TypeOK, history
    <3>2. /\ applied[r] = {}
          /\ \A i \in 1..3 : records[r][i] # "completed"
      BY <1>2, <1>3 DEF Progress
    <3>3. 1 \in DOMAIN o.accounts
      BY <1>1 DEF WellFormed, OperationType
    <3>4. WellFormed(op'[r])
      BY <1>1, <3>1
    <3> QED
      BY <2>1, <1>5, <3>1, <3>2, <3>3, <3>4 DEF Progress, WellFormed, RecordCount
  <2>2. CASE q # r
    BY <2>2, <1>2, <1>3, <1>5, ProgressFrame DEF TypeOK, history
  <2> QED
    BY <2>1, <2>2
<1> QED
  BY <1>6, <1>7 DEF Inv1

\* An operation other than an opening or a status change inserts records.
LEMMA RecordCountNonzero ==
  ASSUME NEW o, WellFormed(o)
  PROVE  /\ o.kind \in {"open", "status"} <=> RecordCount(o) = 0
         /\ o.kind \in {"deposit", "withdraw", "transfer", "convert",
                        "detailed", "token", "charge", "status", "open"}
<1>1. o.kind \in {"deposit", "withdraw", "transfer", "convert",
                  "detailed", "token", "charge", "status", "open"}
  BY AccountServiceAssumption DEF WellFormed
<1>2. CASE o.kind \in {"open", "status"}
  BY <1>2 DEF RecordCount
<1>3. CASE o.kind \in {"deposit", "withdraw", "charge"}
  BY <1>3 DEF RecordCount
<1>4. CASE o.kind \in {"transfer", "token"}
  BY <1>4 DEF RecordCount
<1>5. CASE o.kind \in {"convert", "detailed"}
  BY <1>5 DEF RecordCount
<1> QED
  BY <1>1, <1>2, <1>3, <1>4, <1>5

LEMMA LoadInv1 ==
  ASSUME Inv1, NEW r \in Requests, Load(r)
  PROVE  Inv1'
<1> DEFINE o == op[r]
           a == o.accounts[step[r]]
           d == [doc[r] EXCEPT ![a] = accounts[a]]
           p == IF Accepts(o, d) THEN FirstSave(o) ELSE "rejected"
<1>1. /\ TypeOK /\ \A q \in Requests : Progress(q)
      /\ pc \in [Requests -> Phases] /\ step \in [Requests -> 1..3]
  BY DEF Inv1, TypeOK, Phases
<1>2. /\ pc[r] = "load"
      /\ doc' = [doc EXCEPT ![r] = d]
      /\ overwritten' = [overwritten EXCEPT ![r] = @ \ ({a} \X Currencies)]
      /\ Advance(r, Len(o.accounts), p)
      /\ UNCHANGED <<accounts, records, op, memory, faults,
                     applied, posted, contended>>
  BY DEF Load
<1>3. /\ WellFormed(o) /\ o.accounts \in Seq(Accounts)
      /\ Len(o.accounts) \in 1..2 /\ DOMAIN o.accounts = 1..Len(o.accounts)
      /\ step[r] \in DOMAIN o.accounts
      /\ o.legs \in Seq(Leg) /\ DOMAIN o.legs = 1..Len(o.legs)
      /\ Len(o.legs) \in 0..2
  BY <1>1, <1>2, Lengths DEF Progress
<1>4. /\ p \in {"insert", "addCurrency", "setStatus", "create", "rejected"}
      /\ p \in Phases
  BY DEF FirstSave, Phases, Waiting, Ended
<1>5. /\ p = "insert" => o.kind = "open" /\ o.legs = <<>>
      /\ p = "addCurrency" => o.kind = "open" /\ o.legs # <<>>
      /\ p = "create" => o.kind \notin {"open", "status"}
  BY DEF FirstSave
<1>6. a \in Accounts
  BY <1>3
<1> HIDE DEF p
<1>7. Len(o.accounts) \in 0..3
  BY <1>3
<1>8. /\ pc' \in [Requests -> Phases] /\ step' \in [Requests -> 1..3]
      /\ \/ /\ step[r] < Len(o.accounts)
            /\ pc'[r] = "load" /\ step'[r] = step[r] + 1
         \/ /\ pc'[r] = p /\ step'[r] = 1
      /\ \A q \in Requests \ {r} : pc'[q] = pc[q] /\ step'[q] = step[q]
  BY <1>1, <1>2, <1>4, <1>7, AdvanceEffect
<1>9. TypeOK'
  <2>1. doc' \in [Requests -> [Accounts -> Document]]
    BY <1>1, <1>2, <1>6 DEF TypeOK
  <2>2. overwritten' \in [Requests -> SUBSET Balances]
    BY <1>1, <1>2 DEF TypeOK
  <2> QED
    BY <1>1, <1>2, <1>8, <2>1, <2>2 DEF TypeOK, Phases
<1>10. ASSUME NEW q \in Requests
       PROVE  Progress(q)'
  <2>1. CASE q = r
    <3>1. /\ applied[r] = {}
          /\ \A i \in 1..3 : records[r][i] # "completed"
      BY <1>1, <1>2 DEF Progress
    <3>2. p = "create" => 1 \in 1..RecordCount(o)
      BY <1>3, <1>5, RecordCountRange, RecordCountNonzero
    <3>3. pc'[r] = "load" => step'[r] \in DOMAIN o.accounts
      BY <1>3, <1>4, <1>8
    <3>4. WellFormed(o)'
      BY <1>2, <1>3 DEF WellFormed, RecordCount
    <3>5. /\ op'[r] = op[r] /\ applied'[r] = applied[r]
          /\ records'[r] = records[r]
      BY <1>2
    <3>6. RecordCount(op'[r]) = RecordCount(o) /\ Moves(op'[r]) = Moves(o)
      BY <3>5
    <3>7. /\ pc'[r] \in {"load", "insert", "addCurrency", "setStatus", "create",
                         "rejected"}
          /\ pc'[r] = "create" => step'[r] \in 1..RecordCount(o)
          /\ pc'[r] \in {"insert", "addCurrency"} => o.kind = "open"
      BY <1>4, <1>5, <1>8, <3>2
    <3>8. pc'[r] = "insert" => Moves(o) = {}
      BY <1>4, <1>5, <1>8 DEF Moves
    <3>9. pc'[r] = "addCurrency" =>
            step'[r] \in DOMAIN o.legs /\ Moves(o) \cap 1..(step'[r] - 1) = {}
      BY <1>3, <1>4, <1>5, <1>8
    <3> QED
      BY <2>1, <3>1, <3>3, <3>4, <3>5, <3>6, <3>7, <3>8, <3>9 DEF Progress
  <2>2. CASE q # r
    <3>1. doc'[q] = doc[q]
      BY <2>2, <1>1, <1>2 DEF TypeOK
    <3> QED
      BY <2>2, <3>1, <1>1, <1>2, <1>8, ProgressFrame
  <2> QED
    BY <2>1, <2>2
<1> QED
  BY <1>9, <1>10 DEF Inv1

LEMMA CreateRecordInv1 ==
  ASSUME Inv1, NEW r \in Requests, CreateRecord(r)
  PROVE  Inv1'
<1> DEFINE o == op[r]
           s == IF IsConversion(o, step[r]) THEN "pending" ELSE "processing"
<1>1. /\ TypeOK /\ \A q \in Requests : Progress(q)
      /\ pc \in [Requests -> Phases] /\ step \in [Requests -> 1..3]
  BY DEF Inv1, TypeOK, Phases
<1>2. /\ pc[r] = "create"
      /\ \/ /\ Goto(r, "error", 1)
            /\ UNCHANGED <<records, memory>>
         \/ /\ records' = [records EXCEPT ![r][step[r]] = s]
            /\ memory' = [memory EXCEPT ![r][step[r]] = s]
            /\ Advance(r, RecordCount(o), "update")
      /\ UNCHANGED <<accounts, op, doc, faults, history>>
  BY DEF CreateRecord
<1>3. /\ WellFormed(o) /\ DOMAIN o.legs = 1..Len(o.legs) /\ Len(o.legs) \in 0..2
      /\ step[r] \in 1..RecordCount(o) /\ RecordCount(o) \in 0..3
      /\ o.legs \in Seq(Leg)
  BY <1>1, <1>2, Lengths, RecordCountRange DEF Progress
<1>4. 1 \in DOMAIN o.legs
  BY <1>3 DEF WellFormed
<1>5. /\ pc' \in [Requests -> Phases] /\ step' \in [Requests -> 1..3]
      /\ \/ /\ pc'[r] = "error"
         \/ /\ step[r] < RecordCount(o)
            /\ pc'[r] = "create" /\ step'[r] = step[r] + 1
         \/ /\ pc'[r] = "update" /\ step'[r] = 1
      /\ \A q \in Requests \ {r} : pc'[q] = pc[q] /\ step'[q] = step[q]
  <2>1. "error" \in Phases /\ "update" \in Phases
    BY DEF Phases, Waiting, Ended
  <2>2. CASE Goto(r, "error", 1)
    BY <2>1, <2>2, <1>1, GotoEffect
  <2>3. CASE Advance(r, RecordCount(o), "update")
    BY <2>1, <2>3, <1>1, <1>2, <1>3, AdvanceEffect
  <2> QED
    BY <1>2, <2>2, <2>3
<1>6. s \in {"pending", "processing"}
  OBVIOUS
<1> HIDE DEF s
<1>7. /\ records' \in [Requests -> [1..3 -> RecordStatus]]
      /\ memory' \in [Requests -> [1..3 -> RecordStatus]]
  <2>1. /\ s \in RecordStatus /\ step[r] \in 1..3
        /\ records \in [Requests -> [1..3 -> RecordStatus]]
        /\ memory \in [Requests -> [1..3 -> RecordStatus]]
    BY <1>1, <1>6 DEF RecordStatus, TypeOK
  <2> QED
    BY <1>2, <2>1
<1>8. TypeOK'
  BY <1>1, <1>2, <1>5, <1>7 DEF TypeOK, Phases, history
<1>9. ASSUME NEW q \in Requests
      PROVE  Progress(q)'
  <2>1. CASE q = r
    <3>1. /\ applied[r] = {}
          /\ \A i \in 1..3 : records[r][i] # "completed"
      BY <1>1, <1>2 DEF Progress
    <3>2. \A i \in 1..3 : records'[r][i] # "completed"
      BY <1>1, <1>2, <1>6, <3>1 DEF TypeOK
    <3>3. WellFormed(o)'
      BY <1>2, <1>3 DEF WellFormed, RecordCount
    <3>4. op'[r] = op[r] /\ applied'[r] = {}
      BY <1>2, <3>1 DEF history
    <3>5. RecordCount(op'[r]) = RecordCount(o) /\ Moves(op'[r]) = Moves(o)
      BY <3>4
    <3>6. /\ pc'[r] \in {"error", "create", "update"}
          /\ pc'[r] = "create" => step'[r] \in 1..RecordCount(o)
          /\ pc'[r] = "update" => step'[r] = 1
      BY <1>1, <1>3, <1>5
    <3>7. Moves(o) \cap 1..0 = {}
      OBVIOUS
    <3>8. o.kind # "open"
      BY <1>3, RecordCountNonzero
    <3> QED
      BY <2>1, <1>4, <3>2, <3>3, <3>4, <3>5, <3>6, <3>7, <3>8 DEF Progress
  <2>2. CASE q # r
    BY <2>2, <1>1, <1>2, <1>5, ProgressFrame DEF TypeOK, history
  <2> QED
    BY <2>1, <2>2
<1> QED
  BY <1>8, <1>9 DEF Inv1

\* The catch block is entered before its first record.
LEMMA CatchEffect ==
  ASSUME pc \in [Requests -> Phases], step \in [Requests -> 1..3],
         NEW r \in Requests, Catch(r)
  PROVE  /\ pc' \in [Requests -> Phases] /\ step' \in [Requests -> 1..3]
         /\ pc'[r] \in {"fail", "error"}
         /\ pc'[r] = "fail" => step'[r] \in 1..RecordCount(op[r])
         /\ \A q \in Requests \ {r} : pc'[q] = pc[q] /\ step'[q] = step[q]
<1>1. "fail" \in Phases /\ "error" \in Phases
  BY DEF Phases, Waiting, Ended
<1>2. CASE RecordCount(op[r]) = 0
  <2>1. Goto(r, "error", 1)
    BY <1>2 DEF Catch
  <2> QED
    BY <1>1, <2>1, GotoEffect
<1>3. CASE RecordCount(op[r]) # 0
  <2>1. Goto(r, "fail", 1)
    BY <1>3 DEF Catch
  <2>2. 1 \in 1..RecordCount(op[r])
    BY <1>3, RecordCountRange
  <2> QED
    BY <1>1, <2>1, <2>2, GotoEffect
<1> QED
  BY <1>2, <1>3

\* The leg that is being saved.
LEMMA CurrentLeg ==
  ASSUME TypeOK, NEW r \in Requests, Progress(r),
         pc[r] \in {"addCurrency", "update"}
  PROVE  /\ step[r] \in DOMAIN op[r].legs /\ step[r] \in 1..2
         /\ DOMAIN op[r].legs = 1..Len(op[r].legs) /\ Len(op[r].legs) \in 0..2
         /\ op[r].legs[step[r]] \in Leg
<1>1. /\ op[r].legs \in Seq(Leg) /\ DOMAIN op[r].legs = 1..Len(op[r].legs)
      /\ Len(op[r].legs) \in 0..2
  BY Lengths
<1>2. step[r] \in DOMAIN op[r].legs
  BY DEF Progress
<1>3. step[r] \in 1..2
  <2>1. ASSUME NEW n \in 0..2, NEW i \in 1..n
        PROVE  i \in 1..2
    OBVIOUS
  <2>2. step[r] \in 1..Len(op[r].legs)
    BY <1>1, <1>2, Zenon
  <2> QED
    BY <1>1, <2>1, <2>2, Zenon
<1>4. op[r].legs[step[r]] \in Leg
  BY <1>1, <1>2
<1> QED
  BY <1>1, <1>2, <1>3, <1>4

\* What the saves make of a document is one.
LEMMA SavedDocument ==
  ASSUME NEW d \in Document, NEW c \in Currencies, NEW n \in Int
  PROVE  /\ [d EXCEPT !.status = "active"] \in Document
         /\ [d EXCEPT !.available[c] = n] \in Document
<1>1. [d EXCEPT !.status = "active"] \in Document
  BY DEF Document, AccountStatus
<1>2. [d EXCEPT !.available[c] = n] \in Document
  BY DEF Document
<1> QED
  BY <1>1, <1>2

LEMMA InsertEffect ==
  ASSUME TypeOK, NEW r \in Requests, NEW a \in Accounts, NEW d \in Document,
         Insert(r, a, d)
  PROVE  /\ accounts' \in [Accounts -> Document]
         /\ doc' \in [Requests -> [Accounts -> Document]]
         /\ overwritten' \in [Requests -> SUBSET Balances]
         /\ accounts'[a] = [d EXCEPT !.status = "active"]
         /\ doc'[r][a] = [d EXCEPT !.status = "active"]
         /\ \A b \in Accounts \ {a} : accounts'[b] = accounts[b]
                                      /\ doc'[r][b] = doc[r][b]
         /\ \A q \in Requests \ {r} : doc'[q] = doc[q]
         /\ overwritten'[r] = {}
         /\ \A q \in Requests \ {r} :
              overwritten'[q] = overwritten[q] \cup ({a} \X Currencies)
<1> DEFINE e == [d EXCEPT !.status = "active"]
<1>1. e \in Document
  BY DEF Document, AccountStatus
<1>2. /\ accounts' = [accounts EXCEPT ![a] = e]
      /\ doc' = [doc EXCEPT ![r][a] = e]
      /\ overwritten' = [q \in Requests |-> IF q = r THEN {}
                           ELSE overwritten[q] \cup ({a} \X Currencies)]
  BY DEF Insert
<1> HIDE DEF e
<1>3. /\ accounts \in [Accounts -> Document]
      /\ doc \in [Requests -> [Accounts -> Document]]
      /\ overwritten \in [Requests -> SUBSET Balances]
  BY DEF TypeOK
<1>4. doc[r] \in [Accounts -> Document]
  BY <1>3
<1>5. [doc[r] EXCEPT ![a] = e] \in [Accounts -> Document]
  BY <1>1, <1>4
<1>6. doc' \in [Requests -> [Accounts -> Document]]
  BY <1>2, <1>3, <1>5
<1>7. {a} \X Currencies \subseteq Balances
  BY DEF Balances
<1>8. overwritten' \in [Requests -> SUBSET Balances]
  BY <1>2, <1>3, <1>7
<1>9. /\ doc'[r][a] = e
      /\ \A b \in Accounts \ {a} : doc'[r][b] = doc[r][b]
      /\ \A q \in Requests \ {r} : doc'[q] = doc[q]
  BY <1>2, <1>3, <1>4
<1> QED
  BY <1>1, <1>2, <1>3, <1>6, <1>8, <1>9 DEF e

\* A leg is done with: what may have been saved, and where the request stands.
LEMMA AfterUpdateProgress ==
  ASSUME TypeOK, NEW r \in Requests, Progress(r),
         pc[r] \in {"addCurrency", "update"},
         op' = op, records' = records, AfterUpdate(r),
         applied'[r] = applied[r] \cup ({step[r]} \cap Moves(op[r]))
  PROVE  /\ pc' \in [Requests -> Phases] /\ step' \in [Requests -> 1..3]
         /\ pc'[r] \in {"addCurrency", "insert", "update", "balanceAfter"}
         /\ \A q \in Requests \ {r} : pc'[q] = pc[q] /\ step'[q] = step[q]
         /\ Progress(r)'
<1> DEFINE o == op[r]
           i == step[r]
<1>1. /\ pc \in [Requests -> Phases] /\ step \in [Requests -> 1..3]
      /\ {"addCurrency", "insert", "update", "balanceAfter"} \subseteq Phases
  BY DEF TypeOK, Phases, Waiting
<1>2. /\ WellFormed(o) /\ i \in DOMAIN o.legs /\ i \in 1..2
      /\ DOMAIN o.legs = 1..Len(o.legs) /\ Len(o.legs) \in 0..2
      /\ pc[r] # "idle"
  BY Lengths, CurrentLeg
<1>3. /\ applied[r] = Moves(o) \cap 1..(i - 1)
      /\ \A k \in 1..3 : records[r][k] # "completed"
      /\ pc[r] = "addCurrency" => o.kind = "open"
  BY DEF Progress
<1>4. applied'[r] = Moves(o) \cap 1..i
  BY <1>2, <1>3
<1>5. WellFormed(o)' /\ op'[r] = op[r] /\ records'[r] = records[r]
  BY <1>2 DEF WellFormed, RecordCount
<1>6. RecordCount(op'[r]) = RecordCount(o) /\ Moves(op'[r]) = Moves(o)
  BY <1>5
<1>7. Moves(o) \subseteq DOMAIN o.legs
  BY DEF Moves
<1>8. CASE o.kind = "open"
  <2>1. /\ i < Len(o.legs) => Goto(r, "addCurrency", i + 1)
        /\ ~(i < Len(o.legs)) => Goto(r, "insert", 1)
    BY <1>8 DEF AfterUpdate, NextBalance
  <2>2. CASE i < Len(o.legs)
    <3>1. i + 1 \in 1..3 /\ i + 1 \in DOMAIN o.legs /\ (i + 1) - 1 = i
      <4>1. ASSUME NEW n \in 0..2, NEW k \in 1..2, k < n
            PROVE  k + 1 \in 1..3 /\ k + 1 \in 1..n /\ (k + 1) - 1 = k
        BY <4>1
      <4> HIDE DEF o, i
      <4> QED
        BY <1>2, <2>2, <4>1
    <3>2. /\ pc' \in [Requests -> Phases] /\ step' \in [Requests -> 1..3]
          /\ pc'[r] = "addCurrency" /\ step'[r] = i + 1
          /\ \A q \in Requests \ {r} : pc'[q] = pc[q] /\ step'[q] = step[q]
      BY <1>1, <2>1, <2>2, <3>1, GotoEffect
    <3>3. applied'[r] = Moves(o) \cap 1..(step'[r] - 1)
      BY <1>4, <3>1, <3>2
    <3>4. step'[r] \in DOMAIN o.legs
      BY <3>1, <3>2
    <3> QED
      BY <1>3, <1>5, <1>6, <1>8, <3>2, <3>3, <3>4 DEF Progress
  <2>3. CASE ~(i < Len(o.legs))
    <3>1. /\ pc' \in [Requests -> Phases] /\ step' \in [Requests -> 1..3]
          /\ pc'[r] = "insert" /\ step'[r] = 1
          /\ \A q \in Requests \ {r} : pc'[q] = pc[q] /\ step'[q] = step[q]
      BY <1>1, <2>1, <2>3, GotoEffect
    <3>2. i = Len(o.legs)
      BY <1>2, <2>3
    <3>3. applied'[r] = Moves(o)
      BY <1>2, <1>4, <1>7, <1>8, <3>2
    <3> QED
      BY <1>3, <1>5, <1>6, <1>8, <3>1, <3>3 DEF Progress
  <2> QED
    BY <2>2, <2>3
<1>9. CASE o.kind # "open"
  <2>1. pc[r] = "update" /\ Advance(r, Len(op[r].legs), "balanceAfter")
    BY <1>3, <1>9 DEF AfterUpdate
  <2>2. Len(op[r].legs) \in 0..3 /\ "balanceAfter" \in Phases
    BY <1>1, <1>2
  <2>3. /\ pc' \in [Requests -> Phases] /\ step' \in [Requests -> 1..3]
        /\ \/ /\ i < Len(o.legs)
              /\ pc'[r] = "update" /\ step'[r] = i + 1
           \/ /\ ~(i < Len(o.legs))
              /\ pc'[r] = "balanceAfter" /\ step'[r] = 1
        /\ \A q \in Requests \ {r} : pc'[q] = pc[q] /\ step'[q] = step[q]
    <3>1. /\ pc \in [Requests -> Phases] /\ step \in [Requests -> 1..3]
          /\ "balanceAfter" \in Phases
      BY <1>1
    <3>2. ASSUME NEW n \in 0..3, Advance(r, n, "balanceAfter")
          PROVE  /\ pc' \in [Requests -> Phases] /\ step' \in [Requests -> 1..3]
                 /\ \/ /\ step[r] < n
                       /\ pc'[r] = pc[r] /\ step'[r] = step[r] + 1
                    \/ /\ ~(step[r] < n)
                       /\ pc'[r] = "balanceAfter" /\ step'[r] = 1
                 /\ \A q \in Requests \ {r} :
                      pc'[q] = pc[q] /\ step'[q] = step[q]
      BY <3>1, <3>2, AdvanceEffect
    <3> QED
      BY <2>1, <2>2, <3>2
  <2>4. \A k \in DOMAIN o.legs : o.legs[k].delta # 0
    BY <1>2, <1>9 DEF WellFormed
  <2>5. Moves(o) = DOMAIN o.legs
    BY <2>4 DEF Moves
  <2>6. RecordCount(o) # 0
    <3>1. o.kind # "status"
      BY <1>2 DEF WellFormed
    <3> QED
      BY <1>2, <1>9, <3>1, RecordCountNonzero
  <2>7. CASE i < Len(o.legs)
    <3>1. i + 1 \in DOMAIN o.legs /\ (i + 1) - 1 = i
      BY <1>2, <2>7
    <3>2. /\ pc'[r] = "update" /\ step'[r] \in DOMAIN o.legs
          /\ applied'[r] = Moves(o) \cap 1..(step'[r] - 1)
      BY <1>4, <2>3, <2>7, <3>1
    <3> QED
      BY <1>3, <1>5, <1>6, <1>9, <2>3, <3>2 DEF Progress
  <2>8. CASE ~(i < Len(o.legs))
    <3>1. i = Len(o.legs) /\ 1 \in DOMAIN o.legs
      BY <1>2, <2>8
    <3>2. /\ pc'[r] = "balanceAfter" /\ step'[r] \in DOMAIN o.legs
          /\ applied'[r] = DOMAIN o.legs
      BY <1>2, <1>4, <2>3, <2>5, <2>8, <3>1
    <3> QED
      BY <1>3, <1>5, <1>6, <1>9, <2>3, <2>6, <3>2 DEF Progress
  <2> QED
    BY <2>7, <2>8
<1> QED
  BY <1>8, <1>9

\* The catch block, or the error answer, is entered with what has been saved.
LEMMA CatchProgress ==
  ASSUME TypeOK, NEW r \in Requests, Progress(r), pc[r] # "idle",
         op' = op, records' = records, UNCHANGED history, Catch(r)
  PROVE  /\ pc' \in [Requests -> Phases] /\ step' \in [Requests -> 1..3]
         /\ pc'[r] \in {"fail", "error"}
         /\ \A q \in Requests \ {r} : pc'[q] = pc[q] /\ step'[q] = step[q]
         /\ Progress(r)'
<1>1. pc \in [Requests -> Phases] /\ step \in [Requests -> 1..3]
  BY DEF TypeOK, Phases
<1>2. /\ pc' \in [Requests -> Phases] /\ step' \in [Requests -> 1..3]
      /\ pc'[r] \in {"fail", "error"}
      /\ pc'[r] = "fail" => step'[r] \in 1..RecordCount(op[r])
      /\ \A q \in Requests \ {r} : pc'[q] = pc[q] /\ step'[q] = step[q]
  BY <1>1, CatchEffect
<1>3. WellFormed(op[r])
  BY DEF Progress
<1>4. WellFormed(op[r])' /\ op'[r] = op[r]
  BY <1>3 DEF WellFormed, RecordCount, history
<1>5. RecordCount(op'[r]) = RecordCount(op[r])
  BY <1>4
<1> QED
  BY <1>2, <1>3, <1>4, <1>5 DEF Progress

\* The saves of a leg change the balances of one account only.
LEMMA PostEffect ==
  ASSUME TypeOK, NEW r \in Requests, NEW leg \in Leg, step[r] \in 1..2,
         Post(r, leg)
  PROVE  /\ posted' \in [Accounts -> [Currencies -> Int]]
         /\ applied' \in [Requests -> SUBSET (1..2)]
         /\ applied'[r] = applied[r] \cup {step[r]}
         /\ \A q \in Requests \ {r} : applied'[q] = applied[q]
         /\ \A b \in Accounts, k \in Currencies : posted'[b][k] =
              IF b = leg.account /\ k = leg.currency
              THEN posted[b][k] + leg.delta ELSE posted[b][k]
<1> DEFINE a == leg.account
           c == leg.currency
           n == posted[a][c] + leg.delta
<1>1. /\ a \in Accounts /\ c \in Currencies /\ leg.delta \in Int
      /\ posted \in [Accounts -> [Currencies -> Int]]
      /\ applied \in [Requests -> SUBSET (1..2)]
  BY DEF Leg, TypeOK
<1>2. n \in Int
  BY <1>1
<1>3. /\ posted' = [posted EXCEPT ![a][c] = n]
      /\ applied' = [applied EXCEPT ![r] = @ \cup {step[r]}]
  BY DEF Post
<1>4. applied[r] \cup {step[r]} \in SUBSET (1..2)
  BY <1>1
<1>5. /\ applied' \in [Requests -> SUBSET (1..2)]
      /\ applied'[r] = applied[r] \cup {step[r]}
      /\ \A q \in Requests \ {r} : applied'[q] = applied[q]
  BY <1>1, <1>3, <1>4
<1> HIDE DEF a, c, n
<1>6. /\ posted' \in [Accounts -> [Currencies -> Int]]
      /\ \A b \in Accounts, k \in Currencies : posted'[b][k] =
           IF b = a /\ k = c THEN n ELSE posted[b][k]
  BY <1>1, <1>2, <1>3
<1> QED
  BY <1>5, <1>6 DEF a, c, n

LEMMA RememberEffect ==
  ASSUME TypeOK, NEW r \in Requests, NEW leg \in Leg, Remember(r, leg)
  PROVE  /\ overwritten' \in [Requests -> SUBSET Balances]
         /\ contended' \subseteq Balances
<1>1. <<leg.account, leg.currency>> \in Balances
  BY DEF Balances, Leg
<1>2. /\ overwritten' = [q \in Requests |-> IF q = r THEN overwritten[q]
                ELSE overwritten[q] \cup {<<leg.account, leg.currency>>}]
      /\ \/ contended' = contended \cup {<<leg.account, leg.currency>>}
         \/ contended' = contended
  BY DEF Remember
<1> QED
  BY <1>1, <1>2 DEF TypeOK

LEMMA UpdateBalanceInv1 ==
  ASSUME Inv1, NEW r \in Requests, UpdateBalance(r)
  PROVE  Inv1'
<1> DEFINE leg == op[r].legs[step[r]]
           a == leg.account
           c == leg.currency
           copy == doc[r][a]
           new == copy.available[c] + leg.delta
           d == [copy EXCEPT !.available[c] = new]
<1>1. /\ TypeOK /\ \A q \in Requests : Progress(q)
      /\ pc \in [Requests -> Phases] /\ step \in [Requests -> 1..3]
  BY DEF Inv1, TypeOK, Phases
<1>2. pc[r] = "update" /\ UNCHANGED <<records, op, memory, faults>>
  BY DEF UpdateBalance
<1>3. /\ step[r] \in DOMAIN op[r].legs /\ step[r] \in 1..2
      /\ DOMAIN op[r].legs = 1..Len(op[r].legs) /\ Len(op[r].legs) \in 0..2
      /\ leg \in Leg
  BY <1>1, <1>2, CurrentLeg
<1>4. /\ a \in Accounts /\ c \in Currencies /\ leg.delta \in Int
      /\ copy \in Document /\ accounts[a] \in Document
      /\ accounts \in [Accounts -> Document]
      /\ doc \in [Requests -> [Accounts -> Document]]
      /\ doc[r] \in [Accounts -> Document]
      /\ new \in Int /\ d \in Document
  <2>1. a \in Accounts /\ c \in Currencies /\ leg.delta \in Int
    BY <1>3 DEF Leg
  <2>2. copy \in Document /\ new \in Int
    BY <1>1, <2>1 DEF TypeOK, Document
  <2>3. d \in Document
    BY <2>1, <2>2, SavedDocument
  <2> QED
    BY <1>1, <2>1, <2>2, <2>3 DEF TypeOK
<1>5. /\ op[r].kind # "open" => leg.delta # 0
      /\ op[r].kind = "open" => leg.delta > 0
  BY <1>1, <1>2, <1>3, <1>4 DEF Progress, WellFormed
<1>6. {step[r]} \cap Moves(op[r]) = {step[r]}
  <2>1. ASSUME NEW x \in Int, x > 0
        PROVE  x # 0
    BY <2>1
  <2>2. leg.delta # 0
    BY <1>4, <1>5, <2>1, Zenon
  <2> QED
    BY <1>3, <2>2 DEF Moves
<1> HIDE DEF d, new, copy
<1>8. CASE /\ Catch(r) /\ UNCHANGED <<accounts, doc, history>>
  <2>1. /\ pc' \in [Requests -> Phases] /\ step' \in [Requests -> 1..3]
        /\ \A q \in Requests \ {r} : pc'[q] = pc[q] /\ step'[q] = step[q]
        /\ Progress(r)'
    BY <1>1, <1>2, <1>8, CatchProgress
  <2>2. TypeOK'
    BY <1>1, <1>2, <1>8, <2>1 DEF TypeOK, Phases, history
  <2>3. \A q \in Requests \ {r} : Progress(q)'
    BY <1>1, <1>2, <1>8, <2>1, ProgressFrame DEF history
  <2> QED
    BY <2>1, <2>2, <2>3 DEF Inv1
<1>9. ASSUME AfterUpdate(r),
             accounts' \in [Accounts -> Document],
             doc' \in [Requests -> [Accounts -> Document]],
             \A q \in Requests \ {r} : doc'[q] = doc[q],
             overwritten' \in [Requests -> SUBSET Balances],
             contended' \subseteq Balances,
             posted' \in [Accounts -> [Currencies -> Int]],
             applied' \in [Requests -> SUBSET (1..2)],
             applied'[r] = applied[r] \cup {step[r]},
             \A q \in Requests \ {r} : applied'[q] = applied[q]
      PROVE  Inv1'
  <2>1. /\ pc' \in [Requests -> Phases] /\ step' \in [Requests -> 1..3]
        /\ \A q \in Requests \ {r} : pc'[q] = pc[q] /\ step'[q] = step[q]
        /\ Progress(r)'
    <3>1. /\ pc[r] \in {"addCurrency", "update"} /\ op' = op
          /\ records' = records /\ Progress(r)
          /\ applied'[r] = applied[r] \cup ({step[r]} \cap Moves(op[r]))
      BY <1>1, <1>2, <1>6, <1>9
    <3> QED
      BY <1>1, <1>9, <3>1, AfterUpdateProgress
  <2>2. TypeOK'
    BY <1>1, <1>2, <1>9, <2>1 DEF TypeOK, Phases
  <2>3. \A q \in Requests \ {r} : Progress(q)'
    BY <1>1, <1>2, <1>9, <2>1, ProgressFrame
  <2> QED
    BY <2>1, <2>2, <2>3 DEF Inv1
<1>10. CASE /\ IF IsNew(copy)
               THEN /\ Insert(r, a, d)
                    /\ Post(r, leg)
                    /\ UNCHANGED contended
               ELSE /\ SaveBalance(r, leg, new)
                    /\ doc' = [doc EXCEPT ![r][a] = d]
                    /\ Remember(r, leg)
            /\ AfterUpdate(r)
  <2>1. Post(r, leg)
    BY <1>10 DEF Remember
  <2>2. /\ posted' \in [Accounts -> [Currencies -> Int]]
        /\ applied' \in [Requests -> SUBSET (1..2)]
        /\ applied'[r] = applied[r] \cup {step[r]}
        /\ \A q \in Requests \ {r} : applied'[q] = applied[q]
    BY <1>1, <1>3, <2>1, PostEffect
  <2>4. /\ accounts' \in [Accounts -> Document]
        /\ doc' \in [Requests -> [Accounts -> Document]]
        /\ \A q \in Requests \ {r} : doc'[q] = doc[q]
        /\ overwritten' \in [Requests -> SUBSET Balances]
        /\ contended' \subseteq Balances
    <3>1. CASE IsNew(copy)
      <4>1. Insert(r, a, d) /\ contended' = contended
        BY <1>10, <3>1
      <4> QED
        BY <4>1, <1>1, <1>4, InsertEffect DEF TypeOK
    <3>2. CASE ~IsNew(copy)
      <4>1. /\ SaveBalance(r, leg, new) /\ doc' = [doc EXCEPT ![r][a] = d]
            /\ Remember(r, leg)
        BY <1>10, <3>2
      <4>2. accounts' = [accounts EXCEPT ![a] =
                           [accounts[a] EXCEPT !.available[c] = new]]
        BY <4>1 DEF SaveBalance
      <4>3. [accounts[a] EXCEPT !.available[c] = new] \in Document
        BY <1>4, SavedDocument
      <4>4. accounts' \in [Accounts -> Document]
        BY <1>4, <4>2, <4>3
      <4>5. [doc[r] EXCEPT ![a] = d] \in [Accounts -> Document]
        BY <1>4
      <4>6. /\ doc' \in [Requests -> [Accounts -> Document]]
            /\ \A q \in Requests \ {r} : doc'[q] = doc[q]
        BY <1>4, <4>1, <4>5
      <4> QED
        BY <1>1, <1>3, <4>1, <4>4, <4>6, RememberEffect
    <3> QED
      BY <3>1, <3>2
  <2> QED
    BY <1>9, <1>10, <2>2, <2>4
<1> QED
  BY <1>8, <1>10 DEF UpdateBalance, copy, new, d

LEMMA AddCurrencyInv1 ==
  ASSUME Inv1, NEW r \in Requests, AddCurrency(r)
  PROVE  Inv1'
<1> DEFINE leg == op[r].legs[step[r]]
           a == leg.account
           c == leg.currency
           copy == doc[r][a]
<1>1. /\ TypeOK /\ \A q \in Requests : Progress(q)
      /\ pc \in [Requests -> Phases] /\ step \in [Requests -> 1..3]
  BY DEF Inv1, TypeOK, Phases
<1>2. /\ pc[r] = "addCurrency"
      /\ UNCHANGED <<records, op, memory, faults, applied, posted, contended>>
  BY DEF AddCurrency
<1>3. /\ step[r] \in DOMAIN op[r].legs /\ step[r] \in 1..2
      /\ DOMAIN op[r].legs = 1..Len(op[r].legs) /\ Len(op[r].legs) \in 0..2
      /\ leg \in Leg
  BY <1>1, <1>2, CurrentLeg
<1>4. /\ a \in Accounts /\ c \in Currencies /\ leg.delta \in Int
      /\ copy \in Document /\ accounts[a] \in Document
      /\ accounts \in [Accounts -> Document]
      /\ doc \in [Requests -> [Accounts -> Document]]
      /\ doc[r] \in [Accounts -> Document]
  <2>1. a \in Accounts /\ c \in Currencies /\ leg.delta \in Int
    BY <1>3 DEF Leg
  <2>2. copy \in Document /\ accounts[a] \in Document
    BY <1>1, <2>1 DEF TypeOK
  <2> QED
    BY <1>1, <2>1, <2>2 DEF TypeOK
<1>5. /\ op[r].kind = "open" /\ leg.delta >= 0
      /\ WellFormed(op[r])
      /\ applied[r] = Moves(op[r]) \cap 1..(step[r] - 1)
      /\ \A k \in 1..3 : records[r][k] # "completed"
  BY <1>1, <1>2, <1>3 DEF Progress, WellFormed
<1> HIDE DEF copy
<1>6. CASE Catch(r) /\ UNCHANGED <<accounts, doc, overwritten>>
  <2>1. UNCHANGED history
    BY <1>2, <1>6 DEF history
  <2>2. /\ pc' \in [Requests -> Phases] /\ step' \in [Requests -> 1..3]
        /\ \A q \in Requests \ {r} : pc'[q] = pc[q] /\ step'[q] = step[q]
        /\ Progress(r)'
    BY <1>1, <1>2, <2>1, <1>6, CatchProgress
  <2>3. TypeOK'
    BY <1>1, <1>2, <1>6, <2>2 DEF TypeOK, Phases
  <2>4. \A q \in Requests \ {r} : Progress(q)'
    BY <1>1, <1>2, <1>6, <2>2, ProgressFrame
  <2> QED
    BY <2>2, <2>3, <2>4 DEF Inv1
<1>7. ASSUME AfterCurrency(r),
             accounts' \in [Accounts -> Document],
             doc' \in [Requests -> [Accounts -> Document]],
             \A q \in Requests \ {r} : doc'[q] = doc[q],
             overwritten' \in [Requests -> SUBSET Balances]
      PROVE  Inv1'
  <2>1. /\ pc' \in [Requests -> Phases] /\ step' \in [Requests -> 1..3]
        /\ \A q \in Requests \ {r} : pc'[q] = pc[q] /\ step'[q] = step[q]
        /\ Progress(r)'
    <3>1. CASE leg.delta > 0
      <4>1. Goto(r, "update", step[r])
        BY <1>7, <3>1 DEF AfterCurrency
      <4>2. "update" \in Phases /\ step[r] \in 1..3
        BY <1>1 DEF Phases, Waiting
      <4>3. /\ pc' \in [Requests -> Phases] /\ step' \in [Requests -> 1..3]
            /\ pc'[r] = "update" /\ step'[r] = step[r]
            /\ \A q \in Requests \ {r} : pc'[q] = pc[q] /\ step'[q] = step[q]
        BY <1>1, <4>1, <4>2, GotoEffect
      <4>4. /\ op'[r] = op[r] /\ records'[r] = records[r]
            /\ applied'[r] = applied[r]
        BY <1>2
      <4>5. WellFormed(op[r])'
        BY <1>5, <4>4 DEF WellFormed, RecordCount
      <4>6. RecordCount(op'[r]) = RecordCount(op[r])
            /\ Moves(op'[r]) = Moves(op[r])
        BY <4>4
      <4>7. op'[r].legs[step'[r]].delta > 0
        BY <3>1, <4>3, <4>4
      <4> QED
        BY <1>3, <1>5, <4>3, <4>4, <4>5, <4>6, <4>7 DEF Progress
    <3>2. CASE ~(leg.delta > 0)
      <4>1. AfterUpdate(r)
        BY <1>5, <1>7, <3>2 DEF AfterCurrency, AfterUpdate
      <4>2. leg.delta = 0
        BY <1>4, <1>5, <3>2
      <4>3. {step[r]} \cap Moves(op[r]) = {}
        BY <4>2 DEF Moves
      <4>4. /\ pc[r] \in {"addCurrency", "update"} /\ op' = op
            /\ records' = records /\ Progress(r)
            /\ applied'[r] = applied[r] \cup ({step[r]} \cap Moves(op[r]))
        BY <1>1, <1>2, <1>5, <4>3
      <4> QED
        BY <1>1, <4>1, <4>4, AfterUpdateProgress
    <3> QED
      BY <3>1, <3>2
  <2>2. TypeOK'
    BY <1>1, <1>2, <1>7, <2>1 DEF TypeOK, Phases
  <2>3. \A q \in Requests \ {r} : Progress(q)'
    BY <1>1, <1>2, <1>7, <2>1, ProgressFrame
  <2> QED
    BY <2>1, <2>2, <2>3 DEF Inv1
<1>8. CASE AfterCurrency(r) /\ UNCHANGED <<accounts, doc, overwritten>>
  <2>1. /\ accounts' \in [Accounts -> Document]
        /\ doc' \in [Requests -> [Accounts -> Document]]
        /\ overwritten' \in [Requests -> SUBSET Balances]
        /\ \A q \in Requests \ {r} : doc'[q] = doc[q]
    BY <1>1, <1>4, <1>8 DEF TypeOK
  <2> QED
    BY <1>7, <1>8, <2>1
<1>9. CASE Insert(r, a, copy) /\ AfterCurrency(r)
  <2>1. /\ accounts' \in [Accounts -> Document]
        /\ doc' \in [Requests -> [Accounts -> Document]]
        /\ overwritten' \in [Requests -> SUBSET Balances]
        /\ \A q \in Requests \ {r} : doc'[q] = doc[q]
    BY <1>1, <1>4, <1>9, InsertEffect
  <2> QED
    BY <1>7, <1>9, <2>1
<1> QED
  BY <1>6, <1>8, <1>9 DEF AddCurrency, copy

LEMMA SetBalanceAfterInv1 ==
  ASSUME Inv1, NEW r \in Requests, SetBalanceAfter(r)
  PROVE  Inv1'
<1> DEFINE o == op[r]
<1>1. /\ TypeOK /\ \A q \in Requests : Progress(q)
      /\ pc \in [Requests -> Phases] /\ step \in [Requests -> 1..3]
  BY DEF Inv1, TypeOK, Phases
<1>2. /\ pc[r] = "balanceAfter"
      /\ Advance(r, Len(o.legs), "complete")
      /\ UNCHANGED <<accounts, records, op, doc, memory, faults, history>>
  BY DEF SetBalanceAfter
<1>3. /\ WellFormed(o) /\ step[r] \in DOMAIN o.legs
      /\ DOMAIN o.legs = 1..Len(o.legs) /\ Len(o.legs) \in 0..2
      /\ RecordCount(o) # 0 /\ applied[r] = DOMAIN o.legs
  BY <1>1, <1>2, Lengths DEF Progress
<1>4. "complete" \in Phases /\ Len(o.legs) \in 0..3
  BY <1>3 DEF Phases, Waiting
<1>5. /\ pc' \in [Requests -> Phases] /\ step' \in [Requests -> 1..3]
      /\ \/ /\ step[r] < Len(o.legs)
            /\ pc'[r] = "balanceAfter" /\ step'[r] = step[r] + 1
         \/ pc'[r] = "complete" /\ step'[r] = 1
      /\ \A q \in Requests \ {r} : pc'[q] = pc[q] /\ step'[q] = step[q]
  BY <1>1, <1>2, <1>4, AdvanceEffect
<1>6. TypeOK'
  BY <1>1, <1>2, <1>5 DEF TypeOK, Phases, history
<1>7. ASSUME NEW q \in Requests
      PROVE  Progress(q)'
  <2>1. CASE q = r
    <3>1. WellFormed(o)'
      BY <1>2, <1>3 DEF WellFormed, RecordCount
    <3>2. /\ op'[r] = op[r] /\ RecordCount(op'[r]) = RecordCount(o)
          /\ applied'[r] = applied[r]
      BY <1>2 DEF history
    <3>3. 1 \in 1..RecordCount(o)
      BY <1>3, RecordCountRange
    <3>4. /\ pc'[r] \in {"balanceAfter", "complete"}
          /\ pc'[r] = "balanceAfter" => step'[r] \in DOMAIN o.legs
          /\ pc'[r] = "complete" => step'[r] = 1
      BY <1>3, <1>5
    <3> QED
      BY <1>3, <2>1, <3>1, <3>2, <3>3, <3>4 DEF Progress
  <2>2. CASE q # r
    BY <2>2, <1>1, <1>2, <1>5, ProgressFrame DEF history
  <2> QED
    BY <2>1, <2>2
<1> QED
  BY <1>6, <1>7 DEF Inv1

LEMMA CompleteRecordInv1 ==
  ASSUME Inv1, NEW r \in Requests, CompleteRecord(r)
  PROVE  Inv1'
<1> DEFINE o == op[r]
<1>1. /\ TypeOK /\ \A q \in Requests : Progress(q)
      /\ pc \in [Requests -> Phases] /\ step \in [Requests -> 1..3]
  BY DEF Inv1, TypeOK, Phases
<1>2. /\ pc[r] = "complete"
      /\ records' = [records EXCEPT ![r][step[r]] = "completed"]
      /\ memory' = [memory EXCEPT ![r][step[r]] = "completed"]
      /\ Advance(r, RecordCount(o), "done")
      /\ UNCHANGED <<accounts, op, doc, faults, history>>
  BY DEF CompleteRecord
<1>3. /\ WellFormed(o) /\ step[r] \in 1..RecordCount(o)
      /\ RecordCount(o) \in 0..3 /\ applied[r] = DOMAIN o.legs
  BY <1>1, <1>2, Lengths, RecordCountRange DEF Progress
<1>4. "done" \in Phases
  BY DEF Phases, Ended
<1>5. /\ pc' \in [Requests -> Phases] /\ step' \in [Requests -> 1..3]
      /\ \/ /\ step[r] < RecordCount(o)
            /\ pc'[r] = "complete" /\ step'[r] = step[r] + 1
         \/ pc'[r] = "done"
      /\ \A q \in Requests \ {r} : pc'[q] = pc[q] /\ step'[q] = step[q]
  BY <1>1, <1>2, <1>3, <1>4, AdvanceEffect
<1>6. TypeOK'
  <2>1. "completed" \in RecordStatus /\ step[r] \in 1..3
    BY <1>1 DEF RecordStatus, TypeOK
  <2>2. /\ records' \in [Requests -> [1..3 -> RecordStatus]]
        /\ memory' \in [Requests -> [1..3 -> RecordStatus]]
    BY <1>1, <1>2, <2>1 DEF TypeOK
  <2> QED
    BY <1>1, <1>2, <1>5, <2>2 DEF TypeOK, Phases, history
<1>7. ASSUME NEW q \in Requests
      PROVE  Progress(q)'
  <2>1. CASE q = r
    <3>1. WellFormed(o)'
      BY <1>2, <1>3 DEF WellFormed, RecordCount
    <3>2. /\ op'[r] = op[r] /\ RecordCount(op'[r]) = RecordCount(o)
          /\ applied'[r] = applied[r]
      BY <1>2 DEF history
    <3>3. /\ pc'[r] \in {"complete", "done"}
          /\ pc'[r] = "complete" => step'[r] \in 1..RecordCount(o)
      BY <1>1, <1>3, <1>5
    <3> QED
      BY <1>3, <2>1, <3>1, <3>2, <3>3 DEF Progress
  <2>2. CASE q # r
    BY <2>2, <1>1, <1>2, <1>5, ProgressFrame DEF TypeOK, history
  <2> QED
    BY <2>1, <2>2
<1> QED
  BY <1>6, <1>7 DEF Inv1

LEMMA FailRecordInv1 ==
  ASSUME Inv1, NEW r \in Requests, FailRecord(r)
  PROVE  Inv1'
<1> DEFINE o == op[r]
<1>1. /\ TypeOK /\ \A q \in Requests : Progress(q)
      /\ pc \in [Requests -> Phases] /\ step \in [Requests -> 1..3]
  BY DEF Inv1, TypeOK, Phases
<1>2. /\ pc[r] = "fail"
      /\ \/ /\ Goto(r, "error", 1)
            /\ UNCHANGED <<records, memory>>
         \/ /\ records' = [records EXCEPT ![r][step[r]] = "failed"]
            /\ memory' = [memory EXCEPT ![r][step[r]] = "failed"]
            /\ Advance(r, RecordCount(o), "error")
      /\ UNCHANGED <<accounts, op, doc, faults, history>>
  BY DEF FailRecord
<1>3. /\ WellFormed(o) /\ step[r] \in 1..RecordCount(o)
      /\ RecordCount(o) \in 0..3
  BY <1>1, <1>2, Lengths, RecordCountRange DEF Progress
<1>4. "error" \in Phases
  BY DEF Phases, Ended
<1>5. /\ pc' \in [Requests -> Phases] /\ step' \in [Requests -> 1..3]
      /\ \/ /\ step[r] < RecordCount(o)
            /\ pc'[r] = "fail" /\ step'[r] = step[r] + 1
         \/ pc'[r] = "error"
      /\ \A q \in Requests \ {r} : pc'[q] = pc[q] /\ step'[q] = step[q]
  <2>1. CASE Goto(r, "error", 1)
    BY <1>1, <1>4, <2>1, GotoEffect
  <2>2. CASE Advance(r, RecordCount(o), "error")
    BY <1>1, <1>2, <1>3, <1>4, <2>2, AdvanceEffect
  <2> QED
    BY <1>2, <2>1, <2>2
<1>6. TypeOK'
  <2>1. "failed" \in RecordStatus /\ step[r] \in 1..3
    BY <1>1 DEF RecordStatus, TypeOK
  <2>2. /\ records' \in [Requests -> [1..3 -> RecordStatus]]
        /\ memory' \in [Requests -> [1..3 -> RecordStatus]]
    <3>1. CASE UNCHANGED <<records, memory>>
      BY <1>1, <3>1 DEF TypeOK
    <3>2. CASE /\ records' = [records EXCEPT ![r][step[r]] = "failed"]
               /\ memory' = [memory EXCEPT ![r][step[r]] = "failed"]
      BY <1>1, <2>1, <3>2 DEF TypeOK
    <3> QED
      BY <1>2, <3>1, <3>2
  <2> QED
    BY <1>1, <1>2, <1>5, <2>2 DEF TypeOK, Phases, history
<1>7. ASSUME NEW q \in Requests
      PROVE  Progress(q)'
  <2>1. CASE q = r
    <3>1. WellFormed(o)'
      BY <1>2, <1>3 DEF WellFormed, RecordCount
    <3>2. /\ op'[r] = op[r] /\ RecordCount(op'[r]) = RecordCount(o)
      BY <1>2 DEF history
    <3>3. /\ pc'[r] \in {"fail", "error"}
          /\ pc'[r] = "fail" => step'[r] \in 1..RecordCount(o)
      BY <1>1, <1>3, <1>5
    <3> QED
      BY <1>3, <2>1, <3>1, <3>2, <3>3 DEF Progress
  <2>2. CASE q # r
    BY <2>2, <1>1, <1>2, <1>5, ProgressFrame DEF TypeOK, history
  <2> QED
    BY <2>1, <2>2
<1> QED
  BY <1>6, <1>7 DEF Inv1

LEMMA SetStatusInv1 ==
  ASSUME Inv1, NEW r \in Requests, SetStatus(r)
  PROVE  Inv1'
<1> DEFINE o == op[r]
           a == o.accounts[1]
<1>1. /\ TypeOK /\ \A q \in Requests : Progress(q)
      /\ pc \in [Requests -> Phases] /\ step \in [Requests -> 1..3]
  BY DEF Inv1, TypeOK, Phases
<1>2. /\ pc[r] = "setStatus"
      /\ \/ UNCHANGED accounts
         \/ accounts' = [accounts EXCEPT ![a].status = o.target]
      /\ Goto(r, "done", 1)
      /\ UNCHANGED <<records, op, doc, memory, faults, history>>
  BY DEF SetStatus
<1>3. /\ WellFormed(o) /\ o \in OperationType /\ o.accounts \in Seq(Accounts)
      /\ Len(o.accounts) \in 1..2 /\ DOMAIN o.accounts = 1..Len(o.accounts)
  BY <1>1, <1>2, Lengths
<1>4. a \in Accounts /\ o.target \in AccountStatus
  BY <1>3 DEF OperationType
<1>5. "done" \in Phases
  BY DEF Phases, Ended
<1>6. /\ pc' \in [Requests -> Phases] /\ step' \in [Requests -> 1..3]
      /\ pc'[r] = "done"
      /\ \A q \in Requests \ {r} : pc'[q] = pc[q] /\ step'[q] = step[q]
  BY <1>1, <1>2, <1>5, GotoEffect
<1>7. TypeOK'
  <2> HIDE DEF a
  <2>1. accounts' \in [Accounts -> Document]
    <3>1. CASE UNCHANGED accounts
      BY <1>1, <3>1 DEF TypeOK
    <3>2. CASE accounts' = [accounts EXCEPT ![a].status = o.target]
      <4>1. ASSUME NEW e \in Document, NEW s \in AccountStatus
            PROVE  [e EXCEPT !.status = s] \in Document
        BY DEF Document
      <4>2. [accounts[a] EXCEPT !.status = o.target] \in Document
        BY <1>1, <1>4, <4>1 DEF TypeOK
      <4> QED
        BY <1>1, <1>4, <3>2, <4>2 DEF TypeOK
    <3> QED
      BY <1>2, <3>1, <3>2 DEF a
  <2> QED
    BY <1>1, <1>2, <1>6, <2>1 DEF TypeOK, Phases, history
<1>8. ASSUME NEW q \in Requests
      PROVE  Progress(q)'
  <2>1. CASE q = r
    <3>1. WellFormed(o)'
      BY <1>2, <1>3 DEF WellFormed, RecordCount
    <3>2. op'[r] = op[r]
      BY <1>2
    <3> QED
      BY <1>6, <2>1, <3>1, <3>2 DEF Progress
  <2>2. CASE q # r
    BY <2>2, <1>1, <1>2, <1>6, ProgressFrame DEF history
  <2> QED
    BY <2>1, <2>2
<1> QED
  BY <1>7, <1>8 DEF Inv1

LEMMA InsertAccountInv1 ==
  ASSUME Inv1, NEW r \in Requests, InsertAccount(r)
  PROVE  Inv1'
<1> DEFINE a == op[r].accounts[1]
           copy == doc[r][a]
<1>1. /\ TypeOK /\ \A q \in Requests : Progress(q)
      /\ pc \in [Requests -> Phases] /\ step \in [Requests -> 1..3]
  BY DEF Inv1, TypeOK, Phases
<1>2. /\ pc[r] = "insert"
      /\ UNCHANGED <<records, op, memory, faults, applied, posted, contended>>
  BY DEF InsertAccount
<1>3. /\ WellFormed(op[r]) /\ a \in Accounts /\ op[r].kind = "open"
  BY <1>1, <1>2, Lengths DEF Progress
<1>4. copy \in Document
  BY <1>1, <1>3 DEF TypeOK
<1>5. WellFormed(op[r])' /\ op'[r] = op[r]
  BY <1>2, <1>3 DEF WellFormed, RecordCount
<1>6. /\ accounts' \in [Accounts -> Document]
      /\ doc' \in [Requests -> [Accounts -> Document]]
      /\ overwritten' \in [Requests -> SUBSET Balances]
      /\ \A q \in Requests \ {r} : doc'[q] = doc[q]
  <2>1. CASE Insert(r, a, copy)
    BY <1>1, <1>3, <1>4, <2>1, InsertEffect
  <2>2. CASE UNCHANGED <<accounts, doc, overwritten>>
    BY <1>1, <2>2 DEF TypeOK
  <2> QED
    BY <2>1, <2>2 DEF InsertAccount
<1>7. Goto(r, "done", 1) \/ Goto(r, "error", 1)
  BY <1>3 DEF InsertAccount, Catch, RecordCount
<1>8. "done" \in Phases /\ "error" \in Phases
  BY DEF Phases, Ended
<1>9. /\ pc' \in [Requests -> Phases] /\ step' \in [Requests -> 1..3]
      /\ pc'[r] \in {"done", "error"}
      /\ \A q \in Requests \ {r} : pc'[q] = pc[q] /\ step'[q] = step[q]
  <2>1. CASE Goto(r, "done", 1)
    BY <1>1, <1>8, <2>1, GotoEffect
  <2>2. CASE Goto(r, "error", 1)
    BY <1>1, <1>8, <2>2, GotoEffect
  <2> QED
    BY <1>7, <2>1, <2>2
<1>10. TypeOK'
  BY <1>1, <1>2, <1>6, <1>9 DEF TypeOK, Phases
<1>11. ASSUME NEW q \in Requests
       PROVE  Progress(q)'
  <2>1. CASE q = r
    BY <1>3, <1>5, <1>9, <2>1 DEF Progress
  <2>2. CASE q # r
    BY <2>2, <1>1, <1>2, <1>6, <1>9, ProgressFrame
  <2> QED
    BY <2>1, <2>2
<1> QED
  BY <1>10, <1>11 DEF Inv1

LEMMA CallFailsInv1 ==
  ASSUME Inv1, NEW r \in Requests, CallFails(r)
  PROVE  Inv1'
<1>1. /\ TypeOK /\ \A q \in Requests : Progress(q)
      /\ pc \in [Requests -> Phases] /\ step \in [Requests -> 1..3]
  BY DEF Inv1, TypeOK, Phases
<1>2. /\ pc[r] \in Waiting
      /\ faults > 0 /\ faults' = faults - 1
      /\ UNCHANGED <<accounts, records, op, doc, history>>
      /\ Catch(r) \/ Goto(r, "error", 1)
      /\ memory' = IF pc[r] = "complete"
                   THEN [memory EXCEPT ![r][step[r]] = "completed"]
                   ELSE memory
  BY DEF CallFails
<1>3. "error" \in Phases
  BY DEF Phases, Ended
<1>4. /\ pc' \in [Requests -> Phases] /\ step' \in [Requests -> 1..3]
      /\ pc'[r] \in {"fail", "error"}
      /\ pc'[r] = "fail" => step'[r] \in 1..RecordCount(op[r])
      /\ \A q \in Requests \ {r} : pc'[q] = pc[q] /\ step'[q] = step[q]
  <2>1. CASE Catch(r)
    BY <1>1, <2>1, CatchEffect
  <2>2. CASE Goto(r, "error", 1)
    BY <1>1, <1>3, <2>2, GotoEffect
  <2> QED
    BY <1>2, <2>1, <2>2
<1>5. memory' \in [Requests -> [1..3 -> RecordStatus]]
  <2>1. "completed" \in RecordStatus
    BY DEF RecordStatus
  <2>2. CASE pc[r] = "complete"
    BY <1>1, <1>2, <2>1, <2>2 DEF TypeOK
  <2>3. CASE pc[r] # "complete"
    BY <1>1, <1>2, <2>3 DEF TypeOK
  <2> QED
    BY <2>2, <2>3
<1>6. faults' \in 0..MaxFaults
  BY <1>1, <1>2, AccountServiceAssumption DEF TypeOK
<1>7. TypeOK'
  BY <1>1, <1>2, <1>4, <1>5, <1>6 DEF TypeOK, Phases, history
<1>8. ASSUME NEW q \in Requests
      PROVE  Progress(q)'
  <2>1. CASE q = r
    <3>1. WellFormed(op[r])
      BY <1>1, <1>2 DEF Progress, Waiting
    <3>2. /\ op'[r] = op[r] /\ RecordCount(op'[r]) = RecordCount(op[r])
      BY <1>2 DEF history
    <3>3. WellFormed(op[r])'
      BY <1>2, <3>1 DEF WellFormed, RecordCount
    <3> QED
      BY <1>4, <2>1, <3>1, <3>2, <3>3 DEF Progress
  <2>2. CASE q # r
    BY <2>2, <1>1, <1>2, <1>4, ProgressFrame DEF history
  <2> QED
    BY <2>1, <2>2
<1> QED
  BY <1>7, <1>8 DEF Inv1

LEMMA CrashInv1 ==
  ASSUME Inv1, Crash
  PROVE  Inv1'
<1>1. /\ TypeOK /\ \A q \in Requests : Progress(q)
      /\ pc \in [Requests -> Phases]
  BY DEF Inv1, TypeOK, Phases
<1>2. /\ faults > 0 /\ faults' = faults - 1
      /\ pc' = [r \in Requests |-> IF r \in InFlight THEN "crashed" ELSE pc[r]]
      /\ UNCHANGED <<accounts, records, op, step, doc, memory, history>>
  BY DEF Crash
<1>3. faults' \in 0..MaxFaults
  BY <1>1, <1>2, AccountServiceAssumption DEF TypeOK
<1>4. pc' \in [Requests -> Phases]
  BY <1>1, <1>2 DEF Phases, Ended
<1>5. TypeOK'
  BY <1>1, <1>2, <1>3, <1>4 DEF TypeOK, Phases, history
<1>6. ASSUME NEW q \in Requests
      PROVE  Progress(q)'
  <2>1. CASE q \in InFlight
    <3>1. pc'[q] = "crashed" /\ pc[q] # "idle"
      BY <1>2, <2>1 DEF InFlight, Waiting
    <3>2. WellFormed(op[q])
      BY <1>1, <3>1 DEF Progress
    <3>3. WellFormed(op[q])'
      BY <1>2, <3>2 DEF WellFormed, RecordCount
    <3>4. op'[q] = op[q]
      BY <1>2 DEF history
    <3> QED
      BY <3>1, <3>2, <3>3, <3>4 DEF Progress
  <2>2. CASE q \notin InFlight
    <3>1. pc'[q] = pc[q]
      BY <1>2, <2>2
    <3> QED
      BY <1>1, <1>2, <3>1, ProgressFrame DEF history
  <2> QED
    BY <2>1, <2>2
<1> QED
  BY <1>5, <1>6 DEF Inv1

LEMMA StutterInv1 ==
  ASSUME Inv1, UNCHANGED vars
  PROVE  Inv1'
<1>1. TypeOK /\ \A q \in Requests : Progress(q)
  BY DEF Inv1
<1>2. TypeOK'
  BY <1>1 DEF TypeOK, vars, clients, history
<1>3. \A q \in Requests : Progress(q)'
  BY <1>1, ProgressFrame DEF vars, clients, history
<1> QED
  BY <1>2, <1>3 DEF Inv1

LEMMA NextInv1 ==
  ASSUME Inv1, [Next]_vars
  PROVE  Inv1'
<1>1. ASSUME NEW r \in Requests, Serve(r)
      PROVE  Inv1'
  BY <1>1, LoadInv1, CreateRecordInv1, AddCurrencyInv1, UpdateBalanceInv1,
     SetBalanceAfterInv1, CompleteRecordInv1, FailRecordInv1, SetStatusInv1,
     InsertAccountInv1 DEF Serve
<1> QED
  BY <1>1, ArriveInv1, CallFailsInv1, CrashInv1, StutterInv1
     DEF Next, AllServed

\* Every reachable state is typed: in particular no handler counts past the
\* accounts, legs or records of its operation.
THEOREM TypeCorrect == Spec => []TypeOK
<1>1. Spec => []Inv1
  BY InitInv1, NextInv1, PTL DEF Spec
<1>2. Inv1 => TypeOK
  BY DEF Inv1
<1> QED
  BY <1>1, <1>2, PTL
-----------------------------------------------------------------------------
(* Stored balances against what has been saved to them.                    *)

Books ==
  /\ CopiesAreOlder
  /\ AbsentIsUntouched
  /\ CopiesAreFresh
  /\ UncontendedBalancesAreExact
  /\ NonNegativeBalances

Inv2 == Inv1 /\ Books

\* Where a handler holds copies of its accounts.
Holding == {"load", "create", "addCurrency", "update", "insert"}

\* A step after which q holds no copy it did not hold before.
KeepsLoaded(q) ==
  \/ pc'[q] \notin Holding
  \/ pc'[q] = "load" /\ step'[q] = 1
  \/ op'[q] = op[q] /\ pc'[q] = pc[q] /\ step'[q] = step[q]
  \/ /\ op'[q] = op[q]
     /\ pc[q] \in Holding \ {"load"} /\ pc'[q] \in Holding \ {"load"}
     /\ op[q].kind = "open" \/ pc[q] \in {"create", "update"}

\* A step that moves no balance: it may set a status.
SameMoney ==
  /\ \A a \in Accounts :
       /\ accounts'[a].available = accounts[a].available
       /\ IsNew(accounts'[a]) => IsNew(accounts[a])
  /\ \A q \in Requests, a \in Accounts :
       /\ doc'[q][a].available = doc[q][a].available
       /\ doc'[q][a].status = doc[q][a].status
  /\ UNCHANGED <<posted, overwritten, contended>>

LEMMA KeepsLoadedEffect ==
  ASSUME Inv1', NEW q \in Requests, KeepsLoaded(q)
  PROVE  /\ Loaded(q)' \subseteq Loaded(q)
         /\ pc'[q] \in {"create", "update"} /\ op'[q].kind # "open"
              => op'[q] = op[q] /\ pc[q] \in {"create", "update"}
<1>1. CASE pc'[q] \notin Holding
  BY <1>1 DEF Loaded, Holding
<1>2. CASE pc'[q] = "load" /\ step'[q] = 1
  <2>1. pc'[q] \notin {"create", "addCurrency", "update", "insert"}
    BY <1>2
  <2>2. \A j \in DOMAIN op'[q].accounts : ~ (j < 1)
    BY DEF Inv1, TypeOK, OperationType
  <2> QED
    BY <1>2, <2>1, <2>2 DEF Loaded
<1>3. CASE op'[q] = op[q] /\ pc'[q] = pc[q] /\ step'[q] = step[q]
  BY <1>3 DEF Loaded
<1>4. CASE /\ op'[q] = op[q]
           /\ pc[q] \in Holding \ {"load"} /\ pc'[q] \in Holding \ {"load"}
           /\ op[q].kind = "open" \/ pc[q] \in {"create", "update"}
  <2>1. Loaded(q)' \subseteq Loaded(q)
    BY <1>4 DEF Loaded, Holding
  <2> QED
    BY <1>4, <2>1
<1> QED
  BY <1>1, <1>2, <1>3, <1>4 DEF KeepsLoaded

LEMMA LoadedAccounts ==
  ASSUME TypeOK, NEW q \in Requests
  PROVE  Loaded(q) \subseteq Accounts
BY DEF Loaded, TypeOK, OperationType

LEMMA SameMoneyBooks ==
  ASSUME Inv2, Inv1', SameMoney, \A q \in Requests : KeepsLoaded(q)
  PROVE  Books'
<1>1. /\ CopiesAreOlder /\ AbsentIsUntouched /\ CopiesAreFresh
      /\ UncontendedBalancesAreExact /\ NonNegativeBalances
      /\ TypeOK /\ TypeOK'
  BY DEF Inv2, Inv1, Books
<1>2. /\ \A a \in Accounts :
           /\ accounts'[a].available = accounts[a].available
           /\ IsNew(accounts'[a]) => IsNew(accounts[a])
      /\ \A q \in Requests, a \in Accounts :
           /\ doc'[q][a].available = doc[q][a].available
           /\ doc'[q][a].status = doc[q][a].status
      /\ posted' = posted /\ overwritten' = overwritten /\ contended' = contended
  BY DEF SameMoney
<1>3. \A q \in Requests, a \in Accounts : IsNew(doc'[q][a]) <=> IsNew(doc[q][a])
  BY <1>2 DEF IsNew
<1>4. CopiesAreOlder'
  BY <1>1, <1>2, <1>3 DEF CopiesAreOlder
<1>5. AbsentIsUntouched'
  <2>1. ASSUME NEW a \in Accounts, IsNew(accounts'[a]), NEW c \in Currencies
        PROVE  accounts'[a].available[c] = 0 /\ posted'[a][c] = 0
    BY <1>1, <1>2, <2>1 DEF AbsentIsUntouched
  <2>2. ASSUME NEW q \in Requests, pc'[q] \in {"create", "update"},
               op'[q].kind # "open", NEW i \in DOMAIN op'[q].accounts
        PROVE  ~IsNew(doc'[q][op'[q].accounts[i]])
    <3>1. op'[q] = op[q] /\ pc[q] \in {"create", "update"}
      BY <2>2, KeepsLoadedEffect
    <3>2. ~IsNew(doc[q][op[q].accounts[i]])
      BY <1>1, <2>2, <3>1 DEF AbsentIsUntouched
    <3>3. op[q].accounts[i] \in Accounts
      BY <1>1, <2>2, <3>1 DEF TypeOK, OperationType
    <3> QED
      BY <1>3, <3>1, <3>2, <3>3
  <2> QED
    BY <2>1, <2>2 DEF AbsentIsUntouched
<1>6. CopiesAreFresh'
  <2> SUFFICES ASSUME NEW q \in Requests, NEW c \in Currencies,
                      NEW a \in Loaded(q)'
               PROVE  IF IsNew(doc'[q][a]) THEN doc'[q][a].available[c] = 0
                      ELSE <<a, c>> \notin overwritten'[q] =>
                        doc'[q][a].available[c] = accounts'[a].available[c]
    BY DEF CopiesAreFresh
  <2>1. a \in Loaded(q) /\ a \in Accounts
    BY <1>1, KeepsLoadedEffect, LoadedAccounts
  <2> QED
    BY <1>1, <1>2, <1>3, <2>1 DEF CopiesAreFresh
<1>7. UncontendedBalancesAreExact'
  BY <1>1, <1>2 DEF UncontendedBalancesAreExact
<1>8. NonNegativeBalances'
  BY <1>1, <1>2 DEF NonNegativeBalances
<1> QED
  BY <1>4, <1>5, <1>6, <1>7, <1>8 DEF Books

\* A load makes one copy fresh, and a handler that goes on from its last load
\* has found all its accounts active.
LEMMA LoadBooks ==
  ASSUME Inv2, Inv1', NEW r \in Requests, Load(r)
  PROVE  Books'
<1> DEFINE o == op[r]
           a == o.accounts[step[r]]
           d == [doc[r] EXCEPT ![a] = accounts[a]]
           p == IF Accepts(o, d) THEN FirstSave(o) ELSE "rejected"
<1>1. /\ CopiesAreOlder /\ AbsentIsUntouched /\ CopiesAreFresh
      /\ UncontendedBalancesAreExact /\ NonNegativeBalances
      /\ TypeOK /\ TypeOK' /\ \A q \in Requests : Progress(q)
      /\ pc \in [Requests -> Phases] /\ step \in [Requests -> 1..3]
  BY DEF Inv2, Inv1, Books, TypeOK, Phases
<1>2. /\ pc[r] = "load"
      /\ doc' = [doc EXCEPT ![r] = d]
      /\ overwritten' = [overwritten EXCEPT ![r] = @ \ ({a} \X Currencies)]
      /\ Advance(r, Len(o.accounts), p)
      /\ UNCHANGED <<accounts, op, posted, contended>>
  BY DEF Load
<1>3. /\ WellFormed(o) /\ o.accounts \in Seq(Accounts)
      /\ Len(o.accounts) \in 1..2 /\ DOMAIN o.accounts = 1..Len(o.accounts)
      /\ step[r] \in DOMAIN o.accounts
  BY <1>1, <1>2, Lengths DEF Progress
<1>4. /\ a \in Accounts /\ Len(o.accounts) \in 0..3
      /\ \A i \in DOMAIN o.accounts : o.accounts[i] \in Accounts
  BY <1>3
<1>5. /\ p \in {"insert", "addCurrency", "setStatus", "create", "rejected"}
      /\ p \in Phases
      /\ p \in {"insert", "addCurrency"} => o.kind = "open"
  BY DEF FirstSave, Phases, Waiting, Ended
<1>6. p = "create" =>
        \A i \in DOMAIN o.accounts : d[o.accounts[i]].status = "active"
  BY DEF FirstSave, Accepts
<1>7. \A b \in Accounts : d[b] = IF b = a THEN accounts[a] ELSE doc[r][b]
  BY <1>1, <1>4 DEF TypeOK
<1> HIDE DEF p, d
<1>8. /\ \/ /\ step[r] < Len(o.accounts)
            /\ pc'[r] = "load" /\ step'[r] = step[r] + 1
         \/ /\ ~ (step[r] < Len(o.accounts))
            /\ pc'[r] = p /\ step'[r] = 1
      /\ \A q \in Requests \ {r} : pc'[q] = pc[q] /\ step'[q] = step[q]
  BY <1>1, <1>2, <1>4, <1>5, AdvanceEffect
<1>9. /\ doc'[r] = d
      /\ \A q \in Requests \ {r} : doc'[q] = doc[q]
      /\ overwritten'[r] = overwritten[r] \ ({a} \X Currencies)
      /\ \A q \in Requests \ {r} : overwritten'[q] = overwritten[q]
  BY <1>1, <1>2 DEF TypeOK
<1>10. \A q \in Requests, b \in Accounts :
         doc'[q][b] = doc[q][b] \/ doc'[q][b] = accounts[b]
  BY <1>7, <1>9
<1>11. CopiesAreOlder'
  BY <1>1, <1>2, <1>10 DEF CopiesAreOlder
<1>12. AbsentIsUntouched'
  <2>1. \A b \in Accounts : IsNew(accounts'[b]) =>
          \A c \in Currencies : accounts'[b].available[c] = 0 /\ posted'[b][c] = 0
    BY <1>1, <1>2 DEF AbsentIsUntouched
  <2>2. ASSUME NEW q \in Requests, pc'[q] \in {"create", "update"},
               op'[q].kind # "open", NEW i \in DOMAIN op'[q].accounts
        PROVE  ~IsNew(doc'[q][op'[q].accounts[i]])
    <3>1. CASE q = r
      <4>1. p = "create"
        BY <1>5, <1>8, <2>2, <3>1
      <4>2. d[o.accounts[i]].status = "active"
        BY <1>2, <1>6, <2>2, <3>1, <4>1
      <4> QED
        BY <1>2, <1>9, <3>1, <4>2 DEF IsNew
    <3>2. CASE q # r
      BY <1>1, <1>2, <1>8, <1>9, <2>2, <3>2 DEF AbsentIsUntouched
    <3> QED
      BY <3>1, <3>2
  <2> QED
    BY <2>1, <2>2 DEF AbsentIsUntouched
<1>13. CopiesAreFresh'
  <2> DEFINE Fresh(q, b, c) ==
        IF IsNew(doc[q][b]) THEN doc[q][b].available[c] = 0
        ELSE <<b, c>> \notin overwritten[q]
               => doc[q][b].available[c] = accounts[b].available[c]
  <2> SUFFICES ASSUME NEW q \in Requests, NEW c \in Currencies,
                      NEW b \in Loaded(q)'
               PROVE  Fresh(q, b, c)'
    BY DEF CopiesAreFresh
  <2>1. CASE q = r
    <3>1. b = a \/ b \in Loaded(r)
      <4>1. PICK i \in DOMAIN o.accounts :
              /\ b = o.accounts[i]
              /\ \/ pc'[r] = "load" /\ i < step'[r]
                 \/ pc'[r] \in {"create", "addCurrency", "update", "insert"}
        BY <1>2, <2>1 DEF Loaded
      <4>2. step[r] \in 1..3 /\ i \in 1..2
        <5>1. ASSUME NEW n \in 1..2, NEW j \in 1..n
              PROVE  j \in 1..2
          OBVIOUS
        <5>2. i \in 1..Len(o.accounts)
          BY <1>3, <4>1, Zenon
        <5> QED
          BY <1>1, <1>3, <5>1, <5>2
      <4>3. i < step[r] \/ i = step[r]
        <5>1. CASE /\ step[r] < Len(o.accounts)
                   /\ pc'[r] = "load" /\ step'[r] = step[r] + 1
          BY <4>1, <4>2, <5>1
        <5>2. CASE ~ (step[r] < Len(o.accounts)) /\ pc'[r] = p
          BY <1>3, <4>1, <4>2, <5>2
        <5> QED
          BY <1>8, <5>1, <5>2
      <4> QED
        BY <1>2, <4>1, <4>3 DEF Loaded
    <3>2. b \in Accounts
      BY <1>1, <1>4, <3>1, LoadedAccounts
    <3>3. CASE b = a
      <4>1. doc'[r][b] = accounts'[b]
        BY <1>2, <1>7, <1>9, <3>2, <3>3
      <4>2. IsNew(accounts'[b]) => accounts'[b].available[c] = 0
        BY <1>12, <3>2 DEF AbsentIsUntouched
      <4> QED
        BY <2>1, <4>1, <4>2
    <3>4. CASE b # a /\ b \in Loaded(r)
      <4>1. Fresh(r, b, c)
        BY <1>1, <3>4 DEF CopiesAreFresh
      <4>2. /\ doc'[r][b] = doc[r][b] /\ accounts'[b] = accounts[b]
            /\ <<b, c>> \in overwritten[r] => <<b, c>> \in overwritten'[r]
        BY <1>2, <1>7, <1>9, <3>2, <3>4
      <4> QED
        BY <2>1, <4>1, <4>2
    <3> QED
      BY <3>1, <3>3, <3>4
  <2>2. CASE q # r
    <3>1. b \in Loaded(q)
      BY <1>2, <1>8, <2>2 DEF Loaded
    <3>2. Fresh(q, b, c)
      BY <1>1, <3>1 DEF CopiesAreFresh
    <3> QED
      BY <1>2, <1>9, <2>2, <3>2
  <2> QED
    BY <2>1, <2>2
<1>14. UncontendedBalancesAreExact' /\ NonNegativeBalances'
  BY <1>1, <1>2 DEF UncontendedBalancesAreExact, NonNegativeBalances
<1> QED
  BY <1>11, <1>12, <1>13, <1>14 DEF Books

\* The account of the leg at hand is one the handler holds a copy of.
LEMMA SavedIsLoaded ==
  ASSUME Inv1, NEW r \in Requests, pc[r] \in {"addCurrency", "update"}
  PROVE  op[r].legs[step[r]].account \in Loaded(r)
<1>1. TypeOK /\ Progress(r)
  BY DEF Inv1
<1>2. WellFormed(op[r]) /\ step[r] \in DOMAIN op[r].legs
  BY <1>1, Lengths, CurrentLeg
<1>3. PICK j \in DOMAIN op[r].accounts :
        op[r].legs[step[r]].account = op[r].accounts[j]
  BY <1>2 DEF WellFormed
<1> QED
  BY <1>3 DEF Loaded

\* Where a request stands when it is done with a leg, or with its currency.
LEMMA AfterwardsEffect ==
  ASSUME Inv1, NEW r \in Requests, pc[r] \in {"addCurrency", "update"},
         \/ AfterUpdate(r) \/ Catch(r)
         \/ AfterCurrency(r) /\ pc[r] = "addCurrency"
  PROVE  /\ \A q \in Requests \ {r} : pc'[q] = pc[q] /\ step'[q] = step[q]
         /\ \/ pc'[r] \in {"balanceAfter", "fail", "error"}
            \/ /\ pc'[r] \in {"addCurrency", "insert", "update"}
               /\ op[r].kind = "open" \/ (pc[r] = "update" /\ pc'[r] = "update")
<1>1. /\ TypeOK /\ Progress(r)
      /\ pc \in [Requests -> Phases] /\ step \in [Requests -> 1..3]
  BY DEF Inv1, TypeOK, Phases
<1>2. /\ Len(op[r].legs) \in 0..3 /\ step[r] \in 1..2
      /\ pc[r] = "addCurrency" => op[r].kind = "open"
      /\ "balanceAfter" \in Phases /\ "addCurrency" \in Phases
      /\ "insert" \in Phases /\ "update" \in Phases
  <2>1. Len(op[r].legs) \in 0..2 /\ step[r] \in 1..2
    BY <1>1, CurrentLeg
  <2> QED
    BY <1>1, <2>1 DEF Progress, Phases, Waiting
<1>3. CASE Catch(r)
  BY <1>1, <1>3, CatchEffect
<1>4. ASSUME NEW p \in {"addCurrency", "insert", "update"}, NEW i \in 1..3,
             op[r].kind = "open" \/ (pc[r] = "update" /\ p = "update"), Goto(r, p, i)
      PROVE  /\ \A q \in Requests \ {r} : pc'[q] = pc[q] /\ step'[q] = step[q]
             /\ pc'[r] \in {"addCurrency", "insert", "update"}
             /\ op[r].kind = "open" \/ (pc[r] = "update" /\ pc'[r] = "update")
  BY <1>1, <1>2, <1>4, GotoEffect
<1>5. CASE NextBalance(r) /\ op[r].kind = "open"
  <2>1. step[r] + 1 \in 1..3 /\ 1 \in 1..3
    BY <1>2
  <2>2. CASE Goto(r, "addCurrency", step[r] + 1)
    BY <1>4, <1>5, <2>1, <2>2
  <2>3. CASE Goto(r, "insert", 1)
    BY <1>4, <1>5, <2>1, <2>3
  <2> QED
    BY <1>5, <2>2, <2>3 DEF NextBalance
<1>6. CASE op[r].kind # "open" /\ Advance(r, Len(op[r].legs), "balanceAfter")
  BY <1>1, <1>2, <1>6, AdvanceEffect
<1>7. CASE AfterUpdate(r)
  BY <1>5, <1>6, <1>7 DEF AfterUpdate
<1>8. CASE AfterCurrency(r) /\ op[r].kind = "open"
  BY <1>2, <1>4, <1>5, <1>8 DEF AfterCurrency
<1> QED
  BY <1>2, <1>3, <1>7, <1>8

\* The first balances of an account are those of its insert: nobody has moved
\* money on it before.
LEMMA InsertBooks ==
  ASSUME Inv2, Inv1', NEW r \in Requests, NEW a \in Accounts, NEW d \in Document,
         Insert(r, a, d), IsNew(accounts[a]), pc[r] # "idle",
         op' = op, op[r].kind = "open", a = op[r].accounts[1], pc'[r] # "load",
         \A q \in Requests \ {r} : pc'[q] = pc[q] /\ step'[q] = step[q],
         \A k \in Currencies : d.available[k] = posted'[a][k],
         \A k \in Currencies : ~ (d.available[k] < 0),
         \A b \in Accounts \ {a} : posted'[b] = posted[b],
         contended' = contended
  PROVE  Books'
<1> DEFINE e == [d EXCEPT !.status = "active"]
<1>1. /\ CopiesAreOlder /\ AbsentIsUntouched /\ CopiesAreFresh
      /\ UncontendedBalancesAreExact /\ NonNegativeBalances
      /\ TypeOK /\ TypeOK' /\ \A q \in Requests : Progress(q)
  BY DEF Inv2, Inv1, Books
<1>2. /\ accounts'[a] = e /\ doc'[r][a] = e
      /\ \A b \in Accounts \ {a} : accounts'[b] = accounts[b]
                                   /\ doc'[r][b] = doc[r][b]
      /\ \A q \in Requests \ {r} : doc'[q] = doc[q]
      /\ \A q \in Requests \ {r} :
           overwritten'[q] = overwritten[q] \cup ({a} \X Currencies)
  BY <1>1, InsertEffect
<1>3. ~IsNew(e) /\ e.available = d.available
  BY DEF IsNew, Document
<1> HIDE DEF e
<1>4. DOMAIN op[r].accounts = 1..1
  <2>1. /\ WellFormed(op[r])
        /\ DOMAIN op[r].accounts = 1..Len(op[r].accounts)
    BY <1>1, Lengths
  <2>2. Len(op[r].accounts) = 1
    BY <2>1 DEF WellFormed
  <2> QED
    BY <2>1, <2>2
<1>5. \A q \in Requests : IsNew(doc[q][a])
  BY <1>1 DEF CopiesAreOlder
<1>6. CopiesAreOlder'
  <2>1. ASSUME NEW q \in Requests, NEW b \in Accounts, ~IsNew(doc'[q][b])
        PROVE  ~IsNew(accounts'[b])
    <3>1. CASE q = r /\ b = a
      BY <1>2, <1>3, <3>1
    <3>2. CASE ~(q = r /\ b = a)
      <4>1. doc'[q][b] = doc[q][b]
        BY <1>2, <3>2
      <4>2. b # a
        BY <1>5, <2>1, <4>1
      <4> QED
        BY <1>1, <1>2, <2>1, <4>1, <4>2 DEF CopiesAreOlder
    <3> QED
      BY <3>1, <3>2
  <2> QED
    BY <2>1 DEF CopiesAreOlder
<1>7. AbsentIsUntouched'
  <2>1. ASSUME NEW b \in Accounts, IsNew(accounts'[b]), NEW c \in Currencies
        PROVE  accounts'[b].available[c] = 0 /\ posted'[b][c] = 0
    BY <1>1, <1>2, <1>3, <2>1 DEF AbsentIsUntouched
  <2>2. ASSUME NEW q \in Requests, pc'[q] \in {"create", "update"},
               op'[q].kind # "open", NEW i \in DOMAIN op'[q].accounts
        PROVE  ~IsNew(doc'[q][op'[q].accounts[i]])
    <3>1. q # r
      BY <2>2
    <3> QED
      BY <1>1, <1>2, <2>2, <3>1 DEF AbsentIsUntouched
  <2> QED
    BY <2>1, <2>2 DEF AbsentIsUntouched
<1>8. CopiesAreFresh'
  <2> SUFFICES ASSUME NEW q \in Requests, NEW c \in Currencies,
                      NEW b \in Loaded(q)'
               PROVE  IF IsNew(doc'[q][b]) THEN doc'[q][b].available[c] = 0
                      ELSE <<b, c>> \notin overwritten'[q] =>
                        doc'[q][b].available[c] = accounts'[b].available[c]
    BY DEF CopiesAreFresh
  <2>1. CASE q = r
    <3>1. b = a
      BY <1>4, <2>1 DEF Loaded
    <3> QED
      BY <1>2, <1>3, <2>1, <3>1
  <2>2. CASE q # r
    <3>1. b \in Loaded(q) /\ b \in Accounts
      <4>1. b \in Loaded(q)
        BY <2>2 DEF Loaded
      <4> QED
        BY <1>1, <4>1, LoadedAccounts
    <3>2. IF IsNew(doc[q][b]) THEN doc[q][b].available[c] = 0
          ELSE <<b, c>> \notin overwritten[q] =>
                 doc[q][b].available[c] = accounts[b].available[c]
      BY <1>1, <3>1 DEF CopiesAreFresh
    <3>3. doc'[q][b] = doc[q][b]
          /\ (<<b, c>> \in overwritten[q] => <<b, c>> \in overwritten'[q])
      BY <1>2, <2>2
    <3>4. CASE b = a
      BY <1>5, <3>2, <3>3, <3>4
    <3>5. CASE b # a
      BY <1>2, <3>1, <3>2, <3>3, <3>5
    <3> QED
      BY <3>4, <3>5
  <2> QED
    BY <2>1, <2>2
<1>9. UncontendedBalancesAreExact'
  BY <1>1, <1>2, <1>3 DEF UncontendedBalancesAreExact
<1>10. NonNegativeBalances'
  <2>1. ASSUME NEW b \in Accounts, NEW c \in Currencies
        PROVE  accounts'[b].available[c] >= 0
    <3>1. CASE b = a
      <4>1. d.available[c] \in Int /\ ~(d.available[c] < 0)
        BY DEF Document
      <4> QED
        BY <1>2, <1>3, <3>1, <4>1
    <3>2. CASE b # a
      BY <1>1, <1>2, <3>2 DEF NonNegativeBalances
    <3> QED
      BY <3>1, <3>2
  <2> QED
    BY <2>1 DEF NonNegativeBalances
<1> QED
  BY <1>6, <1>7, <1>8, <1>9, <1>10 DEF Books

LEMMA AddCurrencyBooks ==
  ASSUME Inv2, Inv1', NEW r \in Requests, AddCurrency(r)
  PROVE  Books'
<1> DEFINE leg == op[r].legs[step[r]]
           a == leg.account
           c == leg.currency
           copy == doc[r][a]
<1>1. /\ CopiesAreOlder /\ AbsentIsUntouched /\ CopiesAreFresh
      /\ Inv1 /\ TypeOK /\ Progress(r)
  BY DEF Inv2, Inv1, Books
<1>2. /\ pc[r] = "addCurrency"
      /\ UNCHANGED <<op, posted, contended>>
  BY DEF AddCurrency
<1>3. /\ op[r].kind = "open" /\ WellFormed(op[r]) /\ step[r] \in DOMAIN op[r].legs
      /\ leg \in Leg
  BY <1>1, <1>2, CurrentLeg DEF Progress
<1>4. /\ a \in Accounts /\ c \in Currencies /\ a \in Loaded(r)
      /\ a = op[r].accounts[1]
  <2>1. a \in Accounts /\ c \in Currencies /\ a \in Loaded(r)
    BY <1>1, <1>2, <1>3, SavedIsLoaded DEF Leg
  <2>2. /\ DOMAIN op[r].accounts = 1..Len(op[r].accounts)
        /\ Len(op[r].accounts) = 1
    BY <1>1, <1>2, <1>3, Lengths DEF WellFormed
  <2> QED
    BY <2>1, <2>2, <1>3 DEF WellFormed
<1>5. copy \in Document
  BY <1>1, <1>4 DEF TypeOK
<1>6. \/ AfterCurrency(r) /\ pc[r] = "addCurrency"
      \/ Catch(r)
  BY <1>2 DEF AddCurrency
<1>7. /\ \A q \in Requests \ {r} : pc'[q] = pc[q] /\ step'[q] = step[q]
      /\ pc'[r] \in {"balanceAfter", "fail", "error", "addCurrency", "insert",
                     "update"}
  BY <1>1, <1>2, <1>6, AfterwardsEffect
<1>8. \A q \in Requests : KeepsLoaded(q)
  BY <1>2, <1>3, <1>7 DEF KeepsLoaded, Holding
<1> HIDE DEF a, c, copy
<1>9. CASE UNCHANGED <<accounts, doc, overwritten>>
  <2>1. SameMoney
    BY <1>1, <1>2, <1>9 DEF SameMoney, CopiesAreOlder
  <2> QED
    BY <1>8, <2>1, SameMoneyBooks
<1>10. CASE IsNew(copy) /\ ~InsertRefused(r, a) /\ Insert(r, a, copy)
  <2>1. IsNew(accounts[a])
    BY <1>10 DEF InsertRefused, copy
  <2>2. \A k \in Currencies : copy.available[k] = 0 /\ posted[a][k] = 0
    BY <1>1, <1>4, <1>10, <2>1 DEF CopiesAreFresh, AbsentIsUntouched, copy
  <2>3. /\ \A k \in Currencies : copy.available[k] = posted'[a][k]
        /\ \A k \in Currencies : ~ (copy.available[k] < 0)
        /\ \A b \in Accounts \ {a} : posted'[b] = posted[b]
        /\ contended' = contended /\ op' = op
        /\ pc[r] # "idle" /\ pc'[r] # "load"
    BY <1>2, <1>5, <1>7, <2>2
  <2> QED
    BY <1>3, <1>4, <1>5, <1>7, <1>10, <2>1, <2>3, InsertBooks
<1> QED
  BY <1>9, <1>10 DEF AddCurrency, a, c, copy

LEMMA InsertAccountBooks ==
  ASSUME Inv2, Inv1', NEW r \in Requests, InsertAccount(r)
  PROVE  Books'
<1> DEFINE a == op[r].accounts[1]
           copy == doc[r][a]
<1>1. /\ CopiesAreOlder /\ AbsentIsUntouched /\ CopiesAreFresh
      /\ Inv1 /\ TypeOK /\ Progress(r)
      /\ pc \in [Requests -> Phases] /\ step \in [Requests -> 1..3]
  BY DEF Inv2, Inv1, Books, TypeOK, Phases
<1>2. pc[r] = "insert" /\ UNCHANGED <<op, posted, contended>>
  BY DEF InsertAccount
<1>3. /\ op[r].kind = "open" /\ op[r].accounts \in Seq(Accounts)
      /\ 1 \in DOMAIN op[r].accounts
  BY <1>1, <1>2, Lengths DEF Progress
<1>4. a \in Accounts /\ a \in Loaded(r)
  BY <1>2, <1>3 DEF Loaded
<1>5. copy \in Document
  BY <1>1, <1>4 DEF TypeOK
<1>6. /\ \A q \in Requests \ {r} : pc'[q] = pc[q] /\ step'[q] = step[q]
      /\ pc'[r] \in {"done", "error"}
  <2>1. Goto(r, "done", 1) \/ Goto(r, "error", 1)
    BY <1>3 DEF InsertAccount, Catch, RecordCount
  <2>2. "done" \in Phases /\ "error" \in Phases
    BY DEF Phases, Ended
  <2>3. CASE Goto(r, "done", 1)
    BY <1>1, <2>2, <2>3, GotoEffect
  <2>4. CASE Goto(r, "error", 1)
    BY <1>1, <2>2, <2>4, GotoEffect
  <2> QED
    BY <2>1, <2>3, <2>4
<1>7. \A q \in Requests : KeepsLoaded(q)
  BY <1>2, <1>6 DEF KeepsLoaded, Holding
<1> HIDE DEF a, copy
<1>8. CASE UNCHANGED <<accounts, doc, overwritten>>
  <2>1. SameMoney
    BY <1>1, <1>2, <1>8 DEF SameMoney, CopiesAreOlder
  <2> QED
    BY <1>7, <2>1, SameMoneyBooks
<1>9. CASE IsNew(copy) /\ ~InsertRefused(r, a) /\ Insert(r, a, copy)
  <2>3. IsNew(accounts[a])
    BY <1>9 DEF InsertRefused, copy
  <2>1. \A k \in Currencies : copy.available[k] = 0 /\ posted[a][k] = 0
    BY <1>1, <1>4, <1>9, <2>3 DEF CopiesAreFresh, AbsentIsUntouched, copy
  <2>2. /\ \A k \in Currencies : copy.available[k] = posted'[a][k]
        /\ \A k \in Currencies : ~ (copy.available[k] < 0)
        /\ \A b \in Accounts \ {a} : posted'[b] = posted[b]
        /\ contended' = contended /\ op' = op
        /\ pc[r] # "idle" /\ pc'[r] # "load"
        /\ a = op[r].accounts[1]
    BY <1>2, <1>5, <1>6, <2>1 DEF a
  <2> QED
    BY <1>3, <1>4, <1>5, <1>6, <1>9, <2>2, <2>3, InsertBooks
<1> QED
  BY <1>8, <1>9 DEF InsertAccount, a, copy

LEMMA SetStatusBooks ==
  ASSUME Inv2, Inv1', NEW r \in Requests, SetStatus(r)
  PROVE  Books'
<1> DEFINE t == op[r].accounts[1]
<1>1. /\ CopiesAreOlder /\ TypeOK
      /\ pc \in [Requests -> Phases] /\ step \in [Requests -> 1..3]
  BY DEF Inv2, Inv1, Books, TypeOK, Phases
<1>2. /\ pc[r] = "setStatus" /\ Goto(r, "done", 1)
      /\ UNCHANGED <<op, doc, posted, overwritten, contended>>
      /\ \/ accounts' = accounts
         \/ accounts' = [accounts EXCEPT ![t].status = op[r].target]
  BY DEF SetStatus, history
<1>3. "done" \in Phases
  BY DEF Phases, Ended
<1>4. /\ pc'[r] = "done"
      /\ \A q \in Requests \ {r} : pc'[q] = pc[q] /\ step'[q] = step[q]
  BY <1>1, <1>2, <1>3, GotoEffect
<1>5. op[r].target # "absent"
  BY <1>1 DEF TypeOK, OperationType, AccountStatus
<1>6. ASSUME NEW a \in Accounts
      PROVE  /\ accounts'[a].available = accounts[a].available
             /\ IsNew(accounts'[a]) => IsNew(accounts[a])
  <2> HIDE DEF t
  <2>1. accounts \in [Accounts -> Document] /\ accounts[a] \in Document
    BY <1>1 DEF TypeOK
  <2>2. CASE accounts' = [accounts EXCEPT ![t].status = op[r].target]
    <3>1. accounts'[a] = IF a = t
                         THEN [accounts[a] EXCEPT !.status = op[r].target]
                         ELSE accounts[a]
      BY <2>1, <2>2
    <3> QED
      BY <1>5, <2>1, <3>1 DEF Document, IsNew
  <2> QED
    BY <1>2, <2>2
<1>7. SameMoney
  BY <1>1, <1>2, <1>6 DEF SameMoney, CopiesAreOlder
<1>8. \A q \in Requests : KeepsLoaded(q)
  BY <1>2, <1>4 DEF KeepsLoaded, Holding
<1> QED
  BY <1>7, <1>8, SameMoneyBooks

\* A balance of the copy is saved over the stored one: request r moves delta to
\* balance <<b, k>>, which is n in its copy and in the database from now on.
Saves(r, b, k, n, delta) ==
  /\ n = doc[r][b].available[k] + delta /\ ~(n < 0)
  /\ \A a \in Accounts : accounts'[a].status = accounts[a].status
  /\ \A a \in Accounts, c \in Currencies :
       accounts'[a].available[c] =
         IF a = b /\ c = k THEN n ELSE accounts[a].available[c]
  /\ \A q \in Requests, a \in Accounts : doc'[q][a].status = doc[q][a].status
  /\ \A q \in Requests, a \in Accounts, c \in Currencies :
       doc'[q][a].available[c] =
         IF q = r /\ a = b /\ c = k THEN n ELSE doc[q][a].available[c]
  /\ \A a \in Accounts, c \in Currencies :
       posted'[a][c] =
         IF a = b /\ c = k THEN posted[a][c] + delta ELSE posted[a][c]
  /\ \A q \in Requests :
       overwritten'[q] = IF q = r THEN overwritten[q]
                         ELSE overwritten[q] \cup {<<b, k>>}
  /\ contended' = IF <<b, k>> \in overwritten[r]
                  THEN contended \cup {<<b, k>>} ELSE contended

LEMMA SaveEffect ==
  ASSUME TypeOK, NEW r \in Requests, NEW leg \in Leg, NEW n \in Int,
         step[r] \in 1..2,
         n = doc[r][leg.account].available[leg.currency] + leg.delta, ~(n < 0),
         SaveBalance(r, leg, n), Remember(r, leg),
         doc' = [doc EXCEPT ![r][leg.account].available[leg.currency] = n]
  PROVE  Saves(r, leg.account, leg.currency, n, leg.delta)
<1> DEFINE b == leg.account
           k == leg.currency
<1>1. /\ accounts \in [Accounts -> Document]
      /\ doc \in [Requests -> [Accounts -> Document]]
      /\ b \in Accounts /\ k \in Currencies
  BY DEF TypeOK, Leg
<1>2. /\ accounts' = [accounts EXCEPT ![b].available[k] = n]
      /\ overwritten' = [q \in Requests |-> IF q = r THEN overwritten[q]
                           ELSE overwritten[q] \cup {<<b, k>>}]
      /\ contended' = IF <<b, k>> \in overwritten[r]
                      THEN contended \cup {<<b, k>>} ELSE contended
      /\ Post(r, leg)
  BY DEF SaveBalance, Remember
<1>3. \A a \in Accounts, c \in Currencies : posted'[a][c] =
        IF a = b /\ c = k THEN posted[a][c] + leg.delta ELSE posted[a][c]
  BY <1>2, PostEffect
<1> HIDE DEF b, k
<1>4. ASSUME NEW D \in [Accounts -> Document], NEW a \in Accounts
      PROVE  LET E == [D EXCEPT ![b].available[k] = n]
             IN  /\ E[a].status = D[a].status
                 /\ \A c \in Currencies :
                      E[a].available[c] =
                        IF a = b /\ c = k THEN n ELSE D[a].available[c]
  <2>1. CASE a = b
    BY <1>1, <2>1 DEF Document
  <2>2. CASE a # b
    BY <1>1, <2>2
  <2> QED
    BY <2>1, <2>2
<1>5. \A a \in Accounts :
        /\ accounts'[a].status = accounts[a].status
        /\ \A c \in Currencies :
             accounts'[a].available[c] =
               IF a = b /\ c = k THEN n ELSE accounts[a].available[c]
  BY <1>1, <1>2, <1>4
<1>6. ASSUME NEW q \in Requests, NEW a \in Accounts
      PROVE  /\ doc'[q][a].status = doc[q][a].status
             /\ \A c \in Currencies :
                  doc'[q][a].available[c] =
                    IF q = r /\ a = b /\ c = k THEN n
                    ELSE doc[q][a].available[c]
  <2>1. CASE q = r
    <3>1. /\ doc'[q] = [doc[q] EXCEPT ![b].available[k] = n]
          /\ doc[q] \in [Accounts -> Document]
      BY <1>1, <2>1 DEF b, k
    <3> DEFINE E == [doc[q] EXCEPT ![b].available[k] = n]
    <3>2. /\ E[a].status = doc[q][a].status
          /\ \A c \in Currencies :
               E[a].available[c] =
                 IF a = b /\ c = k THEN n ELSE doc[q][a].available[c]
      BY <1>4, <3>1
    <3>3. doc'[q] = E
      BY <3>1
    <3> HIDE DEF E
    <3> QED
      BY <2>1, <3>2, <3>3
  <2>2. CASE q # r
    BY <1>1, <2>2
  <2> QED
    BY <2>1, <2>2
<1> QED
  BY <1>2, <1>3, <1>5, <1>6 DEF Saves, b, k

\* A save adds to what is stored exactly what the history adds, unless it is
\* over a save its copy has not seen; then the balance counts as contended.
LEMMA SaveBooks ==
  ASSUME Inv2, Inv1', NEW r \in Requests, NEW b \in Accounts,
         NEW k \in Currencies, \E n, delta \in Int : Saves(r, b, k, n, delta),
         b \in Loaded(r), ~IsNew(doc[r][b]),
         \A q \in Requests : KeepsLoaded(q)
  PROVE  Books'
<1>1. /\ CopiesAreOlder /\ AbsentIsUntouched /\ CopiesAreFresh
      /\ UncontendedBalancesAreExact /\ NonNegativeBalances
      /\ Inv1 /\ TypeOK
  BY DEF Inv2, Inv1, Books
<1>2. PICK n \in Int, delta \in Int : Saves(r, b, k, n, delta)
  OBVIOUS
<1>3. /\ \A a \in Accounts : accounts'[a].status = accounts[a].status
      /\ \A q \in Requests, a \in Accounts :
           doc'[q][a].status = doc[q][a].status
  BY <1>2 DEF Saves
<1>4. /\ \A a \in Accounts : IsNew(accounts'[a]) <=> IsNew(accounts[a])
      /\ \A q \in Requests, a \in Accounts :
           IsNew(doc'[q][a]) <=> IsNew(doc[q][a])
  BY <1>3 DEF IsNew
<1>5. ASSUME NEW a \in Accounts, NEW c \in Currencies, ~ (a = b /\ c = k)
      PROVE  /\ accounts'[a].available[c] = accounts[a].available[c]
             /\ posted'[a][c] = posted[a][c]
             /\ \A q \in Requests :
                  doc'[q][a].available[c] = doc[q][a].available[c]
  BY <1>2, <1>5 DEF Saves
<1>6. /\ accounts'[b].available[k] = n /\ doc'[r][b].available[k] = n
      /\ posted'[b][k] = posted[b][k] + delta
      /\ n = doc[r][b].available[k] + delta /\ ~(n < 0)
      /\ \A q \in Requests \ {r} :
           doc'[q][b].available[k] = doc[q][b].available[k]
  BY <1>2 DEF Saves
<1>7. ~IsNew(accounts[b])
  BY <1>1 DEF CopiesAreOlder
<1>8. CopiesAreOlder'
  BY <1>1, <1>4 DEF CopiesAreOlder
<1>9. AbsentIsUntouched'
  <2>1. ASSUME NEW a \in Accounts, IsNew(accounts'[a]), NEW c \in Currencies
        PROVE  accounts'[a].available[c] = 0 /\ posted'[a][c] = 0
    <3>1. a # b /\ IsNew(accounts[a])
      BY <1>4, <1>7, <2>1
    <3> QED
      BY <1>1, <1>5, <3>1 DEF AbsentIsUntouched
  <2>2. ASSUME NEW q \in Requests, pc'[q] \in {"create", "update"},
               op'[q].kind # "open", NEW i \in DOMAIN op'[q].accounts
        PROVE  ~IsNew(doc'[q][op'[q].accounts[i]])
    <3>1. op'[q] = op[q] /\ pc[q] \in {"create", "update"}
      BY <2>2, KeepsLoadedEffect
    <3>2. ~IsNew(doc[q][op[q].accounts[i]])
      BY <1>1, <2>2, <3>1 DEF AbsentIsUntouched
    <3>3. op[q].accounts[i] \in Accounts
      BY <1>1, <2>2, <3>1 DEF TypeOK, OperationType
    <3> QED
      BY <1>4, <3>1, <3>2, <3>3
  <2> QED
    BY <2>1, <2>2 DEF AbsentIsUntouched
<1>10. CopiesAreFresh'
  <2> SUFFICES ASSUME NEW q \in Requests, NEW c \in Currencies,
                      NEW a \in Loaded(q)'
               PROVE  IF IsNew(doc'[q][a]) THEN doc'[q][a].available[c] = 0
                      ELSE <<a, c>> \notin overwritten'[q] =>
                        doc'[q][a].available[c] = accounts'[a].available[c]
    BY DEF CopiesAreFresh
  <2>1. a \in Loaded(q) /\ a \in Accounts
    BY <1>1, KeepsLoadedEffect, LoadedAccounts
  <2>2. IF IsNew(doc[q][a]) THEN doc[q][a].available[c] = 0
        ELSE <<a, c>> \notin overwritten[q] =>
               doc[q][a].available[c] = accounts[a].available[c]
    BY <1>1, <2>1 DEF CopiesAreFresh
  <2>3. /\ <<a, c>> \in overwritten[q] => <<a, c>> \in overwritten'[q]
        /\ q # r /\ a = b /\ c = k => <<a, c>> \in overwritten'[q]
    <3>1. overwritten'[q] = IF q = r THEN overwritten[q]
                            ELSE overwritten[q] \cup {<<b, k>>}
      BY <1>2 DEF Saves
    <3> QED
      BY <3>1
  <2>4. CASE ~(a = b /\ c = k)
    BY <1>4, <1>5, <2>1, <2>2, <2>3, <2>4
  <2>5. CASE a = b /\ c = k /\ q = r
    BY <1>4, <1>6, <2>5
  <2>6. CASE a = b /\ c = k /\ q # r
    BY <1>4, <1>6, <2>2, <2>3, <2>6
  <2> QED
    BY <2>4, <2>5, <2>6
<1>11. UncontendedBalancesAreExact'
  <2> SUFFICES ASSUME NEW a \in Accounts, NEW c \in Currencies,
                      <<a, c>> \notin contended'
               PROVE  accounts'[a].available[c] = posted'[a][c]
    BY DEF UncontendedBalancesAreExact
  <2>1. <<a, c>> \notin contended
    BY <1>2 DEF Saves
  <2>2. accounts[a].available[c] = posted[a][c]
    BY <1>1, <2>1 DEF UncontendedBalancesAreExact
  <2>3. CASE a = b /\ c = k
    <3>1. <<b, k>> \notin overwritten[r]
      BY <1>2, <2>3 DEF Saves
    <3>2. doc[r][b].available[k] = accounts[b].available[k]
      BY <1>1, <3>1 DEF CopiesAreFresh
    <3> QED
      BY <1>6, <2>2, <2>3, <3>2
  <2>4. CASE ~ (a = b /\ c = k)
    BY <1>5, <2>2, <2>4
  <2> QED
    BY <2>3, <2>4
<1>12. NonNegativeBalances'
  <2>1. ASSUME NEW x \in Int, ~(x < 0)
        PROVE  x >= 0
    BY <2>1
  <2>2. n >= 0
    BY <1>2, <1>6, <2>1
  <2> QED
    BY <1>1, <1>5, <1>6, <2>2 DEF NonNegativeBalances
<1> QED
  BY <1>8, <1>9, <1>10, <1>11, <1>12 DEF Books

LEMMA UpdateBalanceBooks ==
  ASSUME Inv2, Inv1', NEW r \in Requests, UpdateBalance(r)
  PROVE  Books'
<1> DEFINE leg == op[r].legs[step[r]]
           a == leg.account
           c == leg.currency
           copy == doc[r][a]
           new == copy.available[c] + leg.delta
           d == [copy EXCEPT !.available[c] = new]
<1>1. /\ CopiesAreOlder /\ AbsentIsUntouched /\ CopiesAreFresh
      /\ Inv1 /\ TypeOK /\ Progress(r)
  BY DEF Inv2, Inv1, Books
<1>2. pc[r] = "update" /\ op' = op
  BY DEF UpdateBalance
<1>3. /\ WellFormed(op[r]) /\ step[r] \in DOMAIN op[r].legs /\ step[r] \in 1..2
      /\ leg \in Leg
  BY <1>1, <1>2, CurrentLeg DEF Progress
<1>4. a \in Accounts /\ c \in Currencies /\ a \in Loaded(r) /\ leg.delta \in Int
  BY <1>1, <1>2, <1>3, SavedIsLoaded DEF Leg
<1>5. copy \in Document /\ new \in Int /\ d \in Document
  <2>1. copy \in Document
    BY <1>1, <1>4 DEF TypeOK
  <2>2. new \in Int
    BY <1>4, <2>1 DEF Document
  <2>3. \A n \in Int : [copy EXCEPT !.available[c] = n] \in Document
    BY <1>4, <2>1, SavedDocument
  <2> HIDE DEF new
  <2> QED
    BY <2>1, <2>2, <2>3
<1>6. AfterUpdate(r) \/ Catch(r)
  BY DEF UpdateBalance
<1>7. /\ \A q \in Requests \ {r} : pc'[q] = pc[q] /\ step'[q] = step[q]
      /\ \/ pc'[r] \in {"balanceAfter", "fail", "error"}
         \/ /\ pc'[r] \in {"addCurrency", "insert", "update"}
            /\ op[r].kind = "open" \/ pc'[r] = "update"
  BY <1>1, <1>2, <1>6, AfterwardsEffect
<1>8. \A q \in Requests : KeepsLoaded(q)
  BY <1>2, <1>7 DEF KeepsLoaded, Holding
<1>9. op[r].kind # "open" => ~IsNew(copy)
  <2>1. PICK j \in DOMAIN op[r].accounts : a = op[r].accounts[j]
    BY <1>3 DEF WellFormed
  <2> QED
    BY <1>1, <1>2, <2>1 DEF AbsentIsUntouched
<1>10. op[r].kind = "open" => a = op[r].accounts[1]
  <2>1. ASSUME op[r].kind = "open"
        PROVE  a = op[r].accounts[1]
    <3>1. /\ DOMAIN op[r].accounts = 1..Len(op[r].accounts)
          /\ Len(op[r].accounts) = 1
      BY <1>1, <1>2, <1>3, <2>1, Lengths DEF WellFormed
    <3> QED
      BY <1>3, <3>1 DEF WellFormed
  <2> QED
    BY <2>1
<1> HIDE DEF a, c, copy, new, d
<1>11. CASE UNCHANGED <<accounts, doc, history>>
  <2>1. SameMoney
    BY <1>1, <1>11 DEF SameMoney, CopiesAreOlder, history
  <2> QED
    BY <1>8, <2>1, SameMoneyBooks
<1>12. CASE /\ ~(new < 0) /\ ~InsertRefused(r, a) /\ IsNew(copy)
            /\ Insert(r, a, d) /\ Post(r, leg) /\ UNCHANGED contended
  <2>1. IsNew(accounts[a])
    BY <1>12 DEF InsertRefused, copy
  <2>2. \A k \in Currencies : copy.available[k] = 0 /\ posted[a][k] = 0
    BY <1>1, <1>4, <1>12, <2>1 DEF CopiesAreFresh, AbsentIsUntouched, copy
  <2>3. \A b \in Accounts, k \in Currencies : posted'[b][k] =
          IF b = a /\ k = c THEN posted[b][k] + leg.delta ELSE posted[b][k]
    BY <1>1, <1>3, <1>12, PostEffect DEF a, c
  <2>4. /\ posted' \in [Accounts -> [Currencies -> Int]]
        /\ posted \in [Accounts -> [Currencies -> Int]]
    BY <1>1, <1>3, <1>12, PostEffect DEF TypeOK
  <2>5. \A k \in Currencies : d.available[k] =
          IF k = c THEN new ELSE copy.available[k]
    BY <1>4, <1>5 DEF d, Document
  <2>6. new = leg.delta /\ posted'[a][c] = leg.delta
    <3>1. copy.available[c] = 0 /\ posted[a][c] = 0
      BY <1>4, <2>2
    <3>2. posted'[a][c] = posted[a][c] + leg.delta
      BY <1>4, <2>3
    <3>3. new = copy.available[c] + leg.delta
      BY DEF new
    <3> QED
      BY <1>4, <3>1, <3>2, <3>3
  <2>7. ~(new < 0)
    BY <1>5, <1>12
  <2>8. /\ \A k \in Currencies : d.available[k] = posted'[a][k]
        /\ \A k \in Currencies : ~ (d.available[k] < 0)
    BY <1>4, <1>12, <2>2, <2>3, <2>5, <2>6, <2>7
  <2>9. ASSUME NEW b \in Accounts \ {a}
        PROVE  posted'[b] = posted[b]
    <3>1. /\ posted'[b] \in [Currencies -> Int] /\ posted[b] \in [Currencies -> Int]
          /\ \A k \in Currencies : posted'[b][k] = posted[b][k]
      BY <2>3, <2>4
    <3> QED
      BY <3>1
  <2>10. /\ op[r].kind = "open" /\ a = op[r].accounts[1]
         /\ pc[r] # "idle" /\ pc'[r] # "load" /\ contended' = contended
    BY <1>2, <1>7, <1>9, <1>10, <1>12
  <2> QED
    BY <1>2, <1>4, <1>5, <1>7, <1>12, <2>1, <2>8, <2>9, <2>10, InsertBooks
<1>13. CASE /\ ~(new < 0) /\ ~IsNew(copy)
            /\ SaveBalance(r, leg, new)
            /\ doc' = [doc EXCEPT ![r][a] = d]
            /\ Remember(r, leg)
  <2>1. doc' = [doc EXCEPT ![r][leg.account].available[leg.currency] = new]
    BY <1>13 DEF d, copy, a, c
  <2>2. ~(new < 0) /\ new = doc[r][leg.account].available[leg.currency] + leg.delta
    <3>1. new = doc[r][leg.account].available[leg.currency] + leg.delta
      BY DEF new, copy, a, c
    <3> QED
      BY <1>13, <3>1
  <2>3. Saves(r, a, c, new, leg.delta)
    BY <1>1, <1>3, <1>5, <1>13, <2>1, <2>2, SaveEffect DEF a, c
  <2>4. \E n, delta \in Int : Saves(r, a, c, n, delta)
    BY <1>4, <1>5, <2>3
  <2>5. ~IsNew(doc[r][a])
    BY <1>13 DEF copy
  <2> QED
    BY <1>4, <1>8, <2>4, <2>5, SaveBooks
<1> QED
  BY <1>11, <1>12, <1>13 DEF UpdateBalance, a, c, copy, new, d

LEMMA NextInv2 ==
  ASSUME Inv2, [Next]_vars
  PROVE  Inv2'
<1>1. Inv1 /\ TypeOK /\ CopiesAreOlder /\ \A q \in Requests : Progress(q)
  BY DEF Inv2, Inv1, Books
<1>2. Inv1'
  BY NextInv1 DEF Inv2
<1>3. pc \in [Requests -> Phases] /\ step \in [Requests -> 1..3]
  BY <1>1 DEF TypeOK, Phases
<1>4. ASSUME UNCHANGED <<accounts, doc, posted, overwritten, contended>>,
             \A q \in Requests : KeepsLoaded(q)
      PROVE  Books'
  <2>1. SameMoney
    BY <1>1, <1>4 DEF SameMoney, CopiesAreOlder
  <2> QED
    BY <1>2, <1>4, <2>1, SameMoneyBooks
<1>5. ASSUME NEW r \in Requests, op' = op,
             UNCHANGED <<accounts, doc, posted, overwritten, contended>>,
             \A q \in Requests \ {r} : pc'[q] = pc[q] /\ step'[q] = step[q],
             \/ pc'[r] \notin Holding
             \/ pc[r] = "create" /\ pc'[r] \in {"create", "update"}
      PROVE  Books'
  <2>1. \A q \in Requests : KeepsLoaded(q)
    BY <1>5 DEF KeepsLoaded, Holding
  <2> QED
    BY <1>4, <1>5, <2>1
<1>6. ASSUME NEW r \in Requests, Arrive(r)
      PROVE  Books'
  <2>1. PICK o \in OperationType : Receive(r, o)
    BY <1>6, ArriveWellFormed
  <2>2. /\ Goto(r, "load", 1) /\ op' = [op EXCEPT ![r] = o]
        /\ UNCHANGED <<accounts, doc, posted, overwritten, contended>>
    BY <2>1 DEF Receive, history
  <2>3. /\ pc'[r] = "load" /\ step'[r] = 1
        /\ \A q \in Requests \ {r} : pc'[q] = pc[q] /\ step'[q] = step[q]
    BY <1>3, <2>2, GotoEffect DEF Phases, Waiting
  <2>4. \A q \in Requests \ {r} : op'[q] = op[q]
    BY <1>1, <2>2 DEF TypeOK
  <2>5. \A q \in Requests : KeepsLoaded(q)
    BY <2>3, <2>4 DEF KeepsLoaded
  <2> QED
    BY <1>4, <2>2, <2>5
<1>7. ASSUME NEW r \in Requests, CreateRecord(r)
      PROVE  Books'
  <2>1. /\ pc[r] = "create" /\ op' = op
        /\ UNCHANGED <<accounts, doc, posted, overwritten, contended>>
        /\ \/ Goto(r, "error", 1)
           \/ Advance(r, RecordCount(op[r]), "update")
    BY <1>7 DEF CreateRecord, history
  <2>2. "error" \in Phases /\ "update" \in Phases
    BY DEF Phases, Waiting, Ended
  <2>3. CASE Goto(r, "error", 1)
    <3>1. /\ pc'[r] \notin Holding
          /\ \A q \in Requests \ {r} : pc'[q] = pc[q] /\ step'[q] = step[q]
      BY <1>3, <2>2, <2>3, GotoEffect DEF Holding
    <3> QED
      BY <1>5, <2>1, <3>1
  <2>4. CASE Advance(r, RecordCount(op[r]), "update")
    <3>1. /\ pc'[r] = "create" \/ pc'[r] = "update"
          /\ \A q \in Requests \ {r} : pc'[q] = pc[q] /\ step'[q] = step[q]
      BY <1>3, <2>1, <2>2, <2>4, RecordCountRange, AdvanceEffect
    <3> QED
      BY <1>5, <2>1, <3>1
  <2> QED
    BY <2>1, <2>3, <2>4
<1>8. ASSUME NEW r \in Requests, NEW p \in {"complete", "done", "error"},
             pc[r] \in {"balanceAfter", "complete", "fail"}, op' = op,
             UNCHANGED <<accounts, doc, posted, overwritten, contended>>,
             \/ Goto(r, p, 1)
             \/ \E last \in 0..3 : Advance(r, last, p)
      PROVE  Books'
  <2>1. p \in Phases
    BY DEF Phases, Waiting, Ended
  <2>2. /\ pc'[r] \notin Holding
        /\ \A q \in Requests \ {r} : pc'[q] = pc[q] /\ step'[q] = step[q]
    <3>1. CASE Goto(r, p, 1)
      BY <1>3, <2>1, <3>1, GotoEffect DEF Holding
    <3>2. CASE \E last \in 0..3 : Advance(r, last, p)
      BY <1>3, <1>8, <2>1, <3>2, AdvanceEffect DEF Holding
    <3> QED
      BY <1>8, <3>1, <3>2
  <2> QED
    BY <1>5, <1>8, <2>2
<1>9. ASSUME NEW r \in Requests,
             SetBalanceAfter(r) \/ CompleteRecord(r) \/ FailRecord(r)
      PROVE  Books'
  <2>1. CASE SetBalanceAfter(r)
    <3>1. Len(op[r].legs) \in 0..3
      <4>1. Len(op[r].legs) \in 0..2
        BY <1>1, <2>1, Lengths DEF SetBalanceAfter
      <4> QED
        BY <4>1
    <3> QED
      BY <1>8, <2>1, <3>1 DEF SetBalanceAfter, history
  <2>2. CASE CompleteRecord(r) \/ FailRecord(r)
    BY <1>8, <2>2, RecordCountRange DEF CompleteRecord, FailRecord, history
  <2> QED
    BY <1>9, <2>1, <2>2
<1>10. ASSUME NEW r \in Requests, CallFails(r)
       PROVE  Books'
  <2>1. /\ op' = op
        /\ UNCHANGED <<accounts, doc, posted, overwritten, contended>>
        /\ Catch(r) \/ Goto(r, "error", 1)
    BY <1>10 DEF CallFails, history
  <2>2. "error" \in Phases
    BY DEF Phases, Ended
  <2>3. /\ pc'[r] \notin Holding
        /\ \A q \in Requests \ {r} : pc'[q] = pc[q] /\ step'[q] = step[q]
    BY <1>3, <2>1, <2>2, GotoEffect, CatchEffect DEF Holding
  <2> QED
    BY <1>5, <2>1, <2>3
<1>11. ASSUME Crash
       PROVE  Books'
  <2>1. /\ \A q \in Requests : pc'[q] = "crashed" \/ pc'[q] = pc[q]
        /\ UNCHANGED <<op, step>>
        /\ UNCHANGED <<accounts, doc, posted, overwritten, contended>>
    BY <1>11 DEF Crash, history
  <2>2. \A q \in Requests : KeepsLoaded(q)
    BY <2>1 DEF KeepsLoaded, Holding
  <2> QED
    BY <1>4, <2>1, <2>2
<1>12. ASSUME UNCHANGED vars
       PROVE  Books'
  <2>1. /\ UNCHANGED <<accounts, doc, posted, overwritten, contended>>
        /\ UNCHANGED <<op, pc, step>>
    BY <1>12 DEF vars, clients, history
  <2>2. \A q \in Requests : KeepsLoaded(q)
    BY <2>1 DEF KeepsLoaded
  <2> QED
    BY <1>4, <2>1, <2>2
<1>13. ASSUME NEW r \in Requests, Serve(r)
       PROVE  Books'
  BY <1>2, <1>7, <1>9, <1>13, LoadBooks, AddCurrencyBooks, UpdateBalanceBooks,
     SetStatusBooks, InsertAccountBooks DEF Serve
<1>14. Books'
  <2>1. \/ \E r \in Requests : Arrive(r) \/ Serve(r) \/ CallFails(r)
        \/ Crash \/ UNCHANGED vars
    BY DEF Next, AllServed
  <2>2. CASE \E r \in Requests : Arrive(r) \/ Serve(r) \/ CallFails(r)
    BY <1>6, <1>10, <1>13, <2>2
  <2> QED
    BY <1>11, <1>12, <2>1, <2>2
<1> QED
  BY <1>2, <1>14 DEF Inv2

LEMMA InitInv2 ==
  ASSUME Init
  PROVE  Inv2
<1>1. /\ \A a \in Accounts : accounts[a] =
           IF a \in Opened
           THEN [status |-> "active",
                 available |-> [c \in Currencies |-> InitialBalance]]
           ELSE NoDocument
      /\ \A a \in Accounts : posted[a] = accounts[a].available
      /\ \A r \in Requests : pc[r] = "idle"
      /\ \A r \in Requests, a \in Accounts : doc[r][a] = NoDocument
  BY DEF Init
<1>2. /\ IsNew(NoDocument) /\ \A c \in Currencies : NoDocument.available[c] = 0
  BY DEF NoDocument, IsNew
<1>3. ASSUME NEW a \in Accounts
      PROVE  /\ IsNew(accounts[a]) => accounts[a] = NoDocument
             /\ \A c \in Currencies : accounts[a].available[c] >= 0
  <2>1. CASE a \notin Opened
    <3>1. accounts[a] = NoDocument
      BY <1>1, <2>1
    <3>2. ASSUME NEW c \in Currencies
          PROVE  accounts[a].available[c] = 0 /\ 0 >= 0
      BY <1>2, <3>1
    <3>3. ASSUME NEW c \in Currencies
          PROVE  accounts[a].available[c] >= 0
      BY <3>2
    <3> QED
      BY <3>1, <3>3
  <2>2. CASE a \in Opened
    <3>1. accounts[a] = [status |-> "active",
                 available |-> [c \in Currencies |-> InitialBalance]]
      BY <1>1, <2>2
    <3>2. InitialBalance >= 0
      BY AccountServiceAssumption
    <3> QED
      BY <3>1, <3>2 DEF IsNew
  <2> QED
    BY <2>1, <2>2
<1>4. CopiesAreOlder
  BY <1>1, <1>2, <1>3 DEF CopiesAreOlder
<1>5. AbsentIsUntouched
  BY <1>1, <1>2, <1>3 DEF AbsentIsUntouched
<1>6. CopiesAreFresh
  BY <1>1 DEF CopiesAreFresh, Loaded
<1>7. UncontendedBalancesAreExact
  BY <1>1 DEF UncontendedBalancesAreExact
<1>8. NonNegativeBalances
  BY <1>3 DEF NonNegativeBalances
<1> QED
  BY <1>4, <1>5, <1>6, <1>7, <1>8, InitInv1 DEF Inv2, Books

LEMMA AlwaysInv2 == Spec => []Inv2
BY InitInv2, NextInv2, PTL DEF Spec

\* However stale the copies, no stored balance goes below zero.
THEOREM BalancesStayNonNegative == Spec => []NonNegativeBalances
<1>1. Inv2 => NonNegativeBalances
  BY DEF Inv2, Books
<1> QED
  BY <1>1, AlwaysInv2, PTL

\* A balance no two requests raced on is the initial one plus all that was
\* saved to it, whatever happened to other balances of the same document.
THEOREM BalancesAreExact == Spec => []UncontendedBalancesAreExact
<1>1. Inv2 => UncontendedBalancesAreExact
  BY DEF Inv2, Books
<1> QED
  BY <1>1, AlwaysInv2, PTL
-----------------------------------------------------------------------------
(* What the records say of the money.                                      *)

\* CompletedIsApplied and CutShortOnlyLoses of one request.
Truthful(r) ==
  /\ (\E i \in 1..3 : records[r][i] = "completed")
       => applied[r] = DOMAIN op[r].legs
  /\ applied[r] # Moves(op[r]) =>
       IF op[r].kind = "open"
       THEN \A i \in applied[r], j \in Moves(op[r]) : j < i => j \in applied[r]
       ELSE \A i \in applied[r] : op[r].legs[i].delta < 0

Inv3 == Inv2 /\ \A r \in Requests : Truthful(r)

\* Requests of which nothing changes, or whose records and legs are as before.
LEMMA TruthfulFrame ==
  ASSUME NEW r \in Requests, Truthful(r), op'[r] = op[r],
         \A i \in 1..3 : records'[r][i] = "completed"
                           => records[r][i] = "completed",
         applied'[r] = applied[r]
  PROVE  Truthful(r)'
<1>1. Moves(op[r])' = Moves(op[r])
  BY DEF Moves
<1> QED
  BY <1>1 DEF Truthful

LEMMA ArriveTruthful ==
  ASSUME Inv3, NEW r \in Requests, Arrive(r), NEW q \in Requests
  PROVE  Truthful(q)'
<1>1. PICK o \in OperationType : Receive(r, o)
  BY ArriveWellFormed
<1>2. /\ pc[r] = "idle" /\ op' = [op EXCEPT ![r] = o]
      /\ UNCHANGED <<records, applied>>
  BY <1>1 DEF Receive, history
<1>3. CASE q = r
  <2>1. /\ applied[r] = {}
        /\ \A i \in 1..3 : records[r][i] # "completed"
    BY <1>2 DEF Inv3, Inv2, Inv1, Progress
  <2> QED
    BY <1>2, <1>3, <2>1 DEF Truthful
<1>4. CASE q # r
  <2>1. op'[q] = op[q]
    BY <1>2, <1>4 DEF Inv3, Inv2, Inv1, TypeOK
  <2> QED
    BY <1>2, <2>1, TruthfulFrame DEF Inv3
<1> QED
  BY <1>3, <1>4

LEMMA CreateRecordTruthful ==
  ASSUME Inv3, NEW r \in Requests, CreateRecord(r), NEW q \in Requests
  PROVE  Truthful(q)'
<1>1. /\ op' = op /\ applied' = applied
      /\ \/ records' = records
         \/ \E s \in {"pending", "processing"} :
              records' = [records EXCEPT ![r][step[r]] = s]
  BY DEF CreateRecord, history
<1>2. \A i \in 1..3 : records'[q][i] = "completed"
                        => records[q][i] = "completed"
  <2>1. CASE records' = records
    BY <2>1
  <2>2. ASSUME NEW s \in {"pending", "processing"},
               records' = [records EXCEPT ![r][step[r]] = s]
        PROVE  \A i \in 1..3 : records'[q][i] = "completed"
                                 => records[q][i] = "completed"
    <3>1. /\ records \in [Requests -> [1..3 -> RecordStatus]]
          /\ step[r] \in 1..3
      BY DEF Inv3, Inv2, Inv1, TypeOK
    <3>2. \A i \in 1..3 : records'[q][i] =
            IF q = r /\ i = step[r] THEN s ELSE records[q][i]
      BY <2>2, <3>1
    <3> QED
      BY <3>2
  <2> QED
    BY <1>1, <2>1, <2>2
<1> QED
  BY <1>1, <1>2, TruthfulFrame DEF Inv3

\* Of an operation that is no creation only the last leg is a credit; so what
\* comes before it is a debit, and is saved.
LEMMA DebitsAreSaved ==
  ASSUME TypeOK, NEW r \in Requests, Progress(r),
         pc[r] = "update", op[r].kind # "open"
  PROVE  /\ Moves(op[r]) = DOMAIN op[r].legs
         /\ applied[r] = 1..(step[r] - 1)
         /\ \A i \in DOMAIN op[r].legs :
              op[r].legs[i].delta < 0 \/ i = Len(op[r].legs)
<1> DEFINE legs == op[r].legs
<1>1. /\ WellFormed(op[r]) /\ step[r] \in DOMAIN legs /\ step[r] \in 1..2
      /\ DOMAIN legs = 1..Len(legs) /\ Len(legs) \in 0..2
      /\ \A i \in DOMAIN legs : legs[i] \in Leg
  <2>1. op[r].legs \in Seq(Leg) /\ WellFormed(op[r])
    BY Lengths
  <2> QED
    BY <2>1, CurrentLeg
<1>2. \A i \in DOMAIN legs : /\ legs[i].delta # 0 /\ legs[i].delta \in Int
                             /\ legs[i].delta < 0 \/ i = Len(legs)
  BY <1>1 DEF WellFormed, Leg
<1>3. Moves(op[r]) = DOMAIN legs
  BY <1>2 DEF Moves
<1>4. applied[r] = DOMAIN legs \cap 1..(step[r] - 1)
  BY <1>3 DEF Progress
<1>5. DOMAIN legs \cap 1..(step[r] - 1) = 1..(step[r] - 1)
  BY <1>1
<1> QED
  BY <1>2, <1>3, <1>4, <1>5

LEMMA UpdateBalanceTruthful ==
  ASSUME Inv3, NEW r \in Requests, UpdateBalance(r), NEW q \in Requests
  PROVE  Truthful(q)'
<1> DEFINE legs == op[r].legs
           i == step[r]
<1>1. /\ pc[r] = "update" /\ op' = op /\ records' = records
      /\ applied' = applied \/ applied' = [applied EXCEPT ![r] = @ \cup {i}]
  BY DEF UpdateBalance, Remember, Post, history
<1>2. TypeOK /\ Progress(r) /\ Truthful(q) /\ Truthful(r)
  BY DEF Inv3, Inv2, Inv1
<1>3. CASE applied'[q] = applied[q]
  BY <1>1, <1>2, <1>3, TruthfulFrame
<1>4. CASE q # r
  BY <1>1, <1>2, <1>3, <1>4 DEF TypeOK
<1>5. /\ i \in 1..2 /\ i \in DOMAIN legs /\ legs[i] \in Leg
      /\ DOMAIN legs = 1..Len(legs) /\ Len(legs) \in 0..2
      /\ WellFormed(op[r])
  BY <1>1, <1>2, CurrentLeg, Lengths
<1>6. /\ \A k \in 1..3 : records'[r][k] # "completed"
      /\ \A k \in applied[r] : k \in Moves(op[r]) /\ k < i
      /\ \A j \in Moves(op[r]) : j < i => j \in applied[r]
  <2>1. applied[r] = Moves(op[r]) \cap 1..(i - 1)
    BY <1>1, <1>2 DEF Progress
  <2>2. \A j \in Moves(op[r]) : j \in 1..2
    BY <1>5 DEF Moves
  <2>3. \A k \in 1..3 : records[r][k] # "completed"
    BY <1>1, <1>2 DEF Progress
  <2>4. \A k \in 1..(i - 1) : k < i
    BY <1>5
  <2>5. \A j \in 1..2 : j < i => j \in 1..(i - 1)
    BY <1>5
  <2> HIDE DEF i
  <2>6. \A k \in 1..3 : records'[r][k] # "completed"
    BY <1>1, <2>3
  <2> QED
    BY <2>1, <2>2, <2>4, <2>5, <2>6
<1>7. Moves(op[r])' = Moves(op[r])
  BY <1>1 DEF Moves
<1>9. ASSUME op[r].kind # "open"
      PROVE  /\ Moves(op[r]) = DOMAIN legs
             /\ applied[r] = 1..(i - 1)
             /\ \A k \in DOMAIN legs : legs[k].delta < 0 \/ k = Len(legs)
  BY <1>1, <1>2, <1>9, DebitsAreSaved
<1>10. CASE q = r /\ applied' = [applied EXCEPT ![r] = @ \cup {i}]
  <2>1. applied'[r] = applied[r] \cup {i}
    BY <1>2, <1>10 DEF TypeOK
  <2>2. CASE op[r].kind = "open"
    <3>1. ASSUME NEW k \in applied'[r], NEW j \in Moves(op[r]), j < k
          PROVE  j \in applied'[r]
      <4>1. j < i
        <5>1. CASE k = i
          BY <3>1, <5>1
        <5>2. CASE k \in applied[r]
          <6>1. k < i /\ k \in 1..2 /\ j \in 1..2
            BY <1>5, <1>6, <5>2 DEF Moves
          <6> QED
            BY <1>5, <3>1, <6>1
        <5> QED
          BY <2>1, <5>1, <5>2
      <4> QED
        BY <1>6, <2>1, <2>2, <4>1
    <3> QED
      BY <1>1, <1>6, <1>7, <1>10, <2>1, <2>2, <3>1 DEF Truthful
  <2>3. CASE op[r].kind # "open"
    <3>1. applied'[r] = 1..i
      BY <1>5, <1>9, <2>1, <2>3
    <3>2. ASSUME applied'[r] # Moves(op[r]), NEW k \in applied'[r]
          PROVE  legs[k].delta < 0
      <4>1. k \in DOMAIN legs /\ k # Len(legs)
        BY <1>5, <1>9, <2>3, <3>1, <3>2
      <4> QED
        BY <1>9, <2>3, <4>1
    <3> QED
      BY <1>1, <1>6, <1>7, <1>9, <1>10, <2>1, <2>3, <3>2 DEF Truthful
  <2> QED
    BY <2>2, <2>3
<1> QED
  BY <1>1, <1>3, <1>4, <1>10

LEMMA CompleteRecordTruthful ==
  ASSUME Inv3, NEW r \in Requests, CompleteRecord(r), NEW q \in Requests
  PROVE  Truthful(q)'
<1>1. /\ pc[r] = "complete" /\ op' = op
      /\ applied' = applied
      /\ records' = [records EXCEPT ![r][step[r]] = "completed"]
  BY DEF CompleteRecord, history
<1>2. CASE q = r
  <2>1. applied[r] = DOMAIN op[r].legs
    BY <1>1 DEF Inv3, Inv2, Inv1, Progress
  <2>2. Truthful(r) /\ Moves(op[r])' = Moves(op[r])
    BY <1>1 DEF Inv3, Moves
  <2> QED
    BY <1>1, <1>2, <2>1, <2>2 DEF Truthful
<1>3. CASE q # r
  <2>1. records'[q] = records[q]
    BY <1>1, <1>3 DEF Inv3, Inv2, Inv1, TypeOK
  <2> QED
    BY <1>1, <2>1, TruthfulFrame DEF Inv3
<1> QED
  BY <1>2, <1>3

LEMMA FailRecordTruthful ==
  ASSUME Inv3, NEW r \in Requests, FailRecord(r), NEW q \in Requests
  PROVE  Truthful(q)'
<1>1. /\ op' = op /\ applied' = applied
      /\ \/ records' = records
         \/ records' = [records EXCEPT ![r][step[r]] = "failed"]
  BY DEF FailRecord, history
<1>2. \A i \in 1..3 : records'[q][i] = "completed"
                        => records[q][i] = "completed"
  <2>1. CASE records' = records
    BY <2>1
  <2>2. CASE records' = [records EXCEPT ![r][step[r]] = "failed"]
    <3>1. /\ records \in [Requests -> [1..3 -> RecordStatus]]
          /\ step[r] \in 1..3
      BY DEF Inv3, Inv2, Inv1, TypeOK
    <3>2. ASSUME NEW i \in 1..3
          PROVE  records'[q][i] = IF q = r /\ i = step[r] THEN "failed"
                                  ELSE records[q][i]
      BY <2>2, <3>1
    <3> QED
      BY <3>2
  <2> QED
    BY <1>1, <2>1, <2>2
<1> QED
  BY <1>1, <1>2, TruthfulFrame DEF Inv3

LEMMA NextInv3 ==
  ASSUME Inv3, [Next]_vars
  PROVE  Inv3'
<1>1. Inv2'
  BY NextInv2 DEF Inv3
<1>2. ASSUME NEW q \in Requests, UNCHANGED <<op, records, applied>>
      PROVE  Truthful(q)'
  BY <1>2, TruthfulFrame DEF Inv3
<1>3. ASSUME NEW q \in Requests, NEW r \in Requests, Serve(r)
      PROVE  Truthful(q)'
  <2>1. CASE \/ Load(r) \/ AddCurrency(r) \/ SetBalanceAfter(r)
             \/ SetStatus(r) \/ InsertAccount(r)
    BY <1>2, <2>1
       DEF Load, AddCurrency, SetBalanceAfter, SetStatus, InsertAccount, history
  <2> QED
    BY <1>3, <2>1, CreateRecordTruthful, UpdateBalanceTruthful,
       CompleteRecordTruthful, FailRecordTruthful DEF Serve
<1>4. ASSUME NEW q \in Requests
      PROVE  Truthful(q)'
  <2>1. CASE \E r \in Requests : CallFails(r)
    BY <1>2, <2>1 DEF CallFails, history
  <2>2. CASE Crash \/ UNCHANGED vars
    BY <1>2, <2>2 DEF Crash, vars, clients, history
  <2> QED
    BY <1>3, <2>1, <2>2, ArriveTruthful DEF Next, AllServed
<1> QED
  BY <1>1, <1>4 DEF Inv3

LEMMA InitInv3 ==
  ASSUME Init
  PROVE  Inv3
<1>1. ASSUME NEW r \in Requests
      PROVE  Truthful(r)
  BY DEF Init, Truthful, NoRecords
<1> QED
  BY <1>1, InitInv2 DEF Inv3

LEMMA AlwaysInv3 == Spec => []Inv3
BY InitInv3, NextInv3, PTL DEF Spec

\* A record that says COMPLETED tells the truth: every balance of its operation
\* has been saved, whatever interleaved, failed or crashed.
THEOREM CompletedRecordsAreTrue == Spec => []CompletedIsApplied
<1>1. Inv3 => CompletedIsApplied
  BY DEF Inv3, Truthful, CompletedIsApplied
<1> QED
  BY <1>1, AlwaysInv3, PTL

\* A transfer or conversion cut short has saved nothing, or the debit alone; a
\* creation has saved its first initial balances.  Neither leaves money that was
\* not asked for.
THEOREM CuttingShortMakesNoMoney == Spec => []CutShortOnlyLoses
<1>1. Inv3 => CutShortOnlyLoses
  BY DEF Inv3, Truthful, CutShortOnlyLoses
<1> QED
  BY <1>1, AlwaysInv3, PTL

\* The inductive invariant as TLC checks it.
THEOREM BooksAreKept == Spec => []IndInv
<1>1. Inv3 => IndInv
  <2>1. Inv3 => CompletedIsApplied /\ CutShortOnlyLoses
    BY DEF Inv3, Truthful, CompletedIsApplied, CutShortOnlyLoses
  <2>2. Inv3 => /\ TypeOK /\ \A r \in Requests : Progress(r)
                /\ NonNegativeBalances /\ UncontendedBalancesAreExact
                /\ CopiesAreOlder /\ CopiesAreFresh /\ AbsentIsUntouched
    BY DEF Inv3, Inv2, Inv1, Books
  <2> QED
    BY <2>1, <2>2 DEF IndInv
<1> QED
  BY <1>1, AlwaysInv3, PTL
=============================================================================
