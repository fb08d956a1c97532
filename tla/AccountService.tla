--------------------------- MODULE AccountService ---------------------------
(***************************************************************************)
(* The money operations of the account service: every request is a chain   *)
(* of awaited database calls made by one handler of AccountService.ts on   *)
(* its own in-memory copy of the account documents, and the chains of      *)
(* concurrent requests interleave at the awaits.                           *)
(*                                                                         *)
(* A step is one awaited call.  A handler loads the accounts, decides on   *)
(* the loaded copies, inserts its transaction records, saves one balance   *)
(* after the other, stamps the records and completes them.  A save writes  *)
(* only the modified paths of a document, so a balance save is the         *)
(* absolute value computed from the copy.  It compares Mongoose's version  *)
(* of the document, as a balance is an element of an array; but only       *)
(* adding an element changes the version, and nothing adds one after the   *)
(* insert, which gives a new account a balance in every currency.          *)
(***************************************************************************)
EXTENDS Integers, Sequences, FiniteSets

CONSTANTS
  Accounts,         \* users; the unique index makes it one account per user
  Currencies,
  DefaultCurrency,  \* the one an account has before it is inserted
  Requests,         \* request slots, each serves one request
  Amounts,          \* positive amounts a request may name
  Kinds,            \* the operations clients may call
  Opened,           \* the accounts that exist at the start
  InitialBalance,
  MaxInFlight,      \* bound: requests being served at the same time
  MaxFaults         \* bound: failed saves and process crashes

ASSUME AccountServiceAssumption ==
  /\ DefaultCurrency \in Currencies
  /\ Amounts \subseteq Nat \ {0}
  /\ Kinds \subseteq {"deposit", "withdraw", "transfer", "convert", "detailed",
                     "token", "charge", "status", "open"}
  /\ Opened \subseteq Accounts
  /\ InitialBalance \in Nat
  /\ MaxInFlight \in Nat
  /\ MaxFaults \in Nat

VARIABLES
  accounts,     \* the account documents in MongoDB
  records,      \* transaction and conversion records in MongoDB
  op,           \* per request: what was asked for
  pc, step,     \* per request: the call it makes next and its index
  doc,          \* per request: its copies of the account documents
  memory,       \* per request: status of its records in memory
  faults,       \* faults left
  \* history
  applied,      \* per request: the legs whose balance save succeeded
  posted,       \* what the successful balance saves add up to
  overwritten,  \* per request: balances others saved since it loaded them
  contended     \* balances saved over somebody else's save

clients == <<op, pc, step, doc, memory>>
history == <<applied, posted, overwritten, contended>>
vars == <<accounts, records, clients, faults, history>>
-----------------------------------------------------------------------------
AccountStatus == {"active", "suspended", "frozen", "closed"}
RecordStatus == {"absent", "pending", "processing", "completed", "failed"}

Document == [status : AccountStatus \cup {"absent"},
             available : [Currencies -> Int]]

Balances == Accounts \X Currencies

Leg == [account : Accounts, currency : Currencies, delta : Int]

\* A document that is not in the collection: what new Account() has in memory.
NoDocument == [status |-> "absent", available |-> [c \in Currencies |-> 0]]

IsNew(d) == d.status = "absent"

NoRecords == [i \in 1..3 |-> "absent"]

\* accounts: the documents the handler loads, in order; target: the status
\* updateAccountStatus is asked to set.
Operation(kind, accs, legs, target) ==
  [kind |-> kind, accounts |-> accs, legs |-> legs, target |-> target]

OperationType ==
  [kind : Kinds \cup {"none"}, accounts : Seq(Accounts), legs : Seq(Leg),
   target : AccountStatus]

NoOperation == Operation("none", <<>>, <<>>, "active")

TakeFrom(a, c, n) == [account |-> a, currency |-> c, delta |-> -n]
AddTo(a, c, n) == [account |-> a, currency |-> c, delta |-> n]

IsEmpty(d) == \A c \in Currencies : d.available[c] = 0

\* How many records the handler inserts; the last one of a conversion is the
\* CurrencyConversion document, the others are Transaction documents.
RecordCount(o) ==
  CASE o.kind \in {"deposit", "withdraw", "charge"} -> 1
    [] o.kind \in {"transfer", "token"} -> 2
    [] o.kind \in {"convert", "detailed"} -> 3
    [] OTHER -> 0

IsConversion(o, i) ==
  o.kind \in {"convert", "detailed", "token"} /\ i = RecordCount(o)

\* The schema refuses the conversion record: TOKEN is not one of the currencies,
\* and the token details a request may name have no tokenValue.
IsRefused(o) == o.kind \in {"detailed", "token"}

\* The legs that move something: an initial balance may be zero.
Moves(o) == {i \in DOMAIN o.legs : o.legs[i].delta # 0}

\* bound: elements of initialBalances.
MaxInitialBalances == 2

Waiting == {"load", "create", "addCurrency", "update", "balanceAfter",
            "complete", "fail", "insert", "setStatus"}
Ended == {"done", "rejected", "error", "crashed"}

InFlight == {r \in Requests : pc[r] \in Waiting}
-----------------------------------------------------------------------------
Init ==
  /\ accounts = [a \in Accounts |->
       IF a \in Opened
       THEN [status |-> "active",
             available |-> [c \in Currencies |-> InitialBalance]]
       ELSE NoDocument]
  /\ records = [r \in Requests |-> NoRecords]
  /\ op = [r \in Requests |-> NoOperation]
  /\ pc = [r \in Requests |-> "idle"]
  /\ step = [r \in Requests |-> 1]
  /\ doc = [r \in Requests |-> [a \in Accounts |-> NoDocument]]
  /\ memory = [r \in Requests |-> NoRecords]
  /\ faults = MaxFaults
  /\ applied = [r \in Requests |-> {}]
  /\ posted = [a \in Accounts |-> accounts[a].available]
  /\ overwritten = [r \in Requests |-> {}]
  /\ contended = {}

\* The request goes on with call p, at its i-th repetition.
Goto(r, p, i) == /\ pc' = [pc EXCEPT ![r] = p]
                 /\ step' = [step EXCEPT ![r] = i]

\* Mutant: the loop over the calls ends one too early.
StopShort(r, last, p) ==
  IF step[r] + 1 < last THEN Goto(r, pc[r], step[r] + 1) ELSE Goto(r, p, 1)

\* The next repetition of the same call, or call p when it was the last.
Advance(r, last, p) ==
  IF step[r] < last THEN Goto(r, pc[r], step[r] + 1) ELSE Goto(r, p, 1)
-----------------------------------------------------------------------------
(* Requests arriving, one action per handler.                              *)

Receive(r, o) ==
  /\ pc[r] = "idle"
  /\ o.kind \in Kinds
  /\ Cardinality(InFlight) < MaxInFlight
  /\ op' = [op EXCEPT ![r] = o]
  /\ Goto(r, "load", 1)
  /\ UNCHANGED <<accounts, records, doc, memory, faults, history>>

Deposit(r) == \E a \in Accounts, c \in Currencies, n \in Amounts :
  Receive(r, Operation("deposit", <<a>>, <<AddTo(a, c, n)>>, "active"))

Withdraw(r) == \E a \in Accounts, c \in Currencies, n \in Amounts :
  Receive(r, Operation("withdraw", <<a>>, <<TakeFrom(a, c, n)>>, "active"))

\* Mutant: the receiver is credited first.
CreditFirst(r) == \E a \in Accounts, c \in Currencies, n \in Amounts :
  \E b \in Accounts \ {a} :
    Receive(r, Operation("transfer", <<a, b>>,
                         <<AddTo(b, c, n), TakeFrom(a, c, n)>>, "active"))

\* The validation middleware has refused a transfer to the same account.
Transfer(r) == \E a \in Accounts, c \in Currencies, n \in Amounts :
  \E b \in Accounts \ {a} :
    Receive(r, Operation("transfer", <<a, b>>,
                         <<TakeFrom(a, c, n), AddTo(b, c, n)>>, "active"))

\* What the rate and the 0.1% fee leave of n is any amount.  "detailed" is a
\* request with assetTokenDetails.
ConvertCurrency(r) ==
  \E a \in Accounts, c \in Currencies, n, net \in Amounts :
    \E d \in Currencies \ {c}, kind \in {"convert", "detailed"} :
      Receive(r, Operation(kind, <<a>>,
                           <<TakeFrom(a, c, n), AddTo(a, d, net)>>, "active"))

ConvertAssetTokenToFiat(r) ==
  \E a \in Accounts, c \in Currencies, net \in Amounts :
    Receive(r, Operation("token", <<a>>, <<AddTo(a, c, net)>>, "active"))

ChargeFiatForCryptoPurchase(r) ==
  \E a \in Accounts, c \in Currencies, n \in Amounts :
    Receive(r, Operation("charge", <<a>>, <<TakeFrom(a, c, n)>>, "active"))

\* (A request for pending_verification matches no case and changes nothing.)
UpdateAccountStatus(r) == \E a \in Accounts, s \in AccountStatus :
  Receive(r, Operation("status", <<a>>, <<>>, s))

\* With any initial balances: a currency may come twice, an amount may be zero.
CreateAccount(r) ==
  \E a \in Accounts, n \in 0..MaxInitialBalances :
    \E legs \in [1..n -> {AddTo(a, c, m) : c \in Currencies,
                                          m \in Amounts \cup {0}}] :
      Receive(r, Operation("open", <<a>>, legs, "active"))

Arrive(r) ==
  \/ Deposit(r)
  \/ Withdraw(r)
  \/ Transfer(r)
  \/ ConvertCurrency(r)
  \/ ConvertAssetTokenToFiat(r)
  \/ ChargeFiatForCryptoPurchase(r)
  \/ UpdateAccountStatus(r)
  \/ CreateAccount(r)
-----------------------------------------------------------------------------
(* The awaited calls.                                                      *)

\* Mutant: close() without its check.
MayCloseAlways(d) == TRUE

MayClose(d) == IsEmpty(d)

HasBalance(d, leg) == d[leg.account].available[leg.currency] + leg.delta >= 0

\* The checks between the last load and the first save, on the copies d.
Accepts(o, d) ==
  CASE o.kind = "open" -> IsNew(d[o.accounts[1]])
    [] o.kind = "status" ->
         /\ ~IsNew(d[o.accounts[1]])
         /\ o.target = "closed" => MayClose(d[o.accounts[1]])
    [] OTHER ->
         /\ \A i \in DOMAIN o.accounts : d[o.accounts[i]].status = "active"
         /\ \A i \in DOMAIN o.legs :
              o.legs[i].delta < 0 => HasBalance(d, o.legs[i])

FirstSave(o) ==
  CASE o.kind = "open" -> IF o.legs = <<>> THEN "insert" ELSE "addCurrency"
    [] o.kind = "status" -> "setStatus"
    [] OTHER -> "create"

\* getAccount, and after the last one the handler's checks.
Load(r) ==
  LET o == op[r]
      a == o.accounts[step[r]]
      d == [doc[r] EXCEPT ![a] = accounts[a]]
  IN /\ pc[r] = "load"
     /\ doc' = [doc EXCEPT ![r] = d]
     /\ overwritten' = [overwritten EXCEPT ![r] = @ \ ({a} \X Currencies)]
     /\ Advance(r, Len(o.accounts),
                IF Accepts(o, d) THEN FirstSave(o) ELSE "rejected")
     /\ UNCHANGED <<accounts, records, op, memory, faults,
                    applied, posted, contended>>

\* new Transaction(...).save() and new CurrencyConversion(...).save().  They
\* stand outside of the try block that would fail the transactions when the
\* schema refuses the conversion.
CreateRecord(r) ==
  LET o == op[r]
      i == step[r]
      s == IF IsConversion(o, i) THEN "pending" ELSE "processing"
  IN /\ pc[r] = "create"
     /\ IF IsRefused(o) /\ IsConversion(o, i)
        THEN /\ Goto(r, "error", 1)
             /\ UNCHANGED <<records, memory>>
        ELSE /\ records' = [records EXCEPT ![r][i] = s]
             /\ memory' = [memory EXCEPT ![r][i] = s]
             /\ Advance(r, RecordCount(o), "update")
     /\ UNCHANGED <<accounts, op, doc, faults, history>>

\* Mutant: an error of a save is swallowed, as one of the ledger's is.
SwallowError(r) == Goto(r, "complete", 1)

\* Mutant: calls counted from zero.
CatchFromZero(r) == Goto(r, "fail", 0)

\* Where an exception in the handler's try block leads.
Catch(r) == Goto(r, IF RecordCount(op[r]) = 0 THEN "error" ELSE "fail", 1)

\* The insert of a copy is refused by the unique index on userId when another
\* request has created the account.
InsertRefused(r, a) == IsNew(doc[r][a]) /\ ~IsNew(accounts[a])

\* The insert of d, a copy with its initial balance; the pre-save hook adds the
\* other currencies.  Everybody else's copy of the account is out of date.
Insert(r, a, d) ==
  /\ accounts' = [accounts EXCEPT ![a] = [d EXCEPT !.status = "active"]]
  /\ doc' = [doc EXCEPT ![r][a] = [d EXCEPT !.status = "active"]]
  /\ overwritten' = [q \in Requests |-> IF q = r THEN {}
                       ELSE overwritten[q] \cup ({a} \X Currencies)]

\* What the history remembers of a leg whose balance was saved.
Post(r, leg) ==
  /\ posted' = [posted EXCEPT ![leg.account][leg.currency] = @ + leg.delta]
  /\ applied' = [applied EXCEPT ![r] = @ \cup {step[r]}]

\* ... and of the saved balance.
Remember(r, leg) ==
  LET b == <<leg.account, leg.currency>>
  IN /\ Post(r, leg)
     /\ overwritten' = [q \in Requests |-> IF q = r THEN overwritten[q]
                                           ELSE overwritten[q] \cup {b}]
     /\ contended' = IF b \in overwritten[r] THEN contended \cup {b}
                     ELSE contended

\* Mutant: an $inc of the stored balance, without a condition on it.
SaveByIncrement(r, leg, new) ==
  accounts' = [accounts EXCEPT
                 ![leg.account].available[leg.currency] = @ + leg.delta]

\* Mutant: the whole document of the copy.
SaveWholeDocument(r, leg, new) ==
  accounts' = [accounts EXCEPT ![leg.account] =
    [doc[r][leg.account] EXCEPT !.available[leg.currency] = new]]

\* Of the stored document only the modified path, to the copy's new value.
SaveBalance(r, leg, new) ==
  accounts' = [accounts EXCEPT ![leg.account].available[leg.currency] = new]

\* createAccount goes on with the next initial balance, or the last save.
NextBalance(r) ==
  IF step[r] < Len(op[r].legs) THEN Goto(r, "addCurrency", step[r] + 1)
  ELSE Goto(r, "insert", 1)

AfterCurrency(r) ==
  IF op[r].legs[step[r]].delta > 0 THEN Goto(r, "update", step[r])
  ELSE NextBalance(r)

AfterUpdate(r) ==
  IF op[r].kind = "open" THEN NextBalance(r)
  ELSE Advance(r, Len(op[r].legs), "balanceAfter")

\* addCurrency of the next initial balance: nothing to save if the copy has the
\* currency, which everything that is inserted has.
AddCurrency(r) ==
  LET leg == op[r].legs[step[r]]
      a == leg.account
      copy == doc[r][a]
  IN /\ pc[r] = "addCurrency"
     /\ \/ /\ leg.currency = DefaultCurrency \/ ~IsNew(copy)
           /\ AfterCurrency(r)
           /\ UNCHANGED <<accounts, doc, overwritten>>
        \/ /\ leg.currency # DefaultCurrency
           /\ InsertRefused(r, a)
           /\ Catch(r)
           /\ UNCHANGED <<accounts, doc, overwritten>>
        \/ /\ leg.currency # DefaultCurrency
           /\ IsNew(copy) /\ ~InsertRefused(r, a)
           /\ Insert(r, a, copy)
           /\ AfterCurrency(r)
     /\ UNCHANGED <<records, op, memory, faults, applied, posted, contended>>

UpdateBalance(r) ==
  LET leg == op[r].legs[step[r]]
      a == leg.account
      c == leg.currency
      copy == doc[r][a]
      new == copy.available[c] + leg.delta
      d == [copy EXCEPT !.available[c] = new]
  IN /\ pc[r] = "update"
     /\ IF new < 0 \/ InsertRefused(r, a)
        THEN /\ Catch(r)
             /\ UNCHANGED <<accounts, doc, history>>
        ELSE /\ IF IsNew(copy)
                THEN /\ Insert(r, a, d)
                     /\ Post(r, leg)
                     /\ UNCHANGED contended
                ELSE /\ SaveBalance(r, leg, new)
                     /\ doc' = [doc EXCEPT ![r][a] = d]
                     /\ Remember(r, leg)
             /\ AfterUpdate(r)
     /\ UNCHANGED <<records, op, memory, faults>>

\* Mutant: the handler returns without completing the records.
ReturnEarly(r) ==
  /\ pc[r] = "balanceAfter"
  /\ Goto(r, "done", 1)
  /\ UNCHANGED <<accounts, records, op, doc, memory, faults, history>>

\* The saved balanceAfter is not kept; that the save can fail is.
SetBalanceAfter(r) ==
  /\ pc[r] = "balanceAfter"
  /\ Advance(r, Len(op[r].legs), "complete")
  /\ UNCHANGED <<accounts, records, op, doc, memory, faults, history>>

\* complete() of the transactions, then updateStatus of the conversion.  The
\* calls to the ledger and notification services that follow change nothing
\* here and swallow their errors.
CompleteRecord(r) ==
  /\ pc[r] = "complete"
  /\ memory[r][step[r]] \in {"processing", "pending"}
  /\ records' = [records EXCEPT ![r][step[r]] = "completed"]
  /\ memory' = [memory EXCEPT ![r][step[r]] = "completed"]
  /\ Advance(r, RecordCount(op[r]), "done")
  /\ UNCHANGED <<accounts, op, doc, faults, history>>

\* fail() of each record in the catch block; it throws on a record completed
\* in memory, and the rest of the catch block is skipped.
FailRecord(r) ==
  /\ pc[r] = "fail"
  /\ IF memory[r][step[r]] = "completed"
     THEN /\ Goto(r, "error", 1)
          /\ UNCHANGED <<records, memory>>
     ELSE /\ records' = [records EXCEPT ![r][step[r]] = "failed"]
          /\ memory' = [memory EXCEPT ![r][step[r]] = "failed"]
          /\ Advance(r, RecordCount(op[r]), "error")
  /\ UNCHANGED <<accounts, op, doc, faults, history>>

\* suspend, freeze, activate and close save the status path only, and only
\* when it differs from the copy's.
SetStatus(r) ==
  LET a == op[r].accounts[1]
  IN /\ pc[r] = "setStatus"
     /\ IF doc[r][a].status = op[r].target
        THEN UNCHANGED accounts
        ELSE accounts' = [accounts EXCEPT ![a].status = op[r].target]
     /\ Goto(r, "done", 1)
     /\ UNCHANGED <<records, op, doc, memory, faults, history>>

\* The last save() of createAccount: the insert, unless an initial balance has
\* brought it; then it finds nothing to write.
InsertAccount(r) ==
  LET a == op[r].accounts[1]
      copy == doc[r][a]
  IN /\ pc[r] = "insert"
     /\ \/ /\ IsNew(copy) /\ ~InsertRefused(r, a)
           /\ Insert(r, a, copy)
           /\ Goto(r, "done", 1)
        \/ /\ InsertRefused(r, a)
           /\ Catch(r)
           /\ UNCHANGED <<accounts, doc, overwritten>>
        \/ /\ ~IsNew(copy)
           /\ Goto(r, "done", 1)
           /\ UNCHANGED <<accounts, doc, overwritten>>
     /\ UNCHANGED <<records, op, memory, faults, applied, posted, contended>>
-----------------------------------------------------------------------------
(* Faults.                                                                 *)

\* An awaited database call rejects without having taken effect.  A load or
\* a first save throws out of the handler, a save in the try block goes to
\* the catch block, and a save in the catch block throws out of it.
CallFails(r) ==
  /\ pc[r] \in Waiting
  /\ faults > 0
  /\ faults' = faults - 1
  /\ memory' = IF pc[r] = "complete"
               THEN [memory EXCEPT ![r][step[r]] = "completed"] ELSE memory
  /\ IF pc[r] \in {"update", "balanceAfter", "complete"}
     THEN Catch(r) ELSE Goto(r, "error", 1)
  /\ UNCHANGED <<accounts, records, op, doc, history>>

\* The process dies; what it held in memory is gone and nothing resumes it.
Crash ==
  /\ InFlight # {}
  /\ faults > 0
  /\ faults' = faults - 1
  /\ pc' = [r \in Requests |-> IF r \in InFlight THEN "crashed" ELSE pc[r]]
  /\ UNCHANGED <<accounts, records, op, step, doc, memory, history>>

Serve(r) ==
  \/ Load(r)
  \/ CreateRecord(r)
  \/ AddCurrency(r)
  \/ UpdateBalance(r)
  \/ SetBalanceAfter(r)
  \/ CompleteRecord(r)
  \/ FailRecord(r)
  \/ SetStatus(r)
  \/ InsertAccount(r)

\* Every slot has served its request.
AllServed ==
  /\ \A r \in Requests : pc[r] \in Ended
  /\ UNCHANGED vars

Next ==
  \/ \E r \in Requests : Arrive(r) \/ Serve(r) \/ CallFails(r)
  \/ Crash
  \/ AllServed

Spec == Init /\ [][Next]_vars

\* The event loop resumes every awaited call.
FairSpec == Spec /\ \A r \in Requests : WF_vars(Serve(r))
-----------------------------------------------------------------------------
(* Properties.                                                             *)

TypeOK ==
  /\ accounts \in [Accounts -> Document]
  /\ records \in [Requests -> [1..3 -> RecordStatus]]
  /\ op \in [Requests -> OperationType]
  /\ pc \in [Requests -> {"idle"} \cup Waiting \cup Ended]
  /\ step \in [Requests -> 1..3]
  /\ doc \in [Requests -> [Accounts -> Document]]
  /\ memory \in [Requests -> [1..3 -> RecordStatus]]
  /\ faults \in 0..MaxFaults
  /\ applied \in [Requests -> SUBSET (1..2)]
  /\ posted \in [Accounts -> [Currencies -> Int]]
  /\ overwritten \in [Requests -> SUBSET Balances]
  /\ contended \subseteq Balances

\* No interleaving of requests, failed saves and crashes drives a stored
\* balance below zero: hasBalance is checked on the copy the saved value is
\* computed from, however stale that copy is.
NonNegativeBalances ==
  \A a \in Accounts, c \in Currencies : accounts[a].available[c] >= 0

\* A record that says COMPLETED tells the truth about the money: every
\* balance its operation moves, on both sides of a transfer or conversion, has
\* been saved.  (FAILED promises nothing: the catch block undoes no save.)
CompletedIsApplied ==
  \A r \in Requests :
    (\E i \in 1..3 : records[r][i] = "completed")
      => applied[r] = DOMAIN op[r].legs

\* An operation cut short anywhere, by a failed save or a crash, makes no money.
\* Of a transfer or a conversion at most the debit was saved; an account whose
\* creation broke off has its first initial balances, and none of the later.
CutShortOnlyLoses ==
  \A r \in Requests :
    applied[r] # Moves(op[r]) =>
      IF op[r].kind = "open"
      THEN \A i \in applied[r], j \in Moves(op[r]) : j < i => j \in applied[r]
      ELSE \A i \in applied[r] : op[r].legs[i].delta < 0

\* A stored balance is exact, the initial one plus all that was saved to it,
\* unless some request saved that very balance over a save it had not seen.
\* Requests on other accounts, other currencies of the same account, status
\* changes and account creations never disturb it.
UncontendedBalancesAreExact ==
  \A a \in Accounts, c \in Currencies :
    <<a, c>> \notin contended => accounts[a].available[c] = posted[a][c]

\* close() refuses an account that still holds money, and no operation works
\* on an account that is not active: what is closed is empty and stays so.
ClosedAccountsAreEmpty ==
  \A a \in Accounts : accounts[a].status = "closed" => IsEmpty(accounts[a])

\* As long as no call fails and no process crashes, every request that is taken
\* up ends, and leaves each record it created COMPLETED or FAILED, refused saves
\* included; excepted are the conversions whose record the schema refuses, which
\* leave their transactions PROCESSING.
RequestsSettle ==
  [](faults = MaxFaults) =>
    \A r \in Requests :
      pc[r] = "load" /\ ~IsRefused(op[r]) ~>
        /\ pc[r] \in Ended
        /\ \A i \in 1..3 : records[r][i] \notin {"pending", "processing"}

\* Served one at a time, with failed saves and crashes anywhere, the chains of
\* saves implement the bank: an operation is atomic, or refused, or cut short
\* after its first leg.  The bank's balance is the stored one with the first leg
\* of a half done operation taken back for as long as it is in flight.
HalfDone(a, c) ==
  {r \in Requests : /\ pc[r] \in Waiting
                    /\ applied[r] = {1}
                    /\ Moves(op[r]) = {1, 2}
                    /\ op[r].legs[1].account = a
                    /\ op[r].legs[1].currency = c}

TakenBack(a, c) ==
  accounts[a].available[c] -
    IF HalfDone(a, c) = {} THEN 0
    ELSE op[CHOOSE r \in HalfDone(a, c) : TRUE].legs[1].delta

\* A handler that returns has carried out the order.
Outcome(r) ==
  CASE pc[r] = "idle" -> "none"
    [] \/ applied[r] # {} /\ applied[r] = Moves(op[r])
       \/ pc[r] = "done" -> "done"
    [] pc[r] \in Ended \ {"done"} /\ applied[r] = {} -> "refused"
    [] /\ pc[r] \in Ended \ {"done"}
       /\ applied[r] \notin {{}, Moves(op[r])} -> "cut"
    [] OTHER -> "asked"

Bank == INSTANCE AtomicBank
  WITH balance <- [a \in Accounts |-> [c \in Currencies |-> TakenBack(a, c)]],
       order <- [r \in Requests |-> op[r].legs],
       outcome <- [r \in Requests |-> Outcome(r)]

ImplementsBank == Bank!Spec
-----------------------------------------------------------------------------
(* The inductive invariant of the proofs.                                  *)

\* The operations the handlers build.
WellFormed(o) ==
  /\ o.kind \in Kinds
  /\ o.accounts # <<>>
  /\ Len(o.accounts) <= 2
  /\ Len(o.legs) <= 2
  /\ \A i \in DOMAIN o.legs :
       \E j \in DOMAIN o.accounts : o.legs[i].account = o.accounts[j]
  /\ RecordCount(o) # 0 => o.legs # <<>>
  /\ o.kind \in {"open", "status"} => Len(o.accounts) = 1
  /\ o.kind = "status" => o.legs = <<>>
  /\ o.kind = "open" => \A i \in DOMAIN o.legs : o.legs[i].delta >= 0
  /\ o.kind # "open" => \A i \in DOMAIN o.legs :
       /\ o.legs[i].delta # 0
       /\ o.legs[i].delta < 0 \/ i = Len(o.legs)

\* Where each call may stand, and what has been saved by then.
Progress(r) ==
  /\ pc[r] # "idle" => WellFormed(op[r])
  /\ pc[r] = "load" => step[r] \in DOMAIN op[r].accounts
  /\ pc[r] \in {"addCurrency", "update", "balanceAfter"}
       => step[r] \in DOMAIN op[r].legs
  /\ pc[r] \in {"create", "complete", "fail"}
       => step[r] \in 1..RecordCount(op[r])
  /\ pc[r] \in {"addCurrency", "insert"} => op[r].kind = "open"
  /\ pc[r] = "balanceAfter" => RecordCount(op[r]) # 0
  /\ pc[r] \in {"balanceAfter", "complete"}
       => applied[r] = DOMAIN op[r].legs
  /\ pc[r] \in {"addCurrency", "update"}
       => applied[r] = Moves(op[r]) \cap 1..(step[r] - 1)
  /\ pc[r] = "insert" => applied[r] = Moves(op[r])
  /\ pc[r] \in {"idle", "load", "create", "setStatus"}
       => applied[r] = {}
  /\ pc[r] \in {"idle", "load", "create", "addCurrency", "insert", "setStatus",
                "update"}
       => \A i \in 1..3 : records[r][i] # "completed"
  /\ pc[r] = "update" /\ op[r].kind = "open" => op[r].legs[step[r]].delta > 0

\* The accounts request r holds copies of.
Loaded(r) ==
  {op[r].accounts[i] : i \in {j \in DOMAIN op[r].accounts :
     \/ pc[r] = "load" /\ j < step[r]
     \/ pc[r] \in {"create", "addCurrency", "update", "insert"}}}

\* A copy of a document in the collection differs from the stored balance only
\* where others have saved since; one that is not in it has no balances yet.
CopiesAreFresh ==
  \A r \in Requests, c \in Currencies : \A a \in Loaded(r) :
    IF IsNew(doc[r][a]) THEN doc[r][a].available[c] = 0
    ELSE <<a, c>> \notin overwritten[r]
           => doc[r][a].available[c] = accounts[a].available[c]

\* Nothing deletes an account.
CopiesAreOlder ==
  \A r \in Requests, a \in Accounts :
    ~IsNew(doc[r][a]) => ~IsNew(accounts[a])

\* No balance moves on an account that does not exist.
AbsentIsUntouched ==
  /\ \A a \in Accounts : IsNew(accounts[a]) =>
       \A c \in Currencies : accounts[a].available[c] = 0 /\ posted[a][c] = 0
  /\ \A r \in Requests :
       pc[r] \in {"create", "update"} /\ op[r].kind # "open" =>
         \A i \in DOMAIN op[r].accounts : ~IsNew(doc[r][op[r].accounts[i]])

IndInv ==
  /\ TypeOK
  /\ NonNegativeBalances
  /\ CompletedIsApplied
  /\ CutShortOnlyLoses
  /\ UncontendedBalancesAreExact
  /\ \A r \in Requests : Progress(r)
  /\ CopiesAreOlder
  /\ CopiesAreFresh
  /\ AbsentIsUntouched
=============================================================================
