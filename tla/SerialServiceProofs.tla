------------------------ MODULE SerialServiceProofs ------------------------
(***************************************************************************)
(* The account service when one request is served at a time, whatever      *)
(* fails and crashes: closed accounts are empty, and the chains of saves   *)
(* implement the bank of AtomicBank.  The hypothesis Serial is the bound   *)
(* MaxInFlight of the model; with two requests in flight both are false.   *)
(***************************************************************************)
EXTENDS AccountServiceProofs, FiniteSetTheorems

Serial == MaxInFlight <= 1

\* The accounts whose copies a handler in flight decides on.
Copied(r) ==
  Loaded(r) \cup (IF pc[r] = "setStatus" THEN {op[r].accounts[1]} ELSE {})

\* The handler saves to the accounts it holds copies of.
Saving == {"create", "addCurrency", "update", "insert"}

\* What serial service adds to the inductive invariant, request by request:
\* copies are the documents themselves, work is done on accounts that are not
\* closed, an account about to be closed is empty, and what moves is saved in
\* order.
InOrder(r) ==
  /\ applied[r] \subseteq Moves(op[r])
  /\ \A i \in applied[r], j \in Moves(op[r]) : j < i => j \in applied[r]

Undisturbed(r) ==
  /\ \A a \in Copied(r) : doc[r][a] = accounts[a]
  /\ pc[r] \in Saving =>
       \A i \in DOMAIN op[r].accounts :
         doc[r][op[r].accounts[i]].status # "closed"
  /\ pc[r] = "setStatus" =>
       /\ op[r].legs = <<>>
       /\ op[r].target = "closed" => IsEmpty(doc[r][op[r].accounts[1]])
  /\ InOrder(r)

OneAtATime == \A q, r \in InFlight : q = r

SerialInv ==
  /\ Inv3
  /\ OneAtATime
  /\ \A r \in Requests : Undisturbed(r)
  /\ ClosedAccountsAreEmpty

\* What a step of request r leaves alone, and where it may lead.
StepOf(r) ==
  /\ pc[r] \in Waiting
  /\ op' = op
  /\ pc' \in [Requests -> Phases]
  /\ \A q \in Requests \ {r} :
       /\ pc'[q] = pc[q] /\ step'[q] = step[q]
       /\ applied'[q] = applied[q]
       /\ doc'[q] = doc[q]
-----------------------------------------------------------------------------
(* One request at a time.                                                  *)

\* The facts about the state most proofs start from.
LEMMA SerialFacts ==
  ASSUME SerialInv
  PROVE  /\ Inv3 /\ Inv1 /\ TypeOK /\ OneAtATime
         /\ NonNegativeBalances /\ CopiesAreOlder /\ AbsentIsUntouched
         /\ ClosedAccountsAreEmpty
         /\ \A r \in Requests : Progress(r) /\ Truthful(r) /\ Undisturbed(r)
         /\ pc \in [Requests -> Phases] /\ step \in [Requests -> 1..3]
BY DEF SerialInv, Books, Inv3, Inv2, Inv1, TypeOK, Phases

LEMMA GotoStep ==
  ASSUME Inv1, NEW r \in Requests, pc[r] \in Waiting, op' = op,
         \A q \in Requests \ {r} : /\ applied'[q] = applied[q]
                                   /\ doc'[q] = doc[q],
         NEW p \in Phases,
         \/ Goto(r, p, 1)
         \/ Catch(r)
         \/ \E last \in 0..3 : Advance(r, last, p)
  PROVE  /\ StepOf(r)
         /\ pc'[r] \in {p, pc[r], "fail", "error"}
<1>1. pc \in [Requests -> Phases] /\ step \in [Requests -> 1..3]
  BY DEF Inv1, TypeOK, Phases
<1>2. CASE Goto(r, p, 1)
  BY <1>1, <1>2, GotoEffect DEF StepOf
<1>3. CASE Catch(r)
  BY <1>1, <1>3, CatchEffect DEF StepOf
<1>4. CASE \E last \in 0..3 : Advance(r, last, p)
  <2>1. PICK last \in 0..3 : Advance(r, last, p)
    BY <1>4
  <2>2. /\ pc' \in [Requests -> Phases]
        /\ pc'[r] = pc[r] \/ pc'[r] = p
        /\ \A q \in Requests \ {r} : pc'[q] = pc[q] /\ step'[q] = step[q]
    BY <1>1, <2>1, AdvanceEffect
  <2> QED
    BY <2>2 DEF StepOf
<1> QED
  BY <1>2, <1>3, <1>4

\* Account a becomes e, in the database and in the copy of request r.
Rewrites(r, a, e) ==
  /\ accounts' = [accounts EXCEPT ![a] = e]
  /\ doc' = [doc EXCEPT ![r][a] = e]

\* What a save of request r does: nothing to any account, or something to one
\* it has loaded, which may be to move the leg it is at.
SaveOf(r) ==
  LET leg == op[r].legs[step[r]]
  IN \/ UNCHANGED <<accounts, doc>> /\ applied'[r] = applied[r]
     \/ \E a \in Loaded(r), e \in Document :
          /\ Rewrites(r, a, e)
          /\ e.status \in {accounts[a].status, "active"}
          /\ \/ e.available = accounts[a].available /\ applied'[r] = applied[r]
             \/ /\ pc[r] = "update" /\ AfterUpdate(r)
                /\ a = leg.account
                /\ e.available = [accounts[a].available EXCEPT
                                    ![leg.currency] = @ + leg.delta]
                /\ applied'[r] = applied[r] \cup {step[r]}

LEMMA RewritesOthers ==
  ASSUME TypeOK, NEW r \in Requests, NEW a \in Accounts, NEW e, Rewrites(r, a, e)
  PROVE  /\ accounts'[a] = e /\ doc'[r][a] = e
         /\ \A b \in Accounts \ {a} : accounts'[b] = accounts[b]
                                      /\ doc'[r][b] = doc[r][b]
         /\ \A q \in Requests \ {r} : doc'[q] = doc[q]
<1>1. /\ accounts \in [Accounts -> Document]
      /\ doc \in [Requests -> [Accounts -> Document]]
      /\ doc[r] \in [Accounts -> Document]
  BY DEF TypeOK
<1> QED
  BY <1>1 DEF Rewrites

LEMMA InsertRewrites ==
  ASSUME NEW r \in Requests, NEW a \in Accounts, NEW d, Insert(r, a, d)
  PROVE  Rewrites(r, a, [d EXCEPT !.status = "active"])
BY DEF Insert, Rewrites

\* Where the request stands then.
LEMMA AfterwardsStep ==
  ASSUME Inv1, Inv1', NEW r \in Requests, pc[r] \in {"addCurrency", "update"},
         op' = op,
         \A q \in Requests \ {r} : /\ applied'[q] = applied[q]
                                   /\ doc'[q] = doc[q],
         \/ AfterUpdate(r) \/ Catch(r)
         \/ AfterCurrency(r) /\ pc[r] = "addCurrency"
  PROVE  StepOf(r)
<1>1. pc' \in [Requests -> Phases]
  BY DEF Inv1, TypeOK, Phases
<1>2. \A q \in Requests \ {r} : pc'[q] = pc[q] /\ step'[q] = step[q]
  BY AfterwardsEffect
<1>3. pc[r] \in Waiting
  BY DEF Waiting
<1> QED
  BY <1>1, <1>2, <1>3 DEF StepOf

LEMMA UpdateBalanceSaves ==
  ASSUME SerialInv, Inv1', NEW r \in Requests, UpdateBalance(r)
  PROVE  StepOf(r) /\ SaveOf(r)
<1> DEFINE leg == op[r].legs[step[r]]
           a == leg.account
           c == leg.currency
           copy == doc[r][a]
           new == copy.available[c] + leg.delta
           d == [copy EXCEPT !.available[c] = new]
<1>1. /\ Inv1 /\ TypeOK /\ Progress(r) /\ Undisturbed(r)
      /\ pc[r] = "update" /\ op' = op /\ (AfterUpdate(r) \/ Catch(r))
  BY SerialFacts DEF UpdateBalance
<1>2. /\ leg \in Leg /\ step[r] \in 1..2 /\ a \in Loaded(r)
      /\ a \in Accounts /\ c \in Currencies /\ leg.delta \in Int
  <2>1. leg \in Leg /\ step[r] \in 1..2 /\ a \in Loaded(r)
    BY <1>1, CurrentLeg, SavedIsLoaded
  <2> QED
    BY <2>1 DEF Leg
<1>3. /\ copy = accounts[a] /\ copy \in Document /\ new \in Int
      /\ d \in Document /\ d.status = copy.status
      /\ d.available = [copy.available EXCEPT ![c] = @ + leg.delta]
  <2>1. copy = accounts[a] /\ copy \in Document
    BY <1>1, <1>2 DEF Undisturbed, Copied, TypeOK
  <2>2. copy.available[c] \in Int
    BY <1>2, <2>1 DEF Document
  <2>3. new \in Int
    BY <1>2, <2>2
  <2>4. /\ \A n \in Int : /\ [copy EXCEPT !.available[c] = n] \in Document
                          /\ [copy EXCEPT !.available[c] = n].status = copy.status
                          /\ [copy EXCEPT !.available[c] = n].available
                               = [copy.available EXCEPT ![c] = n]
    BY <1>2, <2>1, SavedDocument DEF Document
  <2> HIDE DEF copy, leg
  <2> QED
    BY <2>1, <2>3, <2>4
<1> HIDE DEF a, c, copy, new, d
<1>4. CASE Catch(r) /\ UNCHANGED <<accounts, doc, history>>
  <2>1. applied' = applied /\ doc' = doc
    BY <1>4 DEF history
  <2>2. StepOf(r)
    BY <1>1, <1>4, <2>1, AfterwardsStep
  <2> QED
    BY <1>4, <2>1, <2>2 DEF SaveOf
<1>5. ASSUME NEW e \in Document, Rewrites(r, a, e), e.status \in {copy.status, "active"},
             e.available = [copy.available EXCEPT ![c] = @ + leg.delta],
             Post(r, leg), AfterUpdate(r)
      PROVE  StepOf(r) /\ SaveOf(r)
  <2>1. /\ applied'[r] = applied[r] \cup {step[r]}
        /\ \A q \in Requests \ {r} : applied'[q] = applied[q]
    BY <1>1, <1>2, <1>5, PostEffect
  <2>2. \A q \in Requests \ {r} : doc'[q] = doc[q]
    BY <1>1, <1>2, <1>5, RewritesOthers
  <2>3. StepOf(r)
    BY <1>1, <1>5, <2>1, <2>2, AfterwardsStep
  <2> QED
    BY <1>1, <1>2, <1>3, <1>5, <2>1, <2>3 DEF SaveOf, a, c
<1>6. CASE /\ IF IsNew(copy)
              THEN /\ Insert(r, a, d) /\ Post(r, leg)
                   /\ UNCHANGED contended
              ELSE /\ SaveBalance(r, leg, new)
                   /\ doc' = [doc EXCEPT ![r][a] = d]
                   /\ Remember(r, leg)
           /\ AfterUpdate(r)
  <2>1. CASE IsNew(copy)
    <3> DEFINE e == [d EXCEPT !.status = "active"]
    <3>1. Rewrites(r, a, e) /\ Post(r, leg)
      BY <1>2, <1>6, <2>1, InsertRewrites
    <3>2. e \in Document /\ e.status = "active" /\ e.available = d.available
      BY <1>3 DEF Document, AccountStatus
    <3> HIDE DEF e
    <3> QED
      BY <1>3, <1>5, <1>6, <3>1, <3>2
  <2>2. CASE ~IsNew(copy)
    <3>1. accounts' = [accounts EXCEPT ![a] = d] /\ Post(r, leg)
      <4>1. /\ accounts' = [accounts EXCEPT ![a].available[c] = new]
            /\ Post(r, leg)
        BY <1>6, <2>2 DEF SaveBalance, Remember, a, c
      <4>2. accounts' = [accounts EXCEPT ![a] = [accounts[a] EXCEPT !.available[c] = new]]
        BY <4>1
      <4> QED
        BY <1>3, <4>1, <4>2 DEF d
    <3>2. Rewrites(r, a, d)
      BY <1>6, <2>2, <3>1 DEF Rewrites
    <3> QED
      BY <1>3, <1>5, <1>6, <3>1, <3>2
  <2> QED
    BY <2>1, <2>2
<1> QED
  BY <1>4, <1>6 DEF UpdateBalance, a, c, copy, new, d

LEMMA AddCurrencySaves ==
  ASSUME SerialInv, Inv1', NEW r \in Requests, AddCurrency(r)
  PROVE  StepOf(r) /\ SaveOf(r)
<1> DEFINE leg == op[r].legs[step[r]]
           a == leg.account
           c == leg.currency
           copy == doc[r][a]
<1>1. /\ Inv1 /\ TypeOK /\ Progress(r) /\ Undisturbed(r)
      /\ pc[r] = "addCurrency" /\ op' = op /\ (AfterCurrency(r) \/ Catch(r))
      /\ applied' = applied
  BY SerialFacts DEF AddCurrency
<1>2. a \in Loaded(r) /\ a \in Accounts /\ c \in Currencies
  <2>1. leg \in Leg /\ a \in Loaded(r)
    BY <1>1, CurrentLeg, SavedIsLoaded
  <2> QED
    BY <2>1 DEF Leg
<1>3. copy = accounts[a] /\ copy \in Document
  BY <1>1, <1>2 DEF Undisturbed, Copied, TypeOK
<1> HIDE DEF a, c, copy
<1>4. ASSUME \A q \in Requests \ {r} : doc'[q] = doc[q]
      PROVE  StepOf(r)
  BY <1>1, <1>4, AfterwardsStep
<1>5. CASE UNCHANGED <<accounts, doc>>
  BY <1>1, <1>4, <1>5 DEF SaveOf
<1>6. ASSUME NEW e \in Document, Rewrites(r, a, e),
             e.status \in {copy.status, "active"}, e.available = copy.available
      PROVE  StepOf(r) /\ SaveOf(r)
  <2>1. StepOf(r)
    BY <1>1, <1>2, <1>4, <1>6, RewritesOthers
  <2> QED
    BY <1>1, <1>2, <1>3, <1>6, <2>1 DEF SaveOf
<1>7. CASE Insert(r, a, copy)
  <2> DEFINE e == [copy EXCEPT !.status = "active"]
  <2>1. Rewrites(r, a, e)
    BY <1>2, <1>7, InsertRewrites
  <2>2. e \in Document /\ e.status = "active" /\ e.available = copy.available
    BY <1>3 DEF Document, AccountStatus
  <2> HIDE DEF e
  <2> QED
    BY <1>3, <1>6, <2>1, <2>2
<1> QED
  BY <1>5, <1>7 DEF AddCurrency, a, c, copy

LEMMA InsertAccountSaves ==
  ASSUME SerialInv, Inv1', NEW r \in Requests, InsertAccount(r)
  PROVE  /\ StepOf(r) /\ SaveOf(r)
         /\ pc'[r] \in {"done", "fail", "error"}
<1> DEFINE a == op[r].accounts[1]
           copy == doc[r][a]
<1>1. /\ Inv1 /\ TypeOK /\ Progress(r) /\ Undisturbed(r)
      /\ pc[r] = "insert" /\ pc[r] \in Waiting /\ op' = op
      /\ (Goto(r, "done", 1) \/ Catch(r))
      /\ applied' = applied /\ "done" \in Phases
      /\ pc \in [Requests -> Phases] /\ step \in [Requests -> 1..3]
  BY SerialFacts DEF InsertAccount, Waiting, Ended, Phases
<1>2. a \in Loaded(r) /\ a \in Accounts
  <2>1. op[r].accounts \in Seq(Accounts) /\ 1 \in DOMAIN op[r].accounts
    BY <1>1, Lengths
  <2> QED
    BY <1>1, <2>1 DEF Loaded
<1>3. copy = accounts[a] /\ copy \in Document
  BY <1>1, <1>2 DEF Undisturbed, Copied, TypeOK
<1>4. pc'[r] \in {"done", "fail", "error"}
  BY <1>1, GotoEffect, CatchEffect
<1> HIDE DEF a, copy
<1>5. ASSUME \A q \in Requests \ {r} : doc'[q] = doc[q]
      PROVE  StepOf(r)
  BY <1>1, <1>5, GotoStep
<1>6. CASE UNCHANGED <<accounts, doc>>
  BY <1>1, <1>4, <1>5, <1>6 DEF SaveOf
<1>7. CASE Insert(r, a, copy)
  <2> DEFINE e == [copy EXCEPT !.status = "active"]
  <2>1. Rewrites(r, a, e)
    BY <1>2, <1>7, InsertRewrites
  <2>2. e \in Document /\ e.status = "active" /\ e.available = copy.available
    BY <1>3 DEF Document, AccountStatus
  <2> HIDE DEF e
  <2>3. StepOf(r)
    BY <1>1, <1>2, <1>5, <2>1, RewritesOthers
  <2> QED
    BY <1>1, <1>2, <1>3, <1>4, <2>1, <2>2, <2>3 DEF SaveOf
<1> QED
  BY <1>6, <1>7 DEF InsertAccount, a, copy

\* Every step of a request in flight is a step of that request alone.
LEMMA ServeIsStep ==
  ASSUME SerialInv, Inv1', NEW r \in Requests, Serve(r) \/ CallFails(r)
  PROVE  StepOf(r)
<1>1. /\ TypeOK /\ Progress(r) /\ Inv1
      /\ \A p \in {"done", "error", "create", "insert", "addCurrency",
                   "setStatus", "rejected", "update", "balanceAfter",
                   "complete"} : p \in Phases
  BY SerialFacts DEF Phases, Waiting, Ended
<1>2. /\ applied \in [Requests -> SUBSET (1..2)]
      /\ doc \in [Requests -> [Accounts -> Document]]
  BY <1>1 DEF TypeOK
<1>3. CASE Load(r)
  <2> DEFINE o == op[r]
             a == o.accounts[step[r]]
             d == [doc[r] EXCEPT ![a] = accounts[a]]
             p == IF Accepts(o, d) THEN FirstSave(o) ELSE "rejected"
  <2>1. /\ pc[r] = "load" /\ op' = op
        /\ applied' = applied
        /\ doc' = [doc EXCEPT ![r] = d]
        /\ Advance(r, Len(o.accounts), p)
    BY <1>3 DEF Load
  <2>2. p \in Phases
    BY <1>1 DEF FirstSave
  <2>3. Len(o.accounts) \in 0..3 /\ pc[r] \in Waiting
    <3>1. Len(o.accounts) \in 1..2
      BY <1>1, <2>1, Lengths
    <3> QED
      BY <2>1, <3>1 DEF Waiting
  <2> HIDE DEF p, d
  <2> QED
    BY <1>1, <1>2, <2>1, <2>2, <2>3, GotoStep
<1>4. CASE CreateRecord(r)
  <2>1. /\ pc[r] \in Waiting /\ op' = op /\ applied' = applied /\ doc' = doc
        /\ \/ Goto(r, "error", 1)
           \/ Advance(r, RecordCount(op[r]), "update")
    BY <1>4 DEF CreateRecord, history, Waiting
  <2> QED
    BY <1>1, <2>1, RecordCountRange, GotoStep
<1>5. CASE AddCurrency(r) \/ UpdateBalance(r) \/ InsertAccount(r)
  BY <1>5, AddCurrencySaves, UpdateBalanceSaves, InsertAccountSaves
<1>6. CASE SetBalanceAfter(r)
  <2>1. /\ pc[r] = "balanceAfter" /\ pc[r] \in Waiting /\ op' = op
        /\ applied' = applied /\ doc' = doc
        /\ Advance(r, Len(op[r].legs), "complete")
    BY <1>6 DEF SetBalanceAfter, history, Waiting
  <2>2. Len(op[r].legs) \in 0..3
    <3>1. Len(op[r].legs) \in 0..2
      BY <1>1, <2>1, Lengths
    <3> QED
      BY <3>1
  <2> QED
    BY <1>1, <2>1, <2>2, GotoStep
<1>7. CASE CompleteRecord(r) \/ FailRecord(r)
  <2>1. /\ pc[r] \in Waiting /\ op' = op /\ applied' = applied /\ doc' = doc
        /\ \/ Goto(r, "error", 1)
           \/ Advance(r, RecordCount(op[r]), "done")
           \/ Advance(r, RecordCount(op[r]), "error")
    BY <1>7 DEF CompleteRecord, FailRecord, history, Waiting
  <2> QED
    BY <1>1, <2>1, RecordCountRange, GotoStep
<1>8. CASE SetStatus(r)
  <2>1. /\ pc[r] \in Waiting /\ op' = op /\ applied' = applied /\ doc' = doc
        /\ Goto(r, "done", 1)
    BY <1>8 DEF SetStatus, history, Waiting
  <2> QED
    BY <1>1, <2>1, GotoStep
<1>9. CASE CallFails(r)
  <2>1. /\ pc[r] \in Waiting /\ op' = op /\ applied' = applied /\ doc' = doc
        /\ Catch(r) \/ Goto(r, "error", 1)
    BY <1>9 DEF CallFails, history
  <2> QED
    BY <1>1, <2>1, GotoStep
<1> QED
  BY <1>3, <1>4, <1>5, <1>6, <1>7, <1>8, <1>9 DEF Serve

\* While a request is in flight no other one is, and none starts.
LEMMA OneAtATimeStep ==
  ASSUME SerialInv, NEW r \in Requests, StepOf(r)
  PROVE  /\ OneAtATime'
         /\ \A q \in Requests \ {r} : pc[q] \notin Waiting /\ pc'[q] \notin Waiting
<1>1. \A q \in Requests \ {r} : pc[q] \notin Waiting
  BY SerialFacts DEF OneAtATime, InFlight, StepOf
<1> QED
  BY <1>1 DEF OneAtATime, InFlight, StepOf

\* The requests a step is not about hold no copies.
LEMMA OthersUndisturbed ==
  ASSUME SerialInv, NEW r \in Requests, StepOf(r), NEW q \in Requests \ {r}
  PROVE  Undisturbed(q)'
<1>1. pc'[q] \notin Waiting
  BY OneAtATimeStep
<1>2. pc'[q] \notin Saving \cup {"load", "setStatus"}
  BY <1>1 DEF Waiting, Saving
<1>3. Copied(q)' = {}
  BY <1>2 DEF Copied, Loaded, Saving
<1>4. Undisturbed(q)
  BY SerialFacts
<1>5. op'[q] = op[q] /\ applied'[q] = applied[q]
  BY DEF StepOf
<1>6. Moves(op[q])' = Moves(op[q])
  BY <1>5 DEF Moves
<1> QED
  BY <1>2, <1>3, <1>4, <1>5, <1>6 DEF Undisturbed, InOrder

\* A handler that is through with its copies.
LEMMA ThroughWithCopies ==
  ASSUME NEW r \in Requests,
         pc'[r] \notin Saving \cup {"load", "setStatus"},
         InOrder(r)'
  PROVE  Undisturbed(r)'
<1>1. Copied(r)' = {}
  BY DEF Copied, Loaded, Saving
<1> QED
  BY <1>1 DEF Undisturbed

\* One that has loaded its accounts holds the documents themselves.
LEMMA LoadUndisturbed ==
  ASSUME SerialInv, NEW r \in Requests, Load(r)
  PROVE  Undisturbed(r)'
<1> DEFINE o == op[r]
           a == o.accounts[step[r]]
           d == [doc[r] EXCEPT ![a] = accounts[a]]
           p == IF Accepts(o, d) THEN FirstSave(o) ELSE "rejected"
<1>1. /\ TypeOK /\ Progress(r) /\ Undisturbed(r)
      /\ pc \in [Requests -> Phases] /\ step \in [Requests -> 1..3]
  BY SerialFacts
<1>2. /\ pc[r] = "load"
      /\ doc' = [doc EXCEPT ![r] = d]
      /\ Advance(r, Len(o.accounts), p)
      /\ UNCHANGED <<accounts, op, applied>>
  BY DEF Load
<1>3. /\ WellFormed(o) /\ o.accounts \in Seq(Accounts)
      /\ Len(o.accounts) \in 1..2 /\ DOMAIN o.accounts = 1..Len(o.accounts)
      /\ step[r] \in DOMAIN o.accounts
  BY <1>1, <1>2, Lengths DEF Progress
<1>4. /\ a \in Accounts /\ Len(o.accounts) \in 0..3
      /\ \A i \in DOMAIN o.accounts : o.accounts[i] \in Accounts
      /\ 1 \in DOMAIN o.accounts
  BY <1>3
<1>5. /\ p \in {"insert", "addCurrency", "setStatus", "create", "rejected"}
      /\ p \in Phases
      /\ p = "setStatus" <=> Accepts(o, d) /\ o.kind = "status"
      /\ p \in Saving =>
           \A i \in DOMAIN o.accounts : d[o.accounts[i]].status # "closed"
  <2>1. /\ p \in {"insert", "addCurrency", "setStatus", "create", "rejected"}
        /\ p \in Phases
        /\ p = "setStatus" <=> Accepts(o, d) /\ o.kind = "status"
    BY DEF FirstSave, Phases, Waiting, Ended
  <2>2. ASSUME p \in Saving, NEW i \in DOMAIN o.accounts
        PROVE  d[o.accounts[i]].status # "closed"
    <3>1. Accepts(o, d) /\ o.kind # "status"
      BY <2>2 DEF FirstSave, Saving
    <3>2. CASE o.kind = "open"
      <4>1. Len(o.accounts) = 1
        BY <1>3, <3>2 DEF WellFormed
      <4>2. i = 1
        BY <1>3, <4>1
      <4> QED
        BY <3>1, <3>2, <4>2 DEF Accepts, IsNew
    <3>3. CASE o.kind # "open"
      BY <3>1, <3>3 DEF Accepts
    <3> QED
      BY <3>2, <3>3
  <2> QED
    BY <2>1, <2>2
<1>6. p = "setStatus" =>
        /\ o.legs = <<>>
        /\ o.target = "closed" => IsEmpty(d[o.accounts[1]])
  BY <1>3, <1>5 DEF Accepts, MayClose, WellFormed
<1>7. \A b \in Accounts : d[b] = IF b = a THEN accounts[a] ELSE doc[r][b]
  BY <1>1, <1>4 DEF TypeOK
<1> HIDE DEF p, d
<1>8. \/ /\ step[r] < Len(o.accounts)
         /\ pc'[r] = "load" /\ step'[r] = step[r] + 1
      \/ /\ ~ (step[r] < Len(o.accounts))
         /\ pc'[r] = p /\ step'[r] = 1
  <2>1. p \in Phases
    BY <1>5
  <2> QED
    BY <1>1, <1>2, <1>4, <2>1, AdvanceEffect
<1>9. doc'[r] = d /\ op'[r] = o /\ accounts' = accounts
  BY <1>1, <1>2 DEF TypeOK
<1>10. ASSUME NEW i \in DOMAIN o.accounts, i <= step[r]
       PROVE  d[o.accounts[i]] = accounts[o.accounts[i]]
  <2>1. CASE i = step[r]
    BY <1>4, <1>7, <2>1
  <2>2. CASE i # step[r]
    <3>1. i < step[r] /\ i \in DOMAIN op[r].accounts
      BY <1>1, <1>3, <1>10, <2>2
    <3>2. o.accounts[i] \in Copied(r)
      BY <1>2, <3>1 DEF Copied, Loaded
    <3> QED
      BY <1>1, <1>4, <1>7, <3>2 DEF Undisturbed
  <2> QED
    BY <2>1, <2>2
<1>11. ASSUME NEW b \in Copied(r)'
       PROVE  doc'[r][b] = accounts'[b]
  <2>1. CASE step[r] < Len(o.accounts)
    <3>1. PICK i \in DOMAIN o.accounts : b = o.accounts[i] /\ i < step[r] + 1
      BY <1>2, <1>5, <1>8, <1>9, <1>11, <2>1 DEF Copied, Loaded
    <3>2. i <= step[r]
      BY <1>1, <1>3, <3>1
    <3> QED
      BY <1>9, <1>10, <3>1, <3>2
  <2>2. CASE ~ (step[r] < Len(o.accounts))
    <3>1. PICK i \in DOMAIN o.accounts : b = o.accounts[i]
      BY <1>4, <1>5, <1>8, <1>9, <1>11, <2>2 DEF Copied, Loaded
    <3>2. i <= step[r]
      BY <1>1, <1>3, <2>2
    <3> QED
      BY <1>9, <1>10, <3>1, <3>2
  <2> QED
    BY <2>1, <2>2
<1>12. /\ applied'[r] = {}
       /\ pc'[r] \in Saving => p \in Saving
       /\ pc'[r] = "setStatus" => p = "setStatus"
  BY <1>1, <1>2, <1>5, <1>8 DEF Progress, Saving
<1> QED
  BY <1>5, <1>6, <1>9, <1>11, <1>12 DEF Undisturbed, InOrder

\* The leg at hand moves something, and all that moves before it is saved.
LEMMA LegMoves ==
  ASSUME TypeOK, NEW r \in Requests, Progress(r), pc[r] = "update"
  PROVE  step[r] \in Moves(op[r])
<1>1. /\ WellFormed(op[r]) /\ step[r] \in DOMAIN op[r].legs
      /\ op[r].kind = "open" => op[r].legs[step[r]].delta > 0
      /\ op[r].legs[step[r]] \in Leg
  BY CurrentLeg DEF Progress
<1>2. op[r].legs[step[r]].delta # 0
  BY <1>1 DEF WellFormed, Leg
<1> QED
  BY <1>1, <1>2 DEF Moves

\* A save leaves the copies of its request the documents themselves.
LEMMA SaveUndisturbed ==
  ASSUME SerialInv, Inv1', NEW r \in Requests,
         AddCurrency(r) \/ UpdateBalance(r) \/ InsertAccount(r)
  PROVE  Undisturbed(r)'
<1>1. /\ Inv1 /\ TypeOK /\ Progress(r) /\ Undisturbed(r)
      /\ op' = op /\ SaveOf(r)
      /\ pc[r] \in {"addCurrency", "update", "insert"}
  BY SerialFacts, AddCurrencySaves, UpdateBalanceSaves, InsertAccountSaves
     DEF AddCurrency, UpdateBalance, InsertAccount
<1>2. \/ pc'[r] \notin Saving \cup {"load", "setStatus"}
      \/ pc'[r] \in {"addCurrency", "update", "insert"}
  <2>1. CASE InsertAccount(r)
    BY <2>1, InsertAccountSaves DEF Saving
  <2>2. CASE AddCurrency(r) \/ UpdateBalance(r)
    <3>1. /\ pc[r] \in {"addCurrency", "update"}
          /\ \/ AfterUpdate(r) \/ Catch(r)
             \/ AfterCurrency(r) /\ pc[r] = "addCurrency"
      BY <2>2 DEF AddCurrency, UpdateBalance
    <3>2. pc'[r] \in {"balanceAfter", "fail", "error",
                     "addCurrency", "insert", "update"}
      BY <1>1, <3>1, AfterwardsEffect
    <3> QED
      BY <3>2 DEF Saving
  <2> QED
    BY <2>1, <2>2
<1>3. Loaded(r) \subseteq Accounts /\ Loaded(r) \subseteq Copied(r)
  BY <1>1, LoadedAccounts DEF Copied
<1>4. InOrder(r)'
  <2>1. Moves(op[r])' = Moves(op[r])
    BY <1>1 DEF Moves
  <2>2. CASE applied'[r] = applied[r]
    BY <1>1, <2>1, <2>2 DEF Undisturbed, InOrder
  <2>3. CASE pc[r] = "update" /\ applied'[r] = applied[r] \cup {step[r]}
    <3>1. step[r] \in Moves(op[r])
      BY <1>1, <2>3, LegMoves
    <3>2. applied[r] = Moves(op[r]) \cap 1..(step[r] - 1)
      BY <1>1, <2>3, SerialFacts DEF Progress
    <3>3. /\ \A j \in Moves(op[r]) : j \in Nat /\ j > 0
          /\ step[r] \in Nat
      BY <1>1, <2>3, Lengths DEF Moves, TypeOK
    <3>4. ASSUME NEW i \in applied'[r], NEW j \in Moves(op[r]), j < i
          PROVE  j \in applied'[r]
      BY <2>3, <3>2, <3>3, <3>4
    <3> QED
      BY <2>1, <2>3, <3>1, <3>2, <3>4 DEF InOrder
  <2> QED
    BY <1>1, <2>2, <2>3 DEF SaveOf
<1>5. CASE pc'[r] \notin Saving \cup {"load", "setStatus"}
  BY <1>4, <1>5, ThroughWithCopies
<1>6. CASE pc'[r] \in {"addCurrency", "update", "insert"}
  <2>1. Copied(r)' = Loaded(r)
    BY <1>1, <1>6 DEF Copied, Loaded
  <2>2. \A i \in DOMAIN op[r].accounts : op[r].accounts[i] \in Loaded(r)
    BY <1>1 DEF Loaded
  <2>3. \A b \in Loaded(r) :
          /\ doc[r][b] = accounts[b] /\ b \in Accounts
          /\ doc[r][b].status # "closed"
    <3>1. pc[r] \in Saving
      BY <1>1 DEF Saving
    <3>2. \A b \in Loaded(r) : \E i \in DOMAIN op[r].accounts :
                                 b = op[r].accounts[i]
      BY DEF Loaded
    <3> QED
      BY <1>1, <1>3, <3>1, <3>2 DEF Undisturbed
  <2>4. \A b \in Loaded(r) : /\ doc'[r][b] = accounts'[b]
                             /\ doc'[r][b].status # "closed"
    <3>1. CASE UNCHANGED <<accounts, doc>>
      BY <2>3, <3>1
    <3>2. ASSUME NEW a \in Loaded(r), NEW e \in Document, Rewrites(r, a, e),
                 e.status \in {accounts[a].status, "active"}
          PROVE  \A b \in Loaded(r) : /\ doc'[r][b] = accounts'[b]
                                      /\ doc'[r][b].status # "closed"
      <4>1. a \in Accounts
        BY <2>3
      <4>2. /\ accounts'[a] = e /\ doc'[r][a] = e
            /\ \A b \in Accounts \ {a} : accounts'[b] = accounts[b]
                                         /\ doc'[r][b] = doc[r][b]
        BY <1>1, <3>2, <4>1, RewritesOthers
      <4>3. e.status # "closed"
        BY <2>3, <3>2
      <4> QED
        BY <2>3, <4>2, <4>3
    <3> QED
      BY <1>1, <3>1, <3>2 DEF SaveOf
  <2>5. pc'[r] # "setStatus"
    BY <1>6
  <2> QED
    BY <1>1, <1>4, <2>1, <2>2, <2>4, <2>5 DEF Undisturbed
<1> QED
  BY <1>2, <1>5, <1>6

\* Each step of the request in flight.
LEMMA ServeUndisturbed ==
  ASSUME SerialInv, Inv1', NEW r \in Requests, Serve(r) \/ CallFails(r)
  PROVE  Undisturbed(r)'
<1>1. /\ Inv1 /\ TypeOK /\ Progress(r) /\ Undisturbed(r)
      /\ pc \in [Requests -> Phases] /\ step \in [Requests -> 1..3]
      /\ RecordCount(op[r]) \in 0..3
      /\ \A p \in {"error", "update", "complete", "done"} : p \in Phases
  BY SerialFacts, RecordCountRange DEF Phases, Waiting, Ended
<1>2. ASSUME op' = op, applied' = applied,
             pc'[r] \notin Saving \cup {"load", "setStatus"}
      PROVE  Undisturbed(r)'
  <2>1. Moves(op[r])' = Moves(op[r])
    BY <1>2 DEF Moves
  <2> QED
    BY <1>1, <1>2, <2>1, ThroughWithCopies DEF Undisturbed, InOrder
<1>3. CASE CreateRecord(r)
  <2>1. /\ pc[r] = "create"
        /\ UNCHANGED <<accounts, op, doc, applied>>
        /\ Goto(r, "error", 1) \/ Advance(r, RecordCount(op[r]), "update")
    BY <1>3 DEF CreateRecord, history
  <2>2. pc'[r] \in {"error", "create", "update"}
    <3>1. CASE Goto(r, "error", 1)
      BY <1>1, <3>1, GotoEffect
    <3>2. CASE Advance(r, RecordCount(op[r]), "update")
      BY <1>1, <2>1, <3>2, AdvanceEffect
    <3> QED
      BY <2>1, <3>1, <3>2
  <2>3. CASE pc'[r] = "error"
    BY <1>2, <2>1, <2>3 DEF Saving
  <2>4. CASE pc'[r] \in {"create", "update"}
    <3>1. Copied(r)' = Copied(r)
      BY <2>1, <2>4 DEF Copied, Loaded
    <3>2. Moves(op[r])' = Moves(op[r])
      BY <2>1 DEF Moves
    <3> QED
      BY <1>1, <2>1, <2>4, <3>1, <3>2 DEF Undisturbed, Saving, InOrder
  <2> QED
    BY <2>2, <2>3, <2>4
<1>4. CASE SetBalanceAfter(r)
  <2>1. /\ pc[r] = "balanceAfter" /\ op' = op /\ applied' = applied
        /\ Advance(r, Len(op[r].legs), "complete")
    BY <1>4 DEF SetBalanceAfter, history
  <2>2. Len(op[r].legs) \in 0..3
    <3>1. Len(op[r].legs) \in 0..2
      BY <1>1, <2>1, Lengths
    <3> QED
      BY <3>1
  <2>3. pc'[r] \in {"balanceAfter", "complete"}
    BY <1>1, <2>1, <2>2, AdvanceEffect
  <2> QED
    BY <1>2, <2>1, <2>3 DEF Saving
<1>5. CASE CompleteRecord(r)
  <2>1. /\ pc[r] = "complete" /\ op' = op /\ applied' = applied
        /\ Advance(r, RecordCount(op[r]), "done")
    BY <1>5 DEF CompleteRecord, history
  <2>2. pc'[r] \in {"complete", "done"}
    BY <1>1, <2>1, AdvanceEffect
  <2> QED
    BY <1>2, <2>1, <2>2 DEF Saving
<1>6. CASE FailRecord(r)
  <2>1. /\ pc[r] = "fail" /\ op' = op /\ applied' = applied
        /\ Goto(r, "error", 1) \/ Advance(r, RecordCount(op[r]), "error")
    BY <1>6 DEF FailRecord, history
  <2>2. pc'[r] \in {"fail", "error"}
    <3>1. CASE Goto(r, "error", 1)
      BY <1>1, <3>1, GotoEffect
    <3>2. CASE Advance(r, RecordCount(op[r]), "error")
      BY <1>1, <2>1, <3>2, AdvanceEffect
    <3> QED
      BY <2>1, <3>1, <3>2
  <2> QED
    BY <1>2, <2>1, <2>2 DEF Saving
<1>7. CASE SetStatus(r)
  <2>1. op' = op /\ applied' = applied /\ Goto(r, "done", 1)
    BY <1>7 DEF SetStatus, history
  <2>2. pc'[r] = "done"
    BY <1>1, <2>1, GotoEffect
  <2> QED
    BY <1>2, <2>1, <2>2 DEF Saving
<1>8. CASE CallFails(r)
  <2>1. op' = op /\ applied' = applied /\ (Catch(r) \/ Goto(r, "error", 1))
    BY <1>8 DEF CallFails, history
  <2>2. pc'[r] \in {"fail", "error"}
    <3>1. CASE Goto(r, "error", 1)
      BY <1>1, <3>1, GotoEffect
    <3>2. CASE Catch(r)
      BY <1>1, <3>2, CatchEffect
    <3> QED
      BY <2>1, <3>1, <3>2
  <2> QED
    BY <1>2, <2>1, <2>2 DEF Saving
<1> QED
  BY <1>3, <1>4, <1>5, <1>6, <1>7, <1>8, LoadUndisturbed,
     SaveUndisturbed DEF Serve

\* A balance save works on an account its handler has just seen active, and an
\* account is closed only while its handler has just seen it empty.
LEMMA ServeKeepsClosedEmpty ==
  ASSUME SerialInv, Inv1', NEW r \in Requests, Serve(r) \/ CallFails(r)
  PROVE  ClosedAccountsAreEmpty'
<1> DEFINE a == op[r].accounts[1]
<1>1. /\ Inv1 /\ TypeOK /\ Progress(r) /\ Undisturbed(r)
      /\ ClosedAccountsAreEmpty
  BY SerialFacts
<1>2. accounts \in [Accounts -> Document]
  BY <1>1 DEF TypeOK
<1>3. ASSUME accounts' = accounts
      PROVE  ClosedAccountsAreEmpty'
  BY <1>1, <1>3 DEF ClosedAccountsAreEmpty
<1>4. CASE AddCurrency(r) \/ UpdateBalance(r) \/ InsertAccount(r)
  <2>1. /\ pc[r] \in Saving /\ SaveOf(r)
    BY <1>4, AddCurrencySaves, UpdateBalanceSaves, InsertAccountSaves
       DEF AddCurrency, UpdateBalance, InsertAccount, Saving
  <2>2. CASE accounts' = accounts
    BY <1>3, <2>2
  <2>3. ASSUME NEW b \in Loaded(r), NEW e \in Document, Rewrites(r, b, e),
               e.status \in {accounts[b].status, "active"}
        PROVE  ClosedAccountsAreEmpty'
    <3>1. b \in Accounts /\ \E i \in DOMAIN op[r].accounts : b = op[r].accounts[i]
      BY <1>1, LoadedAccounts DEF Loaded
    <3>2. accounts[b].status # "closed"
      BY <1>1, <2>1, <3>1 DEF Undisturbed, Copied
    <3>3. /\ accounts'[b] = e
          /\ \A x \in Accounts \ {b} : accounts'[x] = accounts[x]
      BY <1>1, <2>3, <3>1, RewritesOthers
    <3>4. e.status # "closed"
      BY <2>3, <3>2
    <3> QED
      BY <1>1, <3>3, <3>4 DEF ClosedAccountsAreEmpty
  <2> QED
    BY <2>1, <2>2, <2>3 DEF SaveOf
<1>5. CASE SetStatus(r)
  <2>1. pc[r] = "setStatus"
    BY <1>5 DEF SetStatus
  <2>2. a \in Accounts
    <3>1. op[r].accounts \in Seq(Accounts) /\ Len(op[r].accounts) \in 1..2
      BY <1>1, <2>1, Lengths
    <3> QED
      BY <3>1
  <2>3. /\ doc[r][a] = accounts[a]
        /\ op[r].target = "closed" => IsEmpty(accounts[a])
    BY <1>1, <2>1 DEF Undisturbed, Copied
  <2> HIDE DEF a
  <2>4. CASE accounts' = accounts
    BY <1>3, <2>4
  <2>5. CASE accounts' = [accounts EXCEPT ![a].status = op[r].target]
    <3>1. /\ accounts'[a].status = op[r].target
          /\ accounts'[a].available = accounts[a].available
          /\ \A e \in Accounts \ {a} : accounts'[e] = accounts[e]
      BY <1>2, <2>2, <2>5 DEF Document
    <3> QED
      BY <1>1, <2>3, <3>1 DEF ClosedAccountsAreEmpty, IsEmpty
  <2> QED
    BY <1>5, <2>4, <2>5 DEF SetStatus, a
<1>6. CASE \/ Load(r) \/ CreateRecord(r) \/ SetBalanceAfter(r)
           \/ CompleteRecord(r) \/ FailRecord(r) \/ CallFails(r)
  <2>1. accounts' = accounts
    BY <1>6 DEF Load, CreateRecord, SetBalanceAfter, CompleteRecord, FailRecord,
                CallFails
  <2> QED
    BY <1>3, <2>1
<1> QED
  BY <1>4, <1>5, <1>6 DEF Serve
\* A crash, seen from the one request it cuts off.
LEMMA CrashIsStep ==
  ASSUME SerialInv, Crash
  PROVE  \E r \in Requests :
           /\ StepOf(r) /\ pc'[r] = "crashed"
           /\ UNCHANGED <<accounts, op, doc, applied>>
<1>1. pc \in [Requests -> Phases] /\ OneAtATime
  BY SerialFacts
<1>2. PICK r \in InFlight : TRUE
  BY DEF Crash
<1>3. /\ pc' = [q \in Requests |-> IF q \in InFlight THEN "crashed" ELSE pc[q]]
      /\ UNCHANGED <<accounts, op, step, doc, applied>>
  BY DEF Crash, history
<1>4. \A q \in Requests : pc'[q] \in Phases
  BY <1>1, <1>3 DEF Phases, Ended
<1>5. r \in Requests /\ pc[r] \in Waiting /\ \A q \in Requests \ {r} : q \notin InFlight
  BY <1>1, <1>2 DEF OneAtATime, InFlight
<1> QED
  BY <1>2, <1>3, <1>4, <1>5 DEF StepOf

LEMMA CrashSerial ==
  ASSUME SerialInv, Crash
  PROVE  /\ OneAtATime' /\ ClosedAccountsAreEmpty'
         /\ \A q \in Requests : Undisturbed(q)'
<1>1. PICK r \in Requests :
        /\ StepOf(r) /\ pc'[r] = "crashed"
        /\ UNCHANGED <<accounts, op, doc, applied>>
  BY CrashIsStep
<1>2. Undisturbed(r) /\ ClosedAccountsAreEmpty
  BY SerialFacts
<1>3. Undisturbed(r)'
  <2>1. Moves(op[r])' = Moves(op[r])
    BY <1>1 DEF Moves
  <2> QED
    BY <1>1, <1>2, <2>1, ThroughWithCopies DEF Undisturbed, Saving, InOrder
<1>4. \A q \in Requests \ {r} : Undisturbed(q)'
  BY <1>1, OthersUndisturbed
<1>5. ClosedAccountsAreEmpty'
  BY <1>1, <1>2 DEF ClosedAccountsAreEmpty
<1>6. OneAtATime'
  BY <1>1, OneAtATimeStep
<1> QED
  BY <1>3, <1>4, <1>5, <1>6

\* The bound of one request in flight.
LEMMA NobodyInFlight ==
  ASSUME Serial, OneAtATime, Cardinality(InFlight) < MaxInFlight
  PROVE  InFlight = {}
<1>1. IsFiniteSet(InFlight)
  <2>1. CASE InFlight = {}
    BY <2>1, FS_EmptySet
  <2>2. CASE InFlight # {}
    <3>1. PICK r \in InFlight : InFlight = {r}
      BY <2>2 DEF OneAtATime
    <3> QED
      BY <3>1, FS_Singleton
  <2> QED
    BY <2>1, <2>2
<1>2. Cardinality(InFlight) \in Nat
  BY <1>1, FS_CardinalityType
<1>3. Cardinality(InFlight) = 0
  BY <1>2, AccountServiceAssumption DEF Serial
<1> QED
  BY <1>1, <1>3, FS_EmptySet

LEMMA ArriveSerial ==
  ASSUME Serial, SerialInv, NEW r \in Requests, Arrive(r)
  PROVE  /\ OneAtATime' /\ ClosedAccountsAreEmpty'
         /\ \A q \in Requests : Undisturbed(q)'
         /\ pc[r] = "idle" /\ pc'[r] = "load"
         /\ \A q \in Requests \ {r} : pc'[q] = pc[q] /\ op'[q] = op[q]
         /\ UNCHANGED <<accounts, applied>>
         /\ InFlight = {}
<1>1. /\ TypeOK /\ OneAtATime /\ ClosedAccountsAreEmpty
      /\ \A q \in Requests : Progress(q) /\ Undisturbed(q)
      /\ pc \in [Requests -> Phases] /\ step \in [Requests -> 1..3]
  BY SerialFacts
<1>2. PICK o \in OperationType : Receive(r, o) /\ WellFormed(o)
  BY ArriveWellFormed
<1>3. /\ pc[r] = "idle" /\ Cardinality(InFlight) < MaxInFlight
      /\ Goto(r, "load", 1) /\ op' = [op EXCEPT ![r] = o]
      /\ UNCHANGED <<accounts, doc, applied>>
  BY <1>2 DEF Receive, history
<1>4. InFlight = {}
  BY <1>1, <1>3, NobodyInFlight
<1>5. /\ pc'[r] = "load" /\ step'[r] = 1
      /\ \A q \in Requests \ {r} : pc'[q] = pc[q] /\ step'[q] = step[q]
  BY <1>1, <1>3, GotoEffect DEF Phases, Waiting
<1>6. \A q \in Requests \ {r} : op'[q] = op[q]
  BY <1>1, <1>3 DEF TypeOK
<1>7. \A q \in Requests \ {r} : pc'[q] \notin Waiting
  BY <1>4, <1>5 DEF InFlight
<1>8. OneAtATime'
  BY <1>7 DEF OneAtATime, InFlight
<1>9. ClosedAccountsAreEmpty'
  BY <1>1, <1>3 DEF ClosedAccountsAreEmpty
<1>10. Undisturbed(r)'
  <2>1. op'[r] = o
    BY <1>1, <1>3 DEF TypeOK
  <2>2. Copied(r)' = {}
    <3>1. \A i \in DOMAIN o.accounts : ~ (i < 1)
      BY DEF OperationType
    <3> QED
      BY <1>5, <2>1, <3>1 DEF Copied, Loaded
  <2>3. applied'[r] = {}
    BY <1>1, <1>3 DEF Progress
  <2> QED
    BY <1>5, <2>2, <2>3 DEF Undisturbed, Saving, InOrder
<1>11. ASSUME NEW q \in Requests \ {r}
       PROVE  Undisturbed(q)'
  <2>1. pc'[q] \notin Saving \cup {"load", "setStatus"}
    BY <1>7 DEF Waiting, Saving
  <2>2. op'[q] = op[q] /\ applied'[q] = applied[q] /\ Undisturbed(q)
    BY <1>1, <1>3, <1>6
  <2>3. Moves(op[q])' = Moves(op[q])
    BY <2>2 DEF Moves
  <2> QED
    BY <2>1, <2>2, <2>3, ThroughWithCopies DEF Undisturbed, InOrder
<1> QED
  BY <1>3, <1>4, <1>5, <1>6, <1>8, <1>9, <1>10, <1>11

LEMMA NextSerialInv ==
  ASSUME Serial, SerialInv, [Next]_vars
  PROVE  SerialInv'
<1>1. Inv3' /\ Inv1'
  <2>1. Inv3'
    BY NextInv3, SerialFacts
  <2> QED
    BY <2>1 DEF Inv3, Inv2
<1>2. Inv1
  BY SerialFacts
<1>3. ASSUME NEW r \in Requests, Arrive(r)
      PROVE  SerialInv'
  BY <1>1, <1>3, ArriveSerial DEF SerialInv
<1>4. ASSUME NEW r \in Requests, Serve(r) \/ CallFails(r)
      PROVE  SerialInv'
  <2>1. StepOf(r)
    BY <1>1, <1>4, ServeIsStep
  <2>2. OneAtATime' /\ ClosedAccountsAreEmpty' /\ Undisturbed(r)'
    BY <1>1, <1>4, <2>1, OneAtATimeStep, ServeUndisturbed, ServeKeepsClosedEmpty
  <2>3. \A q \in Requests \ {r} : Undisturbed(q)'
    BY <2>1, OthersUndisturbed
  <2> QED
    BY <1>1, <2>2, <2>3 DEF SerialInv
<1>5. CASE Crash
  BY <1>1, <1>5, CrashSerial DEF SerialInv
<1>6. CASE UNCHANGED vars
  <2>1. UNCHANGED <<accounts, op, pc, step, doc, applied>>
    BY <1>6 DEF vars, clients, history
  <2>2. OneAtATime' /\ ClosedAccountsAreEmpty'
    BY <2>1, SerialFacts DEF OneAtATime, InFlight, ClosedAccountsAreEmpty
  <2>3. \A q \in Requests : Undisturbed(q)'
    BY <2>1, SerialFacts DEF Undisturbed, Copied, Loaded, Moves, InOrder
  <2> QED
    BY <1>1, <2>2, <2>3 DEF SerialInv
<1> QED
  BY <1>3, <1>4, <1>5, <1>6 DEF Next, AllServed

LEMMA InitSerialInv ==
  ASSUME Init
  PROVE  SerialInv
<1>1. Inv3
  BY InitInv3
<1>2. \A r \in Requests : pc[r] = "idle" /\ applied[r] = {}
  BY DEF Init
<1>3. OneAtATime
  BY <1>2 DEF OneAtATime, InFlight, Waiting
<1>4. ASSUME NEW r \in Requests
      PROVE  Undisturbed(r)
  BY <1>2 DEF Undisturbed, Copied, Loaded, Saving, InOrder
<1>5. \A a \in Accounts : accounts[a].status # "closed"
  BY DEF Init, NoDocument
<1> QED
  BY <1>1, <1>3, <1>4, <1>5 DEF SerialInv, ClosedAccountsAreEmpty

\* When requests are served one at a time an account that is closed holds no
\* money, whatever fails and whenever the process crashes: close() decides on
\* the stored balance, and no handler works on an account it has not just
\* found active.
THEOREM ClosedHoldsNothing ==
  ASSUME Serial
  PROVE  Spec => []ClosedAccountsAreEmpty
<1>1. Init => SerialInv
  BY InitSerialInv
<1>2. SerialInv /\ [Next]_vars => SerialInv'
  BY NextSerialInv
<1>3. SerialInv => ClosedAccountsAreEmpty
  BY DEF SerialInv
<1> QED
  BY <1>1, <1>2, <1>3, PTL DEF Spec
-----------------------------------------------------------------------------
(* The bank.                                                               *)

\* What leg l moves on balance <<a, c>>.
Part(l, a, c) == IF l.account = a /\ l.currency = c THEN l.delta ELSE 0

\* The effect of an order, leg by leg.
LEMMA NetByLegs ==
  ASSUME NEW o \in Seq(Leg), Len(o) \in 0..2, NEW a \in Accounts,
         NEW c \in Currencies
  PROVE  /\ Len(o) = 0 => Bank!Net(o, a, c) = 0
         /\ Len(o) = 1 => Bank!Net(o, a, c) = Part(o[1], a, c)
         /\ Len(o) = 2 => /\ Bank!Net(o, a, c) = Part(o[1], a, c) + Part(o[2], a, c)
                          /\ Bank!Net(<<o[1]>>, a, c) = Part(o[1], a, c)
<1> DEFINE Of(q, i) == IF i \in DOMAIN q /\ q[i].account = a /\ q[i].currency = c
                       THEN q[i].delta ELSE 0
<1>1. \A q : Bank!Net(q, a, c) = Of(q, 1) + Of(q, 2)
  BY DEF Bank!Net
<1>2. DOMAIN o = 1..Len(o)
  OBVIOUS
<1>3. 1 \notin 1..0 /\ 2 \notin 1..0 /\ 2 \notin 1..1 /\ 1 \in 1..1 /\ 1 \in 1..2 /\ 2 \in 1..2
  OBVIOUS
<1> HIDE DEF Of
<1>4. ASSUME NEW i \in DOMAIN o
      PROVE  Part(o[i], a, c) \in Int
  <2>1. o[i] \in Leg
    OBVIOUS
  <2> QED
    BY <2>1 DEF Part, Leg
<1>5. CASE Len(o) = 0
  <2>1. Of(o, 1) = 0 /\ Of(o, 2) = 0
    BY <1>2, <1>3, <1>5, Zenon DEF Of
  <2> QED
    BY <1>1, <1>5, <2>1
<1>6. CASE Len(o) = 1
  <2>1. Of(o, 1) = Part(o[1], a, c) /\ Of(o, 2) = 0
    <3>1. 1 \in DOMAIN o /\ 2 \notin DOMAIN o
      BY <1>2, <1>3, <1>6, Zenon
    <3> QED
      BY <3>1 DEF Of, Part
  <2>2. Part(o[1], a, c) \in Int
    BY <1>2, <1>3, <1>4, <1>6
  <2> QED
    BY <1>1, <1>6, <2>1, <2>2
<1>7. CASE Len(o) = 2
  <2>1. Of(o, 1) = Part(o[1], a, c) /\ Of(o, 2) = Part(o[2], a, c)
    BY <1>2, <1>3, <1>7, Zenon DEF Of, Part
  <2>2. Of(<<o[1]>>, 1) = Part(o[1], a, c) /\ Of(<<o[1]>>, 2) = 0
    <3>1. \A x : /\ 1 \in DOMAIN <<x>> /\ 2 \notin DOMAIN <<x>>
                  /\ <<x>>[1] = x
      OBVIOUS
    <3> QED
      BY <3>1, Zenon DEF Of, Part
  <2>3. Part(o[1], a, c) \in Int
    BY <1>2, <1>3, <1>4, <1>7
  <2> QED
    BY <1>1, <1>7, <2>1, <2>2, <2>3
<1> QED
  BY <1>5, <1>6, <1>7

\* Steps of the bank, reading by reading.
LEMMA BankSteps ==
  ASSUME NEW r \in Requests, op' = op, Outcome(r) = "asked",
         \A q \in Requests \ {r} : Outcome(q)' = Outcome(q),
         \/ /\ Outcome(r)' = "done"
            /\ \A a \in Accounts, c \in Currencies :
                 /\ TakenBack(a, c)' = TakenBack(a, c) + Bank!Net(op[r].legs, a, c)
                 /\ TakenBack(a, c)' >= 0
         \/ /\ Outcome(r)' = "refused"
            /\ \A a \in Accounts, c \in Currencies :
                 TakenBack(a, c)' = TakenBack(a, c)
         \/ /\ Outcome(r)' = "cut" /\ Len(op[r].legs) = 2
            /\ \A a \in Accounts, c \in Currencies :
                 /\ TakenBack(a, c)' =
                      TakenBack(a, c) + Bank!Net(<<op[r].legs[1]>>, a, c)
                 /\ TakenBack(a, c)' >= 0
  PROVE  Bank!Next
<1> DEFINE B == [a \in Accounts |-> [c \in Currencies |-> TakenBack(a, c)]]
           F == [q \in Requests |-> Outcome(q)]
           O == [q \in Requests |-> op[q].legs]
<1>1. O' = O /\ O[r] = op[r].legs
  OBVIOUS
<1>2. /\ F[r] = Outcome(r)
      /\ \A v : Outcome(r)' = v => F' = [F EXCEPT ![r] = v]
  OBVIOUS
<1>3. \A a \in Accounts, c \in Currencies : B[a][c] = TakenBack(a, c)
  OBVIOUS
<1>4. CASE /\ Outcome(r)' = "done"
           /\ \A a \in Accounts, c \in Currencies :
                /\ TakenBack(a, c)' = TakenBack(a, c) + Bank!Net(op[r].legs, a, c)
                /\ TakenBack(a, c)' >= 0
  <2>1. B' = [a \in Accounts |-> [c \in Currencies |->
                TakenBack(a, c) + Bank!Net(op[r].legs, a, c)]]
    BY <1>4
  <2>2. Bank!CarryOut(r)
    BY <1>1, <1>2, <1>3, <1>4, <2>1 DEF Bank!CarryOut
  <2> QED
    BY <2>2 DEF Bank!Next
<1>5. CASE /\ Outcome(r)' = "refused"
           /\ \A a \in Accounts, c \in Currencies :
                TakenBack(a, c)' = TakenBack(a, c)
  <2>1. B' = B
    BY <1>5
  <2>2. Bank!Refuse(r)
    BY <1>1, <1>2, <1>5, <2>1 DEF Bank!Refuse
  <2> QED
    BY <2>2 DEF Bank!Next
<1>6. CASE /\ Outcome(r)' = "cut" /\ Len(op[r].legs) = 2
           /\ \A a \in Accounts, c \in Currencies :
                /\ TakenBack(a, c)' =
                     TakenBack(a, c) + Bank!Net(<<op[r].legs[1]>>, a, c)
                /\ TakenBack(a, c)' >= 0
  <2>1. B' = [a \in Accounts |-> [c \in Currencies |->
                TakenBack(a, c) + Bank!Net(<<op[r].legs[1]>>, a, c)]]
    BY <1>6
  <2>2. Bank!CutShort(r)
    BY <1>1, <1>2, <1>3, <1>6, <2>1 DEF Bank!CutShort
  <2> QED
    BY <2>2 DEF Bank!Next
<1> QED
  BY <1>4, <1>5, <1>6

\* With one request in flight only that one can be half done.
LEMMA TakenBackOfOne ==
  ASSUME NEW r \in Requests, NEW a \in Accounts, NEW c \in Currencies,
         \A q \in Requests \ {r} : pc[q] \notin Waiting
  PROVE  TakenBack(a, c) = accounts[a].available[c] -
           IF r \in HalfDone(a, c) THEN op[r].legs[1].delta ELSE 0
<1>1. HalfDone(a, c) \subseteq {r}
  BY DEF HalfDone
<1>2. CASE r \in HalfDone(a, c)
  <2>1. HalfDone(a, c) = {r}
    BY <1>1, <1>2
  <2>2. (CHOOSE q \in {r} : TRUE) = r
    OBVIOUS
  <2> QED
    BY <2>1, <2>2 DEF TakenBack
<1>3. CASE r \notin HalfDone(a, c)
  <2>1. HalfDone(a, c) = {}
    BY <1>1, <1>3
  <2> QED
    BY <1>3, <2>1 DEF TakenBack
<1> QED
  BY <1>2, <1>3

LEMMA TakenBackOfOneNext ==
  ASSUME NEW r \in Requests, NEW a \in Accounts, NEW c \in Currencies,
         \A q \in Requests \ {r} : pc'[q] \notin Waiting
  PROVE  TakenBack(a, c)' = accounts'[a].available[c] -
           IF r \in HalfDone(a, c)' THEN op'[r].legs[1].delta ELSE 0
<1>1. HalfDone(a, c)' \subseteq {r}
  BY DEF HalfDone
<1>2. CASE r \in HalfDone(a, c)'
  <2>1. HalfDone(a, c)' = {r}
    BY <1>1, <1>2
  <2>2. (CHOOSE q \in {r} : TRUE) = r
    OBVIOUS
  <2> QED
    BY <2>1, <2>2 DEF TakenBack
<1>3. CASE r \notin HalfDone(a, c)'
  <2>1. HalfDone(a, c)' = {}
    BY <1>1, <1>3
  <2> QED
    BY <1>3, <2>1 DEF TakenBack
<1> QED
  BY <1>2, <1>3

\* How far the saves of a request in flight have come: not begun, through, or
\* between the first leg and the second.
LEMMA SavedSoFar ==
  ASSUME SerialInv, NEW r \in Requests, pc[r] \in Waiting
  PROVE  /\ op[r].legs \in Seq(Leg) /\ Len(op[r].legs) \in 0..2
         /\ DOMAIN op[r].legs = 1..Len(op[r].legs)
         /\ \/ applied[r] = {}
            \/ applied[r] # {} /\ applied[r] = Moves(op[r])
            \/ /\ applied[r] = {1} /\ Moves(op[r]) = {1, 2}
               /\ applied[r] # {} /\ applied[r] # Moves(op[r])
               /\ Len(op[r].legs) = 2
<1> DEFINE legs == op[r].legs
           m == Moves(op[r])
<1>1. TypeOK /\ Progress(r) /\ Undisturbed(r)
  BY SerialFacts
<1>2. /\ legs \in Seq(Leg) /\ Len(legs) \in 0..2
      /\ DOMAIN legs = 1..Len(legs) /\ WellFormed(op[r])
  BY <1>1, Lengths DEF Waiting
<1>3. applied[r] \subseteq m /\ m \subseteq DOMAIN legs
  BY <1>1 DEF Undisturbed, InOrder, Moves
<1>4. \A i \in DOMAIN legs : i = 1 \/ (i = 2 /\ Len(legs) = 2)
  <2>1. ASSUME NEW n \in 0..2, NEW i \in 1..n
        PROVE  i = 1 \/ (i = 2 /\ n = 2)
    OBVIOUS
  <2> QED
    BY <1>2, <2>1, Zenon
<1>5. ASSUME applied[r] # {}, applied[r] # m
      PROVE  /\ applied[r] = {1} /\ m = {1, 2} /\ Len(legs) = 2
  <2>1. PICK j \in m : j \notin applied[r]
    BY <1>3, <1>5
  <2>2. PICK i \in applied[r] : TRUE
    BY <1>5
  <2>3. i = 1 /\ j = 2 /\ Len(legs) = 2
    <3>1. \/ i = 1 /\ j = 2 /\ Len(legs) = 2
          \/ i = 2 /\ j = 1 /\ Len(legs) = 2
      BY <1>3, <1>4, <2>1, <2>2
    <3>2. ~(i = 2 /\ j = 1)
      <4>1. 1 < 2
        OBVIOUS
      <4> QED
        BY <1>1, <2>1, <2>2, <4>1 DEF Undisturbed, InOrder
    <3> QED
      BY <3>1, <3>2
  <2>4. /\ 1 \in applied[r] /\ 2 \notin applied[r]
        /\ 1 \in m /\ 2 \in m
    BY <1>3, <2>1, <2>2, <2>3
  <2>5. applied[r] = {1} /\ m = {1, 2}
    BY <1>3, <1>4, <2>4
  <2> QED
    BY <2>3, <2>5
<1> QED
  BY <1>2, <1>5

\* The outcome of a request in flight, before and after one of its steps.
LEMMA OutcomeInFlight ==
  ASSUME NEW r \in Requests, StepOf(r), pc'[r] \in Waiting \cup Ended
  PROVE  /\ applied[r] # {} /\ applied[r] = Moves(op[r])
              => Outcome(r) = "done"
         /\ ~ (applied[r] # {} /\ applied[r] = Moves(op[r]))
              => Outcome(r) = "asked"
         /\ applied'[r] # {} /\ applied'[r] = Moves(op[r])
              => Outcome(r)' = "done"
         /\ pc'[r] \in Waiting
            /\ ~ (applied'[r] # {} /\ applied'[r] = Moves(op[r]))
              => Outcome(r)' = "asked"
         /\ pc'[r] = "done" => Outcome(r)' = "done"
         /\ pc'[r] \in Ended /\ pc'[r] # "done"
            /\ applied'[r] = {}
              => Outcome(r)' = "refused"
         /\ pc'[r] \in Ended /\ pc'[r] # "done"
            /\ applied'[r] \notin {{}, Moves(op[r])}
              => Outcome(r)' = "cut"
<1>1. /\ pc[r] \in Waiting /\ op' = op
      /\ pc[r] # "idle" /\ pc[r] \notin Ended
      /\ pc'[r] # "idle" /\ (pc'[r] \in Waiting => pc'[r] \notin Ended)
      /\ pc[r] # "done" /\ "done" \in Ended /\ "done" \notin Waiting
  BY DEF StepOf, Waiting, Ended
<1>2. Moves(op[r])' = Moves(op[r])
  BY <1>1 DEF Moves
<1> QED
  BY <1>1, <1>2 DEF Outcome

\* The requests a step is not about keep their outcome.
LEMMA OutcomeFrame ==
  ASSUME NEW r \in Requests, StepOf(r), NEW q \in Requests \ {r}
  PROVE  Outcome(q)' = Outcome(q)
<1>1. /\ pc'[q] = pc[q] /\ op' = op
      /\ applied'[q] = applied[q]
  BY DEF StepOf
<1>2. Moves(op[q])' = Moves(op[q])
  BY <1>1 DEF Moves
<1> QED
  BY <1>1, <1>2 DEF Outcome

\* An order that moves nothing has no effect.
LEMMA NothingMoves ==
  ASSUME NEW r \in Requests, op[r].legs \in Seq(Leg), Len(op[r].legs) \in 0..2,
         Moves(op[r]) = {}, NEW a \in Accounts, NEW c \in Currencies
  PROVE  Bank!Net(op[r].legs, a, c) = 0
<1> DEFINE o == op[r].legs
<1>1. ASSUME NEW i \in DOMAIN o
      PROVE  Part(o[i], a, c) = 0
  <2>1. o[i].delta = 0
    BY DEF Moves
  <2> QED
    BY <2>1 DEF Part
<1>2. /\ DOMAIN o = 1..Len(o)
      /\ Len(o) = 0 \/ Len(o) = 1 \/ Len(o) = 2
      /\ 1 \in 1..1 /\ 1 \in 1..2 /\ 2 \in 1..2
  OBVIOUS
<1>3. /\ Len(o) = 0 => Bank!Net(o, a, c) = 0
      /\ Len(o) = 1 => Bank!Net(o, a, c) = Part(o[1], a, c)
      /\ Len(o) = 2 => Bank!Net(o, a, c) = Part(o[1], a, c) + Part(o[2], a, c)
  BY NetByLegs
<1> HIDE DEF o
<1>4. ASSUME Len(o) = 1
      PROVE  Bank!Net(o, a, c) = 0
  <2>1. 1 \in DOMAIN o
    BY <1>2, <1>4
  <2> QED
    BY <1>1, <1>3, <1>4, <2>1, Zenon
<1>5. ASSUME Len(o) = 2
      PROVE  Bank!Net(o, a, c) = 0
  <2>1. 1 \in DOMAIN o /\ 2 \in DOMAIN o
    BY <1>2, <1>5
  <2>2. Part(o[1], a, c) = 0 /\ Part(o[2], a, c) = 0
    BY <1>1, <2>1, Zenon
  <2>3. Bank!Net(o, a, c) = 0 + 0
    BY <1>3, <1>5, <2>2, Zenon
  <2> QED
    BY <2>3
<1> QED
  BY <1>2, <1>3, <1>4, <1>5 DEF o

\* A step that moves no balance: nothing happens at the bank, or the request
\* is refused, or cut short, or an order that moves nothing is carried out.
LEMMA QuietBank ==
  ASSUME SerialInv, NEW r \in Requests, StepOf(r), applied'[r] = applied[r],
         \A a \in Accounts, c \in Currencies :
           accounts'[a].available[c] = accounts[a].available[c],
         pc'[r] \in Waiting \cup Ended,
         pc'[r] = "done" => applied[r] = Moves(op[r])
  PROVE  [Bank!Next]_(Bank!vars)
<1>1. /\ NonNegativeBalances /\ TypeOK
      /\ pc[r] \in Waiting /\ op' = op
      /\ \A q \in Requests \ {r} : pc[q] \notin Waiting /\ pc'[q] \notin Waiting
  BY SerialFacts, OneAtATimeStep DEF StepOf
<1>2. /\ op[r].legs \in Seq(Leg) /\ Len(op[r].legs) \in 0..2
      /\ DOMAIN op[r].legs = 1..Len(op[r].legs)
      /\ Moves(op[r])' = Moves(op[r])
  BY <1>1, SavedSoFar DEF Moves
<1>3. \A q \in Requests \ {r} : Outcome(q)' = Outcome(q)
  BY OutcomeFrame
<1>4. ASSUME NEW a \in Accounts, NEW c \in Currencies
      PROVE  /\ accounts[a].available[c] \in Nat
             /\ TakenBack(a, c) = accounts[a].available[c] -
                  IF r \in HalfDone(a, c) THEN op[r].legs[1].delta ELSE 0
             /\ TakenBack(a, c)' = accounts[a].available[c] -
                  IF r \in HalfDone(a, c)' THEN op[r].legs[1].delta ELSE 0
  <2>1. accounts[a].available[c] \in Nat
    BY <1>1 DEF TypeOK, Document, NonNegativeBalances
  <2> QED
    BY <1>1, <2>1, TakenBackOfOne, TakenBackOfOneNext
<1>5. ASSUME Outcome(r)' = Outcome(r),
             \A a \in Accounts, c \in Currencies :
               TakenBack(a, c)' = TakenBack(a, c)
      PROVE  [Bank!Next]_(Bank!vars)
  BY <1>1, <1>3, <1>5 DEF Bank!vars
<1>6. CASE pc'[r] \in Waiting
  <2>1. \A a \in Accounts, c \in Currencies :
          r \in HalfDone(a, c)' <=> r \in HalfDone(a, c)
    BY <1>1, <1>2, <1>6 DEF HalfDone
  <2>2. \A a \in Accounts, c \in Currencies : TakenBack(a, c)' = TakenBack(a, c)
    BY <1>4, <2>1
  <2>3. Outcome(r)' = Outcome(r)
    BY <1>1, <1>6, OutcomeInFlight
  <2> QED
    BY <1>5, <2>2, <2>3
<1>7. CASE pc'[r] \in Ended
  <2>1. \A a \in Accounts, c \in Currencies :
          TakenBack(a, c)' = accounts[a].available[c]
    <3>1. pc'[r] \notin Waiting
      BY <1>7 DEF Waiting, Ended
    <3>2. \A a \in Accounts, c \in Currencies : r \notin HalfDone(a, c)'
      BY <3>1 DEF HalfDone
    <3> QED
      BY <1>4, <3>2
  <2>2. ASSUME ~ (applied[r] = {1} /\ Moves(op[r]) = {1, 2})
        PROVE  \A a \in Accounts, c \in Currencies :
                 /\ TakenBack(a, c) = accounts[a].available[c]
                 /\ TakenBack(a, c) >= 0
    <3>1. \A a \in Accounts, c \in Currencies : r \notin HalfDone(a, c)
      BY <2>2 DEF HalfDone
    <3> QED
      BY <1>4, <3>1
  <2>3. CASE applied[r] = {}
    <3>1. \A a \in Accounts, c \in Currencies :
            /\ TakenBack(a, c) = accounts[a].available[c]
            /\ TakenBack(a, c) >= 0
      <4>1. applied[r] # {1}
        BY <2>3
      <4> QED
        BY <2>2, <4>1
    <3>2. Outcome(r) = "asked"
      BY <2>3, OutcomeInFlight
    <3>3. CASE pc'[r] = "done"
      <4>1. Moves(op[r]) = {}
        BY <2>3, <3>3
      <4>2. \A a \in Accounts, c \in Currencies : Bank!Net(op[r].legs, a, c) = 0
        BY <1>2, <4>1, NothingMoves
      <4>3. \A a \in Accounts, c \in Currencies :
              /\ TakenBack(a, c)' = TakenBack(a, c) + Bank!Net(op[r].legs, a, c)
              /\ TakenBack(a, c)' >= 0
        BY <1>4, <2>1, <3>1, <4>2
      <4>4. Outcome(r)' = "done"
        BY <3>3, OutcomeInFlight
      <4> QED
        BY <1>1, <1>3, <3>2, <4>3, <4>4, BankSteps
    <3>4. CASE pc'[r] # "done"
      <4>1. Outcome(r)' = "refused"
        BY <1>7, <2>3, <3>4, OutcomeInFlight
      <4>2. \A a \in Accounts, c \in Currencies :
              TakenBack(a, c)' = TakenBack(a, c)
        BY <2>1, <3>1
      <4> QED
        BY <1>1, <1>3, <3>2, <4>1, <4>2, BankSteps
    <3> QED
      BY <3>3, <3>4
  <2>4. CASE applied[r] # {} /\ applied[r] = Moves(op[r])
    <3>1. Outcome(r)' = Outcome(r)
      BY <2>4, OutcomeInFlight
    <3>2. {1} # {1, 2}
      <4>1. 2 \notin {1} /\ 2 \in {1, 2}
        OBVIOUS
      <4> QED
        BY <4>1
    <3> QED
      BY <1>5, <2>1, <2>2, <2>4, <3>1, <3>2
  <2>5. CASE /\ applied[r] = {1} /\ Moves(op[r]) = {1, 2}
             /\ applied[r] # {} /\ applied[r] # Moves(op[r])
             /\ Len(op[r].legs) = 2
    <3>1. Outcome(r) = "asked" /\ Outcome(r)' = "cut"
      <4>1. pc'[r] # "done"
        BY <2>5
      <4> QED
        BY <1>7, <2>5, <4>1, OutcomeInFlight
    <3>2. ASSUME NEW a \in Accounts, NEW c \in Currencies
          PROVE  /\ TakenBack(a, c)' =
                      TakenBack(a, c) + Bank!Net(<<op[r].legs[1]>>, a, c)
                 /\ TakenBack(a, c)' >= 0
      <4>1. op[r].legs[1] \in Leg
        BY <1>2, <2>5
      <4>2. Bank!Net(<<op[r].legs[1]>>, a, c) = Part(op[r].legs[1], a, c)
        BY <1>2, <2>5, NetByLegs
      <4>3. r \in HalfDone(a, c) <=> /\ op[r].legs[1].account = a
                                     /\ op[r].legs[1].currency = c
        BY <1>1, <2>5 DEF HalfDone
      <4>4. TakenBack(a, c) = accounts[a].available[c] - Part(op[r].legs[1], a, c)
        BY <1>4, <4>3 DEF Part
      <4>5. Part(op[r].legs[1], a, c) \in Int /\ accounts[a].available[c] \in Nat
        BY <1>4, <4>1 DEF Part, Leg
      <4>6. TakenBack(a, c)' = accounts[a].available[c]
        BY <2>1
      <4> QED
        BY <4>2, <4>4, <4>5, <4>6
    <3> QED
      BY <1>1, <1>3, <2>5, <3>1, <3>2, BankSteps
  <2> QED
    BY <1>1, <2>3, <2>4, <2>5, SavedSoFar
<1> QED
  BY <1>6, <1>7

\* The effect of an order by the legs that move something.
LEMMA NetOfMoves ==
  ASSUME NEW r \in Requests, op[r].legs \in Seq(Leg), Len(op[r].legs) \in 0..2,
         NEW a \in Accounts, NEW c \in Currencies,
         NEW i \in DOMAIN op[r].legs, Moves(op[r]) = {i}
  PROVE  Bank!Net(op[r].legs, a, c) = Part(op[r].legs[i], a, c)
<1> DEFINE o == op[r].legs
<1>1. ASSUME NEW j \in DOMAIN o, j # i
      PROVE  Part(o[j], a, c) = 0
  <2>1. o[j].delta = 0
    BY <1>1 DEF Moves
  <2> QED
    BY <2>1 DEF Part
<1>2. /\ DOMAIN o = 1..Len(o)
      /\ Len(o) = 0 \/ Len(o) = 1 \/ Len(o) = 2
      /\ 1 \in 1..2 /\ 2 \in 1..2
  OBVIOUS
<1>3. /\ Len(o) = 1 => Bank!Net(o, a, c) = Part(o[1], a, c)
      /\ Len(o) = 2 => Bank!Net(o, a, c) = Part(o[1], a, c) + Part(o[2], a, c)
  BY NetByLegs
<1>4. ASSUME NEW j \in DOMAIN o
      PROVE  Part(o[j], a, c) \in Int
  <2>1. o[j] \in Leg
    OBVIOUS
  <2> QED
    BY <2>1 DEF Part, Leg
<1>5. i \in DOMAIN o
  OBVIOUS
<1> HIDE DEF o
<1>6. Bank!Net(o, a, c) = Part(o[i], a, c)
  <2>1. CASE Len(o) = 1
    <3>1. i = 1
      BY <1>2, <1>5, <2>1
    <3> QED
      BY <1>3, <2>1, <3>1, Zenon
  <2>2. CASE Len(o) = 2
    <3>1. 1 \in DOMAIN o /\ 2 \in DOMAIN o /\ (i = 1 \/ i = 2)
      BY <1>2, <1>5, <2>2
    <3>2. Part(o[1], a, c) \in Int /\ Part(o[2], a, c) \in Int
      BY <1>4, <3>1, Zenon
    <3>3. CASE i = 1
      <4>1. Part(o[2], a, c) = 0
        BY <1>1, <3>1, <3>3
      <4> QED
        BY <1>3, <2>2, <3>2, <3>3, <4>1
    <3>4. CASE i = 2
      <4>1. Part(o[1], a, c) = 0
        BY <1>1, <3>1, <3>4
      <4> QED
        BY <1>3, <2>2, <3>2, <3>4, <4>1
    <3> QED
      BY <3>1, <3>3, <3>4
  <2> QED
    BY <1>2, <1>5, <2>1, <2>2
<1> QED
  BY <1>6 DEF o

\* A save that moves the leg at hand: the first of two stays the request's own
\* affair, the last one carries the order out.
LEMMA MoneyBank ==
  ASSUME SerialInv, SerialInv', NEW r \in Requests, StepOf(r),
         pc[r] = "update", pc'[r] \in Waiting,
         applied'[r] = applied[r] \cup {step[r]},
         \A a \in Accounts, c \in Currencies :
           accounts'[a].available[c] =
             accounts[a].available[c] + Part(op[r].legs[step[r]], a, c)
  PROVE  [Bank!Next]_(Bank!vars)
<1> DEFINE o == op[r].legs
           i == step[r]
<1>1. /\ TypeOK /\ Progress(r) /\ Truthful(r)
      /\ pc[r] \in Waiting /\ op' = op
      /\ NonNegativeBalances'
  BY SerialFacts DEF StepOf, SerialInv, Inv3, Inv2, Books
<1>2. /\ \A q \in Requests \ {r} : pc[q] \notin Waiting /\ pc'[q] \notin Waiting
      /\ \A q \in Requests \ {r} : Outcome(q)' = Outcome(q)
      /\ Moves(op[r])' = Moves(op[r])
  BY <1>1, OneAtATimeStep, OutcomeFrame DEF Moves
<1>3. /\ o \in Seq(Leg) /\ Len(o) \in 0..2 /\ DOMAIN o = 1..Len(o)
      /\ i \in DOMAIN o /\ i \in Moves(op[r])
      /\ applied[r] = Moves(op[r]) \cap 1..(i - 1)
      /\ Moves(op[r]) \subseteq DOMAIN o
  BY <1>1, SavedSoFar, CurrentLeg, LegMoves DEF Moves, Progress
<1>4. ASSUME NEW a \in Accounts, NEW c \in Currencies
      PROVE  /\ accounts[a].available[c] \in Int
             /\ accounts'[a].available[c] >= 0
             /\ \A j \in DOMAIN o : Part(o[j], a, c) \in Int
  <2>1. accounts[a].available[c] \in Int
    BY <1>1 DEF TypeOK, Document
  <2>2. accounts'[a].available[c] >= 0
    BY <1>1 DEF NonNegativeBalances
  <2>3. ASSUME NEW j \in DOMAIN o
        PROVE  Part(o[j], a, c) \in Int
    <3>1. o[j] \in Leg
      BY <1>3
    <3> QED
      BY <3>1 DEF Part, Leg
  <2> QED
    BY <2>1, <2>2, <2>3
<1>5. ASSUME NEW a \in Accounts, NEW c \in Currencies
      PROVE  /\ TakenBack(a, c) = accounts[a].available[c] -
                  IF r \in HalfDone(a, c) THEN o[1].delta ELSE 0
             /\ TakenBack(a, c)' = accounts'[a].available[c] -
                  IF r \in HalfDone(a, c)' THEN o[1].delta ELSE 0
  BY <1>1, <1>2, TakenBackOfOne, TakenBackOfOneNext
<1>6. \A a \in Accounts, c \in Currencies :
        /\ r \in HalfDone(a, c) <=>
             /\ applied[r] = {1} /\ Moves(op[r]) = {1, 2}
             /\ o[1].account = a /\ o[1].currency = c
        /\ r \in HalfDone(a, c)' <=>
             /\ applied'[r] = {1} /\ Moves(op[r]) = {1, 2}
             /\ o[1].account = a /\ o[1].currency = c
  BY <1>1, <1>2 DEF HalfDone
<1>7. \A x \in DOMAIN o : x = 1 \/ x = 2
  <2>1. ASSUME NEW n \in 0..2, NEW x \in 1..n
        PROVE  x = 1 \/ x = 2
    OBVIOUS
  <2> QED
    BY <1>3, <2>1, Zenon
<1>8. {1} # {} /\ {1} # {1, 2} /\ {2} # {1, 2} /\ {2} # {1} /\ {2} # {}
  <2>1. 2 \notin {1} /\ 2 \in {1, 2} /\ 1 \in {1, 2} /\ 1 \notin {2}
    OBVIOUS
  <2> QED
    BY <2>1
<1>9. CASE Moves(op[r]) = {i}
  <2>1. applied[r] = {} /\ applied'[r] = {i}
    <3>1. i \notin 1..(i - 1)
      BY <1>3
    <3> QED
      BY <1>3, <1>9, <3>1
  <2>2. Outcome(r) = "asked" /\ Outcome(r)' = "done"
    BY <1>9, <2>1, OutcomeInFlight
  <2>3. ASSUME NEW a \in Accounts, NEW c \in Currencies
        PROVE  /\ TakenBack(a, c)' = TakenBack(a, c) + Bank!Net(o, a, c)
               /\ TakenBack(a, c)' >= 0
    <3>1. Bank!Net(o, a, c) = Part(o[i], a, c)
      BY <1>3, <1>9, NetOfMoves
    <3>2. r \notin HalfDone(a, c) /\ r \notin HalfDone(a, c)'
      <4>1. Moves(op[r]) # {1, 2}
        BY <1>3, <1>7, <1>8, <1>9
      <4> QED
        BY <1>6, <4>1
    <3>3. accounts'[a].available[c] \in Int
      <4>1. Part(o[i], a, c) \in Int
        BY <1>3, <1>4
      <4> QED
        BY <1>4, <4>1
    <3>4. /\ TakenBack(a, c) = accounts[a].available[c]
          /\ TakenBack(a, c)' = accounts'[a].available[c]
      BY <1>4, <1>5, <3>2, <3>3
    <3> QED
      BY <1>4, <3>1, <3>4
  <2> QED
    BY <1>1, <1>2, <2>2, <2>3, BankSteps
<1>10. CASE Moves(op[r]) # {i}
  <2>1. Moves(op[r]) = {1, 2} /\ (i = 1 \/ i = 2)
    BY <1>3, <1>7, <1>10
  <2>2. 2 \in DOMAIN o /\ 1 \in DOMAIN o /\ Len(o) = 2
    <3>1. 2 \in DOMAIN o /\ 1 \in DOMAIN o
      BY <1>3, <2>1
    <3>2. ASSUME NEW n \in 0..2, 2 \in 1..n
          PROVE  n = 2
      BY <3>2
    <3> QED
      BY <1>3, <3>1, <3>2, Zenon
  <2>3. CASE i = 1
    <3>1. applied[r] = {} /\ applied'[r] = {1}
      <4>1. 1..(1 - 1) = {}
        OBVIOUS
      <4> QED
        BY <1>3, <2>3, <4>1
    <3>2. Outcome(r)' = Outcome(r)
      BY <1>8, <2>1, <3>1, OutcomeInFlight
    <3>3. ASSUME NEW a \in Accounts, NEW c \in Currencies
          PROVE  TakenBack(a, c)' = TakenBack(a, c)
      <4>1. r \notin HalfDone(a, c)
        BY <1>6, <3>1
      <4>2. r \in HalfDone(a, c)' <=> o[1].account = a /\ o[1].currency = c
        BY <1>6, <2>1, <3>1
      <4>3. TakenBack(a, c) = accounts[a].available[c]
        BY <1>4, <1>5, <4>1
      <4>4. TakenBack(a, c)' = accounts'[a].available[c] - Part(o[1], a, c)
        BY <1>5, <4>2 DEF Part
      <4>5. accounts'[a].available[c] =
              accounts[a].available[c] + Part(o[1], a, c)
        BY <2>3
      <4>6. Part(o[1], a, c) \in Int /\ accounts[a].available[c] \in Int
        BY <1>4, <2>2
      <4> QED
        BY <4>3, <4>4, <4>5, <4>6
    <3> QED
      BY <1>1, <1>2, <3>2, <3>3 DEF Bank!vars
  <2>4. CASE i = 2
    <3>1. applied[r] = {1} /\ applied'[r] = {1, 2}
      <4>1. 1..(2 - 1) = {1}
        OBVIOUS
      <4>2. applied[r] = {1}
        BY <1>3, <2>1, <2>4, <4>1
      <4> QED
        BY <2>4, <4>2
    <3>2. Outcome(r) = "asked" /\ Outcome(r)' = "done"
      BY <1>8, <2>1, <3>1, OutcomeInFlight
    <3>3. ASSUME NEW a \in Accounts, NEW c \in Currencies
          PROVE  /\ TakenBack(a, c)' = TakenBack(a, c) + Bank!Net(o, a, c)
                 /\ TakenBack(a, c)' >= 0
      <4>1. Bank!Net(o, a, c) = Part(o[1], a, c) + Part(o[2], a, c)
        BY <1>3, <2>2, NetByLegs
      <4>2. r \in HalfDone(a, c) <=> o[1].account = a /\ o[1].currency = c
        BY <1>6, <2>1, <3>1
      <4>3. r \notin HalfDone(a, c)'
        BY <1>6, <1>8, <3>1
      <4>4. TakenBack(a, c) = accounts[a].available[c] - Part(o[1], a, c)
        BY <1>5, <4>2 DEF Part
      <4>5. /\ Part(o[1], a, c) \in Int /\ Part(o[2], a, c) \in Int
            /\ accounts[a].available[c] \in Int
        BY <1>4, <2>2
      <4>6. accounts'[a].available[c] =
              accounts[a].available[c] + Part(o[2], a, c)
        BY <2>4
      <4>7. accounts'[a].available[c] \in Int
        BY <4>5, <4>6
      <4>8. TakenBack(a, c)' = accounts'[a].available[c]
        BY <1>5, <4>3, <4>7
      <4> QED
        BY <1>4, <4>1, <4>4, <4>5, <4>6, <4>8
    <3> QED
      BY <1>1, <1>2, <3>2, <3>3, BankSteps
  <2> QED
    BY <2>1, <2>3, <2>4
<1> QED
  BY <1>9, <1>10

\* The saves of a handler: of a currency, of a balance, of the account itself.
LEMMA SaveBank ==
  ASSUME SerialInv, SerialInv', NEW r \in Requests,
         AddCurrency(r) \/ UpdateBalance(r) \/ InsertAccount(r)
  PROVE  [Bank!Next]_(Bank!vars)
<1>1. /\ Inv1 /\ Inv1' /\ TypeOK /\ Progress(r)
      /\ pc[r] \in {"addCurrency", "update", "insert"}
      /\ pc \in [Requests -> Phases]
  BY SerialFacts DEF AddCurrency, UpdateBalance, InsertAccount, SerialInv,
                     Inv3, Inv2
<1>2. StepOf(r) /\ SaveOf(r)
  BY <1>1, AddCurrencySaves, UpdateBalanceSaves, InsertAccountSaves
<1>3. /\ pc'[r] \in Waiting \cup Ended
      /\ pc'[r] = "done" => applied[r] = Moves(op[r])
      /\ pc[r] = "update" /\ AfterUpdate(r) => pc'[r] \in Waiting
  <2>1. CASE InsertAccount(r)
    <3>1. pc[r] = "insert" /\ pc'[r] \in {"done", "fail", "error"}
      BY <1>1, <2>1, InsertAccountSaves DEF InsertAccount
    <3>2. applied[r] = Moves(op[r])
      BY <1>1, <3>1 DEF Progress
    <3> QED
      BY <3>1, <3>2 DEF Waiting, Ended
  <2>2. CASE AddCurrency(r) \/ UpdateBalance(r)
    <3>1. /\ pc[r] \in {"addCurrency", "update"}
          /\ \/ AfterUpdate(r) \/ Catch(r)
             \/ AfterCurrency(r) /\ pc[r] = "addCurrency"
      BY <2>2 DEF AddCurrency, UpdateBalance
    <3>2. pc'[r] \in {"balanceAfter", "fail", "error",
                      "addCurrency", "insert", "update"}
      BY <1>1, <3>1, AfterwardsEffect
    <3>3. ASSUME pc[r] = "update", AfterUpdate(r)
          PROVE  pc'[r] \in Waiting
      BY <1>1, <3>3 DEF AfterUpdate, NextBalance, Advance, Goto, Waiting
    <3> QED
      BY <3>2, <3>3 DEF Waiting, Ended
  <2> QED
    BY <2>1, <2>2
<1>4. ASSUME NEW b \in Accounts, NEW c \in Currencies
      PROVE  accounts[b].available[c] \in Int
  BY <1>1 DEF TypeOK, Document
<1>5. Loaded(r) \subseteq Accounts
  BY <1>1, Lengths DEF Loaded
<1>6. ASSUME \A b \in Accounts : accounts'[b].available = accounts[b].available,
             applied'[r] = applied[r]
      PROVE  [Bank!Next]_(Bank!vars)
  BY <1>2, <1>3, <1>6, QuietBank
<1>7. CASE UNCHANGED <<accounts, doc>> /\ applied'[r] = applied[r]
  BY <1>6, <1>7
<1>8. ASSUME NEW a \in Loaded(r), NEW e \in Document, Rewrites(r, a, e),
             e.available = accounts[a].available, applied'[r] = applied[r]
      PROVE  [Bank!Next]_(Bank!vars)
  BY <1>1, <1>5, <1>6, <1>8, RewritesOthers
<1>9. ASSUME NEW a \in Loaded(r), NEW e \in Document, Rewrites(r, a, e),
             pc[r] = "update", AfterUpdate(r),
             a = op[r].legs[step[r]].account,
             e.available = [accounts[a].available EXCEPT
               ![op[r].legs[step[r]].currency] = @ + op[r].legs[step[r]].delta],
             applied'[r] = applied[r] \cup {step[r]}
      PROVE  [Bank!Next]_(Bank!vars)
  <2>1. /\ accounts'[a] = e
        /\ \A b \in Accounts \ {a} : accounts'[b] = accounts[b]
    <3>1. a \in Accounts /\ Rewrites(r, a, e)
      BY <1>5, <1>9
    <3> QED
      BY <1>1, <3>1, RewritesOthers
  <2> DEFINE leg == op[r].legs[step[r]]
  <2>2. leg \in Leg
    BY <1>1, <1>9, CurrentLeg
  <2>3. ASSUME NEW b \in Accounts, NEW c \in Currencies
        PROVE  accounts'[b].available[c] =
                 accounts[b].available[c] + Part(leg, b, c)
    <3>1. accounts[b].available[c] \in Int /\ leg.delta \in Int
      BY <1>4, <2>2 DEF Leg
    <3>2. CASE b = a
      <4>1. accounts'[b].available[c] =
              IF c = leg.currency THEN accounts[b].available[c] + leg.delta
              ELSE accounts[b].available[c]
        <5>1. accounts'[b] = e
          BY <2>1, <3>2
        <5>2. accounts[a].available \in [Currencies -> Int]
          BY <1>1, <1>5 DEF TypeOK, Document
        <5> HIDE DEF leg
        <5> QED
          BY <1>9, <3>2, <5>1, <5>2 DEF leg
      <4>2. Part(leg, b, c) = IF c = leg.currency THEN leg.delta ELSE 0
        BY <1>9, <3>2 DEF Part
      <4> HIDE DEF leg
      <4> QED
        BY <3>1, <4>1, <4>2
    <3>3. CASE b # a
      <4>1. accounts'[b] = accounts[b]
        BY <2>1, <3>3
      <4>2. Part(leg, b, c) = 0
        BY <1>9, <3>3 DEF Part
      <4> HIDE DEF leg
      <4> QED
        BY <3>1, <4>1, <4>2
    <3> QED
      BY <3>2, <3>3
  <2> QED
    BY <1>2, <1>3, <1>9, <2>3, MoneyBank
<1> QED
  BY <1>2, <1>7, <1>8, <1>9 DEF SaveOf

\* Steps that touch no balance: where they lead.
LEMMA OtherStepsBank ==
  ASSUME SerialInv, Inv1', NEW r \in Requests,
         \/ Load(r) \/ CreateRecord(r) \/ SetBalanceAfter(r)
         \/ CompleteRecord(r) \/ FailRecord(r) \/ SetStatus(r) \/ CallFails(r)
  PROVE  [Bank!Next]_(Bank!vars)
<1>1. /\ Inv1 /\ TypeOK /\ Progress(r) /\ Undisturbed(r)
      /\ pc \in [Requests -> Phases] /\ step \in [Requests -> 1..3]
      /\ RecordCount(op[r]) \in 0..3
      /\ \A p \in {"error", "update", "complete", "done"} : p \in Phases
  BY SerialFacts, RecordCountRange DEF Phases, Waiting, Ended
<1>2. StepOf(r)
  BY ServeIsStep DEF Serve
<1>3. pc[r] \in Waiting
  BY <1>2 DEF StepOf
<1>4. applied' = applied
  BY DEF Load, CreateRecord, SetBalanceAfter, CompleteRecord, FailRecord,
         SetStatus, CallFails, history
<1>5. \A a \in Accounts, c \in Currencies :
        accounts'[a].available[c] = accounts[a].available[c]
  <2>1. CASE SetStatus(r)
    <3>1. PICK a, s : \/ accounts' = accounts
                      \/ accounts' = [accounts EXCEPT ![a].status = s]
      BY <2>1 DEF SetStatus
    <3>2. accounts \in [Accounts -> Document]
      BY <1>1 DEF TypeOK
    <3> QED
      BY <3>1, <3>2 DEF Document
  <2>2. CASE ~ SetStatus(r)
    BY <2>2 DEF Load, CreateRecord, SetBalanceAfter, CompleteRecord, FailRecord,
                CallFails
  <2> QED
    BY <2>1, <2>2
<1>6. /\ pc'[r] \in Waiting \cup Ended
      /\ pc'[r] = "done" => applied[r] = Moves(op[r])
  <2>1. CASE Load(r)
    <3> DEFINE d == [doc[r] EXCEPT ![op[r].accounts[step[r]]] =
                       accounts[op[r].accounts[step[r]]]]
               p == IF Accepts(op[r], d) THEN FirstSave(op[r]) ELSE "rejected"
    <3>1. pc[r] = "load" /\ Advance(r, Len(op[r].accounts), p)
      BY <2>1 DEF Load
    <3>2. p \in Phases /\ p \in Waiting \cup Ended /\ p # "done"
      BY DEF FirstSave, Phases, Waiting, Ended
    <3>3. Len(op[r].accounts) \in 0..3
      <4>1. Len(op[r].accounts) \in 1..2
        BY <1>1, <3>1, Lengths
      <4> QED
        BY <4>1
    <3> HIDE DEF p
    <3>4. pc'[r] = pc[r] \/ pc'[r] = p
      BY <1>1, <3>1, <3>2, <3>3, AdvanceEffect
    <3> QED
      BY <1>3, <3>1, <3>2, <3>4
  <2>2. CASE CreateRecord(r)
    <3>1. /\ pc[r] = "create"
          /\ Goto(r, "error", 1) \/ Advance(r, RecordCount(op[r]), "update")
      BY <2>2 DEF CreateRecord
    <3>2. pc'[r] \in {"error", "create", "update"}
      <4>1. CASE Goto(r, "error", 1)
        BY <1>1, <4>1, GotoEffect
      <4>2. CASE Advance(r, RecordCount(op[r]), "update")
        BY <1>1, <3>1, <4>2, AdvanceEffect
      <4> QED
        BY <3>1, <4>1, <4>2
    <3> QED
      BY <3>2 DEF Waiting, Ended
  <2>3. CASE SetBalanceAfter(r)
    <3>1. pc[r] = "balanceAfter" /\ Advance(r, Len(op[r].legs), "complete")
      BY <2>3 DEF SetBalanceAfter
    <3>2. Len(op[r].legs) \in 0..3
      <4>1. Len(op[r].legs) \in 0..2
        BY <1>1, <3>1, Lengths
      <4> QED
        BY <4>1
    <3>3. pc'[r] \in {"balanceAfter", "complete"}
      BY <1>1, <3>1, <3>2, AdvanceEffect
    <3> QED
      BY <3>3 DEF Waiting
  <2>4. CASE CompleteRecord(r)
    <3>1. pc[r] = "complete" /\ Advance(r, RecordCount(op[r]), "done")
      BY <2>4 DEF CompleteRecord
    <3>2. pc'[r] \in {"complete", "done"}
      BY <1>1, <3>1, AdvanceEffect
    <3>3. applied[r] = Moves(op[r])
      <4>1. applied[r] = DOMAIN op[r].legs
        BY <1>1, <3>1 DEF Progress
      <4> QED
        BY <1>1, <4>1 DEF Undisturbed, InOrder, Moves
    <3> QED
      BY <3>2, <3>3 DEF Waiting, Ended
  <2>5. CASE FailRecord(r)
    <3>1. /\ pc[r] = "fail"
          /\ Goto(r, "error", 1) \/ Advance(r, RecordCount(op[r]), "error")
      BY <2>5 DEF FailRecord
    <3>2. pc'[r] \in {"fail", "error"}
      <4>1. CASE Goto(r, "error", 1)
        BY <1>1, <4>1, GotoEffect
      <4>2. CASE Advance(r, RecordCount(op[r]), "error")
        BY <1>1, <3>1, <4>2, AdvanceEffect
      <4> QED
        BY <3>1, <4>1, <4>2
    <3> QED
      BY <3>2 DEF Waiting, Ended
  <2>6. CASE SetStatus(r)
    <3>1. pc[r] = "setStatus" /\ Goto(r, "done", 1)
      BY <2>6 DEF SetStatus
    <3>2. pc'[r] = "done"
      BY <1>1, <3>1, GotoEffect
    <3>3. applied[r] = {} /\ Moves(op[r]) = {}
      BY <1>1, <3>1 DEF Progress, Undisturbed, Moves
    <3> QED
      BY <3>2, <3>3 DEF Ended
  <2>7. CASE CallFails(r)
    <3>1. Catch(r) \/ Goto(r, "error", 1)
      BY <2>7 DEF CallFails
    <3>2. pc'[r] \in {"fail", "error"}
      <4>1. CASE Goto(r, "error", 1)
        BY <1>1, <4>1, GotoEffect
      <4>2. CASE Catch(r)
        BY <1>1, <4>2, CatchEffect
      <4> QED
        BY <3>1, <4>1, <4>2
    <3> QED
      BY <3>2 DEF Waiting, Ended
  <2> QED
    BY <2>1, <2>2, <2>3, <2>4, <2>5, <2>6, <2>7
<1> QED
  BY <1>2, <1>4, <1>5, <1>6, QuietBank

\* What the handlers ask for is what the bank takes orders for.
LEMMA OrdersOfHandlers ==
  ASSUME NEW r \in Requests, Arrive(r)
  PROVE  \E o : Receive(r, o) /\ o.legs \in Bank!Orders
<1>1. ASSUME NEW k, NEW accs, NEW legs \in Bank!Orders, NEW s,
             Receive(r, Operation(k, accs, legs, s))
      PROVE  \E o : Receive(r, o) /\ o.legs \in Bank!Orders
  <2>1. Operation(k, accs, legs, s).legs = legs
    BY DEF Operation
  <2> QED
    BY <1>1, <2>1
<1>2. \A a \in Accounts, c \in Currencies, n \in Amounts :
        /\ AddTo(a, c, n) = Bank!In(a, c, n)
        /\ TakeFrom(a, c, n) = Bank!Out(a, c, n)
  BY DEF AddTo, TakeFrom, Bank!In, Bank!Out
<1>3. /\ <<>> \in Bank!Orders
      /\ \A a \in Accounts, c \in Currencies, n \in Amounts :
           /\ <<AddTo(a, c, n)>> \in Bank!Orders
           /\ <<TakeFrom(a, c, n)>> \in Bank!Orders
  BY <1>2 DEF Bank!Orders
<1>4. ASSUME NEW a \in Accounts, NEW b \in Accounts \ {a}, NEW c \in Currencies,
             NEW n \in Amounts
      PROVE  <<TakeFrom(a, c, n), AddTo(b, c, n)>> \in Bank!Orders
  <2>1. <<Bank!Out(a, c, n), Bank!In(b, c, n)>>[1].account
          # <<Bank!Out(a, c, n), Bank!In(b, c, n)>>[2].account
    BY DEF Bank!Out, Bank!In
  <2> QED
    BY <1>2, <2>1 DEF Bank!Orders
<1>5. ASSUME NEW a \in Accounts, NEW c \in Currencies, NEW d \in Currencies \ {c},
             NEW n \in Amounts, NEW m \in Amounts
      PROVE  <<TakeFrom(a, c, n), AddTo(a, d, m)>> \in Bank!Orders
  <2>1. <<Bank!Out(a, c, n), Bank!In(a, d, m)>>[1].currency
          # <<Bank!Out(a, c, n), Bank!In(a, d, m)>>[2].currency
    BY DEF Bank!Out, Bank!In
  <2> QED
    BY <1>2, <2>1 DEF Bank!Orders
<1>6. CASE \/ Deposit(r) \/ Withdraw(r) \/ ConvertAssetTokenToFiat(r)
           \/ ChargeFiatForCryptoPurchase(r) \/ UpdateAccountStatus(r)
  BY <1>1, <1>3, <1>6 DEF Deposit, Withdraw, ConvertAssetTokenToFiat,
     ChargeFiatForCryptoPurchase, UpdateAccountStatus
<1>7. CASE CreateAccount(r)
  <2>1. PICK a \in Accounts, n \in 0..MaxInitialBalances :
          \E legs \in [1..n -> {AddTo(a, c, m) : c \in Currencies,
                                                m \in Amounts \cup {0}}] :
            Receive(r, Operation("open", <<a>>, legs, "active"))
    BY <1>7 DEF CreateAccount
  <2>2. PICK legs \in [1..n -> {AddTo(a, c, m) : c \in Currencies,
                                                m \in Amounts \cup {0}}] :
          Receive(r, Operation("open", <<a>>, legs, "active"))
    BY <2>1
  <2>3. \A i \in 1..n : \E c \in Currencies, m \in Amounts \cup {0} :
          legs[i] = Bank!In(a, c, m)
    BY DEF AddTo, Bank!In
  <2>4. CASE n = 0
    <3>1. legs = <<>>
      BY <2>4
    <3> QED
      BY <1>1, <1>3, <2>2, <3>1
  <2>5. CASE n = 1
    <3>1. PICK c \in Currencies, m \in Amounts \cup {0} : legs[1] = Bank!In(a, c, m)
      BY <2>3, <2>5
    <3> DEFINE x == Bank!In(a, c, m)
    <3>2. <<x>> \in Bank!Orders
      BY DEF Bank!Orders
    <3> HIDE DEF x
    <3>3. legs[1] = x
      BY <3>1 DEF x
    <3>4. legs = <<x>>
      BY <2>5, <3>3
    <3>5. legs \in Bank!Orders
      BY <3>2, <3>4
    <3> QED
      BY <1>1, <2>2, <3>5
  <2>6. CASE n = 2
    <3>1. 1 \in 1..n /\ 2 \in 1..n
      BY <2>6
    <3>2. PICK c \in Currencies, m \in Amounts \cup {0} : legs[1] = Bank!In(a, c, m)
      BY <2>3, <3>1
    <3>3. PICK d \in Currencies, k \in Amounts \cup {0} : legs[2] = Bank!In(a, d, k)
      BY <2>3, <3>1
    <3> DEFINE x == Bank!In(a, c, m)
               y == Bank!In(a, d, k)
    <3>4. <<x, y>> \in Bank!Orders
      BY DEF Bank!Orders
    <3> HIDE DEF x, y
    <3>5. legs[1] = x /\ legs[2] = y
      BY <3>2, <3>3 DEF x, y
    <3>6. legs = <<x, y>>
      BY <2>6, <3>5
    <3>7. legs \in Bank!Orders
      BY <3>4, <3>6
    <3> QED
      BY <1>1, <2>2, <3>7
  <2> QED
    BY <2>1, <2>4, <2>5, <2>6 DEF MaxInitialBalances
<1>8. CASE Transfer(r)
  BY <1>1, <1>4, <1>8 DEF Transfer
<1>9. CASE ConvertCurrency(r)
  BY <1>1, <1>5, <1>9 DEF ConvertCurrency
<1> QED
  BY <1>6, <1>7, <1>8, <1>9 DEF Arrive

LEMMA ArriveBank ==
  ASSUME Serial, SerialInv, NEW r \in Requests, Arrive(r)
  PROVE  [Bank!Next]_(Bank!vars)
<1>1. /\ TypeOK /\ Progress(r)
      /\ pc[r] = "idle" /\ pc'[r] = "load"
      /\ \A q \in Requests \ {r} : pc'[q] = pc[q] /\ op'[q] = op[q]
      /\ UNCHANGED <<accounts, applied>>
      /\ InFlight = {}
  BY SerialFacts, ArriveSerial
<1>2. PICK o : Receive(r, o) /\ o.legs \in Bank!Orders
  BY OrdersOfHandlers
<1>3. op' = [op EXCEPT ![r] = o]
  BY <1>2 DEF Receive
<1>4. applied[r] = {} /\ \A q \in Requests : pc[q] \notin Waiting
  BY <1>1 DEF Progress, InFlight
<1>5. ASSUME NEW a \in Accounts, NEW c \in Currencies
      PROVE  TakenBack(a, c)' = TakenBack(a, c)
  <2>1. HalfDone(a, c) = {}
    BY <1>4 DEF HalfDone
  <2>2. HalfDone(a, c)' = {}
    <3>1. \A q \in Requests \ {r} : pc'[q] \notin Waiting
      BY <1>1, <1>4
    <3>2. applied'[r] # {1}
      BY <1>1, <1>4
    <3> QED
      BY <3>1, <3>2 DEF HalfDone
  <2> QED
    BY <1>1, <2>1, <2>2 DEF TakenBack
<1>6. Outcome(r) = "none" /\ Outcome(r)' = "asked"
  <2>1. Outcome(r) = "none"
    BY <1>1, <1>4 DEF Outcome, Ended
  <2>2. Outcome(r)' = "asked"
    BY <1>1, <1>4 DEF Outcome, Ended
  <2> QED
    BY <2>1, <2>2
<1>7. ASSUME NEW q \in Requests \ {r}
      PROVE  Outcome(q)' = Outcome(q)
  <2>1. Moves(op[q])' = Moves(op[q])
    BY <1>1 DEF Moves
  <2> QED
    BY <1>1, <2>1 DEF Outcome
<1> DEFINE O == [q \in Requests |-> op[q].legs]
           F == [q \in Requests |-> Outcome(q)]
<1>8. O' = [O EXCEPT ![r] = o.legs]
  BY <1>1, <1>3 DEF TypeOK
<1>9. F[r] = "none" /\ F' = [F EXCEPT ![r] = "asked"]
  BY <1>6, <1>7
<1>10. Bank!Ask(r)
  BY <1>2, <1>5, <1>8, <1>9 DEF Bank!Ask
<1> QED
  BY <1>10 DEF Bank!Next

LEMMA CrashBank ==
  ASSUME SerialInv, Crash
  PROVE  [Bank!Next]_(Bank!vars)
<1>1. PICK r \in Requests :
        /\ StepOf(r) /\ pc'[r] = "crashed"
        /\ UNCHANGED <<accounts, op, doc, applied>>
  BY CrashIsStep
<1>2. pc'[r] \in Waiting \cup Ended /\ pc'[r] # "done"
  BY <1>1 DEF Ended
<1> QED
  BY <1>1, <1>2, QuietBank

LEMMA NextBank ==
  ASSUME Serial, SerialInv, SerialInv', [Next]_vars
  PROVE  [Bank!Next]_(Bank!vars)
<1>1. CASE UNCHANGED vars
  BY <1>1 DEF vars, clients, history, Bank!vars, TakenBack, HalfDone, Outcome,
              Moves
<1>2. ASSUME NEW r \in Requests, Arrive(r)
      PROVE  [Bank!Next]_(Bank!vars)
  BY <1>2, ArriveBank
<1>3. ASSUME NEW r \in Requests, Serve(r) \/ CallFails(r)
      PROVE  [Bank!Next]_(Bank!vars)
  <2>1. Inv1'
    BY DEF SerialInv, Inv3, Inv2
  <2> QED
    BY <1>3, <2>1, SaveBank, OtherStepsBank DEF Serve
<1>4. CASE Crash
  BY <1>4, CrashBank
<1> QED
  BY <1>1, <1>2, <1>3, <1>4 DEF Next, AllServed

LEMMA InitBank ==
  ASSUME Init
  PROVE  Bank!Init
<1>1. /\ \A r \in Requests : /\ pc[r] = "idle" /\ op[r].legs = <<>>
                             /\ applied[r] = {}
      /\ \A a \in Accounts, c \in Currencies :
           accounts[a].available[c] = IF a \in Opened THEN InitialBalance ELSE 0
  <2>1. \A r \in Requests : pc[r] = "idle" /\ op[r].legs = <<>> /\ applied[r] = {}
    BY DEF Init, NoOperation, Operation
  <2>2. ASSUME NEW a \in Accounts, NEW c \in Currencies
        PROVE  accounts[a].available[c] =
                 IF a \in Opened THEN InitialBalance ELSE 0
    BY DEF Init, NoDocument
  <2> QED
    BY <2>1, <2>2
<1>2. \A r \in Requests : Outcome(r) = "none"
  BY <1>1 DEF Outcome, Ended
<1>3. \A a \in Accounts, c \in Currencies : HalfDone(a, c) = {}
  BY <1>1 DEF HalfDone, Waiting
<1>4. ASSUME NEW a \in Accounts, NEW c \in Currencies
      PROVE  TakenBack(a, c) = IF a \in Opened THEN InitialBalance ELSE 0
  BY <1>1, <1>3, AccountServiceAssumption DEF TakenBack
<1> QED
  BY <1>1, <1>2, <1>4 DEF Bank!Init

\* Served one request at a time, whatever fails and whenever the process
\* crashes, the chains of loads and saves implement the bank of AtomicBank:
\* an order is carried out with all its legs, or refused, or cut short after
\* the first of two, the debit of a transfer or a conversion or the first
\* balance of a new account, and no balance ever shows anything else.
THEOREM SerialServiceIsBank ==
  ASSUME Serial
  PROVE  Spec => ImplementsBank
<1>1. Init => SerialInv /\ Bank!Init
  BY InitSerialInv, InitBank
<1>2. SerialInv /\ [Next]_vars => SerialInv'
  BY NextSerialInv
<1>3. SerialInv /\ SerialInv' /\ [Next]_vars => [Bank!Next]_(Bank!vars)
  BY NextBank
<1> QED
  BY <1>1, <1>2, <1>3, PTL DEF Spec, ImplementsBank, Bank!Spec
=============================================================================
