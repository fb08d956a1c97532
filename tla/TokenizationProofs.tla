------------------------- MODULE TokenizationProofs -------------------------
(***************************************************************************)
(* Proofs about Tokenization for any requests, deposits, amounts, limits   *)
(* and number of faults.                                                   *)
(***************************************************************************)
EXTENDS Tokenization, FiniteSetTheorems, WellFoundedInduction, TLAPS

\* What a request asked for tells the calls it may be waiting for.
KindsFit ==
  \A r \in Requests :
    /\ pc[r] = "idle" => op[r].kind = "none"
    /\ pc[r] \in {"saveToken", "saveNewReserve"} => op[r].kind = "create"
    /\ pc[r] = "verifyDeposit" => op[r].kind = "mint"
    /\ pc[r] = "checkReserve" => op[r].kind = "withdraw"
    /\ pc[r] \in {"compliance", "insert"}
         => op[r].kind \in {"mint", "burn", "deposit", "withdraw"}
    /\ pc[r] \in {"processing", "saveSupply", "complete", "record", "fail"}
         => op[r].kind \in {"mint", "burn"}
    /\ pc[r] = "loadToken" => op[r].kind \in {"mint", "burn", "audit"}
    /\ pc[r] = "loadReserve"
         => op[r].kind \in {"mint", "burn", "audit", "withdraw"}
    /\ pc[r] = "saveReserve" => op[r].kind \in {"mint", "burn", "withdraw"}
    /\ pc[r] = "saveAudit" => op[r].kind = "audit"

\* The token is created once, and the reserve after it; a reserve that was not
\* created has no trail that its creation could wipe out.
CreatedOnce ==
  /\ \A r, q \in Requests :
       op[r].kind = "create" /\ op[q].kind = "create" => r = q
  /\ \A r \in Requests :
       /\ pc[r] = "saveToken" => ~ token.exists
       /\ pc[r] = "saveNewReserve" => token.exists /\ ~ reserve.exists
       /\ pc[r] \in {"saveReserve", "complete", "record", "saveAudit"}
            => reserve.exists
  /\ reserve.exists => token.exists
  /\ ~ reserve.exists => reserve.trail = {}

\* Where a request stands tells what it has saved.
SavesInOrder ==
  \A r \in Requests :
    /\ pc[r] = "idle" => /\ record[r] = "absent"
                         /\ r \notin issued
                         /\ r \notin reserve.trail
                         /\ fresh[r] = {}
    /\ /\ pc[r] \in {"loadReserve", "saveReserve", "complete", "record"}
       /\ op[r].kind \in {"mint", "burn"}
       => r \in issued
    /\ pc[r] \in {"complete", "record"} => r \in reserve.trail

\* An audit's copies agree with the documents nobody has saved since, and the
\* only audit's judgement stands.
AuditCopies ==
  \A r \in Requests :
    /\ "token" \in fresh[r] => token.exists
    /\ "reserve" \in fresh[r] => reserve.exists
    /\ op[r].kind = "audit" /\ pc[r] \in {"loadReserve", "saveAudit", "done"}
         => token.exists
    /\ op[r].kind = "audit" /\ "token" \in fresh[r]
         => copy[r].supply = token.supply
    /\ op[r].kind = "audit" /\ "reserve" \in fresh[r]
         => /\ copy[r].total = reserve.total
            /\ copy[r].available = reserve.available
    /\ /\ op[r].kind = "audit"
       /\ \A q \in Requests \ {r} : op[q].kind # "audit"
       => /\ pc[r] \in {"loadReserve", "saveAudit"}
               => copy[r].audit = token.audit
          /\ pc[r] = "done" => token.audit = Judgement(copy[r])

IInv ==
  /\ TypeOK
  /\ KindsFit
  /\ CreatedOnce
  /\ SavesInOrder
  /\ CompletedIsBacked
  /\ ReserveFollowsSupply
  /\ SupplyStaysInLimit
  /\ AuditCopies
-----------------------------------------------------------------------------
\* A save made from a supply the hook lets through.
LEMMA SupplyTyped ==
  ASSUME TypeOK, NEW r \in Requests
  PROVE  Signed(r) \in Int
BY DEF TypeOK, OperationType, Signed

\* The two documents a creation can meet or make.
LEMMA NewTokenIs ==
  ASSUME NEW n \in Int
  PROVE  /\ NewToken(TRUE, n) \in Token /\ NewToken(FALSE, n) \in Token
         /\ NewToken(TRUE, n).exists /\ ~ NewToken(FALSE, n).exists
         /\ NewToken(TRUE, n).supply = n /\ NewToken(FALSE, n).supply = n
BY DEF NewToken, Token, Report, NothingFound, AuditStatus

LEMMA NoCopyIs == NoCopy \in Copy
BY DEF NoCopy, Copy, Report, NothingFound, AuditStatus

\* A copy and a token with one field or several replaced.
LEMMA TokenLoaded ==
  ASSUME NEW c \in Copy, NEW t \in Token, NEW n,
         n = [c EXCEPT !.supply = t.supply, !.audit = t.audit,
                       !.findings = t.findings, !.version = t.version]
  PROVE  /\ n \in Copy /\ n.supply = t.supply /\ n.audit = t.audit
         /\ n.total = c.total /\ n.available = c.available
<1>1. /\ t.supply \in Int /\ t.audit \in AuditStatus
      /\ t.findings \in Report /\ t.version \in Nat
  BY DEF Token
<1> QED
  BY <1>1 DEF Copy

LEMMA ReserveLoaded ==
  ASSUME NEW c \in Copy, NEW n,
         reserve.total \in Int, reserve.available \in Int,
         reserve.locked \in Int,
         n = [c EXCEPT !.total = reserve.total,
                       !.available = reserve.available,
                       !.locked = reserve.locked]
  PROVE  /\ n \in Copy /\ n.supply = c.supply /\ n.audit = c.audit
         /\ n.total = reserve.total /\ n.available = reserve.available
         /\ n.locked = reserve.locked
BY DEF Copy

LEMMA SupplySet ==
  ASSUME NEW t \in Token, NEW i \in Int, NEW n, n = [t EXCEPT !.supply = i]
  PROVE  n \in Token /\ n.supply = i /\ n.exists = t.exists /\ n.audit = t.audit
BY DEF Token

LEMMA SupplyCopied ==
  ASSUME NEW c \in Copy, NEW i \in Int, NEW n, n = [c EXCEPT !.supply = i]
  PROVE  /\ n \in Copy /\ n.supply = i /\ n.audit = c.audit
         /\ n.total = c.total /\ n.available = c.available
BY DEF Copy

\* What an audit saves leaves the supply alone and ends with its judgement if
\* the copy had the last one.
LEMMA AuditedIs ==
  ASSUME TypeOK, NEW r \in Requests
  PROVE  /\ Audited(r) \in Token
         /\ Audited(r).exists = token.exists
         /\ Audited(r).supply = token.supply
         /\ copy[r].audit = token.audit => Audited(r).audit = Judgement(copy[r])
<1> DEFINE new == HasNewFindings(r)
           a == IF Judgement(copy[r]) = copy[r].audit
                THEN token.audit ELSE Judgement(copy[r])
           f == IF new THEN Findings(copy[r]) ELSE token.findings
           v == IF new THEN token.version + 1 ELSE token.version
<1>1. token \in Token /\ copy[r] \in Copy
  BY DEF TypeOK
<1>2. Judgement(copy[r]) \in AuditStatus
  BY DEF Judgement, AuditStatus
<1>3. Findings(copy[r]) \in Report
  BY <1>1 DEF Findings, Report, Copy
<1>4. a \in AuditStatus /\ f \in Report /\ v \in Nat
  BY <1>1, <1>2, <1>3 DEF Token
<1>5. Audited(r) = [token EXCEPT !.audit = a, !.findings = f, !.version = v]
  BY DEF Audited
<1>6. copy[r].audit = token.audit => a = Judgement(copy[r])
  OBVIOUS
<1> HIDE DEF a, f, v, new
<1> QED
  BY <1>1, <1>4, <1>5, <1>6 DEF Token

\* Every arriving request starts with a call that fits its kind.
LEMMA ArrivingFits ==
  ASSUME NEW r \in Requests, Arrive(r)
  PROVE  \E o \in OperationType, first \in Waiting :
           /\ Receive(r, o, first)
           /\ o.kind \in Kinds
           /\ \/ /\ o.kind = "create" /\ first = "saveToken"
                 /\ ~ token.exists
                 /\ \A q \in Requests : op[q].kind # "create"
              \/ o.kind = "mint" /\ first = "verifyDeposit"
              \/ o.kind \in {"burn", "deposit"} /\ first = "compliance"
              \/ o.kind = "withdraw" /\ first = "checkReserve"
              \/ o.kind = "audit" /\ first = "loadToken"
<1> USE TokenizationAssumption DEF Receive, Operation, OperationType, Waiting
<1>1. CASE CreateToken(r)
  BY <1>1 DEF CreateToken
<1>2. CASE MintTokens(r)
  BY <1>2 DEF MintTokens
<1>3. CASE BurnTokens(r)
  BY <1>3 DEF BurnTokens
<1>4. CASE ProcessDeposit(r)
  BY <1>4 DEF ProcessDeposit
<1>5. CASE ProcessWithdrawal(r)
  BY <1>5 DEF ProcessWithdrawal
<1>6. CASE AuditReserves(r)
  BY <1>6 DEF AuditReserves
<1> QED
  BY <1>1, <1>2, <1>3, <1>4, <1>5, <1>6 DEF Arrive
-----------------------------------------------------------------------------
LEMMA InitInv == Init => IInv
<1> SUFFICES ASSUME Init PROVE IInv
  OBVIOUS
<1> USE TokenizationAssumption DEF Init
<1>1. /\ token \in Token
      /\ token.supply \in Nat /\ token.supply <= MaxSupply
  <2>1. 0 \in Int /\ InitialSupply \in Int
    OBVIOUS
  <2>2. token \in Token /\ token.supply \in {0, InitialSupply}
    BY <2>1, NewTokenIs
  <2> QED
    BY <2>2
<1>2. reserve \in [exists : BOOLEAN, total : Int, available : Int,
                   locked : Int, trail : SUBSET Requests]
  <2>1. token.exists \in BOOLEAN /\ token.supply \in Int
    BY <1>1 DEF Token
  <2> QED
    BY <2>1
<1>3. op \in [Requests -> OperationType]
  BY DEF Operation, OperationType
<1>4. copy \in [Requests -> Copy]
  BY NoCopyIs
<1>5. deposits \in [Deposits -> [status : DepositStatus, amount : Nat]]
  BY DEF DepositStatus
<1>6. TypeOK
  BY <1>1, <1>2, <1>3, <1>4, <1>5 DEF TypeOK, MintingStatus
<1>7. KindsFit /\ CreatedOnce /\ SavesInOrder
  BY DEF KindsFit, CreatedOnce, SavesInOrder, Operation
<1>8. CompletedIsBacked /\ ReserveFollowsSupply /\ SupplyStaysInLimit
  BY <1>1 DEF CompletedIsBacked, ReserveFollowsSupply, SupplyStaysInLimit
<1>9. AuditCopies
  BY DEF AuditCopies, Operation
<1> QED
  BY <1>6, <1>7, <1>8, <1>9 DEF IInv

-----------------------------------------------------------------------------
\* Arrivals, and the steps that only move a request on.
LEMMA ArriveInv ==
  ASSUME IInv, NEW r \in Requests, Arrive(r)
  PROVE  IInv'
<1>1. PICK o \in OperationType, first \in Waiting :
           /\ Receive(r, o, first)
           /\ o.kind \in Kinds
           /\ \/ /\ o.kind = "create" /\ first = "saveToken"
                 /\ ~ token.exists
                 /\ \A q \in Requests : op[q].kind # "create"
              \/ o.kind = "mint" /\ first = "verifyDeposit"
              \/ o.kind \in {"burn", "deposit"} /\ first = "compliance"
              \/ o.kind = "withdraw" /\ first = "checkReserve"
              \/ o.kind = "audit" /\ first = "loadToken"
  BY ArrivingFits
<1> USE <1>1 DEF IInv, TypeOK, Receive, Goto, history
<1>2. TypeOK'
  OBVIOUS
<1>3. KindsFit'
  BY DEF KindsFit
<1>4. CreatedOnce'
  BY DEF CreatedOnce
<1>5. SavesInOrder'
  BY DEF SavesInOrder
<1>6. CompletedIsBacked' /\ ReserveFollowsSupply' /\ SupplyStaysInLimit'
  BY DEF CompletedIsBacked, ReserveFollowsSupply, SupplyStaysInLimit,
         SavesInOrder
<1>7. AuditCopies'
  <2> SUFFICES ASSUME NEW q \in Requests
               PROVE  AuditCopies!(q)'
    BY DEF AuditCopies
  <2>1. op[r].kind = "none" /\ fresh[r] = {}
    BY DEF KindsFit, SavesInOrder
  <2> QED
    BY <2>1 DEF AuditCopies
<1> QED
  BY <1>2, <1>3, <1>4, <1>5, <1>6, <1>7

-----------------------------------------------------------------------------
\* Steps that change none of the token, the reserve and the copies of them.
Quiet ==
  /\ UNCHANGED <<token, reserve, op, copy, history>>
  /\ \A r \in Requests :
       \/ pc'[r] = pc[r]
       \/ /\ pc[r] \in Waiting
          /\ pc'[r] \in Waiting \cup Ended
          /\ pc'[r] \notin {"saveToken", "saveNewReserve", "saveReserve",
                            "saveAudit"}
          /\ pc'[r] \in {"complete", "record"} => pc[r] = "complete"
          /\ pc'[r] = "loadReserve" => op[r].kind = "withdraw"
          /\ pc'[r] = "done" => op[r].kind # "audit"
  /\ \A r \in Requests :
       \/ record'[r] = record[r]
       \/ pc[r] # "idle" /\ record'[r] # "completed"
       \/ pc[r] = "complete"

LEMMA QuietInv ==
  ASSUME IInv, TypeOK', KindsFit', Quiet
  PROVE  IInv'
<1> USE DEF IInv, Quiet, history
<1>1. \A r \in Requests : pc'[r] = "idle" => pc[r] = "idle"
  BY DEF Waiting, Ended
<1>2. CreatedOnce'
  BY DEF CreatedOnce
<1>3. SavesInOrder'
  BY <1>1 DEF SavesInOrder
<1>4. CompletedIsBacked' /\ ReserveFollowsSupply' /\ SupplyStaysInLimit'
  <2>1. \A r \in Requests :
          pc[r] = "complete" => r \in issued /\ r \in reserve.trail
    BY DEF SavesInOrder, KindsFit
  <2> QED
    BY <2>1 DEF CompletedIsBacked, ReserveFollowsSupply, SupplyStaysInLimit
<1>5. AuditCopies'
  <2> SUFFICES ASSUME NEW r \in Requests
               PROVE  AuditCopies!(r)'
    BY DEF AuditCopies
  <2> QED
    BY DEF AuditCopies
<1> QED
  BY <1>2, <1>3, <1>4, <1>5

\* Where a thrown error leads.
LEMMA CatchGoesOn ==
  ASSUME TypeOK, NEW r \in Requests, Catch(r)
  PROVE  \E p \in {"fail", "error"} :
           /\ pc' = [pc EXCEPT ![r] = p]
           /\ p = "fail" => op[r].kind \in {"mint", "burn"}
BY DEF Catch, Goto

LEMMA QuietStepInv ==
  ASSUME IInv, NEW r \in Requests,
         \/ VerifyDeposit(r) \/ VerifyReserveAvailability(r)
         \/ PerformCompliance(r) \/ InsertDeposit(r) \/ InsertRequest(r)
         \/ StartProcessing(r) \/ CompleteRequest(r)
         \/ CreateTokenTransaction(r) \/ FailRequest(r) \/ CallFails(r)
  PROVE  IInv'
<1> SUFFICES TypeOK' /\ KindsFit' /\ Quiet
  BY QuietInv
<1> USE DEF IInv, Goto, history
<1>1. CASE VerifyDeposit(r)
  BY <1>1 DEF VerifyDeposit, TypeOK, KindsFit, Quiet, Waiting, Ended
<1>2. CASE VerifyReserveAvailability(r)
  BY <1>2 DEF VerifyReserveAvailability, TypeOK, KindsFit, Quiet, Waiting,
              Ended
<1>3. CASE PerformCompliance(r)
  BY <1>3 DEF PerformCompliance, TypeOK, KindsFit, Quiet, Waiting, Ended
<1>4. CASE InsertDeposit(r)
  BY <1>4 DEF InsertDeposit, TypeOK, KindsFit, Quiet, Waiting, Ended,
              OperationType, DepositStatus
<1>5. CASE InsertRequest(r)
  BY <1>5 DEF InsertRequest, TypeOK, KindsFit, Quiet, Waiting, Ended,
              MintingStatus
<1>6. CASE StartProcessing(r)
  BY <1>6 DEF StartProcessing, TypeOK, KindsFit, Quiet, Waiting, Ended,
              MintingStatus
<1>7. CASE CompleteRequest(r)
  BY <1>7 DEF CompleteRequest, TypeOK, KindsFit, Quiet, Waiting, Ended,
              MintingStatus
<1>8. CASE CreateTokenTransaction(r)
  BY <1>8 DEF CreateTokenTransaction, TypeOK, KindsFit, Quiet, Waiting, Ended
<1>9. CASE FailRequest(r)
  BY <1>9 DEF FailRequest, TypeOK, KindsFit, Quiet, Waiting, Ended,
              MintingStatus
<1>10. CASE CallFails(r)
  <2>1. \E p \in {"fail", "error"} :
           /\ pc' = [pc EXCEPT ![r] = p]
           /\ p = "fail" => op[r].kind \in {"mint", "burn"}
    BY <1>10, CatchGoesOn DEF CallFails
  <2>2. faults' \in 0..MaxFaults
    BY <1>10, TokenizationAssumption DEF CallFails, TypeOK
  <2> QED
    BY <1>10, <2>1, <2>2 DEF CallFails, TypeOK, KindsFit, Quiet, Waiting, Ended
<1> QED
  BY <1>1, <1>2, <1>3, <1>4, <1>5, <1>6, <1>7, <1>8, <1>9, <1>10

-----------------------------------------------------------------------------
\* Steps that save or load a document.

LEMMA SaveTokenInv ==
  ASSUME IInv, NEW r \in Requests, SaveToken(r)
  PROVE  IInv'
<1> USE DEF IInv, SaveToken, Goto, history
<1>0. token' \in Token /\ token'.exists /\ token'.supply = 0
  <2>1. 0 \in Int
    OBVIOUS
  <2> QED
    BY <2>1, NewTokenIs
<1>1. op[r].kind = "create" /\ ~ token.exists /\ ~ reserve.exists
  BY DEF KindsFit, CreatedOnce
<1>2. TypeOK'
  BY <1>0 DEF TypeOK, Waiting
<1>3. KindsFit'
  BY DEF KindsFit, TypeOK
<1>4. CreatedOnce'
  BY <1>0, <1>1 DEF CreatedOnce, TypeOK, KindsFit
<1>5. SavesInOrder'
  BY DEF SavesInOrder, TypeOK
<1>6. CompletedIsBacked' /\ ReserveFollowsSupply' /\ SupplyStaysInLimit'
  <2>1. 0 <= MaxSupply
    BY TokenizationAssumption
  <2> HIDE DEF SaveToken
  <2>2. SupplyStaysInLimit'
    BY <1>0, <2>1 DEF SupplyStaysInLimit
  <2>3. CompletedIsBacked' /\ ReserveFollowsSupply'
    BY DEF SaveToken, CompletedIsBacked, ReserveFollowsSupply
  <2> QED
    BY <2>2, <2>3
<1>7. AuditCopies'
  <2> SUFFICES ASSUME NEW q \in Requests
               PROVE  AuditCopies!(q)'
    BY DEF AuditCopies
  <2> QED
    BY <1>0, <1>1 DEF AuditCopies, TypeOK
<1> QED
  BY <1>2, <1>3, <1>4, <1>5, <1>6, <1>7

LEMMA InitializeReserveInv ==
  ASSUME IInv, NEW r \in Requests, InitializeReserveBalance(r)
  PROVE  IInv'
<1> USE DEF IInv, InitializeReserveBalance, Goto, history
<1>1. /\ op[r].kind = "create" /\ token.exists /\ ~ reserve.exists
      /\ reserve.trail = {}
  BY DEF KindsFit, CreatedOnce
<1>2. TypeOK'
  BY DEF TypeOK, Ended
<1>3. KindsFit'
  BY DEF KindsFit, TypeOK
<1>4. CreatedOnce'
  BY <1>1 DEF CreatedOnce, TypeOK, KindsFit
<1>5. SavesInOrder'
  BY <1>1 DEF SavesInOrder, TypeOK
<1>6. CompletedIsBacked' /\ ReserveFollowsSupply' /\ SupplyStaysInLimit'
  BY <1>1
     DEF CompletedIsBacked, ReserveFollowsSupply, SupplyStaysInLimit, TypeOK
<1>7. AuditCopies'
  <2> SUFFICES ASSUME NEW q \in Requests
               PROVE  AuditCopies!(q)'
    BY DEF AuditCopies
  <2> QED
    BY <1>1 DEF AuditCopies, TypeOK
<1> QED
  BY <1>2, <1>3, <1>4, <1>5, <1>6, <1>7

\* A load takes r's numbers over from the document and changes neither.
LEMMA LoadInv ==
  ASSUME IInv, NEW r \in Requests, LoadToken(r) \/ LoadReserve(r)
  PROVE  IInv'
<1> USE DEF IInv, Goto, history
<1>1. /\ TypeOK' /\ KindsFit'
      /\ UNCHANGED <<token, reserve, op, record, issued>>
      /\ \A q \in Requests \ {r} : /\ UNCHANGED <<pc[q], copy[q], fresh[q]>>
      /\ pc[r] \in {"loadToken", "loadReserve"}
      /\ pc'[r] \in {"saveSupply", "loadReserve", "saveReserve", "saveAudit",
                     "fail", "error"}
  <2>1. CASE LoadToken(r) /\ token.exists
    <3>1. PICK n : n = [copy[r] EXCEPT !.supply = token.supply,
                                       !.audit = token.audit,
                                       !.findings = token.findings,
                                       !.version = token.version]
      OBVIOUS
    <3>2. copy[r] \in Copy /\ token \in Token
      BY DEF TypeOK
    <3>3. n \in Copy
      BY <3>1, <3>2, TokenLoaded
    <3> QED
      BY <2>1, <3>1, <3>3 DEF LoadToken, Load, TypeOK, KindsFit, Waiting
  <2>2. CASE LoadReserve(r) /\ reserve.exists
    <3>1. PICK n : n = [copy[r] EXCEPT !.total = reserve.total,
                                       !.available = reserve.available,
                                       !.locked = reserve.locked]
      OBVIOUS
    <3>2. /\ copy[r] \in Copy /\ reserve.total \in Int
          /\ reserve.available \in Int /\ reserve.locked \in Int
      BY DEF TypeOK
    <3>3. n \in Copy
      BY <3>1, <3>2, ReserveLoaded
    <3> QED
      BY <2>2, <3>1, <3>3 DEF LoadReserve, Load, TypeOK, KindsFit, Waiting
  <2>3. CASE \/ LoadToken(r) /\ ~ token.exists
             \/ LoadReserve(r) /\ ~ reserve.exists
    BY <2>3, CatchGoesOn
       DEF LoadToken, LoadReserve, TypeOK, KindsFit, Waiting, Ended
  <2> QED
    BY <2>1, <2>2, <2>3
<1>2. CreatedOnce'
  <2>1. pc'[r] \in {"saveReserve", "saveAudit"} => reserve.exists
    BY CatchGoesOn DEF LoadToken, LoadReserve, TypeOK
  <2> QED
    BY <1>1, <2>1 DEF CreatedOnce
<1>3. SavesInOrder'
  BY <1>1, CatchGoesOn DEF SavesInOrder, LoadToken, LoadReserve, KindsFit, TypeOK
<1>4. CompletedIsBacked' /\ ReserveFollowsSupply' /\ SupplyStaysInLimit'
  BY <1>1 DEF CompletedIsBacked, ReserveFollowsSupply, SupplyStaysInLimit
<1>5. AuditCopies'
  <2> SUFFICES ASSUME NEW q \in Requests
               PROVE  AuditCopies!(q)'
    BY DEF AuditCopies
  <2>1. CASE q # r
    BY <1>1, <2>1 DEF AuditCopies
  <2>2. CASE q = r /\ LoadToken(r) /\ token.exists
    <3>1. PICK n : n = [copy[r] EXCEPT !.supply = token.supply,
                                       !.audit = token.audit,
                                       !.findings = token.findings,
                                       !.version = token.version]
      OBVIOUS
    <3>2. copy[r] \in Copy /\ token \in Token
      BY DEF TypeOK
    <3>3. /\ n.supply = token.supply /\ n.audit = token.audit
          /\ n.total = copy[r].total /\ n.available = copy[r].available
      BY <3>1, <3>2, TokenLoaded
    <3>4. /\ copy'[r] = n /\ pc[r] = "loadToken"
          /\ pc'[r] = IF op[r].kind = "audit" THEN "loadReserve"
                      ELSE "saveSupply"
          /\ fresh'[r] = fresh[r] \cup {"token"}
      BY <2>2, <3>1 DEF LoadToken, Load, TypeOK
    <3> QED
      BY <1>1, <2>2, <3>3, <3>4 DEF AuditCopies
  <2>4. CASE q = r /\ LoadToken(r) /\ ~ token.exists
    <3>1. pc'[r] \in {"fail", "error"} /\ UNCHANGED <<copy, fresh>>
      BY <2>4, CatchGoesOn DEF LoadToken, TypeOK
    <3> QED
      BY <1>1, <2>4, <3>1 DEF AuditCopies
  <2>3. CASE q = r /\ LoadReserve(r)
    <3>1. /\ copy'[r].supply = copy[r].supply
          /\ copy'[r].audit = copy[r].audit
          /\ reserve.exists /\ "reserve" \in fresh'[r]
               => /\ copy'[r].total = reserve.total
                  /\ copy'[r].available = reserve.available
      <4>1. CASE ~ reserve.exists
        BY <2>3, <4>1 DEF LoadReserve
      <4>2. CASE reserve.exists
        <5>1. PICK n : n = [copy[r] EXCEPT !.total = reserve.total,
                                           !.available = reserve.available,
                                           !.locked = reserve.locked]
          OBVIOUS
        <5>2. /\ n.supply = copy[r].supply /\ n.total = reserve.total
              /\ n.available = reserve.available /\ n.audit = copy[r].audit
          <6>1. /\ copy[r] \in Copy /\ reserve.total \in Int
                /\ reserve.available \in Int /\ reserve.locked \in Int
            BY DEF TypeOK
          <6> QED
            BY <5>1, <6>1, ReserveLoaded
        <5>3. copy'[r] = n
          BY <2>3, <4>2, <5>1 DEF LoadReserve, Load, TypeOK
        <5> QED
          BY <5>2, <5>3
      <4> QED
        BY <4>1, <4>2
    <3> QED
      BY <1>1, <2>3, <3>1 DEF AuditCopies, LoadReserve, Load, TypeOK
  <2> QED
    BY <2>1, <2>2, <2>3, <2>4
<1> QED
  BY <1>1, <1>2, <1>3, <1>4, <1>5

\* A save of the supply: every other copy of the token is stale afterwards.
LEMMA UpdateSupplyInv ==
  ASSUME IInv, NEW r \in Requests, UpdateSupply(r)
  PROVE  IInv'
<1> DEFINE new == copy[r].supply + Signed(r)
<1> USE DEF IInv, Goto, history
<1>0. /\ op[r].kind \in {"mint", "burn"} /\ pc[r] = "saveSupply"
      /\ new \in Int /\ MaxSupply \in Int
  BY SupplyTyped, TokenizationAssumption
     DEF KindsFit, UpdateSupply, TypeOK, Copy
<1>1. CASE new > MaxSupply
  <2>1. \E p \in {"fail", "error"} :
           /\ pc' = [pc EXCEPT ![r] = p]
           /\ p = "fail" => op[r].kind \in {"mint", "burn"}
    BY <1>1, CatchGoesOn DEF UpdateSupply
  <2>2. TypeOK' /\ KindsFit' /\ Quiet
    BY <1>0, <1>1, <2>1
       DEF UpdateSupply, TypeOK, KindsFit, Quiet, Waiting, Ended
  <2> QED
    BY <2>2, QuietInv
<1>2. CASE ~ (new > MaxSupply)
  <2>1. /\ token' = [token EXCEPT !.supply = new]
        /\ copy' = [copy EXCEPT ![r].supply = new]
        /\ issued' = issued \cup {r}
        /\ Saved(r, "token")
        /\ pc' = [pc EXCEPT ![r] = "loadReserve"]
        /\ UNCHANGED <<reserve, deposits, record, op, faults>>
        /\ new <= MaxSupply
    BY <1>0, <1>2 DEF UpdateSupply, SaveSupply
  <2>2. /\ token' \in Token
        /\ token'.exists = token.exists /\ token'.supply = new
        /\ token'.audit = token.audit
    <3> HIDE DEF new
    <3> QED
      BY <1>0, <2>1, SupplySet DEF TypeOK
  <2>3. /\ fresh' \in [Requests -> SUBSET {"token", "reserve"}]
        /\ contended' \subseteq {"token", "reserve"}
        /\ fresh'[r] = fresh[r]
        /\ \A q \in Requests \ {r} : fresh'[q] = fresh[q] \ {"token"}
    BY <2>1 DEF TypeOK, Saved
  <2>4. copy' \in [Requests -> Copy] /\ copy'[r].audit = copy[r].audit
    <3>1. PICK n : n = [copy[r] EXCEPT !.supply = new]
      OBVIOUS
    <3>2. copy' = [copy EXCEPT ![r] = n]
      BY <2>1, <3>1
    <3> HIDE DEF new
    <3>3. n \in Copy /\ n.audit = copy[r].audit
      BY <1>0, <3>1, SupplyCopied DEF TypeOK
    <3> QED
      BY <3>2, <3>3 DEF TypeOK
  <2>5. TypeOK'
    BY <2>1, <2>2, <2>3, <2>4 DEF TypeOK, Waiting
  <2>6. KindsFit' /\ CreatedOnce'
    BY <1>0, <2>1, <2>2 DEF KindsFit, CreatedOnce, TypeOK
  <2>7. SavesInOrder'
    BY <2>1, <2>3 DEF SavesInOrder, TypeOK
  <2>8. CompletedIsBacked' /\ ReserveFollowsSupply' /\ SupplyStaysInLimit'
    BY <2>1, <2>2
       DEF CompletedIsBacked, ReserveFollowsSupply, SupplyStaysInLimit
  <2>9. AuditCopies'
    <3> SUFFICES ASSUME NEW q \in Requests
                 PROVE  AuditCopies!(q)'
      BY DEF AuditCopies
    <3>1. CASE q = r
      BY <1>0, <2>1, <2>2, <2>3, <3>1 DEF AuditCopies, TypeOK
    <3>2. CASE q # r
      <4>1. copy'[q] = copy[q] /\ pc'[q] = pc[q]
        BY <2>1, <3>2 DEF TypeOK
      <4> QED
        BY <2>1, <2>2, <2>3, <3>2, <4>1 DEF AuditCopies
    <3> QED
      BY <3>1, <3>2
  <2> QED
    BY <2>5, <2>6, <2>7, <2>8, <2>9
<1> QED
  BY <1>1, <1>2

\* A save of the reserve, which also enters the request into the trail.
LEMMA UpdateReservesInv ==
  ASSUME IInv, NEW r \in Requests, UpdateReserves(r)
  PROVE  IInv'
<1> USE DEF IInv, Goto, history
<1>0. /\ op[r].kind \in {"mint", "burn", "withdraw"} /\ pc[r] = "saveReserve"
      /\ reserve.exists
      /\ op[r].kind \in {"mint", "burn"} => r \in issued
  BY DEF KindsFit, CreatedOnce, SavesInOrder, UpdateReserves
<1>1. /\ reserve' \in [exists : BOOLEAN, total : Int, available : Int,
                       locked : Int, trail : SUBSET Requests]
      /\ reserve'.exists = reserve.exists
      /\ reserve'.trail = reserve.trail \cup {r}
  <2>0. copy[r] \in Copy /\ op[r].amount \in Int /\ Signed(r) \in Int
    BY SupplyTyped DEF TypeOK, OperationType
  <2>1. CASE op[r].kind = "withdraw"
    <3>1. PICK x, y : /\ x = copy[r].available - op[r].amount
                      /\ y = copy[r].locked + op[r].amount
      OBVIOUS
    <3>2. x \in Int /\ y \in Int
      BY <2>0, <3>1 DEF Copy
    <3>3. reserve' = [reserve EXCEPT !.available = x, !.locked = y,
                                     !.trail = @ \cup {r}]
      BY <2>1, <3>1 DEF UpdateReserves, Lock
    <3> QED
      BY <3>2, <3>3 DEF TypeOK
  <2>2. CASE op[r].kind # "withdraw"
    <3>1. PICK x, y : /\ x = copy[r].total + Signed(r)
                      /\ y = copy[r].available + Signed(r)
      OBVIOUS
    <3>2. x \in Int /\ y \in Int
      BY <2>0, <3>1 DEF Copy
    <3>3. reserve' = [reserve EXCEPT !.total = x, !.available = y,
                                     !.trail = @ \cup {r}]
      BY <2>2, <3>1 DEF UpdateReserves, AddOrRemove
    <3> QED
      BY <3>2, <3>3 DEF TypeOK
  <2> QED
    BY <2>1, <2>2
<1>2. /\ fresh' \in [Requests -> SUBSET {"token", "reserve"}]
      /\ contended' \subseteq {"token", "reserve"}
      /\ fresh'[r] = fresh[r]
      /\ \A q \in Requests \ {r} : fresh'[q] = fresh[q] \ {"reserve"}
  BY DEF UpdateReserves, TypeOK, Saved
<1>3. TypeOK'
  BY <1>1, <1>2 DEF TypeOK, UpdateReserves, Waiting, Ended
<1>4. KindsFit'
  BY <1>0 DEF KindsFit, TypeOK, UpdateReserves
<1>5. CreatedOnce'
  BY <1>0, <1>1 DEF CreatedOnce, TypeOK, UpdateReserves
<1>6. SavesInOrder'
  BY <1>0, <1>1, <1>2 DEF SavesInOrder, TypeOK, UpdateReserves
<1>7. CompletedIsBacked' /\ ReserveFollowsSupply' /\ SupplyStaysInLimit'
  BY <1>0, <1>1 DEF CompletedIsBacked, ReserveFollowsSupply,
                    SupplyStaysInLimit, UpdateReserves
<1>8. AuditCopies'
  <2> SUFFICES ASSUME NEW q \in Requests
               PROVE  AuditCopies!(q)'
    BY DEF AuditCopies
  <2>1. CASE q = r
    BY <1>0, <1>1, <1>2, <2>1 DEF AuditCopies, TypeOK, UpdateReserves
  <2>2. CASE q # r
    <3>1. /\ pc'[q] = pc[q] /\ UNCHANGED <<token, op, copy>>
      BY <2>2 DEF UpdateReserves, TypeOK
    <3> QED
      BY <1>1, <1>2, <2>2, <3>1 DEF AuditCopies
  <2> QED
    BY <2>1, <2>2
<1> QED
  BY <1>3, <1>4, <1>5, <1>6, <1>7, <1>8

\* The audit saves its judgement with the token, and no number.
LEMMA SaveAuditInv ==
  ASSUME IInv, NEW r \in Requests, SaveAudit(r)
  PROVE  IInv'
<1> USE DEF IInv, Goto, history, SaveAudit
<1>0. op[r].kind = "audit" /\ pc[r] = "saveAudit" /\ token.exists
  BY DEF KindsFit, CreatedOnce
<1>1. \/ token' = Audited(r) /\ pc' = [pc EXCEPT ![r] = "done"]
      \/ token' = token /\ pc' = [pc EXCEPT ![r] = "error"]
  BY <1>0, CatchGoesOn
<1>2. /\ token' \in Token
      /\ token'.exists = token.exists /\ token'.supply = token.supply
  BY <1>1, AuditedIs DEF TypeOK
<1>3. TypeOK'
  BY <1>1, <1>2 DEF TypeOK, Ended
<1>4. KindsFit' /\ CreatedOnce' /\ SavesInOrder'
  BY <1>0, <1>1, <1>2 DEF KindsFit, CreatedOnce, SavesInOrder, TypeOK
<1>5. CompletedIsBacked' /\ ReserveFollowsSupply' /\ SupplyStaysInLimit'
  BY <1>2 DEF CompletedIsBacked, ReserveFollowsSupply, SupplyStaysInLimit
<1>6. AuditCopies'
  <2> SUFFICES ASSUME NEW q \in Requests
               PROVE  AuditCopies!(q)'
    BY DEF AuditCopies
  <2>1. CASE q = r
    <3>1. copy[r].audit = token.audit => Audited(r).audit = Judgement(copy[r])
      BY AuditedIs
    <3> QED
      BY <1>0, <1>1, <1>2, <2>1, <3>1 DEF AuditCopies, TypeOK
  <2>2. CASE q # r
    BY <1>0, <1>1, <1>2, <2>2 DEF AuditCopies, TypeOK
  <2> QED
    BY <2>1, <2>2
<1> QED
  BY <1>3, <1>4, <1>5, <1>6
-----------------------------------------------------------------------------
\* The invariant is inductive.
LEMMA StepInv == IInv /\ [Next]_vars => IInv'
<1> SUFFICES ASSUME IInv, [Next]_vars
             PROVE  IInv'
  OBVIOUS
<1>1. ASSUME NEW r \in Requests, Arrive(r) PROVE IInv'
  BY <1>1, ArriveInv
<1>2. ASSUME NEW r \in Requests, Serve(r) PROVE IInv'
  BY <1>2, SaveTokenInv, InitializeReserveInv, LoadInv, UpdateSupplyInv,
     UpdateReservesInv, SaveAuditInv, QuietStepInv DEF Serve
<1>3. ASSUME NEW r \in Requests, CallFails(r) PROVE IInv'
  BY <1>3, QuietStepInv
<1>4. ASSUME NEW d \in Deposits, DepositIsVerified(d) PROVE IInv'
  <2>1. TypeOK' /\ KindsFit' /\ Quiet
    BY <1>4 DEF DepositIsVerified, IInv, TypeOK, KindsFit, Quiet, clients,
                history, DepositStatus
  <2> QED
    BY <2>1, QuietInv
<1>5. CASE Crash
  <2>1. faults' \in 0..MaxFaults
    BY <1>5, TokenizationAssumption DEF Crash, IInv, TypeOK
  <2>2. TypeOK' /\ KindsFit' /\ Quiet
    BY <1>5, <2>1 DEF Crash, IInv, TypeOK, KindsFit, Quiet, history,
                      InFlight, Waiting, Ended
  <2> QED
    BY <2>2, QuietInv
<1>6. CASE AllServed \/ UNCHANGED vars
  <2>1. UNCHANGED vars
    BY <1>6 DEF AllServed
  <2> QED
    BY <2>1 DEF vars, clients, history, IInv, TypeOK, KindsFit, CreatedOnce,
                SavesInOrder, CompletedIsBacked, ReserveFollowsSupply,
                SupplyStaysInLimit, AuditCopies
<1> QED
  BY <1>1, <1>2, <1>3, <1>4, <1>5, <1>6 DEF Next

\* Every reachable state is typed: no interleaving or failure brings a document
\* of TokenizationService.ts out of its schema.
THEOREM TypeCorrect == Spec => []TypeOK
<1>1. IInv => TypeOK
  BY DEF IInv
<1> QED
  BY <1>1, InitInv, StepInv, PTL DEF Spec

\* processMinting and processBurning say COMPLETED only of requests whose two
\* saves both succeeded.
THEOREM CompletedRequestsAreBacked == Spec => []CompletedIsBacked
<1>1. IInv => CompletedIsBacked
  BY DEF IInv
<1> QED
  BY <1>1, InitInv, StepInv, PTL DEF Spec

\* The reserve never accounts for an issue or a redemption that the supply has
\* not seen.
THEOREM TrailFollowsSupply == Spec => []ReserveFollowsSupply
<1>1. IInv => ReserveFollowsSupply
  BY DEF IInv
<1> QED
  BY <1>1, InitInv, StepInv, PTL DEF Spec

\* The check of the pre-save hook keeps the stored supply within maxSupply,
\* however many mints race on stale copies.
THEOREM SupplyIsLimited == Spec => []SupplyStaysInLimit
<1>1. IInv => SupplyStaysInLimit
  BY DEF IInv
<1> QED
  BY <1>1, InitInv, StepInv, PTL DEF Spec

\* The judgement of auditReserves is right as long as its two reads are
\* current.
THEOREM CurrentAuditsAreRight == Spec => []AuditsAreRight
<1>1. IInv => AuditsAreRight
  <2> SUFFICES ASSUME IInv, NEW r \in Requests,
                      op[r].kind = "audit", pc[r] = "done",
                      fresh[r] = {"token", "reserve"},
                      \A q \in Requests \ {r} : op[q].kind # "audit"
               PROVE  (token.audit = "completed")
                        <=> (token.supply = reserve.total
                              /\ reserve.available >= 0)
    BY DEF AuditsAreRight
  <2>1. /\ copy[r].supply = token.supply /\ copy[r].total = reserve.total
        /\ copy[r].available = reserve.available
        /\ token.audit = Judgement(copy[r])
    BY DEF IInv, AuditCopies
  <2> QED
    BY <2>1 DEF Judgement
<1> QED
  BY <1>1, InitInv, StepInv, PTL DEF Spec
-----------------------------------------------------------------------------
(* Sums over finite sets of requests.                                      *)

\* A set of numbers that holds 0 and the successors of its members.
LEMMA EveryNumber ==
  ASSUME NEW S \in SUBSET Nat, 0 \in S, \A n \in S : n + 1 \in S
  PROVE  S = Nat
<1> DEFINE R == OpToRel(<, Nat)
<1>1. IsWellFoundedOn(R, Nat)
  BY NatLessThanWellFounded
<1>2. \A x, y \in Nat : <<y, x>> \in R <=> y < x
  BY DEF OpToRel
<1> HIDE DEF R
<1>3. ASSUME Nat \ S # {}
      PROVE  FALSE
  <2>1. PICK m \in Nat \ S : \A n \in Nat \ S : ~ (<<n, m>> \in R)
    BY <1>1, <1>3, WFMin
  <2>2. \A n \in Nat : n < m => n \in S
    BY <1>2, <2>1
  <2>3. m # 0 /\ m - 1 \in Nat /\ m - 1 < m /\ (m - 1) + 1 = m
    BY <2>1
  <2>4. m \in S
    BY <2>2, <2>3
  <2> QED
    BY <2>1, <2>4
<1> QED
  BY <1>3

\* The element a fold takes next.
First(s) == CHOOSE x \in s : TRUE

\* g adds up f along First, for the subsets of S.
Adds(f, S, g) ==
  g = [s \in SUBSET S |-> IF s = {} THEN 0 ELSE f[First(s)] + g[s \ {First(s)}]]

\* What a fold leaves for later has one element less.
LEMMA RestOf ==
  ASSUME NEW s, IsFiniteSet(s), s # {}
  PROVE  /\ First(s) \in s
         /\ IsFiniteSet(s \ {First(s)})
         /\ Cardinality(s) \in Nat /\ Cardinality(s \ {First(s)}) \in Nat
         /\ Cardinality(s \ {First(s)}) = Cardinality(s) - 1
         /\ Cardinality(s) # 0
<1>1. First(s) \in s
  BY DEF First
<1> QED
  BY <1>1, FS_RemoveElement, FS_CardinalityType, FS_EmptySet

\* A finite set can be added up: level by level, by the number of elements.
LEMMA AddsExists ==
  ASSUME NEW f, NEW S, IsFiniteSet(S)
  PROVE  \E g : Adds(f, S, g)
<1> DEFINE Upto(n) == {s \in SUBSET S : Cardinality(s) <= n}
           Fits(n, g) == g = [s \in Upto(n) |->
              IF s = {} THEN 0 ELSE f[First(s)] + g[s \ {First(s)}]]
           Good == {n \in Nat : \E g : Fits(n, g)}
<1>1. \A s \in SUBSET S : IsFiniteSet(s) /\ Cardinality(s) \in Nat
                          /\ Cardinality(s) <= Cardinality(S)
  BY FS_Subset, FS_CardinalityType
<1>2. 0 \in Good
  <2>1. \A s \in Upto(0) : s = {}
    BY <1>1, FS_EmptySet
  <2>2. Fits(0, [s \in Upto(0) |-> 0])
    BY <2>1
  <2> QED
    BY <2>2
<1>3. ASSUME NEW n \in Good
      PROVE  n + 1 \in Good
  <2>1. PICK g : Fits(n, g)
    OBVIOUS
  <2> DEFINE h == [s \in Upto(n + 1) |->
                IF s = {} THEN 0 ELSE f[First(s)] + g[s \ {First(s)}]]
  <2>2. ASSUME NEW s \in Upto(n)
        PROVE  s \in Upto(n + 1) /\ h[s] = g[s]
    <3>1. s \in Upto(n + 1)
      BY <1>1
    <3>2. g[s] = IF s = {} THEN 0 ELSE f[First(s)] + g[s \ {First(s)}]
      BY <2>1
    <3> QED
      BY <3>1, <3>2
  <2>3. ASSUME NEW s \in Upto(n + 1), s # {}
        PROVE  s \ {First(s)} \in Upto(n)
    BY <1>1, <2>3, RestOf
  <2>4. ASSUME NEW s \in Upto(n + 1)
        PROVE  h[s] = IF s = {} THEN 0 ELSE f[First(s)] + h[s \ {First(s)}]
    <3>1. CASE s = {}
      BY <3>1
    <3>2. CASE s # {}
      <4>1. h[s \ {First(s)}] = g[s \ {First(s)}]
        BY <2>2, <2>3, <3>2
      <4>2. h[s] = f[First(s)] + g[s \ {First(s)}]
        BY <3>2
      <4> QED
        BY <3>2, <4>1, <4>2
    <3> QED
      BY <3>1, <3>2
  <2>5. h = [s \in Upto(n + 1) |-> h[s]]
    OBVIOUS
  <2> HIDE DEF h
  <2>6. Fits(n + 1, h)
    BY <2>4, <2>5
  <2>7. n + 1 \in Nat
    OBVIOUS
  <2> HIDE DEF Fits
  <2> QED
    BY <2>6, <2>7
<1>4. Cardinality(S) \in Good
  <2>1. Good \in SUBSET Nat
    OBVIOUS
  <2>2. \A n \in Good : n + 1 \in Good
    BY <1>3
  <2> HIDE DEF Good
  <2>3. Good = Nat
    BY <1>2, <2>1, <2>2, EveryNumber
  <2> QED
    BY <1>1, <2>3
<1>5. Upto(Cardinality(S)) = SUBSET S
  BY <1>1
<1>6. PICK g : Fits(Cardinality(S), g)
  BY <1>4
<1> QED
  BY <1>5, <1>6 DEF Adds

LEMMA AddsUnfold ==
  ASSUME NEW f, NEW S, NEW g, Adds(f, S, g), NEW s \in SUBSET S
  PROVE  g[s] = IF s = {} THEN 0 ELSE f[First(s)] + g[s \ {First(s)}]
BY DEF Adds

\* Sums of integers are integers.
LEMMA SumIsInt ==
  ASSUME NEW D, NEW f \in [D -> Int], NEW S \in SUBSET D, IsFiniteSet(S),
         NEW g, Adds(f, S, g)
  PROVE  \A s \in SUBSET S : g[s] \in Int
<1> DEFINE Good == {n \in Nat :
              \A s \in SUBSET S : Cardinality(s) = n => g[s] \in Int}
<1>1. \A s \in SUBSET S : IsFiniteSet(s) /\ Cardinality(s) \in Nat
  BY FS_Subset, FS_CardinalityType
<1>2. 0 \in Good
  <2>1. ASSUME NEW s \in SUBSET S, Cardinality(s) = 0
        PROVE  g[s] \in Int
    BY <1>1, <2>1, FS_EmptySet, AddsUnfold
  <2> QED
    BY <2>1
<1>3. ASSUME NEW n \in Good
      PROVE  n + 1 \in Good
  <2>1. ASSUME NEW s \in SUBSET S, Cardinality(s) = n + 1
        PROVE  g[s] \in Int
    <3>1. s # {}
      BY <2>1, FS_EmptySet
    <3>2. First(s) \in s /\ Cardinality(s \ {First(s)}) = n
      BY <1>1, <2>1, <3>1, RestOf
    <3>3. g[s \ {First(s)}] \in Int
      BY <3>2
    <3>4. g[s] = f[First(s)] + g[s \ {First(s)}] /\ f[First(s)] \in Int
      BY <3>1, <3>2, AddsUnfold
    <3> QED
      BY <3>3, <3>4
  <2> QED
    BY <2>1
<1>4. Good \in SUBSET Nat
  OBVIOUS
<1>5. \A n \in Good : n + 1 \in Good
  BY <1>3
<1>6. Good = Nat
  <2> HIDE DEF Good
  <2> QED
    BY <1>2, <1>4, <1>5, EveryNumber
<1> QED
  BY <1>1, <1>6

\* The sum of a set does not depend on the set it is a subset of.
LEMMA SumIsOne ==
  ASSUME NEW f, NEW S, IsFiniteSet(S), NEW g, Adds(f, S, g),
         NEW T \in SUBSET S, NEW h, Adds(f, T, h)
  PROVE  \A s \in SUBSET T : g[s] = h[s]
<1> DEFINE Good == {n \in Nat :
              \A s \in SUBSET T : Cardinality(s) = n => g[s] = h[s]}
<1>1. \A s \in SUBSET T : /\ IsFiniteSet(s) /\ Cardinality(s) \in Nat
                          /\ s \in SUBSET S
  BY FS_Subset, FS_CardinalityType
<1>2. 0 \in Good
  <2>1. ASSUME NEW s \in SUBSET T, Cardinality(s) = 0
        PROVE  g[s] = h[s]
    BY <1>1, <2>1, FS_EmptySet, AddsUnfold
  <2> QED
    BY <2>1
<1>3. ASSUME NEW n \in Good
      PROVE  n + 1 \in Good
  <2>1. ASSUME NEW s \in SUBSET T, Cardinality(s) = n + 1
        PROVE  g[s] = h[s]
    <3>1. s # {}
      BY <2>1, FS_EmptySet
    <3>2. First(s) \in s /\ Cardinality(s \ {First(s)}) = n
      BY <1>1, <2>1, <3>1, RestOf
    <3>3. g[s \ {First(s)}] = h[s \ {First(s)}]
      BY <3>2
    <3>4. /\ g[s] = f[First(s)] + g[s \ {First(s)}]
          /\ h[s] = f[First(s)] + h[s \ {First(s)}]
      BY <1>1, <3>1, AddsUnfold
    <3> QED
      BY <3>3, <3>4
  <2> QED
    BY <2>1
<1>4. Good \in SUBSET Nat
  OBVIOUS
<1>5. \A n \in Good : n + 1 \in Good
  BY <1>3
<1>6. Good = Nat
  <2> HIDE DEF Good
  <2> QED
    BY <1>2, <1>4, <1>5, EveryNumber
<1> QED
  BY <1>1, <1>6

\* Whichever element is taken first, the sum is the same.
LEMMA AnyFirst ==
  ASSUME NEW D, NEW f \in [D -> Int], NEW S \in SUBSET D, IsFiniteSet(S),
         NEW g, Adds(f, S, g)
  PROVE  \A s \in SUBSET S : \A x \in s : g[s] = f[x] + g[s \ {x}]
<1> DEFINE Good == {n \in Nat : \A s \in SUBSET S : Cardinality(s) = n =>
                      \A x \in s : g[s] = f[x] + g[s \ {x}]}
<1>1. \A s \in SUBSET S : /\ IsFiniteSet(s) /\ Cardinality(s) \in Nat
                          /\ g[s] \in Int
  BY FS_Subset, FS_CardinalityType, SumIsInt
<1>2. 0 \in Good
  BY <1>1, FS_EmptySet
<1>3. ASSUME NEW n \in Good
      PROVE  n + 1 \in Good
  <2>1. ASSUME NEW s \in SUBSET S, Cardinality(s) = n + 1, NEW x \in s
        PROVE  g[s] = f[x] + g[s \ {x}]
    <3> DEFINE y == First(s)
    <3>1. /\ y \in s /\ Cardinality(s \ {y}) = n
          /\ g[s] = f[y] + g[s \ {y}]
      BY <1>1, <2>1, RestOf, AddsUnfold
    <3> HIDE DEF y
    <3>2. CASE x = y
      BY <3>1, <3>2
    <3>3. CASE x # y
      <4>1. g[s \ {y}] = f[x] + g[(s \ {y}) \ {x}]
        BY <3>1, <3>3
      <4>2. Cardinality(s \ {x}) = n
        <5>1. Cardinality(s \ {x}) = Cardinality(s) - 1
          BY <1>1, FS_RemoveElement
        <5>2. n \in Nat /\ (n + 1) - 1 = n
          OBVIOUS
        <5> QED
          BY <2>1, <5>1, <5>2
      <4>3. g[s \ {x}] = f[y] + g[(s \ {x}) \ {y}]
        BY <3>1, <3>3, <4>2
      <4>4. (s \ {x}) \ {y} = (s \ {y}) \ {x}
        OBVIOUS
      <4>5. /\ f[x] \in Int /\ f[y] \in Int /\ g[s \ {x}] \in Int
            /\ g[s \ {y}] \in Int /\ g[(s \ {y}) \ {x}] \in Int
        BY <1>1, <3>1
      <4>6. \A p, q, t \in Int : p + (q + t) = q + (p + t)
        OBVIOUS
      <4>7. g[s] = f[y] + (f[x] + g[(s \ {y}) \ {x}])
        BY <3>1, <4>1
      <4>8. g[s] = f[x] + (f[y] + g[(s \ {y}) \ {x}])
        BY <4>5, <4>6, <4>7
      <4>9. g[s \ {x}] = f[y] + g[(s \ {y}) \ {x}]
        BY <4>3, <4>4
      <4> QED
        BY <4>8, <4>9
    <3> QED
      BY <3>2, <3>3
  <2> QED
    BY <2>1
<1>4. Good \in SUBSET Nat
  OBVIOUS
<1>5. \A n \in Good : n + 1 \in Good
  BY <1>3
<1>6. Good = Nat
  <2> HIDE DEF Good
  <2> QED
    BY <1>2, <1>4, <1>5, EveryNumber
<1> QED
  BY <1>1, <1>6

\* What each request moves, as a function.
Moves == [r \in Requests |-> Signed(r)]

\* Total is such a sum.
LEMMA TotalAdds ==
  ASSUME NEW S \in SUBSET Requests, IsFiniteSet(S)
  PROVE  \E g : Adds(Moves, S, g) /\ Total(S) = g[S]
<1> DEFINE F(g) == [s \in SUBSET S |->
             IF s = {} THEN 0
             ELSE Signed(CHOOSE x \in s : TRUE) + g[s \ {CHOOSE x \in s : TRUE}]]
<1>1. ASSUME NEW g
      PROVE  Adds(Moves, S, g) <=> g = F(g)
  <2>1. ASSUME NEW s \in SUBSET S, s # {}
        PROVE  Moves[First(s)] = Signed(CHOOSE x \in s : TRUE)
    BY <2>1 DEF Moves, First
  <2>2. F(g) = [s \in SUBSET S |->
                  IF s = {} THEN 0 ELSE Moves[First(s)] + g[s \ {First(s)}]]
    BY <2>1 DEF First
  <2> QED
    BY <2>2 DEF Adds
<1>2. PICK h : Adds(Moves, S, h)
  BY AddsExists
<1> HIDE DEF F
<1>3. h = F(h)
  BY <1>1, <1>2
<1> DEFINE c == CHOOSE g : g = F(g)
<1>4. c = F(c)
  BY <1>3
<1>5. Total(S) = c[S]
  BY DEF F, Total, MapThenSumSet, MapThenFoldSet
<1> HIDE DEF c
<1> QED
  BY <1>1, <1>4, <1>5

LEMMA TotalAll ==
  \A S \in SUBSET Requests : IsFiniteSet(S) =>
    \E g : Adds(Moves, S, g) /\ Total(S) = g[S]
BY TotalAdds

\* So it is in the next state.
LEMMA TotalNext ==
  (\A S \in SUBSET Requests : IsFiniteSet(S) =>
    \E g : Adds(Moves, S, g) /\ Total(S) = g[S])'
BY TotalAll, PTL

\* Nothing moved, nothing added.
LEMMA TotalOfNone == Total({}) = 0
<1>1. IsFiniteSet({})
  BY FS_EmptySet
<1>2. PICK g : Adds(Moves, {}, g) /\ Total({}) = g[{}]
  BY <1>1, TotalAdds
<1> QED
  BY <1>2, AddsUnfold

\* One request more adds what it moves.
LEMMA TotalGrows ==
  ASSUME TypeOK, NEW S \in SUBSET Requests, IsFiniteSet(S),
         NEW r \in Requests, r \notin S
  PROVE  /\ IsFiniteSet(S \cup {r})
         /\ Total(S) \in Int
         /\ Total(S \cup {r}) = Total(S) + Signed(r)
<1>1. Moves \in [Requests -> Int] /\ Moves[r] = Signed(r) /\ Signed(r) \in Int
  BY SupplyTyped DEF Moves
<1> DEFINE T == S \cup {r}
<1>2. IsFiniteSet(T) /\ T \in SUBSET Requests
  BY FS_AddElement
<1>3. PICK g : Adds(Moves, T, g) /\ Total(T) = g[T]
  BY <1>2, TotalAdds
<1>4. PICK h : Adds(Moves, S, h) /\ Total(S) = h[S]
  BY TotalAdds
<1>5. S \in SUBSET T /\ S \in SUBSET S /\ T \in SUBSET T /\ r \in T
      /\ T \ {r} = S
  OBVIOUS
<1> HIDE DEF T
<1>6. g[S] = h[S]
  BY <1>2, <1>3, <1>4, <1>5, SumIsOne
<1>7. g[T] = Moves[r] + g[S]
  BY <1>1, <1>2, <1>3, <1>5, AnyFirst
<1>8. g[S] \in Int
  BY <1>1, <1>2, <1>3, <1>5, SumIsInt
<1> QED
  BY <1>1, <1>2, <1>3, <1>4, <1>6, <1>7, <1>8 DEF T

\* The sum stays while the requests it counts stay what they are.
LEMMA TotalKept ==
  ASSUME NEW S \in SUBSET Requests, IsFiniteSet(S), \A r \in S : op'[r] = op[r]
  PROVE  Total(S)' = Total(S)
<1>1. PICK g : Adds(Moves, S, g) /\ Total(S) = g[S]
  BY TotalAdds
<1>2. PICK h : Adds(Moves, S, h)' /\ Total(S)' = h[S]
  BY TotalNext
<1> DEFINE M == Moves'
<1>3. Adds(M, S, h)
  BY <1>2 DEF Adds
<1>4. Adds(M, S, g)
  <2>1. ASSUME NEW s \in SUBSET S, s # {}
        PROVE  Moves[First(s)] = M[First(s)]
    <3>1. First(s) \in s
      BY <2>1 DEF First
    <3>2. First(s) \in Requests /\ op'[First(s)] = op[First(s)]
      BY <3>1
    <3> QED
      BY <3>2 DEF Moves, Signed
  <2>2. [s \in SUBSET S |-> IF s = {} THEN 0
                            ELSE Moves[First(s)] + g[s \ {First(s)}]]
        = [s \in SUBSET S |-> IF s = {} THEN 0
                              ELSE M[First(s)] + g[s \ {First(s)}]]
    BY <2>1
  <2> QED
    BY <1>1, <2>2 DEF Adds
<1> HIDE DEF M
<1>5. S \in SUBSET S
  OBVIOUS
<1>6. g[S] = h[S]
  BY <1>3, <1>4, <1>5, SumIsOne
<1> QED
  BY <1>1, <1>2, <1>6
-----------------------------------------------------------------------------
(* Each document holds the initial numbers plus all that was saved to it.  *)

BeforeSupply == {"idle", "saveToken", "saveNewReserve", "verifyDeposit",
                 "checkReserve", "compliance", "insert", "processing",
                 "loadToken", "saveSupply"}

\* Nobody has saved a document before the call that does.
Placed ==
  /\ IsFiniteSet(issued) /\ IsFiniteSet(reserve.trail)
  /\ ~ token.exists => issued = {}
  /\ \A r \in Requests :
       /\ pc[r] = "saveSupply" => token.exists
       /\ pc[r] \in BeforeSupply => r \notin issued
       /\ pc[r] \in BeforeSupply \cup {"loadReserve", "saveReserve"}
            => r \notin reserve.trail

\* A copy of a document that nobody saved since is what the document says.
CopiesAgree ==
  \A r \in Requests :
    /\ "token" \in fresh[r] => copy[r].supply = token.supply
    /\ pc[r] = "saveReserve" /\ "reserve" \in fresh[r]
         => /\ copy[r].total = reserve.total
            /\ copy[r].available = reserve.available
            /\ copy[r].locked = reserve.locked

Books == Placed /\ CopiesAgree /\ UncontendedBooksAreExact

LEMMA InitBooks == Init => Books
<1> SUFFICES ASSUME Init PROVE Books
  OBVIOUS
<1> USE DEF Init
<1>1. reserve.trail = {} /\ issued = {} /\ IsFiniteSet({})
  BY FS_EmptySet
<1>2. Placed
  BY <1>1 DEF Placed
<1>3. CopiesAgree
  BY DEF CopiesAgree
<1>4. Total({}) = 0
  BY TotalOfNone
<1>5. Issues({}) = {} /\ Locks({}) = {}
  BY DEF Issues, Locks
<1>6. Initially = InitialSupply /\ InitialSupply \in Int
  BY TokenizationAssumption DEF Initially, Operation
<1>7. token.exists => token.supply = InitialSupply
  <2>1. 0 \in Int /\ InitialSupply \in Int
    BY <1>6
  <2> QED
    BY <2>1, NewTokenIs
<1>8. token.exists => reserve.total = InitialSupply
                      /\ reserve.available = InitialSupply
  BY <1>7
<1>9. reserve.exists = token.exists /\ reserve.locked = 0
  OBVIOUS
<1> HIDE DEF Init
<1>10. /\ Total(issued) = 0 /\ Total(Issues(reserve.trail)) = 0
      /\ Total(Locks(reserve.trail)) = 0
  BY <1>1, <1>4, <1>5
<1>11. /\ InitialSupply = Initially + Total(issued)
       /\ InitialSupply = Initially + Total(Issues(reserve.trail))
       /\ 0 = Total(Locks(reserve.trail))
       /\ InitialSupply = InitialSupply - 0
  BY <1>6, <1>10
<1>12. UncontendedBooksAreExact
  BY <1>7, <1>8, <1>9, <1>11 DEF UncontendedBooksAreExact
<1> QED
  BY <1>2, <1>3, <1>12 DEF Books

\* What requests ask for stays, but for one that arrives, has saved nothing and
\* does not create a token that is there.
OnlyArrivals ==
  \A q \in Requests :
    \/ op'[q] = op[q]
    \/ /\ q \notin issued /\ q \notin reserve.trail
       /\ op[q].kind = "none"
       /\ token.exists => op'[q].kind # "create"

\* The sums that the books are compared with.
LEMMA SumsStay ==
  ASSUME TypeOK, Placed, OnlyArrivals
  PROVE  /\ token.exists => Initially' = Initially
         /\ issued' = issued => Total(issued)' = Total(issued)
         /\ reserve'.trail = reserve.trail
              => /\ Total(Issues(reserve.trail))' = Total(Issues(reserve.trail))
                 /\ Total(Locks(reserve.trail))' = Total(Locks(reserve.trail))
<1>1. token.exists => Initially' = Initially
  BY DEF Initially, OnlyArrivals
<1>2. ASSUME issued' = issued
      PROVE  Total(issued)' = Total(issued)
  <2>1. issued \in SUBSET Requests /\ IsFiniteSet(issued)
        /\ \A r \in issued : op'[r] = op[r]
    BY DEF TypeOK, Placed, OnlyArrivals
  <2> QED
    BY <1>2, <2>1, TotalKept
<1>3. ASSUME reserve'.trail = reserve.trail
      PROVE  /\ Total(Issues(reserve.trail))' = Total(Issues(reserve.trail))
             /\ Total(Locks(reserve.trail))' = Total(Locks(reserve.trail))
  <2>1. reserve.trail \in SUBSET Requests /\ IsFiniteSet(reserve.trail)
        /\ \A r \in reserve.trail : op'[r] = op[r]
    BY DEF TypeOK, Placed, OnlyArrivals
  <2>2. Issues(reserve.trail)' = Issues(reserve.trail)
        /\ Locks(reserve.trail)' = Locks(reserve.trail)
    BY <1>3, <2>1 DEF Issues, Locks
  <2>3. Issues(reserve.trail) \subseteq reserve.trail
        /\ Locks(reserve.trail) \subseteq reserve.trail
    BY DEF Issues, Locks
  <2>4. IsFiniteSet(Issues(reserve.trail)) /\ IsFiniteSet(Locks(reserve.trail))
    BY <2>1, <2>3, FS_Subset
  <2>5. /\ \A r \in Issues(reserve.trail) : op'[r] = op[r]
        /\ \A r \in Locks(reserve.trail) : op'[r] = op[r]
        /\ Issues(reserve.trail) \in SUBSET Requests
        /\ Locks(reserve.trail) \in SUBSET Requests
    BY <2>1, <2>3
  <2> QED
    BY <2>2, <2>4, <2>5, TotalKept
<1> QED
  BY <1>1, <1>2, <1>3

\* Neither document nor what counts as saved to it changes.
BooksStay ==
  /\ token'.exists = token.exists /\ token'.supply = token.supply
  /\ UNCHANGED <<reserve, issued, contended>>

LEMMA ExactStays ==
  ASSUME IInv, Placed, UncontendedBooksAreExact, OnlyArrivals, BooksStay
  PROVE  UncontendedBooksAreExact'
<1>1. TypeOK /\ (reserve.exists => token.exists)
  BY DEF IInv, CreatedOnce
<1>2. /\ token.exists => Initially' = Initially
      /\ issued' = issued => Total(issued)' = Total(issued)
      /\ reserve'.trail = reserve.trail
           => /\ Total(Issues(reserve.trail))' = Total(Issues(reserve.trail))
              /\ Total(Locks(reserve.trail))' = Total(Locks(reserve.trail))
  BY <1>1, SumsStay
<1> QED
  BY <1>1, <1>2 DEF UncontendedBooksAreExact, BooksStay

\* No request gets to a save.
GoesOn ==
  \A q \in Requests :
    \/ pc'[q] = pc[q]
    \/ /\ pc'[q] \notin {"saveSupply", "saveReserve"}
       /\ pc'[q] \in BeforeSupply \cup {"loadReserve"}
            => pc[q] \in BeforeSupply

\* A request that neither loads nor saves a document.
LEMMA QuietBooks ==
  ASSUME IInv, Books, OnlyArrivals, BooksStay, UNCHANGED <<copy, fresh>>,
         GoesOn
  PROVE  Books'
<1>1. Placed'
  BY DEF Books, Placed, BooksStay, GoesOn
<1>2. CopiesAgree'
  BY DEF Books, CopiesAgree, BooksStay, GoesOn
<1>3. UncontendedBooksAreExact'
  BY ExactStays DEF Books
<1> QED
  BY <1>1, <1>2, <1>3 DEF Books

LEMMA ArriveBooks ==
  ASSUME IInv, Books, NEW r \in Requests, Arrive(r)
  PROVE  Books'
<1>1. PICK o \in OperationType, first \in Waiting :
           /\ Receive(r, o, first)
           /\ o.kind \in Kinds
           /\ \/ /\ o.kind = "create" /\ first = "saveToken"
                 /\ ~ token.exists
                 /\ \A q \in Requests : op[q].kind # "create"
              \/ o.kind = "mint" /\ first = "verifyDeposit"
              \/ o.kind \in {"burn", "deposit"} /\ first = "compliance"
              \/ o.kind = "withdraw" /\ first = "checkReserve"
              \/ o.kind = "audit" /\ first = "loadToken"
  BY ArrivingFits
<1>2. /\ pc[r] = "idle" /\ op[r].kind = "none"
      /\ r \notin issued /\ r \notin reserve.trail
  BY <1>1 DEF Receive, IInv, KindsFit, SavesInOrder
<1>3. OnlyArrivals
  <2>1. op' = [op EXCEPT ![r] = o]
    BY <1>1 DEF Receive
  <2>2. /\ \A q \in Requests \ {r} : op'[q] = op[q]
        /\ op'[r] = o
    BY <2>1 DEF IInv, TypeOK
  <2>3. token.exists => o.kind # "create"
    BY <1>1
  <2> QED
    BY <1>2, <2>2, <2>3 DEF OnlyArrivals
<1>4. BooksStay /\ UNCHANGED <<copy, fresh>>
  BY <1>1 DEF Receive, BooksStay, history
<1>5. GoesOn
  BY <1>1 DEF GoesOn, Receive, Goto, BeforeSupply, IInv, TypeOK
<1> QED
  BY <1>3, <1>4, <1>5, QuietBooks

LEMMA QuietStepBooks ==
  ASSUME IInv, Books, NEW r \in Requests,
         \/ VerifyDeposit(r) \/ VerifyReserveAvailability(r)
         \/ PerformCompliance(r) \/ InsertDeposit(r) \/ InsertRequest(r)
         \/ StartProcessing(r) \/ CompleteRequest(r)
         \/ CreateTokenTransaction(r) \/ FailRequest(r) \/ CallFails(r)
         \/ SaveAudit(r)
  PROVE  Books'
<1> USE DEF Goto, history
<1>1. BooksStay /\ op' = op /\ UNCHANGED <<copy, fresh>>
  <2>1. CASE SaveAudit(r)
    <3>1. token'.supply = token.supply /\ token'.exists = token.exists
      BY <2>1, AuditedIs DEF SaveAudit, IInv
    <3> QED
      BY <2>1, <3>1 DEF SaveAudit, BooksStay
  <2>2. CASE ~ SaveAudit(r)
    BY <2>2
       DEF BooksStay, VerifyDeposit, VerifyReserveAvailability,
           PerformCompliance, InsertDeposit, InsertRequest, StartProcessing,
           CompleteRequest, CreateTokenTransaction, FailRequest, CallFails
  <2> QED
    BY <2>1, <2>2
<1>2. OnlyArrivals
  BY <1>1 DEF OnlyArrivals
<1>3. GoesOn
  <2> USE DEF GoesOn, BeforeSupply, IInv, TypeOK
  <2>1. CASE CallFails(r)
    <3>1. \E p \in {"fail", "error"} : pc' = [pc EXCEPT ![r] = p]
      BY <2>1, CatchGoesOn DEF CallFails
    <3> QED
      BY <3>1
  <2>2. CASE SaveAudit(r)
    <3>1. pc[r] = "saveAudit"
          /\ \E p \in {"done", "fail", "error"} : pc' = [pc EXCEPT ![r] = p]
      BY <2>2, CatchGoesOn DEF SaveAudit
    <3> QED
      BY <3>1
  <2>3. CASE ~ CallFails(r) /\ ~ SaveAudit(r)
    BY <2>3
       DEF VerifyDeposit, VerifyReserveAvailability, PerformCompliance,
           InsertDeposit, InsertRequest, StartProcessing, CompleteRequest,
           CreateTokenTransaction, FailRequest
  <2> QED
    BY <2>1, <2>2, <2>3
<1> QED
  BY <1>1, <1>2, <1>3, QuietBooks

\* The two inserts of a creation meet empty books.
LEMMA SaveTokenBooks ==
  ASSUME IInv, Books, NEW r \in Requests, SaveToken(r)
  PROVE  Books'
<1> USE DEF SaveToken, Goto, history
<1>1. /\ op[r].kind = "create" /\ ~ token.exists /\ ~ reserve.exists
      /\ pc[r] = "saveToken" /\ issued = {}
  BY DEF IInv, KindsFit, CreatedOnce, Books, Placed
<1>2. token'.exists /\ token'.supply = 0 /\ op' = op
  <2>1. 0 \in Int
    OBVIOUS
  <2> QED
    BY <2>1, NewTokenIs
<1>3. Placed'
  BY <1>1, <1>2 DEF Books, Placed, BeforeSupply, IInv, TypeOK
<1>4. CopiesAgree'
  <2>1. \A q \in Requests : "token" \notin fresh[q]
    BY <1>1 DEF IInv, AuditCopies
  <2> QED
    BY <2>1 DEF Books, CopiesAgree, IInv, TypeOK
<1>5. UncontendedBooksAreExact'
  <2>1. Initially' = 0
    BY <1>1, <1>2 DEF Initially
  <2>2. (Total({}) = 0)'
    BY TotalOfNone, PTL
  <2>3. Total(issued)' = 0
    BY <1>1, <2>2
  <2>4. ~ reserve'.exists
    BY <1>1
  <2> HIDE DEF SaveToken
  <2>5. token'.supply = Initially' + Total(issued)'
    <3>1. token'.supply = 0
      BY <1>2
    <3> QED
      BY <2>1, <2>3, <3>1
  <2> QED
    BY <2>4, <2>5 DEF UncontendedBooksAreExact
<1> QED
  BY <1>3, <1>4, <1>5 DEF Books

LEMMA InitializeReserveBooks ==
  ASSUME IInv, Books, NEW r \in Requests, InitializeReserveBalance(r)
  PROVE  Books'
<1> USE DEF InitializeReserveBalance, Goto, history
<1>1. /\ op[r].kind = "create" /\ token.exists /\ ~ reserve.exists
      /\ reserve.trail = {}
  BY DEF IInv, KindsFit, CreatedOnce
<1>2. UNCHANGED <<token, op, issued, contended, fresh, copy>>
  OBVIOUS
<1>3. /\ reserve'.trail = {} /\ reserve'.total = 0 /\ reserve'.available = 0
      /\ reserve'.locked = 0
  OBVIOUS
<1>4. Placed'
  BY <1>1, <1>2, <1>3 DEF Books, Placed, BeforeSupply, IInv, TypeOK
<1>5. CopiesAgree'
  <2>1. \A q \in Requests : "reserve" \notin fresh[q]
    BY <1>1 DEF IInv, AuditCopies
  <2> QED
    BY <1>2, <2>1 DEF Books, CopiesAgree, IInv, TypeOK
<1>6. UncontendedBooksAreExact'
  <2>1. Initially = 0 /\ Initially' = 0
    BY <1>1, <1>2 DEF Initially
  <2>2. (Total({}) = 0)'
    BY TotalOfNone, PTL
  <2>3. Issues(reserve.trail)' = {} /\ Locks(reserve.trail)' = {}
    BY <1>3 DEF Issues, Locks
  <2>4. Total(Issues(reserve.trail))' = 0 /\ Total(Locks(reserve.trail))' = 0
    BY <2>2, <2>3
  <2>5. OnlyArrivals
    BY <1>2 DEF OnlyArrivals
  <2>6. Total(issued)' = Total(issued)
    BY <1>2, <2>5, SumsStay DEF IInv, Books
  <2>7. token.exists /\ "token" \notin contended
          => token.supply = Initially + Total(issued)
    BY DEF Books, UncontendedBooksAreExact
  <2> QED
    BY <1>2, <1>3, <2>1, <2>4, <2>6, <2>7 DEF UncontendedBooksAreExact
<1> QED
  BY <1>4, <1>5, <1>6 DEF Books

LEMMA LoadBooks ==
  ASSUME IInv, Books, NEW r \in Requests, LoadToken(r) \/ LoadReserve(r)
  PROVE  Books'
<1> USE DEF Goto, history
<1>1. BooksStay /\ op' = op /\ token' = token
  BY DEF BooksStay, LoadToken, LoadReserve
<1>2. UncontendedBooksAreExact'
  BY <1>1, ExactStays DEF Books, OnlyArrivals
<1>3. /\ copy[r] \in Copy /\ token \in Token
      /\ reserve.total \in Int /\ reserve.available \in Int
      /\ reserve.locked \in Int
  BY DEF IInv, TypeOK
<1>4. \A q \in Requests \ {r} : UNCHANGED <<pc[q], copy[q], fresh[q]>>
  BY CatchGoesOn DEF LoadToken, LoadReserve, Load, IInv, TypeOK
<1>5. CASE LoadToken(r) /\ token.exists
  <2>1. PICK n : n = [copy[r] EXCEPT !.supply = token.supply,
                                       !.audit = token.audit,
                                       !.findings = token.findings,
                                       !.version = token.version]
    OBVIOUS
  <2>2. n.supply = token.supply
    BY <1>3, <2>1, TokenLoaded
  <2>3. /\ copy'[r] = n /\ pc[r] = "loadToken"
        /\ pc'[r] \in {"loadReserve", "saveSupply"}
    BY <1>5, <2>1 DEF LoadToken, Load, IInv, TypeOK
  <2>4. Placed'
    BY <1>1, <1>4, <1>5, <2>3 DEF Books, Placed, BooksStay, BeforeSupply
  <2>5. CopiesAgree'
    BY <1>1, <1>4, <2>2, <2>3 DEF Books, CopiesAgree, BooksStay
  <2> QED
    BY <1>2, <2>4, <2>5 DEF Books
<1>6. CASE LoadReserve(r) /\ reserve.exists
  <2>1. PICK n : n = [copy[r] EXCEPT !.total = reserve.total,
                                     !.available = reserve.available,
                                     !.locked = reserve.locked]
    OBVIOUS
  <2>2. /\ n.supply = copy[r].supply /\ n.total = reserve.total
        /\ n.available = reserve.available /\ n.locked = reserve.locked
    BY <1>3, <2>1, ReserveLoaded
  <2>3. /\ copy'[r] = n /\ pc[r] = "loadReserve"
        /\ pc'[r] \in {"saveAudit", "saveReserve"}
        /\ "token" \in fresh'[r] => "token" \in fresh[r]
    BY <1>6, <2>1 DEF LoadReserve, Load, IInv, TypeOK
  <2>4. Placed'
    BY <1>1, <1>4, <2>3 DEF Books, Placed, BooksStay, BeforeSupply
  <2>5. CopiesAgree'
    BY <1>1, <1>4, <2>2, <2>3 DEF Books, CopiesAgree, BooksStay
  <2> QED
    BY <1>2, <2>4, <2>5 DEF Books
<1>7. CASE \/ LoadToken(r) /\ ~ token.exists
           \/ LoadReserve(r) /\ ~ reserve.exists
  <2>1. UNCHANGED <<copy, fresh>>
    BY <1>7 DEF LoadToken, LoadReserve
  <2>2. \E p \in {"fail", "error"} : pc' = [pc EXCEPT ![r] = p]
    BY <1>7, CatchGoesOn DEF LoadToken, LoadReserve, IInv
  <2>3. GoesOn
    BY <2>2 DEF GoesOn, BeforeSupply, IInv, TypeOK
  <2> QED
    BY <1>1, <2>1, <2>3, QuietBooks DEF OnlyArrivals
<1> QED
  BY <1>5, <1>6, <1>7

\* A save of the supply adds what the request moves, unless its copy was stale.
LEMMA UpdateSupplyBooks ==
  ASSUME IInv, Books, NEW r \in Requests, UpdateSupply(r)
  PROVE  Books'
<1> DEFINE new == copy[r].supply + Signed(r)
<1> USE DEF Goto, history
<1>0. pc[r] = "saveSupply" /\ op' = op /\ reserve' = reserve
  BY DEF UpdateSupply
<1>1. CASE new > MaxSupply
  <2>1. \E p \in {"fail", "error"} : pc' = [pc EXCEPT ![r] = p]
    BY <1>1, CatchGoesOn DEF UpdateSupply, IInv
  <2>2. GoesOn
    BY <2>1 DEF GoesOn, BeforeSupply, IInv, TypeOK
  <2>3. BooksStay /\ UNCHANGED <<copy, fresh>>
    BY <1>1 DEF UpdateSupply, BooksStay
  <2> QED
    BY <1>0, <2>2, <2>3, QuietBooks DEF OnlyArrivals
<1>2. CASE ~ (new > MaxSupply)
  <2>1. /\ token' = [token EXCEPT !.supply = new]
        /\ copy' = [copy EXCEPT ![r].supply = new]
        /\ issued' = issued \cup {r}
        /\ Saved(r, "token")
        /\ pc' = [pc EXCEPT ![r] = "loadReserve"]
    BY <1>2 DEF UpdateSupply, SaveSupply
  <2>2. token'.supply = new /\ token'.exists = token.exists
    BY <2>1 DEF IInv, TypeOK
  <2>3. /\ \A q \in Requests \ {r} : /\ pc'[q] = pc[q] /\ copy'[q] = copy[q]
                                     /\ fresh'[q] = fresh[q] \ {"token"}
        /\ copy'[r].supply = new /\ fresh'[r] = fresh[r]
        /\ pc'[r] = "loadReserve"
    <3>1. PICK n : n = [copy[r] EXCEPT !.supply = new]
      OBVIOUS
    <3>2. copy[r] \in Copy
      BY DEF IInv, TypeOK
    <3>3. n.supply = new
      BY <3>1, <3>2 DEF Copy
    <3>4. copy' = [copy EXCEPT ![r] = n]
      BY <2>1, <3>1
    <3> HIDE DEF new
    <3> QED
      BY <2>1, <3>3, <3>4 DEF Saved, IInv, TypeOK
  <2> HIDE DEF new
  <2>4. token.exists /\ r \notin issued /\ r \notin reserve.trail
    BY <1>0 DEF Books, Placed, BeforeSupply
  <2>5. /\ issued \in SUBSET Requests /\ IsFiniteSet(issued)
        /\ \A q \in issued \cup {r} : op'[q] = op[q]
        /\ issued \cup {r} \in SUBSET Requests
    BY <1>0 DEF Books, Placed, IInv, TypeOK
  <2>6. /\ IsFiniteSet(issued \cup {r}) /\ Total(issued) \in Int
        /\ Total(issued \cup {r}) = Total(issued) + Signed(r)
    BY <2>4, <2>5, TotalGrows DEF IInv
  <2>7. Placed'
    BY <1>0, <2>1, <2>2, <2>3, <2>4, <2>6 DEF Books, Placed, BeforeSupply
  <2>8. CopiesAgree'
    BY <1>0, <2>2, <2>3 DEF Books, CopiesAgree
  <2>9. Total(issued)' = Total(issued) + Signed(r)
    BY <2>1, <2>5, <2>6, TotalKept
  <2>10. OnlyArrivals
    BY <1>0 DEF OnlyArrivals
  <2>11. /\ Initially' = Initially
         /\ Total(Issues(reserve.trail))' = Total(Issues(reserve.trail))
         /\ Total(Locks(reserve.trail))' = Total(Locks(reserve.trail))
    BY <1>0, <2>4, <2>10, SumsStay DEF IInv, Books
  <2>12. ASSUME "token" \notin contended'
         PROVE  token'.supply = Initially' + Total(issued)'
    <3>1. "token" \notin contended /\ "token" \in fresh[r]
      BY <2>1, <2>12 DEF Saved
    <3>2. copy[r].supply = token.supply
      BY <3>1 DEF Books, CopiesAgree
    <3>3. token.supply = Initially + Total(issued)
      BY <2>4, <3>1 DEF Books, UncontendedBooksAreExact
    <3>4. new = (Initially + Total(issued)) + Signed(r)
      BY <3>2, <3>3 DEF new
    <3>5. Initially \in Int /\ Signed(r) \in Int
      BY SupplyTyped, TokenizationAssumption DEF Initially, IInv
    <3>6. \A p, q, t \in Int : (p + q) + t = p + (q + t)
      OBVIOUS
    <3>7. new = Initially + (Total(issued) + Signed(r))
      BY <2>6, <3>4, <3>5, <3>6
    <3> QED
      BY <2>2, <2>9, <2>11, <3>7
  <2>13. "reserve" \in contended => "reserve" \in contended'
    BY <2>1 DEF Saved
  <2>14. UncontendedBooksAreExact'
    BY <1>0, <2>11, <2>12, <2>13 DEF Books, UncontendedBooksAreExact
  <2> QED
    BY <2>7, <2>8, <2>14 DEF Books
<1> QED
  BY <1>1, <1>2

\* A save of the reserve locks or adds what the request moves, unless its copy
\* was stale, and the trail counts it under one of the two sums.
LEMMA UpdateReservesBooks ==
  ASSUME IInv, Books, NEW r \in Requests, UpdateReserves(r)
  PROVE  Books'
<1> USE DEF Goto, history
<1>0. /\ pc[r] = "saveReserve" /\ UNCHANGED <<op, token, copy, issued>>
      /\ op[r].kind \in {"mint", "burn", "withdraw"} /\ reserve.exists
      /\ token.exists /\ r \notin reserve.trail
  BY DEF UpdateReserves, IInv, KindsFit, CreatedOnce, Books, Placed
<1>1. /\ \A q \in Requests \ {r} : /\ pc'[q] = pc[q]
                                   /\ fresh'[q] = fresh[q] \ {"reserve"}
      /\ fresh'[r] = fresh[r] /\ pc'[r] \in {"done", "complete"}
      /\ contended' = contended \cup ({"reserve"} \ fresh[r])
  BY DEF UpdateReserves, Saved, IInv, TypeOK
<1> DEFINE trail == reserve.trail
           n == op[r].amount
<1>2. /\ copy[r] \in Copy /\ n \in Int /\ Signed(r) \in Int
      /\ reserve \in [exists : BOOLEAN, total : Int, available : Int,
                      locked : Int, trail : SUBSET Requests]
  BY SupplyTyped DEF IInv, TypeOK, OperationType
<1>3. /\ op[r].kind = "withdraw" =>
           /\ reserve'.total = reserve.total
           /\ reserve'.available = copy[r].available - n
           /\ reserve'.locked = copy[r].locked + n
      /\ op[r].kind # "withdraw" =>
           /\ reserve'.total = copy[r].total + Signed(r)
           /\ reserve'.available = copy[r].available + Signed(r)
           /\ reserve'.locked = reserve.locked
      /\ reserve'.exists
      /\ reserve'.trail = trail \cup {r}
  BY <1>0, <1>2 DEF UpdateReserves, Lock, AddOrRemove
<1>4. /\ trail \in SUBSET Requests /\ IsFiniteSet(trail)
      /\ IsFiniteSet(trail \cup {r})
  BY <1>2, FS_AddElement DEF Books, Placed
<1>5. Placed'
  BY <1>0, <1>1, <1>3, <1>4 DEF Books, Placed, BeforeSupply
<1>6. CopiesAgree'
  BY <1>0, <1>1 DEF Books, CopiesAgree
<1>7. /\ Initially' = Initially
      /\ Total(issued)' = Total(issued)
  BY <1>0, SumsStay DEF OnlyArrivals, IInv, Books
<1>8. ASSUME NEW S \in SUBSET Requests, IsFiniteSet(S)
      PROVE  Total(S)' = Total(S)
  BY <1>0, <1>8, TotalKept
<1>9. /\ Issues(trail) \in SUBSET Requests /\ IsFiniteSet(Issues(trail))
      /\ Locks(trail) \in SUBSET Requests /\ IsFiniteSet(Locks(trail))
      /\ r \notin Issues(trail) /\ r \notin Locks(trail)
  <2>1. Issues(trail) \subseteq trail /\ Locks(trail) \subseteq trail
    BY DEF Issues, Locks
  <2> QED
    BY <1>0, <1>4, <2>1, FS_Subset
<1>10. /\ IsFiniteSet(Issues(trail) \cup {r})
       /\ IsFiniteSet(Locks(trail) \cup {r})
       /\ Total(Issues(trail)) \in Int /\ Total(Locks(trail)) \in Int
       /\ Total(Issues(trail) \cup {r}) = Total(Issues(trail)) + Signed(r)
       /\ Total(Locks(trail) \cup {r}) = Total(Locks(trail)) + Signed(r)
  BY <1>9, TotalGrows DEF IInv
<1>11. /\ Issues(reserve.trail)' = IF op[r].kind = "withdraw"
                                   THEN Issues(trail)
                                   ELSE Issues(trail) \cup {r}
       /\ Locks(reserve.trail)' = IF op[r].kind = "withdraw"
                                  THEN Locks(trail) \cup {r}
                                  ELSE Locks(trail)
  BY <1>0, <1>3 DEF Issues, Locks
<1> DEFINE moved == Total(Issues(trail))
           locked == Total(Locks(trail))
<1>12. /\ Total(Issues(reserve.trail))' =
            IF op[r].kind = "withdraw" THEN moved ELSE moved + Signed(r)
       /\ Total(Locks(reserve.trail))' =
            IF op[r].kind = "withdraw" THEN locked + Signed(r) ELSE locked
  <2>1. CASE op[r].kind = "withdraw"
    <3>1. /\ Issues(reserve.trail)' = Issues(trail)
          /\ Locks(reserve.trail)' = Locks(trail) \cup {r}
      BY <1>11, <2>1
    <3>2. Locks(trail) \cup {r} \in SUBSET Requests
      BY <1>9
    <3> QED
      BY <1>8, <1>9, <1>10, <2>1, <3>1, <3>2
  <2>2. CASE op[r].kind # "withdraw"
    <3>1. /\ Issues(reserve.trail)' = Issues(trail) \cup {r}
          /\ Locks(reserve.trail)' = Locks(trail)
      BY <1>11, <2>2
    <3>2. Issues(trail) \cup {r} \in SUBSET Requests
      BY <1>9
    <3> QED
      BY <1>8, <1>9, <1>10, <2>2, <3>1, <3>2
  <2> QED
    BY <2>1, <2>2
<1>13. moved \in Int /\ locked \in Int /\ Initially \in Int
  BY <1>10, TokenizationAssumption DEF Initially
<1> HIDE DEF moved, locked, n
<1>14. ASSUME "reserve" \notin contended'
       PROVE  /\ reserve'.total = Initially' + Total(Issues(reserve.trail))'
              /\ reserve'.locked = Total(Locks(reserve.trail))'
              /\ reserve'.available = reserve'.total - reserve'.locked
  <2>1. "reserve" \notin contended /\ "reserve" \in fresh[r]
    BY <1>1, <1>14
  <2>2. /\ copy[r].total = reserve.total
        /\ copy[r].available = reserve.available
        /\ copy[r].locked = reserve.locked
    BY <1>0, <2>1 DEF Books, CopiesAgree
  <2>3. /\ reserve.total = Initially + moved
        /\ reserve.locked = locked
        /\ reserve.available = reserve.total - reserve.locked
    BY <1>0, <2>1 DEF Books, UncontendedBooksAreExact, moved, locked
  <2>4. CASE op[r].kind = "withdraw"
    <3>1. Signed(r) = n
      BY <2>4 DEF Signed, n
    <3>2. /\ reserve'.total = Initially + moved
          /\ reserve'.locked = locked + n
          /\ reserve'.available = ((Initially + moved) - locked) - n
      BY <1>3, <2>2, <2>3, <2>4
    <3>3. \A p, q, t \in Int : (p - q) - t = p - (q + t)
      OBVIOUS
    <3>4. ((Initially + moved) - locked) - n
            = (Initially + moved) - (locked + n)
      BY <1>2, <1>13, <3>3 DEF n
    <3> QED
      BY <1>7, <1>12, <2>4, <3>1, <3>2, <3>4
  <2>5. CASE op[r].kind # "withdraw"
    <3>1. /\ reserve'.total = (Initially + moved) + Signed(r)
          /\ reserve'.locked = locked
          /\ reserve'.available = ((Initially + moved) - locked) + Signed(r)
      BY <1>3, <2>2, <2>3, <2>5
    <3>2. \A p, q, t \in Int : /\ (p + q) + t = p + (q + t)
                               /\ (p - q) + t = (p + t) - q
      OBVIOUS
    <3>3. /\ (Initially + moved) + Signed(r) = Initially + (moved + Signed(r))
          /\ Initially + moved \in Int
      BY <1>2, <1>13, <3>2
    <3>4. ((Initially + moved) - locked) + Signed(r)
            = ((Initially + moved) + Signed(r)) - locked
      BY <1>2, <1>13, <3>2, <3>3
    <3> QED
      BY <1>7, <1>12, <2>5, <3>1, <3>3, <3>4
  <2> QED
    BY <2>4, <2>5
<1>15. UncontendedBooksAreExact'
  BY <1>0, <1>1, <1>7, <1>14 DEF Books, UncontendedBooksAreExact
<1> QED
  BY <1>5, <1>6, <1>15 DEF Books

LEMMA StepBooks == IInv /\ Books /\ [Next]_vars => Books'
<1> SUFFICES ASSUME IInv, Books, [Next]_vars
             PROVE  Books'
  OBVIOUS
<1>1. ASSUME NEW r \in Requests, Arrive(r) PROVE Books'
  BY <1>1, ArriveBooks
<1>2. ASSUME NEW r \in Requests, Serve(r) PROVE Books'
  BY <1>2, SaveTokenBooks, InitializeReserveBooks, LoadBooks,
     UpdateSupplyBooks, UpdateReservesBooks, QuietStepBooks DEF Serve
<1>3. ASSUME NEW r \in Requests, CallFails(r) PROVE Books'
  BY <1>3, QuietStepBooks
<1>4. CASE (\E d \in Deposits : DepositIsVerified(d)) \/ Crash
           \/ AllServed \/ UNCHANGED vars
  <2>1. BooksStay /\ op' = op /\ UNCHANGED <<copy, fresh>>
    BY <1>4 DEF DepositIsVerified, Crash, AllServed, vars, clients, history,
                BooksStay
  <2>2. GoesOn
    BY <1>4 DEF DepositIsVerified, Crash, AllServed, vars, clients, GoesOn,
                BeforeSupply, IInv, TypeOK
  <2>3. OnlyArrivals
    BY <2>1 DEF OnlyArrivals
  <2> QED
    BY <2>1, <2>2, <2>3, QuietBooks
<1> QED
  BY <1>1, <1>2, <1>3, <1>4 DEF Next

\* The stored supply is the initial one plus all minting minus all burning that
\* updateSupply has saved, and the stored reserve all that updateReserves has,
\* unless a request saved the document over a save it had not seen: the lost
\* update is the only way for the books to go wrong.
THEOREM BooksOfTokenAreExact == Spec => []UncontendedBooksAreExact
<1>1. Init => IInv /\ Books
  BY InitInv, InitBooks
<1>2. (IInv /\ Books) /\ [Next]_vars => (IInv /\ Books)'
  BY StepInv, StepBooks
<1>3. Books => UncontendedBooksAreExact
  BY DEF Books
<1> QED
  BY <1>1, <1>2, <1>3, PTL DEF Spec
=============================================================================
