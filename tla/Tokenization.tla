---------------------------- MODULE Tokenization ----------------------------
(***************************************************************************)
(* The tokenization service on one token: minting against a verified       *)
(* deposit, burning, withdrawal of the physical asset, deposits, audits    *)
(* and the creation of the token.  Every request is a chain of awaited     *)
(* calls of one method of TokenizationService.ts, on its own copies of the *)
(* Token and ReserveBalance documents; concurrent chains interleave at the *)
(* awaits.  Supply and reserve are two documents saved one after the       *)
(* other.  A save writes the modified paths, as absolute values computed   *)
(* from the copy; the entries of the audit trail are pushed.  Only a save  *)
(* that assigns an array, the findings of an audit, compares the version   *)
(* of the document.                                                        *)
(*                                                                         *)
(* Requests for different tokens share nothing.  totalSupply and           *)
(* circulatingSupply change together and are one number here.              *)
(***************************************************************************)
EXTENDS Integers, FiniteSets, FiniteSetsExt

CONSTANTS
  Requests,        \* request slots, each serves one request
  Deposits,        \* deposit ids
  NoDeposit,       \* what operations name that need none
  Stored,          \* the deposits already verified at the start
  Amounts,         \* positive amounts a request may name
  Kinds,           \* the operations clients may call
  InitialSupply,   \* of a token that exists at the start, fully backed
  MaxSupply,
  MaxInFlight,     \* bound: requests being served at the same time
  MaxFaults        \* bound: failed calls and process crashes

ASSUME TokenizationAssumption ==
  /\ NoDeposit \notin Deposits
  /\ Stored \subseteq Deposits
  /\ Amounts \subseteq Nat \ {0}
  /\ Kinds \subseteq {"create", "mint", "burn", "deposit", "withdraw", "audit"}
  /\ InitialSupply \in Nat
  /\ MaxSupply \in Nat
  /\ InitialSupply <= MaxSupply
  /\ MaxInFlight \in Nat
  /\ MaxFaults \in Nat

VARIABLES
  token,      \* the Token document
  reserve,    \* its ReserveBalance document
  deposits,   \* the Deposit documents
  record,     \* per request: status of its minting, burning or withdrawal
              \* document
  op, pc,     \* per request: what was asked for, the call it makes next
  copy,       \* per request: what it has loaded of the documents
  faults,     \* faults left
  issued,     \* history: the requests whose save of the supply succeeded
  fresh,      \* history, per request: the loaded documents nobody saved since
  contended   \* history: documents saved from a copy that was not fresh

clients == <<op, pc, copy>>
history == <<issued, fresh, contended>>
vars == <<token, reserve, deposits, record, clients, faults, history>>
-----------------------------------------------------------------------------
\* What an audit may find: how far the reserve is from the supply, and
\* whether more is locked than there is.
Report == [gap : Int, overdrawn : BOOLEAN]
NothingFound == [gap |-> 0, overdrawn |-> FALSE]

MintingStatus == {"absent", "pending", "processing", "completed", "failed"}
DepositStatus == {"absent", "pending_verification", "verified"}
AuditStatus == {"pending", "completed", "failed"}

\* Mongoose's version of a document counts the saves that assign an array.
Token == [exists : BOOLEAN, supply : Int, audit : AuditStatus,
          findings : Report, version : Nat]

NewToken(exists, supply) ==
  [exists |-> exists, supply |-> supply, audit |-> "pending",
   findings |-> NothingFound, version |-> 0]

Copy == [supply : Int, audit : AuditStatus, findings : Report, version : Nat,
         total : Int, available : Int, locked : Int]

NoCopy == [supply |-> 0, audit |-> "pending", findings |-> NothingFound,
           version |-> 0, total |-> 0, available |-> 0, locked |-> 0]

Operation(kind, n, d) == [kind |-> kind, amount |-> n, deposit |-> d]

OperationType ==
  [kind : Kinds \cup {"none"}, amount : Nat, deposit : Deposits \cup {NoDeposit}]

\* Awaited calls, in the order a request may meet them.
Waiting == {"saveToken", "saveNewReserve",
            "verifyDeposit", "checkReserve", "compliance", "insert",
            "processing", "loadToken", "saveSupply", "loadReserve",
            "saveReserve", "complete", "record", "saveAudit", "fail"}
Ended == {"done", "rejected", "error", "crashed"}

InFlight == {r \in Requests : pc[r] \in Waiting}

\* What a mint adds to the supply and a burn takes from it.
Signed(r) == IF op[r].kind = "burn" THEN -op[r].amount ELSE op[r].amount

\* The token may still have to be created.
Init ==
  /\ token \in {NewToken(TRUE, InitialSupply), NewToken(FALSE, 0)}
  /\ reserve = [exists |-> token.exists, total |-> token.supply,
                available |-> token.supply, locked |-> 0, trail |-> {}]
  /\ deposits = [d \in Deposits |->
       [status |-> IF d \in Stored THEN "verified" ELSE "absent",
        amount |-> IF d \in Stored THEN 1 ELSE 0]]
  /\ record = [r \in Requests |-> "absent"]
  /\ op = [r \in Requests |-> Operation("none", 0, NoDeposit)]
  /\ pc = [r \in Requests |-> "idle"]
  /\ copy = [r \in Requests |-> NoCopy]
  /\ faults = MaxFaults
  /\ issued = {}
  /\ fresh = [r \in Requests |-> {}]
  /\ contended = {}

Goto(r, p) == pc' = [pc EXCEPT ![r] = p]
-----------------------------------------------------------------------------
(* Requests arriving, one action per operation.                            *)

Receive(r, o, first) ==
  /\ pc[r] = "idle"
  /\ o.kind \in Kinds
  /\ Cardinality(InFlight) < MaxInFlight
  /\ op' = [op EXCEPT ![r] = o]
  /\ Goto(r, first)
  /\ UNCHANGED <<token, reserve, deposits, record, copy, faults, history>>

\* The token the model is about; its id is generated.
CreateToken(r) ==
  /\ ~ token.exists
  /\ \A q \in Requests : op[q].kind # "create"
  /\ Receive(r, Operation("create", 0, NoDeposit), "saveToken")

MintTokens(r) == \E n \in Amounts, d \in Deposits :
  Receive(r, Operation("mint", n, d), "verifyDeposit")

\* Verifying the user's balance is a stub that always succeeds.
BurnTokens(r) == \E n \in Amounts :
  Receive(r, Operation("burn", n, NoDeposit), "compliance")

\* A deposit gets a generated id.
ProcessDeposit(r) == \E n \in Amounts, d \in Deposits :
  /\ deposits[d].status = "absent"
  /\ \A q \in Requests : op[q].kind = "deposit" => op[q].deposit # d
  /\ Receive(r, Operation("deposit", n, d), "compliance")

ProcessWithdrawal(r) == \E n \in Amounts :
  Receive(r, Operation("withdraw", n, NoDeposit), "checkReserve")

AuditReserves(r) ==
  Receive(r, Operation("audit", 0, NoDeposit), "loadToken")

Arrive(r) ==
  \/ CreateToken(r)
  \/ MintTokens(r)
  \/ BurnTokens(r)
  \/ ProcessDeposit(r)
  \/ ProcessWithdrawal(r)
  \/ AuditReserves(r)
-----------------------------------------------------------------------------
(* Creating a token: two inserts.                                          *)

SaveToken(r) ==
  /\ pc[r] = "saveToken"
  /\ token' = NewToken(TRUE, 0)
  /\ Goto(r, "saveNewReserve")
  /\ UNCHANGED <<reserve, deposits, record, op, copy, faults, history>>

InitializeReserveBalance(r) ==
  /\ pc[r] = "saveNewReserve"
  /\ reserve' = [exists |-> TRUE, total |-> 0, available |-> 0, locked |-> 0,
                 trail |-> {}]
  /\ Goto(r, "done")
  /\ UNCHANGED <<token, deposits, record, op, copy, faults, history>>
-----------------------------------------------------------------------------
(* The checks, and the insert of the request document.                     *)

VerifyDeposit(r) ==
  /\ pc[r] = "verifyDeposit"
  /\ Goto(r, IF deposits[op[r].deposit].status = "verified"
             THEN "compliance" ELSE "rejected")
  /\ UNCHANGED <<token, reserve, deposits, record, op, copy, faults, history>>

VerifyReserveAvailability(r) ==
  /\ pc[r] = "checkReserve"
  /\ Goto(r, IF reserve.exists /\ reserve.available >= op[r].amount
             THEN "compliance" ELSE "rejected")
  /\ UNCHANGED <<token, reserve, deposits, record, op, copy, faults, history>>

\* The compliance service answers, or its call fails and counts as not
\* compliant; a deposit is recorded either way.  The fees of a withdrawal are
\* computed next, which throws when its amount is the string of an HTTP body
\* and not the Decimal the service's interface asks for.
PerformCompliance(r) == \E compliant, decimal \in BOOLEAN :
  /\ pc[r] = "compliance"
  /\ Goto(r, IF ~ compliant /\ op[r].kind # "deposit" THEN "rejected"
             ELSE IF op[r].kind = "withdraw" /\ ~ decimal THEN "error"
             ELSE "insert")
  /\ UNCHANGED <<token, reserve, deposits, record, op, copy, faults, history>>

InsertDeposit(r) ==
  /\ pc[r] = "insert"
  /\ op[r].kind = "deposit"
  /\ deposits' = [deposits EXCEPT ![op[r].deposit] =
       [status |-> "pending_verification", amount |-> op[r].amount]]
  /\ Goto(r, "done")
  /\ UNCHANGED <<token, reserve, record, op, copy, faults, history>>

InsertRequest(r) ==
  /\ pc[r] = "insert"
  /\ op[r].kind # "deposit"
  /\ record' = [record EXCEPT ![r] = "pending"]
  /\ Goto(r, IF op[r].kind = "withdraw" THEN "loadReserve" ELSE "processing")
  /\ UNCHANGED <<token, reserve, deposits, op, copy, faults, history>>

\* No code verifies a deposit; the custodian's confirmation does.
DepositIsVerified(d) ==
  /\ deposits[d].status = "pending_verification"
  /\ deposits' = [deposits EXCEPT ![d].status = "verified"]
  /\ UNCHANGED <<token, reserve, record, clients, faults, history>>
-----------------------------------------------------------------------------
(* processMinting and processBurning; the try block that ends in Fail.     *)

\* Mutant: the supply is left to somebody else.
StartWithReserve(r) ==
  /\ pc[r] = "processing"
  /\ record' = [record EXCEPT ![r] = "processing"]
  /\ Goto(r, "loadReserve")
  /\ UNCHANGED <<token, reserve, deposits, op, copy, faults, history>>

StartProcessing(r) ==
  /\ pc[r] = "processing"
  /\ record' = [record EXCEPT ![r] = "processing"]
  /\ Goto(r, "loadToken")
  /\ UNCHANGED <<token, reserve, deposits, op, copy, faults, history>>

\* Mutant: errors are logged and processing goes on.
SwallowError(r) == Goto(r, "complete")

\* Mutant: the catch block throws on without failing the request.
ThrowOn(r) == Goto(r, "error")

InTry == {"processing", "loadToken", "saveSupply", "loadReserve",
          "saveReserve", "complete", "record"}

\* Where an exception leads.
Catch(r) == Goto(r, IF op[r].kind \in {"mint", "burn"} /\ pc[r] \in InTry
                    THEN "fail" ELSE "error")

Load(r, document, loaded) ==
  /\ copy' = [copy EXCEPT ![r] = loaded]
  /\ fresh' = [fresh EXCEPT ![r] = @ \cup {document}]

LoadToken(r) ==
  /\ pc[r] = "loadToken"
  /\ IF token.exists
     THEN /\ Load(r, "token", [copy[r] EXCEPT !.supply = token.supply,
                                              !.audit = token.audit,
                                              !.findings = token.findings,
                                              !.version = token.version])
          /\ Goto(r, IF op[r].kind = "audit" THEN "loadReserve"
                     ELSE "saveSupply")
     ELSE /\ Catch(r)
          /\ UNCHANGED <<copy, fresh>>
  /\ UNCHANGED <<token, reserve, deposits, record, op, faults,
                 issued, contended>>

\* A save of a document by r: other copies of it are stale from now on, and
\* if r's own copy was, the document has lost a save.
Saved(r, document) ==
  /\ fresh' = [q \in Requests |->
                 IF q = r THEN fresh[q] ELSE fresh[q] \ {document}]
  /\ contended' = contended \cup ({document} \ fresh[r])

\* Mutant: an $inc of the stored supply.
SaveByIncrement(r, new) == [token EXCEPT !.supply = @ + Signed(r)]

\* The supply the copy gives.
SaveSupply(r, new) == [token EXCEPT !.supply = new]

\* The pre-save hook of the schema refuses more
\* than maxSupply.
UpdateSupply(r) ==
  LET new == copy[r].supply + Signed(r)
  IN /\ pc[r] = "saveSupply"
     /\ IF new > MaxSupply
        THEN /\ Catch(r)
             /\ UNCHANGED <<token, copy, history>>
        ELSE /\ token' = SaveSupply(r, new)
             /\ copy' = [copy EXCEPT ![r].supply = new]
             /\ issued' = issued \cup {r}
             /\ Saved(r, "token")
             /\ Goto(r, "loadReserve")
     /\ UNCHANGED <<reserve, deposits, record, op, faults>>

LoadReserve(r) ==
  /\ pc[r] = "loadReserve"
  /\ IF reserve.exists
     THEN /\ Load(r, "reserve", [copy[r] EXCEPT !.total = reserve.total,
                                                !.available = reserve.available,
                                                !.locked = reserve.locked])
          /\ Goto(r, IF op[r].kind = "audit" THEN "saveAudit"
                     ELSE "saveReserve")
     ELSE /\ Catch(r)
          /\ UNCHANGED <<copy, fresh>>
  /\ UNCHANGED <<token, reserve, deposits, record, op, faults,
                 issued, contended>>

\* Mutant: LOCK forgets to take the amount from what is available.
LockOnly(r) ==
  [reserve EXCEPT !.locked = copy[r].locked + op[r].amount,
                  !.trail = @ \cup {r}]

\* LOCK sets two of the three numbers, ADD and REMOVE the other pair.
Lock(r) ==
  [reserve EXCEPT !.available = copy[r].available - op[r].amount,
                  !.locked = copy[r].locked + op[r].amount,
                  !.trail = @ \cup {r}]

AddOrRemove(r) ==
  [reserve EXCEPT !.total = copy[r].total + Signed(r),
                  !.available = copy[r].available + Signed(r),
                  !.trail = @ \cup {r}]

UpdateReserves(r) ==
  /\ pc[r] = "saveReserve"
  /\ reserve' = IF op[r].kind = "withdraw" THEN Lock(r) ELSE AddOrRemove(r)
  /\ Saved(r, "reserve")
  /\ Goto(r, IF op[r].kind = "withdraw" THEN "done" ELSE "complete")
  /\ UNCHANGED <<token, deposits, record, op, copy, faults, issued>>

CompleteRequest(r) ==
  /\ pc[r] = "complete"
  /\ record' = [record EXCEPT ![r] = "completed"]
  /\ Goto(r, "record")
  /\ UNCHANGED <<token, reserve, deposits, op, copy, faults, history>>

\* Only that this insert can fail matters here.
CreateTokenTransaction(r) ==
  /\ pc[r] = "record"
  /\ Goto(r, "done")
  /\ UNCHANGED <<token, reserve, deposits, record, op, copy, faults, history>>

FailRequest(r) ==
  /\ pc[r] = "fail"
  /\ record' = [record EXCEPT ![r] = "failed"]
  /\ Goto(r, "error")
  /\ UNCHANGED <<token, reserve, deposits, op, copy, faults, history>>
-----------------------------------------------------------------------------
\* Mutant: a status the schema does not know.
Passed(n) == "passed"

\* Mutant: the audit compares what is available.
CompareAvailable(n) == IF n.supply = n.available THEN "completed" ELSE "failed"

\* The audit's judgement, for a reserve ratio of one.
Judgement(n) ==
  IF n.total = n.supply /\ n.available >= 0 THEN "completed" ELSE "failed"

Findings(n) == [gap |-> n.total - n.supply, overdrawn |-> n.available < 0]
HasNewFindings(r) == Findings(copy[r]) # copy[r].findings

\* A status or findings equal to the loaded ones are no modification.
Audited(r) ==
  [token EXCEPT
     !.audit = IF Judgement(copy[r]) = copy[r].audit
               THEN @ ELSE Judgement(copy[r]),
     !.findings = IF HasNewFindings(r) THEN Findings(copy[r]) ELSE @,
     !.version = IF HasNewFindings(r) THEN @ + 1 ELSE @]

\* New findings are refused if another audit's were saved since the load.
SaveAudit(r) ==
  /\ pc[r] = "saveAudit"
  /\ IF HasNewFindings(r) /\ copy[r].version # token.version
     THEN /\ Catch(r)
          /\ UNCHANGED token
     ELSE /\ token' = Audited(r)
          /\ Goto(r, "done")
  /\ UNCHANGED <<reserve, deposits, record, op, copy, faults, history>>
-----------------------------------------------------------------------------
(* Faults.                                                                 *)

\* An awaited call rejects without having taken effect.  The compliance
\* check catches its own failure and a failing catch block gives up.
CallFails(r) ==
  /\ pc[r] \in Waiting \ {"compliance"}
  /\ faults > 0
  /\ faults' = faults - 1
  /\ IF pc[r] = "fail" THEN Goto(r, "error") ELSE Catch(r)
  /\ UNCHANGED <<token, reserve, deposits, record, op, copy, history>>

\* The process dies; nothing resumes what it was doing.
Crash ==
  /\ InFlight # {}
  /\ faults > 0
  /\ faults' = faults - 1
  /\ pc' = [r \in Requests |-> IF r \in InFlight THEN "crashed" ELSE pc[r]]
  /\ UNCHANGED <<token, reserve, deposits, record, op, copy, history>>

Serve(r) ==
  \/ SaveToken(r)
  \/ InitializeReserveBalance(r)
  \/ VerifyDeposit(r)
  \/ VerifyReserveAvailability(r)
  \/ PerformCompliance(r)
  \/ InsertDeposit(r)
  \/ InsertRequest(r)
  \/ StartProcessing(r)
  \/ LoadToken(r)
  \/ UpdateSupply(r)
  \/ LoadReserve(r)
  \/ UpdateReserves(r)
  \/ CompleteRequest(r)
  \/ CreateTokenTransaction(r)
  \/ FailRequest(r)
  \/ SaveAudit(r)

\* Every slot has served its request.
AllServed ==
  /\ \A r \in Requests : pc[r] \in Ended
  /\ UNCHANGED vars

Next ==
  \/ \E r \in Requests : Arrive(r) \/ Serve(r) \/ CallFails(r)
  \/ \E d \in Deposits : DepositIsVerified(d)
  \/ Crash
  \/ AllServed

Spec == Init /\ [][Next]_vars

\* The event loop resumes every awaited call.
FairSpec == Spec /\ \A r \in Requests : WF_vars(Serve(r))
-----------------------------------------------------------------------------
(* Properties.                                                             *)

TypeOK ==
  /\ token \in Token
  /\ reserve \in [exists : BOOLEAN, total : Int, available : Int,
                  locked : Int, trail : SUBSET Requests]
  /\ deposits \in [Deposits -> [status : DepositStatus, amount : Nat]]
  /\ record \in [Requests -> MintingStatus]
  /\ op \in [Requests -> OperationType]
  /\ pc \in [Requests -> {"idle"} \cup Waiting \cup Ended]
  /\ copy \in [Requests -> Copy]
  /\ faults \in 0..MaxFaults
  /\ issued \subseteq Requests
  /\ fresh \in [Requests -> SUBSET {"token", "reserve"}]
  /\ contended \subseteq {"token", "reserve"}

\* A minting or burning request that says COMPLETED has changed the supply and
\* left its entry in the reserve's audit trail, whatever interleaved with it or
\* failed.  (FAILED promises nothing: a failure undoes neither save.)
CompletedIsBacked ==
  \A r \in Requests :
    record[r] = "completed" => r \in issued /\ r \in reserve.trail

\* The trail never runs ahead of the supply: what processMinting and
\* processBurning enter into the reserve has been issued or destroyed before,
\* so a request cut short leaves the reserve as it was.
ReserveFollowsSupply ==
  \A r \in reserve.trail : op[r].kind \in {"mint", "burn"} => r \in issued

\* No interleaving of mints on stale copies pushes the stored supply past
\* maxSupply: the hook checks the very value it lets through.
SupplyStaysInLimit == token.supply <= MaxSupply

\* Each document is exact, the initial numbers plus all that was saved to it,
\* unless some request saved it over a save it had not seen.  In particular a
\* supply and a reserve that no two requests raced on differ by the requests
\* that were cut short between their two saves, and by nothing else.
Total(S) == MapThenSumSet(Signed, S)
Issues(S) == {r \in S : op[r].kind \in {"mint", "burn"}}
Locks(S) == {r \in S : op[r].kind = "withdraw"}
Initially == IF \E r \in Requests : op[r].kind = "create" THEN 0 ELSE InitialSupply

UncontendedBooksAreExact ==
  /\ token.exists /\ "token" \notin contended
       => token.supply = Initially + Total(issued)
  /\ reserve.exists /\ "reserve" \notin contended
       => /\ reserve.total = Initially + Total(Issues(reserve.trail))
          /\ reserve.locked = Total(Locks(reserve.trail))
          /\ reserve.available = reserve.total - reserve.locked

\* An audit is right for as long as nobody saves either document after its two
\* reads: it passes if and only if supply and reserve agree and nothing is
\* overdrawn.
AuditsAreRight ==
  \A r \in Requests :
    /\ op[r].kind = "audit"
    /\ pc[r] = "done"
    /\ fresh[r] = {"token", "reserve"}
    /\ \A q \in Requests \ {r} : op[q].kind # "audit"
    => (token.audit = "completed")
         <=> (token.supply = reserve.total /\ reserve.available >= 0)

\* As long as no call fails and no process crashes, every request that is taken
\* up ends, and a minting or burning document that was inserted is COMPLETED or
\* FAILED, also when the reserve was missing or the supply at its limit.
RequestsSettle ==
  [](faults = MaxFaults) =>
    \A r \in Requests :
      pc[r] \in Waiting ~>
        /\ pc[r] \in Ended
        /\ op[r].kind \in {"mint", "burn"} =>
             record[r] \in {"absent", "completed", "failed"}

\* Tokens are minted against verified deposits: what was issued on a deposit
\* does not exceed it.
MintedAgainstDeposits ==
  \A d \in Deposits :
    Total({r \in issued : op[r].kind = "mint" /\ op[r].deposit = d})
      <= deposits[d].amount
=============================================================================
