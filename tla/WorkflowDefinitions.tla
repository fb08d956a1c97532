------------------------ MODULE WorkflowDefinitions ------------------------
(***************************************************************************)
(* The four workflows the workflow engine registers when it is built, as   *)
(* graphs of steps: a step has a type, the steps it names for success,     *)
(* failure and timeout, and the retries it is allowed.  A named step need  *)
(* not be one of the workflow's steps: notify_rejection and many others    *)
(* are named and defined nowhere, as in the code.  Services, endpoints,    *)
(* payloads, templates and the delays are left out.                        *)
(***************************************************************************)

Undefined == "-"   \* an optional field that is absent

Step(type, onSuccess, onFailure) ==
  [type |-> type, onSuccess |-> onSuccess, onFailure |-> onFailure,
   onTimeout |-> Undefined, retryCount |-> 0]

Call(s, f) == Step("service_call", s, f)
Condition(s, f) == Step("condition", s, f)
Parallel(s, f) == Step("parallel", s, f)
Manual(s, f) == Step("manual", s, f)
Notification(s) == Step("notification", s, Undefined)
Wait(s, t) == [Step("wait", s, Undefined) EXCEPT !.onTimeout = t]
-----------------------------------------------------------------------------
AssetProcessing == [startStep |-> "validate_submission", steps |-> [
  validate_submission |->
    [Call("initial_verification", "notify_rejection") EXCEPT !.retryCount = 3],
  initial_verification |-> Call("risk_assessment", "request_additional_info"),
  risk_assessment |-> Call("check_risk_level", "escalate_to_admin"),
  check_risk_level |->
    Condition("professional_appraisal", "manual_review_required"),
  professional_appraisal |-> Call("calculate_value", "request_reappraisal"),
  calculate_value |-> Parallel("admin_approval", "valuation_error"),
  get_market_price |-> Call(Undefined, Undefined),
  apply_premiums |-> Call(Undefined, Undefined),
  admin_approval |-> Manual("create_tokens", "notify_rejection"),
  create_tokens |-> Call("update_ledger", "token_creation_failed"),
  update_ledger |-> Call("credit_user_account", "ledger_error"),
  credit_user_account |-> Call("notify_completion", "credit_failed"),
  notify_completion |-> Notification("workflow_complete"),
  workflow_complete |-> Call(Undefined, Undefined)]]

BitcoinPurchase == [startStep |-> "validate_purchase_request", steps |-> [
  validate_purchase_request |->
    Call("check_account_balance", "notify_validation_error"),
  check_account_balance |->
    Call("verify_sufficient_funds", "balance_check_failed"),
  verify_sufficient_funds |->
    Condition("get_bitcoin_price", "insufficient_funds"),
  get_bitcoin_price |-> Call("calculate_bitcoin_amount", "price_fetch_failed"),
  calculate_bitcoin_amount |-> Call("reserve_funds", "calculation_failed"),
  reserve_funds |-> Call("execute_bitcoin_purchase", "reservation_failed"),
  execute_bitcoin_purchase |->
    Call("update_payment_ledger", "purchase_failed"),
  update_payment_ledger |-> Call("debit_fiat_account", "ledger_update_failed"),
  debit_fiat_account |-> Call("credit_bitcoin_wallet", "debit_failed"),
  credit_bitcoin_wallet |->
    Call("notify_purchase_complete", "wallet_credit_failed"),
  notify_purchase_complete |-> Notification("purchase_workflow_complete")]]

UserOnboarding == [startStep |-> "create_user_account", steps |-> [
  create_user_account |->
    Call("send_welcome_email", "account_creation_failed"),
  send_welcome_email |-> Notification("create_fiat_accounts"),
  create_fiat_accounts |->
    Call("create_crypto_wallet", "fiat_account_creation_failed"),
  create_crypto_wallet |->
    Call("initialize_ledger_accounts", "wallet_creation_failed"),
  initialize_ledger_accounts |->
    Call("wait_for_kyc", "ledger_initialization_failed"),
  wait_for_kyc |-> Wait("process_kyc", "kyc_timeout_reminder"),
  process_kyc |-> Call("kyc_admin_review", "kyc_processing_failed"),
  kyc_admin_review |-> Manual("activate_account", "kyc_rejected"),
  activate_account |-> Call("notify_account_active", "activation_failed"),
  notify_account_active |-> Notification("onboarding_complete")]]

ComplianceCheck == [startStep |-> "aml_screening", steps |-> [
  aml_screening |-> Call("sanctions_check", "aml_screening_failed"),
  sanctions_check |-> Call("pep_screening", "sanctions_check_failed"),
  pep_screening |-> Call("risk_scoring", "pep_screening_failed"),
  risk_scoring |-> Call("evaluate_risk_level", "risk_scoring_failed"),
  evaluate_risk_level |->
    Condition("approve_automatically", "manual_compliance_review"),
  approve_automatically |-> Call("compliance_complete", Undefined),
  manual_compliance_review |->
    Manual("compliance_approved", "compliance_rejected")]]
=============================================================================
