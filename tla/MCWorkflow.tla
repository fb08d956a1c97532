----------------------------- MODULE MCWorkflow -----------------------------
(* The registered workflows, for model checking WorkflowEngine.            *)
EXTENDS WorkflowEngine

W == INSTANCE WorkflowDefinitions

NoStep == W!Undefined
AllWorkflows ==
  [asset_processing_v1 |-> W!AssetProcessing,
   bitcoin_purchase_v1 |-> W!BitcoinPurchase,
   user_onboarding_v1 |-> W!UserOnboarding,
   compliance_check_v1 |-> W!ComplianceCheck]
AssetWorkflow == [asset_processing_v1 |-> W!AssetProcessing]

\* None of the registered workflows returns to a step it has left.
Ahead(w) ==
  LET steps == Definitions[w].steps
      ahead[s \in DOMAIN steps] ==
        LET next == {steps[s].onSuccess, steps[s].onFailure} \cap DOMAIN steps
        IN Max({0} \cup {1 + ahead[u] : u \in next})
  IN ahead

ASSUME RegisteredWorkflowsGoForward ==
  GoesForward([w \in DOMAIN Definitions |-> Ahead(w)])
=============================================================================
