------------------------------- MODULE Routing -------------------------------
(***************************************************************************)
(* From what was observed on a case to the one action the agent proposes:  *)
(* the decline taxonomy (reclaim/contracts/decline_taxonomy.py), the       *)
(* deterministic diagnosis (reclaim/diagnosis/deterministic.py) and the    *)
(* two routers of reclaim/flow.py.  Constant operators only.               *)
(***************************************************************************)
EXTENDS Naturals, Sequences

CONSTANTS
    ConfidenceFloor,   \* PolicyThresholds.diagnosis_confidence_floor, percent
    NoAction           \* what a router returns for None

ASSUME FloorAssumption == ConfidenceFloor \in 0..100

(***************************************************************************)
(* The taxonomy.  Root causes are named H1 to H9 and UNKNOWN; the others   *)
(* of the source's long names add nothing.  A class files its candidate    *)
(* causes in order of preference.                                          *)
(***************************************************************************)

CandidateCauses ==
    [insufficient_funds |-> <<"H1">>,
     issuer_transient_decline |-> <<"H1">>,
     issuer_unavailable |-> <<"H6">>,
     authentication_required |-> <<"H4">>,
     payer_authorization_missing_ambiguous |-> <<"H4", "H3", "H5">>,
     mandate_invalid |-> <<"H3">>,
     mandate_cancelled |-> <<"H3">>,
     mandate_paused |-> <<"H3", "H5">>,
     mandate_expired |-> <<"H3">>,
     mandate_cap_exceeded |-> <<"H6", "H3">>,
     pre_debit_notification_undelivered |-> <<"H6", "H4">>,
     card_expired |-> <<"H2">>,
     card_replaced_or_token_invalid |-> <<"H2">>,
     card_lost_or_stolen |-> <<"H2">>,
     account_closed_or_invalid |-> <<"H2">>,
     risk_blocked_by_issuer |-> <<"H6", "H7">>,
     risk_blocked_by_psp |-> <<"H6">>,
     risk_blocked_by_merchant_rule |-> <<"H6">>,
     processing_error |-> <<"H6">>,
     routing_or_config_error |-> <<"H6">>,
     rail_not_supported |-> <<"H6">>,
     duplicate_attempt_blocked |-> <<"H6">>,
     network_retry_limit_exceeded |-> <<"H1">>,
     unknown_unmapped |-> <<"UNKNOWN">>]

DeclineClass == DOMAIN CandidateCauses

Retryability ==
    [d \in DeclineClass |->
        CASE d \in {"insufficient_funds", "issuer_transient_decline"} ->
                "retry_soft"
          [] d \in {"issuer_unavailable", "pre_debit_notification_undelivered",
                    "risk_blocked_by_psp", "risk_blocked_by_merchant_rule",
                    "processing_error", "routing_or_config_error"} ->
                "retry_after_incident"
          [] d \in {"authentication_required",
                    "payer_authorization_missing_ambiguous"} ->
                "requires_customer_authentication"
          [] d \in {"card_expired", "card_replaced_or_token_invalid"} ->
                "requires_new_credential"
          [] d \in {"mandate_invalid", "mandate_cancelled", "mandate_paused",
                    "mandate_expired", "mandate_cap_exceeded"} ->
                "requires_new_mandate"
          [] d \in {"card_lost_or_stolen", "account_closed_or_invalid",
                    "risk_blocked_by_issuer", "rail_not_supported",
                    "duplicate_attempt_blocked"} -> "no_retry_terminal"
          [] d = "network_retry_limit_exceeded" -> "no_retry_compliance_hold"
          [] d = "unknown_unmapped" -> "unknown_fail_closed"]

RiskClass ==
    {"failed_recurring_debit", "predicted_to_fail_debit", "overdue_receivable",
     "checkout_abandonment", "systemic_auth_degradation", "silent_leakage"}

\* What is known of a case: its decline class, or, when no debit was seen to
\* fail, its risk class.
Finding == DeclineClass \cup RiskClass

ForbidsPaymentNudge(cause) == cause \in {"H5", "H6", "H7"}

-----------------------------------------------------------------------------
(***************************************************************************)
(* The diagnosis: a root cause, the causes it could not rule out and a     *)
(* confidence.  Causes that blame our own side are never named.            *)
(***************************************************************************)

Diagnosis(root_cause, alternatives) ==
    [root_cause |-> root_cause, alternatives |-> alternatives,
     confidence |-> IF root_cause = "UNKNOWN" THEN 30
                    ELSE IF alternatives # {} THEN 52 ELSE 60]

DispatchDeclineClass(d) ==
    LET causes == CandidateCauses[d]
        primary == causes[1]
    IN  IF primary \in {"H6", "UNKNOWN"} THEN Diagnosis("UNKNOWN", {})
        ELSE Diagnosis(primary,
                       {causes[i] : i \in DOMAIN causes} \ {primary, "H6", "UNKNOWN"})

DispatchRiskClass(r) ==
    IF r = "overdue_receivable" THEN Diagnosis("H9", {"H8"})
                                ELSE Diagnosis("UNKNOWN", {})

Diagnose(f) ==
    IF f \in DeclineClass THEN DispatchDeclineClass(f) ELSE DispatchRiskClass(f)

\* The causes still possible after the diagnosis.
Candidates(diagnosis) == {diagnosis.root_cause} \cup diagnosis.alternatives

-----------------------------------------------------------------------------
(***************************************************************************)
(* The routers.  An action is a retry of the debit, or a message with one  *)
(* intent; every intent named here has a template in every locale the      *)
(* router uses, so a message is never refused for want of words.           *)
(***************************************************************************)

Debit == "retry_debit"

Messages ==
    {"credential_update_request", "mandate_reauth_request",
     "afa_completion_request", "payment_reminder", "payment_failed_inform"}

Routes ==
    [H1 |-> Debit, H2 |-> "credential_update_request",
     H3 |-> "mandate_reauth_request", H4 |-> "afa_completion_request",
     H9 |-> "payment_reminder"]

Route(diagnosis) ==
    IF /\ ~ForbidsPaymentNudge(diagnosis.root_cause)
       /\ diagnosis.root_cause \in DOMAIN Routes
    THEN Routes[diagnosis.root_cause]
    ELSE NoAction

\* The contact a diagnosis below the floor may still send: one that is true
\* under every candidate.
HedgedRoute(f, diagnosis) ==
    IF diagnosis.root_cause = "UNKNOWN" \/ diagnosis.alternatives = {}
    THEN NoAction
    ELSE IF f \in DeclineClass THEN "payment_failed_inform"
    ELSE IF \E cause \in Candidates(diagnosis) : ForbidsPaymentNudge(cause)
    THEN NoAction
    ELSE "payment_reminder"

BelowFloorFaulty(diagnosis) == diagnosis.root_cause = "UNKNOWN"
BelowFloor(diagnosis) == diagnosis.confidence < ConfidenceFloor

\* What process_case proposes for a case on which f was found.
Proposal(f) ==
    IF BelowFloor(Diagnose(f)) THEN HedgedRoute(f, Diagnose(f))
                               ELSE Route(Diagnose(f))

=============================================================================
