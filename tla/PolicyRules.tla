------------------------------ MODULE PolicyRules ------------------------------
(***************************************************************************)
(* The minimal rule set (reclaim/policy/rules.py), the categories every    *)
(* action declares (contracts/actions.py) and the facts that are built for *)
(* it (policy/facts.py).  A condition is something that is so of the case, *)
(* the payer, the action or the moment; a fact is true when it makes its   *)
(* comparison in the restrictive rule of a gate true.                      *)
(***************************************************************************)
EXTENDS PolicyEngine, FiniteSets

PolicyCategory ==
    {"consent_and_channel", "timing", "frequency", "rail_and_network",
     "content", "financial_authority", "holds", "integrity"}

ContactCategories == PolicyCategory \ {"rail_and_network", "financial_authority"}

\* policy_categories of every verb.
PolicyCategories ==
    [schedule_debit |-> PolicyCategory \ (ContactCategories \ {"holds", "integrity"}),
     send_pre_debit_notification |-> ContactCategories \cup {"rail_and_network"},
     send_message |-> ContactCategories,
     create_mandate_reauth_link |-> {"holds", "integrity", "rail_and_network"},
     create_credential_update_link |-> {"holds", "integrity"},
     offer_payment_plan |-> {"financial_authority", "holds", "integrity"},
     apply_grace_period |-> {"financial_authority", "holds", "integrity"},
     initiate_voice_call |-> ContactCategories,
     suppress_contact |-> {"integrity"},
     open_systemic_incident |-> {"integrity"},
     propose_route_change |-> {"integrity", "financial_authority"},
     escalate_to_human |-> {"integrity"},
     recommend_write_off |-> {"financial_authority", "integrity"}]

ActionType == DOMAIN PolicyCategories
GovernedActionTypes == {"schedule_debit", "send_message"}

-----------------------------------------------------------------------------
(***************************************************************************)
(* The gates: what each category forbids, as facts any one of which is     *)
(* enough.                                                                 *)
(***************************************************************************)

\* Without the last, which stands for an open hold of any kind, the gate
\* would list the kinds one by one.
NamedHoldFacts ==
    {"is_opted_out", "has_open_dispute", "has_hardship_flag", "has_legal_hold",
     "has_open_chargeback", "in_suppressed_cohort", "has_open_incident"}
HoldFacts == NamedHoldFacts \cup {"has_active_hold"}

RailFacts == {"mandate_not_debitable", "last_decline_was_hard", "attempts_spent"}
IntegrityFacts == {"idempotency_key_used", "obligation_settled"}
AuthorityFacts == {"debit_above_afa_threshold"}
TimingFacts == {"outside_contact_window", "declared_holiday"}
FrequencyFacts == {"channel_cap_reached", "case_cap_reached"}
ContentFacts == {"banned_phrase", "free_text_slot", "template_not_registered"}
ConsentFacts ==
    {"is_opted_out", "on_dnc_list", "no_consent_record", "no_channel_consent",
     "purpose_not_covered", "language_differs"}

PolicyFactKey ==
    NamedHoldFacts \cup {"has_active_hold"} \cup RailFacts \cup IntegrityFacts
        \cup AuthorityFacts \cup TimingFacts \cup FrequencyFacts \cup ContentFacts
        \cup ConsentFacts

\* A restrictive rule, and the rule that allows under its negation; the
\* faulty variant lists what must not be so, and forgets one.
AnyOf(facts) ==
    [any_of |-> {[true |-> {f}, false |-> {}] : f \in facts}, negated |-> FALSE]
Restrictive(id, category, effect, facts) ==
    [id |-> id, category |-> category, effect |-> effect, severity |-> "blocking",
     enabled |-> TRUE, needs |-> facts, when |-> AnyOf(facts),
     segments |-> {}, channels |-> {}]
PermissiveFaulty(rule) ==
    [rule EXCEPT !.id = @ + 1, !.effect = "allow",
                 !.when = [any_of |-> {[true |-> {},
                                        false |-> rule.needs \ {"last_decline_was_hard"}]},
                           negated |-> FALSE]]
Permissive(rule) ==
    [rule EXCEPT !.id = @ + 1, !.effect = "allow",
                 !.when = [any_of |-> @.any_of, negated |-> ~@.negated]]

Gate(id, category, effect, facts) ==
    LET rule == Restrictive(id, category, effect, facts)
    IN  <<rule, Permissive(rule)>>

\* In the order of _GATE_BUILDERS; the ids are in the order of the rule ids.
MinimalRuleSet ==
    Gate(10, "consent_and_channel", "deny", ConsentFacts)
    \o Gate(80, "timing", "deny", TimingFacts)
    \o Gate(40, "frequency", "deny", FrequencyFacts)
    \o Gate(70, "rail_and_network", "deny", RailFacts)
    \o Gate(20, "content", "deny", ContentFacts)
    \o Gate(30, "financial_authority", "allow_with_approval", AuthorityFacts)
    \o Gate(50, "holds", "deny", HoldFacts)
    \o Gate(60, "integrity", "deny", IntegrityFacts)

-----------------------------------------------------------------------------
(***************************************************************************)
(* build_facts.                                                            *)
(***************************************************************************)

HoldKind ==
    {"opt_out", "dispute", "hardship", "bereavement", "legal_hold",
     "chargeback", "systemic_incident_ours"}

Condition ==
    HoldKind \cup RailFacts \cup IntegrityFacts \cup AuthorityFacts
        \cup TimingFacts \cup FrequencyFacts \cup ContentFacts
        \cup {"case_in_cohort", "case_has_incident",
              "no_profile", "on_dnc_list", "no_record_for_channel",
              "withdrawn_on_channel", "withdrawn_elsewhere",
              "other_purpose", "other_language"}

\* Conditions that can hold together: a payer without a profile has nothing
\* in it, and a channel without a record nothing withdrawn.
Consistent(conditions) ==
    /\ "no_profile" \in conditions =>
            conditions \cap {"on_dnc_list", "no_record_for_channel", "other_language",
                             "withdrawn_on_channel", "withdrawn_elsewhere",
                             "other_purpose"} = {}
    /\ "no_record_for_channel" \in conditions =>
            conditions \cap {"withdrawn_on_channel", "other_purpose"} = {}

NoRecord == {"no_profile", "no_record_for_channel"}

\* The conditions any one of which makes a fact true; any fact not named here
\* is the condition of its own name.
Grounds ==
    [is_opted_out |-> {"opt_out", "withdrawn_on_channel", "withdrawn_elsewhere"},
     has_active_hold |-> HoldKind,
     has_open_dispute |-> {"dispute"},
     has_hardship_flag |-> {"hardship"},
     has_legal_hold |-> {"legal_hold"},
     has_open_chargeback |-> {"chargeback"},
     in_suppressed_cohort |-> {"case_in_cohort"},
     has_open_incident |-> {"case_has_incident"},
     no_consent_record |-> NoRecord,
     no_channel_consent |-> NoRecord \cup {"on_dnc_list", "withdrawn_on_channel"},
     purpose_not_covered |-> NoRecord \cup {"other_purpose"},
     language_differs |-> {"no_profile", "other_language"}]
GroundsOf(fact) == IF fact \in DOMAIN Grounds THEN Grounds[fact] ELSE {fact}

\* Only a message has a template and slots.
FactHolds(action, fact, conditions) ==
    IF fact \in ContentFacts /\ action # "send_message"
    THEN fact = "template_not_registered"
    ELSE conditions \cap GroundsOf(fact) # {}

\* The facts the builder has for an action.  The purpose is only looked up
\* for a message.
FactsFor(action) ==
    NamedHoldFacts \cup {"has_active_hold"} \cup IntegrityFacts
        \cup (IF action = "schedule_debit" THEN RailFacts \cup AuthorityFacts ELSE {})
        \cup (IF "consent_and_channel" \in PolicyCategories[action]
              THEN (ConsentFacts \ {"purpose_not_covered"})
                    \cup TimingFacts \cup FrequencyFacts \cup ContentFacts
              ELSE {})
        \cup (IF action = "send_message" THEN {"purpose_not_covered"} ELSE {})

BuildFacts(action, conditions) ==
    [fact \in FactsFor(action) |-> FactHolds(action, fact, conditions)]

-----------------------------------------------------------------------------
(***************************************************************************)
(* What the shipped rules promise.  A request keeps its action and the     *)
(* conditions beside the facts.                                            *)
(***************************************************************************)

ASSUME BuiltRequestAssumption ==
    \A name \in RuleSetName : RuleSets[name] = MinimalRuleSet =>
        \A r \in Requests[name] :
            /\ r.action \in ActionType
            /\ r.categories = PolicyCategories[r.action]
            /\ r.facts = BuildFacts(r.action, r.conditions)

\* An open hold of any kind -- also one no fact is named after -- stops every
\* action the rules govern; so does a withdrawn consent, on any channel.
HoldStopsEverything ==
    /\ Rules = MinimalRuleSet /\ decision # None
    /\ request.action \in GovernedActionTypes
    /\ request.conditions \cap
            (HoldKind \cup {"withdrawn_on_channel", "withdrawn_elsewhere"}) # {}
    => decision.effect = "deny"

\* "For any total fact bundle exactly one of the pair matches": a governed
\* action is decided by a rule, never for want of one.
GovernedIsDecidedByRule ==
    /\ Rules = MinimalRuleSet /\ decision # None
    /\ request.action \in GovernedActionTypes
    => /\ ~decision.failed_closed
       /\ \A c \in request.categories :
            Cardinality({v \in verdicts : v.category = c}) = 1

=============================================================================
