------------------------------- MODULE MCPolicy -------------------------------
(***************************************************************************)
(* The minimal rule set, which has the empty name, on every verb and every *)
(* two conditions; and all sets of three rules over two categories and two *)
(* facts, in two orders, on every bundle.                                  *)
(***************************************************************************)
EXTENDS PolicyRules

CONSTANTS whatsapp, email, voice, b2c

MCSegment == {b2c}
MCChannel == {whatsapp, email, voice}

ChannelOf(action) ==
    CASE action = "initiate_voice_call" -> voice
      [] "consent_and_channel" \notin PolicyCategories[action] -> NoChannel
      [] OTHER -> whatsapp

-----------------------------------------------------------------------------

Occurring == {{}} \cup {{a, b} : a, b \in Condition}

MinimalRequests ==
    {[action |-> action, conditions |-> conditions,
      categories |-> PolicyCategories[action], segment |-> b2c, channel |-> ChannelOf(action),
      facts |-> BuildFacts(action, conditions)] :
        action \in ActionType, conditions \in {c \in Occurring : Consistent(c)}}

-----------------------------------------------------------------------------

SmallCategory == {"holds", "timing"}
SmallFact == {"has_active_hold", "outside_contact_window"}
FactOf(category) ==
    IF category = "holds" THEN "has_active_hold" ELSE "outside_contact_window"

\* Restrictive and permissive rules, one of each effect, one advisory, one
\* for a single channel and one that is disabled.
Kind ==
    {[effect |-> effect, severity |-> "blocking", hit |-> hit, only |-> {}, enabled |-> TRUE] :
        effect \in Effect, hit \in BOOLEAN}
    \cup {[effect |-> "allow", severity |-> "advisory", hit |-> FALSE, only |-> {}, enabled |-> TRUE],
          [effect |-> "deny", severity |-> "advisory", hit |-> TRUE, only |-> {}, enabled |-> TRUE],
          [effect |-> "allow", severity |-> "blocking", hit |-> FALSE, only |-> {email}, enabled |-> TRUE],
          [effect |-> "deny", severity |-> "blocking", hit |-> TRUE, only |-> {}, enabled |-> FALSE]}

EffectRank == [allow |-> 0, allow_with_approval |-> 1, defer |-> 2, deny |-> 3]
IdOf(category, kind) ==
    (IF category = "holds" THEN 0 ELSE 100)
    + 10 * EffectRank[kind.effect] + (IF kind.hit THEN 5 ELSE 0)
    + (IF kind.severity = "advisory" THEN 1 ELSE 0)
    + (IF kind.only = {} THEN 0 ELSE 2) + (IF kind.enabled THEN 0 ELSE 3)

SmallRule ==
    {[id |-> IdOf(category, kind), category |-> category, effect |-> kind.effect,
      severity |-> kind.severity, enabled |-> kind.enabled,
      needs |-> {FactOf(category)},
      when |-> [AnyOf({FactOf(category)}) EXCEPT !.negated = ~kind.hit],
      segments |-> {}, channels |-> kind.only] : category \in SmallCategory, kind \in Kind}

\* A small set is named by the ids of its rules.
SmallId == {rule.id : rule \in SmallRule}
RuleOf == [id \in SmallId |-> CHOOSE rule \in SmallRule : rule.id = id]
SmallName ==
    {name \in SmallId \X SmallId \X SmallId :
        \/ name[1] < name[2] /\ name[2] < name[3]
        \/ name[1] > name[2] /\ name[2] > name[3]}

SmallRequests ==
    {[action |-> "schedule_debit", conditions |-> {}, categories |-> categories,
      segment |-> b2c, channel |-> whatsapp, facts |-> facts] :
        categories \in {{"holds"}, {"holds", "timing"}},
        facts \in UNION {[known -> BOOLEAN] : known \in SUBSET SmallFact}}

MCMinimalName == {<<>>}
MCRuleSetName == MCMinimalName \cup SmallName
MCRuleSets ==
    [name \in RuleSetName |->
        IF name = <<>> THEN MinimalRuleSet ELSE [i \in 1..3 |-> RuleOf[name[i]]]]
MCRequests ==
    [name \in RuleSetName |-> IF name = <<>> THEN MinimalRequests ELSE SmallRequests]

=============================================================================
