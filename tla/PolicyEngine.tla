----------------------------- MODULE PolicyEngine -----------------------------
(***************************************************************************)
(* The policy engine: engine.evaluate over a loaded rule set and the facts *)
(* of one proposed action, and combine_verdicts.  One step is one round of *)
(* its loop.                                                               *)
(*                                                                         *)
(* A fact is modelled by the truth of the one comparison the rules make on *)
(* it, a rule's predicate tree (AllOf, AnyOf, Not over comparisons) by its *)
(* disjunctive normal form, perhaps under a Not.  Tiers, reasons,          *)
(* citations and the instant a deferral waits for label a decision and are *)
(* left out.                                                               *)
(***************************************************************************)
EXTENDS Naturals, Sequences

CONSTANTS
    Category, Fact, Segment, Channel,
    RuleSetName,
    RuleSets,   \* the loaded rules of each name, in order
    Requests,   \* per name, proposed actions with the facts built for them
    NoChannel,
    None

Effect == {"allow", "allow_with_approval", "defer", "deny"}

\* Strictest wins.  The faulty variant lets an approval outrank a deferral.
StrictnessFaulty ==
    [allow |-> 0, allow_with_approval |-> 2, defer |-> 1, deny |-> 3]
Strictness ==
    [allow |-> 0, allow_with_approval |-> 1, defer |-> 2, deny |-> 3]

Clause == [true : SUBSET Fact, false : SUBSET Fact]
Predicate == [any_of : SUBSET Clause, negated : BOOLEAN]

\* needs has the facts of the predicate and the instant a deferral names;
\* empty segments or channels mean every one.
Rule ==
    [id : Nat, category : Category, effect : Effect,
     severity : {"blocking", "advisory"}, enabled : BOOLEAN,
     needs : SUBSET Fact, when : Predicate,
     segments : SUBSET Segment, channels : SUBSET Channel]

ASSUME RuleSetAssumption == RuleSets \in [RuleSetName -> Seq(Rule)]
\* PolicyRuleSet refuses duplicate rule ids.
ASSUME RuleIdAssumption ==
    \A name \in RuleSetName : \A i, j \in DOMAIN RuleSets[name] :
        RuleSets[name][i].id = RuleSets[name][j].id => i = j
ASSUME RequestFactsAssumption ==
    \A name \in RuleSetName : \A r \in Requests[name] :
        /\ r.categories \subseteq Category
        /\ r.facts \in [DOMAIN r.facts -> BOOLEAN] \* not every fact is in it
ASSUME NoChannelAssumption == NoChannel \notin Channel
\* Neither a rule id nor a decision.
ASSUME NoneAssumption ==
    /\ None \notin Nat
    /\ None \notin [effect : Effect, deciding : Nat \cup {None}, failed_closed : BOOLEAN]

VARIABLES
    loaded,    \* the name of the rule set
    request,   \* the action under evaluation
    next,      \* the rule the loop has come to
    verdicts,  \* the rules that matched; combine_verdicts reads no order
    decision   \* None until the loop has ended

vars == <<loaded, request, next, verdicts, decision>>

-----------------------------------------------------------------------------

Rules == RuleSets[loaded]

\* applicable_rules.
Applies(rule) ==
    /\ rule.enabled
    /\ rule.category \in request.categories
    /\ rule.segments = {} \/ request.segment \in rule.segments
    /\ rule.channels = {} \/ request.channel \in rule.channels

\* Every fact it tests is in the bundle; the faulty variant goes ahead and
\* reads what is missing as false.
EvaluableFaulty(rule) == TRUE
Evaluable(rule) == rule.needs \subseteq DOMAIN request.facts

IsTrue(fact) == fact \in DOMAIN request.facts /\ request.facts[fact]
Holds(clause) ==
    /\ \A f \in clause.true : IsTrue(f)
    /\ \A f \in clause.false : ~IsTrue(f)
Matches(rule) ==
    (\E clause \in rule.when.any_of : Holds(clause)) <=> ~rule.when.negated

Speaks(rule) == Applies(rule) /\ Evaluable(rule) /\ Matches(rule)

Blocking(vs) == {v \in vs : v.severity = "blocking"}

Decision(effect, deciding, failed_closed) ==
    [effect |-> effect, deciding |-> deciding, failed_closed |-> failed_closed]

\* combine_verdicts: the strictest blocking effect; of the rules that have
\* it, the one with the least id decides.
Strictest(vs) ==
    CHOOSE effect \in {v.effect : v \in Blocking(vs)} :
        \A v \in Blocking(vs) : Strictness[v.effect] <= Strictness[effect]
Winners(vs) == {v \in Blocking(vs) : v.effect = Strictest(vs)}
Deciding(vs) ==
    CHOOSE id \in {v.id : v \in Winners(vs)} : \A v \in Winners(vs) : id <= v.id
CombineVerdicts(vs) ==
    IF Blocking(vs) = {} THEN Decision("deny", None, TRUE)
    ELSE Decision(Strictest(vs), Deciding(vs), FALSE)

\* Required categories without a blocking verdict; in the faulty variant an
\* advisory one will do.
SilentFaulty(vs) ==
    {c \in request.categories : ~\E v \in vs : v.category = c}
Silent(vs) ==
    {c \in request.categories : ~\E v \in Blocking(vs) : v.category = c}

FailClosedFaulty(d) == [d EXCEPT !.effect = "deny", !.failed_closed = TRUE]
FailClosed(d) == Decision("deny", None, TRUE)

Outcome(vs) ==
    IF Silent(vs) = {} THEN CombineVerdicts(vs) ELSE FailClosed(CombineVerdicts(vs))

-----------------------------------------------------------------------------

Init ==
    /\ loaded \in RuleSetName
    /\ request \in Requests[loaded]
    /\ next = 1
    /\ verdicts = {}
    /\ decision = None

\* A rule that does not apply, lacks a fact or does not match is passed over.
PassOver ==
    /\ next <= Len(Rules)
    /\ ~Speaks(Rules[next])
    /\ next' = next + 1
    /\ UNCHANGED <<loaded, request, verdicts, decision>>

GiveVerdict ==
    /\ next <= Len(Rules)
    /\ Speaks(Rules[next])
    /\ verdicts' = verdicts \cup {Rules[next]}
    /\ next' = next + 1
    /\ UNCHANGED <<loaded, request, decision>>

Decide ==
    /\ next > Len(Rules)
    /\ decision = None
    /\ decision' = Outcome(verdicts)
    /\ UNCHANGED <<loaded, request, next, verdicts>>

Next == PassOver \/ GiveVerdict \/ Decide

Spec == Init /\ [][Next]_vars

-----------------------------------------------------------------------------

Permitted == decision # None /\ decision.effect \in {"allow", "allow_with_approval"}

\* A rule set is made of complementary gates, as rules.category_gate checks:
\* a category has two rules, one of them the other's negation, and one of
\* them allows.
Complement(r, s) ==
    /\ r.category = s.category /\ r.needs = s.needs
    /\ s.when = [r.when EXCEPT !.negated = ~@]
    /\ r.effect = "allow" \/ s.effect = "allow"
Gated(rules) ==
    /\ \A i \in DOMAIN rules :
        /\ rules[i].enabled /\ rules[i].severity = "blocking"
        /\ rules[i].segments = {} /\ rules[i].channels = {}
    /\ \A i \in DOMAIN rules : \E j \in DOMAIN rules :
        /\ Complement(rules[i], rules[j]) /\ i # j
        /\ \A k \in DOMAIN rules :
            rules[k].category = rules[i].category => k \in {i, j}

\* The types; a decision that failed closed denies and names no rule, and any
\* other names one of the rules that matched.
TypeOK ==
    /\ loaded \in RuleSetName
    /\ request.categories \subseteq Category
    /\ next \in 1..(Len(Rules) + 1)
    /\ verdicts \subseteq Rule
    /\ decision # None =>
        /\ decision.effect \in Effect
        /\ decision.failed_closed <=> decision.deciding = None
        /\ decision.failed_closed => decision.effect = "deny"
        /\ ~decision.failed_closed => decision.deciding \in {v.id : v \in verdicts}

\* No permitted action is denied or deferred by a blocking rule that speaks
\* on it, wherever the rule stands in the set, and none that a rule sends to
\* a human goes ahead without one.
ForbiddenIsNotPermitted ==
    Permitted => \A i \in DOMAIN Rules :
        Speaks(Rules[i]) /\ Rules[i].severity = "blocking" =>
            /\ Rules[i].effect \in {"allow", "allow_with_approval"}
            /\ Rules[i].effect = "allow_with_approval" =>
                    decision.effect = "allow_with_approval"

\* A permitted action was spoken for in every category it declares, by a rule
\* that had the power to block it.
PermittedInEveryCategory ==
    Permitted => \A c \in request.categories : \E i \in DOMAIN Rules :
        /\ Rules[i].category = c
        /\ Rules[i].severity = "blocking"
        /\ Speaks(Rules[i])

\* Under complementary gates nothing is permitted on missing facts: skipping
\* a rule for want of one never lifts a denial.
PermittedOnAllFacts ==
    Permitted /\ Gated(Rules) => \A i \in DOMAIN Rules :
        Applies(Rules[i]) => Rules[i].needs \subseteq DOMAIN request.facts

=============================================================================
