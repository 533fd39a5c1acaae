--------------------------- MODULE PolicyRulesProofs ---------------------------
(***************************************************************************)
(* What a permitted action can rely on, for every rule set, every order of *)
(* its rules and every bundle of facts; and what the shipped rules promise *)
(* for whatever conditions the facts of a request were built from.         *)
(***************************************************************************)
EXTENDS PolicyRules, FiniteSetTheorems, WellFoundedInduction, TLAPS

-----------------------------------------------------------------------------
(***************************************************************************)
(* The engine.                                                             *)
(***************************************************************************)

\* The verdicts are those of the rules the loop has passed and that speak,
\* and a decision is what combine_verdicts makes of all of them.
EngineInv ==
    /\ loaded \in RuleSetName
    /\ request \in Requests[loaded]
    /\ next \in 1..(Len(Rules) + 1)
    /\ verdicts = {Rules[i] : i \in {j \in 1..(next - 1) : Speaks(Rules[j])}}
    /\ decision # None => next = Len(Rules) + 1 /\ decision = Outcome(verdicts)

\* A non-empty set of rule ids has a least element.
LEMMA LeastId ==
    ASSUME NEW T, T \subseteq Nat, T # {}
    PROVE  \E x \in T : \A y \in T : x <= y
<1>1. PICK x \in T : \A y \in T : ~(<<y, x>> \in OpToRel(<, Nat))
  BY NatLessThanWellFounded, WFMin, Zenon
<1>2. ASSUME NEW y \in T PROVE x <= y
  <2>1. ~(y < x)
    BY <1>1, <1>2 DEF OpToRel
  <2> QED BY <2>1
<1> QED BY <1>2

\* The rules of a rule set are rules.
LEMMA RulesAreRules ==
    ASSUME loaded \in RuleSetName
    PROVE  /\ Rules \in Seq(Rule)
           /\ Len(Rules) \in Nat
           /\ DOMAIN Rules = 1..Len(Rules)
           /\ \A i \in 1..Len(Rules) : Rules[i] \in Rule
<1>1. Rules \in Seq(Rule)
  BY RuleSetAssumption, Zenon DEF Rules
<1> HIDE DEF Rules, Rule
<1> QED BY <1>1

\* The strictest effect is that of a blocking verdict, and none outranks it.
LEMMA StrictestExists ==
    ASSUME NEW vs, vs \subseteq Rule, Blocking(vs) # {}
    PROVE  /\ Strictest(vs) \in {v.effect : v \in Blocking(vs)}
           /\ \A v \in Blocking(vs) : Strictness[v.effect] <= Strictness[Strictest(vs)]
<1> DEFINE effects == {v.effect : v \in Blocking(vs)}
<1> DEFINE Tops(e) == \A v \in Blocking(vs) : Strictness[v.effect] <= Strictness[e]
<1>1. \A v \in Blocking(vs) : v.effect \in Effect
  BY DEF Blocking, Rule
<1>2. \E e \in effects : Tops(e)
  <2>1. CASE "deny" \in effects
    BY <1>1, <2>1 DEF Strictness, Effect
  <2>2. CASE "deny" \notin effects /\ "defer" \in effects
    BY <1>1, <2>2 DEF Strictness, Effect
  <2>3. CASE effects \cap {"deny", "defer"} = {} /\ "allow_with_approval" \in effects
    BY <1>1, <2>3 DEF Strictness, Effect
  <2>4. CASE effects \subseteq {"allow"}
    BY <1>1, <2>4 DEF Strictness, Effect
  <2>5. effects \subseteq Effect
    BY <1>1
  <2> QED BY <2>1, <2>2, <2>3, <2>4, <2>5 DEF Effect
<1> QED BY <1>2, Zenon DEF Strictest

\* The deciding rule is one of the winners.
LEMMA DecidingExists ==
    ASSUME NEW vs, vs \subseteq Rule, Blocking(vs) # {}
    PROVE  Deciding(vs) \in {v.id : v \in vs} \cap Nat
<1> DEFINE ids == {v.id : v \in Winners(vs)}
<1>1. ids # {}
  BY StrictestExists DEF Winners
<1>2. ids \subseteq {v.id : v \in vs} \cap Nat
  BY DEF Winners, Blocking, Rule
<1>3. PICK x \in ids : \A y \in ids : x <= y
  BY <1>1, <1>2, LeastId
<1>4. \A v \in Winners(vs) : x <= v.id
  BY <1>3
<1>5. Deciding(vs) \in ids
  BY <1>3, <1>4, Zenon DEF Deciding
<1> QED BY <1>2, <1>5

\* What the outcome of some verdicts is.
LEMMA OutcomeShape ==
    ASSUME NEW vs, vs \subseteq Rule
    PROVE  \/ /\ Outcome(vs) = Decision("deny", None, TRUE)
           \/ /\ Silent(vs) = {}
              /\ Blocking(vs) # {}
              /\ Outcome(vs) = Decision(Strictest(vs), Deciding(vs), FALSE)
BY DEF Outcome, CombineVerdicts, FailClosed

-----------------------------------------------------------------------------

LEMMA InitHolds == Init => EngineInv
<1> SUFFICES ASSUME Init PROVE EngineInv OBVIOUS
<1>1. Len(Rules) \in Nat
  BY RulesAreRules DEF Init
<1>2. {j \in 1..(next - 1) : Speaks(Rules[j])} = {}
  BY DEF Init
<1> QED BY <1>1, <1>2 DEF Init, EngineInv

LEMMA StepKeeps == EngineInv /\ [Next]_vars => EngineInv'
<1> SUFFICES ASSUME EngineInv, [Next]_vars PROVE EngineInv' OBVIOUS
<1> USE DEF EngineInv
<1>n. /\ Len(Rules) \in Nat
      /\ next \in Nat
  BY RulesAreRules
<1>1. CASE PassOver
  <2>1. /\ Rules' = Rules /\ request' = request
        /\ \A r : Speaks(r)' <=> Speaks(r)
    BY <1>1 DEF PassOver, Rules, Speaks, Applies, Evaluable, Matches, Holds, IsTrue
  <2>2. /\ loaded' \in RuleSetName
        /\ request' \in Requests[loaded']
        /\ next' \in 1..(Len(Rules) + 1)
        /\ next' - 1 = next
    BY <1>1, <1>n DEF PassOver
  <2>3. decision = None
    BY <1>1, <1>n DEF PassOver
  <2>4. {j \in 1..next : Speaks(Rules[j])} = {j \in 1..(next - 1) : Speaks(Rules[j])}
    BY <1>1, <1>n DEF PassOver
  <2>5. verdicts' = {Rules[i] : i \in {j \in 1..next : Speaks(Rules[j])}}
    BY <1>1, <2>4 DEF PassOver
  <2> QED BY <1>1, <2>1, <2>2, <2>3, <2>5 DEF PassOver
<1>2. CASE GiveVerdict
  <2>1. /\ Rules' = Rules /\ request' = request
        /\ \A r : Speaks(r)' <=> Speaks(r)
    BY <1>2 DEF GiveVerdict, Rules, Speaks, Applies, Evaluable, Matches, Holds, IsTrue
  <2>2. /\ loaded' \in RuleSetName
        /\ request' \in Requests[loaded']
        /\ next' \in 1..(Len(Rules) + 1)
        /\ next' - 1 = next
    BY <1>2, <1>n DEF GiveVerdict
  <2>3. decision = None
    BY <1>2, <1>n DEF GiveVerdict
  <2>4. {j \in 1..next : Speaks(Rules[j])}
            = {j \in 1..(next - 1) : Speaks(Rules[j])} \cup {next}
    BY <1>2, <1>n DEF GiveVerdict
  <2>5. verdicts' = {Rules[i] : i \in {j \in 1..next : Speaks(Rules[j])}}
    BY <1>2, <2>4 DEF GiveVerdict
  <2> QED BY <1>2, <2>1, <2>2, <2>3, <2>5 DEF GiveVerdict
<1>3. CASE Decide
  <2>1. /\ Rules' = Rules
        /\ \A r : Speaks(r)' <=> Speaks(r)
    BY <1>3 DEF Decide, Rules, Speaks, Applies, Evaluable, Matches, Holds, IsTrue
  <2>2. Outcome(verdicts)' = Outcome(verdicts)
    BY <1>3 DEF Decide, Outcome, Silent
  <2> QED BY <1>3, <1>n, <2>1, <2>2 DEF Decide
<1>4. CASE UNCHANGED vars
  <2>1. /\ Rules' = Rules
        /\ \A r : Speaks(r)' <=> Speaks(r)
    BY <1>4 DEF vars, Rules, Speaks, Applies, Evaluable, Matches, Holds, IsTrue
  <2>2. Outcome(verdicts)' = Outcome(verdicts)
    BY <1>4 DEF vars, Outcome, Silent
  <2> QED BY <1>4, <2>1, <2>2 DEF vars
<1> QED BY <1>1, <1>2, <1>3, <1>4 DEF Next

\* The invariant holds in every reachable state.
THEOREM EngineInvAlways == Spec => []EngineInv
BY InitHolds, StepKeeps, PTL DEF Spec

-----------------------------------------------------------------------------

\* The verdicts are rules; when a decision is taken they are all those that
\* speak.
LEMMA DecidedOnAll ==
    ASSUME EngineInv
    PROVE  /\ verdicts \subseteq Rule
           /\ decision # None =>
                /\ decision = Outcome(verdicts)
                /\ verdicts = {Rules[i] : i \in {j \in DOMAIN Rules : Speaks(Rules[j])}}
<1>1. /\ next \in 1..(Len(Rules) + 1)
      /\ Len(Rules) \in Nat
      /\ DOMAIN Rules = 1..Len(Rules)
      /\ \A i \in 1..Len(Rules) : Rules[i] \in Rule
      /\ 1..(next - 1) \subseteq 1..Len(Rules)
  BY RulesAreRules DEF EngineInv
<1>2. verdicts \subseteq Rule
  BY <1>1 DEF EngineInv
<1>3. decision # None => 1..(next - 1) = DOMAIN Rules
  BY <1>1 DEF EngineInv
<1> QED BY <1>2, <1>3 DEF EngineInv

\* What a permission rests on.
LEMMA PermittedMeans ==
    ASSUME EngineInv, Permitted
    PROVE  /\ verdicts \subseteq Rule
           /\ verdicts = {Rules[i] : i \in {j \in DOMAIN Rules : Speaks(Rules[j])}}
           /\ Silent(verdicts) = {}
           /\ Blocking(verdicts) # {}
           /\ decision.effect = Strictest(verdicts)
           /\ decision.effect \in {"allow", "allow_with_approval"}
<1>1. Permitted => decision # None /\ decision.effect \in {"allow", "allow_with_approval"}
  BY DEF Permitted
<1>2. /\ decision = Outcome(verdicts)
      /\ verdicts \subseteq Rule
      /\ verdicts = {Rules[i] : i \in {j \in DOMAIN Rules : Speaks(Rules[j])}}
  BY <1>1, DecidedOnAll
<1>3. decision # Decision("deny", None, TRUE)
  BY <1>1 DEF Decision
<1>4. /\ Silent(verdicts) = {}
      /\ Blocking(verdicts) # {}
      /\ decision = Decision(Strictest(verdicts), Deciding(verdicts), FALSE)
  BY <1>2, <1>3, OutcomeShape
<1>5. decision.effect = Strictest(verdicts)
  BY <1>4 DEF Decision
<1> QED BY <1>1, <1>2, <1>4, <1>5

\* No permitted action is denied or deferred by a blocking rule that speaks
\* on it, and none that needs a human goes ahead without one.
THEOREM ForbiddenIsNotPermittedAlways == Spec => []ForbiddenIsNotPermitted
<1>1. ASSUME EngineInv PROVE ForbiddenIsNotPermitted
  <2> SUFFICES ASSUME Permitted,
                      NEW i \in DOMAIN Rules,
                      Speaks(Rules[i]), Rules[i].severity = "blocking"
               PROVE  /\ Rules[i].effect \in {"allow", "allow_with_approval"}
                      /\ Rules[i].effect = "allow_with_approval" =>
                            decision.effect = "allow_with_approval"
    BY DEF ForbiddenIsNotPermitted
  <2>1. Rules[i] \in Blocking(verdicts)
    BY <1>1, PermittedMeans DEF Blocking
  <2>2. Strictness[Rules[i].effect] <= Strictness[decision.effect]
    BY <1>1, <2>1, PermittedMeans, StrictestExists
  <2>3. Rules[i].effect \in Effect
    BY <1>1, <2>1, PermittedMeans DEF Blocking, Rule
  <2>4. decision.effect \in {"allow", "allow_with_approval"}
    BY <1>1, PermittedMeans
  <2> QED BY <2>2, <2>3, <2>4 DEF Strictness, Effect
<1> QED BY <1>1, EngineInvAlways, PTL

\* A permitted action was spoken for in every category it declares.
THEOREM PermittedInEveryCategoryAlways == Spec => []PermittedInEveryCategory
<1>1. ASSUME EngineInv PROVE PermittedInEveryCategory
  <2> SUFFICES ASSUME Permitted, NEW c \in request.categories
               PROVE  \E i \in DOMAIN Rules : /\ Rules[i].category = c
                                             /\ Rules[i].severity = "blocking"
                                             /\ Speaks(Rules[i])
    BY DEF PermittedInEveryCategory
  <2>1. PICK v \in Blocking(verdicts) : v.category = c
    BY <1>1, PermittedMeans DEF Silent
  <2>2. v \in {Rules[i] : i \in {j \in DOMAIN Rules : Speaks(Rules[j])}}
    BY <1>1, <2>1, PermittedMeans DEF Blocking
  <2> QED BY <2>1, <2>2 DEF Blocking
<1> QED BY <1>1, EngineInvAlways, PTL

\* Under complementary gates nothing is permitted on missing facts: some rule
\* of every category spoke, so its facts are there, and the other rule of the
\* gate tests the same ones.
THEOREM PermittedOnAllFactsAlways == Spec => []PermittedOnAllFacts
<1>1. ASSUME EngineInv, PermittedInEveryCategory PROVE PermittedOnAllFacts
  <2> SUFFICES ASSUME Permitted, Gated(Rules), NEW i \in DOMAIN Rules, Applies(Rules[i])
               PROVE  Rules[i].needs \subseteq DOMAIN request.facts
    BY DEF PermittedOnAllFacts
  <2>1. PICK k \in DOMAIN Rules : Rules[k].category = Rules[i].category /\ Speaks(Rules[k])
    BY <1>1 DEF PermittedInEveryCategory, Applies
  <2>2. Rules[k].needs \subseteq DOMAIN request.facts
    BY <2>1 DEF Speaks, Evaluable
  <2>3. PICK j \in DOMAIN Rules :
            /\ Complement(Rules[i], Rules[j])
            /\ \A n \in DOMAIN Rules : Rules[n].category = Rules[i].category => n \in {i, j}
    BY DEF Gated
  <2>4. Rules[k].needs = Rules[i].needs
    BY <2>1, <2>3 DEF Complement
  <2> QED BY <2>2, <2>4
<1> QED BY <1>1, EngineInvAlways, PermittedInEveryCategoryAlways, PTL

\* The engine is well typed, and a decision names a rule that spoke exactly
\* when it did not fail closed.
THEOREM EngineTypeCorrect == Spec => []TypeOK
<1>1. ASSUME EngineInv PROVE TypeOK
  <2>1. /\ loaded \in RuleSetName
        /\ request.categories \subseteq Category
        /\ next \in 1..(Len(Rules) + 1)
        /\ verdicts \subseteq Rule
    BY <1>1, DecidedOnAll, RequestFactsAssumption DEF EngineInv
  <2>2. ASSUME decision # None
        PROVE  /\ decision.effect \in Effect
               /\ decision.failed_closed <=> decision.deciding = None
               /\ decision.failed_closed => decision.effect = "deny"
               /\ ~decision.failed_closed => decision.deciding \in {v.id : v \in verdicts}
    <3>1. decision = Outcome(verdicts)
      BY <1>1, <2>2, DecidedOnAll
    <3>2. CASE decision = Decision("deny", None, TRUE)
      BY <3>2 DEF Decision, Effect
    <3>3. CASE /\ Blocking(verdicts) # {}
               /\ decision = Decision(Strictest(verdicts), Deciding(verdicts), FALSE)
      <4>1. Strictest(verdicts) \in Effect
        BY <2>1, <3>3, StrictestExists DEF Blocking, Rule
      <4>2. Deciding(verdicts) \in {v.id : v \in verdicts} \cap Nat
        BY <2>1, <3>3, DecidingExists
      <4>3. Deciding(verdicts) # None
        BY <4>2, NoneAssumption
      <4> QED BY <3>3, <4>1, <4>2, <4>3 DEF Decision
    <3> QED BY <2>1, <3>1, <3>2, <3>3, OutcomeShape
  <2> QED BY <2>1, <2>2 DEF TypeOK
<1> QED BY <1>1, EngineInvAlways, PTL

-----------------------------------------------------------------------------
(***************************************************************************)
(* The shipped rules.                                                      *)
(***************************************************************************)

\* The restrictive rule of every gate of the minimal rule set.
Restrictions ==
    {Restrictive(10, "consent_and_channel", "deny", ConsentFacts),
     Restrictive(80, "timing", "deny", TimingFacts),
     Restrictive(40, "frequency", "deny", FrequencyFacts),
     Restrictive(70, "rail_and_network", "deny", RailFacts),
     Restrictive(20, "content", "deny", ContentFacts),
     Restrictive(30, "financial_authority", "allow_with_approval", AuthorityFacts),
     Restrictive(50, "holds", "deny", HoldFacts),
     Restrictive(60, "integrity", "deny", IntegrityFacts)}

RulesIn(rules) == {rules[i] : i \in DOMAIN rules}
Pair(rule) == {rule, Permissive(rule)}

LEMMA RulesInConcat ==
    ASSUME NEW S, NEW s \in Seq(S), NEW t \in Seq(S)
    PROVE  /\ s \o t \in Seq(S)
           /\ RulesIn(s \o t) = RulesIn(s) \cup RulesIn(t)
<1>1. /\ s \o t \in Seq(S)
      /\ Len(s \o t) = Len(s) + Len(t) /\ Len(s) \in Nat /\ Len(t) \in Nat
      /\ DOMAIN s = 1..Len(s) /\ DOMAIN t = 1..Len(t)
      /\ DOMAIN (s \o t) = 1..(Len(s) + Len(t))
  OBVIOUS
<1>2. /\ \A i \in DOMAIN s : (s \o t)[i] = s[i]
      /\ \A i \in DOMAIN t : (s \o t)[Len(s) + i] = t[i]
      /\ \A i \in DOMAIN (s \o t) :
            i \in DOMAIN s \/ (i - Len(s) \in DOMAIN t /\ (s \o t)[i] = t[i - Len(s)])
  BY <1>1
<1>3. RulesIn(s) \subseteq RulesIn(s \o t)
  BY <1>1, <1>2 DEF RulesIn
<1>4. RulesIn(t) \subseteq RulesIn(s \o t)
  <2> SUFFICES ASSUME NEW i \in DOMAIN t PROVE t[i] \in RulesIn(s \o t)
    BY DEF RulesIn
  <2>1. Len(s) + i \in DOMAIN (s \o t) /\ (s \o t)[Len(s) + i] = t[i]
    BY <1>1, <1>2
  <2> QED
    BY <2>1, Zenon DEF RulesIn
<1>5. RulesIn(s \o t) \subseteq RulesIn(s) \cup RulesIn(t)
  BY <1>1, <1>2 DEF RulesIn
<1> QED
  BY <1>1, <1>3, <1>4, <1>5

LEMMA RulesInGate ==
    ASSUME NEW S, NEW id, NEW category, NEW effect, NEW facts,
           Pair(Restrictive(id, category, effect, facts)) \subseteq S
    PROVE  /\ Gate(id, category, effect, facts) \in Seq(S)
           /\ RulesIn(Gate(id, category, effect, facts))
                = Pair(Restrictive(id, category, effect, facts))
<1> DEFINE rule == Restrictive(id, category, effect, facts)
<1>1. Gate(id, category, effect, facts) = <<rule, Permissive(rule)>>
  BY DEF Gate
<1>2. rule \in S /\ Permissive(rule) \in S
  BY DEF Pair
<1> HIDE DEF rule
<1>3. ASSUME NEW r, NEW p, r \in S, p \in S
      PROVE  <<r, p>> \in Seq(S) /\ RulesIn(<<r, p>>) = {r, p}
  BY <1>3 DEF RulesIn
<1> QED
  BY <1>1, <1>2, <1>3 DEF Pair, rule
\* The rules are those of the eight gates.
LEMMA RulesInMinimalRuleSet ==
    RulesIn(MinimalRuleSet) = UNION {Pair(rule) : rule \in Restrictions}
<1> DEFINE S == UNION {Pair(rule) : rule \in Restrictions}
           g1 == Gate(10, "consent_and_channel", "deny", ConsentFacts)
           g2 == Gate(80, "timing", "deny", TimingFacts)
           g3 == Gate(40, "frequency", "deny", FrequencyFacts)
           g4 == Gate(70, "rail_and_network", "deny", RailFacts)
           g5 == Gate(20, "content", "deny", ContentFacts)
           g6 == Gate(30, "financial_authority", "allow_with_approval", AuthorityFacts)
           g7 == Gate(50, "holds", "deny", HoldFacts)
           g8 == Gate(60, "integrity", "deny", IntegrityFacts)
           p1 == Pair(Restrictive(10, "consent_and_channel", "deny", ConsentFacts))
           p2 == Pair(Restrictive(80, "timing", "deny", TimingFacts))
           p3 == Pair(Restrictive(40, "frequency", "deny", FrequencyFacts))
           p4 == Pair(Restrictive(70, "rail_and_network", "deny", RailFacts))
           p5 == Pair(Restrictive(20, "content", "deny", ContentFacts))
           p6 == Pair(Restrictive(30, "financial_authority", "allow_with_approval", AuthorityFacts))
           p7 == Pair(Restrictive(50, "holds", "deny", HoldFacts))
           p8 == Pair(Restrictive(60, "integrity", "deny", IntegrityFacts))
<1>1. S = p1 \cup p2 \cup p3 \cup p4 \cup p5 \cup p6 \cup p7 \cup p8
  BY DEF Restrictions
<1>2. /\ p1 \subseteq S /\ p2 \subseteq S /\ p3 \subseteq S /\ p4 \subseteq S
      /\ p5 \subseteq S /\ p6 \subseteq S /\ p7 \subseteq S /\ p8 \subseteq S
  <2> HIDE DEF p1, p2, p3, p4, p5, p6, p7, p8, S
  <2> QED
    BY <1>1
<1> HIDE DEF S
<1>3. /\ g1 \in Seq(S) /\ RulesIn(g1) = p1
      /\ g2 \in Seq(S) /\ RulesIn(g2) = p2
      /\ g3 \in Seq(S) /\ RulesIn(g3) = p3
      /\ g4 \in Seq(S) /\ RulesIn(g4) = p4
      /\ g5 \in Seq(S) /\ RulesIn(g5) = p5
      /\ g6 \in Seq(S) /\ RulesIn(g6) = p6
      /\ g7 \in Seq(S) /\ RulesIn(g7) = p7
      /\ g8 \in Seq(S) /\ RulesIn(g8) = p8
  BY <1>2, RulesInGate
<1>4. MinimalRuleSet = g1 \o g2 \o g3 \o g4 \o g5 \o g6 \o g7 \o g8
  BY DEF MinimalRuleSet
<1> HIDE DEF g1, g2, g3, g4, g5, g6, g7, g8, p1, p2, p3, p4, p5, p6, p7, p8
<1> DEFINE h2 == g1 \o g2
           h3 == h2 \o g3
           h4 == h3 \o g4
           h5 == h4 \o g5
           h6 == h5 \o g6
           h7 == h6 \o g7
           h8 == h7 \o g8
<1>5. h2 \in Seq(S) /\ RulesIn(h2) = p1 \cup p2
  BY <1>3, RulesInConcat
<1> HIDE DEF h2
<1>6. h3 \in Seq(S) /\ RulesIn(h3) = p1 \cup p2 \cup p3
  BY <1>3, <1>5, RulesInConcat
<1> HIDE DEF h3
<1>7. h4 \in Seq(S) /\ RulesIn(h4) = p1 \cup p2 \cup p3 \cup p4
  BY <1>3, <1>6, RulesInConcat
<1> HIDE DEF h4
<1>8. h5 \in Seq(S) /\ RulesIn(h5) = p1 \cup p2 \cup p3 \cup p4 \cup p5
  BY <1>3, <1>7, RulesInConcat
<1> HIDE DEF h5
<1>9. h6 \in Seq(S) /\ RulesIn(h6) = p1 \cup p2 \cup p3 \cup p4 \cup p5 \cup p6
  BY <1>3, <1>8, RulesInConcat
<1> HIDE DEF h6
<1>10. h7 \in Seq(S) /\ RulesIn(h7) = p1 \cup p2 \cup p3 \cup p4 \cup p5 \cup p6 \cup p7
  BY <1>3, <1>9, RulesInConcat
<1> HIDE DEF h7
<1>11. RulesIn(h8) = p1 \cup p2 \cup p3 \cup p4 \cup p5 \cup p6 \cup p7 \cup p8
  BY <1>3, <1>10, RulesInConcat
<1>12. MinimalRuleSet = h8
  BY <1>4 DEF h2, h3, h4, h5, h6, h7
<1> QED
  BY <1>1, <1>11, <1>12 DEF S

\* A gate is a rule and its complement.
LEMMA GateShape ==
    ASSUME NEW rule \in Restrictions
    PROVE  /\ rule.severity = "blocking" /\ rule.enabled
           /\ rule.segments = {} /\ rule.channels = {}
           /\ Permissive(rule).category = rule.category
           /\ Permissive(rule).needs = rule.needs
           /\ Permissive(rule).severity = "blocking" /\ Permissive(rule).enabled
           /\ Permissive(rule).segments = {} /\ Permissive(rule).channels = {}
           /\ rule.when.any_of = {[true |-> {f}, false |-> {}] : f \in rule.needs}
           /\ ~rule.when.negated
           /\ Permissive(rule).when.any_of = rule.when.any_of
           /\ Permissive(rule).when.negated
<1>1. PICK id, category, effect, facts : rule = Restrictive(id, category, effect, facts)
  BY Zenon DEF Restrictions
<1>2. rule = [id |-> id, category |-> category, effect |-> effect,
              severity |-> "blocking", enabled |-> TRUE, needs |-> facts,
              when |-> AnyOf(facts), segments |-> {}, channels |-> {}]
  BY <1>1 DEF Restrictive
<1>3. /\ rule.severity = "blocking" /\ rule.enabled = TRUE
      /\ rule.segments = {} /\ rule.channels = {}
      /\ rule.needs = facts /\ rule.when = AnyOf(facts)
  BY <1>2
<1>4. /\ Permissive(rule).category = category
      /\ Permissive(rule).needs = facts
      /\ Permissive(rule).severity = "blocking"
      /\ Permissive(rule).segments = {} /\ Permissive(rule).channels = {}
  BY <1>2 DEF Permissive
<1>5. Permissive(rule).enabled
  BY <1>2 DEF Permissive
<1>6. Permissive(rule).when
        = [any_of |-> rule.when.any_of, negated |-> ~rule.when.negated]
  BY <1>2 DEF Permissive
<1>7. Permissive(rule).when.any_of = rule.when.any_of
  BY <1>6
<1>8. ~rule.when.negated
  BY <1>3 DEF AnyOf
<1>9. Permissive(rule).when.negated
  <2>1. Permissive(rule).when.negated
            = [any_of |-> rule.when.any_of, negated |-> ~rule.when.negated].negated
    BY <1>6
  <2>2. [any_of |-> rule.when.any_of, negated |-> ~rule.when.negated].negated
            = ~rule.when.negated
    BY Zenon
  <2> QED
    BY <1>8, <2>1, <2>2, Zenon
<1>10. rule.when.any_of = {[true |-> {f}, false |-> {}] : f \in rule.needs}
  BY <1>3 DEF AnyOf
<1> QED
  BY <1>2, <1>3, <1>4, <1>5, <1>7, <1>8, <1>9, <1>10

\* No two gates are about one category.
LEMMA OneGatePerCategory ==
    ASSUME NEW r \in Restrictions, NEW s \in Restrictions, r.category = s.category
    PROVE  r = s
<1> DEFINE g1 == Restrictive(10, "consent_and_channel", "deny", ConsentFacts)
           g2 == Restrictive(80, "timing", "deny", TimingFacts)
           g3 == Restrictive(40, "frequency", "deny", FrequencyFacts)
           g4 == Restrictive(70, "rail_and_network", "deny", RailFacts)
           g5 == Restrictive(20, "content", "deny", ContentFacts)
           g6 == Restrictive(30, "financial_authority", "allow_with_approval", AuthorityFacts)
           g7 == Restrictive(50, "holds", "deny", HoldFacts)
           g8 == Restrictive(60, "integrity", "deny", IntegrityFacts)
<1>1. Restrictions = {g1, g2, g3, g4, g5, g6, g7, g8}
  BY DEF Restrictions
<1>2. /\ g1.category = "consent_and_channel" /\ g2.category = "timing"
      /\ g3.category = "frequency" /\ g4.category = "rail_and_network"
      /\ g5.category = "content" /\ g6.category = "financial_authority"
      /\ g7.category = "holds" /\ g8.category = "integrity"
  BY DEF Restrictive
<1> HIDE DEF g1, g2, g3, g4, g5, g6, g7, g8
<1> QED
  BY <1>1, <1>2

\* Every category has a gate.
LEMMA EveryCategoryHasGate ==
    ASSUME NEW c \in PolicyCategory
    PROVE  \E rule \in Restrictions : rule.category = c
BY DEF PolicyCategory, Restrictions, Restrictive

\* With its facts in place exactly one rule of a gate speaks.
LEMMA OneOfThePairSpeaks ==
    ASSUME NEW rule \in Restrictions, rule.category \in request.categories,
           rule.needs \subseteq DOMAIN request.facts
    PROVE  Speaks(rule) <=> ~Speaks(Permissive(rule))
<1>1. /\ Applies(rule) /\ Evaluable(rule)
      /\ Applies(Permissive(rule)) /\ Evaluable(Permissive(rule))
  BY GateShape DEF Applies, Evaluable
<1>2. Matches(rule) <=> \E clause \in rule.when.any_of : Holds(clause)
  <2>1. ~rule.when.negated
    BY GateShape
  <2> QED
    BY <2>1 DEF Matches
<1>3. Matches(Permissive(rule)) <=> ~\E clause \in rule.when.any_of : Holds(clause)
  <2>1. /\ Permissive(rule).when.any_of = rule.when.any_of
        /\ Permissive(rule).when.negated
    BY GateShape
  <2> HIDE DEF Permissive
  <2> QED
    BY <2>1 DEF Matches
<1> QED
  BY <1>1, <1>2, <1>3 DEF Speaks

\* The request is one the builder made, when the rules are the shipped ones.
LEMMA BuiltRequest ==
    ASSUME EngineInv, Rules = MinimalRuleSet
    PROVE  /\ request.action \in ActionType
           /\ request.categories = PolicyCategories[request.action]
           /\ request.facts = BuildFacts(request.action, request.conditions)
BY BuiltRequestAssumption DEF EngineInv, Rules

\* Every category a governed action declares has a gate whose facts it builds.
LEMMA GovernedHasFacts ==
    ASSUME EngineInv, Rules = MinimalRuleSet, request.action \in GovernedActionTypes
    PROVE  /\ request.categories \subseteq PolicyCategory
           /\ {"holds", "integrity"} \subseteq request.categories
           /\ \A rule \in Restrictions : rule.category \in request.categories =>
                rule.needs \subseteq DOMAIN request.facts
<1>1. DOMAIN request.facts = FactsFor(request.action)
  BY BuiltRequest DEF BuildFacts
<1>2. CASE request.action = "schedule_debit"
  <2>1. request.categories =
            {"rail_and_network", "financial_authority", "holds", "integrity"}
    BY <1>2, BuiltRequest DEF PolicyCategories, PolicyCategory, ContactCategories
  <2>2. HoldFacts \cup IntegrityFacts \cup RailFacts \cup AuthorityFacts
            \subseteq DOMAIN request.facts
    BY <1>1, <1>2 DEF FactsFor, HoldFacts
  <2>3. ASSUME NEW rule \in Restrictions, rule.category \in request.categories
        PROVE  rule.needs \subseteq DOMAIN request.facts
    BY <2>1, <2>2, <2>3 DEF Restrictions, Restrictive
  <2> QED
    BY <2>1, <2>3 DEF PolicyCategory
<1>3. CASE request.action = "send_message"
  <2>1. request.categories =
            {"consent_and_channel", "timing", "frequency", "content", "holds", "integrity"}
    BY <1>3, BuiltRequest DEF PolicyCategories, PolicyCategory, ContactCategories
  <2>2. HoldFacts \cup IntegrityFacts \cup ConsentFacts \cup TimingFacts
            \cup FrequencyFacts \cup ContentFacts \subseteq DOMAIN request.facts
    BY <1>1, <1>3, BuiltRequest, <2>1 DEF FactsFor, HoldFacts
  <2>3. ASSUME NEW rule \in Restrictions, rule.category \in request.categories
        PROVE  rule.needs \subseteq DOMAIN request.facts
    BY <2>1, <2>2, <2>3 DEF Restrictions, Restrictive
  <2> QED
    BY <2>1, <2>3 DEF PolicyCategory
<1> QED
  BY <1>2, <1>3 DEF GovernedActionTypes

\* The verdicts of a decision by the shipped rules.
LEMMA ShippedVerdicts ==
    ASSUME EngineInv, Rules = MinimalRuleSet, decision # None
    PROVE  /\ decision = Outcome(verdicts) /\ verdicts \subseteq Rule
           /\ \A v : v \in verdicts <=>
                /\ Speaks(v)
                /\ \E rule \in Restrictions : v \in Pair(rule)
<1>1. /\ decision = Outcome(verdicts) /\ verdicts \subseteq Rule
      /\ verdicts = {Rules[i] : i \in {j \in DOMAIN Rules : Speaks(Rules[j])}}
  BY DecidedOnAll
<1>2. {Rules[i] : i \in DOMAIN Rules} = UNION {Pair(rule) : rule \in Restrictions}
  BY RulesInMinimalRuleSet DEF RulesIn
<1>3. \A v : v \in verdicts <=> Speaks(v) /\ v \in {Rules[i] : i \in DOMAIN Rules}
  BY <1>1
<1> QED
  BY <1>1, <1>2, <1>3

-----------------------------------------------------------------------------

\* A governed action is decided by a rule, and by exactly one of the pair in
\* every category: complementary rules over one list of facts cannot both
\* speak, and the builder leaves out none of the facts they ask for.
THEOREM GovernedIsDecidedByRuleAlways == Spec => []GovernedIsDecidedByRule
<1>1. ASSUME EngineInv PROVE GovernedIsDecidedByRule
  <2> SUFFICES ASSUME Rules = MinimalRuleSet, decision # None,
                      request.action \in GovernedActionTypes
               PROVE  /\ ~decision.failed_closed
                      /\ \A c \in request.categories :
                            Cardinality({v \in verdicts : v.category = c}) = 1
    BY DEF GovernedIsDecidedByRule
  <2>1. ASSUME NEW c \in request.categories
        PROVE  \E v \in Blocking(verdicts) : {w \in verdicts : w.category = c} = {v}
    <3>1. PICK rule \in Restrictions : rule.category = c
      BY <1>1, <2>1, GovernedHasFacts, EveryCategoryHasGate
    <3>2. /\ Speaks(rule) <=> ~Speaks(Permissive(rule))
          /\ rule.severity = "blocking" /\ Permissive(rule).severity = "blocking"
          /\ Permissive(rule).category = c
      BY <1>1, <2>1, <3>1, GovernedHasFacts, OneOfThePairSpeaks, GateShape
    <3>3. PICK v \in Pair(rule) : Speaks(v) /\ \A w \in Pair(rule) : Speaks(w) => w = v
      BY <3>2 DEF Pair
    <3>4. v.category = c /\ v.severity = "blocking"
      BY <3>1, <3>2, <3>3 DEF Pair
    <3>5. ASSUME NEW w \in verdicts, w.category = c PROVE w = v
      <4>1. PICK other \in Restrictions : w \in Pair(other)
        BY <1>1, <3>5, ShippedVerdicts
      <4>2. other.category = c
        BY <3>5, <4>1, GateShape DEF Pair
      <4>3. other = rule
        BY <3>1, <4>2, OneGatePerCategory
      <4> QED
        BY <1>1, <3>3, <3>5, <4>1, <4>3, ShippedVerdicts
    <3>6. v \in verdicts
      BY <1>1, <3>3, ShippedVerdicts
    <3> QED
      BY <3>4, <3>5, <3>6 DEF Blocking
  <2>2. ~decision.failed_closed
    <3>1. Silent(verdicts) = {}
      BY <2>1 DEF Silent
    <3>2. Blocking(verdicts) # {}
      BY <1>1, <2>1, GovernedHasFacts
    <3>3. decision = Decision(Strictest(verdicts), Deciding(verdicts), FALSE)
      BY <1>1, <3>1, <3>2, ShippedVerdicts DEF Outcome, CombineVerdicts
    <3> QED
      BY <3>3 DEF Decision
  <2> QED
    BY <2>1, <2>2, FS_Singleton
<1> QED
  BY <1>1, EngineInvAlways, PTL

\* An open hold of any kind, or a consent withdrawn on any channel, makes the
\* fact of its own or the aggregate one true, so the holds gate denies every
\* governed action, and nothing outranks a denial.
THEOREM HoldStopsEverythingAlways == Spec => []HoldStopsEverything
<1>1. ASSUME EngineInv PROVE HoldStopsEverything
  <2> SUFFICES ASSUME Rules = MinimalRuleSet, decision # None,
                      request.action \in GovernedActionTypes,
                      request.conditions \cap
                        (HoldKind \cup {"withdrawn_on_channel", "withdrawn_elsewhere"}) # {}
               PROVE  decision.effect = "deny"
    BY DEF HoldStopsEverything
  <2> DEFINE gate == Restrictive(50, "holds", "deny", HoldFacts)
  <2>1. /\ gate \in Restrictions /\ gate.category = "holds"
        /\ gate.effect = "deny" /\ gate.needs = HoldFacts
        /\ gate.severity = "blocking"
    BY DEF Restrictions, Restrictive
  <2> HIDE DEF gate
  <2>2. Applies(gate) /\ Evaluable(gate)
    BY <1>1, <2>1, GovernedHasFacts, GateShape DEF Applies, Evaluable
  <2>3. PICK fact \in HoldFacts : FactHolds(request.action, fact, request.conditions)
    <3>1. CASE request.conditions \cap HoldKind # {}
      <4>1. FactHolds(request.action, "has_active_hold", request.conditions)
        BY <3>1 DEF FactHolds, GroundsOf, Grounds, ContentFacts
      <4> QED
        BY <4>1 DEF HoldFacts
    <3>2. CASE request.conditions \cap {"withdrawn_on_channel", "withdrawn_elsewhere"} # {}
      <4>1. FactHolds(request.action, "is_opted_out", request.conditions)
        BY <3>2 DEF FactHolds, GroundsOf, Grounds, ContentFacts
      <4> QED
        BY <4>1 DEF HoldFacts, NamedHoldFacts
    <3> QED
      BY <3>1, <3>2
  <2>4. IsTrue(fact)
    <3>1. fact \in DOMAIN request.facts
      BY <2>1, <2>2 DEF Evaluable
    <3>2. request.facts[fact] = FactHolds(request.action, fact, request.conditions)
      BY <1>1, <3>1, BuiltRequest DEF BuildFacts
    <3> QED
      BY <2>3, <3>1, <3>2 DEF IsTrue
  <2>5. Matches(gate)
    <3>1. /\ gate.when.any_of = {[true |-> {f}, false |-> {}] : f \in HoldFacts}
          /\ ~gate.when.negated
      BY <2>1, GateShape
    <3>2. [true |-> {fact}, false |-> {}] \in gate.when.any_of
      BY <3>1
    <3>3. Holds([true |-> {fact}, false |-> {}])
      BY <2>4 DEF Holds
    <3> QED
      BY <3>1, <3>2, <3>3 DEF Matches
  <2>6. gate \in Blocking(verdicts)
    BY <1>1, <2>1, <2>2, <2>5, ShippedVerdicts DEF Blocking, Speaks, Pair
  <2>7. CASE decision = Decision("deny", None, TRUE)
    BY <2>7 DEF Decision
  <2>8. CASE decision = Decision(Strictest(verdicts), Deciding(verdicts), FALSE)
    <3>1. verdicts \subseteq Rule
      BY <1>1, ShippedVerdicts
    <3>2. /\ Strictness["deny"] <= Strictness[Strictest(verdicts)]
          /\ Strictest(verdicts) \in {v.effect : v \in Blocking(verdicts)}
      BY <2>1, <2>6, <3>1, StrictestExists
    <3>3. Strictest(verdicts) \in Effect
      BY <3>1, <3>2 DEF Blocking, Rule
    <3>4. Strictest(verdicts) = "deny"
      BY <3>2, <3>3 DEF Strictness, Effect
    <3> QED
      BY <2>8, <3>4 DEF Decision
  <2> QED
    BY <1>1, <2>7, <2>8, ShippedVerdicts, OutcomeShape
<1> QED
  BY <1>1, EngineInvAlways, PTL

=============================================================================
