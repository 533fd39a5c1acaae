-------------------------------- MODULE Metrics --------------------------------
(***************************************************************************)
(* The formulas of the experiment's result (reclaim/contracts/metrics.py)  *)
(* over money in whole paise.  A ratio is a Decimal rounded once to a      *)
(* fixed number of places (contracts/units.py): here, a whole number of    *)
(* 1/Scale.                                                                *)
(*                                                                         *)
(*   arm outcome  [arm, stratum, cases, recovered, at_risk, gross, cost,   *)
(*                 contacts, opt_outs, policy_violations]                  *)
(***************************************************************************)
EXTENDS Money, Sequences, FiniteSets

CONSTANTS
    Scale,
    NoArm     \* the side of a stratum that has no arm

ASSUME ScaleAssumption == Scale \in Nat \ {0}

\* What a ValueError leaves: nothing.
Refused == <<>>

SmallerOf(a, b) == IF a <= b THEN a ELSE b

-----------------------------------------------------------------------------

Ratio(n, d) == HalfUp(n * Scale, d)

\* Money * Ratio.
MoneyTimes(paise, ratio) == HalfUp(paise * ratio, Scale)

-----------------------------------------------------------------------------
(***************************************************************************)
(* ArmOutcome.                                                             *)
(***************************************************************************)

ContactedCaseCount(o) == SmallerOf(o.cases, o.contacts)
NetRecovered(o) == o.gross - o.cost

IsArmOutcome(o) ==
    /\ {o.cases, o.contacts, o.opt_outs, o.policy_violations} \subseteq Nat
    /\ o.recovered <= o.cases
    /\ o.gross <= o.at_risk
    /\ o.opt_outs <= ContactedCaseCount(o)

NetRecoveredPerRupeeAtRisk(o) == Ratio(NetRecovered(o), o.at_risk)
OptOutRate(o) == Ratio(o.opt_outs, ContactedCaseCount(o))

-----------------------------------------------------------------------------
(***************************************************************************)
(* The headline.                                                           *)
(***************************************************************************)

Comparable(treatment, control) ==
    treatment.arm # control.arm /\ treatment.at_risk # 0 /\ control.at_risk # 0

Delta(treatment, control) ==
    NetRecoveredPerRupeeAtRisk(treatment) - NetRecoveredPerRupeeAtRisk(control)

\* net_incremental_recovery.
NetIncrementalRecovery(treatment, control, total) ==
    IF ~Comparable(treatment, control) THEN Refused
    ELSE [delta |-> Delta(treatment, control),
          point |-> MoneyTimes(total, Delta(treatment, control)),
          total_at_risk |-> total, strata |-> 1]

\* Strata with the outcomes of their two arms, and what each stratum has at
\* risk: no negative amount, as it is what obligations owe.
IsStrata(pairs, at_risk) ==
    /\ IsFiniteSet(DOMAIN pairs) /\ IsFiniteSet(DOMAIN at_risk)
    /\ \A s \in DOMAIN at_risk : at_risk[s] \in Nat
    /\ \A s \in DOMAIN pairs : \A o \in {pairs[s].treatment, pairs[s].control} \ {NoArm} :
        o.at_risk \in Nat /\ o.gross \in Int /\ o.cost \in Int

\* pairs: stratum -> [treatment, control], either NoArm; at_risk: stratum ->
\* money, also of strata that are not compared.  The faulty variant skips a
\* stratum without its counterfactual.
Matched(pair, s) ==
    /\ pair.treatment # NoArm /\ pair.control # NoArm
    /\ pair.treatment.stratum = s /\ pair.control.stratum = s
    /\ Comparable(pair.treatment, pair.control)

StratumRefusals(pairs, at_risk) ==
    \/ DOMAIN pairs = {}
    \/ MoneySum(at_risk) = 0
    \/ \E s \in DOMAIN pairs : ~Matched(pairs[s], s) \/ s \notin DOMAIN at_risk
    \/ Cardinality({pairs[s].treatment.arm : s \in DOMAIN pairs}) # 1
    \/ Cardinality({pairs[s].control.arm : s \in DOMAIN pairs}) # 1

Weighted(pairs, at_risk) ==
    LET total == MoneySum(at_risk)
        delta == HalfUp(MoneySum([s \in DOMAIN pairs |->
                                    Delta(pairs[s].treatment, pairs[s].control) * at_risk[s]]),
                        total)
    IN  [delta |-> delta, point |-> MoneyTimes(total, delta),
         total_at_risk |-> total, strata |-> Cardinality(DOMAIN pairs)]

StratumWeightedFaulty(pairs, at_risk) ==
    LET matched == {s \in DOMAIN pairs : Matched(pairs[s], s)}
        kept == [s \in matched |-> pairs[s]]
    IN  IF StratumRefusals(kept, at_risk) THEN Refused ELSE Weighted(kept, at_risk)
StratumWeighted(pairs, at_risk) ==
    IF StratumRefusals(pairs, at_risk) THEN Refused ELSE Weighted(pairs, at_risk)

-----------------------------------------------------------------------------
(***************************************************************************)
(* The guardrail: recovery is not an input.  The faulty variant lets an    *)
(* arm that contacted nobody pass.                                         *)
(***************************************************************************)

GuardrailContractHoldsFaulty(treatment, control) ==
    /\ treatment.policy_violations = 0
    /\ \/ ContactedCaseCount(treatment) = 0 \/ ContactedCaseCount(control) = 0
       \/ OptOutRate(treatment) <= OptOutRate(control)
GuardrailContractHolds(treatment, control) ==
    /\ treatment.policy_violations = 0
    /\ ContactedCaseCount(treatment) # 0 /\ ContactedCaseCount(control) # 0
    /\ OptOutRate(treatment) <= OptOutRate(control)

=============================================================================
