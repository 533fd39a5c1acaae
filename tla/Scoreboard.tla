------------------------------ MODULE Scoreboard ------------------------------
(***************************************************************************)
(* The scoreboard over the resolved outcomes of a batch                    *)
(* (reclaim/sim/scoreboard.py).                                            *)
(*                                                                         *)
(*   outcome  [arm, amount, recovered, simulated, contacts], recovered     *)
(*            being the amount that came back                              *)
(*                                                                         *)
(* The cases of an arm are a function from their places in the batch.  The *)
(* bootstrap's picks are inputs: a list of resamples, each a function from *)
(* the places of an arm to its places.                                     *)
(***************************************************************************)
EXTENDS Metrics

CONSTANT PScale  \* a p-value is a whole number of 1/PScale

ASSUME PScaleAssumption == PScale \in Nat \ {0}

ScoreboardArms == {"A0", "A1", "A4"}
Basis == {"all_randomised", "resolved_only"}

\* Resolved outcomes: a case has money at risk, no more of it comes back, and
\* none does where nothing was simulated.
IsBatch(outcomes) ==
    /\ IsFiniteSet(DOMAIN outcomes)
    /\ \A i \in DOMAIN outcomes :
        LET o == outcomes[i]
        IN  /\ o.amount \in Nat \ {0} /\ o.recovered \in 0 .. o.amount
            /\ o.contacts \in Nat /\ o.simulated \in BOOLEAN
            /\ ~o.simulated => o.recovered = 0

\* The faulty variant takes one basis for the other.
InScopeFaulty(outcomes, basis) ==
    RestrictValues(outcomes,
                   LAMBDA o : /\ o.arm \in ScoreboardArms
                              /\ basis = "all_randomised" => o.simulated)
InScope(outcomes, basis) ==
    RestrictValues(outcomes,
                   LAMBDA o : /\ o.arm \in ScoreboardArms
                              /\ basis = "resolved_only" => o.simulated)
OfArm(outcomes, arm) == RestrictValues(outcomes, LAMBDA o : o.arm = arm)

\* Costs are not modelled, and so are zero.
PooledOutcome(arm, cases) ==
    [arm |-> arm, stratum |-> "pooled", cases |-> Cardinality(DOMAIN cases),
     recovered |-> Cardinality({i \in DOMAIN cases : cases[i].recovered > 0}),
     at_risk |-> MoneySum([i \in DOMAIN cases |-> cases[i].amount]),
     gross |-> MoneySum([i \in DOMAIN cases |-> cases[i].recovered]),
     cost |-> 0,
     contacts |-> MoneySum([i \in DOMAIN cases |-> cases[i].contacts]),
     opt_outs |-> 0, policy_violations |-> 0]

-----------------------------------------------------------------------------
(***************************************************************************)
(* The bootstrap, in exact fractions where the code has floats.  The       *)
(* percentiles are those of the rounded replicates: rounding keeps the     *)
(* order.  The replicates to either side of zero are counted unrounded.    *)
(***************************************************************************)

\* Every resample picks a place of the arm for each of its places.
ArePicks(outcomes, basis, picks) ==
    LET places(arm) == DOMAIN OfArm(InScope(outcomes, basis), arm)
    IN  \A arm \in {"A0", "A1"} :
            picks[arm] \in Seq([treatment : [places("A4") -> places("A4")],
                                 control : [places(arm) -> places(arm)]])

\* The faulty variant resamples what was recovered, and not what it was at
\* risk of.
ResampledDeltaFaulty(treatment, control, pick) ==
    LET n(cases, p) == MoneySum([i \in DOMAIN cases |-> cases[p[i]].recovered])
        d(cases) == MoneySum([i \in DOMAIN cases |-> cases[i].amount])
    IN  [num |-> n(treatment, pick.treatment) * d(control)
                    - n(control, pick.control) * d(treatment),
         den |-> d(treatment) * d(control)]
ResampledDelta(treatment, control, pick) ==
    LET n(cases, p) == MoneySum([i \in DOMAIN cases |-> cases[p[i]].recovered])
        d(cases, p) == MoneySum([i \in DOMAIN cases |-> cases[p[i]].amount])
        dt == d(treatment, pick.treatment)
        dc == d(control, pick.control)
    IN  [num |-> n(treatment, pick.treatment) * dc - n(control, pick.control) * dt,
         den |-> dt * dc]

\* The k-th smallest of a list, from 0.
OrderStatistic(list, k) ==
    CHOOSE x \in {list[i] : i \in DOMAIN list} :
        /\ Cardinality({i \in DOMAIN list : list[i] < x}) <= k
        /\ Cardinality({i \in DOMAIN list : list[i] <= x}) > k

LowIndex(resamples) == (25 * resamples) \div 1000
HighIndex(resamples) == SmallerOf(resamples - 1, (975 * resamples) \div 1000)

Bootstrap(treatment, control, picks) ==
    LET deltas == [k \in DOMAIN picks |-> ResampledDelta(treatment, control, picks[k])]
        ratios == [k \in DOMAIN picks |-> Ratio(deltas[k].num, deltas[k].den)]
        below == Cardinality({k \in DOMAIN picks : deltas[k].num <= 0})
        above == Cardinality({k \in DOMAIN picks : deltas[k].num >= 0})
    IN  [low |-> OrderStatistic(ratios, LowIndex(Len(picks))),
         high |-> OrderStatistic(ratios, HighIndex(Len(picks))),
         p_value |-> SmallerOf(PScale, HalfUp(2 * SmallerOf(below, above) * PScale,
                                              Len(picks)))]

-----------------------------------------------------------------------------

\* The estimate is checked again with its interval on it.
Compare(treatment, control, total, picks) ==
    LET point == NetIncrementalRecovery(PooledOutcome("A4", treatment),
                                        PooledOutcome("control", control), total)
        interval == Bootstrap(treatment, control, picks)
    IN  [point |-> point.point, delta |-> point.delta, p_value |-> interval.p_value,
         ci_low |-> MoneyTimes(total, interval.low),
         ci_high |-> MoneyTimes(total, interval.high)]

\* picks: control arm -> resamples.
BuildScoreboard(outcomes, basis, picks) ==
    LET cases(arm) == OfArm(InScope(outcomes, basis), arm)
        scores == [arm \in ScoreboardArms |-> PooledOutcome(arm, cases(arm))]
        total == MoneySum([arm \in ScoreboardArms |-> scores[arm].at_risk])
        comparisons ==
            [arm \in {"A0", "A1"} |-> Compare(cases("A4"), cases(arm), total, picks[arm])]
    IN  IF \/ \E arm \in {"A0", "A1"} : Len(picks[arm]) < 2
           \/ \E arm \in ScoreboardArms : DOMAIN cases(arm) = {}
           \/ \E arm \in {"A0", "A1"} : comparisons[arm].ci_low > comparisons[arm].ci_high
        THEN Refused
        ELSE [arms |-> scores, total_at_risk |-> total, comparisons |-> comparisons]

=============================================================================
