------------------------------ MODULE BatchReports ------------------------------
(***************************************************************************)
(* What a finished batch is read with: the checks of its tables, the arms  *)
(* its cases were assigned to, and the numbers of its scoreboard.  All of  *)
(* them are functions; a step applies one to an input of its own.          *)
(***************************************************************************)
EXTENDS InvariantChecks, Experiment, Scoreboard

\* A call: its kind and arguments.
CONSTANTS Databases, AllWeights, Blocks, Assignments, ArmPairs, StratumCalls, Books

\* Rows of finite tables; a row of the outbox has a key, and no amount is
\* negative.
IsDatabase(db) ==
    /\ DOMAIN db = {"outbox", "audit", "cases", "obligations"}
    /\ IsFiniteSet(db.outbox) /\ IsFiniteSet(db.audit)
    /\ IsFiniteSet(db.cases) /\ IsFiniteSet(db.obligations)
    /\ \A row \in db.outbox : row.key # None
    /\ \A c \in db.cases : c.amount \in Nat
    /\ \A o \in db.obligations :
        o.gross \in Nat
        /\ (o.data # Malformed => {o.data.paid, o.data.credited} \subseteq Nat)

ASSUME CallsAssumption ==
    /\ \A c \in Databases : c.kind = "tables" /\ IsDatabase(c.database)
    /\ \A c \in AllWeights : c.kind = "weights" /\ IsWeights(c.weights)
    /\ \A c \in Blocks :
        /\ c.kind = "block" /\ IsWeights(c.weights)
        /\ \A block \in {0, 1} : IsStream(c.weights, c.streams[block])
    /\ \A c \in Assignments :
        /\ c.kind = "records" /\ IsWeights(c.spec.weights)
        /\ DOMAIN c.spec.streams \subseteq Nat
        /\ \A block \in DOMAIN c.spec.streams :
            IsStream(c.spec.weights, c.spec.streams[block])
        /\ \A k \in DOMAIN c.records : IsArmAssignment(c.records[k])
    /\ \A c \in ArmPairs :
        c.kind = "guardrail" /\ IsArmOutcome(c.treatment) /\ IsArmOutcome(c.control)
    /\ \A c \in StratumCalls : c.kind = "strata" /\ IsStrata(c.pairs, c.at_risk)
    /\ \A c \in Books :
        /\ c.kind = "book" /\ IsBatch(c.outcomes)
        /\ \A basis \in Basis : ArePicks(c.outcomes, basis, c.picks[basis])

VARIABLES call, result

vars == <<call, result>>

Done(kind, value) ==
    /\ call.kind = kind /\ result = None
    /\ result' = value
    /\ UNCHANGED call

CheckTables == Done("tables", CheckAll(call.database))

\* The arm of every draw.
AssignDraws ==
    Done("weights", [draw \in 0 .. PermilleTotal - 1 |-> AssignArm(call.weights, draw)])

\* Two blocks of a stratum, in the order the cases arrive.
AssignBlock ==
    LET n == BlockSize(call.weights)
    IN  Done("block", [rank \in 0 .. 2 * n - 1 |->
                        AssignArmBlocked(call.weights, call.streams, rank)])

Verify ==
    Done("records", [k \in DOMAIN call.records |->
                        VerifyAssignment(call.records[k], call.spec)])

Guard == Done("guardrail", GuardrailContractHolds(call.treatment, call.control))

Estimate == Done("strata", StratumWeighted(call.pairs, call.at_risk))

\* On both bases.
Score ==
    Done("book", [basis \in Basis |-> BuildScoreboard(call.outcomes, basis, call.picks[basis])])

Init ==
    /\ \/ call \in Databases \/ call \in AllWeights \/ call \in Blocks
       \/ call \in Assignments \/ call \in ArmPairs \/ call \in StratumCalls
       \/ call \in Books
    /\ result = None

Next ==
    \/ CheckTables \/ AssignDraws \/ AssignBlock \/ Verify
    \/ Guard \/ Estimate \/ Score

Spec == Init /\ [][Next]_vars

Answered(kind) == call.kind = kind /\ result # None

-----------------------------------------------------------------------------
(***************************************************************************)
(* The tables: the plan's sentences, read off the rows.                    *)
(***************************************************************************)

\* The action is what its envelope says it is.
Debits(db) ==
    {row \in db.outbox :
        row.envelope # Malformed /\ row.envelope.action = "schedule_debit"}

\* "No double debit for the same obligation-attempt (idempotency key
\* uniqueness)."
NoDoubleDebit(db) ==
    \A row, q \in Debits(db) :
        row.envelope.coords = q.envelope.coords \/ row.key = q.key => row = q

\* "Every external action has exactly one audit row and one idempotency key."
EveryActionIsPaired(db) ==
    \A row \in db.outbox :
        /\ \E a \in db.audit : \A b \in db.audit : b.key = row.key <=> b = a
        /\ \A q \in db.outbox : q.key = row.key => q = row

\* What the check's docstring adds to it: no key in the audit log without
\* its action.
IsOrphanKey(db, a) == a.key # None /\ \A row \in db.outbox : row.key # a.key
NoOrphanKey(db) == \A a \in db.audit : ~IsOrphanKey(db, a)

\* "Every non-terminal case has exactly one scheduled next action or one open
\* human task": an action is scheduled by an open row of the outbox, and the
\* only trace of a human task is a state in which one owns the case.
IsOpen(row) == row.status \in {"pending", "claimed"}
NothingIsScheduled(db, c) == \A q \in db.outbox : q.case_id = c.case_id => ~IsOpen(q)
HasANextStep(db, c) ==
    \/ \E row \in db.outbox :
            \A q \in db.outbox : IsOpen(q) /\ q.case_id = c.case_id <=> q = row
    \/ NothingIsScheduled(db, c) /\ c.state \in {"awaiting_approval", "escalated"}
EveryLiveCaseHasANextStep(db) ==
    \A c \in db.cases : c.state \in TerminalCaseStates \/ HasANextStep(db, c)

\* "Total recovered per obligation <= amount owed", for the two totals there
\* are: what was settled, and the amounts of the recovered cases.
RecoveredWithinOwed(db) ==
    \A o \in db.obligations :
        LET recovered == {c \in db.cases : c.obligation_id = o.obligation_id
                                            /\ c.state = "recovered"}
        IN  /\ o.data.paid + o.data.credited <= o.gross
            /\ MoneySum([c \in recovered |-> c.amount]) <= o.gross

Sentence(number, db) ==
    CASE number = 1 -> NoDoubleDebit(db)
      [] number = 6 -> RecoveredWithinOwed(db)
      [] number = 8 -> EveryActionIsPaired(db) /\ NoOrphanKey(db)
      [] number = 9 -> EveryLiveCaseHasANextStep(db)

\* Where the verdicts are not about the sentences.
\* #1: a row is taken for a debit for what its column says.
DebitsAreFiled(db) == SelectedDebits(db) = Debits(db)

\* #9: a case on which a decision not to act was logged is let off.
IsExplained(db, c) ==
    /\ NothingIsScheduled(db, c)
    /\ \E a \in db.audit :
        a.case_id = c.case_id /\ a.event_type \in {"control_arm_no_action", "arm_not_routed"}
Unexplained(db) == [db EXCEPT !.cases = {c \in @ : ~IsExplained(db, c)}]

\* Where no verdict is given on anything: a row that is looked into has no
\* JSON to look into, or all there is to report are audit keys without an
\* action, on rows that name no case.
LeavesNoReport(db) ==
    \/ \E row \in SelectedDebits(db) : row.envelope = Malformed
    \/ \E o \in db.obligations : o.data = Malformed
    \/ /\ EveryActionIsPaired(db) /\ ~NoOrphanKey(db)
       /\ \A a \in db.audit : IsOrphanKey(db, a) => a.case_id = None

\* A verdict is right: "holds" and "vacuous" are said where the plan's
\* sentence is true, "holds" over at least one candidate; "violated" where it
\* is false, naming somebody; and nothing is said in the three cases above
\* alone.  On rows no operation would write, too, with two exceptions: #1
\* where a column files a debit as something else, or something else as a
\* debit; #9 is right about the cases without a logged decision.
VerdictIsRight ==
    Answered("tables") =>
        LET db == call.database
        IN  \A number \in {1, 6, 8, 9} :
                LET verdict == result[number]
                    so == Sentence(number, IF number = 9 THEN Unexplained(db) ELSE db)
                IN  /\ number # 1 \/ DebitsAreFiled(db)
                       => /\ verdict.status \in {"holds", "vacuous"} => so
                          /\ verdict.status = "violated" => ~so
                    /\ verdict.status = "holds" => verdict.candidates > 0
                    /\ verdict.status = "violated" => verdict.offenders # {}
                    /\ verdict.status = "raised" <=> LeavesNoReport(db)

-----------------------------------------------------------------------------
(***************************************************************************)
(* The experiment.                                                         *)
(***************************************************************************)

\* Every draw has an arm, and an arm has as many draws as it has weight: no
\* draw falls off the end, and an arm that is switched off gets none.
SharesAreExact ==
    Answered("weights") =>
        \A arm \in ExperimentArm :
            Cardinality({draw \in DOMAIN result : result[draw] = arm}) = call.weights[arm]

\* However the blocks of a stratum are shuffled, each of them holds every
\* arm in exactly its share.
EveryBlockIsExact ==
    Answered("block") =>
        LET n == BlockSize(call.weights)
        IN  \A block \in {0, 1}, arm \in ExperimentArm :
                Cardinality({rank \in block * n .. (block + 1) * n - 1 : result[rank] = arm})
                    * PermilleTotal
                = call.weights[arm] * n

\* One record for each rank of a block.
FillsBlock(records, n, block) ==
    /\ \A k \in DOMAIN records : records[k].method = "permuted_block"
    /\ \A k, l \in DOMAIN records : records[k].rank = records[l].rank => k = l
    /\ {records[k].rank : k \in DOMAIN records} = block * n .. (block + 1) * n - 1

\* What can be relied on when a whole block of records verifies: whoever made
\* them, and under whatever weights -- a record names its salt and not its
\* weights -- their arms are in the shares of the experiment they are
\* verified against.  One moved case shows.
VerifiedBlockIsBalanced ==
    Answered("records") /\ (\A k \in DOMAIN call.records : result[k] = "ok") =>
        LET n == BlockSize(call.spec.weights)
        IN  \A block \in DOMAIN call.spec.streams :
                FillsBlock(call.records, n, block) =>
                    \A arm \in ExperimentArm :
                        Cardinality({k \in DOMAIN call.records : call.records[k].arm = arm})
                            * PermilleTotal
                        = call.spec.weights[arm] * n

-----------------------------------------------------------------------------
(***************************************************************************)
(* The numbers.                                                            *)
(***************************************************************************)

\* No recovery buys a higher opt-out rate: an arm that passes has none above
\* its control's, unrounded, and no policy violation.  Rates are rounded
\* before they are compared, so this is for arms whose sizes multiply to no
\* more than Scale.
GuardrailIsExact ==
    /\ Answered("guardrail") /\ result
    /\ ContactedCaseCount(call.treatment) * ContactedCaseCount(call.control) <= Scale
    => /\ call.treatment.policy_violations = 0
       /\ ContactedCaseCount(call.treatment) > 0 /\ ContactedCaseCount(call.control) > 0
       /\ call.treatment.opt_outs * ContactedCaseCount(call.control)
            <= call.control.opt_outs * ContactedCaseCount(call.treatment)

\* An estimate over strata has a counterfactual in each of them, and when
\* the weights are those of the strata compared it is between the least and
\* the greatest of their differences, rounding included.
NoLiftWithoutCounterfactual ==
    Answered("strata") /\ result # Refused =>
        LET delta(s) == Delta(call.pairs[s].treatment, call.pairs[s].control)
        IN  /\ \A s \in DOMAIN call.pairs :
                call.pairs[s].treatment # NoArm /\ call.pairs[s].control # NoArm
            /\ DOMAIN call.at_risk = DOMAIN call.pairs =>
                /\ \E s \in DOMAIN call.pairs : delta(s) <= result.delta
                /\ \E s \in DOMAIN call.pairs : result.delta <= delta(s)

\* Dropping the cases that were never resolved never lowers an arm's rate
\* and never changes what it recovered: what the bases disagree about is the
\* denominator alone.
PerProtocolIsNeverLower ==
    /\ Answered("book")
    /\ \A basis \in Basis : result[basis] # Refused
    => \A arm \in ScoreboardArms :
        LET all == result["all_randomised"].arms[arm]
            resolved == result["resolved_only"].arms[arm]
        IN  /\ all.gross = resolved.gross /\ all.recovered = resolved.recovered
            /\ all.gross * resolved.at_risk <= resolved.gross * all.at_risk

\* A scoreboard is refused only for an arm without cases, or for less than
\* two resamples; one that is built puts every number inside the money at
\* risk: its intervals are ordered, and neither a bound nor the estimate
\* exceeds the total.
EstimatesAreWithinTheBook ==
    Answered("book") => \A basis \in Basis :
        LET board == result[basis]
            within(x) == -board.total_at_risk <= x /\ x <= board.total_at_risk
        IN  IF board = Refused
            THEN \/ \E arm \in ScoreboardArms :
                        \A i \in DOMAIN call.outcomes :
                            \/ call.outcomes[i].arm # arm
                            \/ basis = "resolved_only" /\ ~call.outcomes[i].simulated
                 \/ \E arm \in {"A0", "A1"} : Len(call.picks[basis][arm]) < 2
            ELSE \A arm \in {"A0", "A1"} :
                    LET c == board.comparisons[arm]
                    IN  /\ c.ci_low <= c.ci_high
                        /\ within(c.point) /\ within(c.ci_low) /\ within(c.ci_high)
                        /\ c.p_value \in 0 .. PScale

=============================================================================
