# A verification project for RECLAIM

RECLAIM recovers failed recurring payments.  A *case* is opened for a failed debit, a
deterministic diagnosis says why it failed, a router proposes one action, a policy engine
allows it, tiers it up to a human or denies it, and the allowed action goes through an
outbox.  Everything that happens is appended to a hash-chained audit log.  The whole claim
of the program is that the ledger, the outbox and the log can be trusted; this project
models the code that has to make that true, checks the models with TLC and proves the
properties that matter most with TLAPS.

Source paths below are relative to `src/reclaim/`.

## 1. Inventory

| Component | Files | State it keeps | Operations | Modelled in |
|---|---|---|---|---|
| case lifecycle | `contracts/enums.py`, `contracts/case.py`, `spine/case_machine.py` | state, arm and optional columns of a case row | `transition` | `CaseLifecycle`, `Spine` |
| ledger | `spine/ledger.py` | table `risk_cases` and its partial unique index | `open_case`, `get_case` (`upsert_obligation` is single-writer by its docstring) | `Spine` |
| outbox | `spine/outbox.py` | table `outbox`, two unique indexes | `enqueue`; `claim`, `mark_done`, `mark_failed` | `Spine`; `OutboxWorkers` |
| audit store | `spine/audit_store.py`, `contracts/audit.py` | table `audit_log`, a hash chain | `append`; `read_all`, `verify_chain` | `Spine`; `AuditVerify` |
| chain verifier | `spine/verify.py` | a report; a head hash kept outside | `verify_database_chain` | `AuditVerify` |
| diagnosis | `diagnosis/deterministic.py`, `contracts/decline_taxonomy.py` | none (constant tables) | `diagnose` | `Routing` |
| recovery flow | `flow.py` | none of its own, writes all four tables | `process_case`, `route`, `hedged_route` | `Routing`, `RecoveryFlow` |
| outcome simulator | `sim/outcomes.py` | none of its own | `resolve_case` | `RecoveryFlow` |
| policy engine | `policy/engine.py`, `policy/rules.py`, `policy/facts.py`, `contracts/policy_format.py`, `contracts/actions.py` | none; a rule set is loaded once | `evaluate`, `combine_verdicts`, `build_facts` | `PolicyEngine`, `PolicyRules` |
| runtime invariants | `invariants.py` | none | ten checks over the tables, six of them stubs | `InvariantChecks`; what they check is also stated of reachable tables in `RecoveryFlowProperties` and `SpineProperties` |
| experiment | `contracts/experiment.py` | none | `assign_arm`, `assign_arm_blocked`, `verify_assignment` | `Experiment` |
| metrics, money | `contracts/metrics.py`, `contracts/money.py`, `contracts/units.py` | none | the estimates, the guardrail, sums, rounding | `Money`, `Metrics` |
| scoreboard | `sim/scoreboard.py` | none | `build_scoreboard` with its bootstrap | `Scoreboard` |
| seed and demo | `spine/seed.py`, `src/demo.py` | the caller's transaction | open, process, resolve a batch | `RecoveryFlow` |
| anchors, other value types, codecs | see `PROJECT.json` | none | pure functions | not modelled (section 8) |

How they interact.  The caller (`demo.run_demo`, a worker, a seeder) owns a connection and
its transaction; every spine function takes the connection and never commits.  `flow.run`
maps `process_case` over a batch in one transaction, and `process_case` calls `transition`,
`enqueue` and `append`, on cases that `open_case` stored, in an order that matters.  Nothing is shared
between processes but the database, so the database is where concurrency is: row locks,
unique indexes, READ COMMITTED reads that are stale by the time they are used.

What is hard here, and what a module is for:

* **Interleavings of transactions.**  `open_case`, `enqueue` and `append` all check first
  and insert later; `transition` reads the row, validates, and updates it by id alone.  The
  unique indexes are the only thing that holds when two sessions run (`Spine`).
* **Locks in any order.**  Case rows, index entries and the next audit sequence are
  acquired in whatever order callers call (`spine_fair`).
* **Partial failure.**  A handler that raises half way has already written, and the batch's
  one transaction decides what becomes of everyone else's work (`RecoveryFlow`).  An exception
  of Python, unlike one of the database, leaves what was written in the transaction, for
  whoever catches it to commit (`Spine`).
* **Crashes of workers** between the claim of an outbox row and its outcome (`OutboxWorkers`).
* **Protocol sequences**: processed twice, resolved twice, resolved before processed, a
  second case once the first is over (`RecoveryFlow`).
* **Missing facts**: the policy engine skips what it cannot evaluate, and must still never
  permit on silence (`PolicyEngine`).
* **A log that changes while it is read**: by the application, which only appends, and by
  statements that are not the application's; and a head hash older than the log it is
  compared with (`AuditVerify`).
* **Tables nobody wrote**: the checks of a batch read raw columns and blobs, and must answer
  for rows that no operation would write (`InvariantChecks`).
* **Boundaries and rounding**: draws on the border of two arms, blocks, rates rounded before
  they are compared, percentiles of few resamples (`Experiment`, `Metrics`, `Scoreboard`).
* **Stale reads**: the edge checked by `transition` belongs to a row that may be gone.

`PROJECT.json` lists each hazard at the line where it bites and the property that covers it.

## 2. Modules

| Module | Models | Depends on |
|---|---|---|
| `CaseLifecycle` | `CaseState`, the edge table, `RiskCase`'s cross-field validators, `_rebuild` | |
| `Spine` | the four transactional operations, statement by statement, by concurrent sessions | `CaseLifecycle` |
| `AuditedLedger` | what the spine promises: a log and the ledger that replaying it gives | `CaseLifecycle` |
| `SpineProperties` | properties, the refinement, the inductive strengthenings | `Spine`, `AuditedLedger` |
| `OutboxWorkers` | `claim`, `mark_done`, `mark_failed`, on PostgreSQL and on SQLite | |
| `Routing` | taxonomy, `diagnose`, `route`, `hedged_route`, the floor | |
| `RecoveryFlow` | `process_case`, `resolve_case`, `open_case` in the caller's transaction | `CaseLifecycle`, `Routing` |
| `RecoveryFlowProperties` | properties and the inductive strengthening | `RecoveryFlow` |
| `PolicyEngine` | `evaluate` and `combine_verdicts` over any rule set | |
| `PolicyRules` | the shipped gates, the categories of every verb, `build_facts` | `PolicyEngine` |
| `AuditVerify` | the stored audit log, damage to it, `verify_database_chain` by statement | |
| `Money` | sums of amounts, the one rounding | |
| `InvariantChecks` | the ten checks of `invariants.py` as functions of the tables | `CaseLifecycle`, `Money` |
| `Experiment` | assignment by draw and by permuted block, verification of a record | |
| `Metrics` | arm outcomes, pooled and weighted estimates, guardrail | `Money` |
| `Scoreboard` | `build_scoreboard` on both bases, bootstrap over given picks | `Metrics` |
| `BatchReports` | a call of any of these on an input of its own; the properties | `InvariantChecks`, `Experiment`, `Scoreboard` |
| `SpineProofs`, `SpineTrailProofs`, `OutboxWorkersProofs`, `RecoveryFlowProofs`, `PolicyRulesProofs` (the engine's too), `AuditVerifyProofs`, `ScoreboardProofs` (sums, rounding, estimates), `BatchReportsProofs` | theorems | the module they are named after |
| `MC*` | values of the constants for TLC | |

### Spine

Variables and code: `cases`, `audit` and `outbox` are the committed tables; `wcases`,
`waudit` and `woutbox` are what a session's open transaction has written, which is at the
same time its row locks and index entries.  `pc[s]` is the statement session `s` is about
to execute, `call[s]` the Python locals of the call it is in.

One action is one SQL statement.  Python between two statements only sees what the earlier
one returned, so it belongs to the statement that feeds it: `OpenCase` is the pre-check and
the construction of the row, `InsertCase` the insert; `Transition` is the read of the case,
the edge check and the rebuild, `UpdateCase` the `UPDATE`; `ReadTail` and `InsertAudit` are
`append`; `Enqueue`, `ReadClash` and `InsertOutbox` are `enqueue`.  `Blockers` says for whom
a statement waits (another session's uncommitted row or index entry), the `Clash` operators
when it fails with an IntegrityError.  `DatabaseError` is PostgreSQL's aborted transaction:
after it a session can only roll back.  `DeadlockVictim` is the database's detector.
SHA-256 over canonical JSON is an injective pairing; a collision is out of scope.

An exception raised in Python aborts nothing in the database.  Those of the checks come before
any write of their call.  Those of `append` (`audit_store.py:44-45`: a tail that does not
re-derive its hash, a field `AuditRow` refuses) come after the case row was written, and
`ReadTail` has them as its second disjunct, on any input.  What follows is the caller's choice:
`RaisedAfterWrite` sends a session whose caller lets the exception leave its transaction block
to the rollback, and one in `Swallowing` back to its block, free to call again and to commit.

The field updates of `transition` may set optional columns, clear them, or override the arm and
the state (`FieldUpdate`; `_rebuild` applies them after the state of the call, and
`Rebuild` re-validates the outcome).  `case_id` is a named parameter of `transition` and cannot be
among them.  `CallersAreDisciplined` (nobody swallows, nobody overrides a state) is the
premise of what the trail promises; nothing in the spine enforces it, and every caller in the
repository keeps to it.

`AuditedLedger` is the abstract specification: a step appends any number of audit rows and
the ledger becomes what replaying them gives.  `ReplaysAudit` is the refinement
`Ledger!Spec`, with committed case states as the ledger and audit bodies as the log.  It
fails if any path commits a state change without the row that explains it, as one does when a
caller swallows: the mutant of `ReplaysAudit` is just that, and TLC finds the commit.

### OutboxWorkers

One worker is one connection.  `SelectPending`, `UpdateClaim` and `CommitClaim` are the
three statements of `claim`; `Settle` is the `UPDATE` of `mark_done` or `mark_failed`,
neither of which looks at the row's status or claimant.  `Postgres` selects the dialect:
with it the `SELECT` is `FOR UPDATE SKIP LOCKED`, without it the reads take no lock and the
`UPDATE` takes the database's one write lock.  `Crash` loses what is not committed.

### Routing, RecoveryFlow

A *finding* is a canonical decline class or a risk class; diagnosis and routing are constant
operators on it (`Diagnose`, `Route`, `HedgedRoute`, `Proposal`).  Confidences are integers
out of a hundred.  `RecoveryFlow` has one session, so a handler is one action; a handler is
the composition of functions on a database record in the order the code calls them, and
`raised` short-circuits the rest exactly as an exception does.  `Ends` then decides: normal
return leaves the transaction open, an exception moves it to `failed`, from which the
caller can only roll back.  The draw of the simulator is a free choice, and so is the
policy engine's answer except where its gates read tables the model has (the decline class,
the number of debits and contacts, whether the key was used).

### PolicyEngine, PolicyRules

One step is one round of `evaluate`'s loop.  A fact is the truth of the one comparison the
rules make on it, and may be absent from the bundle; a predicate is a disjunctive normal
form, perhaps under a `Not`, which is every tree the format can express.  `PolicyRules` is the
table of gates: each restrictive rule is a disjunction of facts and its companion is the
negation, as `_rules_for` builds them; `BuildFacts` derives the facts of a verb from
*conditions* of the world (an open hold of each kind, a consent withdrawn on this or
another channel, a payer without a profile...), following `facts.py`.

`RecoveryFlow` does not run the engine: its `Verdicts` is the set of answers the engine can
give.  What makes the over-approximation useful is that the properties of the flow hold for
every answer in it.

### AuditVerify

`stored` is the table as SQL sees it: the sequence column finds a row, which keeps the
`AuditRow` in a blob and repeats two hashes in columns of their own.  Damage may change one
without the other.  A hash is what it commits to, so injectivity is the only thing assumed of
SHA-256.  `Append_` is `audit_store.append` by one committed writer (`Spine` has the concurrent
ones, and proves that what they leave is a chain).  `ReadAll` is the first statement of
`verify_database_chain` with `verify_chain` and the pin behind it; `AttributeReadFailure` is the
second read after a row that does not parse, `CompareColumns` the second read after a good
chain.  The application and the damage can come between the two.  `Pin` keeps the head hash of
a good report.  `Damage` is one SQL statement on one row: an `UPDATE` of the blob edits its body,
its number or its link and leaves the blob's claimed hash as it was (`edit`, `renumber`, `relink`)
or computes it again with it (`forge ...`); others take the claim out, garble the blob, change a
hash column, delete the row or move it to a free sequence.  `Rewrite` hashes
everything again.  `damage`, `seen`, `written` and `pinned`
are history, which no action's guard reads except to bound the damage.

### InvariantChecks, Experiment, Money, Metrics, Scoreboard, BatchReports

Pure functions, each in a module of its own, and one state machine that applies one of them to
one input.  Databases are sets of rows with the columns and the envelope fields the checks read;
an exception is a value (`Raised`, `Refused`).  An outbox row has its `action_type` column and its
envelope's action apart, because check #1 selects by the one and reads the other; an envelope
or an obligation may be `Malformed`, JSON that `json.loads` or a look-up raises on.  `Sentence`
is the plan's wording (`INVARIANT_TEXT`) read off the rows, never the checker's reading of it.
The draw of a hash, the stream of a shuffle and the
picks of the bootstrap are inputs, because nobody chooses them.  A ratio is a whole number of
`1/Scale`, rounded half up as `units.quantise` does, and a p-value one of `1/PScale`; the deltas of
the bootstrap are exact fractions, rounded where an interval is made of them and not where the
ones to either side of zero are counted; money is whole paise.  The cases of an arm
are a function from their places in the batch: the code filters lists, and no result depends on
more than which cases are there and which of them a resample picks.

`CallsAssumption` says what a caller can pass: weights that `ExperimentSpec` accepts and streams of
numbers; records and an experiment to verify them against; arm outcomes that `ArmOutcome` accepts; strata at risk of no negative amount; outcomes of
cases, whose amount is positive (`case.py:538`) and at most recovered once; picks of an arm's own
places.  TLC evaluates it for every input of the run.

## 3. Runs

| Run | Checks | Distinct states |
|---|---|---|
| `spine` | `TypeOK`, `OneLiveCase`, `NoDoubleDebit`, `ChainIntact`, `StoredCasesAreValid`, refinement `ReplaysAudit` | 595,667 |
| `spine_single` | `TrailIsPath`, `TerminalIsFinal` with one session and every target state | 434,201 |
| `spine_fair` | `EveryTransactionEnds` under fairness | 122,009 |
| `spine_race` | `TerminalIsFinal` with two sessions: violated | stops at the violation |
| `outbox_postgres` | `TypeOK`, `ClaimIsForCaller`, `OutcomeIsFinal`, `PendingIsClaimed` | 16,267 |
| `outbox_crash` | `ExecutedInTheEnd`: violated | stops at the violation |
| `outbox_sqlite` | `ClaimIsForCaller` without row locks: violated | stops at the violation |
| `flow` | `TypeOK`, `ExternalActionsAudited`, `NoOrphanedLiveCase`, `ArmsKeepTheirContract`, `ResolvedOnce`, `DebitIsSafe`, `ContactIsTrueUnderEveryCause`, `HedgeIsOnTheTrail` | 1,198,704 |
| `flow_second_debit` | `DetectedCaseReachesVerdict`: violated | stops at the violation |
| `policy` | `TypeOK`, `ForbiddenIsNotPermitted`, `PermittedInEveryCategory`, `PermittedOnAllFacts`, `HoldStopsEverything`, `GovernedIsDecidedByRule` | 464,472 |
| `audit_verify` | `TypeOK`, `VerifiedAgainstPinIsPinned`, `NoFalseAlarm`, `NothingIsForged`, `DamageIsNamed` | 1,091,920 |
| `batch_reports` | `VerdictIsRight`, `SharesAreExact`, `EveryBlockIsExact`, `VerifiedBlockIsBalanced`, `GuardrailIsExact`, `NoLiftWithoutCounterfactual`, `PerProtocolIsNeverLower`, `EstimatesAreWithinTheBook` | 87,544 |

### Bounds, and why they are enough

* `Spine`: two sessions and two cases of one obligation.  Every conflict in the code is
  between two rows (two live cases, two debits of one attempt, two audit rows of one
  sequence) written by two sessions; a third session can only repeat the part of one of
  them.  The safety theorems are proved for any number.  `MaxCalls` lets a transaction make
  two calls, which is what it takes to hold one lock and want another; `MaxAudit` admits
  opening a case, a transition of it and a second case or transition.  The `spine` run has
  two target states, one live and one terminal, because the indexes only tell these apart;
  `spine_single` covers all of them, with every field update, on traces of six audit rows.
  Sessions are symmetric (and symmetry is not used where liveness is checked).  c2 is in the
  control arm, where the validators are strictest.  The field updates are those the callers of
  the repository pass, a plan taken back and a case moved into the control arm.  Callers are
  disciplined in `spine` and `spine_single`; in `spine_fair` one session swallows.
* `OutboxWorkers`: three workers on three rows with two crashes, so that a worker can find
  the oldest row locked, skip it, and meet its holder's crash.
* `RecoveryFlow`: two cases of one obligation.  `c1` ranges over every arm and, in the full
  agent's arm, over every finding; `c2` is a soft decline in the agent's or the drip arm.
  `MaxTrail` admits opening, processing and resolving a case and the same calls again.
  The debit cap (3 per obligation) cannot be reached with two cases and the contact cap is
  reached at 2; both gates are free to deny earlier.  The seeder gives each case an
  obligation of its own, but `open_case` permits a second case once the first is terminal.
* `PolicyEngine`: the shipped rules on all thirteen verbs under every consistent pair of 29
  conditions, and 4,048 rule sets of three rules -- every effect, advisory, disabled and
  channel-scoped rules, both polarities, on two categories -- in ascending and in descending order, each
  on all partial bundles of two facts.  A pair of conditions suffices for the shipped gates
  because each is a disjunction; two categories are the least in which one can be silent while
  another speaks, and in some of these sets no rule stands for a category at all.

* `AuditVerify`: logs of three rows, two contents, two damaging statements.  Three rows have a
  first, an inner and a last one, which is what the fault kinds tell apart; two statements
  suffice to hide one edit behind another (a forged blob and its column, a row and the next one).
  Contents are symmetric.  `VerifiedAgainstPinIsPinned` is proved for any number.
* `BatchReports`: up to three debits with every agreement and disagreement of key, envelope and
  columns, the one that files it included, and envelopes that are none; two outbox rows against two audit rows, orphans and nameless rows included; two
  cases with two rows each; two cases on two obligations with every settlement.  Weights are
  every split of ten parts with both headline arms open (the code has a thousand; the proof
  has any).  Blocks of five in all their 120 shuffles, two blocks in a row.  Records of three arms: single draws,
  and every way to fill one block or the other, verified under weights, salts and experiments that
  are theirs or not.  Arms of up to four
  cases, so that rates of different denominators meet and round; strata with a missing side, an
  arm at risk of nothing, weights for more or fewer strata than are compared.  Books of up to
  two treatment and one plus one control cases, up to four resamples that repeat a case.
  `Scale` is 10, which makes rounding happen on amounts of one digit; the code's is a million
  for rates.  `PScale` is 100, the code's a thousand million.

Deadlock checking is off only where the program really stops: an outbox with nothing left to
do, an evaluation that has decided, a function that has answered.

### Fairness

`FairSpec` of `Spine`: strong fairness on a session's statement, because PostgreSQL queues
waiters first come first served, so a statement that is again and again free to run does run;
weak fairness on the end of a transaction block, which the `with` statement guarantees; weak
fairness on the deadlock detector.  Callers need not call, and nobody has to crash.
`FairSpec` of `OutboxWorkers`: weak fairness on the steps of each worker, which is what
polling is.  A crash in `OutboxWorkers` loses the claim, not the worker slot: a supervisor
restarts it.

## 4. What the checks show

The properties that pass say that the code's own discipline holds: the indexes catch every
race the pre-checks miss; the chain never forks; no committed state lacks its audit row as long
as callers let append's exceptions end their transaction; every transaction ends; an action in the outbox has exactly one audit row; nobody is left
without an owner; a debit never meets a class another attempt cannot help, although the
router proposes one from the cause alone; no message asks for money while a cause that
forbids it is possible.

Four runs refute something the repository states.  Each finding in `PROJECT.json` quotes it.

1. `spine_race`.  `transition` checks the edge on the row it read and writes by id.  On
   PostgreSQL at READ COMMITTED a second transition that waited for the first one's row lock
   writes over it, and a terminal case is live again, with both edges on the trail.  The
   comment at `case_machine.py:7-8` says such a jump is refused.
2. `outbox_sqlite`.  Without row locks two workers select the same pending row; the loser's
   `UPDATE` matches nothing, its row count is not looked at, and `claim` returns the row
   to both.  It takes two connections to one database file; the in-memory engine of the
   tests has one connection.
3. `outbox_crash`.  A claimed row whose worker died stays claimed: "exactly once" is at most
   once.
4. `flow_second_debit`.  Every debit is attempt 2.  The second case of an obligation is
   allowed its debit, `enqueue` raises `DoubleDebitBlocked`, and the batch is rolled back
   with it, again at every re-run.

About the log and the reports: a log verified against a pin is the pinned log; without a pin,
and unless hashes are computed again, a log that verifies is a prefix of what was written;
each single damaging statement gets a fault kind that fits it, at its row, except the three that leave rows
in agreement with each other and with their columns (the last row deleted, a claim taken out,
everything hashed again).  The implemented
checks never say `HOLDS` or `VIOLATED` of tables the plan's sentence is false or true of, malformed
rows included, with two exceptions: #1 where a column files a debit as something else or something
else as a debit, and #9 on cases with a logged decision.  They leave no report in three cases only,
which `LeavesNoReport` lists.  Assignment and estimates are exact to the last draw and the last rounded digit.

Remarks met on the way, with no run of their own:

* "The state change and the row explaining it commit together" (`case_machine.py:14-15`) holds of
  callers that let the exceptions of `append` end their transaction block.  It may raise in Python
  when the case row is already written (`case_machine.py:72-78`, `audit_store.py:44-45`); a caller
  that catches that and goes on commits the state alone.  Nobody in the repository does.
* `_rebuild` applies the field updates after the state of the call (`case_machine.py:113-114`), so `state=` among
  them stores a state whose edge was never checked, and the audit row records the other one.  Nobody
  in the repository passes it.
* Check #1 selects debits by the `action_type` column (`invariants.py:340`), the shadow its own module warns
  of at 318-320, so a debit filed as something else is not compared with its twin.
* Check #9 lets off a live case with a logged decision not to act, and says `HOLDS` beside the plan's
  sentence (`INVARIANT_TEXT[9]`), which is false of that case, as soon as another case has an action.
* A key audited for nothing on rows that name no case is a violation without offenders, which
  `InvariantResult` refuses (`invariants.py:144-148`): `check_all` leaves no report, although the
  docstring of check #8 has this failure among those "all persisted and all checked" (427).
* Nothing marks an obligation as settled when a case recovers, so two cases opened one after
  the other recover the debt twice.  Check #6 reports it after the fact (`VerdictIsRight`);
  nothing prevents it.
* A verb that declares only holds and integrity (`create_credential_update_link`, for one) has
  all the facts its gates need, and the engine allows it, although `policy/rules.py:74-77`
  says an ungoverned verb fails closed.  `flow.py:754` refuses it before the engine.
* `spine/verify.py:43-46` says a pin detects truncation exactly.  It does, but a log that has
  legitimately grown past its pin gets the same `HEAD_MISMATCH`: the pin has to be as new as
  the log.  `NoFalseAlarm` states the exception.
* `verify_database_chain` "never raises" (line 298); a table dropped between its two
  statements does raise out of it, and only the command line catches that.  The columns
  `case_id`, `event_type` and `idempotency_key` are not compared with the blob, although
  checks #8 and #9 read them.
* `invariants.py:52` says a checker that crashes on bad data reports nothing about it, and gives that as
  the reason to read raw JSON.  A blob that is no JSON, or lacks what is looked up in it, still
  raises out of checks #1 and #6 (lines 322, 685), and `check_all` leaves no report.
* When a blob's number was forged with its claim, `first_bad` of the report is the forged number;
  which row it was is told by `rows_checked`.
* A record of an assignment has no weights, so `verify_assignment` accepts one that was made under others if
  its arm re-derives.  What a caller can rely on is the block (`VerifiedBlockIsBalanced`).
* The docstring of `invariants.py` says #2 and #4 may return `VIOLATED` and #10 `VACUOUS`; all three
  are stubs like #3, #5 and #7, so `batch_passes` is never true.
* `demo.py` runs every stage in one transaction, so a scoreboard that refuses an arm without cases
  rolls the whole batch back, and the verdict is printed before the commit.
* The scoreboard adds up the amount at risk per case, `metrics.total_amount_at_risk` per
  obligation.
* The comments at `flow.py:22-26` and `deterministic.py:98-100` say a diagnosis below the floor
  always goes to a human; `process_case` since sends a hedged notice for the contested ones.
  The simulator's stop of a debit on a hard decline cannot be reached, because the rail gate
  denies such a debit.

## 5. What is proved

Theorems hold for every value of the constants that satisfies the named assumptions.

* **Spine** (any number of sessions, cases, obligations, envelopes, any bounds).
  `TypeCorrect`.  `OneLiveCaseAlways`: the property alone is not inductive, because what
  stops a second live case is an index entry of a session that has not committed.  `LiveInv`
  adds that a row has one uncommitted version (`RowLocks`) and that a case made live
  meets no other live version except one its own session has ended (`LiveIndex`).
  `NoDoubleDebitAlways`: `DebitInv` adds that the outbox indexes range over uncommitted rows.
  `ChainIntactAlways`: `ChainInv` adds that at most one session has uncommitted audit rows,
  that its view of the log is linked, and that the tail it read is still a row of it; a
  stale tail is then a primary-key clash and never a fork.
  `StoredCasesAreValidAlways`: `ValidInv` says it of the rows in the sessions' hands as well.
  `ReplaysAuditAlways`: under `CallersAreDisciplined` the spine implements `AuditedLedger`, and
  without it it does not.  The theorems before this one need no discipline of the callers.  `ReplayInv` says that what a
  session has written shows what it has logged, except one row that its next statements owe
  the log; a session owes nothing when it can commit, because a debt that `append` will not pay
  ends in the rollback.
  `TerminalIsFinalAlone` and `TrailIsPathAlone` assume one session, because with two they are
  false, and the latter also `CallersAreDisciplined`.  `FinalInv` adds that nobody is about to write over a terminal row; `PathInv` that the
  log a session reads is a path and that the change it is making continues it.
* **Outbox workers**: `OutboxTypeCorrect` on both databases; on PostgreSQL `ClaimIsForCallerAlways` and the action property
  `OutcomeIsFinalAlways`.  `ClaimInv` adds that a selected row is locked by one worker, still
  pending, and that the `UPDATE` matched it.
* **Recovery flow**: `DebitIsSafeAlways` and `ContactIsTrueAlways` (the latter from a floor
  above 52, the confidence of a contested diagnosis).  `SoundInv` says both of every envelope in
  the open transaction's outbox and in the committed one; appends and moves keep the
  outbox, `Enqueue` adds one envelope, and that envelope is sound because of what the router,
  the floor and the rail gate let through.
  `FlowTypeCorrect`, `ExternalActionsAuditedAlways`, `ResolvedOnceAlways` and
  `HedgeIsOnTheTrailAlways` from `TrailInv`: the open transaction keeps them too, except after
  a raise, when an envelope may lack its row and the batch is rolled back.  What a walk of the
  lifecycle appends has no key and is not a response (`Extends`), so only two rows need an
  argument: the row of an action (`KeyedRow`; the key is new because the integrity gate denies
  what the outbox has) and the response (`ResponseThenOutcome`).
  `NoOrphanedLiveCaseAlways` and `ArmsKeepTheirContractAlways` from `PlacedInv`: a case leaves
  `detected` with its verdict and has no envelope before; `diagnosing` has no other way in, so
  a second `process_case` raises instead of adding a second action.
* **Policy engine** (any rule set, order of rules, segments, channels, and bundles):
  `EngineTypeCorrect`, `ForbiddenIsNotPermittedAlways`, `PermittedInEveryCategoryAlways`,
  `PermittedOnAllFactsAlways`.  `EngineInv`: the verdicts are exactly those of the rules the
  loop has passed and that speak, and a decision is the outcome of all of them.  That the strictest
  effect and the least rule id exist is shown by a case split and by the
  well-foundedness of the naturals.
* **Shipped rules** (any conditions, any consistent or inconsistent set of them):
  `GovernedIsDecidedByRuleAlways` and `HoldStopsEverythingAlways`, from the assumption that
  requests under these rules are what `build_facts` builds.  The rule set is the union of
  eight pairs of a rule and its complement (`RulesInMinimalRuleSet`), no two on one category;
  of a pair whose facts are there exactly one speaks.
* **Chain verifier** (logs and damage of any size): `Spec_VerifiedAgainstPinIsPinned`.  Equal
  head hashes mean equal histories, by going back from the head row by row
  (`SameHeadSameRows`, with the well-foundedness of the naturals).  `PinInv` adds that what was
  pinned is a linked chain with the pin as its head hash, and that rows the verifier has let
  through are linked and match the head it was called with.
  `AuditTypeCorrect`.  `NothingIsForgedAlways`: `ForgeInv` says that every stored `row_hash`
  column is a hash the application computed, as long as nobody computed them all again;
  the verifier compares every row it read with that column, because a table nobody damaged
  since has at least those rows (`ColumnIsInTable`: every place in the order of the column is
  taken, by counting).  `NoFalseAlarmAlways`: `CleanInv` says that an undamaged table is the
  linked chain 0, 1, 2... (`LogIsIntact`), of which what was read and what was pinned are
  beginnings; an append keeps that (`AppendToIntact`).
  `DamageIsNamedAlways`: `NamedInv` says that after one damaging statement, and whatever was
  appended since, the table is a linked chain set apart in one place (`Hit`): one row changed in
  place, its claim forged or not, one missing before the end, one in a column behind the end, or
  none.  An append keeps that (`AppendKeepsHit`), the reads of such a table are known (`ReadAllNames`,
  `AttributeNames`), and what a good first read leaves to the second is the column
  (`CompareNames`).
* **Batch reports** (any inputs that `CallsAssumption` admits).  The invariant is that the call is
  one of the inputs and the result, once there, is the function's; the work is in what the
  functions compute, for inputs of any size.
  `SharesAreExactAlways`: the draws of an arm are an interval between two running totals.
  `EveryBlockIsExactAlways`: the greatest common divisor divides what a block is made of
  (`BlockHasParts`), the pattern has each arm's part (`PatternIsExact`), and trading two places,
  one of them perhaps with itself, keeps every arm's count (`SwapKeepsCounts`), so that every
  stage of the shuffle does (`BlockIsExact`).
  `VerdictIsRightAlways`: one lemma per check, relating the offenders to the plan's sentence, and
  three that say when a check raises.  The two exceptions are in the property: the sentence of #1 is
  compared where the column files every debit (`DebitsAreFiled`), that of #9 on the database without
  the cases that have a logged decision (`Unexplained`).
  `VerifiedBlockIsBalancedAlways`: a verified record has the arm its rank has in the shuffled
  block (`AcceptedArm`), ranks of a block and records that fill it correspond one to one
  (`RecordsOfABlock`), and every block, not the first two alone, is exact (`BlockOfRanksIsExact`).
  `GuardrailIsExactAlways`: rounding keeps the order, and two different rates of sizes that
  multiply to at most `Scale` stay different.
  `NoLiftWithoutCounterfactualAlways`: a mean weighted by what is at risk lies between the lowest
  and the highest difference, and so does the nearest whole number to it (`EstimateIsBetween`).
  `PerProtocolIsNeverLowerAlways`: the cases left out recovered nothing and were at risk of
  something (`ResolvedAreNeverLower`).
  `EstimatesAreWithinTheBookAlways`: a resample's rate is between nothing and one whatever is
  picked (`RatesAreWithin`), the percentile of a list is a member of it and later ones are no
  smaller (`OrderStatisticIs`, `OrderStatisticsAreOrdered`), and rounding a share of the money at
  risk stays within it (`MoneyIsWithin`).
  These rest on two things the library does not give.  A sum over a set is a fold that picks its
  elements in an order nobody knows: `FoldExists` and `SumTakenApart` show that it does not matter.
  And the induction theorems, whose predicate is a parameter, cannot be instantiated here:
  `LeastNumber` (a set of naturals has a least member, so a least counterexample is
  contradicted) and `PartByPart` (the same for finite sets) take its place.

Only model-checked: liveness (`EveryTransactionEnds`, `PendingIsClaimed`), which is out of the
prover's reach, like `ENABLED`.  Every safety property of a passing run is a theorem, two of them
(`TrailIsPath`, `TerminalIsFinal`) for one session, where the run checks them.

## 6. Mutations

Each property of a passing run has a mutant in `PROJECT.json`: a variant, named `...Faulty`
or `...Without...` and standing just before the definition it replaces, that a plausible bug
would produce (a dropped index, a forgotten `SKIP LOCKED`, an approval that enqueues, a floor that
looks at the cause instead of the confidence).  TLC finds the property violated under it.

## 7. Plan

Done: `CaseLifecycle`, `Spine` with `AuditedLedger`, `OutboxWorkers`, `Routing`,
`RecoveryFlow`, `PolicyEngine` with `PolicyRules`, `AuditVerify`, `BatchReports` with the four
modules it reads, and the theorems above.  Next, in this order:

1. `QuietHours`: the contact window in minutes of a day, across midnight and on both
   boundaries, and `contact_window_end` against its definition.
2. The obligation contracts: the derived idempotency key, sums of instalments.

## 8. Not modelled

* `sim/anchors.py`: published rates; the simulator's draw is a free choice instead.
* The hash behind a draw, the seed of the bootstrap and its floats: draws, streams and picks are
  inputs, and a replicate is an exact fraction where the code has a float.
* Costs of actions, warnings and rendering of the scoreboard; secondary metrics; the rank a
  caller counts for a permuted block (no caller in the repository uses blocks).
* Other value types (`ids`, `temporal`, `canonical`...) and codecs: immutable values and pure
  encodings.
* `upsert_obligation`: a read-then-write its docstring reserves to one writer; obligations are
  constants.
* `policy/templates.py` and quiet-hours arithmetic: conditions of `PolicyRules`.
* Tests, documents, build files, data.
