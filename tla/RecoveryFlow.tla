----------------------------- MODULE RecoveryFlow -----------------------------
(***************************************************************************)
(* The recovery flow and the outcome simulator over the spine:             *)
(* seed/open_case, flow.process_case and sim.outcomes.resolve_case, called *)
(* case by case inside one caller's transaction (demo.run_demo runs a      *)
(* whole batch in one).                                                    *)
(*                                                                         *)
(* There is one session, so a handler is one action; what matters is the   *)
(* order its statements take effect in, and that an exception raised half  *)
(* way leaves what it had written in the transaction and makes the caller  *)
(* roll the whole batch back.  Module Spine has the interleavings of       *)
(* several sessions.                                                       *)
(***************************************************************************)
EXTENDS FiniteSets, CaseLifecycle, Routing

CONSTANTS
    Case,
    Obligation,
    ObligationOf,
    Profiles,          \* the [arm, finding] pairs each case may have
    MaxDebitAttempts,  \* MAX_DEBIT_ATTEMPTS_PER_RECOVERY_WINDOW
    MaxContacts,       \* the tighter of the two contact caps
    MaxTrail,          \* bound: no call starts on a case with a longer trail
    None

ASSUME FlowObligationAssumption == ObligationOf \in [Case -> Obligation]
ASSUME FlowBoundAssumption ==
    MaxDebitAttempts \in Nat /\ MaxContacts \in Nat /\ MaxTrail \in Nat
ASSUME FlowNoneAssumption ==
    /\ None \notin RiskCase
    /\ None \notin CaseState
    /\ None \notin [case : Case, action : Messages \cup {Debit}]
    /\ None \notin [handler : {"open_case", "process_case", "resolve_case"},
                     case : Case, state : CaseState \cup {None}]
    /\ NoAction \notin Messages \cup {Debit}

Arm == {"A0", "A1", "A2", "A3", "A4", "A5"}
\* What ARM_SPECS switches on in each arm: any action at all, routing by the
\* deterministic diagnosis, the policy engine.
ActingArms == Arm \ {"A0"}
DeterministicArms == {"A3", "A4", "A5"}
PolicedArms == Arm \ {"A5"}
\* The faulty variant routes without the engine.
RoutingArmsFaulty == DeterministicArms
RoutingArms == DeterministicArms \cap PolicedArms
\* Arms the simulator resolves.
InScopeArms == {"A0", "A1", "A4"}

ASSUME ProfileAssumption == Profiles \in [Case -> SUBSET [arm : Arm, finding : Finding]]

VARIABLES
    profile,  \* the arm and the finding of every case, fixed
    db,       \* the database as the open transaction sees it
    stored,   \* the committed database
    pc,       \* "out" of a transaction, in an "open" one, or "failed"
    failure   \* the handler that raised and the state it found its case in

vars == <<profile, db, stored, pc, failure>>

-----------------------------------------------------------------------------
(***************************************************************************)
(* The database: case rows, outbox rows and the audit rows of each case in *)
(* order; raised is the exception in flight, if any.                       *)
(***************************************************************************)

Event ==
    {"case_opened", "case_state_changed", "control_arm_no_action",
     "arm_not_routed", "diagnosis_produced", "contested_diagnosis_hedged",
     "policy_evaluated", "action_scheduled", "approval_requested",
     "simulated_psp_response", "case_recovered", "case_stopped"}

Envelope == [case : Case, action : Messages \cup {Debit}]

\* key is the envelope whose idempotency key the row carries.
Row(event, to, key) == [event |-> event, to |-> to, key |-> key]

EmptyDatabase ==
    [cases |-> [c \in Case |-> None],
     outbox |-> {},
     trail |-> [c \in Case |-> <<>>],
     raised |-> FALSE]

Raise(d) == [d EXCEPT !.raised = TRUE]

\* audit_store.append; like every statement, not reached after a raise.
Append1(d, c, row) ==
    IF d.raised THEN d ELSE [d EXCEPT !.trail[c] = Append(@, row)]
Note(d, c, event) == Append1(d, c, Row(event, None, None))

InControlArm(c) == profile[c].arm = "A0"

\* case_machine.transition, with the event type it is given.
MoveAs(event, d, c, to, update) ==
    LET row == d.cases[c]
    IN  IF d.raised THEN d
        ELSE IF /\ IsTransitionAllowed(row.state, to)
                /\ ValidCase(Rebuild(row, to, update))
        THEN Append1([d EXCEPT !.cases[c] = Rebuild(row, to, update)],
                     c, Row(event, to, None))
        ELSE Raise(d)
Move(d, c, to) == MoveAs("case_state_changed", d, c, to, Setting({}))
Stop(event, d, c) ==
    MoveAs(event, d, c, "stopped", Setting({"stop_reason", "stopped_at"}))

DebitsOn(d, o) ==
    {e \in d.outbox : e.action = Debit /\ ObligationOf[e.case] = o}
ContactsOf(d, c) == {e \in d.outbox : e.action \in Messages /\ e.case = c}

\* outbox.enqueue: the stored row, DoubleDebitBlocked, or the insert.  Every
\* debit of the flow is attempt 2, so the obligation alone makes the clash.
Enqueue(d, e) ==
    IF d.raised \/ e \in d.outbox THEN d
    ELSE IF e.action = Debit /\ DebitsOn(d, ObligationOf[e.case]) # {}
    THEN Raise(d)
    ELSE [d EXCEPT !.outbox = @ \cup {e}]

-----------------------------------------------------------------------------
(***************************************************************************)
(* One call, and how it ends.                                              *)
(***************************************************************************)

LiveCases(d, o) ==
    {c \in Case : /\ ObligationOf[c] = o
                  /\ d.cases[c] # None
                  /\ d.cases[c].state \notin TerminalCaseStates}

Calling(c) == pc = "open" /\ Len(db.trail[c]) < MaxTrail

\* The handler returns with d, or raises after having written d.
Ends(handler, c, d) ==
    /\ db' = d
    /\ pc' = IF d.raised THEN "failed" ELSE "open"
    /\ failure' = IF d.raised
                  THEN [handler |-> handler, case |-> c,
                        state |-> IF db.cases[c] = None THEN None
                                                        ELSE db.cases[c].state]
                  ELSE None
    /\ UNCHANGED <<profile, stored>>

(***************************************************************************)
(* ledger.open_case, for a case the seed generates.                        *)
(***************************************************************************)

NewCase(c) ==
    [state |-> "detected",
     arm |-> IF InControlArm(c) THEN "control" ELSE "treatment",
     fields |-> {}]

OpenCase(c) ==
    /\ Calling(c)
    /\ db.cases[c] = None
    /\ Ends("open_case", c,
            IF LiveCases(db, ObligationOf[c]) # {} THEN Raise(db)
            ELSE Note([db EXCEPT !.cases[c] = NewCase(c)], c, "case_opened"))

-----------------------------------------------------------------------------
(***************************************************************************)
(* flow.process_case                                                       *)
(***************************************************************************)

\* The rail gate refuses a debit after a hard decline or beyond the attempt
\* budget; the faulty variant only counts attempts.
RailDeniesFaulty(c) == Cardinality(DebitsOn(db, ObligationOf[c])) >= MaxDebitAttempts
RailDenies(c) ==
    \/ /\ profile[c].finding \in DeclineClass
       /\ Retryability[profile[c].finding] # "retry_soft"
    \/ Cardinality(DebitsOn(db, ObligationOf[c])) >= MaxDebitAttempts

FrequencyDenies(c) == Cardinality(ContactsOf(db, c)) >= MaxContacts

\* What the engine may answer.  The integrity, rail and frequency gates read
\* the tables modelled here; the others depend on the payer's consent, the
\* holds, the clock and the amount, and may go either way.
Verdicts(c, action) ==
    IF \/ [case |-> c, action |-> action] \in db.outbox
       \/ action = Debit /\ RailDenies(c)
       \/ action \in Messages /\ FrequencyDenies(c)
    THEN {"deny"}
    ELSE {"allow", "deny"} \cup IF action = Debit THEN {"allow_with_approval"} ELSE {}

\* The arms that are not to be acted on leave one audit row and no more.
SkipArm(c) ==
    /\ profile[c].arm \notin RoutingArms
    /\ Ends("process_case", c,
            Note(db, c, IF profile[c].arm \in ActingArms
                        THEN "arm_not_routed" ELSE "control_arm_no_action"))

Diagnosed(c) == Move(Note(db, c, "diagnosis_produced"), c, "diagnosing")

\* The hedge is on the trail before the policy evaluation, whatever it says.
ProposedFaulty(c) == Diagnosed(c)
Proposed(c) ==
    IF BelowFloor(Diagnose(profile[c].finding))
    THEN Note(Diagnosed(c), c, "contested_diagnosis_hedged")
    ELSE Diagnosed(c)

\* The routers have no action for the case: it goes to a human.  The faulty
\* variant returns without the move.
EscalateFaulty(c) ==
    /\ profile[c].arm \in RoutingArms
    /\ Proposal(profile[c].finding) = NoAction
    /\ Ends("process_case", c, Diagnosed(c))
Escalate(c) ==
    /\ profile[c].arm \in RoutingArms
    /\ Proposal(profile[c].finding) = NoAction
    /\ Ends("process_case", c, Move(Diagnosed(c), c, "escalated"))

\* _allow, _await_approval and _deny, on a database d that has the verdict.
\* The faulty variant enqueues what still waits for a human.
Allow(d, e) ==
    LET planned == Move(Enqueue(d, e), e.case, "planned")
        logged == Append1(planned, e.case, Row("action_scheduled", None, e))
    IN  Move(logged, e.case, "scheduled")

AwaitApprovalFaulty(d, e) ==
    LET planned == Move(Enqueue(d, e), e.case, "planned")
        logged == Note(planned, e.case, "approval_requested")
    IN  Move(logged, e.case, "awaiting_approval")
AwaitApproval(d, e) ==
    LET planned == Move(d, e.case, "planned")
        logged == Note(planned, e.case, "approval_requested")
    IN  Move(logged, e.case, "awaiting_approval")

Deny(d, e) == Stop("case_state_changed", d, e.case)

Decide(c, verdict) ==
    LET e == [case |-> c, action |-> Proposal(profile[c].finding)]
        d == Note(Proposed(c), c, "policy_evaluated")
    IN  /\ profile[c].arm \in RoutingArms
        /\ e.action # NoAction
        /\ verdict \in Verdicts(c, e.action)
        /\ Ends("process_case", c,
                CASE verdict = "allow" -> Allow(d, e)
                  [] verdict = "allow_with_approval" -> AwaitApproval(d, e)
                  [] verdict = "deny" -> Deny(d, e))

ProcessCase(c) ==
    /\ Calling(c)
    /\ db.cases[c] # None
    /\ \/ SkipArm(c)
       \/ Escalate(c)
       \/ \E verdict \in {"allow", "allow_with_approval", "deny"} : Decide(c, verdict)

-----------------------------------------------------------------------------
(***************************************************************************)
(* sim.outcomes.resolve_case                                               *)
(***************************************************************************)

\* Asked of the audit log and not of the state; the faulty variant asks the
\* state.
AlreadyResolvedFaulty(c) == db.cases[c].state \in TerminalCaseStates
AlreadyResolved(c) ==
    \E i \in DOMAIN db.trail[c] : db.trail[c][i].event = "simulated_psp_response"

Lane(c) ==
    LET arm == profile[c].arm
        state == db.cases[c].state
    IN  IF AlreadyResolved(c) \/ arm \notin InScopeArms THEN "not_simulated"
        ELSE CASE arm = "A1" /\ state = "detected" -> "generic_baseline"
               [] arm = "A4" /\ state = "scheduled" -> "targeted_agent"
               [] OTHER -> "natural_floor"

\* _record_self_heal: recovered, or stopped as already paid, or no move, as
\* the table of edges permits.
SelfHeal(d, c) ==
    IF IsTransitionAllowed(d.cases[c].state, "recovered")
    THEN MoveAs("case_recovered", d, c, "recovered", Setting({}))
    ELSE IF IsTransitionAllowed(d.cases[c].state, "stopped")
    THEN Stop("case_stopped", d, c)
    ELSE d

\* The A1 drip walks every state although nothing was planned or enqueued.
Drip(d, c, recovered) ==
    LET executing == Move(Move(Move(d, c, "planned"), c, "scheduled"), c, "executing")
    IN  IF recovered THEN MoveAs("case_recovered", executing, c, "recovered", Setting({}))
        ELSE Stop("case_stopped", Move(executing, c, "awaiting_response"), c)

FurtherDebitPermitted(f) ==
    f \in DeclineClass =>
        Retryability[f] \in {"retry_soft", "retry_after_incident"}

\* The one action the flow enqueued is carried out.
Execute(d, c, recovered) ==
    LET executing == Move(d, c, "executing")
    IN  IF recovered THEN MoveAs("case_recovered", executing, c, "recovered", Setting({}))
        ELSE IF ContactsOf(d, c) # {}
        THEN Move(Move(executing, c, "awaiting_response"), c, "planned")
        ELSE IF FurtherDebitPermitted(profile[c].finding)
        THEN Move(executing, c, "retry_backoff")
        ELSE Stop("case_stopped", executing, c)

\* The response goes on the trail before the moves it causes.  Which way the
\* draw falls is left open.
ResolveCase(c, recovered) ==
    LET lane == Lane(c)
        d == Note(db, c, "simulated_psp_response")
    IN  /\ Calling(c)
        /\ db.cases[c] # None
        /\ Ends("resolve_case", c,
                CASE lane = "not_simulated" -> db
                  [] lane = "natural_floor" -> IF recovered THEN SelfHeal(d, c) ELSE d
                  [] lane = "generic_baseline" -> Drip(d, c, recovered)
                  [] lane = "targeted_agent" -> Execute(d, c, recovered))

-----------------------------------------------------------------------------
(***************************************************************************)
(* The caller's transaction.                                               *)
(***************************************************************************)

Begin ==
    /\ pc = "out"
    /\ pc' = "open"
    /\ UNCHANGED <<profile, db, stored, failure>>

Commit ==
    /\ pc = "open"
    /\ stored' = db
    /\ pc' = "out"
    /\ UNCHANGED <<profile, db, failure>>

\* The exception leaves the block, or the process dies.
RollBack ==
    /\ pc # "out"
    /\ db' = stored
    /\ pc' = "out"
    /\ failure' = None
    /\ UNCHANGED <<profile, stored>>

Init ==
    /\ profile \in {p \in [Case -> [arm : Arm, finding : Finding]] :
                        \A c \in Case : p[c] \in Profiles[c]}
    /\ db = EmptyDatabase
    /\ stored = EmptyDatabase
    /\ pc = "out"
    /\ failure = None

Next ==
    \/ Begin
    \/ Commit
    \/ RollBack
    \/ \E c \in Case :
        \/ OpenCase(c)
        \/ ProcessCase(c)
        \/ \E recovered \in BOOLEAN : ResolveCase(c, recovered)

Spec == Init /\ [][Next]_vars

=============================================================================
