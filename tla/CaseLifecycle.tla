---------------------------- MODULE CaseLifecycle ----------------------------
(***************************************************************************)
(* The frozen lifecycle of a risk case (reclaim/contracts/enums.py) and    *)
(* the part of RiskCase's validation a state change can disturb            *)
(* (reclaim/contracts/case.py).  Constant operators only: the modules that *)
(* move cases extend this one.                                             *)
(***************************************************************************)

CaseState ==
    {"detected", "suppressed", "diagnosing", "planned", "awaiting_approval",
     "scheduled", "executing", "awaiting_response", "promised",
     "reconciling", "retry_backoff", "partially_recovered", "escalated",
     "recovered", "stopped", "written_off"}

TerminalCaseStates == {"recovered", "stopped", "written_off"}

\* The outgoing edges of one state.
AllowedCaseTransitions ==
    [src \in CaseState |->
        CASE src = "detected" ->
                {"planned", "suppressed", "diagnosing", "stopped"}
          [] src = "suppressed" -> {"detected", "stopped"}
          [] src = "diagnosing" -> {"planned", "escalated", "stopped"}
          [] src = "planned" -> {"scheduled", "awaiting_approval", "stopped"}
          [] src = "awaiting_approval" -> {"scheduled", "stopped"}
          [] src = "scheduled" -> {"executing", "stopped", "planned"}
          [] src = "executing" ->
                {"recovered", "partially_recovered", "awaiting_response",
                 "retry_backoff", "stopped"}
          [] src = "retry_backoff" -> {"executing", "escalated", "stopped"}
          [] src = "partially_recovered" -> {"planned", "recovered", "stopped"}
          [] src = "awaiting_response" ->
                {"promised", "stopped", "reconciling", "planned", "escalated"}
          [] src \in {"promised", "reconciling"} ->
                {"recovered", "planned", "stopped"}
          [] src = "escalated" ->
                {"recovered", "stopped", "written_off", "planned"}
          [] src \in TerminalCaseStates -> {}]

\* The variant for the mutation runs ignores the table.
IsTransitionAllowedFaulty(src, dst) == src # dst
IsTransitionAllowed(src, dst) == dst \in AllowedCaseTransitions[src]

-----------------------------------------------------------------------------
(***************************************************************************)
(* A stored case is its state, whether its arm is the no-action arm A0,    *)
(* and the set of optional columns that are not NULL.  What a column holds *)
(* is left out: validation only asks whether it is there.  Columns that    *)
(* say which case it is (obligation, amount, stratum) are constants.       *)
(***************************************************************************)

ArmKind == {"control", "treatment"}
OptionalField == {"stop_reason", "stopped_at", "active_plan_id"}

RiskCase ==
    [state : CaseState, arm : ArmKind, fields : SUBSET OptionalField]

\* STOPPED and stop_reason imply each other, stopped_at accompanies the
\* reason, and the no-action arm holds no plan.
ValidCase(case) ==
    /\ case.state = "stopped" <=> "stop_reason" \in case.fields
    /\ "stopped_at" \in case.fields <=> "stop_reason" \in case.fields
    /\ case.arm = "control" => "active_plan_id" \notin case.fields

\* The keyword arguments of transition() that go into the case: they may
\* set columns, clear them (with None), and override its arm or the very
\* state the call asked for.  case_id is a parameter of the call itself,
\* so it cannot be among them.
Absent == "absent"
FieldUpdate ==
    [state : CaseState \cup {Absent}, arm : ArmKind \cup {Absent},
     set : SUBSET OptionalField, clear : SUBSET OptionalField]
Setting(fields) == [state |-> Absent, arm |-> Absent, set |-> fields, clear |-> {}]

Updated(value, update) == IF update = Absent THEN value ELSE update

\* The case transition() re-validates: what the update does not name stays.
\* The faulty variant lets it name a column the table does not have.
RebuildFaulty(case, to, update) ==
    [state |-> to, arm |-> case.arm,
     fields |-> case.fields \cup update.set \cup {"closed_at"}]
Rebuild(case, to, update) ==
    [state |-> Updated(to, update.state),
     arm |-> Updated(case.arm, update.arm),
     fields |-> (case.fields \ update.clear) \cup update.set]

=============================================================================
