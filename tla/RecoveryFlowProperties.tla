------------------------ MODULE RecoveryFlowProperties ------------------------
(***************************************************************************)
(* What the committed database must look like whatever batches are run     *)
(* over it, in which order, and wherever they fail: the checks of          *)
(* reclaim/invariants.py, and what flow.py and sim/outcomes.py say of      *)
(* themselves.                                                             *)
(***************************************************************************)
EXTENDS RecoveryFlow

AuditRow == [event : Event, to : CaseState \cup {None}, key : Envelope \cup {None}]

DatabaseOK(d) ==
    /\ d.cases \in [Case -> RiskCase \cup {None}]
    /\ d.outbox \subseteq Envelope
    /\ d.trail \in [Case -> Seq(AuditRow)]
    /\ d.raised \in BOOLEAN
    /\ \A c \in Case : d.cases[c] # None =>
            /\ ValidCase(d.cases[c])
            /\ d.cases[c].arm = "control" <=> InControlArm(c)

\* The types; every row validates and stays in its arm, and a batch in which a handler raised is
\* never committed.
TypeOK ==
    /\ \A c \in Case : profile[c] \in Profiles[c]
    /\ DatabaseOK(db) /\ DatabaseOK(stored)
    /\ pc \in {"out", "open", "failed"}
    /\ pc = "failed" <=> db.raised
    /\ ~stored.raised
    /\ pc = "failed" <=> failure # None

EventsOf(c, events) == {i \in DOMAIN stored.trail[c] : stored.trail[c][i].event \in events}
ActionsOf(c) == {e \in stored.outbox : e.case = c}
IsLive(c) == stored.cases[c] # None /\ stored.cases[c].state \notin TerminalCaseStates

\* Invariant #8: every external action has exactly one audit row carrying its
\* key, and a key is only ever logged for an action in the outbox -- so none
\* for what still waits for an approval.
ExternalActionsAudited ==
    /\ \A e \in stored.outbox :
            \E i \in DOMAIN stored.trail[e.case] :
                \A j \in DOMAIN stored.trail[e.case] :
                    stored.trail[e.case][j].key = e <=> j = i
    /\ \A c \in Case : \A i \in DOMAIN stored.trail[c] :
            LET key == stored.trail[c][i].key
            IN  key # None => key \in ActionsOf(c)

\* Invariant #9 as the checker of invariants.py:514-619 reads it: a live case
\* the flow has been over has exactly one action in the outbox, or none and a
\* human to wait for, or a logged decision not to act.  The last is not in
\* the plan's sentence (invariants.py:114-117), which asks for an action or a
\* human task; VerdictIsRight (BatchReports) says where the two differ.
NoOrphanedLiveCase ==
    \A c \in Case :
        IsLive(c) /\ EventsOf(c, {"diagnosis_produced", "control_arm_no_action",
                                  "arm_not_routed"}) # {} =>
            \/ Cardinality(ActionsOf(c)) = 1
            \/ /\ ActionsOf(c) = {}
               /\ \/ stored.cases[c].state \in {"awaiting_approval", "escalated"}
                  \/ EventsOf(c, {"control_arm_no_action", "arm_not_routed"}) # {}

\* Only arms that route under the policy engine reach the outbox; A2 and A5
\* are never moved; a control case is moved once at most, by the simulator,
\* to record that it recovered on its own.
ArmsKeepTheirContract ==
    \A c \in Case :
        /\ ActionsOf(c) # {} => profile[c].arm \in {"A3", "A4"}
        /\ IsLive(c) /\ profile[c].arm \in {"A2", "A5"} =>
                stored.cases[c].state = "detected"
        /\ profile[c].arm = "A0" /\ stored.cases[c] # None =>
            /\ stored.cases[c].state \in {"detected", "stopped"}
            /\ EventsOf(c, {"case_state_changed", "diagnosis_produced"}) = {}

\* A case is drawn once at most, although batches are resolved again and in
\* any order with the flow, and its response precedes the outcome it caused.
ResolvedOnce ==
    \A c \in Case :
        LET drawn == EventsOf(c, {"simulated_psp_response"})
        IN  /\ Cardinality(drawn) <= 1
            /\ \A i \in EventsOf(c, {"case_recovered", "case_stopped"}) :
                    \E j \in drawn : j < i

DebitSafe(e) ==
    e.action = Debit =>
        /\ profile[e.case].finding \in DeclineClass
        /\ Retryability[profile[e.case].finding] = "retry_soft"
        /\ ~BelowFloor(Diagnose(profile[e.case].finding))

\* No debit is retried on a class that another attempt cannot help, nor on a
\* diagnosis below the floor: the router looks at the cause alone, so the
\* rail gate has to stop the classes that share a cause with a soft decline.
DebitIsSafe == \A e \in stored.outbox : DebitSafe(e)

ContactTrue(e) ==
    (\E cause \in Candidates(Diagnose(profile[e.case].finding)) :
        ForbidsPaymentNudge(cause)) => e.action = "payment_failed_inform"

\* No message asks for money while a cause that forbids a payment nudge is
\* still possible: such a case only gets the notice that its debit failed.
ContactIsTrueUnderEveryCause == \A e \in stored.outbox : ContactTrue(e)

\* A contact sent on a contested diagnosis is never on the trail without the
\* row that says so before it.
HedgeIsOnTheTrail ==
    \A e \in stored.outbox :
        BelowFloor(Diagnose(profile[e.case].finding)) =>
            \A i \in EventsOf(e.case, {"action_scheduled"}) :
                \E j \in EventsOf(e.case, {"contested_diagnosis_hedged"}) : j < i

-----------------------------------------------------------------------------

\* process_case runs a case "from its detected state to a verdict and its
\* consequence": it does not raise on a detected case.
DetectedCaseReachesVerdict ==
    failure # None /\ failure.handler = "process_case" => failure.state # "detected"

-----------------------------------------------------------------------------
(***************************************************************************)
(* The strengthening that makes DebitIsSafe and ContactIsTrueUnderEvery-   *)
(* Cause inductive: they hold of what the open transaction sees as well.   *)
(***************************************************************************)

Shaped(d) ==
    d = [table \in {"cases", "outbox", "trail", "raised"} |-> d[table]]

\* Contested diagnoses have confidence 52; a floor above it keeps them from
\* acting.
Sound(e) == DebitSafe(e) /\ (ConfidenceFloor > 52 => ContactTrue(e))

SoundInv ==
    /\ profile \in [Case -> [arm : Arm, finding : Finding]]
    /\ Shaped(db) /\ Shaped(stored)
    /\ \A e \in db.outbox \cup stored.outbox : Sound(e)

\* Each action in the outbox has its row on the trail, and no row is keyed to
\* anything else.
Audited(d) ==
    /\ \A e \in d.outbox :
            \E i \in DOMAIN d.trail[e.case] :
                \A j \in DOMAIN d.trail[e.case] : d.trail[e.case][j].key = e <=> j = i
    /\ \A c \in Case : \A i \in DOMAIN d.trail[c] :
            d.trail[c][i].key # None =>
                d.trail[c][i].key \in d.outbox /\ d.trail[c][i].key.case = c

\* One response per case, before whatever the case came to.
DrawnOnce(d) ==
    \A c \in Case : \A i \in DOMAIN d.trail[c] :
        /\ d.trail[c][i].event = "simulated_psp_response" =>
            \A j \in DOMAIN d.trail[c] :
                d.trail[c][j].event = "simulated_psp_response" => j = i
        /\ d.trail[c][i].event \in {"case_recovered", "case_stopped"} =>
            \E j \in DOMAIN d.trail[c] :
                j < i /\ d.trail[c][j].event = "simulated_psp_response"

\* What is scheduled on a contested diagnosis was hedged before.
Hedged(d) ==
    \A c \in Case : BelowFloor(Diagnose(profile[c].finding)) =>
        \A i \in DOMAIN d.trail[c] : d.trail[c][i].event = "action_scheduled" =>
            \E j \in DOMAIN d.trail[c] :
                j < i /\ d.trail[c][j].event = "contested_diagnosis_hedged"

\* What a handler that returned leaves behind; one that raised half way may
\* leave an envelope without its row, and is rolled back.
TrailInv ==
    /\ TypeOK
    /\ profile \in [Case -> [arm : Arm, finding : Finding]]
    /\ Shaped(db) /\ Shaped(stored)
    /\ ~db.raised => Audited(db) /\ DrawnOnce(db) /\ Hedged(db)
    /\ Audited(stored) /\ DrawnOnce(stored) /\ Hedged(stored)

-----------------------------------------------------------------------------
(***************************************************************************)
(* The strengthening for NoOrphanedLiveCase and ArmsKeepTheirContract:     *)
(* where a case stands, by its arm.                                        *)
(***************************************************************************)

Mine(d, c) == {e \in d.outbox : e.case = c}
Has(d, c, events) == \E i \in DOMAIN d.trail[c] : d.trail[c][i].event \in events

\* A case outside the routing arms never gets an envelope or a diagnosis; a
\* routed one leaves "detected" with its verdict, which is an envelope, a
\* human to wait for, or the end.
Unrouted(d, c) ==
    LET arm == profile[c].arm
        state == d.cases[c].state
    IN  /\ Mine(d, c) = {}
        /\ ~Has(d, c, {"diagnosis_produced"})
        /\ arm \in {"A2", "A5"} => state = "detected"
        /\ arm = "A0" => /\ state \in {"detected", "stopped"}
                         /\ ~Has(d, c, {"case_state_changed"})
Routed(d, c) ==
    LET state == d.cases[c].state
    IN  /\ state = "detected" =>
                Mine(d, c) = {} /\ ~Has(d, c, {"diagnosis_produced"})
        /\ state \notin TerminalCaseStates \cup {"detected"} =>
                \/ \E e \in Mine(d, c) : Mine(d, c) = {e}
                \/ Mine(d, c) = {} /\ state \in {"awaiting_approval", "escalated"}

PlacedAt(d, c) ==
    IF d.cases[c] = None THEN Mine(d, c) = {} /\ ~Has(d, c, Event)
    ELSE IF profile[c].arm \in RoutingArms THEN Routed(d, c) ELSE Unrouted(d, c)

PlacedInv ==
    /\ TrailInv
    /\ ~db.raised => \A c \in Case : PlacedAt(db, c)
    /\ \A c \in Case : PlacedAt(stored, c)

=============================================================================
