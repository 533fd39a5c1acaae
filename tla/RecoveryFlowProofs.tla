-------------------------- MODULE RecoveryFlowProofs --------------------------
(***************************************************************************)
(* Proofs about the recovery flow, for any cases, profiles, floor and      *)
(* caps.  Three invariants: what reaches the outbox is sound (SoundInv),   *)
(* the trail tells it (TrailInv), and every case stands where its arm and  *)
(* its verdict put it (PlacedInv).  Only a handler that returns keeps the  *)
(* last two; one that raises half way is rolled back.                      *)
(***************************************************************************)
EXTENDS RecoveryFlowProperties, FiniteSetTheorems, TLAPS

(***************************************************************************)
(* What the statements of a handler leave in the outbox.                   *)
(***************************************************************************)

LEMMA AppendKeepsOutbox ==
    ASSUME NEW d, Shaped(d), NEW c, NEW row
    PROVE  Shaped(Append1(d, c, row)) /\ Append1(d, c, row).outbox = d.outbox
BY DEF Shaped, Append1

LEMMA NoteKeepsOutbox ==
    ASSUME NEW d, Shaped(d), NEW c, NEW event
    PROVE  Shaped(Note(d, c, event)) /\ Note(d, c, event).outbox = d.outbox
BY AppendKeepsOutbox DEF Note

LEMMA RaiseKeepsOutbox ==
    ASSUME NEW d, Shaped(d)
    PROVE  Shaped(Raise(d)) /\ Raise(d).outbox = d.outbox
BY DEF Shaped, Raise

LEMMA MoveKeepsOutbox ==
    ASSUME NEW d, Shaped(d), NEW event, NEW c, NEW to, NEW update
    PROVE  /\ Shaped(MoveAs(event, d, c, to, update))
           /\ MoveAs(event, d, c, to, update).outbox = d.outbox
<1> DEFINE written == [d EXCEPT !.cases[c] = Rebuild(d.cases[c], to, update)]
<1>1. Shaped(written) /\ written.outbox = d.outbox
  BY DEF Shaped
<1>2. Shaped(Raise(d)) /\ Raise(d).outbox = d.outbox
  BY RaiseKeepsOutbox
<1>3. \/ MoveAs(event, d, c, to, update) = d
      \/ MoveAs(event, d, c, to, update) = Raise(d)
      \/ MoveAs(event, d, c, to, update)
            = Append1(written, c, Row(event, to, None))
  BY DEF MoveAs
<1> HIDE DEF written
<1>4. /\ Shaped(Append1(written, c, Row(event, to, None)))
      /\ Append1(written, c, Row(event, to, None)).outbox = d.outbox
  BY <1>1, AppendKeepsOutbox
<1> QED
  BY <1>2, <1>3, <1>4

LEMMA EnqueueAdds ==
    ASSUME NEW d, Shaped(d), NEW e
    PROVE  Shaped(Enqueue(d, e)) /\ Enqueue(d, e).outbox \subseteq d.outbox \cup {e}
BY DEF Shaped, Enqueue, Raise

\* The walks of the flow and of the simulator never touch the outbox.
LEMMA WalksKeepOutbox ==
    ASSUME NEW d, Shaped(d), NEW c, NEW to, NEW event
    PROVE  /\ Shaped(Move(d, c, to)) /\ Move(d, c, to).outbox = d.outbox
           /\ Shaped(Stop(event, d, c)) /\ Stop(event, d, c).outbox = d.outbox
BY MoveKeepsOutbox DEF Move, Stop

LEMMA ResolutionKeepsOutbox ==
    ASSUME NEW d, Shaped(d), NEW c, NEW recovered
    PROVE  /\ Shaped(SelfHeal(d, c)) /\ SelfHeal(d, c).outbox = d.outbox
           /\ Shaped(Drip(d, c, recovered)) /\ Drip(d, c, recovered).outbox = d.outbox
           /\ Shaped(Execute(d, c, recovered))
           /\ Execute(d, c, recovered).outbox = d.outbox
<1>1. Shaped(SelfHeal(d, c)) /\ SelfHeal(d, c).outbox = d.outbox
  BY MoveKeepsOutbox, WalksKeepOutbox DEF SelfHeal
<1>2. /\ Shaped(Drip(d, c, recovered))
      /\ Drip(d, c, recovered).outbox = d.outbox
  <2> DEFINE executing == Move(Move(Move(d, c, "planned"), c, "scheduled"), c, "executing")
  <2>1. Shaped(executing) /\ executing.outbox = d.outbox
    BY WalksKeepOutbox
  <2> HIDE DEF executing
  <2>2. /\ Shaped(Move(executing, c, "awaiting_response"))
        /\ Move(executing, c, "awaiting_response").outbox = d.outbox
    BY <2>1, WalksKeepOutbox
  <2> QED
    BY <2>1, <2>2, MoveKeepsOutbox, WalksKeepOutbox DEF Drip, executing
<1>3. /\ Shaped(Execute(d, c, recovered))
      /\ Execute(d, c, recovered).outbox = d.outbox
  <2> DEFINE executing == Move(d, c, "executing")
  <2>1. Shaped(executing) /\ executing.outbox = d.outbox
    BY WalksKeepOutbox
  <2> HIDE DEF executing
  <2>2. /\ Shaped(Move(executing, c, "awaiting_response"))
        /\ Move(executing, c, "awaiting_response").outbox = d.outbox
    BY <2>1, WalksKeepOutbox
  <2> QED
    BY <2>1, <2>2, MoveKeepsOutbox, WalksKeepOutbox DEF Execute, executing
<1> QED BY <1>1, <1>2, <1>3

(***************************************************************************)
(* What the routers propose.                                               *)
(***************************************************************************)

\* A debit is only proposed above the floor, for a decline class.
LEMMA ProposedDebit ==
    ASSUME NEW f, Proposal(f) = Debit
    PROVE  f \in DeclineClass /\ ~BelowFloor(Diagnose(f))
<1>1. NoAction # Debit
  BY FlowNoneAssumption
<1>2. ~BelowFloor(Diagnose(f))
  BY <1>1 DEF Proposal, HedgedRoute, Debit
<1>3. Route(Diagnose(f)) = Debit
  BY <1>2 DEF Proposal
<1>4. CASE f \notin DeclineClass
  <2>1. \/ Diagnose(f).root_cause = "H9"
        \/ Diagnose(f).root_cause = "UNKNOWN"
    BY <1>4 DEF Diagnose, DispatchRiskClass, Diagnosis
  <2> QED
    BY <1>1, <1>3, <2>1 DEF Route, Routes, Debit
<1> QED BY <1>2, <1>4

\* Only an uncontested diagnosis reaches a floor above 52.
LEMMA ActsUncontested ==
    ASSUME NEW f, ConfidenceFloor > 52, ~BelowFloor(Diagnose(f))
    PROVE  Diagnose(f).alternatives = {}
<1>1. PICK cause, alternatives : Diagnose(f) = Diagnosis(cause, alternatives)
  BY DEF Diagnose, DispatchDeclineClass, DispatchRiskClass
<1> QED
  BY <1>1, FloorAssumption DEF Diagnosis, BelowFloor

\* Under every candidate cause the contact that is proposed is true.
LEMMA ProposedContact ==
    ASSUME NEW f, ConfidenceFloor > 52, Proposal(f) # NoAction,
           NEW cause \in Candidates(Diagnose(f)), ForbidsPaymentNudge(cause)
    PROVE  Proposal(f) = "payment_failed_inform"
<1>1. CASE BelowFloor(Diagnose(f))
  BY <1>1 DEF Proposal, HedgedRoute
<1>2. CASE ~BelowFloor(Diagnose(f))
  <2>1. cause = Diagnose(f).root_cause
    BY <1>2, ActsUncontested DEF Candidates
  <2> QED
    BY <1>2, <2>1 DEF Proposal, Route
<1> QED BY <1>1, <1>2

\* What the engine allows is sound: the rail gate has seen the class.
LEMMA AllowedIsSound ==
    ASSUME NEW c \in Case, NEW action, action = Proposal(profile[c].finding),
           action # NoAction, "allow" \in Verdicts(c, action)
    PROVE  Sound([case |-> c, action |-> action])
<1> DEFINE e == [case |-> c, action |-> action]
<1>1. e.case = c /\ e.action = action
  OBVIOUS
<1>2. action = Debit => ~RailDenies(c)
  BY DEF Verdicts
<1> HIDE DEF e
<1>3. DebitSafe(e)
  BY <1>1, <1>2, ProposedDebit DEF DebitSafe, RailDenies
<1>4. ConfidenceFloor > 52 => ContactTrue(e)
  BY <1>1, ProposedContact DEF ContactTrue
<1> QED
  BY <1>3, <1>4 DEF Sound, e

(***************************************************************************)
(* Every step keeps what is in the outbox sound.                           *)
(***************************************************************************)

LEMMA SoundIsStable ==
    ASSUME UNCHANGED profile, NEW e, Sound(e)
    PROVE  Sound(e)'
BY DEF Sound, DebitSafe, ContactTrue

LEMMA EndsSound ==
    ASSUME SoundInv, NEW handler, NEW c, NEW d, Shaped(d),
           \A e \in d.outbox : Sound(e), Ends(handler, c, d)
    PROVE  SoundInv'
<1>1. db' = d /\ UNCHANGED <<profile, stored>>
  BY DEF Ends
<1>2. \A e \in d.outbox \cup stored.outbox : Sound(e)'
  BY <1>1, SoundIsStable DEF SoundInv
<1>3. Shaped(db') /\ Shaped(stored')
  BY <1>1 DEF SoundInv
<1> QED
  BY <1>1, <1>2, <1>3 DEF SoundInv, Shaped

LEMMA OpenCaseSound ==
    ASSUME SoundInv, NEW c \in Case, OpenCase(c)
    PROVE  SoundInv'
<1> DEFINE opened == [db EXCEPT !.cases[c] = NewCase(c)]
           d == IF LiveCases(db, ObligationOf[c]) # {} THEN Raise(db)
                ELSE Note(opened, c, "case_opened")
<1>1. Shaped(opened) /\ opened.outbox = db.outbox
  BY DEF SoundInv, Shaped
<1>2. Ends("open_case", c, d)
  BY DEF OpenCase
<1>3. Shaped(Raise(db)) /\ Raise(db).outbox = db.outbox
  BY RaiseKeepsOutbox DEF SoundInv
<1> HIDE DEF opened
<1>4. Shaped(d) /\ d.outbox = db.outbox
  BY <1>1, <1>3, NoteKeepsOutbox
<1> HIDE DEF d
<1> QED
  BY <1>2, <1>4, EndsSound DEF SoundInv

LEMMA ResolveCaseSound ==
    ASSUME SoundInv, NEW c \in Case, NEW recovered \in BOOLEAN,
           ResolveCase(c, recovered)
    PROVE  SoundInv'
<1> DEFINE d == Note(db, c, "simulated_psp_response")
<1>1. Shaped(d) /\ d.outbox = db.outbox
  BY NoteKeepsOutbox DEF SoundInv
<1> HIDE DEF d
<1>2. /\ Shaped(SelfHeal(d, c)) /\ SelfHeal(d, c).outbox = db.outbox
      /\ Shaped(Drip(d, c, recovered)) /\ Drip(d, c, recovered).outbox = db.outbox
      /\ Shaped(Execute(d, c, recovered))
      /\ Execute(d, c, recovered).outbox = db.outbox
  BY <1>1, ResolutionKeepsOutbox
<1>3. Lane(c) \in {"not_simulated", "natural_floor", "generic_baseline",
                   "targeted_agent"}
  BY DEF Lane
<1>4. PICK result \in {db, d, SelfHeal(d, c), Drip(d, c, recovered),
                       Execute(d, c, recovered)} :
            Ends("resolve_case", c, result)
  BY <1>3 DEF ResolveCase, d
<1>5. Shaped(result) /\ result.outbox = db.outbox
  BY <1>1, <1>2, <1>4 DEF SoundInv
<1> QED
  BY <1>4, <1>5, EndsSound DEF SoundInv

\* The three consequences of a verdict, on a database d whose rows are sound.
LEMMA ConsequencesSound ==
    ASSUME NEW d, Shaped(d), NEW e
    PROVE  /\ Shaped(Allow(d, e)) /\ Allow(d, e).outbox \subseteq d.outbox \cup {e}
           /\ Shaped(AwaitApproval(d, e)) /\ AwaitApproval(d, e).outbox = d.outbox
           /\ Shaped(Deny(d, e)) /\ Deny(d, e).outbox = d.outbox
<1>1. Shaped(Allow(d, e)) /\ Allow(d, e).outbox \subseteq d.outbox \cup {e}
  <2> DEFINE queued == Enqueue(d, e)
             planned == Move(queued, e.case, "planned")
             logged == Append1(planned, e.case, Row("action_scheduled", None, e))
             scheduled == Move(logged, e.case, "scheduled")
  <2>1. Shaped(queued) /\ queued.outbox \subseteq d.outbox \cup {e}
    BY EnqueueAdds
  <2>2. Allow(d, e) = scheduled
    BY DEF Allow
  <2> HIDE DEF queued
  <2>3. Shaped(planned) /\ planned.outbox = queued.outbox
    BY <2>1, WalksKeepOutbox
  <2> HIDE DEF planned
  <2>4. Shaped(logged) /\ logged.outbox = planned.outbox
    BY <2>3, AppendKeepsOutbox
  <2> HIDE DEF logged
  <2>5. Shaped(scheduled) /\ scheduled.outbox = logged.outbox
    BY <2>4, WalksKeepOutbox
  <2> QED
    BY <2>1, <2>2, <2>3, <2>4, <2>5
<1>2. Shaped(AwaitApproval(d, e)) /\ AwaitApproval(d, e).outbox = d.outbox
  <2> DEFINE planned == Move(d, e.case, "planned")
             logged == Note(planned, e.case, "approval_requested")
  <2>1. AwaitApproval(d, e) = Move(logged, e.case, "awaiting_approval")
    BY DEF AwaitApproval
  <2>2. Shaped(planned) /\ planned.outbox = d.outbox
    BY WalksKeepOutbox
  <2> HIDE DEF planned
  <2>3. Shaped(logged) /\ logged.outbox = d.outbox
    BY <2>2, NoteKeepsOutbox
  <2> HIDE DEF logged
  <2> QED
    BY <2>1, <2>3, WalksKeepOutbox
<1>3. Shaped(Deny(d, e)) /\ Deny(d, e).outbox = d.outbox
  BY WalksKeepOutbox DEF Deny
<1> QED BY <1>1, <1>2, <1>3

LEMMA ProposingKeepsOutbox ==
    ASSUME Shaped(db), NEW c
    PROVE  /\ Shaped(Diagnosed(c)) /\ Diagnosed(c).outbox = db.outbox
           /\ Shaped(Proposed(c)) /\ Proposed(c).outbox = db.outbox
<1> DEFINE noted == Note(db, c, "diagnosis_produced")
<1>1. Shaped(noted) /\ noted.outbox = db.outbox
  BY NoteKeepsOutbox
<1>2. Diagnosed(c) = Move(noted, c, "diagnosing")
  BY DEF Diagnosed
<1> HIDE DEF noted
<1>3. Shaped(Diagnosed(c)) /\ Diagnosed(c).outbox = db.outbox
  BY <1>1, <1>2, WalksKeepOutbox
<1>4. Shaped(Proposed(c)) /\ Proposed(c).outbox = db.outbox
  BY <1>3, NoteKeepsOutbox DEF Proposed
<1> QED BY <1>3, <1>4

LEMMA DecideSound ==
    ASSUME SoundInv, NEW c \in Case, NEW verdict,
           verdict \in {"allow", "allow_with_approval", "deny"}, Decide(c, verdict)
    PROVE  SoundInv'
<1> DEFINE e == [case |-> c, action |-> Proposal(profile[c].finding)]
           d == Note(Proposed(c), c, "policy_evaluated")
           result == CASE verdict = "allow" -> Allow(d, e)
                       [] verdict = "allow_with_approval" -> AwaitApproval(d, e)
                       [] verdict = "deny" -> Deny(d, e)
<1>1. e.action = Proposal(profile[c].finding)
  OBVIOUS
<1>2. /\ Proposal(profile[c].finding) # NoAction
      /\ verdict \in Verdicts(c, Proposal(profile[c].finding))
      /\ Ends("process_case", c, result)
  BY DEF Decide
<1>3. Shaped(d) /\ d.outbox = db.outbox
  BY ProposingKeepsOutbox, NoteKeepsOutbox DEF SoundInv
<1>4. verdict = "allow" => Sound(e)
  BY <1>2, AllowedIsSound
<1> HIDE DEF d, e
<1>5. Shaped(result) /\ \A f \in result.outbox : f \in db.outbox \/ Sound(f)
  BY <1>3, <1>4, ConsequencesSound
<1>6. \A f \in result.outbox : Sound(f)
  BY <1>5 DEF SoundInv
<1> HIDE DEF result
<1> QED
  BY <1>2, <1>5, <1>6, EndsSound

LEMMA ProcessCaseSound ==
    ASSUME SoundInv, NEW c \in Case, ProcessCase(c)
    PROVE  SoundInv'
<1>1. CASE SkipArm(c)
  <2>1. PICK event : Ends("process_case", c, Note(db, c, event))
    BY <1>1 DEF SkipArm
  <2> DEFINE d == Note(db, c, event)
  <2>2. Shaped(d) /\ d.outbox = db.outbox
    BY NoteKeepsOutbox DEF SoundInv
  <2> HIDE DEF d
  <2> QED
    BY <2>1, <2>2, EndsSound DEF SoundInv, d
<1>2. CASE Escalate(c)
  <2> DEFINE d == Move(Diagnosed(c), c, "escalated")
  <2>1. Ends("process_case", c, d)
    BY <1>2 DEF Escalate
  <2>2. Shaped(d) /\ d.outbox = db.outbox
    BY ProposingKeepsOutbox, WalksKeepOutbox DEF SoundInv
  <2> HIDE DEF d
  <2> QED
    BY <2>1, <2>2, EndsSound DEF SoundInv
<1>3. CASE \E verdict \in {"allow", "allow_with_approval", "deny"} : Decide(c, verdict)
  BY <1>3, DecideSound
<1> QED
  BY <1>1, <1>2, <1>3 DEF ProcessCase

LEMMA InitSound == Init => SoundInv
<1> SUFFICES ASSUME Init PROVE SoundInv
  OBVIOUS
<1>1. profile \in [Case -> [arm : Arm, finding : Finding]]
  BY DEF Init
<1>2. EmptyDatabase.outbox = {} /\ Shaped(EmptyDatabase)
  BY DEF EmptyDatabase, Shaped
<1> QED
  BY <1>1, <1>2 DEF Init, SoundInv

LEMMA StepSound == SoundInv /\ [Next]_vars => SoundInv'
<1> SUFFICES ASSUME SoundInv, [Next]_vars
             PROVE  SoundInv'
  OBVIOUS
<1>1. ASSUME UNCHANGED profile,
             db' \in {db, stored}, stored' \in {db, stored}
      PROVE  SoundInv'
  <2>1. \A e \in db'.outbox \cup stored'.outbox : Sound(e)'
    BY <1>1, SoundIsStable DEF SoundInv
  <2> QED
    BY <1>1, <2>1 DEF SoundInv, Shaped
<1>2. CASE Begin \/ Commit \/ RollBack \/ UNCHANGED vars
  BY <1>1, <1>2 DEF Begin, Commit, RollBack, vars
<1>3. ASSUME NEW c \in Case, OpenCase(c)
      PROVE  SoundInv'
  BY <1>3, OpenCaseSound
<1>4. ASSUME NEW c \in Case, ProcessCase(c)
      PROVE  SoundInv'
  BY <1>4, ProcessCaseSound
<1>5. ASSUME NEW c \in Case, NEW recovered \in BOOLEAN, ResolveCase(c, recovered)
      PROVE  SoundInv'
  BY <1>5, ResolveCaseSound
<1> QED
  BY <1>2, <1>3, <1>4, <1>5 DEF Next

\* For any cases, findings, caps and floor: no debit reaches the outbox on a
\* class another attempt cannot help or on a diagnosis below the floor
\* (flow.route, flow.hedged_route and the rail gate together).
THEOREM DebitIsSafeAlways == Spec => []DebitIsSafe
<1>1. SoundInv => DebitIsSafe
  BY DEF SoundInv, Sound, DebitIsSafe
<1> QED
  BY <1>1, InitSound, StepSound, PTL DEF Spec

\* Under any floor above the confidence of a contested diagnosis, no message
\* but the failed-debit notice goes to a payer whose case may still have a
\* cause that forbids asking for money (flow.hedged_route).
THEOREM ContactIsTrueAlways ==
    ASSUME ConfidenceFloor > 52
    PROVE  Spec => []ContactIsTrueUnderEveryCause
<1>1. SoundInv => ContactIsTrueUnderEveryCause
  BY DEF SoundInv, Sound, ContactIsTrueUnderEveryCause
<1> QED
  BY <1>1, InitSound, StepSound, PTL DEF Spec

-----------------------------------------------------------------------------
(***************************************************************************)
(* What the statements of a handler append to the trail.                   *)
(***************************************************************************)

\* A database that holds case c.
Fit(d, c) == Shaped(d) /\ DatabaseOK(d) /\ c \in Case /\ d.cases[c] # None

\* b is a with rows of some events, which carry no key, at the end of the
\* trail of c; the other cases and the outbox are the same.
Extends(a, b, c, events) ==
    /\ b.outbox = a.outbox
    /\ a.raised => b.raised
    /\ \A k \in Case \ {c} : b.trail[k] = a.trail[k] /\ b.cases[k] = a.cases[k]
    /\ Len(a.trail[c]) <= Len(b.trail[c])
    /\ \A i \in 1..Len(b.trail[c]) :
            IF i <= Len(a.trail[c]) THEN b.trail[c][i] = a.trail[c][i]
            ELSE b.trail[c][i].key = None /\ b.trail[c][i].event \in events

Reaches(a, b, c, events) == Fit(a, c) /\ Fit(b, c) /\ Extends(a, b, c, events)

LEMMA TrailTypes ==
    ASSUME NEW d, DatabaseOK(d), NEW c \in Case
    PROVE  /\ d.trail[c] \in Seq(AuditRow) /\ Len(d.trail[c]) \in Nat
           /\ DOMAIN d.trail[c] = 1..Len(d.trail[c])
<1>1. d.trail[c] \in Seq(AuditRow)
  BY DEF DatabaseOK
<1> HIDE DEF AuditRow
<1> QED
  BY <1>1

LEMMA ReachesItself ==
    ASSUME NEW d, NEW c, Fit(d, c), NEW events
    PROVE  Reaches(d, d, c, events)
BY TrailTypes DEF Reaches, Extends, Fit

LEMMA ReachesOn ==
    ASSUME NEW a, NEW b, NEW d, NEW c, NEW events,
           Reaches(a, b, c, events), Reaches(b, d, c, events)
    PROVE  Reaches(a, d, c, events)
<1>1. /\ Len(a.trail[c]) \in Nat /\ Len(b.trail[c]) \in Nat /\ Len(d.trail[c]) \in Nat
  BY TrailTypes DEF Reaches, Fit
<1>2. Extends(a, b, c, events) /\ Extends(b, d, c, events)
  BY DEF Reaches
<1>3. \A i \in 1..Len(d.trail[c]) :
            IF i <= Len(a.trail[c]) THEN d.trail[c][i] = a.trail[c][i]
            ELSE d.trail[c][i].key = None /\ d.trail[c][i].event \in events
  <2> TAKE i \in 1..Len(d.trail[c])
  <2>1. CASE i <= Len(b.trail[c])
    <3>1. i \in 1..Len(b.trail[c])
      BY <1>1, <2>1
    <3>2. d.trail[c][i] = b.trail[c][i]
      BY <1>2, <2>1 DEF Extends
    <3> QED
      BY <1>2, <3>1, <3>2 DEF Extends
  <2>2. CASE ~(i <= Len(b.trail[c]))
    <3>1. ~(i <= Len(a.trail[c]))
      BY <1>1, <1>2, <2>2 DEF Extends
    <3> QED
      BY <1>2, <2>2, <3>1 DEF Extends
  <2> QED
    BY <2>1, <2>2
<1>4. Len(a.trail[c]) <= Len(d.trail[c])
  BY <1>1, <1>2 DEF Extends
<1> QED
  BY <1>2, <1>3, <1>4 DEF Reaches, Extends

LEMMA RowTypes ==
    ASSUME NEW event \in Event, NEW to \in CaseState \cup {None},
           NEW key \in Envelope \cup {None}
    PROVE  /\ Row(event, to, key) \in AuditRow
           /\ Row(event, to, key).event = event /\ Row(event, to, key).key = key
BY DEF Row, AuditRow

LEMMA AppendFits ==
    ASSUME NEW d, NEW c, Fit(d, c), NEW row \in AuditRow
    PROVE  /\ Fit(Append1(d, c, row), c)
           /\ Append1(d, c, row).cases = d.cases
           /\ Append1(d, c, row).outbox = d.outbox
           /\ Append1(d, c, row).raised = d.raised
           /\ ~d.raised => Append1(d, c, row).trail
                            = [d.trail EXCEPT ![c] = Append(d.trail[c], row)]
<1>1. CASE d.raised
  BY <1>1 DEF Append1
<1>2. CASE ~d.raised
  <2> DEFINE trail == [d.trail EXCEPT ![c] = Append(d.trail[c], row)]
             m == [d EXCEPT !.trail[c] = Append(@, row)]
  <2>1. Append1(d, c, row) = m
    BY <1>2 DEF Append1
  <2>2. /\ Shaped(m) /\ m.trail = trail /\ m.cases = d.cases
        /\ m.outbox = d.outbox /\ m.raised = d.raised
    BY DEF Fit, Shaped
  <2>3. trail \in [Case -> Seq(AuditRow)]
    <3>1. d.trail \in [Case -> Seq(AuditRow)] /\ c \in Case
      BY DEF Fit, DatabaseOK
    <3> HIDE DEF AuditRow
    <3>2. Append(d.trail[c], row) \in Seq(AuditRow)
      BY <3>1
    <3> QED
      BY <3>1, <3>2
  <2> HIDE DEF m, trail
  <2>4. DatabaseOK(m)
    BY <2>2, <2>3 DEF Fit, DatabaseOK
  <2> QED
    BY <2>1, <2>2, <2>4 DEF Fit, trail
<1> QED
  BY <1>1, <1>2

LEMMA AppendReaches ==
    ASSUME NEW d, NEW c, Fit(d, c), NEW row \in AuditRow, NEW events,
           row.key = None, row.event \in events
    PROVE  Reaches(d, Append1(d, c, row), c, events)
<1> DEFINE m == Append1(d, c, row)
<1>1. /\ Fit(m, c) /\ m.outbox = d.outbox /\ m.raised = d.raised
      /\ m.cases = d.cases
      /\ ~d.raised => m.trail = [d.trail EXCEPT ![c] = Append(d.trail[c], row)]
  BY AppendFits
<1>2. /\ d.trail[c] \in Seq(AuditRow) /\ Len(d.trail[c]) \in Nat /\ c \in Case
      /\ d.trail \in [Case -> Seq(AuditRow)]
  BY TrailTypes DEF Fit, DatabaseOK
<1>3. CASE d.raised
  BY <1>3, ReachesItself DEF Append1
<1>4. CASE ~d.raised
  <2> HIDE DEF m, AuditRow
  <2>1. /\ m.trail[c] = Append(d.trail[c], row)
        /\ \A k \in Case \ {c} : m.trail[k] = d.trail[k]
    BY <1>1, <1>2, <1>4
  <2>2. /\ Len(m.trail[c]) = Len(d.trail[c]) + 1
        /\ \A i \in 1..Len(m.trail[c]) :
                m.trail[c][i] = IF i <= Len(d.trail[c]) THEN d.trail[c][i] ELSE row
    BY <1>2, <2>1
  <2>3. Extends(d, m, c, events)
    BY <1>1, <1>2, <2>1, <2>2 DEF Extends
  <2> QED
    BY <1>1, <2>3 DEF Reaches, m
<1> QED
  BY <1>3, <1>4

LEMMA NoteReaches ==
    ASSUME NEW d, NEW c, Fit(d, c), NEW event \in Event, NEW events, event \in events
    PROVE  Reaches(d, Note(d, c, event), c, events)
<1>1. Row(event, None, None) \in AuditRow
  BY RowTypes
<1> QED
  BY <1>1, RowTypes, AppendReaches DEF Note

LEMMA RaiseReaches ==
    ASSUME NEW d, NEW c, Fit(d, c), NEW events
    PROVE  Reaches(d, Raise(d), c, events)
<1>1. /\ Shaped(Raise(d)) /\ Raise(d).raised = TRUE
      /\ Raise(d).cases = d.cases /\ Raise(d).outbox = d.outbox
      /\ Raise(d).trail = d.trail
  BY DEF Fit, Shaped, Raise
<1>2. Raise(d).raised \in BOOLEAN
  BY <1>1
<1>3. Fit(Raise(d), c)
  BY <1>1, <1>2 DEF Fit, DatabaseOK
<1>4. Len(d.trail[c]) \in Nat
  BY TrailTypes DEF Fit
<1> QED
  BY <1>1, <1>3, <1>4 DEF Reaches, Extends

LEMMA RebuiltWith ==
    ASSUME NEW case \in RiskCase, NEW to \in CaseState,
           NEW fields, fields \subseteq OptionalField
    PROVE  /\ Rebuild(case, to, Setting(fields)) \in RiskCase
           /\ Rebuild(case, to, Setting(fields)).state = to
           /\ Rebuild(case, to, Setting(fields)).arm = case.arm
BY DEF Rebuild, Setting, Updated, RiskCase

LEMMA MoveReaches ==
    ASSUME NEW d, NEW c, Fit(d, c), NEW event \in Event, NEW to \in CaseState,
           NEW fields, fields \subseteq OptionalField, NEW events, event \in events
    PROVE  Reaches(d, MoveAs(event, d, c, to, Setting(fields)), c, events)
<1> DEFINE row == Rebuild(d.cases[c], to, Setting(fields))
           written == [d EXCEPT !.cases[c] = row]
           m == MoveAs(event, d, c, to, Setting(fields))
<1>1. \/ m = d
      \/ m = Raise(d)
      \/ /\ m = Append1(written, c, Row(event, to, None))
         /\ ValidCase(row)
  BY DEF MoveAs
<1>2. CASE m = d
  BY <1>2, ReachesItself
<1>3. CASE m = Raise(d)
  BY <1>3, RaiseReaches
<1>4. CASE /\ m = Append1(written, c, Row(event, to, None))
           /\ ValidCase(row)
  <2>1. row \in RiskCase /\ (row.arm = "control" <=> InControlArm(c))
    <3>1. d.cases[c] \in RiskCase /\ (d.cases[c].arm = "control" <=> InControlArm(c))
      BY DEF Fit, DatabaseOK
    <3> QED
      BY <3>1, RebuiltWith
  <2> HIDE DEF row
  <2>2. /\ Shaped(written) /\ written.cases = [d.cases EXCEPT ![c] = row]
        /\ written.outbox = d.outbox /\ written.trail = d.trail
        /\ written.raised = d.raised
    BY DEF Fit, Shaped
  <2> HIDE DEF written
  <2>3. Fit(written, c)
    <3>1. written.cases \in [Case -> RiskCase \cup {None}]
      BY <2>1, <2>2 DEF Fit, DatabaseOK
    <3>2. \A k \in Case : written.cases[k] = IF k = c THEN row ELSE d.cases[k]
      BY <2>2 DEF Fit, DatabaseOK
    <3>3. \A k \in Case : written.cases[k] # None =>
                /\ ValidCase(written.cases[k])
                /\ written.cases[k].arm = "control" <=> InControlArm(k)
      BY <1>4, <2>1, <3>2 DEF Fit, DatabaseOK
    <3>4. DatabaseOK(written)
      BY <2>2, <3>1, <3>3 DEF Fit, DatabaseOK
    <3>5. written.cases[c] # None
      BY <2>1, <3>2, FlowNoneAssumption DEF Fit
    <3> QED
      BY <2>2, <3>4, <3>5 DEF Fit
  <2>4. Reaches(d, written, c, events)
    <3>1. Len(d.trail[c]) \in Nat
      BY TrailTypes DEF Fit
    <3>2. \A k \in Case \ {c} : written.cases[k] = d.cases[k]
      BY <2>2 DEF Fit, DatabaseOK
    <3> QED
      BY <2>2, <2>3, <3>1, <3>2 DEF Reaches, Extends
  <2>5. Reaches(written, m, c, events)
    <3>1. Row(event, to, None) \in AuditRow
      BY RowTypes
    <3> QED
      BY <1>4, <2>3, <3>1, RowTypes, AppendReaches
  <2> QED
    BY <2>4, <2>5, ReachesOn
<1> QED
  BY <1>1, <1>2, <1>3, <1>4

(***************************************************************************)
(* What the flow and the simulator append.                                 *)
(***************************************************************************)

SimulatorEvents == Event \ {"simulated_psp_response", "action_scheduled"}
FlowEvents == SimulatorEvents \ {"case_recovered", "case_stopped"}

LEMMA WalksReach ==
    ASSUME NEW d, NEW c, Fit(d, c), NEW to \in CaseState, NEW events,
           "case_state_changed" \in events
    PROVE  Reaches(d, Move(d, c, to), c, events)
<1>1. "case_state_changed" \in Event /\ {} \subseteq OptionalField
  BY DEF Event
<1> QED
  BY <1>1, MoveReaches DEF Move

LEMMA StopReaches ==
    ASSUME NEW d, NEW c, Fit(d, c), NEW event \in Event, NEW events, event \in events
    PROVE  Reaches(d, Stop(event, d, c), c, events)
<1>1. "stopped" \in CaseState /\ {"stop_reason", "stopped_at"} \subseteq OptionalField
  BY DEF CaseState, OptionalField
<1> QED
  BY <1>1, MoveReaches DEF Stop

LEMMA RecoverReaches ==
    ASSUME NEW d, NEW c, Fit(d, c), NEW events, "case_recovered" \in events
    PROVE  Reaches(d, MoveAs("case_recovered", d, c, "recovered", Setting({})), c, events)
<1>1. /\ "recovered" \in CaseState /\ {} \subseteq OptionalField
      /\ "case_recovered" \in Event
  BY DEF CaseState, Event
<1> QED
  BY <1>1, MoveReaches

LEMMA SelfHealReaches ==
    ASSUME NEW d, NEW c, Fit(d, c), NEW events,
           {"case_recovered", "case_stopped"} \subseteq events
    PROVE  Reaches(d, SelfHeal(d, c), c, events)
<1>1. "case_stopped" \in Event
  BY DEF Event
<1> QED
  BY <1>1, RecoverReaches, StopReaches, ReachesItself DEF SelfHeal

ResolutionEvents == {"case_state_changed", "case_recovered", "case_stopped"}

LEMMA ResolutionReaches ==
    ASSUME NEW d, NEW c, Fit(d, c), NEW recovered, NEW events,
           ResolutionEvents \subseteq events
    PROVE  /\ Reaches(d, SelfHeal(d, c), c, events)
           /\ Reaches(d, Drip(d, c, recovered), c, events)
           /\ Reaches(d, Execute(d, c, recovered), c, events)
<1>0. /\ "case_state_changed" \in events /\ "case_recovered" \in events
      /\ "case_stopped" \in events /\ "case_stopped" \in Event
      /\ {"planned", "scheduled", "executing", "awaiting_response", "retry_backoff"}
            \subseteq CaseState
  BY DEF ResolutionEvents, Event, CaseState
<1>1. Reaches(d, SelfHeal(d, c), c, events)
  BY <1>0, SelfHealReaches
<1>2. Reaches(d, Drip(d, c, recovered), c, events)
  <2> DEFINE planned == Move(d, c, "planned")
             scheduled == Move(planned, c, "scheduled")
             executing == Move(scheduled, c, "executing")
             waiting == Move(executing, c, "awaiting_response")
  <2>0. Drip(d, c, recovered) =
            IF recovered THEN MoveAs("case_recovered", executing, c, "recovered", Setting({}))
            ELSE Stop("case_stopped", waiting, c)
    BY DEF Drip
  <2>1. Reaches(d, planned, c, events) /\ Fit(planned, c)
    BY <1>0, WalksReach DEF Reaches
  <2> HIDE DEF planned
  <2>2. Reaches(d, scheduled, c, events) /\ Fit(scheduled, c)
    BY <1>0, <2>1, WalksReach, ReachesOn DEF Reaches
  <2> HIDE DEF scheduled
  <2>3. Reaches(d, executing, c, events) /\ Fit(executing, c)
    BY <1>0, <2>2, WalksReach, ReachesOn DEF Reaches
  <2> HIDE DEF executing
  <2>4. Reaches(d, waiting, c, events) /\ Fit(waiting, c)
    BY <1>0, <2>3, WalksReach, ReachesOn DEF Reaches
  <2> HIDE DEF waiting
  <2>5. Reaches(d, Stop("case_stopped", waiting, c), c, events)
    BY <1>0, <2>4, StopReaches, ReachesOn
  <2>6. Reaches(d, MoveAs("case_recovered", executing, c, "recovered", Setting({})), c, events)
    BY <1>0, <2>3, RecoverReaches, ReachesOn
  <2> QED
    BY <2>0, <2>5, <2>6
<1>3. Reaches(d, Execute(d, c, recovered), c, events)
  <2> DEFINE executing == Move(d, c, "executing")
             waiting == Move(executing, c, "awaiting_response")
  <2>0. Execute(d, c, recovered) \in
            {MoveAs("case_recovered", executing, c, "recovered", Setting({})),
             Move(waiting, c, "planned"),
             Move(executing, c, "retry_backoff"),
             Stop("case_stopped", executing, c)}
    BY DEF Execute
  <2>1. Reaches(d, executing, c, events) /\ Fit(executing, c)
    BY <1>0, WalksReach DEF Reaches
  <2> HIDE DEF executing
  <2>2. Reaches(d, waiting, c, events) /\ Fit(waiting, c)
    BY <1>0, <2>1, WalksReach, ReachesOn DEF Reaches
  <2> HIDE DEF waiting
  <2>3. /\ Reaches(d, Move(waiting, c, "planned"), c, events)
        /\ Reaches(d, Move(executing, c, "retry_backoff"), c, events)
    BY <1>0, <2>1, <2>2, WalksReach, ReachesOn
  <2>4. Reaches(d, Stop("case_stopped", executing, c), c, events)
    BY <1>0, <2>1, StopReaches, ReachesOn
  <2>5. Reaches(d, MoveAs("case_recovered", executing, c, "recovered", Setting({})), c, events)
    BY <1>0, <2>1, RecoverReaches, ReachesOn
  <2> QED
    BY <2>0, <2>3, <2>4, <2>5
<1> QED
  BY <1>1, <1>2, <1>3

LEMMA ProposingReaches ==
    ASSUME NEW c, Fit(db, c)
    PROVE  /\ Reaches(db, Diagnosed(c), c, FlowEvents)
           /\ Reaches(db, Proposed(c), c, FlowEvents)
<1>0. /\ {"diagnosis_produced", "case_state_changed", "contested_diagnosis_hedged"}
            \subseteq FlowEvents
      /\ FlowEvents \subseteq Event /\ "diagnosing" \in CaseState
  BY DEF FlowEvents, SimulatorEvents, Event, CaseState
<1> DEFINE noted == Note(db, c, "diagnosis_produced")
<1>1. Reaches(db, noted, c, FlowEvents) /\ Fit(noted, c)
  BY <1>0, NoteReaches DEF Reaches
<1>2. Diagnosed(c) = Move(noted, c, "diagnosing")
  BY DEF Diagnosed
<1> HIDE DEF noted
<1>3. Reaches(db, Diagnosed(c), c, FlowEvents) /\ Fit(Diagnosed(c), c)
  BY <1>0, <1>1, <1>2, WalksReach, ReachesOn DEF Reaches
<1>4. Reaches(db, Note(Diagnosed(c), c, "contested_diagnosis_hedged"), c, FlowEvents)
  BY <1>0, <1>3, NoteReaches, ReachesOn
<1> QED
  BY <1>3, <1>4 DEF Proposed

LEMMA RefusingReaches ==
    ASSUME NEW d, NEW c, Fit(d, c), NEW e, e.case = c
    PROVE  /\ Reaches(d, AwaitApproval(d, e), c, FlowEvents)
           /\ Reaches(d, Deny(d, e), c, FlowEvents)
<1>0. /\ "case_state_changed" \in FlowEvents /\ "approval_requested" \in FlowEvents
      /\ {"planned", "awaiting_approval"} \subseteq CaseState
      /\ FlowEvents \subseteq Event
  BY DEF FlowEvents, SimulatorEvents, Event, CaseState
<1>1. Reaches(d, Deny(d, e), c, FlowEvents)
  BY <1>0, StopReaches DEF Deny
<1>2. Reaches(d, AwaitApproval(d, e), c, FlowEvents)
  <2> DEFINE planned == Move(d, c, "planned")
             logged == Note(planned, c, "approval_requested")
  <2>1. AwaitApproval(d, e) = Move(logged, c, "awaiting_approval")
    BY DEF AwaitApproval
  <2>2. Reaches(d, planned, c, FlowEvents) /\ Fit(planned, c)
    BY <1>0, WalksReach DEF Reaches
  <2> HIDE DEF planned
  <2>3. Reaches(d, logged, c, FlowEvents) /\ Fit(logged, c)
    BY <1>0, <2>2, NoteReaches, ReachesOn DEF Reaches
  <2> HIDE DEF logged
  <2> QED
    BY <1>0, <2>1, <2>3, WalksReach, ReachesOn
<1> QED
  BY <1>1, <1>2

LEMMA RowsStay ==
    ASSUME NEW a, NEW b, NEW c, NEW events, Reaches(a, b, c, events),
           NEW k \in Case, NEW i \in DOMAIN a.trail[k]
    PROVE  i \in DOMAIN b.trail[k] /\ b.trail[k][i] = a.trail[k][i]
<1>1. CASE k # c
  BY <1>1 DEF Reaches, Extends
<1>2. CASE k = c
  <2>1. /\ DOMAIN a.trail[c] = 1..Len(a.trail[c]) /\ Len(a.trail[c]) \in Nat
        /\ DOMAIN b.trail[c] = 1..Len(b.trail[c]) /\ Len(b.trail[c]) \in Nat
    BY TrailTypes DEF Reaches, Fit
  <2> QED
    BY <1>2, <2>1 DEF Reaches, Extends
<1> QED
  BY <1>1, <1>2

LEMMA RowsFrom ==
    ASSUME NEW a, NEW b, NEW c, NEW events, Reaches(a, b, c, events),
           NEW k \in Case, NEW i \in DOMAIN b.trail[k]
    PROVE  \/ i \in DOMAIN a.trail[k] /\ b.trail[k][i] = a.trail[k][i]
           \/ k = c /\ b.trail[k][i].key = None /\ b.trail[k][i].event \in events
<1>1. CASE k # c
  BY <1>1 DEF Reaches, Extends
<1>2. CASE k = c
  <2>1. /\ DOMAIN a.trail[c] = 1..Len(a.trail[c]) /\ Len(a.trail[c]) \in Nat
        /\ DOMAIN b.trail[c] = 1..Len(b.trail[c]) /\ Len(b.trail[c]) \in Nat
    BY TrailTypes DEF Reaches, Fit
  <2> QED
    BY <1>2, <2>1 DEF Reaches, Extends
<1> QED
  BY <1>1, <1>2

(***************************************************************************)
(* Rows without a key at the end of a trail keep what it says.             *)
(***************************************************************************)

LEMMA KeepAudited ==
    ASSUME NEW a, NEW b, NEW c, NEW events, Reaches(a, b, c, events), Audited(a)
    PROVE  Audited(b)
<1>1. a.outbox \subseteq Envelope
  BY DEF Reaches, Fit, DatabaseOK
<1>2. Extends(a, b, c, events) /\ c \in Case
  BY DEF Reaches, Fit
<1>3. \A k \in Case : \A i \in DOMAIN a.trail[k] :
            i \in DOMAIN b.trail[k] /\ b.trail[k][i] = a.trail[k][i]
  BY RowsStay
<1>4. \A k \in Case : \A i \in DOMAIN b.trail[k] :
            i \in DOMAIN a.trail[k] \/ b.trail[k][i].key = None
  BY RowsFrom
<1>5. ASSUME NEW e \in b.outbox
      PROVE  \E i \in DOMAIN b.trail[e.case] :
                \A j \in DOMAIN b.trail[e.case] : b.trail[e.case][j].key = e <=> j = i
  <2>1. e \in a.outbox /\ e \in Envelope /\ e.case \in Case
    BY <1>1, <1>2, <1>5 DEF Extends, Envelope
  <2>2. e # None
    BY <2>1, FlowNoneAssumption DEF Envelope
  <2>3. PICK i \in DOMAIN a.trail[e.case] :
            \A j \in DOMAIN a.trail[e.case] : a.trail[e.case][j].key = e <=> j = i
    BY <2>1 DEF Audited
  <2>4. \A j \in DOMAIN b.trail[e.case] : b.trail[e.case][j].key = e <=> j = i
    BY <1>3, <1>4, <2>1, <2>2, <2>3
  <2> QED
    BY <1>3, <2>1, <2>3, <2>4
<1>6. ASSUME NEW k \in Case, NEW i \in DOMAIN b.trail[k], b.trail[k][i].key # None
      PROVE  b.trail[k][i].key \in b.outbox /\ b.trail[k][i].key.case = k
  BY <1>2, <1>3, <1>4, <1>6 DEF Audited, Extends
<1> QED
  BY <1>5, <1>6 DEF Audited

LEMMA KeepDrawnOnce ==
    ASSUME NEW a, NEW b, NEW c, Reaches(a, b, c, FlowEvents), DrawnOnce(a)
    PROVE  DrawnOnce(b)
<1>1. \A k \in Case : \A i \in DOMAIN a.trail[k] :
            i \in DOMAIN b.trail[k] /\ b.trail[k][i] = a.trail[k][i]
  BY RowsStay
<1>2. \A k \in Case : \A i \in DOMAIN b.trail[k] :
            \/ i \in DOMAIN a.trail[k]
            \/ b.trail[k][i].event
                    \notin {"simulated_psp_response", "case_recovered", "case_stopped"}
  BY RowsFrom DEF FlowEvents, SimulatorEvents
<1>3. ASSUME NEW k \in Case, NEW i \in DOMAIN b.trail[k],
             b.trail[k][i].event = "simulated_psp_response"
      PROVE  \A j \in DOMAIN b.trail[k] :
                b.trail[k][j].event = "simulated_psp_response" => j = i
  BY <1>1, <1>2, <1>3 DEF DrawnOnce
<1>4. ASSUME NEW k \in Case, NEW i \in DOMAIN b.trail[k],
             b.trail[k][i].event \in {"case_recovered", "case_stopped"}
      PROVE  \E j \in DOMAIN b.trail[k] :
                j < i /\ b.trail[k][j].event = "simulated_psp_response"
  BY <1>1, <1>2, <1>4 DEF DrawnOnce
<1> QED
  BY <1>3, <1>4 DEF DrawnOnce

LEMMA KeepHedged ==
    ASSUME NEW a, NEW b, NEW c, NEW events, Reaches(a, b, c, events),
           "action_scheduled" \notin events, Hedged(a)
    PROVE  Hedged(b)
<1>1. \A k \in Case : \A i \in DOMAIN a.trail[k] :
            i \in DOMAIN b.trail[k] /\ b.trail[k][i] = a.trail[k][i]
  BY RowsStay
<1>2. \A k \in Case : \A i \in DOMAIN b.trail[k] :
            i \in DOMAIN a.trail[k] \/ b.trail[k][i].event # "action_scheduled"
  BY RowsFrom
<1> QED
  BY <1>1, <1>2 DEF Hedged

(***************************************************************************)
(* The two rows that do mean something: the row of an action, and the      *)
(* simulated response.                                                     *)
(***************************************************************************)

\* One row of a trail has the key e.
KeyedOnce(trail, e) ==
    \E i \in DOMAIN trail : \A j \in DOMAIN trail : trail[j].key = e <=> j = i

LEMMA KeyedRow ==
    ASSUME NEW a, NEW b, NEW c, Fit(a, c), Audited(a), DrawnOnce(a), Hedged(a),
           NEW e \in Envelope, e.case = c, e \notin a.outbox,
           b.outbox = a.outbox \cup {e},
           b.trail = [a.trail EXCEPT ![c] =
                        Append(a.trail[c], Row("action_scheduled", None, e))],
           BelowFloor(Diagnose(profile[c].finding)) =>
                \E j \in DOMAIN a.trail[c] :
                    a.trail[c][j].event = "contested_diagnosis_hedged"
    PROVE  Audited(b) /\ DrawnOnce(b) /\ Hedged(b)
<1> DEFINE n == Len(a.trail[c]) + 1
           row == Row("action_scheduled", None, e)
<1>1. row.key = e /\ row.event = "action_scheduled" /\ row \in AuditRow
  <2>1. /\ "action_scheduled" \in Event /\ None \in CaseState \cup {None}
        /\ e \in Envelope \cup {None}
    BY DEF Event
  <2> HIDE DEF row
  <2>2. Row("action_scheduled", None, e) \in AuditRow
    BY <2>1, RowTypes
  <2>3. row.key = e /\ row.event = "action_scheduled"
    BY DEF row, Row
  <2> QED
    BY <2>2, <2>3 DEF row
<1>2. e # None
  BY FlowNoneAssumption DEF Envelope
<1>3. /\ c \in Case /\ a.trail \in [Case -> Seq(AuditRow)]
      /\ \A k \in Case : DOMAIN a.trail[k] = 1..Len(a.trail[k]) /\ Len(a.trail[k]) \in Nat
  BY TrailTypes DEF Fit, DatabaseOK
<1>4. /\ \A k \in Case \ {c} : b.trail[k] = a.trail[k]
      /\ n \in Nat /\ n \notin DOMAIN a.trail[c]
      /\ DOMAIN b.trail[c] = DOMAIN a.trail[c] \cup {n}
      /\ b.trail[c][n] = row
      /\ \A j \in DOMAIN a.trail[c] : b.trail[c][j] = a.trail[c][j] /\ j < n
  <2> HIDE DEF row, AuditRow
  <2>1. \A k \in Case : b.trail[k] = IF k = c THEN Append(a.trail[c], row) ELSE a.trail[k]
    BY <1>3 DEF row
  <2> DEFINE t == a.trail[c]
  <2>2. t \in Seq(AuditRow) /\ b.trail[c] = Append(t, row)
    BY <1>3, <2>1
  <2>3. DOMAIN t = 1..Len(t) /\ Len(t) \in Nat
    BY <1>3
  <2> HIDE DEF t
  <2>4. /\ DOMAIN Append(t, row) = DOMAIN t \cup {Len(t) + 1}
        /\ Append(t, row)[Len(t) + 1] = row
        /\ \A j \in DOMAIN t : Append(t, row)[j] = t[j] /\ j < Len(t) + 1
    BY <1>1, <2>2, <2>3
  <2> QED
    BY <1>3, <2>1, <2>2, <2>3, <2>4 DEF t
<1> HIDE DEF n, row
<1>5. \A i \in DOMAIN a.trail[c] : a.trail[c][i].key # e
  BY <1>2, <1>3 DEF Audited
<1>6. ASSUME NEW f \in b.outbox
      PROVE  KeyedOnce(b.trail[f.case], f)
  <2>1. CASE f = e
    <3>1. b.trail[c][n].key = e
      BY <1>1, <1>4
    <3>2. \A j \in DOMAIN b.trail[c] : j # n => b.trail[c][j].key # e
      BY <1>4, <1>5
    <3>3. n \in DOMAIN b.trail[c]
      BY <1>4
    <3>4. \A j \in DOMAIN b.trail[c] : b.trail[c][j].key = e <=> j = n
      BY <3>1, <3>2, Zenon
    <3>5. KeyedOnce(b.trail[c], e)
      BY <3>3, <3>4, Zenon DEF KeyedOnce
    <3>6. f.case = c
      BY <2>1
    <3> QED
      BY <2>1, <3>5, <3>6
  <2>2. CASE f # e
    <3>1. f \in a.outbox /\ f.case \in Case
      BY <1>6, <2>2 DEF Fit, DatabaseOK, Envelope
    <3>2. KeyedOnce(a.trail[f.case], f)
      BY <3>1 DEF Audited, KeyedOnce
    <3>3. CASE f.case = c
      <4>1. PICK i \in DOMAIN a.trail[c] :
                \A j \in DOMAIN a.trail[c] : a.trail[c][j].key = f <=> j = i
        BY <3>2, <3>3 DEF KeyedOnce
      <4>2. b.trail[c][n].key # f
        BY <1>1, <1>4, <2>2
      <4>3. /\ i \in DOMAIN b.trail[c]
            /\ \A j \in DOMAIN b.trail[c] : b.trail[c][j].key = f <=> j = i
        BY <1>4, <4>1, <4>2
      <4>4. KeyedOnce(b.trail[c], f)
        BY <4>3, Zenon DEF KeyedOnce
      <4> QED
        BY <3>3, <4>4
    <3>4. CASE f.case # c
      <4>1. b.trail[f.case] = a.trail[f.case]
        BY <1>4, <3>1, <3>4
      <4> QED
        BY <3>2, <4>1
    <3> QED
      BY <3>3, <3>4
  <2> QED
    BY <2>1, <2>2
<1>7. ASSUME NEW k \in Case, NEW i \in DOMAIN b.trail[k], b.trail[k][i].key # None
      PROVE  b.trail[k][i].key \in b.outbox /\ b.trail[k][i].key.case = k
  <2>1. CASE k = c /\ i = n
    BY <1>1, <1>4, <2>1
  <2>2. CASE k # c \/ i # n
    <3>1. i \in DOMAIN a.trail[k] /\ b.trail[k][i] = a.trail[k][i]
      BY <1>4, <1>7, <2>2
    <3> QED
      BY <1>7, <3>1 DEF Audited
  <2> QED
    BY <2>1, <2>2
<1>8. DrawnOnce(b)
  <2>1. \A k \in Case : \A i \in DOMAIN b.trail[k] :
            \/ i \in DOMAIN a.trail[k] /\ b.trail[k][i] = a.trail[k][i]
            \/ b.trail[k][i].event = "action_scheduled"
    BY <1>1, <1>4
  <2>2. \A k \in Case : \A i \in DOMAIN a.trail[k] :
            i \in DOMAIN b.trail[k] /\ b.trail[k][i] = a.trail[k][i]
    BY <1>4
  <2> QED
    BY <2>1, <2>2 DEF DrawnOnce
<1>9. Hedged(b)
  <2> SUFFICES ASSUME NEW k \in Case, BelowFloor(Diagnose(profile[k].finding)),
                      NEW i \in DOMAIN b.trail[k],
                      b.trail[k][i].event = "action_scheduled"
               PROVE  \E j \in DOMAIN b.trail[k] :
                        j < i /\ b.trail[k][j].event = "contested_diagnosis_hedged"
    BY DEF Hedged
  <2>1. CASE k = c /\ i = n
    BY <1>4, <2>1
  <2>2. CASE k # c \/ i # n
    <3>1. i \in DOMAIN a.trail[k] /\ a.trail[k][i].event = "action_scheduled"
      BY <1>4, <2>2
    <3>2. PICK j \in DOMAIN a.trail[k] :
            j < i /\ a.trail[k][j].event = "contested_diagnosis_hedged"
      BY <3>1 DEF Hedged
    <3> QED
      BY <1>4, <3>2
  <2> QED
    BY <2>1, <2>2
<1> QED
  BY <1>6, <1>7, <1>8, <1>9 DEF Audited, KeyedOnce

LEMMA ResponseThenOutcome ==
    ASSUME NEW a, NEW b, NEW d, NEW c, Fit(a, c), DrawnOnce(a),
           \A i \in DOMAIN a.trail[c] : a.trail[c][i].event # "simulated_psp_response",
           b.trail = [a.trail EXCEPT ![c] =
                        Append(a.trail[c], Row("simulated_psp_response", None, None))],
           Reaches(b, d, c, SimulatorEvents)
    PROVE  DrawnOnce(d)
<1> DEFINE n == Len(a.trail[c]) + 1
           row == Row("simulated_psp_response", None, None)
<1>1. row.event = "simulated_psp_response" /\ row \in AuditRow
  BY RowTypes DEF Event
<1>2. /\ c \in Case /\ a.trail \in [Case -> Seq(AuditRow)]
      /\ \A k \in Case : DOMAIN a.trail[k] = 1..Len(a.trail[k]) /\ Len(a.trail[k]) \in Nat
  BY TrailTypes DEF Fit, DatabaseOK
<1> HIDE DEF row, AuditRow
<1>3. \A k \in Case : b.trail[k] = IF k = c THEN Append(a.trail[c], row) ELSE a.trail[k]
  BY <1>2 DEF row
<1> DEFINE t == a.trail[c]
<1>4. /\ t \in Seq(AuditRow) /\ DOMAIN t = 1..Len(t) /\ Len(t) \in Nat
      /\ b.trail[c] = Append(t, row)
  BY <1>2, <1>3
<1> HIDE DEF t
<1>5. /\ Len(b.trail[c]) = Len(t) + 1 /\ b.trail[c][Len(t) + 1] = row
      /\ \A j \in DOMAIN t : b.trail[c][j] = t[j]
  BY <1>1, <1>4
<1>6. /\ Extends(b, d, c, SimulatorEvents)
      /\ DOMAIN d.trail[c] = 1..Len(d.trail[c]) /\ Len(d.trail[c]) \in Nat
  BY TrailTypes DEF Reaches, Fit
<1>7. /\ \A k \in Case \ {c} : d.trail[k] = a.trail[k]
      /\ n \in DOMAIN d.trail[c] /\ d.trail[c][n].event = "simulated_psp_response"
      /\ \A i \in DOMAIN d.trail[c] :
            d.trail[c][i].event = "simulated_psp_response" => i = n
      /\ \A i \in DOMAIN d.trail[c] :
            \/ i \in DOMAIN t /\ d.trail[c][i] = t[i]
            \/ i >= n
      /\ \A i \in DOMAIN d.trail[c] : i \in Nat
  <2>1. \A k \in Case \ {c} : d.trail[k] = a.trail[k]
    BY <1>3, <1>6 DEF Extends
  <2>2. \A i \in DOMAIN d.trail[c] :
            IF i <= Len(t) + 1 THEN d.trail[c][i] = b.trail[c][i]
            ELSE d.trail[c][i].event \in SimulatorEvents
    BY <1>5, <1>6 DEF Extends
  <2>3. Len(t) + 1 \in DOMAIN d.trail[c]
    BY <1>4, <1>5, <1>6 DEF Extends
  <2>4. n = Len(t) + 1
    BY DEF t
  <2>5. \A i \in DOMAIN t : t[i].event # "simulated_psp_response"
    BY DEF t
  <2>6. \A i \in DOMAIN d.trail[c] :
            i \in Nat /\ (i \in DOMAIN t \/ i = Len(t) + 1 \/ i > Len(t) + 1)
    BY <1>4, <1>6
  <2> HIDE DEF n
  <2> QED
    BY <1>1, <1>4, <1>5, <2>1, <2>2, <2>3, <2>4, <2>5, <2>6 DEF SimulatorEvents
<1> HIDE DEF n
<1>8. \A i \in DOMAIN t : t[i].event \in {"case_recovered", "case_stopped"} => FALSE
  BY DEF DrawnOnce, t, Fit
<1>9. ASSUME NEW i \in DOMAIN d.trail[c],
             d.trail[c][i].event \in {"case_recovered", "case_stopped"}
      PROVE  n < i
  <2>1. i >= n
    BY <1>7, <1>8, <1>9
  <2>2. i # n
    BY <1>7, <1>9
  <2>3. n \in Nat /\ i \in Nat
    BY <1>7
  <2> QED
    BY <2>1, <2>2, <2>3
<1> QED
  BY <1>7, <1>9 DEF DrawnOnce

(***************************************************************************)
(* An allowed action: the envelope, the moves around it, and its row.      *)
(***************************************************************************)

Kept(d) == Audited(d) /\ DrawnOnce(d) /\ Hedged(d)

LEMMA FlowKeeps ==
    ASSUME NEW a, NEW b, NEW c, Reaches(a, b, c, FlowEvents), Kept(a)
    PROVE  Kept(b)
<1>1. "action_scheduled" \notin FlowEvents
  BY DEF FlowEvents, SimulatorEvents
<1> QED
  BY <1>1, KeepAudited, KeepDrawnOnce, KeepHedged DEF Kept

LEMMA NoteIsThere ==
    ASSUME NEW d, NEW c, Fit(d, c), NEW event \in Event, ~d.raised
    PROVE  \E i \in DOMAIN Note(d, c, event).trail[c] :
                Note(d, c, event).trail[c][i].event = event
<1> DEFINE row == Row(event, None, None)
           t == d.trail[c]
<1>1. row \in AuditRow /\ row.event = event
  BY RowTypes
<1> HIDE DEF row
<1>2. Note(d, c, event).trail = [d.trail EXCEPT ![c] = Append(d.trail[c], row)]
  BY <1>1, AppendFits DEF Note, row
<1> HIDE DEF AuditRow
<1>3. t \in Seq(AuditRow) /\ c \in Case /\ d.trail \in [Case -> Seq(AuditRow)]
  BY TrailTypes DEF Fit, DatabaseOK
<1>4. Note(d, c, event).trail[c] = Append(t, row)
  BY <1>2, <1>3
<1> HIDE DEF t
<1>5. Len(t) + 1 \in DOMAIN Append(t, row) /\ Append(t, row)[Len(t) + 1] = row
  BY <1>1, <1>3
<1> QED
  BY <1>1, <1>4, <1>5

LEMMA EnqueueFits ==
    ASSUME NEW d, NEW c, Fit(d, c), NEW e \in Envelope, e \notin d.outbox
    PROVE  /\ Fit(Enqueue(d, e), c)
           /\ d.raised => Enqueue(d, e).raised
           /\ ~Enqueue(d, e).raised =>
                /\ Enqueue(d, e).outbox = d.outbox \cup {e}
                /\ Enqueue(d, e).trail = d.trail
                /\ Enqueue(d, e).cases = d.cases
<1> DEFINE queued == [d EXCEPT !.outbox = @ \cup {e}]
<1>1. /\ Shaped(queued) /\ queued.outbox = d.outbox \cup {e}
      /\ queued.trail = d.trail /\ queued.cases = d.cases /\ queued.raised = d.raised
  BY DEF Fit, Shaped
<1>2. \/ d.raised /\ Enqueue(d, e) = d
      \/ Enqueue(d, e) \in {Raise(d), queued}
  BY DEF Enqueue
<1> HIDE DEF queued
<1>3. Fit(queued, c)
  BY <1>1 DEF Fit, DatabaseOK
<1>4. Fit(Raise(d), c) /\ Raise(d).raised
  BY RaiseReaches DEF Reaches, Raise, Fit, Shaped
<1> QED
  BY <1>1, <1>2, <1>3, <1>4

LEMMA AllowKeeps ==
    ASSUME NEW d, NEW c, Fit(d, c), Kept(d),
           NEW e \in Envelope, e.case = c, e \notin d.outbox,
           ~d.raised /\ BelowFloor(Diagnose(profile[c].finding)) =>
                \E j \in DOMAIN d.trail[c] :
                    d.trail[c][j].event = "contested_diagnosis_hedged"
    PROVE  /\ Fit(Allow(d, e), c)
           /\ ~Allow(d, e).raised => Kept(Allow(d, e))
<1> DEFINE queued == Enqueue(d, e)
           planned == Move(queued, c, "planned")
           row == Row("action_scheduled", None, e)
           logged == Append1(planned, c, row)
           scheduled == Move(logged, c, "scheduled")
<1>0. /\ "case_state_changed" \in FlowEvents /\ "action_scheduled" \in Event
      /\ {"planned", "scheduled"} \subseteq CaseState
  BY DEF FlowEvents, SimulatorEvents, Event, CaseState
<1>1. Allow(d, e) = scheduled
  BY DEF Allow
<1>2. row \in AuditRow
  BY <1>0, RowTypes
<1>3. /\ Fit(queued, c) /\ (d.raised => queued.raised)
      /\ ~queued.raised => /\ queued.outbox = d.outbox \cup {e}
                           /\ queued.trail = d.trail /\ queued.cases = d.cases
  BY EnqueueFits
<1> HIDE DEF queued
<1>4. Reaches(queued, planned, c, FlowEvents) /\ Fit(planned, c)
  BY <1>0, <1>3, WalksReach DEF Reaches
<1> HIDE DEF planned
<1>5. /\ Fit(logged, c) /\ logged.raised = planned.raised
      /\ logged.outbox = planned.outbox
      /\ ~planned.raised => logged.trail
                                = [planned.trail EXCEPT ![c] = Append(planned.trail[c], row)]
  BY <1>2, <1>4, AppendFits
<1> HIDE DEF logged
<1>6. Reaches(logged, scheduled, c, FlowEvents) /\ Fit(scheduled, c)
  BY <1>0, <1>5, WalksReach DEF Reaches
<1> HIDE DEF scheduled
<1>7. ASSUME ~scheduled.raised
      PROVE  Kept(scheduled)
  <2>1. ~planned.raised /\ ~queued.raised /\ ~d.raised
    BY <1>3, <1>4, <1>5, <1>6, <1>7 DEF Reaches, Extends
  <2>2. planned.outbox = d.outbox \cup {e} /\ Extends(queued, planned, c, FlowEvents)
    BY <1>3, <1>4, <2>1 DEF Reaches, Extends
  <2> DEFINE x == [planned EXCEPT !.outbox = d.outbox]
  <2>3. /\ Shaped(x) /\ x.outbox = d.outbox /\ x.trail = planned.trail
        /\ x.cases = planned.cases /\ x.raised = planned.raised
    BY <1>4 DEF Fit, Shaped
  <2> HIDE DEF x
  <2>4. Fit(x, c)
    BY <1>4, <2>3 DEF Fit, DatabaseOK
  <2>5. Reaches(d, x, c, FlowEvents)
    BY <1>3, <2>1, <2>2, <2>3, <2>4 DEF Reaches, Extends
  <2>6. Kept(x)
    BY <2>5, FlowKeeps
  <2>7. BelowFloor(Diagnose(profile[c].finding)) =>
            \E j \in DOMAIN x.trail[c] :
                x.trail[c][j].event = "contested_diagnosis_hedged"
    BY <2>1, <2>5, RowsStay DEF Fit
  <2>8. /\ e \notin x.outbox /\ logged.outbox = x.outbox \cup {e}
        /\ logged.trail = [x.trail EXCEPT ![c] = Append(x.trail[c], row)]
    BY <1>5, <2>1, <2>2, <2>3
  <2>9. Kept(logged)
    <3>1. Audited(x) /\ DrawnOnce(x) /\ Hedged(x)
      BY <2>6 DEF Kept
    <3>2. Audited(logged) /\ DrawnOnce(logged) /\ Hedged(logged)
      BY <2>4, <2>7, <2>8, <3>1, KeyedRow
    <3> QED
      BY <3>2 DEF Kept
  <2> QED
    BY <1>6, <2>9, FlowKeeps
<1> QED
  BY <1>1, <1>6, <1>7

(***************************************************************************)
(* Every step keeps the trail.                                             *)
(***************************************************************************)

Handlers == {"open_case", "process_case", "resolve_case"}

LEMMA OpenIsKept ==
    ASSUME TrailInv, NEW c, Calling(c)
    PROVE  ~db.raised /\ Kept(db)
BY DEF TrailInv, TypeOK, Calling, Kept

LEMMA CaseFits ==
    ASSUME TrailInv, NEW c \in Case, db.cases[c] # None
    PROVE  Fit(db, c)
BY DEF TrailInv, TypeOK, Fit

LEMMA EndsTrail ==
    ASSUME TrailInv, NEW handler \in Handlers, NEW c \in Case, Ends(handler, c, db'),
           Shaped(db'), DatabaseOK(db'), ~db'.raised => Kept(db')
    PROVE  TrailInv'
<1>1. /\ UNCHANGED <<profile, stored>> /\ db'.raised \in BOOLEAN
      /\ pc' = IF db'.raised THEN "failed" ELSE "open"
  BY DEF Ends, DatabaseOK
<1>2. pc' = "failed" <=> failure' # None
  <2> DEFINE state == IF db.cases[c] = None THEN None ELSE db.cases[c].state
             f == [handler |-> handler, case |-> c, state |-> state]
  <2>1. state \in CaseState \cup {None}
    BY DEF TrailInv, TypeOK, DatabaseOK, RiskCase
  <2>2. failure' = IF db'.raised THEN f ELSE None
    BY DEF Ends
  <2> HIDE DEF state
  <2>3. f # None
    BY <2>1, FlowNoneAssumption DEF Handlers
  <2> HIDE DEF f
  <2> QED
    BY <1>1, <2>2, <2>3
<1>3. Shaped(db)' /\ Shaped(stored)' /\ Kept(stored)'
  BY <1>1 DEF TrailInv, Shaped, Kept, Audited, DrawnOnce, Hedged
<1>4. DatabaseOK(db)' /\ DatabaseOK(stored)'
  BY <1>1 DEF TrailInv, TypeOK, DatabaseOK, InControlArm
<1>5. ~db'.raised => Kept(db)'
  BY <1>1 DEF Kept, Audited, DrawnOnce, Hedged
<1>6. TypeOK'
  BY <1>1, <1>2, <1>4 DEF TrailInv, TypeOK
<1> QED
  BY <1>1, <1>3, <1>5, <1>6 DEF TrailInv, Kept

\* A handler that returns a database holding its case.
LEMMA ReturnsTrail ==
    ASSUME TrailInv, NEW handler \in Handlers, NEW c, NEW d, Fit(d, c),
           ~d.raised => Kept(d), Ends(handler, c, d)
    PROVE  TrailInv'
<1>1. db' = d
  BY DEF Ends
<1> QED
  BY <1>1, EndsTrail DEF Fit

LEMMA OpenCaseTrail ==
    ASSUME TrailInv, NEW c \in Case, OpenCase(c)
    PROVE  TrailInv'
<1> DEFINE row == NewCase(c)
           opened == [db EXCEPT !.cases[c] = row]
           noted == Note(opened, c, "case_opened")
<1>0. ~db.raised /\ Kept(db) /\ Shaped(db) /\ DatabaseOK(db)
  BY OpenIsKept DEF OpenCase, TrailInv, TypeOK
<1>1. \/ Ends("open_case", c, Raise(db))
      \/ Ends("open_case", c, noted)
  BY DEF OpenCase
<1>2. CASE Ends("open_case", c, Raise(db))
  <2>1. /\ Shaped(Raise(db)) /\ Raise(db).raised = TRUE
        /\ Raise(db).cases = db.cases /\ Raise(db).outbox = db.outbox
        /\ Raise(db).trail = db.trail
    BY <1>0 DEF Shaped, Raise
  <2>2. Raise(db).raised \in BOOLEAN
    BY <2>1
  <2>3. DatabaseOK(Raise(db))
    BY <1>0, <2>1, <2>2 DEF DatabaseOK
  <2>4. db' = Raise(db)
    BY <1>2 DEF Ends
  <2> QED
    BY <1>2, <2>1, <2>3, <2>4, EndsTrail DEF Handlers
<1>3. CASE Ends("open_case", c, noted)
  <2>1. /\ Shaped(opened) /\ opened.cases = [db.cases EXCEPT ![c] = row]
        /\ opened.outbox = db.outbox /\ opened.trail = db.trail
        /\ opened.raised = db.raised
    BY <1>0 DEF Shaped
  <2>2. /\ row \in RiskCase /\ ValidCase(row)
        /\ row.arm = "control" <=> InControlArm(c)
    BY DEF NewCase, RiskCase, ValidCase, CaseState, ArmKind
  <2> HIDE DEF opened, row
  <2>3. Fit(opened, c)
    <3>1. opened.cases \in [Case -> RiskCase \cup {None}]
      BY <1>0, <2>1, <2>2 DEF DatabaseOK
    <3>2. \A k \in Case : opened.cases[k] = IF k = c THEN row ELSE db.cases[k]
      BY <1>0, <2>1 DEF DatabaseOK
    <3>3. DatabaseOK(opened)
      BY <1>0, <2>1, <2>2, <3>1, <3>2 DEF DatabaseOK
    <3> QED
      BY <2>1, <2>2, <3>2, <3>3, FlowNoneAssumption DEF Fit
  <2>4. Kept(opened)
    BY <1>0, <2>1 DEF Kept, Audited, DrawnOnce, Hedged
  <2>5. "case_opened" \in FlowEvents /\ "case_opened" \in Event
    BY DEF FlowEvents, SimulatorEvents, Event
  <2>6. Reaches(opened, noted, c, FlowEvents)
    BY <2>3, <2>5, NoteReaches
  <2> HIDE DEF noted
  <2> QED
    BY <1>3, <2>4, <2>6, FlowKeeps, ReturnsTrail DEF Handlers, Reaches
<1> QED
  BY <1>1, <1>2, <1>3

LEMMA ResolveCaseTrail ==
    ASSUME TrailInv, NEW c \in Case, NEW recovered \in BOOLEAN,
           ResolveCase(c, recovered)
    PROVE  TrailInv'
<1> DEFINE d == Note(db, c, "simulated_psp_response")
           response == Row("simulated_psp_response", None, None)
<1>1. ~db.raised /\ Kept(db) /\ Fit(db, c)
  BY OpenIsKept, CaseFits DEF ResolveCase
<1>2. Lane(c) \in {"not_simulated", "natural_floor", "generic_baseline",
                   "targeted_agent"}
  BY DEF Lane
<1>3. \/ Ends("resolve_case", c, db)
      \/ /\ ~AlreadyResolved(c)
         /\ \E result \in {d, SelfHeal(d, c), Drip(d, c, recovered),
                           Execute(d, c, recovered)} :
                Ends("resolve_case", c, result)
  <2>1. Lane(c) # "not_simulated" => ~AlreadyResolved(c)
    BY DEF Lane
  <2>2. IF Lane(c) = "not_simulated" THEN Ends("resolve_case", c, db)
        ELSE \E result \in {d, SelfHeal(d, c), Drip(d, c, recovered),
                            Execute(d, c, recovered)} :
                Ends("resolve_case", c, result)
    <3> HIDE DEF d
    <3> QED
      BY <1>2 DEF ResolveCase, d
  <2> QED
    BY <2>1, <2>2
<1>4. CASE Ends("resolve_case", c, db)
  BY <1>1, <1>4, ReturnsTrail DEF Handlers
<1>5. CASE /\ ~AlreadyResolved(c)
           /\ \E result \in {d, SelfHeal(d, c), Drip(d, c, recovered),
                             Execute(d, c, recovered)} :
                Ends("resolve_case", c, result)
  <2>1. PICK result \in {d, SelfHeal(d, c), Drip(d, c, recovered),
                         Execute(d, c, recovered)} :
                Ends("resolve_case", c, result)
    BY <1>5
  <2>2. /\ "simulated_psp_response" \in Event
        /\ "action_scheduled" \notin {"simulated_psp_response"}
        /\ "action_scheduled" \notin SimulatorEvents
        /\ ResolutionEvents \subseteq SimulatorEvents
    BY DEF Event, SimulatorEvents, ResolutionEvents
  <2>3. Reaches(db, d, c, {"simulated_psp_response"})
    BY <1>1, <2>2, NoteReaches
  <2>4. d.trail = [db.trail EXCEPT ![c] = Append(db.trail[c], response)]
    BY <1>1, <2>2, RowTypes, AppendFits DEF Note
  <2> HIDE DEF d, response
  <2>5. Reaches(d, result, c, SimulatorEvents)
    BY <2>1, <2>2, <2>3, ResolutionReaches, ReachesItself DEF Reaches
  <2>6. Audited(result) /\ Hedged(result)
    BY <1>1, <2>2, <2>3, <2>5, KeepAudited, KeepHedged DEF Kept
  <2>7. \A i \in DOMAIN db.trail[c] :
            db.trail[c][i].event # "simulated_psp_response"
    BY <1>5 DEF AlreadyResolved
  <2>8. DrawnOnce(result)
    BY <1>1, <2>4, <2>5, <2>7, ResponseThenOutcome DEF Kept, response
  <2> QED
    BY <2>1, <2>5, <2>6, <2>8, ReturnsTrail DEF Handlers, Reaches, Kept
<1> QED
  BY <1>3, <1>4, <1>5

\* What the routers answer is one of the actions, or none.
LEMMA ProposalIsAnAction ==
    ASSUME NEW f, Proposal(f) # NoAction
    PROVE  Proposal(f) \in Messages \cup {Debit}
BY DEF Proposal, HedgedRoute, Route, Routes, Messages, Debit

LEMMA DecideTrail ==
    ASSUME TrailInv, NEW c \in Case, NEW verdict, Calling(c), db.cases[c] # None,
           verdict \in {"allow", "allow_with_approval", "deny"}, Decide(c, verdict)
    PROVE  TrailInv'
<1> DEFINE e == [case |-> c, action |-> Proposal(profile[c].finding)]
           d == Note(Proposed(c), c, "policy_evaluated")
           hedge == Note(Diagnosed(c), c, "contested_diagnosis_hedged")
           result == CASE verdict = "allow" -> Allow(d, e)
                       [] verdict = "allow_with_approval" -> AwaitApproval(d, e)
                       [] verdict = "deny" -> Deny(d, e)
<1>0. /\ {"policy_evaluated", "contested_diagnosis_hedged"} \subseteq FlowEvents
      /\ {"policy_evaluated", "contested_diagnosis_hedged"} \subseteq Event
  BY DEF FlowEvents, SimulatorEvents, Event
<1>1. ~db.raised /\ Kept(db) /\ Fit(db, c)
  BY OpenIsKept, CaseFits
<1>2. /\ e.case = c /\ e.action = Proposal(profile[c].finding) /\ e.action # NoAction
      /\ verdict \in Verdicts(c, e.action)
      /\ Ends("process_case", c, result)
  BY DEF Decide
<1>3. /\ Reaches(db, Diagnosed(c), c, FlowEvents)
      /\ Reaches(db, Proposed(c), c, FlowEvents)
      /\ Fit(Diagnosed(c), c) /\ Fit(Proposed(c), c)
  BY <1>1, ProposingReaches DEF Reaches
<1>4. Reaches(Proposed(c), d, c, FlowEvents)
  BY <1>0, <1>3, NoteReaches
<1>5. Reaches(db, d, c, FlowEvents) /\ Fit(d, c) /\ d.outbox = db.outbox
  <2>1. Reaches(db, d, c, FlowEvents)
    BY <1>3, <1>4, ReachesOn
  <2> HIDE DEF d
  <2> QED
    BY <2>1 DEF Reaches, Extends
<1>6. Kept(d)
  BY <1>1, <1>5, FlowKeeps
<1>7. ~d.raised /\ BelowFloor(Diagnose(profile[c].finding)) =>
            \E j \in DOMAIN d.trail[c] :
                d.trail[c][j].event = "contested_diagnosis_hedged"
  <2> SUFFICES ASSUME ~d.raised, BelowFloor(Diagnose(profile[c].finding))
               PROVE  \E j \in DOMAIN d.trail[c] :
                        d.trail[c][j].event = "contested_diagnosis_hedged"
    OBVIOUS
  <2>1. Proposed(c) = hedge
    BY DEF Proposed
  <2> HIDE DEF hedge, d
  <2>2. ~hedge.raised
    BY <1>4, <2>1 DEF Reaches, Extends
  <2>3. ~Diagnosed(c).raised
    <3>1. Reaches(Diagnosed(c), hedge, c, FlowEvents)
      BY <1>0, <1>3, NoteReaches DEF hedge
    <3> QED
      BY <2>2, <3>1 DEF Reaches, Extends
  <2>4. PICK j \in DOMAIN hedge.trail[c] :
            hedge.trail[c][j].event = "contested_diagnosis_hedged"
    BY <1>0, <1>3, <2>3, NoteIsThere DEF hedge
  <2> QED
    BY <1>3, <1>4, <2>1, <2>4, RowsStay DEF Fit
<1>8. verdict = "allow" => e \in Envelope /\ e \notin db.outbox
  <2>1. e.action \in Messages \cup {Debit}
    BY <1>2, ProposalIsAnAction
  <2>2. e \in Envelope
    BY <2>1 DEF Envelope
  <2>3. verdict = "allow" => e \notin db.outbox
    BY <1>2 DEF Verdicts
  <2> QED
    BY <2>2, <2>3
<1> HIDE DEF d, e
<1>9. Fit(result, c) /\ (~result.raised => Kept(result))
  <2>1. CASE verdict = "allow"
    BY <1>2, <1>5, <1>6, <1>7, <1>8, <2>1, AllowKeeps
  <2>2. CASE verdict \in {"allow_with_approval", "deny"}
    <3>1. Reaches(d, result, c, FlowEvents)
      BY <1>2, <1>5, <2>2, RefusingReaches
    <3> QED
      BY <1>6, <3>1, FlowKeeps DEF Reaches
  <2> QED
    BY <2>1, <2>2
<1> HIDE DEF result
<1> QED
  BY <1>2, <1>9, ReturnsTrail DEF Handlers

LEMMA ProcessCaseTrail ==
    ASSUME TrailInv, NEW c \in Case, ProcessCase(c)
    PROVE  TrailInv'
<1>0. /\ {"arm_not_routed", "control_arm_no_action"} \subseteq FlowEvents
      /\ {"case_state_changed"} \subseteq FlowEvents
      /\ FlowEvents \subseteq Event /\ "escalated" \in CaseState
  BY DEF FlowEvents, SimulatorEvents, Event, CaseState
<1>1. Calling(c) /\ db.cases[c] # None /\ Kept(db) /\ Fit(db, c)
  BY OpenIsKept, CaseFits DEF ProcessCase
<1>2. CASE SkipArm(c)
  <2>1. PICK event \in {"arm_not_routed", "control_arm_no_action"} :
            Ends("process_case", c, Note(db, c, event))
    BY <1>2 DEF SkipArm
  <2>2. Reaches(db, Note(db, c, event), c, FlowEvents)
    BY <1>0, <1>1, <2>1, NoteReaches
  <2> QED
    BY <1>1, <2>1, <2>2, FlowKeeps, ReturnsTrail DEF Handlers, Reaches
<1>3. CASE Escalate(c)
  <2> DEFINE result == Move(Diagnosed(c), c, "escalated")
  <2>1. Ends("process_case", c, result)
    BY <1>3 DEF Escalate
  <2>2. Reaches(db, result, c, FlowEvents)
    BY <1>0, <1>1, ProposingReaches, WalksReach, ReachesOn DEF Reaches
  <2> HIDE DEF result
  <2> QED
    BY <1>1, <2>1, <2>2, FlowKeeps, ReturnsTrail DEF Handlers, Reaches
<1>4. CASE \E verdict \in {"allow", "allow_with_approval", "deny"} : Decide(c, verdict)
  BY <1>1, <1>4, DecideTrail
<1> QED
  BY <1>2, <1>3, <1>4 DEF ProcessCase

LEMMA InitTrail == Init => TrailInv
<1> SUFFICES ASSUME Init PROVE TrailInv
  OBVIOUS
<1>1. /\ profile \in [Case -> [arm : Arm, finding : Finding]]
      /\ \A c \in Case : profile[c] \in Profiles[c]
  BY DEF Init
<1>2. /\ EmptyDatabase.cases = [c \in Case |-> None]
      /\ EmptyDatabase.outbox = {} /\ EmptyDatabase.raised = FALSE
      /\ EmptyDatabase.trail = [c \in Case |-> <<>>]
      /\ Shaped(EmptyDatabase)
  BY DEF EmptyDatabase, Shaped
<1>3. EmptyDatabase.trail \in [Case -> Seq(AuditRow)]
  <2> HIDE DEF AuditRow
  <2> QED
    BY <1>2
<1>4. DatabaseOK(EmptyDatabase)
  <2>1. EmptyDatabase.raised \in BOOLEAN
    BY <1>2
  <2> QED
    BY <1>2, <1>3, <2>1 DEF DatabaseOK
<1>5. \A c \in Case : DOMAIN EmptyDatabase.trail[c] = {}
  BY <1>2
<1>6. Kept(EmptyDatabase)
  BY <1>2, <1>5 DEF Kept, Audited, DrawnOnce, Hedged
<1>7. db = EmptyDatabase /\ stored = EmptyDatabase /\ pc = "out" /\ failure = None
  BY DEF Init
<1>8. TypeOK
  BY <1>1, <1>2, <1>4, <1>7 DEF TypeOK
<1> QED
  BY <1>1, <1>2, <1>6, <1>7, <1>8 DEF TrailInv, Kept

LEMMA StepTrail == TrailInv /\ [Next]_vars => TrailInv'
<1> SUFFICES ASSUME TrailInv, [Next]_vars
             PROVE  TrailInv'
  OBVIOUS
<1>1. ASSUME UNCHANGED profile, db' \in {db, stored}, stored' \in {db, stored},
             stored' = db => ~db.raised,
             TypeOK'
      PROVE  TrailInv'
  <2>1. Shaped(db)' /\ Shaped(stored)' /\ (profile \in [Case -> [arm : Arm, finding : Finding]])'
    BY <1>1 DEF TrailInv, Shaped
  <2>2. (~db.raised => Kept(db))' /\ Kept(stored)'
    <3>1. ASSUME Kept(db), db' = db
          PROVE  Kept(db)'
      BY <1>1, <3>1 DEF Kept, Audited, DrawnOnce, Hedged
    <3>2. ASSUME Kept(stored), db' = stored
          PROVE  Kept(db)'
      BY <1>1, <3>2 DEF Kept, Audited, DrawnOnce, Hedged
    <3>3. ASSUME Kept(stored), stored' = stored
          PROVE  Kept(stored)'
      BY <1>1, <3>3 DEF Kept, Audited, DrawnOnce, Hedged
    <3>4. ASSUME Kept(db), stored' = db
          PROVE  Kept(stored)'
      BY <1>1, <3>4 DEF Kept, Audited, DrawnOnce, Hedged
    <3>5. Kept(stored) /\ (~db.raised => Kept(db))
      BY DEF TrailInv, Kept
    <3> QED
      BY <1>1, <3>1, <3>2, <3>3, <3>4, <3>5
  <2> QED
    BY <1>1, <2>1, <2>2 DEF TrailInv, Kept
<1>2. CASE Begin \/ Commit \/ RollBack \/ UNCHANGED vars
  <2>1. DatabaseOK(db)' /\ DatabaseOK(stored)'
    BY <1>2 DEF TrailInv, TypeOK, DatabaseOK, InControlArm, Begin, Commit, RollBack, vars
  <2>2. TypeOK'
    BY <1>2, <2>1 DEF TrailInv, TypeOK, Begin, Commit, RollBack, vars
  <2> QED
    BY <1>1, <1>2, <2>2 DEF TrailInv, TypeOK, Begin, Commit, RollBack, vars
<1>3. ASSUME NEW c \in Case, OpenCase(c)
      PROVE  TrailInv'
  BY <1>3, OpenCaseTrail
<1>4. ASSUME NEW c \in Case, ProcessCase(c)
      PROVE  TrailInv'
  BY <1>4, ProcessCaseTrail
<1>5. ASSUME NEW c \in Case, NEW recovered \in BOOLEAN, ResolveCase(c, recovered)
      PROVE  TrailInv'
  BY <1>5, ResolveCaseTrail
<1> QED
  BY <1>2, <1>3, <1>4, <1>5 DEF Next

-----------------------------------------------------------------------------
(***************************************************************************)
(* Where a case stands after a handler.                                    *)
(***************************************************************************)

LEMMA MoveGoes ==
    ASSUME NEW d, NEW c, Fit(d, c), NEW event, NEW to, NEW fields,
           ~MoveAs(event, d, c, to, Setting(fields)).raised
    PROVE  /\ ~d.raised
           /\ IsTransitionAllowed(d.cases[c].state, to)
           /\ MoveAs(event, d, c, to, Setting(fields)).cases[c].state = to
<1> DEFINE written == [d EXCEPT !.cases[c] = Rebuild(d.cases[c], to, Setting(fields))]
           row == Row(event, to, None)
<1>1. /\ Shaped(written) /\ written.raised = d.raised
      /\ written.cases = [d.cases EXCEPT ![c] = Rebuild(d.cases[c], to, Setting(fields))]
  BY DEF Fit, Shaped
<1>2. written.cases[c].state = to
  <2>1. written.cases[c] = Rebuild(d.cases[c], to, Setting(fields))
    BY <1>1 DEF Fit, DatabaseOK
  <2> QED
    BY <2>1 DEF Rebuild, Setting, Updated
<1>3. Raise(d).raised
  BY DEF Fit, Shaped, Raise
<1>4. /\ ~d.raised
      /\ IsTransitionAllowed(d.cases[c].state, to)
      /\ MoveAs(event, d, c, to, Setting(fields)) = Append1(written, c, row)
  BY <1>3 DEF MoveAs
<1> HIDE DEF written, row
<1>5. Append1(written, c, row).cases = written.cases
  BY <1>1 DEF Shaped, Append1
<1> QED
  BY <1>2, <1>4, <1>5

LEMMA NoteStays ==
    ASSUME NEW d, Shaped(d), NEW c, NEW event
    PROVE  Note(d, c, event).cases = d.cases /\ Note(d, c, event).raised = d.raised
BY DEF Shaped, Note, Append1

\* A call that only touches case c leaves the others where they stand.
LEMMA OthersPlaced ==
    ASSUME NEW a, NEW b, NEW c \in Case, \A k \in Case : PlacedAt(a, k),
           \A k \in Case \ {c} : /\ b.trail[k] = a.trail[k] /\ b.cases[k] = a.cases[k]
                                 /\ Mine(b, k) = Mine(a, k),
           PlacedAt(b, c)
    PROVE  \A k \in Case : PlacedAt(b, k)
<1> SUFFICES ASSUME NEW k \in Case \ {c}
             PROVE  PlacedAt(b, k)
  OBVIOUS
<1>1. PlacedAt(a, k) /\ \A events : Has(b, k, events) <=> Has(a, k, events)
  BY DEF Has
<1>2. /\ Routed(b, k) <=> Routed(a, k)
      /\ Unrouted(b, k) <=> Unrouted(a, k)
  BY <1>1 DEF Routed, Unrouted
<1> QED
  BY <1>1, <1>2 DEF PlacedAt

LEMMA ReachedPlaced ==
    ASSUME NEW a, NEW b, NEW c, NEW events, Reaches(a, b, c, events),
           \A k \in Case : PlacedAt(a, k), PlacedAt(b, c)
    PROVE  \A k \in Case : PlacedAt(b, k)
<1>1. \A k \in Case : Mine(b, k) = Mine(a, k)
  BY DEF Reaches, Extends, Mine
<1>2. \A k \in Case \ {c} : b.trail[k] = a.trail[k] /\ b.cases[k] = a.cases[k]
  BY DEF Reaches, Extends
<1>3. c \in Case
  BY DEF Reaches, Fit
<1> QED
  BY <1>1, <1>2, <1>3, OthersPlaced

\* No rows of some events but those that were there.
LEMMA HasFrom ==
    ASSUME NEW a, NEW b, NEW c, NEW events, Reaches(a, b, c, events),
           NEW sought, sought \cap events = {}, ~Has(a, c, sought)
    PROVE  ~Has(b, c, sought) /\ Mine(b, c) = Mine(a, c)
<1>1. c \in Case
  BY DEF Reaches, Fit
<1>2. ~Has(b, c, sought)
  BY <1>1, RowsFrom DEF Has
<1> QED
  BY <1>2 DEF Reaches, Extends, Mine

LEMMA EndsPlaced ==
    ASSUME PlacedInv, TrailInv', NEW handler, NEW c, NEW d, Ends(handler, c, d),
           ~d.raised => \A k \in Case : PlacedAt(d, k)
    PROVE  PlacedInv'
<1>1. db' = d /\ UNCHANGED <<profile, stored>>
  BY DEF Ends
<1>2. ASSUME ~db'.raised, NEW k \in Case
      PROVE  PlacedAt(db, k)'
  BY <1>1, <1>2 DEF PlacedAt, Routed, Unrouted, Mine, Has
<1>3. ASSUME NEW k \in Case
      PROVE  PlacedAt(stored, k)'
  BY <1>1, <1>3 DEF PlacedInv, PlacedAt, Routed, Unrouted, Mine, Has
<1> QED
  BY <1>2, <1>3 DEF PlacedInv

LEMMA OpenCasePlaced ==
    ASSUME PlacedInv, TrailInv', NEW c \in Case, OpenCase(c)
    PROVE  PlacedInv'
<1> DEFINE row == NewCase(c)
           opened == [db EXCEPT !.cases[c] = row]
           noted == Note(opened, c, "case_opened")
<1>0. /\ ~db.raised /\ Shaped(db) /\ DatabaseOK(db) /\ db.cases[c] = None
      /\ \A k \in Case : PlacedAt(db, k)
  BY OpenIsKept DEF OpenCase, PlacedInv, TrailInv, TypeOK
<1>1. PICK d \in {Raise(db), noted} : Ends("open_case", c, d)
  BY DEF OpenCase
<1>2. Raise(db).raised
  BY <1>0 DEF Shaped, Raise
<1>3. \A k \in Case : PlacedAt(noted, k)
  <2>1. /\ Shaped(opened) /\ opened.cases = [db.cases EXCEPT ![c] = row]
        /\ opened.outbox = db.outbox /\ opened.trail = db.trail
        /\ opened.raised = db.raised
    BY <1>0 DEF Shaped
  <2> DEFINE added == Row("case_opened", None, None)
  <2>2. noted = [opened EXCEPT !.trail[c] = Append(@, added)]
    BY <1>0, <2>1 DEF Note, Append1
  <2> HIDE DEF opened, added
  <2>3. /\ noted.cases = opened.cases /\ noted.outbox = db.outbox
        /\ noted.trail = [db.trail EXCEPT ![c] = Append(db.trail[c], added)]
    BY <2>1, <2>2 DEF Shaped
  <2> HIDE DEF noted
  <2>4. db.trail \in [Case -> Seq(AuditRow)] /\ db.cases \in [Case -> RiskCase \cup {None}]
    BY <1>0 DEF DatabaseOK
  <2>5. /\ noted.trail[c] = Append(db.trail[c], added)
        /\ \A k \in Case \ {c} : noted.trail[k] = db.trail[k] /\ noted.cases[k] = db.cases[k]
        /\ noted.cases[c] = row
    <3> HIDE DEF AuditRow
    <3> QED
      BY <2>1, <2>3, <2>4
  <2>6. \A k \in Case : Mine(noted, k) = Mine(db, k)
    BY <2>3 DEF Mine
  <2>7. Mine(db, c) = {} /\ ~Has(db, c, Event)
    BY <1>0 DEF PlacedAt
  <2>8. \A i \in DOMAIN noted.trail[c] : noted.trail[c][i].event = "case_opened"
    <3> DEFINE t == db.trail[c]
    <3>1. t \in Seq(AuditRow) /\ \A i \in DOMAIN t : t[i] \in AuditRow
      <4> HIDE DEF AuditRow
      <4> QED
        BY <2>4
    <3>2. DOMAIN t = {}
      BY <2>7, <3>1 DEF Has, AuditRow
    <3> HIDE DEF t
    <3>3. Len(t) \in Nat /\ DOMAIN t = 1..Len(t)
      <4> HIDE DEF AuditRow
      <4> QED
        BY <3>1
    <3>4. Len(t) = 0
      BY <3>2, <3>3
    <3>5. t = <<>>
      <4> HIDE DEF AuditRow
      <4> QED
        BY <3>1, <3>4
    <3>6. added.event = "case_opened"
      BY DEF added, Row
    <3> QED
      BY <2>5, <3>5, <3>6 DEF t
  <2>9. ~Has(noted, c, {"diagnosis_produced", "case_state_changed"})
    BY <2>8 DEF Has
  <2>10. PlacedAt(noted, c)
    <3>1. noted.cases[c].state = "detected" /\ noted.cases[c] # None
      <4>1. row \in RiskCase /\ row.state = "detected"
        BY DEF NewCase, RiskCase, CaseState, ArmKind
      <4> HIDE DEF row
      <4>2. row # None
        BY <4>1, FlowNoneAssumption
      <4> QED
        BY <2>5, <4>1, <4>2
    <3>2. /\ ~Has(noted, c, {"diagnosis_produced"})
          /\ ~Has(noted, c, {"case_state_changed"})
      BY <2>9 DEF Has
    <3> QED
      BY <2>6, <2>7, <3>1, <3>2 DEF PlacedAt, Routed, Unrouted
  <2> QED
    BY <1>0, <2>5, <2>6, <2>10, OthersPlaced
<1> HIDE DEF noted
<1> QED
  BY <1>1, <1>2, <1>3, EndsPlaced

LEMMA ResolveCasePlaced ==
    ASSUME PlacedInv, TrailInv', NEW c \in Case, NEW recovered \in BOOLEAN,
           ResolveCase(c, recovered)
    PROVE  PlacedInv'
<1> DEFINE d == Note(db, c, "simulated_psp_response")
           arm == profile[c].arm
           drawn == {"simulated_psp_response"} \cup ResolutionEvents
           healed == {"simulated_psp_response", "case_recovered", "case_stopped"}
<1>0. TrailInv
  BY DEF PlacedInv
<1>1. /\ ~db.raised /\ Fit(db, c) /\ Shaped(db) /\ db.cases[c] # None
      /\ \A k \in Case : PlacedAt(db, k)
  BY <1>0, OpenIsKept, CaseFits DEF ResolveCase, PlacedInv, Fit
<1>2. Lane(c) \in {"not_simulated", "natural_floor", "generic_baseline",
                   "targeted_agent"}
  BY DEF Lane
<1>3. /\ "simulated_psp_response" \in Event
      /\ ResolutionEvents \subseteq drawn
      /\ "diagnosis_produced" \notin drawn /\ "case_state_changed" \notin healed
      /\ "diagnosis_produced" \notin healed
  BY DEF Event, ResolutionEvents
<1>4. /\ d.cases = db.cases
      /\ Reaches(db, d, c, drawn) /\ Reaches(db, d, c, healed)
  BY <1>1, <1>3, NoteReaches, NoteStays
<1>5. Fit(d, c)
  BY <1>4 DEF Reaches
<1> HIDE DEF d, drawn, healed
<1>6. CASE Lane(c) = "not_simulated"
  <2>1. Ends("resolve_case", c, db)
    BY <1>6 DEF ResolveCase
  <2> QED
    BY <1>1, <2>1, EndsPlaced
<1>7. CASE Lane(c) = "natural_floor"
  <2> DEFINE result == IF recovered THEN SelfHeal(d, c) ELSE d
  <2>1. Ends("resolve_case", c, result)
    BY <1>7 DEF ResolveCase, d
  <2>2. Reaches(d, result, c, healed)
    BY <1>5, SelfHealReaches, ReachesItself DEF healed
  <2>3. Reaches(db, result, c, healed)
    BY <1>4, <2>2, ReachesOn
  <2>4. ~result.raised =>
            result.cases[c].state \in {"recovered", "stopped", db.cases[c].state}
    <3>1. ~SelfHeal(d, c).raised =>
            SelfHeal(d, c).cases[c].state \in {"recovered", "stopped", d.cases[c].state}
      BY <1>5, MoveGoes DEF SelfHeal, Stop
    <3> QED
      BY <1>4, <3>1
  <2>5. arm \in InScopeArms
    BY <1>7 DEF Lane
  <2>6. arm = "A0" /\ db.cases[c].state \in {"detected", "stopped"} /\ ~result.raised =>
            result.cases[c].state \in {"detected", "stopped"}
    <3> SUFFICES ASSUME db.cases[c].state \in {"detected", "stopped"}, ~result.raised
                 PROVE  result.cases[c].state \in {"detected", "stopped"}
      OBVIOUS
    <3>1. ~IsTransitionAllowed(d.cases[c].state, "recovered")
      BY <1>4 DEF IsTransitionAllowed, AllowedCaseTransitions, CaseState,
                  TerminalCaseStates
    <3>2. ~SelfHeal(d, c).raised =>
            SelfHeal(d, c).cases[c].state \in {"stopped", d.cases[c].state}
      BY <1>5, <3>1, MoveGoes DEF SelfHeal, Stop
    <3> QED
      BY <1>4, <3>2
  <2> HIDE DEF result
  <2>7. Fit(result, c)
    BY <2>2 DEF Reaches
  <2>8. /\ Mine(result, c) = Mine(db, c)
        /\ ~Has(db, c, {"diagnosis_produced"}) => ~Has(result, c, {"diagnosis_produced"})
        /\ ~Has(db, c, {"case_state_changed"}) => ~Has(result, c, {"case_state_changed"})
    <3>1. Mine(result, c) = Mine(db, c)
      BY <2>3 DEF Reaches, Extends, Mine
    <3>2. /\ {"diagnosis_produced"} \cap healed = {}
          /\ {"case_state_changed"} \cap healed = {}
      BY <1>3
    <3> QED
      BY <2>3, <3>1, <3>2, HasFrom
  <2>9. ASSUME ~result.raised
        PROVE  PlacedAt(result, c)
    <3>0. PlacedAt(db, c) /\ result.cases[c] # None /\ db.cases[c] # None
      BY <1>1, <2>7 DEF Fit
    <3>1. CASE arm \in RoutingArms
      <4>1. Routed(db, c)
        BY <3>0, <3>1 DEF PlacedAt
      <4>2. Routed(result, c)
        BY <2>4, <2>8, <2>9, <4>1 DEF Routed, TerminalCaseStates
      <4> QED
        BY <3>0, <3>1, <4>2 DEF PlacedAt
    <3>2. CASE arm \notin RoutingArms
      <4>1. Unrouted(db, c)
        BY <3>0, <3>2 DEF PlacedAt
      <4>2. arm \notin {"A2", "A5"}
        BY <2>5 DEF InScopeArms
      <4>3. Unrouted(result, c)
        BY <2>6, <2>8, <2>9, <4>1, <4>2 DEF Unrouted
      <4> QED
        BY <3>0, <3>2, <4>3 DEF PlacedAt
    <3> QED
      BY <3>1, <3>2
  <2>10. ~result.raised => \A k \in Case : PlacedAt(result, k)
    BY <1>1, <2>3, <2>9, ReachedPlaced
  <2> QED
    BY <2>1, <2>10, EndsPlaced
<1>8. CASE Lane(c) = "generic_baseline"
  <2> DEFINE result == Drip(d, c, recovered)
  <2>1. Ends("resolve_case", c, result)
    BY <1>8 DEF ResolveCase, d
  <2>2. Reaches(d, result, c, drawn)
    BY <1>3, <1>5, ResolutionReaches
  <2>3. Reaches(db, result, c, drawn)
    BY <1>4, <2>2, ReachesOn
  <2> HIDE DEF result
  <2>4. arm = "A1" /\ arm \notin RoutingArms
    BY <1>8 DEF Lane, RoutingArms, DeterministicArms
  <2>5. Unrouted(db, c)
    BY <1>1, <2>4 DEF PlacedAt
  <2>6. {"diagnosis_produced"} \cap drawn = {}
    BY <1>3
  <2>7. Unrouted(result, c)
    BY <2>3, <2>4, <2>5, <2>6, HasFrom DEF Unrouted
  <2>8. PlacedAt(result, c)
    BY <2>3, <2>4, <2>7 DEF PlacedAt, Reaches, Fit
  <2> QED
    BY <1>1, <2>1, <2>3, <2>8, ReachedPlaced, EndsPlaced
<1>9. CASE Lane(c) = "targeted_agent"
  <2> DEFINE result == Execute(d, c, recovered)
             executing == Move(d, c, "executing")
             waiting == Move(executing, c, "awaiting_response")
  <2>1. Ends("resolve_case", c, result)
    BY <1>9 DEF ResolveCase, d
  <2>2. Reaches(d, result, c, drawn)
    BY <1>3, <1>5, ResolutionReaches
  <2>3. Reaches(db, result, c, drawn)
    BY <1>4, <2>2, ReachesOn
  <2>4. result \in {MoveAs("case_recovered", executing, c, "recovered", Setting({})),
                    Move(waiting, c, "planned"),
                    Move(executing, c, "retry_backoff"),
                    Stop("case_stopped", executing, c)}
    BY DEF Execute
  <2>5. Fit(executing, c) /\ Fit(waiting, c)
    <3>1. {"executing", "awaiting_response"} \subseteq CaseState
      BY DEF CaseState
    <3>2. Fit(executing, c)
      BY <1>5, <3>1, WalksReach DEF Reaches
    <3> HIDE DEF executing
    <3> QED
      BY <3>1, <3>2, WalksReach DEF Reaches
  <2> HIDE DEF result, executing, waiting
  <2>6. ~result.raised =>
            result.cases[c].state \in {"recovered", "planned", "retry_backoff", "stopped"}
    BY <2>4, <2>5, MoveGoes DEF Move, Stop
  <2>7. arm = "A4" /\ arm \in RoutingArms /\ db.cases[c].state = "scheduled"
    BY <1>9 DEF Lane, RoutingArms, DeterministicArms, PolicedArms, Arm
  <2>8. Routed(db, c)
    BY <1>1, <2>7 DEF PlacedAt
  <2>9. \E e \in Mine(db, c) : Mine(db, c) = {e}
    BY <2>7, <2>8 DEF Routed, TerminalCaseStates
  <2>10. Mine(result, c) = Mine(db, c) /\ result.cases[c] # None
    BY <2>3 DEF Reaches, Extends, Fit, Mine
  <2>11. ~result.raised => PlacedAt(result, c)
    BY <2>6, <2>7, <2>9, <2>10 DEF PlacedAt, Routed
  <2> QED
    BY <1>1, <2>1, <2>3, <2>11, ReachedPlaced, EndsPlaced
<1> QED
  BY <1>2, <1>6, <1>7, <1>8, <1>9

\* Only a detected case can be diagnosed.
LEMMA DiagnosedGoes ==
    ASSUME NEW c, Fit(db, c), ~Diagnosed(c).raised
    PROVE  db.cases[c].state = "detected" /\ Diagnosed(c).cases[c].state = "diagnosing"
<1> DEFINE noted == Note(db, c, "diagnosis_produced")
<1>1. Fit(noted, c) /\ noted.cases = db.cases
  <2>1. "diagnosis_produced" \in Event
    BY DEF Event
  <2> QED
    BY <2>1, NoteReaches, NoteStays DEF Reaches, Fit
<1>2. Diagnosed(c) = MoveAs("case_state_changed", noted, c, "diagnosing", Setting({}))
  BY DEF Diagnosed, Move
<1> HIDE DEF noted
<1>3. /\ IsTransitionAllowed(db.cases[c].state, "diagnosing")
      /\ Diagnosed(c).cases[c].state = "diagnosing"
  BY <1>1, <1>2, MoveGoes
<1>4. db.cases[c].state \in CaseState
  BY DEF Fit, DatabaseOK, RiskCase
<1> QED
  BY <1>3, <1>4 DEF IsTransitionAllowed, AllowedCaseTransitions, CaseState,
                    TerminalCaseStates

\* The envelope of an allowed action is the only one its case has.
LEMMA AllowGoes ==
    ASSUME NEW d, NEW c, Fit(d, c), NEW e \in Envelope, e.case = c,
           e \notin d.outbox, ~Allow(d, e).raised
    PROVE  /\ ~d.raised
           /\ Allow(d, e).outbox = d.outbox \cup {e}
           /\ Allow(d, e).cases[c].state = "scheduled"
           /\ Allow(d, e).cases[c] # None
           /\ \A k \in Case \ {c} : /\ Allow(d, e).trail[k] = d.trail[k]
                                    /\ Allow(d, e).cases[k] = d.cases[k]
<1> DEFINE queued == Enqueue(d, e)
           planned == Move(queued, c, "planned")
           row == Row("action_scheduled", None, e)
           logged == Append1(planned, c, row)
           scheduled == Move(logged, c, "scheduled")
<1>0. /\ "case_state_changed" \in FlowEvents /\ "action_scheduled" \in Event
      /\ {"planned", "scheduled"} \subseteq CaseState
  BY DEF FlowEvents, SimulatorEvents, Event, CaseState
<1>1. Allow(d, e) = scheduled
  BY DEF Allow
<1>2. row \in AuditRow
  BY <1>0, RowTypes
<1>3. /\ Fit(queued, c) /\ (d.raised => queued.raised)
      /\ ~queued.raised => /\ queued.outbox = d.outbox \cup {e}
                           /\ queued.trail = d.trail /\ queued.cases = d.cases
  BY EnqueueFits
<1> HIDE DEF queued
<1>4. Reaches(queued, planned, c, FlowEvents) /\ Fit(planned, c)
  BY <1>0, <1>3, WalksReach DEF Reaches
<1> HIDE DEF planned
<1>5. /\ Fit(logged, c) /\ logged.raised = planned.raised
      /\ logged.outbox = planned.outbox /\ logged.cases = planned.cases
      /\ ~planned.raised => logged.trail
                                = [planned.trail EXCEPT ![c] = Append(planned.trail[c], row)]
  BY <1>2, <1>4, AppendFits
<1> HIDE DEF logged, row
<1>6. /\ Reaches(logged, scheduled, c, FlowEvents) /\ Fit(scheduled, c)
      /\ ~scheduled.raised => scheduled.cases[c].state = "scheduled"
  BY <1>0, <1>5, WalksReach, MoveGoes DEF Reaches, Move
<1> HIDE DEF scheduled
<1>7. ~scheduled.raised /\ ~planned.raised /\ ~queued.raised
  BY <1>1, <1>4, <1>5, <1>6 DEF Reaches, Extends
<1>8. scheduled.outbox = d.outbox \cup {e}
  BY <1>3, <1>4, <1>5, <1>6, <1>7 DEF Reaches, Extends
<1>9. ASSUME NEW k \in Case \ {c}
      PROVE  scheduled.trail[k] = d.trail[k] /\ scheduled.cases[k] = d.cases[k]
  <2>1. planned.trail[k] = d.trail[k] /\ planned.cases[k] = d.cases[k]
    BY <1>3, <1>4, <1>7 DEF Reaches, Extends
  <2>2. logged.trail[k] = planned.trail[k]
    <3>1. planned.trail \in [Case -> Seq(AuditRow)]
      BY <1>4 DEF Fit, DatabaseOK
    <3> HIDE DEF AuditRow
    <3> QED
      BY <1>5, <1>7, <3>1
  <2> QED
    BY <1>5, <1>6, <2>1, <2>2 DEF Reaches, Extends
<1> QED
  BY <1>1, <1>3, <1>6, <1>7, <1>8, <1>9 DEF Fit

LEMMA RefusingGoes ==
    ASSUME NEW d, NEW c, Fit(d, c), NEW e, e.case = c
    PROVE  /\ ~AwaitApproval(d, e).raised =>
                AwaitApproval(d, e).cases[c].state = "awaiting_approval"
           /\ ~Deny(d, e).raised => Deny(d, e).cases[c].state = "stopped"
<1>1. ~Deny(d, e).raised => Deny(d, e).cases[c].state = "stopped"
  BY MoveGoes DEF Deny, Stop
<1>2. ~AwaitApproval(d, e).raised =>
            AwaitApproval(d, e).cases[c].state = "awaiting_approval"
  <2> DEFINE planned == Move(d, c, "planned")
             logged == Note(planned, c, "approval_requested")
  <2>0. "planned" \in CaseState /\ "approval_requested" \in Event
    BY DEF CaseState, Event
  <2>1. AwaitApproval(d, e)
            = MoveAs("case_state_changed", logged, c, "awaiting_approval", Setting({}))
    BY DEF AwaitApproval, Move
  <2>2. Fit(planned, c)
    BY <2>0, WalksReach DEF Reaches
  <2> HIDE DEF planned
  <2>3. Fit(logged, c)
    BY <2>0, <2>2, NoteReaches DEF Reaches
  <2> HIDE DEF logged
  <2> QED
    BY <2>1, <2>3, MoveGoes
<1> QED
  BY <1>1, <1>2

LEMMA DecidePlaced ==
    ASSUME PlacedInv, TrailInv', NEW c \in Case, NEW verdict, Calling(c),
           db.cases[c] # None,
           verdict \in {"allow", "allow_with_approval", "deny"}, Decide(c, verdict)
    PROVE  PlacedInv'
<1> DEFINE e == [case |-> c, action |-> Proposal(profile[c].finding)]
           d == Note(Proposed(c), c, "policy_evaluated")
           result == CASE verdict = "allow" -> Allow(d, e)
                       [] verdict = "allow_with_approval" -> AwaitApproval(d, e)
                       [] verdict = "deny" -> Deny(d, e)
<1>0. /\ {"policy_evaluated", "contested_diagnosis_hedged"} \subseteq FlowEvents
      /\ {"policy_evaluated", "contested_diagnosis_hedged"} \subseteq Event
      /\ TrailInv
  BY DEF FlowEvents, SimulatorEvents, Event, PlacedInv
<1>1. ~db.raised /\ Fit(db, c) /\ \A k \in Case : PlacedAt(db, k)
  BY <1>0, OpenIsKept, CaseFits DEF PlacedInv
<1>2. /\ e.case = c /\ e.action = Proposal(profile[c].finding) /\ e.action # NoAction
      /\ profile[c].arm \in RoutingArms
      /\ verdict \in Verdicts(c, e.action)
      /\ Ends("process_case", c, result)
  BY DEF Decide
<1>3. /\ Reaches(db, Diagnosed(c), c, FlowEvents)
      /\ Reaches(db, Proposed(c), c, FlowEvents)
      /\ Fit(Diagnosed(c), c) /\ Fit(Proposed(c), c)
  BY <1>1, ProposingReaches DEF Reaches
<1>4. Reaches(Proposed(c), d, c, FlowEvents) /\ Reaches(Diagnosed(c), Proposed(c), c, FlowEvents)
  BY <1>0, <1>3, NoteReaches, ReachesItself DEF Proposed
<1>5. /\ Reaches(db, d, c, FlowEvents) /\ Fit(d, c) /\ d.outbox = db.outbox
      /\ \A k \in Case \ {c} : d.trail[k] = db.trail[k] /\ d.cases[k] = db.cases[k]
  <2>1. Reaches(db, d, c, FlowEvents)
    BY <1>3, <1>4, ReachesOn
  <2> HIDE DEF d
  <2> QED
    BY <2>1 DEF Reaches, Extends
<1>6. Diagnosed(c).raised => d.raised
  BY <1>4 DEF Reaches, Extends
<1>7. verdict = "allow" => e \in Envelope /\ e \notin d.outbox
  <2>1. e.action \in Messages \cup {Debit}
    BY <1>2, ProposalIsAnAction
  <2>2. e \in Envelope
    BY <2>1 DEF Envelope
  <2>3. verdict = "allow" => e \notin db.outbox
    BY <1>2 DEF Verdicts
  <2> HIDE DEF e, d
  <2> QED
    BY <1>5, <2>2, <2>3
<1> HIDE DEF d, e
<1>8. ~d.raised => Mine(db, c) = {}
  <2> SUFFICES ASSUME ~d.raised PROVE Mine(db, c) = {}
    OBVIOUS
  <2>1. db.cases[c].state = "detected"
    BY <1>1, <1>6, DiagnosedGoes
  <2> QED
    BY <1>1, <1>2, <2>1 DEF PlacedAt, Routed
<1>9. ASSUME ~result.raised
      PROVE  \A k \in Case : PlacedAt(result, k)
  <2>1. CASE verdict = "allow"
    <3>1. result = Allow(d, e)
      BY <2>1
    <3> HIDE DEF result
    <3>2. /\ ~d.raised
          /\ result.outbox = db.outbox \cup {e}
          /\ result.cases[c].state = "scheduled" /\ result.cases[c] # None
          /\ \A k \in Case \ {c} : /\ result.trail[k] = db.trail[k]
                                   /\ result.cases[k] = db.cases[k]
      BY <1>2, <1>5, <1>7, <1>9, <2>1, <3>1, AllowGoes
    <3>3. Mine(result, c) = {e}
      BY <1>2, <1>8, <3>2 DEF Mine
    <3>4. \A k \in Case \ {c} : Mine(result, k) = Mine(db, k)
      BY <1>2, <3>2 DEF Mine
    <3>5. PlacedAt(result, c)
      BY <1>2, <3>2, <3>3 DEF PlacedAt, Routed
    <3> QED
      BY <1>1, <3>2, <3>4, <3>5, OthersPlaced
  <2>2. CASE verdict \in {"allow_with_approval", "deny"}
    <3>1. /\ Reaches(d, result, c, FlowEvents)
          /\ result.cases[c].state \in {"awaiting_approval", "stopped"}
      BY <1>2, <1>5, <1>9, <2>2, RefusingReaches, RefusingGoes
    <3> HIDE DEF result
    <3>2. Reaches(db, result, c, FlowEvents)
      BY <1>5, <3>1, ReachesOn
    <3>3. ~d.raised /\ Mine(result, c) = Mine(db, c) /\ result.cases[c] # None
      BY <1>9, <3>1, <3>2 DEF Reaches, Extends, Fit, Mine
    <3>4. PlacedAt(result, c)
      BY <1>2, <1>8, <3>1, <3>3 DEF PlacedAt, Routed, TerminalCaseStates
    <3> QED
      BY <1>1, <3>2, <3>4, ReachedPlaced
  <2> QED
    BY <2>1, <2>2
<1> HIDE DEF result
<1> QED
  BY <1>2, <1>9, EndsPlaced

LEMMA ProcessCasePlaced ==
    ASSUME PlacedInv, TrailInv', NEW c \in Case, ProcessCase(c)
    PROVE  PlacedInv'
<1>0. /\ "case_state_changed" \in FlowEvents /\ "escalated" \in CaseState /\ TrailInv
      /\ {"arm_not_routed", "control_arm_no_action"} \subseteq Event
  BY DEF FlowEvents, SimulatorEvents, Event, CaseState, PlacedInv
<1>1. /\ Calling(c) /\ db.cases[c] # None /\ Fit(db, c)
      /\ \A k \in Case : PlacedAt(db, k)
  BY <1>0, OpenIsKept, CaseFits DEF ProcessCase, PlacedInv
<1>2. CASE SkipArm(c)
  <2> DEFINE skips == {"arm_not_routed", "control_arm_no_action"}
  <2>1. PICK event \in skips : Ends("process_case", c, Note(db, c, event))
    BY <1>2 DEF SkipArm
  <2> DEFINE result == Note(db, c, event)
  <2>2. Reaches(db, result, c, skips) /\ result.cases = db.cases
    BY <1>0, <1>1, <2>1, NoteReaches, NoteStays DEF Fit
  <2>3. /\ {"diagnosis_produced"} \cap skips = {}
        /\ {"case_state_changed"} \cap skips = {}
    OBVIOUS
  <2> HIDE DEF result, skips
  <2>4. profile[c].arm \notin RoutingArms
    BY <1>2 DEF SkipArm
  <2>5. Unrouted(db, c)
    BY <1>1, <2>4 DEF PlacedAt
  <2>6. Unrouted(result, c)
    BY <2>2, <2>3, <2>5, HasFrom DEF Unrouted
  <2>7. PlacedAt(result, c)
    BY <1>1, <2>2, <2>4, <2>6 DEF PlacedAt
  <2>8. Ends("process_case", c, result)
    BY <2>1 DEF result
  <2> QED
    BY <1>1, <2>2, <2>7, <2>8, ReachedPlaced, EndsPlaced
<1>3. CASE Escalate(c)
  <2> DEFINE result == Move(Diagnosed(c), c, "escalated")
  <2>1. Ends("process_case", c, result) /\ profile[c].arm \in RoutingArms
    BY <1>3 DEF Escalate
  <2>2. Reaches(db, Diagnosed(c), c, FlowEvents) /\ Fit(Diagnosed(c), c)
    BY <1>1, ProposingReaches DEF Reaches
  <2>3. /\ Reaches(db, result, c, FlowEvents)
        /\ ~result.raised =>
                ~Diagnosed(c).raised /\ result.cases[c].state = "escalated"
    BY <1>0, <2>2, WalksReach, ReachesOn, MoveGoes DEF Move
  <2> HIDE DEF result
  <2>4. ASSUME ~result.raised
        PROVE  PlacedAt(result, c)
    <3>1. db.cases[c].state = "detected"
      BY <1>1, <2>3, <2>4, DiagnosedGoes
    <3>2. Mine(db, c) = {}
      BY <1>1, <2>1, <3>1 DEF PlacedAt, Routed
    <3>3. Mine(result, c) = {} /\ result.cases[c] # None
      BY <2>3, <3>2 DEF Reaches, Extends, Fit, Mine
    <3> QED
      BY <2>1, <2>3, <2>4, <3>3 DEF PlacedAt, Routed
  <2> QED
    BY <1>1, <2>1, <2>3, <2>4, ReachedPlaced, EndsPlaced
<1>4. CASE \E verdict \in {"allow", "allow_with_approval", "deny"} : Decide(c, verdict)
  BY <1>1, <1>4, DecidePlaced
<1> QED
  BY <1>2, <1>3, <1>4 DEF ProcessCase

LEMMA InitPlaced == Init => PlacedInv
<1> SUFFICES ASSUME Init PROVE PlacedInv
  OBVIOUS
<1>1. TrailInv
  BY InitTrail
<1>2. db = EmptyDatabase /\ stored = EmptyDatabase
  BY DEF Init
<1>3. /\ EmptyDatabase.cases = [c \in Case |-> None]
      /\ EmptyDatabase.outbox = {}
      /\ EmptyDatabase.trail = [c \in Case |-> <<>>]
  BY DEF EmptyDatabase
<1>4. \A c \in Case : /\ EmptyDatabase.cases[c] = None
                      /\ DOMAIN EmptyDatabase.trail[c] = {}
  BY <1>3
<1>5. \A c \in Case : PlacedAt(EmptyDatabase, c)
  BY <1>3, <1>4 DEF PlacedAt, Mine, Has
<1> QED
  BY <1>1, <1>2, <1>5 DEF PlacedInv

LEMMA StepPlaced == PlacedInv /\ [Next]_vars => PlacedInv'
<1> SUFFICES ASSUME PlacedInv, [Next]_vars
             PROVE  PlacedInv'
  OBVIOUS
<1>1. TrailInv'
  BY StepTrail DEF PlacedInv
<1>2. CASE Begin \/ Commit \/ RollBack \/ UNCHANGED vars
  <2>1. /\ UNCHANGED profile
        /\ db' = db \/ db' = stored
        /\ stored' = stored \/ (stored' = db /\ ~db.raised)
    BY <1>2 DEF Begin, Commit, RollBack, vars, PlacedInv, TrailInv, TypeOK
  <2>2. /\ ~db.raised => \A k \in Case : PlacedAt(db, k)
        /\ \A k \in Case : PlacedAt(stored, k)
    BY DEF PlacedInv
  <2>3. ASSUME ~db'.raised, NEW k \in Case
        PROVE  PlacedAt(db, k)'
    <3>1. CASE db' = db
      BY <2>1, <2>2, <2>3, <3>1 DEF PlacedAt, Routed, Unrouted, Mine, Has
    <3>2. CASE db' = stored
      BY <2>1, <2>2, <2>3, <3>2 DEF PlacedAt, Routed, Unrouted, Mine, Has
    <3> QED
      BY <2>1, <3>1, <3>2
  <2>4. ASSUME NEW k \in Case
        PROVE  PlacedAt(stored, k)'
    <3>1. CASE stored' = stored
      BY <2>1, <2>2, <2>4, <3>1 DEF PlacedAt, Routed, Unrouted, Mine, Has
    <3>2. CASE stored' = db /\ ~db.raised
      BY <2>1, <2>2, <2>4, <3>2 DEF PlacedAt, Routed, Unrouted, Mine, Has
    <3> QED
      BY <2>1, <3>1, <3>2
  <2> QED
    BY <1>1, <2>3, <2>4 DEF PlacedInv
<1>3. ASSUME NEW c \in Case, OpenCase(c)
      PROVE  PlacedInv'
  BY <1>1, <1>3, OpenCasePlaced
<1>4. ASSUME NEW c \in Case, ProcessCase(c)
      PROVE  PlacedInv'
  BY <1>1, <1>4, ProcessCasePlaced
<1>5. ASSUME NEW c \in Case, NEW recovered \in BOOLEAN, ResolveCase(c, recovered)
      PROVE  PlacedInv'
  BY <1>1, <1>5, ResolveCasePlaced
<1> QED
  BY <1>2, <1>3, <1>4, <1>5 DEF Next

-----------------------------------------------------------------------------

\* For any cases, profiles and caps, whatever batches are run, committed and
\* rolled back: the rows of the database are of their types, every case row
\* validates, and a batch in which a handler raised is never committed
\* (case_machine.transition, Database.transaction).
THEOREM FlowTypeCorrect == Spec => []TypeOK
<1>1. TrailInv => TypeOK
  BY DEF TrailInv
<1> QED
  BY <1>1, InitTrail, StepTrail, PTL DEF Spec

\* Invariant #8 for any batches: every committed outbox row has exactly one
\* audit row carrying its key, and no audit row carries the key of anything
\* else (flow._allow and outbox.enqueue).
THEOREM ExternalActionsAuditedAlways == Spec => []ExternalActionsAudited
<1>1. TrailInv => ExternalActionsAudited
  <2> SUFFICES ASSUME TrailInv PROVE ExternalActionsAudited
    OBVIOUS
  <2>1. Audited(stored)
    BY DEF TrailInv
  <2>2. ASSUME NEW c \in Case, NEW i \in DOMAIN stored.trail[c],
               stored.trail[c][i].key # None
        PROVE  stored.trail[c][i].key \in ActionsOf(c)
    BY <2>1, <2>2 DEF Audited, ActionsOf
  <2> QED
    BY <2>1, <2>2 DEF Audited, ExternalActionsAudited
<1> QED
  BY <1>1, InitTrail, StepTrail, PTL DEF Spec

\* A case is drawn once at most, however often and in whatever order with the
\* flow its batch is resolved, and the response is on the trail before the
\* recovery or the stop it caused (sim.outcomes.resolve_case).
THEOREM ResolvedOnceAlways == Spec => []ResolvedOnce
<1>1. TrailInv => ResolvedOnce
  <2> SUFFICES ASSUME TrailInv, NEW c \in Case
               PROVE  LET drawn == EventsOf(c, {"simulated_psp_response"})
                      IN  /\ Cardinality(drawn) <= 1
                          /\ \A i \in EventsOf(c, {"case_recovered", "case_stopped"}) :
                                \E j \in drawn : j < i
    BY DEF ResolvedOnce
  <2> DEFINE drawn == EventsOf(c, {"simulated_psp_response"})
  <2>1. DrawnOnce(stored)
    BY DEF TrailInv
  <2>2. \A i, j \in drawn : i = j
    BY <2>1 DEF DrawnOnce, EventsOf
  <2>3. \A i \in EventsOf(c, {"case_recovered", "case_stopped"}) :
            \E j \in drawn : j < i
    BY <2>1 DEF DrawnOnce, EventsOf
  <2> HIDE DEF drawn
  <2>4. drawn = {} \/ \E i : drawn = {i}
    BY <2>2
  <2>5. Cardinality(drawn) <= 1
    <3>1. CASE drawn = {}
      BY <3>1, FS_EmptySet
    <3>2. CASE \E i : drawn = {i}
      <4>1. PICK i : drawn = {i}
        BY <3>2
      <4>2. Cardinality({i}) = 1
        BY FS_Singleton
      <4> QED
        BY <4>1, <4>2
    <3> QED
      BY <2>4, <3>1, <3>2
  <2> QED
    BY <2>3, <2>5 DEF drawn
<1> QED
  BY <1>1, InitTrail, StepTrail, PTL DEF Spec

\* No contact on a contested diagnosis is committed without the row that
\* discloses the hedge before it (flow.process_case).
THEOREM HedgeIsOnTheTrailAlways == Spec => []HedgeIsOnTheTrail
<1>1. TrailInv => HedgeIsOnTheTrail
  <2> SUFFICES ASSUME TrailInv, NEW e \in stored.outbox,
                      BelowFloor(Diagnose(profile[e.case].finding)),
                      NEW i \in EventsOf(e.case, {"action_scheduled"})
               PROVE  \E j \in EventsOf(e.case, {"contested_diagnosis_hedged"}) : j < i
    BY DEF HedgeIsOnTheTrail
  <2>1. e.case \in Case
    BY DEF TrailInv, TypeOK, DatabaseOK, Envelope
  <2>2. Hedged(stored)
    BY DEF TrailInv
  <2> QED
    BY <2>1, <2>2 DEF Hedged, EventsOf
<1> QED
  BY <1>1, InitTrail, StepTrail, PTL DEF Spec

\* Invariant #9 for any batches: a live case the flow has been over has
\* exactly one action in the outbox, or none and a human to wait for, or a
\* logged decision not to act (flow.process_case, sim.outcomes.resolve_case).
THEOREM NoOrphanedLiveCaseAlways == Spec => []NoOrphanedLiveCase
<1>1. PlacedInv => NoOrphanedLiveCase
  <2> SUFFICES ASSUME PlacedInv, NEW c \in Case, IsLive(c),
                      EventsOf(c, {"diagnosis_produced", "control_arm_no_action",
                                   "arm_not_routed"}) # {}
               PROVE  \/ Cardinality(ActionsOf(c)) = 1
                      \/ /\ ActionsOf(c) = {}
                         /\ \/ stored.cases[c].state \in {"awaiting_approval", "escalated"}
                            \/ EventsOf(c, {"control_arm_no_action", "arm_not_routed"}) # {}
    BY DEF NoOrphanedLiveCase
  <2>1. PlacedAt(stored, c) /\ stored.cases[c] # None /\ ActionsOf(c) = Mine(stored, c)
    BY DEF PlacedInv, IsLive, ActionsOf, Mine
  <2>2. \/ Has(stored, c, {"diagnosis_produced"})
        \/ EventsOf(c, {"control_arm_no_action", "arm_not_routed"}) # {}
    BY DEF EventsOf, Has
  <2>3. CASE profile[c].arm \in RoutingArms /\ stored.cases[c].state # "detected"
    <3>1. \/ \E e : ActionsOf(c) = {e}
          \/ /\ ActionsOf(c) = {}
             /\ stored.cases[c].state \in {"awaiting_approval", "escalated"}
      BY <2>1, <2>3 DEF PlacedAt, Routed, IsLive
    <3>2. \A e : Cardinality({e}) = 1
      BY FS_Singleton
    <3> QED
      BY <3>1, <3>2
  <2>4. CASE profile[c].arm \notin RoutingArms \/ stored.cases[c].state = "detected"
    BY <2>1, <2>2, <2>4 DEF PlacedAt, Routed, Unrouted
  <2> QED
    BY <2>3, <2>4
<1> QED
  BY <1>1, InitPlaced, StepPlaced, PTL DEF Spec

\* For any cases and batches: only arms that route under the policy engine
\* reach the outbox, A2 and A5 are never moved, and a control case is moved
\* once at most (contracts.experiment.ARM_SPECS, flow.process_case).
THEOREM ArmsKeepTheirContractAlways == Spec => []ArmsKeepTheirContract
<1>1. PlacedInv => ArmsKeepTheirContract
  <2> SUFFICES ASSUME PlacedInv, NEW c \in Case
               PROVE  /\ ActionsOf(c) # {} => profile[c].arm \in {"A3", "A4"}
                      /\ IsLive(c) /\ profile[c].arm \in {"A2", "A5"} =>
                            stored.cases[c].state = "detected"
                      /\ profile[c].arm = "A0" /\ stored.cases[c] # None =>
                            /\ stored.cases[c].state \in {"detected", "stopped"}
                            /\ EventsOf(c, {"case_state_changed",
                                            "diagnosis_produced"}) = {}
    BY DEF ArmsKeepTheirContract
  <2>1. PlacedAt(stored, c) /\ ActionsOf(c) = Mine(stored, c)
    BY DEF PlacedInv, ActionsOf, Mine
  <2>2. RoutingArms = {"A3", "A4"}
    BY DEF RoutingArms, DeterministicArms, PolicedArms, Arm
  <2>3. ~Has(stored, c, {"diagnosis_produced"}) /\ ~Has(stored, c, {"case_state_changed"})
            => EventsOf(c, {"case_state_changed", "diagnosis_produced"}) = {}
    BY DEF Has, EventsOf
  <2> QED
    BY <2>1, <2>2, <2>3 DEF PlacedAt, Unrouted, IsLive
<1> QED
  BY <1>1, InitPlaced, StepPlaced, PTL DEF Spec

=============================================================================
