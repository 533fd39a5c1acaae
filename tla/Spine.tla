-------------------------------- MODULE Spine --------------------------------
(***************************************************************************)
(* The transactional spine (reclaim/spine): ledger.open_case,              *)
(* case_machine.transition, outbox.enqueue and audit_store.append, called  *)
(* by sessions that own their transactions, on the production database     *)
(* (PostgreSQL, READ COMMITTED).                                           *)
(*                                                                         *)
(* One action is one SQL statement.  The Python between two statements     *)
(* only sees what the earlier one returned, so it belongs to the           *)
(* statement that feeds it.  A session's writes stay in an overlay         *)
(* (wcases, waudit, woutbox) that nobody else reads until it commits;      *)
(* while they do, they are also its row locks and its entries in the       *)
(* unique indexes, on which the statements of other sessions wait.         *)
(***************************************************************************)
EXTENDS Naturals, CaseLifecycle

CONSTANTS
    Session,        \* database sessions: flow runs, the simulator, seeders
    Case,           \* the case ids that callers use
    Obligation,
    ObligationOf,   \* the obligation each case is opened against
    ControlArm,     \* the cases assigned to the no-action arm A0
    Envelope,       \* the idempotency keys callers may enqueue
    Coordinates,    \* (obligation, attempt) of a debit, None for a contact
    RequestedState, \* the target states callers ask transition() for
    FieldUpdates,   \* the field updates they pass with it
    Swallowing,     \* the sessions whose caller catches what append raises
    MaxCalls,       \* bound: API calls made inside one transaction
    MaxAudit,       \* bound: no call starts that would grow the log past it
    None

ASSUME ObligationOfAssumption == ObligationOf \in [Case -> Obligation]
ASSUME ControlArmAssumption == ControlArm \subseteq Case
ASSUME CoordinatesAssumption ==
    Coordinates \in [Envelope -> (Obligation \X Nat) \cup {None}]
ASSUME RequestAssumption ==
    /\ RequestedState \subseteq CaseState
    /\ FieldUpdates \subseteq FieldUpdate
ASSUME SwallowingAssumption == Swallowing \subseteq Session
ASSUME BoundAssumption == MaxCalls \in Nat /\ MaxAudit \in Nat
ASSUME NoneAssumption ==
    /\ None \notin RiskCase
    /\ None \notin Obligation \X Nat
    /\ None \notin Case
    /\ None \notin Envelope
    /\ None \notin CaseState

VARIABLES
    cases,    \* committed risk_cases: Case -> row or None
    audit,    \* committed audit_log: sequence -> row, a partial function
    outbox,   \* committed outbox: the set of envelopes enqueued
    wcases,   \* per session: the case rows its open transaction has written
    waudit,   \* per session: the audit rows it has inserted
    woutbox,  \* per session: the outbox rows it has inserted
    pc,       \* per session: the statement it is about to execute
    call,     \* per session: the locals of the API call it is in
    calls     \* per session: API calls made in this transaction

committed == <<cases, audit, outbox>>
overlay == <<wcases, waudit, woutbox>>
vars == <<committed, overlay, pc, call, calls>>

-----------------------------------------------------------------------------
(***************************************************************************)
(* Rows.  An audit row names the case and the edge it records (from is     *)
(* None for case_opened, from and to are None for a row that records no    *)
(* state change).  SHA-256 is modelled as an injective pairing.            *)
(***************************************************************************)

AuditBody ==
    [case_id : Case, from : CaseState \cup {None}, to : CaseState \cup {None}]

Genesis == <<>>
EmptyLog == [n \in {} |-> None]
Hash(sequence, row) == <<sequence, row.prev_hash, row.body>>

Place ==
    {"out", "idle", "insert_case", "update_case", "read_tail",
     "insert_audit", "read_clash", "insert_outbox", "failed"}

NoCall == [case |-> None, row |-> None, body |-> None, env |-> None,
           sequence |-> 0, prev_hash |-> Genesis]

LiveRow(row) == row # None /\ row.state \notin TerminalCaseStates

\* What session s reads: committed rows under its own writes.
CaseView(s) ==
    [c \in Case |-> IF wcases[s][c] # None THEN wcases[s][c] ELSE cases[c]]
OutboxView(s) == outbox \cup woutbox[s]
AuditView(s) ==
    [n \in DOMAIN audit \cup DOMAIN waudit[s] |->
        IF n \in DOMAIN waudit[s] THEN waudit[s][n] ELSE audit[n]]

\* The sequence and prev_hash append_row derives from the tail of a log.
Tail(log) == CHOOSE n \in DOMAIN log : \A k \in DOMAIN log : k <= n
NextSequence(log) == IF DOMAIN log = {} THEN 0 ELSE Tail(log) + 1
TailHash(log) ==
    IF DOMAIN log = {} THEN Genesis ELSE Hash(Tail(log), log[Tail(log)])

SameObligation(c, d) == c # d /\ ObligationOf[c] = ObligationOf[d]
SameDebit(e, f) == Coordinates[e] # None /\ Coordinates[e] = Coordinates[f]

-----------------------------------------------------------------------------
(***************************************************************************)
(* The unique indexes and row locks.  A statement that meets a row another *)
(* transaction is still writing waits for it (Blockers); one that meets a  *)
(* row certain to stay fails with an IntegrityError (the Clash operators). *)
(* Definitions named ...Without... or ...Faulty are the bugs the mutation  *)
(* runs put in place of the definition that follows them.                  *)
(***************************************************************************)

\* The primary key of risk_cases.
CaseClashWithoutKey(s, c) == FALSE
CaseClash(s, c) == CaseView(s)[c] # None

\* Sessions holding an uncommitted version of the row of case c.
RowHolders(s, c) == {t \in Session \ {s} : wcases[t][c] # None}

\* uq_risk_case_active_obligation: sessions that have made another case of
\* the obligation live, or not live any more, and have not committed.
LiveHolders(s, c) ==
    {t \in Session \ {s} : \E d \in Case :
        /\ SameObligation(c, d)
        /\ wcases[t][d] # None
        /\ LiveRow(wcases[t][d]) \/ LiveRow(cases[d])}

LiveClashWithoutIndex(s, c) == FALSE
LiveClash(s, c) ==
    \E d \in Case : /\ SameObligation(c, d)
                    /\ RowHolders(s, d) = {}
                    /\ LiveRow(CaseView(s)[d])

OutboxHolders(s, e) ==
    {t \in Session \ {s} : \E f \in woutbox[t] : f = e \/ SameDebit(e, f)}

\* UNIQUE idempotency_key and uq_outbox_obligation_attempt.
OutboxClashWithoutIndex(s, e) == e \in OutboxView(s)
OutboxClash(s, e) == \E f \in OutboxView(s) : f = e \/ SameDebit(e, f)

Blockers(s) ==
    LET c == call[s].case
    IN  CASE pc[s] = "insert_case" -> RowHolders(s, c) \cup LiveHolders(s, c)
          [] pc[s] = "update_case" ->
                RowHolders(s, c) \cup
                IF LiveRow(call[s].row) THEN LiveHolders(s, c) ELSE {}
          [] pc[s] = "insert_audit" ->
                {t \in Session \ {s} : call[s].sequence \in DOMAIN waudit[t]}
          [] pc[s] = "insert_outbox" -> OutboxHolders(s, call[s].env)
          [] OTHER -> {}

OnWaitCycleWithoutDetector(s) == FALSE

\* The deadlock detector: s is on a cycle of sessions waiting for each other.
OnWaitCycle(s) ==
    \E cycle \in SUBSET Session :
        /\ s \in cycle
        /\ \A t \in cycle : /\ Blockers(t) \cap cycle # {}
                            /\ \E u \in cycle : t \in Blockers(u)

-----------------------------------------------------------------------------
(***************************************************************************)
(* Control of one session.                                                 *)
(***************************************************************************)

Goto(s, place, locals) ==
    /\ pc' = [pc EXCEPT ![s] = place]
    /\ call' = [call EXCEPT ![s] = locals]

\* The API call is over and the caller goes on with the transaction: the
\* call returned, or a check of it raised before it had written anything.
Return(s) == Goto(s, "idle", NoCall)

\* The database raised: the transaction can only be rolled back.
DatabaseError(s) == Goto(s, "failed", NoCall)

\* Python raised after a write of the same call.  The database knows nothing
\* of it: the write stands unless the exception leaves the caller's block.
\* The faulty variant has transition and open_case catch what append raises.
RaisedAfterWriteFaulty(s) == Return(s)
RaisedAfterWrite(s) ==
    IF s \in Swallowing THEN Return(s) ELSE Goto(s, "failed", NoCall)

\* The session may make one more call inside its transaction.
Calling(s) ==
    /\ pc[s] = "idle"
    /\ calls[s] < MaxCalls
    /\ calls' = [calls EXCEPT ![s] = @ + 1]
    /\ UNCHANGED <<committed, overlay>>

HasRoom(s) == NextSequence(AuditView(s)) < MaxAudit

Discard(s) ==
    /\ wcases' = [wcases EXCEPT ![s] = [c \in Case |-> None]]
    /\ waudit' = [waudit EXCEPT ![s] = EmptyLog]
    /\ woutbox' = [woutbox EXCEPT ![s] = {}]
    /\ calls' = [calls EXCEPT ![s] = 0]
    /\ Goto(s, "out", NoCall)

-----------------------------------------------------------------------------
(***************************************************************************)
(* ledger.open_case                                                        *)
(***************************************************************************)

NewCase(c) ==
    [state |-> "detected",
     arm |-> IF c \in ControlArm THEN "control" ELSE "treatment",
     fields |-> {}]

\* The live-case pre-check; DuplicateActiveCase, or on to the insert.
OpenCase(s, c) ==
    /\ Calling(s)
    /\ HasRoom(s)
    /\ IF \E d \in Case : /\ ObligationOf[d] = ObligationOf[c]
                          /\ LiveRow(CaseView(s)[d])
       THEN Return(s)
       ELSE Goto(s, "insert_case",
                 [NoCall EXCEPT
                    !.case = c,
                    !.row = NewCase(c),
                    !.body = [case_id |-> c, from |-> None, to |-> "detected"]])

InsertCase(s) ==
    LET c == call[s].case
    IN  /\ pc[s] = "insert_case"
        /\ \/ /\ CaseClash(s, c) \/ LiveClash(s, c)
              /\ DatabaseError(s)
              /\ UNCHANGED wcases
           \/ /\ ~CaseClash(s, c) /\ ~LiveClash(s, c)
              /\ Blockers(s) = {}
              /\ wcases' = [wcases EXCEPT ![s][c] = call[s].row]
              /\ Goto(s, "read_tail", call[s])
        /\ UNCHANGED <<committed, waudit, woutbox, calls>>

(***************************************************************************)
(* case_machine.transition                                                 *)
(***************************************************************************)

\* The edge is in the table and the case, rebuilt, passes validation; the
\* faulty variant copies the case without validating it again.
AcceptsFaulty(current, to, update) ==
    IsTransitionAllowed(current.state, to)
Accepts(current, to, update) ==
    /\ IsTransitionAllowed(current.state, to)
    /\ ValidCase(Rebuild(current, to, update))

\* get_case, then the checks: CaseNotFound, IllegalTransition, ValidationError.
\* The log will say "to", whatever state the update put into the row.
Transition(s, c, to, update) ==
    LET current == CaseView(s)[c]
    IN  /\ Calling(s)
        /\ HasRoom(s)
        /\ IF current # None /\ Accepts(current, to, update)
           THEN Goto(s, "update_case",
                     [NoCall EXCEPT
                        !.case = c,
                        !.row = Rebuild(current, to, update),
                        !.body = [case_id |-> c, from |-> current.state,
                                  to |-> to]])
           ELSE Return(s)

\* UPDATE ... WHERE case_id = :c.  It waits for the row lock and then
\* writes what the call computed from the row it read before the wait.
UpdateCase(s) ==
    LET c == call[s].case
        clash == LiveRow(call[s].row) /\ LiveClash(s, c)
    IN  /\ pc[s] = "update_case"
        /\ \/ /\ clash /\ RowHolders(s, c) = {}
              /\ DatabaseError(s)
              /\ UNCHANGED wcases
           \/ /\ ~clash
              /\ Blockers(s) = {}
              /\ wcases' = [wcases EXCEPT ![s][c] = call[s].row]
              /\ Goto(s, "read_tail", call[s])
        /\ UNCHANGED <<committed, waudit, woutbox, calls>>

(***************************************************************************)
(* audit_store.append, reached from the two calls above or called directly *)
(* for a row that records no state change.                                 *)
(***************************************************************************)

AppendNote(s, c) ==
    /\ Calling(s)
    /\ HasRoom(s)
    /\ Goto(s, "read_tail",
            [NoCall EXCEPT
               !.body = [case_id |-> c, from |-> None, to |-> None]])

\* The tail is parsed and the new AuditRow built before the INSERT: either
\* may raise (a row that does not re-derive its hash, an event type, a
\* rationale or an identifier that AuditRow refuses), with the case row of
\* this call already written.
ReadTail(s) ==
    /\ pc[s] = "read_tail"
    /\ \/ Goto(s, "insert_audit",
               [NoCall EXCEPT !.body = call[s].body,
                              !.sequence = NextSequence(AuditView(s)),
                              !.prev_hash = TailHash(AuditView(s))])
       \/ RaisedAfterWrite(s)
    /\ UNCHANGED <<committed, overlay, calls>>

\* audit_log's primary key is the sequence.
AuditClashWithoutKey(s) == FALSE
AuditClash(s) == call[s].sequence \in DOMAIN AuditView(s)

InsertAudit(s) ==
    LET n == call[s].sequence
        row == [prev_hash |-> call[s].prev_hash, body |-> call[s].body]
    IN  /\ pc[s] = "insert_audit"
        /\ \/ /\ AuditClash(s)
              /\ DatabaseError(s)
              /\ UNCHANGED waudit
           \/ /\ ~AuditClash(s)
              /\ Blockers(s) = {}
              /\ waudit' = [waudit EXCEPT ![s] =
                    [k \in DOMAIN waudit[s] \cup {n} |->
                        IF k = n THEN row ELSE waudit[s][k]]]
              /\ Return(s)
        /\ UNCHANGED <<committed, wcases, woutbox, calls>>

(***************************************************************************)
(* outbox.enqueue                                                          *)
(***************************************************************************)

\* An envelope already stored is returned as it is.
Enqueue(s, e) ==
    /\ Calling(s)
    /\ IF e \in OutboxView(s) THEN Return(s)
       ELSE Goto(s, IF Coordinates[e] # None THEN "read_clash"
                                             ELSE "insert_outbox",
                 [NoCall EXCEPT !.env = e])

\* The Q1 pre-check: DoubleDebitBlocked, or on to the insert.
ReadClash(s) ==
    /\ pc[s] = "read_clash"
    /\ IF \E f \in OutboxView(s) : SameDebit(call[s].env, f)
       THEN Return(s)
       ELSE Goto(s, "insert_outbox", call[s])
    /\ UNCHANGED <<committed, overlay, calls>>

InsertOutbox(s) ==
    LET e == call[s].env
    IN  /\ pc[s] = "insert_outbox"
        /\ \/ /\ OutboxClash(s, e)
              /\ DatabaseError(s)
              /\ UNCHANGED woutbox
           \/ /\ ~OutboxClash(s, e)
              /\ Blockers(s) = {}
              /\ woutbox' = [woutbox EXCEPT ![s] = @ \cup {e}]
              /\ Return(s)
        /\ UNCHANGED <<committed, wcases, waudit, calls>>

-----------------------------------------------------------------------------
(***************************************************************************)
(* The caller's transaction: with engine.begin() as conn.                  *)
(***************************************************************************)

Begin(s) ==
    /\ pc[s] = "out"
    /\ Goto(s, "idle", NoCall)
    /\ UNCHANGED <<committed, overlay, calls>>

Commit(s) ==
    /\ pc[s] = "idle"
    /\ cases' = CaseView(s)
    /\ audit' = AuditView(s)
    /\ outbox' = OutboxView(s)
    /\ Discard(s)

\* An exception leaves the block: a database error always does, and the
\* caller may let any other one through.
RollBack(s) ==
    /\ pc[s] \in {"idle", "failed"}
    /\ Discard(s)
    /\ UNCHANGED committed

\* The process dies at any point; the server rolls its transaction back.
Crash(s) ==
    /\ pc[s] # "out"
    /\ Discard(s)
    /\ UNCHANGED committed

\* The database ends a deadlock by failing the statement of one session.
DeadlockVictim(s) ==
    /\ OnWaitCycle(s)
    /\ DatabaseError(s)
    /\ UNCHANGED <<committed, overlay, calls>>

-----------------------------------------------------------------------------

Init ==
    /\ cases = [c \in Case |-> None]
    /\ audit = EmptyLog
    /\ outbox = {}
    /\ wcases = [s \in Session |-> [c \in Case |-> None]]
    /\ waudit = [s \in Session |-> EmptyLog]
    /\ woutbox = [s \in Session |-> {}]
    /\ pc = [s \in Session |-> "out"]
    /\ call = [s \in Session |-> NoCall]
    /\ calls = [s \in Session |-> 0]

Statement(s) ==
    \/ InsertCase(s)
    \/ UpdateCase(s)
    \/ ReadTail(s)
    \/ InsertAudit(s)
    \/ ReadClash(s)
    \/ InsertOutbox(s)

Request(s) ==
    \/ \E c \in Case : OpenCase(s, c)
    \/ \E c \in Case, to \in RequestedState, update \in FieldUpdates :
            Transition(s, c, to, update)
    \/ \E c \in Case : AppendNote(s, c)
    \/ \E e \in Envelope : Enqueue(s, e)

Next ==
    \E s \in Session :
        \/ Begin(s)
        \/ Request(s)
        \/ Statement(s)
        \/ Commit(s)
        \/ RollBack(s)
        \/ Crash(s)
        \/ DeadlockVictim(s)

Spec == Init /\ [][Next]_vars

\* The lock manager queues waiters first come first served, so a statement
\* that is infinitely often free to run does run; a transaction block ends
\* after its calls; the deadlock detector fires.  Callers need not call.
Fairness ==
    \A s \in Session : /\ SF_vars(Statement(s))
                       /\ WF_vars(Commit(s) \/ RollBack(s))
                       /\ WF_vars(DeadlockVictim(s))

FairSpec == Spec /\ Fairness

=============================================================================
