--------------------------- MODULE SpineProperties ---------------------------
(***************************************************************************)
(* What the spine must guarantee whatever its sessions do.                 *)
(***************************************************************************)
EXTENDS Spine

\* The locals the statement a session has reached is going to use.
LocalsOK(s) ==
    /\ pc[s] \in {"insert_case", "update_case"} =>
            call[s].case \in Case /\ call[s].row \in RiskCase
    /\ pc[s] \in {"insert_case", "update_case", "read_tail", "insert_audit"} =>
            call[s].body \in AuditBody
    /\ pc[s] \in {"read_clash", "insert_outbox"} => call[s].env \in Envelope

\* A log is a function whose rows have the shape transition and append build.
LogOK(log) ==
    /\ log = [n \in DOMAIN log |-> log[n]]
    /\ \A n \in DOMAIN log : log[n].body \in AuditBody

\* The types: in particular, what a session writes is a row the schema of
\* risk_cases can hold, and a statement finds the locals it needs.
TypeOK ==
    /\ cases \in [Case -> RiskCase \cup {None}]
    /\ outbox \subseteq Envelope
    /\ wcases \in [Session -> [Case -> RiskCase \cup {None}]]
    /\ waudit = [s \in Session |-> waudit[s]]
    /\ woutbox \in [Session -> SUBSET Envelope]
    /\ pc \in [Session -> Place]
    /\ call = [s \in Session |-> call[s]]
    /\ calls \in [Session -> 0..MaxCalls]
    /\ LogOK(audit)
    /\ \A s \in Session : LocalsOK(s) /\ LogOK(waudit[s])

\* At most one live case is committed per obligation.  Two sessions may both
\* pass the pre-check of open_case, and a stale transition may revive a case
\* after another one was opened: uq_risk_case_active_obligation must stop both.
OneLiveCase ==
    \A c, d \in Case :
        LiveRow(cases[c]) /\ LiveRow(cases[d]) => ~SameObligation(c, d)

\* No attempt on an obligation is debited twice, even by two cases whose
\* sessions both passed the pre-check of enqueue.
NoDoubleDebit ==
    \A e, f \in outbox : SameDebit(e, f) => e = f

\* The hash a row numbered n must carry to extend a log.
ExpectedHash(log, n) == IF n = 0 THEN Genesis ELSE Hash(n - 1, log[n - 1])

\* The committed log is numbered from 0 without a gap, and every row carries
\* the hash of the row before it: concurrent appends never fork the chain.
ChainIntact ==
    \A n \in DOMAIN audit :
        /\ n \in Nat /\ 0..n \subseteq DOMAIN audit
        /\ audit[n].prev_hash = ExpectedHash(audit, n)

\* Every case row a session can read would pass RiskCase validation.
StoredCasesAreValid ==
    \A s \in Session, c \in Case :
        CaseView(s)[c] # None => ValidCase(CaseView(s)[c])

\* The audit trail of every case is a path of the lifecycle: each recorded
\* change starts from the state the change before it ended in (for one
\* session and the callers that CallersAreDisciplined describes, below).
TrailIsPath ==
    \A n \in DOMAIN audit :
        LET body == audit[n].body
            earlier == {k \in DOMAIN audit :
                            /\ k < n
                            /\ audit[k].body.case_id = body.case_id
                            /\ audit[k].body.to # None}
        IN  body.to # None =>
                \/ earlier = {} /\ body.from = None
                \/ \E k \in earlier : /\ \A j \in earlier : j <= k
                                      /\ body.from = audit[k].body.to

\* What the audit trail asks of those who call the spine, because nothing in
\* it does: an exception of append leaves their transaction block, and the
\* state of a case is set by the call and not by its field updates.
CallersAreDisciplined ==
    Swallowing = {} /\ \A update \in FieldUpdates : update.state = Absent

\* With such callers nothing that was logged is ever lost or rewritten, and
\* the ledger is what replaying the log gives (module AuditedLedger).  A
\* single caller that swallows what append raises commits a case row that
\* no audit row explains.
Ledger == INSTANCE AuditedLedger WITH
    ledger <- [c \in Case |-> IF cases[c] = None THEN None ELSE cases[c].state],
    log <- [n \in DOMAIN audit |-> audit[n].body]
ReplaysAudit == Ledger!Spec

\* A terminal case stays as it is.
TerminalIsFinal ==
    [][\A c \in Case :
        cases[c] # None /\ ~LiveRow(cases[c]) => cases'[c] = cases[c]]_vars

\* Every transaction ends, whatever locks its statements wait for.
EveryTransactionEnds ==
    \A s \in Session : pc[s] # "out" ~> pc[s] = "out"

-----------------------------------------------------------------------------
(***************************************************************************)
(* The strengthenings that make them inductive.                            *)
(***************************************************************************)

\* A row has one uncommitted version at most.
RowLocks ==
    \A s, t \in Session, c \in Case :
        wcases[s][c] # None /\ wcases[t][c] # None => s = t

\* A case that a session made live meets no other live version of a case of
\* its obligation, except one the same session has made terminal.
LiveIndex ==
    \A s \in Session, c, d \in Case :
        LiveRow(wcases[s][c]) /\ SameObligation(c, d) =>
            /\ LiveRow(cases[d]) => wcases[s][d] # None
            /\ \A t \in Session : ~LiveRow(wcases[t][d])

\* OneLiveCase with the locks and the index that make it inductive.
LiveInv == TypeOK /\ RowLocks /\ LiveIndex /\ OneLiveCase

\* The unique indexes of the outbox range over uncommitted rows too.
OutboxIndex ==
    /\ \A s \in Session :
            \A e, f \in OutboxView(s) : SameDebit(e, f) => e = f
    /\ \A s, t \in Session : \A e \in woutbox[s], f \in woutbox[t] :
            SameDebit(e, f) => s = t

\* NoDoubleDebit with the indexes that make it inductive.
DebitInv == TypeOK /\ OutboxIndex /\ NoDoubleDebit

\* Numbered from 0, every row linked to the one before.
Linked(log) ==
    /\ NextSequence(log) \in Nat
    /\ DOMAIN log = 0..(NextSequence(log) - 1)
    /\ \A n \in DOMAIN log :
            log[n].prev_hash = ExpectedHash(log, n)

\* At most one session has uncommitted audit rows, they follow the committed
\* ones, and the tail it read earlier is still a row of the log.
SessionChain(s) ==
    /\ Linked(AuditView(s))
    /\ DOMAIN waudit[s] \cap DOMAIN audit = {}
    /\ \A t \in Session \ {s} : DOMAIN waudit[s] = {} \/ DOMAIN waudit[t] = {}
    /\ pc[s] = "insert_audit" =>
        /\ call[s].sequence \in 0..NextSequence(AuditView(s))
        /\ call[s].prev_hash = ExpectedHash(AuditView(s), call[s].sequence)

\* ChainIntact follows: at most one session extends the chain at a time.
ChainInv ==
    /\ TypeOK
    /\ Linked(audit)
    /\ \A s \in Session : SessionChain(s)

\* A row that would pass validation, or none.
ValidOrNone(row) == row # None => ValidCase(row)

\* StoredCasesAreValid, and of the row that a session is about to write: it
\* may write it long after it checked it.
ValidInv ==
    /\ TypeOK
    /\ \A c \in Case : ValidOrNone(cases[c])
    /\ \A s \in Session, c \in Case : ValidOrNone(wcases[s][c])
    /\ \A s \in Session :
        pc[s] \in {"insert_case", "update_case"} =>
            ValidOrNone(call[s].row)

\* The rows of a log that change the state of case c.
Changes(log, c) ==
    {n \in DOMAIN log : log[n].body.case_id = c /\ log[n].body.to # None}

\* A row of case c, or none, is what the last of them says.
Shows(log, c, row) ==
    IF row = None THEN Changes(log, c) = {}
    ELSE \E n \in Changes(log, c) : /\ \A k \in Changes(log, c) : k <= n
                                   /\ log[n].body.to = row.state

\* Session s has written the row of case c, and not yet its audit row.
Owes(s, c) ==
    /\ pc[s] \in {"read_tail", "insert_audit"}
    /\ call[s].body.case_id = c /\ call[s].body.to # None

\* What a session has written shows what it has logged, but for the one row
\* that its next statements append; a session that failed cannot commit.
SessionReplays(s) ==
    /\ pc[s] \in {"insert_case", "update_case"} =>
            /\ call[s].body.case_id = call[s].case
            /\ call[s].body.to = call[s].row.state
    /\ pc[s] \in {"insert_case", "update_case", "read_tail", "insert_audit"} =>
            Ledger!RecordedChange(call[s].body)
    /\ \A n \in DOMAIN waudit[s] : Ledger!RecordedChange(waudit[s][n].body)
    /\ pc[s] # "failed" => \A c \in Case :
            IF Owes(s, c)
            THEN wcases[s][c] # None /\ wcases[s][c].state = call[s].body.to
            ELSE Shows(waudit[s], c, wcases[s][c])

\* ReplaysAudit with the part of it that is still in the sessions' hands.
ReplayInv ==
    /\ ChainInv
    /\ \A n \in DOMAIN audit : Ledger!RecordedChange(audit[n].body)
    /\ \A c \in Case : Shows(audit, c, cases[c])
    /\ \A s \in Session : SessionReplays(s)

\* A change starts from the state that the last of the earlier ones ended in.
Continues(log, earlier, body) ==
    \/ earlier = {} /\ body.from = None
    \/ \E k \in earlier : /\ \A j \in earlier : j <= k
                          /\ body.from = log[k].body.to

\* TrailIsPath, of any log.
IsPath(log) ==
    \A n \in DOMAIN log :
        LET body == log[n].body
        IN  body.to # None =>
                Continues(log, {k \in Changes(log, body.case_id) : k < n}, body)

\* So is the log that a session reads, and the change it is making continues
\* it: it computed that change from a row, and the log has not moved since.
SessionPath(s) ==
    /\ IsPath(AuditView(s))
    /\ pc[s] = "insert_case" => call[s].body.from = None
    /\ /\ pc[s] \in {"update_case", "read_tail", "insert_audit"}
       /\ call[s].body.to # None
       => Continues(AuditView(s), Changes(AuditView(s), call[s].body.case_id),
                    call[s].body)

\* TrailIsPath with what makes it inductive, for one session.
PathInv == ReplayInv /\ IsPath(audit) /\ \A s \in Session : SessionPath(s)

=============================================================================
