---------------------------- MODULE SpineTrailProofs ----------------------------
(***************************************************************************)
(* Proofs about what the audit trail says of the cases, for any cases,     *)
(* envelopes and bounds.  For any sessions of callers that let what append *)
(* raises through and leave the state of a case to the call, the spine     *)
(* implements the audited ledger.  For one session, terminal cases are     *)
(* final and the trail of a case is a path of the lifecycle.               *)
(***************************************************************************)
EXTENDS SpineProofs

Writing == {"insert_case", "update_case"}
Logging == {"read_tail", "insert_audit"}

\* The edge table of the specification is the one of the code.
LEMMA SameTable ==
    ASSUME NEW src, NEW dst
    PROVE  Ledger!IsTransitionAllowed(src, dst) <=> IsTransitionAllowed(src, dst)
BY DEF Ledger!IsTransitionAllowed, IsTransitionAllowed,
       Ledger!AllowedCaseTransitions, AllowedCaseTransitions,
       Ledger!CaseState, CaseState, Ledger!TerminalCaseStates, TerminalCaseStates

\* A caller that lets what append raises through can only roll back.
LEMMA RaisingIsFailing ==
    ASSUME CallersAreDisciplined, NEW s \in Session, RaisedAfterWrite(s)
    PROVE  DatabaseError(s)
BY DEF CallersAreDisciplined, RaisedAfterWrite, DatabaseError

\* What other sessions do to theirs is nothing to a session.
LEMMA OtherReplays ==
    ASSUME NEW t \in Session, SessionReplays(t),
           pc'[t] = pc[t], call'[t] = call[t],
           wcases'[t] = wcases[t], waudit'[t] = waudit[t]
    PROVE  SessionReplays(t)'
BY DEF SessionReplays, Owes, Shows, Changes, Ledger!RecordedChange

\* A step of s that neither writes nor logs, and leaves nothing owed that was
\* not owed before.
LEMMA GotoReplays ==
    ASSUME ReplayInv, ChainInv', NEW s \in Session,
           NEW place, NEW locals, Goto(s, place, locals),
           UNCHANGED <<cases, audit, wcases, waudit>>,
           place \in Writing =>
                /\ locals.body.case_id = locals.case
                /\ locals.body.to = locals.row.state,
           place \in Writing \cup Logging => Ledger!RecordedChange(locals.body),
           \/ place = "failed"
           \/ /\ pc[s] \notin Logging \cup {"failed"}
              /\ place \in Logging => locals.body.to = None
           \/ /\ pc[s] \in Logging /\ call[s].body = locals.body
              /\ place \in Logging
    PROVE  ReplayInv'
<1>1. /\ \A t \in Session \ {s} : pc'[t] = pc[t] /\ call'[t] = call[t]
      /\ pc'[s] = place /\ call'[s] = locals
      /\ wcases' = wcases /\ waudit' = waudit /\ audit' = audit /\ cases' = cases
  BY DEF Goto, ReplayInv, ChainInv, TypeOK
<1>2. \A t \in Session \ {s} : SessionReplays(t)'
  BY <1>1, OtherReplays DEF ReplayInv
<1>3. SessionReplays(s)
  BY DEF ReplayInv
<1>4. ASSUME place # "failed", NEW c \in Case
      PROVE  IF Owes(s, c)'
             THEN wcases[s][c] # None /\ wcases[s][c].state = locals.body.to
             ELSE Shows(waudit[s], c, wcases[s][c])
  <2>1. /\ Owes(s, c)' <=> Owes(s, c)
        /\ Owes(s, c)' => call[s].body = locals.body
    BY <1>1, <1>4 DEF Owes, Logging
  <2>2. pc[s] # "failed"
    BY <1>4 DEF Logging
  <2> QED
    BY <1>3, <2>1, <2>2 DEF SessionReplays
<1>5. SessionReplays(s)'
  <2>1. \A n \in DOMAIN waudit'[s] : Ledger!RecordedChange(waudit'[s][n].body)
    BY <1>1, <1>3 DEF SessionReplays
  <2>2. pc'[s] # "failed" => \A c \in Case :
            IF Owes(s, c)'
            THEN wcases'[s][c] # None /\ wcases'[s][c].state = call'[s].body.to
            ELSE Shows(waudit'[s], c, wcases'[s][c])
    BY <1>1, <1>4
  <2>3. /\ pc'[s] \in Writing =>
            /\ call'[s].body.case_id = call'[s].case
            /\ call'[s].body.to = call'[s].row.state
        /\ pc'[s] \in Writing \cup Logging => Ledger!RecordedChange(call'[s].body)
    BY <1>1
  <2> QED
    BY <2>1, <2>2, <2>3 DEF SessionReplays, Shows, Changes, Writing, Logging,
       Ledger!RecordedChange
<1> QED
  BY <1>1, <1>2, <1>5 DEF ReplayInv, Shows, Changes, Ledger!RecordedChange

LEMMA RequestReplays ==
    ASSUME CallersAreDisciplined, ReplayInv, ChainInv', NEW s \in Session, Request(s)
    PROVE  ReplayInv'
<1>0. /\ UNCHANGED <<cases, audit, wcases, waudit>>
      /\ pc[s] = "idle" /\ pc[s] \notin Logging \cup {"failed"}
      /\ TypeOK
  BY DEF Request, OpenCase, Transition, AppendNote, Enqueue, Calling,
         committed, overlay, Logging, ReplayInv, ChainInv
<1>1. ASSUME Return(s) PROVE ReplayInv'
  BY <1>0, <1>1, GotoReplays DEF Return, Writing, Logging
<1>2. ASSUME NEW c \in Case, OpenCase(s, c) PROVE ReplayInv'
  <2> DEFINE locals == [NoCall EXCEPT
                    !.case = c,
                    !.row = NewCase(c),
                    !.body = [case_id |-> c, from |-> None, to |-> "detected"]]
  <2>1. Return(s) \/ Goto(s, "insert_case", locals)
    BY <1>2 DEF OpenCase
  <2>2. /\ locals.body.case_id = locals.case
        /\ locals.body.to = locals.row.state
        /\ Ledger!RecordedChange(locals.body)
    BY DEF NoCall, NewCase, Ledger!RecordedChange
  <2>3. CASE Goto(s, "insert_case", locals)
    <3> HIDE DEF locals
    <3> QED
      BY <1>0, <2>2, <2>3, GotoReplays DEF Writing, Logging
  <2> QED
    BY <1>1, <2>1, <2>3
<1>3. ASSUME NEW c \in Case, NEW to \in RequestedState, NEW update \in FieldUpdates,
             Transition(s, c, to, update)
      PROVE  ReplayInv'
  <2> DEFINE current == CaseView(s)[c]
             row == Rebuild(current, to, update)
             locals == [NoCall EXCEPT !.case = c, !.row = row,
                    !.body = [case_id |-> c, from |-> current.state, to |-> to]]
  <2>1. \/ Return(s)
        \/ /\ Goto(s, "update_case", locals) /\ current # None
           /\ IsTransitionAllowed(current.state, to)
    BY <1>3 DEF Transition, Accepts
  <2>2. CASE /\ Goto(s, "update_case", locals) /\ current # None
             /\ IsTransitionAllowed(current.state, to)
    <3>1. current.state \in CaseState
      BY <1>0, <2>2, ViewTypes DEF RiskCase
    <3>2. /\ locals.body.case_id = locals.case
          /\ locals.body.to = locals.row.state
          /\ locals.body.from = current.state /\ locals.body.to = to
      BY DEF NoCall, Rebuild, Updated, CallersAreDisciplined
    <3>3. Ledger!RecordedChange(locals.body)
      <4> HIDE DEF locals, current
      <4> QED
        BY <2>2, <3>1, <3>2, SameTable DEF Ledger!RecordedChange, Ledger!CaseState, CaseState
    <3> HIDE DEF locals
    <3> QED
      BY <1>0, <2>2, <3>2, <3>3, GotoReplays DEF Writing, Logging
  <2> QED
    BY <1>1, <2>1, <2>2
<1>4. ASSUME NEW c \in Case, AppendNote(s, c) PROVE ReplayInv'
  <2> DEFINE locals == [NoCall EXCEPT
                    !.body = [case_id |-> c, from |-> None, to |-> None]]
  <2>1. Goto(s, "read_tail", locals)
    BY <1>4 DEF AppendNote
  <2>2. locals.body.to = None /\ Ledger!RecordedChange(locals.body)
    BY DEF NoCall, Ledger!RecordedChange
  <2> HIDE DEF locals
  <2> QED
    BY <1>0, <2>1, <2>2, GotoReplays DEF Writing, Logging
<1>5. ASSUME NEW e \in Envelope, Enqueue(s, e) PROVE ReplayInv'
  <2>1. \/ Return(s)
        \/ Goto(s, "read_clash", [NoCall EXCEPT !.env = e])
        \/ Goto(s, "insert_outbox", [NoCall EXCEPT !.env = e])
    BY <1>5 DEF Enqueue
  <2>2. ASSUME NEW place \in {"read_clash", "insert_outbox"}, NEW locals,
               Goto(s, place, locals)
        PROVE  ReplayInv'
    BY <1>0, <2>2, GotoReplays DEF Writing, Logging
  <2> QED
    BY <1>1, <2>1, <2>2
<1> QED
  BY <1>2, <1>3, <1>4, <1>5 DEF Request

\* The row is written, and owes its audit row.
LEMMA CaseWriteReplays ==
    ASSUME ReplayInv, ChainInv', NEW s \in Session, pc[s] \in Writing,
           wcases' = [wcases EXCEPT ![s][call[s].case] = call[s].row],
           Goto(s, "read_tail", call[s]), UNCHANGED <<committed, waudit>>
    PROVE  ReplayInv'
<1>1. /\ \A t \in Session \ {s} : /\ pc'[t] = pc[t] /\ call'[t] = call[t]
                                   /\ wcases'[t] = wcases[t]
      /\ pc'[s] = "read_tail" /\ call'[s] = call[s]
      /\ waudit' = waudit /\ audit' = audit /\ cases' = cases
  BY DEF Goto, ReplayInv, ChainInv, TypeOK, committed
<1>2. \A t \in Session \ {s} : SessionReplays(t)'
  BY <1>1, OtherReplays DEF ReplayInv
<1>3. /\ SessionReplays(s)
      /\ call[s].case \in Case /\ call[s].row \in RiskCase
      /\ wcases \in [Session -> [Case -> RiskCase \cup {None}]]
  BY DEF ReplayInv, ChainInv, TypeOK, LocalsOK, Writing
<1>4. /\ call[s].body.case_id = call[s].case
      /\ call[s].body.to = call[s].row.state
      /\ Ledger!RecordedChange(call[s].body)
      /\ pc[s] \notin Logging \cup {"failed"}
  BY <1>3 DEF SessionReplays, Writing, Logging
<1>5. call[s].row # None /\ call[s].body.to # None
  BY <1>3, <1>4, NoneAssumption DEF RiskCase
<1>6. \A c \in Case : wcases'[s][c] = IF c = call[s].case THEN call[s].row
                                                          ELSE wcases[s][c]
  BY <1>3
<1>7. ASSUME NEW c \in Case
      PROVE  IF Owes(s, c)'
             THEN wcases'[s][c] # None /\ wcases'[s][c].state = call[s].body.to
             ELSE Shows(waudit[s], c, wcases'[s][c])
  <2>1. Owes(s, c)' <=> c = call[s].case
    BY <1>1, <1>4, <1>5 DEF Owes
  <2>2. CASE c = call[s].case
    BY <1>4, <1>5, <1>6, <2>1, <2>2
  <2>3. CASE c # call[s].case
    BY <1>3, <1>4, <1>6, <2>1, <2>3 DEF SessionReplays, Owes, Logging
  <2> QED
    BY <2>2, <2>3
<1>8. SessionReplays(s)'
  <2>1. \A n \in DOMAIN waudit'[s] : Ledger!RecordedChange(waudit'[s][n].body)
    BY <1>1, <1>3 DEF SessionReplays
  <2>2. \A c \in Case :
            IF Owes(s, c)'
            THEN wcases'[s][c] # None /\ wcases'[s][c].state = call'[s].body.to
            ELSE Shows(waudit'[s], c, wcases'[s][c])
    BY <1>1, <1>7
  <2>3. pc'[s] \notin Writing /\ Ledger!RecordedChange(call'[s].body)
    BY <1>1, <1>4 DEF Writing
  <2> QED
    BY <2>1, <2>2, <2>3 DEF SessionReplays, Shows, Changes, Writing,
       Ledger!RecordedChange
<1> QED
  BY <1>1, <1>2, <1>8 DEF ReplayInv, Shows, Changes, Ledger!RecordedChange

\* One row at the end of a log, and one log at the end of another.
IsExtension(log, longer, n) ==
    /\ n \in Nat /\ DOMAIN longer = DOMAIN log \cup {n}
    /\ \A k \in DOMAIN log : k \in Nat /\ k < n /\ longer[k] = log[k]
IsConcatenation(log, end, longer) ==
    /\ DOMAIN longer = DOMAIN log \cup DOMAIN end
    /\ \A k \in DOMAIN log : longer[k] = log[k]
    /\ \A k \in DOMAIN end : longer[k] = end[k]
    /\ \A k \in DOMAIN log, m \in DOMAIN end : k \in Nat /\ m \in Nat /\ k < m

\* A row at the end of a log is the last change of its case, if it is one,
\* and changes nothing else.
LEMMA ExtendShows ==
    ASSUME NEW log, NEW longer, NEW n, NEW c, NEW row, IsExtension(log, longer, n)
    PROVE  /\ longer[n].body.case_id # c \/ longer[n].body.to = None =>
                (Shows(log, c, row) => Shows(longer, c, row))
           /\ /\ longer[n].body.case_id = c /\ longer[n].body.to # None
              /\ row # None /\ row.state = longer[n].body.to
              => Shows(longer, c, row)
<1>1. ASSUME longer[n].body.case_id # c \/ longer[n].body.to = None
      PROVE  Changes(longer, c) = Changes(log, c)
  BY <1>1 DEF Changes, IsExtension
<1>2. \A k \in Changes(log, c) : longer[k] = log[k]
  BY DEF Changes, IsExtension
<1>3. ASSUME longer[n].body.case_id = c, longer[n].body.to # None
      PROVE  n \in Changes(longer, c) /\ \A k \in Changes(longer, c) : k <= n
  BY <1>3 DEF Changes, IsExtension
<1> QED
  BY <1>1, <1>2, <1>3 DEF Shows

\* The end of a log decides, for the cases it changes.
LEMMA ConcatShows ==
    ASSUME NEW log, NEW end, NEW longer, NEW c, NEW row,
           IsConcatenation(log, end, longer)
    PROVE  /\ Changes(end, c) = {} => (Shows(log, c, row) => Shows(longer, c, row))
           /\ row # None => (Shows(end, c, row) => Shows(longer, c, row))
<1>1. Changes(longer, c) = Changes(log, c) \cup Changes(end, c)
  BY DEF Changes, IsConcatenation
<1>2. /\ \A k \in Changes(log, c) : longer[k] = log[k]
      /\ \A k \in Changes(end, c) : longer[k] = end[k]
      /\ \A k \in Changes(log, c), m \in Changes(end, c) : k <= m
  BY DEF Changes, IsConcatenation
<1> QED
  BY <1>1, <1>2 DEF Shows

LEMMA InsertAuditReplays ==
    ASSUME ReplayInv, ChainInv', NEW s \in Session, InsertAudit(s), Return(s)
    PROVE  ReplayInv'
<1> DEFINE n == call[s].sequence
           body == call[s].body
           row == [prev_hash |-> call[s].prev_hash, body |-> body]
<1>1. CASE ~AuditClash(s)
  <2>1. /\ pc[s] = "insert_audit"
        /\ n \notin DOMAIN AuditView(s)
        /\ waudit'[s] = [k \in DOMAIN waudit[s] \cup {n} |->
                            IF k = n THEN row ELSE waudit[s][k]]
        /\ \A t \in Session \ {s} : /\ pc'[t] = pc[t] /\ call'[t] = call[t]
                                     /\ waudit'[t] = waudit[t]
        /\ pc'[s] = "idle"
        /\ wcases' = wcases /\ audit' = audit /\ cases' = cases
    BY <1>1 DEF InsertAudit, AuditClash, DatabaseError, Return, Goto, committed,
       ReplayInv, ChainInv, TypeOK
  <2>2. \A t \in Session \ {s} : SessionReplays(t)'
    BY <2>1, OtherReplays DEF ReplayInv
  <2>3. n \in Nat /\ \A k \in DOMAIN waudit[s] : k \in Nat /\ k < n
    <3> DEFINE m == NextSequence(AuditView(s))
    <3>1. m \in Nat /\ DOMAIN AuditView(s) = 0..(m - 1) /\ n \in 0..m
      BY <2>1 DEF ReplayInv, ChainInv, SessionChain, Linked
    <3>2. DOMAIN waudit[s] \subseteq DOMAIN AuditView(s)
      BY OwnView DEF ReplayInv, ChainInv
    <3> HIDE DEF m, n
    <3>3. n = m
      BY <2>1, <3>1
    <3> QED
      BY <3>1, <3>2, <3>3
  <2>4. /\ DOMAIN waudit'[s] = DOMAIN waudit[s] \cup {n}
        /\ \A k \in DOMAIN waudit[s] : waudit'[s][k] = waudit[s][k]
        /\ waudit'[s][n].body = body
    BY <2>1, <2>3
  <2>5. /\ SessionReplays(s)
        /\ \A c : Owes(s, c) <=> body.case_id = c /\ body.to # None
        /\ Ledger!RecordedChange(body)
    BY <2>1 DEF ReplayInv, SessionReplays, Owes
  <2>6. \A c \in Case : Shows(waudit'[s], c, wcases[s][c])
    <3> SUFFICES ASSUME NEW c \in Case PROVE Shows(waudit'[s], c, wcases[s][c])
      OBVIOUS
    <3>1. IF Owes(s, c) THEN wcases[s][c] # None /\ wcases[s][c].state = body.to
          ELSE Shows(waudit[s], c, wcases[s][c])
      BY <2>1, <2>5 DEF SessionReplays
    <3> DEFINE log == waudit[s]
               longer == waudit'[s]
               written == wcases[s][c]
    <3>2. /\ longer[n].body.case_id # c \/ longer[n].body.to = None =>
                (Shows(log, c, written) => Shows(longer, c, written))
          /\ /\ longer[n].body.case_id = c /\ longer[n].body.to # None
             /\ written # None /\ written.state = longer[n].body.to
             => Shows(longer, c, written)
      <4>1. IsExtension(log, longer, n)
        BY <2>3, <2>4 DEF IsExtension
      <4> HIDE DEF log, longer, written, n
      <4> QED
        BY <4>1, ExtendShows
    <3> HIDE DEF n, body, longer
    <3>3. longer[n].body = body
      BY <2>4 DEF longer
    <3> QED
      BY <2>5, <3>1, <3>2, <3>3 DEF longer
  <2>7. SessionReplays(s)'
    <3>1. \A k \in DOMAIN waudit'[s] : Ledger!RecordedChange(waudit'[s][k].body)
      BY <2>4, <2>5 DEF SessionReplays
    <3> QED
      BY <2>1, <2>6, <3>1 DEF SessionReplays, Owes, Shows, Changes,
         Ledger!RecordedChange
  <2> QED
    BY <2>1, <2>2, <2>7 DEF ReplayInv, Shows, Changes, Ledger!RecordedChange
<1>2. CASE AuditClash(s)
  <2>1. DatabaseError(s)
    BY <1>2 DEF InsertAudit
  <2> QED
    BY <2>1 DEF DatabaseError, Return, Goto, ReplayInv, ChainInv, TypeOK
<1> QED
  BY <1>1, <1>2

LEMMA StatementReplays ==
    ASSUME CallersAreDisciplined, ReplayInv, ChainInv', NEW s \in Session, Statement(s)
    PROVE  ReplayInv'
<1>1. ASSUME DatabaseError(s), UNCHANGED <<cases, audit, wcases, waudit>>
      PROVE  ReplayInv'
  BY <1>1, GotoReplays DEF DatabaseError, Writing, Logging
<1>2. CASE InsertCase(s) \/ UpdateCase(s)
  BY <1>1, <1>2, CaseWriteReplays DEF InsertCase, UpdateCase, committed, Writing
<1>3. CASE ReadTail(s)
  <2> DEFINE locals == [NoCall EXCEPT !.body = call[s].body,
                           !.sequence = NextSequence(AuditView(s)),
                           !.prev_hash = TailHash(AuditView(s))]
  <2>1. /\ Goto(s, "insert_audit", locals) \/ RaisedAfterWrite(s)
        /\ pc[s] = "read_tail"
        /\ UNCHANGED <<cases, audit, wcases, waudit>>
        /\ locals.body = call[s].body
    BY <1>3 DEF ReadTail, committed, overlay, NoCall
  <2>2. Ledger!RecordedChange(call[s].body)
    BY <2>1 DEF ReplayInv, SessionReplays
  <2> HIDE DEF locals
  <2>3. CASE Goto(s, "insert_audit", locals)
    BY <2>1, <2>2, <2>3, GotoReplays DEF Writing, Logging
  <2> QED
    BY <1>1, <2>1, <2>3, RaisingIsFailing
<1>4. CASE InsertAudit(s)
  BY <1>1, <1>4, InsertAuditReplays DEF InsertAudit, committed
<1>5. CASE ReadClash(s) \/ InsertOutbox(s)
  <2>1. /\ UNCHANGED <<cases, audit, wcases, waudit>>
        /\ pc[s] \in {"read_clash", "insert_outbox"}
        /\ Return(s) \/ DatabaseError(s) \/ Goto(s, "insert_outbox", call[s])
    BY <1>5 DEF ReadClash, InsertOutbox, committed, overlay
  <2> QED
    BY <1>1, <2>1, GotoReplays DEF Return, Writing, Logging
<1> QED
  BY <1>2, <1>3, <1>4, <1>5 DEF Statement

\* A session's rows follow the committed ones.
LEMMA ViewIsConcatenation ==
    ASSUME ChainInv, NEW s \in Session
    PROVE  IsConcatenation(audit, waudit[s], AuditView(s))
<1> DEFINE a == NextSequence(audit)
           v == NextSequence(AuditView(s))
           own == DOMAIN waudit[s]
<1>1. /\ a \in Nat /\ DOMAIN audit = 0..(a - 1)
      /\ v \in Nat /\ DOMAIN AuditView(s) = 0..(v - 1)
      /\ own \cap DOMAIN audit = {}
      /\ DOMAIN AuditView(s) = DOMAIN audit \cup own
  BY OwnView DEF ChainInv, SessionChain, Linked
<1>2. /\ \A k \in DOMAIN audit : AuditView(s)[k] = audit[k]
      /\ \A k \in own : AuditView(s)[k] = waudit[s][k]
  BY <1>1 DEF AuditView
<1> HIDE DEF a, v, own
<1>3. \A k \in DOMAIN audit, m \in own : k \in Nat /\ m \in Nat /\ k < m
  BY <1>1
<1> QED
  BY <1>1, <1>2, <1>3 DEF IsConcatenation, own

\* What a session reads of a case is what it reads of the log, unless it owes
\* the log a row or has failed.
LEMMA ViewShows ==
    ASSUME ReplayInv, NEW s \in Session, NEW c \in Case,
           pc[s] # "failed", ~Owes(s, c)
    PROVE  Shows(AuditView(s), c, CaseView(s)[c])
<1>1. /\ Shows(waudit[s], c, wcases[s][c])
      /\ Shows(audit, c, cases[c])
  BY DEF ReplayInv, SessionReplays
<1>2. IsConcatenation(audit, waudit[s], AuditView(s))
  BY ViewIsConcatenation DEF ReplayInv
<1>3. CASE wcases[s][c] = None
  <2>1. Changes(waudit[s], c) = {} /\ CaseView(s)[c] = cases[c]
    BY <1>1, <1>3 DEF Shows, CaseView
  <2> QED
    BY <1>1, <1>2, <2>1, ConcatShows
<1>4. CASE wcases[s][c] # None
  <2>1. CaseView(s)[c] = wcases[s][c]
    BY <1>4 DEF CaseView
  <2> QED
    BY <1>1, <1>2, <1>4, <2>1, ConcatShows
<1> QED
  BY <1>3, <1>4

LEMMA DiscardReplays ==
    ASSUME ReplayInv, ChainInv', NEW s \in Session, Discard(s),
           \A n \in DOMAIN audit' : Ledger!RecordedChange(audit'[n].body),
           \A c \in Case : Shows(audit', c, cases'[c])
    PROVE  ReplayInv'
<1>1. /\ \A t \in Session \ {s} : /\ pc'[t] = pc[t] /\ call'[t] = call[t]
                                   /\ wcases'[t] = wcases[t] /\ waudit'[t] = waudit[t]
      /\ pc'[s] = "out" /\ wcases'[s] = [c \in Case |-> None]
      /\ DOMAIN waudit'[s] = {}
  BY DEF Discard, Goto, EmptyLog, ReplayInv, ChainInv, TypeOK
<1>2. \A t \in Session \ {s} : SessionReplays(t)'
  BY <1>1, OtherReplays DEF ReplayInv
<1>3. SessionReplays(s)'
  BY <1>1 DEF SessionReplays, Owes, Shows, Changes
<1> QED
  BY <1>2, <1>3 DEF ReplayInv, Shows, Changes, Ledger!RecordedChange

LEMMA CommittedRows ==
    ASSUME ReplayInv, NEW s \in Session, NEW n \in DOMAIN AuditView(s)
    PROVE  Ledger!RecordedChange(AuditView(s)[n].body)
<1>1. CASE n \in DOMAIN waudit[s]
  <2>1. AuditView(s)[n] = waudit[s][n]
    BY <1>1 DEF AuditView
  <2> QED
    BY <1>1, <2>1 DEF ReplayInv, SessionReplays
<1>2. CASE n \notin DOMAIN waudit[s]
  <2>1. n \in DOMAIN audit /\ AuditView(s)[n] = audit[n]
    BY <1>2 DEF AuditView
  <2> QED
    BY <2>1 DEF ReplayInv
<1> QED
  BY <1>1, <1>2

LEMMA InitReplays == Init => ReplayInv
<1> SUFFICES ASSUME Init PROVE ReplayInv
  OBVIOUS
<1>1. ChainInv
  BY InitChain
<1>2. DOMAIN audit = {} /\ \A s \in Session : DOMAIN waudit[s] = {}
  BY DEF Init, EmptyLog
<1> QED
  BY <1>1, <1>2 DEF Init, ReplayInv, SessionReplays, Owes, Shows, Changes

LEMMA StepReplays ==
    ASSUME CallersAreDisciplined, ReplayInv, [Next]_vars
    PROVE  ReplayInv'
<1>0. ChainInv'
  BY StepChain DEF ReplayInv
<1>1. CASE UNCHANGED vars
  <2>1. UNCHANGED <<cases, audit, wcases, waudit, pc, call>>
    BY <1>1 DEF vars, committed, overlay
  <2>2. \A t \in Session : SessionReplays(t)'
    BY <2>1, OtherReplays DEF ReplayInv
  <2> QED
    BY <1>0, <2>1, <2>2 DEF ReplayInv, Shows, Changes, Ledger!RecordedChange
<1>2. ASSUME NEW s \in Session, Begin(s) \/ DeadlockVictim(s) PROVE ReplayInv'
  BY <1>0, <1>2, GotoReplays
  DEF Begin, DeadlockVictim, DatabaseError, committed, overlay, Writing, Logging
<1>3. ASSUME NEW s \in Session, Commit(s) PROVE ReplayInv'
  <2>1. /\ Discard(s) /\ audit' = AuditView(s) /\ cases' = CaseView(s)
        /\ pc[s] = "idle"
    BY <1>3 DEF Commit
  <2>2. \A c \in Case : ~Owes(s, c)
    BY <2>1 DEF Owes
  <2> QED
    BY <1>0, <2>1, <2>2, DiscardReplays, CommittedRows, ViewShows
<1>4. ASSUME NEW s \in Session, RollBack(s) \/ Crash(s) PROVE ReplayInv'
  BY <1>0, <1>4, DiscardReplays DEF RollBack, Crash, committed, ReplayInv
<1> QED
  BY <1>0, <1>1, <1>2, <1>3, <1>4, RequestReplays, StatementReplays DEF Next

-----------------------------------------------------------------------------

StatesOf(rows) == [c \in Case |-> IF rows[c] = None THEN None ELSE rows[c].state]
BodiesOf(log) == [n \in DOMAIN log |-> log[n].body]

\* The abstract replay of a log, in the terms of the invariant.
LEMMA ShowsReplays ==
    ASSUME NEW rows, NEW log, \A c \in Case : Shows(log, c, rows[c])
    PROVE  Ledger!Replays(StatesOf(rows), BodiesOf(log))
<1> SUFFICES ASSUME NEW c \in Case
             PROVE  \/ Ledger!ChangesOf(BodiesOf(log), c) = {} /\ StatesOf(rows)[c] = None
                    \/ \E n \in DOMAIN BodiesOf(log) :
                            /\ Ledger!IsLastChange(BodiesOf(log), c, n)
                            /\ StatesOf(rows)[c] = BodiesOf(log)[n].to
  BY DEF Ledger!Replays
<1>1. Ledger!ChangesOf(BodiesOf(log), c) = Changes(log, c)
  BY DEF Ledger!ChangesOf, Changes, BodiesOf
<1>2. Shows(log, c, rows[c])
  OBVIOUS
<1>3. CASE rows[c] = None
  BY <1>1, <1>2, <1>3 DEF Shows, StatesOf
<1>4. CASE rows[c] # None
  <2>1. PICK n \in Changes(log, c) : /\ \A k \in Changes(log, c) : k <= n
                                       /\ log[n].body.to = rows[c].state
    BY <1>2, <1>4 DEF Shows
  <2>2. n \in DOMAIN BodiesOf(log) /\ BodiesOf(log)[n].to = rows[c].state
    BY <2>1 DEF Changes, BodiesOf
  <2>3. Ledger!IsLastChange(BodiesOf(log), c, n)
    BY <1>1, <2>1 DEF Ledger!IsLastChange
  <2> QED
    BY <1>4, <2>2, <2>3 DEF StatesOf
<1> QED
  BY <1>3, <1>4

LEMMA CommitAppends ==
    ASSUME ReplayInv, ReplayInv', NEW s \in Session, Commit(s)
    PROVE  Ledger!Append
<1>1. audit' = AuditView(s)
  BY DEF Commit
<1>2. \A n \in DOMAIN BodiesOf(audit)' : 0..n \subseteq DOMAIN BodiesOf(audit)'
  BY DEF ReplayInv, ChainInv, Linked, BodiesOf
<1>3. \A n \in DOMAIN BodiesOf(audit) :
            n \in DOMAIN BodiesOf(audit)' /\ BodiesOf(audit)'[n] = BodiesOf(audit)[n]
  BY <1>1, ViewIsConcatenation DEF ReplayInv, IsConcatenation, BodiesOf
<1>4. \A n \in DOMAIN BodiesOf(audit)' : Ledger!RecordedChange(BodiesOf(audit)'[n])
  BY <1>1, CommittedRows DEF BodiesOf
<1>5. Ledger!Replays(StatesOf(cases)', BodiesOf(audit)')
  <2>1. \A c \in Case : Shows(audit', c, cases'[c])
    BY DEF ReplayInv, Shows, Changes
  <2>2. Ledger!Replays(StatesOf(cases'), BodiesOf(audit'))
    BY <2>1, ShowsReplays
  <2> QED
    BY <2>2
<1> QED
  BY <1>2, <1>3, <1>4, <1>5 DEF Ledger!Append, StatesOf, BodiesOf

\* Only a commit changes what is committed.
LEMMA OthersKeepCommitted ==
    ASSUME [Next]_vars, ~\E s \in Session : Commit(s)
    PROVE  UNCHANGED committed
<1>1. CASE UNCHANGED vars
  BY <1>1 DEF vars
<1>2. ASSUME NEW s \in Session, Statement(s) PROVE UNCHANGED committed
  BY <1>2 DEF Statement, InsertCase, UpdateCase, ReadTail, InsertAudit,
              ReadClash, InsertOutbox
<1>3. ASSUME NEW s \in Session, Request(s) PROVE UNCHANGED committed
  BY <1>3 DEF Request, OpenCase, Transition, AppendNote, Enqueue, Calling
<1> QED
  BY <1>1, <1>2, <1>3 DEF Next, Begin, RollBack, Crash, DeadlockVictim

\* Nothing that was logged is ever lost or rewritten, and the committed
\* cases are what replaying the log gives: no path through the sessions of
\* disciplined callers commits a state change without the row that explains
\* it, also when append raises after the change was written.  The assumption
\* is what the code leaves to its callers: without it this is false.
THEOREM ReplaysAuditAlways ==
    ASSUME CallersAreDisciplined
    PROVE  Spec => ReplaysAudit
<1>0. ReplayInv /\ [Next]_vars => ReplayInv'
  BY StepReplays
<1>1. Init => Ledger!Init
  BY DEF Init, Ledger!Init, EmptyLog
<1>2. ReplayInv /\ ReplayInv' /\ [Next]_vars
        => [Ledger!Append]_<<StatesOf(cases), BodiesOf(audit)>>
  <2> SUFFICES ASSUME ReplayInv, ReplayInv', [Next]_vars
               PROVE  Ledger!Append \/ UNCHANGED <<StatesOf(cases), BodiesOf(audit)>>
    OBVIOUS
  <2>1. CASE \E s \in Session : Commit(s)
    BY <2>1, CommitAppends
  <2>2. CASE ~\E s \in Session : Commit(s)
    BY <2>2, OthersKeepCommitted DEF committed, StatesOf, BodiesOf
  <2> QED
    BY <2>1, <2>2
<1> QED
  BY <1>0, <1>1, <1>2, InitReplays, PTL
  DEF Spec, ReplaysAudit, Ledger!Spec, StatesOf, BodiesOf

-----------------------------------------------------------------------------
(***************************************************************************)
(* One session.                                                            *)
(***************************************************************************)

OneSession == \A s, t \in Session : s = t

IsFinal(row) == row # None /\ ~LiveRow(row)

\* No transition leaves a final row, so nothing is written over one.
FinalInv ==
    /\ TypeOK
    /\ \A s \in Session, c \in Case :
        IsFinal(cases[c]) =>
            /\ wcases[s][c] = None
            /\ ~(pc[s] = "update_case" /\ call[s].case = c)

LEMMA NoEdgeFromFinal ==
    ASSUME NEW row \in RiskCase, IsFinal(row), NEW to
    PROVE  ~IsTransitionAllowed(row.state, to)
BY DEF IsFinal, LiveRow, RiskCase, IsTransitionAllowed, AllowedCaseTransitions,
       TerminalCaseStates, CaseState

LEMMA StepFinal ==
    ASSUME OneSession, FinalInv, [Next]_vars
    PROVE  FinalInv'
<1>0. TypeOK'
  BY StepType DEF FinalInv
<1>1. CASE UNCHANGED vars
  BY <1>0, <1>1 DEF vars, committed, overlay, FinalInv, IsFinal, LiveRow
<1>2. ASSUME NEW s \in Session, NEW place, NEW locals, Goto(s, place, locals),
             UNCHANGED <<cases, wcases>>,
             place = "update_case" => ~IsFinal(cases[locals.case])
      PROVE  FinalInv'
  <2>1. /\ pc'[s] = place /\ call'[s] = locals
        /\ \A t \in Session \ {s} : pc'[t] = pc[t] /\ call'[t] = call[t]
    BY <1>2 DEF Goto, FinalInv, TypeOK
  <2> QED
    BY <1>0, <1>2, <2>1 DEF FinalInv, IsFinal, LiveRow
<1>3. ASSUME NEW s \in Session, Request(s) PROVE FinalInv'
  <2>1. UNCHANGED <<cases, wcases>>
    BY <1>3 DEF Request, OpenCase, Transition, AppendNote, Enqueue, Calling,
       committed, overlay
  <2>2. ASSUME NEW c \in Case, NEW to \in RequestedState, NEW update \in FieldUpdates,
               Transition(s, c, to, update)
        PROVE  FinalInv'
    <3> DEFINE current == CaseView(s)[c]
               locals == [NoCall EXCEPT !.case = c,
                            !.row = Rebuild(current, to, update),
                            !.body = [case_id |-> c, from |-> current.state, to |-> to]]
    <3>1. \/ Return(s)
          \/ /\ Goto(s, "update_case", locals)
             /\ current # None /\ IsTransitionAllowed(current.state, to)
      BY <2>2 DEF Transition, Accepts
    <3>2. locals.case = c
      BY DEF NoCall
    <3>3. CASE current # None /\ IsTransitionAllowed(current.state, to)
      <4>1. current \in RiskCase
        BY <3>3, ViewTypes DEF FinalInv
      <4>2. ~IsFinal(current)
        BY <3>3, <4>1, NoEdgeFromFinal
      <4>3. ~IsFinal(cases[c])
        BY <4>2 DEF FinalInv, CaseView
      <4> QED
        BY <1>2, <2>1, <3>1, <3>2, <4>3 DEF Return
    <3> QED
      BY <1>2, <2>1, <3>1, <3>3 DEF Return
  <2>3. ASSUME NEW c \in Case, OpenCase(s, c) \/ AppendNote(s, c) PROVE FinalInv'
    BY <1>2, <2>1, <2>3 DEF OpenCase, AppendNote, Return
  <2>4. ASSUME NEW e \in Envelope, Enqueue(s, e) PROVE FinalInv'
    <3>1. \/ Return(s)
          \/ Goto(s, "read_clash", [NoCall EXCEPT !.env = e])
          \/ Goto(s, "insert_outbox", [NoCall EXCEPT !.env = e])
      BY <2>4 DEF Enqueue
    <3> QED
      BY <1>2, <2>1, <3>1 DEF Return
  <2> QED
    BY <1>3, <2>2, <2>3, <2>4 DEF Request
<1>4. ASSUME NEW s \in Session, InsertCase(s) \/ UpdateCase(s) PROVE FinalInv'
  <2>1. CASE DatabaseError(s) /\ UNCHANGED wcases
    BY <1>2, <1>4, <2>1 DEF DatabaseError, InsertCase, UpdateCase, committed
  <2>2. CASE /\ wcases' = [wcases EXCEPT ![s][call[s].case] = call[s].row]
             /\ Goto(s, "read_tail", call[s])
             /\ UpdateCase(s) \/ ~CaseClash(s, call[s].case)
    <3>1. ~IsFinal(cases[call[s].case])
      BY <1>4, <2>2 DEF FinalInv, InsertCase, UpdateCase, CaseClash, CaseView,
         IsFinal, TypeOK, LocalsOK
    <3>2. \A t \in Session, c \in Case :
            c # call[s].case => wcases'[t][c] = wcases[t][c]
      BY <2>2 DEF FinalInv, TypeOK
    <3>3. \A t \in Session : t = s
      BY DEF OneSession
    <3>4. pc'[s] = "read_tail" /\ cases' = cases
      BY <1>4, <2>2 DEF Goto, FinalInv, TypeOK, InsertCase, UpdateCase, committed
    <3> QED
      BY <1>0, <3>1, <3>2, <3>3, <3>4 DEF FinalInv, IsFinal, LiveRow
  <2> QED
    BY <1>4, <2>1, <2>2 DEF InsertCase, UpdateCase
<1>5. ASSUME NEW s \in Session,
             ReadTail(s) \/ InsertAudit(s) \/ ReadClash(s) \/ InsertOutbox(s)
      PROVE  FinalInv'
  BY <1>2, <1>5 DEF ReadTail, RaisedAfterWrite, InsertAudit, ReadClash,
     InsertOutbox, Return, DatabaseError, committed, overlay
<1>6. ASSUME NEW s \in Session, Begin(s) \/ DeadlockVictim(s) PROVE FinalInv'
  BY <1>2, <1>6 DEF Begin, DeadlockVictim, DatabaseError, committed, overlay
<1>7. ASSUME NEW s \in Session, Discard(s) PROVE FinalInv'
  <2>1. wcases'[s] = [c \in Case |-> None] /\ pc'[s] = "out"
    BY <1>7 DEF Discard, Goto, FinalInv, TypeOK
  <2>2. \A t \in Session : t = s
    BY DEF OneSession
  <2> QED
    BY <1>0, <2>1, <2>2 DEF FinalInv
<1> QED
  BY <1>1, <1>3, <1>4, <1>5, <1>6, <1>7 DEF Next, Statement, Commit, RollBack, Crash

\* With one session at a time a terminal case stays as it is: what the
\* single-writer discipline of transition() buys.
THEOREM TerminalIsFinalAlone ==
    ASSUME OneSession
    PROVE  Spec => TerminalIsFinal
<1>1. Init => FinalInv
  BY InitType DEF Init, FinalInv, IsFinal
<1>2. FinalInv /\ [Next]_vars => FinalInv'
  BY StepFinal
<1>3. FinalInv /\ [Next]_vars =>
        [\A c \in Case :
            cases[c] # None /\ ~LiveRow(cases[c]) => cases'[c] = cases[c]]_vars
  <2> SUFFICES ASSUME FinalInv, [Next]_vars, NEW c \in Case, IsFinal(cases[c])
               PROVE  cases'[c] = cases[c]
    BY DEF IsFinal
  <2>1. CASE \E s \in Session : Commit(s)
    BY <2>1 DEF Commit, CaseView, FinalInv
  <2>2. CASE ~\E s \in Session : Commit(s)
    BY <2>2, OthersKeepCommitted DEF committed
  <2> QED
    BY <2>1, <2>2
<1> QED
  BY <1>1, <1>2, <1>3, PTL DEF Spec, TerminalIsFinal

-----------------------------------------------------------------------------

\* A change that continues a log may be appended to it.
LEMMA ExtendPath ==
    ASSUME NEW log, NEW longer, NEW n, IsExtension(log, longer, n), IsPath(log),
           longer[n].body.to # None =>
                Continues(log, Changes(log, longer[n].body.case_id), longer[n].body)
    PROVE  IsPath(longer)
<1> SUFFICES ASSUME NEW m \in DOMAIN longer, longer[m].body.to # None
             PROVE  Continues(longer, {k \in Changes(longer, longer[m].body.case_id) : k < m},
                              longer[m].body)
  BY DEF IsPath
<1> DEFINE body == longer[m].body
           c == body.case_id
           earlier == {k \in Changes(longer, c) : k < m}
<1>1. \A k \in DOMAIN log : k \in Nat /\ k < n /\ longer[k] = log[k]
  BY DEF IsExtension
<1>2. n \in Nat /\ DOMAIN longer = DOMAIN log \cup {n} /\ n \notin DOMAIN log
  BY <1>1 DEF IsExtension
<1>3. CASE m = n
  <2>1. earlier = Changes(log, c)
    BY <1>1, <1>2, <1>3 DEF Changes
  <2>2. Continues(log, earlier, body)
    BY <1>3, <2>1
  <2>3. \A k \in earlier : longer[k] = log[k]
    BY <1>1, <2>1 DEF Changes
  <2> HIDE DEF earlier, body
  <2>4. Continues(longer, earlier, body)
    BY <2>2, <2>3 DEF Continues
  <2> QED
    BY <2>4 DEF earlier, body
<1>4. CASE m \in DOMAIN log
  <2>1. body = log[m].body /\ body.to # None
    BY <1>1, <1>4
  <2>2. earlier = {k \in Changes(log, c) : k < m}
    BY <1>1, <1>2, <1>4 DEF Changes
  <2>3. Continues(log, earlier, body)
    BY <1>4, <2>1, <2>2 DEF IsPath
  <2>4. \A k \in earlier : longer[k] = log[k]
    BY <1>1, <2>2 DEF Changes
  <2> HIDE DEF earlier, body
  <2>5. Continues(longer, earlier, body)
    BY <2>3, <2>4 DEF Continues
  <2> QED
    BY <2>5 DEF earlier, body
<1> QED
  BY <1>2, <1>3, <1>4

\* A step that leaves the logs alone keeps the change that is being made, or
\* starts one that continues the log.
LEMMA GotoPath ==
    ASSUME OneSession, PathInv, ReplayInv', NEW s \in Session,
           NEW place, NEW locals, Goto(s, place, locals),
           UNCHANGED <<audit, waudit>>,
           place = "insert_case" => locals.body.from = None,
           place \in {"update_case", "read_tail", "insert_audit"}
                /\ locals.body.to # None =>
              Continues(AuditView(s), Changes(AuditView(s), locals.body.case_id),
                        locals.body)
    PROVE  PathInv'
<1>1. pc'[s] = place /\ call'[s] = locals
  BY DEF Goto, PathInv, ReplayInv, ChainInv, TypeOK
<1>2. AuditView(s)' = AuditView(s) /\ audit' = audit
  BY DEF AuditView
<1>3. IsPath(audit)' /\ IsPath(AuditView(s))'
  BY <1>2 DEF PathInv, SessionPath, IsPath, Continues, Changes
<1>4. SessionPath(s)'
  BY <1>1, <1>2, <1>3 DEF SessionPath, Continues, Changes
<1>5. \A t \in Session : t = s
  BY DEF OneSession
<1> QED
  BY <1>3, <1>4, <1>5 DEF PathInv

\* A row that says what the last change of the log says can be changed next.
LEMMA RowContinues ==
    ASSUME NEW log, NEW c, NEW row, Shows(log, c, row), NEW body, body.case_id = c,
           body.from = IF row = None THEN None ELSE row.state
    PROVE  Continues(log, Changes(log, body.case_id), body)
BY DEF Shows, Continues

LEMMA RequestPath ==
    ASSUME OneSession, PathInv, ReplayInv', NEW s \in Session, Request(s)
    PROVE  PathInv'
<1>0. /\ UNCHANGED <<audit, waudit>>
      /\ pc[s] = "idle"
      /\ ReplayInv /\ TypeOK
  BY DEF Request, OpenCase, Transition, AppendNote, Enqueue, Calling,
         committed, overlay, PathInv, ReplayInv, ChainInv
<1>1. ASSUME NEW place \in {"idle", "read_clash", "insert_outbox"}, NEW locals,
             Goto(s, place, locals)
      PROVE  PathInv'
  BY <1>0, <1>1, GotoPath
<1>2. ASSUME NEW c \in Case, OpenCase(s, c) PROVE PathInv'
  <2> DEFINE locals == [NoCall EXCEPT
                    !.case = c,
                    !.row = NewCase(c),
                    !.body = [case_id |-> c, from |-> None, to |-> "detected"]]
  <2>1. Return(s) \/ Goto(s, "insert_case", locals)
    BY <1>2 DEF OpenCase
  <2>2. locals.body.from = None
    BY DEF NoCall
  <2> HIDE DEF locals
  <2> QED
    BY <1>0, <1>1, <2>1, <2>2, GotoPath DEF Return
<1>3. ASSUME NEW c \in Case, NEW to \in RequestedState, NEW update \in FieldUpdates,
             Transition(s, c, to, update)
      PROVE  PathInv'
  <2> DEFINE current == CaseView(s)[c]
             body == [case_id |-> c, from |-> current.state, to |-> to]
             locals == [NoCall EXCEPT !.case = c,
                          !.row = Rebuild(current, to, update), !.body = body]
  <2>1. Return(s) \/ (current # None /\ Goto(s, "update_case", locals))
    BY <1>3 DEF Transition, Accepts
  <2>2. CASE current # None /\ Goto(s, "update_case", locals)
    <3>1. Shows(AuditView(s), c, current)
      BY <1>0, ViewShows DEF Owes
    <3>2. locals.body = body /\ body.case_id = c /\ body.from = current.state
      BY DEF NoCall
    <3> HIDE DEF locals, body, current
    <3>3. Continues(AuditView(s), Changes(AuditView(s), body.case_id), body)
      BY <2>2, <3>1, <3>2, RowContinues
    <3> QED
      BY <1>0, <2>2, <3>2, <3>3, GotoPath
  <2> QED
    BY <1>1, <2>1, <2>2 DEF Return
<1>4. ASSUME NEW c \in Case, AppendNote(s, c) PROVE PathInv'
  <2> DEFINE locals == [NoCall EXCEPT
                    !.body = [case_id |-> c, from |-> None, to |-> None]]
  <2>1. Goto(s, "read_tail", locals) /\ locals.body.to = None
    BY <1>4 DEF AppendNote, NoCall
  <2> HIDE DEF locals
  <2> QED
    BY <1>0, <2>1, GotoPath
<1>5. ASSUME NEW e \in Envelope, Enqueue(s, e) PROVE PathInv'
  <2>1. \/ Return(s)
        \/ Goto(s, "read_clash", [NoCall EXCEPT !.env = e])
        \/ Goto(s, "insert_outbox", [NoCall EXCEPT !.env = e])
    BY <1>5 DEF Enqueue
  <2> QED
    BY <1>1, <2>1 DEF Return
<1> QED
  BY <1>2, <1>3, <1>4, <1>5 DEF Request

LEMMA InsertAuditPath ==
    ASSUME OneSession, PathInv, ReplayInv', NEW s \in Session, InsertAudit(s),
           ~AuditClash(s)
    PROVE  PathInv'
<1> DEFINE n == call[s].sequence
           view == AuditView(s)
           row == [prev_hash |-> call[s].prev_hash, body |-> call[s].body]
<1>1. /\ waudit'[s] = [k \in DOMAIN waudit[s] \cup {n} |->
                            IF k = n THEN row ELSE waudit[s][k]]
      /\ pc[s] = "insert_audit" /\ pc'[s] = "idle" /\ audit' = audit
      /\ n \notin DOMAIN view
  BY DEF InsertAudit, AuditClash, DatabaseError, Return, Goto, committed,
     PathInv, ReplayInv, ChainInv, TypeOK
<1>2. IsExtension(view, view', n)
  <2> DEFINE m == NextSequence(view)
  <2>1. m \in Nat /\ DOMAIN view = 0..(m - 1) /\ n \in 0..m
    BY <1>1 DEF PathInv, ReplayInv, ChainInv, SessionChain, Linked
  <2>2. /\ DOMAIN view' = DOMAIN view \cup {n}
        /\ \A k \in DOMAIN view : k # n => view'[k] = view[k]
    BY <1>1 DEF AuditView
  <2> HIDE DEF m, n, view
  <2>3. n = m
    BY <1>1, <2>1
  <2>4. n \in Nat /\ \A k \in DOMAIN view : k \in Nat /\ k < n
    BY <2>1, <2>3
  <2> QED
    BY <1>1, <2>2, <2>4 DEF IsExtension
<1>3. view'[n].body = call[s].body
  BY <1>1 DEF AuditView
<1>4. /\ IsPath(view)
      /\ call[s].body.to # None =>
            Continues(view, Changes(view, call[s].body.case_id), call[s].body)
  BY <1>1 DEF PathInv, SessionPath
<1>5. IsPath(view')
  <2> DEFINE longer == view'
  <2> HIDE DEF view, n, longer
  <2>1. IsExtension(view, longer, n) /\ longer[n].body = call[s].body
    BY <1>2, <1>3 DEF longer
  <2>2. IsPath(longer)
    BY <1>4, <2>1, ExtendPath
  <2> QED
    BY <2>2 DEF longer
<1>6. SessionPath(s)'
  BY <1>1, <1>5 DEF SessionPath, IsPath, Continues, Changes
<1>7. \A t \in Session : t = s
  BY DEF OneSession
<1> QED
  BY <1>1, <1>6, <1>7 DEF PathInv, IsPath, Continues, Changes

LEMMA StatementPath ==
    ASSUME CallersAreDisciplined, OneSession, PathInv, ReplayInv', NEW s \in Session, Statement(s)
    PROVE  PathInv'
<1>0. ReplayInv /\ SessionPath(s)
  BY DEF PathInv
<1>1. ASSUME DatabaseError(s) \/ Return(s), UNCHANGED <<audit, waudit>>
      PROVE  PathInv'
  BY <1>1, GotoPath DEF DatabaseError, Return
<1>2. CASE InsertCase(s)
  <2> DEFINE body == call[s].body
             c == call[s].case
  <2>1. CASE DatabaseError(s)
    BY <1>1, <1>2, <2>1 DEF InsertCase, committed
  <2>2. CASE Goto(s, "read_tail", call[s]) /\ ~CaseClash(s, c)
    <3>1. /\ pc[s] = "insert_case" /\ UNCHANGED <<audit, waudit>>
          /\ CaseView(s)[c] = None /\ c \in Case
      BY <1>0, <1>2, <2>2 DEF InsertCase, CaseClash, committed,
         ReplayInv, ChainInv, TypeOK, LocalsOK
    <3>2. body.case_id = c /\ body.from = None
      BY <1>0, <3>1 DEF SessionPath, ReplayInv, SessionReplays
    <3>3. Shows(AuditView(s), c, None)
      BY <1>0, <3>1, ViewShows DEF Owes
    <3>4. Continues(AuditView(s), Changes(AuditView(s), body.case_id), body)
      BY <3>2, <3>3, RowContinues
    <3> QED
      BY <2>2, <3>1, <3>4, GotoPath
  <2> QED
    BY <1>2, <2>1, <2>2 DEF InsertCase
<1>3. CASE UpdateCase(s)
  <2>1. CASE DatabaseError(s)
    BY <1>1, <1>3, <2>1 DEF UpdateCase, committed
  <2>2. CASE Goto(s, "read_tail", call[s])
    BY <1>0, <1>3, <2>2, GotoPath DEF UpdateCase, SessionPath, committed
  <2> QED
    BY <1>3, <2>1, <2>2 DEF UpdateCase
<1>4. CASE ReadTail(s)
  <2> DEFINE locals == [NoCall EXCEPT !.body = call[s].body,
                           !.sequence = NextSequence(AuditView(s)),
                           !.prev_hash = TailHash(AuditView(s))]
  <2>1. /\ Goto(s, "insert_audit", locals) \/ RaisedAfterWrite(s)
        /\ pc[s] = "read_tail"
        /\ UNCHANGED <<audit, waudit>> /\ locals.body = call[s].body
    BY <1>4 DEF ReadTail, committed, overlay, NoCall
  <2> HIDE DEF locals
  <2>2. CASE Goto(s, "insert_audit", locals)
    BY <1>0, <2>1, <2>2, GotoPath DEF SessionPath
  <2> QED
    BY <1>1, <2>1, <2>2, RaisingIsFailing
<1>5. CASE InsertAudit(s)
  BY <1>1, <1>5, InsertAuditPath DEF InsertAudit, committed
<1>6. CASE ReadClash(s) \/ InsertOutbox(s)
  <2>1. UNCHANGED <<audit, waudit>>
    BY <1>6 DEF ReadClash, InsertOutbox, committed, overlay
  <2>2. Return(s) \/ DatabaseError(s) \/ Goto(s, "insert_outbox", call[s])
    BY <1>6 DEF ReadClash, InsertOutbox
  <2> QED
    BY <1>1, <2>1, <2>2, GotoPath
<1> QED
  BY <1>2, <1>3, <1>4, <1>5, <1>6 DEF Statement

\* The log a session reads after it ended its transaction is the committed one.
LEMMA DiscardPath ==
    ASSUME OneSession, PathInv, ReplayInv', NEW s \in Session, Discard(s),
           IsPath(audit')
    PROVE  PathInv'
<1>1. pc'[s] = "out" /\ DOMAIN waudit'[s] = {}
  BY DEF Discard, Goto, EmptyLog, PathInv, ReplayInv, ChainInv, TypeOK
<1>2. AuditView(s)' = [n \in DOMAIN audit' |-> audit'[n]]
  BY <1>1 DEF AuditView
<1>3. audit' = [n \in DOMAIN audit' |-> audit'[n]]
  BY DEF ReplayInv, ChainInv, TypeOK, LogOK
<1>4. AuditView(s)' = audit'
  BY <1>2, <1>3
<1>5. SessionPath(s)'
  BY <1>1, <1>4 DEF SessionPath, IsPath, Continues, Changes
<1>6. \A t \in Session : t = s
  BY DEF OneSession
<1> QED
  BY <1>5, <1>6 DEF PathInv, IsPath, Continues, Changes

LEMMA InitPath == Init => PathInv
<1> SUFFICES ASSUME Init PROVE PathInv
  OBVIOUS
<1>1. /\ DOMAIN audit = {} /\ \A s \in Session : DOMAIN AuditView(s) = {}
      /\ \A s \in Session : pc[s] = "out"
  BY DEF Init, EmptyLog, AuditView
<1> QED
  BY <1>1, InitReplays DEF PathInv, SessionPath, IsPath

LEMMA StepPath ==
    ASSUME CallersAreDisciplined, OneSession, PathInv, [Next]_vars
    PROVE  PathInv'
<1>0. ReplayInv'
  BY StepReplays DEF PathInv
<1>1. CASE UNCHANGED vars
  <2>1. UNCHANGED <<audit, pc, call>> /\ \A s \in Session : AuditView(s)' = AuditView(s)
    BY <1>1 DEF vars, committed, overlay, AuditView
  <2> QED
    BY <1>0, <2>1 DEF PathInv, SessionPath, IsPath, Continues, Changes
<1>2. ASSUME NEW s \in Session, Begin(s) \/ DeadlockVictim(s) PROVE PathInv'
  BY <1>0, <1>2, GotoPath
  DEF Begin, DeadlockVictim, DatabaseError, committed, overlay
<1>3. ASSUME NEW s \in Session, Commit(s) PROVE PathInv'
  BY <1>0, <1>3, DiscardPath DEF Commit, PathInv, SessionPath
<1>4. ASSUME NEW s \in Session, RollBack(s) \/ Crash(s) PROVE PathInv'
  BY <1>0, <1>4, DiscardPath DEF RollBack, Crash, committed, PathInv
<1> QED
  BY <1>0, <1>1, <1>2, <1>3, <1>4, RequestPath, StatementPath DEF Next

\* With one session at a time, of a disciplined caller, the audit trail of
\* every case is a path of the lifecycle, through every rollback, crash and
\* failed statement.
THEOREM TrailIsPathAlone ==
    ASSUME CallersAreDisciplined, OneSession
    PROVE  Spec => []TrailIsPath
<1>1. PathInv /\ [Next]_vars => PathInv'
  BY StepPath
<1>2. PathInv => TrailIsPath
  <2> SUFFICES ASSUME PathInv, NEW n \in DOMAIN audit, audit[n].body.to # None
               PROVE  Continues(audit, {k \in DOMAIN audit :
                            /\ k < n
                            /\ audit[k].body.case_id = audit[n].body.case_id
                            /\ audit[k].body.to # None}, audit[n].body)
    BY DEF TrailIsPath, Continues
  <2>1. {k \in DOMAIN audit : /\ k < n
                              /\ audit[k].body.case_id = audit[n].body.case_id
                              /\ audit[k].body.to # None}
        = {k \in Changes(audit, audit[n].body.case_id) : k < n}
    BY DEF Changes
  <2>2. Continues(audit, {k \in Changes(audit, audit[n].body.case_id) : k < n},
                  audit[n].body)
    BY DEF PathInv, IsPath
  <2> QED
    BY <2>1, <2>2
<1> QED
  BY <1>1, <1>2, InitPath, PTL DEF Spec

=============================================================================
