----------------------------- MODULE SpineProofs -----------------------------
(***************************************************************************)
(* Proofs about the spine, for any sessions, cases, obligations, envelopes *)
(* and bounds.                                                             *)
(***************************************************************************)
EXTENDS SpineProperties, TLAPS

LEMMA RebuildType ==
    ASSUME NEW row \in RiskCase, NEW to \in CaseState,
           NEW update \in FieldUpdate
    PROVE  Rebuild(row, to, update) \in RiskCase
<1>1. /\ Updated(to, update.state) \in CaseState
      /\ Updated(row.arm, update.arm) \in ArmKind
      /\ (row.fields \ update.clear) \cup update.set \in SUBSET OptionalField
  BY DEF Updated, RiskCase, FieldUpdate
<1> QED
  BY <1>1 DEF Rebuild, RiskCase

LEMMA NewCaseType ==
    ASSUME NEW c \in Case
    PROVE  NewCase(c) \in RiskCase /\ ValidCase(NewCase(c))
BY DEF NewCase, RiskCase, ValidCase, CaseState, ArmKind

LEMMA ViewTypes ==
    ASSUME TypeOK, NEW s \in Session
    PROVE  /\ CaseView(s) \in [Case -> RiskCase \cup {None}]
           /\ OutboxView(s) \subseteq Envelope
           /\ LogOK(AuditView(s))
<1>1. CaseView(s) \in [Case -> RiskCase \cup {None}] /\ OutboxView(s) \subseteq Envelope
  BY DEF TypeOK, CaseView, OutboxView
<1>2. LogOK(AuditView(s))
  BY DEF TypeOK, LogOK, AuditView
<1> QED BY <1>1, <1>2

\* A step of s that writes nothing and leaves well-typed locals.
LEMMA GotoType ==
    ASSUME TypeOK, NEW s \in Session, NEW place \in Place, NEW locals,
           Goto(s, place, locals), UNCHANGED <<committed, overlay>>,
           calls' \in [Session -> 0..MaxCalls],
           LocalsOK(s)'
    PROVE  TypeOK'
<1>1. \A t \in Session \ {s} : pc'[t] = pc[t] /\ call'[t] = call[t]
  BY DEF Goto, TypeOK
<1>2. \A t \in Session \ {s} : LocalsOK(t)'
  BY <1>1 DEF TypeOK, LocalsOK
<1>3. /\ pc' \in [Session -> Place]
      /\ call' = [t \in Session |-> call'[t]]
  BY DEF Goto, TypeOK
<1> QED
  BY <1>2, <1>3 DEF TypeOK, committed, overlay, LogOK

\* The end of a transaction: only committed rows and those of others remain.
LEMMA DiscardType ==
    ASSUME TypeOK, NEW s \in Session, Discard(s),
           cases' \in [Case -> RiskCase \cup {None}],
           LogOK(audit)', outbox' \subseteq Envelope
    PROVE  TypeOK'
<1>1. \A t \in Session \ {s} : /\ pc'[t] = pc[t] /\ call'[t] = call[t]
                               /\ waudit'[t] = waudit[t]
  BY DEF Discard, Goto, TypeOK
<1>2. \A t \in Session \ {s} : LocalsOK(t)' /\ LogOK(waudit[t])'
  BY <1>1 DEF TypeOK, LocalsOK, LogOK
<1>3. LocalsOK(s)' /\ LogOK(waudit[s])'
  BY DEF Discard, Goto, TypeOK, LocalsOK, LogOK, EmptyLog
<1>4. /\ pc' \in [Session -> Place]
      /\ call' = [t \in Session |-> call'[t]]
  BY DEF Discard, Goto, TypeOK, Place
<1>5. /\ waudit' = [t \in Session |-> waudit'[t]]
      /\ wcases' \in [Session -> [Case -> RiskCase \cup {None}]]
      /\ woutbox' \in [Session -> SUBSET Envelope]
  BY DEF Discard, TypeOK
<1>6. calls' \in [Session -> 0..MaxCalls]
  BY BoundAssumption DEF Discard, TypeOK
<1> QED
  BY <1>2, <1>3, <1>4, <1>5, <1>6 DEF TypeOK

LEMMA RequestType ==
    ASSUME TypeOK, NEW s \in Session, Request(s)
    PROVE  TypeOK'
<1>1. CASE \E c \in Case : OpenCase(s, c)
  <2> PICK c \in Case : OpenCase(s, c)
    BY <1>1
  <2>1. calls' \in [Session -> 0..MaxCalls] /\ UNCHANGED <<committed, overlay>>
    BY BoundAssumption DEF OpenCase, Calling, TypeOK
  <2>2. CASE Return(s)
    BY <2>1, <2>2, GotoType DEF Return, Goto, LocalsOK, TypeOK, Place
  <2>3. CASE ~Return(s)
    <3> DEFINE locals == [NoCall EXCEPT
                    !.case = c,
                    !.row = NewCase(c),
                    !.body = [case_id |-> c, from |-> None, to |-> "detected"]]
    <3>1. Goto(s, "insert_case", locals)
      BY <2>3 DEF OpenCase
    <3>2. LocalsOK(s)'
      BY <3>1, NewCaseType DEF Goto, LocalsOK, TypeOK, NoCall, AuditBody, CaseState
    <3> QED
      BY <2>1, <3>1, <3>2, GotoType DEF Place
  <2> QED
    BY <2>2, <2>3
<1>2. CASE \E c \in Case, to \in RequestedState, update \in FieldUpdates :
              Transition(s, c, to, update)
  <2> PICK c \in Case, to \in RequestedState, update \in FieldUpdates :
              Transition(s, c, to, update)
    BY <1>2
  <2>1. calls' \in [Session -> 0..MaxCalls] /\ UNCHANGED <<committed, overlay>>
    BY BoundAssumption DEF Transition, Calling, TypeOK
  <2>2. CASE Return(s)
    BY <2>1, <2>2, GotoType DEF Return, Goto, LocalsOK, TypeOK, Place
  <2>3. CASE ~Return(s)
    <3> DEFINE current == CaseView(s)[c]
               rebuilt == Rebuild(current, to, update)
               locals == [NoCall EXCEPT
                        !.case = c,
                        !.row = rebuilt,
                        !.body = [case_id |-> c, from |-> current.state,
                                  to |-> to]]
    <3>1. Goto(s, "update_case", locals) /\ current # None
      BY <2>3 DEF Transition
    <3>2. current \in RiskCase /\ rebuilt \in RiskCase
      BY <3>1, ViewTypes, RebuildType, RequestAssumption
    <3>3. LocalsOK(s)'
      <4> HIDE DEF rebuilt, current
      <4>1. locals.body \in AuditBody
        BY <3>2, RequestAssumption DEF AuditBody, NoCall, RiskCase
      <4> QED
        BY <3>1, <3>2, <4>1 DEF Goto, LocalsOK, TypeOK, NoCall
    <3> QED
      BY <2>1, <3>1, <3>3, GotoType DEF Place
  <2> QED
    BY <2>2, <2>3
<1>3. CASE \E c \in Case : AppendNote(s, c)
  <2> PICK c \in Case : AppendNote(s, c)
    BY <1>3
  <2>1. calls' \in [Session -> 0..MaxCalls] /\ UNCHANGED <<committed, overlay>>
    BY BoundAssumption DEF AppendNote, Calling, TypeOK
  <2>2. LocalsOK(s)'
    BY DEF AppendNote, Goto, LocalsOK, TypeOK, NoCall, AuditBody
  <2> QED
    BY <2>1, <2>2, GotoType DEF AppendNote, Place
<1>4. CASE \E e \in Envelope : Enqueue(s, e)
  <2> PICK e \in Envelope : Enqueue(s, e)
    BY <1>4
  <2>1. calls' \in [Session -> 0..MaxCalls] /\ UNCHANGED <<committed, overlay>>
    BY BoundAssumption DEF Enqueue, Calling, TypeOK
  <2>2. CASE Return(s)
    BY <2>1, <2>2, GotoType DEF Return, Goto, LocalsOK, TypeOK, Place
  <2>3. CASE ~Return(s)
    <3> DEFINE place == IF Coordinates[e] # None THEN "read_clash"
                                                 ELSE "insert_outbox"
    <3>1. Goto(s, place, [NoCall EXCEPT !.env = e])
      BY <2>3 DEF Enqueue
    <3>2. LocalsOK(s)'
      BY <3>1 DEF Goto, LocalsOK, TypeOK, NoCall
    <3> QED
      BY <2>1, <3>1, <3>2, GotoType DEF Place
  <2> QED
    BY <2>2, <2>3
<1> QED
  BY <1>1, <1>2, <1>3, <1>4 DEF Request

LEMMA NoLocalsNeeded ==
    ASSUME TypeOK, NEW s \in Session,
           NEW place \in {"out", "idle", "failed"}, Goto(s, place, NoCall)
    PROVE  LocalsOK(s)'
BY DEF Goto, LocalsOK, TypeOK

\* A step of s that writes to its own overlay and leaves well-typed locals.
LEMMA WriteType ==
    ASSUME TypeOK, NEW s \in Session, NEW place \in Place, NEW locals,
           Goto(s, place, locals), UNCHANGED <<committed, calls>>,
           LocalsOK(s)',
           wcases' \in [Session -> [Case -> RiskCase \cup {None}]],
           woutbox' \in [Session -> SUBSET Envelope],
           waudit' = [t \in Session |-> waudit'[t]],
           LogOK(waudit[s])',
           \A t \in Session \ {s} : waudit'[t] = waudit[t]
    PROVE  TypeOK'
<1>1. \A t \in Session \ {s} : pc'[t] = pc[t] /\ call'[t] = call[t]
  BY DEF Goto, TypeOK
<1>2. \A t \in Session \ {s} : LocalsOK(t)' /\ LogOK(waudit[t])'
  BY <1>1 DEF TypeOK, LocalsOK, LogOK
<1>3. /\ pc' \in [Session -> Place]
      /\ call' = [t \in Session |-> call'[t]]
  BY DEF Goto, TypeOK
<1> QED
  BY <1>2, <1>3 DEF TypeOK, committed, LogOK

LEMMA StatementType ==
    ASSUME TypeOK, NEW s \in Session, Statement(s)
    PROVE  TypeOK'
<1>0. /\ DOMAIN pc = Session /\ DOMAIN call = Session /\ DOMAIN waudit = Session
      /\ LocalsOK(s) /\ LogOK(waudit[s])
      /\ calls \in [Session -> 0..MaxCalls]
      /\ Place = {"out", "idle", "insert_case", "update_case", "read_tail",
                  "insert_audit", "read_clash", "insert_outbox", "failed"}
  BY DEF TypeOK, Place
<1>1. CASE InsertCase(s) \/ UpdateCase(s)
  <2>1. /\ UNCHANGED <<committed, waudit, woutbox, calls>>
        /\ call[s].case \in Case /\ call[s].row \in RiskCase
        /\ call[s].body \in AuditBody
    BY <1>0, <1>1 DEF InsertCase, UpdateCase, LocalsOK
  <2>2. CASE DatabaseError(s) /\ UNCHANGED wcases
    BY <1>0, <2>1, <2>2, NoLocalsNeeded, GotoType DEF DatabaseError, overlay
  <2>3. CASE /\ wcases' = [wcases EXCEPT ![s][call[s].case] = call[s].row]
             /\ Goto(s, "read_tail", call[s])
    <3>1. LocalsOK(s)'
      BY <1>0, <2>1, <2>3 DEF Goto, LocalsOK
    <3>2. wcases' \in [Session -> [Case -> RiskCase \cup {None}]]
      BY <2>1, <2>3 DEF TypeOK
    <3>3. /\ woutbox' \in [Session -> SUBSET Envelope]
          /\ waudit' = [t \in Session |-> waudit'[t]]
      BY <2>1 DEF TypeOK
    <3>4. LogOK(waudit[s])' /\ \A t \in Session \ {s} : waudit'[t] = waudit[t]
      BY <1>0, <2>1 DEF LogOK
    <3>5. "read_tail" \in Place /\ UNCHANGED <<committed, calls>>
      BY <1>0, <2>1
    <3> QED
      BY <2>3, <3>1, <3>2, <3>3, <3>4, <3>5, WriteType
  <2>4. CASE InsertCase(s)
    BY <2>2, <2>3, <2>4 DEF InsertCase
  <2>5. CASE UpdateCase(s)
    BY <2>2, <2>3, <2>5 DEF UpdateCase
  <2> QED
    BY <1>1, <2>4, <2>5
<1>2. CASE ReadTail(s)
  <2>1. CASE RaisedAfterWrite(s)
    BY <1>0, <1>2, <2>1, NoLocalsNeeded, GotoType
    DEF ReadTail, RaisedAfterWrite, Return
  <2> DEFINE locals == [NoCall EXCEPT !.body = call[s].body,
                           !.sequence = NextSequence(AuditView(s)),
                           !.prev_hash = TailHash(AuditView(s))]
  <2>2. CASE Goto(s, "insert_audit", locals)
    <3>1. /\ UNCHANGED <<committed, overlay, calls>>
          /\ call[s].body \in AuditBody
      BY <1>0, <1>2 DEF ReadTail, LocalsOK
    <3>2. LocalsOK(s)'
      BY <1>0, <2>2, <3>1 DEF Goto, LocalsOK, NoCall
    <3> QED
      BY <1>0, <2>2, <3>1, <3>2, GotoType
  <2> QED
    BY <1>2, <2>1, <2>2 DEF ReadTail
<1>3. CASE InsertAudit(s)
  <2>1. /\ UNCHANGED <<committed, wcases, woutbox, calls>>
        /\ call[s].body \in AuditBody
    BY <1>0, <1>3 DEF InsertAudit, LocalsOK
  <2>2. CASE DatabaseError(s) /\ UNCHANGED waudit
    BY <1>0, <2>1, <2>2, NoLocalsNeeded, GotoType DEF DatabaseError, overlay
  <2>3. CASE Return(s) /\ waudit' = [waudit EXCEPT ![s] =
                [k \in DOMAIN waudit[s] \cup {call[s].sequence} |->
                    IF k = call[s].sequence
                    THEN [prev_hash |-> call[s].prev_hash, body |-> call[s].body]
                    ELSE waudit[s][k]]]
    <3>1. waudit' = [t \in Session |-> waudit'[t]]
      BY <2>3 DEF TypeOK
    <3>2. \A t \in Session \ {s} : waudit'[t] = waudit[t]
      BY <2>3 DEF TypeOK
    <3>4. LogOK(waudit[s])'
      BY <1>0, <2>1, <2>3 DEF LogOK
    <3>5. Goto(s, "idle", NoCall)
      BY <2>3 DEF Return
    <3>3. LocalsOK(s)'
      BY <2>3, NoLocalsNeeded DEF Return
    <3> QED
      BY <1>0, <2>1, <3>1, <3>2, <3>3, <3>4, <3>5, WriteType DEF TypeOK
  <2> QED
    BY <1>3, <2>2, <2>3 DEF InsertAudit
<1>4. CASE ReadClash(s)
  <2>1. /\ UNCHANGED <<committed, overlay, calls>>
        /\ call[s].env \in Envelope
    BY <1>0, <1>4 DEF ReadClash, LocalsOK
  <2>2. CASE Return(s)
    BY <1>0, <2>1, <2>2, NoLocalsNeeded, GotoType DEF Return
  <2>3. CASE Goto(s, "insert_outbox", call[s])
    <3>1. LocalsOK(s)'
      BY <1>0, <2>1, <2>3 DEF Goto, LocalsOK
    <3> QED
      BY <1>0, <2>1, <2>3, <3>1, GotoType
  <2> QED
    BY <1>4, <2>2, <2>3 DEF ReadClash
<1>5. CASE InsertOutbox(s)
  <2>1. /\ UNCHANGED <<committed, wcases, waudit, calls>>
        /\ call[s].env \in Envelope
    BY <1>0, <1>5 DEF InsertOutbox, LocalsOK
  <2>2. CASE DatabaseError(s) /\ UNCHANGED woutbox
    BY <1>0, <2>1, <2>2, NoLocalsNeeded, GotoType DEF DatabaseError, overlay
  <2>3. CASE Return(s) /\ woutbox' = [woutbox EXCEPT ![s] = @ \cup {call[s].env}]
    <3>1. woutbox' \in [Session -> SUBSET Envelope]
      BY <2>1, <2>3 DEF TypeOK
    <3>2. LocalsOK(s)'
      BY <2>3, NoLocalsNeeded DEF Return
    <3> QED
      BY <1>0, <2>1, <2>3, <3>1, <3>2, WriteType DEF TypeOK, Return, LogOK
  <2> QED
    BY <1>5, <2>2, <2>3 DEF InsertOutbox
<1> QED
  BY <1>1, <1>2, <1>3, <1>4, <1>5 DEF Statement

LEMMA InitType == Init => TypeOK
BY BoundAssumption DEF Init, TypeOK, LocalsOK, LogOK, EmptyLog, Place

LEMMA StepType == TypeOK /\ [Next]_vars => TypeOK'
<1> SUFFICES ASSUME TypeOK, [Next]_vars PROVE TypeOK'
  OBVIOUS
<1>1. CASE UNCHANGED vars
  BY <1>1 DEF vars, committed, overlay, TypeOK, LocalsOK, LogOK
<1>2. ASSUME NEW s \in Session, Begin(s) PROVE TypeOK'
  BY <1>2, NoLocalsNeeded, GotoType DEF Begin, Place, TypeOK
<1>3. ASSUME NEW s \in Session, Commit(s) PROVE TypeOK'
  BY <1>3, ViewTypes, DiscardType DEF Commit
<1>4. ASSUME NEW s \in Session, RollBack(s) \/ Crash(s) PROVE TypeOK'
  BY <1>4, DiscardType DEF RollBack, Crash, committed, TypeOK, LogOK
<1>5. ASSUME NEW s \in Session, DeadlockVictim(s) PROVE TypeOK'
  BY <1>5, NoLocalsNeeded, GotoType
  DEF DeadlockVictim, DatabaseError, Place, TypeOK
<1> QED
  BY <1>1, <1>2, <1>3, <1>4, <1>5, RequestType, StatementType DEF Next

\* Every reachable state of the spine is well typed: the rows sessions read
\* and write are RiskCases and audit rows, and a statement finds its locals.
THEOREM TypeCorrect == Spec => []TypeOK
BY InitType, StepType, PTL DEF Spec

-----------------------------------------------------------------------------
(***************************************************************************)
(* One live case per obligation.                                           *)
(***************************************************************************)

LEMMA NoneIsNotLive == ~LiveRow(None)
BY DEF LiveRow

\* Both statements that write a case row do so under the row lock and the
\* partial unique index.
LEMMA CaseWriteLive ==
    ASSUME LiveInv, TypeOK', NEW s \in Session,
           NEW c \in Case, NEW row \in RiskCase,
           wcases' = [wcases EXCEPT ![s][c] = row], cases' = cases,
           RowHolders(s, c) = {},
           LiveRow(row) => LiveHolders(s, c) = {} /\ ~LiveClash(s, c)
    PROVE  LiveInv'
<1>1. /\ row # None
      /\ wcases \in [Session -> [Case -> RiskCase \cup {None}]]
      /\ \A t \in Session, d \in Case :
            wcases'[t][d] = IF t = s /\ d = c THEN row ELSE wcases[t][d]
  BY NoneAssumption DEF LiveInv, TypeOK
<1>2. \A t \in Session : wcases[t][c] # None => t = s
  BY DEF RowHolders
<1>3. RowLocks'
  BY <1>1, <1>2 DEF LiveInv, RowLocks
<1>4. ASSUME LiveRow(row), NEW d \in Case, SameObligation(c, d)
      PROVE  /\ LiveRow(cases[d]) => wcases[s][d] # None
             /\ \A t \in Session : ~LiveRow(wcases[t][d])
  <2>1. /\ \A t \in Session \ {s} : ~LiveRow(wcases[t][d])
        /\ LiveRow(cases[d]) => RowHolders(s, d) = {}
    BY <1>4, NoneIsNotLive DEF LiveHolders, RowHolders
  <2>2. RowHolders(s, d) = {} => ~LiveRow(CaseView(s)[d])
    BY <1>4 DEF LiveClash
  <2>3. wcases[s][d] # None => RowHolders(s, d) = {}
    BY DEF LiveInv, RowLocks, RowHolders
  <2>4. CaseView(s)[d] = IF wcases[s][d] # None THEN wcases[s][d] ELSE cases[d]
    BY DEF CaseView
  <2> QED
    BY <2>1, <2>2, <2>3, <2>4, NoneIsNotLive
<1>5. LiveIndex'
  <2> SUFFICES ASSUME NEW t \in Session, NEW a \in Case, NEW b \in Case,
                      LiveRow(wcases'[t][a]), SameObligation(a, b)
               PROVE  /\ LiveRow(cases[b]) => wcases'[t][b] # None
                      /\ \A u \in Session : ~LiveRow(wcases'[u][b])
    BY DEF LiveIndex, LiveRow, SameObligation
  <2>1. a # b /\ SameObligation(b, a)
    BY DEF SameObligation
  <2>2. CASE t = s /\ a = c
    BY <1>1, <1>4, <2>1, <2>2
  <2>3. CASE ~(t = s /\ a = c)
    <3>1. LiveRow(wcases[t][a])
      BY <1>1, <2>3
    <3>2. /\ LiveRow(cases[b]) => wcases[t][b] # None
          /\ \A u \in Session : ~LiveRow(wcases[u][b])
      BY <3>1 DEF LiveInv, LiveIndex
    <3>3. b = c => ~LiveRow(row)
      BY <1>4, <2>1, <3>1
    <3> QED
      BY <1>1, <3>2, <3>3
  <2> QED
    BY <2>2, <2>3
<1>6. OneLiveCase'
  BY DEF LiveInv, OneLiveCase, LiveRow, SameObligation
<1> QED
  BY <1>3, <1>5, <1>6 DEF LiveInv

LEMMA CommitLive ==
    ASSUME LiveInv, TypeOK', NEW s \in Session, Commit(s)
    PROVE  LiveInv'
<1>1. /\ wcases \in [Session -> [Case -> RiskCase \cup {None}]]
      /\ \A t \in Session, d \in Case :
            wcases'[t][d] = IF t = s THEN None ELSE wcases[t][d]
      /\ \A d \in Case :
            cases'[d] = IF wcases[s][d] # None THEN wcases[s][d] ELSE cases[d]
  BY DEF LiveInv, TypeOK, Commit, Discard, CaseView
<1>2. RowLocks'
  BY <1>1 DEF LiveInv, RowLocks
<1>3. LiveIndex'
  <2> SUFFICES ASSUME NEW t \in Session, NEW a \in Case, NEW b \in Case,
                      LiveRow(wcases'[t][a]), SameObligation(a, b)
               PROVE  /\ LiveRow(cases'[b]) => wcases'[t][b] # None
                      /\ \A u \in Session : ~LiveRow(wcases'[u][b])
    BY DEF LiveIndex, LiveRow, SameObligation
  <2>1. t # s /\ LiveRow(wcases[t][a])
    BY <1>1, NoneIsNotLive
  <2>2. /\ LiveRow(cases[b]) => wcases[t][b] # None
        /\ \A u \in Session : ~LiveRow(wcases[u][b])
    BY <2>1 DEF LiveInv, LiveIndex
  <2> QED
    BY <1>1, <2>1, <2>2, NoneIsNotLive
<1>4. OneLiveCase'
  <2> SUFFICES ASSUME NEW a \in Case, NEW b \in Case, SameObligation(a, b),
                      LiveRow(cases'[a]), LiveRow(cases'[b])
               PROVE  FALSE
    BY DEF OneLiveCase, LiveRow, SameObligation
  <2>1. SameObligation(b, a)
    BY DEF SameObligation
  <2>2. CASE wcases[s][a] # None
    <3>1. /\ LiveRow(wcases[s][a])
          /\ LiveRow(cases[b]) => wcases[s][b] # None
          /\ ~LiveRow(wcases[s][b])
      BY <1>1, <2>2 DEF LiveInv, LiveIndex
    <3> QED
      BY <1>1, <3>1
  <2>3. CASE wcases[s][b] # None
    <3>1. /\ LiveRow(wcases[s][b])
          /\ LiveRow(cases[a]) => wcases[s][a] # None
          /\ ~LiveRow(wcases[s][a])
      BY <1>1, <2>1, <2>3 DEF LiveInv, LiveIndex
    <3> QED
      BY <1>1, <3>1
  <2>4. CASE wcases[s][a] = None /\ wcases[s][b] = None
    BY <1>1, <2>4 DEF LiveInv, OneLiveCase
  <2> QED
    BY <2>2, <2>3, <2>4
<1> QED
  BY <1>2, <1>3, <1>4 DEF LiveInv

LEMMA AbortLive ==
    ASSUME LiveInv, TypeOK', NEW s \in Session, Discard(s), UNCHANGED committed
    PROVE  LiveInv'
<1>1. /\ cases' = cases
      /\ \A t \in Session, d \in Case :
            wcases'[t][d] = IF t = s THEN None ELSE wcases[t][d]
  BY DEF LiveInv, TypeOK, Discard, committed
<1>2. RowLocks'
  BY <1>1 DEF LiveInv, RowLocks
<1>3. LiveIndex'
  <2> SUFFICES ASSUME NEW t \in Session, NEW a \in Case, NEW b \in Case,
                      LiveRow(wcases'[t][a]), SameObligation(a, b)
               PROVE  /\ LiveRow(cases[b]) => wcases'[t][b] # None
                      /\ \A u \in Session : ~LiveRow(wcases'[u][b])
    BY <1>1 DEF LiveIndex, LiveRow, SameObligation
  <2>1. t # s /\ LiveRow(wcases[t][a])
    BY <1>1, NoneIsNotLive
  <2> QED
    BY <1>1, <2>1, NoneIsNotLive DEF LiveInv, LiveIndex
<1>4. OneLiveCase'
  BY <1>1 DEF LiveInv, OneLiveCase, LiveRow, SameObligation
<1> QED
  BY <1>2, <1>3, <1>4 DEF LiveInv

LEMMA FrameLive ==
    ASSUME LiveInv, TypeOK', UNCHANGED <<cases, wcases>>
    PROVE  LiveInv'
BY DEF LiveInv, RowLocks, LiveIndex, OneLiveCase, LiveRow, SameObligation

\* uq_risk_case_active_obligation and the row locks keep one live case per
\* obligation, however many sessions open, stop and revive cases at once.
THEOREM OneLiveCaseAlways == Spec => []OneLiveCase
<1>1. Init => LiveInv
  <2> SUFFICES ASSUME Init PROVE LiveInv
    OBVIOUS
  <2>1. TypeOK
    BY InitType
  <2> QED
    BY <2>1, NoneIsNotLive
    DEF Init, LiveInv, RowLocks, LiveIndex, OneLiveCase
<1>2. LiveInv /\ [Next]_vars => LiveInv'
  <2> SUFFICES ASSUME LiveInv, [Next]_vars PROVE LiveInv'
    OBVIOUS
  <2>0. TypeOK'
    BY StepType DEF LiveInv
  <2>1. CASE UNCHANGED vars
    BY <2>0, <2>1, FrameLive DEF vars, committed, overlay
  <2>2. ASSUME NEW s \in Session, Begin(s) \/ Request(s) \/ DeadlockVictim(s)
        PROVE  LiveInv'
    BY <2>0, <2>2, FrameLive
    DEF Begin, Request, OpenCase, Transition, AppendNote, Enqueue, Calling,
        DeadlockVictim, committed, overlay
  <2>3. ASSUME NEW s \in Session, InsertCase(s) \/ UpdateCase(s)
        PROVE  LiveInv'
    <3> DEFINE c == call[s].case
               row == call[s].row
    <3>1. c \in Case /\ row \in RiskCase /\ cases' = cases
      BY <2>3 DEF InsertCase, UpdateCase, LiveInv, TypeOK, LocalsOK, committed
    <3>2. CASE UNCHANGED wcases
      BY <2>0, <3>1, <3>2, FrameLive
    <3>3. CASE ~UNCHANGED wcases
      <4>1. /\ wcases' = [wcases EXCEPT ![s][c] = row]
            /\ RowHolders(s, c) = {}
            /\ LiveRow(row) => LiveHolders(s, c) = {} /\ ~LiveClash(s, c)
        BY <2>3, <3>3 DEF InsertCase, UpdateCase, Blockers
      <4> QED
        BY <2>0, <3>1, <4>1, CaseWriteLive
    <3> QED
      BY <3>2, <3>3
  <2>4. ASSUME NEW s \in Session,
               ReadTail(s) \/ InsertAudit(s) \/ ReadClash(s) \/ InsertOutbox(s)
        PROVE  LiveInv'
    BY <2>0, <2>4, FrameLive
    DEF ReadTail, InsertAudit, ReadClash, InsertOutbox, committed, overlay
  <2>5. ASSUME NEW s \in Session, Commit(s) PROVE LiveInv'
    BY <2>0, <2>5, CommitLive
  <2>6. ASSUME NEW s \in Session, RollBack(s) \/ Crash(s) PROVE LiveInv'
    BY <2>0, <2>6, AbortLive DEF RollBack, Crash
  <2> QED
    BY <2>1, <2>2, <2>3, <2>4, <2>5, <2>6 DEF Next, Statement
<1>3. LiveInv => OneLiveCase
  BY DEF LiveInv
<1> QED
  BY <1>1, <1>2, <1>3, PTL DEF Spec

-----------------------------------------------------------------------------
(***************************************************************************)
(* No attempt on an obligation is enqueued twice.                          *)
(***************************************************************************)

LEMMA OutboxWriteDebit ==
    ASSUME DebitInv, TypeOK', NEW s \in Session, NEW e \in Envelope,
           woutbox' = [woutbox EXCEPT ![s] = @ \cup {e}], outbox' = outbox,
           OutboxHolders(s, e) = {}, ~OutboxClash(s, e)
    PROVE  DebitInv'
<1>1. /\ woutbox \in [Session -> SUBSET Envelope]
      /\ \A t \in Session :
            woutbox'[t] = IF t = s THEN woutbox[s] \cup {e} ELSE woutbox[t]
  BY DEF DebitInv, TypeOK
<1>2. \A f \in OutboxView(s) : ~SameDebit(e, f) /\ ~SameDebit(f, e)
  BY DEF OutboxClash, SameDebit
<1>3. \A t \in Session \ {s} : \A f \in woutbox[t] :
            ~SameDebit(e, f) /\ ~SameDebit(f, e)
  BY DEF OutboxHolders, SameDebit
<1>4. ASSUME NEW t \in Session, NEW g \in OutboxView(t)', NEW f \in OutboxView(t)',
             SameDebit(g, f)
      PROVE  g = f
  BY <1>1, <1>2, <1>4 DEF DebitInv, OutboxIndex, OutboxView
<1>5. ASSUME NEW t \in Session, NEW u \in Session,
             NEW g \in woutbox'[t], NEW f \in woutbox'[u], SameDebit(g, f)
      PROVE  t = u
  BY <1>1, <1>3, <1>5 DEF DebitInv, OutboxIndex
<1>6. NoDoubleDebit'
  BY DEF DebitInv, NoDoubleDebit, SameDebit
<1> QED
  BY <1>4, <1>5, <1>6 DEF DebitInv, OutboxIndex, SameDebit

LEMMA EndDebit ==
    ASSUME DebitInv, TypeOK', NEW s \in Session, Discard(s),
           outbox' \in {outbox, OutboxView(s)}
    PROVE  DebitInv'
<1>1. /\ woutbox \in [Session -> SUBSET Envelope]
      /\ \A t \in Session :
            woutbox'[t] = IF t = s THEN {} ELSE woutbox[t]
  BY DEF DebitInv, TypeOK, Discard
<1>2. ASSUME NEW t \in Session, NEW g \in OutboxView(t)', NEW f \in OutboxView(t)',
             SameDebit(g, f)
      PROVE  g = f
  <2>1. SameDebit(f, g)
    BY <1>2 DEF SameDebit
  <2>2. \/ g \in OutboxView(s) /\ f \in OutboxView(s)
        \/ g \in OutboxView(t) /\ f \in OutboxView(t)
        \/ t # s /\ g \in woutbox[s] /\ f \in woutbox[t]
        \/ t # s /\ f \in woutbox[s] /\ g \in woutbox[t]
    BY <1>1 DEF OutboxView
  <2> QED
    BY <1>2, <2>1, <2>2 DEF DebitInv, OutboxIndex
<1>3. ASSUME NEW t \in Session, NEW u \in Session,
             NEW g \in woutbox'[t], NEW f \in woutbox'[u], SameDebit(g, f)
      PROVE  t = u
  BY <1>1, <1>3 DEF DebitInv, OutboxIndex
<1>4. NoDoubleDebit'
  BY DEF DebitInv, NoDoubleDebit, OutboxIndex, SameDebit
<1> QED
  BY <1>2, <1>3, <1>4 DEF DebitInv, OutboxIndex, SameDebit

LEMMA FrameDebit ==
    ASSUME DebitInv, TypeOK', UNCHANGED <<outbox, woutbox>>
    PROVE  DebitInv'
BY DEF DebitInv, OutboxIndex, NoDoubleDebit, OutboxView, SameDebit

\* Q1: uq_outbox_obligation_attempt keeps two cases from both debiting one
\* attempt on an obligation, also when both passed the pre-check of enqueue.
THEOREM NoDoubleDebitAlways == Spec => []NoDoubleDebit
<1>1. Init => DebitInv
  BY InitType DEF Init, DebitInv, OutboxIndex, NoDoubleDebit, OutboxView
<1>2. DebitInv /\ [Next]_vars => DebitInv'
  <2> SUFFICES ASSUME DebitInv, [Next]_vars PROVE DebitInv'
    OBVIOUS
  <2>0. TypeOK'
    BY StepType DEF DebitInv
  <2>1. CASE UNCHANGED vars
    BY <2>0, <2>1, FrameDebit DEF vars, committed, overlay
  <2>2. ASSUME NEW s \in Session, Begin(s) \/ Request(s) \/ DeadlockVictim(s)
        PROVE  DebitInv'
    BY <2>0, <2>2, FrameDebit
    DEF Begin, Request, OpenCase, Transition, AppendNote, Enqueue, Calling,
        DeadlockVictim, committed, overlay
  <2>3. ASSUME NEW s \in Session, InsertOutbox(s) PROVE DebitInv'
    <3>1. call[s].env \in Envelope /\ outbox' = outbox
      BY <2>3 DEF InsertOutbox, DebitInv, TypeOK, LocalsOK, committed
    <3>2. CASE UNCHANGED woutbox
      BY <2>0, <3>1, <3>2, FrameDebit
    <3>3. CASE ~UNCHANGED woutbox
      <4>1. /\ woutbox' = [woutbox EXCEPT ![s] = @ \cup {call[s].env}]
            /\ OutboxHolders(s, call[s].env) = {}
            /\ ~OutboxClash(s, call[s].env)
        BY <2>3, <3>3 DEF InsertOutbox, Blockers
      <4> QED
        BY <2>0, <3>1, <4>1, OutboxWriteDebit
    <3> QED
      BY <3>2, <3>3
  <2>4. ASSUME NEW s \in Session,
               InsertCase(s) \/ UpdateCase(s) \/ ReadTail(s) \/ InsertAudit(s)
                    \/ ReadClash(s)
        PROVE  DebitInv'
    BY <2>0, <2>4, FrameDebit
    DEF InsertCase, UpdateCase, ReadTail, InsertAudit, ReadClash, committed,
        overlay
  <2>5. ASSUME NEW s \in Session, Commit(s) \/ RollBack(s) \/ Crash(s)
        PROVE  DebitInv'
    BY <2>0, <2>5, EndDebit DEF Commit, RollBack, Crash, committed
  <2> QED
    BY <2>1, <2>2, <2>3, <2>4, <2>5 DEF Next, Statement
<1>3. DebitInv => NoDoubleDebit
  BY DEF DebitInv
<1> QED
  BY <1>1, <1>2, <1>3, PTL DEF Spec

-----------------------------------------------------------------------------
(***************************************************************************)
(* The audit chain.                                                        *)
(***************************************************************************)

\* A log numbered 0 .. n-1 has its tail at n-1.
LEMMA TailOfLog ==
    ASSUME NEW log, NEW n \in Nat, DOMAIN log = 0..(n - 1)
    PROVE  /\ NextSequence(log) = n
           /\ TailHash(log) = ExpectedHash(log, n)
<1>1. CASE n = 0
  BY <1>1 DEF NextSequence, TailHash, ExpectedHash
<1>2. CASE n # 0
  <2>1. n - 1 \in DOMAIN log /\ \A k \in DOMAIN log : k <= n - 1
    BY <1>2
  <2>2. /\ Tail(log) \in DOMAIN log
        /\ \A k \in DOMAIN log : k <= Tail(log)
    BY <2>1, Zenon DEF Tail
  <2>3. Tail(log) \in 0..(n - 1) /\ n - 1 <= Tail(log)
    BY <2>1, <2>2
  <2>4. Tail(log) = n - 1
    BY <2>3
  <2> QED
    BY <1>2, <2>1, <2>4 DEF NextSequence, TailHash, ExpectedHash
<1> QED
  BY <1>1, <1>2

LEMMA LinkedLog ==
    ASSUME NEW log, NEW n \in Nat, DOMAIN log = 0..(n - 1),
           \A k \in DOMAIN log : log[k].prev_hash = ExpectedHash(log, k)
    PROVE  Linked(log) /\ NextSequence(log) = n
BY TailOfLog DEF Linked

\* Appending the row that carries the hash of the tail keeps a log linked.
LEMMA ExtendLog ==
    ASSUME NEW log, Linked(log), NEW row,
           NEW n, n = NextSequence(log),
           row.prev_hash = ExpectedHash(log, n),
           NEW longer, DOMAIN longer = DOMAIN log \cup {n},
           longer[n] = row, \A k \in DOMAIN log : longer[k] = log[k]
    PROVE  Linked(longer) /\ NextSequence(longer) = n + 1
<1>1. n \in Nat /\ DOMAIN longer = 0..((n + 1) - 1)
  BY DEF Linked
<1>2. ASSUME NEW k \in DOMAIN longer
      PROVE  longer[k].prev_hash = ExpectedHash(longer, k)
  <2>1. k \in 0..n /\ (k # 0 => k - 1 \in DOMAIN log)
    BY <1>1, <1>2 DEF Linked
  <2>2. ExpectedHash(longer, k) = ExpectedHash(log, k)
    BY <2>1 DEF ExpectedHash
  <2>3. CASE k = n
    BY <2>2, <2>3
  <2>4. CASE k # n
    BY <1>1, <1>2, <2>2, <2>4 DEF Linked
  <2> QED
    BY <2>3, <2>4
<1> QED
  BY <1>1, <1>2, LinkedLog, n + 1 \in Nat

\* A session whose view, locals and competitors stay as they are.
LEMMA FrameChain ==
    ASSUME NEW t \in Session, SessionChain(t),
           AuditView(t)' = AuditView(t),
           waudit'[t] = waudit[t],
           DOMAIN waudit[t] \cap DOMAIN audit' = {},
           \/ DOMAIN waudit[t] = {}
           \/ \A u \in Session \ {t} : DOMAIN waudit'[u] \subseteq DOMAIN waudit[u],
           \/ pc'[t] = pc[t] /\ call'[t] = call[t]
           \/ pc'[t] # "insert_audit"
    PROVE  SessionChain(t)'
<1>1. Linked(AuditView(t))' /\ NextSequence(AuditView(t))' = NextSequence(AuditView(t))
  BY DEF SessionChain
<1>2. \A n : ExpectedHash(AuditView(t), n)' = ExpectedHash(AuditView(t), n)
  OBVIOUS
<1> QED
  BY <1>1, <1>2 DEF SessionChain

LEMMA StutterChain ==
    ASSUME ChainInv, TypeOK', NEW s \in Session,
           UNCHANGED <<audit, waudit>>,
           \A t \in Session \ {s} : pc'[t] = pc[t] /\ call'[t] = call[t],
           pc'[s] # "insert_audit"
    PROVE  ChainInv'
<1>1. Linked(audit)'
  BY DEF ChainInv
<1>2. ASSUME NEW t \in Session PROVE SessionChain(t)'
  <2>1. AuditView(t)' = AuditView(t)
    BY DEF AuditView
  <2> QED
    BY <2>1, FrameChain DEF ChainInv, SessionChain
<1> QED
  BY <1>1, <1>2 DEF ChainInv

LEMMA OwnView ==
    ASSUME TypeOK, NEW s \in Session
    PROVE  /\ DOMAIN AuditView(s) = DOMAIN audit \cup DOMAIN waudit[s]
           /\ DOMAIN waudit[s] = {} => AuditView(s) = audit
BY DEF AuditView, TypeOK, LogOK

LEMMA ReadTailChain ==
    ASSUME ChainInv, TypeOK', NEW s \in Session, ReadTail(s), ~RaisedAfterWrite(s)
    PROVE  ChainInv'
<1> DEFINE view == AuditView(s)
<1>1. /\ UNCHANGED <<audit, waudit>>
      /\ \A t \in Session \ {s} : pc'[t] = pc[t] /\ call'[t] = call[t]
      /\ call'[s].sequence = NextSequence(view)
      /\ call'[s].prev_hash = TailHash(view)
  <2>1. /\ UNCHANGED <<audit, waudit>>
        /\ Goto(s, "insert_audit",
                [NoCall EXCEPT !.body = call[s].body,
                               !.sequence = NextSequence(view),
                               !.prev_hash = TailHash(view)])
    BY DEF ReadTail, committed, overlay
  <2> QED
    BY <2>1 DEF Goto, ChainInv, TypeOK, NoCall
<1>2. \A t \in Session : AuditView(t)' = AuditView(t)
  BY <1>1 DEF AuditView
<1>3. ASSUME NEW t \in Session \ {s} PROVE SessionChain(t)'
  BY <1>1, <1>2, FrameChain DEF ChainInv, SessionChain
<1>4. SessionChain(s)'
  <2>1. SessionChain(s) /\ Linked(view)
    BY DEF ChainInv, SessionChain
  <2>2. NextSequence(view) \in Nat /\ TailHash(view) = ExpectedHash(view, NextSequence(view))
    BY <2>1, TailOfLog DEF Linked
  <2>3. /\ view' = view
        /\ NextSequence(view)' = NextSequence(view)
        /\ \A n : ExpectedHash(view, n)' = ExpectedHash(view, n)
        /\ Linked(view)'
    BY <1>2, <2>1
  <2> QED
    BY <1>1, <2>1, <2>2, <2>3 DEF SessionChain
<1> QED
  BY <1>1, <1>3, <1>4 DEF ChainInv

\* The primary key admits the row only at the end of the log, and only while
\* no other session has rows of its own there.
LEMMA InsertAuditChain ==
    ASSUME ChainInv, TypeOK', NEW s \in Session, InsertAudit(s),
           ~UNCHANGED waudit
    PROVE  ChainInv'
<1> DEFINE view == AuditView(s)
           n == call[s].sequence
           row == [prev_hash |-> call[s].prev_hash, body |-> call[s].body]
<1>1. /\ pc[s] = "insert_audit" /\ n \notin DOMAIN view /\ Blockers(s) = {}
      /\ waudit' = [waudit EXCEPT ![s] =
            [k \in DOMAIN waudit[s] \cup {n} |->
                IF k = n THEN row ELSE waudit[s][k]]]
      /\ Return(s) /\ audit' = audit
  BY DEF InsertAudit, AuditClash, committed
<1>2. /\ waudit'[s] = [k \in DOMAIN waudit[s] \cup {n} |->
                            IF k = n THEN row ELSE waudit[s][k]]
      /\ \A t \in Session \ {s} : /\ waudit'[t] = waudit[t]
                                  /\ pc'[t] = pc[t] /\ call'[t] = call[t]
      /\ pc'[s] = "idle"
  BY <1>1 DEF Return, Goto, ChainInv, TypeOK
<1>3. /\ Linked(view) /\ NextSequence(view) \in Nat
      /\ DOMAIN view = 0..(NextSequence(view) - 1)
      /\ DOMAIN view = DOMAIN audit \cup DOMAIN waudit[s]
      /\ DOMAIN waudit[s] \cap DOMAIN audit = {}
      /\ n \in 0..NextSequence(view)
      /\ call[s].prev_hash = ExpectedHash(view, n)
  BY <1>1, OwnView DEF ChainInv, SessionChain, Linked
<1>4. n = NextSequence(view)
  BY <1>1, <1>3
<1>5. Linked(view')
  <2>1. /\ DOMAIN view' = DOMAIN view \cup {n}
        /\ view'[n] = row
        /\ \A k \in DOMAIN view : view'[k] = view[k]
    BY <1>1, <1>2, <1>3 DEF AuditView
  <2>2. row.prev_hash = ExpectedHash(view, n) /\ Linked(view)
    BY <1>3
  <2> HIDE DEF view, n, row
  <2> QED
    BY <1>4, <2>1, <2>2, ExtendLog
<1>6. ASSUME NEW t \in Session \ {s} PROVE DOMAIN waudit[t] = {}
  <2> SUFFICES ASSUME DOMAIN waudit[t] # {} PROVE FALSE
    OBVIOUS
  <2> DEFINE other == AuditView(t)
  <2>1. /\ NextSequence(other) \in Nat
        /\ DOMAIN other = 0..(NextSequence(other) - 1)
        /\ DOMAIN other = DOMAIN audit \cup DOMAIN waudit[t]
        /\ DOMAIN waudit[t] \cap DOMAIN audit = {}
    BY OwnView DEF ChainInv, SessionChain, Linked
  <2>2. DOMAIN audit = 0..(n - 1)
    BY <1>3, <1>4 DEF ChainInv, SessionChain
  <2>3. n \notin DOMAIN waudit[t]
    BY <1>1 DEF Blockers
  <2> HIDE DEF other, n
  <2>4. n \in Nat
    BY <1>3, <1>4
  <2>5. PICK m : m \in DOMAIN waudit[t]
    OBVIOUS
  <2>6. m \in DOMAIN other /\ m \notin 0..(n - 1)
    BY <2>1, <2>2, <2>5
  <2>7. n \in DOMAIN other
    BY <2>1, <2>4, <2>6
  <2>8. n \notin DOMAIN audit
    BY <2>2, <2>4
  <2> QED
    BY <2>1, <2>3, <2>7, <2>8
<1>7. ASSUME NEW t \in Session \ {s} PROVE SessionChain(t)'
  <2>1. AuditView(t)' = AuditView(t)
    BY <1>1, <1>2 DEF AuditView
  <2> QED
    BY <1>1, <1>2, <1>6, <2>1, FrameChain DEF ChainInv, SessionChain
<1>8. SessionChain(s)'
  <2>1. DOMAIN waudit'[s] \cap DOMAIN audit' = {}
    BY <1>1, <1>2, <1>3
  <2>2. \A t \in Session \ {s} : DOMAIN waudit'[t] = {}
    BY <1>2, <1>6
  <2> QED
    BY <1>2, <1>5, <2>1, <2>2 DEF SessionChain
<1>9. Linked(audit)'
  BY <1>1 DEF ChainInv
<1> QED
  BY <1>7, <1>8, <1>9 DEF ChainInv

LEMMA AbortChain ==
    ASSUME ChainInv, TypeOK', NEW s \in Session, Discard(s), UNCHANGED committed
    PROVE  ChainInv'
<1>1. /\ audit' = audit /\ DOMAIN waudit'[s] = {} /\ pc'[s] = "out"
      /\ \A t \in Session \ {s} : /\ waudit'[t] = waudit[t]
                                  /\ pc'[t] = pc[t] /\ call'[t] = call[t]
  BY DEF Discard, Goto, committed, EmptyLog, ChainInv, TypeOK
<1>2. Linked(audit)'
  BY <1>1 DEF ChainInv
<1>3. ASSUME NEW t \in Session \ {s} PROVE SessionChain(t)'
  <2>1. AuditView(t)' = AuditView(t)
    BY <1>1 DEF AuditView
  <2>2. \A u \in Session : DOMAIN waudit'[u] \subseteq DOMAIN waudit[u]
    BY <1>1
  <2> QED
    BY <1>1, <2>1, <2>2, FrameChain DEF ChainInv, SessionChain
<1>4. SessionChain(s)'
  <2>1. AuditView(s)' = audit'
    BY <1>1 DEF AuditView, TypeOK, LogOK
  <2> QED
    BY <1>1, <1>2, <2>1 DEF SessionChain
<1> QED
  BY <1>2, <1>3, <1>4 DEF ChainInv

\* A commit without audit rows leaves the log alone; one with audit rows
\* moves the log to what the session read, and nobody else has any.
LEMMA CommitChain ==
    ASSUME ChainInv, TypeOK', NEW s \in Session, Commit(s)
    PROVE  ChainInv'
<1>1. /\ audit' = AuditView(s) /\ DOMAIN waudit'[s] = {} /\ pc'[s] = "out"
      /\ \A t \in Session \ {s} : /\ waudit'[t] = waudit[t]
                                  /\ pc'[t] = pc[t] /\ call'[t] = call[t]
  BY DEF Commit, Discard, Goto, EmptyLog, ChainInv, TypeOK
<1>2. Linked(audit')
  BY <1>1 DEF ChainInv, SessionChain
<1>3. SessionChain(s)'
  <2>1. AuditView(s)' = audit'
    BY <1>1 DEF AuditView, TypeOK, LogOK
  <2> QED
    BY <1>1, <1>2, <2>1 DEF SessionChain
<1>4. ASSUME NEW t \in Session \ {s} PROVE SessionChain(t)'
  <2>1. CASE DOMAIN waudit[s] = {}
    <3>1. audit' = audit
      BY <1>1, <2>1, OwnView DEF ChainInv
    <3>2. AuditView(t)' = AuditView(t)
      BY <1>1, <3>1 DEF AuditView
    <3>3. \A u \in Session : DOMAIN waudit'[u] \subseteq DOMAIN waudit[u]
      BY <1>1
    <3> QED
      BY <1>1, <3>1, <3>2, <3>3, FrameChain DEF ChainInv, SessionChain
  <2>2. CASE DOMAIN waudit[s] # {}
    <3> DEFINE n == call[t].sequence
    <3>1. DOMAIN waudit[t] = {} /\ AuditView(t) = audit
      BY <2>2, OwnView DEF ChainInv, SessionChain
    <3>2. AuditView(t)' = audit'
      <4>1. DOMAIN waudit'[t] = {} /\ audit' = [k \in DOMAIN audit' |-> audit'[k]]
        BY <1>1, <3>1 DEF TypeOK, LogOK
      <4> QED
        BY <4>1 DEF AuditView
    <3>3. /\ NextSequence(audit) \in Nat
          /\ DOMAIN audit = 0..(NextSequence(audit) - 1)
          /\ NextSequence(audit') \in Nat
          /\ DOMAIN audit' = 0..(NextSequence(audit') - 1)
      BY <1>2 DEF ChainInv, Linked
    <3>4. \A k \in DOMAIN audit : k \in DOMAIN audit' /\ audit'[k] = audit[k]
      BY <1>1 DEF AuditView, ChainInv, SessionChain
    <3>5. NextSequence(audit) <= NextSequence(audit')
      BY <3>3, <3>4
    <3>6. ASSUME pc[t] = "insert_audit"
          PROVE  /\ n \in 0..NextSequence(audit')
                 /\ call[t].prev_hash = ExpectedHash(audit', n)
      <4>1. n \in 0..NextSequence(audit) /\ call[t].prev_hash = ExpectedHash(audit, n)
        BY <3>1, <3>6 DEF ChainInv, SessionChain
      <4>2. n # 0 => n - 1 \in DOMAIN audit
        BY <3>3, <4>1
      <4>3. ExpectedHash(audit, n) = ExpectedHash(audit', n)
        BY <3>4, <4>2 DEF ExpectedHash
      <4> QED
        BY <3>3, <3>5, <4>1, <4>3
    <3>7. DOMAIN waudit'[t] = {}
      BY <1>1, <3>1
    <3> QED
      BY <1>1, <1>2, <3>2, <3>6, <3>7 DEF SessionChain
  <2> QED
    BY <2>1, <2>2
<1> QED
  BY <1>2, <1>3, <1>4 DEF ChainInv

LEMMA InitChain == Init => ChainInv
<1> SUFFICES ASSUME Init PROVE ChainInv
  OBVIOUS
<1>1. TypeOK
  BY InitType
<1>2. audit = EmptyLog /\ DOMAIN audit = {}
  BY DEF Init, EmptyLog
<1>3. Linked(audit)
  BY <1>2, LinkedLog, 0 \in Nat, DOMAIN audit = 0..(0 - 1)
<1>4. \A s \in Session : /\ DOMAIN waudit[s] = {} /\ pc[s] # "insert_audit"
                         /\ AuditView(s) = audit
  BY <1>1, OwnView DEF Init, EmptyLog
<1> QED
  BY <1>1, <1>3, <1>4 DEF ChainInv, SessionChain

LEMMA StepChain == ChainInv /\ [Next]_vars => ChainInv'
<1> SUFFICES ASSUME ChainInv, [Next]_vars PROVE ChainInv'
  OBVIOUS
<1>0. TypeOK'
  BY StepType DEF ChainInv
<1>1. CASE UNCHANGED vars
  <2>1. UNCHANGED <<audit, waudit, pc, call>>
    BY <1>1 DEF vars, committed, overlay
  <2>2. \A t \in Session : AuditView(t)' = AuditView(t)
    BY <2>1 DEF AuditView
  <2>3. ASSUME NEW t \in Session PROVE SessionChain(t)'
    BY <2>1, <2>2, FrameChain DEF ChainInv, SessionChain
  <2> QED
    BY <1>0, <2>1, <2>3 DEF ChainInv
<1>2. ASSUME NEW s \in Session,
             NEW place \in Place \ {"insert_audit"}, NEW locals,
             Goto(s, place, locals), UNCHANGED <<audit, waudit>>
      PROVE  ChainInv'
  BY <1>0, <1>2, StutterChain DEF Goto, ChainInv, TypeOK
<1>3. ASSUME NEW s \in Session, Begin(s) \/ DeadlockVictim(s) PROVE ChainInv'
  BY <1>2, <1>3
  DEF Begin, DeadlockVictim, DatabaseError, Place, committed, overlay
<1>4. ASSUME NEW s \in Session, Request(s) PROVE ChainInv'
  BY <1>2, <1>4
  DEF Request, OpenCase, Transition, AppendNote, Enqueue, Calling, Return,
      Place, committed, overlay
<1>5. ASSUME NEW s \in Session,
             InsertCase(s) \/ UpdateCase(s) \/ ReadClash(s) \/ InsertOutbox(s)
      PROVE  ChainInv'
  BY <1>2, <1>5
  DEF InsertCase, UpdateCase, ReadClash, InsertOutbox, DatabaseError, Return,
      Place, committed, overlay
<1>6. ASSUME NEW s \in Session, ReadTail(s) PROVE ChainInv'
  <2>1. CASE RaisedAfterWrite(s)
    BY <1>2, <1>6, <2>1
    DEF ReadTail, RaisedAfterWrite, Return, Place, committed, overlay
  <2> QED
    BY <1>0, <1>6, <2>1, ReadTailChain
<1>7. ASSUME NEW s \in Session, InsertAudit(s) PROVE ChainInv'
  <2>1. CASE UNCHANGED waudit
    <3>1. UNCHANGED audit /\ (DatabaseError(s) \/ Return(s))
      BY <1>7 DEF InsertAudit, committed
    <3> QED
      BY <1>2, <2>1, <3>1 DEF DatabaseError, Return, Place
  <2> QED
    BY <1>0, <1>7, <2>1, InsertAuditChain
<1>8. ASSUME NEW s \in Session, Commit(s) PROVE ChainInv'
  BY <1>0, <1>8, CommitChain
<1>9. ASSUME NEW s \in Session, RollBack(s) \/ Crash(s) PROVE ChainInv'
  BY <1>0, <1>9, AbortChain DEF RollBack, Crash
<1> QED
  BY <1>1, <1>3, <1>4, <1>5, <1>6, <1>7, <1>8, <1>9 DEF Next, Statement

\* Concurrent appends never fork, skip or reorder the hash chain: the tail a
\* session read is still the tail when its INSERT goes through.
THEOREM ChainIntactAlways == Spec => []ChainIntact
<1>1. ChainInv => ChainIntact
  BY DEF ChainInv, Linked, ChainIntact
<1> QED
  BY <1>1, InitChain, StepChain, PTL DEF Spec

-----------------------------------------------------------------------------
(***************************************************************************)
(* Stored cases pass validation.                                           *)
(***************************************************************************)

LEMMA ViewIsValid ==
    ASSUME ValidInv, NEW s \in Session, NEW c \in Case
    PROVE  ValidOrNone(CaseView(s)[c])
BY DEF ValidInv, CaseView

\* A step of s that writes no case row and reaches no statement that will.
LEMMA ElsewhereValid ==
    ASSUME ValidInv, TypeOK', NEW s \in Session, NEW place, NEW locals,
           Goto(s, place, locals), UNCHANGED <<cases, wcases>>,
           place \in {"insert_case", "update_case"} =>
                ValidOrNone(locals.row)
    PROVE  ValidInv'
<1>1. /\ \A t \in Session \ {s} : pc'[t] = pc[t] /\ call'[t] = call[t]
      /\ pc'[s] = place /\ call'[s] = locals
  BY DEF Goto, ValidInv, TypeOK
<1> QED
  BY <1>1 DEF ValidInv, ValidOrNone

LEMMA RequestValid ==
    ASSUME ValidInv, TypeOK', NEW s \in Session, Request(s)
    PROVE  ValidInv'
<1>1. CASE \E c \in Case : OpenCase(s, c)
  <2> PICK c \in Case : OpenCase(s, c)
    BY <1>1
  <2> DEFINE row == NewCase(c)
             locals == [NoCall EXCEPT !.case = c, !.row = row,
                    !.body = [case_id |-> c, from |-> None, to |-> "detected"]]
  <2>1. UNCHANGED <<cases, wcases>> /\ (Return(s) \/ Goto(s, "insert_case", locals))
    BY DEF OpenCase, Calling, committed, overlay
  <2>2. locals.row = row /\ ValidOrNone(row)
    BY NewCaseType DEF NoCall, ValidOrNone
  <2> QED
    BY <2>1, <2>2, ElsewhereValid DEF Return
<1>2. CASE \E c \in Case, to \in RequestedState, update \in FieldUpdates :
              Transition(s, c, to, update)
  <2> PICK c \in Case, to \in RequestedState, update \in FieldUpdates :
              Transition(s, c, to, update)
    BY <1>2
  <2> DEFINE current == CaseView(s)[c]
             row == Rebuild(current, to, update)
             locals == [NoCall EXCEPT !.case = c, !.row = row,
                    !.body = [case_id |-> c, from |-> current.state, to |-> to]]
  <2>1. /\ UNCHANGED <<cases, wcases>>
        /\ \/ Return(s)
           \/ Goto(s, "update_case", locals) /\ ValidCase(row)
    BY DEF Transition, Accepts, Calling, committed, overlay
  <2>2. locals.row = row /\ locals.case = c
    BY DEF NoCall
  <2> QED
    BY <2>1, <2>2, ElsewhereValid DEF Return, ValidOrNone
<1>3. CASE \E c \in Case : AppendNote(s, c)
  BY <1>3, ElsewhereValid DEF AppendNote, Calling, committed, overlay
<1>4. CASE \E e \in Envelope : Enqueue(s, e)
  <2>1. /\ UNCHANGED <<cases, wcases>>
        /\ \E place \in {"idle", "read_clash", "insert_outbox"}, locals \in {call'[s]} :
                Goto(s, place, locals)
    BY <1>4 DEF Enqueue, Calling, committed, overlay, Return, Goto, ValidInv, TypeOK
  <2> QED
    BY <2>1, ElsewhereValid
<1> QED
  BY <1>1, <1>2, <1>3, <1>4 DEF Request

LEMMA StatementValid ==
    ASSUME ValidInv, TypeOK', NEW s \in Session, Statement(s)
    PROVE  ValidInv'
<1>1. CASE InsertCase(s) \/ UpdateCase(s)
  <2>1. CASE DatabaseError(s) /\ UNCHANGED wcases
    BY <1>1, <2>1, ElsewhereValid
    DEF InsertCase, UpdateCase, DatabaseError, committed
  <2>2. CASE /\ wcases' = [wcases EXCEPT ![s][call[s].case] = call[s].row]
             /\ Goto(s, "read_tail", call[s])
    <3>1. /\ UNCHANGED cases
          /\ ValidOrNone(call[s].row)
      BY <1>1 DEF InsertCase, UpdateCase, committed, ValidInv
    <3>2. \A t \in Session, d \in Case : ValidOrNone(wcases'[t][d])
      BY <2>2, <3>1 DEF ValidInv, TypeOK
    <3>3. /\ \A t \in Session \ {s} : pc'[t] = pc[t] /\ call'[t] = call[t]
          /\ pc'[s] = "read_tail"
      BY <2>2 DEF Goto, ValidInv, TypeOK
    <3> QED
      BY <3>1, <3>2, <3>3 DEF ValidInv, ValidOrNone
  <2> QED
    BY <1>1, <2>1, <2>2 DEF InsertCase, UpdateCase
<1>2. CASE ReadTail(s)
  BY <1>2, ElsewhereValid
  DEF ReadTail, RaisedAfterWrite, Return, committed, overlay
<1>3. CASE InsertAudit(s)
  BY <1>3, ElsewhereValid DEF InsertAudit, DatabaseError, Return, committed
<1>4. CASE ReadClash(s)
  BY <1>4, ElsewhereValid DEF ReadClash, Return, committed, overlay
<1>5. CASE InsertOutbox(s)
  BY <1>5, ElsewhereValid DEF InsertOutbox, DatabaseError, Return, committed
<1> QED
  BY <1>1, <1>2, <1>3, <1>4, <1>5 DEF Statement

\* A commit stores what the session could read.
LEMMA DiscardValid ==
    ASSUME ValidInv, TypeOK', NEW s \in Session, Discard(s),
           cases' = cases \/ cases' = CaseView(s)
    PROVE  ValidInv'
<1>1. /\ \A t \in Session \ {s} : /\ pc'[t] = pc[t] /\ call'[t] = call[t]
                                   /\ wcases'[t] = wcases[t]
      /\ pc'[s] = "out" /\ wcases'[s] = [c \in Case |-> None]
  BY DEF Discard, Goto, ValidInv, TypeOK
<1>2. \A c \in Case : ValidOrNone(cases'[c])
  BY ViewIsValid DEF ValidInv
<1> QED
  BY <1>1, <1>2 DEF ValidInv, ValidOrNone

LEMMA InitValid == Init => ValidInv
BY InitType DEF Init, ValidInv, ValidOrNone

LEMMA StepValid == ValidInv /\ [Next]_vars => ValidInv'
<1> SUFFICES ASSUME ValidInv, [Next]_vars PROVE ValidInv'
  OBVIOUS
<1>0. TypeOK'
  BY StepType DEF ValidInv
<1>1. CASE UNCHANGED vars
  BY <1>0, <1>1 DEF vars, committed, overlay, ValidInv, ValidOrNone
<1>2. ASSUME NEW s \in Session, Begin(s) PROVE ValidInv'
  BY <1>0, <1>2, ElsewhereValid DEF Begin, committed, overlay
<1>3. ASSUME NEW s \in Session, Commit(s) \/ RollBack(s) \/ Crash(s) PROVE ValidInv'
  BY <1>0, <1>3, DiscardValid DEF Commit, RollBack, Crash, committed
<1>4. ASSUME NEW s \in Session, DeadlockVictim(s) PROVE ValidInv'
  BY <1>0, <1>4, ElsewhereValid DEF DeadlockVictim, DatabaseError, committed, overlay
<1> QED
  BY <1>0, <1>1, <1>2, <1>3, <1>4, RequestValid, StatementValid DEF Next

\* No sequence of calls, and no interleaving of sessions, leaves a case that
\* RiskCase would refuse to load: a stop without its reason, or a plan in
\* the no-action arm.
THEOREM StoredCasesAreValidAlways == Spec => []StoredCasesAreValid
<1>1. ValidInv => StoredCasesAreValid
  BY ViewIsValid DEF StoredCasesAreValid, ValidOrNone
<1> QED
  BY <1>1, InitValid, StepValid, PTL DEF Spec

=============================================================================
