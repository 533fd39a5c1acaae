---------------------------- MODULE InvariantChecks ----------------------------
(***************************************************************************)
(* The checks a finished batch is read with (reclaim/invariants.py), as    *)
(* functions of the tables.  They read columns and raw JSON, and so must   *)
(* answer for rows no operation of the program would write: a row here is  *)
(* whatever the columns and the blob hold.                                 *)
(*                                                                         *)
(*   outbox row  [id, case_id, key, action_type, columns, status,          *)
(*               envelope]; the envelope, [action, coords], says what the  *)
(*               action is and which debit attempt, and the columns        *)
(*               action_type and columns repeat it                         *)
(*   audit row   [sequence, case_id, event_type, key]                      *)
(*   case        [case_id, obligation_id, state, amount]                   *)
(*   obligation  [obligation_id, gross, data], data being [paid, credited] *)
(***************************************************************************)
EXTENDS Money, FiniteSets, CaseLifecycle

CONSTANTS
    None,
    Malformed   \* JSON that is none, or lacks what is looked up in it

\* A check that raises has no result: InvariantResult refuses to hold over
\* nothing, and to be violated by nobody.
Raised == [number |-> 0, status |-> "raised", candidates |-> 0, offenders |-> {}]
InvariantResult(number, status, candidates, offenders) ==
    IF \/ status = "holds" /\ candidates = 0
       \/ status = "violated" /\ offenders = {}
    THEN Raised
    ELSE [number |-> number, status |-> status, candidates |-> candidates,
          offenders |-> offenders]

\* Violated, else vacuous, else it holds.
Verdict(number, violated, vacuous, candidates, offenders) ==
    InvariantResult(number,
                    CASE violated -> "violated"
                      [] ~violated /\ vacuous -> "vacuous"
                      [] OTHER -> "holds",
                    candidates,
                    IF violated THEN offenders ELSE {})

CasesOf(rows) == {row.case_id : row \in rows}
WithKey(rows, key) == {row \in rows : row.key = key}
KeysOf(rows) == {row.key : row \in rows} \ {None}

-----------------------------------------------------------------------------
\* #1.  The faulty variant groups by the columns that repeat the envelope.

DuplicateAttemptsFaulty(debits) ==
    {row \in debits : Cardinality({q \in debits : q.columns = row.columns}) > 1}
DuplicateAttempts(debits) ==
    {row \in debits :
        Cardinality({q \in debits : q.envelope.coords = row.envelope.coords}) > 1}

DuplicateKeys(rows) == {row \in rows : Cardinality(WithKey(rows, row.key)) > 1}

\* The rows are selected by a column, before any envelope is looked at.
SelectedDebits(db) == {row \in db.outbox : row.action_type = "schedule_debit"}

CheckNoDoubleDebit(db) ==
    LET debits == SelectedDebits(db)
        duplicates == DuplicateAttempts(debits) \cup DuplicateKeys(debits)
    IN  IF \E row \in debits : row.envelope = Malformed THEN Raised
        ELSE Verdict(1, duplicates # {}, debits = {}, Cardinality(debits),
                     CasesOf(duplicates))

-----------------------------------------------------------------------------
\* #8.  Only the cases that are there are named.

CheckActionAuditPairing(db) ==
    LET audited == {row \in db.audit : row.key # None}
        unaudited == {row \in db.outbox : row.key \notin KeysOf(audited)}
        overAudited == {row \in db.outbox : Cardinality(WithKey(audited, row.key)) > 1}
        orphans == {row \in audited : row.key \notin KeysOf(db.outbox)}
        duplicates == DuplicateKeys(db.outbox)
    IN  Verdict(8,
                unaudited \cup overAudited \cup orphans \cup duplicates # {},
                db.outbox = {},
                Cardinality(db.outbox),
                CasesOf(unaudited \cup overAudited \cup duplicates)
                    \cup (CasesOf(orphans) \ {None}))

-----------------------------------------------------------------------------
\* #9.  A row that is open is still going to happen; a state is taken for a
\* human task, and a logged decision for a reason why nothing happens, but
\* neither is a next step.

HumanTaskProxyStates == {"awaiting_approval", "escalated"}
OpenStatuses == {"pending", "claimed"}
NoActionDecisionEvents == {"control_arm_no_action", "arm_not_routed"}

OpenRows(db, c) ==
    {row \in db.outbox : row.case_id = c.case_id /\ row.status \in OpenStatuses}

Decided(db, c) ==
    \E row \in db.audit :
        row.case_id = c.case_id /\ row.event_type \in NoActionDecisionEvents

\* Where a live case is counted; the faulty variant believes the state first.
StandingFaulty(db, c) ==
    LET open == Cardinality(OpenRows(db, c))
    IN  IF c.state \in HumanTaskProxyStates THEN "proxied"
        ELSE CASE open = 1 -> "scheduled"
               [] open > 1 -> "over_scheduled"
               [] open = 0 /\ Decided(db, c) -> "closed"
               [] OTHER -> "orphaned"
Standing(db, c) ==
    LET open == Cardinality(OpenRows(db, c))
    IN  CASE open = 1 -> "scheduled"
          [] open > 1 -> "over_scheduled"
          [] open = 0 /\ c.state \in HumanTaskProxyStates -> "proxied"
          [] open = 0 /\ c.state \notin HumanTaskProxyStates /\ Decided(db, c) -> "closed"
          [] OTHER -> "orphaned"

CheckNoOrphanedLiveCase(db) ==
    LET live == {c \in db.cases : c.state \notin TerminalCaseStates}
        bad == {c \in live : Standing(db, c) \in {"orphaned", "over_scheduled"}}
    IN  Verdict(9, bad # {}, \A c \in live : Standing(db, c) # "scheduled",
                Cardinality(live), CasesOf(bad))

-----------------------------------------------------------------------------
\* #6.  What the obligation says was settled and what its recovered cases
\* recognise are compared with the gross amount one by one, never summed.

RecoveredOn(db, o) ==
    {c \in db.cases : c.obligation_id = o.obligation_id /\ c.state = "recovered"}
Recognised(db, o) == MoneySum([c \in RecoveredOn(db, o) |-> c.amount])
Settled(o) == o.data.paid + o.data.credited

CheckRecoveryWithinAmountOwed(db) ==
    LET candidates == {o \in db.obligations : Settled(o) # 0 \/ Recognised(db, o) # 0}
        breaches == {o \in candidates : Settled(o) > o.gross \/ Recognised(db, o) > o.gross}
        named == UNION {CasesOf(RecoveredOn(db, o)) : o \in breaches}
    IN  IF \E o \in db.obligations : o.data = Malformed THEN Raised
        ELSE Verdict(6, breaches # {}, candidates = {}, Cardinality(candidates),
                     IF named # {} THEN named ELSE {o.obligation_id : o \in breaches})

-----------------------------------------------------------------------------
\* Six of the ten are not implemented.

Check(number, db) ==
    CASE number = 1 -> CheckNoDoubleDebit(db)
      [] number = 6 -> CheckRecoveryWithinAmountOwed(db)
      [] number = 8 -> CheckActionAuditPairing(db)
      [] number = 9 -> CheckNoOrphanedLiveCase(db)
      [] OTHER -> InvariantResult(number, "not_checkable", 0, {})

\* One check that raises leaves no report at all.
CheckAll(db) ==
    IF \E number \in 1 .. 10 : Check(number, db) = Raised
    THEN [number \in 1 .. 10 |-> Raised]
    ELSE [number \in 1 .. 10 |-> Check(number, db)]

=============================================================================
