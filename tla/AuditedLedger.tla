---------------------------- MODULE AuditedLedger ----------------------------
(***************************************************************************)
(* What the spine promises its readers: the audit log only grows, every    *)
(* row in it records a case being opened, an edge of the lifecycle or no   *)
(* state change, and replaying it gives the ledger (reclaim/contracts/     *)
(* case.py: "State changes produce a new instance plus an audit row ... so *)
(* an unaudited state change is not expressible").                         *)
(***************************************************************************)
EXTENDS Naturals, CaseLifecycle

CONSTANTS Case, None

VARIABLES
    ledger,  \* the state of every case, None before it is opened
    log      \* sequence -> [case_id, from, to], numbered from 0

RecordedChange(body) ==
    \/ body.from = None /\ body.to = None
    \/ body.from = None /\ body.to = "detected"
    \/ /\ body.from \in CaseState
       /\ IsTransitionAllowed(body.from, body.to)

\* The rows of l that change the state of case c.
ChangesOf(l, c) == {n \in DOMAIN l : l[n].case_id = c /\ l[n].to # None}

IsLastChange(l, c, n) ==
    n \in ChangesOf(l, c) /\ \A k \in ChangesOf(l, c) : k <= n

Replays(state, l) ==
    \A c \in Case :
        \/ ChangesOf(l, c) = {} /\ state[c] = None
        \/ \E n \in DOMAIN l : IsLastChange(l, c, n) /\ state[c] = l[n].to

Init ==
    /\ ledger = [c \in Case |-> None]
    /\ DOMAIN log = {}

\* A committed transaction adds any number of rows at the end.
Append ==
    /\ \A n \in DOMAIN log' : 0..n \subseteq DOMAIN log'
    /\ \A n \in DOMAIN log : n \in DOMAIN log' /\ log'[n] = log[n]
    /\ \A n \in DOMAIN log' : RecordedChange(log'[n])
    /\ Replays(ledger', log')

Spec == Init /\ [][Append]_<<ledger, log>>

=============================================================================
