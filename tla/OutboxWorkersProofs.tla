------------------------- MODULE OutboxWorkersProofs -------------------------
(***************************************************************************)
(* Proofs about the outbox workers on PostgreSQL, for any workers, rows    *)
(* and number of crashes.                                                  *)
(***************************************************************************)
EXTENDS OutboxWorkers, TLAPS

LEMMA InitClaim == Init => ClaimInv
BY NoneAssumption, CrashAssumption
DEF Init, ClaimInv, TypeOK, LockedPick, ClaimIsForCaller, Status, Place

LEMMA StepType == TypeOK /\ [Next]_vars => TypeOK'
<1> SUFFICES ASSUME TypeOK, [Next]_vars PROVE TypeOK'
  OBVIOUS
<1>1. CASE UNCHANGED vars
  BY <1>1 DEF TypeOK, vars
<1>2. ASSUME NEW r \in Row, Enqueue(r) PROVE TypeOK'
  BY <1>2 DEF TypeOK, Enqueue, Status
<1>3. ASSUME NEW w \in Worker, SelectPending(w) PROVE TypeOK'
  BY <1>3, NoneAssumption DEF TypeOK, SelectPending, Candidates, Place
<1>4. ASSUME NEW w \in Worker, UpdateClaim(w) PROVE TypeOK'
  BY <1>4 DEF TypeOK, UpdateClaim, Place
<1>5. ASSUME NEW w \in Worker, CommitClaim(w) PROVE TypeOK'
  BY <1>5 DEF TypeOK, CommitClaim, Place, Status
<1>6. ASSUME NEW w \in Worker, NEW result \in {"done", "failed"}, Settle(w, result)
      PROVE  TypeOK'
  BY <1>6 DEF TypeOK, Settle, Place, Status
<1>7. ASSUME NEW w \in Worker, Crash(w) PROVE TypeOK'
  BY <1>7, CrashAssumption DEF TypeOK, Crash, Place
<1> QED
  BY <1>1, <1>2, <1>3, <1>4, <1>5, <1>6, <1>7 DEF Next, Work

LEMMA StepClaim == Postgres /\ ClaimInv /\ [Next]_vars => ClaimInv'
<1> SUFFICES ASSUME Postgres, ClaimInv, [Next]_vars PROVE ClaimInv'
  OBVIOUS
<1>0. TypeOK' /\ TypeOK /\ LockedPick /\ ClaimIsForCaller
  BY StepType DEF ClaimInv
<1>1. CASE UNCHANGED vars
  BY <1>0, <1>1 DEF ClaimInv, LockedPick, ClaimIsForCaller, vars
<1>2. ASSUME NEW r \in Row, Enqueue(r) PROVE ClaimInv'
  BY <1>0, <1>2 DEF ClaimInv, LockedPick, ClaimIsForCaller, Enqueue, TypeOK
<1>3. ASSUME NEW w \in Worker, SelectPending(w) PROVE ClaimInv'
  <2>1. PICK r \in Row : /\ r \in Candidates(w)
                         /\ picked' = [picked EXCEPT ![w] = r]
    BY <1>3 DEF SelectPending, Candidates
  <2>2. /\ status[r] = "pending"
        /\ \A t \in Worker \ {w} :
                ~(pc[t] \in {"update", "commit"} /\ picked[t] = r)
    BY <2>1 DEF Candidates, Skipped, LockedByOther, Locks
  <2>3. /\ pc' = [pc EXCEPT ![w] = "update"] /\ pc[w] = "out"
        /\ UNCHANGED <<status, claimed_by, matched>>
    BY <1>3 DEF SelectPending
  <2>4. /\ \A t \in Worker : /\ pc'[t] = IF t = w THEN "update" ELSE pc[t]
                            /\ picked'[t] = IF t = w THEN r ELSE picked[t]
        /\ UNCHANGED <<status, claimed_by, matched>>
    BY <1>0, <2>1, <2>3 DEF TypeOK
  <2>5. \A t \in Worker : pc'[t] = "commit" <=> pc[t] = "commit"
    BY <2>3, <2>4
  <2>6. \A t \in Worker : matched'[t] <=> pc'[t] = "commit"
    BY <1>0, <2>4, <2>5, Zenon DEF LockedPick
  <2>7. \A t \in Worker : pc'[t] \in {"update", "commit"} =>
            status'[picked'[t]] = "pending"
    BY <1>0, <2>2, <2>4 DEF LockedPick
  <2>8. \A t, u \in Worker :
            /\ pc'[t] \in {"update", "commit"} /\ pc'[u] \in {"update", "commit"}
            /\ picked'[t] = picked'[u]
            => t = u
    BY <1>0, <2>2, <2>4 DEF LockedPick
  <2>9. ClaimIsForCaller'
    BY <1>0, <2>4 DEF ClaimIsForCaller
  <2> QED
    <3>1. LockedPick'
      BY <2>6, <2>7, <2>8, Zenon DEF LockedPick
    <3> QED
      BY <1>0, <2>9, <3>1 DEF ClaimInv
<1>4. ASSUME NEW w \in Worker, UpdateClaim(w) PROVE ClaimInv'
  <2>1. /\ pc[w] = "update" /\ status[picked[w]] = "pending"
        /\ UNCHANGED <<status, claimed_by, picked>>
    BY <1>0, <1>4 DEF UpdateClaim, LockedPick
  <2>2. \A t \in Worker : pc'[t] = IF t = w THEN "commit" ELSE pc[t]
    BY <1>0, <1>4 DEF UpdateClaim, TypeOK
  <2>3. /\ matched'[w]
        /\ \A t \in Worker : t # w => matched'[t] = matched[t]
    BY <1>0, <1>4, <2>1, Zenon DEF UpdateClaim, TypeOK
  <2>4. \A t \in Worker : matched'[t] <=> pc'[t] = "commit"
    BY <1>0, <2>2, <2>3, Zenon DEF LockedPick
  <2>5. /\ \A t \in Worker : pc'[t] \in {"update", "commit"} =>
                status'[picked'[t]] = "pending"
        /\ \A t, u \in Worker :
                /\ pc'[t] \in {"update", "commit"} /\ pc'[u] \in {"update", "commit"}
                /\ picked'[t] = picked'[u]
                => t = u
    BY <1>0, <2>1, <2>2 DEF LockedPick
  <2>6. LockedPick'
    BY <2>4, <2>5, Zenon DEF LockedPick
  <2>7. ClaimIsForCaller'
    BY <1>0, <2>1, <2>2 DEF ClaimIsForCaller
  <2> QED
    BY <1>0, <2>6, <2>7 DEF ClaimInv
<1>5. ASSUME NEW w \in Worker, CommitClaim(w) PROVE ClaimInv'
  BY <1>0, <1>5 DEF ClaimInv, LockedPick, ClaimIsForCaller, CommitClaim, TypeOK
<1>6. ASSUME NEW w \in Worker, NEW result \in {"done", "failed"}, Settle(w, result)
      PROVE  ClaimInv'
  BY <1>0, <1>6 DEF ClaimInv, LockedPick, ClaimIsForCaller, Settle, TypeOK
<1>7. ASSUME NEW w \in Worker, Crash(w) PROVE ClaimInv'
  BY <1>0, <1>7 DEF ClaimInv, LockedPick, ClaimIsForCaller, Crash, TypeOK
<1> QED
  BY <1>1, <1>2, <1>3, <1>4, <1>5, <1>6, <1>7 DEF Next, Work

\* On either database, every row has a status of the schema and is claimed by
\* no one but a worker, and a worker holds what it has selected.
THEOREM OutboxTypeCorrect == Spec => []TypeOK
<1>1. Init => TypeOK
  BY InitClaim DEF ClaimInv
<1> QED
  BY <1>1, StepType, PTL DEF Spec

\* With FOR UPDATE SKIP LOCKED, a row that claim returns is claimed for the
\* worker that called it: no two workers execute one action.
THEOREM ClaimIsForCallerAlways == Postgres /\ Spec => []ClaimIsForCaller
<1> SUFFICES ASSUME Postgres PROVE Spec => []ClaimIsForCaller
  OBVIOUS
<1>1. ClaimInv /\ [Next]_vars => ClaimInv'
  BY StepClaim
<1>2. ClaimInv => ClaimIsForCaller
  BY DEF ClaimInv
<1> QED
  BY <1>1, <1>2, InitClaim, PTL DEF Spec

\* The recorded outcome of an action is never overwritten.
THEOREM OutcomeIsFinalAlways == Postgres /\ Spec => OutcomeIsFinal
<1> SUFFICES ASSUME Postgres PROVE Spec => OutcomeIsFinal
  OBVIOUS
<1>1. ClaimInv /\ [Next]_vars =>
        [\A r \in Row : status[r] \in {"done", "failed"} => status'[r] = status[r]]_vars
  <2> SUFFICES ASSUME ClaimInv, Next, NEW r \in Row,
                      status[r] \in {"done", "failed"}
               PROVE  status'[r] = status[r]
    OBVIOUS
  <2>1. ASSUME NEW w \in Worker, CommitClaim(w) PROVE status'[r] = status[r]
    BY <2>1 DEF ClaimInv, TypeOK, LockedPick, CommitClaim
  <2>2. ASSUME NEW w \in Worker, NEW result \in {"done", "failed"}, Settle(w, result)
        PROVE  status'[r] = status[r]
    BY <2>2 DEF ClaimInv, TypeOK, ClaimIsForCaller, Settle
  <2>3. ASSUME NEW k \in Row, Enqueue(k) PROVE status'[r] = status[r]
    BY <2>3 DEF ClaimInv, TypeOK, Enqueue
  <2> QED
    BY <2>1, <2>2, <2>3 DEF Next, Work, SelectPending, UpdateClaim, Crash
<1>2. ClaimInv /\ [Next]_vars => ClaimInv'
  BY StepClaim
<1> QED
  BY <1>1, <1>2, InitClaim, PTL DEF Spec, OutcomeIsFinal

=============================================================================
