---------------------------- MODULE OutboxWorkers ----------------------------
(***************************************************************************)
(* The worker side of the outbox (reclaim/spine/outbox.py): claim,         *)
(* mark_done and mark_failed, called by workers on rows that enqueue       *)
(* committed (module Spine has enqueue itself).                            *)
(*                                                                         *)
(* claim is a SELECT, an UPDATE and a SELECT in the worker's transaction.  *)
(* On PostgreSQL the first one is FOR UPDATE SKIP LOCKED.  On SQLite it is *)
(* a plain read outside any transaction -- the driver begins one at the    *)
(* first write -- and the UPDATE takes the database's one write lock.      *)
(***************************************************************************)
EXTENDS Naturals

CONSTANTS
    Worker,
    Row,         \* outbox ids
    Postgres,    \* is_postgres(conn)
    MaxCrashes,  \* bound: worker processes that die
    None

ASSUME RowAssumption == Row \subseteq Nat
ASSUME DialectAssumption == Postgres \in BOOLEAN
ASSUME CrashAssumption == MaxCrashes \in Nat
ASSUME NoneAssumption == None \notin Row /\ None \notin Worker

VARIABLES
    status,      \* committed status of every row, "absent" before enqueue
    claimed_by,  \* committed claimed_by column
    pc,          \* per worker: the statement it is about to execute
    picked,      \* per worker: the row id claim has selected or returned
    matched,     \* per worker: its uncommitted UPDATE matched the row
    crashes

vars == <<status, claimed_by, pc, picked, matched, crashes>>

Status == {"absent", "pending", "claimed", "done", "failed"}

\* out: between claims; update, commit: inside claim's transaction;
\* holding: claim has returned the row and its transaction is committed.
Place == {"out", "update", "commit", "holding"}

-----------------------------------------------------------------------------

\* Worker t's open transaction has a lock that stops others writing row r:
\* the row on PostgreSQL, the whole database on SQLite.
Locks(t, r) ==
    IF Postgres THEN pc[t] \in {"update", "commit"} /\ picked[t] = r
                ELSE pc[t] = "commit"

LockedByOther(w, r) == \E t \in Worker \ {w} : Locks(t, r)

\* FOR UPDATE SKIP LOCKED; the variant of the mutation runs forgets it.
SkippedWithoutClause(w, r) == FALSE
Skipped(w, r) == Postgres /\ LockedByOther(w, r)

\* The rows SELECT ... WHERE status = 'pending' returns to w.  The faulty
\* variant reads from a cursor behind which it expects no new row.
CandidatesFaulty(w) ==
    {r \in Row : /\ status[r] = "pending"
                 /\ ~Skipped(w, r)
                 /\ \A k \in Row : status[k] \in {"claimed", "done", "failed"} => k < r}
Candidates(w) == {r \in Row : status[r] = "pending" /\ ~Skipped(w, r)}

\* An empty queue returns None and changes nothing.
SelectPending(w) ==
    /\ pc[w] = "out"
    /\ \E r \in Candidates(w) :
        /\ \A k \in Candidates(w) : r <= k
        /\ picked' = [picked EXCEPT ![w] = r]
    /\ pc' = [pc EXCEPT ![w] = "update"]
    /\ UNCHANGED <<status, claimed_by, matched, crashes>>

\* UPDATE ... WHERE id = :row_id AND status = 'pending', after the wait for
\* the lock.  How many rows it matched is not looked at.
UpdateClaim(w) ==
    /\ pc[w] = "update"
    /\ ~LockedByOther(w, picked[w])
    /\ matched' = [matched EXCEPT ![w] = status[picked[w]] = "pending"]
    /\ pc' = [pc EXCEPT ![w] = "commit"]
    /\ UNCHANGED <<status, claimed_by, picked, crashes>>

\* get(row_id), which finds the row either way, and the caller's commit.
CommitClaim(w) ==
    /\ pc[w] = "commit"
    /\ status' = [status EXCEPT ![picked[w]] = IF matched[w] THEN "claimed" ELSE @]
    /\ claimed_by' = [claimed_by EXCEPT ![picked[w]] = IF matched[w] THEN w ELSE @]
    /\ pc' = [pc EXCEPT ![w] = "holding"]
    /\ matched' = [matched EXCEPT ![w] = FALSE]
    /\ UNCHANGED <<picked, crashes>>

\* The worker has executed the action: mark_done or mark_failed, in a
\* transaction of its own.  Neither looks at the status or the claimant.
\* The faulty variant goes back to the queue with the old row in hand.
SettleFaulty(w, result) ==
    /\ pc[w] = "holding"
    /\ ~LockedByOther(w, picked[w])
    /\ status' = [status EXCEPT ![picked[w]] = result]
    /\ pc' = [pc EXCEPT ![w] = "out"]
    /\ UNCHANGED <<claimed_by, picked, matched, crashes>>
Settle(w, result) ==
    /\ pc[w] = "holding"
    /\ ~LockedByOther(w, picked[w])
    /\ status' = [status EXCEPT ![picked[w]] = result]
    /\ pc' = [pc EXCEPT ![w] = "out"]
    /\ picked' = [picked EXCEPT ![w] = None]
    /\ UNCHANGED <<claimed_by, matched, crashes>>

\* The worker process dies; an open transaction is rolled back.  Nothing
\* ever puts a claimed row back in the queue.
Crash(w) ==
    /\ pc[w] # "out"
    /\ crashes < MaxCrashes
    /\ crashes' = crashes + 1
    /\ pc' = [pc EXCEPT ![w] = "out"]
    /\ picked' = [picked EXCEPT ![w] = None]
    /\ matched' = [matched EXCEPT ![w] = FALSE]
    /\ UNCHANGED <<status, claimed_by>>

\* A transaction that enqueued r commits; ids need not commit in order.
Enqueue(r) ==
    /\ status[r] = "absent"
    /\ ~\E t \in Worker : Locks(t, r)
    /\ status' = [status EXCEPT ![r] = "pending"]
    /\ UNCHANGED <<claimed_by, pc, picked, matched, crashes>>

-----------------------------------------------------------------------------

Init ==
    /\ status = [r \in Row |-> "absent"]
    /\ claimed_by = [r \in Row |-> None]
    /\ pc = [w \in Worker |-> "out"]
    /\ picked = [w \in Worker |-> None]
    /\ matched = [w \in Worker |-> FALSE]
    /\ crashes = 0

Work(w) ==
    \/ SelectPending(w)
    \/ UpdateClaim(w)
    \/ CommitClaim(w)
    \/ \E result \in {"done", "failed"} : Settle(w, result)

Next ==
    \/ \E r \in Row : Enqueue(r)
    \/ \E w \in Worker : Work(w) \/ Crash(w)

Spec == Init /\ [][Next]_vars

\* Workers poll; nobody has to enqueue, and nobody has to crash.
FairSpec == Spec /\ \A w \in Worker : WF_vars(Work(w))

-----------------------------------------------------------------------------

\* The types; and a worker has a row in hand exactly while it is between the
\* SELECT of claim and the end of mark_done or mark_failed.
TypeOK ==
    /\ status \in [Row -> Status]
    /\ claimed_by \in [Row -> Worker \cup {None}]
    /\ pc \in [Worker -> Place]
    /\ picked \in [Worker -> Row \cup {None}]
    /\ matched \in [Worker -> BOOLEAN]
    /\ crashes \in 0..MaxCrashes
    /\ \A w \in Worker : picked[w] = None <=> pc[w] = "out"

\* A row claim returned to a worker is claimed for that worker, and so for no
\* other: the action in it is executed by one worker at most.
ClaimIsForCaller ==
    \A w \in Worker : pc[w] = "holding" =>
        status[picked[w]] = "claimed" /\ claimed_by[picked[w]] = w

\* The recorded outcome of an action is never overwritten, although
\* mark_done and mark_failed would overwrite it.
OutcomeIsFinal ==
    [][\A r \in Row : status[r] \in {"done", "failed"} => status'[r] = status[r]]_vars

\* A pending row is claimed in the end, also when the workers that select it
\* die before they commit.
PendingIsClaimed ==
    \A r \in Row : status[r] = "pending" ~> status[r] # "pending"

\* An enqueued action is executed and its outcome recorded.
ExecutedInTheEnd ==
    \A r \in Row : status[r] = "pending" ~> status[r] \in {"done", "failed"}

\* On PostgreSQL a selected row is locked, still pending, and matched.
LockedPick ==
    /\ \A w \in Worker : matched[w] <=> pc[w] = "commit"
    /\ \A w \in Worker : pc[w] \in {"update", "commit"} =>
            status[picked[w]] = "pending"
    /\ \A w, t \in Worker :
            /\ pc[w] \in {"update", "commit"} /\ pc[t] \in {"update", "commit"}
            /\ picked[w] = picked[t]
            => w = t

\* ClaimIsForCaller with the row locks that make it inductive.
ClaimInv == TypeOK /\ LockedPick /\ ClaimIsForCaller

=============================================================================
