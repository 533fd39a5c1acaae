--------------------------- MODULE MCOutboxWorkers ---------------------------
(***************************************************************************)
(* Workers w1 and w2, or with w3, on two or three outbox rows.             *)
(***************************************************************************)
EXTENDS OutboxWorkers, TLC

CONSTANTS w1, w2, w3

WorkerSymmetry == Permutations(Worker)
=============================================================================
