------------------------------ MODULE Experiment ------------------------------
(***************************************************************************)
(* Assignment of cases to arms (reclaim/contracts/experiment.py).          *)
(*                                                                         *)
(* A hash is a draw nobody chooses: draws and shuffle streams are inputs.  *)
(* Weights are whole parts of PermilleTotal.                               *)
(***************************************************************************)
EXTENDS Naturals, Sequences, FiniteSets

CONSTANTS
    PermilleTotal,
    Missing  \* a field a method does not fill

ASSUME PermilleAssumption == PermilleTotal \in Nat \ {0}

ArmOrder == <<"A0", "A1", "A2", "A3", "A4", "A5">>
ExperimentArm == {"A0", "A1", "A2", "A3", "A4", "A5"}
HeadlineControlArm == "A1"
HeadlineTreatmentArm == "A4"

\* The weights of the first arms of the order, added up.
Cumulative(w) ==
    <<w["A0"],
      w["A0"] + w["A1"],
      w["A0"] + w["A1"] + w["A2"],
      w["A0"] + w["A1"] + w["A2"] + w["A3"],
      w["A0"] + w["A1"] + w["A2"] + w["A3"] + w["A4"],
      w["A0"] + w["A1"] + w["A2"] + w["A3"] + w["A4"] + w["A5"]>>

\* What ExperimentSpec accepts.
IsWeights(w) ==
    /\ w \in [ExperimentArm -> Nat]
    /\ Cumulative(w)[6] = PermilleTotal

IsExperimentSpec(spec) ==
    /\ IsWeights(spec.weights)
    /\ spec.control_arm # spec.treatment_arm
    /\ spec.weights[spec.control_arm] # 0
    /\ spec.weights[spec.treatment_arm] # 0

-----------------------------------------------------------------------------
(***************************************************************************)
(* Independent draws.                                                      *)
(***************************************************************************)

\* The first arm whose total exceeds the draw; the faulty variant takes the
\* first that reaches it.
ChosenFaulty(w, draw, i) ==
    /\ draw <= Cumulative(w)[i]
    /\ \A j \in 1 .. i - 1 : Cumulative(w)[j] < draw
Chosen(w, draw, i) ==
    /\ draw < Cumulative(w)[i]
    /\ \A j \in 1 .. i - 1 : Cumulative(w)[j] <= draw

AssignArm(w, draw) == ArmOrder[CHOOSE i \in 1 .. 6 : Chosen(w, draw, i)]

-----------------------------------------------------------------------------
(***************************************************************************)
(* Permuted blocks.                                                        *)
(***************************************************************************)

Divides(d, w) == \A arm \in ExperimentArm : w[arm] % d = 0
Gcd(w) ==
    CHOOSE d \in 1 .. PermilleTotal :
        /\ Divides(d, w)
        /\ \A e \in d + 1 .. PermilleTotal : ~Divides(e, w)

BlockSize(w) == PermilleTotal \div Gcd(w)

Times(arm, n) == [i \in 1 .. n |-> arm]
BlockPattern(w) ==
    LET part(arm) == Times(arm, w[arm] \div Gcd(w))
    IN  part("A0") \o part("A1") \o part("A2") \o part("A3") \o part("A4") \o part("A5")

\* Two places of a block trade; the faulty variant loses one of them.
SwapFaulty(items, i, j) == [items EXCEPT ![i] = items[j]]
Swap(items, i, j) == [items EXCEPT ![i] = items[j], ![j] = items[i]]

\* From the last place to the second, place i + 1 trades with a place up to
\* it that the stream draws.
PermutedBlock(w, stream) ==
    LET n == BlockSize(w)
        shuffled[i \in 1 .. n] ==
            IF i = n THEN BlockPattern(w)
            ELSE Swap(shuffled[i + 1], i + 1, (stream[i] % (i + 1)) + 1)
    IN  shuffled[1]

\* A stream has a hash, which is a number, for each of its draws.
IsStream(w, stream) == \A i \in 1 .. BlockSize(w) - 1 : stream[i] \in Nat

\* The streams of a stratum, by block; the rank is the caller's.
AssignArmBlocked(w, streams, rank) ==
    LET n == BlockSize(w)
    IN  PermutedBlock(w, streams[rank \div n])[(rank % n) + 1]

-----------------------------------------------------------------------------
(***************************************************************************)
(* The record.                                                             *)
(***************************************************************************)

\* What the method says it was assigned on, and nothing of the other one.
IsArmAssignment(record) ==
    \/ /\ record.method = "hash_independent"
       /\ record.draw # Missing /\ record.rank = Missing
    \/ /\ record.method = "permuted_block"
       /\ record.draw = Missing /\ record.rank # Missing

\* verify_assignment.  A spec has an id, a salt and weights; the salt fixes
\* draw and streams.
Rederived(record, spec) ==
    IF record.method = "hash_independent"
    THEN AssignArm(spec.weights, spec.draw)
    ELSE AssignArmBlocked(spec.weights, spec.streams, record.rank)

\* The faulty variant does not derive the arms of blocks again.
VerifyAssignmentFaulty(record, spec) ==
    CASE record.experiment_id # spec.experiment_id -> "experiment"
      [] record.experiment_id = spec.experiment_id /\ record.salt # spec.salt -> "salt"
      [] OTHER -> IF record.method = "hash_independent" /\ record.draw # spec.draw
                  THEN "draw" ELSE "ok"
VerifyAssignment(record, spec) ==
    CASE record.experiment_id # spec.experiment_id -> "experiment"
      [] record.experiment_id = spec.experiment_id /\ record.salt # spec.salt -> "salt"
      [] /\ record.experiment_id = spec.experiment_id /\ record.salt = spec.salt
         /\ record.method = "hash_independent" /\ record.draw # spec.draw -> "draw"
      [] OTHER -> IF record.arm # Rederived(record, spec) THEN "arm" ELSE "ok"

=============================================================================
