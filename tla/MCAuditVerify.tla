---------------------------- MODULE MCAuditVerify ----------------------------
(***************************************************************************)
(* Two bodies, three rows and two damaging statements.                     *)
(***************************************************************************)
EXTENDS AuditVerify, TLC

CONSTANTS b1, b2

MCBody == {b1, b2}
BodySymmetry == Permutations(MCBody)

=============================================================================
