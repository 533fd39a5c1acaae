---------------------------- MODULE MCRecoveryFlow ----------------------------
(***************************************************************************)
(* Two cases of one obligation.  c1 has every arm, and in the arms that    *)
(* route every finding; c2 is a soft decline of the full agent's arm or    *)
(* of the drip arm.                                                        *)
(***************************************************************************)
EXTENDS RecoveryFlowProperties

CONSTANTS c1, c2, o1

MCObligationOf == [c \in Case |-> o1]

Of(arms, findings) == [arm : arms, finding : findings]

Soft == {"insufficient_funds"}

MCProfiles ==
    [c \in Case |->
        IF c = c1 THEN Of({"A4"}, Finding) \cup Of({"A0", "A1", "A2", "A3", "A5"}, Soft)
        ELSE Of({"A1", "A4"}, Soft)]

\* Two soft declines, or one and a case of the drip arm.
MCSoftProfiles ==
    [c \in Case |-> Of(IF c = c1 THEN {"A4"} ELSE {"A1", "A4"}, Soft)]
=============================================================================
