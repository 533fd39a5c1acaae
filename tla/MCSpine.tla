------------------------------- MODULE MCSpine -------------------------------
(***************************************************************************)
(* Two sessions on one obligation: two cases (c2 in the control arm), a    *)
(* debit and a contact.                                                    *)
(***************************************************************************)
EXTENDS SpineProperties, TLC

CONSTANTS s1, s2, c1, c2, o1, debit1, debit2, contact

MCObligationOf == [c \in Case |-> o1]
MCCoordinates == [e \in Envelope |-> IF e = contact THEN None ELSE <<o1, 2>>]
MCRequestedState == {"diagnosing", "stopped"}
\* What callers of the repository pass, a plan taken back, and a case moved
\* into the control arm.
MCFieldUpdates ==
    {Setting({}), Setting({"active_plan_id"}), Setting({"stop_reason"}),
     Setting({"stop_reason", "stopped_at"}),
     [Setting({}) EXCEPT !.clear = {"active_plan_id"}],
     [Setting({}) EXCEPT !.arm = "control"]}
MCNoUpdate == {Setting({})}

SessionSymmetry == Permutations(Session)
=============================================================================
