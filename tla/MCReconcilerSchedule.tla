------------------------ MODULE MCReconcilerSchedule ------------------------
(* Small instances of ReconcilerSchedule for TLC. *)
EXTENDS ReconcilerSchedule, TLC

CONSTANTS o1, o2, o3

MCOrders == {o1, o2, o3}
MCSymmetry == Permutations(MCOrders)
=============================================================================
