--------------------------- MODULE MCVmLifecycle ---------------------------
(* Small instances of VmLifecycle for TLC. Tasks, users and VM ids are     *)
(* interchangeable: the safety runs use that symmetry, the liveness run    *)
(* does not.                                                               *)
EXTENDS VmLifecycle, TLC

Symmetry == Permutations(Users) \cup Permutations(Tasks) \cup Permutations(VmIds)
=============================================================================
