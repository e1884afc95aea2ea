------------------------------ MODULE MCStore ------------------------------
(* Instances of Store for TLC.                                             *)
EXTENDS Store, TLC

CONSTANTS n1, n2   \* two devices, or a device and its new name

(* All sessions are the same device's, which reconnects.                   *)
NodeOf == [s \in Sess |-> n1]

Symmetry == Permutations(Req) \cup Permutations(Sess)
=============================================================================
