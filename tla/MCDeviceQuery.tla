--------------------------- MODULE MCDeviceQuery ---------------------------
(* Instances of DeviceQuery for TLC.                                       *)
EXTENDS DeviceQuery, TLC

(* Requests of the same kind are interchangeable, and so are workers.      *)
Symmetry == Permutations(LogReq) \cup Permutations(Request \ LogReq) \cup Permutations(Worker)
=============================================================================
