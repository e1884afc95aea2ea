---------------------------- MODULE MCNetworks ----------------------------
(* Instances of Networks for TLC.                                          *)
EXTENDS Networks, TLC

CONSTANTS n1, nodeX, nodeY   \* a network and two nodes

(* A file with all networks, enabled, and the member nodeX of network n1.  *)
OneMember ==
  [networks |-> Net,
   conf |-> [n \in Net |-> [NoConf EXCEPT !.enable = TRUE]],
   members |-> [n \in Net |-> IF n = n1 THEN <<[obj |-> 0, name |-> nodeX, ip |-> 1]>> ELSE <<>>]]

(* First start, or a start with that file.                                 *)
Files == {EmptyStore, OneMember}

(* Networks and nodes are not interchangeable: n1 and nodeX are in the     *)
(* file.                                                                   *)
Symmetry == Permutations(Handler) \cup Permutations(Worker)
=============================================================================
