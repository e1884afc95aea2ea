-------------------------- MODULE MCPushPermission --------------------------
(* Instances of PushPermission for TLC; a session is a node and a number.  *)
EXTENDS PushPermission, TLC

CONSTANTS nA, nB   \* two nodes

(* Node nA connects twice, node nB once.                                   *)
Connections == {<<nA, 1>>, <<nA, 2>>, <<nB, 1>>}

NodeOf == [s \in Sess |-> s[1]]

Symmetry == Permutations(Worker)
=============================================================================
