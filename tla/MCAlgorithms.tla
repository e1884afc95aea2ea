---------------------------- MODULE MCAlgorithms ----------------------------
(* Instances of Algorithms for TLC: bytes of four values, and an hour of   *)
(* relay times.                                                            *)
EXTENDS Algorithms

(* At the end of a byte, of two, of all addresses, and elsewhere.          *)
SomeGateways ==
  {<<0, 0, 0, 1>>, <<1, 2, 0, 3>>, <<1, 2, 3, 3>>, <<2, 1, 0, 0>>, <<3, 3, 3, 2>>, <<3, 3, 3, 3>>}

(* What a session is like that can relay.                                  *)
Fit == [node |-> 0, majorVer |-> 3, user |-> "u", symmetric |-> FALSE, ip |-> "c",
        relayTime |-> 0]

(* Sessions last used within the last half hour, exactly half an hour ago  *)
(* and before, and those that must not relay, each for one reason.         *)
SomeOthers ==
  {[Fit EXCEPT !.relayTime = t] : t \in {29, 30, 45, 60}}
    \cup {[Fit EXCEPT !.majorVer = 0], [Fit EXCEPT !.user = "v"],
          [Fit EXCEPT !.symmetric = TRUE], [Fit EXCEPT !.ip = "a"],
          [Fit EXCEPT !.ip = "b"], [Fit EXCEPT !.ip = "lo", !.relayTime = 50]}

Requester == [Fit EXCEPT !.node = -1, !.ip = "a"]
Peer      == [Fit EXCEPT !.node = -2, !.ip = "b"]

(* The two nodes at addresses of their own, or both on the gateway's host. *)
SomeEnds ==
  {<<Requester, Peer>>, <<[Requester EXCEPT !.ip = "lo"], [Peer EXCEPT !.ip = "lo"]>>}
=============================================================================
