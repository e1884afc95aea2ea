----------------------------- MODULE MCSession -----------------------------
(* Instances of Session for TLC.  A session is the pair of its node and a  *)
(* number, so that two sessions of one node are a reconnection.            *)
EXTENDS Session

CONSTANTS nA, nB   \* two nodes

(* Two connections of the same node.                                       *)
Reconnect == {<<nA, 1>>, <<nA, 2>>}

(* One connection; one connection of each of two nodes.                    *)
OneSession == {<<nA, 1>>}

TwoNodes == {<<nA, 1>>, <<nB, 1>>}

(* Every client may send messages for every handler.                       *)
SentAll == Sess \X Handling

(* Only the first connection of nA sends, and only reports.                *)
SentByFirst == {<<nA, 1>>} \X {"report"}

(* nB reports; nA only keeps its connection.                               *)
SentByB == {<<nB, 1>>} \X {"report"}

(* Both nodes have logged in and nothing has happened since.               *)
LoggedIn ==
  /\ login = [s \in Sess |-> "done"]
  /\ rl = [s \in Sess |-> "read"] /\ wl = [s \in Sess |-> "test"]
  /\ running = [s \in Sess |-> TRUE]
  /\ writeCh = [s \in Sess |-> 0] /\ chClosed = [s \in Sess |-> FALSE]
  /\ allSessions = [n \in NodeID |-> CHOOSE s \in Sess : nodeID[s] = n]
  /\ lockW = {} /\ lockR = {} /\ MsgQueue = <<>>
  /\ stage = [g \in Writer |-> "idle"] /\ todo = [g \in Writer |-> <<>>]
  /\ ctx = [w \in Worker |-> NoSess] /\ reporting = {}
  /\ onlineNodes = 0 /\ devices = NodeID /\ panicked = FALSE

LiveSpec == LoggedIn /\ [][Next]_vars /\ LoopFairness

NodeOf == [s \in Sess |-> s[1]]
=============================================================================
