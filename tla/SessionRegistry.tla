-------------------------- MODULE SessionRegistry --------------------------
(***************************************************************************)
(* What the session manager promises about sessionMgr.allSessions, the map *)
(* every handler uses to find the session of a node: a login enters the    *)
(* new session for its node, replacing an older one, and the end of a      *)
(* session takes out that session and no other.  Module Session shows that *)
(* the goroutines of wssession.go implement this specification; other      *)
(* components use it in place of the goroutines.                           *)
(***************************************************************************)

CONSTANTS
  Sess,       \* the sessions (one wssSession object per accepted connection)
  NodeID,     \* the node ids
  nodeID,     \* nodeID[s]: the id of the node that opened session s
  NoSess      \* "the map has no entry"

ASSUME RegistryAssumption ==
  /\ nodeID \in [Sess -> NodeID]
  /\ NoSess \notin Sess

VARIABLES
  allSessions,  \* sessionMgr.allSessions
  life          \* where each session is in its life

rvars == <<allSessions, life>>

RegistryTypeOK ==
  /\ allSessions \in [NodeID -> Sess \cup {NoSess}]
  /\ life \in [Sess -> {"new", "registered", "gone"}]

RegistryInit ==
  /\ allSessions = [n \in NodeID |-> NoSess]
  /\ life = [s \in Sess |-> "new"]

(* The new session of a node replaces whatever session the node had.       *)
Login(s) ==
  /\ life[s] = "new"
  /\ allSessions' = [allSessions EXCEPT ![nodeID[s]] = s]
  /\ life' = [life EXCEPT ![s] = "registered"]

(* The entry of n after session s has taken itself out.                    *)
Without(s) ==
  IF allSessions[nodeID[s]] = s
  THEN [allSessions EXCEPT ![nodeID[s]] = NoSess]
  ELSE allSessions

(* The end of a session removes its own entry only.                        *)
Logout(s) ==
  /\ life[s] = "registered"
  /\ allSessions' = Without(s)
  /\ life' = [life EXCEPT ![s] = "gone"]

RegistryNext == \E s \in Sess : Login(s) \/ Logout(s)

RegistrySpec == RegistryInit /\ [][RegistryNext]_rvars
=============================================================================
