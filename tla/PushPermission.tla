--------------------------- MODULE PushPermission ---------------------------
(***************************************************************************)
(* sessionMgr.pushPermission: a node may push ordinary messages for a      *)
(* minute after it took part in a verified connect request (pushHandler)   *)
(* or peer query (queryHandler).  The cache is a sync.Map keyed by node    *)
(* id: loads, stores and deletes are atomic, but a handler makes several   *)
(* of them, 16 workers run handlers at once, and readLoop deletes the      *)
(* entry of its node at the end of a teardown.  A push names its sender in *)
(* its header (PushHeader.From), and that is the node whose permission is  *)
(* granted or checked: nothing compares it with the session the message    *)
(* came over.  The answer to the sender, pushed or denied, goes to that    *)
(* session and is not modelled.  Logins and logouts are those of module    *)
(* SessionRegistry, which module Session implements.                       *)
(***************************************************************************)
EXTENDS SessionRegistry, Integers

CONSTANTS
  Worker,   \* message workers
  NoNode,   \* no node: an idle worker
  TTL,      \* life of a permission (a minute)
  MaxTime   \* bound of the model: the last instant of the clock

ASSUME PermissionAssumption ==
  TTL \in Nat \ {0} /\ MaxTime \in Nat \ {0} /\ NoNode \notin NodeID

VARIABLES
  now,             \* time.Now()
  pushPermission,  \* expiredAt of the entry of each node; 0: no entry
  revoking,        \* sessions out of allSessions whose readLoop has not ended
  stage,           \* where each worker is in its handler
  from, to,        \* the two nodes its message names
  loaded,          \* the entry it has loaded
  lastGrant,       \* history: when the node was last granted permission; 0: never
  promised,        \* history: until when a forwarded request lets the node push
  ends,            \* history: nodes of its message that a grant or check is about,
                   \* but those whose entry was deleted since
  due              \* history: until when it lets them push or, of a checked push,
                   \* what its sender had been promised

permVars == <<pushPermission, lastGrant, promised, ends, due>>
workVars == <<stage, from, to, loaded>>
vars == <<rvars, now, permVars, revoking, workVars>>

(* The messages: connect requests and queries grant permission, other      *)
(* pushes are checked, and two types bypass the check.                     *)
Kinds == {"connect", "query", "checked", "bypass"}

TypeOK ==
  /\ RegistryTypeOK
  /\ now \in 1..MaxTime
  /\ pushPermission \in [NodeID -> 0..(MaxTime + TTL)]
  /\ revoking \in SUBSET Sess
  /\ stage \in [Worker -> {"idle", "storeFrom", "storeTo", "load", "compare",
                           "delete", "forward"}]
  /\ from \in [Worker -> NodeID \cup {NoNode}] /\ to \in [Worker -> NodeID \cup {NoNode}]
  /\ loaded \in [Worker -> 0..(MaxTime + TTL)]
  /\ lastGrant \in [NodeID -> 0..MaxTime]
  /\ promised \in [NodeID -> 0..(MaxTime + TTL)]
  /\ ends \in [Worker -> SUBSET NodeID]
  /\ due \in [Worker -> 0..(MaxTime + TTL)]

Init ==
  /\ RegistryInit
  /\ now = 1
  /\ pushPermission = [n \in NodeID |-> 0]
  /\ revoking = {}
  /\ stage = [w \in Worker |-> "idle"]
  /\ from = [w \in Worker |-> NoNode] /\ to = from
  /\ loaded = [w \in Worker |-> 0]
  /\ lastGrant = [n \in NodeID |-> 0]
  /\ promised = [n \in NodeID |-> 0]
  /\ ends = [w \in Worker |-> {}]
  /\ due = [w \in Worker |-> 0]

(* The worker is done with its message.                                    *)
Return(w) ==
  /\ stage' = [stage EXCEPT ![w] = "idle"]
  /\ loaded' = [loaded EXCEPT ![w] = 0]
  /\ from' = [from EXCEPT ![w] = NoNode]
  /\ to' = [to EXCEPT ![w] = NoNode]
  /\ due' = [due EXCEPT ![w] = 0]

(* The entry of node n is deleted, and with it what n was promised.        *)
Delete(n) ==
  /\ pushPermission' = [pushPermission EXCEPT ![n] = 0]
  /\ promised' = [promised EXCEPT ![n] = 0]

----------------------------------------------------------------------------
LoginStep(s) == Login(s) /\ UNCHANGED <<now, permVars, revoking, workVars>>

(* readLoop takes the session out of allSessions (if it is still there)... *)
LogoutStep(s) ==
  /\ Logout(s)
  /\ revoking' = revoking \cup {s}
  /\ UNCHANGED <<now, permVars, workVars>>

(* ... and then deletes the permission of the node, in any case.           *)
Revoke(s) ==
  /\ s \in revoking
  /\ revoking' = revoking \ {s}
  /\ Delete(nodeID[s])
  /\ ends' = [w \in Worker |-> ends[w] \ {nodeID[s]}]
  /\ UNCHANGED <<rvars, now, lastGrant, due, workVars>>

----------------------------------------------------------------------------
(* A worker takes a message of session s (which may have ended since) that *)
(* goes from node m to node n, and finds n online; an offline target, a    *)
(* message type that may not be pushed and a token that does not verify    *)
(* change nothing.  A query is from the session's own node; for a push, m  *)
(* is what its header says.                                                *)
Receive(w, s, m, n, k) ==
  /\ stage[w] = "idle" /\ life[s] # "new" /\ allSessions[n] # NoSess
  /\ k = "query" => m = nodeID[s]
  /\ from' = [from EXCEPT ![w] = m]
  /\ to' = [to EXCEPT ![w] = n]
  /\ stage' = [stage EXCEPT ![w] = CASE k \in {"connect", "query"} -> "storeFrom"
                                     [] k = "checked" -> "load"
                                     [] k = "bypass" -> "forward"]
  /\ ends' = [ends EXCEPT ![w] = CASE k \in {"connect", "query"} -> {m, n}
                                   [] k = "checked" -> {m}
                                   [] k = "bypass" -> {}]
  /\ due' = [due EXCEPT ![w] = CASE k \in {"connect", "query"} -> now + TTL
                                 [] k = "checked" -> promised[m]
                                 [] k = "bypass" -> 0]
  /\ UNCHANGED <<rvars, now, pushPermission, lastGrant, promised, revoking, loaded>>

(* Mutant: permissions add up.                                             *)
GrantMore(n) ==
  /\ pushPermission' = [pushPermission EXCEPT ![n] = IF @ > now THEN @ + TTL ELSE now + TTL]
  /\ lastGrant' = [lastGrant EXCEPT ![n] = now]

Grant(n) ==
  /\ pushPermission' = [pushPermission EXCEPT ![n] = now + TTL]
  /\ lastGrant' = [lastGrant EXCEPT ![n] = now]

StoreFrom(w) ==
  /\ stage[w] = "storeFrom"
  /\ Grant(from[w])
  /\ stage' = [stage EXCEPT ![w] = "storeTo"]
  /\ UNCHANGED <<rvars, now, revoking, from, to, loaded, promised, ends, due>>

(* Mutant: the sender is granted permission twice.                         *)
StoreFromAgain(w) ==
  /\ stage[w] = "storeTo"
  /\ Grant(from[w])
  /\ stage' = [stage EXCEPT ![w] = "forward"]
  /\ UNCHANGED <<rvars, now, revoking, from, to, loaded, promised, ends, due>>

(* A connect request is passed on to the target, a query is answered.      *)
StoreTo(w) ==
  /\ stage[w] = "storeTo"
  /\ Grant(to[w])
  /\ stage' = [stage EXCEPT ![w] = "forward"]
  /\ UNCHANGED <<rvars, now, revoking, from, to, loaded, promised, ends, due>>

Load(w) ==
  /\ stage[w] = "load"
  /\ IF pushPermission[from[w]] = 0
     THEN Return(w) /\ ends' = [ends EXCEPT ![w] = {}]
     ELSE /\ loaded' = [loaded EXCEPT ![w] = pushPermission[from[w]]]
          /\ stage' = [stage EXCEPT ![w] = "compare"]
          /\ UNCHANGED <<from, to, ends, due>>
  /\ UNCHANGED <<rvars, now, pushPermission, lastGrant, promised, revoking>>

(* Mutant: an entry that is just expired, or older, passes once more.      *)
CompareLater(w) ==
  /\ stage[w] = "compare"
  /\ stage' = [stage EXCEPT ![w] = IF loaded[w] >= now THEN "forward" ELSE "delete"]
  /\ loaded' = [loaded EXCEPT ![w] = 0]
  /\ UNCHANGED <<rvars, now, permVars, revoking, from, to>>

Compare(w) ==
  /\ stage[w] = "compare"
  /\ stage' = [stage EXCEPT ![w] = IF loaded[w] > now THEN "forward" ELSE "delete"]
  /\ loaded' = [loaded EXCEPT ![w] = 0]
  /\ UNCHANGED <<rvars, now, permVars, revoking, from, to>>

(* The expired entry, or whatever has been stored in its place meanwhile,  *)
(* is deleted by key, and the push denied.                                 *)
DeleteExpired(w) ==
  /\ stage[w] = "delete"
  /\ Delete(from[w])
  /\ ends' = [v \in Worker |-> IF v = w THEN {} ELSE ends[v] \ {from[w]}]
  /\ Return(w)
  /\ UNCHANGED <<rvars, now, revoking, lastGrant>>

(* toSess.writeBuff, or the answer to a query: from now on the two ends of *)
(* a connect request or a query may push.                                  *)
Forward(w) ==
  /\ stage[w] = "forward"
  /\ promised' = [n \in NodeID |-> IF n \in ends[w] /\ due[w] > promised[n]
                                  THEN due[w] ELSE promised[n]]
  /\ Return(w) /\ ends' = [ends EXCEPT ![w] = {}]
  /\ UNCHANGED <<rvars, now, pushPermission, lastGrant, revoking>>

Tick ==
  /\ now < MaxTime
  /\ now' = now + 1
  /\ UNCHANGED <<rvars, permVars, revoking, workVars>>

Next ==
  \/ \E s \in Sess : LoginStep(s) \/ LogoutStep(s) \/ Revoke(s)
  \/ \E w \in Worker, s \in Sess, m, n \in NodeID, k \in Kinds : Receive(w, s, m, n, k)
  \/ \E w \in Worker : \/ StoreFrom(w) \/ StoreTo(w) \/ Load(w) \/ Compare(w)
                       \/ DeleteExpired(w) \/ Forward(w)
  \/ Tick

Spec == Init /\ [][Next]_vars

----------------------------------------------------------------------------
(* A checked push is let through only within TTL of a grant to the node    *)
(* its header names as the sender, whoever sent it, also when the entry is *)
(* refreshed, deleted or expires between the load and the comparison.      *)
ExpiryEnforced ==
  [][\A w \in Worker : (stage[w] = "compare" /\ stage'[w] = "forward")
        => lastGrant[from[w]] > 0 /\ now < lastGrant[from[w]] + TTL]_vars

(* The check of a push fails.                                              *)
Denied(w) ==
  \/ stage[w] = "load" /\ stage'[w] = "idle"
  \/ stage[w] = "compare" /\ stage'[w] = "delete"

(* The target of a connect request may answer it, and both ends may go on  *)
(* to push: of the pushes that come in after the request was forwarded, or *)
(* the query answered, none that names one of its ends as the sender is    *)
(* denied until TTL after the request came in, unless the entry of that    *)
(* end has been deleted meanwhile, by a teardown or after a check that     *)
(* found it expired.                                                       *)
AnswerPasses ==
  [][\A w \in Worker : Denied(w) /\ from[w] \in ends[w] => now >= due[w]]_vars

(* "cache push permission 60s" (pushhandler.go:69): the permission of a    *)
(* node that has a session is not taken away before it expires.            *)
PermissionKept ==
  [][\A n \in NodeID : (now < pushPermission[n] /\ allSessions[n] # NoSess)
        => pushPermission'[n] >= pushPermission[n]]_vars
=============================================================================
