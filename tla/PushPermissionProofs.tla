----------------------- MODULE PushPermissionProofs -----------------------
(***************************************************************************)
(* Proofs about module PushPermission, for every set of nodes, sessions    *)
(* and workers, every life of a permission and every end of the clock.     *)
(***************************************************************************)
EXTENDS PushPermission, TLAPS

(* An entry is no later than that of the node's last grant, and no earlier *)
(* than what the node was promised.                                        *)
EntryOK ==
  \A n \in NodeID :
    /\ lastGrant[n] <= now
    /\ lastGrant[n] = 0 => pushPermission[n] = 0
    /\ promised[n] <= pushPermission[n] /\ pushPermission[n] <= lastGrant[n] + TTL

(* A worker that has a message has its two nodes, and a push is about its  *)
(* sender alone.                                                           *)
NodesOK(w) ==
  /\ stage[w] # "idle" => /\ from[w] \in NodeID /\ to[w] \in NodeID
                          /\ ends[w] \subseteq {from[w], to[w]}
  /\ stage[w] \in {"load", "compare"} => ends[w] \subseteq {from[w]}

(* A loaded entry is that of a grant.                                      *)
LoadedOK(w) ==
  stage[w] = "compare" => /\ loaded[w] <= lastGrant[from[w]] + TTL
                          /\ lastGrant[from[w]] > 0

(* What a message lets a node do, or has been promised to it, is in the    *)
(* cache, or has been loaded from it, unless it has been deleted since.    *)
DueOK(w) ==
  /\ stage[w] \in {"storeFrom", "storeTo"} => due[w] <= now + TTL
  /\ stage[w] = "storeTo" /\ from[w] \in ends[w] => due[w] <= pushPermission[from[w]]
  /\ stage[w] \in {"load", "compare", "forward"} =>
       \A n \in ends[w] : due[w] <= pushPermission[n]
  /\ stage[w] = "compare" /\ from[w] \in ends[w] => due[w] <= loaded[w]

MessageOK(w) == NodesOK(w) /\ LoadedOK(w) /\ DueOK(w)

Inv == TypeOK /\ EntryOK /\ \A w \in Worker : MessageOK(w)

USE PermissionAssumption, RegistryAssumption DEF RegistryTypeOK

----------------------------------------------------------------------------
(* What other workers, sessions and the clock do to the message of a       *)
(* worker: entries are refreshed, or deleted and taken off its ends.       *)
LEMMA Undisturbed ==
  ASSUME Inv, TypeOK', NEW w \in Worker, MessageOK(w),
         stage'[w] = stage[w], from'[w] = from[w], to'[w] = to[w],
         loaded'[w] = loaded[w], due'[w] = due[w], ends'[w] \subseteq ends[w],
         now' >= now,
         \A n \in NodeID : lastGrant'[n] >= lastGrant[n],
         \A n \in ends'[w] : pushPermission'[n] >= pushPermission[n]
  PROVE  MessageOK(w)'
<1>1. /\ stage[w] # "idle" => from[w] \in NodeID /\ to[w] \in NodeID
      /\ ends[w] \subseteq NodeID /\ ends'[w] \subseteq NodeID
      /\ now \in Nat /\ now' \in Nat /\ due[w] \in Nat /\ loaded[w] \in Nat
      /\ \A n \in NodeID : /\ pushPermission[n] \in Nat /\ pushPermission'[n] \in Nat
                           /\ lastGrant[n] \in Nat /\ lastGrant'[n] \in Nat
  BY DEF TypeOK, MessageOK, NodesOK, Inv
<1>2. NodesOK(w)'
  BY DEF MessageOK, NodesOK
<1>3. LoadedOK(w)'
  BY <1>1 DEF MessageOK, LoadedOK
<1>4. DueOK(w)'
  <2>1. /\ stage'[w] = "storeTo" /\ from'[w] \in ends'[w] => due'[w] <= pushPermission'[from'[w]]
        /\ stage'[w] \in {"storeFrom", "storeTo"} => due'[w] <= now' + TTL
    BY <1>1 DEF MessageOK, DueOK
  <2>2. stage'[w] \in {"load", "compare", "forward"} =>
          \A n \in ends'[w] : due'[w] <= pushPermission'[n]
    BY <1>1 DEF MessageOK, DueOK
  <2>3. stage'[w] = "compare" /\ from'[w] \in ends'[w] => due'[w] <= loaded'[w]
    BY DEF MessageOK, DueOK
  <2> QED
    BY <2>1, <2>2, <2>3 DEF DueOK
<1> QED
  BY <1>2, <1>3, <1>4 DEF MessageOK

(* A worker without a message has nothing to keep.                         *)
LEMMA IdleOK ==
  ASSUME NEW w \in Worker, stage'[w] = "idle"
  PROVE  MessageOK(w)'
  BY DEF MessageOK, NodesOK, LoadedOK, DueOK

(* A worker that returns forgets its message, and no other.                *)
LEMMA ReturnEffect ==
  ASSUME TypeOK, NEW w \in Worker, Return(w)
  PROVE  /\ stage'[w] = "idle"
         /\ \A v \in Worker \ {w} : /\ stage'[v] = stage[v] /\ from'[v] = from[v]
                                    /\ to'[v] = to[v] /\ loaded'[v] = loaded[v]
                                    /\ due'[v] = due[v]
         /\ stage' \in [Worker -> {"idle", "storeFrom", "storeTo", "load", "compare",
                                   "delete", "forward"}]
         /\ from' \in [Worker -> NodeID \cup {NoNode}] /\ to' \in [Worker -> NodeID \cup {NoNode}]
         /\ loaded' \in [Worker -> 0..(MaxTime + TTL)] /\ due' \in [Worker -> 0..(MaxTime + TTL)]
<1>1. 0 \in 0..(MaxTime + TTL)
  OBVIOUS
<1> QED
  BY <1>1 DEF TypeOK, Return

(* A grant makes the entry of its node the latest there can be.            *)
LEMMA GrantEffect ==
  ASSUME TypeOK, EntryOK, NEW n \in NodeID, Grant(n), UNCHANGED <<now, promised>>
  PROVE  /\ EntryOK' /\ pushPermission'[n] = now + TTL
         /\ \A m \in NodeID : /\ lastGrant'[m] >= lastGrant[m]
                              /\ pushPermission'[m] >= pushPermission[m]
         /\ pushPermission' \in [NodeID -> 0..(MaxTime + TTL)]
         /\ lastGrant' \in [NodeID -> 0..MaxTime]
<1>1. /\ pushPermission' = [pushPermission EXCEPT ![n] = now + TTL]
      /\ lastGrant' = [lastGrant EXCEPT ![n] = now]
      /\ now \in 1..MaxTime /\ now' = now /\ promised' = promised
  BY DEF Grant, TypeOK
<1>2. /\ pushPermission' \in [NodeID -> 0..(MaxTime + TTL)]
      /\ lastGrant' \in [NodeID -> 0..MaxTime]
  BY <1>1 DEF TypeOK
<1>3. /\ pushPermission'[n] = now + TTL /\ lastGrant'[n] = now
      /\ \A m \in NodeID \ {n} : /\ pushPermission'[m] = pushPermission[m]
                                 /\ lastGrant'[m] = lastGrant[m]
      /\ \A m \in NodeID : /\ pushPermission[m] \in Nat /\ lastGrant[m] \in Nat
                           /\ promised[m] \in Nat
  BY <1>1 DEF TypeOK
<1>4. \A m \in NodeID : /\ lastGrant'[m] >= lastGrant[m]
                        /\ pushPermission'[m] >= pushPermission[m]
  BY <1>1, <1>3 DEF EntryOK
<1>5. EntryOK'
  BY <1>1, <1>3 DEF EntryOK
<1> QED
  BY <1>2, <1>3, <1>4, <1>5

(* A deletion takes the promise with it, and leaves other nodes alone.     *)
LEMMA DeleteEffect ==
  ASSUME TypeOK, EntryOK, NEW n \in NodeID, Delete(n), UNCHANGED <<now, lastGrant>>
  PROVE  /\ EntryOK'
         /\ \A m \in NodeID \ {n} : pushPermission'[m] = pushPermission[m]
         /\ pushPermission' \in [NodeID -> 0..(MaxTime + TTL)]
         /\ promised' \in [NodeID -> 0..(MaxTime + TTL)]
<1>1. /\ pushPermission' \in [NodeID -> 0..(MaxTime + TTL)]
      /\ promised' \in [NodeID -> 0..(MaxTime + TTL)]
  BY DEF TypeOK, Delete
<1>2. /\ pushPermission'[n] = 0 /\ promised'[n] = 0
      /\ \A m \in NodeID \ {n} : /\ pushPermission'[m] = pushPermission[m]
                                 /\ promised'[m] = promised[m]
  BY DEF TypeOK, Delete
<1>3. EntryOK'
  BY <1>2 DEF EntryOK, TypeOK
<1> QED
  BY <1>1, <1>2, <1>3
----------------------------------------------------------------------------
(* The invariant holds at first, and every step keeps it.                  *)
LEMMA InvInit == Init => Inv
<1> SUFFICES ASSUME Init PROVE Inv
  OBVIOUS
<1>1. TypeOK
  BY DEF Init, TypeOK, RegistryInit
<1>2. EntryOK
  BY DEF Init, EntryOK
<1>3. \A w \in Worker : MessageOK(w)
  BY DEF Init, MessageOK, NodesOK, LoadedOK, DueOK
<1> QED
  BY <1>1, <1>2, <1>3 DEF Inv

(* A worker takes a message up.                                            *)
LEMMA ReceiveStep ==
  ASSUME Inv, NEW w \in Worker, NEW s \in Sess, NEW m \in NodeID, NEW n \in NodeID,
         NEW k \in Kinds, Receive(w, s, m, n, k)
  PROVE  Inv'
<1>0. TypeOK /\ EntryOK
  BY DEF Inv
<1>1. PICK st \in {"storeFrom", "load", "forward"}, es \in SUBSET NodeID,
           d \in 0..(MaxTime + TTL) :
        /\ stage' = [stage EXCEPT ![w] = st] /\ ends' = [ends EXCEPT ![w] = es]
        /\ due' = [due EXCEPT ![w] = d]
        /\ st = "storeFrom" => es = {m, n} /\ d = now + TTL
        /\ st = "load" => es = {m} /\ d = promised[m]
        /\ st = "forward" => es = {} /\ d = 0
  <2>1. CASE k \in {"connect", "query"}
    <3>1. /\ stage' = [stage EXCEPT ![w] = "storeFrom"] /\ ends' = [ends EXCEPT ![w] = {m, n}]
          /\ due' = [due EXCEPT ![w] = now + TTL]
      BY <2>1 DEF Receive
    <3>2. now + TTL \in 0..(MaxTime + TTL) /\ {m, n} \in SUBSET NodeID
      BY <1>0 DEF TypeOK
    <3> QED
      BY <3>1, <3>2
  <2>2. CASE k = "checked"
    <3>1. /\ stage' = [stage EXCEPT ![w] = "load"] /\ ends' = [ends EXCEPT ![w] = {m}]
          /\ due' = [due EXCEPT ![w] = promised[m]]
      BY <2>2 DEF Receive
    <3>2. promised[m] \in 0..(MaxTime + TTL) /\ {m} \in SUBSET NodeID
      BY <1>0 DEF TypeOK
    <3> QED
      BY <3>1, <3>2
  <2>3. CASE k = "bypass"
    <3>1. /\ stage' = [stage EXCEPT ![w] = "forward"] /\ ends' = [ends EXCEPT ![w] = {}]
          /\ due' = [due EXCEPT ![w] = 0]
      BY <2>3 DEF Receive
    <3>2. 0 \in 0..(MaxTime + TTL) /\ {} \in SUBSET NodeID
      OBVIOUS
    <3> QED
      BY <3>1, <3>2
  <2> QED
    BY <2>1, <2>2, <2>3 DEF Kinds
<1>2. /\ from' = [from EXCEPT ![w] = m] /\ to' = [to EXCEPT ![w] = n]
      /\ UNCHANGED <<rvars, now, pushPermission, lastGrant, promised, revoking, loaded>>
  BY DEF Receive
<1>3. TypeOK'
  BY <1>0, <1>1, <1>2 DEF TypeOK, rvars
<1>4. EntryOK'
  BY <1>0, <1>2 DEF EntryOK
<1>5. /\ stage'[w] = st /\ ends'[w] = es /\ due'[w] = d /\ from'[w] = m /\ to'[w] = n
      /\ \A v \in Worker \ {w} : /\ stage'[v] = stage[v] /\ from'[v] = from[v]
                                 /\ to'[v] = to[v] /\ loaded'[v] = loaded[v]
                                 /\ due'[v] = due[v] /\ ends'[v] = ends[v]
  BY <1>0, <1>1, <1>2 DEF TypeOK
<1>6. MessageOK(w)'
  BY <1>0, <1>1, <1>2, <1>5 DEF MessageOK, NodesOK, LoadedOK, DueOK, EntryOK
<1>7. ASSUME NEW v \in Worker \ {w}
      PROVE  MessageOK(v)'
  <2>1. /\ now' >= now /\ \A x \in NodeID : /\ lastGrant'[x] >= lastGrant[x]
                                            /\ pushPermission'[x] >= pushPermission[x]
    BY <1>0, <1>2 DEF TypeOK
  <2>2. ends[v] \subseteq NodeID
    BY <1>0 DEF TypeOK
  <2> QED
    BY <1>3, <1>5, <2>1, <2>2, Undisturbed DEF Inv
<1> QED
  BY <1>3, <1>4, <1>6, <1>7 DEF Inv
(* Steps that leave the workers alone and what they rely on.               *)
LEMMA IdleStep ==
  ASSUME Inv, TypeOK', UNCHANGED <<permVars, workVars>>, now' >= now
  PROVE  Inv'
<1>1. EntryOK'
  BY DEF Inv, TypeOK, EntryOK, permVars
<1>2. ASSUME NEW w \in Worker
      PROVE  MessageOK(w)'
  <2>1. /\ stage'[w] = stage[w] /\ from'[w] = from[w] /\ to'[w] = to[w]
        /\ loaded'[w] = loaded[w] /\ due'[w] = due[w] /\ ends'[w] = ends[w]
        /\ \A n \in NodeID : /\ lastGrant'[n] >= lastGrant[n]
                             /\ pushPermission'[n] >= pushPermission[n]
        /\ ends[w] \subseteq NodeID
    BY DEF Inv, TypeOK, permVars, workVars
  <2> QED
    BY <2>1, Undisturbed DEF Inv
<1> QED
  BY <1>1, <1>2 DEF Inv

(* Deleting the entry of a node, by a teardown or by worker w.             *)
LEMMA DeleteStep ==
  ASSUME Inv, TypeOK', NEW n \in NodeID, Delete(n), UNCHANGED <<now, lastGrant>>,
         NEW w \in Worker, ends'[w] \subseteq ends[w] \ {n},
         stage'[w] = stage[w], from'[w] = from[w], to'[w] = to[w],
         loaded'[w] = loaded[w], due'[w] = due[w]
  PROVE  MessageOK(w)'
<1>1. /\ \A m \in NodeID \ {n} : pushPermission'[m] = pushPermission[m]
      /\ \A m \in NodeID : pushPermission[m] \in Nat /\ lastGrant[m] \in Nat
      /\ ends[w] \subseteq NodeID /\ now \in Nat
  BY DeleteEffect DEF Inv, TypeOK
<1>2. /\ now' >= now /\ \A m \in NodeID : lastGrant'[m] >= lastGrant[m]
      /\ \A m \in ends'[w] : pushPermission'[m] >= pushPermission[m]
  BY <1>1
<1> QED
  BY <1>2, Undisturbed DEF Inv

(* Granting permission to one end, then to the other.                      *)
LEMMA StoreStep ==
  ASSUME Inv, NEW w \in Worker, StoreFrom(w) \/ StoreTo(w)
  PROVE  Inv'
<1>0. TypeOK /\ EntryOK /\ MessageOK(w) /\ now \in Nat /\ due[w] \in Nat
  BY DEF Inv, TypeOK
<1>1. /\ stage[w] \in {"storeFrom", "storeTo"} /\ from[w] \in NodeID /\ to[w] \in NodeID
      /\ ends[w] \subseteq {from[w], to[w]} /\ due[w] <= now + TTL
      /\ UNCHANGED <<rvars, now, revoking, from, to, loaded, promised, ends, due>>
  BY <1>0 DEF StoreFrom, StoreTo, MessageOK, NodesOK, DueOK
<1>2. PICK n \in {from[w], to[w]} :
        /\ Grant(n)
        /\ \/ n = from[w] /\ stage[w] = "storeFrom" /\ stage' = [stage EXCEPT ![w] = "storeTo"]
           \/ n = to[w] /\ stage[w] = "storeTo" /\ stage' = [stage EXCEPT ![w] = "forward"]
  BY <1>1 DEF StoreFrom, StoreTo
<1>3. /\ EntryOK' /\ pushPermission'[n] = now + TTL
      /\ \A m \in NodeID : /\ lastGrant'[m] >= lastGrant[m]
                           /\ pushPermission'[m] >= pushPermission[m]
      /\ pushPermission' \in [NodeID -> 0..(MaxTime + TTL)]
      /\ lastGrant' \in [NodeID -> 0..MaxTime]
  BY <1>0, <1>1, <1>2, GrantEffect
<1>4. TypeOK'
  BY <1>0, <1>1, <1>2, <1>3 DEF TypeOK, rvars
<1>5. MessageOK(w)'
  <2>1. CASE stage[w] = "storeFrom"
    <3>1. stage'[w] = "storeTo" /\ n = from[w]
      BY <1>0, <1>2, <2>1 DEF TypeOK
    <3> QED
      BY <1>0, <1>1, <1>3, <3>1 DEF MessageOK, NodesOK, LoadedOK, DueOK
  <2>2. CASE stage[w] = "storeTo"
    <3>1. stage'[w] = "forward" /\ n = to[w]
      BY <1>0, <1>2, <2>2 DEF TypeOK
    <3>2. from[w] \in ends[w] => due[w] <= pushPermission[from[w]]
      BY <1>0, <2>2 DEF MessageOK, DueOK
    <3>3. \A m \in ends[w] : due[w] <= pushPermission'[m]
      <4>1. ASSUME NEW m \in ends[w], m = from[w]
            PROVE  due[w] <= pushPermission'[m]
        <5>1. /\ pushPermission'[m] >= pushPermission[m] /\ due[w] <= pushPermission[m]
              /\ pushPermission[m] \in Nat /\ pushPermission'[m] \in Nat
          BY <1>0, <1>1, <1>3, <3>2, <4>1 DEF TypeOK
        <5> QED
          BY <1>0, <5>1
      <4> QED
        BY <1>1, <1>3, <3>1, <4>1
    <3> QED
      BY <1>0, <1>1, <3>1, <3>3 DEF MessageOK, NodesOK, LoadedOK, DueOK
  <2> QED
    BY <1>1, <2>1, <2>2
<1>6. ASSUME NEW v \in Worker \ {w}
      PROVE  MessageOK(v)'
  <2>1. stage'[v] = stage[v] /\ ends[v] \subseteq NodeID /\ now' >= now
    BY <1>0, <1>1, <1>2 DEF TypeOK
  <2> QED
    BY <1>1, <1>3, <1>4, <2>1, Undisturbed DEF Inv
<1> QED
  BY <1>3, <1>4, <1>5, <1>6 DEF Inv

(* The check of a push: the entry is loaded, and compared.                 *)
LEMMA LoadStep ==
  ASSUME Inv, NEW w \in Worker, Load(w)
  PROVE  Inv'
<1>0. /\ TypeOK /\ EntryOK /\ MessageOK(w) /\ stage[w] = "load" /\ from[w] \in NodeID
      /\ UNCHANGED <<rvars, now, pushPermission, lastGrant, promised, revoking>>
  BY DEF Inv, Load, MessageOK, NodesOK
<1>1. EntryOK'
  BY <1>0 DEF EntryOK
<1>2. /\ TypeOK' /\ MessageOK(w)'
      /\ \A v \in Worker \ {w} : /\ stage'[v] = stage[v] /\ from'[v] = from[v]
                                 /\ to'[v] = to[v] /\ loaded'[v] = loaded[v]
                                 /\ due'[v] = due[v] /\ ends'[v] = ends[v]
  <2>1. CASE pushPermission[from[w]] = 0
    <3>1. Return(w) /\ ends' = [ends EXCEPT ![w] = {}]
      BY <2>1 DEF Load
    <3> QED
      BY <1>0, <3>1, ReturnEffect, IdleOK DEF TypeOK, rvars
  <2>2. CASE pushPermission[from[w]] # 0
    <3>1. /\ loaded' = [loaded EXCEPT ![w] = pushPermission[from[w]]]
          /\ stage' = [stage EXCEPT ![w] = "compare"]
          /\ UNCHANGED <<from, to, ends, due>>
      BY <2>2 DEF Load
    <3>2. TypeOK' /\ stage'[w] = "compare" /\ loaded'[w] = pushPermission[from[w]]
      BY <1>0, <3>1 DEF TypeOK, rvars
    <3>3. NodesOK(w)' /\ DueOK(w)'
      BY <1>0, <3>1, <3>2 DEF MessageOK, NodesOK, DueOK
    <3>4. LoadedOK(w)'
      BY <1>0, <2>2, <3>1, <3>2 DEF LoadedOK, EntryOK, TypeOK
    <3> QED
      BY <1>0, <3>1, <3>2, <3>3, <3>4 DEF MessageOK, TypeOK
  <2> QED
    BY <2>1, <2>2
<1>3. ASSUME NEW v \in Worker \ {w}
      PROVE  MessageOK(v)'
  <2>1. /\ now' >= now /\ ends[v] \subseteq NodeID
        /\ \A n \in NodeID : /\ lastGrant'[n] >= lastGrant[n]
                             /\ pushPermission'[n] >= pushPermission[n]
    BY <1>0 DEF TypeOK
  <2> QED
    BY <1>2, <2>1, Undisturbed DEF Inv
<1> QED
  BY <1>1, <1>2, <1>3 DEF Inv

(* See LoadStep.                                                           *)
LEMMA CompareStep ==
  ASSUME Inv, NEW w \in Worker, Compare(w)
  PROVE  Inv'
<1>0. /\ TypeOK /\ EntryOK /\ MessageOK(w) /\ stage[w] = "compare" /\ from[w] \in NodeID
      /\ UNCHANGED <<rvars, now, permVars, revoking, from, to>>
  BY DEF Inv, Compare, MessageOK, NodesOK
<1>1. EntryOK'
  BY <1>0 DEF EntryOK, permVars
<1>2. PICK st \in {"forward", "delete"} : stage' = [stage EXCEPT ![w] = st]
  BY DEF Compare
<1>3. TypeOK'
  <2>1. loaded' = [loaded EXCEPT ![w] = 0] /\ 0 \in 0..(MaxTime + TTL)
    BY DEF Compare
  <2> QED
    BY <1>0, <1>2, <2>1 DEF TypeOK, rvars, permVars
<1>4. /\ stage'[w] \in {"forward", "delete"}
      /\ \A v \in Worker \ {w} : stage'[v] = stage[v] /\ loaded'[v] = loaded[v]
  BY <1>0, <1>2 DEF TypeOK, Compare
<1>5. MessageOK(w)'
  BY <1>0, <1>4 DEF MessageOK, NodesOK, LoadedOK, DueOK, permVars
<1>6. ASSUME NEW v \in Worker \ {w}
      PROVE  MessageOK(v)'
  <2>1. /\ now' >= now /\ ends[v] \subseteq NodeID
        /\ \A n \in NodeID : /\ lastGrant'[n] >= lastGrant[n]
                             /\ pushPermission'[n] >= pushPermission[n]
    BY <1>0 DEF TypeOK, permVars
  <2> QED
    BY <1>0, <1>3, <1>4, <2>1, Undisturbed DEF Inv, permVars
<1> QED
  BY <1>1, <1>3, <1>5, <1>6 DEF Inv
(* Every step keeps the invariant: one step of the proof per operation.    *)
LEMMA InvStep ==
  ASSUME Inv, [Next]_vars
  PROVE  Inv'
<1>0. TypeOK /\ EntryOK
  BY DEF Inv
<1>1. ASSUME NEW s \in Sess, LoginStep(s)
      PROVE  Inv'
  <2>1. TypeOK' /\ now' >= now /\ UNCHANGED <<permVars, workVars>>
    BY <1>0, <1>1 DEF LoginStep, Login, TypeOK, permVars, workVars
  <2> QED
    BY <2>1, IdleStep
<1>2. ASSUME NEW s \in Sess, LogoutStep(s)
      PROVE  Inv'
  <2>1. TypeOK' /\ now' >= now /\ UNCHANGED <<permVars, workVars>>
    BY <1>0, <1>2 DEF LogoutStep, Logout, Without, TypeOK, permVars, workVars
  <2> QED
    BY <2>1, IdleStep
<1>3. ASSUME NEW s \in Sess, Revoke(s)
      PROVE  Inv'
  <2>1. /\ nodeID[s] \in NodeID /\ Delete(nodeID[s])
        /\ UNCHANGED <<rvars, now, lastGrant, due, workVars>>
        /\ ends' = [w \in Worker |-> ends[w] \ {nodeID[s]}]
    BY <1>3 DEF Revoke
  <2>2. /\ EntryOK' /\ pushPermission' \in [NodeID -> 0..(MaxTime + TTL)]
        /\ promised' \in [NodeID -> 0..(MaxTime + TTL)]
    BY <1>0, <2>1, DeleteEffect
  <2>3. TypeOK'
    BY <1>0, <1>3, <2>1, <2>2 DEF Revoke, TypeOK, rvars, workVars
  <2>4. ASSUME NEW w \in Worker
        PROVE  MessageOK(w)'
    BY <2>1, <2>3, DeleteStep DEF workVars
  <2> QED
    BY <2>2, <2>3, <2>4 DEF Inv
<1>4. ASSUME NEW w \in Worker, DeleteExpired(w)
      PROVE  Inv'
  <2>1. /\ from[w] \in NodeID /\ Delete(from[w]) /\ Return(w)
        /\ UNCHANGED <<rvars, now, revoking, lastGrant>>
        /\ ends' = [v \in Worker |-> IF v = w THEN {} ELSE ends[v] \ {from[w]}]
    BY <1>4 DEF DeleteExpired, Inv, MessageOK, NodesOK
  <2>2. /\ EntryOK' /\ pushPermission' \in [NodeID -> 0..(MaxTime + TTL)]
        /\ promised' \in [NodeID -> 0..(MaxTime + TTL)]
    BY <1>0, <2>1, DeleteEffect
  <2>3. TypeOK'
    <3>1. ends' \in [Worker -> SUBSET NodeID]
      BY <1>0, <2>1 DEF TypeOK
    <3> QED
      BY <1>0, <2>1, <2>2, <3>1, ReturnEffect DEF TypeOK, rvars
  <2>4. MessageOK(w)'
    BY <1>0, <2>1, ReturnEffect, IdleOK
  <2>5. ASSUME NEW v \in Worker \ {w}
        PROVE  MessageOK(v)'
    <3>1. /\ stage'[v] = stage[v] /\ from'[v] = from[v] /\ to'[v] = to[v]
          /\ loaded'[v] = loaded[v] /\ due'[v] = due[v] /\ ends'[v] \subseteq ends[v] \ {from[w]}
      BY <1>0, <2>1, ReturnEffect
    <3> QED
      BY <2>1, <2>3, <3>1, DeleteStep
  <2> QED
    BY <2>2, <2>3, <2>4, <2>5 DEF Inv
<1>5. ASSUME NEW w \in Worker, Forward(w)
      PROVE  Inv'
  <2>1. /\ Return(w) /\ ends' = [ends EXCEPT ![w] = {}]
        /\ UNCHANGED <<rvars, now, pushPermission, lastGrant, revoking>>
        /\ promised' = [n \in NodeID |-> IF n \in ends[w] /\ due[w] > promised[n]
                                         THEN due[w] ELSE promised[n]]
        /\ \A n \in ends[w] : due[w] <= pushPermission[n]
    BY <1>5 DEF Forward, Inv, MessageOK, DueOK
  <2>2. promised' \in [NodeID -> 0..(MaxTime + TTL)]
    BY <1>0, <2>1 DEF TypeOK
  <2>3. TypeOK'
    BY <1>0, <2>1, <2>2, ReturnEffect DEF TypeOK, rvars
  <2>4. EntryOK'
    BY <1>0, <2>1 DEF EntryOK
  <2>5. MessageOK(w)'
    BY <1>0, <2>1, ReturnEffect, IdleOK
  <2>6. ASSUME NEW v \in Worker \ {w}
        PROVE  MessageOK(v)'
    <3>1. /\ stage'[v] = stage[v] /\ from'[v] = from[v] /\ to'[v] = to[v]
          /\ loaded'[v] = loaded[v] /\ due'[v] = due[v] /\ ends'[v] = ends[v]
      BY <1>0, <2>1, ReturnEffect DEF TypeOK
    <3>2. /\ now' >= now /\ ends[v] \subseteq NodeID
          /\ \A n \in NodeID : /\ lastGrant'[n] >= lastGrant[n]
                               /\ pushPermission'[n] >= pushPermission[n]
      BY <1>0, <2>1 DEF TypeOK
    <3> QED
      BY <2>3, <3>1, <3>2, Undisturbed DEF Inv
  <2> QED
    BY <2>3, <2>4, <2>5, <2>6 DEF Inv
<1>6. CASE Tick
  <2>1. TypeOK' /\ now' >= now /\ UNCHANGED <<permVars, workVars>>
    BY <1>0, <1>6 DEF Tick, TypeOK, rvars, permVars, workVars
  <2> QED
    BY <2>1, IdleStep
<1>7. CASE UNCHANGED vars
  <2>1. TypeOK' /\ now' >= now /\ UNCHANGED <<permVars, workVars>>
    BY <1>0, <1>7 DEF vars, TypeOK, rvars, permVars, workVars
  <2> QED
    BY <2>1, IdleStep
<1> QED
  BY <1>1, <1>2, <1>3, <1>4, <1>5, <1>6, <1>7, ReceiveStep, StoreStep, LoadStep, CompareStep
  DEF Next

(* The invariant of all behaviours.                                        *)
LEMMA Invariance == Spec => []Inv
  BY InvInit, InvStep, PTL DEF Spec

----------------------------------------------------------------------------
(* The state of the cache and its users is well typed.                     *)
THEOREM PermissionTypeCorrect == Spec => []TypeOK
<1>1. Inv => TypeOK
  BY DEF Inv
<1> QED
  BY <1>1, Invariance, PTL

(* A worker on the way to check a push goes on by the next step of it.     *)
LEMMA NextOfCheck ==
  ASSUME TypeOK, [Next]_vars, NEW w \in Worker, stage[w] \in {"load", "compare"},
         stage'[w] # stage[w]
  PROVE  (stage[w] = "load" /\ Load(w)) \/ (stage[w] = "compare" /\ Compare(w))
<1>1. ASSUME NEW v \in Worker, NEW x, stage' = [stage EXCEPT ![v] = x]
      PROVE  v = w
  BY <1>1 DEF TypeOK
<1>2. ASSUME NEW v \in Worker, NEW s \in Sess, NEW m \in NodeID, NEW n \in NodeID,
             NEW k \in Kinds, Receive(v, s, m, n, k)
      PROVE  FALSE
  <2> DEFINE x == CASE k \in {"connect", "query"} -> "storeFrom"
                    [] k = "checked" -> "load"
                    [] k = "bypass" -> "forward"
  <2>1. stage' = [stage EXCEPT ![v] = x] /\ stage[v] = "idle"
    BY <1>2 DEF Receive
  <2> HIDE DEF x
  <2> QED
    BY <1>1, <2>1
<1>3. ASSUME NEW v \in Worker,
             StoreFrom(v) \/ StoreTo(v) \/ DeleteExpired(v) \/ Forward(v)
      PROVE  FALSE
  <2>1. stage[v] \notin {"load", "compare"} /\ \E x : stage' = [stage EXCEPT ![v] = x]
    BY <1>3 DEF StoreFrom, StoreTo, DeleteExpired, Forward, Return
  <2> QED
    BY <1>1, <2>1
<1>4. ASSUME NEW v \in Worker, Load(v) \/ Compare(v)
      PROVE  v = w
  <2>1. \E x : stage' = [stage EXCEPT ![v] = x]
    BY <1>4 DEF Load, Return, Compare
  <2> QED
    BY <1>1, <2>1
<1>5. Load(w) \/ Compare(w)
  BY <1>2, <1>3, <1>4 DEF Next, LoginStep, LogoutStep, Revoke, Tick, vars, workVars
<1> QED
  BY <1>5 DEF Load, Compare

(* A checked push is let through only within TTL of a grant to the node it *)
(* names as its sender, whatever happens to the entry after it was loaded  *)
(* (pushhandler.go:78-82).                                                 *)
THEOREM ExpiredAreDenied == Spec => ExpiryEnforced
<1>1. ASSUME Inv, [Next]_vars, NEW w \in Worker, stage[w] = "compare", stage'[w] = "forward"
      PROVE  lastGrant[from[w]] > 0 /\ now < lastGrant[from[w]] + TTL
  <2>1. Compare(w) /\ from[w] \in NodeID
    BY <1>1, NextOfCheck DEF Inv, MessageOK, NodesOK
  <2>2. loaded[w] > now
    BY <1>1, <2>1 DEF Compare, Inv, TypeOK
  <2>3. /\ loaded[w] <= lastGrant[from[w]] + TTL /\ lastGrant[from[w]] > 0
        /\ now \in Nat /\ loaded[w] \in Nat /\ lastGrant[from[w]] \in Nat
    BY <1>1, <2>1 DEF Inv, TypeOK, MessageOK, LoadedOK
  <2> QED
    BY <2>2, <2>3
<1>2. Inv /\ [Next]_vars => \A w \in Worker : (stage[w] = "compare" /\ stage'[w] = "forward")
                                => lastGrant[from[w]] > 0 /\ now < lastGrant[from[w]] + TTL
  BY <1>1
<1> QED
  BY <1>2, Invariance, PTL DEF ExpiryEnforced, Spec

(* Once a connect request has been forwarded, or a query answered, no push *)
(* that names one of its ends as the sender is denied for TTL, unless that *)
(* end's entry has been deleted: the second permission is there before the *)
(* target can answer (pushhandler.go:70-71, queryhandler.go:47-48).        *)
THEOREM AnswersPass == Spec => AnswerPasses
<1>1. ASSUME Inv, [Next]_vars, NEW w \in Worker, Denied(w), from[w] \in ends[w]
      PROVE  now >= due[w]
  <2>1. /\ TypeOK /\ MessageOK(w) /\ from[w] \in NodeID
        /\ now \in Nat /\ now >= 1 /\ due[w] \in Nat /\ loaded[w] \in Nat
    BY <1>1 DEF Inv, TypeOK, MessageOK, NodesOK, Denied
  <2>2. CASE stage[w] = "compare" /\ stage'[w] = "delete"
    <3>1. ~(loaded[w] > now)
      BY <1>1, <2>1, <2>2, NextOfCheck DEF Compare, TypeOK
    <3>2. due[w] <= loaded[w]
      BY <1>1, <2>1, <2>2 DEF MessageOK, DueOK
    <3> QED
      BY <2>1, <3>1, <3>2
  <2>3. CASE stage[w] = "load" /\ stage'[w] = "idle"
    <3>1. Load(w)
      BY <1>1, <2>1, <2>3, NextOfCheck
    <3>2. pushPermission[from[w]] = 0
      BY <2>1, <2>3, <3>1 DEF Load, TypeOK
    <3>3. due[w] <= pushPermission[from[w]]
      BY <1>1, <2>1, <2>3 DEF MessageOK, DueOK
    <3> QED
      BY <2>1, <3>2, <3>3
  <2> QED
    BY <1>1, <2>2, <2>3 DEF Denied
<1>2. Inv /\ [Next]_vars => \A w \in Worker : Denied(w) /\ from[w] \in ends[w] => now >= due[w]
  BY <1>1
<1> QED
  BY <1>2, Invariance, PTL DEF AnswerPasses, Spec
=============================================================================
