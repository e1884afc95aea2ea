------------------------------ MODULE Networks ------------------------------
(***************************************************************************)
(* The virtual (SDWAN) networks: the web handlers that manage them, the    *)
(* store that keeps them in memory and in a file, and the answers nodes    *)
(* get when they ask for their network.  Handlers take a pointer to the    *)
(* network out of the store under its lock and read and change the network *)
(* after the lock is released, so that handlers of one network interfere;  *)
(* only saveNetwork and deleteNetwork of the store, which write the whole  *)
(* store to the file, exclude each other.  A changed network is pushed to  *)
(* its members as a refresh, upon which a node asks for its network again; *)
(* any message worker answers.                                             *)
(*                                                                         *)
(* One user is modelled (a network of another user is "not found"), and of *)
(* a network its gateway address, its enable flag and its members' names   *)
(* and addresses.  A slice header is read and written in one step, a read  *)
(* and a write of it are two.                                              *)
(***************************************************************************)
EXTENDS Integers, Sequences, FiniteSets

CONSTANTS
  Net,        \* network ids
  NoNet,      \* no network
  Node,       \* node names (all online)
  NoNode,     \* no node
  LastIP,     \* the subnet's addresses after the network address are 1..LastIP
  Gateways,   \* the gateway addresses users give their networks
  Wishes,     \* the addresses users ask for when they add a member
  Handler,    \* concurrent web requests
  Worker,     \* message workers
  Stored,     \* the files the process may find when it is first started
  MaxOps,     \* bound of the model: web requests in all
  MaxCrashes  \* bound of the model: crashes of the process

ASSUME NetworksAssumption ==
  /\ NoNet \notin Net /\ NoNode \notin Node
  /\ Gateways \subseteq 1..LastIP /\ Gateways # {} /\ Wishes \subseteq 1..LastIP
  /\ LastIP \in Nat \ {0} /\ MaxOps \in Nat /\ MaxCrashes \in Nat

IP == 1..LastIP
Conf == [gateway : Gateways, enable : BOOLEAN]

(* StoreNetworkNode; obj tells the objects apart: it is the number of the  *)
(* request that has made it, and less than 1 for one from the first file.  *)
Member == [obj : Int, name : Node, ip : IP]

(* storeData, as far as networks go.                                       *)
StoreData == [networks : SUBSET Net, conf : [Net -> Conf], members : [Net -> Seq(Member)]]

ASSUME StoredAssumption == \A d \in Stored : d \in StoreData

VARIABLES
  data,    \* the networks in memory: gStore.data.Networks and the objects
  disk,    \* the networks in gateway-data.json
  buf,     \* what a save in progress has marshalled
  saver,   \* the handler that holds the store's lock for a save, if any
  pc,      \* where each handler is
  loc,     \* its request and local variables
  used,    \* networks created so far
  ops,     \* web requests so far
  crashes, \* crashes so far
  asks,    \* refreshes on the way to each node or its requests on the way back
  wpc,     \* where each worker is in sdwanHandler
  asker,   \* the node it answers
  info,    \* the network it has found, then the answer
  view,    \* the answer each node got last
  told,    \* history: <<n, x>> if x was pushed a refresh since n changed
  crossed, \* history: nodes whose latest requests were handled together
  saved,   \* history: the latest save succeeded
  raced,   \* history: networks whose members two handlers edited at a time
  wished   \* history: the objects of members whose address was asked for

memVars  == <<data, used>>
fileVars == <<disk, buf, saver, saved>>
reqVars  == <<pc, loc, ops>>
nodeVars == <<asks, wpc, asker, info, view, crossed>>
histVars == <<raced, wished>>
vars == <<memVars, fileVars, reqVars, nodeVars, told, crashes, histVars>>

NoConf == [gateway |-> CHOOSE g \in Gateways : TRUE, enable |-> FALSE]
EmptyStore == [networks |-> {}, conf |-> [n \in Net |-> NoConf], members |-> [n \in Net |-> <<>>]]

Names(q) == {q[i].name : i \in DOMAIN q}

(* Each node is in q once, and the members of q whose addresses nobody     *)
(* asked for have addresses of their own.                                  *)
Distinct(q) ==
  \A i, j \in DOMAIN q : i # j =>
    /\ q[i].name # q[j].name
    /\ q[i].ip = q[j].ip => {q[i].obj, q[j].obj} \cap wished # {}

(* The networks of d and their members.                                    *)
Members(d) == UNION {{n} \X Names(d.members[n]) : n \in Net}

(* Mutant: the search ends at the first enabled network.                   *)
FoundFirst(x) ==
  LET on == {n \in data.networks : data.conf[n].enable} IN
  IF on = {} THEN {}
  ELSE {n \in {CHOOSE m \in on : TRUE} : x \in Names(data.members[n])}

(* findNetworkByNode ranges over the map in any order and returns the      *)
(* first of these networks.                                                *)
Found(x) == {n \in data.networks : data.conf[n].enable /\ x \in Names(data.members[n])}

(* What sdwanHandler answers: the network, or an empty SDWANInfo.          *)
Info(n) == [net |-> n, conf |-> data.conf[n], members |-> data.members[n]]
NoInfo == [net |-> NoNet, conf |-> NoConf, members |-> <<>>]

Ops == {"save", "delete", "add", "update", "remove"}
Idle == [op |-> "save", net |-> NoNet, name |-> NoNode, ip |-> 0, auto |-> FALSE, obj |-> 0,
         conf |-> NoConf, base |-> <<>>, todo |-> {}]
Locals == [op : Ops, net : Net \cup {NoNet}, name : Node \cup {NoNode}, ip : 0..LastIP,
           auto : BOOLEAN, obj : Int, conf : Conf, base : Seq(Member), todo : SUBSET Node]

TypeOK ==
  /\ data \in StoreData /\ disk \in StoreData /\ buf \in StoreData
  /\ saver \in SUBSET Handler
  /\ pc \in [Handler -> {"idle", "scan", "alloc", "read", "write", "save", "rename", "notify",
                       "push"}]
  /\ loc \in [Handler -> Locals]
  /\ used \in SUBSET Net /\ ops \in 0..MaxOps /\ crashes \in 0..MaxCrashes
  /\ asks \in [Node -> Nat]
  /\ wpc \in [Worker -> {"idle", "build", "reply"}]
  /\ asker \in [Worker -> Node \cup {NoNode}]
  /\ info \in [Worker -> [net : Net \cup {NoNet}, conf : Conf, members : Seq(Member)]]
  /\ view \in [Node -> [net : Net \cup {NoNet}, conf : Conf, members : Seq(Member)]]
  /\ told \in SUBSET (Net \X Node) /\ crossed \in SUBSET Node /\ saved \in BOOLEAN
  /\ raced \in SUBSET Net /\ wished \in SUBSET Int

(* The process has loaded its file, and the nodes have asked for their     *)
(* network.                                                                *)
Init ==
  /\ disk \in Stored /\ data = disk /\ buf = EmptyStore
  /\ saver = {} /\ saved = TRUE
  /\ pc = [h \in Handler |-> "idle"] /\ loc = [h \in Handler |-> Idle]
  /\ used = data.networks /\ ops = 0 /\ crashes = 0
  /\ asks = [x \in Node |-> 0]
  /\ wpc = [w \in Worker |-> "idle"] /\ asker = [w \in Worker |-> NoNode]
  /\ info = [w \in Worker |-> NoInfo]
  /\ view \in [Node -> {NoInfo} \cup {Info(n) : n \in Net}]
  /\ \A x \in Node : IF Found(x) = {} THEN view[x] = NoInfo ELSE view[x].net \in Found(x)
  /\ told = Members(data) /\ crossed = {}
  /\ wished = {} /\ raced = {n \in Net : ~Distinct(data.members[n])}

(* The store's mutex is free, for readers and writers.                     *)
StoreFree == saver = {}

----------------------------------------------------------------------------
(* The handlers between their look at the members of n and their change.   *)
Editors(n) ==
  {h \in Handler : /\ loc[h].net = n /\ pc[h] \in {"scan", "alloc", "read", "write"}
                   /\ loc[h].op \in {"add", "update", "remove"}}

(* The web handlers, up to their change of the network.                    *)
Begin(h, at, l) ==
  /\ pc[h] = "idle" /\ ops < MaxOps
  /\ ops' = ops + 1
  /\ raced' = IF l.op \in {"add", "remove"} /\ Editors(l.net) # {} THEN raced \cup {l.net}
              ELSE raced
  /\ pc' = [pc EXCEPT ![h] = at]
  /\ loc' = [loc EXCEPT ![h] = l]

(* saveNetwork without an id makes a new network, which no other handler   *)
(* can see before it is saved.                                             *)
NewNetwork(h, n, c) ==
  /\ n \notin used
  /\ Begin(h, "write", [Idle EXCEPT !.op = "save", !.net = n, !.conf = c])
  /\ used' = used \cup {n}
  /\ UNCHANGED <<data, fileVars, nodeVars, told, crashes, wished>>

(* The other requests look the network up; one that is not there is        *)
(* answered "network not found".                                           *)
GetNetwork(h, n) ==
  /\ StoreFree /\ n \in data.networks
  /\ \/ \E c \in Conf :
          Begin(h, "write", [Idle EXCEPT !.op = "save", !.net = n, !.conf = c])
     \/ Begin(h, "save", [Idle EXCEPT !.op = "delete", !.net = n])
     \/ \E x \in Node : Begin(h, "read", [Idle EXCEPT !.op = "remove", !.net = n, !.name = x])
     \/ \E x \in Node, a \in Wishes \cup {0} :
          Begin(h, "scan", [Idle EXCEPT !.op = "add", !.net = n, !.name = x, !.ip = a,
                                  !.obj = ops + 1])
  /\ UNCHANGED <<memVars, fileVars, nodeVars, told, crashes, wished>>

(* Mutant: the members' addresses count as free.                           *)
FreeButGateway(n) == IP \ {data.conf[n].gateway}

(* The addresses allocVirtualIP may give: not the gateway's and no         *)
(* member's.                                                               *)
Free(n) ==
  IP \ ({data.conf[n].gateway} \cup {data.members[n][i].ip : i \in DOMAIN data.members[n]})

(* Mutant: the address that was asked for is used, be there one or not.    *)
AddressAsked(h) == loc[h].ip

(* The address allocVirtualIP gives: the first free one.                   *)
Address(h) == CHOOSE a \in Free(loc[h].net) : \A b \in Free(loc[h].net) : a <= b

(* addNetworkMember looks for the name among the members.  If it is not    *)
(* there, an address is allocated unless one was asked for, free or not ...*)
Scan(h) ==
  /\ pc[h] = "scan"
  /\ LET n == loc[h].net
         there == {i \in DOMAIN data.members[n] : data.members[n][i].name = loc[h].name}
     IN \/ /\ there # {}
           /\ LET i == CHOOSE j \in there : \A k \in there : j <= k IN
                loc' = [loc EXCEPT ![h].op = "update", ![h].obj = data.members[n][i].obj]
           /\ pc' = [pc EXCEPT ![h] = "write"]
        \/ /\ there = {} /\ UNCHANGED loc
           /\ pc' = [pc EXCEPT ![h] = IF loc[h].ip = 0 THEN "alloc" ELSE "read"]
  /\ UNCHANGED <<memVars, fileVars, ops, nodeVars, told, crashes, histVars>>

(* ... for which allocVirtualIP goes over the members once more; it may    *)
(* find no free address.                                                   *)
Allocate(h) ==
  /\ pc[h] = "alloc"
  /\ \/ /\ Free(loc[h].net) = {}
        /\ loc' = [loc EXCEPT ![h] = Idle]
        /\ pc' = [pc EXCEPT ![h] = "idle"]
     \/ /\ Free(loc[h].net) # {}
        /\ loc' = [loc EXCEPT ![h].ip = Address(h), ![h].auto = TRUE]
        /\ pc' = [pc EXCEPT ![h] = "read"]
  /\ UNCHANGED <<memVars, fileVars, ops, nodeVars, told, crashes, histVars>>

(* n.Members is read, to be appended to or copied without a member.        *)
ReadMembers(h) ==
  /\ pc[h] = "read"
  /\ loc' = [loc EXCEPT ![h].base = data.members[loc[h].net]]
  /\ pc' = [pc EXCEPT ![h] = "write"]
  /\ UNCHANGED <<memVars, fileVars, ops, nodeVars, told, crashes, histVars>>

(* The loop of delNetworkMember that copies the other members.          *)
Without(q, name) ==
  LET kept[i \in 0..Len(q)] ==
        IF i = 0 THEN <<>>
        ELSE IF q[i].name = name THEN kept[i - 1]
        ELSE Append(kept[i - 1], q[i])
  IN kept[Len(q)]

(* The change: n.Members is assigned, a field of a member object (which    *)
(* may no longer be among the members) or the fields of the network.       *)
ChangedMembers(l) ==
  CASE l.op = "add" ->
         Append(l.base, [obj |-> l.obj, name |-> l.name, ip |-> l.ip])
    [] l.op = "remove" -> Without(l.base, l.name)
    [] l.op = "update" ->
         [i \in DOMAIN data.members[l.net] |->
            IF data.members[l.net][i].obj = l.obj /\ l.ip # 0
            THEN [data.members[l.net][i] EXCEPT !.ip = l.ip] ELSE data.members[l.net][i]]
    [] l.op = "save" -> data.members[l.net]

Change(h) ==
  /\ pc[h] = "write"
  /\ LET l == loc[h] IN
     /\ data' = [data EXCEPT !.members[l.net] = ChangedMembers(l),
                             !.conf[l.net] = IF l.op = "save" THEN l.conf ELSE @]
     /\ told' = {p \in told : p[1] # l.net}
     /\ wished' = IF (l.op = "update" /\ l.ip # 0) \/ (l.op = "add" /\ ~l.auto)
                  THEN wished \cup {l.obj} ELSE wished
  /\ pc' = [pc EXCEPT ![h] = "save"]
  /\ UNCHANGED <<used, fileVars, loc, ops, nodeVars, crashes, raced>>

----------------------------------------------------------------------------
(* Store.saveNetwork and Store.deleteNetwork with Store.save.              *)
Saved(l) ==
  IF l.op = "delete" THEN data.networks \ {l.net} ELSE data.networks \cup {l.net}

(* json.MarshalIndent: the networks that are in the map.                   *)
Marshal(d) ==
  [d EXCEPT !.conf = [n \in Net |-> IF n \in d.networks THEN d.conf[n] ELSE NoConf],
            !.members = [n \in Net |-> IF n \in d.networks THEN d.members[n] ELSE <<>>]]

(* Mutant: the store is marshalled before the map is changed.              *)
ToFileStale(l) == Marshal(data)

ToFile(l) == Marshal([data EXCEPT !.networks = Saved(l)])

(* The lock is taken, the map changed and the store marshalled into the    *)
(* temporary file ...                                                      *)
Save(h) ==
  /\ pc[h] = "save" /\ StoreFree
  /\ saver' = {h}
  /\ data' = [data EXCEPT !.networks = Saved(loc[h])]
  /\ buf' = ToFile(loc[h])
  /\ told' = IF loc[h].op = "delete" THEN {p \in told : p[1] # loc[h].net} ELSE told
  /\ pc' = [pc EXCEPT ![h] = "rename"]
  /\ UNCHANGED <<used, disk, saved, loc, ops, nodeVars, crashes, histVars>>

(* ... and the file renamed.  An error of either step is logged and        *)
(* ignored.                                                                *)
Rename(h) ==
  /\ pc[h] = "rename"
  /\ \E ok \in BOOLEAN : saved' = ok /\ disk' = IF ok THEN buf ELSE disk
  /\ saver' = {} /\ buf' = EmptyStore
  /\ pc' = [pc EXCEPT ![h] = "notify"]
  /\ UNCHANGED <<memVars, loc, ops, nodeVars, told, crashes, histVars>>

----------------------------------------------------------------------------
(* Mutant: the members of before the change are notified.                  *)
ToNotifyBase(l) == Names(l.base) \cup (IF l.op = "remove" THEN {l.name} ELSE {})

(* notifyNetworkMembers goes over the members of that moment, and a        *)
(* removed node is notified as well; the model takes them in any order.    *)
ToNotify(l) ==
  Names(data.members[l.net]) \cup (IF l.op = "remove" THEN {l.name} ELSE {})

Notify(h) ==
  /\ pc[h] = "notify"
  /\ loc' = [loc EXCEPT ![h].todo = ToNotify(loc[h])]
  /\ pc' = [pc EXCEPT ![h] = "push"]
  /\ UNCHANGED <<memVars, fileVars, ops, nodeVars, told, crashes, histVars>>

Push(h) ==
  /\ pc[h] = "push"
  /\ \E x \in loc[h].todo :
       /\ asks' = [asks EXCEPT ![x] = @ + 1]
       /\ told' = told \cup {<<loc[h].net, x>>}
       /\ loc' = [loc EXCEPT ![h].todo = @ \ {x}]
  /\ UNCHANGED <<memVars, fileVars, pc, ops, wpc, asker, info, view, crossed, crashes, histVars>>

Answer(h) ==
  /\ pc[h] = "push" /\ loc[h].todo = {}
  /\ pc' = [pc EXCEPT ![h] = "idle"]
  /\ loc' = [loc EXCEPT ![h] = Idle]
  /\ UNCHANGED <<memVars, fileVars, ops, nodeVars, told, crashes, histVars>>

----------------------------------------------------------------------------
(* A worker answers a node's MsgSDWANInfoReq.                              *)
Answering(x) == {w \in Worker : asker[w] = x}

FindNetwork(w, x) ==
  /\ wpc[w] = "idle" /\ asks[x] > 0 /\ StoreFree
  /\ asks' = [asks EXCEPT ![x] = @ - 1]
  /\ asker' = [asker EXCEPT ![w] = x]
  /\ crossed' = IF Answering(x) = {} THEN crossed \ {x} ELSE crossed \cup {x}
  /\ \/ /\ Found(x) = {}
        /\ wpc' = [wpc EXCEPT ![w] = "reply"] /\ UNCHANGED info
     \/ \E n \in Found(x) :
          /\ info' = [info EXCEPT ![w].net = n]
          /\ wpc' = [wpc EXCEPT ![w] = "build"]
  /\ UNCHANGED <<memVars, fileVars, reqVars, view, told, crashes, histVars>>

(* buildSDWANInfo copies the network it has found.                         *)
BuildInfo(w) ==
  /\ wpc[w] = "build"
  /\ info' = [info EXCEPT ![w] = Info(@.net)]
  /\ wpc' = [wpc EXCEPT ![w] = "reply"]
  /\ UNCHANGED <<memVars, fileVars, reqVars, asks, asker, view, crossed, told, crashes, histVars>>

(* The answer is written to the session; the node takes the answers as     *)
(* they come.                                                              *)
Reply(w) ==
  /\ wpc[w] = "reply"
  /\ view' = [view EXCEPT ![asker[w]] = info[w]]
  /\ info' = [info EXCEPT ![w] = NoInfo]
  /\ asker' = [asker EXCEPT ![w] = NoNode]
  /\ wpc' = [wpc EXCEPT ![w] = "idle"]
  /\ UNCHANGED <<memVars, fileVars, reqVars, asks, crossed, told, crashes, histVars>>

----------------------------------------------------------------------------
(* The process dies and is started again: Store.load reads the file; the   *)
(* nodes connect, ask for their network and are answered.                  *)
Restart ==
  /\ crashes < MaxCrashes
  /\ crashes' = crashes + 1
  /\ data' = disk
  /\ buf' = EmptyStore /\ saver' = {} /\ saved' = TRUE
  /\ pc' = [h \in Handler |-> "idle"] /\ loc' = [h \in Handler |-> Idle]
  /\ wpc' = [w \in Worker |-> "idle"] /\ asker' = [w \in Worker |-> NoNode]
  /\ info' = [w \in Worker |-> NoInfo]
  /\ asks' = [x \in Node |-> 0]
  /\ view' \in [Node -> {NoInfo} \cup {Info(n)' : n \in Net}]
  /\ \A x \in Node : IF Found(x)' = {} THEN view'[x] = NoInfo ELSE view'[x].net \in Found(x)'
  /\ told' = Members(data') /\ crossed' = {}
  /\ UNCHANGED <<disk, used, ops, histVars>>

HandlerStep(h) ==
  \/ \E n \in Net : GetNetwork(h, n) \/ \E c \in Conf : NewNetwork(h, n, c)
  \/ Scan(h) \/ Allocate(h) \/ ReadMembers(h) \/ Change(h) \/ Save(h) \/ Rename(h)
  \/ Notify(h) \/ Push(h) \/ Answer(h)

Next ==
  \/ \E h \in Handler : HandlerStep(h)
  \/ \E w \in Worker : BuildInfo(w) \/ Reply(w) \/ \E x \in Node : FindNetwork(w, x)
  \/ Restart

Spec == Init /\ [][Next]_vars

----------------------------------------------------------------------------
(* Handlers of n that have changed it and not saved the change yet.        *)
Unsaved(n) == {h \in Handler : loc[h].net = n /\ pc[h] \in {"save", "rename"}}

(* A change survives a restart once its handler has saved it: whatever the *)
(* other handlers do to the networks meanwhile, and although a save writes *)
(* the whole store, a network that no handler is saving is the same in the *)
(* file as in memory, unless the latest save failed.                       *)
Persisted ==
  saved => \A n \in used : Unsaved(n) = {} =>
     /\ n \in disk.networks <=> n \in data.networks
     /\ n \in data.networks =>
          disk.conf[n] = data.conf[n] /\ disk.members[n] = data.members[n]

(* A network is a set of members with addresses of their own: a node is a  *)
(* member once at most, and only an address that was asked for can be      *)
(* another member's too, as long as no two requests edited the members at  *)
(* a time; settings that are saved, deletions, refreshes, failed saves and *)
(* restarts from an older file do no harm.                                 *)
MembersDistinct == \A n \in Net \ raced : Distinct(data.members[n])

(* Some handler has changed n and will still push a refresh to x, if x is  *)
(* a member.                                                               *)
WillTell(n, x) ==
  \E h \in Handler :
     /\ loc[h].net = n
     /\ \/ pc[h] \in {"save", "rename", "notify"}
        \/ pc[h] = "push" /\ x \in loc[h].todo

(* Every member is pushed a refresh after every change of its network, the *)
(* network's deletion included, in spite of members entered or lost by     *)
(* handlers that overlap.                                                  *)
MembersTold ==
  \A n \in used : \A x \in Names(data.members[n]) : <<n, x>> \in told \/ WillTell(n, x)

(* The node has asked and been answered, and nobody is about to tell it    *)
(* more about n.                                                           *)
Settled(n, x) == asks[x] = 0 /\ Answering(x) = {} /\ ~WillTell(n, x)

UpToDate(n, x) == view[x] # NoInfo /\ (view[x].net = n => view[x] = Info(n))

Serves(n, x) == n \in data.networks /\ data.conf[n].enable /\ x \in Names(data.members[n])

(* Once the refreshes have been answered, a member of an enabled network   *)
(* has a network, and knows the latest state of it, if its latest requests *)
(* were not handled by two workers at a time.                              *)
ViewCurrent ==
  \A n \in Net, x \in Node :
     (Serves(n, x) /\ Settled(n, x) /\ x \notin crossed) => UpToDate(n, x)

----------------------------------------------------------------------------
(* What a comment says; the code does otherwise.                           *)

(* "picks the next free virtual ip in the network's subnet"                *)
(* (store.go:292): an allocated address is no other member's when it is    *)
(* given to the new member.                                                *)
AllocatedFree ==
  [][\A h \in Handler : (Change(h) /\ loc[h].op = "add" /\ loc[h].auto) =>
        \A i \in DOMAIN data.members[loc[h].net] :
           data.members[loc[h].net][i].ip # loc[h].ip]_vars
=============================================================================
