--------------------------- MODULE NetworksProofs ---------------------------
(***************************************************************************)
(* Proofs about module Networks, for every set of networks, nodes,         *)
(* requests and first files, and any number of web requests and crashes.   *)
(* The first ones need of the members of a network nothing but their       *)
(* names; then come the types, and with them that members are distinct.    *)
(***************************************************************************)
EXTENDS Networks, NatRecursion, TLAPS

(* What the proofs need of the types: which fields there are, and that     *)
(* there is an entry for each network and each handler.                    *)
Shaped(d) ==
  /\ DOMAIN d = {"networks", "conf", "members"} /\ d.networks \subseteq Net
  /\ DOMAIN d.conf = Net /\ DOMAIN d.members = Net

ShapeOK ==
  /\ Shaped(data) /\ Shaped(disk) /\ Shaped(buf)
  /\ used \subseteq Net
  /\ DOMAIN pc = Handler /\ DOMAIN loc = Handler
  /\ \A h \in Handler : DOMAIN loc[h] = DOMAIN Idle /\ (pc[h] = "idle" \/ loc[h].net \in Net)

(* d has of network n what the memory has.                                 *)
Same(d, n) ==
  /\ n \in d.networks <=> n \in data.networks
  /\ n \in data.networks => d.conf[n] = data.conf[n] /\ d.members[n] = data.members[n]

(* A handler between its two steps of a save has the store's lock, and     *)
(* what it has marshalled is out of date only where another handler has    *)
(* changed a network and waits for the lock.                               *)
BufOK ==
  \A h \in Handler : pc[h] = "rename" =>
    /\ saver = {h}
    /\ \A n \in Net :
         (\A g \in Handler : ~(loc[g].net = n /\ pc[g] = "save")) => Same(buf, n)

DiskOK == saved => \A n \in Net : Unsaved(n) = {} => Same(disk, n)

(* MembersTold, of networks that are not in use yet as well.               *)
ToldOK ==
  \A n \in Net : \A x \in Names(data.members[n]) : <<n, x>> \in told \/ WillTell(n, x)

Inv == ShapeOK /\ BufOK /\ DiskOK /\ ToldOK

----------------------------------------------------------------------------
(* What the store has been given or marshals is a store.                   *)
LEMMA Shapes ==
  /\ \A d \in StoreData : Shaped(d)
  /\ Shaped(EmptyStore)
  /\ \A d : Shaped(d) => Shaped(Marshal(d))
<1>1. ASSUME NEW d \in StoreData PROVE Shaped(d)
  BY DEF StoreData, Shaped
<1>2. Shaped(EmptyStore)
  BY DEF EmptyStore, Shaped
<1>3. ASSUME NEW d, Shaped(d) PROVE Shaped(Marshal(d))
  BY <1>3 DEF Marshal, Shaped
<1> QED
  BY <1>1, <1>2, <1>3

(* The invariant holds at first.                                           *)
LEMMA InvInit == Init => Inv
<1> SUFFICES ASSUME Init PROVE Inv
  OBVIOUS
<1>1. disk \in StoreData /\ data = disk /\ buf = EmptyStore
  BY StoredAssumption DEF Init
<1>2. ShapeOK
  <2>1. Shaped(data) /\ Shaped(disk) /\ Shaped(buf)
    BY <1>1, Shapes
  <2>2. used \subseteq Net
    BY <2>1 DEF Init, Shaped
  <2> QED
    BY <2>1, <2>2 DEF Init, ShapeOK
<1>3. BufOK /\ DiskOK
  BY <1>1 DEF Init, BufOK, DiskOK, Same
<1>4. ToldOK
  BY DEF Init, ToldOK, Members
<1> QED
  BY <1>2, <1>3, <1>4 DEF Inv

(* A step of one handler that changes no network and no file, and does not *)
(* start or end the handler's duty to save or to notify.                   *)
LEMMA QuietStep ==
  ASSUME Inv, NEW h \in Handler, UNCHANGED <<data, fileVars, told>>,
         pc[h] \in {"idle", "scan", "alloc", "read"},
         pc'[h] \in {"idle", "scan", "alloc", "read", "write", "save"},
         pc'[h] = "save" => pc[h] = "idle",
         pc' = [pc EXCEPT ![h] = pc'[h]], UNCHANGED loc \/ loc' = [loc EXCEPT ![h] = loc'[h]],
         DOMAIN loc'[h] = DOMAIN Idle, pc'[h] = "idle" \/ loc'[h].net \in Net, used' \subseteq Net
  PROVE  Inv'
<1>1. ShapeOK /\ BufOK /\ DiskOK /\ ToldOK
  BY DEF Inv
<1>2. \A g \in Handler \ {h} : pc'[g] = pc[g] /\ loc'[g] = loc[g]
  BY <1>1 DEF ShapeOK
<1>3. ShapeOK'
  BY <1>1, <1>2 DEF ShapeOK, Shaped, fileVars
<1>4. \A d, n : Same(d, n)' <=> Same(d', n)
  BY DEF Same
<1>5. BufOK'
  <2> SUFFICES ASSUME NEW k \in Handler, pc'[k] = "rename"
               PROVE  /\ saver' = {k}
                      /\ \A n \in Net :
                           (\A g \in Handler : ~(loc'[g].net = n /\ pc'[g] = "save"))
                              => Same(buf, n)'
    BY DEF BufOK
  <2>1. k # h /\ pc[k] = "rename" /\ saver' = saver /\ buf' = buf
    BY <1>2 DEF fileVars
  <2>2. ASSUME NEW n \in Net, \A g \in Handler : ~(loc'[g].net = n /\ pc'[g] = "save")
        PROVE  \A g \in Handler : ~(loc[g].net = n /\ pc[g] = "save")
    BY <1>2, <2>2
  <2> QED
    BY <1>1, <2>1, <2>2 DEF BufOK, Same
<1>6. DiskOK'
  <2>1. ASSUME NEW n \in Net, Unsaved(n)' = {}
        PROVE  Unsaved(n) = {}
    BY <1>2, <2>1 DEF Unsaved
  <2> QED
    BY <1>1, <2>1 DEF DiskOK, Same, fileVars
<1>7. ToldOK'
  <2>1. ASSUME NEW n \in Net, NEW x, WillTell(n, x)
        PROVE  WillTell(n, x)'
    BY <1>2, <2>1 DEF WillTell
  <2> QED
    BY <1>1, <2>1 DEF ToldOK, fileVars
<1> QED
  BY <1>3, <1>5, <1>6, <1>7 DEF Inv

(* Every step keeps the invariant: the steps before a handler's change ... *)
LEMMA InvBefore ==
  ASSUME Inv, NEW h \in Handler,
         \/ \E n \in Net : GetNetwork(h, n) \/ \E c \in Conf : NewNetwork(h, n, c)
         \/ Scan(h) \/ Allocate(h) \/ ReadMembers(h)
  PROVE  Inv'
<1>0. ShapeOK
  BY DEF Inv
<1>1. ASSUME NEW n \in Net, GetNetwork(h, n)
      PROVE  Inv'
  <2>1. ASSUME NEW at \in {"write", "save", "scan", "read"}, NEW l, DOMAIN l = DOMAIN Idle, l.net = n,
               Begin(h, at, l)
        PROVE  Inv'
    BY <1>0, <1>1, <2>1, QuietStep DEF Begin, GetNetwork, memVars, ShapeOK
  <2> QED
    BY <1>1, <2>1 DEF GetNetwork, Idle
<1>2. ASSUME NEW n \in Net, NEW c \in Conf, NewNetwork(h, n, c)
      PROVE  Inv'
  <2>1. /\ pc[h] = "idle" /\ pc' = [pc EXCEPT ![h] = "write"] /\ used' \subseteq Net
        /\ loc' = [loc EXCEPT ![h] = [Idle EXCEPT !.op = "save", !.net = n, !.conf = c]]
        /\ UNCHANGED <<data, fileVars, told>>
    BY <1>0, <1>2 DEF NewNetwork, Begin, ShapeOK
  <2>2. pc'[h] = "write" /\ DOMAIN loc'[h] = DOMAIN Idle /\ loc'[h].net = n
    BY <1>0, <2>1 DEF ShapeOK, Idle
  <2> QED
    BY <1>0, <2>1, <2>2, QuietStep DEF ShapeOK
<1>3. CASE Scan(h)
  <2>1. /\ pc[h] = "scan" /\ \E at \in {"write", "alloc", "read"} : pc' = [pc EXCEPT ![h] = at]
        /\ UNCHANGED <<data, fileVars, told, used>>
    BY <1>3 DEF Scan, memVars
  <2>2. /\ UNCHANGED loc \/ loc' = [loc EXCEPT ![h] = loc'[h]]
        /\ DOMAIN loc'[h] = DOMAIN Idle /\ loc'[h].net \in Net
    <3>1. CASE \E o : loc' = [loc EXCEPT ![h].op = "update", ![h].obj = o]
      <4> PICK o : loc' = [loc EXCEPT ![h].op = "update", ![h].obj = o]
        BY <3>1
      <4>1. loc'[h] = [loc[h] EXCEPT !.op = "update", !.obj = o]
        BY <1>0 DEF ShapeOK
      <4>2. loc' = [loc EXCEPT ![h] = loc'[h]]
        BY <1>0 DEF ShapeOK
      <4>3. DOMAIN loc'[h] = DOMAIN Idle /\ loc'[h].net = loc[h].net
        BY <1>0, <4>1 DEF ShapeOK, Idle
      <4> QED
        BY <1>0, <2>1, <4>2, <4>3 DEF ShapeOK
    <3>2. CASE UNCHANGED loc
      BY <1>0, <2>1, <3>2 DEF ShapeOK
    <3> QED
      BY <1>3, <3>1, <3>2 DEF Scan
  <2>3. pc'[h] \in {"write", "alloc", "read"} /\ pc' = [pc EXCEPT ![h] = pc'[h]]
    BY <1>0, <2>1 DEF ShapeOK
  <2> QED
    BY <1>0, <2>1, <2>2, <2>3, QuietStep DEF ShapeOK
<1>5. CASE Allocate(h)
  <2>1. /\ pc[h] = "alloc" /\ \E at \in {"idle", "read"} : pc' = [pc EXCEPT ![h] = at]
        /\ UNCHANGED <<data, fileVars, told, used>>
    BY <1>5 DEF Allocate, memVars
  <2>2. /\ loc' = [loc EXCEPT ![h] = loc'[h]] /\ DOMAIN loc'[h] = DOMAIN Idle
        /\ pc'[h] = "idle" \/ loc'[h].net \in Net
    <3>1. CASE loc' = [loc EXCEPT ![h] = Idle] /\ pc' = [pc EXCEPT ![h] = "idle"]
      BY <1>0, <3>1 DEF ShapeOK
    <3>2. CASE \E a : loc' = [loc EXCEPT ![h].ip = a, ![h].auto = TRUE]
      <4> PICK a : loc' = [loc EXCEPT ![h].ip = a, ![h].auto = TRUE]
        BY <3>2
      <4>1. loc'[h] = [loc[h] EXCEPT !.ip = a, !.auto = TRUE]
        BY <1>0 DEF ShapeOK
      <4>2. loc' = [loc EXCEPT ![h] = loc'[h]]
        BY <1>0 DEF ShapeOK
      <4>3. DOMAIN loc'[h] = DOMAIN Idle /\ loc'[h].net = loc[h].net
        BY <1>0, <4>1 DEF ShapeOK, Idle
      <4> QED
        BY <1>0, <2>1, <4>2, <4>3 DEF ShapeOK
    <3> QED
      BY <1>5, <3>1, <3>2 DEF Allocate
  <2>3. pc'[h] \in {"idle", "read"} /\ pc' = [pc EXCEPT ![h] = pc'[h]]
    BY <1>0, <2>1 DEF ShapeOK
  <2> QED
    BY <1>0, <2>1, <2>2, <2>3, QuietStep DEF ShapeOK
<1>4. CASE ReadMembers(h)
  <2>1. /\ pc[h] = "read" /\ pc' = [pc EXCEPT ![h] = "write"]
        /\ UNCHANGED <<data, fileVars, told, used>>
    BY <1>4 DEF ReadMembers, memVars
  <2>2. /\ loc' = [loc EXCEPT ![h] = loc'[h]] /\ DOMAIN loc'[h] = DOMAIN Idle
        /\ pc'[h] = "idle" \/ loc'[h].net \in Net
    BY <1>0, <1>4 DEF ReadMembers, ShapeOK, Idle
  <2>3. pc'[h] = "write"
    BY <1>0, <2>1 DEF ShapeOK
  <2> QED
    BY <1>0, <2>1, <2>2, <2>3, QuietStep DEF ShapeOK
<1> QED
  BY <1>1, <1>2, <1>3, <1>4, <1>5

(* ... its change ...                                                      *)
LEMMA InvChange ==
  ASSUME Inv, NEW h \in Handler, Change(h)
  PROVE  Inv'
<1>0. ShapeOK /\ BufOK /\ DiskOK /\ ToldOK
  BY DEF Inv
<1>1. /\ pc[h] = "write" /\ pc'[h] = "save" /\ UNCHANGED <<loc, fileVars, used>>
      /\ \A g \in Handler \ {h} : pc'[g] = pc[g]
      /\ told' = {p \in told : p[1] # loc[h].net}
  BY <1>0 DEF Change, ShapeOK
<1>2. /\ Shaped(data)' /\ data'.networks = data.networks
      /\ \A n \in Net \ {loc[h].net} : /\ data'.conf[n] = data.conf[n]
                                      /\ data'.members[n] = data.members[n]
  <2> DEFINE new == ChangedMembers(loc[h])
             c == IF loc[h].op = "save" THEN loc[h].conf ELSE data.conf[loc[h].net]
  <2>1. data' = [data EXCEPT !.members[loc[h].net] = new, !.conf[loc[h].net] = c]
    BY DEF Change
  <2> HIDE DEF new, c
  <2> QED
    BY <1>0, <2>1 DEF Shaped, ShapeOK
<1>3. ShapeOK'
  BY <1>0, <1>1, <1>2 DEF ShapeOK, Shaped, fileVars, Change
<1>4. BufOK'
  <2> SUFFICES ASSUME NEW k \in Handler, pc'[k] = "rename", NEW n \in Net,
                      \A g \in Handler : ~(loc'[g].net = n /\ pc'[g] = "save")
               PROVE  saver' = {k} /\ Same(buf, n)'
    BY <1>0, <1>1 DEF BufOK, fileVars
  <2>1. pc[k] = "rename" /\ n # loc[h].net
    BY <1>1
  <2>2. \A g \in Handler : ~(loc[g].net = n /\ pc[g] = "save")
    BY <1>1
  <2> QED
    BY <1>0, <1>1, <1>2, <2>1, <2>2 DEF BufOK, Same, fileVars
<1>5. DiskOK'
  <2> SUFFICES ASSUME saved', NEW n \in Net, Unsaved(n)' = {}
               PROVE  Same(disk, n)'
    BY DEF DiskOK
  <2>1. n # loc[h].net /\ Unsaved(n) = {}
    BY <1>1 DEF Unsaved
  <2> QED
    BY <1>0, <1>1, <1>2, <2>1 DEF DiskOK, Same, fileVars
<1>6. ToldOK'
  <2> SUFFICES ASSUME NEW n \in Net, NEW x \in Names(data'.members[n])
               PROVE  <<n, x>> \in told' \/ WillTell(n, x)'
    BY DEF ToldOK
  <2>1. CASE n = loc[h].net
    BY <1>1, <2>1 DEF WillTell
  <2>2. CASE n # loc[h].net
    <3>1. WillTell(n, x) => WillTell(n, x)'
      BY <1>1 DEF WillTell
    <3> QED
      BY <1>0, <1>1, <1>2, <2>2, <3>1 DEF ToldOK
  <2> QED
    BY <2>1, <2>2
<1> QED
  BY <1>3, <1>4, <1>5, <1>6 DEF Inv

(* ... the start of its save ...                                           *)
LEMMA InvSave ==
  ASSUME Inv, NEW h \in Handler, Save(h)
  PROVE  Inv'
<1>0. ShapeOK /\ BufOK /\ DiskOK /\ ToldOK
  BY DEF Inv
<1>1. /\ pc[h] = "save" /\ pc'[h] = "rename" /\ saver = {} /\ saver' = {h}
      /\ UNCHANGED <<loc, used, disk, saved>>
      /\ \A g \in Handler \ {h} : pc'[g] = pc[g]
  BY <1>0 DEF Save, ShapeOK, StoreFree
<1>2. /\ Shaped(data)' /\ data'.networks = Saved(loc[h])
      /\ data'.conf = data.conf /\ data'.members = data.members
  <2>1. data' = [data EXCEPT !.networks = Saved(loc[h])]
    BY DEF Save
  <2>2. Shaped(data) /\ Saved(loc[h]) \subseteq Net
    BY <1>0, <1>1 DEF ShapeOK, Shaped, Saved
  <2> QED
    BY <2>1, <2>2 DEF Shaped
<1>3. buf' = Marshal(data')
  BY DEF Save, ToFile
<1>4. ShapeOK'
  BY <1>0, <1>1, <1>2, <1>3, Shapes DEF ShapeOK, Shaped, Save
<1>5. BufOK'
  <2>1. \A k \in Handler : pc'[k] = "rename" => k = h
    BY <1>0, <1>1 DEF BufOK
  <2>2. \A n \in Net : Same(buf, n)'
    BY <1>2, <1>3 DEF Same, Shaped, Marshal
  <2> QED
    BY <1>1, <2>1, <2>2 DEF BufOK
<1>6. DiskOK'
  <2> SUFFICES ASSUME saved', NEW n \in Net, Unsaved(n)' = {}
               PROVE  Same(disk, n)'
    BY DEF DiskOK
  <2>1. n # loc[h].net /\ Unsaved(n) = {}
    BY <1>1 DEF Unsaved
  <2> QED
    BY <1>0, <1>1, <1>2, <2>1 DEF DiskOK, Same, Saved
<1>7. ToldOK'
  <2> SUFFICES ASSUME NEW n \in Net, NEW x \in Names(data.members[n])
               PROVE  <<n, x>> \in told' \/ WillTell(n, x)'
    BY <1>2 DEF ToldOK
  <2>1. CASE n = loc[h].net
    BY <1>1, <2>1 DEF WillTell
  <2>2. CASE n # loc[h].net
    <3>1. WillTell(n, x) => WillTell(n, x)'
      BY <1>1 DEF WillTell
    <3>2. <<n, x>> \in told => <<n, x>> \in told'
      BY <2>2 DEF Save
    <3> QED
      BY <1>0, <3>1, <3>2 DEF ToldOK
  <2> QED
    BY <2>1, <2>2
<1> QED
  BY <1>4, <1>5, <1>6, <1>7 DEF Inv

(* ... the end of the save ...                                            *)
LEMMA InvRename ==
  ASSUME Inv, NEW h \in Handler, Rename(h)
  PROVE  Inv'
<1>0. ShapeOK /\ BufOK /\ DiskOK /\ ToldOK
  BY DEF Inv
<1>1. /\ pc[h] = "rename" /\ pc'[h] = "notify" /\ UNCHANGED <<loc, used, data, told>>
      /\ \A g \in Handler \ {h} : pc'[g] = pc[g]
      /\ \/ saved' /\ disk' = buf
         \/ ~saved' /\ disk' = disk
  BY <1>0 DEF Rename, memVars, ShapeOK
<1>2. ShapeOK'
  BY <1>0, <1>1, Shapes DEF ShapeOK, Shaped, Rename
<1>3. \A k \in Handler : pc[k] = "rename" => k = h
  BY <1>0, <1>1 DEF BufOK
<1>4. BufOK'
  BY <1>1, <1>3 DEF BufOK
<1>5. DiskOK'
  <2> SUFFICES ASSUME saved', NEW n \in Net, Unsaved(n)' = {}
               PROVE  Same(disk, n)'
    BY DEF DiskOK
  <2>1. \A g \in Handler : ~(loc[g].net = n /\ pc[g] = "save")
    BY <1>1 DEF Unsaved
  <2> QED
    BY <1>0, <1>1, <2>1 DEF BufOK, Same
<1>6. ToldOK'
  <2>1. ASSUME NEW n, NEW x, WillTell(n, x)
        PROVE  WillTell(n, x)'
    BY <1>1, <2>1 DEF WillTell
  <2> QED
    BY <1>0, <1>1, <2>1 DEF ToldOK
<1> QED
  BY <1>2, <1>4, <1>5, <1>6 DEF Inv

(* ... and what comes after the save.                                      *)
LEMMA InvAfter ==
  ASSUME Inv, NEW h \in Handler, Notify(h) \/ Push(h) \/ Answer(h)
  PROVE  Inv'
<1>0. ShapeOK /\ BufOK /\ DiskOK /\ ToldOK
  BY DEF Inv
<1>1. /\ pc[h] \in {"notify", "push"} /\ pc'[h] \in {"idle", "push"}
      /\ UNCHANGED <<data, used, fileVars>> /\ told \subseteq told'
      /\ \A g \in Handler \ {h} : pc'[g] = pc[g] /\ loc'[g] = loc[g]
  BY <1>0 DEF Notify, Push, Answer, memVars, ShapeOK
<1>2. ShapeOK'
  <2>1. DOMAIN pc' = Handler /\ DOMAIN loc' = Handler /\ DOMAIN loc'[h] = DOMAIN Idle
    BY <1>0 DEF Notify, Push, Answer, ShapeOK
  <2>2. pc'[h] = "idle" \/ loc'[h].net \in Net
    BY <1>0, <1>1 DEF Notify, Push, Answer, ShapeOK, Idle
  <2> QED
    BY <1>0, <1>1, <2>1, <2>2 DEF ShapeOK, Shaped, fileVars
<1>3. BufOK'
  <2> SUFFICES ASSUME NEW k \in Handler, pc'[k] = "rename", NEW n \in Net,
                      \A g \in Handler : ~(loc'[g].net = n /\ pc'[g] = "save")
               PROVE  saver' = {k} /\ Same(buf, n)'
    BY <1>0, <1>1 DEF BufOK, fileVars
  <2>1. pc[k] = "rename" /\ \A g \in Handler : ~(loc[g].net = n /\ pc[g] = "save")
    BY <1>1
  <2> QED
    BY <1>0, <1>1, <2>1 DEF BufOK, Same, fileVars
<1>4. DiskOK'
  <2>1. ASSUME NEW n \in Net, Unsaved(n)' = {}
        PROVE  Unsaved(n) = {}
    BY <1>1, <2>1 DEF Unsaved
  <2> QED
    BY <1>0, <1>1, <2>1 DEF DiskOK, Same, fileVars
<1>5. ToldOK'
  <2> SUFFICES ASSUME NEW n \in Net, NEW x \in Names(data.members[n])
               PROVE  <<n, x>> \in told' \/ WillTell(n, x)'
    BY <1>1 DEF ToldOK
  <2>1. CASE <<n, x>> \in told
    BY <1>1, <2>1
  <2>2. ASSUME NEW g \in Handler \ {h}, loc[g].net = n,
               \/ pc[g] \in {"save", "rename", "notify"}
               \/ pc[g] = "push" /\ x \in loc[g].todo
        PROVE  WillTell(n, x)'
    BY <1>1, <2>2 DEF WillTell
  <2>3. CASE /\ loc[h].net = n
             /\ \/ pc[h] \in {"save", "rename", "notify"}
                \/ pc[h] = "push" /\ x \in loc[h].todo
    <3>1. CASE Notify(h)
      <4>1. pc'[h] = "push" /\ loc'[h].net = n /\ loc'[h].todo = ToNotify(loc[h])
        BY <1>0, <2>3, <3>1 DEF Notify, ShapeOK, Idle
      <4>2. x \in ToNotify(loc[h])
        BY <2>3 DEF ToNotify
      <4> QED
        BY <4>1, <4>2 DEF WillTell
    <3>2. CASE Push(h)
      <4> PICK y \in loc[h].todo : /\ told' = told \cup {<<loc[h].net, y>>}
                                   /\ loc' = [loc EXCEPT ![h].todo = @ \ {y}]
        BY <3>2 DEF Push
      <4>1. CASE x = y
        BY <2>3, <4>1
      <4>2. CASE x # y
        <5>1. pc'[h] = "push" /\ loc'[h].net = n /\ loc'[h].todo = loc[h].todo \ {y}
          BY <1>0, <2>3, <3>2 DEF Push, ShapeOK, Idle
        <5>2. x \in loc[h].todo
          BY <2>3, <3>2 DEF Push
        <5> QED
          BY <4>2, <5>1, <5>2 DEF WillTell
      <4> QED
        BY <4>1, <4>2
    <3>3. CASE Answer(h)
      BY <2>3, <3>3 DEF Answer
    <3> QED
      BY <3>1, <3>2, <3>3
  <2> QED
    BY <1>0, <2>1, <2>2, <2>3 DEF ToldOK, WillTell
<1> QED
  BY <1>2, <1>3, <1>4, <1>5 DEF Inv

(* The answers to nodes change none of it.                                 *)
LEMMA InvWorker ==
  ASSUME Inv, NEW w \in Worker,
         BuildInfo(w) \/ Reply(w) \/ \E x \in Node : FindNetwork(w, x)
  PROVE  Inv'
<1>1. UNCHANGED <<data, used, fileVars, pc, loc, told>>
  BY DEF BuildInfo, Reply, FindNetwork, memVars, reqVars
<1> QED
  BY <1>1 DEF Inv, ShapeOK, Shaped, BufOK, DiskOK, ToldOK, Same, Unsaved, WillTell, fileVars

(* After a restart the memory is the file.                                 *)
LEMMA InvRestart ==
  ASSUME Inv, Restart
  PROVE  Inv'
<1>1. /\ data' = disk /\ disk' = disk /\ buf' = EmptyStore /\ used' = used
      /\ pc' = [h \in Handler |-> "idle"] /\ loc' = [h \in Handler |-> Idle]
      /\ told' = Members(data')
  BY DEF Restart
<1>2. ShapeOK'
  BY <1>1, Shapes DEF Inv, ShapeOK
<1>3. BufOK' /\ DiskOK'
  BY <1>1 DEF BufOK, DiskOK, Same
<1>4. ToldOK'
  BY <1>1 DEF ToldOK, Members
<1> QED
  BY <1>2, <1>3, <1>4 DEF Inv

(* The invariant of all behaviours.                                        *)
LEMMA Invariance == Spec => []Inv
<1>1. ASSUME Inv, [Next]_vars PROVE Inv'
  <2>1. CASE UNCHANGED vars
    BY <1>1, <2>1 DEF vars, memVars, reqVars, fileVars, Inv, ShapeOK, Shaped, BufOK, DiskOK,
                      ToldOK, Same, Unsaved, WillTell
  <2>2. ASSUME NEW h \in Handler, HandlerStep(h) PROVE Inv'
    BY <1>1, <2>2, InvBefore, InvChange, InvSave, InvRename, InvAfter DEF HandlerStep
  <2> QED
    BY <1>1, <2>1, <2>2, InvWorker, InvRestart DEF Next
<1> QED
  BY <1>1, InvInit, PTL DEF Spec

----------------------------------------------------------------------------
(* The answers to nodes.  A worker that answers has a node, one that       *)
(* builds an answer a network, and two answer the same node only when its  *)
(* latest requests have crossed.                                           *)
AskOK ==
  /\ asks \in [Node -> Nat] /\ DOMAIN view = Node
  /\ DOMAIN wpc = Worker /\ DOMAIN asker = Worker /\ DOMAIN info = Worker
  /\ \A w \in Worker :
       \/ wpc[w] = "idle" /\ asker[w] = NoNode /\ info[w] = NoInfo
       \/ wpc[w] = "build" /\ asker[w] \in Node /\ info[w].net \in Net
       \/ wpc[w] = "reply" /\ asker[w] \in Node
  /\ \A x \in Node \ crossed : \A w, v \in Answering(x) : w = v

Current(i, n) == i # NoInfo /\ (i.net = n => i = Info(n))

(* A worker will answer x with a network, and if with n, with its latest   *)
(* state.                                                                  *)
Pending(n, x) ==
  \E w \in Answering(x) : wpc[w] = "build" \/ (wpc[w] = "reply" /\ Current(info[w], n))

(* ViewCurrent, while an answer is on its way as well.                     *)
ViewOK ==
  \A n \in Net, x \in Node :
    (Serves(n, x) /\ x \notin crossed /\ asks[x] = 0 /\ ~WillTell(n, x))
      => Pending(n, x) \/ (Answering(x) = {} /\ Current(view[x], n))

(* A request changes what n's members see only while it is bound to tell   *)
(* them.                                                                   *)
LEMMA HandlerTells ==
  ASSUME Inv, AskOK, NEW h \in Handler, HandlerStep(h), NEW n \in Net, NEW x \in Node,
         Serves(n, x)', asks'[x] = 0, ~WillTell(n, x)'
  PROVE  Serves(n, x) /\ asks[x] = 0 /\ ~WillTell(n, x) /\ Info(n)' = Info(n)
<1>0. ShapeOK /\ asks \in [Node -> Nat]
  BY DEF Inv, AskOK
<1>1. ASSUME ~WillTell(n, x), data'.conf[n] = data.conf[n], data'.members[n] = data.members[n],
             n \in data'.networks => n \in data.networks, asks'[x] >= asks[x]
      PROVE  Serves(n, x) /\ asks[x] = 0 /\ ~WillTell(n, x) /\ Info(n)' = Info(n)
  BY <1>0, <1>1 DEF Serves, Info
<1>2. CASE Change(h)
  <2>1. pc'[h] = "save" /\ loc' = loc /\ \A g \in Handler \ {h} : pc'[g] = pc[g]
    BY <1>0, <1>2 DEF Change, ShapeOK
  <2>2. loc[h].net # n /\ ~WillTell(n, x)
    BY <1>2, <2>1 DEF WillTell, Change
  <2> DEFINE new == ChangedMembers(loc[h])
             c == IF loc[h].op = "save" THEN loc[h].conf ELSE data.conf[loc[h].net]
  <2>3. data' = [data EXCEPT !.members[loc[h].net] = new, !.conf[loc[h].net] = c] /\ asks' = asks
    BY <1>2 DEF Change, nodeVars
  <2> HIDE DEF new, c
  <2>4. /\ data'.conf[n] = data.conf[n] /\ data'.members[n] = data.members[n]
        /\ data'.networks = data.networks
    BY <1>0, <2>2, <2>3 DEF ShapeOK, Shaped
  <2> QED
    BY <1>0, <1>1, <2>2, <2>3, <2>4
<1>3. CASE Save(h)
  <2>1. pc'[h] = "rename" /\ loc' = loc /\ asks' = asks /\ \A g \in Handler \ {h} : pc'[g] = pc[g]
    BY <1>0, <1>3 DEF Save, ShapeOK, nodeVars
  <2>2. loc[h].net # n /\ ~WillTell(n, x)
    BY <1>3, <2>1 DEF WillTell, Save
  <2>3. data'.conf = data.conf /\ data'.members = data.members /\ data'.networks = Saved(loc[h])
    BY <1>0, <1>3 DEF Save, ShapeOK, Shaped
  <2> QED
    BY <1>0, <1>1, <2>1, <2>2, <2>3 DEF Saved
<1>4. CASE Push(h)
  <2> PICK y \in loc[h].todo : /\ asks' = [asks EXCEPT ![y] = @ + 1]
                               /\ loc' = [loc EXCEPT ![h].todo = @ \ {y}]
    BY <1>4 DEF Push
  <2>1. x # y /\ asks'[x] = asks[x]
    BY <1>0
  <2>2. /\ loc'[h].net = loc[h].net /\ loc'[h].todo = loc[h].todo \ {y}
        /\ \A g \in Handler \ {h} : loc'[g] = loc[g]
    BY <1>0 DEF ShapeOK, Idle
  <2>3. data' = data /\ pc' = pc
    BY <1>4 DEF Push, memVars
  <2>4. ~WillTell(n, x)
    BY <2>1, <2>2, <2>3 DEF WillTell
  <2> QED
    BY <1>0, <1>1, <2>1, <2>3, <2>4
<1>5. CASE Notify(h)
  <2>1. /\ pc[h] = "notify" /\ pc'[h] = "push" /\ data' = data /\ asks' = asks
        /\ loc'[h].net = loc[h].net /\ loc'[h].todo = ToNotify(loc[h])
        /\ \A g \in Handler \ {h} : loc'[g] = loc[g] /\ pc'[g] = pc[g]
    BY <1>0, <1>5 DEF Notify, memVars, nodeVars, ShapeOK, Idle
  <2>2. loc[h].net # n
    BY <2>1 DEF ToNotify, WillTell, Serves
  <2>3. ~WillTell(n, x)
    BY <2>1, <2>2 DEF WillTell
  <2> QED
    BY <1>0, <1>1, <2>1, <2>3
<1>6. CASE Rename(h) \/ Answer(h)
  <2>1. data' = data /\ asks' = asks
    BY <1>6 DEF Rename, Answer, memVars, nodeVars
  <2>2. ASSUME WillTell(n, x) PROVE WillTell(n, x)'
    BY <1>0, <1>6, <2>2 DEF WillTell, Rename, Answer, ShapeOK
  <2> QED
    BY <1>0, <1>1, <2>1, <2>2
<1>7. CASE \/ \E m \in Net : GetNetwork(h, m) \/ \E c \in Conf : NewNetwork(h, m, c)
           \/ Scan(h) \/ Allocate(h) \/ ReadMembers(h)
  <2>1. /\ data' = data /\ asks' = asks /\ pc[h] \in {"idle", "scan", "alloc", "read"}
        /\ \A g \in Handler \ {h} : loc'[g] = loc[g] /\ pc'[g] = pc[g]
    <3>1. CASE \E m \in Net : GetNetwork(h, m) \/ \E c \in Conf : NewNetwork(h, m, c)
      <4>1. data' = data /\ asks' = asks
        BY <3>1 DEF GetNetwork, NewNetwork, memVars, nodeVars
      <4>2. ASSUME NEW at, NEW l, Begin(h, at, l)
            PROVE  /\ pc[h] \in {"idle", "scan", "alloc", "read"}
                   /\ \A g \in Handler \ {h} : loc'[g] = loc[g] /\ pc'[g] = pc[g]
        BY <1>0, <4>2 DEF Begin, ShapeOK
      <4> QED
        BY <3>1, <4>1, <4>2 DEF GetNetwork, NewNetwork
    <3>2. CASE Scan(h)
      BY <1>0, <3>2 DEF Scan, memVars, nodeVars, ShapeOK
    <3>3. CASE Allocate(h)
      BY <1>0, <3>3 DEF Allocate, memVars, nodeVars, ShapeOK
    <3>4. CASE ReadMembers(h)
      BY <1>0, <3>4 DEF ReadMembers, memVars, nodeVars, ShapeOK
    <3> QED
      BY <1>7, <3>1, <3>2, <3>3, <3>4
  <2>2. ASSUME WillTell(n, x) PROVE WillTell(n, x)'
    BY <2>1, <2>2 DEF WillTell
  <2> QED
    BY <1>0, <1>1, <2>1, <2>2
<1> QED
  BY <1>2, <1>3, <1>4, <1>5, <1>6, <1>7 DEF HandlerStep

(* A request leaves the answers alone.                                     *)
LEMMA HandlerLeaves ==
  ASSUME Inv, AskOK, NEW h \in Handler, HandlerStep(h)
  PROVE  UNCHANGED <<wpc, asker, info, view, crossed>> /\ AskOK'
<1>0. asks \in [Node -> Nat] /\ ShapeOK
  BY DEF AskOK, Inv
<1>1. UNCHANGED <<wpc, asker, info, view, crossed>> /\ (asks' = asks \/ Push(h))
  BY DEF HandlerStep, GetNetwork, NewNetwork, Scan, Allocate, ReadMembers, Change, Save, Rename,
         Notify, Push, Answer, nodeVars
<1>2. asks' \in [Node -> Nat]
  BY <1>0, <1>1 DEF Push
<1> QED
  BY <1>1, <1>2 DEF AskOK, Answering, NoInfo

(* The steps of a worker.                                                  *)
LEMMA WorkerStep ==
  ASSUME Inv, AskOK, ViewOK, NEW w \in Worker,
         BuildInfo(w) \/ Reply(w) \/ \E x \in Node : FindNetwork(w, x)
  PROVE  AskOK' /\ ViewOK'
<1>0. NoNode \notin Node /\ NoNet \notin Net
  BY NetworksAssumption
<1>1. UNCHANGED <<data, pc, loc>>
  BY DEF BuildInfo, Reply, FindNetwork, memVars, reqVars
<1>2. \A n, x : /\ Serves(n, x)' <=> Serves(n, x)
                /\ WillTell(n, x)' <=> WillTell(n, x)
                /\ Info(n)' = Info(n)
  BY <1>1 DEF Serves, WillTell, Info
<1>3. CASE BuildInfo(w)
  <2>1. /\ wpc[w] = "build" /\ wpc' = [wpc EXCEPT ![w] = "reply"]
        /\ info' = [info EXCEPT ![w] = Info(info[w].net)]
        /\ UNCHANGED <<asks, asker, view, crossed>>
    BY <1>3 DEF BuildInfo
  <2>2. AskOK'
    BY <2>1 DEF AskOK, Answering, NoInfo
  <2>3. ASSUME NEW n \in Net, NEW x \in Node, Pending(n, x)
        PROVE  Pending(n, x)'
    <3> PICK v \in Answering(x) : wpc[v] = "build" \/ (wpc[v] = "reply" /\ Current(info[v], n))
      BY <2>3 DEF Pending
    <3>1. v \in Answering(x)' /\ v \in Worker
      BY <2>1 DEF Answering
    <3>2. CASE v # w
      BY <1>2, <2>1, <3>1, <3>2 DEF Pending, AskOK, Current
    <3>3. CASE v = w
      <4>1. info'[w] = Info(info[w].net) /\ wpc'[w] = "reply" /\ info[w].net \in Net
        BY <2>1 DEF AskOK
      <4>2. Info(info[w].net).net = info[w].net /\ NoInfo.net = NoNet
        BY DEF Info, NoInfo
      <4>3. Current(info[w], n)'
        BY <1>0, <1>2, <4>1, <4>2 DEF Current, NoInfo
      <4> QED
        BY <3>1, <3>3, <4>1, <4>3 DEF Pending
    <3> QED
      BY <3>2, <3>3
  <2>4. ViewOK'
    BY <1>2, <2>1, <2>3 DEF ViewOK, Answering, Current, NoInfo
  <2> QED
    BY <2>2, <2>4
<1>4. CASE Reply(w)
  <2>1. /\ wpc[w] = "reply" /\ asker[w] \in Node /\ wpc' = [wpc EXCEPT ![w] = "idle"]
        /\ view' = [view EXCEPT ![asker[w]] = info[w]]
        /\ info' = [info EXCEPT ![w] = NoInfo] /\ asker' = [asker EXCEPT ![w] = NoNode]
        /\ UNCHANGED <<asks, crossed>>
    BY <1>4 DEF Reply, AskOK
  <2>2. \A x \in Node : Answering(x)' = Answering(x) \ {w}
    BY <1>0, <2>1 DEF Answering, AskOK
  <2>3. AskOK'
    <3>1. \A x \in Node \ crossed : \A u, v \in Answering(x)' : u = v
      BY <2>2 DEF AskOK
    <3> QED
      BY <2>1, <3>1 DEF AskOK, NoInfo
  <2>4. ASSUME NEW n \in Net, NEW x \in Node, x \notin crossed,
               Pending(n, x) \/ (Answering(x) = {} /\ Current(view[x], n))
        PROVE  Pending(n, x)' \/ (Answering(x)' = {} /\ Current(view[x], n)')
    <3>1. CASE asker[w] = x
      <4>1. Answering(x) = {w}
        BY <2>4, <3>1 DEF AskOK, Answering
      <4>2. Current(info[w], n) /\ Answering(x)' = {} /\ view'[x] = info[w]
        BY <2>1, <2>2, <2>4, <3>1, <4>1 DEF Pending, AskOK
      <4> QED
        BY <1>2, <4>2 DEF Current, NoInfo
    <3>2. CASE asker[w] # x
      <4>1. Answering(x)' = Answering(x) /\ w \notin Answering(x) /\ view'[x] = view[x]
        BY <2>1, <2>2, <3>2 DEF Answering, AskOK
      <4>2. \A v \in Answering(x) : wpc'[v] = wpc[v] /\ info'[v] = info[v]
        BY <2>1, <4>1 DEF Answering, AskOK
      <4> QED
        BY <1>2, <2>4, <4>1, <4>2 DEF Pending, Current, NoInfo
    <3> QED
      BY <3>1, <3>2
  <2>5. ViewOK'
    BY <1>2, <2>1, <2>4 DEF ViewOK
  <2> QED
    BY <2>3, <2>5
<1>5. ASSUME NEW y \in Node, FindNetwork(w, y)
      PROVE  AskOK' /\ ViewOK'
  <2>1. /\ wpc[w] = "idle" /\ asks[y] > 0 /\ asks' = [asks EXCEPT ![y] = @ - 1]
        /\ asker' = [asker EXCEPT ![w] = y] /\ view' = view
        /\ crossed' = IF Answering(y) = {} THEN crossed \ {y} ELSE crossed \cup {y}
        /\ \/ /\ Found(y) = {}
              /\ wpc' = [wpc EXCEPT ![w] = "reply"] /\ info' = info
           \/ \E n \in Found(y) : /\ info' = [info EXCEPT ![w].net = n]
                                  /\ wpc' = [wpc EXCEPT ![w] = "build"]
    BY <1>5 DEF FindNetwork
  <2>2. asker[w] = NoNode /\ info[w] = NoInfo
    BY <2>1 DEF AskOK
  <2>3. \A x \in Node : Answering(x)' = IF x = y THEN Answering(x) \cup {w} ELSE Answering(x)
    BY <1>0, <2>1, <2>2 DEF Answering, AskOK
  <2>4. \A x \in Node : w \notin Answering(x)
    BY <1>0, <2>2 DEF Answering
  <2>5. /\ DOMAIN wpc' = Worker /\ DOMAIN info' = Worker
        /\ \A v \in Worker \ {w} : /\ asker'[v] = asker[v] /\ wpc'[v] = wpc[v]
                                   /\ info'[v] = info[v]
    BY <2>1 DEF AskOK
  <2>6. /\ asker'[w] = y
        /\ wpc'[w] = "reply" \/ (wpc'[w] = "build" /\ info'[w].net \in Net)
        /\ Found(y) # {} => wpc'[w] = "build"
    <3>1. Found(y) \subseteq Net
      BY DEF Found, Inv, ShapeOK, Shaped
    <3> QED
      BY <2>1, <2>2, <3>1 DEF AskOK, NoInfo
  <2>7. AskOK'
    <3>1. asks' \in [Node -> Nat]
      BY <2>1 DEF AskOK
    <3>2. ASSUME NEW x \in Node \ crossed', NEW u \in Answering(x)', NEW v \in Answering(x)'
          PROVE  u = v
      <4>1. CASE x = y
        BY <2>1, <2>3, <3>2, <4>1
      <4>2. CASE x # y
        BY <2>1, <2>3, <3>2, <4>2 DEF AskOK
      <4> QED
        BY <4>1, <4>2
    <3>3. ASSUME NEW v \in Worker
          PROVE  \/ wpc'[v] = "idle" /\ asker'[v] = NoNode /\ info'[v] = NoInfo
                 \/ wpc'[v] = "build" /\ asker'[v] \in Node /\ info'[v].net \in Net
                 \/ wpc'[v] = "reply" /\ asker'[v] \in Node
      <4>1. CASE v = w
        BY <2>6, <4>1
      <4>2. CASE v # w
        BY <2>5, <4>2 DEF AskOK
      <4> QED
        BY <4>1, <4>2
    <3>4. DOMAIN view' = Node /\ DOMAIN asker' = Worker
      BY <2>1 DEF AskOK
    <3>5. NoInfo' = NoInfo
      BY DEF NoInfo
    <3> QED
      BY <2>5, <3>1, <3>2, <3>3, <3>4, <3>5 DEF AskOK
  <2>8. ASSUME NEW n \in Net, NEW x \in Node, Serves(n, x), x \notin crossed', asks'[x] = 0,
               ~WillTell(n, x)
        PROVE  Pending(n, x)' \/ (Answering(x)' = {} /\ Current(view[x], n)')
    <3>1. CASE x = y
      <4>1. n \in Found(x)
        BY <2>8 DEF Serves, Found
      <4>2. wpc'[w] = "build" /\ w \in Answering(x)'
        BY <2>3, <2>6, <3>1, <4>1
      <4> QED
        BY <4>2 DEF Pending
    <3>2. CASE x # y
      <4>1. Pending(n, x) \/ (Answering(x) = {} /\ Current(view[x], n))
        BY <2>1, <2>8, <3>2 DEF ViewOK, AskOK
      <4>2. Answering(x)' = Answering(x) /\ view' = view
        BY <2>1, <2>3, <3>2
      <4>3. \A v \in Answering(x) : wpc'[v] = wpc[v] /\ info'[v] = info[v]
        BY <2>4, <2>5 DEF Answering
      <4> QED
        BY <1>2, <4>1, <4>2, <4>3 DEF Pending, Current, NoInfo
    <3> QED
      BY <3>1, <3>2
  <2>9. ViewOK'
    BY <1>2, <2>8 DEF ViewOK
  <2> QED
    BY <2>7, <2>9
<1> QED
  BY <1>3, <1>4, <1>5

(* The start, and after a restart: the nodes have asked and been answered. *)
LEMMA ViewInit ==
  ASSUME Init
  PROVE  AskOK /\ ViewOK
<1>1. /\ asks = [x \in Node |-> 0]
      /\ wpc = [w \in Worker |-> "idle"] /\ asker = [w \in Worker |-> NoNode]
      /\ info = [w \in Worker |-> NoInfo]
      /\ view \in [Node -> {NoInfo} \cup {Info(n) : n \in Net}]
      /\ \A x \in Node : IF Found(x) = {} THEN view[x] = NoInfo ELSE view[x].net \in Found(x)
  BY DEF Init
<1>2. \A x \in Node : Answering(x) = {}
  BY <1>1, NetworksAssumption DEF Answering
<1>3. AskOK
  BY <1>1, <1>2 DEF AskOK
<1>4. ASSUME NEW n \in Net, NEW x \in Node, Serves(n, x)
      PROVE  Current(view[x], n)
  <2>1. n \in Found(x) /\ Found(x) \subseteq Net
    BY <1>4, InvInit DEF Serves, Found, Init, Inv, ShapeOK, Shaped
  <2>2. view[x].net \in Net
    BY <1>1, <2>1
  <2>3. NoInfo.net = NoNet /\ \A m : Info(m).net = m
    BY DEF NoInfo, Info
  <2> QED
    BY <1>1, <2>2, <2>3, NetworksAssumption DEF Current
<1> QED
  BY <1>2, <1>3, <1>4 DEF ViewOK

(* See ViewInit.                                                            *)
LEMMA ViewRestart ==
  ASSUME Inv, Restart
  PROVE  AskOK' /\ ViewOK'
<1>1. /\ asks' = [x \in Node |-> 0]
      /\ wpc' = [w \in Worker |-> "idle"] /\ asker' = [w \in Worker |-> NoNode]
      /\ info' = [w \in Worker |-> NoInfo]
      /\ view' \in [Node -> {NoInfo} \cup {Info(n)' : n \in Net}]
      /\ \A x \in Node : IF Found(x)' = {} THEN view'[x] = NoInfo ELSE view'[x].net \in Found(x)'
  BY DEF Restart
<1>2. \A x \in Node : Answering(x)' = {}
  BY <1>1, NetworksAssumption DEF Answering
<1>3. AskOK'
  BY <1>1, <1>2 DEF AskOK, NoInfo
<1>4. ASSUME NEW n \in Net, NEW x \in Node, Serves(n, x)'
      PROVE  Current(view[x], n)'
  <2>1. n \in Found(x)' /\ Found(x)' \subseteq Net
    BY <1>4, InvRestart DEF Serves, Found, Inv, ShapeOK, Shaped
  <2>2. view'[x].net \in Net
    BY <1>1, <2>1
  <2>3. NoInfo.net = NoNet /\ \A m : Info(m)'.net = m
    BY DEF NoInfo, Info
  <2> QED
    BY <1>1, <2>2, <2>3, NetworksAssumption DEF Current, NoInfo
<1> QED
  BY <1>2, <1>3, <1>4 DEF ViewOK

(* The invariant of all behaviours, with Inv.                              *)
LEMMA ViewInvariance == Spec => [](AskOK /\ ViewOK)
<1>1. ASSUME Inv, AskOK, ViewOK, [Next]_vars
      PROVE  AskOK' /\ ViewOK'
  <2>1. CASE UNCHANGED vars
    BY <1>1, <2>1 DEF vars, memVars, reqVars, nodeVars, AskOK, ViewOK, Pending, Current, Answering,
                      Serves, WillTell, Info, NoInfo
  <2>2. ASSUME NEW h \in Handler, HandlerStep(h) PROVE AskOK' /\ ViewOK'
    <3>1. UNCHANGED <<wpc, asker, info, view, crossed>> /\ AskOK'
      BY <1>1, <2>2, HandlerLeaves
    <3>2. ASSUME NEW n \in Net, NEW x \in Node, Serves(n, x)', x \notin crossed', asks'[x] = 0,
                 ~WillTell(n, x)'
          PROVE  Pending(n, x)' \/ (Answering(x)' = {} /\ Current(view[x], n)')
      <4>1. Serves(n, x) /\ asks[x] = 0 /\ ~WillTell(n, x) /\ Info(n)' = Info(n)
        BY <1>1, <2>2, <3>2, HandlerTells
      <4>2. Pending(n, x) \/ (Answering(x) = {} /\ Current(view[x], n))
        BY <1>1, <3>1, <3>2, <4>1 DEF ViewOK
      <4> QED
        BY <3>1, <4>1, <4>2 DEF Pending, Answering, Current, NoInfo
    <3> QED
      BY <3>1, <3>2 DEF ViewOK
  <2> QED
    BY <1>1, <2>1, <2>2, WorkerStep, ViewRestart DEF Next
<1> QED
  BY <1>1, ViewInit, Invariance, PTL DEF Spec

----------------------------------------------------------------------------
(* What a handler has saved survives a restart, whatever the others do     *)
(* meanwhile and although each save writes the whole store (store.go:114). *)
THEOREM SavedNetworksPersist == Spec => []Persisted
<1>1. Inv => Persisted
  BY DEF Inv, ShapeOK, DiskOK, Same, Persisted
<1> QED
  BY <1>1, Invariance, PTL

(* Every member of a network has been pushed a refresh since the network   *)
(* changed, or a handler is about to push it one (webmgmt.go:274).         *)
THEOREM MembersAreTold == Spec => []MembersTold
<1>1. Inv => MembersTold
  BY DEF Inv, ShapeOK, ToldOK, MembersTold
<1> QED
  BY <1>1, Invariance, PTL

(* A member of an enabled network whose refreshes have been answered knows *)
(* its latest state, unless its latest requests were handled by two        *)
(* workers at a time (sdwanhandler.go:12).                                 *)
THEOREM ViewsAreCurrent == Spec => []ViewCurrent
<1>1. AskOK /\ ViewOK => ViewCurrent
  BY DEF ViewOK, Pending, ViewCurrent, Settled, UpToDate, Current
<1> QED
  BY <1>1, ViewInvariance, PTL
----------------------------------------------------------------------------
(* TypeOK, in parts: the store ...                                         *)
StoreOK ==
  /\ data \in StoreData /\ disk \in StoreData /\ buf \in StoreData
  /\ saver \in SUBSET Handler /\ saved \in BOOLEAN /\ used \in SUBSET Net
  /\ ops \in 0..MaxOps /\ crashes \in 0..MaxCrashes
  /\ told \in SUBSET (Net \X Node) /\ raced \in SUBSET Net /\ wished \in SUBSET Int

Places == {"idle", "scan", "alloc", "read", "write", "save", "rename", "notify", "push"}

(* ... the handlers, with what a request has by the time it needs it: a    *)
(* network, the name of a member, and an address for a new member ...      *)
RequestOK(at, l) ==
  /\ at \in Places /\ l \in Locals
  /\ at # "idle" => l.net \in Net
  /\ l.op \in {"add", "update", "remove"} => l.name \in Node
  /\ at \in {"scan", "alloc"} => l.op = "add"
  /\ at = "scan" => l.auto = FALSE
  /\ at = "read" => l.op \in {"add", "remove"}
  /\ at = "write" => l.op # "delete"
  /\ at \in {"read", "write"} /\ l.op = "add" => l.ip # 0

HandlersOK ==
  /\ pc \in [Handler -> Places] /\ loc \in [Handler -> Locals]
  /\ \A h \in Handler : RequestOK(pc[h], loc[h])

(* ... and the nodes and workers.                                          *)
Answers == [net : Net \cup {NoNet}, conf : Conf, members : Seq(Member)]

NodesOK ==
  /\ asks \in [Node -> Nat]
  /\ wpc \in [Worker -> {"idle", "build", "reply"}]
  /\ asker \in [Worker -> Node \cup {NoNode}]
  /\ info \in [Worker -> Answers] /\ view \in [Node -> Answers]
  /\ crossed \in SUBSET Node
  /\ \A w \in Worker : /\ wpc[w] # "idle" => asker[w] \in Node
                       /\ wpc[w] = "build" => info[w].net \in Net

Typed == StoreOK /\ HandlersOK /\ NodesOK

(* The parts say what TypeOK says.                                         *)
LEMMA TypedTypeOK == Typed => TypeOK
  BY DEF Typed, StoreOK, HandlersOK, NodesOK, Places, Answers, TypeOK

(* A configuration, an empty store, no request and no answer are of their  *)
(* types.                                                                  *)
LEMMA Defaults ==
  /\ NoConf \in Conf /\ EmptyStore \in StoreData /\ RequestOK("idle", Idle) /\ NoInfo \in Answers
<1>1. NoConf \in Conf
  BY NetworksAssumption DEF NoConf, Conf
<1>2. <<>> \in Seq(Member)
  OBVIOUS
<1>3. EmptyStore \in StoreData
  BY <1>1, <1>2 DEF EmptyStore, StoreData
<1>4. 0 \in 0..LastIP
  BY NetworksAssumption
<1>5. Idle \in Locals /\ Idle.op = "save"
  BY <1>1, <1>2, <1>4 DEF Idle, Locals, Ops
<1>6. NoInfo \in Answers
  BY <1>1, <1>2 DEF NoInfo, Answers
<1> QED
  BY <1>1, <1>3, <1>5, <1>6 DEF RequestOK, Places

(* The loop that copies the members but one, turn by turn                  *)
(* (webmgmt.go:259-266).                                                   *)
LEMMA WithoutLoop ==
  ASSUME NEW q \in Seq(Member), NEW name
  PROVE  \E kept :
    /\ Without(q, name) = kept[Len(q)]
    /\ \A i \in 0..Len(q) : kept[i] = IF i = 0 THEN <<>>
                                      ELSE IF q[i].name = name THEN kept[i - 1]
                                      ELSE Append(kept[i - 1], q[i])
<1> DEFINE X == Seq(Member)
           turn(k, i) == IF i = 0 THEN <<>>
                         ELSE IF q[i].name = name THEN k[i - 1]
                         ELSE Append(k[i - 1], q[i])
           Def(k) == k = [i \in 0..Len(q) |-> turn(k, i)]
           more(n, s) == IF n < Len(q) /\ q[n + 1].name # name THEN Append(s, q[n + 1]) ELSE s
           step == [n \in Nat |-> [s \in X |-> more(n, s)]]
<1>1. Len(q) \in Nat /\ \A i \in 1..Len(q) : q[i] \in Member
  OBVIOUS
<1>2. <<>> \in X /\ step \in [Nat -> [X -> X]]
  <2>1. ASSUME NEW n \in Nat, NEW s \in X
        PROVE  more(n, s) \in X
    BY <1>1
  <2> HIDE DEF more, X
  <2>2. step \in [Nat -> [X -> X]]
    BY <2>1
  <2> QED
    BY <2>2 DEF X
<1> HIDE DEF X, step
<1>3. PICK f : Follows(f, X, <<>>, step)
  BY <1>2, Recursion
<1>4. f \in [Nat -> X] /\ f[0] = <<>> /\ \A n \in Nat : f[n + 1] = more(n, f[n])
  <2> HIDE DEF more
  <2> QED
    BY <1>3 DEF Follows, step
<1> DEFINE t == [i \in 0..Len(q) |-> f[i]]
<1>5. ASSUME NEW i \in 0..Len(q)
      PROVE  t[i] = turn(t, i)
  <2>1. CASE i = 0
    BY <1>4, <2>1
  <2>2. CASE i # 0
    <3>1. i - 1 \in Nat /\ i - 1 \in 0..Len(q) /\ (i - 1) + 1 = i /\ i - 1 < Len(q)
      BY <1>1, <2>2
    <3>2. f[i] = more(i - 1, f[i - 1])
      BY <1>4, <3>1
    <3> QED
      BY <2>2, <3>1, <3>2
  <2> QED
    BY <2>1, <2>2
<1>6. Def(t)
  <2> HIDE DEF turn
  <2> QED
    BY <1>5
<1>7. Without(q, name) = (CHOOSE k : Def(k))[Len(q)]
  BY DEF Without
<1>8. Def(CHOOSE k : Def(k))
  <2> HIDE DEF Def
  <2> QED
    BY <1>6
<1> DEFINE kept == CHOOSE k : Def(k)
<1>9. Def(kept) /\ Without(q, name) = kept[Len(q)]
  BY <1>7, <1>8
<1> HIDE DEF kept
<1>10. ASSUME NEW i \in 0..Len(q)
       PROVE  kept[i] = turn(kept, i)
  <2> HIDE DEF turn
  <2> QED
    BY <1>9
<1> QED
  BY <1>9, <1>10

(* The members but one are members.                                        *)
LEMMA WithoutType ==
  ASSUME NEW q \in Seq(Member), NEW name
  PROVE  Without(q, name) \in Seq(Member)
<1> PICK kept :
      /\ Without(q, name) = kept[Len(q)]
      /\ \A i \in 0..Len(q) : kept[i] = IF i = 0 THEN <<>>
                                        ELSE IF q[i].name = name THEN kept[i - 1]
                                        ELSE Append(kept[i - 1], q[i])
  BY WithoutLoop
<1> DEFINE T == {i \in Nat : i <= Len(q) => kept[i] \in Seq(Member)}
<1>1. Len(q) \in Nat /\ \A i \in 1..Len(q) : q[i] \in Member
  OBVIOUS
<1>2. 0 \in T
  <2>1. 0 \in 0..Len(q) /\ <<>> \in Seq(Member)
    BY <1>1
  <2>2. kept[0] = <<>>
    BY <2>1
  <2> QED
    BY <2>1, <2>2
<1>3. ASSUME NEW n \in Nat, n \in T
      PROVE  n + 1 \in T
  <2> SUFFICES ASSUME n + 1 <= Len(q)
               PROVE  kept[n + 1] \in Seq(Member)
    OBVIOUS
  <2>1. n + 1 \in 0..Len(q) /\ n + 1 \in 1..Len(q) /\ (n + 1) - 1 = n /\ kept[n] \in Seq(Member)
    BY <1>1, <1>3
  <2>2. kept[n + 1] = IF q[n + 1].name = name THEN kept[n] ELSE Append(kept[n], q[n + 1])
    BY <2>1
  <2> QED
    BY <1>1, <2>1, <2>2
<1>4. Nat \subseteq T
  <2> HIDE DEF T
  <2> QED
    BY <1>2, <1>3, Induction
<1> QED
  BY <1>1, <1>4

(* A member has a name and an object; the names of members are nodes.      *)
LEMMA NamesAreNodes ==
  ASSUME NEW q \in Seq(Member)
  PROVE  Names(q) \subseteq Node /\ \A i \in DOMAIN q : q[i] \in Member /\ q[i].obj \in Int
<1>1. \A i \in DOMAIN q : q[i] \in Member
  OBVIOUS
<1>2. \A m \in Member : m.name \in Node /\ m.obj \in Int
  BY DEF Member
<1> QED
  BY <1>1, <1>2 DEF Names

(* The types hold at first.                                                *)
LEMMA TypedInit == Init => Typed
<1> SUFFICES ASSUME Init
             PROVE  Typed
  OBVIOUS
<1>1. disk \in StoreData /\ data = disk /\ buf = EmptyStore
  BY StoredAssumption DEF Init
<1>2. data.networks \subseteq Net /\ \A n \in Net : data.conf[n] \in Conf /\ data.members[n] \in Seq(Member)
  BY <1>1 DEF StoreData
<1>3. told \in SUBSET (Net \X Node)
  BY <1>2, NamesAreNodes DEF Init, Members
<1>4. 0 \in 0..MaxOps /\ 0 \in 0..MaxCrashes
  BY NetworksAssumption
<1>5. StoreOK
  BY <1>1, <1>2, <1>3, <1>4, Defaults DEF Init, StoreOK
<1>6. HandlersOK
  BY Defaults DEF Init, HandlersOK, RequestOK
<1>7. \A n \in Net : Info(n) \in Answers
  BY <1>2 DEF Info, Answers
<1>8. NodesOK
  BY <1>7, Defaults DEF Init, NodesOK
<1> QED
  BY <1>5, <1>6, <1>8 DEF Typed

(* A handler's step keeps the handlers' types if its own are kept.         *)
LEMMA RequestStep ==
  ASSUME HandlersOK, NEW h \in Handler, NEW at, NEW l, RequestOK(at, l),
         pc' = [pc EXCEPT ![h] = at], loc' = [loc EXCEPT ![h] = l]
  PROVE  HandlersOK'
<1>1. at \in Places /\ l \in Locals
  BY DEF RequestOK
<1>2. pc' \in [Handler -> Places] /\ loc' \in [Handler -> Locals]
  BY <1>1 DEF HandlersOK
<1>3. \A g \in Handler : RequestOK(pc'[g], loc'[g])
  BY DEF HandlersOK
<1> QED
  BY <1>2, <1>3 DEF HandlersOK

(* allocVirtualIP gives a free address (store.go:292-319).                 *)
LEMMA AddressFree ==
  ASSUME NEW h, Free(loc[h].net) # {}
  PROVE  Address(h) \in Free(loc[h].net)
<1>1. Free(loc[h].net) \subseteq Nat
  BY NetworksAssumption DEF Free, IP
<1>2. \E a \in Free(loc[h].net) : \A b \in Free(loc[h].net) : a <= b
  BY <1>1, Smallest
<1> QED
  BY <1>2 DEF Address

(* The types are kept by the steps of a handler: those that only change    *)
(* the handler ...                                                         *)
LEMMA TypedBefore ==
  ASSUME Typed, NEW h \in Handler,
         \/ \E n \in Net : GetNetwork(h, n) \/ \E c \in Conf : NewNetwork(h, n, c)
         \/ Scan(h) \/ Allocate(h) \/ ReadMembers(h)
  PROVE  StoreOK' /\ HandlersOK'
<1>0. StoreOK /\ HandlersOK /\ RequestOK(pc[h], loc[h])
  BY DEF Typed, HandlersOK
<1>1. ASSUME NEW at \in Places \ {"idle"}, NEW l, RequestOK(at, l), Begin(h, at, l)
      PROVE  HandlersOK' /\ ops' \in 0..MaxOps /\ raced' \in SUBSET Net
  <2>1. HandlersOK'
    BY <1>0, <1>1, RequestStep DEF Begin
  <2>2. ops' \in 0..MaxOps
    BY <1>0, <1>1, NetworksAssumption DEF Begin, StoreOK
  <2>3. raced' \in SUBSET Net
    <3>1. l.net \in Net
      BY <1>1 DEF RequestOK
    <3> QED
      BY <1>0, <1>1, <3>1 DEF Begin, StoreOK
  <2> QED
    BY <2>1, <2>2, <2>3
<1>2. /\ Idle \in Locals /\ DOMAIN Idle = {"op", "net", "name", "ip", "auto", "obj", "conf", "base", "todo"}
      /\ Idle.op = "save" /\ Idle.ip = 0 /\ Idle.name = NoNode /\ Idle.auto = FALSE
  BY Defaults DEF RequestOK, Idle
<1>3. ASSUME NEW n \in Net, GetNetwork(h, n)
      PROVE  StoreOK' /\ HandlersOK'
  <2>1. ASSUME NEW c \in Conf
        PROVE  RequestOK("write", [Idle EXCEPT !.op = "save", !.net = n, !.conf = c])
    BY <1>2 DEF RequestOK, Places, Locals, Ops
  <2>2. RequestOK("save", [Idle EXCEPT !.op = "delete", !.net = n])
    BY <1>2 DEF RequestOK, Places, Locals, Ops
  <2>3. ASSUME NEW x \in Node
        PROVE  RequestOK("read", [Idle EXCEPT !.op = "remove", !.net = n, !.name = x])
    BY <1>2 DEF RequestOK, Places, Locals, Ops
  <2>4. ASSUME NEW x \in Node, NEW a \in Wishes \cup {0}
        PROVE  RequestOK("scan", [Idle EXCEPT !.op = "add", !.net = n, !.name = x, !.ip = a,
                                            !.obj = ops + 1])
    <3>1. a \in 0..LastIP /\ ops + 1 \in Int
      BY <1>0, NetworksAssumption DEF StoreOK
    <3> QED
      BY <1>2, <3>1 DEF RequestOK, Places, Locals, Ops
  <2>5. HandlersOK' /\ ops' \in 0..MaxOps /\ raced' \in SUBSET Net
    BY <1>1, <1>3, <2>1, <2>2, <2>3, <2>4 DEF GetNetwork, Places
  <2> QED
    BY <1>0, <1>3, <2>5 DEF GetNetwork, StoreOK, memVars, fileVars, histVars
<1>4. ASSUME NEW n \in Net, NEW c \in Conf, NewNetwork(h, n, c)
      PROVE  StoreOK' /\ HandlersOK'
  <2>1. RequestOK("write", [Idle EXCEPT !.op = "save", !.net = n, !.conf = c])
    BY <1>2 DEF RequestOK, Places, Locals, Ops
  <2>2. HandlersOK' /\ ops' \in 0..MaxOps /\ raced' \in SUBSET Net
    BY <1>1, <1>4, <2>1 DEF NewNetwork, Places
  <2> QED
    BY <1>0, <1>4, <2>2 DEF NewNetwork, StoreOK, fileVars, histVars
<1>5. CASE Scan(h)
  <2> DEFINE n == loc[h].net  q == data.members[n]
  <2>1. n \in Net /\ loc[h] \in Locals /\ loc[h].op = "add" /\ loc[h].name \in Node
    BY <1>0, <1>5 DEF Scan, RequestOK
  <2>2. q \in Seq(Member) /\ \A i \in DOMAIN q : q[i].obj \in Int
    <3>1. q \in Seq(Member)
      BY <1>0, <2>1 DEF StoreOK, StoreData
    <3> QED
      BY <3>1, NamesAreNodes
  <2>3. ASSUME NEW i \in DOMAIN q
        PROVE  RequestOK("write", [loc[h] EXCEPT !.op = "update", !.obj = q[i].obj])
    BY <2>1, <2>2 DEF RequestOK, Places, Locals, Ops
  <2>4. HandlersOK'
    <3>1. CASE \E i \in DOMAIN q : /\ loc' = [loc EXCEPT ![h].op = "update", ![h].obj = q[i].obj]
                                   /\ pc' = [pc EXCEPT ![h] = "write"]
      <4> PICK i \in DOMAIN q : /\ loc' = [loc EXCEPT ![h].op = "update", ![h].obj = q[i].obj]
                                /\ pc' = [pc EXCEPT ![h] = "write"]
        BY <3>1
      <4>1. loc' = [loc EXCEPT ![h] = [loc[h] EXCEPT !.op = "update", !.obj = q[i].obj]]
        BY <1>0 DEF HandlersOK
      <4> QED
        BY <1>0, <2>3, <4>1, RequestStep
    <3>2. CASE UNCHANGED loc /\ pc' = [pc EXCEPT ![h] = IF loc[h].ip = 0 THEN "alloc" ELSE "read"]
      <4>1. RequestOK("alloc", loc[h]) /\ (loc[h].ip # 0 => RequestOK("read", loc[h]))
        BY <2>1 DEF RequestOK, Places
      <4>2. loc' = [loc EXCEPT ![h] = loc[h]]
        BY <1>0, <3>2 DEF HandlersOK
      <4> QED
        BY <1>0, <3>2, <4>1, <4>2, RequestStep
    <3>3. ASSUME NEW there, there = {i \in DOMAIN q : q[i].name = loc[h].name}, there # {}
          PROVE  (CHOOSE j \in there : \A k \in there : j <= k) \in DOMAIN q
      <4>1. there \subseteq Nat
        BY <2>2, <3>3
      <4>2. \E j \in there : \A k \in there : j <= k
        BY <3>3, <4>1, Smallest
      <4> QED
        BY <3>3, <4>2
    <3> QED
      BY <1>5, <3>1, <3>2, <3>3 DEF Scan
  <2> QED
    BY <1>0, <1>5, <2>4 DEF Scan, StoreOK, memVars, fileVars, histVars
<1>6. CASE Allocate(h)
  <2>1. /\ loc[h].net \in Net /\ loc[h] \in Locals /\ loc[h].op = "add" /\ loc[h].name \in Node
    BY <1>0, <1>6 DEF Allocate, RequestOK
  <2>2. ASSUME Free(loc[h].net) # {}
        PROVE  RequestOK("read", [loc[h] EXCEPT !.ip = Address(h), !.auto = TRUE])
    <3> DEFINE a == Address(h)
               l == [loc[h] EXCEPT !.ip = a, !.auto = TRUE]
    <3>1. a \in 0..LastIP /\ a # 0
      BY <2>2, AddressFree, NetworksAssumption DEF Free, IP
    <3> HIDE DEF a
    <3>2. l \in Locals /\ l.op = "add" /\ l.name = loc[h].name /\ l.ip = a /\ l.net = loc[h].net
      BY <2>1, <3>1 DEF Locals
    <3> HIDE DEF l
    <3>3. RequestOK("read", l)
      BY <2>1, <3>1, <3>2 DEF RequestOK, Places
    <3> QED
      BY <3>3 DEF l, a
  <2>3. HandlersOK'
    <3>1. CASE loc' = [loc EXCEPT ![h] = Idle] /\ pc' = [pc EXCEPT ![h] = "idle"]
      BY <1>0, <3>1, Defaults, RequestStep
    <3>2. CASE /\ Free(loc[h].net) # {} /\ pc' = [pc EXCEPT ![h] = "read"]
               /\ loc' = [loc EXCEPT ![h].ip = Address(h), ![h].auto = TRUE]
      <4>1. loc' = [loc EXCEPT ![h] = [loc[h] EXCEPT !.ip = Address(h), !.auto = TRUE]]
        BY <1>0, <3>2 DEF HandlersOK
      <4> QED
        BY <1>0, <2>2, <3>2, <4>1, RequestStep
    <3> QED
      BY <1>6, <3>1, <3>2 DEF Allocate
  <2> QED
    BY <1>0, <1>6, <2>3 DEF Allocate, StoreOK, memVars, fileVars, histVars
<1>7. CASE ReadMembers(h)
  <2>1. loc[h].net \in Net /\ loc[h] \in Locals /\ loc[h].op \in {"add", "remove"} /\ pc[h] = "read"
    BY <1>0, <1>7 DEF ReadMembers, RequestOK
  <2>2. data.members[loc[h].net] \in Seq(Member)
    BY <1>0, <2>1 DEF StoreOK, StoreData
  <2>3. RequestOK("write", [loc[h] EXCEPT !.base = data.members[loc[h].net]])
    BY <1>0, <2>1, <2>2 DEF RequestOK, Places, Locals
  <2>4. loc' = [loc EXCEPT ![h] = [loc[h] EXCEPT !.base = data.members[loc[h].net]]]
    BY <1>0, <1>7 DEF ReadMembers, HandlersOK
  <2>5. HandlersOK'
    BY <1>0, <1>7, <2>3, <2>4, RequestStep DEF ReadMembers
  <2> QED
    BY <1>0, <1>7, <2>5 DEF ReadMembers, StoreOK, memVars, fileVars, histVars
<1> QED
  BY <1>3, <1>4, <1>5, <1>6, <1>7

(* ... the change itself and the save ...                                  *)
LEMMA TypedChange ==
  ASSUME Typed, NEW h \in Handler, Change(h)
  PROVE  StoreOK' /\ HandlersOK'
<1> DEFINE l == loc[h]
           q == data.members[l.net]
           qq == ChangedMembers(l)
           c == IF l.op = "save" THEN l.conf ELSE data.conf[l.net]
<1>0. StoreOK /\ HandlersOK /\ RequestOK("write", l) /\ pc[h] = "write"
  BY DEF Change, Typed, HandlersOK
<1>1. l \in Locals /\ l.net \in Net /\ l.op \in {"save", "add", "update", "remove"}
  BY <1>0 DEF RequestOK, Locals, Ops
<1>2. /\ l.conf \in Conf /\ l.base \in Seq(Member) /\ l.obj \in Int /\ l.ip \in 0..LastIP
      /\ l.op = "add" => l.name \in Node /\ l.ip # 0
  BY <1>0, <1>1 DEF RequestOK, Locals
<1>3. data \in StoreData /\ q \in Seq(Member) /\ data.conf[l.net] \in Conf
  BY <1>0, <1>1 DEF StoreOK, StoreData
<1>4. qq \in Seq(Member)
  <2>1. CASE l.op = "add"
    <3>1. [obj |-> l.obj, name |-> l.name, ip |-> l.ip] \in Member
      BY <1>2, <2>1, NetworksAssumption DEF Member, IP
    <3>2. qq = Append(l.base, [obj |-> l.obj, name |-> l.name, ip |-> l.ip])
      BY <2>1 DEF ChangedMembers
    <3> QED
      BY <1>2, <3>1, <3>2
  <2>2. CASE l.op = "remove"
    <3>1. qq = Without(l.base, l.name)
      BY <2>2 DEF ChangedMembers
    <3> QED
      BY <1>2, <3>1, WithoutType
  <2>3. CASE l.op = "update"
    <3> DEFINE m(i) == IF q[i].obj = l.obj /\ l.ip # 0 THEN [q[i] EXCEPT !.ip = l.ip] ELSE q[i]
    <3>1. ASSUME NEW i \in DOMAIN q
          PROVE  m(i) \in Member
      <4>1. q[i] \in Member
        BY <1>3
      <4>2. ASSUME l.ip # 0
            PROVE  [q[i] EXCEPT !.ip = l.ip] \in Member
        <5> DEFINE a == l.ip  x == q[i]
        <5>1. x \in Member /\ a \in IP
          BY <1>2, <4>1, <4>2, NetworksAssumption DEF IP
        <5> HIDE DEF a, x
        <5>2. [x EXCEPT !.ip = a] \in Member
          BY <5>1 DEF Member
        <5> QED
          BY <5>2 DEF a, x
      <4> QED
        BY <4>1, <4>2
    <3>2. qq = [i \in DOMAIN q |-> m(i)]
      BY <2>3 DEF ChangedMembers
    <3>3. DOMAIN q = 1..Len(q) /\ Len(q) \in Nat
      BY <1>3
    <3> HIDE DEF m, q, qq
    <3> QED
      BY <3>1, <3>2, <3>3
  <2>4. CASE l.op = "save"
    BY <1>3, <2>4 DEF ChangedMembers
  <2> QED
    BY <1>1, <2>1, <2>2, <2>3, <2>4
<1>5. c \in Conf
  BY <1>2, <1>3
<1>6. data' = [data EXCEPT !.members[l.net] = qq, !.conf[l.net] = c]
  BY DEF Change
<1>7. data' \in StoreData
  <2> HIDE DEF l, q, qq, c
  <2> QED
    BY <1>1, <1>3, <1>4, <1>5, <1>6 DEF StoreData
<1>8. RequestOK("save", l) /\ loc' = [loc EXCEPT ![h] = l] /\ pc' = [pc EXCEPT ![h] = "save"]
  BY <1>0 DEF RequestOK, Places, Change, HandlersOK
<1>9. HandlersOK'
  <2> HIDE DEF l
  <2> QED
    BY <1>0, <1>8, RequestStep
<1>10. wished' \in SUBSET Int
  BY <1>0, <1>2 DEF Change, StoreOK
<1> QED
  BY <1>0, <1>7, <1>9, <1>10 DEF Change, StoreOK, fileVars

(* What is marshalled is a store.                                          *)
LEMMA MarshalType ==
  ASSUME NEW d \in StoreData
  PROVE  Marshal(d) \in StoreData
<1>1. d.networks \subseteq Net /\ d.conf \in [Net -> Conf] /\ d.members \in [Net -> Seq(Member)]
  BY DEF StoreData
<1>2. [n \in Net |-> IF n \in d.networks THEN d.conf[n] ELSE NoConf] \in [Net -> Conf]
  BY <1>1, Defaults
<1>3. [n \in Net |-> IF n \in d.networks THEN d.members[n] ELSE <<>>] \in [Net -> Seq(Member)]
  BY <1>1
<1> QED
  BY <1>1, <1>2, <1>3 DEF Marshal, StoreData

(* The save keeps the types.                                               *)
LEMMA TypedSave ==
  ASSUME Typed, NEW h \in Handler, Save(h) \/ Rename(h)
  PROVE  StoreOK' /\ HandlersOK'
<1>0. StoreOK /\ HandlersOK /\ RequestOK(pc[h], loc[h])
  BY DEF Typed, HandlersOK
<1>1. ASSUME NEW at \in Places, pc' = [pc EXCEPT ![h] = at], loc' = loc, pc[h] \in {"save", "rename"},
             at \in {"rename", "notify"}
      PROVE  HandlersOK'
  <2>1. RequestOK(at, loc[h]) /\ loc' = [loc EXCEPT ![h] = loc[h]]
    BY <1>0, <1>1 DEF RequestOK, HandlersOK
  <2> QED
    BY <1>0, <1>1, <2>1, RequestStep
<1>2. CASE Save(h)
  <2>1. loc[h].net \in Net /\ pc[h] = "save"
    BY <1>0, <1>2 DEF Save, RequestOK
  <2>2. data' \in StoreData /\ data' = [data EXCEPT !.networks = Saved(loc[h])]
    BY <1>0, <1>2, <2>1 DEF Save, StoreOK, StoreData, Saved
  <2>3. buf' \in StoreData
    BY <1>2, <2>2, MarshalType DEF Save, ToFile
  <2>4. told' \in SUBSET (Net \X Node)
    BY <1>0, <1>2 DEF Save, StoreOK
  <2>5. HandlersOK'
    BY <1>1, <1>2 DEF Save, Places
  <2> QED
    BY <1>0, <1>2, <2>2, <2>3, <2>4, <2>5 DEF Save, StoreOK, histVars
<1>3. CASE Rename(h)
  <2>1. HandlersOK'
    BY <1>1, <1>3 DEF Rename, Places
  <2>2. disk' \in StoreData /\ saved' \in BOOLEAN
    BY <1>0, <1>3 DEF Rename, StoreOK
  <2> QED
    BY <1>0, <1>3, <2>1, <2>2, Defaults DEF Rename, StoreOK, memVars, histVars
<1> QED
  BY <1>2, <1>3

(* ... and the refreshes.                                                  *)
LEMMA TypedAfter ==
  ASSUME Typed, NEW h \in Handler, Notify(h) \/ Push(h) \/ Answer(h)
  PROVE  StoreOK' /\ HandlersOK'
<1>0. StoreOK /\ HandlersOK /\ RequestOK(pc[h], loc[h])
  BY DEF Typed, HandlersOK
<1>1. ASSUME NEW todo \in SUBSET Node, pc[h] \in {"notify", "push"},
             pc' = [pc EXCEPT ![h] = "push"], loc' = [loc EXCEPT ![h].todo = todo]
      PROVE  HandlersOK'
  <2>1. RequestOK("push", [loc[h] EXCEPT !.todo = todo])
    BY <1>0, <1>1 DEF RequestOK, Locals, Places
  <2>2. loc' = [loc EXCEPT ![h] = [loc[h] EXCEPT !.todo = todo]]
    BY <1>0, <1>1 DEF HandlersOK
  <2> QED
    BY <1>0, <1>1, <2>1, <2>2, RequestStep
<1>2. CASE Notify(h)
  <2>1. loc[h].net \in Net /\ (loc[h].op = "remove" => loc[h].name \in Node)
    BY <1>0, <1>2 DEF Notify, RequestOK
  <2>2. Names(data.members[loc[h].net]) \subseteq Node
    <3>1. data.members[loc[h].net] \in Seq(Member)
      BY <1>0, <2>1 DEF StoreOK, StoreData
    <3> QED
      BY <3>1, NamesAreNodes
  <2>3. ToNotify(loc[h]) \subseteq Node
    BY <2>1, <2>2 DEF ToNotify
  <2>4. HandlersOK'
    BY <1>1, <1>2, <2>3 DEF Notify
  <2> QED
    BY <1>0, <1>2, <2>4 DEF Notify, StoreOK, memVars, fileVars, histVars
<1>3. CASE Push(h)
  <2> PICK x \in loc[h].todo : /\ told' = told \cup {<<loc[h].net, x>>}
                               /\ loc' = [loc EXCEPT ![h].todo = loc[h].todo \ {x}]
    BY <1>0, <1>3 DEF Push, HandlersOK
  <2>1. loc[h].net \in Net /\ loc[h].todo \subseteq Node /\ pc[h] = "push"
    BY <1>0, <1>3 DEF Push, RequestOK, Locals
  <2>2. HandlersOK'
    <3>1. loc[h].todo \ {x} \subseteq Node /\ pc' = [pc EXCEPT ![h] = "push"]
      BY <1>0, <1>3, <2>1 DEF Push, HandlersOK
    <3> QED
      BY <1>1, <2>1, <3>1
  <2>3. told' \in SUBSET (Net \X Node)
    BY <1>0, <2>1 DEF StoreOK
  <2> QED
    BY <1>0, <1>3, <2>2, <2>3 DEF Push, StoreOK, memVars, fileVars, histVars
<1>4. CASE Answer(h)
  <2>1. HandlersOK'
    BY <1>0, <1>4, Defaults, RequestStep DEF Answer
  <2> QED
    BY <1>0, <1>4, <2>1 DEF Answer, StoreOK, memVars, fileVars, histVars
<1> QED
  BY <1>2, <1>3, <1>4

(* The steps of a handler change the nodes only by a refresh.              *)
LEMMA TypedHandler ==
  ASSUME Typed, NEW h \in Handler, HandlerStep(h)
  PROVE  Typed'
<1>1. StoreOK' /\ HandlersOK'
  BY TypedBefore, TypedChange, TypedSave, TypedAfter DEF HandlerStep
<1>2. UNCHANGED <<wpc, asker, info, view, crossed>> /\ (asks' = asks \/ Push(h))
  BY DEF HandlerStep, GetNetwork, NewNetwork, Scan, Allocate, ReadMembers, Change, Save, Rename,
         Notify, Push, Answer, nodeVars
<1>3. asks' \in [Node -> Nat]
  BY <1>2 DEF Typed, NodesOK, Push
<1>4. NodesOK'
  BY <1>2, <1>3 DEF Typed, NodesOK
<1> QED
  BY <1>1, <1>4 DEF Typed

(* The steps of a worker.                                                  *)
LEMMA TypedWorker ==
  ASSUME Typed, NEW w \in Worker, BuildInfo(w) \/ Reply(w) \/ \E x \in Node : FindNetwork(w, x)
  PROVE  Typed'
<1>0. StoreOK /\ HandlersOK /\ NodesOK
  BY DEF Typed
<1>1. UNCHANGED <<memVars, fileVars, reqVars, told, crashes, histVars>>
  BY DEF BuildInfo, Reply, FindNetwork
<1>2. StoreOK' /\ HandlersOK'
  BY <1>0, <1>1 DEF StoreOK, HandlersOK, memVars, fileVars, reqVars, histVars
<1>3. \A n \in Net : Info(n) \in Answers
  <2>1. \A n \in Net : data.conf[n] \in Conf /\ data.members[n] \in Seq(Member)
    BY <1>0 DEF StoreOK, StoreData
  <2> QED
    BY <2>1 DEF Info, Answers
<1>4. CASE BuildInfo(w)
  <2>1. info[w].net \in Net
    BY <1>0, <1>4 DEF BuildInfo, NodesOK
  <2>2. info' \in [Worker -> Answers]
    BY <1>0, <1>3, <1>4, <2>1 DEF BuildInfo, NodesOK
  <2>3. NodesOK'
    BY <1>0, <1>4, <2>2 DEF BuildInfo, NodesOK
  <2> QED
    BY <1>2, <2>3 DEF Typed
<1>5. CASE Reply(w)
  <2>1. asker[w] \in Node
    BY <1>0, <1>5 DEF Reply, NodesOK
  <2>2. info' \in [Worker -> Answers] /\ view' \in [Node -> Answers]
    BY <1>0, <1>5, <2>1, Defaults DEF Reply, NodesOK
  <2>3. NodesOK'
    BY <1>0, <1>5, <2>2 DEF Reply, NodesOK
  <2> QED
    BY <1>2, <2>3 DEF Typed
<1>6. ASSUME NEW x \in Node, FindNetwork(w, x)
      PROVE  Typed'
  <2>1. asks' \in [Node -> Nat] /\ asker' \in [Worker -> Node \cup {NoNode}] /\ crossed' \subseteq Node
    BY <1>0, <1>6 DEF FindNetwork, NodesOK
  <2>2. CASE UNCHANGED info /\ wpc' = [wpc EXCEPT ![w] = "reply"]
    <3>1. NodesOK'
      BY <1>0, <1>6, <2>1, <2>2 DEF FindNetwork, NodesOK
    <3> QED
      BY <1>2, <3>1 DEF Typed
  <2>3. ASSUME NEW n \in Found(x), info' = [info EXCEPT ![w].net = n], wpc' = [wpc EXCEPT ![w] = "build"]
        PROVE  Typed'
    <3>1. n \in Net
      BY <1>0, <2>3 DEF Found, StoreOK, StoreData
    <3> DEFINE a == [info[w] EXCEPT !.net = n]
    <3>2. info[w] \in Answers /\ info \in [Worker -> Answers]
      BY <1>0 DEF NodesOK
    <3>3. a \in Answers /\ a.net = n
      BY <3>1, <3>2 DEF Answers
    <3>4. info' = [info EXCEPT ![w] = a]
      BY <2>3, <3>2
    <3> HIDE DEF a
    <3>5. /\ info' \in [Worker -> Answers] /\ info'[w].net = n
          /\ \A v \in Worker \ {w} : info'[v] = info[v]
      BY <3>2, <3>3, <3>4
    <3>6. NodesOK'
      BY <1>0, <1>6, <2>1, <2>3, <3>1, <3>5 DEF FindNetwork, NodesOK
    <3> QED
      BY <1>2, <3>6 DEF Typed
  <2> QED
    BY <1>6, <2>2, <2>3 DEF FindNetwork
<1> QED
  BY <1>4, <1>5, <1>6

(* A restart.                                                              *)
LEMMA TypedRestart ==
  ASSUME Typed, Restart
  PROVE  Typed'
<1>1. StoreOK
  BY DEF Typed
<1>2. data' \in StoreData
  BY <1>1 DEF Restart, StoreOK
<1>3. \A n \in Net : data'.conf[n] \in Conf /\ data'.members[n] \in Seq(Member)
  BY <1>2 DEF StoreData
<1>4. told' \in SUBSET (Net \X Node)
  BY <1>3, NamesAreNodes DEF Restart, Members
<1>5. crashes' \in 0..MaxCrashes
  BY <1>1, NetworksAssumption DEF Restart, StoreOK
<1>6. StoreOK'
  BY <1>1, <1>2, <1>4, <1>5, Defaults DEF Restart, StoreOK, histVars
<1>7. HandlersOK'
  BY Defaults DEF Restart, HandlersOK, RequestOK
<1>8. \A n \in Net : Info(n)' \in Answers
  BY <1>3 DEF Info, Answers
<1>9. NodesOK'
  BY <1>8, Defaults DEF Restart, NodesOK
<1> QED
  BY <1>6, <1>7, <1>9 DEF Typed

(* Every step keeps the types.                                             *)
LEMMA TypedNext ==
  ASSUME Typed, [Next]_vars
  PROVE  Typed'
<1>1. CASE UNCHANGED vars
  BY <1>1 DEF vars, memVars, fileVars, reqVars, nodeVars, histVars, Typed, StoreOK, HandlersOK, NodesOK
<1> QED
  BY <1>1, TypedHandler, TypedWorker, TypedRestart DEF Next

(* The state keeps its types: what a handler has read or built of a        *)
(* network is one, and the request it works on has what its next step uses *)
(* (webmgmt.go:207-287, store.go:280).                                     *)
THEOREM NetworksTypes == Spec => []TypeOK
  BY TypedInit, TypedNext, TypedTypeOK, PTL DEF Spec
----------------------------------------------------------------------------
(* Distinct, of any set of objects whose addresses were asked for.         *)
Apart(q, W) ==
  \A i, j \in DOMAIN q : i # j =>
    /\ q[i].name # q[j].name
    /\ q[i].ip = q[j].ip => {q[i].obj, q[j].obj} \cap W # {}

(* The lists in memory, in the file and in what a save has marshalled.     *)
ListsOK ==
  \A n \in Net \ raced :
    /\ Apart(data.members[n], wished) /\ Apart(disk.members[n], wished)
    /\ Apart(buf.members[n], wished)

(* What a handler that edits the members of n knows of them: the node it   *)
(* adds is not among them, nor is the address it has allocated, and when   *)
(* it is to assign the members they are still those it has read.           *)
Knows(h, n) ==
  /\ pc[h] \in {"alloc", "read", "write"} /\ loc[h].op = "add" =>
       \A i \in DOMAIN data.members[n] : data.members[n][i].name # loc[h].name
  /\ pc[h] \in {"read", "write"} /\ loc[h].op = "add" /\ loc[h].auto =>
       \A i \in DOMAIN data.members[n] : data.members[n][i].ip # loc[h].ip
  /\ pc[h] = "write" /\ loc[h].op \in {"add", "remove"} => loc[h].base = data.members[n]

(* It is the only one.                                                     *)
EditOK == \A n \in Net \ raced : \A h \in Editors(n) : Editors(n) = {h} /\ Knows(h, n)

(* A list is as distinct when more addresses have been asked for, when it  *)
(* is empty, and when a member is appended ...                             *)
LEMMA ApartMore ==
  ASSUME NEW q, NEW V, NEW W, V \subseteq W, Apart(q, V)
  PROVE  Apart(q, W)
  BY DEF Apart

LEMMA ApartAppend ==
  ASSUME NEW q \in Seq(Member), NEW m \in Member, NEW W, Apart(q, W),
         \A i \in DOMAIN q : /\ q[i].name # m.name
                             /\ q[i].ip = m.ip => {q[i].obj, m.obj} \cap W # {}
  PROVE  Apart(Append(q, m), W)
<1> DEFINE r == Append(q, m)
<1>1. /\ Len(q) \in Nat /\ DOMAIN q = 1..Len(q) /\ DOMAIN r = 1..(Len(q) + 1)
      /\ r[Len(q) + 1] = m /\ \A i \in 1..Len(q) : r[i] = q[i]
  OBVIOUS
<1> HIDE DEF r
<1>2. ASSUME NEW i \in DOMAIN r, NEW j \in DOMAIN r, i # j
      PROVE  /\ r[i].name # r[j].name
             /\ r[i].ip = r[j].ip => {r[i].obj, r[j].obj} \cap W # {}
  <2>1. CASE i \in DOMAIN q /\ j \in DOMAIN q
    BY <1>1, <1>2, <2>1 DEF Apart
  <2>2. CASE i \in DOMAIN q /\ j = Len(q) + 1
    BY <1>1, <2>2
  <2>3. CASE i = Len(q) + 1 /\ j \in DOMAIN q
    BY <1>1, <2>3
  <2> QED
    BY <1>1, <1>2, <2>1, <2>2, <2>3
<1>3. Apart(r, W)
  BY <1>2 DEF Apart
<1> QED
  BY <1>3 DEF r

(* ... or one is left out ...                                              *)
LEMMA ApartWithout ==
  ASSUME NEW q \in Seq(Member), NEW name, NEW W, Apart(q, W)
  PROVE  Apart(Without(q, name), W)
<1> PICK kept :
      /\ Without(q, name) = kept[Len(q)]
      /\ \A i \in 0..Len(q) : kept[i] = IF i = 0 THEN <<>>
                                        ELSE IF q[i].name = name THEN kept[i - 1]
                                        ELSE Append(kept[i - 1], q[i])
  BY WithoutLoop
<1> DEFINE Good(n) == /\ kept[n] \in Seq(Member) /\ Apart(kept[n], W)
                      /\ \A k \in DOMAIN kept[n] : \E j \in 1..n : kept[n][k] = q[j]
           T == {n \in Nat : n <= Len(q) => Good(n)}
<1>1. Len(q) \in Nat /\ DOMAIN q = 1..Len(q) /\ \A i \in 1..Len(q) : q[i] \in Member
  OBVIOUS
<1>2. 0 \in T
  <2>1. 0 \in 0..Len(q) /\ <<>> \in Seq(Member) /\ DOMAIN <<>> = {}
    BY <1>1
  <2>2. kept[0] = <<>>
    BY <2>1
  <2> QED
    BY <2>1, <2>2 DEF Apart
<1>3. ASSUME NEW n \in Nat, n \in T
      PROVE  n + 1 \in T
  <2> SUFFICES ASSUME n + 1 <= Len(q)
               PROVE  Good(n + 1)
    OBVIOUS
  <2>1. n + 1 \in 0..Len(q) /\ n + 1 \in DOMAIN q /\ (n + 1) - 1 = n /\ n + 1 # 0 /\ Good(n)
    BY <1>1, <1>3
  <2>2. kept[n + 1] = IF q[n + 1].name = name THEN kept[n] ELSE Append(kept[n], q[n + 1])
    BY <2>1
  <2>3. \A j \in 1..n : j \in 1..(n + 1) /\ j \in DOMAIN q /\ j # n + 1
    BY <1>1
  <2>4. CASE q[n + 1].name = name
    BY <2>1, <2>2, <2>3, <2>4
  <2>5. CASE q[n + 1].name # name
    <3> DEFINE m == q[n + 1]  r == kept[n]
    <3>1. m \in Member /\ r \in Seq(Member) /\ Apart(r, W) /\ kept[n + 1] = Append(r, m)
      BY <1>1, <2>1, <2>2, <2>5
    <3>2. \A k \in DOMAIN r : \E j \in DOMAIN q : r[k] = q[j] /\ j # n + 1 /\ j \in 1..(n + 1)
      BY <2>1, <2>3
    <3> HIDE DEF r
    <3>3. ASSUME NEW k \in DOMAIN r
          PROVE  r[k].name # m.name /\ (r[k].ip = m.ip => {r[k].obj, m.obj} \cap W # {})
      <4> PICK j \in DOMAIN q : r[k] = q[j] /\ j # n + 1
        BY <3>2
      <4> QED
        BY <2>1 DEF Apart
    <3>4. Apart(Append(r, m), W)
      BY <3>1, <3>3, ApartAppend
    <3>5. \A k \in DOMAIN Append(r, m) : \E j \in 1..(n + 1) : Append(r, m)[k] = q[j]
      <4>1. /\ Len(r) \in Nat /\ DOMAIN r = 1..Len(r) /\ DOMAIN Append(r, m) = 1..(Len(r) + 1)
            /\ Append(r, m)[Len(r) + 1] = m /\ \A k \in 1..Len(r) : Append(r, m)[k] = r[k]
        BY <3>1
      <4>2. n + 1 \in 1..(n + 1)
        OBVIOUS
      <4> QED
        BY <3>2, <4>1, <4>2
    <3>6. Append(r, m) \in Seq(Member)
      BY <3>1
    <3> QED
      BY <3>1, <3>4, <3>5, <3>6
  <2> QED
    BY <2>4, <2>5
<1>4. Nat \subseteq T
  <2> HIDE DEF T
  <2> QED
    BY <1>2, <1>3, Induction
<1> QED
  BY <1>1, <1>4

(* ... or the addresses of one object are changed and count as asked for.  *)
LEMMA ApartUpdate ==
  ASSUME NEW q, NEW r, NEW o, NEW W, Apart(q, W), DOMAIN r = DOMAIN q,
         \A i \in DOMAIN q : /\ r[i].name = q[i].name /\ r[i].obj = q[i].obj
                             /\ r[i].ip = q[i].ip \/ q[i].obj = o
  PROVE  Apart(r, W \cup {o})
<1>1. ASSUME NEW i \in DOMAIN q, NEW j \in DOMAIN q, i # j
      PROVE  /\ r[i].name # r[j].name
             /\ r[i].ip = r[j].ip => {r[i].obj, r[j].obj} \cap (W \cup {o}) # {}
  BY <1>1 DEF Apart
<1> QED
  BY <1>1 DEF Apart

(* A step of h that leaves the members alone, and after which h, if it     *)
(* edits, is the only one and knows them, keeps EditOK.                    *)
LEMMA EditQuiet ==
  ASSUME Typed, EditOK, NEW h \in Handler, raced \subseteq raced',
         \A g \in Handler : g # h => pc'[g] = pc[g] /\ loc'[g] = loc[g],
         data'.members = data.members,
         \A n \in Net \ raced' : h \in Editors(n)' => Editors(n) \subseteq {h} /\ Knows(h, n)'
  PROVE  EditOK'
<1> SUFFICES ASSUME NEW n \in Net \ raced', NEW g \in Editors(n)'
             PROVE  Editors(n)' = {g} /\ Knows(g, n)'
  BY DEF EditOK
<1>1. n \in Net \ raced
  OBVIOUS
<1>2. \A f \in Handler \ {h} : f \in Editors(n)' <=> f \in Editors(n)
  BY DEF Editors
<1>3. CASE g = h
  BY <1>2, <1>3 DEF Editors
<1>4. CASE g # h
  <2>1. g \in Editors(n) /\ Editors(n) = {g} /\ Knows(g, n) /\ g \in Handler
    BY <1>1, <1>2, <1>4 DEF EditOK, Editors
  <2>2. h \notin Editors(n)'
    BY <1>4, <2>1
  <2>3. Knows(g, n)'
    BY <1>4, <2>1 DEF Knows
  <2> QED
    BY <1>2, <2>1, <2>2, <2>3 DEF Editors
<1> QED
  BY <1>3, <1>4

(* The steps of a handler before its change.                               *)
LEMMA EditBefore ==
  ASSUME Typed, EditOK, NEW h \in Handler,
         \/ \E n \in Net : GetNetwork(h, n) \/ \E c \in Conf : NewNetwork(h, n, c)
         \/ Scan(h) \/ Allocate(h) \/ ReadMembers(h)
  PROVE  EditOK' /\ raced \subseteq raced' /\ UNCHANGED <<data, disk, buf, wished>>
<1>0. StoreOK /\ HandlersOK /\ RequestOK(pc[h], loc[h])
  BY DEF Typed, HandlersOK
<1>1. DOMAIN Idle = {"op", "net", "name", "ip", "auto", "obj", "conf", "base", "todo"}
  BY DEF Idle
<1>2. ASSUME NEW at, NEW l, Begin(h, at, l), data' = data,
             l.op \in {"save", "delete"} \/ at = "scan" \/ (at = "read" /\ l.op = "remove"),
             l.op \in {"save", "delete", "add", "remove"}
      PROVE  EditOK' /\ raced \subseteq raced'
  <2>1. /\ pc'[h] = at /\ loc'[h] = l
        /\ \A g \in Handler : g # h => pc'[g] = pc[g] /\ loc'[g] = loc[g]
    BY <1>0, <1>2 DEF Begin, HandlersOK
  <2>2. raced \subseteq raced'
    BY <1>2 DEF Begin
  <2>3. ASSUME NEW n \in Net \ raced', h \in Editors(n)'
        PROVE  Editors(n) \subseteq {h} /\ Knows(h, n)'
    <3>1. l.op \in {"add", "remove"} /\ l.net = n
      BY <1>2, <2>1, <2>3 DEF Editors
    <3>2. Editors(n) = {}
      BY <1>2, <2>3, <3>1 DEF Begin
    <3>3. Knows(h, n)'
      BY <1>2, <2>1, <3>1 DEF Knows
    <3> QED
      BY <3>2, <3>3
  <2> QED
    BY <1>2, <2>1, <2>2, <2>3, EditQuiet
<1>3. ASSUME NEW n \in Net, GetNetwork(h, n)
      PROVE  EditOK' /\ raced \subseteq raced' /\ UNCHANGED <<data, disk, buf, wished>>
  <2>1. UNCHANGED <<data, disk, buf, wished>>
    BY <1>3 DEF GetNetwork, memVars, fileVars
  <2> DEFINE Goal == EditOK' /\ raced \subseteq raced'
  <2>2. ASSUME NEW c \in Conf, Begin(h, "write", [Idle EXCEPT !.op = "save", !.net = n, !.conf = c])
        PROVE  Goal
    <3>1. [Idle EXCEPT !.op = "save", !.net = n, !.conf = c].op = "save"
      BY <1>1
    <3> QED
      BY <1>2, <2>1, <2>2, <3>1
  <2>3. ASSUME Begin(h, "save", [Idle EXCEPT !.op = "delete", !.net = n])
        PROVE  Goal
    <3>1. [Idle EXCEPT !.op = "delete", !.net = n].op = "delete"
      BY <1>1
    <3> QED
      BY <1>2, <2>1, <2>3, <3>1
  <2>4. ASSUME NEW x \in Node,
               Begin(h, "read", [Idle EXCEPT !.op = "remove", !.net = n, !.name = x])
        PROVE  Goal
    <3>1. [Idle EXCEPT !.op = "remove", !.net = n, !.name = x].op = "remove"
      BY <1>1
    <3> QED
      BY <1>2, <2>1, <2>4, <3>1
  <2>5. ASSUME NEW x \in Node, NEW a \in Wishes \cup {0},
               Begin(h, "scan", [Idle EXCEPT !.op = "add", !.net = n, !.name = x, !.ip = a,
                                       !.obj = ops + 1])
        PROVE  Goal
    <3>1. [Idle EXCEPT !.op = "add", !.net = n, !.name = x, !.ip = a, !.obj = ops + 1].op = "add"
      BY <1>1
    <3> QED
      BY <1>2, <2>1, <2>5, <3>1
  <2> HIDE DEF Goal
  <2>6. Goal
    BY <1>3, <2>2, <2>3, <2>4, <2>5 DEF GetNetwork
  <2> QED
    BY <2>1, <2>6 DEF Goal
<1>4. ASSUME NEW n \in Net, NEW c \in Conf, NewNetwork(h, n, c)
      PROVE  EditOK' /\ raced \subseteq raced' /\ UNCHANGED <<data, disk, buf, wished>>
  <2>1. UNCHANGED <<data, disk, buf, wished>>
    BY <1>4 DEF NewNetwork, fileVars
  <2>2. [Idle EXCEPT !.op = "save", !.net = n, !.conf = c].op = "save"
    BY <1>1
  <2> QED
    BY <1>2, <1>4, <2>1, <2>2 DEF NewNetwork
<1>5. CASE Scan(h)
  <2> PICK n \in Net : n = loc[h].net
    BY <1>0, <1>5 DEF Scan, RequestOK
  <2>1. /\ UNCHANGED <<data, disk, buf, wished, raced>> /\ pc[h] = "scan" /\ loc[h].op = "add"
        /\ h \in Editors(n) /\ loc[h] \in Locals /\ loc[h].auto = FALSE
    BY <1>0, <1>5 DEF Scan, RequestOK, Editors, memVars, fileVars, histVars
  <2>2. \A g \in Handler : g # h => pc'[g] = pc[g] /\ loc'[g] = loc[g]
    BY <1>0, <1>5 DEF Scan, HandlersOK
  <2>3. DOMAIN loc[h] = {"op", "net", "name", "ip", "auto", "obj", "conf", "base", "todo"}
    BY <2>1 DEF Locals
  <2>4. loc'[h].net = n /\ Knows(h, n)'
    <3>1. CASE \E o : /\ loc' = [loc EXCEPT ![h].op = "update", ![h].obj = o]
                      /\ pc' = [pc EXCEPT ![h] = "write"]
      BY <1>0, <2>3, <3>1 DEF HandlersOK, Knows
    <3>2. CASE /\ {i \in DOMAIN data.members[n] : data.members[n][i].name = loc[h].name} = {}
               /\ UNCHANGED loc
               /\ pc' = [pc EXCEPT ![h] = IF loc[h].ip = 0 THEN "alloc" ELSE "read"]
      <4>1. \A i \in DOMAIN data.members[n] : data.members[n][i].name # loc[h].name
        BY <3>2
      <4>2. pc'[h] \in {"alloc", "read"}
        BY <1>0, <3>2 DEF HandlersOK
      <4> QED
        BY <2>1, <3>2, <4>1, <4>2 DEF Knows
    <3> QED
      BY <1>5, <3>1, <3>2 DEF Scan
  <2>5. ASSUME NEW m \in Net \ raced', h \in Editors(m)'
        PROVE  Editors(m) \subseteq {h} /\ Knows(h, m)'
    <3>1. m = n /\ Knows(h, n)'
      BY <2>4, <2>5 DEF Editors
    <3>2. Editors(m) = {h}
      BY <2>1, <2>5, <3>1 DEF EditOK
    <3> QED
      BY <3>1, <3>2
  <2> QED
    BY <2>1, <2>2, <2>5, EditQuiet
<1>6. CASE Allocate(h)
  <2> PICK n \in Net : n = loc[h].net
    BY <1>0, <1>6 DEF Allocate, RequestOK
  <2>1. /\ UNCHANGED <<data, disk, buf, wished, raced>> /\ pc[h] = "alloc" /\ loc[h].op = "add"
        /\ h \in Editors(n) /\ loc[h] \in Locals
    BY <1>0, <1>6 DEF Allocate, RequestOK, Editors, memVars, fileVars, histVars
  <2>2. \A g \in Handler : g # h => pc'[g] = pc[g] /\ loc'[g] = loc[g]
    BY <1>0, <1>6 DEF Allocate, HandlersOK
  <2>3. DOMAIN loc[h] = {"op", "net", "name", "ip", "auto", "obj", "conf", "base", "todo"}
    BY <2>1 DEF Locals
  <2>4. ASSUME NEW m \in Net \ raced', h \in Editors(m)'
        PROVE  Editors(m) \subseteq {h} /\ Knows(h, m)'
    <3>1. CASE pc' = [pc EXCEPT ![h] = "idle"]
      BY <1>0, <2>4, <3>1 DEF HandlersOK, Editors
    <3>2. CASE /\ Free(n) # {} /\ pc' = [pc EXCEPT ![h] = "read"]
               /\ loc' = [loc EXCEPT ![h].ip = Address(h), ![h].auto = TRUE]
      <4>1. /\ pc'[h] = "read" /\ loc'[h].net = n /\ loc'[h].name = loc[h].name
            /\ loc'[h].ip = Address(h)
        BY <1>0, <2>3, <3>2 DEF HandlersOK
      <4>2. m = n
        BY <2>4, <4>1 DEF Editors
      <4>3. Editors(n) = {h} /\ Knows(h, n)
        BY <2>1, <2>4, <4>2 DEF EditOK
      <4>4. \A i \in DOMAIN data.members[n] : data.members[n][i].name # loc'[h].name
        BY <2>1, <4>1, <4>3 DEF Knows
      <4>5. \A i \in DOMAIN data.members[n] : data.members[n][i].ip # loc'[h].ip
        <5>1. Address(h) \in Free(n)
          BY <3>2, AddressFree
        <5>2. \A i \in DOMAIN data.members[n] : data.members[n][i].ip # Address(h)
          BY <5>1 DEF Free
        <5> QED
          BY <4>1, <5>2
      <4> QED
        BY <2>1, <4>1, <4>2, <4>3, <4>4, <4>5 DEF Knows
    <3> QED
      BY <1>6, <3>1, <3>2 DEF Allocate
  <2> QED
    BY <2>1, <2>2, <2>4, EditQuiet
<1>7. CASE ReadMembers(h)
  <2> PICK n \in Net : n = loc[h].net
    BY <1>0, <1>7 DEF ReadMembers, RequestOK
  <2>1. /\ UNCHANGED <<data, disk, buf, wished, raced>> /\ pc[h] = "read"
        /\ n \in Net /\ h \in Editors(n) /\ loc[h] \in Locals
    BY <1>0, <1>7 DEF ReadMembers, RequestOK, Editors, memVars, fileVars, histVars
  <2>2. DOMAIN loc[h] = {"op", "net", "name", "ip", "auto", "obj", "conf", "base", "todo"}
    BY <2>1 DEF Locals
  <2>3. /\ \A g \in Handler : g # h => pc'[g] = pc[g] /\ loc'[g] = loc[g]
        /\ pc'[h] = "write" /\ loc'[h].base = data.members[n] /\ loc'[h].net = n
        /\ loc'[h].op = loc[h].op /\ loc'[h].name = loc[h].name /\ loc'[h].ip = loc[h].ip
        /\ loc'[h].auto = loc[h].auto
    BY <1>0, <1>7, <2>2 DEF ReadMembers, HandlersOK
  <2>4. ASSUME NEW m \in Net \ raced', h \in Editors(m)'
        PROVE  Editors(m) \subseteq {h} /\ Knows(h, m)'
    <3>1. m = n
      BY <2>3, <2>4 DEF Editors
    <3>2. Editors(m) = {h} /\ Knows(h, m)
      BY <2>1, <2>4, <3>1 DEF EditOK
    <3>3. Knows(h, m)'
      BY <2>1, <2>3, <3>1, <3>2 DEF Knows
    <3> QED
      BY <3>2, <3>3
  <2> QED
    BY <2>1, <2>3, <2>4, EditQuiet
<1> QED
  BY <1>3, <1>4, <1>5, <1>6, <1>7
(* The change: the only editor of a network assigns what it has read, with *)
(* the node it has not found appended or one node left out, or changes an  *)
(* address as it was asked to (webmgmt.go:213-272).                        *)
LEMMA EditChange ==
  ASSUME Typed, ListsOK, EditOK, NEW h \in Handler, Change(h)
  PROVE  ListsOK' /\ EditOK'
<1>0. StoreOK /\ HandlersOK /\ RequestOK("write", loc[h]) /\ pc[h] = "write"
  BY DEF Change, Typed, HandlersOK
<1> PICK n \in Net : n = loc[h].net
  BY <1>0 DEF RequestOK
<1> DEFINE l == loc[h]
           q == data.members[n]
           r == ChangedMembers(loc[h])
<1>1. /\ l \in Locals /\ l.op \in {"save", "add", "update", "remove"} /\ l.base \in Seq(Member)
      /\ l.obj \in Int /\ l.ip \in 0..LastIP /\ l.auto \in BOOLEAN
      /\ l.op = "add" => l.name \in Node /\ l.ip # 0
  BY <1>0 DEF RequestOK, Locals, Ops
<1>2. /\ data'.members = [data.members EXCEPT ![n] = r] /\ UNCHANGED <<disk, buf, raced>>
      /\ wished \subseteq wished' /\ pc'[h] = "save"
      /\ \A g \in Handler : g # h => pc'[g] = pc[g] /\ loc'[g] = loc[g]
  <2>1. data'.members = [data.members EXCEPT ![n] = r]
    BY <1>0 DEF Change, StoreOK, StoreData
  <2> QED
    BY <1>0, <2>1 DEF Change, HandlersOK, fileVars
<1>3. q \in Seq(Member) /\ DOMAIN data.members = Net
  BY <1>0 DEF StoreOK, StoreData
<1>4. ASSUME n \notin raced, l.op # "save"
      PROVE  Editors(n) = {h} /\ Knows(h, n)
  <2>1. h \in Editors(n)
    BY <1>0, <1>1, <1>4 DEF Editors
  <2> QED
    BY <1>4, <2>1 DEF EditOK
<1>5. ASSUME n \notin raced
      PROVE  Apart(r, wished')
  <2>1. Apart(q, wished)
    BY <1>5 DEF ListsOK
  <2>2. CASE l.op = "save"
    BY <1>2, <2>1, <2>2, ApartMore DEF ChangedMembers
  <2>3. CASE l.op = "add"
    <3> DEFINE m == [obj |-> l.obj, name |-> l.name, ip |-> l.ip]
    <3>1. Knows(h, n) /\ l.base = q
      BY <1>0, <1>4, <1>5, <2>3 DEF Knows
    <3>2. m \in Member /\ m.name = l.name /\ m.ip = l.ip /\ m.obj = l.obj
      BY <1>1, <2>3 DEF Member, IP
    <3>3. r = Append(q, m)
      BY <2>3, <3>1 DEF ChangedMembers
    <3>4. l.auto \/ l.obj \in wished'
      BY <2>3 DEF Change
    <3> HIDE DEF m, r, q
    <3>5. ASSUME NEW i \in DOMAIN q
          PROVE  q[i].name # m.name /\ (q[i].ip = m.ip => {q[i].obj, m.obj} \cap wished' # {})
      BY <1>0, <2>3, <3>1, <3>2, <3>4 DEF Knows, q
    <3>6. Apart(q, wished')
      BY <1>2, <2>1, ApartMore
    <3> QED
      BY <1>3, <3>2, <3>3, <3>5, <3>6, ApartAppend
  <2>4. CASE l.op = "remove"
    <3>1. l.base = q
      BY <1>0, <1>4, <1>5, <2>4 DEF Knows
    <3>2. r = Without(q, l.name)
      BY <2>4, <3>1 DEF ChangedMembers
    <3> HIDE DEF q, r
    <3>3. Apart(q, wished')
      BY <1>2, <2>1, ApartMore
    <3> QED
      BY <1>3, <3>2, <3>3, ApartWithout
  <2>5. CASE l.op = "update"
    <3>1. r = [i \in DOMAIN q |-> IF q[i].obj = l.obj /\ l.ip # 0
                                   THEN [q[i] EXCEPT !.ip = l.ip] ELSE q[i]]
      BY <2>5 DEF ChangedMembers
    <3>2. \A i \in DOMAIN q : DOMAIN q[i] = {"obj", "name", "ip"}
      <4>1. \A i \in DOMAIN q : q[i] \in Member
        BY <1>3
      <4> QED
        BY <4>1 DEF Member
    <3>3. CASE l.ip = 0
      <4>1. DOMAIN r = DOMAIN q /\ \A i \in DOMAIN q : r[i] = q[i]
        BY <3>1, <3>3
      <4>2. Apart(r, wished)
        BY <2>1, <4>1 DEF Apart
      <4> QED
        BY <1>2, <4>2, ApartMore
    <3>4. CASE l.ip # 0
      <4>1. wished' = wished \cup {l.obj}
        BY <2>5, <3>4 DEF Change
      <4>2. DOMAIN r = DOMAIN q
        BY <3>1
      <4>3. \A i \in DOMAIN q : /\ r[i].name = q[i].name /\ r[i].obj = q[i].obj
                                /\ r[i].ip = q[i].ip \/ q[i].obj = l.obj
        BY <3>1, <3>2
      <4> HIDE DEF q, r, l
      <4> QED
        BY <2>1, <4>1, <4>2, <4>3, ApartUpdate
    <3> QED
      BY <3>3, <3>4
  <2> QED
    BY <1>1, <2>2, <2>3, <2>4, <2>5
<1>6. ListsOK'
  <2> SUFFICES ASSUME NEW m \in Net \ raced
               PROVE  /\ Apart(data'.members[m], wished') /\ Apart(disk.members[m], wished')
                      /\ Apart(buf.members[m], wished')
    BY <1>2 DEF ListsOK
  <2>1. /\ Apart(data.members[m], wished) /\ Apart(disk.members[m], wished)
        /\ Apart(buf.members[m], wished)
    BY DEF ListsOK
  <2>2. data'.members[m] = IF m = n THEN r ELSE data.members[m]
    BY <1>2, <1>3
  <2>3. /\ Apart(data.members[m], wished') /\ Apart(disk.members[m], wished')
        /\ Apart(buf.members[m], wished')
    BY <1>2, <2>1, ApartMore
  <2> QED
    BY <1>5, <2>2, <2>3
<1>7. EditOK'
  <2> SUFFICES ASSUME NEW m \in Net \ raced, NEW g \in Editors(m)'
               PROVE  Editors(m)' = {g} /\ Knows(g, m)'
    BY <1>2 DEF EditOK
  <2>1. g \in Handler /\ g # h /\ g \in Editors(m) /\ pc'[g] = pc[g] /\ loc'[g] = loc[g]
    BY <1>2 DEF Editors
  <2>2. Editors(m) = {g} /\ Knows(g, m)
    BY <2>1 DEF EditOK
  <2>3. Editors(m)' = {g}
    BY <1>2, <2>2 DEF Editors
  <2>4. data'.members[m] = data.members[m]
    <3>1. CASE m # n
      BY <1>2, <1>3, <3>1
    <3>2. CASE m = n
      <4>1. l.op = "save"
        BY <1>4, <2>1, <2>2, <3>2
      <4> QED
        BY <1>2, <1>3, <3>2, <4>1 DEF ChangedMembers
    <3> QED
      BY <3>1, <3>2
  <2> QED
    BY <2>1, <2>2, <2>3, <2>4 DEF Knows
<1> QED
  BY <1>6, <1>7
(* The save, the refreshes and the answer: the handler edits no longer,    *)
(* and the file is given the lists in memory or keeps its own.             *)
LEMMA EditAfter ==
  ASSUME Typed, ListsOK, EditOK, NEW h \in Handler,
         Save(h) \/ Rename(h) \/ Notify(h) \/ Push(h) \/ Answer(h)
  PROVE  ListsOK' /\ EditOK'
<1>0. StoreOK /\ HandlersOK
  BY DEF Typed
<1>1. /\ pc'[h] \in {"rename", "notify", "push", "idle"} /\ raced' = raced /\ wished' = wished
      /\ \A g \in Handler : g # h => pc'[g] = pc[g] /\ loc'[g] = loc[g]
  BY <1>0 DEF Save, Rename, Notify, Push, Answer, HandlersOK, histVars
<1>2. /\ data'.members = data.members
      /\ \A m \in Net : disk'.members[m] \in {disk.members[m], buf.members[m]}
      /\ \A m \in Net : buf'.members[m] \in {buf.members[m], data.members[m], <<>>}
  <2>1. CASE Save(h)
    <3>1. data' = [data EXCEPT !.networks = Saved(loc[h])] /\ disk' = disk /\ buf' = Marshal(data')
      BY <2>1 DEF Save, ToFile
    <3>2. data'.members = data.members
      BY <1>0, <3>1 DEF StoreOK, StoreData
    <3>3. DOMAIN data' = {"networks", "conf", "members"}
      BY <1>0, <3>1 DEF StoreOK, StoreData
    <3>4. buf'.members = [m \in Net |-> IF m \in data'.networks THEN data'.members[m] ELSE <<>>]
      BY <3>1, <3>3 DEF Marshal
    <3>5. \A m \in Net : buf'.members[m] \in {data.members[m], <<>>}
      BY <3>2, <3>4
    <3> QED
      BY <3>1, <3>2, <3>5
  <2>2. CASE Rename(h)
    <3>1. data' = data /\ disk' \in {disk, buf} /\ buf' = EmptyStore
      BY <2>2 DEF Rename, memVars
    <3>2. \A m \in Net : EmptyStore.members[m] = <<>>
      BY DEF EmptyStore
    <3> QED
      BY <3>1, <3>2
  <2>3. CASE Notify(h) \/ Push(h) \/ Answer(h)
    BY <2>3 DEF Notify, Push, Answer, memVars, fileVars
  <2> QED
    BY <2>1, <2>2, <2>3
<1>3. Apart(<<>>, wished)
  BY DEF Apart
<1>4. ListsOK'
  BY <1>1, <1>2, <1>3 DEF ListsOK
<1>5. EditOK'
  <2>1. \A n : h \notin Editors(n)'
    BY <1>1 DEF Editors
  <2> QED
    BY <1>1, <1>2, <2>1, EditQuiet
<1> QED
  BY <1>4, <1>5

(* A step that leaves the store and the handlers alone.                    *)
LEMMA EditElsewhere ==
  ASSUME ListsOK, EditOK, UNCHANGED <<data, disk, buf, pc, loc, raced, wished>>
  PROVE  ListsOK' /\ EditOK'
<1>1. ListsOK'
  BY DEF ListsOK
<1>2. EditOK'
  BY DEF EditOK, Editors, Knows
<1> QED
  BY <1>1, <1>2

(* The types hold, and with them the lists, along every behaviour.         *)
LEMMA EditInvariance == Spec => [](Typed /\ ListsOK /\ EditOK)
<1>0. Apart(<<>>, {}) /\ \A W : Apart(<<>>, W)
  BY DEF Apart
<1>1. Init => Typed /\ ListsOK /\ EditOK
  <2> SUFFICES ASSUME Init
               PROVE  ListsOK /\ EditOK
    BY TypedInit
  <2>1. \A n \in Net : EmptyStore.members[n] = <<>>
    BY DEF EmptyStore
  <2>2. \A n \in Net \ raced : Apart(data.members[n], wished)
    BY DEF Init, Distinct, Apart
  <2>3. ListsOK
    BY <1>0, <2>1, <2>2 DEF Init, ListsOK
  <2>4. EditOK
    BY DEF Init, EditOK, Editors
  <2> QED
    BY <2>3, <2>4
<1>2. ASSUME Typed, ListsOK, EditOK, [Next]_vars
      PROVE  Typed' /\ ListsOK' /\ EditOK'
  <2>0. Typed'
    BY <1>2, TypedNext
  <2>1. CASE UNCHANGED vars
    BY <1>2, <2>0, <2>1, EditElsewhere DEF vars, memVars, fileVars, reqVars, histVars
  <2>2. ASSUME NEW h \in Handler, HandlerStep(h)
        PROVE  ListsOK' /\ EditOK'
    <3>1. CASE \/ \E n \in Net : GetNetwork(h, n) \/ \E c \in Conf : NewNetwork(h, n, c)
               \/ Scan(h) \/ Allocate(h) \/ ReadMembers(h)
      <4>1. EditOK' /\ raced \subseteq raced' /\ UNCHANGED <<data, disk, buf, wished>>
        BY <1>2, <3>1, EditBefore
      <4>2. ListsOK'
        BY <1>2, <4>1 DEF ListsOK
      <4> QED
        BY <4>1, <4>2
    <3> QED
      BY <1>2, <2>2, <3>1, EditChange, EditAfter DEF HandlerStep
  <2>3. ASSUME NEW w \in Worker, BuildInfo(w) \/ Reply(w) \/ \E x \in Node : FindNetwork(w, x)
        PROVE  ListsOK' /\ EditOK'
    <3>1. UNCHANGED <<data, disk, buf, pc, loc, raced, wished>>
      BY <2>3 DEF BuildInfo, Reply, FindNetwork, memVars, fileVars, reqVars, histVars
    <3> QED
      BY <1>2, <3>1, EditElsewhere
  <2>4. CASE Restart
    <3>1. \A n \in Net : EmptyStore.members[n] = <<>>
      BY DEF EmptyStore
    <3>2. ListsOK'
      BY <1>0, <1>2, <2>4, <3>1 DEF Restart, ListsOK, histVars
    <3>3. EditOK'
      BY <2>4 DEF Restart, EditOK, Editors
    <3> QED
      BY <2>0, <3>2, <3>3
  <2> QED
    BY <1>2, <2>0, <2>1, <2>2, <2>3, <2>4 DEF Next
<1> QED
  BY <1>1, <1>2, PTL DEF Spec

(* As long as no two requests edited the members of a network at a time, a *)
(* node is its member once at most and the addresses nobody asked for are  *)
(* no other member's, through settings saved, deletions, failed saves and  *)
(* restarts (webmgmt.go:213-272, store.go:280-319).                        *)
THEOREM MembersAreDistinct == Spec => []MembersDistinct
<1>1. ListsOK => MembersDistinct
  BY DEF ListsOK, MembersDistinct, Distinct, Apart
<1> QED
  BY <1>1, EditInvariance, PTL
=============================================================================
