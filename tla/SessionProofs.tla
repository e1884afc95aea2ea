--------------------------- MODULE SessionProofs ---------------------------
(***************************************************************************)
(* Proofs about module Session, for every set of sessions, nodes, workers, *)
(* notifiers and web goroutines and every capacity.                        *)
(***************************************************************************)
EXTENDS Session, FiniteSetTheorems, TLAPS

(* The definitions every step needs.                                       *)
USE SessionAssumption DEF Writer, Up

(* A goroutine that works has something to work on: a worker has a message *)
(* until it is idle again, and a committed sender has a session to send    *)
(* to.                                                                     *)
WorkOK ==
  /\ \A w \in Worker : stage[w] # "idle" => ctx[w] \in Sess
  /\ \A w \in reporting : ctx[w] \in Sess
  /\ \A g \in Writer : stage[g] = "send" => todo[g] # <<>>

(* The loops of a session start with the end of its login, and the flags   *)
(* follow the readLoop: running is cleared before the channel is closed.   *)
PhaseOK ==
  \A s \in Sess :
    /\ login[s] = "done" <=> rl[s] # "off"
    /\ running[s] <=> rl[s] \notin {"close", "unmap", "done"}
    /\ chClosed[s] <=> rl[s] \in {"unmap", "done"}

(* The map holds, for each node, one of its own sessions that is           *)
(* registered and not torn down.                                           *)
MapOK ==
  \A n \in NodeID : allSessions[n] # NoSess =>
    /\ nodeID[allSessions[n]] = n
    /\ login[allSessions[n]] \in {"persist", "spawn", "done"}
    /\ rl[allSessions[n]] # "done"

(* A device is persisted before its loops start.                           *)
DeviceOK == \A s \in Sess : login[s] \in {"spawn", "done"} => nodeID[s] \in devices

(* A notifier that holds the lock is in the loop of dealOne.               *)
LockOK == \A k \in lockW : stage[k] \in {"test", "send"}

----------------------------------------------------------------------------
(* Changing a function at one argument keeps its type.                     *)
LEMMA ExceptType ==
  ASSUME NEW S, NEW T, NEW f \in [S -> T], NEW s \in S, NEW v \in T
  PROVE  [f EXCEPT ![s] = v] \in [S -> T]
  OBVIOUS

(* What dealOne writes to: any order of the map's sessions is a sequence   *)
(* of sessions in the map.                                                 *)
LEMMA OrdersType ==
  ASSUME TypeOK, NEW q \in Orders(Mapped)
  PROVE  q \in Seq(Sess) /\ \A i \in DOMAIN q : q[i] \in Mapped
<1>1. IsFiniteSet({allSessions[n] : n \in NodeID})
  <2> DEFINE T == {allSessions[n] : n \in NodeID}
             f == [n \in NodeID |-> allSessions[n]]
  <2>1. f \in Surjection(NodeID, T)
    BY DEF Surjection
  <2> HIDE DEF T, f
  <2>2. IsFiniteSet(T)
    BY <2>1, FS_Surjection
  <2> QED BY <2>2 DEF T
<1>2. IsFiniteSet(Mapped)
  BY <1>1, FS_Subset DEF Mapped
<1>3. Cardinality(Mapped) \in Nat
  BY <1>2, FS_CardinalityType
<1>4. Mapped \subseteq Sess
  BY DEF Mapped, TypeOK
<1> QED BY <1>3, <1>4 DEF Orders

(* The stage a goroutine can be in.                                        *)
Stages == Handling \cup {"idle", "deal", "notify", "test", "send"}

(* The gateway starts in a well-formed state (wssession.go:101-115,        *)
(* openp2p.go:36-51).                                                      *)
LEMMA TypeInit == Init => TypeOK /\ WorkOK
<1> SUFFICES ASSUME Init PROVE TypeOK /\ WorkOK
  OBVIOUS
<1>1. <<>> \in Seq(Sess) /\ Len(<<>>) = 0
  OBVIOUS
<1>2. /\ writeCh \in [Sess -> 0..WriteCap]
      /\ MsgQueue \in Seq(Sess) /\ Len(MsgQueue) <= QueueCap
      /\ onlineNodes \in 0..ChanSize
      /\ todo \in [Writer -> Seq(Sess)]
  BY <1>1, SlackAssumption DEF Init
<1>3. stage \in [Writer -> Stages]
  BY DEF Init, Stages
<1>4. TypeOK
  BY <1>2, <1>3, Zenon DEF Init, TypeOK, Stages
<1>5. WorkOK
  BY DEF Init, WorkOK
<1> QED BY <1>4, <1>5

(* Going on to write keeps the goroutines' state well formed.              *)
LEMMA GoWriteType ==
  ASSUME TypeOK, WorkOK, NEW g \in Writer, NEW q \in Seq(Sess), GoWrite(g, q)
  PROVE  /\ stage' \in [Writer -> Stages]
         /\ todo' \in [Writer -> Seq(Sess)]
         /\ \A h \in Writer : stage'[h] = "send" => todo'[h] # <<>>
         /\ \A h \in Writer : h # g => stage'[h] = stage[h]
  BY DEF TypeOK, WorkOK, GoWrite, Stages

(* A worker that takes the oldest message of the queue has a session to    *)
(* answer, and the queue is one shorter (msghandler.go).                   *)
LEMMA DispatchType ==
  ASSUME TypeOK, WorkOK, NEW w \in Worker, Dispatch(w)
  PROVE  TypeOK' /\ WorkOK'
<1>1. /\ MsgQueue # <<>> /\ MsgQueue' = Tail(MsgQueue)
      /\ ctx' = [ctx EXCEPT ![w] = Head(MsgQueue)]
      /\ stage[w] = "idle"
      /\ \E h \in Handling : stage' = [stage EXCEPT ![w] = h]
      /\ UNCHANGED <<sessVars, writeCh, mapVars, todo, reporting, onlineNodes,
                     devices, panicked>>
  BY Zenon DEF Dispatch
<1>2. Head(MsgQueue) \in Sess /\ MsgQueue' \in Seq(Sess) /\ Len(MsgQueue') <= QueueCap
  <2>1. MsgQueue \in Seq(Sess) /\ Len(MsgQueue) <= QueueCap
    BY DEF TypeOK
  <2>2. Len(MsgQueue') = Len(MsgQueue) - 1 /\ Len(MsgQueue) \in Nat /\ QueueCap \in Nat
    BY <1>1, <2>1
  <2> QED BY <1>1, <2>1, <2>2
<1>3. PICK h \in Handling : stage' = [stage EXCEPT ![w] = h]
  BY <1>1
<1>4. stage' \in [Writer -> Stages]
  BY <1>3, ExceptType DEF TypeOK, Stages
<1>5. ctx' \in [Worker -> Sess \cup {NoSess}]
  BY <1>1, <1>2, ExceptType DEF TypeOK
<1>6. TypeOK'
  BY <1>1, <1>2, <1>4, <1>5, Zenon DEF TypeOK, Stages, sessVars, mapVars
<1>7. WorkOK'
  <2>1. \A v \in Worker : stage'[v] # "idle" => ctx'[v] \in Sess
    BY <1>1, <1>2, <1>3 DEF TypeOK, WorkOK
  <2>2. \A v \in reporting' : ctx'[v] \in Sess
    BY <1>1, <1>2 DEF TypeOK, WorkOK
  <2>3. \A g \in Writer : stage'[g] = "send" => todo'[g] # <<>>
    BY <1>1, <1>3 DEF TypeOK, WorkOK, Handling
  <2> QED BY <2>1, <2>2, <2>3 DEF WorkOK
<1> QED BY <1>6, <1>7

(* Every step keeps the types; what a step writes to is a session because  *)
(* of WorkOK.                                                              *)
LEMMA TypeStep == TypeOK /\ WorkOK /\ [Next]_vars => TypeOK' /\ WorkOK'
<1> SUFFICES ASSUME TypeOK, WorkOK, [Next]_vars
             PROVE  TypeOK' /\ WorkOK'
  OBVIOUS
<1> USE SlackAssumption DEF TypeOK, WorkOK, sessVars, mapVars, workVars, Handling
<1>1. ASSUME NEW s \in Sess, HandleLogin(s) PROVE TypeOK' /\ WorkOK'
  BY <1>1 DEF HandleLogin
<1>2. ASSUME NEW s \in Sess, RegisterSession(s) PROVE TypeOK' /\ WorkOK'
  BY <1>2 DEF RegisterSession
<1>3. ASSUME NEW s \in Sess, PersistDevice(s) PROVE TypeOK' /\ WorkOK'
  BY <1>3 DEF PersistDevice
<1>4. ASSUME NEW s \in Sess, SpawnLoops(s) PROVE TypeOK' /\ WorkOK'
  BY <1>4 DEF SpawnLoops, GoWrite
<1>5. ASSUME NEW s \in Sess, ReadMessage(s) PROVE TypeOK' /\ WorkOK'
  BY <1>5 DEF ReadMessage
<1>6. ASSUME NEW s \in Sess, Enqueue(s) PROVE TypeOK' /\ WorkOK'
  BY <1>6 DEF Enqueue
<1>7. ASSUME NEW s \in Sess, ReadError(s) PROVE TypeOK' /\ WorkOK'
  BY <1>7 DEF ReadError
<1>8. ASSUME NEW s \in Sess, CloseWriteCh(s) PROVE TypeOK' /\ WorkOK'
  BY <1>8 DEF CloseWriteCh
<1>9. ASSUME NEW s \in Sess, Unmap(s) PROVE TypeOK' /\ WorkOK'
  BY <1>9 DEF Unmap, Without
<1>10. ASSUME NEW s \in Sess, WriteLoopTest(s) PROVE TypeOK' /\ WorkOK'
  BY <1>10 DEF WriteLoopTest
<1>11. ASSUME NEW s \in Sess, WriteLoopRecv(s) PROVE TypeOK' /\ WorkOK'
  <2>1. \/ writeCh[s] > 0 /\ writeCh' = [writeCh EXCEPT ![s] = writeCh[s] - 1]
        \/ writeCh' = writeCh
    BY <1>11, Zenon DEF WriteLoopRecv
  <2>3. writeCh' \in [Sess -> 0..WriteCap]
    <3>1. writeCh \in [Sess -> 0..WriteCap] /\ writeCh[s] \in 0..WriteCap
      OBVIOUS
    <3>2. writeCh[s] > 0 => writeCh[s] - 1 \in 0..WriteCap
      BY <3>1
    <3>3. CASE writeCh' = writeCh
      BY <3>1, <3>3
    <3>4. CASE writeCh[s] > 0 /\ writeCh' = [writeCh EXCEPT ![s] = writeCh[s] - 1]
      BY <3>1, <3>2, <3>4, ExceptType
    <3> QED BY <2>1, <3>3, <3>4
  <2>2. wl' \in [Sess -> {"off", "test", "recv", "write", "exit"}]
    <3>1. wl' = [wl EXCEPT ![s] = "write"] \/ wl' = [wl EXCEPT ![s] = "test"]
      BY <1>11, Zenon DEF WriteLoopRecv
    <3>2. wl \in [Sess -> {"off", "test", "recv", "write", "exit"}]
      OBVIOUS
    <3>3. /\ [wl EXCEPT ![s] = "write"] \in [Sess -> {"off", "test", "recv", "write", "exit"}]
          /\ [wl EXCEPT ![s] = "test"] \in [Sess -> {"off", "test", "recv", "write", "exit"}]
      BY <3>2, ExceptType
    <3> QED BY <3>1, <3>3
  <2> QED BY <1>11, <2>3, <2>2 DEF WriteLoopRecv
<1>12. ASSUME NEW s \in Sess, WriteLoopWrite(s) PROVE TypeOK' /\ WorkOK'
  BY <1>12 DEF WriteLoopWrite
<1>13. ASSUME NEW w \in Worker, Dispatch(w) PROVE TypeOK' /\ WorkOK'
  BY <1>13, DispatchType
<1>14. ASSUME NEW w \in Worker, HandleReply(w) PROVE TypeOK' /\ WorkOK'
  <2>1. ctx[w] \in Sess
    BY <1>14 DEF HandleReply
  <2>2. {<<>>, <<ctx[w]>>} \subseteq Seq(Sess)
    BY <2>1
  <2>3. PICK q \in {<<>>, <<ctx[w]>>} : GoWrite(w, q)
    BY <1>14, Zenon DEF HandleReply
  <2> QED BY <1>14, <2>1, <2>2, <2>3, GoWriteType DEF HandleReply, Stages
<1>15. ASSUME NEW w \in Worker, HandlePush(w) PROVE TypeOK' /\ WorkOK'
  <2>1. ctx[w] \in Sess
    BY <1>15 DEF HandlePush
  <2>2. <<ctx[w]>> \in Seq(Sess)
    BY <2>1
  <2>3. ASSUME NEW n \in NodeID, allSessions[n] # NoSess
        PROVE  <<allSessions[n], ctx[w]>> \in Seq(Sess)
    BY <2>1, <2>3
  <2>5. PICK n \in NodeID :
             \/ GoWrite(w, <<ctx[w]>>)
             \/ /\ allSessions[n] # NoSess
                /\ \E q \in {<<>>, <<allSessions[n], ctx[w]>>} : GoWrite(w, q)
    BY <1>15, Zenon DEF HandlePush
  <2>6. <<>> \in Seq(Sess)
    OBVIOUS
  <2>7. \/ GoWrite(w, <<ctx[w]>>)
        \/ allSessions[n] # NoSess /\ GoWrite(w, <<>>)
        \/ allSessions[n] # NoSess /\ GoWrite(w, <<allSessions[n], ctx[w]>>)
    BY <2>5, Zenon
  <2>4. PICK q \in Seq(Sess) : GoWrite(w, q)
    BY <2>2, <2>3, <2>6, <2>7, Zenon
  <2> QED BY <1>15, <2>1, <2>4, GoWriteType DEF HandlePush, Stages
<1>16. ASSUME NEW w \in Worker, HandleQuery(w) PROVE TypeOK' /\ WorkOK'
  <2>1. ctx[w] \in Sess
    BY <1>16 DEF HandleQuery
  <2>2. <<ctx[w]>> \in Seq(Sess) /\ <<>> \in Seq(Sess)
    BY <2>1
  <2>3. PICK q \in Seq(Sess) : GoWrite(w, q)
    BY <1>16, <2>2 DEF HandleQuery
  <2> QED BY <1>16, <2>1, <2>3, GoWriteType DEF HandleQuery, Stages
<1>17. ASSUME NEW w \in Worker, HandleRelay(w) PROVE TypeOK' /\ WorkOK'
  BY <1>17 DEF HandleRelay, GoWrite
<1>18. ASSUME NEW w \in Worker, HandleReport(w) PROVE TypeOK' /\ WorkOK'
  <2>1. ctx[w] \in Sess /\ <<ctx[w]>> \in Seq(Sess)
    BY <1>18 DEF HandleReport
  <2>2. CASE Notifiable
    <3>1. stage' = [stage EXCEPT ![w] = "notify"] /\ todo' = todo
      BY <1>18, <2>2, Zenon DEF HandleReport
    <3> QED BY <1>18, <2>1, <3>1 DEF HandleReport
  <2>3. CASE ~Notifiable
    BY <1>18, <2>1, <2>3, GoWriteType DEF HandleReport, Stages
  <2> QED BY <2>2, <2>3
<1>19. ASSUME NEW w \in Worker, NotifySend(w) PROVE TypeOK' /\ WorkOK'
  BY <1>19 DEF NotifySend, GoWrite
<1>20. ASSUME NEW k \in Notifier, TakeOnline(k) PROVE TypeOK' /\ WorkOK'
  BY <1>20 DEF TakeOnline
<1>21. ASSUME NEW k \in Notifier, DealOne(k) PROVE TypeOK' /\ WorkOK'
  <2>1. PICK q \in Orders(Mapped) : GoWrite(k, q)
    BY <1>21 DEF DealOne
  <2>2. q \in Seq(Sess)
    BY OrdersType
  <2> QED BY <1>21, <2>1, <2>2, GoWriteType DEF DealOne, Stages
<1>22. ASSUME NEW g \in Web, WebPush(g) PROVE TypeOK' /\ WorkOK'
  BY <1>22 DEF WebPush, Mapped, GoWrite
<1>23. ASSUME NEW g \in Writer, WriteTest(g) PROVE TypeOK' /\ WorkOK'
  <2>1. todo[g] \in Seq(Sess) /\ todo[g] # <<>> /\ Tail(todo[g]) \in Seq(Sess)
    BY <1>23 DEF WriteTest
  <2>2. CASE running[Head(todo[g])]
    <3>1. stage' = [stage EXCEPT ![g] = "send"] /\ todo' = todo
      BY <1>23, <2>2, Zenon DEF WriteTest
    <3> QED BY <1>23, <2>1, <3>1 DEF WriteTest
  <2>3. CASE ~running[Head(todo[g])]
    BY <1>23, <2>1, <2>3, GoWriteType DEF WriteTest, Stages
  <2> QED BY <2>2, <2>3
<1>24. ASSUME NEW g \in Writer, WriteSend(g) PROVE TypeOK' /\ WorkOK'
  <2>1. todo[g] \in Seq(Sess) /\ Tail(todo[g]) \in Seq(Sess) /\ Head(todo[g]) \in Sess
    BY <1>24 DEF WriteSend
  <2>2. writeCh' \in [Sess -> 0..WriteCap]
    BY <1>24, <2>1 DEF WriteSend
  <2> QED BY <1>24, <2>1, <2>2, GoWriteType DEF WriteSend, Stages
<1>25. ASSUME NEW g \in Writer, SendPanics(g) PROVE TypeOK' /\ WorkOK'
  BY <1>25 DEF SendPanics
<1>26. ASSUME NEW g \in Writer, SendRecovered(g) PROVE TypeOK' /\ WorkOK'
  BY <1>26 DEF SendRecovered
<1>27. ASSUME NEW g \in Writer, Finish(g) PROVE TypeOK' /\ WorkOK'
  BY <1>27 DEF Finish
<1>28. CASE UNCHANGED vars
  BY <1>28 DEF vars
<1>29. ASSUME NEW w \in Worker, HandleAnswer(w) PROVE TypeOK' /\ WorkOK'
  <2>1. <<>> \in Seq(Sess)
    OBVIOUS
  <2> QED BY <1>29, <2>1, GoWriteType DEF HandleAnswer, Stages
<1> QED
  BY <1>1, <1>2, <1>3, <1>4, <1>5, <1>6, <1>7, <1>8, <1>9, <1>10, <1>11,
     <1>12, <1>13, <1>14, <1>15, <1>16, <1>17, <1>18, <1>19, <1>20, <1>21,
     <1>22, <1>23, <1>24, <1>25, <1>26, <1>27, <1>28, <1>29
  DEF Next, SessionStep, WorkerStep, NotifierStep, WriterStep

(* The type of the whole state, and that working goroutines are well       *)
(* formed (wssession.go, msghandler.go, notify.go).                        *)
THEOREM TypeCorrect == Spec => [](TypeOK /\ WorkOK)
<1>1. Init => TypeOK /\ WorkOK
  BY TypeInit
<1>2. TypeOK /\ WorkOK /\ [Next]_vars => TypeOK' /\ WorkOK'
  BY TypeStep
<1> QED BY <1>1, <1>2, PTL DEF Spec

----------------------------------------------------------------------------
(* Goroutines other than a session's own leave the sessions and the map    *)
(* alone, and the store forgets no device.                                 *)
Frame == UNCHANGED <<sessVars, allSessions>> /\ devices \subseteq devices'

(* Only a session's own steps change its login, its loops or the map       *)
(* (wssession.go:141-143, 192-199): every other step is a Frame.           *)
LEMMA OthersFrame ==
  ASSUME \/ \E w \in Worker : WorkerStep(w)
         \/ \E k \in Notifier : NotifierStep(k)
         \/ \E g \in Web : WebPush(g)
         \/ \E g \in Writer : WriterStep(g)
  PROVE  Frame
<1> USE DEF Frame, mapVars
<1>1. ASSUME NEW w \in Worker, WorkerStep(w) PROVE Frame
  BY <1>1 DEF WorkerStep, Dispatch, HandleReply, HandlePush, HandleQuery, HandleRelay,
              HandleReport, NotifySend, HandleAnswer
<1>2. ASSUME NEW k \in Notifier, NotifierStep(k) PROVE Frame
  BY <1>2 DEF NotifierStep, TakeOnline, DealOne
<1>3. ASSUME NEW g \in Web, WebPush(g) PROVE Frame
  BY <1>3 DEF WebPush
<1>4. ASSUME NEW g \in Writer, WriterStep(g) PROVE Frame
  BY <1>4 DEF WriterStep, WriteTest, WriteSend, SendPanics, SendRecovered, Finish
<1> QED BY <1>1, <1>2, <1>3, <1>4

(* The inductive invariant behind the registry properties.                 *)
CoreInv == PhaseOK /\ MapOK /\ DeviceOK

(* Nothing is registered when the gateway starts.                          *)
LEMMA CoreInit == Init => CoreInv
  BY DEF Init, CoreInv, PhaseOK, MapOK, DeviceOK

(* Every step keeps the phases of the sessions, the map and the device     *)
(* records in agreement.                                                   *)
LEMMA CoreStep == TypeOK /\ CoreInv /\ [Next]_vars => CoreInv'
<1> SUFFICES ASSUME TypeOK, CoreInv, [Next]_vars
             PROVE  CoreInv'
  OBVIOUS
<1> USE DEF CoreInv, PhaseOK, MapOK, DeviceOK
<1>1. ASSUME NEW s \in Sess, SessionStep(s) PROVE CoreInv'
  <2> USE DEF TypeOK, mapVars
  <2>1. CASE HandleLogin(s)
    BY <2>1 DEF HandleLogin
  <2>2. CASE RegisterSession(s)
    <3>1. PhaseOK'
      BY <2>2 DEF RegisterSession
    <3>2. MapOK'
      <4> SUFFICES ASSUME NEW n \in NodeID, allSessions'[n] # NoSess
                   PROVE  /\ nodeID[allSessions'[n]] = n
                          /\ login'[allSessions'[n]] \in {"persist", "spawn", "done"}
                          /\ rl'[allSessions'[n]] # "done"
        OBVIOUS
      <4>1. CASE n = nodeID[s]
        <5>1. allSessions'[n] = s /\ login'[s] = "persist" /\ rl' = rl
          BY <2>2, <4>1 DEF RegisterSession
        <5>2. rl[s] = "off"
          BY <2>2 DEF RegisterSession
        <5> QED BY <4>1, <5>1, <5>2
      <4>2. CASE n # nodeID[s]
        BY <2>2, <4>2 DEF RegisterSession
      <4> QED BY <4>1, <4>2
    <3>3. DeviceOK'
      BY <2>2 DEF RegisterSession
    <3> QED BY <3>1, <3>2, <3>3
  <2>3. CASE PersistDevice(s)
    BY <2>3 DEF PersistDevice
  <2>4. CASE SpawnLoops(s)
    BY <2>4 DEF SpawnLoops
  <2>5. CASE ReadMessage(s)
    BY <2>5 DEF ReadMessage
  <2>6. CASE Enqueue(s)
    BY <2>6 DEF Enqueue
  <2>7. CASE ReadError(s)
    BY <2>7 DEF ReadError
  <2>8. CASE CloseWriteCh(s)
    BY <2>8 DEF CloseWriteCh
  <2>9. CASE Unmap(s)
    BY <2>9 DEF Unmap, Without
  <2>10. CASE WriteLoopTest(s)
    BY <2>10 DEF WriteLoopTest
  <2>11. CASE WriteLoopRecv(s)
    BY <2>11 DEF WriteLoopRecv
  <2>12. CASE WriteLoopWrite(s)
    BY <2>12 DEF WriteLoopWrite
  <2> QED BY <2>1, <2>2, <2>3, <2>4, <2>5, <2>6, <2>7, <2>8, <2>9, <2>10, <2>11, <2>12, <1>1 DEF SessionStep
<1>2. ASSUME Frame PROVE CoreInv'
  BY <1>2 DEF TypeOK, Frame, sessVars
<1>3. CASE UNCHANGED vars
  BY <1>3 DEF vars, sessVars, mapVars
<1> QED BY <1>1, <1>2, <1>3, OthersFrame DEF Next

(* The core invariant holds in every reachable state.                      *)
LEMMA CoreCorrect == Spec => [](TypeOK /\ WorkOK /\ CoreInv)
<1>1. Init => CoreInv
  BY CoreInit
<1>2. TypeOK /\ CoreInv /\ [Next]_vars => CoreInv'
  BY CoreStep
<1> QED BY <1>1, <1>2, TypeCorrect, PTL DEF Spec

(* A lookup in allSessions returns a session of that node whose teardown   *)
(* is not over (the conditional delete of wssession.go:192-197).           *)
THEOREM LookupsAreLive == Spec => []LookupsLive
<1>1. CoreInv => LookupsLive
  BY DEF CoreInv, MapOK, LookupsLive
<1> QED BY <1>1, CoreCorrect, PTL

(* A device that has gone offline is in the store (wssession.go:144-158).  *)
THEOREM OfflineAreListed == Spec => []OfflineListed
<1>1. CoreInv => OfflineListed
  BY DEF CoreInv, PhaseOK, DeviceOK, OfflineListed
<1> QED BY <1>1, CoreCorrect, PTL

(* allSessions is a registry: the goroutines of wssession.go implement     *)
(* SessionRegistry.                                                        *)
THEOREM RegistryRefined == Spec => RefinesRegistry
<1> USE DEF lifeOf
<1>1. Init => Registry!RegistryInit
  BY DEF Init, Registry!RegistryInit
<1>2. TypeOK /\ CoreInv /\ [Next]_vars => [Registry!RegistryNext]_(Registry!rvars)
  <2> SUFFICES ASSUME TypeOK, CoreInv, [Next]_vars
               PROVE  [Registry!RegistryNext]_(Registry!rvars)
    OBVIOUS
  <2> DEFINE Quiet == UNCHANGED <<allSessions, lifeOf>>
  <2>1. ASSUME NEW s \in Sess, SessionStep(s)
        PROVE  Quiet \/ Registry!Login(s) \/ Registry!Logout(s)
    <3> USE DEF TypeOK, CoreInv, PhaseOK, mapVars
    <3>1. CASE RegisterSession(s)
      BY <3>1 DEF RegisterSession, Registry!Login
    <3>2. CASE Unmap(s)
      BY <3>2 DEF Unmap, Without, Registry!Logout, Registry!Without
    <3>3. CASE HandleLogin(s)
      BY <3>3 DEF HandleLogin
    <3>4. CASE PersistDevice(s) \/ SpawnLoops(s)
      BY <3>4 DEF PersistDevice, SpawnLoops
    <3>5. CASE ReadMessage(s) \/ Enqueue(s) \/ ReadError(s) \/ CloseWriteCh(s)
      BY <3>5 DEF ReadMessage, Enqueue, ReadError, CloseWriteCh
    <3>6. CASE WriteLoopTest(s) \/ WriteLoopRecv(s) \/ WriteLoopWrite(s)
      BY <3>6 DEF WriteLoopTest, WriteLoopRecv, WriteLoopWrite
    <3> QED BY <2>1, <3>1, <3>2, <3>3, <3>4, <3>5, <3>6 DEF SessionStep
  <2>2. ASSUME Frame PROVE Quiet
    BY <2>2 DEF Frame, sessVars
  <2>3. CASE UNCHANGED vars
    BY <2>3 DEF vars, sessVars, mapVars, Registry!rvars
  <2> QED BY <2>1, <2>2, <2>3, OthersFrame DEF Next, Registry!RegistryNext, Registry!rvars
<1> QED BY <1>1, <1>2, CoreCorrect, PTL DEF Spec, RefinesRegistry, Registry!RegistrySpec

----------------------------------------------------------------------------
(* What a step can do to goroutine h: nothing; take it to a place other    *)
(* than a send; or, past the test of running, to a send.                   *)
StageMoves(h) ==
  \/ stage'[h] = stage[h] /\ todo'[h] = todo[h]
  \/ stage'[h] # "send"
  \/ running[Head(todo[h])] /\ todo'[h] = todo[h]

(* A goroutine commits to a send only after it has seen running set        *)
(* (wssession.go:214-220), whatever step is taken.                         *)
LEMMA StageStep ==
  ASSUME TypeOK, [Next]_vars, NEW h \in Writer
  PROVE  StageMoves(h)
<1> USE DEF TypeOK, StageMoves, workVars, GoWrite, Handling
<1>1. ASSUME NEW s \in Sess, SessionStep(s) PROVE StageMoves(h)
  BY <1>1 DEF SessionStep, HandleLogin, RegisterSession, PersistDevice, SpawnLoops, ReadMessage,
              Enqueue, ReadError, CloseWriteCh, Unmap, WriteLoopTest, WriteLoopRecv, WriteLoopWrite
<1>2. ASSUME NEW w \in Worker, WorkerStep(w) PROVE StageMoves(h)
  <2>1. CASE Dispatch(w)
    BY <2>1 DEF Dispatch
  <2>2. CASE HandleReply(w)
    BY <2>2 DEF HandleReply
  <2>3. CASE HandlePush(w)
    BY <2>3 DEF HandlePush
  <2>4. CASE HandleQuery(w)
    BY <2>4 DEF HandleQuery
  <2>5. CASE HandleRelay(w)
    BY <2>5 DEF HandleRelay
  <2>6. CASE HandleReport(w)
    BY <2>6 DEF HandleReport
  <2>7. CASE NotifySend(w)
    BY <2>7 DEF NotifySend
  <2>8. CASE HandleAnswer(w)
    BY <2>8 DEF HandleAnswer
  <2> QED BY <1>2, <2>1, <2>2, <2>3, <2>4, <2>5, <2>6, <2>7, <2>8 DEF WorkerStep
<1>3. ASSUME NEW k \in Notifier, NotifierStep(k) PROVE StageMoves(h)
  BY <1>3 DEF NotifierStep, TakeOnline, DealOne
<1>4. ASSUME NEW g \in Web, WebPush(g) PROVE StageMoves(h)
  BY <1>4 DEF WebPush
<1>5. ASSUME NEW g \in Writer, WriterStep(g) PROVE StageMoves(h)
  <2>1. CASE WriteTest(g)
    <3>1. stage[g] = "test"
      BY <2>1 DEF WriteTest
    <3>2. CASE stage' = [stage EXCEPT ![g] = "send"]
      BY <2>1, <3>1, <3>2 DEF WriteTest
    <3>3. CASE GoWrite(g, Tail(todo[g]))
      BY <2>1, <3>1, <3>3 DEF WriteTest
    <3> QED BY <2>1, <3>2, <3>3 DEF WriteTest
  <2>2. CASE WriteSend(g) \/ SendPanics(g) \/ SendRecovered(g) \/ Finish(g)
    BY <2>2 DEF WriteSend, SendPanics, SendRecovered, Finish
  <2> QED BY <1>5, <2>1, <2>2 DEF WriterStep
<1>6. CASE UNCHANGED vars
  BY <1>6 DEF vars
<1> QED BY <1>1, <1>2, <1>3, <1>4, <1>5, <1>6 DEF Next

(* Nobody commits to a send on a closed channel: running is cleared before *)
(* close(writeCh) (wssession.go:190-191 and 214-220).                      *)
THEOREM NoLateSenders == Spec => NoLateSender
<1> DEFINE Late == \A s \in Sess : chClosed[s] => Committed(s)' \subseteq Committed(s)
<1>1. TypeOK /\ WorkOK /\ CoreInv /\ [Next]_vars => Late
  <2> SUFFICES ASSUME TypeOK, WorkOK, CoreInv, [Next]_vars,
                      NEW s \in Sess, chClosed[s],
                      NEW g \in Writer, stage'[g] = "send", Head(todo'[g]) = s
               PROVE  stage[g] = "send" /\ Head(todo[g]) = s
    BY DEF Committed
  <2>1. ~running[s]
    BY DEF CoreInv, PhaseOK
  <2> QED BY <2>1, StageStep DEF StageMoves
<1> QED BY <1>1, CoreCorrect, PTL DEF Spec, NoLateSender

----------------------------------------------------------------------------
(* dealOne under the lock.                                                 *)
LockInv == LockOK /\ BroadcastTargetsMapped

(* A goroutine that is no notifier, and leaves lock and map alone, keeps   *)
(* the notifiers' targets.                                                 *)
LEMMA LockFrame ==
  ASSUME LockInv, TypeOK, UNCHANGED <<lockW, allSessions>>,
         \A k \in Notifier : stage'[k] = stage[k] /\ todo'[k] = todo[k]
  PROVE  LockInv'
  BY DEF LockInv, LockOK, BroadcastTargetsMapped, TypeOK, Mapped

(* One write of dealOne's loop is done: the rest is still in the map.      *)
LEMMA TailTargets ==
  ASSUME NEW q \in Seq(Sess), q # <<>>, \A i \in DOMAIN q : q[i] \in Mapped
  PROVE  \A i \in DOMAIN Tail(q) : Tail(q)[i] \in Mapped
  OBVIOUS

(* Every step keeps the targets of the notifiers that hold the lock in the *)
(* map (notify.go:30-36).                                                  *)
LEMMA LockStep == TypeOK /\ WorkOK /\ LockInv /\ [Next]_vars => LockInv'
<1> SUFFICES ASSUME TypeOK, WorkOK, LockInv, [Next]_vars
             PROVE  LockInv'
  OBVIOUS
<1> DEFINE Apart == /\ UNCHANGED <<lockW, allSessions>>
                    /\ \A k \in Notifier : stage'[k] = stage[k] /\ todo'[k] = todo[k]
<1>1. ASSUME NEW s \in Sess, SessionStep(s) PROVE LockInv'
  <2>1. CASE RegisterSession(s) \/ Unmap(s)
    BY <2>1 DEF RegisterSession, Unmap, LockFree, LockInv, LockOK, BroadcastTargetsMapped
  <2>2. CASE SpawnLoops(s)
    <3>1. Apart
      BY <2>2 DEF SpawnLoops, GoWrite, mapVars, TypeOK
    <3> QED BY <3>1, LockFrame
  <2>3. CASE ~(RegisterSession(s) \/ Unmap(s) \/ SpawnLoops(s))
    <3>1. Apart
      BY <1>1, <2>3 DEF SessionStep, HandleLogin, PersistDevice, ReadMessage, Enqueue, ReadError,
           CloseWriteCh, WriteLoopTest, WriteLoopRecv, WriteLoopWrite, mapVars, workVars
    <3> QED BY <3>1, LockFrame
  <2> QED BY <2>1, <2>2, <2>3
<1>2. ASSUME NEW w \in Worker, WorkerStep(w) PROVE LockInv'
  <2>1. Apart
    <3> USE DEF GoWrite, mapVars, TypeOK
    <3>1. CASE Dispatch(w)
      BY <3>1 DEF Dispatch
    <3>4. CASE HandleReply(w)
      BY <3>4 DEF HandleReply
    <3>5. CASE HandleQuery(w)
      BY <3>5 DEF HandleQuery
    <3>2. CASE HandlePush(w) \/ HandleRelay(w)
      BY <3>2 DEF HandlePush, HandleRelay
    <3>3. CASE HandleReport(w) \/ NotifySend(w) \/ HandleAnswer(w)
      BY <3>3 DEF HandleReport, NotifySend, HandleAnswer
    <3> QED BY <1>2, <3>1, <3>2, <3>3, <3>4, <3>5 DEF WorkerStep
  <2> QED BY <2>1, LockFrame
<1>3. ASSUME NEW k \in Notifier, TakeOnline(k) PROVE LockInv'
  <2>1. k \notin lockW
    BY <1>3 DEF TakeOnline, LockInv, LockOK
  <2> QED BY <1>3, <2>1 DEF TakeOnline, LockInv, LockOK, BroadcastTargetsMapped, TypeOK,
                            mapVars, Mapped
<1>4. ASSUME NEW k \in Notifier, DealOne(k) PROVE LockInv'
  <2>1. PICK q \in Orders(Mapped) : GoWrite(k, q)
    BY <1>4 DEF DealOne
  <2>2. \A i \in DOMAIN q : q[i] \in Mapped
    BY OrdersType
  <2>3. stage'[k] = "test" /\ todo'[k] = q /\ lockW' = {k} /\ allSessions' = allSessions
    BY <1>4, <2>1 DEF DealOne, GoWrite, TypeOK
  <2> QED BY <2>2, <2>3 DEF LockInv, LockOK, BroadcastTargetsMapped, Mapped
<1>5. ASSUME NEW g \in Web, WebPush(g) PROVE LockInv'
  <2>1. Apart
    BY <1>5 DEF WebPush, GoWrite, mapVars, TypeOK
  <2> QED BY <2>1, LockFrame
<1>6. ASSUME NEW g \in Writer, WriterStep(g) PROVE LockInv'
  <2>1. CASE WriteTest(g) \/ WriteSend(g)
    <3> DEFINE Moves == /\ todo[g] \in Seq(Sess) /\ todo[g] # <<>>
                        /\ todo' = todo \/ todo' = [todo EXCEPT ![g] = Tail(todo[g])]
                        /\ stage'[g] \in {"test", "send"}
                        /\ \A h \in Writer : h # g => stage'[h] = stage[h]
                        /\ UNCHANGED <<lockW, allSessions>>
    <3>1. ASSUME WriteTest(g) PROVE Moves
      <4>1. todo[g] \in Seq(Sess) /\ todo[g] # <<>> /\ UNCHANGED <<lockW, allSessions>>
        BY <3>1 DEF WriteTest, mapVars, TypeOK
      <4>2. \/ stage' = [stage EXCEPT ![g] = "send"] /\ todo' = todo
            \/ GoWrite(g, Tail(todo[g]))
        BY <3>1, Zenon DEF WriteTest
      <4> QED BY <4>1, <4>2 DEF GoWrite, TypeOK
    <3>2. ASSUME WriteSend(g) PROVE Moves
      BY <3>2 DEF WriteSend, GoWrite, mapVars, TypeOK, WorkOK
    <3>3. Moves
      BY <2>1, <3>1, <3>2
    <3>4. ASSUME NEW k \in lockW, NEW i \in DOMAIN todo'[k] PROVE todo'[k][i] \in Mapped
      <4>1. \A j \in DOMAIN todo[k] : todo[k][j] \in Mapped
        BY DEF LockInv, BroadcastTargetsMapped
      <4>2. CASE todo'[k] = todo[k]
        BY <4>1, <4>2, <3>4
      <4>3. CASE k = g /\ todo'[k] = Tail(todo[k])
        BY <3>3, <4>1, <4>3, <3>4, TailTargets
      <4> QED BY <3>3, <4>2, <4>3 DEF TypeOK
    <3>5. LockOK'
      BY <3>3 DEF LockInv, LockOK, TypeOK
    <3> QED BY <3>3, <3>4, <3>5 DEF LockInv, BroadcastTargetsMapped, Mapped
  <2>2. CASE SendPanics(g)
    BY <2>2, LockFrame DEF SendPanics, mapVars, workVars
  <2>3. CASE SendRecovered(g)
    <3>1. Apart
      BY <2>3 DEF SendRecovered, mapVars, TypeOK
    <3> QED BY <3>1, LockFrame
  <2>4. CASE Finish(g)
    <3>1. \A k \in lockW' : k \in lockW /\ stage'[k] = stage[k] /\ todo'[k] = todo[k]
      BY <2>4 DEF Finish, TypeOK
    <3>2. allSessions' = allSessions
      BY <2>4 DEF Finish
    <3> QED BY <3>1, <3>2 DEF LockInv, LockOK, BroadcastTargetsMapped, Mapped
  <2> QED BY <1>6, <2>1, <2>2, <2>3, <2>4 DEF WriterStep
<1>7. CASE UNCHANGED vars
  BY <1>7, LockFrame DEF vars, mapVars, workVars
<1> QED BY <1>1, <1>2, <1>3, <1>4, <1>5, <1>6, <1>7 DEF Next, NotifierStep

(* The sessions dealOne has still to write to are in the map, for it keeps *)
(* the lock to the end (notify.go:30-36).                                  *)
THEOREM BroadcastsReachMapped == Spec => []BroadcastTargetsMapped
<1>1. Init => LockInv
  BY DEF Init, LockInv, LockOK, BroadcastTargetsMapped
<1>2. TypeOK /\ WorkOK /\ LockInv /\ [Next]_vars => LockInv'
  BY LockStep
<1>3. LockInv => BroadcastTargetsMapped
  BY DEF LockInv
<1> QED BY <1>1, <1>2, <1>3, TypeCorrect, PTL DEF Spec

----------------------------------------------------------------------------
(* PushNotifyChan.  The workers between its test and its send.             *)
Notifying == {w \in Worker : stage[w] = "notify"}

(* The names in the channel and those about to be sent are bounded: a      *)
(* worker passes the test below the limit, with all others ahead of it at  *)
(* most.                                                                   *)
NotifyInv == onlineNodes + Cardinality(Notifying) <= ChanSize - Slack - 1 + Cardinality(Worker)

(* The workers between the test and the send of PushNotifyChan can be      *)
(* counted.                                                                *)
LEMMA NotifyingFinite ==
  /\ IsFiniteSet(Notifying) /\ Cardinality(Notifying) \in Nat
  /\ Cardinality(Notifying) <= Cardinality(Worker) /\ Cardinality(Worker) \in Nat
<1>1. Notifying \in SUBSET Worker /\ IsFiniteSet(Worker)
  BY SlackAssumption DEF Notifying
<1>2. IsFiniteSet(Notifying) /\ Cardinality(Notifying) <= Cardinality(Worker)
  BY <1>1, FS_Subset
<1> QED BY <1>1, <1>2, FS_CardinalityType

(* Every step keeps the room PushNotifyChan has left for them              *)
(* (notify.go:10-14).                                                      *)
LEMMA NotifyStep == TypeOK /\ NotifyInv /\ [Next]_vars => NotifyInv'
<1> SUFFICES ASSUME TypeOK, NotifyInv, [Next]_vars
             PROVE  NotifyInv'
  OBVIOUS
<1> USE SlackAssumption
<1>1. ASSUME NEW w \in Worker, HandleReport(w), Notifiable PROVE NotifyInv'
  <2>1. Cardinality(Notifying') <= Cardinality(Worker) /\ Cardinality(Notifying') \in Nat
    <3>1. Notifying' \in SUBSET Worker
      BY DEF Notifying
    <3> QED BY <3>1, FS_Subset, FS_CardinalityType
  <2>2. onlineNodes' = onlineNodes /\ onlineNodes <= ChanSize - Slack - 1
    BY <1>1 DEF HandleReport, Notifiable, TypeOK
  <2> QED BY <2>1, <2>2, NotifyingFinite DEF NotifyInv, TypeOK
<1>2. ASSUME NEW w \in Worker, NotifySend(w) PROVE NotifyInv'
  <2>1. Notifying' = Notifying \ {w} /\ w \in Notifying
    BY <1>2 DEF NotifySend, Notifying, GoWrite, TypeOK
  <2>2. Cardinality(Notifying') = Cardinality(Notifying) - 1
    BY <2>1, NotifyingFinite, FS_RemoveElement
  <2>3. onlineNodes' = onlineNodes + 1
    BY <1>2 DEF NotifySend
  <2> QED BY <2>2, <2>3, NotifyingFinite DEF NotifyInv, TypeOK
<1>3. ASSUME Notifying' = Notifying, onlineNodes' <= onlineNodes, onlineNodes' \in Nat
      PROVE  NotifyInv'
  BY <1>3, NotifyingFinite DEF NotifyInv, TypeOK
<1> DEFINE Apart == /\ Notifying' = Notifying
                    /\ onlineNodes' <= onlineNodes /\ onlineNodes' \in Nat
<1> USE DEF TypeOK, Notifying, workVars, GoWrite, Handling
<1>4. ASSUME NEW s \in Sess, SessionStep(s) PROVE Apart
  BY <1>4 DEF SessionStep, HandleLogin, RegisterSession, PersistDevice, SpawnLoops, ReadMessage,
              Enqueue, ReadError, CloseWriteCh, Unmap, WriteLoopTest, WriteLoopRecv, WriteLoopWrite
<1>5. ASSUME NEW w \in Worker, WorkerStep(w), ~NotifySend(w), ~(HandleReport(w) /\ Notifiable)
      PROVE  Apart
  <2>1. CASE Dispatch(w)
    BY <2>1 DEF Dispatch
  <2>2. CASE HandleReply(w)
    BY <2>2 DEF HandleReply
  <2>3. CASE HandlePush(w)
    BY <2>3 DEF HandlePush
  <2>4. CASE HandleQuery(w)
    BY <2>4 DEF HandleQuery
  <2>5. CASE HandleRelay(w)
    BY <2>5 DEF HandleRelay
  <2>6. CASE HandleReport(w)
    <3>1. GoWrite(w, <<ctx[w]>>) /\ stage[w] = "report" /\ onlineNodes' = onlineNodes
      BY <1>5, <2>6, Zenon DEF HandleReport
    <3> QED BY <3>1
  <2>7. CASE HandleAnswer(w)
    BY <2>7 DEF HandleAnswer
  <2> QED BY <1>5, <2>1, <2>2, <2>3, <2>4, <2>5, <2>6, <2>7 DEF WorkerStep
<1>6. ASSUME NEW k \in Notifier, NotifierStep(k) PROVE Apart
  BY <1>6 DEF NotifierStep, TakeOnline, DealOne
<1>7. ASSUME NEW g \in Web, WebPush(g) PROVE Apart
  BY <1>7 DEF WebPush
<1>8. ASSUME NEW g \in Writer, WriterStep(g) PROVE Apart
  <2>1. CASE WriteTest(g)
    BY <2>1 DEF WriteTest
  <2>2. CASE WriteSend(g) \/ SendPanics(g)
    BY <2>2 DEF WriteSend, SendPanics
  <2>3. CASE SendRecovered(g) \/ Finish(g)
    BY <2>3 DEF SendRecovered, Finish
  <2> QED BY <1>8, <2>1, <2>2, <2>3 DEF WriterStep
<1>9. CASE UNCHANGED vars
  <2>1. Apart
    BY <1>9 DEF vars
  <2> QED BY <2>1, <1>3
<1> HIDE DEF TypeOK, Notifying, workVars, GoWrite, Handling
<1> QED BY <1>1, <1>2, <1>3, <1>4, <1>5, <1>6, <1>7, <1>8, <1>9 DEF Next

(* The send of PushNotifyChan never waits: at most Slack + 1 workers use   *)
(* the channel (notify.go:10-14).                                          *)
THEOREM NotifySendsAtOnce == Spec => []NotifyNeverBlocks
<1>1. Init => NotifyInv
  <2> SUFFICES ASSUME Init PROVE NotifyInv
    OBVIOUS
  <2>1. Notifying = {}
    BY DEF Init, Notifying
  <2> QED BY <2>1, FS_EmptySet, NotifyingFinite, SlackAssumption DEF Init, NotifyInv
<1>2. TypeOK /\ NotifyInv /\ [Next]_vars => NotifyInv'
  BY NotifyStep
<1>3. TypeOK /\ NotifyInv => NotifyNeverBlocks
  <2> SUFFICES ASSUME TypeOK, NotifyInv, NEW w \in Worker, stage[w] = "notify"
               PROVE  onlineNodes < ChanSize
    BY DEF NotifyNeverBlocks
  <2>1. Notifying # {}
    BY DEF Notifying
  <2>2. Cardinality(Notifying) >= 1
    BY <2>1, NotifyingFinite, FS_EmptySet
  <2> QED BY <2>2, NotifyingFinite, SlackAssumption DEF NotifyInv, TypeOK
<1> QED BY <1>1, <1>2, <1>3, TypeCorrect, PTL DEF Spec
----------------------------------------------------------------------------
(* Who waits for whom.  A session that others write to is at least in the  *)
(* map, one that has sent a message is logged in, and its loops run.       *)
Registered == {s \in Sess : login[s] \in {"persist", "spawn", "done"}}
Begun == {s \in Sess : login[s] = "done"}

LoopsOK == \A s \in Begun : wl[s] # "off"
QueueOK == MsgQueue \in Seq(Begun)
CtxOK == \A w \in Worker : stage[w] # "idle" => ctx[w] \in Begun
TargetsOK == \A g \in Writer : todo[g] \in Seq(Registered)

(* Who holds the lock over its writes is at one of them, and only workers  *)
(* announce a node.                                                        *)
HoldOK == /\ \A g \in lockW \cup lockR : stage[g] \in {"test", "send"}
          /\ \A g \in Writer : stage[g] = "notify" => g \in Worker

WaitInv == LoopsOK /\ QueueOK /\ CtxOK /\ TargetsOK /\ HoldOK

(* The tail of a sequence of members of a set is one, and so is a sequence *)
(* of members of a smaller set.                                            *)
LEMMA SeqLemma ==
  /\ \A S : \A q \in Seq(S) : q # <<>> => Head(q) \in S /\ Tail(q) \in Seq(S)
  /\ \A S, T : S \subseteq T => \A q \in Seq(S) : q \in Seq(T)
  /\ \A S : <<>> \in Seq(S) /\ \A x, y \in S : <<x>> \in Seq(S) /\ <<x, y>> \in Seq(S)
  OBVIOUS

(* A login goes forward only, and its loops start when it is done          *)
(* (wssession.go:141-163).                                                 *)
LEMMA LoginsGrow ==
  ASSUME TypeOK, LoopsOK, [Next]_vars
  PROVE  Registered \subseteq Registered' /\ Begun \subseteq Begun' /\ LoopsOK'
<1> USE DEF TypeOK, Registered, Begun, LoopsOK
<1>1. ASSUME NEW s \in Sess, SessionStep(s)
      PROVE  Registered \subseteq Registered' /\ Begun \subseteq Begun' /\ LoopsOK'
  <2>1. CASE HandleLogin(s) \/ RegisterSession(s) \/ PersistDevice(s)
    BY <2>1 DEF HandleLogin, RegisterSession, PersistDevice
  <2>2. CASE SpawnLoops(s)
    BY <2>2 DEF SpawnLoops
  <2>3. CASE WriteLoopTest(s) \/ WriteLoopRecv(s) \/ WriteLoopWrite(s)
    BY <2>3 DEF WriteLoopTest, WriteLoopRecv, WriteLoopWrite
  <2>4. CASE ReadMessage(s) \/ Enqueue(s) \/ ReadError(s) \/ CloseWriteCh(s) \/ Unmap(s)
    BY <2>4 DEF ReadMessage, Enqueue, ReadError, CloseWriteCh, Unmap
  <2> QED BY <1>1, <2>1, <2>2, <2>3, <2>4 DEF SessionStep
<1>2. CASE Frame
  BY <1>2 DEF Frame, sessVars
<1>3. CASE UNCHANGED vars
  BY <1>3 DEF vars, sessVars
<1> QED BY <1>1, <1>2, <1>3, OthersFrame DEF Next

(* What waits is kept if the queue, the handled messages and the targets   *)
(* of the writers come from what waited before.                            *)
LEMMA WaitFrame ==
  ASSUME TypeOK, WaitInv, [Next]_vars,
         MsgQueue' \in Seq(Begun'),
         \A g \in Writer : todo'[g] = todo[g] \/ todo'[g] \in Seq(Registered'),
         \A w \in Worker : stage'[w] # "idle" =>
           (ctx'[w] = ctx[w] /\ stage[w] # "idle") \/ ctx'[w] \in Begun',
         HoldOK'
  PROVE  WaitInv'
<1>1. Registered \subseteq Registered' /\ Begun \subseteq Begun' /\ LoopsOK'
  BY LoginsGrow DEF WaitInv
<1>2. TargetsOK'
  BY <1>1, SeqLemma DEF WaitInv, TargetsOK
<1>3. CtxOK'
  BY <1>1 DEF WaitInv, CtxOK
<1> QED BY <1>1, <1>2, <1>3 DEF WaitInv, QueueOK
(* The steps of a session: its login ends with a write, and readLoop puts  *)
(* what it has read into the queue (wssession.go:160-208).                 *)
LEMMA WaitSession ==
  ASSUME TypeOK, PhaseOK, WaitInv, [Next]_vars, NEW s \in Sess, SessionStep(s)
  PROVE  WaitInv'
<1>1. Registered \subseteq Registered' /\ Begun \subseteq Begun' /\ Begun' \subseteq Registered'
  BY LoginsGrow DEF WaitInv, Begun, Registered
<1>2. MsgQueue \in Seq(Begun')
  BY <1>1, SeqLemma DEF WaitInv, QueueOK
<1>3. CASE SpawnLoops(s)
  <2>1. s \in Begun' /\ <<s>> \in Seq(Registered')
    <3>1. s \in Begun'
      BY <1>3 DEF SpawnLoops, Begun, TypeOK
    <3> QED BY <1>1, <3>1
  <2>2. \A g \in Writer : todo'[g] = todo[g] \/ todo'[g] \in Seq(Registered')
    BY <1>3, <2>1 DEF SpawnLoops, GoWrite, TypeOK
  <2>3. \A g \in Writer : g # s => stage'[g] = stage[g]
    BY <1>3 DEF SpawnLoops, GoWrite, TypeOK
  <2>4. s \notin Worker /\ s \notin lockW \cup lockR /\ stage'[s] = "test"
    BY <1>3 DEF SpawnLoops, GoWrite, TypeOK
  <2>5. HoldOK'
    BY <1>3, <2>3, <2>4 DEF SpawnLoops, mapVars, WaitInv, HoldOK, TypeOK
  <2>6. \A w \in Worker : stage'[w] = stage[w] /\ ctx'[w] = ctx[w] /\ MsgQueue' = MsgQueue
    BY <1>3, <2>3, <2>4 DEF SpawnLoops
  <2>7. MsgQueue' = MsgQueue
    BY <1>3 DEF SpawnLoops
  <2> QED BY <1>2, <2>2, <2>5, <2>6, <2>7, WaitFrame
<1>4. CASE Enqueue(s)
  <2>1. s \in Begun /\ MsgQueue' = Append(MsgQueue, s)
    BY <1>4 DEF Enqueue, PhaseOK, Begun
  <2>2. MsgQueue' \in Seq(Begun')
    BY <1>1, <1>2, <2>1
  <2>3. UNCHANGED <<workVars, mapVars>>
    BY <1>4 DEF Enqueue
  <2>4. HoldOK'
    BY <2>3 DEF WaitInv, HoldOK, workVars, mapVars
  <2> QED BY <2>2, <2>3, <2>4, WaitFrame DEF workVars
<1>5. CASE ~(SpawnLoops(s) \/ Enqueue(s))
  <2>1. UNCHANGED <<workVars, lockW, lockR, MsgQueue>>
    BY <1>5 DEF SessionStep, HandleLogin, RegisterSession, PersistDevice, ReadMessage, ReadError,
         CloseWriteCh, Unmap, WriteLoopTest, WriteLoopRecv, WriteLoopWrite, mapVars
  <2>2. HoldOK'
    BY <2>1 DEF WaitInv, HoldOK, workVars
  <2> QED BY <1>2, <2>1, <2>2, WaitFrame DEF workVars
<1> QED BY <1>3, <1>4, <1>5

(* A goroutine that goes on to write to sessions in the map, or to the one *)
(* whose message it handles.                                               *)
LEMMA WaitGo ==
  ASSUME TypeOK, WaitInv, [Next]_vars, NEW g \in Writer, NEW q \in Seq(Registered), GoWrite(g, q),
         \/ stage[g] # "idle" \/ g \notin Worker,
         UNCHANGED <<MsgQueue, ctx>>, lockW' \cup lockR' \subseteq lockW \cup lockR \cup {g}
  PROVE  WaitInv'
<1>1. Registered \subseteq Registered' /\ Begun \subseteq Begun'
  BY LoginsGrow DEF WaitInv
<1>2. MsgQueue' \in Seq(Begun')
  BY <1>1, SeqLemma DEF WaitInv, QueueOK
<1>3. q \in Seq(Registered')
  BY <1>1, SeqLemma
<1>4. \A h \in Writer : todo'[h] = todo[h] \/ todo'[h] \in Seq(Registered')
  BY <1>3 DEF GoWrite, TypeOK
<1>5. stage'[g] = "test" /\ \A h \in Writer : h # g => stage'[h] = stage[h]
  BY DEF GoWrite, TypeOK
<1>6. HoldOK'
  BY <1>5 DEF WaitInv, HoldOK, TypeOK
<1> QED BY <1>2, <1>4, <1>5, <1>6, WaitFrame

(* A goroutine that stays with its targets, or goes idle.                  *)
LEMMA WaitStay ==
  ASSUME TypeOK, WaitInv, [Next]_vars, NEW g \in Writer, NEW at,
         stage' = [stage EXCEPT ![g] = at], todo' = todo, UNCHANGED ctx,
         stage[g] # "idle" \/ g \notin Worker,
         MsgQueue' = MsgQueue, UNCHANGED <<lockW, lockR>>,
         at \in {"test", "send"} \/ g \notin lockW \cup lockR, at = "notify" => g \in Worker
  PROVE  WaitInv'
<1>1. Registered \subseteq Registered' /\ Begun \subseteq Begun'
  BY LoginsGrow DEF WaitInv
<1>2. MsgQueue' \in Seq(Begun')
  BY <1>1, SeqLemma DEF WaitInv, QueueOK
<1>3. HoldOK'
  BY DEF WaitInv, HoldOK, TypeOK
<1>4. \A w \in Worker : stage'[w] # "idle" => stage[w] # "idle"
  BY DEF TypeOK
<1> QED BY <1>2, <1>3, <1>4, WaitFrame
(* The steps of a worker: it writes to the sender of its message and to    *)
(* sessions it has found in the map.                                       *)
LEMMA WaitWorker ==
  ASSUME TypeOK, WorkOK, MapOK, WaitInv, [Next]_vars, NEW w \in Worker, WorkerStep(w)
  PROVE  WaitInv'
<1>1. Mapped \subseteq Registered /\ \A n \in NodeID : allSessions[n] # NoSess => allSessions[n] \in Registered
  BY DEF Mapped, MapOK, Registered, TypeOK
<1>2. <<>> \in Seq(Registered)
  OBVIOUS
<1>3. ASSUME stage[w] # "idle"
      PROVE  /\ ctx[w] \in Registered /\ <<ctx[w]>> \in Seq(Registered)
             /\ \A s \in Registered : <<s, ctx[w]>> \in Seq(Registered)
  <2>1. ctx[w] \in Registered
    BY <1>3 DEF WaitInv, CtxOK, Begun, Registered
  <2> QED BY <2>1, SeqLemma
<1>4. CASE Dispatch(w)
  <2>1. /\ MsgQueue # <<>> /\ MsgQueue' = Tail(MsgQueue) /\ todo' = todo /\ stage[w] = "idle"
        /\ ctx' = [ctx EXCEPT ![w] = Head(MsgQueue)] /\ UNCHANGED <<lockW, lockR>>
    BY <1>4 DEF Dispatch, mapVars
  <2>2. PICK h \in Handling : stage' = [stage EXCEPT ![w] = h]
    BY <1>4 DEF Dispatch
  <2>3. Begun \subseteq Begun'
    BY LoginsGrow DEF WaitInv
  <2>4. Head(MsgQueue) \in Begun' /\ MsgQueue' \in Seq(Begun')
    <3>1. Head(MsgQueue) \in Begun /\ MsgQueue' \in Seq(Begun)
      BY <2>1, SeqLemma DEF WaitInv, QueueOK
    <3> QED BY <2>3, <3>1, SeqLemma
  <2>5. HoldOK'
    BY <2>1, <2>2 DEF WaitInv, HoldOK, TypeOK, Handling
  <2>6. ASSUME NEW v \in Worker, stage'[v] # "idle"
        PROVE  (ctx'[v] = ctx[v] /\ stage[v] # "idle") \/ ctx'[v] \in Begun'
    BY <2>1, <2>2, <2>4, <2>6 DEF TypeOK
  <2> QED BY <2>1, <2>4, <2>5, <2>6, WaitFrame
<1>5. CASE HandleReply(w)
  <2>1. PICK q \in {<<>>, <<ctx[w]>>} : GoWrite(w, q)
    BY <1>5 DEF HandleReply
  <2>2. stage[w] # "idle" /\ q \in Seq(Registered)
    BY <1>2, <1>3, <1>5 DEF HandleReply
  <2> QED BY <1>5, <2>1, <2>2, WaitGo DEF HandleReply, mapVars
<1>6. CASE HandlePush(w)
  <2>1. stage[w] # "idle" /\ UNCHANGED <<MsgQueue, ctx, lockW, lockR>>
    BY <1>6 DEF HandlePush, mapVars
  <2>2. \E q \in Seq(Registered) : GoWrite(w, q)
    BY <1>1, <1>2, <1>3, <1>6, <2>1 DEF HandlePush
  <2> QED BY <2>1, <2>2, WaitGo
<1>7. CASE HandleQuery(w)
  <2>1. stage[w] # "idle" /\ UNCHANGED <<MsgQueue, ctx, lockW, lockR>>
    BY <1>7 DEF HandleQuery, mapVars
  <2>2. \E q \in Seq(Registered) : GoWrite(w, q)
    BY <1>2, <1>3, <1>7, <2>1 DEF HandleQuery
  <2> QED BY <2>1, <2>2, WaitGo
<1>8. CASE HandleRelay(w)
  <2>1. stage[w] # "idle" /\ UNCHANGED <<MsgQueue, ctx, lockW>> /\ lockR' = lockR \cup {w}
    BY <1>8 DEF HandleRelay
  <2>2. \E q \in Seq(Registered) : GoWrite(w, q)
    BY <1>2, <1>3, <1>8, <2>1 DEF HandleRelay
  <2> QED BY <2>1, <2>2, WaitGo
<1>9. CASE HandleReport(w)
  <2>1. stage[w] = "report" /\ UNCHANGED <<MsgQueue, ctx, lockW, lockR>>
    BY <1>9 DEF HandleReport, mapVars
  <2>2. CASE GoWrite(w, <<ctx[w]>>)
    BY <1>3, <2>1, <2>2, WaitGo
  <2>3. CASE stage' = [stage EXCEPT ![w] = "notify"] /\ UNCHANGED todo
    <3>1. w \notin lockW \cup lockR
      BY <2>1 DEF WaitInv, HoldOK
    <3> QED BY <2>1, <2>3, <3>1, WaitStay
  <2> QED BY <1>9, <2>2, <2>3 DEF HandleReport
<1>10. CASE NotifySend(w)
  <2>1. stage[w] # "idle" /\ UNCHANGED <<MsgQueue, ctx, lockW, lockR>> /\ GoWrite(w, <<ctx[w]>>)
    BY <1>10 DEF NotifySend, mapVars
  <2> QED BY <1>3, <2>1, WaitGo
<1>11. CASE HandleAnswer(w)
  <2>1. stage[w] # "idle" /\ UNCHANGED <<MsgQueue, ctx, lockW, lockR>> /\ GoWrite(w, <<>>)
    BY <1>11 DEF HandleAnswer, mapVars
  <2> QED BY <1>2, <2>1, WaitGo
<1> QED BY <1>4, <1>5, <1>6, <1>7, <1>8, <1>9, <1>10, <1>11 DEF WorkerStep

(* The steps of a notifier and of a web handler.                           *)
LEMMA WaitOthers ==
  ASSUME TypeOK, MapOK, WaitInv, [Next]_vars,
         \/ \E k \in Notifier : NotifierStep(k)
         \/ \E g \in Web : WebPush(g)
  PROVE  WaitInv'
<1>1. Mapped \subseteq Registered
  BY DEF Mapped, MapOK, Registered, TypeOK
<1>2. ASSUME NEW k \in Notifier, TakeOnline(k)
      PROVE  WaitInv'
  <2>1. k \notin lockW \cup lockR
    BY <1>2 DEF TakeOnline, WaitInv, HoldOK
  <2> QED BY <1>2, <2>1, WaitStay DEF TakeOnline, mapVars
<1>3. ASSUME NEW k \in Notifier, DealOne(k)
      PROVE  WaitInv'
  <2>1. PICK q \in Orders(Mapped) : GoWrite(k, q)
    BY <1>3 DEF DealOne
  <2>2. q \in Seq(Registered)
    <3>1. q \in Seq(Sess) /\ \A i \in DOMAIN q : q[i] \in Registered
      BY <1>1, OrdersType
    <3> QED BY <3>1
  <2>3. UNCHANGED <<MsgQueue, ctx>> /\ lockW' = {k} /\ lockR' = lockR
    BY <1>3 DEF DealOne
  <2> QED BY <2>1, <2>2, <2>3, WaitGo
<1>4. ASSUME NEW g \in Web, WebPush(g)
      PROVE  WaitInv'
  <2>1. PICK s \in Mapped : GoWrite(g, <<s>>)
    BY <1>4 DEF WebPush
  <2>2. <<s>> \in Seq(Registered)
    BY <1>1
  <2> QED BY <1>4, <2>1, <2>2, WaitGo DEF WebPush, mapVars
<1> QED BY <1>2, <1>3, <1>4 DEF NotifierStep

(* The steps of a write.                                                   *)
LEMMA WaitWrite ==
  ASSUME TypeOK, WorkOK, WaitInv, [Next]_vars, NEW g \in Writer, WriterStep(g)
  PROVE  WaitInv'
<1>1. todo[g] \in Seq(Registered)
  BY DEF WaitInv, TargetsOK
<1>2. CASE WriteTest(g)
  <2>1. stage[g] = "test" /\ todo[g] # <<>> /\ UNCHANGED <<MsgQueue, ctx, lockW, lockR>>
    BY <1>2 DEF WriteTest, mapVars
  <2>2. CASE stage' = [stage EXCEPT ![g] = "send"] /\ UNCHANGED todo
    BY <2>1, <2>2, WaitStay
  <2>3. CASE GoWrite(g, Tail(todo[g]))
    BY <1>1, <2>1, <2>3, SeqLemma, WaitGo
  <2> QED BY <1>2, <2>2, <2>3 DEF WriteTest
<1>3. CASE WriteSend(g)
  <2>1. /\ stage[g] = "send" /\ todo[g] # <<>> /\ UNCHANGED <<MsgQueue, ctx, lockW, lockR>>
        /\ GoWrite(g, Tail(todo[g]))
    BY <1>3 DEF WriteSend, mapVars, WorkOK
  <2> QED BY <1>1, <2>1, SeqLemma, WaitGo
<1>4. CASE SendPanics(g)
  <2>1. UNCHANGED <<workVars, MsgQueue, lockW, lockR>>
    BY <1>4 DEF SendPanics, mapVars
  <2>2. HoldOK'
    BY <2>1 DEF WaitInv, HoldOK, workVars
  <2>3. MsgQueue' \in Seq(Begun')
    BY <2>1, LoginsGrow, SeqLemma DEF WaitInv, QueueOK
  <2> QED BY <2>1, <2>2, <2>3, WaitFrame DEF workVars
<1>5. CASE SendRecovered(g) \/ Finish(g)
  <2>1. /\ stage' = [stage EXCEPT ![g] = "idle"] /\ todo'[g] \in {<<>>, todo[g]}
        /\ MsgQueue' = MsgQueue /\ \A h \in Writer : h # g => todo'[h] = todo[h]
        /\ \A v \in Worker : v # g => ctx'[v] = ctx[v]
    BY <1>5 DEF SendRecovered, Finish, TypeOK
  <2>2. lockW' \subseteq lockW /\ lockR' \subseteq lockR /\ g \notin lockW' \cup lockR'
    <3>1. CASE SendRecovered(g)
      BY <3>1 DEF SendRecovered, mapVars, TypeOK
    <3>2. CASE Finish(g)
      BY <3>2 DEF Finish
    <3> QED BY <1>5, <3>1, <3>2
  <2>3. HoldOK'
    BY <2>1, <2>2 DEF WaitInv, HoldOK, TypeOK
  <2>4. \A h \in Writer : todo'[h] = todo[h] \/ todo'[h] \in Seq(Registered')
    <3>1. <<>> \in Seq(Registered')
      OBVIOUS
    <3> QED BY <2>1, <3>1
  <2>5. MsgQueue' \in Seq(Begun')
    BY <2>1, LoginsGrow, SeqLemma DEF WaitInv, QueueOK
  <2>6. \A v \in Worker : stage'[v] # "idle" => ctx'[v] = ctx[v] /\ stage[v] # "idle"
    BY <2>1 DEF TypeOK
  <2> QED BY <2>3, <2>4, <2>5, <2>6, WaitFrame
<1> QED BY <1>2, <1>3, <1>4, <1>5 DEF WriterStep

(* Whoever waits, for the lock or for a place in a channel, waits at the   *)
(* end for a goroutine that can move, or for a worker to take a message    *)
(* from the full MsgQueue (notify.go:30, relayhandler.go:42,               *)
(* wssession.go:202, 217): from the invariants, for a session found in the *)
(* map has its loops running or is about to start them, and one whose      *)
(* channel is open still has a readLoop.                                   *)
THEOREM WaitingIsNotCircular == Spec => []NoCircularWait
<1>1. Init => WaitInv
  <2> SUFFICES ASSUME Init PROVE WaitInv
    OBVIOUS
  <2>1. <<>> \in Seq(Begun) /\ <<>> \in Seq(Registered)
    OBVIOUS
  <2>2. LoopsOK /\ CtxOK /\ HoldOK
    BY DEF Init, LoopsOK, Begun, CtxOK, HoldOK
  <2> QED BY <2>1, <2>2 DEF Init, WaitInv, QueueOK, TargetsOK
<1>2. ASSUME TypeOK, WorkOK, CoreInv, WaitInv, [Next]_vars
      PROVE  WaitInv'
  <2>1. CASE UNCHANGED vars
    <3>1. UNCHANGED <<workVars, MsgQueue, lockW, lockR>>
      BY <2>1 DEF vars, mapVars
    <3>2. HoldOK'
      BY <1>2, <3>1 DEF WaitInv, HoldOK, workVars
    <3>3. MsgQueue' \in Seq(Begun')
      BY <1>2, <3>1, LoginsGrow, SeqLemma DEF WaitInv, QueueOK
    <3> QED BY <1>2, <3>1, <3>2, <3>3, WaitFrame DEF workVars
  <2> QED BY <1>2, <2>1, WaitSession, WaitWorker, WaitOthers, WaitWrite DEF Next, CoreInv
<1>3. ASSUME TypeOK, WorkOK, CoreInv, WaitInv, NotifyNeverBlocks
      PROVE  NoCircularWait
  <2> SUFFICES ASSUME NEW g \in Writer, g \in lockW \cup lockR \/ stage[g] \in {"notify", "send"}
               PROVE  \/ CanGoOn(g)
                      \/ stage[g] = "send" /\ (Served(Head(todo[g])) \/ Jammed(Head(todo[g])))
    BY DEF NoCircularWait
  <2>1. stage[g] \in {"test", "notify", "send"}
    BY <1>3 DEF WaitInv, HoldOK
  <2>2. CASE stage[g] \in {"test", "notify"}
    BY <1>3, <2>2 DEF CanGoOn, NotifyNeverBlocks, WaitInv, HoldOK
  <2>3. CASE stage[g] = "send"
    <3> DEFINE s == Head(todo[g])
    <3>1. s \in Sess /\ login[s] \in {"persist", "spawn", "done"}
      <4>1. todo[g] \in Seq(Registered) /\ todo[g] # <<>>
        BY <1>3, <2>3 DEF WaitInv, TargetsOK, WorkOK
      <4>2. s \in Registered
        BY <4>1, SeqLemma
      <4> QED BY <4>2 DEF Registered
    <3>2. QueueCap \in Nat /\ Len(MsgQueue) \in Nat /\ Len(MsgQueue) <= QueueCap
      BY <1>3 DEF TypeOK
    <3>3. writeCh[s] \in 0..WriteCap /\ WriteCap \in Nat \ {0}
      BY <1>3, <3>1 DEF TypeOK
    <3> HIDE DEF s
    <3>4. CASE chClosed[s] \/ writeCh[s] < WriteCap
      BY <2>3, <3>4 DEF CanGoOn, s
    <3>5. CASE ~chClosed[s] /\ writeCh[s] > 0 /\ login[s] = "done"
      <4>1. rl[s] \in {"read", "enqueue", "close"}
        BY <1>3, <3>1, <3>5 DEF CoreInv, PhaseOK, TypeOK
      <4>2. wl[s] \in {"test", "recv", "write", "exit"}
        BY <1>3, <3>1, <3>5 DEF WaitInv, LoopsOK, Begun, TypeOK
      <4>3. Served(s) \/ Jammed(s)
        BY <3>2, <3>5, <4>1, <4>2 DEF Served, Jammed
      <4> QED BY <2>3, <4>3 DEF s
    <3>6. CASE login[s] \in {"persist", "spawn"}
      BY <2>3, <3>6 DEF Served, s
    <3> QED BY <3>1, <3>3, <3>4, <3>5, <3>6
  <2> QED BY <2>1, <2>2, <2>3
<1> QED BY <1>1, <1>2, <1>3, CoreCorrect, NotifySendsAtOnce, PTL DEF Spec
=============================================================================
