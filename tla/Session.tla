------------------------------ MODULE Session ------------------------------
(***************************************************************************)
(* The websocket sessions of the gateway and the goroutines that share     *)
(* them.  A login is served by a goroutine of its own, which enters the    *)
(* session into sessionMgr.allSessions, persists the device and starts the *)
(* session's writeLoop and readLoop.  readLoop puts messages into MsgQueue *)
(* for the message workers; workers, notifyLoops, web handlers and the     *)
(* login goroutine itself write to sessions through the bounded writeCh.   *)
(* When a read fails, readLoop tears the session down.                     *)
(*                                                                         *)
(* Every channel operation, lock acquisition and read or write of the      *)
(* unsynchronised field `running' is a step of its own.  A critical        *)
(* section that only looks an entry up, enters it or deletes it is one     *)
(* step, which waits until allSessionsMtx is free; the two places that     *)
(* write to a session while holding the lock keep it over several steps.   *)
(***************************************************************************)
EXTENDS Integers, Sequences, FiniteSets

CONSTANTS
  Sess,       \* sessions: one wssSession per accepted connection
  NodeID,     \* node ids
  nodeID,     \* nodeID[s]: the id of the node that opened session s
  NoSess,     \* no session: an absent map entry
  Worker,     \* goroutines running msgHandler.handleMessage
  Notifier,   \* goroutines running notifyLoop
  Web,        \* goroutines serving web requests that write to a session
  WriteCap,   \* capacity of writeCh (10 in the code)
  QueueCap,   \* capacity of MsgQueue (1000)
  ChanSize,   \* capacity of onlineNodes (100000)
  Slack,      \* what PushNotifyChan keeps free of onlineNodes (100)
  Sent        \* what the clients send: <<s, h>>, a message of s for handler h

(* The handlers a message can call (see Dispatch).                         *)
Handling == {"reply", "push", "query", "relay", "report", "answer"}

ASSUME SessionAssumption ==
  /\ nodeID \in [Sess -> NodeID] /\ IsFiniteSet(NodeID)   \* uint64
  /\ NoSess \notin Sess
  /\ Worker \cap Notifier = {} /\ Worker \cap Web = {} /\ Worker \cap Sess = {}
  /\ Notifier \cap Web = {} /\ Notifier \cap Sess = {} /\ Web \cap Sess = {}
  /\ WriteCap \in Nat \ {0} /\ QueueCap \in Nat \ {0}
  /\ Sent \subseteq Sess \X Handling

(* The 16 workers are the only senders to onlineNodes, and fewer than the  *)
(* room PushNotifyChan leaves.                                             *)
ASSUME SlackAssumption ==
  /\ ChanSize \in Nat /\ Slack \in Nat /\ Slack < ChanSize
  /\ IsFiniteSet(Worker) /\ Cardinality(Worker) <= Slack + 1

VARIABLES
  login,        \* where handleLogin is for each session
  rl,           \* where the session's readLoop is
  wl,           \* where the session's writeLoop is
  running,      \* wssSession.running
  writeCh,      \* messages in wssSession.writeCh
  chClosed,     \* writeCh has been closed
  allSessions,  \* sessionMgr.allSessions
  lockW,        \* the holders of allSessionsMtx.Lock (over several steps)
  lockR,        \* the holders of allSessionsMtx.RLock (over several steps)
  MsgQueue,     \* the senders of the queued messages
  stage,        \* where each goroutine that writes to sessions is
  todo,         \* the sessions it has still to write to
  ctx,          \* the sender of the message a worker is handling
  reporting,    \* workers that will end with upsertDevice
  onlineNodes,  \* names in the channel onlineNodes
  devices,      \* nodes with a device record in the store
  panicked      \* an unrecovered panic has ended the process

sessVars == <<login, rl, wl, running, chClosed>>
mapVars  == <<allSessions, lockW, lockR>>
workVars == <<stage, todo, ctx, reporting>>
vars == <<sessVars, writeCh, mapVars, MsgQueue, workVars, onlineNodes, devices, panicked>>

(* The goroutines that write to sessions; a session stands for the         *)
(* goroutine that runs its handleLogin.                                    *)
Writer == Worker \cup Notifier \cup Web \cup Sess

TypeOK ==
  /\ login \in [Sess -> {"new", "rejected", "register", "persist", "spawn", "done"}]
  /\ rl \in [Sess -> {"off", "read", "enqueue", "close", "unmap", "done"}]
  /\ wl \in [Sess -> {"off", "test", "recv", "write", "exit"}]
  /\ running \in [Sess -> BOOLEAN]
  /\ writeCh \in [Sess -> 0..WriteCap]
  /\ chClosed \in [Sess -> BOOLEAN]
  /\ allSessions \in [NodeID -> Sess \cup {NoSess}]
  /\ lockW \in SUBSET Notifier
  /\ lockR \in SUBSET Worker
  /\ MsgQueue \in Seq(Sess) /\ Len(MsgQueue) <= QueueCap
  /\ stage \in [Writer -> Handling \cup {"idle", "deal", "notify", "test", "send"}]
  /\ todo \in [Writer -> Seq(Sess)]
  /\ ctx \in [Worker -> Sess \cup {NoSess}]
  /\ reporting \in SUBSET Worker
  /\ onlineNodes \in 0..ChanSize
  /\ devices \in SUBSET NodeID
  /\ panicked \in BOOLEAN

Init ==
  /\ login = [s \in Sess |-> "new"]
  /\ rl = [s \in Sess |-> "off"]
  /\ wl = [s \in Sess |-> "off"]
  /\ running = [s \in Sess |-> TRUE]
  /\ writeCh = [s \in Sess |-> 0]
  /\ chClosed = [s \in Sess |-> FALSE]
  /\ allSessions = [n \in NodeID |-> NoSess]
  /\ lockW = {} /\ lockR = {}
  /\ MsgQueue = <<>>
  /\ stage = [g \in Writer |-> "idle"]
  /\ todo = [g \in Writer |-> <<>>]
  /\ ctx = [w \in Worker |-> NoSess]
  /\ reporting = {}
  /\ onlineNodes = 0
  /\ devices = {}
  /\ panicked = FALSE

----------------------------------------------------------------------------
(* The process is up: no goroutine moves after an unrecovered panic.       *)
Up == ~panicked

(* allSessionsMtx: nobody holds it; nobody holds it for writing.           *)
LockFree == lockW = {} /\ lockR = {}
RLockFree == lockW = {}

(* Goroutine g goes on to write to the sessions of q, in that order.       *)
GoWrite(g, q) ==
  /\ stage' = [stage EXCEPT ![g] = "test"]
  /\ todo' = [todo EXCEPT ![g] = q]

----------------------------------------------------------------------------
(* handleLogin.  The connection is upgraded and the name and the token are *)
(* checked; a rejected login leaves no trace but its answer.               *)
HandleLogin(s) ==
  /\ Up /\ login[s] = "new"
  /\ \E verdict \in {"rejected", "register"} : login' = [login EXCEPT ![s] = verdict]
  /\ UNCHANGED <<rl, wl, running, chClosed, writeCh, mapVars, MsgQueue, workVars,
                 onlineNodes, devices, panicked>>

(* Mutant: the loops are started right after the registration, before the  *)
(* device is persisted.                                                    *)
RegisterAndSpawn(s) ==
  /\ Up /\ login[s] = "register" /\ LockFree
  /\ allSessions' = [allSessions EXCEPT ![nodeID[s]] = s]
  /\ login' = [login EXCEPT ![s] = "persist"]
  /\ rl' = [rl EXCEPT ![s] = "read"]
  /\ wl' = [wl EXCEPT ![s] = "test"]
  /\ UNCHANGED <<running, chClosed, writeCh, lockW, lockR, MsgQueue, workVars,
                 onlineNodes, devices, panicked>>

RegisterSession(s) ==
  /\ Up /\ login[s] = "register" /\ LockFree
  /\ allSessions' = [allSessions EXCEPT ![nodeID[s]] = s]
  /\ login' = [login EXCEPT ![s] = "persist"]
  /\ UNCHANGED <<rl, wl, running, chClosed, writeCh, lockW, lockR, MsgQueue, workVars,
                 onlineNodes, devices, panicked>>

PersistDevice(s) ==
  /\ Up /\ login[s] = "persist"
  /\ devices' = devices \cup {nodeID[s]}
  /\ login' = [login EXCEPT ![s] = "spawn"]
  /\ UNCHANGED <<rl, wl, running, chClosed, writeCh, mapVars, MsgQueue, workVars,
                 onlineNodes, panicked>>

(* The two loops start, and the login goroutine goes on to sess.write.     *)
SpawnLoops(s) ==
  /\ Up /\ login[s] = "spawn"
  /\ rl' = [rl EXCEPT ![s] = "read"]
  /\ wl' = [wl EXCEPT ![s] = "test"]
  /\ login' = [login EXCEPT ![s] = "done"]
  /\ GoWrite(s, <<s>>)
  /\ UNCHANGED <<running, chClosed, writeCh, mapVars, MsgQueue, ctx, reporting,
                 onlineNodes, devices, panicked>>

----------------------------------------------------------------------------
(* readLoop.  A read returns a message, or an error: the peer is gone, or  *)
(* nothing came for the length of the read deadline, which every read sets *)
(* anew.  A message that is not binary is dropped (no step: the loop stays *)
(* at the read).                                                           *)
ReadMessage(s) ==
  /\ Up /\ rl[s] = "read" /\ \E h \in Handling : <<s, h>> \in Sent
  /\ rl' = [rl EXCEPT ![s] = "enqueue"]
  /\ UNCHANGED <<login, wl, running, chClosed, writeCh, mapVars, MsgQueue, workVars,
                 onlineNodes, devices, panicked>>

Enqueue(s) ==
  /\ Up /\ rl[s] = "enqueue" /\ Len(MsgQueue) < QueueCap
  /\ MsgQueue' = Append(MsgQueue, s)
  /\ rl' = [rl EXCEPT ![s] = "read"]
  /\ UNCHANGED <<login, wl, running, chClosed, writeCh, mapVars, workVars,
                 onlineNodes, devices, panicked>>

(* Mutant: running is left as it is.                                       *)
ReadErrorKeepsRunning(s) ==
  /\ Up /\ rl[s] = "read"
  /\ rl' = [rl EXCEPT ![s] = "close"]
  /\ UNCHANGED <<login, wl, running, chClosed, writeCh, mapVars, MsgQueue, workVars,
                 onlineNodes, devices, panicked>>

ReadError(s) ==
  /\ Up /\ rl[s] = "read"
  /\ running' = [running EXCEPT ![s] = FALSE]
  /\ rl' = [rl EXCEPT ![s] = "close"]
  /\ UNCHANGED <<login, wl, chClosed, writeCh, mapVars, MsgQueue, workVars,
                 onlineNodes, devices, panicked>>

(* Mutant: the channel is not closed.                                      *)
CloseNothing(s) ==
  /\ Up /\ rl[s] = "close"
  /\ rl' = [rl EXCEPT ![s] = "unmap"]
  /\ UNCHANGED <<login, wl, running, chClosed, writeCh, mapVars, MsgQueue, workVars,
                 onlineNodes, devices, panicked>>

CloseWriteCh(s) ==
  /\ Up /\ rl[s] = "close"
  /\ chClosed' = [chClosed EXCEPT ![s] = TRUE]
  /\ rl' = [rl EXCEPT ![s] = "unmap"]
  /\ UNCHANGED <<login, wl, running, writeCh, mapVars, MsgQueue, workVars,
                 onlineNodes, devices, panicked>>

(* Mutant: the comparison is the wrong way round.                          *)
WithoutOther(s) ==
  IF allSessions[nodeID[s]] # s
  THEN [allSessions EXCEPT ![nodeID[s]] = NoSess]
  ELSE allSessions

(* The map without session s: another session of the node is kept.         *)
Without(s) ==
  IF allSessions[nodeID[s]] = s
  THEN [allSessions EXCEPT ![nodeID[s]] = NoSess]
  ELSE allSessions

(* Mutant: whatever session the node has is deleted.                       *)
UnmapAny(s) ==
  /\ Up /\ rl[s] = "unmap" /\ LockFree
  /\ allSessions' = [allSessions EXCEPT ![nodeID[s]] = NoSess]
  /\ rl' = [rl EXCEPT ![s] = "done"]
  /\ UNCHANGED <<login, wl, running, chClosed, writeCh, lockW, lockR, MsgQueue, workVars,
                 onlineNodes, devices, panicked>>

(* Mutant: the map is changed without waiting for the lock.                *)
UnmapUnlocked(s) ==
  /\ Up /\ rl[s] = "unmap"
  /\ allSessions' = Without(s)
  /\ rl' = [rl EXCEPT ![s] = "done"]
  /\ UNCHANGED <<login, wl, running, chClosed, writeCh, lockW, lockR, MsgQueue, workVars,
                 onlineNodes, devices, panicked>>

Unmap(s) ==
  /\ Up /\ rl[s] = "unmap" /\ LockFree
  /\ allSessions' = Without(s)
  /\ rl' = [rl EXCEPT ![s] = "done"]
  /\ UNCHANGED <<login, wl, running, chClosed, writeCh, lockW, lockR, MsgQueue, workVars,
                 onlineNodes, devices, panicked>>

----------------------------------------------------------------------------
(* writeLoop.                                                              *)
WriteLoopTest(s) ==
  /\ Up /\ wl[s] = "test"
  /\ wl' = [wl EXCEPT ![s] = IF running[s] THEN "recv" ELSE "exit"]
  /\ UNCHANGED <<login, rl, running, chClosed, writeCh, mapVars, MsgQueue, workVars,
                 onlineNodes, devices, panicked>>

(* A closed channel still delivers what it holds, then "not ok".           *)
WriteLoopRecv(s) ==
  /\ Up /\ wl[s] = "recv"
  /\ \/ /\ writeCh[s] > 0
        /\ writeCh' = [writeCh EXCEPT ![s] = @ - 1]
        /\ wl' = [wl EXCEPT ![s] = "write"]
     \/ /\ writeCh[s] = 0 /\ chClosed[s]
        /\ wl' = [wl EXCEPT ![s] = "test"]
        /\ UNCHANGED writeCh
  /\ UNCHANGED <<login, rl, running, chClosed, mapVars, MsgQueue, workVars,
                 onlineNodes, devices, panicked>>

(* conn.WriteMessage has no deadline: it succeeds, fails, or never returns *)
(* (the step is not taken).                                                *)
WriteLoopWrite(s) ==
  /\ Up /\ wl[s] = "write"
  /\ \E next \in {"test", "exit"} : wl' = [wl EXCEPT ![s] = next]
  /\ UNCHANGED <<login, rl, running, chClosed, writeCh, mapVars, MsgQueue, workVars,
                 onlineNodes, devices, panicked>>

----------------------------------------------------------------------------
(* msgHandler.handleMessage: a worker takes a message; what the client     *)
(* sent decides the handler.                                               *)
Dispatch(w) ==
  /\ Up /\ stage[w] = "idle" /\ MsgQueue # <<>>
  /\ ctx' = [ctx EXCEPT ![w] = Head(MsgQueue)]
  /\ MsgQueue' = Tail(MsgQueue)
  /\ \E h \in Handling : <<Head(MsgQueue), h>> \in Sent /\ stage' = [stage EXCEPT ![w] = h]
  /\ UNCHANGED <<sessVars, writeCh, mapVars, todo, reporting,
                 onlineNodes, devices, panicked>>

(* Handlers that at most answer the sender: loginHandler, sdwanHandler,    *)
(* pushHandler on a message that may not be pushed, and every handler on a *)
(* message it cannot decode.                                               *)
HandleReply(w) ==
  /\ Up /\ stage[w] = "reply"
  /\ \E q \in {<<>>, <<ctx[w]>>} : GoWrite(w, q)
  /\ UNCHANGED <<sessVars, writeCh, mapVars, MsgQueue, ctx, reporting,
                 onlineNodes, devices, panicked>>

(* pushHandler: the target is looked up under the lock and written to      *)
(* after the lock is released; the sender is told the outcome last.  When  *)
(* a push is granted is the subject of module PushPermission.  A connect   *)
(* request that cannot be decoded is dropped after the lookup.             *)
HandlePush(w) ==
  /\ Up /\ stage[w] = "push" /\ LockFree
  /\ \E n \in NodeID :
       \/ GoWrite(w, <<ctx[w]>>)
       \/ /\ allSessions[n] # NoSess
          /\ \E q \in {<<>>, <<allSessions[n], ctx[w]>>} : GoWrite(w, q)
  /\ UNCHANGED <<sessVars, writeCh, mapVars, MsgQueue, ctx, reporting,
                 onlineNodes, devices, panicked>>

(* queryHandler: the peer is looked up under the lock; the sender gets an  *)
(* answer unless the peer is online and its token does not verify.         *)
HandleQuery(w) ==
  /\ Up /\ stage[w] = "query" /\ LockFree
  /\ \E n \in NodeID :
       \/ GoWrite(w, <<ctx[w]>>)
       \/ allSessions[n] # NoSess /\ GoWrite(w, <<>>)
  /\ UNCHANGED <<sessVars, writeCh, mapVars, MsgQueue, ctx, reporting,
                 onlineNodes, devices, panicked>>

(* relayHandler: the read lock is held until the handler returns, the      *)
(* write of the answer included.  An offline peer gets no answer.          *)
HandleRelay(w) ==
  /\ Up /\ stage[w] = "relay" /\ RLockFree
  /\ lockR' = lockR \cup {w}
  /\ \E n \in NodeID : GoWrite(w, IF allSessions[n] = NoSess THEN <<>> ELSE <<ctx[w]>>)
  /\ UNCHANGED <<sessVars, writeCh, allSessions, lockW, MsgQueue, ctx, reporting,
                 onlineNodes, devices, panicked>>

(* Mutant: the whole capacity is used.                                     *)
NotifiableToTheBrim == onlineNodes < ChanSize

(* reportHandler, MsgReportBasic: PushNotifyChan drops the name when the   *)
(* channel is nearly full; the length is read before the send.             *)
Notifiable == onlineNodes < ChanSize - Slack

HandleReport(w) ==
  /\ Up /\ stage[w] = "report"
  /\ IF Notifiable
     THEN stage' = [stage EXCEPT ![w] = "notify"] /\ UNCHANGED todo
     ELSE GoWrite(w, <<ctx[w]>>)
  /\ reporting' = reporting \cup {w}
  /\ UNCHANGED <<sessVars, writeCh, mapVars, MsgQueue, ctx,
                 onlineNodes, devices, panicked>>

NotifySend(w) ==
  /\ Up /\ stage[w] = "notify" /\ onlineNodes < ChanSize
  /\ onlineNodes' = onlineNodes + 1
  /\ GoWrite(w, <<ctx[w]>>)
  /\ UNCHANGED <<sessVars, writeCh, mapVars, MsgQueue, ctx, reporting, devices, panicked>>

(* reportHandler on an answer for a web request: the worker sends it to    *)
(* the session's rspCh and may wait there for as long as it likes (module  *)
(* DeviceQuery models rspCh).                                              *)
HandleAnswer(w) ==
  /\ Up /\ stage[w] = "answer"
  /\ GoWrite(w, <<>>)
  /\ UNCHANGED <<sessVars, writeCh, mapVars, MsgQueue, ctx, reporting,
                 onlineNodes, devices, panicked>>

----------------------------------------------------------------------------
(* notifyLoop takes a name; dealOne then writes to every session of the    *)
(* map, in the map's arbitrary order, and holds the lock all the while.    *)
TakeOnline(k) ==
  /\ Up /\ stage[k] = "idle" /\ onlineNodes > 0
  /\ onlineNodes' = onlineNodes - 1
  /\ stage' = [stage EXCEPT ![k] = "deal"]
  /\ UNCHANGED <<sessVars, writeCh, mapVars, MsgQueue, todo, ctx, reporting, devices, panicked>>

Mapped == {allSessions[n] : n \in NodeID} \ {NoSess}

(* The orders in which a range over the sessions of S can visit them.      *)
Orders(S) ==
  {q \in [1..Cardinality(S) -> S] : \A i, j \in DOMAIN q : i # j => q[i] # q[j]}

DealOne(k) ==
  /\ Up /\ stage[k] = "deal" /\ LockFree
  /\ lockW' = {k}
  /\ \E q \in Orders(Mapped) : GoWrite(k, q)
  /\ UNCHANGED <<sessVars, writeCh, allSessions, lockR, MsgQueue, ctx, reporting,
                 onlineNodes, devices, panicked>>

(* A web handler (editApp, switchApp, restartDevice, a network's refresh   *)
(* ...) looks a session up under the lock and writes to it after the lock  *)
(* is released.  editNode and pushSDWanRefresh take the read lock, the     *)
(* others the lock itself, which is the stricter guard of the two.  That   *)
(* editNode goes on to rename the device's record is not modelled here.    *)
WebPush(g) ==
  /\ Up /\ stage[g] = "idle" /\ RLockFree
  /\ \E s \in Mapped : GoWrite(g, <<s>>)
  /\ UNCHANGED <<sessVars, writeCh, mapVars, MsgQueue, ctx, reporting,
                 onlineNodes, devices, panicked>>

----------------------------------------------------------------------------
(* wssSession.write and writeBuff: running is read, then the message is    *)
(* sent, which waits while the channel is full.                            *)
WriteTest(g) ==
  /\ Up /\ stage[g] = "test" /\ todo[g] # <<>>
  /\ IF running[Head(todo[g])]
     THEN stage' = [stage EXCEPT ![g] = "send"] /\ UNCHANGED todo
     ELSE GoWrite(g, Tail(todo[g]))
  /\ UNCHANGED <<sessVars, writeCh, mapVars, MsgQueue, ctx, reporting,
                 onlineNodes, devices, panicked>>

(* Mutant: the channel takes one message more than it holds.               *)
WriteSendOverfull(g) ==
  /\ Up /\ stage[g] = "send"
  /\ LET s == Head(todo[g]) IN
       /\ ~chClosed[s] /\ writeCh[s] <= WriteCap
       /\ writeCh' = [writeCh EXCEPT ![s] = @ + 1]
  /\ GoWrite(g, Tail(todo[g]))
  /\ UNCHANGED <<sessVars, mapVars, MsgQueue, ctx, reporting,
                 onlineNodes, devices, panicked>>

WriteSend(g) ==
  /\ Up /\ stage[g] = "send"
  /\ LET s == Head(todo[g]) IN
       /\ ~chClosed[s] /\ writeCh[s] < WriteCap
       /\ writeCh' = [writeCh EXCEPT ![s] = @ + 1]
  /\ GoWrite(g, Tail(todo[g]))
  /\ UNCHANGED <<sessVars, mapVars, MsgQueue, ctx, reporting,
                 onlineNodes, devices, panicked>>

(* A send to a closed channel panics, one that is already waiting too.  In *)
(* a worker or a notifyLoop nothing recovers the panic.                    *)
SendPanics(g) ==
  /\ Up /\ g \in Worker \cup Notifier
  /\ stage[g] = "send" /\ chClosed[Head(todo[g])]
  /\ panicked' = TRUE
  /\ UNCHANGED <<sessVars, writeCh, mapVars, MsgQueue, workVars, onlineNodes, devices>>

(* gin.Recovery ends only the request of a login or a web handler.         *)
SendRecovered(g) ==
  /\ Up /\ g \in Web \cup Sess
  /\ stage[g] = "send" /\ chClosed[Head(todo[g])]
  /\ stage' = [stage EXCEPT ![g] = "idle"]
  /\ todo' = [todo EXCEPT ![g] = <<>>]
  /\ UNCHANGED <<sessVars, writeCh, mapVars, MsgQueue, ctx, reporting,
                 onlineNodes, devices, panicked>>

(* Mutant: the lock is not released.                                       *)
FinishHolding(g) ==
  /\ Up /\ stage[g] = "test" /\ todo[g] = <<>>
  /\ stage' = [stage EXCEPT ![g] = "idle"]
  /\ devices' = IF g \in reporting THEN devices \cup {nodeID[ctx[g]]} ELSE devices
  /\ reporting' = reporting \ {g}
  /\ ctx' = [w \in Worker |-> IF w = g THEN NoSess ELSE ctx[w]]
  /\ UNCHANGED <<sessVars, writeCh, mapVars, MsgQueue, todo, onlineNodes, panicked>>

(* The handler returns: the lock it holds is released, and a report ends   *)
(* with upsertDevice.                                                      *)
Finish(g) ==
  /\ Up /\ stage[g] = "test" /\ todo[g] = <<>>
  /\ stage' = [stage EXCEPT ![g] = "idle"]
  /\ lockW' = lockW \ {g}
  /\ lockR' = lockR \ {g}
  /\ devices' = IF g \in reporting THEN devices \cup {nodeID[ctx[g]]} ELSE devices
  /\ reporting' = reporting \ {g}
  /\ ctx' = [w \in Worker |-> IF w = g THEN NoSess ELSE ctx[w]]
  /\ UNCHANGED <<sessVars, writeCh, allSessions, MsgQueue, todo, onlineNodes, panicked>>

----------------------------------------------------------------------------
SessionStep(s) ==
  \/ HandleLogin(s) \/ RegisterSession(s) \/ PersistDevice(s) \/ SpawnLoops(s)
  \/ ReadMessage(s) \/ Enqueue(s) \/ ReadError(s) \/ CloseWriteCh(s) \/ Unmap(s)
  \/ WriteLoopTest(s) \/ WriteLoopRecv(s) \/ WriteLoopWrite(s)

WorkerStep(w) ==
  \/ Dispatch(w) \/ HandleReply(w) \/ HandlePush(w) \/ HandleQuery(w)
  \/ HandleRelay(w) \/ HandleReport(w) \/ NotifySend(w) \/ HandleAnswer(w)

NotifierStep(k) == TakeOnline(k) \/ DealOne(k)

WriterStep(g) ==
  WriteTest(g) \/ WriteSend(g) \/ SendPanics(g) \/ SendRecovered(g) \/ Finish(g)

Next ==
  \/ \E s \in Sess : SessionStep(s)
  \/ \E w \in Worker : WorkerStep(w)
  \/ \E k \in Notifier : NotifierStep(k)
  \/ \E g \in Web : WebPush(g)
  \/ \E g \in Writer : WriterStep(g)

Spec == Init /\ [][Next]_vars

----------------------------------------------------------------------------
(* Fairness.  Goroutines are scheduled; waiters for a channel or for       *)
(* allSessionsMtx are served in turn, hence strong fairness where a step   *)
(* may have to wait.  Nothing is assumed of a read: a peer that keeps      *)
(* sending renews its deadline for ever, so that no read need ever fail.   *)
(* That WriteMessage returns is an assumption about the peers (or their    *)
(* TCP connections), which the code does not enforce; that rspCh ever has  *)
(* room for an answer is not assumed.                                      *)
LoginRoutine(s) ==
  \/ RegisterSession(s) \/ PersistDevice(s) \/ SpawnLoops(s)
  \/ stage[s] # "idle" /\ WriterStep(s)

ReadLoop(s) == Enqueue(s) \/ CloseWriteCh(s) \/ Unmap(s)

WriteLoop(s) == WriteLoopTest(s) \/ WriteLoopRecv(s) \/ WriteLoopWrite(s)

Working(g) ==
  /\ stage[g] \notin {"idle", "answer"}
  /\ \/ g \in Worker /\ WorkerStep(g)
     \/ g \in Notifier /\ NotifierStep(g)
     \/ WriterStep(g)

TakeWork ==
  (\E w \in Worker : Dispatch(w)) \/ (\E k \in Notifier : TakeOnline(k))

LoginFairness == \A s \in Sess : SF_vars(LoginRoutine(s))

LoopFairness ==
  /\ \A s \in Sess : SF_vars(ReadLoop(s)) /\ WF_vars(WriteLoop(s))
  /\ \A g \in Worker \cup Notifier \cup Web : SF_vars(Working(g))
  /\ WF_vars(TakeWork)

FairSpec == Spec /\ LoginFairness /\ LoopFairness

----------------------------------------------------------------------------
(* What the goroutines promise together: allSessions behaves as module     *)
(* SessionRegistry says, a session being registered from the moment it is  *)
(* entered and gone from the moment its readLoop has left the critical     *)
(* section of the teardown (wssession.go:192-197).                         *)
lifeOf == [s \in Sess |-> IF login[s] \in {"new", "rejected", "register"} THEN "new"
                          ELSE IF rl[s] = "done" THEN "gone" ELSE "registered"]

Registry == INSTANCE SessionRegistry WITH life <- lifeOf

RefinesRegistry == Registry!RegistrySpec

(* A lookup in allSessions never returns a session whose teardown is over, *)
(* nor the session of another node: a session whose writeLoop has ended    *)
(* for good cannot swallow what is pushed to its node.                     *)
LookupsLive ==
  \A n \in NodeID : allSessions[n] # NoSess =>
     /\ nodeID[allSessions[n]] = n
     /\ rl[allSessions[n]] # "done"

(* The goroutines committed to a send on session s: they have seen running *)
(* and have not sent yet.                                                  *)
Committed(s) == {g \in Writer : stage[g] = "send" /\ Head(todo[g]) = s}

(* Because readLoop clears running before it closes writeCh, nobody        *)
(* commits to a send on a channel that is already closed: only senders     *)
(* that had looked before the teardown can run into the panic.             *)
NoLateSender == [][\A s \in Sess : chClosed[s] => Committed(s)' \subseteq Committed(s)]_vars

(* dealOne writes to the sessions that are in the map at that moment: its  *)
(* lock keeps logins and teardowns out until the last write.               *)
BroadcastTargetsMapped ==
  \A k \in lockW : \A i \in DOMAIN todo[k] : todo[k][i] \in Mapped

(* "persist device record so it shows up even when offline"                *)
(* (wssession.go:144): a device that has gone offline has a record,        *)
(* however soon after its login the connection fails.                      *)
OfflineListed == \A s \in Sess : rl[s] = "done" => nodeID[s] \in devices

(* PushNotifyChan tests the length of onlineNodes and sends in two steps;  *)
(* the room it leaves is enough that the send never waits, however many    *)
(* workers pass the test together.                                         *)
NotifyNeverBlocks == \A w \in Worker : stage[w] = "notify" => onlineNodes < ChanSize

(* The next step of a goroutine that is in the middle of something is      *)
(* possible.                                                               *)
CanGoOn(g) ==
  \/ stage[g] \in {"reply", "report", "test"}
  \/ stage[g] \in {"push", "query", "deal"} /\ LockFree
  \/ stage[g] = "relay" /\ RLockFree
  \/ stage[g] = "notify" /\ onlineNodes < ChanSize
  \/ /\ stage[g] = "send"
     /\ LET s == Head(todo[g]) IN chClosed[s] \/ writeCh[s] < WriteCap

(* Some goroutine of s can go on and makes room in writeCh or closes it:   *)
(* handleLogin, if the loops have not started; writeLoop; or readLoop, if  *)
(* writeLoop has ended at a failed write (readLoop closes the channel only *)
(* when a read fails, see Clogged below).                                  *)
Served(s) ==
  \/ login[s] \in {"persist", "spawn"}
  \/ wl[s] \in {"test", "write"} \/ (wl[s] = "recv" /\ writeCh[s] > 0)
  \/ /\ wl[s] = "exit"
     /\ rl[s] \in {"read", "close"} \/ (rl[s] = "enqueue" /\ Len(MsgQueue) < QueueCap)

(* Nobody makes room for s before a worker takes a message.                *)
Jammed(s) == wl[s] = "exit" /\ rl[s] = "enqueue" /\ Len(MsgQueue) = QueueCap

(* Whoever others wait for, be it for the lock, a place in writeCh or one  *)
(* in onlineNodes, can go on or waits for a session's goroutine that can:  *)
(* the locks that dealOne and relayHandler keep over their writes, the     *)
(* full channels and the loops never wait for each other in a circle       *)
(* (notify.go:32, relayhandler.go:42), not even for a session that others  *)
(* find before its loops run (wssession.go:140).  The only circle left     *)
(* goes through a full MsgQueue.                                           *)
NoCircularWait ==
  Up => \A g \in Writer :
    (g \in lockW \cup lockR \/ stage[g] \in {"notify", "send"}) =>
      \/ CanGoOn(g)
      \/ /\ stage[g] = "send"
         /\ LET s == Head(todo[g]) IN Served(s) \/ Jammed(s)

(* The writeLoop of s has ended at a failed write, but its peer still      *)
(* sends: readLoop does not tear s down, and nobody makes room in its full *)
(* writeCh.                                                                *)
Clogged(s) ==
  wl[s] = "exit" /\ rl[s] \in {"read", "enqueue"} /\ writeCh[s] = WriteCap

WaitsAt(g, s) == stage[g] = "send" /\ Head(todo[g]) = s

(* The teardown of s has begun and is not over: readLoop has not left the  *)
(* map, or writeLoop has not returned.                                     *)
TearingDown(s) ==
  rl[s] \in {"close", "unmap", "done"} /\ ~(rl[s] = "done" /\ wl[s] = "exit")

(* A session whose read fails is torn down to the end (no teardown lasts   *)
(* for ever), unless a goroutine that holds the lock (dealOne over its     *)
(* writes, relayHandler over its answer) waits for ever at a clogged       *)
(* session: no other circle of the lock, the channels and the loops of     *)
(* several sessions keeps a teardown from its end.                         *)
TeardownCompletes ==
  \/ \A s \in Sess : []<>(TearingDown(s) => panicked)
  \/ \E t \in Sess : <>[](Clogged(t) /\ \E g \in lockW \cup lockR : WaitsAt(g, t))

(* A goroutine that writes to sessions can be stuck for ever only while    *)
(* somebody waits for ever at a clogged session, or itself at its own      *)
(* session's full rspCh: the full writeChs, MsgQueue, allSessionsMtx and   *)
(* the loops alone never keep each other waiting for ever, as long as      *)
(* peers take what is written to them and the process lives.               *)
OnlyCloggedStalls ==
  \A g \in Worker \cup Notifier \cup Web :
    \/ []<>(stage[g] = "idle")
    \/ <>[](panicked \/ stage[g] = "answer")
    \/ \E t \in Sess : <>[](Clogged(t) /\ \E h \in Writer : WaitsAt(h, t))
=============================================================================
