---------------------------- MODULE DeviceQuery ----------------------------
(***************************************************************************)
(* Web requests that ask an online device for something and wait for its   *)
(* answer: listApps and getDeviceLog.  All of them share the one channel   *)
(* rspCh of the device's session, and an answer does not say which request *)
(* it belongs to.  The device answers over its connection, and reports     *)
(* unasked when it likes: nothing ties a report to a request.  The message *)
(* workers (reportHandler) move reports into rspCh, each worker on its own *)
(* and therefore in any order; a request that times out leaves its answer  *)
(* for whoever receives next.  The model is of one session; an answer is   *)
(* represented by the request it answers.                                  *)
(***************************************************************************)
EXTENDS Integers, Sequences, FiniteSets

CONSTANTS
  Request,   \* web requests for the device
  LogReq,    \* the requests that are getDeviceLog; the others are listApps
  Worker,    \* message workers
  RspCap,    \* capacity of rspCh (10)
  None,      \* no request
  Unasked,   \* a report that answers no request, or answers one again
  MaxUnasked \* bound of the model: such reports

ASSUME QueryAssumption ==
  /\ LogReq \subseteq Request /\ None \notin Request
  /\ Unasked \notin Request \cup {None}
  /\ RspCap \in Nat \ {0} /\ MaxUnasked \in Nat

VARIABLES
  pc,        \* where each request is
  got,       \* the answer a request was given
  toDevice,  \* requests written to the session and not yet at the device
  MsgQueue,  \* reports waiting for a worker
  held,      \* the report a worker is about to send to rspCh
  rspCh,     \* wssSession.rspCh
  alone,     \* history: requests that met and meet no other traffic (see Quiet)
  unasked    \* history: the number of reports nobody asked for

vars == <<pc, got, toDevice, MsgQueue, held, rspCh, alone, unasked>>

(* The reports that go to rspCh.                                           *)
Report == Request \cup {Unasked}

TypeOK ==
  /\ pc \in [Request -> {"new", "drain", "write", "wait", "answered", "timeout"}]
  /\ got \in [Request -> Report \cup {None}]
  /\ toDevice \in Seq(Request)
  /\ MsgQueue \in Seq(Report)
  /\ held \in [Worker -> Report \cup {None}]
  /\ rspCh \in Seq(Report) /\ Len(rspCh) <= RspCap
  /\ alone \in SUBSET Request
  /\ unasked \in 0..MaxUnasked

Init ==
  /\ pc = [r \in Request |-> "new"]
  /\ got = [r \in Request |-> None]
  /\ toDevice = <<>> /\ MsgQueue = <<>> /\ rspCh = <<>>
  /\ held = [w \in Worker |-> None]
  /\ alone = {} /\ unasked = 0

(* The web handler finds the device's session in allSessions.              *)
Lookup(r) ==
  /\ pc[r] = "new"
  /\ pc' = [pc EXCEPT ![r] = IF r \in LogReq THEN "drain" ELSE "write"]
  /\ UNCHANGED <<got, toDevice, MsgQueue, held, rspCh, alone, unasked>>

(* History: no other request is on its way, nothing is on the way to or    *)
(* from the device, and rspCh holds at most n answers.                     *)
Quiet(r, n) ==
  /\ \A q \in Request \ {r} : pc[q] \notin {"drain", "write", "wait"}
  /\ toDevice = <<>> /\ MsgQueue = <<>>
  /\ \A w \in Worker : held[w] = None
  /\ Len(rspCh) <= n

(* Mutant: nothing is drained.                                             *)
DrainNothing(r) ==
  /\ pc[r] = "drain"
  /\ pc' = [pc EXCEPT ![r] = "write"]
  /\ alone' = IF Quiet(r, 1) THEN {r} ELSE {}
  /\ UNCHANGED <<got, toDevice, MsgQueue, held, rspCh, unasked>>

(* getDeviceLog's select with a default: one answer is thrown away, if     *)
(* there is one.                                                           *)
Drain(r) ==
  /\ pc[r] = "drain"
  /\ rspCh' = IF rspCh = <<>> THEN rspCh ELSE Tail(rspCh)
  /\ pc' = [pc EXCEPT ![r] = "write"]
  /\ alone' = IF Quiet(r, 1) THEN {r} ELSE {}
  /\ UNCHANGED <<got, toDevice, MsgQueue, held, unasked>>

(* Mutant: the request is sent once more for good measure.                 *)
WriteTwice(r) ==
  /\ pc[r] = "write"
  /\ toDevice' = toDevice \o <<r, r>>
  /\ pc' = [pc EXCEPT ![r] = "wait"]
  /\ alone' = IF r \in LogReq THEN alone \cap {r} ELSE IF Quiet(r, 0) THEN {r} ELSE {}
  /\ UNCHANGED <<got, MsgQueue, held, rspCh, unasked>>

Write(r) ==
  /\ pc[r] = "write"
  /\ toDevice' = Append(toDevice, r)
  /\ pc' = [pc EXCEPT ![r] = "wait"]
  /\ alone' = IF r \in LogReq THEN alone \cap {r} ELSE IF Quiet(r, 0) THEN {r} ELSE {}
  /\ UNCHANGED <<got, MsgQueue, held, rspCh, unasked>>

(* The device: it answers the requests in the order it gets them, as late  *)
(* as it likes, and may leave one unanswered.                              *)
DeviceAnswers ==
  /\ toDevice # <<>>
  /\ toDevice' = Tail(toDevice)
  /\ MsgQueue' = Append(MsgQueue, Head(toDevice))
  /\ UNCHANGED <<pc, got, held, rspCh, alone, unasked>>

DeviceIgnores ==
  /\ toDevice # <<>>
  /\ toDevice' = Tail(toDevice)
  /\ UNCHANGED <<pc, got, MsgQueue, held, rspCh, alone, unasked>>

(* The device sends a MsgReportQuery (which nobody requests), a            *)
(* MsgReportApps or a MsgPushReportLog of its own accord or a second time. *)
DeviceReports ==
  /\ unasked < MaxUnasked
  /\ unasked' = unasked + 1
  /\ MsgQueue' = Append(MsgQueue, Unasked)
  /\ alone' = {}
  /\ UNCHANGED <<pc, got, toDevice, held, rspCh>>

Dispatch(w) ==
  /\ held[w] = None /\ MsgQueue # <<>>
  /\ held' = [held EXCEPT ![w] = Head(MsgQueue)]
  /\ MsgQueue' = Tail(MsgQueue)
  /\ UNCHANGED <<pc, got, toDevice, rspCh, alone, unasked>>

(* Mutant: the channel takes one answer more than it holds.                *)
HandleReportOverfull(w) ==
  /\ held[w] # None /\ Len(rspCh) <= RspCap
  /\ rspCh' = Append(rspCh, held[w])
  /\ held' = [held EXCEPT ![w] = None]
  /\ UNCHANGED <<pc, got, toDevice, MsgQueue, alone, unasked>>

(* reportHandler sends the report to rspCh and waits while it is full.     *)
HandleReport(w) ==
  /\ held[w] # None /\ Len(rspCh) < RspCap
  /\ rspCh' = Append(rspCh, held[w])
  /\ held' = [held EXCEPT ![w] = None]
  /\ UNCHANGED <<pc, got, toDevice, MsgQueue, alone, unasked>>

(* The select of a waiting request: an answer, or ClientAPITimeout.        *)
Receive(r) ==
  /\ pc[r] = "wait" /\ rspCh # <<>>
  /\ got' = [got EXCEPT ![r] = Head(rspCh)]
  /\ rspCh' = Tail(rspCh)
  /\ pc' = [pc EXCEPT ![r] = "answered"]
  /\ UNCHANGED <<toDevice, MsgQueue, held, alone, unasked>>

Timeout(r) ==
  /\ pc[r] = "wait"
  /\ pc' = [pc EXCEPT ![r] = "timeout"]
  /\ UNCHANGED <<got, toDevice, MsgQueue, held, rspCh, alone, unasked>>

Next ==
  \/ \E r \in Request : Lookup(r) \/ Drain(r) \/ Write(r) \/ Receive(r) \/ Timeout(r)
  \/ DeviceAnswers \/ DeviceIgnores \/ DeviceReports
  \/ \E w \in Worker : Dispatch(w) \/ HandleReport(w)

Spec == Init /\ [][Next]_vars

----------------------------------------------------------------------------
(* A request that meets no other traffic is given its own answer or none,  *)
(* although answers carry no request id: for getDeviceLog even when an     *)
(* earlier request has left one answer behind, which the drain removes.    *)
OwnAnswer == \A r \in alone : got[r] \in {r, None}

(* A worker waits at a full rspCh only if the requests without an answer,  *)
(* still waiting or timed out, and the reports nobody asked for are        *)
(* together more than rspCh has places: what piles up there comes from     *)
(* time-outs and from the device, each counting once, and from nothing     *)
(* else.                                                                   *)
Unanswered == {r \in Request : pc[r] \in {"wait", "timeout"}}

BlockedByLeftovers ==
  (\E w \in Worker : held[w] # None /\ Len(rspCh) = RspCap)
     => Cardinality(Unanswered) + unasked > RspCap

(* "drain any stale response before sending a new request" (web.go:320):   *)
(* after the drain rspCh holds no answer to a request that is over.        *)
StaleDrained ==
  [][\A r \in LogReq : Drain(r) =>
        \A q \in Request : pc[q] \in {"answered", "timeout"} =>
           \A i \in DOMAIN rspCh' : rspCh'[i] # q]_vars
=============================================================================
