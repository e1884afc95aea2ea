------------------------- MODULE DeviceQueryProofs -------------------------
(***************************************************************************)
(* Proofs about module DeviceQuery, for every set of requests and workers, *)
(* every capacity of rspCh and every number of reports nobody asked for.   *)
(***************************************************************************)
EXTENDS DeviceQuery, FiniteSetTheorems, TLAPS

Holding == {w \in Worker : held[w] # None}

(* Each report on its way, at a worker or in rspCh is the answer of a      *)
(* request without an answer or one nobody asked for: whoever takes one    *)
(* out of rspCh either has been given it or throws it away.                *)
CountOK ==
  /\ IsFiniteSet(Unanswered) /\ IsFiniteSet(Holding)
  /\ Len(toDevice) + Len(MsgQueue) + Cardinality(Holding) + Len(rspCh)
       <= Cardinality(Unanswered) + unasked

(* A request that has not been answered has no answer, and only            *)
(* getDeviceLog drains.                                                    *)
PcOK ==
  \A r \in Request : /\ pc[r] # "answered" => got[r] = None
                     /\ pc[r] = "drain" => r \in LogReq

AllAre(q, r) == \A i \in DOMAIN q : q[i] = r

(* While a request is alone, there is no answer but its own and nobody     *)
(* else to take it.                                                        *)
AloneOK ==
  \A r \in alone :
    /\ pc[r] # "new" /\ got[r] \in {r, None}
    /\ \A q \in Request \ {r} : pc[q] # "wait"
    /\ AllAre(toDevice, r) /\ AllAre(MsgQueue, r) /\ AllAre(rspCh, r)
    /\ \A w \in Worker : held[w] \in {r, None}

Inv == TypeOK /\ CountOK /\ PcOK /\ AloneOK

USE QueryAssumption

----------------------------------------------------------------------------
(* Queues: what the first element, the others and one more are.            *)
LEMMA TailFacts ==
  ASSUME NEW T, NEW q \in Seq(T), q # <<>>
  PROVE  /\ Tail(q) \in Seq(T) /\ Head(q) \in T /\ Len(q) > 0
         /\ Len(Tail(q)) = Len(q) - 1
         /\ \A r \in T : AllAre(q, r) => AllAre(Tail(q), r) /\ Head(q) = r
  BY DEF AllAre

LEMMA AppendFacts ==
  ASSUME NEW T, NEW q \in Seq(T), NEW x \in T
  PROVE  /\ Append(q, x) \in Seq(T) /\ Len(Append(q, x)) = Len(q) + 1
         /\ \A r \in T : AllAre(q, r) /\ x = r => AllAre(Append(q, x), r)
  BY DEF AllAre

(* The empty queue and the tail of a queue of one.                         *)
LEMMA EmptyFacts ==
  ASSUME NEW T, NEW q \in Seq(T)
  PROVE  /\ Len(q) = 0 => q = <<>>
         /\ \A r \in T : AllAre(<<>>, r)
         /\ q # <<>> /\ Len(q) <= 1 => Tail(q) = <<>>
  BY DEF AllAre

(* The number of requests without an answer, when one starts to wait and   *)
(* when one is answered.                                                   *)
LEMMA UnansweredMore ==
  ASSUME TypeOK, IsFiniteSet(Unanswered), NEW r \in Request, pc[r] = "write",
         pc' = [pc EXCEPT ![r] = "wait"]
  PROVE  /\ IsFiniteSet(Unanswered') /\ Cardinality(Unanswered') = Cardinality(Unanswered) + 1
<1>1. Unanswered' = Unanswered \cup {r} /\ r \notin Unanswered
  BY DEF Unanswered, TypeOK
<1> QED
  BY <1>1, FS_AddElement

LEMMA UnansweredLess ==
  ASSUME TypeOK, IsFiniteSet(Unanswered), NEW r \in Request, pc[r] = "wait",
         pc' = [pc EXCEPT ![r] = "answered"]
  PROVE  /\ IsFiniteSet(Unanswered') /\ Cardinality(Unanswered') = Cardinality(Unanswered) - 1
<1>1. Unanswered' = Unanswered \ {r} /\ r \in Unanswered
  BY DEF Unanswered, TypeOK
<1> QED
  BY <1>1, FS_RemoveElement

(* The number of workers that hold a report.                               *)
LEMMA HoldingMore ==
  ASSUME TypeOK, IsFiniteSet(Holding), NEW w \in Worker, held[w] = None, NEW x \in Report,
         held' = [held EXCEPT ![w] = x]
  PROVE  /\ IsFiniteSet(Holding') /\ Cardinality(Holding') = Cardinality(Holding) + 1
<1>1. Holding' = Holding \cup {w} /\ w \notin Holding
  BY DEF Holding, TypeOK, Report
<1> QED
  BY <1>1, FS_AddElement

LEMMA HoldingLess ==
  ASSUME TypeOK, IsFiniteSet(Holding), NEW w \in Worker, held[w] # None,
         held' = [held EXCEPT ![w] = None]
  PROVE  /\ IsFiniteSet(Holding') /\ Cardinality(Holding') = Cardinality(Holding) - 1
<1>1. Holding' = Holding \ {w} /\ w \in Holding
  BY DEF Holding, TypeOK
<1> QED
  BY <1>1, FS_RemoveElement

(* Counts are numbers.                                                     *)
LEMMA Numbers ==
  ASSUME TypeOK, CountOK
  PROVE  /\ Len(toDevice) \in Nat /\ Len(MsgQueue) \in Nat /\ Len(rspCh) \in Nat
         /\ Cardinality(Holding) \in Nat /\ Cardinality(Unanswered) \in Nat /\ unasked \in Nat
  BY FS_CardinalityType DEF TypeOK, CountOK

----------------------------------------------------------------------------
(* The invariant holds at first, and every step keeps it.                  *)
LEMMA InvInit == Init => Inv
<1> SUFFICES ASSUME Init PROVE Inv
  OBVIOUS
<1>1. TypeOK /\ PcOK /\ AloneOK
  BY DEF Init, TypeOK, PcOK, AloneOK
<1>2. Unanswered = {} /\ Holding = {}
  BY DEF Init, Unanswered, Holding
<1>3. CountOK
  BY <1>2, FS_EmptySet DEF Init, CountOK
<1> QED
  BY <1>1, <1>3 DEF Inv

(* See InvInit: one step per operation.                                    *)
LEMMA InvStep ==
  ASSUME Inv, [Next]_vars
  PROVE  Inv'
<1>0. TypeOK /\ CountOK /\ PcOK /\ AloneOK
  BY DEF Inv
<1>1. ASSUME NEW r \in Request, Lookup(r)
      PROVE  Inv'
  <2>1. /\ pc[r] = "new" /\ pc'[r] = (IF r \in LogReq THEN "drain" ELSE "write")
        /\ \A q \in Request \ {r} : pc'[q] = pc[q]
        /\ UNCHANGED <<got, toDevice, MsgQueue, held, rspCh, alone, unasked>>
    BY <1>0, <1>1 DEF Lookup, TypeOK
  <2>2. TypeOK'
    BY <1>0, <1>1 DEF Lookup, TypeOK
  <2>3. Unanswered' = Unanswered /\ Holding' = Holding
    BY <2>1 DEF Unanswered, Holding
  <2>4. PcOK'
    BY <1>0, <2>1 DEF PcOK
  <2>5. AloneOK'
    <3>1. \A q \in alone : q # r
      BY <1>0, <2>1 DEF AloneOK
    <3>2. \A q \in Request : pc'[q] = "wait" => pc[q] = "wait"
      BY <2>1
    <3>3. \A q \in alone : pc'[q] # "new"
      BY <1>0, <2>1, <3>1 DEF AloneOK, TypeOK
    <3> QED
      BY <1>0, <2>1, <3>2, <3>3 DEF AloneOK, AllAre
  <2> QED
    BY <1>0, <2>1, <2>2, <2>3, <2>4, <2>5 DEF Inv, CountOK
<1>2. ASSUME NEW r \in Request, Drain(r)
      PROVE  Inv'
  <2>1. /\ pc[r] = "drain" /\ pc'[r] = "write" /\ r \in LogReq /\ got[r] = None
        /\ \A q \in Request \ {r} : pc'[q] = pc[q]
        /\ UNCHANGED <<got, toDevice, MsgQueue, held, unasked>>
        /\ rspCh' = IF rspCh = <<>> THEN rspCh ELSE Tail(rspCh)
        /\ alone' = IF Quiet(r, 1) THEN {r} ELSE {}
    BY <1>0, <1>2 DEF Drain, TypeOK, PcOK
  <2>2. rspCh' \in Seq(Report) /\ Len(rspCh') <= Len(rspCh) /\ Len(rspCh') \in Nat
    BY <1>0, <2>1, TailFacts DEF TypeOK
  <2>3. TypeOK'
    <3>1. pc' \in [Request -> {"new", "drain", "write", "wait", "answered", "timeout"}]
      BY <1>0, <1>2 DEF Drain, TypeOK
    <3>2. Len(rspCh') <= RspCap
      BY <1>0, <2>2 DEF TypeOK
    <3> QED
      BY <1>0, <2>1, <2>2, <3>1, <3>2 DEF TypeOK
  <2>4. CountOK'
    <3>1. Unanswered' = Unanswered /\ Holding' = Holding
      BY <2>1 DEF Unanswered, Holding
    <3> QED
      BY <1>0, <2>1, <2>2, <3>1, Numbers DEF CountOK
  <2>5. AloneOK'
    <3>1. CASE Quiet(r, 1)
      <4>1. toDevice = <<>> /\ MsgQueue = <<>> /\ rspCh' = <<>>
        BY <1>0, <2>1, <3>1, EmptyFacts DEF Quiet, TypeOK
      <4>2. /\ \A q \in Request \ {r} : pc'[q] # "wait"
            /\ \A w \in Worker : held'[w] = None
        BY <2>1, <3>1 DEF Quiet
      <4> QED
        BY <2>1, <3>1, <4>1, <4>2 DEF AloneOK, AllAre
    <3>2. CASE ~Quiet(r, 1)
      BY <2>1, <3>2 DEF AloneOK
    <3> QED
      BY <3>1, <3>2
  <2>6. PcOK'
    BY <1>0, <2>1 DEF PcOK
  <2> QED
    BY <2>3, <2>4, <2>5, <2>6 DEF Inv
<1>3. ASSUME NEW r \in Request, Write(r)
      PROVE  Inv'
  <2>1. /\ pc[r] = "write" /\ pc'[r] = "wait" /\ got[r] = None
        /\ \A q \in Request \ {r} : pc'[q] = pc[q]
        /\ UNCHANGED <<got, MsgQueue, held, rspCh, unasked>>
        /\ toDevice' = Append(toDevice, r) /\ pc' = [pc EXCEPT ![r] = "wait"]
        /\ alone' = IF r \in LogReq THEN alone \cap {r} ELSE IF Quiet(r, 0) THEN {r} ELSE {}
    BY <1>0, <1>3 DEF Write, TypeOK, PcOK
  <2>2. TypeOK'
    BY <1>0, <2>1, AppendFacts DEF TypeOK
  <2>3. CountOK'
    <3>1. /\ IsFiniteSet(Unanswered') /\ Cardinality(Unanswered') = Cardinality(Unanswered) + 1
      BY <1>0, <2>1, UnansweredMore DEF CountOK
    <3>2. Len(toDevice') = Len(toDevice) + 1 /\ Holding' = Holding
      BY <1>0, <2>1, AppendFacts DEF TypeOK, Holding
    <3> QED
      BY <1>0, <2>1, <3>1, <3>2, Numbers DEF CountOK
  <2>4. ASSUME r \in alone'
        PROVE  /\ \A q \in Request \ {r} : pc[q] # "wait"
               /\ AllAre(toDevice, r) /\ AllAre(MsgQueue, r) /\ AllAre(rspCh, r)
               /\ \A w \in Worker : held[w] \in {r, None}
    <3>1. CASE r \in alone
      BY <1>0, <3>1 DEF AloneOK
    <3>2. CASE Quiet(r, 0)
      <4>1. rspCh = <<>>
        <5>1. Len(rspCh) = 0
          BY <1>0, <3>2, Numbers DEF Quiet
        <5> QED
          BY <1>0, <5>1, EmptyFacts DEF TypeOK
      <4> QED
        BY <3>2, <4>1 DEF Quiet, AllAre
    <3> QED
      BY <2>1, <2>4, <3>1, <3>2
  <2>5. AloneOK'
    <3> SUFFICES ASSUME r \in alone'
                 PROVE  /\ pc'[r] # "new" /\ got'[r] \in {r, None}
                        /\ \A q \in Request \ {r} : pc'[q] # "wait"
                        /\ AllAre(toDevice', r) /\ AllAre(MsgQueue', r) /\ AllAre(rspCh', r)
                        /\ \A w \in Worker : held'[w] \in {r, None}
      BY <2>1 DEF AloneOK, AllAre
    <3>1. AllAre(toDevice', r)
      BY <1>0, <2>1, <2>4, AppendFacts DEF TypeOK
    <3> QED
      BY <2>1, <2>4, <3>1
  <2>6. PcOK'
    BY <1>0, <2>1 DEF PcOK
  <2> QED
    BY <2>2, <2>3, <2>5, <2>6 DEF Inv
<1>4. CASE DeviceAnswers
  <2>1. /\ toDevice # <<>> /\ toDevice' = Tail(toDevice) /\ Head(toDevice) \in Request
        /\ MsgQueue' = Append(MsgQueue, Head(toDevice))
        /\ UNCHANGED <<pc, got, held, rspCh, alone, unasked>>
    BY <1>0, <1>4, TailFacts DEF DeviceAnswers, TypeOK
  <2>2. /\ toDevice' \in Seq(Request) /\ Len(toDevice') = Len(toDevice) - 1
        /\ MsgQueue' \in Seq(Report) /\ Len(MsgQueue') = Len(MsgQueue) + 1
    <3>1. Head(toDevice) \in Report
      BY <2>1 DEF Report
    <3> QED
      BY <1>0, <2>1, <3>1, TailFacts, AppendFacts DEF TypeOK
  <2>3. TypeOK'
    BY <1>0, <2>1, <2>2 DEF TypeOK
  <2>4. CountOK'
    <3>1. Unanswered' = Unanswered /\ Holding' = Holding
      BY <2>1 DEF Unanswered, Holding
    <3> QED
      BY <1>0, <2>1, <2>2, <3>1, Numbers DEF CountOK
  <2>5. AloneOK'
    <3>1. ASSUME NEW r \in alone
          PROVE  AllAre(toDevice', r) /\ AllAre(MsgQueue', r)
      <4>1. r \in Request /\ r \in Report /\ AllAre(toDevice, r) /\ AllAre(MsgQueue, r)
        BY <1>0, <3>1 DEF TypeOK, AloneOK, Report
      <4>2. AllAre(toDevice', r) /\ Head(toDevice) = r
        BY <1>0, <2>1, <4>1, TailFacts DEF TypeOK
      <4> QED
        BY <1>0, <2>1, <4>1, <4>2, AppendFacts DEF TypeOK
    <3> QED
      BY <1>0, <2>1, <3>1 DEF AloneOK, AllAre
  <2> QED
    BY <1>0, <2>1, <2>3, <2>4, <2>5 DEF Inv, PcOK
<1>5. CASE DeviceIgnores
  <2>1. /\ toDevice # <<>> /\ toDevice' = Tail(toDevice)
        /\ UNCHANGED <<pc, got, MsgQueue, held, rspCh, alone, unasked>>
    BY <1>5 DEF DeviceIgnores
  <2>2. TypeOK'
    BY <1>0, <2>1, TailFacts DEF TypeOK
  <2>3. CountOK'
    <3>1. Len(toDevice') = Len(toDevice) - 1
      BY <1>0, <2>1, TailFacts DEF TypeOK
    <3>2. Unanswered' = Unanswered /\ Holding' = Holding
      BY <2>1 DEF Unanswered, Holding
    <3> QED
      BY <1>0, <2>1, <3>1, <3>2, Numbers DEF CountOK
  <2>4. AloneOK'
    <3>1. ASSUME NEW r \in alone
          PROVE  AllAre(toDevice', r)
      BY <1>0, <2>1, TailFacts DEF TypeOK, AloneOK
    <3> QED
      BY <1>0, <2>1, <3>1 DEF AloneOK, AllAre
  <2> QED
    BY <1>0, <2>1, <2>2, <2>3, <2>4 DEF Inv, PcOK
<1>6. ASSUME NEW w \in Worker, Dispatch(w)
      PROVE  Inv'
  <2>1. /\ held[w] = None /\ MsgQueue # <<>> /\ Head(MsgQueue) \in Report
        /\ held' = [held EXCEPT ![w] = Head(MsgQueue)] /\ MsgQueue' = Tail(MsgQueue)
        /\ UNCHANGED <<pc, got, toDevice, rspCh, alone, unasked>>
    BY <1>0, <1>6, TailFacts DEF Dispatch, TypeOK
  <2>2. TypeOK'
    BY <1>0, <2>1, TailFacts DEF TypeOK
  <2>3. CountOK'
    <3>1. IsFiniteSet(Holding') /\ Cardinality(Holding') = Cardinality(Holding) + 1
      BY <1>0, <2>1, HoldingMore DEF CountOK
    <3>2. Len(MsgQueue') = Len(MsgQueue) - 1 /\ Unanswered' = Unanswered
      BY <1>0, <2>1, TailFacts DEF TypeOK, Unanswered
    <3> QED
      BY <1>0, <2>1, <3>1, <3>2, Numbers DEF CountOK
  <2>4. AloneOK'
    <3>1. ASSUME NEW r \in alone
          PROVE  AllAre(MsgQueue', r) /\ Head(MsgQueue) = r
      <4>1. r \in Report /\ AllAre(MsgQueue, r)
        BY <1>0, <3>1 DEF TypeOK, AloneOK, Report
      <4> QED
        BY <1>0, <2>1, <4>1, TailFacts DEF TypeOK
    <3>2. \A v \in Worker \ {w} : held'[v] = held[v]
      BY <1>0, <2>1 DEF TypeOK
    <3>3. held'[w] = Head(MsgQueue)
      BY <1>0, <2>1 DEF TypeOK
    <3> QED
      BY <1>0, <2>1, <3>1, <3>2, <3>3 DEF AloneOK, AllAre
  <2> QED
    BY <1>0, <2>1, <2>2, <2>3, <2>4 DEF Inv, PcOK
<1>7. ASSUME NEW w \in Worker, HandleReport(w)
      PROVE  Inv'
  <2>1. /\ held[w] # None /\ held[w] \in Report /\ Len(rspCh) < RspCap
        /\ rspCh' = Append(rspCh, held[w]) /\ held' = [held EXCEPT ![w] = None]
        /\ UNCHANGED <<pc, got, toDevice, MsgQueue, alone, unasked>>
    BY <1>0, <1>7 DEF HandleReport, TypeOK
  <2>2. TypeOK'
    <3>1. rspCh' \in Seq(Report) /\ Len(rspCh') <= RspCap
      BY <1>0, <2>1, AppendFacts, Numbers DEF TypeOK
    <3> QED
      BY <1>0, <2>1, <3>1 DEF TypeOK
  <2>3. CountOK'
    <3>1. IsFiniteSet(Holding') /\ Cardinality(Holding') = Cardinality(Holding) - 1
      BY <1>0, <2>1, HoldingLess DEF CountOK
    <3>2. Len(rspCh') = Len(rspCh) + 1 /\ Unanswered' = Unanswered
      BY <1>0, <2>1, AppendFacts DEF TypeOK, Unanswered
    <3> QED
      BY <1>0, <2>1, <3>1, <3>2, Numbers DEF CountOK
  <2>4. AloneOK'
    <3>1. ASSUME NEW r \in alone
          PROVE  AllAre(rspCh', r)
      <4>1. r \in Report /\ AllAre(rspCh, r) /\ held[w] = r
        BY <1>0, <2>1, <3>1 DEF TypeOK, AloneOK, Report
      <4> QED
        BY <1>0, <2>1, <4>1, AppendFacts DEF TypeOK
    <3>2. \A v \in Worker : held'[v] \in {held[v], None}
      BY <1>0, <2>1 DEF TypeOK
    <3> QED
      BY <1>0, <2>1, <3>1, <3>2 DEF AloneOK, AllAre
  <2> QED
    BY <1>0, <2>1, <2>2, <2>3, <2>4 DEF Inv, PcOK
<1>8. ASSUME NEW r \in Request, Receive(r)
      PROVE  Inv'
  <2>1. /\ pc[r] = "wait" /\ rspCh # <<>> /\ Head(rspCh) \in Report
        /\ got' = [got EXCEPT ![r] = Head(rspCh)] /\ rspCh' = Tail(rspCh)
        /\ pc' = [pc EXCEPT ![r] = "answered"]
        /\ UNCHANGED <<toDevice, MsgQueue, held, alone, unasked>>
    BY <1>0, <1>8, TailFacts DEF Receive, TypeOK
  <2>2. rspCh' \in Seq(Report) /\ Len(rspCh') = Len(rspCh) - 1
    BY <1>0, <2>1, TailFacts DEF TypeOK
  <2>3. TypeOK'
    <3>1. Len(rspCh') <= RspCap
      BY <1>0, <2>2, Numbers DEF TypeOK
    <3> QED
      BY <1>0, <2>1, <2>2, <3>1 DEF TypeOK
  <2>4. CountOK'
    <3>1. IsFiniteSet(Unanswered') /\ Cardinality(Unanswered') = Cardinality(Unanswered) - 1
      BY <1>0, <2>1, UnansweredLess DEF CountOK
    <3>2. Holding' = Holding
      BY <2>1 DEF Holding
    <3> QED
      BY <1>0, <2>1, <2>2, <3>1, <3>2, Numbers DEF CountOK
  <2>5. /\ pc'[r] = "answered" /\ got'[r] = Head(rspCh)
        /\ \A q \in Request \ {r} : pc'[q] = pc[q] /\ got'[q] = got[q]
    BY <1>0, <2>1 DEF TypeOK
  <2>6. AloneOK'
    <3>1. ASSUME NEW q \in alone
          PROVE  q = r /\ AllAre(rspCh', q) /\ Head(rspCh) = q
      <4>1. q \in Report /\ AllAre(rspCh, q) /\ q = r
        BY <1>0, <2>1, <3>1 DEF TypeOK, AloneOK, Report
      <4> QED
        BY <1>0, <2>1, <4>1, TailFacts DEF TypeOK
    <3> QED
      BY <1>0, <2>1, <2>5, <3>1 DEF AloneOK, AllAre
  <2>7. PcOK'
    BY <1>0, <2>5 DEF PcOK
  <2> QED
    BY <2>3, <2>4, <2>6, <2>7 DEF Inv
<1>9. ASSUME NEW r \in Request, Timeout(r)
      PROVE  Inv'
  <2>1. /\ pc[r] = "wait" /\ pc'[r] = "timeout" /\ \A q \in Request \ {r} : pc'[q] = pc[q]
        /\ UNCHANGED <<got, toDevice, MsgQueue, held, rspCh, alone, unasked>>
    BY <1>0, <1>9 DEF Timeout, TypeOK
  <2>2. TypeOK'
    BY <1>0, <1>9 DEF Timeout, TypeOK
  <2>3. Unanswered' = Unanswered /\ Holding' = Holding
    BY <2>1 DEF Unanswered, Holding
  <2>4. PcOK'
    BY <1>0, <2>1 DEF PcOK
  <2>5. AloneOK'
    BY <1>0, <2>1 DEF AloneOK, AllAre
  <2> QED
    BY <1>0, <2>1, <2>2, <2>3, <2>4, <2>5 DEF Inv, CountOK
<1>10. CASE DeviceReports
  <2>1. /\ unasked < MaxUnasked /\ unasked' = unasked + 1 /\ alone' = {}
        /\ MsgQueue' = Append(MsgQueue, Unasked) /\ Unasked \in Report
        /\ UNCHANGED <<pc, got, toDevice, held, rspCh>>
    BY <1>10 DEF DeviceReports, Report
  <2>2. MsgQueue' \in Seq(Report) /\ Len(MsgQueue') = Len(MsgQueue) + 1
    BY <1>0, <2>1, AppendFacts DEF TypeOK
  <2>3. TypeOK'
    BY <1>0, <2>1, <2>2 DEF TypeOK
  <2>4. CountOK'
    <3>1. Unanswered' = Unanswered /\ Holding' = Holding
      BY <2>1 DEF Unanswered, Holding
    <3>2. /\ Len(toDevice') = Len(toDevice) /\ Len(rspCh') = Len(rspCh)
          /\ Len(MsgQueue') = Len(MsgQueue) + 1 /\ unasked' = unasked + 1
      BY <2>1, <2>2
    <3>3. Len(toDevice) + Len(MsgQueue) + Cardinality(Holding) + Len(rspCh)
            <= Cardinality(Unanswered) + unasked
      BY <1>0 DEF CountOK
    <3>4. Len(toDevice') + Len(MsgQueue') + Cardinality(Holding') + Len(rspCh')
            <= Cardinality(Unanswered') + unasked'
      BY <1>0, <3>1, <3>2, <3>3, Numbers
    <3> QED
      BY <1>0, <3>1, <3>4 DEF CountOK
  <2>5. PcOK' /\ AloneOK'
    BY <1>0, <2>1 DEF PcOK, AloneOK
  <2> QED
    BY <2>3, <2>4, <2>5 DEF Inv
<1>11. CASE UNCHANGED vars
  BY <1>11 DEF vars, Inv, TypeOK, CountOK, PcOK, AloneOK, AllAre, Unanswered, Holding
<1> QED
  BY <1>1, <1>2, <1>3, <1>4, <1>5, <1>6, <1>7, <1>8, <1>9, <1>10, <1>11 DEF Next

(* The invariant of all behaviours.                                        *)
LEMMA Invariance == Spec => []Inv
  BY InvInit, InvStep, PTL DEF Spec

----------------------------------------------------------------------------
(* The state is well typed: rspCh holds no more than its capacity.         *)
THEOREM QueryTypeCorrect == Spec => []TypeOK
<1>1. Inv => TypeOK
  BY DEF Inv
<1> QED
  BY <1>1, Invariance, PTL

(* A request that meets no other traffic is given its own answer or none   *)
(* (web.go:321).                                                           *)
THEOREM AnswersAreOwn == Spec => []OwnAnswer
<1>1. Inv => OwnAnswer
  BY DEF Inv, AloneOK, OwnAnswer
<1> QED
  BY <1>1, Invariance, PTL

(* A worker waits at a full rspCh only if the requests without an answer   *)
(* and the reports nobody asked for are together more than rspCh has       *)
(* places (reporthandler.go:65-73).                                        *)
THEOREM BlockedOnlyByLeftovers == Spec => []BlockedByLeftovers
<1>1. ASSUME Inv, NEW w \in Worker, held[w] # None, Len(rspCh) = RspCap
      PROVE  Cardinality(Unanswered) + unasked > RspCap
  <2>1. w \in Holding /\ IsFiniteSet(Holding)
    BY <1>1 DEF Inv, CountOK, Holding
  <2>2. Cardinality(Holding) > 0
    BY <2>1, FS_EmptySet, FS_CardinalityType
  <2> QED
    BY <1>1, <2>2, Numbers DEF Inv, CountOK
<1>2. Inv => BlockedByLeftovers
  BY <1>1 DEF BlockedByLeftovers
<1> QED
  BY <1>2, Invariance, PTL
=============================================================================
