-------------------------- MODULE LoginGuardProofs --------------------------
(***************************************************************************)
(* Proofs about module LoginGuard, for every set of keys and requests and  *)
(* every limit.                                                            *)
(***************************************************************************)
EXTENDS LoginGuard, TLAPS

USE GuardAssumption

(* A key without a record has no counter, window or lock.                  *)
Cleared ==
  \A k \in Key \ records : fails[k] = 0 /\ firstFail[k] = 0 /\ lockedTill[k] = 0

(* No lock reaches further than a lock set now would.                      *)
Ahead == \A k \in Key : lockedTill[k] <= now + LockDuration

TypeInv == TypeOK /\ Cleared /\ Ahead

(* The guard starts without a record and with no request in flight.        *)
LEMMA TypeInit == Init => TypeInv
  BY DEF Init, TypeInv, TypeOK, Cleared, Ahead

(* Garbage collection drops records only, and none that is locked.         *)
LEMMA KeptRecords ==
  ASSUME TypeOK, NEW k \in Key
  PROVE  /\ Kept(k) \subseteq records
         /\ \A j \in records \ Kept(k) : lockedTill[j] < now /\ Stale(j)
  BY DEF Kept, gcLocked, TypeOK

(* The counter a failure leaves behind stays below the limit.              *)
LEMMA CountType ==
  ASSUME TypeOK, NEW k \in Key
  PROVE  Count(k) \in 1..MaxFails /\ (~Locks(k) => Count(k) \in 1..(MaxFails - 1))
  BY DEF Count, Locks, TypeOK

(* Every step keeps the types, clears the counter of a locked key and      *)
(* leaves deadlines ahead of the clock (loginsecurity.go:105-127).         *)
LEMMA TypeStep == TypeInv /\ [Next]_vars => TypeInv'
<1> SUFFICES ASSUME TypeInv, [Next]_vars PROVE TypeInv'
  OBVIOUS
<1> USE DEF TypeInv, TypeOK, Cleared, Ahead, recVars
<1>1. ASSUME NEW r \in Request, NEW k \in Key, Allowed(r, k) PROVE TypeInv'
  BY <1>1 DEF Allowed
<1>2. ASSUME NEW r \in Request, OnFailure(r) PROVE TypeInv'
  <2> DEFINE k == key[r]
  <2>1. k \in Key
    BY <1>2 DEF OnFailure
  <2> HIDE DEF k
  <2>2. Kept(k) \subseteq records
    BY <2>1, KeptRecords
  <2>3. fails' \in [Key -> 0..(MaxFails - 1)]
    <3>1. (IF Locks(k) THEN 0 ELSE Count(k)) \in 0..(MaxFails - 1)
      BY <2>1, CountType
    <3>2. \A j \in Key : fails[j] \in 0..(MaxFails - 1) /\ 0 \in 0..(MaxFails - 1)
      OBVIOUS
    <3> HIDE DEF TypeInv, TypeOK, Cleared, Ahead
    <3>3. fails' = [j \in Key |-> IF j = k THEN IF Locks(k) THEN 0 ELSE Count(k)
                                 ELSE IF j \in Kept(k) THEN fails[j] ELSE 0]
      BY <1>2 DEF OnFailure, k
    <3> QED BY <3>1, <3>2, <3>3
  <2>4. firstFail' \in [Key -> 0..MaxTime]
    BY <1>2, <2>1 DEF OnFailure, WindowStart, k
  <2>5. lockedTill' \in [Key -> Nat]
    BY <1>2, <2>1 DEF OnFailure, k
  <2>6. failures' \in [Key -> Seq(1..MaxTime)]
    <3>1. Append(failures[k], now) \in Seq(1..MaxTime) /\ <<>> \in Seq(1..MaxTime)
      BY <2>1
    <3> QED BY <1>2, <2>1, <3>1 DEF OnFailure, k
  <2>7. key' \in [Request -> Key \cup {NoKey}] /\ now' = now
    BY <1>2 DEF OnFailure
  <2>8. records' = Kept(k) \cup {k}
    BY <1>2 DEF OnFailure, k
  <2>9. Cleared'
    BY <1>2, <2>1, <2>2, <2>8 DEF OnFailure, k
  <2>10. Ahead'
    BY <1>2, <2>1, <2>7 DEF OnFailure, k
  <2> QED BY <2>1, <2>2, <2>3, <2>4, <2>5, <2>6, <2>7, <2>8, <2>9, <2>10
<1>3. ASSUME NEW r \in Request, OnSuccess(r) PROVE TypeInv'
  BY <1>3 DEF OnSuccess
<1>4. CASE Tick
  BY <1>4 DEF Tick
<1>5. CASE UNCHANGED vars
  BY <1>5 DEF vars
<1> QED BY <1>1, <1>2, <1>3, <1>4, <1>5 DEF Next

(* The state keeps its types; in particular a counter never reaches the    *)
(* limit without locking (loginsecurity.go:105-127).                       *)
THEOREM GuardTypeCorrect == Spec => [](TypeOK /\ Cleared /\ Ahead)
<1> QED BY TypeInit, TypeStep, PTL DEF Spec, TypeInv

----------------------------------------------------------------------------
(* Only a success of a request already past allowed ends a lock early      *)
(* (loginsecurity.go:105-143).                                             *)
THEOREM LocksLast == Spec => LockLasts
<1> DEFINE Lasts == \A k \in Key : Locked(k) => \/ lockedTill'[k] >= lockedTill[k]
                                                \/ \E r \in Passed(k) : OnSuccess(r)
<1>1. TypeInv /\ [Next]_vars => Lasts
  <2> SUFFICES ASSUME TypeInv, [Next]_vars, NEW k \in Key, Locked(k)
               PROVE  \/ lockedTill'[k] >= lockedTill[k]
                      \/ \E r \in Passed(k) : OnSuccess(r)
    OBVIOUS
  <2> USE DEF TypeInv, TypeOK
  <2>1. ASSUME NEW r \in Request, NEW j \in Key, Allowed(r, j)
        PROVE  lockedTill'[k] >= lockedTill[k]
    BY <2>1 DEF Allowed
  <2>2. ASSUME NEW r \in Request, OnFailure(r) PROVE lockedTill'[k] >= lockedTill[k]
    <3>1. key[r] \in Key
      BY <2>2 DEF OnFailure
    <3>2. k \in records
      BY DEF Locked, Cleared
    <3>3. k \in Kept(key[r])
      BY <3>1, <3>2, KeptRecords DEF Locked
    <3>4. CASE k = key[r] /\ Locks(k)
      <4>1. lockedTill'[k] = now + LockDuration
        BY <2>2, <3>4 DEF OnFailure
      <4> QED BY <4>1 DEF Ahead
    <3>5. CASE ~(k = key[r] /\ Locks(k))
      BY <2>2, <3>3, <3>5 DEF OnFailure
    <3> QED BY <3>4, <3>5
  <2>3. ASSUME NEW r \in Request, OnSuccess(r)
        PROVE  lockedTill'[k] >= lockedTill[k] \/ \E q \in Passed(k) : OnSuccess(q)
    <3>1. CASE key[r] = k
      BY <2>3, <3>1 DEF Passed
    <3>2. CASE key[r] # k
      BY <2>3, <3>2 DEF OnSuccess
    <3> QED BY <3>1, <3>2
  <2>4. CASE Tick \/ UNCHANGED vars
    BY <2>4 DEF Tick, vars, recVars
  <2> QED BY <2>1, <2>2, <2>3, <2>4 DEF Next
<1> QED BY <1>1, TypeInit, TypeStep, PTL DEF Spec, LockLasts

----------------------------------------------------------------------------
(* How the failures of a key lie in its counting windows.  A window that   *)
(* is not over counts its failures, so that all but the last fails[k] of   *)
(* them are not after its start (Counted), and all but MaxFails - 1 more   *)
(* are before the window before it (Spaced).  When the window is over,     *)
(* allowed may have reset the counter; what is still known then is that    *)
(* all but the last MaxFails - 1 failures are not after its start (Aged),  *)
(* and for a key whose record is gone that they are out of any window that *)
(* starts now (Forgotten).                                                 *)
Timely(k) == \A i \in 1..Len(failures[k]) : failures[k][i] <= now

Counted(k) ==
  Stale(k) \/ \A i \in 1..Len(failures[k]) :
                 i <= Len(failures[k]) - fails[k] => failures[k][i] <= firstFail[k]

Spaced(k) ==
  Stale(k) \/ \A i \in 1..Len(failures[k]) :
                 i <= Len(failures[k]) - fails[k] - (MaxFails - 1)
                   => failures[k][i] + FailWindow < firstFail[k]

Aged(k) ==
  \A i \in 1..Len(failures[k]) :
     i <= Len(failures[k]) - (MaxFails - 1) => failures[k][i] <= firstFail[k]

Forgotten(k) ==
  \A i \in 1..Len(failures[k]) :
     i <= Len(failures[k]) - (MaxFails - 1) => failures[k][i] + FailWindow < now

Windows(k) ==
  /\ Timely(k) /\ firstFail[k] <= now
  /\ IF k \in records THEN Counted(k) /\ Spaced(k) /\ Aged(k) ELSE Forgotten(k)

(* BoundedGuessing for one key.                                            *)
Guesses(k) ==
  \A i \in 1..Len(failures[k]) :
     i + Burst - 1 \in 1..Len(failures[k]) =>
        failures[k][i + Burst - 1] - failures[k][i] > FailWindow

GuessInv == \A k \in Key : Windows(k) /\ Guesses(k)

(* What Append does to the history of failures.                            *)
LEMMA AppendFacts ==
  ASSUME NEW q \in Seq(1..MaxTime), NEW t \in 1..MaxTime
  PROVE  /\ Append(q, t) \in Seq(1..MaxTime)
         /\ Len(Append(q, t)) = Len(q) + 1
         /\ \A i \in 1..Len(q) : Append(q, t)[i] = q[i]
         /\ Append(q, t)[Len(q) + 1] = t
  OBVIOUS

(* A failure of k that does not lock it.                                   *)
LEMMA FailureStep ==
  ASSUME TypeInv, NEW k \in Key, Windows(k), Guesses(k),
         NEW r \in Request, OnFailure(r), key[r] = k, ~Locks(k)
  PROVE  Windows(k)' /\ Guesses(k)'
<1> DEFINE q == failures[k]
           p == failures'[k]
           n == Len(q)
<1>1. /\ now' = now /\ now \in 1..MaxTime
      /\ k \in records'
      /\ p = Append(q, now)
      /\ fails'[k] = Count(k)
      /\ firstFail'[k] = WindowStart(k)
  BY DEF OnFailure, TypeInv, TypeOK
<1>2. /\ n \in Nat /\ q \in Seq(1..MaxTime)
      /\ \A i \in 1..n : q[i] \in 1..MaxTime
  BY DEF TypeInv, TypeOK
<1>3. /\ Len(p) = n + 1 /\ p[n + 1] = now
      /\ \A i \in 1..n : p[i] = q[i]
  BY <1>1, <1>2, AppendFacts
<1>4. /\ fails[k] \in 0..(MaxFails - 1) /\ firstFail[k] \in 0..MaxTime
      /\ firstFail[k] <= now
  BY DEF TypeInv, TypeOK, Windows
<1>5. \A i \in 1..n : q[i] <= now
  BY DEF Windows, Timely
<1>6. \A i \in 1..n : i + Burst - 1 \in 1..n => q[i + Burst - 1] - q[i] > FailWindow
  BY DEF Guesses
<1>7. k \in records => \A i \in 1..n : i <= n - (MaxFails - 1) => q[i] <= firstFail[k]
  BY DEF Windows, Aged
<1>8. k \notin records => \A i \in 1..n : i <= n - (MaxFails - 1) => q[i] + FailWindow < now
  BY DEF Windows, Forgotten
<1>9. ~Opens(k) => /\ k \in records /\ ~Stale(k)
                   /\ \A i \in 1..n : i <= n - fails[k] => q[i] <= firstFail[k]
                   /\ \A i \in 1..n : i <= n - fails[k] - (MaxFails - 1)
                                         => q[i] + FailWindow < firstFail[k]
  BY DEF Opens, Windows, Counted, Spaced
<1>10. Stale(k) => firstFail[k] + FailWindow < now
  BY <1>1, <1>4 DEF Stale
<1> DEFINE m == n + 1
           f == fails'[k]
           w == firstFail'[k]
<1>11. MaxFails \in Nat /\ MaxFails >= 2 /\ FailWindow \in Nat /\ Burst - 1 = 2 * MaxFails - 2
  BY DEF Burst
<1>12. f \in 1..(MaxFails - 1) /\ w \in 0..now
  BY <1>1, <1>4, CountType DEF WindowStart, TypeInv
<1> HIDE DEF p, q, n, f, w
<1>13. m \in Nat /\ (\A i \in 1..m : i \in 1..n \/ i = m)
  BY <1>2
<1>14. \A i \in 1..m : p[i] \in 1..MaxTime /\ p[i] <= now
  BY <1>1, <1>2, <1>3, <1>5, <1>13
<1> HIDE DEF m
<1>15. \A i \in 1..m : i + Burst - 1 \in 1..n => p[i + Burst - 1] - p[i] > FailWindow
  <2> SUFFICES ASSUME NEW i \in 1..m, i + Burst - 1 \in 1..n
               PROVE  p[i + Burst - 1] - p[i] > FailWindow
    OBVIOUS
  <2>1. i \in 1..n
    BY <1>2, <1>11
  <2> QED BY <1>3, <1>6, <2>1
<1>16. ASSUME \A i \in 1..m : i <= m - f => p[i] <= w,
              \A i \in 1..m : i <= m - f - (MaxFails - 1) => p[i] + FailWindow < w
       PROVE  Windows(k)' /\ Guesses(k)'
  <2>1. \A i \in 1..m : i <= m - (MaxFails - 1) => p[i] <= w
    BY <1>11, <1>12, <1>13, <1>16
  <2>2. ASSUME NEW i \in 1..m, i + Burst - 1 = m PROVE p[m] - p[i] > FailWindow
    <3>1. i <= m - f - (MaxFails - 1)
      BY <1>11, <1>12, <1>13, <2>2
    <3>2. p[i] + FailWindow < w /\ p[i] \in 1..MaxTime
      BY <1>14, <1>16, <3>1
    <3>3. p[m] = now
      BY <1>3 DEF m
    <3>4. now \in Int
      BY <1>1
    <3>5. w \in Int /\ w <= now
      BY <1>12, <3>4
    <3>6. p[i] \in Int
      BY <3>2
    <3> QED BY <1>11, <3>2, <3>3, <3>4, <3>5, <3>6
  <2>3. \A i \in 1..m : i + Burst - 1 \in 1..m => p[i + Burst - 1] - p[i] > FailWindow
    BY <1>11, <1>13, <1>15, <2>2
  <2>4. Len(p) = m
    BY <1>3 DEF m
  <2>5. Guesses(k)'
    BY <2>3, <2>4 DEF Guesses, Burst, p
  <2>6. Timely(k)' /\ Counted(k)' /\ Spaced(k)' /\ Aged(k)'
    BY <1>1, <1>14, <1>16, <2>1, <2>4 DEF Timely, Counted, Spaced, Aged, p, f, w
  <2>7. firstFail'[k] <= now'
    BY <1>1, <1>12 DEF w
  <2> QED BY <1>1, <2>5, <2>6, <2>7 DEF Windows
<1>17. CASE Opens(k)
  <2>1. f = 1 /\ w = now
    BY <1>1, <1>17 DEF Count, WindowStart, f, w
  <2>2. ASSUME NEW i \in 1..n, i <= n - (MaxFails - 1) PROVE q[i] + FailWindow < now
    <3>1. CASE k \notin records
      BY <1>8, <2>2, <3>1
    <3>2. CASE k \in records
      <4>1. q[i] <= firstFail[k] /\ firstFail[k] + FailWindow < now
        BY <1>7, <1>10, <1>17, <2>2, <3>2 DEF Opens
      <4> QED BY <1>1, <1>2, <1>4, <1>11, <4>1
    <3> QED BY <3>1, <3>2
  <2>3. ASSUME NEW i \in 1..m, i <= m - 1 - (MaxFails - 1) PROVE p[i] + FailWindow < now
    <3>1. i \in 1..n /\ i <= n - (MaxFails - 1)
      BY <1>2, <1>11, <2>3 DEF m
    <3> QED BY <1>3, <2>2, <3>1
  <2> QED BY <1>14, <1>16, <2>1, <2>3
<1>18. CASE ~Opens(k)
  <2>1. f = fails[k] + 1 /\ w = firstFail[k]
    BY <1>1, <1>18 DEF Count, WindowStart, f, w
  <2>2. ASSUME NEW i \in 1..m, i <= m - f PROVE i \in 1..n /\ i <= n - fails[k] /\ p[i] = q[i]
    <3>1. i \in 1..n /\ i <= n - fails[k]
      BY <1>2, <1>4, <2>1, <2>2 DEF m
    <3> QED BY <1>3, <3>1
  <2>3. \A i \in 1..m : i <= m - f => p[i] <= w
    BY <1>9, <1>18, <2>1, <2>2
  <2>4. ASSUME NEW i \in 1..m, i <= m - f - (MaxFails - 1) PROVE p[i] + FailWindow < w
    <3>1. i <= m - f
      BY <1>11, <1>12, <1>13, <2>4
    <3>2. i <= n - fails[k] - (MaxFails - 1)
      <4>1. m - f = n - fails[k]
        BY <1>2, <1>4, <1>11, <2>1 DEF m
      <4> QED BY <2>4, <4>1
    <3> QED BY <1>9, <1>18, <2>1, <2>2, <3>1, <3>2
  <2> QED BY <1>16, <2>3, <2>4
<1> QED BY <1>17, <1>18

(* Every step keeps the failures of a key bounded by its window and its    *)
(* counter (loginsecurity.go:105-127).                                     *)
LEMMA GuessStep == TypeInv /\ GuessInv /\ [Next]_vars => GuessInv'
<1> SUFFICES ASSUME TypeInv, GuessInv, [Next]_vars, NEW k \in Key
             PROVE  Windows(k)' /\ Guesses(k)'
  BY DEF GuessInv
<1>1. Windows(k) /\ Guesses(k)
  BY DEF GuessInv
<1>2. ASSUME failures'[k] = <<>>, firstFail'[k] <= now' PROVE Windows(k)' /\ Guesses(k)'
  BY <1>2 DEF Windows, Guesses, Timely, Counted, Spaced, Aged, Forgotten
<1>3. ASSUME failures'[k] = failures[k], firstFail'[k] = firstFail[k], now' = now,
             k \in records' <=> k \in records, fails'[k] = fails[k] \/ Stale(k)
      PROVE  Windows(k)' /\ Guesses(k)'
  <2>1. Guesses(k)'
    BY <1>1, <1>3 DEF Guesses
  <2>2. Windows(k)'
    BY <1>1, <1>3 DEF Windows, Timely, Counted, Spaced, Aged, Forgotten, Stale
  <2> QED BY <2>1, <2>2
<1>4. ASSUME NEW r \in Request, NEW j \in Key, Allowed(r, j) PROVE Windows(k)' /\ Guesses(k)'
  BY <1>3, <1>4 DEF Allowed, TypeInv, TypeOK
<1>5. ASSUME NEW r \in Request, OnFailure(r) PROVE Windows(k)' /\ Guesses(k)'
  <2>1. CASE key[r] = k /\ ~Locks(k)
    BY <1>1, <1>5, <2>1, FailureStep
  <2>2. CASE key[r] = k /\ Locks(k)
    BY <1>2, <1>5, <2>2 DEF OnFailure, WindowStart, TypeInv, TypeOK
  <2>3. CASE key[r] # k
    <3>1. key[r] \in Key
      BY <1>5 DEF OnFailure, TypeInv, TypeOK
    <3>2. failures'[k] = failures[k] /\ now' = now
      BY <1>5, <2>3 DEF OnFailure, TypeInv, TypeOK
    <3>3. /\ k \in records' <=> k \in Kept(key[r])
          /\ k \in Kept(key[r]) => fails'[k] = fails[k] /\ firstFail'[k] = firstFail[k]
          /\ k \notin Kept(key[r]) => fails'[k] = 0 /\ firstFail'[k] = 0
      BY <1>5, <2>3 DEF OnFailure
    <3>4. Kept(key[r]) \subseteq records /\ (k \in records \ Kept(key[r]) => Stale(k))
      BY <3>1, KeptRecords DEF TypeInv
    <3>5. CASE k \in Kept(key[r])
      BY <1>3, <3>2, <3>3, <3>4, <3>5
    <3>6. CASE k \notin Kept(key[r]) /\ k \in records
      <4>1. \A i \in 1..Len(failures[k]) : failures[k][i] \in 1..MaxTime
        BY DEF TypeInv, TypeOK
      <4>2. now \in 1..MaxTime /\ firstFail[k] \in 0..MaxTime
        BY DEF TypeInv, TypeOK
      <4>3. Aged(k) /\ Timely(k) /\ Stale(k)
        BY <1>1, <3>4, <3>6 DEF Windows
      <4>4. Forgotten(k)
        BY <4>1, <4>2, <4>3 DEF Forgotten, Aged, Stale
      <4>5. Forgotten(k)' /\ Timely(k)' /\ firstFail'[k] <= now' /\ k \notin records'
        BY <3>2, <3>3, <3>6, <4>2, <4>3, <4>4 DEF Forgotten, Timely
      <4>6. Guesses(k)'
        BY <1>1, <3>2 DEF Guesses
      <4> QED BY <4>5, <4>6 DEF Windows
    <3>7. CASE k \notin records
      <4>1. fails[k] = 0 /\ firstFail[k] = 0
        BY <3>7 DEF TypeInv, Cleared
      <4> QED BY <1>3, <3>2, <3>3, <3>4, <3>7, <4>1
    <3> QED BY <3>5, <3>6, <3>7
  <2> QED BY <2>1, <2>2, <2>3
<1>6. ASSUME NEW r \in Request, OnSuccess(r) PROVE Windows(k)' /\ Guesses(k)'
  <2>1. CASE key[r] = k
    BY <1>2, <1>6, <2>1 DEF OnSuccess, TypeInv, TypeOK
  <2>2. CASE key[r] # k
    BY <1>3, <1>6, <2>2 DEF OnSuccess, TypeInv, TypeOK
  <2> QED BY <2>1, <2>2
<1>7. CASE Tick
  <2>1. /\ failures' = failures /\ firstFail' = firstFail /\ fails' = fails
        /\ records' = records /\ now' = now + 1
    BY <1>7 DEF Tick, recVars
  <2>2. \A i \in 1..Len(failures[k]) : failures[k][i] \in 1..MaxTime
    BY DEF TypeInv, TypeOK
  <2>3. now \in 1..MaxTime /\ firstFail[k] \in 0..MaxTime
    BY DEF TypeInv, TypeOK
  <2>4. Guesses(k)'
    BY <1>1, <2>1 DEF Guesses
  <2>5. Timely(k)' /\ firstFail'[k] <= now'
    BY <1>1, <2>1, <2>2, <2>3 DEF Windows, Timely
  <2>6. Stale(k) => Stale(k)'
    BY <2>1, <2>3 DEF Stale
  <2>7. CASE k \in records
    <3>1. Counted(k)' /\ Spaced(k)' /\ Aged(k)'
      BY <1>1, <2>1, <2>6, <2>7 DEF Windows, Counted, Spaced, Aged
    <3> QED BY <2>1, <2>4, <2>5, <2>7, <3>1 DEF Windows
  <2>8. CASE k \notin records
    <3>1. Forgotten(k)'
      <4> SUFFICES ASSUME NEW i \in 1..Len(failures[k]), i <= Len(failures[k]) - (MaxFails - 1)
                   PROVE  failures[k][i] + FailWindow < now + 1
        BY <2>1 DEF Forgotten
      <4>1. failures[k][i] + FailWindow < now
        BY <1>1, <2>8 DEF Windows, Forgotten
      <4> QED BY <4>1, <2>2, <2>3
    <3> QED BY <2>1, <2>4, <2>5, <2>8, <3>1 DEF Windows
  <2> QED BY <2>7, <2>8
<1>8. CASE UNCHANGED vars
  BY <1>3, <1>8 DEF vars, recVars
<1> QED BY <1>4, <1>5, <1>6, <1>7, <1>8 DEF Next

(* No 2 * MaxFails - 1 consecutive failures of a key, since its last lock  *)
(* or success, lie within the counting window (loginsecurity.go:105-127).  *)
THEOREM GuessingIsBounded == Spec => []BoundedGuessing
<1>1. Init => GuessInv
  BY DEF Init, GuessInv, Windows, Guesses, Timely, Forgotten
<1>2. TypeInv /\ GuessInv => BoundedGuessing
  <2> SUFFICES ASSUME TypeInv, GuessInv, NEW k \in Key
               PROVE  \A i \in DOMAIN failures[k] : i + Burst - 1 \in DOMAIN failures[k] =>
                        failures[k][i + Burst - 1] - failures[k][i] > FailWindow
    BY DEF BoundedGuessing
  <2>1. DOMAIN failures[k] = 1..Len(failures[k])
    BY DEF TypeInv, TypeOK
  <2> QED BY <2>1 DEF GuessInv, Guesses
<1> QED BY <1>1, <1>2, TypeInit, TypeStep, GuessStep, PTL DEF Spec

----------------------------------------------------------------------------
(* Every record has a date.                                                *)
Dated == \A k \in records : firstFail[k] # 0

(* Records are dated when they are made, and by each failure that opens a  *)
(* window or locks (loginsecurity.go:114-126).                             *)
LEMMA DatedStep == TypeInv /\ Dated /\ [Next]_vars => Dated'
<1> SUFFICES ASSUME TypeInv, Dated, [Next]_vars, NEW k \in records' PROVE firstFail'[k] # 0
  BY DEF Dated
<1>1. k \in Key /\ now # 0
  BY TypeStep DEF TypeInv, TypeOK
<1>2. ASSUME NEW r \in Request, OnFailure(r) PROVE firstFail'[k] # 0
  <2>1. key[r] \in Key /\ records' = Kept(key[r]) \cup {key[r]}
    BY <1>2 DEF OnFailure, TypeInv, TypeOK
  <2>2. CASE k = key[r]
    BY <1>1, <1>2, <2>2 DEF OnFailure, WindowStart, Opens, Dated
  <2>3. CASE k # key[r]
    <3>1. k \in Kept(key[r]) /\ k \in records
      BY <2>1, <2>3, KeptRecords DEF TypeInv
    <3> QED BY <1>1, <1>2, <2>3, <3>1 DEF OnFailure, Dated
  <2> QED BY <2>2, <2>3
<1>3. ASSUME NEW r \in Request, OnSuccess(r) PROVE firstFail'[k] # 0
  BY <1>1, <1>3 DEF OnSuccess, Dated, TypeInv, TypeOK
<1>4. ASSUME NEW r \in Request, NEW j \in Key, Allowed(r, j) PROVE firstFail'[k] # 0
  BY <1>4 DEF Allowed, Dated
<1>5. CASE Tick \/ UNCHANGED vars
  BY <1>5 DEF Tick, vars, recVars, Dated
<1> QED BY <1>2, <1>3, <1>4, <1>5 DEF Next

(* A failure is counted in the key's window, and the records it collects   *)
(* counted for nothing (loginsecurity.go:105-127, 137-143).                *)
LEMMA FailureRefined ==
  ASSUME TypeInv, Dated, NEW r \in Request, OnFailure(r)
  PROVE  Policy!Fail(r)
<1>0. key[r] \in Key /\ key[r] # NoKey /\ now' = now /\ key' = [key EXCEPT ![r] = NoKey]
  BY DEF OnFailure, TypeInv, TypeOK
<1> PICK k \in Key : k = key[r]
  BY <1>0
<1>1. k \in Key /\ k = key[r] /\ now' = now /\ key' = [key EXCEPT ![r] = NoKey]
  BY <1>0
<1>2. records' = Kept(k) \cup {k}
  BY DEF OnFailure
<1>3. now \in 1..MaxTime
  BY DEF TypeInv, TypeOK
<1>4. /\ fails' = [j \in Key |-> IF j = k THEN IF Locks(k) THEN 0 ELSE Count(k)
                                 ELSE IF j \in Kept(k) THEN fails[j] ELSE 0]
      /\ firstFail' = [j \in Key |-> IF j = k THEN WindowStart(k)
                                     ELSE IF j \in Kept(k) THEN firstFail[j] ELSE 0]
      /\ lockedTill' = [j \in Key |-> IF j = k /\ Locks(k) THEN now + LockDuration
                                      ELSE IF j \in Kept(k) THEN lockedTill[j] ELSE 0]
  BY DEF OnFailure
<1>5. (startOf[k] = 0 <=> Opens(k)) /\ Count(k) = countOf[k] + 1
  BY <1>1 DEF startOf, countOf, Counting, Opens, Count, Dated, TypeInv, TypeOK
<1>6. Locks(k) <=> countOf[k] + 1 >= MaxFails
  BY <1>5 DEF Locks
<1>7. ASSUME NEW j \in Key, j # k
      PROVE  countOf'[j] = countOf[j] /\ startOf'[j] = startOf[j] /\ tillOf'[j] = tillOf[j]
  <2>1. CASE j \in Kept(k)
    <3>1. j \in records /\ j \in records'
      BY <1>1, <1>2, <2>1, KeptRecords DEF TypeInv
    <3>2. fails'[j] = fails[j] /\ firstFail'[j] = firstFail[j] /\ lockedTill'[j] = lockedTill[j]
      BY <1>4, <1>7, <2>1
    <3> QED BY <1>1, <3>1, <3>2 DEF countOf, startOf, tillOf, Counting, Locked, Stale
  <2>2. CASE j \notin Kept(k)
    <3>1. j \notin records'
      BY <1>2, <1>7, <2>2
    <3>2. lockedTill'[j] = 0
      BY <1>4, <1>7, <2>2
    <3>3. ~Counting(j) /\ ~Locked(j)
      <4>1. CASE j \in records
        <5>1. lockedTill[j] < now /\ Stale(j)
          BY <1>1, <2>2, <4>1, KeptRecords DEF TypeInv
        <5> QED BY <1>3, <5>1 DEF Counting, Locked, TypeInv, TypeOK
      <4>2. CASE j \notin records
        BY <1>3, <4>2 DEF Counting, Locked, TypeInv, Cleared
      <4> QED BY <4>1, <4>2
    <3>4. ~Counting(j)' /\ ~Locked(j)'
      BY <1>1, <1>3, <3>1, <3>2 DEF Counting, Locked
    <3> QED BY <3>3, <3>4 DEF countOf, startOf, tillOf
  <2> QED BY <2>1, <2>2
<1>8. Counting(k)' /\ fails'[k] = (IF Locks(k) THEN 0 ELSE Count(k)) /\ firstFail'[k] = WindowStart(k)
  <2>1. firstFail'[k] = WindowStart(k) /\ k \in records'
    BY <1>1, <1>2, <1>4
  <2>2. now' - firstFail'[k] <= FailWindow
    BY <1>1, <1>3, <2>1 DEF WindowStart, Opens, Stale, TypeInv, TypeOK
  <2>3. now' - firstFail'[k] \in Int
    BY <1>1, <1>3, <2>1 DEF WindowStart, TypeInv, TypeOK
  <2> QED BY <1>1, <1>4, <2>1, <2>2, <2>3 DEF Counting, Stale
<1>9. countOf'[k] = (IF Locks(k) THEN 0 ELSE countOf[k] + 1)
  BY <1>1, <1>5, <1>8 DEF countOf
<1>10. startOf'[k] = (IF Locks(k) \/ startOf[k] = 0 THEN now ELSE startOf[k])
  BY <1>1, <1>5, <1>8 DEF startOf, WindowStart, Opens, Counting
<1>11. tillOf'[k] = (IF Locks(k) THEN now + LockDuration ELSE tillOf[k])
  <2>1. CASE Locks(k)
    <3>1. lockedTill'[k] = now + LockDuration
      BY <1>1, <1>4, <2>1
    <3> QED BY <1>1, <1>3, <2>1, <3>1 DEF tillOf, Locked
  <2>2. CASE ~Locks(k)
    <3>1. lockedTill'[k] = IF k \in Kept(k) THEN lockedTill[k] ELSE 0
      BY <1>1, <1>4, <2>2
    <3>2. k \in records => k \in Kept(k)
      BY DEF Kept
    <3>3. k \notin records => lockedTill[k] = 0
      BY <1>1 DEF TypeInv, Cleared
    <3>4. lockedTill'[k] = lockedTill[k]
      BY <1>1, <3>1, <3>2, <3>3, KeptRecords DEF TypeInv
    <3> QED BY <1>1, <2>2, <3>4 DEF tillOf, Locked
  <2> QED BY <2>1, <2>2
<1>12. countOf' = [countOf EXCEPT ![k] = IF Locks(k) THEN 0 ELSE @ + 1]
  BY <1>1, <1>7, <1>9 DEF countOf
<1>13. startOf' = [startOf EXCEPT ![k] = IF Locks(k) \/ @ = 0 THEN now ELSE @]
  BY <1>1, <1>7, <1>10 DEF startOf
<1>14. tillOf' = [tillOf EXCEPT ![k] = IF Locks(k) THEN now + LockDuration ELSE @]
  BY <1>1, <1>7, <1>11 DEF tillOf
<1> QED
  BY <1>0, <1>1, <1>6, <1>12, <1>13, <1>14 DEF Policy!Fail

(* Every step of the guard is one of the policy, or none.                  *)
LEMMA PolicyStep == TypeInv /\ Dated /\ [Next]_vars => [Policy!PolicyNext]_(Policy!pvars)
<1> SUFFICES ASSUME TypeInv, Dated, [Next]_vars
             PROVE  Policy!PolicyNext \/ UNCHANGED Policy!pvars
  OBVIOUS
<1>1. now \in 1..MaxTime /\ \A k \in Key : lockedTill[k] \in Nat /\ firstFail[k] \in Nat
  BY DEF TypeInv, TypeOK
<1>2. ASSUME NEW r \in Request, NEW k \in Key, Allowed(r, k) PROVE Policy!PolicyNext
  <2>1. /\ now' = now /\ records' = records /\ firstFail' = firstFail /\ lockedTill' = lockedTill
        /\ key[r] = NoKey /\ key' = [key EXCEPT ![r] = k] /\ ~Locked(k)
    BY <1>2 DEF Allowed
  <2>2. \A j \in Key : Counting(j)' = Counting(j) /\ (Counting(j) => fails'[j] = fails[j])
    BY <1>2, <2>1 DEF Allowed, Counting, Stale, TypeInv, TypeOK
  <2>3. startOf' = startOf /\ tillOf' = tillOf
    BY <2>1 DEF startOf, tillOf, Counting, Stale, Locked
  <2>4. countOf' = countOf
    BY <2>2 DEF countOf
  <2>5. tillOf[k] = 0
    BY <2>1 DEF tillOf
  <2>6. Policy!Pass(r, k)
    BY <2>1, <2>3, <2>4, <2>5 DEF Policy!Pass
  <2> QED BY <2>6 DEF Policy!PolicyNext
<1>3. ASSUME NEW r \in Request, OnFailure(r) PROVE Policy!PolicyNext
  BY <1>3, FailureRefined DEF Policy!PolicyNext
<1>4. ASSUME NEW r \in Request, OnSuccess(r) PROVE Policy!PolicyNext
  <2> DEFINE k == key[r]
  <2>1. k \in Key /\ key[r] # NoKey /\ now' = now /\ key' = [key EXCEPT ![r] = NoKey]
    BY <1>4 DEF OnSuccess, TypeInv, TypeOK
  <2>2. /\ records' = records \ {k} /\ fails' = [fails EXCEPT ![k] = 0]
        /\ firstFail' = [firstFail EXCEPT ![k] = 0] /\ lockedTill' = [lockedTill EXCEPT ![k] = 0]
    BY <1>4 DEF OnSuccess
  <2> HIDE DEF k
  <2>3. ASSUME NEW j \in Key, j # k
        PROVE  countOf'[j] = countOf[j] /\ startOf'[j] = startOf[j] /\ tillOf'[j] = tillOf[j]
    BY <2>1, <2>2, <2>3 DEF countOf, startOf, tillOf, Counting, Stale, Locked, TypeInv, TypeOK
  <2>4. countOf'[k] = 0 /\ startOf'[k] = 0 /\ tillOf'[k] = 0
    BY <1>1, <2>1, <2>2 DEF countOf, startOf, tillOf, Counting, Locked, TypeInv, TypeOK
  <2>5. /\ countOf' = [countOf EXCEPT ![k] = 0] /\ startOf' = [startOf EXCEPT ![k] = 0]
        /\ tillOf' = [tillOf EXCEPT ![k] = 0]
    BY <2>1, <2>3, <2>4 DEF countOf, startOf, tillOf
  <2>6. Policy!Succeed(r)
    BY <2>1, <2>5 DEF Policy!Succeed, k
  <2> QED BY <2>6 DEF Policy!PolicyNext
<1>5. CASE Tick
  <2>1. /\ now < MaxTime /\ now' = now + 1 /\ key' = key /\ records' = records
        /\ fails' = fails /\ firstFail' = firstFail /\ lockedTill' = lockedTill
    BY <1>5 DEF Tick, recVars
  <2>2. ASSUME NEW k \in Key
        PROVE  /\ Counting(k)' <=> (startOf[k] # 0 /\ now + 1 - startOf[k] <= FailWindow)
               /\ Counting(k)' => Counting(k)
    BY <1>1, <2>1 DEF Counting, Stale, startOf, Dated
  <2>3. ASSUME NEW k \in Key
        PROVE  (IF Locked(k)' THEN lockedTill'[k] ELSE 0) = IF now + 1 < tillOf[k] THEN tillOf[k] ELSE 0
    BY <1>1, <2>1 DEF Locked, tillOf
  <2>4. /\ countOf' = [k \in Key |-> IF startOf[k] # 0 /\ now + 1 - startOf[k] <= FailWindow
                                      THEN countOf[k] ELSE 0]
        /\ startOf' = [k \in Key |-> IF startOf[k] # 0 /\ now + 1 - startOf[k] <= FailWindow
                                      THEN startOf[k] ELSE 0]
    BY <2>1, <2>2 DEF countOf, startOf
  <2>5. tillOf' = [k \in Key |-> IF now + 1 < tillOf[k] THEN tillOf[k] ELSE 0]
    BY <2>3 DEF tillOf
  <2>6. Policy!Elapse
    BY <2>1, <2>4, <2>5 DEF Policy!Elapse, Policy!Pending
  <2> QED BY <2>6 DEF Policy!PolicyNext
<1>6. CASE UNCHANGED vars
  BY <1>6 DEF vars, recVars, Policy!pvars, countOf, startOf, tillOf, Counting, Stale, Locked
<1> QED BY <1>2, <1>3, <1>4, <1>5, <1>6 DEF Next

(* The guard throttles every key as if it had a record of its own for      *)
(* ever, whatever is collected and reset (loginsecurity.go:86-143).        *)
THEOREM PolicyRefined == Spec => RefinesPolicy
<1>1. Init => Policy!PolicyInit /\ Dated
  BY DEF Init, Policy!PolicyInit, Dated, countOf, startOf, tillOf, Counting, Locked
<1> QED
  BY <1>1, TypeInit, TypeStep, DatedStep, PolicyStep, PTL
  DEF Spec, RefinesPolicy, Policy!PolicySpec
=============================================================================
