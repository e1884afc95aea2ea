----------------------------- MODULE LoginGuard -----------------------------
(***************************************************************************)
(* loginGuard, which throttles failed web logins, and webLogin, its only   *)
(* user.  Requests are served concurrently: allowed, onFailure and         *)
(* onSuccess each hold the guard's mutex, but between allowed and the      *)
(* outcome of the password check other requests, for the same key too, run *)
(* freely and time passes.                                                 *)
(***************************************************************************)
EXTENDS Integers, Sequences, FiniteSets

CONSTANTS
  Key,             \* guard keys: client address and user name
  NoKey,           \* an idle request
  Request,         \* goroutines that can be inside webLogin at a time
  MaxFails,        \* maxLoginFails (5)
  LockDuration,    \* loginLockDuration (10 minutes)
  FailWindow,      \* loginFailWindow (10 minutes)
  RecordsMaxKeep,  \* loginRecordsMaxKeep (10000)
  MaxTime          \* bound of the model: the last instant of the clock

ASSUME GuardAssumption ==
  /\ NoKey \notin Key
  /\ MaxFails \in Nat /\ MaxFails >= 2
  /\ LockDuration \in Nat \ {0} /\ FailWindow \in Nat \ {0}
  /\ RecordsMaxKeep \in Nat /\ MaxTime \in Nat \ {0}

VARIABLES
  now,         \* time.Now(); the zero time.Time is 0
  records,     \* the keys that have a loginRecord
  fails,       \* loginRecord.fails, 0 without a record
  firstFail,   \* loginRecord.firstFail, 0 without a record
  lockedTill,  \* loginRecord.lockedTill, 0 when never locked
  key,         \* the key of a request between allowed and its outcome
  failures     \* history: times of the failures since the last lock or success

recVars == <<records, fails, firstFail, lockedTill>>
vars == <<now, recVars, key, failures>>

TypeOK ==
  /\ now \in 1..MaxTime
  /\ records \in SUBSET Key
  /\ fails \in [Key -> 0..(MaxFails - 1)]
  /\ firstFail \in [Key -> 0..MaxTime]
  /\ lockedTill \in [Key -> Nat]
  /\ key \in [Request -> Key \cup {NoKey}]
  /\ failures \in [Key -> Seq(1..MaxTime)]

Init ==
  /\ now = 1
  /\ records = {}
  /\ fails = [k \in Key |-> 0]
  /\ firstFail = [k \in Key |-> 0]
  /\ lockedTill = [k \in Key |-> 0]
  /\ key = [r \in Request |-> NoKey]
  /\ failures = [k \in Key |-> <<>>]

(* The requests for k that have passed allowed and await their outcome.    *)
Passed(k) == {r \in Request : key[r] = k}

Locked(k) == now < lockedTill[k]

Stale(k) == now - firstFail[k] > FailWindow

(* A request whose key is not locked goes on to the password check; one    *)
(* whose key is locked is answered 429 and leaves no trace.                *)
Allowed(r, k) ==
  /\ key[r] = NoKey /\ ~Locked(k)
  /\ fails' = IF Stale(k) THEN [fails EXCEPT ![k] = 0] ELSE fails
  /\ key' = [key EXCEPT ![r] = k]
  /\ UNCHANGED <<now, records, firstFail, lockedTill, failures>>

(* Mutant: the table is simply emptied when it is too large.               *)
gcEverything == {}

(* Mutant: a record goes when either its lock or its window is over.       *)
gcEither == {k \in records : now <= lockedTill[k] /\ ~Stale(k)}

(* The records gcLocked keeps.                                             *)
gcLocked == {k \in records : now <= lockedTill[k] \/ ~Stale(k)}

(* The records that remain when a record for k is needed.                  *)
Kept(k) ==
  IF k \notin records /\ Cardinality(records) > RecordsMaxKeep THEN gcLocked ELSE records

(* The failure opens a counting window: there is no record, or its window  *)
(* is over.                                                                *)
Opens(k) == k \notin records \/ Stale(k)

Count(k) == (IF Opens(k) THEN 0 ELSE fails[k]) + 1

(* Mutant: one failure too many is let through.                            *)
LocksLate(k) == Count(k) > MaxFails

Locks(k) == Count(k) >= MaxFails

(* Mutant: a new window resets the counter and not the window's start.     *)
WindowStays(k) == IF k \notin records \/ Locks(k) THEN now ELSE firstFail[k]

WindowStart(k) == IF Opens(k) \/ Locks(k) THEN now ELSE firstFail[k]

(* The password is wrong or the user unknown.                              *)
OnFailure(r) ==
  /\ key[r] # NoKey
  /\ LET k == key[r] IN
     /\ records' = Kept(k) \cup {k}
     /\ fails' = [j \in Key |-> IF j = k THEN IF Locks(k) THEN 0 ELSE Count(k)
                                ELSE IF j \in Kept(k) THEN fails[j] ELSE 0]
     /\ firstFail' = [j \in Key |-> IF j = k THEN WindowStart(k)
                                    ELSE IF j \in Kept(k) THEN firstFail[j] ELSE 0]
     /\ lockedTill' = [j \in Key |-> IF j = k /\ Locks(k) THEN now + LockDuration
                                     ELSE IF j \in Kept(k) THEN lockedTill[j] ELSE 0]
     /\ failures' = [failures EXCEPT ![k] = IF Locks(k) THEN <<>> ELSE Append(@, now)]
  /\ key' = [key EXCEPT ![r] = NoKey]
  /\ UNCHANGED now

(* The password is right: the record is deleted.                           *)
OnSuccess(r) ==
  /\ key[r] # NoKey
  /\ LET k == key[r] IN
     /\ records' = records \ {k}
     /\ fails' = [fails EXCEPT ![k] = 0]
     /\ firstFail' = [firstFail EXCEPT ![k] = 0]
     /\ lockedTill' = [lockedTill EXCEPT ![k] = 0]
     /\ failures' = [failures EXCEPT ![k] = <<>>]
  /\ key' = [key EXCEPT ![r] = NoKey]
  /\ UNCHANGED now

Tick ==
  /\ now < MaxTime
  /\ now' = now + 1
  /\ UNCHANGED <<recVars, key, failures>>

Next ==
  \/ \E r \in Request, k \in Key : Allowed(r, k)
  \/ \E r \in Request : OnFailure(r) \/ OnSuccess(r)
  \/ Tick

Spec == Init /\ [][Next]_vars

----------------------------------------------------------------------------
(* A lock lasts: failures of other keys, the garbage collection they set   *)
(* off and later failures of the key itself never end or shorten it.  Only *)
(* a request that was already past allowed and succeeds does.              *)
LockLasts ==
  [][\A k \in Key : Locked(k) => \/ lockedTill'[k] >= lockedTill[k]
                                 \/ \E r \in Passed(k) : OnSuccess(r)]_vars

(* The counting window starts at a failure and does not slide.  What it    *)
(* guarantees all the same: of the failures of a key since its last lock   *)
(* or success, no 2 * MaxFails - 1 consecutive ones lie within FailWindow, *)
(* whatever the requests in flight when a lock begins do.                  *)
Burst == 2 * MaxFails - 1

BoundedGuessing ==
  \A k \in Key : \A i \in DOMAIN failures[k] :
     i + Burst - 1 \in DOMAIN failures[k] =>
        failures[k][i + Burst - 1] - failures[k][i] > FailWindow

(* The window of k that is not over; its lock that is not over.  A record  *)
(* that is stale and unlocked counts for nothing, whether it is still in   *)
(* the table or not.                                                       *)
Counting(k) == k \in records /\ ~Stale(k)

countOf == [k \in Key |-> IF Counting(k) THEN fails[k] ELSE 0]
startOf == [k \in Key |-> IF Counting(k) THEN firstFail[k] ELSE 0]
tillOf  == [k \in Key |-> IF Locked(k) THEN lockedTill[k] ELSE 0]

Policy == INSTANCE LoginPolicy WITH count <- countOf, start <- startOf, till <- tillOf

(* The guard throttles every key as if it had a record of its own for      *)
(* ever: neither the collection that failures of other keys set off        *)
(* (loginsecurity.go:111, 137), nor the counter that allowed resets        *)
(* between a failure and the next (line 98), nor requests in flight when a *)
(* lock begins or a record is deleted ever change who is let through or    *)
(* how many failures lock a key.                                           *)
RefinesPolicy == Policy!PolicySpec
=============================================================================
