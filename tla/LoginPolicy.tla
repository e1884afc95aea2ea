---------------------------- MODULE LoginPolicy ----------------------------
(***************************************************************************)
(* What loginGuard promises, key by key: failures are counted in a window  *)
(* that opens with the first of them and is over FailWindow later, the one *)
(* that reaches MaxFails locks the key for LockDuration and opens the next *)
(* window, a success forgets everything.  Nothing is said of a table of    *)
(* records, of a limit to it, or of one key in an action of another: what  *)
(* is over is forgotten when its time comes.  Module LoginGuard shows that *)
(* the records of loginsecurity.go, reset and collected at the failures of *)
(* whatever key, implement this.                                           *)
(***************************************************************************)
EXTENDS Integers

CONSTANTS Key, NoKey, Request, MaxFails, LockDuration, FailWindow, MaxTime

VARIABLES
  now,    \* the clock
  key,    \* the key of a request between allowed and its outcome
  count,  \* failures of a key in its window
  start,  \* when the window of a key began, 0 without one
  till    \* when the lock of a key ends, 0 without one

pvars == <<now, key, count, start, till>>

PolicyInit ==
  /\ now = 1
  /\ key = [r \in Request |-> NoKey]
  /\ count = [k \in Key |-> 0]
  /\ start = [k \in Key |-> 0]
  /\ till = [k \in Key |-> 0]

(* A request for a key that is not locked passes.                          *)
Pass(r, k) ==
  /\ key[r] = NoKey /\ till[k] = 0
  /\ key' = [key EXCEPT ![r] = k]
  /\ UNCHANGED <<now, count, start, till>>

(* Its password is wrong.                                                  *)
Fail(r) ==
  /\ key[r] # NoKey
  /\ LET k == key[r]
         locks == count[k] + 1 >= MaxFails
     IN /\ count' = [count EXCEPT ![k] = IF locks THEN 0 ELSE @ + 1]
        /\ start' = [start EXCEPT ![k] = IF locks \/ @ = 0 THEN now ELSE @]
        /\ till' = [till EXCEPT ![k] = IF locks THEN now + LockDuration ELSE @]
  /\ key' = [key EXCEPT ![r] = NoKey]
  /\ UNCHANGED now

(* Its password is right.                                                  *)
Succeed(r) ==
  /\ key[r] # NoKey
  /\ LET k == key[r] IN
     /\ count' = [count EXCEPT ![k] = 0]
     /\ start' = [start EXCEPT ![k] = 0]
     /\ till' = [till EXCEPT ![k] = 0]
  /\ key' = [key EXCEPT ![r] = NoKey]
  /\ UNCHANGED now

(* The window of k is not over an instant from now.                        *)
Pending(k) == start[k] # 0 /\ now + 1 - start[k] <= FailWindow

(* Time passes; windows and locks that are over are forgotten.             *)
Elapse ==
  /\ now < MaxTime
  /\ now' = now + 1
  /\ count' = [k \in Key |-> IF Pending(k) THEN count[k] ELSE 0]
  /\ start' = [k \in Key |-> IF Pending(k) THEN start[k] ELSE 0]
  /\ till' = [k \in Key |-> IF now + 1 < till[k] THEN till[k] ELSE 0]
  /\ UNCHANGED key

PolicyNext ==
  \/ \E r \in Request, k \in Key : Pass(r, k)
  \/ \E r \in Request : Fail(r) \/ Succeed(r)
  \/ Elapse

PolicySpec == PolicyInit /\ [][PolicyNext]_pvars
=============================================================================
