------------------------------- MODULE Relay -------------------------------
(***************************************************************************)
(* How relayHandler chooses the node that relays between the sender of a   *)
(* request and a peer (relayhandler.go:39-111): the loop over the map of   *)
(* sessions, which yields them in any order.  A session is a record of     *)
(* what the loop looks at; times are minutes.                              *)
(*                                                                         *)
(* The handler holds the map's lock for reading, so the map stands still,  *)
(* but other workers that hold it too set the relayTime of a session they  *)
(* choose while this one reads it, with no lock for it.  One such write is *)
(* modelled, to session set.node: reading number set.from may meet it in   *)
(* the middle and find set.torn, whatever that is; later ones find now.    *)
(***************************************************************************)
EXTENDS Integers, Sequences

CONSTANTS
  Loopback,   \* the loopback addresses
  NoRelay,    \* no session
  Now,        \* the time of the request
  IdleTime    \* a session not used for longer is taken at once: 30 in the code

(* What the loop looks at of a session.                                    *)
Session ==
  [node : Int, majorVer : Nat, user : STRING, symmetric : BOOLEAN, ip : STRING, relayTime : Int]

ASSUME RelayAssumption == Now \in Nat /\ IdleTime \in Nat /\ NoRelay \notin Session

(* Mutant: the peer may relay for itself.                                  *)
UsablePeer(req, peer, s) ==
  /\ s.majorVer = req.majorVer /\ s.node # req.node
  /\ s.user = req.user /\ ~s.symmetric
  /\ s.ip \in Loopback \/ s.ip \notin {req.ip, peer.ip}

(* The tests the loop makes of a session: of the same major version and    *)
(* user, neither of the two, not behind a symmetric NAT, and at an address *)
(* of its own unless it is a loopback address.                             *)
Usable(req, peer, s) ==
  /\ s.majorVer = req.majorVer
  /\ s.node \notin {req.node, peer.node}
  /\ s.user = req.user /\ ~s.symmetric
  /\ s.ip \in Loopback \/ s.ip \notin {req.ip, peer.ip}

(* The relayTime of s as reading number k finds it.                        *)
TimeRead(s, set, k) ==
  CASE s.node # set.node \/ k < set.from -> s.relayTime
    [] s.node = set.node /\ k = set.from -> set.torn
    [] s.node = set.node /\ k > set.from -> Now

(* Mutant: the comparison is the wrong way round.                          *)
BetterLatest(best, s, set, k) ==
  best = NoRelay \/ TimeRead(s, set, k + 1) > TimeRead(best, set, k + 2)

(* s is the first usable session, or has been idle for longer than the     *)
(* best one so far; k readings have been made before.                      *)
Better(best, s, set, k) ==
  best = NoRelay \/ TimeRead(s, set, k + 1) < TimeRead(best, set, k + 2)

(* One iteration of the loop; "over" is its break.                         *)
Visit(req, peer, set, loop, s) ==
  IF loop.over \/ ~Usable(req, peer, s) THEN loop
  ELSE LET k == IF loop.best = NoRelay THEN 1 ELSE 3 IN
       [best |-> IF Better(loop.best, s, set, loop.reads) THEN s ELSE loop.best,
        reads |-> loop.reads + k,
        over |-> TimeRead(s, set, loop.reads + k) < Now - IdleTime]

(* The session chosen when the map yields its sessions in this order.      *)
RelayNode(req, peer, order, set) ==
  LET loop[i \in 0..Len(order)] ==
        IF i = 0 THEN [best |-> NoRelay, reads |-> 0, over |-> FALSE]
        ELSE Visit(req, peer, set, loop[i - 1], order[i])
  IN loop[Len(order)].best
=============================================================================
