----------------------------- MODULE Algorithms -----------------------------
(***************************************************************************)
(* What the gateway computes and chooses, on one input at a time: the      *)
(* address of a new member (module Addresses) and the relay for a pair of  *)
(* nodes (module Relay), compared with what they are to be.                *)
(***************************************************************************)
EXTENDS Addresses, Relay, SequencesExt

CONSTANTS
  Gateways,   \* gateway addresses
  Sizes,      \* sizes of subnets
  Taken,      \* how many of a subnet's addresses are taken from the first on
  Ends,       \* pairs of a requester's and a peer's session
  Others,     \* other sessions, by what they are like
  Torn,       \* what a reading of a time that is being written may find
  MaxOthers,  \* bound of the model: other sessions in the map
  MaxFrom     \* bound of the model: readings before another worker's write

ASSUME InputsAssumption ==
  /\ Gateways \subseteq Address
  /\ \A z \in Sizes : z \in 1..AllAddresses /\ AllAddresses % z = 0
  /\ Ends \subseteq Session \X Session /\ Others \subseteq Session /\ Torn \subseteq Int
  /\ MaxOthers \in Nat /\ MaxFrom \in Nat

VARIABLE input

NoInput == [kind |-> "none"]

(* The members' addresses: the first n of the subnet after the network     *)
(* address, and the x-th.                                                  *)
Members(g, z, n, x) ==
  {OfNum(Num(Network(g, z)) + i) : i \in {j \in (1..n) \cup {x} : j < z}}

PickAddress ==
  \E g \in Gateways, z \in Sizes, n \in Taken, x \in Taken :
     input' = [kind |-> "address", gateway |-> g, size |-> z, members |-> Members(g, z, n, x)]

(* The map yields the two ends first or last, and others, which are nodes  *)
(* 1, 2, ... in this order; node x is chosen by another worker.            *)
PickRelay ==
  \E e \in Ends, n \in 0..MaxOthers, k \in 1..MaxFrom, t \in Torn :
  \E o \in [1..n -> Others], x \in 0..n :
     LET others == [i \in 1..n |-> [o[i] EXCEPT !.node = i]] IN
     \E order \in {e \o others, others \o e} :
        input' = [kind |-> "relay", req |-> e[1], peer |-> e[2], order |-> order,
                  set |-> [node |-> x, from |-> k, torn |-> t]]

Init == input = NoInput

Next == input = NoInput /\ (PickAddress \/ PickRelay)

Spec == Init /\ [][Next]_input

----------------------------------------------------------------------------
(* The free addresses of the subnet within reach of the search, by their   *)
(* distance from its network address.                                      *)
FreeAt(g, z, members) ==
  {k \in 1..MaxTries : /\ k < z
                       /\ OfNum(Num(Network(g, z)) + k) \notin {g} \cup members}

(* allocVirtualIP "picks the next free virtual ip in the network's subnet, *)
(* skipping the gateway address" (store.go:292): its count by bytes and    *)
(* its end at the first address outside find the free address nearest to   *)
(* the network address, across bytes and next to the last address, and     *)
(* find none only if there is none within MaxTries addresses.  Nothing is  *)
(* said of the last address of the subnet, the broadcast address, but that *)
(* it is given only if it is free and all others are taken: store.go:312   *)
(* can be read as if it were skipped.                                      *)
AllocFirstFree ==
  input.kind = "address" =>
    LET g == input.gateway
        z == input.size
        free == FreeAt(g, z, input.members)
        inner == free \ {z - 1}
        got == AllocVirtualIP(g, z, input.members)
        addr(k) == OfNum(Num(Network(g, z)) + k)
    IN IF inner # {} THEN got = addr(Min(inner))
       ELSE got \in {NoAddress} \cup {addr(k) : k \in free}

(* A node that can relay between two others of its user: a third one, with *)
(* their version, that both can reach.                                     *)
CanRelay(s) ==
  LET far == s.ip # input.req.ip /\ s.ip # input.peer.ip IN
  /\ s.node # input.req.node /\ s.node # input.peer.node
  /\ s.user = input.req.user /\ s.majorVer = input.req.majorVer
  /\ ~s.symmetric /\ (far \/ s.ip \in Loopback)

Relays == {s \in ToSet(input.order) : CanRelay(s)}
Chosen == RelayNode(input.req, input.peer, input.order, input.set)

(* A relay is chosen if there is one, and it is neither end nor a node     *)
(* they cannot both reach, in whatever order the map is gone over, where   *)
(* ever the loop is left, and although other workers change the times it   *)
(* compares (relayhandler.go:68-98).                                       *)
RelayFits ==
  input.kind = "relay" =>
    IF Relays = {} THEN Chosen = NoRelay ELSE Chosen \in Relays

(* It "finds the most idle node" (relayhandler.go:91) or one that has been *)
(* idle for long enough, if no other worker chooses at the same time.      *)
RelayIdlest ==
  input.kind = "relay" /\ input.set.node = 0 /\ Relays # {} =>
    \/ Chosen.relayTime < Now - IdleTime
    \/ \A s \in Relays : Chosen.relayTime <= s.relayTime
=============================================================================
