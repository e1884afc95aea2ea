----------------------------- MODULE Addresses -----------------------------
(***************************************************************************)
(* The arithmetic of virtual addresses: incIP, which counts an address up  *)
(* byte by byte, and allocVirtualIP, which looks for the next free address *)
(* of a network with it (store.go:291-328).                                *)
(*                                                                         *)
(* Addresses are the four bytes of a net.IP in its 4-byte form.  A subnet  *)
(* is the gateway's address and the number of addresses of its block, a    *)
(* power of two (what package net makes of a CIDR text; a text it refuses  *)
(* and an IPv6 subnet are answered with an error and not modelled).        *)
(* Base, 256 in the code, is a constant so that TLC can go over all        *)
(* addresses of a smaller base.                                            *)
(***************************************************************************)
EXTENDS Integers

CONSTANTS
  Base,       \* the number of values of a byte
  MaxTries,   \* the bound of the search, 2^24 in the code
  NoAddress   \* no address: "no free virtual ip"

Byte == 0..(Base - 1)
Address == [1..4 -> Byte]

ASSUME NoAddressAssumption == NoAddress \notin Address

(* An address as the number its bytes write, and back.                     *)
Num(a) == ((a[1] * Base + a[2]) * Base + a[3]) * Base + a[4]
AllAddresses == Base * Base * Base * Base

(* The search does not come back to where it began.                        *)
ASSUME AddressesAssumption == Base \in Nat \ {0} /\ MaxTries \in 0..(AllAddresses - 1)

OfNum(k) ==
  [j \in 1..4 |-> CASE j = 4 -> k % Base
                    [] j = 3 -> (k \div Base) % Base
                    [] j = 2 -> (k \div (Base * Base)) % Base
                    [] j = 1 -> k \div (Base * Base * Base)]

(* The ++ of a byte.                                                       *)
IncByte(b) == IF b = Base - 1 THEN 0 ELSE b + 1

(* Mutant: the carry stops at the last but one byte.                       *)
IncIPShort(ip) ==
  [j \in 1..4 |-> IF j >= 3 /\ \A i \in (j + 1)..4 : ip[i] = Base - 1
                  THEN IncByte(ip[j]) ELSE ip[j]]

(* incIP goes from the last byte to the first and stops at the first byte  *)
(* that does not wrap to 0: a byte is counted up if those after it wrap.   *)
IncIP(ip) ==
  [j \in 1..4 |-> IF \A i \in (j + 1)..4 : ip[i] = Base - 1
                  THEN IncByte(ip[j]) ELSE ip[j]]

(* net.IPNet: the first address of the gateway's block, and the test       *)
(* whether an address is in the block.                                     *)
Network(gateway, size) == OfNum(Num(gateway) - (Num(gateway) % size))
InSubnet(gateway, size, ip) == Num(ip) \div size = Num(gateway) \div size

(* Mutant: the gateway's own address counts as free.                       *)
AllocNoGateway(gateway, size, members) ==
  LET try[i \in 0..MaxTries] ==
        [ip \in Address |->
           LET next == IncIP(ip) IN
           IF i = 0 \/ ~InSubnet(gateway, size, next) THEN NoAddress
           ELSE IF next \in members THEN try[i - 1][next]
           ELSE next]
  IN try[MaxTries][Network(gateway, size)]

(* allocVirtualIP counts up from the network address, MaxTries times at    *)
(* most, until it leaves the subnet or finds an address that is neither    *)
(* the gateway's nor a member's.  The last address of the subnet (its      *)
(* broadcast address) is not skipped.  try[i][ip] is what it returns from  *)
(* ip on, with i turns of the loop left.                                   *)
AllocVirtualIP(gateway, size, members) ==
  LET used == {gateway} \cup members
      try[i \in 0..MaxTries] ==
        [ip \in Address |->
           LET next == IncIP(ip) IN
           IF i = 0 \/ ~InSubnet(gateway, size, next) THEN NoAddress
           ELSE IF next \in used THEN try[i - 1][next]
           ELSE next]
  IN try[MaxTries][Network(gateway, size)]
=============================================================================
