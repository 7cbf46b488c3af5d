--------------------------- MODULE TunnelAddress ---------------------------
(***************************************************************************)
(* Addresses inside a VPN tunnel (core/ipalloc.go).  An address is a       *)
(* number of Width bits, a network its first address and the length of its *)
(* prefix.  Three addresses are never given away: that of the network, the *)
(* device's own, and the broadcast address.                                *)
(***************************************************************************)
EXTENDS Naturals

CONSTANTS
  Width,     \* bits of an address: 32 in the code
  Longest,   \* the longest prefix that leaves room for a client: 29
  Shortest,  \* the shortest prefix served: 8
  NoAddress  \* the empty string: nothing to suggest

ASSUME TunnelAddressAssumption ==
  /\ Width \in Nat /\ Longest \in Nat /\ Shortest \in Nat
  /\ Shortest <= Longest /\ Longest + 3 <= Width
  /\ NoAddress \notin Nat
  /\ \A k \in 0..(Width - Shortest) : 2 ^ k \in Nat

Net == [base : Nat, ones : 0..Width]

Size(n) == 2 ^ (Width - n.ones)

Contains(n, ip) == ip \in n.base..(n.base + Size(n) - 1)

HasRoom(n) == n.ones <= Longest /\ n.ones >= Shortest

First(n) == n.base + 2

LastOf(n) == n.base + Size(n) - 2

HostRange(n) == IF HasRoom(n) THEN First(n)..LastOf(n) ELSE {}

Reserved(n, ip) == HasRoom(n) /\ (ip < First(n) \/ ip > LastOf(n))

(* The loop of nextFreeTunnelIP stops at the first address not in use. *)
Stops(n, used, v) ==
  /\ v \in HostRange(n) /\ v \notin used
  /\ \A u \in HostRange(n) : u < v => u \in used

(* Mutant: the search starts at the network's own address. *)
NextFreeFromBase(n, used) ==
  CHOOSE v \in n.base..LastOf(n) :
     v \notin used /\ \A u \in n.base..LastOf(n) : u < v => u \in used

NextFree(n, used) ==
  IF \E v \in HostRange(n) : Stops(n, used, v)
    THEN CHOOSE v \in HostRange(n) : Stops(n, used, v)
    ELSE NoAddress
=============================================================================
