----------------------------- MODULE MCTunnels -----------------------------
(* Small instances of Tunnels: a scenario of two or three calls for each    *)
(* hazard.                                                                 *)
EXTENDS Tunnels, TLC

CONSTANTS r1, r2, r3, c1, c2, p1, p2, s1, s2, n1, n2, n3, n4

MCNameOf == [c \in Client |-> c]
MCNet == [base |-> 0, ones |-> 29]

Calls(a, b, c) == [r \in Request |->
  CASE r = r1 -> a [] r = r2 -> b [] OTHER -> c]

NoClients == [c \in Client |-> None]
NoPeers == [p \in Peer |-> None]
NoSites == [s \in Site |-> None]

AClient(ip, rule) ==
  [ip |-> ip, on |-> TRUE, rule |-> rule, pass |-> TRUE, ca |-> Old]
OneClient == [c \in Client |-> IF c = c1 THEN AClient(2, TRUE) ELSE None]
TwoClients == [c \in Client |-> AClient(IF c = c1 THEN 2 ELSE 3, c = c1)]
OnePeer == [p \in Peer |->
  IF p = p1 THEN [ip |-> 2, on |-> TRUE, rule |-> TRUE] ELSE None]
OneSite == [s \in Site |->
  IF s = s1 THEN [ip |-> 2, net |-> n3, on |-> TRUE] ELSE None]

New(calls) == [calls |-> calls, setUp |-> FALSE, wgs |-> None,
               clients |-> NoClients, peers |-> NoPeers, sites |-> NoSites]
OpenVPNs(calls, clients) ==
  [New(calls) EXCEPT !.setUp = TRUE, !.clients = clients]
WireGuards(calls) == [New(calls) EXCEPT !.setUp = TRUE, !.peers = OnePeer]
SiteLinks(calls) == [New(calls) EXCEPT !.wgs = n2, !.sites = OneSite]

MCScenarios == {
  New(Calls("oServer", "oCreate", None)),
  OpenVPNs(Calls("oCreate", "oCreate", "oDelete"), NoClients),
  OpenVPNs(Calls("oServer", "oAccess", None), NoClients),
  OpenVPNs(Calls("oDelete", "oDelete", None), TwoClients),
  OpenVPNs(Calls("oDelete", "oServer", "oAccess"), OneClient),
  OpenVPNs(Calls("oDelete", "oCreate", "oApply"), OneClient),
  OpenVPNs(Calls("oApply", "oApply", "oUpdate"), OneClient),
  New(Calls("wServer", "wServer", None)),
  New(Calls("wServer", "wCreate", None)),
  WireGuards(Calls("wServer", "wAccess", "oApply")),
  WireGuards(Calls("wApply", "wApply", "wUpdate")),
  WireGuards(Calls("wApply", "wDelete", "sApply")),
  SiteLinks(Calls("sApply", "sApply", "sCreate")),
  SiteLinks(Calls("sLocal", "sLocal", None)),
  SiteLinks(Calls("sLocal", "sApply", None)),
  SiteLinks(Calls("sUpdate", "sDelete", "sApply")),
  SiteLinks(Calls("sCreate", "sUpdate", None))}

(* Clients differ in nothing but what the tables say of them. *)
Same == Permutations(Client)
=============================================================================
