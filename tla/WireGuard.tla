----------------------------- MODULE WireGuard -----------------------------
(***************************************************************************)
(* WireGuard for remote access in saguaro-core (core/wireguard.go): the    *)
(* server's key in /etc/config/network, the table of peers with their      *)
(* addresses and access rules, and the handler that makes sections of the  *)
(* enabled ones, first in the network file and, when these are in force,   *)
(* in the firewall file.  The daemon has the peers of the last ifup.       *)
(***************************************************************************)
EXTENDS VpnCalls

CONSTANTS
  Peer         \* rows of wg_peers, with a key of their own each

VARIABLES
  wgKey,       \* private key of interface sag_wg0, None without interface
  wgTold,      \* keys whose public half was answered to a user (history)
  wgMet,       \* requests that generated a key beside another (history)
  peer         \* table wg_peers, with wg_peer_rules

wgVars == <<wgKey, wgTold, wgMet, peer>>

PeerRow == [ip : Asked, on : BOOLEAN, rule : BOOLEAN]

ASSUME WireGuardAssumption ==
  \A s \in Scenario : s.peers \in [Peer -> PeerRow \cup {None}]

WireGuardInit(s) ==
  /\ wgKey = (IF s.setUp THEN Old ELSE None) /\ wgTold = {} /\ wgMet = {}
  /\ peer = s.peers

Peers == {p \in Peer : peer[p] # None}

OnlyLocals == UNCHANGED <<configVars, crashes, wgVars>>

----------------------------------------------------------------------------
(* handleWGServerSet: the key that is there is kept, one is generated      *)
(* otherwise; the network file, then the firewall file with its two        *)
(* forwardings, the settings, and three reloads.                           *)

(* Whether another request has generated one that is not in the file yet. *)
Meets(r) == \E q \in Request \ {r} : at[q] = "wNet" /\ who[q] = q

(* Mutant: a new key at every save. *)
WGReadServerAnew(r) ==
  /\ kind[r] = "wServer" /\ Step(r, "start", "wNet")
  /\ who' = Remember(who, r, r)
  /\ wgMet' = IF Meets(r) THEN wgMet \cup {r} ELSE wgMet
  /\ UNCHANGED <<kind, asks, rows, seen, alone>>
  /\ UNCHANGED <<configVars, crashes, wgKey, wgTold, peer>>

WGReadServer(r) ==
  /\ kind[r] = "wServer" /\ Step(r, "start", "wNet")
  /\ who' = Remember(who, r, IF wgKey = None THEN r ELSE wgKey)
  /\ wgMet' = IF wgKey = None /\ Meets(r) THEN wgMet \cup {r} ELSE wgMet
  /\ \E allow \in BOOLEAN :
        seen' = Remember(seen, r, IF allow THEN {"mgmt"} ELSE {})
  /\ UNCHANGED <<kind, asks, rows, alone>>
  /\ UNCHANGED <<configVars, crashes, wgKey, wgTold, peer>>

WGServerNetwork(r) ==
  /\ kind[r] = "wServer" /\ Step(r, "wNet", "wFwRead")
  /\ wgKey' = who[r]
  /\ NoLocals /\ UNCHANGED <<configVars, crashes, wgTold, wgMet, peer>>

WGReadFirewall(r) ==
  /\ kind[r] = "wServer" /\ Step(r, "wFwRead", "wFw")
  /\ ReadFirewall(r)
  /\ UNCHANGED <<kind, who, asks, alone>> /\ OnlyLocals

WGServerFirewall(r) ==
  /\ kind[r] = "wServer" /\ Step(r, "wFw", "wReload")
  /\ fwFile' = ZoneInput(fwFile, rows[r], "wg", "mgmt" \in seen[r])
                 \cup {Full("wg")}
  /\ NoLocals /\ UNCHANGED <<fwRun, netFile, netRun, crashes, wgVars>>

WGServerReload(r) ==
  /\ kind[r] = "wServer" /\ Step(r, "wReload", "wUp")
  /\ LoadFirewall
  /\ NoLocals /\ UNCHANGED <<fwFile, netFile, netRun, crashes, wgVars>>

(* The peers of one interface, as `ifup` reads them from the file. *)
IfUp(iface) ==
  netRun' = (netRun \ Of(netRun, iface)) \cup Of(netFile, iface)

WGServerUp(r) ==
  /\ kind[r] = "wServer" /\ Step(r, "wUp", "done")
  /\ IfUp("wg") /\ wgTold' = wgTold \cup {who[r]}
  /\ NoLocals /\ UNCHANGED <<fwFile, fwRun, netFile, crashes, wgKey, wgMet, peer>>

(* handleWGAccessSet. *)
WGAccessRead(r) ==
  /\ kind[r] = "wAccess"
  /\ \E mode \in {"full", "restricted"} :
        /\ Step(r, "start", IF mode = "full" \/ Full("wg") \in fwFile
                              THEN "wAccess" ELSE "done")
        /\ rows' = Remember(rows, r, IF mode = "full" THEN {Full("wg")}
                                                      ELSE {})
  /\ UNCHANGED <<kind, who, asks, seen, alone>> /\ OnlyLocals

WGAccessCommit(r) ==
  /\ kind[r] = "wAccess" /\ Step(r, "wAccess", "wLoad")
  /\ fwFile' = (fwFile \ {Full("wg")}) \cup rows[r]
  /\ NoLocals /\ UNCHANGED <<fwRun, netFile, netRun, crashes, wgVars>>

----------------------------------------------------------------------------
(* Peers: nothing but the table keeps two of them from one address. *)

FreeAddress(p, ip) == \A q \in Peers \ {p} : peer[q].ip # ip

Others == <<configVars, crashes, wgKey, wgTold, wgMet>>

WGPeerCreate(r) ==
  /\ kind[r] = "wCreate" /\ Step(r, "start", "done")
  /\ \E p \in Peer \ Peers, ip \in Asked, on \in BOOLEAN :
        /\ Acceptable(wgKey # None, ip) /\ FreeAddress(p, ip)
        /\ peer' = [peer EXCEPT ![p] = [ip |-> ip, on |-> on, rule |-> FALSE]]
  /\ NoLocals /\ UNCHANGED Others

WGPeerUpdate(r) ==
  /\ kind[r] = "wUpdate" /\ Step(r, "start", "done")
  /\ \E p \in Peers, ip \in Asked, on \in BOOLEAN :
        /\ Acceptable(wgKey # None, ip) /\ FreeAddress(p, ip)
        /\ peer' = [peer EXCEPT ![p].ip = ip, ![p].on = on]
  /\ NoLocals /\ UNCHANGED Others

WGPeerRuleSet(r) ==
  /\ kind[r] = "wUpdate" /\ Step(r, "start", "done")
  /\ \E p \in Peers, rule \in BOOLEAN : peer' = [peer EXCEPT ![p].rule = rule]
  /\ NoLocals /\ UNCHANGED Others

(* The rules of a peer go with it. *)
WGPeerDelete(r) ==
  /\ kind[r] = "wDelete" /\ Step(r, "start", "done")
  /\ \E p \in Peers : peer' = [peer EXCEPT ![p] = None]
  /\ NoLocals /\ UNCHANGED Others

----------------------------------------------------------------------------
(* handleWGApply. *)

ReadPeerSections(r) ==
  /\ kind[r] = "wApply" /\ wgKey # None /\ Step(r, "start", "wPeers")
  /\ seen' = Remember(seen, r, Owners(netFile, "wg"))
  /\ UNCHANGED <<kind, who, asks, rows, alone>> /\ OnlyLocals

PeerSections == {<<"wg", p, peer[p].ip>> : p \in {p \in Peers : peer[p].on}}

ReadPeers(r) ==
  /\ kind[r] = "wApply" /\ Step(r, "wPeers", "wBatch")
  /\ rows' = Remember(rows, r, PeerSections)
  /\ UNCHANGED <<kind, who, asks, seen, alone>> /\ OnlyLocals

WritePeers(r) ==
  /\ kind[r] = "wApply" /\ Step(r, "wBatch", "wPeerUp")
  /\ netFile' = Batch(netFile, "wg", seen[r], rows[r])
  /\ NoLocals /\ UNCHANGED <<fwFile, fwRun, netRun, crashes, wgVars>>

(* Mutant: the network service is reloaded, the interface stays as it is. *)
NetworkReloadOnly(r) ==
  /\ kind[r] = "wApply" /\ Step(r, "wPeerUp", "wRules")
  /\ NoLocals /\ OnlyLocals

PeersUp(r) ==
  /\ kind[r] = "wApply" /\ Step(r, "wPeerUp", "wRules")
  /\ IfUp("wg")
  /\ NoLocals /\ UNCHANGED <<fwFile, fwRun, netFile, crashes, wgVars>>

PeerRules ==
  {<<"vr", p, peer[p].ip>> : p \in {p \in Peers : peer[p].on /\ peer[p].rule}}

ReadPeerRules(r) ==
  /\ kind[r] = "wApply" /\ Step(r, "wRules", "wSeen")
  /\ rows' = Remember(rows, r, PeerRules)
  /\ UNCHANGED <<kind, who, asks, seen, alone>> /\ OnlyLocals

ReadRuleSections(r) ==
  /\ kind[r] = "wApply" /\ Step(r, "wSeen", "wWrite")
  /\ seen' = Remember(seen, r, Owners(fwFile, "vr"))
  /\ UNCHANGED <<kind, who, asks, rows, alone>> /\ OnlyLocals

WritePeerRules(r) ==
  /\ kind[r] = "wApply" /\ Step(r, "wWrite", "wLoad")
  /\ fwFile' = Batch(fwFile, "vr", seen[r], rows[r])
  /\ NoLocals /\ UNCHANGED <<fwRun, netFile, netRun, crashes, wgVars>>

WGReload(r) ==
  /\ kind[r] \in {"wAccess", "wApply"} /\ Step(r, "wLoad", "done")
  /\ LoadFirewall
  /\ NoLocals /\ UNCHANGED <<fwFile, netFile, netRun, crashes, wgVars>>

WireGuardStep(r) ==
  \/ WGReadServer(r) \/ WGServerNetwork(r) \/ WGReadFirewall(r) \/ WGServerFirewall(r)
  \/ WGServerReload(r) \/ WGServerUp(r) \/ WGAccessRead(r) \/ WGAccessCommit(r)
  \/ WGPeerCreate(r) \/ WGPeerUpdate(r) \/ WGPeerRuleSet(r) \/ WGPeerDelete(r)
  \/ ReadPeerSections(r) \/ ReadPeers(r) \/ WritePeers(r) \/ PeersUp(r)
  \/ ReadPeerRules(r) \/ ReadRuleSections(r) \/ WritePeerRules(r)
  \/ WGReload(r)

WireGuardType ==
  /\ {wgKey} \cup wgTold \subseteq Key \cup {None} /\ wgMet \subseteq Request
  /\ \A p \in Peer : peer[p] = None \/ peer[p] \in PeerRow
=============================================================================
