------------------------------ MODULE Tunnels ------------------------------
(***************************************************************************)
(* The VPNs of saguaro-core together: OpenVPN, WireGuard for remote access *)
(* and the site to site tunnels.  Each edits the network and firewall      *)
(* files, and every reload of the firewall loads what any of them has put  *)
(* in the file by then.                                                    *)
(***************************************************************************)
EXTENDS OpenVPN, Sites

vars == <<callVars, configVars, crashes, ovpnVars, wgVars, siteVars>>

Zones == {Zone("ovpn"), Zone("wg"), Full("ovpn"), Full("wg")}

Init ==
  \E s \in Scenario :
     /\ CallInit(s) /\ OpenVPNInit(s) /\ WireGuardInit(s) /\ SitesInit(s)
     /\ fwFile = IF s.setUp THEN Zones ELSE {}
     /\ fwRun = fwFile

Next ==
  \/ \E r \in Request :
        \/ (Begin(r) \/ Fail(r)) /\ UNCHANGED <<ovpnVars, wgVars, siteVars>>
        \/ OpenVPNStep(r) /\ UNCHANGED <<wgVars, siteVars>>
        \/ WireGuardStep(r) /\ UNCHANGED <<ovpnVars, siteVars>>
        \/ SitesStep(r) /\ UNCHANGED <<ovpnVars, wgVars>>
  \/ Crash /\ UNCHANGED <<ovpnVars, wgVars, siteVars>>

Spec == Init /\ [][Next]_vars

----------------------------------------------------------------------------
(* Every variable of the three components has its type.                    *)
TypeOK ==
  /\ \A r \in Request : who[r] \in Client \cup Site \cup Key \cup {None}
  /\ alone \subseteq Request /\ crashes \in 0..MaxCrashes
  /\ OpenVPNType /\ WireGuardType /\ SitesType

(* Whatever breaks off while the certificates are made (ensureOvpnPKI) or  *)
(* the server is set up (handleWGServerSet), the files fit each other from *)
(* then on and never change under the clients: a certificate of the        *)
(* authority that can be read has its key, and the server's certificate,   *)
(* crl.pem and every client's certificate are of that authority; what was  *)
(* set up has an authority.  This can fail only after two requests made    *)
(* the authority at once, as nothing in the code keeps them from doing.    *)
(* In the same way the server's certificate, once it is whole, has the key *)
(* that is there; whether its writing broke off the code does not ask.  A  *)
(* WireGuard key that users were told is the one in use.                   *)
AuthorityFits ==
  /\ Readable(pki.caCrt) => pki.caKey = pki.caCrt
  /\ Readable(pki.srvCrt) => pki.srvCrt.ca = pki.caCrt
  /\ Readable(pki.crl) => pki.crl.ca = pki.caCrt
  /\ \A c \in Clients : client[c].ca = pki.caCrt
  /\ ovpnSet => Readable(pki.caCrt)

ServerFits ==
  /\ Readable(pki.srvCrt) => pki.srvCrt.key = pki.srvKey
  /\ ovpnSet => Readable(pki.srvKey) /\ pki.srvCrt # None

KeysMatch ==
  /\ "ca" \in crossed \/ AuthorityFits
  /\ "server" \in crossed \/ ServerFits
  /\ wgMet # {} \/ wgTold \subseteq {wgKey}

(* A client that was deleted stays out: its certificate is among the       *)
(* revoked ones from the moment its row is gone, and once the deletion was *)
(* answered with revoked = true, crl.pem has it, or cannot be read, and    *)
(* then OpenVPN lets nobody in.  This can fail only while the crl.pem that *)
(* is there was signed from less than the table held (writeOvpnCRL passes  *)
(* over a failed read, openvpn.go:182) or another request had read the     *)
(* table after the one that wrote last; the next crl.pem makes it good.    *)
DeletedIsRevoked ==
  /\ \A r \in Request :
        kind[r] = "oDelete" /\ who[r] # None /\ client[who[r]] = None =>
          who[r] \in revoked
  /\ Readable(pki.crl) /\ crlBy \notin blind => told \subseteq pki.crl.out

(* What the tables say is in force. *)
OpenVPNInForce ==
  /\ ccd = {<<NameOf[c], client[c].ip>> : c \in Enabled}
  /\ users = {NameOf[c] : c \in {c \in Enabled : client[c].pass}}
  /\ Of(fwRun, "or") = ClientRules

WireGuardInForce ==
  Of(netRun, "wg") = PeerSections /\ Of(fwRun, "vr") = PeerRules

SitesInForce == Of(netRun, "wgs") = SiteSections

MgmtAsAsked(r) ==
  "unread" \in seen[r] \/ (Mgmt(Vpn(r)) \in fwRun) = ("mgmt" \in seen[r])

SavedAddress(r) == "behind" \in seen[r] \/ wgsRun = asks[r]

InForce(r) ==
  CASE kind[r] = "oApply" -> OpenVPNInForce
    [] kind[r] = "wApply" -> WireGuardInForce
    [] kind[r] = "sApply" -> SitesInForce
    [] kind[r] = "sLocal" -> SavedAddress(r) /\ MgmtAsAsked(r)
    [] kind[r] \in {"oServer", "wServer"} -> MgmtAsAsked(r)
    [] OTHER -> TRUE

(* An apply that is answered as done, and beside which no other request of *)
(* its VPN ran, leaves exactly the tables in force: no address, file or    *)
(* rule of a row that is gone or disabled, whatever applies that failed,   *)
(* overlapped or crashed have left behind, and whatever the other VPNs do  *)
(* to the same files meanwhile (handleOvpnApply, handleWGApply,            *)
(* handleWGSApply).  In the same way a save of a server's settings leaves  *)
(* the device open to the VPN exactly if that was asked for, unless the    *)
(* firewall file could not be read, which is passed over (wgsite.go:386),  *)
(* and its interface with the address it answered (handleWGSLocalSet),     *)
(* unless an earlier save has put it into the file and not into force.     *)
QuietApplyIsExact ==
  [][\A r \in Request :
        at[r] # "done" /\ at'[r] = "done" /\ r \in alone => InForce(r)']_vars

(* The networks behind the sites stay apart, whatever edits fail or crash, *)
(* as long as none overlapped another: validateWGSite compares them a few  *)
(* statements before the row is written, and no index does.                *)
SitesApart ==
  (\A r \in Request : kind[r] \in {"sCreate", "sUpdate"} /\ at[r] = "done" =>
      r \in alone) =>
    \A s, t \in AllSites : s # t => site[s].net # site[t].net

(* The address the status page suggests for the next row (nextFreeTunnelIP)*)
(* is one that creating it accepts, and in a network that has room none is *)
(* suggested only when none would be accepted.                             *)
Suggests(used) ==
  LET ip == NextFree(TunnelNet, used)
  IN  IF ip = NoAddress
        THEN HasRoom(TunnelNet) => \A a \in 0..(TunnelNet.base + Size(TunnelNet)) :
               Acceptable(TRUE, a) => a \in used
        ELSE Acceptable(TRUE, ip) /\ ip \notin used

SuggestionIsFree ==
  /\ Suggests({client[c].ip : c \in Clients})
  /\ Suggests({peer[p].ip : p \in Peers})
  /\ Suggests({site[s].ip : s \in AllSites})
=============================================================================
