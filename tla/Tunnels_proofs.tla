--------------------------- MODULE Tunnels_proofs ---------------------------
(***************************************************************************)
(* Proofs about Tunnels: the addresses suggested for a tunnel              *)
(* (TunnelAddress), the type invariant, that keys and certificates fit     *)
(* (KeysMatch), that a deleted client stays revoked (DeletedIsRevoked),    *)
(* that the networks of sites stay apart (SitesApart), and that an apply   *)
(* beside which nothing of its VPN runs leaves exactly the tables in force *)
(* (QuietApplyIsExact).                                                    *)
(***************************************************************************)
EXTENDS Tunnels, WellFoundedInduction, TLAPS

(* A set of numbers with a member has a least one. *)
LEMMA LeastMember ==
  ASSUME NEW T, T \subseteq Nat, T # {}
  PROVE  \E v \in T : \A u \in T : ~(u < v)
<1> DEFINE Less == {p \in Nat \X Nat : p[1] < p[2]}
<1>1. IsWellFoundedOn(Less, Nat)
  BY NatLessThanWellFounded DEF OpToRel
<1>2. \E v \in T : \A u \in T : ~(<<u, v>> \in Less)
  <2> HIDE DEF Less
  <2> QED BY <1>1, WFMin
<1> QED BY <1>2

(* Whatever network with room and whatever addresses in use: what          *)
(* nextFreeTunnelIP returns is an address a row may get and nobody has,    *)
(* and when it returns none, every such address is in use.                 *)
LEMMA FreeAddressFound ==
  ASSUME NEW n \in Net, NEW used
  PROVE  LET ip == NextFree(n, used)
         IN  /\ ip \in Nat => Stops(n, used, ip)
             /\ ip = NoAddress => HostRange(n) \subseteq used
             /\ ip \in Nat \cup {NoAddress}
<1>1. HostRange(n) \subseteq Nat
  BY TunnelAddressAssumption DEF HostRange, First, LastOf, Net
<1>2. CASE HostRange(n) \subseteq used
  BY <1>2, TunnelAddressAssumption DEF NextFree, Stops
<1>3. CASE ~(HostRange(n) \subseteq used)
  <2> DEFINE T == HostRange(n) \ used
  <2>1. T \subseteq Nat /\ T # {}
    BY <1>1, <1>3
  <2>2. PICK v \in T : \A u \in T : ~(u < v)
    <3> HIDE DEF T
    <3> QED BY <2>1, LeastMember
  <2>3. v \in HostRange(n) /\ Stops(n, used, v)
    BY <2>2, <1>1 DEF Stops
  <2>4. NextFree(n, used) \in HostRange(n) /\ Stops(n, used, NextFree(n, used))
    BY <2>3 DEF NextFree
  <2> QED BY <2>4, <1>1, TunnelAddressAssumption
<1> QED BY <1>2, <1>3

(* Addresses a row may get in a network with room are those of its range. *)
LEMMA AcceptableIsHost ==
  ASSUME HasRoom(TunnelNet), NEW a \in Nat
  PROVE  Acceptable(TRUE, a) <=> a \in HostRange(TunnelNet)
<1>1. TunnelNet.base \in Nat /\ TunnelNet \in Net
  BY VpnCallsAssumption DEF Net
<1>2. Size(TunnelNet) \in Nat
  <2>1. TunnelNet.ones \in Shortest..Longest
    BY <1>1, TunnelAddressAssumption DEF HasRoom, Net
  <2>2. Width - TunnelNet.ones \in 0..(Width - Shortest)
    BY <2>1, TunnelAddressAssumption
  <2> QED BY <2>2, TunnelAddressAssumption DEF Size
<1> QED BY <1>1, <1>2 DEF Acceptable, Contains, Reserved, HostRange, First, LastOf

(* In every state, whatever the tables hold: the address suggested for the *)
(* next client, peer or site is one that creating it accepts, and none is  *)
(* suggested only when none is left.                                       *)
LEMMA AlwaysSuggests ==
  ASSUME NEW used
  PROVE  Suggests(used)
<1> DEFINE ip == NextFree(TunnelNet, used)
<1>1. TunnelNet \in Net /\ TunnelNet.base \in Nat
  BY VpnCallsAssumption DEF Net
<1>2. /\ ip \in Nat => Stops(TunnelNet, used, ip)
      /\ ip = NoAddress => HostRange(TunnelNet) \subseteq used
      /\ ip \in Nat \cup {NoAddress}
  BY <1>1, FreeAddressFound
<1>3. CASE ip = NoAddress
  <2> SUFFICES ASSUME HasRoom(TunnelNet),
                      NEW a \in 0..(TunnelNet.base + Size(TunnelNet)),
                      Acceptable(TRUE, a)
               PROVE  a \in used
    BY <1>3 DEF Suggests
  <2>1. a \in Nat
    OBVIOUS
  <2> QED BY <1>2, <1>3, <2>1, AcceptableIsHost
<1>4. CASE ip # NoAddress
  <2>1. ip \in Nat /\ ip \in HostRange(TunnelNet) /\ ip \notin used
    BY <1>2, <1>4 DEF Stops
  <2>2. HasRoom(TunnelNet)
    BY <2>1 DEF HostRange
  <2>3. Acceptable(TRUE, ip)
    BY <2>1, <2>2, AcceptableIsHost
  <2> QED BY <1>4, <2>1, <2>3 DEF Suggests
<1> QED BY <1>3, <1>4

(* So what the status page suggests is free in every reachable state.      *)
THEOREM SuggestionAlwaysFree == Spec => []SuggestionIsFree
<1>1. SuggestionIsFree
  BY AlwaysSuggests DEF SuggestionIsFree
<1> QED BY <1>1, PTL

----------------------------------------------------------------------------
(* Invariants. *)

(* The variables of the requests are functions of the requests. *)
Shapes ==
  /\ kind \in [Request -> Kind \cup {None}] /\ DOMAIN at = Request
  /\ who \in [Request -> Client \cup Site \cup Key \cup {None}]
  /\ asks \in [Request -> Asked \cup SiteNet \cup {None}]
  /\ DOMAIN rows = Request /\ DOMAIN seen = Request
  /\ DOMAIN client = Client /\ DOMAIN peer = Peer /\ DOMAIN site = Site
  /\ DOMAIN pki = PkiFile /\ DOMAIN signer = Request

Making == {"pki", "srv", "crlRead"} \cup MakingCA \cup MakingServer \cup MakingCRL

(* Which steps belong to which handler. *)
StepFits(r) ==
  \/ at[r] \in {"new", "start", "done", "failed"}
  \/ kind[r] = "oServer" /\ at[r] \in Making \cup {"commit", "fwRead", "fwCommit", "reload"}
  \/ kind[r] = "oAccess" /\ at[r] \in {"access", "reload"}
  \/ kind[r] = "oCreate" /\ at[r] \in Making \cup {"insert"}
  \/ kind[r] = "oDelete" /\ at[r] \in {"delete", "crlRead"} \cup MakingCRL
  \/ kind[r] = "oApply"  /\ at[r] \in {"clients", "clear", "ccd", "seen", "rules", "reload"}
  \/ kind[r] = "wServer" /\ at[r] \in {"wNet", "wFwRead", "wFw", "wReload", "wUp"}
  \/ kind[r] = "wAccess" /\ at[r] \in {"wAccess", "wLoad"}
  \/ kind[r] = "wApply"  /\ at[r] \in {"wPeers", "wBatch", "wPeerUp", "wRules", "wSeen",
                                        "wWrite", "wLoad"}
  \/ kind[r] = "sLocal"  /\ at[r] \in {"sNet", "sFwRead", "sFw", "sReload", "sUp"}
  \/ kind[r] \in {"sCreate", "sUpdate"} /\ at[r] = "sRow"
  \/ kind[r] = "sApply"  /\ at[r] \in {"sSites", "sBatch", "sSiteUp"}
StepsFit == \A r \in Request : StepFits(r)

(* What each handler has in its variables at its steps. *)
DataFit(r) ==
  /\ kind[r] = "oDelete" /\ at[r] \in {"delete", "crlRead"} \cup MakingCRL =>
       who[r] \in Client
  /\ kind[r] = "oCreate" /\ at[r] \in Making \cup {"insert"} =>
       who[r] \in Client /\ asks[r] \in Asked
  /\ at[r] \in MakingServer \cup MakingCRL => signer[r] \in Key
  /\ at[r] \in MakingCRL => rows[r] \subseteq Client
  /\ at[r] \in {"clear", "ccd"} => \A f \in rows[r] : f[2] \in Asked
  /\ at[r] = "access" => rows[r] \subseteq {Full("ovpn")}
  /\ at[r] = "wAccess" => rows[r] \subseteq {Full("wg")}
  /\ at[r] \in {"seen", "rules"} => \A s \in rows[r] : s[1] = "or"
  /\ at[r] = "wBatch" => \A s \in rows[r] : s[1] = "wg"
  /\ at[r] \in {"wSeen", "wWrite"} => \A s \in rows[r] : s[1] = "vr"
  /\ at[r] = "sBatch" => \A s \in rows[r] : s[1] = "wgs"
  /\ kind[r] = "wServer" /\ at[r] \in {"wNet", "wFwRead", "wFw", "wReload", "wUp"} =>
       who[r] \in Key
  /\ at[r] = "sRow" => who[r] \in Site
  /\ at[r] \in {"sRow", "sNet", "sFwRead", "sFw", "sReload", "sUp"} => asks[r] \in SiteNet
DataFits == \A r \in Request : DataFit(r)

Typed == Shapes /\ TypeOK /\ StepsFit /\ DataFits

(* A request that is alone is: no other of its VPN is under way. *)
AloneInv ==
  \A r \in alone :
    /\ at[r] # "new"
    /\ Active(r) => \A q \in Request \ {r} : Active(q) => Vpn(q) # Vpn(r)

EditsAlone ==
  \A r \in Request : kind[r] \in {"sCreate", "sUpdate"} /\ at[r] = "done" => r \in alone

(* No two clients have one name. *)
NamesApart == \A c \in Clients : \A d \in Clients \ {c} : NameOf[d] # NameOf[c]

CCDFiles == {<<NameOf[c], client[c].ip>> : c \in Enabled}
UserFile == {NameOf[c] : c \in {c \in Enabled : client[c].pass}}

(* How far an apply of the clients that is alone has brought the tables    *)
(* into the files.                                                         *)
QuietOvpn(r) ==
  /\ kind[r] = "oApply" =>
       /\ at[r] \in {"clients", "clear", "ccd", "seen", "rules", "reload"} => users = UserFile
       /\ at[r] = "clear" => rows[r] = CCDFiles
       /\ at[r] = "ccd" => ccd \cup rows[r] = CCDFiles
       /\ at[r] \in {"seen", "rules", "reload"} => ccd = CCDFiles
       /\ at[r] \in {"seen", "rules"} => rows[r] = ClientRules
       /\ at[r] = "rules" => seen[r] = Owners(fwFile, "or")
       /\ at[r] = "reload" => Of(fwFile, "or") = ClientRules
  /\ kind[r] = "oServer" /\ "unread" \notin seen[r] =>
       /\ at[r] = "fwCommit" => (Mgmt("ovpn") \in rows[r]) = (Mgmt("ovpn") \in fwFile)
       /\ at[r] = "reload" => (Mgmt("ovpn") \in fwFile) = ("mgmt" \in seen[r])

QuietWG(r) ==
  /\ kind[r] = "wApply" =>
       /\ at[r] \in {"wPeers"} => seen[r] = Owners(netFile, "wg")
       /\ at[r] = "wBatch" => seen[r] = Owners(netFile, "wg") /\ rows[r] = PeerSections
       /\ at[r] = "wPeerUp" => Of(netFile, "wg") = PeerSections
       /\ at[r] \in {"wRules", "wSeen", "wWrite", "wLoad"} => Of(netRun, "wg") = PeerSections
       /\ at[r] \in {"wSeen", "wWrite"} => rows[r] = PeerRules
       /\ at[r] = "wWrite" => seen[r] = Owners(fwFile, "vr")
       /\ at[r] = "wLoad" => Of(fwFile, "vr") = PeerRules
  /\ kind[r] = "wServer" /\ "unread" \notin seen[r] =>
       /\ at[r] = "wFw" => (Mgmt("wg") \in rows[r]) = (Mgmt("wg") \in fwFile)
       /\ at[r] \in {"wReload", "wUp"} => (Mgmt("wg") \in fwFile) = ("mgmt" \in seen[r])
       /\ at[r] = "wUp" => (Mgmt("wg") \in fwRun) = ("mgmt" \in seen[r])

QuietSites(r) ==
  /\ kind[r] = "sApply" =>
       /\ at[r] \in {"sSites", "sBatch"} => seen[r] = Owners(netFile, "wgs")
       /\ at[r] = "sBatch" => rows[r] = SiteSections
       /\ at[r] = "sSiteUp" => Of(netFile, "wgs") = SiteSections
  /\ kind[r] = "sLocal" =>
       /\ at[r] \in {"sFwRead", "sFw", "sReload", "sUp"} => wgsFile = asks[r]
       /\ at[r] \in {"sFwRead", "sFw", "sReload", "sUp"} =>
            {"changed", "behind"} \cap seen[r] # {} \/ wgsRun = wgsFile
       /\ at[r] = "sNet" => "changed" \in seen[r]
  /\ kind[r] = "sLocal" /\ "unread" \notin seen[r] =>
       /\ at[r] = "sFw" => (Mgmt("wgs") \in rows[r]) = (Mgmt("wgs") \in fwFile)
       /\ at[r] \in {"sReload", "sUp"} => (Mgmt("wgs") \in fwFile) = ("mgmt" \in seen[r])
       /\ at[r] = "sUp" => (Mgmt("wgs") \in fwRun) = ("mgmt" \in seen[r])

QuietInv ==
  /\ NamesApart
  /\ \A r \in alone : QuietOvpn(r) /\ QuietWG(r) /\ QuietSites(r)

----------------------------------------------------------------------------
(* Types. *)

(* A step of a request touches its own variables only, and it was under    *)
(* way.                                                                    *)
Touches(r) ==
  /\ Shapes' /\ kind' = kind /\ alone' = alone /\ crashes' = crashes
  /\ at[r] \notin Over \cup {"new"} /\ at'[r] # "new"
  /\ \A q \in Request \ {r} :
       /\ at'[q] = at[q] /\ who'[q] = who[q] /\ asks'[q] = asks[q]
       /\ rows'[q] = rows[q] /\ seen'[q] = seen[q] /\ signer'[q] = signer[q]

LEMMA OvpnTouches ==
  ASSUME Typed, NEW r \in Request, OpenVPNStep(r), UNCHANGED <<wgVars, siteVars>>
  PROVE  Touches(r)
<1> USE DEF Typed, Shapes, Touches, Step, Remember, NoLocals, Over, wgVars, siteVars, ovpnVars, pkiVars
<1>1. CASE LookForCA(r) \/ LookForServer(r) \/ OpenFile(r)
  BY <1>1 DEF LookForCA, LookForServer, OpenFile, Opened, OtherPki
<1>7. CASE FillFile(r)
  BY <1>7 DEF FillFile, Filled, OtherPki
<1>9. CASE ReadRevoked(r)
  BY <1>9 DEF ReadRevoked
<1>10. CASE WriteCRL(r)
  BY <1>10 DEF WriteCRL, Filled, AfterCRL
<1>8. CASE ServerCommit(r) \/ ServerFirewall(r) \/ AccessCommit(r) \/ ServerStart(r)
           \/ ServerReadFirewall(r)
  BY <1>8 DEF ServerCommit, ServerFirewall, AccessCommit, ServerStart, ServerReadFirewall,
              ReadFirewall
<1>2. CASE AccessRead(r) \/ WriteUsers(r) \/ ReadClients(r)
  BY <1>2 DEF AccessRead, WriteUsers, ReadClients
<1>3. CASE NewClient(r) \/ Revoke(r)
  BY <1>3 DEF NewClient, Revoke, Clients
<1>5. CASE InsertClient(r)
  BY <1>5 DEF InsertClient
<1>6. CASE UpdateClient(r) \/ SetClientRule(r) \/ DeleteClient(r)
  BY <1>6 DEF UpdateClient, SetClientRule, DeleteClient, OtherClients
<1>4. CASE ClearCCD(r) \/ WriteCCD(r) \/ ReadClientRules(r) \/ ReadClientSections(r)
           \/ WriteClientRules(r) \/ OpenVPNReload(r)
  BY <1>4 DEF ClearCCD, WriteCCD, ReadClientRules, ReadClientSections, WriteClientRules,
              OpenVPNReload
<1> QED
  BY <1>1, <1>2, <1>3, <1>4, <1>5, <1>6, <1>7, <1>8, <1>9, <1>10
     DEF OpenVPNStep, PKIStep

LEMMA WGTouches ==
  ASSUME Typed, NEW r \in Request, WireGuardStep(r), UNCHANGED <<ovpnVars, siteVars>>
  PROVE  Touches(r)
<1> USE DEF Typed, Shapes, Touches, Step, Remember, NoLocals, Over, ovpnVars, siteVars,
            pkiVars, ReadFirewall
<1>1. CASE WGReadServer(r) \/ WGServerNetwork(r) \/ WGReadFirewall(r) \/ WGServerFirewall(r)
           \/ WGServerReload(r) \/ WGServerUp(r) \/ WGAccessRead(r) \/ WGAccessCommit(r)
  <2>1. wgKey \in Key \cup {None}
    BY DEF TypeOK, WireGuardType
  <2> QED
    BY <1>1, <2>1 DEF WGReadServer, WGServerNetwork, WGReadFirewall, WGServerFirewall,
              WGServerReload, WGServerUp, WGAccessRead, WGAccessCommit, OnlyLocals, wgVars, Key
<1>2. CASE WGPeerCreate(r) \/ WGPeerUpdate(r) \/ WGPeerRuleSet(r) \/ WGPeerDelete(r)
  BY <1>2 DEF WGPeerCreate, WGPeerUpdate, WGPeerRuleSet, WGPeerDelete, Others, wgVars
<1>3. CASE ReadPeerSections(r) \/ ReadPeers(r) \/ WritePeers(r) \/ PeersUp(r)
           \/ ReadPeerRules(r) \/ ReadRuleSections(r) \/ WritePeerRules(r) \/ WGReload(r)
  BY <1>3 DEF ReadPeerSections, ReadPeers, WritePeers, PeersUp, ReadPeerRules,
              ReadRuleSections, WritePeerRules, WGReload, OnlyLocals, wgVars
<1> QED
  BY <1>1, <1>2, <1>3 DEF WireGuardStep

LEMMA SitesTouches ==
  ASSUME Typed, NEW r \in Request, SitesStep(r), UNCHANGED <<ovpnVars, wgVars>>
  PROVE  Touches(r)
<1> USE DEF Typed, Shapes, Touches, Step, Remember, NoLocals, Over, ovpnVars, wgVars, pkiVars,
            ReadFirewall
<1>1. CASE WGSLocalRead(r) \/ WGSLocalNetwork(r) \/ WGSReadFirewall(r)
           \/ WGSLocalFirewall(r) \/ WGSLocalReload(r) \/ WGSLocalUp(r)
  BY <1>1 DEF WGSLocalRead, WGSLocalNetwork, WGSReadFirewall, WGSLocalFirewall,
              WGSLocalReload, WGSLocalUp, OnlySiteLocals, siteVars
<1>2. CASE WGSValidate(r) \/ WGSiteDelete(r)
  BY <1>2 DEF WGSValidate, WGSiteDelete, OnlySiteLocals, siteVars
<1>4. CASE WGSiteWrite(r)
  BY <1>4 DEF WGSiteWrite, OnlySiteLocals, siteVars
<1>3. CASE ReadSiteSections(r) \/ ReadSites(r) \/ WriteSites(r) \/ SitesUp(r)
  BY <1>3 DEF ReadSiteSections, ReadSites, WriteSites, SitesUp, OnlySiteLocals, siteVars
<1> QED
  BY <1>1, <1>2, <1>3, <1>4 DEF SitesStep

VpnStep(r) ==
  \/ OpenVPNStep(r) /\ UNCHANGED <<wgVars, siteVars>>
  \/ WireGuardStep(r) /\ UNCHANGED <<ovpnVars, siteVars>>
  \/ SitesStep(r) /\ UNCHANGED <<ovpnVars, wgVars>>

LEMMA StepTouches ==
  ASSUME Typed, NEW r \in Request, VpnStep(r)
  PROVE  Touches(r)
  BY OvpnTouches, WGTouches, SitesTouches DEF VpnStep

LEMMA InitTyped == Init => Typed
<1> SUFFICES ASSUME Init PROVE Typed
  OBVIOUS
<1>1. PICK s \in Scenario :
        /\ CallInit(s) /\ OpenVPNInit(s) /\ WireGuardInit(s) /\ SitesInit(s)
  BY DEF Init
<1>2. s.calls \in [Request -> Kind \cup {None}] /\ s.setUp \in BOOLEAN /\ MaxCrashes \in Nat
  BY VpnCallsAssumption
<1>3. s.clients \in [Client -> ClientRow \cup {None}]
  BY OpenVPNAssumption
<1>4. s.peers \in [Peer -> PeerRow \cup {None}]
  BY WireGuardAssumption
<1>5. s.wgs \in SiteNet \cup {None} /\ s.sites \in [Site -> SiteRow \cup {None}]
  BY SitesAssumption
<1>6. Shapes
  BY <1>1, <1>2, <1>3, <1>4, <1>5
     DEF Shapes, CallInit, OpenVPNInit, WireGuardInit, SitesInit, SetUpFiles, PkiFile
<1>7. OpenVPNType
  BY <1>1, <1>2, <1>3 DEF OpenVPNType, OpenVPNInit, PkiType, PkiFile, SetUpFiles, Unreadable,
         ServerCert, RevokedList, Key
<1>8. WireGuardType
  BY <1>1, <1>2, <1>4 DEF WireGuardType, WireGuardInit, Key
<1>9. SitesType
  BY <1>1, <1>5 DEF SitesType, SitesInit
<1>10. TypeOK
  BY <1>1, <1>2, <1>7, <1>8, <1>9 DEF TypeOK, CallInit
<1> QED
  BY <1>1, <1>6, <1>10
     DEF Typed, CallInit, StepsFit, StepFits, DataFits, DataFit, Making, MakingCA,
         MakingServer, MakingCRL

(* A step of a VPN is one of a handler of it. *)
LEMMA OvpnKind ==
  ASSUME NEW r \in Request, StepFits(r), OpenVPNStep(r)
  PROVE  Vpn(r) = "ovpn"
<1>1. kind[r] \in {"oServer", "oAccess", "oCreate", "oUpdate", "oDelete", "oApply"}
  <2>1. CASE PKIStep(r)
    <3>1. at[r] \in Making
      BY <2>1 DEF PKIStep, Step, Making, MakingCA, MakingServer, MakingCRL, LookForCA,
           LookForServer, OpenFile, Opened, FillFile, Filled, ReadRevoked, WriteCRL
    <3> QED
      BY <3>1 DEF StepFits, Making, MakingCA, MakingServer, MakingCRL
  <2>2. CASE ~PKIStep(r)
    BY <2>2 DEF OpenVPNStep, ServerStart, ServerCommit, ServerReadFirewall, ServerFirewall, AccessRead, AccessCommit, NewClient, InsertClient, UpdateClient,
         SetClientRule, Revoke, DeleteClient, WriteUsers, ReadClients, ClearCCD, WriteCCD,
         ReadClientRules, ReadClientSections, WriteClientRules, OpenVPNReload
  <2> QED
    BY <2>1, <2>2
<1> QED
  BY <1>1 DEF Vpn

LEMMA WGKind ==
  ASSUME NEW r \in Request, WireGuardStep(r)
  PROVE  Vpn(r) = "wg"
<1>1. kind[r] \in {"wServer", "wAccess", "wCreate", "wUpdate", "wDelete", "wApply"}
  BY DEF WireGuardStep, WGReadServer, WGServerNetwork, WGReadFirewall, WGServerFirewall,
       WGServerReload, WGServerUp, WGAccessRead, WGAccessCommit, WGReload, WGPeerCreate,
       WGPeerUpdate, WGPeerRuleSet, WGPeerDelete, ReadPeerSections, ReadPeers, WritePeers,
       PeersUp, ReadPeerRules, ReadRuleSections, WritePeerRules
<1> QED
  BY <1>1 DEF Vpn

LEMMA SitesKind ==
  ASSUME NEW r \in Request, SitesStep(r)
  PROVE  Vpn(r) = "wgs"
<1>1. kind[r] \in {"sLocal", "sCreate", "sUpdate", "sDelete", "sApply"}
  BY DEF SitesStep, WGSLocalRead, WGSLocalNetwork, WGSReadFirewall, WGSLocalFirewall,
       WGSLocalReload, WGSLocalUp, WGSValidate, WGSiteDelete, WGSiteWrite,
       ReadSiteSections, ReadSites, WriteSites, SitesUp
<1> QED
  BY <1>1 DEF Vpn

(* The next step of a request is one of its handler. *)
LEMMA OvpnFits ==
  ASSUME DOMAIN at = Request, NEW r \in Request, StepFits(r),
         OpenVPNStep(r), kind' = kind
  PROVE  StepFits(r)'
<1> USE DEF Step, StepFits, Making, MakingCA, MakingServer, MakingCRL
<1>1. CASE LookForCA(r)
  BY <1>1 DEF LookForCA, OtherPki
<1>2. CASE LookForServer(r)
  BY <1>2 DEF LookForServer, OtherPki
<1>3. CASE OpenFile(r)
  BY <1>3 DEF OpenFile, Opened, OtherPki
<1>4. CASE FillFile(r)
  BY <1>4 DEF FillFile, Filled, OtherPki
<1>5. CASE ReadRevoked(r)
  BY <1>5 DEF ReadRevoked
<1>6. CASE WriteCRL(r)
  BY <1>6 DEF WriteCRL, Filled, AfterCRL
<1>7. CASE ServerStart(r)
  BY <1>7 DEF ServerStart
<1>8. CASE ServerCommit(r)
  BY <1>8 DEF ServerCommit
<1>9. CASE ServerReadFirewall(r)
  BY <1>9 DEF ServerReadFirewall
<1>10. CASE ServerFirewall(r)
  BY <1>10 DEF ServerFirewall
<1>11. CASE AccessRead(r)
  BY <1>11 DEF AccessRead
<1>12. CASE AccessCommit(r)
  BY <1>12 DEF AccessCommit
<1>13. CASE NewClient(r)
  BY <1>13 DEF NewClient
<1>14. CASE InsertClient(r)
  BY <1>14 DEF InsertClient
<1>15. CASE UpdateClient(r)
  BY <1>15 DEF UpdateClient
<1>16. CASE SetClientRule(r)
  BY <1>16 DEF SetClientRule
<1>17. CASE Revoke(r)
  BY <1>17 DEF Revoke
<1>18. CASE DeleteClient(r)
  BY <1>18 DEF DeleteClient
<1>19. CASE WriteUsers(r)
  BY <1>19 DEF WriteUsers
<1>20. CASE ReadClients(r)
  BY <1>20 DEF ReadClients
<1>21. CASE ClearCCD(r)
  BY <1>21 DEF ClearCCD
<1>22. CASE WriteCCD(r)
  BY <1>22 DEF WriteCCD
<1>23. CASE ReadClientRules(r)
  BY <1>23 DEF ReadClientRules
<1>24. CASE ReadClientSections(r)
  BY <1>24 DEF ReadClientSections
<1>25. CASE WriteClientRules(r)
  BY <1>25 DEF WriteClientRules
<1>26. CASE OpenVPNReload(r)
  BY <1>26 DEF OpenVPNReload
<1> QED
  BY <1>1, <1>2, <1>3, <1>4, <1>5, <1>6, <1>7, <1>8, <1>9, <1>10, <1>11, <1>12,
     <1>13, <1>14, <1>15, <1>16, <1>17, <1>18, <1>19, <1>20, <1>21, <1>22, <1>23,
     <1>24, <1>25, <1>26 DEF OpenVPNStep, PKIStep

LEMMA WGFits ==
  ASSUME DOMAIN at = Request, NEW r \in Request, StepFits(r),
         WireGuardStep(r), kind' = kind
  PROVE  StepFits(r)'
<1> USE DEF Step, StepFits
<1>1. CASE WGReadServer(r)
  BY <1>1 DEF WGReadServer
<1>2. CASE WGServerNetwork(r)
  BY <1>2 DEF WGServerNetwork
<1>3. CASE WGReadFirewall(r)
  BY <1>3 DEF WGReadFirewall
<1>4. CASE WGServerFirewall(r)
  BY <1>4 DEF WGServerFirewall
<1>5. CASE WGServerReload(r)
  BY <1>5 DEF WGServerReload
<1>6. CASE WGServerUp(r)
  BY <1>6 DEF WGServerUp
<1>7. CASE WGAccessRead(r)
  BY <1>7 DEF WGAccessRead
<1>8. CASE WGAccessCommit(r)
  BY <1>8 DEF WGAccessCommit
<1>9. CASE WGPeerCreate(r)
  BY <1>9 DEF WGPeerCreate
<1>10. CASE WGPeerUpdate(r)
  BY <1>10 DEF WGPeerUpdate
<1>11. CASE WGPeerRuleSet(r)
  BY <1>11 DEF WGPeerRuleSet
<1>12. CASE WGPeerDelete(r)
  BY <1>12 DEF WGPeerDelete
<1>13. CASE ReadPeerSections(r)
  BY <1>13 DEF ReadPeerSections
<1>14. CASE ReadPeers(r)
  BY <1>14 DEF ReadPeers
<1>15. CASE WritePeers(r)
  BY <1>15 DEF WritePeers
<1>16. CASE PeersUp(r)
  BY <1>16 DEF PeersUp
<1>17. CASE ReadPeerRules(r)
  BY <1>17 DEF ReadPeerRules
<1>18. CASE ReadRuleSections(r)
  BY <1>18 DEF ReadRuleSections
<1>19. CASE WritePeerRules(r)
  BY <1>19 DEF WritePeerRules
<1>20. CASE WGReload(r)
  BY <1>20 DEF WGReload
<1> QED
  BY <1>1, <1>2, <1>3, <1>4, <1>5, <1>6, <1>7, <1>8, <1>9, <1>10, <1>11, <1>12,
     <1>13, <1>14, <1>15, <1>16, <1>17, <1>18, <1>19, <1>20 DEF WireGuardStep

LEMMA SitesFits ==
  ASSUME DOMAIN at = Request, NEW r \in Request, StepFits(r),
         SitesStep(r), kind' = kind
  PROVE  StepFits(r)'
<1> USE DEF Step, StepFits
<1>1. CASE WGSLocalRead(r)
  BY <1>1 DEF WGSLocalRead
<1>2. CASE WGSLocalNetwork(r)
  BY <1>2 DEF WGSLocalNetwork
<1>3. CASE WGSReadFirewall(r)
  BY <1>3 DEF WGSReadFirewall
<1>4. CASE WGSLocalFirewall(r)
  BY <1>4 DEF WGSLocalFirewall
<1>5. CASE WGSLocalReload(r)
  BY <1>5 DEF WGSLocalReload
<1>6. CASE WGSLocalUp(r)
  BY <1>6 DEF WGSLocalUp
<1>7. CASE WGSValidate(r)
  BY <1>7 DEF WGSValidate
<1>8. CASE WGSiteWrite(r)
  BY <1>8 DEF WGSiteWrite
<1>9. CASE WGSiteDelete(r)
  BY <1>9 DEF WGSiteDelete
<1>10. CASE ReadSiteSections(r)
  BY <1>10 DEF ReadSiteSections
<1>11. CASE ReadSites(r)
  BY <1>11 DEF ReadSites
<1>12. CASE WriteSites(r)
  BY <1>12 DEF WriteSites
<1>13. CASE SitesUp(r)
  BY <1>13 DEF SitesUp
<1> QED
  BY <1>1, <1>2, <1>3, <1>4, <1>5, <1>6, <1>7, <1>8, <1>9, <1>10, <1>11, <1>12,
     <1>13 DEF SitesStep

LEMMA StepFitsOn ==
  ASSUME Typed, NEW r \in Request, VpnStep(r)
  PROVE  StepsFit'
<1>1. Touches(r)
  BY StepTouches
<1>0. DOMAIN at = Request /\ StepFits(r)
  BY DEF Typed, Shapes, StepsFit
<1>2. kind' = kind /\ \A q \in Request \ {r} : at'[q] = at[q]
  BY <1>1 DEF Touches
<1>3. \A q \in Request \ {r} : StepFits(q)'
  BY <1>2 DEF Typed, StepsFit, StepFits
<1>4. StepFits(r)'
  BY <1>0, <1>2, OvpnFits, WGFits, SitesFits DEF VpnStep
<1> QED
  BY <1>0, <1>2, <1>3, <1>4 DEF StepsFit

(* Each step leaves its handler with the data of the next. *)
LEMMA OvpnData ==
  ASSUME NEW r \in Request, OpenVPNStep(r),
         Shapes, OpenVPNType, StepFits(r), DataFit(r), kind' = kind
  PROVE  DataFit(r)'
<1> USE DEF Shapes, StepFits, DataFit, Making, MakingCA, MakingServer, MakingCRL, Step,
            Remember, NoLocals, Full, ReadFirewall
<1>1. CASE LookForCA(r)
  BY <1>1 DEF LookForCA, OtherPki
<1>2. CASE LookForServer(r)
  BY <1>2 DEF LookForServer, OtherPki, OpenVPNType, PkiType, CanSign, Readable
<1>3. CASE OpenFile(r)
  BY <1>3 DEF OpenFile, Opened, OtherPki
<1>4. CASE FillFile(r)
  BY <1>4 DEF FillFile, Filled, OtherPki
<1>5. CASE ReadRevoked(r)
  BY <1>5 DEF ReadRevoked, OpenVPNType, PkiType, Readable
<1>6. CASE WriteCRL(r)
  BY <1>6 DEF WriteCRL, Filled, AfterCRL
<1>7. CASE ServerStart(r)
  BY <1>7 DEF ServerStart
<1>8. CASE ServerCommit(r)
  BY <1>8 DEF ServerCommit
<1>9. CASE ServerReadFirewall(r)
  BY <1>9 DEF ServerReadFirewall
<1>10. CASE ServerFirewall(r)
  BY <1>10 DEF ServerFirewall
<1>11. CASE AccessRead(r)
  BY <1>11 DEF AccessRead
<1>12. CASE AccessCommit(r)
  BY <1>12 DEF AccessCommit
<1>13. CASE NewClient(r)
  BY <1>13 DEF NewClient, Clients
<1>14. CASE InsertClient(r)
  BY <1>14 DEF InsertClient
<1>15. CASE UpdateClient(r)
  BY <1>15 DEF UpdateClient
<1>16. CASE SetClientRule(r)
  BY <1>16 DEF SetClientRule
<1>17. CASE Revoke(r)
  BY <1>17 DEF Revoke, Clients, OpenVPNType
<1>18. CASE DeleteClient(r)
  BY <1>18 DEF DeleteClient
<1>19. CASE WriteUsers(r)
  BY <1>19 DEF WriteUsers
<1>20. CASE ReadClients(r)
  BY <1>20 DEF ReadClients, Enabled, Clients, OpenVPNType, ClientRow
<1>21. CASE ClearCCD(r)
  BY <1>21 DEF ClearCCD
<1>22. CASE WriteCCD(r)
  BY <1>22 DEF WriteCCD
<1>23. CASE ReadClientRules(r)
  BY <1>23 DEF ReadClientRules, ClientRules
<1>24. CASE ReadClientSections(r)
  BY <1>24 DEF ReadClientSections
<1>25. CASE WriteClientRules(r)
  BY <1>25 DEF WriteClientRules
<1>26. CASE OpenVPNReload(r)
  BY <1>26 DEF OpenVPNReload
<1> QED
  BY <1>1, <1>2, <1>3, <1>4, <1>5, <1>6, <1>7, <1>8, <1>9, <1>10, <1>11, <1>12,
     <1>13, <1>14, <1>15, <1>16, <1>17, <1>18, <1>19, <1>20, <1>21, <1>22, <1>23,
     <1>24, <1>25, <1>26 DEF OpenVPNStep, PKIStep

LEMMA WGData ==
  ASSUME NEW r \in Request, WireGuardStep(r),
         Shapes, WireGuardType, StepFits(r), DataFit(r), kind' = kind
  PROVE  DataFit(r)'
<1> USE DEF Shapes, StepFits, DataFit, Making, MakingCA, MakingServer, MakingCRL, Step,
            Remember, NoLocals, Full, ReadFirewall
<1>1. CASE WGReadServer(r)
  BY <1>1 DEF WGReadServer, WireGuardType, Key
<1>2. CASE WGServerNetwork(r)
  BY <1>2 DEF WGServerNetwork
<1>3. CASE WGReadFirewall(r)
  BY <1>3 DEF WGReadFirewall
<1>4. CASE WGServerFirewall(r)
  BY <1>4 DEF WGServerFirewall
<1>5. CASE WGServerReload(r)
  BY <1>5 DEF WGServerReload
<1>6. CASE WGServerUp(r)
  BY <1>6 DEF WGServerUp
<1>7. CASE WGAccessRead(r)
  BY <1>7 DEF WGAccessRead
<1>8. CASE WGAccessCommit(r)
  BY <1>8 DEF WGAccessCommit
<1>9. CASE WGPeerCreate(r)
  BY <1>9 DEF WGPeerCreate
<1>10. CASE WGPeerUpdate(r)
  BY <1>10 DEF WGPeerUpdate
<1>11. CASE WGPeerRuleSet(r)
  BY <1>11 DEF WGPeerRuleSet
<1>12. CASE WGPeerDelete(r)
  BY <1>12 DEF WGPeerDelete
<1>13. CASE ReadPeerSections(r)
  BY <1>13 DEF ReadPeerSections
<1>14. CASE ReadPeers(r)
  BY <1>14 DEF ReadPeers, PeerSections
<1>15. CASE WritePeers(r)
  BY <1>15 DEF WritePeers
<1>16. CASE PeersUp(r)
  BY <1>16 DEF PeersUp
<1>17. CASE ReadPeerRules(r)
  BY <1>17 DEF ReadPeerRules, PeerRules
<1>18. CASE ReadRuleSections(r)
  BY <1>18 DEF ReadRuleSections
<1>19. CASE WritePeerRules(r)
  BY <1>19 DEF WritePeerRules
<1>20. CASE WGReload(r)
  BY <1>20 DEF WGReload
<1> QED
  BY <1>1, <1>2, <1>3, <1>4, <1>5, <1>6, <1>7, <1>8, <1>9, <1>10, <1>11, <1>12,
     <1>13, <1>14, <1>15, <1>16, <1>17, <1>18, <1>19, <1>20 DEF WireGuardStep

LEMMA SitesData ==
  ASSUME NEW r \in Request, SitesStep(r),
         Shapes, SitesType, StepFits(r), DataFit(r), kind' = kind
  PROVE  DataFit(r)'
<1> USE DEF Shapes, StepFits, DataFit, Making, MakingCA, MakingServer, MakingCRL, Step,
            Remember, NoLocals, Full, ReadFirewall
<1>1. CASE WGSLocalRead(r)
  BY <1>1 DEF WGSLocalRead
<1>2. CASE WGSLocalNetwork(r)
  BY <1>2 DEF WGSLocalNetwork
<1>3. CASE WGSReadFirewall(r)
  BY <1>3 DEF WGSReadFirewall
<1>4. CASE WGSLocalFirewall(r)
  BY <1>4 DEF WGSLocalFirewall
<1>5. CASE WGSLocalReload(r)
  BY <1>5 DEF WGSLocalReload
<1>6. CASE WGSLocalUp(r)
  BY <1>6 DEF WGSLocalUp
<1>7. CASE WGSValidate(r)
  BY <1>7 DEF WGSValidate
<1>8. CASE WGSiteWrite(r)
  BY <1>8 DEF WGSiteWrite
<1>9. CASE WGSiteDelete(r)
  BY <1>9 DEF WGSiteDelete
<1>10. CASE ReadSiteSections(r)
  BY <1>10 DEF ReadSiteSections
<1>11. CASE ReadSites(r)
  BY <1>11 DEF ReadSites, SiteSections
<1>12. CASE WriteSites(r)
  BY <1>12 DEF WriteSites
<1>13. CASE SitesUp(r)
  BY <1>13 DEF SitesUp
<1> QED
  BY <1>1, <1>2, <1>3, <1>4, <1>5, <1>6, <1>7, <1>8, <1>9, <1>10, <1>11, <1>12,
     <1>13 DEF SitesStep

(* What becomes of the rows. *)
LEMMA InsertedClient ==
  ASSUME NEW r \in Request, InsertClient(r), Shapes
  PROVE  \/ client' = client
         \/ /\ CanSign /\ Unique(who[r], asks[r]) /\ at[r] = "insert" /\ kind[r] = "oCreate"
            /\ \A d \in Client \ {who[r]} : client'[d] = client[d]
            /\ who[r] \in Client => \E on, pass \in BOOLEAN : client'[who[r]] =
                 [ip |-> asks[r], on |-> on, rule |-> FALSE, pass |-> pass,
                  ca |-> pki.caCrt]
<1>1. CASE client' = client
  BY <1>1
<1>2. CASE client' # client
  <2>1. /\ CanSign /\ Unique(who[r], asks[r]) /\ at[r] = "insert" /\ kind[r] = "oCreate"
        /\ \E on, pass \in BOOLEAN : client' = [client EXCEPT ![who[r]] =
             [ip |-> asks[r], on |-> on, rule |-> FALSE, pass |-> pass, ca |-> pki.caCrt]]
    BY <1>2 DEF InsertClient
  <2>2. PICK on \in BOOLEAN, pass \in BOOLEAN : client' = [client EXCEPT ![who[r]] =
             [ip |-> asks[r], on |-> on, rule |-> FALSE, pass |-> pass, ca |-> pki.caCrt]]
    BY <2>1
  <2>3. \A d \in Client \ {who[r]} : client'[d] = client[d]
    BY <2>2 DEF Shapes
  <2>4. who[r] \in Client => client'[who[r]] =
          [ip |-> asks[r], on |-> on, rule |-> FALSE, pass |-> pass, ca |-> pki.caCrt]
    BY <2>2 DEF Shapes
  <2> QED
    BY <2>1, <2>3, <2>4
<1> QED
  BY <1>1, <1>2

LEMMA UpdatedClient ==
  ASSUME NEW r \in Request, UpdateClient(r), Shapes, OpenVPNType
  PROVE  \E c \in Clients, ip \in Asked, on, pass \in BOOLEAN :
           /\ \A d \in Client \ {c} : client'[d] = client[d]
           /\ client'[c] = [ip |-> ip, on |-> on, rule |-> client[c].rule, pass |-> pass,
                            ca |-> client[c].ca]
<1>1. PICK c \in Clients, ip \in Asked, on \in BOOLEAN, pass \in BOOLEAN :
         client' = [client EXCEPT ![c].ip = ip, ![c].on = on, ![c].pass = pass]
  BY DEF UpdateClient
<1>2. c \in Client /\ client[c] \in ClientRow
  BY DEF Clients, OpenVPNType
<1>3. \A d \in Client \ {c} : client'[d] = client[d]
  BY <1>1, <1>2 DEF Shapes
<1>0. DOMAIN client = Client
  BY DEF Shapes
<1>4. client'[c] = [client[c] EXCEPT !.ip = ip, !.on = on, !.pass = pass]
  BY <1>0, <1>1, <1>2
<1>5. client'[c] = [ip |-> ip, on |-> on, rule |-> client[c].rule, pass |-> pass,
                    ca |-> client[c].ca]
  BY <1>4, <1>2 DEF ClientRow
<1> QED
  BY <1>3, <1>5

LEMMA ChangedRule ==
  ASSUME NEW r \in Request, SetClientRule(r), Shapes, OpenVPNType
  PROVE  \E c \in Clients, rule \in BOOLEAN :
           /\ \A d \in Client \ {c} : client'[d] = client[d]
           /\ client'[c] = [ip |-> client[c].ip, on |-> client[c].on, rule |-> rule,
                            pass |-> client[c].pass, ca |-> client[c].ca]
<1>1. PICK c \in Clients, rule \in BOOLEAN : client' = [client EXCEPT ![c].rule = rule]
  BY DEF SetClientRule
<1>2. c \in Client /\ client[c] \in ClientRow
  BY DEF Clients, OpenVPNType
<1>3. \A d \in Client \ {c} : client'[d] = client[d]
  BY <1>1, <1>2 DEF Shapes
<1>4. client'[c] = [client[c] EXCEPT !.rule = rule]
  BY <1>1, <1>2 DEF Shapes
<1>5. client'[c] = [ip |-> client[c].ip, on |-> client[c].on, rule |-> rule,
                    pass |-> client[c].pass, ca |-> client[c].ca]
  BY <1>4, <1>2 DEF ClientRow
<1> QED
  BY <1>3, <1>5

LEMMA UpdatedPeer ==
  ASSUME NEW r \in Request, WGPeerUpdate(r), Shapes, WireGuardType
  PROVE  \E p \in Peers, ip \in Asked, on \in BOOLEAN :
           /\ \A d \in Peer \ {p} : peer'[d] = peer[d]
           /\ peer'[p] = [ip |-> ip, on |-> on, rule |-> peer[p].rule]
<1>1. PICK p \in Peers, ip \in Asked, on \in BOOLEAN :
         peer' = [peer EXCEPT ![p].ip = ip, ![p].on = on]
  BY DEF WGPeerUpdate
<1>2. p \in Peer /\ peer[p] \in PeerRow
  BY DEF Peers, WireGuardType
<1>3. \A d \in Peer \ {p} : peer'[d] = peer[d]
  BY <1>1, <1>2 DEF Shapes
<1>4. peer'[p] = [peer[p] EXCEPT !.ip = ip, !.on = on]
  BY <1>1, <1>2 DEF Shapes
<1>5. peer'[p] = [ip |-> ip, on |-> on, rule |-> peer[p].rule]
  BY <1>4, <1>2 DEF PeerRow
<1> QED
  BY <1>3, <1>5

LEMMA WrittenSite ==
  ASSUME NEW r \in Request, WGSiteWrite(r), Shapes
  PROVE  \/ site' = site
         \/ /\ at[r] = "sRow" /\ kind[r] \in {"sCreate", "sUpdate"} /\ at'[r] = "done"
            /\ \A t \in Site \ {who[r]} : site'[t] = site[t]
            /\ who[r] \in Site => \E ip \in Asked, on \in BOOLEAN :
                 site'[who[r]] = [ip |-> ip, net |-> asks[r], on |-> on]
<1>1. CASE site' = site
  BY <1>1
<1>2. CASE site' # site
  <2>1. /\ at[r] = "sRow" /\ kind[r] \in {"sCreate", "sUpdate"} /\ Step(r, "sRow", "done")
        /\ \E ip \in Asked, on \in BOOLEAN :
             site' = [site EXCEPT ![who[r]] = [ip |-> ip, net |-> asks[r], on |-> on]]
    BY <1>2 DEF WGSiteWrite
  <2>2. PICK ip \in Asked, on \in BOOLEAN :
          site' = [site EXCEPT ![who[r]] = [ip |-> ip, net |-> asks[r], on |-> on]]
    BY <2>1
  <2>3. \A t \in Site \ {who[r]} : site'[t] = site[t]
    BY <2>2 DEF Shapes
  <2>4. who[r] \in Site => site'[who[r]] = [ip |-> ip, net |-> asks[r], on |-> on]
    BY <2>2 DEF Shapes
  <2>5. at'[r] = "done"
    BY <2>1 DEF Step, Shapes
  <2> QED
    BY <2>1, <2>3, <2>4, <2>5
<1> QED
  BY <1>1, <1>2

(* The files of the authority change where they are made only. *)
LEMMA OnlyPKI ==
  ASSUME NEW r \in Request, OpenVPNStep(r), ~PKIStep(r)
  PROVE  UNCHANGED <<pkiVars, told, blind, crlBy>>
<1> USE DEF pkiVars, crlVars, ovpnVars
<1>1. CASE ServerStart(r) \/ ServerCommit(r) \/ ServerReadFirewall(r) \/ ServerFirewall(r)
           \/ AccessRead(r) \/ AccessCommit(r) \/ NewClient(r)
  BY <1>1 DEF ServerStart, ServerCommit, ServerReadFirewall, ServerFirewall, AccessRead,
              AccessCommit, NewClient
<1>2. CASE InsertClient(r)
  BY <1>2 DEF InsertClient
<1>3. CASE UpdateClient(r) \/ SetClientRule(r) \/ Revoke(r) \/ DeleteClient(r)
  BY <1>3 DEF UpdateClient, SetClientRule, Revoke, DeleteClient, OtherClients
<1>4. CASE WriteUsers(r) \/ ReadClients(r) \/ ClearCCD(r) \/ WriteCCD(r)
           \/ ReadClientRules(r) \/ ReadClientSections(r) \/ WriteClientRules(r)
           \/ OpenVPNReload(r)
  BY <1>4 DEF WriteUsers, ReadClients, ClearCCD, WriteCCD, ReadClientRules,
              ReadClientSections, WriteClientRules, OpenVPNReload
<1> QED
  BY <1>1, <1>2, <1>3, <1>4 DEF OpenVPNStep

(* A file that is opened or filled changes, and no other does. *)
LEMMA FileOpened ==
  ASSUME NEW file \in PkiFile, NEW r, NEW l, NEW m, Opened(file, r, l, m), Shapes
  PROVE  /\ pki'[file] = Begun
         /\ \A f \in PkiFile \ {file} : pki'[f] = pki[f]
  BY DEF Opened, Shapes

LEMMA FileFilled ==
  ASSUME NEW file \in PkiFile, NEW r, NEW whole, NEW l, NEW m, Filled(file, r, whole, l, m),
         Shapes
  PROVE  /\ pki'[file] \in {whole} \cup (IF pki[file] = Begun THEN {} ELSE {Mixed})
         /\ \A f \in PkiFile \ {file} : pki'[f] = pki[f]
<1>1. PICK x \in {whole} \cup (IF pki[file] = Begun THEN {} ELSE {Mixed}) :
        pki' = [pki EXCEPT ![file] = x]
  BY DEF Filled
<1>2. pki'[file] = x /\ \A f \in PkiFile \ {file} : pki'[f] = pki[f]
  BY <1>1 DEF Shapes
<1> QED
  BY <1>1, <1>2

(* What is in a file that is opened or filled. *)
LEMMA PkiTypeOn ==
  ASSUME NEW r \in Request, OpenVPNStep(r), Shapes, PkiType, DataFit(r), Shapes'
  PROVE  PkiType'
<1> USE DEF PkiType, PkiFile, Unreadable, Key
<1>0. DOMAIN pki' = PkiFile
  BY DEF Shapes
<1>1. CASE UNCHANGED pki
  BY <1>1
<1>2. CASE OpenFile(r)
  BY <1>0, <1>2, FileOpened DEF OpenFile
<1>3. CASE FillFile(r)
  <2>1. CASE Filled("caKey", r, r, "caKeyFill", "caCrt")
    BY <1>0, <2>1, FileFilled
  <2>2. CASE Filled("caCrt", r, r, "caCrtFill", "srv")
    BY <1>0, <2>2, FileFilled
  <2>3. CASE Filled("srvKey", r, r, "srvKeyFill", "srvCrt")
    BY <1>0, <2>3, FileFilled
  <2>4. CASE Filled("srvCrt", r, [ca |-> signer[r], key |-> r], "srvCrtFill", "crlRead")
    <3>1. signer[r] \in Key
      BY <2>4 DEF Filled, Step, DataFit, MakingServer
    <3>2. [ca |-> signer[r], key |-> r] \in ServerCert
      BY <3>1 DEF ServerCert
    <3> QED
      BY <1>0, <2>4, <3>2, FileFilled
  <2> QED
    BY <1>3, <2>1, <2>2, <2>3, <2>4 DEF FillFile
<1>4. CASE WriteCRL(r)
  <2>1. Filled("crl", r, [ca |-> signer[r], out |-> rows[r]], "crlFill", AfterCRL(r))
    BY <1>4 DEF WriteCRL
  <2>2. signer[r] \in Key /\ rows[r] \subseteq Client
    BY <2>1 DEF Filled, Step, DataFit, MakingCRL
  <2>3. [ca |-> signer[r], out |-> rows[r]] \in RevokedList
    BY <2>2 DEF RevokedList
  <2> QED
    BY <1>0, <2>1, <2>3, FileFilled
<1> QED
  BY <1>1, <1>2, <1>3, <1>4, OnlyPKI
     DEF PKIStep, LookForCA, LookForServer, ReadRevoked, OtherPki, pkiVars

(* The types of a VPN after each of its steps. *)
LEMMA OvpnTypeOn ==
  ASSUME NEW r \in Request, OpenVPNStep(r),
         Shapes, OpenVPNType, StepFits(r), DataFit(r), Shapes'
  PROVE  OpenVPNType'
<1> USE DEF Shapes, StepFits, DataFit, Making, MakingCA, MakingServer, MakingCRL, Step,
            OpenVPNType, pkiVars, crlVars, ovpnFiles, ovpnVars
<1>0. PkiType'
  <2> HIDE DEF Shapes, DataFit
  <2> QED
    BY PkiTypeOn
<1> USE <1>0
<1>1. CASE LookForCA(r)
  BY <1>1 DEF LookForCA, OtherPki
<1>2. CASE LookForServer(r)
  BY <1>2 DEF LookForServer, OtherPki, CanSign, Readable, PkiType, Remember
<1>3. CASE OpenFile(r)
  BY <1>3 DEF OpenFile, OtherPki
<1>4. CASE FillFile(r)
  BY <1>4 DEF FillFile, OtherPki
<1>5. CASE ReadRevoked(r)
  BY <1>5 DEF ReadRevoked, Readable, PkiType, Remember
<1>6. CASE WriteCRL(r)
  BY <1>6 DEF WriteCRL, Filled
<1>7. CASE ServerStart(r)
  BY <1>7 DEF ServerStart
<1>8. CASE ServerCommit(r)
  BY <1>8 DEF ServerCommit
<1>9. CASE ServerReadFirewall(r)
  BY <1>9 DEF ServerReadFirewall
<1>10. CASE ServerFirewall(r)
  BY <1>10 DEF ServerFirewall
<1>11. CASE AccessRead(r)
  BY <1>11 DEF AccessRead
<1>12. CASE AccessCommit(r)
  BY <1>12 DEF AccessCommit
<1>13. CASE NewClient(r)
  BY <1>13 DEF NewClient, Clients
<1>14. CASE InsertClient(r)
  <2>1. who[r] \in Client /\ asks[r] \in Asked /\ (CanSign => pki.caCrt \in Key)
    BY <1>14 DEF InsertClient, CanSign, Readable, PkiType
  <2>2. \A d \in Client : client'[d] = client[d] \/ client'[d] \in ClientRow
    <3> HIDE DEF Shapes, DataFit, StepFits, OpenVPNType
    <3>1. CASE client' = client
      BY <3>1
    <3>2. CASE client' # client
      <4>1. /\ CanSign
            /\ \A d \in Client \ {who[r]} : client'[d] = client[d]
            /\ \E on, pass \in BOOLEAN : client'[who[r]] =
                 [ip |-> asks[r], on |-> on, rule |-> FALSE, pass |-> pass, ca |-> pki.caCrt]
        BY <1>14, <2>1, <3>2, InsertedClient
      <4>2. client'[who[r]] \in ClientRow
        BY <2>1, <4>1 DEF ClientRow
      <4> QED
        BY <4>1, <4>2
    <3> QED
      BY <3>1, <3>2
  <2> QED
    BY <1>14, <2>2 DEF InsertClient
<1>15. CASE UpdateClient(r)
  <2>1. \A d \in Clients : client[d] \in ClientRow
    BY DEF Clients
  <2>2. \A d \in Client : client'[d] = client[d] \/ client'[d] \in ClientRow
    <3>1. PICK c \in Clients, ip \in Asked, on \in BOOLEAN, pass \in BOOLEAN :
            /\ \A d \in Client \ {c} : client'[d] = client[d]
            /\ client'[c] = [ip |-> ip, on |-> on, rule |-> client[c].rule, pass |-> pass,
                             ca |-> client[c].ca]
      <4> HIDE DEF Shapes, DataFit, StepFits, OpenVPNType
      <4> QED
        BY <1>15, UpdatedClient
    <3>2. client[c].rule \in BOOLEAN /\ client[c].ca \in Key
      BY <2>1 DEF ClientRow
    <3>3. client'[c] \in ClientRow
      BY <3>1, <3>2 DEF ClientRow
    <3> QED
      BY <3>1, <3>3
  <2> QED
    BY <1>15, <2>2 DEF UpdateClient, OtherClients
<1>16. CASE SetClientRule(r)
  BY <1>16 DEF SetClientRule, ClientRow, Clients, OtherClients
<1>17. CASE Revoke(r)
  BY <1>17 DEF Revoke, Clients
<1>18. CASE DeleteClient(r)
  BY <1>18 DEF DeleteClient, OtherClients
<1>19. CASE WriteUsers(r)
  BY <1>19 DEF WriteUsers
<1>20. CASE ReadClients(r)
  BY <1>20 DEF ReadClients
<1>21. CASE ClearCCD(r)
  BY <1>21 DEF ClearCCD
<1>22. CASE WriteCCD(r)
  BY <1>22 DEF WriteCCD
<1>23. CASE ReadClientRules(r)
  BY <1>23 DEF ReadClientRules
<1>24. CASE ReadClientSections(r)
  BY <1>24 DEF ReadClientSections
<1>25. CASE WriteClientRules(r)
  BY <1>25 DEF WriteClientRules
<1>26. CASE OpenVPNReload(r)
  BY <1>26 DEF OpenVPNReload
<1> QED
  BY <1>1, <1>2, <1>3, <1>4, <1>5, <1>6, <1>7, <1>8, <1>9, <1>10, <1>11, <1>12,
     <1>13, <1>14, <1>15, <1>16, <1>17, <1>18, <1>19, <1>20, <1>21, <1>22, <1>23,
     <1>24, <1>25, <1>26 DEF OpenVPNStep, PKIStep

LEMMA WGTypeOn ==
  ASSUME NEW r \in Request, WireGuardStep(r),
         Shapes, WireGuardType, StepFits(r), DataFit(r)
  PROVE  WireGuardType'
<1> USE DEF Shapes, StepFits, DataFit, Step, WireGuardType, wgVars, OnlyLocals, Others
<1>1. CASE WGReadServer(r)
  BY <1>1 DEF WGReadServer
<1>2. CASE WGServerNetwork(r)
  BY <1>2 DEF WGServerNetwork
<1>3. CASE WGReadFirewall(r)
  BY <1>3 DEF WGReadFirewall
<1>4. CASE WGServerFirewall(r)
  BY <1>4 DEF WGServerFirewall
<1>5. CASE WGServerReload(r)
  BY <1>5 DEF WGServerReload
<1>6. CASE WGServerUp(r)
  BY <1>6 DEF WGServerUp
<1>7. CASE WGAccessRead(r)
  BY <1>7 DEF WGAccessRead
<1>8. CASE WGAccessCommit(r)
  BY <1>8 DEF WGAccessCommit
<1>9. CASE WGPeerCreate(r)
  BY <1>9 DEF WGPeerCreate, PeerRow
<1>10. CASE WGPeerUpdate(r)
  <2>1. \A p \in Peers : peer[p] \in PeerRow
    BY DEF Peers
  <2>2. \A p \in Peer : peer'[p] = peer[p] \/ peer'[p] \in PeerRow
    <3>1. PICK p \in Peers, ip \in Asked, on \in BOOLEAN :
            /\ \A d \in Peer \ {p} : peer'[d] = peer[d]
            /\ peer'[p] = [ip |-> ip, on |-> on, rule |-> peer[p].rule]
      <4> HIDE DEF Shapes, DataFit, StepFits, WireGuardType
      <4> QED
        BY <1>10, UpdatedPeer
    <3>2. peer[p].rule \in BOOLEAN
      BY <2>1 DEF PeerRow
    <3>3. peer'[p] \in PeerRow
      BY <3>1, <3>2 DEF PeerRow
    <3> QED
      BY <3>1, <3>3
  <2> QED
    BY <1>10, <2>2 DEF WGPeerUpdate
<1>11. CASE WGPeerRuleSet(r)
  BY <1>11 DEF WGPeerRuleSet, PeerRow, Peers
<1>12. CASE WGPeerDelete(r)
  BY <1>12 DEF WGPeerDelete
<1>13. CASE ReadPeerSections(r)
  BY <1>13 DEF ReadPeerSections
<1>14. CASE ReadPeers(r)
  BY <1>14 DEF ReadPeers
<1>15. CASE WritePeers(r)
  BY <1>15 DEF WritePeers
<1>16. CASE PeersUp(r)
  BY <1>16 DEF PeersUp
<1>17. CASE ReadPeerRules(r)
  BY <1>17 DEF ReadPeerRules
<1>18. CASE ReadRuleSections(r)
  BY <1>18 DEF ReadRuleSections
<1>19. CASE WritePeerRules(r)
  BY <1>19 DEF WritePeerRules
<1>20. CASE WGReload(r)
  BY <1>20 DEF WGReload
<1> QED
  BY <1>1, <1>2, <1>3, <1>4, <1>5, <1>6, <1>7, <1>8, <1>9, <1>10, <1>11, <1>12,
     <1>13, <1>14, <1>15, <1>16, <1>17, <1>18, <1>19, <1>20 DEF WireGuardStep

LEMMA SitesTypeOn ==
  ASSUME NEW r \in Request, SitesStep(r),
         Shapes, SitesType, StepFits(r), DataFit(r)
  PROVE  SitesType'
<1> USE DEF Shapes, StepFits, DataFit, Step, SitesType, siteVars, OnlySiteLocals
<1>1. CASE WGSLocalRead(r)
  BY <1>1 DEF WGSLocalRead
<1>2. CASE WGSLocalNetwork(r)
  BY <1>2 DEF WGSLocalNetwork
<1>3. CASE WGSReadFirewall(r)
  BY <1>3 DEF WGSReadFirewall
<1>4. CASE WGSLocalFirewall(r)
  BY <1>4 DEF WGSLocalFirewall
<1>5. CASE WGSLocalReload(r)
  BY <1>5 DEF WGSLocalReload
<1>6. CASE WGSLocalUp(r)
  BY <1>6 DEF WGSLocalUp
<1>7. CASE WGSValidate(r)
  BY <1>7 DEF WGSValidate
<1>8. CASE WGSiteWrite(r)
  <2>1. who[r] \in Site /\ asks[r] \in SiteNet
    BY <1>8 DEF WGSiteWrite
  <2>2. \A t \in Site : site'[t] = site[t] \/ site'[t] \in SiteRow
    <3> HIDE DEF Shapes, DataFit, StepFits, SitesType
    <3>1. CASE site' = site
      BY <3>1
    <3>2. CASE site' # site
      <4>1. /\ \A t \in Site \ {who[r]} : site'[t] = site[t]
            /\ \E ip \in Asked, on \in BOOLEAN :
                 site'[who[r]] = [ip |-> ip, net |-> asks[r], on |-> on]
        BY <1>8, <2>1, <3>2, WrittenSite
      <4> QED
        BY <2>1, <4>1 DEF SiteRow
    <3> QED
      BY <3>1, <3>2
  <2> QED
    BY <1>8, <2>2 DEF WGSiteWrite
<1>9. CASE WGSiteDelete(r)
  BY <1>9 DEF WGSiteDelete
<1>10. CASE ReadSiteSections(r)
  BY <1>10 DEF ReadSiteSections
<1>11. CASE ReadSites(r)
  BY <1>11 DEF ReadSites
<1>12. CASE WriteSites(r)
  BY <1>12 DEF WriteSites
<1>13. CASE SitesUp(r)
  BY <1>13 DEF SitesUp
<1> QED
  BY <1>1, <1>2, <1>3, <1>4, <1>5, <1>6, <1>7, <1>8, <1>9, <1>10, <1>11, <1>12,
     <1>13 DEF SitesStep

LEMMA StepTyped ==
  ASSUME Typed, NEW r \in Request, VpnStep(r)
  PROVE  Typed'
<1>1. Touches(r)
  BY StepTouches
<1>2. /\ Shapes' /\ kind' = kind /\ alone' = alone /\ crashes' = crashes
      /\ \A q \in Request \ {r} :
           /\ at'[q] = at[q] /\ who'[q] = who[q] /\ asks'[q] = asks[q]
           /\ rows'[q] = rows[q] /\ seen'[q] = seen[q] /\ signer'[q] = signer[q]
  BY <1>1 DEF Touches
<1>3. /\ Shapes /\ StepFits(r) /\ DataFit(r) /\ OpenVPNType /\ WireGuardType /\ SitesType
  BY DEF Typed, StepsFit, DataFits, TypeOK, OpenVPNType
<1>4. StepsFit'
  BY StepFitsOn
<1>5. DataFits'
  <2>1. \A q \in Request \ {r} : DataFit(q)'
    BY <1>2 DEF Typed, DataFits, DataFit, Full, Key, Making, MakingCA, MakingServer, MakingCRL
  <2>2. DataFit(r)'
    BY <1>2, <1>3, OvpnData, WGData, SitesData DEF VpnStep
  <2> QED
    BY <2>1, <2>2 DEF DataFits
<1>6. OpenVPNType'
  <2>1. CASE OpenVPNStep(r)
    BY <1>2, <1>3, <2>1, OvpnTypeOn
  <2>2. CASE UNCHANGED ovpnVars
    BY <1>3, <2>2 DEF ovpnVars, OpenVPNType, PkiType, ClientRow, Key, pkiVars, crlVars, ovpnFiles
  <2> QED
    BY <2>1, <2>2 DEF VpnStep
<1>7. WireGuardType'
  <2>1. CASE WireGuardStep(r)
    BY <1>3, <2>1, WGTypeOn
  <2>2. CASE UNCHANGED wgVars
    BY <1>3, <2>2 DEF wgVars, WireGuardType, PeerRow, Key
  <2> QED
    BY <2>1, <2>2 DEF VpnStep
<1>8. SitesType'
  <2>1. CASE SitesStep(r)
    BY <1>3, <2>1, SitesTypeOn
  <2>2. CASE UNCHANGED siteVars
    BY <1>3, <2>2 DEF siteVars, SitesType, SiteRow
  <2> QED
    BY <2>1, <2>2 DEF VpnStep
<1>9. TypeOK'
  BY <1>2, <1>6, <1>7, <1>8 DEF TypeOK, Typed, Shapes, Key
<1> QED
  BY <1>2, <1>4, <1>5, <1>9 DEF Typed

(* A request comes or goes. *)
Goes(r) ==
  /\ UNCHANGED <<configVars, ovpnVars, wgVars, siteVars>>
  /\ UNCHANGED <<kind, who, asks, rows, seen>>
  /\ \/ Begin(r)
     \/ Fail(r)

Breaks ==
  Crash /\ UNCHANGED <<ovpnVars, wgVars, siteVars>>

LEMMA NextIs ==
  ASSUME Next
  PROVE  Breaks \/ \E r \in Request : Goes(r) \/ VpnStep(r)
<1>1. ASSUME NEW r \in Request, Begin(r) \/ Fail(r), UNCHANGED <<ovpnVars, wgVars, siteVars>>
      PROVE  Goes(r)
  BY <1>1 DEF Goes, Begin, Fail, NoLocals
<1> QED
  BY <1>1 DEF Next, Breaks, VpnStep

LEMMA QuietTyped ==
  ASSUME Typed, UNCHANGED <<ovpnVars, wgVars, siteVars, kind, who, asks, rows, seen>>,
         alone' \subseteq Request, crashes' \in 0..MaxCrashes, DOMAIN at' = Request,
         \A r \in Request : at'[r] \in {at[r], "start", "failed"}
  PROVE  Typed'
<1>1. Shapes'
  BY DEF Typed, Shapes, ovpnVars, pkiVars, wgVars, siteVars, Key, Kind
<1>2. TypeOK'
  BY DEF Typed, TypeOK, ovpnVars, wgVars, siteVars, OpenVPNType, PkiType, WireGuardType, SitesType,
         ClientRow, PeerRow, SiteRow, Key, pkiVars, crlVars, ovpnFiles
<1>3. StepsFit'
  BY DEF Typed, StepsFit, StepFits, Making, MakingCA, MakingServer, MakingCRL
<1>4. DataFits'
  BY DEF Typed, DataFits, DataFit, Full, Key, Making, MakingCA, MakingServer,
         MakingCRL, ovpnVars, pkiVars
<1> QED
  BY <1>1, <1>2, <1>3, <1>4 DEF Typed

LEMMA NextTyped ==
  ASSUME Typed, [Next]_vars
  PROVE  Typed'
<1> USE DEF Typed, Shapes
<1>1. ASSUME NEW r \in Request, Goes(r) PROVE Typed'
  <2>1. alone' \subseteq Request /\ crashes' \in 0..MaxCrashes
    BY <1>1 DEF Goes, Begin, Fail, NoLocals, TypeOK
  <2>2. DOMAIN at' = Request /\ \A q \in Request : at'[q] \in {at[q], "start", "failed"}
    BY <1>1 DEF Goes, Begin, Fail, Step
  <2> HIDE DEF Typed, Shapes
  <2> QED
    BY <1>1, <2>1, <2>2, QuietTyped DEF Goes
<1>2. ASSUME Breaks PROVE Typed'
  <2>1. alone' \subseteq Request /\ crashes' \in 0..MaxCrashes
    BY <1>2, VpnCallsAssumption DEF Breaks, Crash, NoLocals, TypeOK
  <2>2. DOMAIN at' = Request /\ \A q \in Request : at'[q] \in {at[q], "start", "failed"}
    BY <1>2 DEF Breaks, Crash
  <2> HIDE DEF Typed, Shapes
  <2> QED
    BY <1>2, <2>1, <2>2, QuietTyped DEF Breaks, Crash, NoLocals
<1>3. CASE UNCHANGED vars
  <2>1. alone' \subseteq Request /\ crashes' \in 0..MaxCrashes
    BY <1>3 DEF vars, callVars, TypeOK
  <2>2. DOMAIN at' = Request /\ \A q \in Request : at'[q] \in {at[q], "start", "failed"}
    BY <1>3 DEF vars, callVars
  <2> HIDE DEF Typed, Shapes
  <2> QED
    BY <1>3, <2>1, <2>2, QuietTyped DEF vars, callVars
<1> HIDE DEF Typed, Shapes
<1> QED
  BY <1>1, <1>2, <1>3, NextIs, StepTyped

(* Every variable of the tunnels has its type in every reachable state.    *)
THEOREM TypeCorrect == Spec => []TypeOK
<1>1. Typed => TypeOK
  BY DEF Typed
<1> QED
  BY <1>1, InitTyped, NextTyped, PTL DEF Spec

----------------------------------------------------------------------------
(* Keys and certificates. *)

(* Nothing that can be read is a file that cannot. *)
LEMMA Unreadables ==
  /\ None \notin Key /\ Begun \notin Key /\ Mixed \notin Key
  /\ \A x \in ServerCert \cup RevokedList : Readable(x)
  /\ None # Begun /\ None # Mixed
  BY VpnCallsAssumption, OpenVPNAssumption DEF Key, Readable, Unreadable

(* What the steps that make certificates leave alone. *)
LEMMA PKIKeeps ==
  ASSUME NEW r \in Request, PKIStep(r)
  PROVE  /\ UNCHANGED <<kind, who, asks, seen, alone, configVars, crashes, ovpnSet, client,
                        ovpnFiles, revoked>>
         /\ at[r] \in Making
<1> USE DEF NoLocals, OtherPki, crlVars, Step, Making, MakingCA, MakingServer, MakingCRL
<1>1. CASE LookForCA(r) \/ LookForServer(r)
  BY <1>1 DEF LookForCA, LookForServer
<1>2. CASE OpenFile(r)
  BY <1>2 DEF OpenFile, Opened
<1>3. CASE FillFile(r)
  BY <1>3 DEF FillFile, Filled
<1>4. CASE ReadRevoked(r)
  BY <1>4 DEF ReadRevoked
<1>5. CASE WriteCRL(r)
  BY <1>5 DEF WriteCRL, Filled
<1> QED
  BY <1>1, <1>2, <1>3, <1>4, <1>5 DEF PKIStep

(* What two have made at once is marked for good, and a mark is new only   *)
(* where somebody looks for a file and does not find it.                   *)
LEMMA CrossedStays ==
  ASSUME NEW r \in Request, OpenVPNStep(r)
  PROVE  crossed \subseteq crossed'
<1>1. CASE LookForCA(r) \/ LookForServer(r)
  BY <1>1 DEF LookForCA, LookForServer
<1>2. CASE OpenFile(r) \/ FillFile(r) \/ ReadRevoked(r) \/ WriteCRL(r)
  BY <1>2 DEF OpenFile, FillFile, ReadRevoked, WriteCRL
<1>3. CASE ~PKIStep(r)
  BY <1>3, OnlyPKI DEF pkiVars
<1> QED
  BY <1>1, <1>2, <1>3 DEF PKIStep

(* A client's certificate stays, and a new one is the authority's.         *)
LEMMA ClientCertificates ==
  ASSUME NEW r \in Request, OpenVPNStep(r), Shapes, OpenVPNType, StepFits(r), DataFit(r),
         NEW d \in Clients'
  PROVE  \/ d \in Clients /\ client'[d].ca = client[d].ca
         \/ CanSign /\ client'[d].ca = pki.caCrt
<1>0. d \in Client /\ client'[d] # None
  BY DEF Clients
<1>1. CASE client' = client
  BY <1>0, <1>1 DEF Clients
<1>2. CASE InsertClient(r) /\ client' # client
  <2>0. who[r] \in Client
    BY <1>2 DEF InsertClient, DataFit
  <2>1. /\ CanSign /\ \A c \in Client \ {who[r]} : client'[c] = client[c]
        /\ who[r] \in Client => \E on, pass \in BOOLEAN : client'[who[r]] =
             [ip |-> asks[r], on |-> on, rule |-> FALSE, pass |-> pass, ca |-> pki.caCrt]
    BY <1>2, InsertedClient
  <2>2. PICK on \in BOOLEAN, pass \in BOOLEAN : client'[who[r]] =
          [ip |-> asks[r], on |-> on, rule |-> FALSE, pass |-> pass, ca |-> pki.caCrt]
    BY <2>0, <2>1
  <2>3. client'[who[r]].ca = pki.caCrt
    BY <2>2
  <2> QED
    BY <1>0, <2>1, <2>3 DEF Clients
<1>3. CASE UpdateClient(r)
  <2>1. PICK c \in Clients, ip \in Asked, on \in BOOLEAN, pass \in BOOLEAN :
          /\ \A e \in Client \ {c} : client'[e] = client[e]
          /\ client'[c] = [ip |-> ip, on |-> on, rule |-> client[c].rule, pass |-> pass,
                           ca |-> client[c].ca]
    BY <1>3, UpdatedClient
  <2> QED
    BY <1>0, <2>1 DEF Clients
<1>4. CASE SetClientRule(r)
  <2>1. PICK c \in Clients, rule \in BOOLEAN :
          /\ \A e \in Client \ {c} : client'[e] = client[e]
          /\ client'[c] = [ip |-> client[c].ip, on |-> client[c].on, rule |-> rule,
                           pass |-> client[c].pass, ca |-> client[c].ca]
    BY <1>4, ChangedRule
  <2> QED
    BY <1>0, <2>1 DEF Clients
<1>5. CASE DeleteClient(r)
  BY <1>0, <1>5 DEF DeleteClient, Clients, Shapes
<1>6. CASE client' # client /\ ~InsertClient(r) /\ ~UpdateClient(r) /\ ~SetClientRule(r)
           /\ ~DeleteClient(r)
  BY <1>6, PKIKeeps
     DEF OpenVPNStep, ovpnVars, ServerStart, ServerCommit, ServerReadFirewall, ServerFirewall,
         AccessRead, AccessCommit, NewClient, Revoke, WriteUsers, ReadClients, ClearCCD,
         WriteCCD, ReadClientRules, ReadClientSections, WriteClientRules, OpenVPNReload
<1> QED
  BY <1>1, <1>2, <1>3, <1>4, <1>5, <1>6

(* No other step of a handler comes to where certificates are made. *)
LEMMA RestSteps ==
  ASSUME NEW r \in Request, OpenVPNStep(r), ~PKIStep(r), DOMAIN at = Request
  PROVE  /\ at'[r] \notin MakingCA \cup MakingServer \cup MakingCRL \cup {"commit", "srv"}
         /\ at'[r] = "crlRead" => kind[r] = "oDelete"
<1> USE DEF MakingCA, MakingServer, MakingCRL, Step
<1>1. CASE ServerStart(r) \/ ServerCommit(r) \/ ServerReadFirewall(r) \/ ServerFirewall(r)
           \/ AccessRead(r) \/ AccessCommit(r) \/ NewClient(r)
  BY <1>1 DEF ServerStart, ServerCommit, ServerReadFirewall, ServerFirewall, AccessRead,
              AccessCommit, NewClient
<1>2. CASE InsertClient(r)
  BY <1>2 DEF InsertClient
<1>3. CASE UpdateClient(r) \/ SetClientRule(r) \/ Revoke(r) \/ DeleteClient(r)
  BY <1>3 DEF UpdateClient, SetClientRule, Revoke, DeleteClient
<1>4. CASE WriteUsers(r) \/ ReadClients(r) \/ ClearCCD(r) \/ WriteCCD(r)
           \/ ReadClientRules(r) \/ ReadClientSections(r) \/ WriteClientRules(r)
           \/ OpenVPNReload(r)
  BY <1>4 DEF WriteUsers, ReadClients, ClearCCD, WriteCCD, ReadClientRules,
              ReadClientSections, WriteClientRules, OpenVPNReload
<1> QED
  BY <1>1, <1>2, <1>3, <1>4 DEF OpenVPNStep

(* Who makes a file of the authority while nobody else does finds it as it *)
(* left it, and whoever signs does so with its key.                        *)
Signing == MakingServer \cup MakingCRL

AuthorityAt(r) ==
  /\ at[r] \in {"caKey", "caKeyFill", "caCrt"} => pki.caCrt = None
  /\ at[r] = "caKeyFill" => pki.caKey = Begun
  /\ at[r] \in {"caCrt", "caCrtFill"} => pki.caKey = r
  /\ at[r] = "caCrtFill" => pki.caCrt = Begun
  /\ at[r] \in Signing => signer[r] = pki.caCrt
  /\ at[r] \in Signing \cup {"commit"} => Readable(pki.caCrt)

AuthorityInv ==
  \/ "ca" \in crossed
  \/ /\ AuthorityFits
     /\ \A r \in Request : AuthorityAt(r)
     /\ \A r \in Request : at[r] \in MakingCA => ~Crosses(r, MakingCA)

(* A file is made by one request only, unless it is marked. *)
LEMMA MakersOn ==
  ASSUME NEW r \in Request, OpenVPNStep(r), Shapes,
         \A q \in Request \ {r} : at'[q] = at[q]
  PROVE  /\ (\A q \in Request : at[q] \in MakingCA => ~Crosses(q, MakingCA)) =>
              \/ "ca" \in crossed'
              \/ \A q \in Request : at'[q] \in MakingCA => ~Crosses(q, MakingCA)'
         /\ (\A q \in Request : at[q] \in MakingServer => ~Crosses(q, MakingServer)) =>
              \/ "server" \in crossed'
              \/ \A q \in Request : at'[q] \in MakingServer => ~Crosses(q, MakingServer)'
<1> USE DEF MakingCA, MakingServer, Crosses, Step, Shapes
<1>1. CASE LookForCA(r)
  BY <1>1 DEF LookForCA
<1>2. CASE LookForServer(r)
  BY <1>2 DEF LookForServer
<1>3. CASE OpenFile(r)
  BY <1>3 DEF OpenFile, Opened
<1>4. CASE FillFile(r)
  BY <1>4 DEF FillFile, Filled
<1>5. CASE ReadRevoked(r)
  BY <1>5 DEF ReadRevoked
<1>6. CASE WriteCRL(r)
  BY <1>6 DEF WriteCRL, Filled, AfterCRL
<1>7. CASE ~PKIStep(r)
  BY <1>7, RestSteps
<1> QED
  BY <1>1, <1>2, <1>3, <1>4, <1>5, <1>6, <1>7 DEF PKIStep

(* Whatever step is taken while only one request at a time makes the       *)
(* authority, what is there fits.                                          *)
LEMMA AuthorityOn ==
  ASSUME NEW r \in Request, OpenVPNStep(r), Shapes, Shapes', OpenVPNType, OpenVPNType',
         StepFits(r), DataFit(r), AuthorityInv,
         \A q \in Request \ {r} : at'[q] = at[q] /\ signer'[q] = signer[q]
  PROVE  AuthorityInv'
<1> SUFFICES ASSUME "ca" \notin crossed' PROVE AuthorityInv'
  BY DEF AuthorityInv
<1>1. /\ AuthorityFits
      /\ \A q \in Request : AuthorityAt(q)
      /\ \A q \in Request : at[q] \in MakingCA => ~Crosses(q, MakingCA)
  BY CrossedStays DEF AuthorityInv
<1>2. \A q \in Request : at'[q] \in MakingCA => ~Crosses(q, MakingCA)'
  BY <1>1, MakersOn
<1>3. /\ pki.srvCrt \in ServerCert \cup Unreadable /\ pki.crl \in RevokedList \cup Unreadable
      /\ \A c \in Clients : client[c].ca \in Key
  BY DEF OpenVPNType, PkiType, Clients, ClientRow
<1>4. ~Readable(pki.caCrt) =>
        /\ ~Readable(pki.srvCrt) /\ ~Readable(pki.crl) /\ Clients = {} /\ ~ovpnSet
        /\ \A q \in Request : at[q] \notin Signing \cup {"commit"}
  <2>1. pki.caCrt \in Key => Readable(pki.caCrt)
    BY Unreadables DEF Readable, Unreadable
  <2> QED
    BY <1>1, <1>3, <2>1 DEF AuthorityFits, AuthorityAt, Readable, ServerCert, RevokedList
<1>5. \A q \in Request \ {r} : at[r] \in MakingCA => at[q] \notin MakingCA
  BY <1>1 DEF Crosses
<1>6. CASE ~PKIStep(r)
  <2>1. UNCHANGED <<pki, signer>>
    BY <1>6, OnlyPKI DEF pkiVars
  <2>2. at'[r] \notin MakingCA \cup Signing \cup {"commit"}
    BY <1>6, RestSteps DEF Shapes, Signing
  <2>3. ovpnSet' => ovpnSet \/ at[r] = "commit"
    BY <1>6 DEF OpenVPNStep, ovpnVars, ServerStart, ServerCommit, ServerReadFirewall,
         ServerFirewall, AccessRead, AccessCommit, NewClient, InsertClient, UpdateClient,
         SetClientRule, OtherClients, Revoke, DeleteClient, WriteUsers, ReadClients, ClearCCD,
         WriteCCD, ReadClientRules, ReadClientSections, WriteClientRules, OpenVPNReload, Step
  <2>4. ovpnSet' => Readable(pki.caCrt)
    BY <1>1, <2>3 DEF AuthorityFits, AuthorityAt
  <2>5. \A c \in Clients' : client'[c].ca = pki.caCrt
    BY <1>1, ClientCertificates DEF AuthorityFits
  <2>6. AuthorityFits'
    BY <1>1, <2>1, <2>4, <2>5 DEF AuthorityFits
  <2>7. \A q \in Request : AuthorityAt(q)'
    BY <1>1, <2>1, <2>2 DEF AuthorityAt, MakingCA, Signing
  <2> QED
    BY <1>2, <2>6, <2>7 DEF AuthorityInv
<1>7. ASSUME PKIStep(r) PROVE client' = client /\ ovpnSet' = ovpnSet /\ Clients' = Clients
  BY <1>7, PKIKeeps DEF Clients
<1>8. CASE LookForCA(r)
  <2>1. /\ UNCHANGED <<pki, signer>> /\ at'[r] \in {"caKey", "srv"}
        /\ at'[r] = "caKey" => pki.caCrt = None
    BY <1>8 DEF LookForCA, Step, Shapes
  <2>2. AuthorityFits'
    BY <1>1, <1>7, <1>8, <2>1 DEF AuthorityFits, PKIStep
  <2>3. \A q \in Request : AuthorityAt(q)'
    BY <1>1, <2>1 DEF AuthorityAt, Signing, MakingServer, MakingCRL
  <2> QED
    BY <1>2, <2>2, <2>3 DEF AuthorityInv
<1>9. CASE LookForServer(r)
  <2>1. /\ UNCHANGED pki /\ at'[r] \in {"crlRead", "srvKey", "failed"}
        /\ at'[r] = "srvKey" => CanSign /\ signer'[r] = pki.caKey
    BY <1>9 DEF LookForServer, Step, Shapes, Remember
  <2>2. AuthorityFits'
    BY <1>1, <1>7, <1>9, <2>1 DEF AuthorityFits, PKIStep
  <2>3. \A q \in Request : AuthorityAt(q)'
    BY <1>1, <2>1 DEF AuthorityAt, Signing, MakingServer, MakingCRL, CanSign
  <2> QED
    BY <1>2, <2>2, <2>3 DEF AuthorityInv
<1>10. CASE ReadRevoked(r)
  <2>1. /\ UNCHANGED pki /\ at'[r] \in {"crl", "failed"}
        /\ at'[r] = "crl" => Readable(pki.caCrt) /\ signer'[r] = pki.caKey
    BY <1>10 DEF ReadRevoked, Step, Shapes, Remember
  <2>2. AuthorityFits'
    BY <1>1, <1>7, <1>10, <2>1 DEF AuthorityFits, PKIStep
  <2>3. \A q \in Request : AuthorityAt(q)'
    BY <1>1, <2>1 DEF AuthorityAt, AuthorityFits, Signing, MakingServer, MakingCRL
  <2> QED
    BY <1>2, <2>2, <2>3 DEF AuthorityInv
<1>11. CASE OpenFile(r)
  <2>0. signer' = signer /\ ~Readable(Begun)
    BY <1>11 DEF OpenFile, Readable, Unreadable
  <2>1. CASE Opened("caKey", r, "caKey", "caKeyFill") \/ Opened("caCrt", r, "caCrt", "caCrtFill")
    <3>1. /\ pki.caCrt = None /\ at[r] \in {"caKey", "caCrt"}
          /\ at'[r] = IF at[r] = "caKey" THEN "caKeyFill" ELSE "caCrtFill"
          /\ pki' = [pki EXCEPT ![IF at[r] = "caKey" THEN "caKey" ELSE "caCrt"] = Begun]
      BY <1>1, <2>1 DEF Opened, Step, AuthorityAt, Shapes
    <3>2. /\ pki'.caKey = IF at[r] = "caKey" THEN Begun ELSE pki.caKey
          /\ pki'.caCrt = IF at[r] = "caKey" THEN None ELSE Begun
          /\ pki'.srvCrt = pki.srvCrt /\ pki'.crl = pki.crl
      BY <3>1 DEF Shapes, PkiFile
    <3>3. ~Readable(pki.caCrt)
      BY <3>1 DEF Readable, Unreadable
    <3>4. AuthorityFits'
      BY <1>4, <1>7, <1>11, <2>0, <3>2, <3>3 DEF AuthorityFits, PKIStep, Readable, Unreadable
    <3>5. AuthorityAt(r)'
      BY <1>1, <3>1, <3>2 DEF AuthorityAt, Signing, MakingServer, MakingCRL
    <3>6. ASSUME NEW q \in Request \ {r} PROVE AuthorityAt(q)'
      BY <1>4, <1>5, <3>1, <3>3 DEF AuthorityAt, MakingCA
    <3> QED
      BY <1>2, <3>4, <3>5, <3>6 DEF AuthorityInv
  <2>2. CASE \/ Opened("srvKey", r, "srvKey", "srvKeyFill")
             \/ Opened("srvCrt", r, "srvCrt", "srvCrtFill")
             \/ Opened("crl", r, "crl", "crlFill")
    <3>1. /\ at[r] \in Signing /\ at'[r] \in Signing /\ at'[r] \notin MakingCA
          /\ pki'.caKey = pki.caKey /\ pki'.caCrt = pki.caCrt
          /\ pki'.srvCrt \in {pki.srvCrt, Begun} /\ pki'.crl \in {pki.crl, Begun}
      BY <2>2 DEF Opened, Step, Shapes, PkiFile, Signing, MakingServer, MakingCRL, MakingCA
    <3>2. AuthorityFits'
      BY <1>1, <1>7, <1>11, <2>0, <3>1 DEF AuthorityFits, PKIStep
    <3>3. \A q \in Request : AuthorityAt(q)'
      BY <1>1, <2>0, <3>1 DEF AuthorityAt, MakingCA
    <3> QED
      BY <1>2, <3>2, <3>3 DEF AuthorityInv
  <2> QED
    BY <1>11, <2>1, <2>2 DEF OpenFile
<1>12. CASE FillFile(r)
  <2>0. signer' = signer /\ ~Readable(Mixed)
    BY <1>12 DEF FillFile, Readable, Unreadable
  <2>1. CASE Filled("caKey", r, r, "caKeyFill", "caCrt")
    <3>1. /\ pki.caKey = Begun /\ pki.caCrt = None /\ at[r] = "caKeyFill" /\ at'[r] = "caCrt"
      BY <1>1, <2>1 DEF Filled, Step, AuthorityAt, Shapes
    <3>2. /\ pki'.caKey = r /\ pki'.caCrt = None
          /\ pki'.srvCrt = pki.srvCrt /\ pki'.crl = pki.crl
      BY <2>1, <3>1, FileFilled DEF PkiFile
    <3>3. ~Readable(pki.caCrt)
      BY <3>1 DEF Readable, Unreadable
    <3>4. AuthorityFits'
      BY <1>4, <1>7, <1>12, <3>1, <3>2, <3>3 DEF AuthorityFits, PKIStep, Readable
    <3>5. AuthorityAt(r)'
      BY <3>1, <3>2 DEF AuthorityAt, Signing, MakingServer, MakingCRL
    <3>6. ASSUME NEW q \in Request \ {r} PROVE AuthorityAt(q)'
      BY <1>4, <1>5, <3>1, <3>3 DEF AuthorityAt, MakingCA
    <3> QED
      BY <1>2, <3>4, <3>5, <3>6 DEF AuthorityInv
  <2>2. CASE Filled("caCrt", r, r, "caCrtFill", "srv")
    <3>1. /\ pki.caCrt = Begun /\ pki.caKey = r /\ at[r] = "caCrtFill" /\ at'[r] = "srv"
      BY <1>1, <2>2 DEF Filled, Step, AuthorityAt, Shapes
    <3>2. /\ pki'.caKey = r /\ pki'.caCrt = r
          /\ pki'.srvCrt = pki.srvCrt /\ pki'.crl = pki.crl
      BY <2>2, <3>1, FileFilled DEF PkiFile
    <3>3. ~Readable(pki.caCrt)
      BY <3>1 DEF Readable, Unreadable
    <3>4. AuthorityFits'
      BY <1>4, <1>7, <1>12, <3>2, <3>3 DEF AuthorityFits, PKIStep, Readable
    <3>5. AuthorityAt(r)'
      BY <3>1 DEF AuthorityAt, Signing, MakingServer, MakingCRL
    <3>6. ASSUME NEW q \in Request \ {r} PROVE AuthorityAt(q)'
      BY <1>4, <1>5, <3>1, <3>3 DEF AuthorityAt, MakingCA
    <3> QED
      BY <1>2, <3>4, <3>5, <3>6 DEF AuthorityInv
  <2>3. CASE Filled("srvKey", r, r, "srvKeyFill", "srvCrt")
    <3>1. at[r] \in Signing /\ at'[r] = "srvCrt"
      BY <2>3 DEF Filled, Step, Shapes, Signing, MakingServer
    <3>2. /\ pki'.caKey = pki.caKey /\ pki'.caCrt = pki.caCrt
          /\ pki'.srvCrt = pki.srvCrt /\ pki'.crl = pki.crl
      BY <2>3, FileFilled DEF PkiFile
    <3>3. AuthorityFits'
      BY <1>1, <1>7, <1>12, <3>2 DEF AuthorityFits, PKIStep
    <3>4. \A q \in Request : AuthorityAt(q)'
      BY <1>1, <2>0, <3>1, <3>2 DEF AuthorityAt, Signing, MakingServer
    <3> QED
      BY <1>2, <3>3, <3>4 DEF AuthorityInv
  <2>4. CASE Filled("srvCrt", r, [ca |-> signer[r], key |-> r], "srvCrtFill", "crlRead")
    <3>1. at[r] \in Signing /\ at'[r] = "crlRead"
      BY <2>4 DEF Filled, Step, Shapes, Signing, MakingServer
    <3>2. /\ pki'.caKey = pki.caKey /\ pki'.caCrt = pki.caCrt /\ pki'.crl = pki.crl
          /\ pki'.srvCrt \in {[ca |-> signer[r], key |-> r], Mixed}
      BY <2>4, FileFilled DEF PkiFile
    <3>3. signer[r] = pki.caCrt
      BY <1>1, <3>1 DEF AuthorityAt
    <3>4. Readable(pki'.srvCrt) => pki'.srvCrt.ca = pki'.caCrt
      BY <2>0, <3>2, <3>3
    <3>5. AuthorityFits'
      BY <1>1, <1>7, <1>12, <3>2, <3>4 DEF AuthorityFits, PKIStep
    <3>6. \A q \in Request : AuthorityAt(q)'
      BY <1>1, <2>0, <3>1, <3>2 DEF AuthorityAt, Signing, MakingServer, MakingCRL
    <3> QED
      BY <1>2, <3>5, <3>6 DEF AuthorityInv
  <2> QED
    BY <1>12, <2>1, <2>2, <2>3, <2>4 DEF FillFile
<1>13. CASE WriteCRL(r)
  <2>0. signer' = signer /\ ~Readable(Mixed)
    BY <1>13 DEF WriteCRL, Readable, Unreadable
  <2>1. /\ Filled("crl", r, [ca |-> signer[r], out |-> rows[r]], "crlFill", AfterCRL(r))
        /\ at[r] \in Signing /\ at'[r] \in {"commit", "insert", "done"}
    BY <1>13 DEF WriteCRL, Filled, Step, Shapes, AfterCRL, Signing, MakingCRL
  <2>2. /\ pki'.caKey = pki.caKey /\ pki'.caCrt = pki.caCrt /\ pki'.srvCrt = pki.srvCrt
        /\ pki'.crl \in {[ca |-> signer[r], out |-> rows[r]], Mixed}
    BY <2>1, FileFilled DEF PkiFile
  <2>3. signer[r] = pki.caCrt /\ Readable(pki.caCrt)
    BY <1>1, <2>1 DEF AuthorityAt
  <2>4. Readable(pki'.crl) => pki'.crl.ca = pki'.caCrt
    BY <2>0, <2>2, <2>3
  <2>5. AuthorityFits'
    BY <1>1, <1>7, <1>13, <2>2, <2>4 DEF AuthorityFits, PKIStep
  <2>6. \A q \in Request : AuthorityAt(q)'
    BY <1>1, <2>0, <2>1, <2>2, <2>3 DEF AuthorityAt, Signing, MakingServer, MakingCRL
  <2> QED
    BY <1>2, <2>5, <2>6 DEF AuthorityInv
<1> QED
  BY <1>6, <1>8, <1>9, <1>10, <1>11, <1>12, <1>13 DEF PKIStep

(* The same of the files of the server; whoever is past them finds them. *)
ServerAt(r) ==
  /\ at[r] \in {"srvKey", "srvKeyFill", "srvCrt"} => pki.srvCrt = None
  /\ at[r] = "srvKeyFill" => pki.srvKey = Begun
  /\ at[r] \in {"srvCrt", "srvCrtFill"} => pki.srvKey = r
  /\ at[r] = "srvCrtFill" => pki.srvCrt = Begun
  /\ kind[r] \in {"oServer", "oCreate"} /\ at[r] \in MakingCRL \cup {"crlRead", "commit"} =>
       pki.srvCrt # None

ServerFilesFit ==
  /\ Readable(pki.srvCrt) => pki.srvCrt.key = pki.srvKey
  /\ pki.srvCrt # None => Readable(pki.srvKey)
  /\ ovpnSet => pki.srvCrt # None

ServerInv ==
  \/ "server" \in crossed
  \/ /\ ServerFilesFit
     /\ \A r \in Request : ServerAt(r)
     /\ \A r \in Request : at[r] \in MakingServer => ~Crosses(r, MakingServer)

LEMMA ServerFilesOn ==
  ASSUME NEW r \in Request, OpenVPNStep(r), Shapes, StepFits(r), DataFit(r), ServerInv,
         kind' = kind, \A q \in Request \ {r} : at'[q] = at[q]
  PROVE  ServerInv'
<1> SUFFICES ASSUME "server" \notin crossed' PROVE ServerInv'
  BY DEF ServerInv
<1>1. /\ ServerFilesFit
      /\ \A q \in Request : ServerAt(q)
      /\ \A q \in Request : at[q] \in MakingServer => ~Crosses(q, MakingServer)
  BY CrossedStays DEF ServerInv
<1>2. \A q \in Request : at'[q] \in MakingServer => ~Crosses(q, MakingServer)'
  BY <1>1, MakersOn
<1>3. ~Readable(None) /\ ~Readable(Begun) /\ ~Readable(Mixed) /\ None # Begun /\ None # Mixed
  BY Unreadables DEF Readable, Unreadable
<1>4. Readable(r)
  BY Unreadables DEF Key, Readable, Unreadable
<1>5. \A q \in Request \ {r} : at[r] \in MakingServer => at[q] \notin MakingServer
  BY <1>1 DEF Crosses
<1>6. CASE ~PKIStep(r)
  <2>1. UNCHANGED pki
    BY <1>6, OnlyPKI DEF pkiVars
  <2>2. /\ at'[r] \notin MakingServer \cup MakingCRL \cup {"commit"}
        /\ at'[r] = "crlRead" => kind[r] = "oDelete"
    BY <1>6, RestSteps DEF Shapes
  <2>3. ovpnSet' => ovpnSet \/ (at[r] = "commit" /\ kind[r] = "oServer")
    BY <1>6 DEF OpenVPNStep, ovpnVars, ServerStart, ServerCommit, ServerReadFirewall,
         ServerFirewall, AccessRead, AccessCommit, NewClient, InsertClient, UpdateClient,
         SetClientRule, OtherClients, Revoke, DeleteClient, WriteUsers, ReadClients, ClearCCD,
         WriteCCD, ReadClientRules, ReadClientSections, WriteClientRules, OpenVPNReload, Step
  <2>4. ServerFilesFit'
    BY <1>1, <2>1, <2>3 DEF ServerFilesFit, ServerAt
  <2>5. \A q \in Request : ServerAt(q)'
    BY <1>1, <2>1, <2>2 DEF ServerAt, MakingServer, MakingCRL
  <2> QED
    BY <1>2, <2>4, <2>5 DEF ServerInv
<1>7. ASSUME PKIStep(r) PROVE ovpnSet' = ovpnSet
  BY <1>7, PKIKeeps
<1>8. CASE LookForCA(r) \/ LookForServer(r) \/ ReadRevoked(r)
  <2>1. UNCHANGED pki
    BY <1>8 DEF LookForCA, LookForServer, ReadRevoked
  <2>2. ServerFilesFit'
    BY <1>1, <1>7, <1>8, <2>1 DEF ServerFilesFit, PKIStep
  <2>3. ServerAt(r)'
    <3>1. CASE LookForCA(r)
      BY <2>1, <3>1 DEF LookForCA, Step, Shapes, ServerAt, MakingCRL
    <3>2. CASE LookForServer(r)
      BY <2>1, <3>2 DEF LookForServer, Step, Shapes, ServerAt, MakingCRL
    <3>3. CASE ReadRevoked(r)
      BY <1>1, <2>1, <3>3 DEF ReadRevoked, Step, Shapes, ServerAt, MakingCRL
    <3> QED
      BY <1>8, <3>1, <3>2, <3>3
  <2>4. \A q \in Request \ {r} : ServerAt(q)'
    BY <1>1, <2>1 DEF ServerAt
  <2> QED
    BY <1>2, <2>2, <2>3, <2>4 DEF ServerInv
<1>9. CASE OpenFile(r)
  <2>1. CASE Opened("caKey", r, "caKey", "caKeyFill") \/ Opened("caCrt", r, "caCrt", "caCrtFill")
             \/ Opened("crl", r, "crl", "crlFill")
    <3>1. /\ pki'.srvCrt = pki.srvCrt /\ pki'.srvKey = pki.srvKey
          /\ (at[r] = "crl" /\ at'[r] = "crlFill") \/ at'[r] \in {"caKeyFill", "caCrtFill"}
      BY <2>1 DEF Opened, Step, Shapes, PkiFile
    <3>2. ServerFilesFit'
      BY <1>1, <1>7, <1>9, <3>1 DEF ServerFilesFit, PKIStep
    <3>3. \A q \in Request : ServerAt(q)'
      BY <1>1, <3>1 DEF ServerAt, MakingCRL
    <3> QED
      BY <1>2, <3>2, <3>3 DEF ServerInv
  <2>2. CASE Opened("srvKey", r, "srvKey", "srvKeyFill")
    <3>1. /\ at[r] = "srvKey" /\ at'[r] = "srvKeyFill" /\ pki.srvCrt = None
          /\ pki'.srvKey = Begun /\ pki'.srvCrt = pki.srvCrt
      BY <1>1, <2>2 DEF Opened, Step, Shapes, PkiFile, ServerAt
    <3>2. ServerFilesFit'
      BY <1>1, <1>3, <1>7, <1>9, <3>1 DEF ServerFilesFit, PKIStep
    <3>3. \A q \in Request : ServerAt(q)'
      BY <1>1, <1>5, <3>1 DEF ServerAt, MakingServer, MakingCRL
    <3> QED
      BY <1>2, <3>2, <3>3 DEF ServerInv
  <2>3. CASE Opened("srvCrt", r, "srvCrt", "srvCrtFill")
    <3>1. /\ at[r] = "srvCrt" /\ at'[r] = "srvCrtFill" /\ pki.srvCrt = None
          /\ pki.srvKey = r /\ pki'.srvKey = pki.srvKey /\ pki'.srvCrt = Begun
      BY <1>1, <2>3 DEF Opened, Step, Shapes, PkiFile, ServerAt
    <3>2. ServerFilesFit'
      BY <1>1, <1>3, <1>4, <1>7, <1>9, <3>1 DEF ServerFilesFit, PKIStep
    <3>3. \A q \in Request : ServerAt(q)'
      BY <1>1, <1>3, <1>5, <3>1 DEF ServerAt, MakingServer, MakingCRL
    <3> QED
      BY <1>2, <3>2, <3>3 DEF ServerInv
  <2> QED
    BY <1>9, <2>1, <2>2, <2>3 DEF OpenFile
<1>10. CASE FillFile(r)
  <2>1. CASE Filled("caKey", r, r, "caKeyFill", "caCrt") \/ Filled("caCrt", r, r, "caCrtFill", "srv")
    <3>1. pki'.srvCrt = pki.srvCrt /\ pki'.srvKey = pki.srvKey
      BY <2>1, FileFilled DEF PkiFile
    <3>2. at'[r] \in {"caCrt", "srv"}
      BY <2>1 DEF Filled, Step, Shapes
    <3>3. ServerFilesFit'
      BY <1>1, <1>7, <1>10, <3>1 DEF ServerFilesFit, PKIStep
    <3>4. \A q \in Request : ServerAt(q)'
      BY <1>1, <3>1, <3>2 DEF ServerAt, MakingCRL
    <3> QED
      BY <1>2, <3>3, <3>4 DEF ServerInv
  <2>2. CASE Filled("srvKey", r, r, "srvKeyFill", "srvCrt")
    <3>1. at[r] = "srvKeyFill" /\ at'[r] = "srvCrt" /\ pki.srvCrt = None /\ pki.srvKey = Begun
      BY <1>1, <2>2 DEF Filled, Step, Shapes, ServerAt
    <3>2. pki'.srvKey = r /\ pki'.srvCrt = pki.srvCrt
      BY <2>2, <3>1, FileFilled DEF PkiFile
    <3>3. ServerFilesFit'
      BY <1>1, <1>3, <1>7, <1>10, <3>1, <3>2 DEF ServerFilesFit, PKIStep
    <3>4. \A q \in Request : ServerAt(q)'
      BY <1>1, <1>5, <3>1, <3>2 DEF ServerAt, MakingServer, MakingCRL
    <3> QED
      BY <1>2, <3>3, <3>4 DEF ServerInv
  <2>3. CASE Filled("srvCrt", r, [ca |-> signer[r], key |-> r], "srvCrtFill", "crlRead")
    <3>1. /\ at[r] = "srvCrtFill" /\ at'[r] = "crlRead"
          /\ pki.srvCrt = Begun /\ pki.srvKey = r
      BY <1>1, <2>3 DEF Filled, Step, Shapes, ServerAt
    <3>2. pki'.srvKey = r /\ pki'.srvCrt = [ca |-> signer[r], key |-> r]
      BY <2>3, <3>1, FileFilled DEF PkiFile
    <3>3. signer[r] \in Key
      BY <3>1 DEF DataFit, MakingServer
    <3>4. Readable(pki'.srvCrt) /\ pki'.srvCrt.key = r
      BY <3>2, <3>3, Unreadables DEF ServerCert, Key
    <3>5. pki'.srvCrt # None
      BY <1>3, <3>4
    <3>6. ServerFilesFit'
      BY <1>4, <3>2, <3>4, <3>5 DEF ServerFilesFit
    <3>7. \A q \in Request : ServerAt(q)'
      BY <1>1, <1>5, <3>1, <3>2, <3>5 DEF ServerAt, MakingServer, MakingCRL
    <3> QED
      BY <1>2, <3>6, <3>7 DEF ServerInv
  <2> QED
    BY <1>10, <2>1, <2>2, <2>3 DEF FillFile
<1>11. CASE WriteCRL(r)
  <2>1. /\ Filled("crl", r, [ca |-> signer[r], out |-> rows[r]], "crlFill", AfterCRL(r))
        /\ at[r] = "crlFill" /\ at'[r] \in {"commit", "insert", "done"}
        /\ at'[r] = "commit" => kind[r] = "oServer"
    BY <1>11 DEF WriteCRL, Filled, Step, Shapes, AfterCRL
  <2>2. pki'.srvCrt = pki.srvCrt /\ pki'.srvKey = pki.srvKey
    BY <2>1, FileFilled DEF PkiFile
  <2>3. ServerFilesFit'
    BY <1>1, <1>7, <1>11, <2>2 DEF ServerFilesFit, PKIStep
  <2>4. \A q \in Request : ServerAt(q)'
    BY <1>1, <2>1, <2>2 DEF ServerAt, MakingCRL
  <2> QED
    BY <1>2, <2>3, <2>4 DEF ServerInv
<1> QED
  BY <1>6, <1>8, <1>9, <1>10, <1>11 DEF PKIStep

(* The other handlers and all that comes or goes leave both as they are.   *)
LEMMA PkiIdle ==
  ASSUME AuthorityInv, ServerInv, kind' = kind, UNCHANGED <<ovpnSet, client, pkiVars>>,
         \A r \in Request : at'[r] = at[r] \/ at'[r] \notin Making \cup {"commit"}
  PROVE  AuthorityInv' /\ ServerInv'
<1>1. Clients' = Clients
  BY DEF Clients
<1>2. AuthorityInv'
  BY <1>1 DEF AuthorityInv, AuthorityFits, AuthorityAt, Crosses, Making, MakingCA, MakingServer,
         MakingCRL, Signing, pkiVars
<1>3. ServerInv'
  BY DEF ServerInv, ServerFilesFit, ServerAt, Crosses, Making, MakingServer, MakingCRL, pkiVars
<1> QED
  BY <1>2, <1>3

LEMMA InitPki == Init => AuthorityInv /\ ServerInv
<1> SUFFICES ASSUME Init PROVE AuthorityInv /\ ServerInv
  OBVIOUS
<1>1. PICK s \in Scenario :
        /\ CallInit(s) /\ OpenVPNInit(s) /\ WireGuardInit(s) /\ SitesInit(s)
  BY DEF Init
<1>2. \A r \in Request : at[r] = "new"
  BY <1>1 DEF CallInit
<1>3. \A c \in Client : client[c] # None => s.setUp /\ client[c].ca = Old
  BY <1>1, OpenVPNAssumption DEF OpenVPNInit
<1>4. s.setUp \in BOOLEAN /\ ovpnSet = s.setUp
  BY <1>1, VpnCallsAssumption DEF OpenVPNInit
<1>5. CASE s.setUp
  <2>1. pki = SetUpFiles(Old)
    BY <1>1, <1>5 DEF OpenVPNInit
  <2>2. Readable(Old) /\ Readable(pki.srvCrt) /\ pki.srvCrt # None
    BY <2>1, Unreadables DEF Readable, Unreadable, Key, SetUpFiles, ServerCert
  <2> QED
    BY <1>2, <1>3, <2>1, <2>2 DEF AuthorityInv, AuthorityFits, AuthorityAt, ServerInv,
       ServerFilesFit, ServerAt, SetUpFiles, Clients, Signing, MakingCA, MakingServer, MakingCRL
<1>6. CASE ~s.setUp
  <2>1. pki = [f \in PkiFile |-> None]
    BY <1>1, <1>6 DEF OpenVPNInit
  <2>2. pki.caKey = None /\ pki.caCrt = None /\ pki.srvKey = None /\ pki.srvCrt = None
        /\ pki.crl = None /\ ~Readable(None)
    BY <2>1 DEF PkiFile, Readable, Unreadable
  <2> QED
    BY <1>2, <1>3, <1>4, <1>6, <2>2 DEF AuthorityInv, AuthorityFits, AuthorityAt, ServerInv,
       ServerFilesFit, ServerAt, Clients, Signing, MakingCA, MakingServer, MakingCRL
<1> QED
  BY <1>4, <1>5, <1>6

LEMMA NextPki ==
  ASSUME Typed, AuthorityInv, ServerInv, [Next]_vars
  PROVE  AuthorityInv' /\ ServerInv'
<1>1. DOMAIN at = Request
  BY DEF Typed, Shapes
<1>2. ASSUME UNCHANGED <<ovpnVars, kind>>,
             \A r \in Request : at'[r] \in {at[r], "start", "failed"}
      PROVE  AuthorityInv' /\ ServerInv'
  BY <1>2, PkiIdle DEF ovpnVars, Making, MakingCA, MakingServer, MakingCRL
<1>3. ASSUME NEW r \in Request, Goes(r) PROVE AuthorityInv' /\ ServerInv'
  BY <1>1, <1>2, <1>3 DEF Goes, Begin, Fail, Step
<1>4. ASSUME Breaks PROVE AuthorityInv' /\ ServerInv'
  BY <1>2, <1>4 DEF Breaks, Crash, NoLocals
<1>5. CASE UNCHANGED vars
  BY <1>2, <1>5 DEF vars, callVars
<1>6. ASSUME NEW r \in Request, VpnStep(r) PROVE AuthorityInv' /\ ServerInv'
  <2>1. Touches(r) /\ Typed'
    BY <1>6, StepTouches, StepTyped
  <2>2. kind' = kind /\ \A q \in Request \ {r} : at'[q] = at[q] /\ signer'[q] = signer[q]
    BY <2>1 DEF Touches
  <2>3. /\ Shapes /\ DataFit(r) /\ StepFits(r) /\ OpenVPNType /\ Shapes' /\ OpenVPNType'
    BY <2>1 DEF Typed, TypeOK, DataFits, StepsFit
  <2>4. CASE OpenVPNStep(r)
    BY <2>2, <2>3, <2>4, AuthorityOn, ServerFilesOn
  <2>5. CASE UNCHANGED ovpnVars /\ (WireGuardStep(r) \/ SitesStep(r))
    <3>1. Vpn(r) # "ovpn" /\ StepFits(r)'
      BY <2>1, <2>5, WGKind, SitesKind DEF Typed, StepsFit
    <3>2. at'[r] \notin Making \cup {"commit"}
      BY <2>2, <3>1 DEF StepFits, Vpn, Making, MakingCA, MakingServer, MakingCRL
    <3> QED
      BY <2>2, <2>5, <3>2, PkiIdle DEF ovpnVars
  <2> QED
    BY <1>6, <2>4, <2>5 DEF VpnStep
<1> QED
  BY <1>3, <1>4, <1>5, <1>6, NextIs

(* The key of the server. *)
Serving == {"wFwRead", "wFw", "wReload", "wUp"}

(* Who is about to write a key found none, or has the one that is there. *)
KeyAt(r) ==
  /\ at[r] = "wNet" => who[r] = IF wgKey = None THEN r ELSE wgKey
  /\ at[r] = "wNet" /\ wgKey = None => ~Meets(r)
  /\ at[r] \in Serving => who[r] = wgKey

KeyInv ==
  \/ wgMet # {}
  \/ /\ \A k \in wgTold : k = wgKey /\ k # None
     /\ \A r \in Request : KeyAt(r)

(* A key is written where there is none, and one is told that is in use.   *)
LEMMA KeyOn ==
  ASSUME NEW r \in Request, WireGuardStep(r), Shapes, StepFits(r), DataFit(r),
         None \notin Key, wgKey \in Key \cup {None}, wgMet' = {},
         KeyAt(r), \A k \in wgTold : k = wgKey /\ k # None
  PROVE  /\ at'[r] = "wNet" => who'[r] = IF wgKey' = None THEN r ELSE wgKey'
         /\ at'[r] = "wNet" /\ wgKey' = None => ~Meets(r)
         /\ at'[r] \in Serving => who'[r] = wgKey'
         /\ \A k \in wgTold' : k = wgKey' /\ k # None
         /\ wgKey' = wgKey \/ (wgKey = None /\ at[r] = "wNet" /\ who[r] = r)
         /\ wgMet = {}
<1> USE DEF Shapes, Step, NoLocals, Remember, Serving, KeyAt, wgVars, OnlyLocals, Others
<1>1. CASE WGReadServer(r)
  BY <1>1 DEF WGReadServer
<1>2. CASE WGServerNetwork(r)
  BY <1>2 DEF WGServerNetwork, StepFits, DataFit, Key
<1>3. CASE WGReadFirewall(r)
  BY <1>3 DEF WGReadFirewall
<1>4. CASE WGServerFirewall(r)
  BY <1>4 DEF WGServerFirewall
<1>5. CASE WGServerReload(r)
  BY <1>5 DEF WGServerReload
<1>6. CASE WGServerUp(r)
  BY <1>6 DEF WGServerUp, StepFits, DataFit
<1>7. CASE WGAccessRead(r)
  BY <1>7 DEF WGAccessRead
<1>8. CASE WGAccessCommit(r)
  BY <1>8 DEF WGAccessCommit
<1>9. CASE WGPeerCreate(r)
  BY <1>9 DEF WGPeerCreate
<1>10. CASE WGPeerUpdate(r)
  BY <1>10 DEF WGPeerUpdate
<1>11. CASE WGPeerRuleSet(r)
  BY <1>11 DEF WGPeerRuleSet
<1>12. CASE WGPeerDelete(r)
  BY <1>12 DEF WGPeerDelete
<1>13. CASE ReadPeerSections(r)
  BY <1>13 DEF ReadPeerSections
<1>14. CASE ReadPeers(r)
  BY <1>14 DEF ReadPeers
<1>15. CASE WritePeers(r)
  BY <1>15 DEF WritePeers
<1>16. CASE PeersUp(r)
  BY <1>16 DEF PeersUp
<1>17. CASE ReadPeerRules(r)
  BY <1>17 DEF ReadPeerRules
<1>18. CASE ReadRuleSections(r)
  BY <1>18 DEF ReadRuleSections
<1>19. CASE WritePeerRules(r)
  BY <1>19 DEF WritePeerRules
<1>20. CASE WGReload(r)
  BY <1>20 DEF WGReload
<1> QED
  BY <1>1, <1>2, <1>3, <1>4, <1>5, <1>6, <1>7, <1>8, <1>9, <1>10, <1>11, <1>12,
     <1>13, <1>14, <1>15, <1>16, <1>17, <1>18, <1>19, <1>20 DEF WireGuardStep

LEMMA NextKey ==
  ASSUME Typed, KeyInv, [Next]_vars
  PROVE  KeyInv'
<1>1. DOMAIN at = Request
  BY DEF Typed, Shapes
<1>2. ASSUME UNCHANGED <<wgVars, who>>, \A r \in Request : at'[r] \in {at[r], "start", "failed"}
      PROVE  KeyInv'
  BY <1>2 DEF KeyInv, KeyAt, Meets, Serving, wgVars
<1>3. ASSUME NEW r \in Request, Goes(r) PROVE KeyInv'
  BY <1>1, <1>2, <1>3 DEF Goes, Begin, Fail, Step
<1>4. ASSUME Breaks PROVE KeyInv'
  BY <1>2, <1>4 DEF Breaks, Crash, NoLocals
<1>5. CASE UNCHANGED vars
  BY <1>2, <1>5 DEF vars, callVars
<1>6. ASSUME NEW r \in Request, VpnStep(r), wgMet' = {} PROVE KeyInv'
  <2>1. Touches(r) /\ Typed'
    BY <1>6, StepTouches, StepTyped
  <2>2. kind' = kind /\ \A q \in Request \ {r} : at'[q] = at[q] /\ who'[q] = who[q]
    BY <2>1 DEF Touches
  <2>3. /\ Shapes /\ DataFit(r) /\ StepFits(r) /\ None \notin Key /\ wgKey \in Key \cup {None}
    BY VpnCallsAssumption DEF Typed, TypeOK, DataFits, StepsFit, Key, WireGuardType
  <2>4. CASE WireGuardStep(r)
    <3>1. wgMet = {}
      BY <1>6, <2>4 DEF WireGuardStep, wgVars, OnlyLocals, Others, WGReadServer, WGServerNetwork,
           WGReadFirewall, WGServerFirewall, WGServerReload, WGServerUp, WGAccessRead,
           WGAccessCommit, WGPeerCreate, WGPeerUpdate, WGPeerRuleSet, WGPeerDelete,
           ReadPeerSections, ReadPeers, WritePeers, PeersUp, ReadPeerRules, ReadRuleSections,
           WritePeerRules, WGReload
    <3>2. (\A k \in wgTold : k = wgKey /\ k # None) /\ \A q \in Request : KeyAt(q)
      BY <3>1 DEF KeyInv
    <3>3. /\ at'[r] = "wNet" => who'[r] = IF wgKey' = None THEN r ELSE wgKey'
          /\ at'[r] = "wNet" /\ wgKey' = None => ~Meets(r)
          /\ at'[r] \in Serving => who'[r] = wgKey'
          /\ \A k \in wgTold' : k = wgKey' /\ k # None
          /\ wgKey' = wgKey \/ (wgKey = None /\ at[r] = "wNet" /\ who[r] = r)
      BY <1>6, <2>3, <2>4, <3>2, KeyOn
    <3>4. Meets(r)' <=> Meets(r)
      BY <2>2 DEF Meets
    <3>5. KeyAt(r)'
      BY <3>3, <3>4 DEF KeyAt
    <3>6. ASSUME NEW q \in Request \ {r} PROVE KeyAt(q)'
      <4>1. at[q] \in Serving => wgKey # None
        <5>1. at[q] \in Serving => who[q] \in Key
          BY DEF Typed, DataFits, DataFit, StepsFit, StepFits, Serving, Making, MakingCA,
                 MakingServer, MakingCRL
        <5> QED
          BY <2>3, <3>2, <5>1 DEF KeyAt
      <4>2. at[q] = "wNet" /\ wgKey = None => who[q] = q /\ ~(at[r] = "wNet" /\ who[r] = r)
        BY <3>2 DEF KeyAt, Meets
      <4>3. at'[q] = "wNet" /\ wgKey' = None => ~Meets(q)'
        <5> SUFFICES ASSUME at'[q] = "wNet", wgKey' = None, at'[r] = "wNet", who'[r] = r
                     PROVE  FALSE
          BY <2>2, <3>2, <3>3 DEF KeyAt, Meets
        <5>1. wgKey = None
          BY <2>3, <3>3 DEF Key
        <5> QED
          BY <2>2, <3>3, <4>2, <5>1 DEF Meets
      <4> QED
        BY <2>2, <3>2, <3>3, <4>1, <4>2, <4>3 DEF KeyAt, Serving
    <3> QED
      BY <3>3, <3>5, <3>6 DEF KeyInv
  <2>5. CASE UNCHANGED wgVars /\ (OpenVPNStep(r) \/ SitesStep(r))
    <3>1. Vpn(r) # "wg" /\ StepFits(r)'
      BY <2>1, <2>3, <2>5, OvpnKind, SitesKind DEF Typed, StepsFit
    <3>2. at'[r] \notin Serving \cup {"wNet"}
      BY <2>2, <3>1 DEF StepFits, Vpn, Serving, Making, MakingCA, MakingServer, MakingCRL
    <3> QED
      BY <2>2, <2>5, <3>2 DEF KeyInv, KeyAt, Meets, Serving, wgVars
  <2> QED
    BY <1>6, <2>4, <2>5 DEF VpnStep
<1>7. ASSUME wgMet' # {} PROVE KeyInv'
  BY <1>7 DEF KeyInv
<1> QED
  BY <1>3, <1>4, <1>5, <1>6, <1>7, NextIs

(* Whatever overlaps, fails or breaks off while certificates are made or   *)
(* the server is set up, keys and certificates fit each other, unless two  *)
(* requests made the very same ones at once (ensureOvpnPKI,                *)
(* handleWGServerSet).                                                     *)
THEOREM KeysAlwaysMatch == Spec => []KeysMatch
<1> DEFINE IInv == Typed /\ AuthorityInv /\ ServerInv /\ KeyInv
<1>1. Init => IInv
  <2> SUFFICES ASSUME Init PROVE IInv
    OBVIOUS
  <2>1. KeyInv
    BY DEF Init, CallInit, WireGuardInit, KeyInv, KeyAt, Serving
  <2> QED
    BY <2>1, InitTyped, InitPki
<1>2. IInv /\ [Next]_vars => IInv'
  BY NextTyped, NextPki, NextKey
<1>3. IInv => KeysMatch
  BY DEF KeysMatch, AuthorityInv, ServerInv, ServerFilesFit, ServerFits, KeyInv
<1> QED
  BY <1>1, <1>2, <1>3, PTL DEF Spec

----------------------------------------------------------------------------
(* Revoked certificates. *)

(* Whom a deletion is about is among the revoked, and a crl.pem about to   *)
(* be written has all that were confirmed and all who are about to be.     *)
RevokedAt(r) ==
  /\ kind[r] = "oDelete" /\ who[r] # None => who[r] \in revoked
  /\ at[r] \in MakingCRL /\ r \notin blind =>
       /\ told \subseteq rows[r]
       /\ \A q \in Request :
             kind[q] = "oDelete" /\ at[q] \in MakingCRL => who[q] \in rows[r]

RevokedInv ==
  /\ told \subseteq revoked
  /\ \A r \in Request : RevokedAt(r)
  /\ Readable(pki.crl) /\ crlBy \notin blind => told \subseteq pki.crl.out

(* The revoked remain, and a deletion enters its own client first. *)
LEMMA RevokedKept ==
  ASSUME NEW r \in Request, OpenVPNStep(r), ~PKIStep(r), Shapes
  PROVE  /\ revoked \subseteq revoked'
         /\ kind[r] = "oDelete" => who'[r] = who[r] \/ who'[r] \in revoked'
<1> USE DEF NoLocals, Shapes, Remember, crlVars, ovpnVars
<1>1. CASE ServerStart(r) \/ ServerCommit(r) \/ ServerReadFirewall(r) \/ ServerFirewall(r)
           \/ AccessRead(r) \/ AccessCommit(r) \/ NewClient(r)
  BY <1>1 DEF ServerStart, ServerCommit, ServerReadFirewall, ServerFirewall, AccessRead,
              AccessCommit, NewClient
<1>2. CASE InsertClient(r)
  BY <1>2 DEF InsertClient
<1>3. CASE UpdateClient(r) \/ SetClientRule(r) \/ Revoke(r) \/ DeleteClient(r)
  BY <1>3 DEF UpdateClient, SetClientRule, Revoke, DeleteClient, OtherClients
<1>4. CASE WriteUsers(r) \/ ReadClients(r) \/ ClearCCD(r) \/ WriteCCD(r)
           \/ ReadClientRules(r) \/ ReadClientSections(r) \/ WriteClientRules(r)
           \/ OpenVPNReload(r)
  BY <1>4 DEF WriteUsers, ReadClients, ClearCCD, WriteCCD, ReadClientRules,
              ReadClientSections, WriteClientRules, OpenVPNReload
<1> QED
  BY <1>1, <1>2, <1>3, <1>4 DEF OpenVPNStep

LEMMA RevokedOn ==
  ASSUME NEW r \in Request, OpenVPNStep(r), Shapes, Shapes', StepFits(r), DataFit(r), RevokedInv,
         kind' = kind, DataFits,
         \A q \in Request \ {r} : at'[q] = at[q] /\ who'[q] = who[q] /\ rows'[q] = rows[q]
  PROVE  RevokedInv'
<1>1. /\ told \subseteq revoked
      /\ \A q \in Request : RevokedAt(q)
      /\ Readable(pki.crl) /\ crlBy \notin blind => told \subseteq pki.crl.out
  BY DEF RevokedInv
<1>2. CASE ~PKIStep(r)
  <2>1. UNCHANGED <<pki, told, blind, crlBy>> /\ at'[r] \notin MakingCRL
    BY <1>2, OnlyPKI, RestSteps DEF pkiVars, Shapes
  <2>2. /\ revoked \subseteq revoked'
        /\ kind[r] = "oDelete" => who'[r] = who[r] \/ who'[r] \in revoked'
    BY <1>2, RevokedKept
  <2>3. RevokedAt(r)'
    BY <1>1, <2>1, <2>2 DEF RevokedAt
  <2>4. \A q \in Request \ {r} : RevokedAt(q)'
    BY <1>1, <2>1, <2>2 DEF RevokedAt
  <2> QED
    BY <1>1, <2>1, <2>2, <2>3, <2>4 DEF RevokedInv
<1>3. ASSUME PKIStep(r) PROVE revoked' = revoked /\ who' = who
  BY <1>3, PKIKeeps
<1>4. CASE LookForCA(r) \/ LookForServer(r) \/ FillFile(r)
  <2>1. UNCHANGED <<told, blind, crlBy, rows>> /\ at'[r] \notin MakingCRL /\ pki'.crl = pki.crl
    <3>1. CASE LookForCA(r)
      BY <3>1 DEF LookForCA, OtherPki, crlVars, NoLocals, Step, Shapes, MakingCRL
    <3>2. CASE LookForServer(r)
      BY <3>2 DEF LookForServer, OtherPki, crlVars, NoLocals, Step, Shapes, MakingCRL
    <3>3. CASE FillFile(r)
      <4>1. UNCHANGED <<told, blind, crlBy, rows>> /\ at'[r] \notin MakingCRL
        BY <3>3 DEF FillFile, Filled, OtherPki, crlVars, NoLocals, Step, Shapes, MakingCRL
      <4>2. pki'.crl = pki.crl
        BY <3>3, FileFilled DEF FillFile, PkiFile
      <4> QED
        BY <4>1, <4>2
    <3> QED
      BY <1>4, <3>1, <3>2, <3>3
  <2>2. \A q \in Request : RevokedAt(q)'
    BY <1>1, <1>3, <1>4, <2>1 DEF RevokedAt, PKIStep
  <2> QED
    BY <1>1, <1>3, <1>4, <2>1, <2>2 DEF RevokedInv, PKIStep
<1>5. CASE OpenFile(r)
  <2>1. /\ UNCHANGED <<told, blind, crlBy, rows>>
        /\ at'[r] \in MakingCRL => at[r] \in MakingCRL
    BY <1>5 DEF OpenFile, Opened, OtherPki, crlVars, NoLocals, Step, Shapes, MakingCRL
  <2>2. pki'.crl \in {pki.crl, Begun} /\ ~Readable(Begun)
    BY <1>5, FileOpened DEF OpenFile, PkiFile, Readable, Unreadable
  <2>3. \A q \in Request : RevokedAt(q)'
    BY <1>1, <1>3, <1>5, <2>1 DEF RevokedAt, PKIStep
  <2> QED
    BY <1>1, <1>3, <1>5, <2>1, <2>2, <2>3 DEF RevokedInv, PKIStep
<1>6. CASE ReadRevoked(r)
  <2>1. /\ UNCHANGED <<told, crlBy, pki>> /\ at'[r] \in {"crl", "failed"}
    BY <1>6 DEF ReadRevoked, Step, Shapes
  <2>2. PICK some \in SUBSET revoked :
          /\ rows' = Remember(rows, r, some)
          /\ blind' = blind \cup {q \in Request \ {r} : at[q] \in MakingCRL}
                            \cup (IF some = revoked THEN {} ELSE {r})
    BY <1>6 DEF ReadRevoked
  <2>3. rows'[r] = some /\ (r \notin blind' => some = revoked)
    BY <2>2 DEF Remember, Shapes
  <2>4. \A q \in Request \ {r} : at'[q] \in MakingCRL => q \in blind'
    BY <2>2
  <2>5. \A q \in Request : kind[q] = "oDelete" /\ at'[q] \in MakingCRL => who'[q] \in revoked
    <3>1. \A q \in Request : kind[q] = "oDelete" /\ who[q] # None => who[q] \in revoked
      BY <1>1 DEF RevokedAt
    <3>2. \A q \in Request :
            kind[q] = "oDelete" /\ at[q] \in {"delete", "crlRead"} \cup MakingCRL => who[q] # None
      BY OpenVPNAssumption DEF DataFits, DataFit
    <3>3. at[r] = "crlRead"
      BY <1>6 DEF ReadRevoked, Step
    <3> QED
      BY <1>3, <1>6, <2>1, <3>1, <3>2, <3>3 DEF PKIStep
  <2>6. \A q \in Request : RevokedAt(q)'
    BY <1>1, <1>3, <1>6, <2>1, <2>3, <2>4, <2>5 DEF RevokedAt, PKIStep
  <2>7. blind \subseteq blind'
    BY <2>2
  <2> QED
    BY <1>1, <1>3, <1>6, <2>1, <2>6, <2>7 DEF RevokedInv, PKIStep
<1>7. CASE WriteCRL(r)
  <2>1. /\ Filled("crl", r, [ca |-> signer[r], out |-> rows[r]], "crlFill", AfterCRL(r))
        /\ told' = told \cup (IF kind[r] = "oDelete" THEN {who[r]} ELSE {})
        /\ crlBy' = r /\ UNCHANGED <<blind, rows>>
        /\ at[r] \in MakingCRL /\ at'[r] \notin MakingCRL
    BY <1>7 DEF WriteCRL, Filled, Step, Shapes, AfterCRL, MakingCRL, NoLocals
  <2>2. pki'.crl \in {[ca |-> signer[r], out |-> rows[r]], Mixed} /\ ~Readable(Mixed)
    BY <2>1, FileFilled DEF PkiFile, Readable, Unreadable
  <2>3. r \notin blind => told' \subseteq rows[r]
    BY <1>1, <2>1 DEF RevokedAt
  <2>4. kind[r] = "oDelete" => who[r] \in revoked
    BY <1>1, <2>1, OpenVPNAssumption DEF RevokedAt, DataFit
  <2>5. ASSUME NEW q \in Request PROVE RevokedAt(q)'
    BY <1>1, <1>3, <1>7, <2>1 DEF RevokedAt, PKIStep
  <2> QED
    BY <1>1, <1>3, <1>7, <2>1, <2>2, <2>3, <2>4, <2>5 DEF RevokedInv, PKIStep
<1> QED
  BY <1>2, <1>4, <1>5, <1>6, <1>7 DEF PKIStep

LEMMA NextRevoked ==
  ASSUME Typed, RevokedInv, [Next]_vars
  PROVE  RevokedInv'
<1>1. DOMAIN at = Request
  BY DEF Typed, Shapes
<1>2. ASSUME UNCHANGED <<ovpnVars, kind, who, rows>>,
             \A r \in Request : at'[r] \in {at[r], "start", "failed"}
      PROVE  RevokedInv'
  BY <1>2 DEF RevokedInv, RevokedAt, MakingCRL, ovpnVars, crlVars, pkiVars
<1>3. ASSUME NEW r \in Request, Goes(r) PROVE RevokedInv'
  BY <1>1, <1>2, <1>3 DEF Goes, Begin, Fail, Step
<1>4. ASSUME Breaks PROVE RevokedInv'
  BY <1>2, <1>4 DEF Breaks, Crash, NoLocals
<1>5. CASE UNCHANGED vars
  BY <1>2, <1>5 DEF vars, callVars
<1>6. ASSUME NEW r \in Request, VpnStep(r) PROVE RevokedInv'
  <2>1. Touches(r) /\ Typed'
    BY <1>6, StepTouches, StepTyped
  <2>2. /\ kind' = kind
        /\ \A q \in Request \ {r} : at'[q] = at[q] /\ who'[q] = who[q] /\ rows'[q] = rows[q]
    BY <2>1 DEF Touches
  <2>4. CASE OpenVPNStep(r)
    BY <2>1, <2>2, <2>4, RevokedOn DEF Typed, DataFits, StepsFit
  <2>5. CASE UNCHANGED ovpnVars /\ (WireGuardStep(r) \/ SitesStep(r))
    <3>1. Vpn(r) # "ovpn" /\ StepFits(r)'
      BY <2>1, <2>5, WGKind, SitesKind DEF Typed, StepsFit
    <3>2. at'[r] \notin MakingCRL /\ kind[r] # "oDelete"
      BY <2>2, <3>1 DEF StepFits, Vpn, MakingCRL
    <3> QED
      BY <2>2, <2>5, <3>2 DEF RevokedInv, RevokedAt, ovpnVars, crlVars, pkiVars
  <2> QED
    BY <1>6, <2>4, <2>5 DEF VpnStep
<1> QED
  BY <1>3, <1>4, <1>5, <1>6, NextIs

(* A client that was deleted stays out, and one whose revocation was       *)
(* confirmed is in crl.pem from then on, whatever overlaps, fails or       *)
(* breaks off, unless that crl.pem is known to be signed from less         *)
(* (handleOvpnClientDelete, writeOvpnCRL).                                 *)
THEOREM DeletedAlwaysRevoked == Spec => []DeletedIsRevoked
<1> DEFINE IInv == Typed /\ RevokedInv
<1>1. Init => IInv
  <2> SUFFICES ASSUME Init PROVE IInv
    OBVIOUS
  <2>1. told = {} /\ \A r \in Request : at[r] = "new" /\ who[r] = None
    BY DEF Init, CallInit, OpenVPNInit
  <2>2. RevokedInv
    BY <2>1 DEF RevokedInv, RevokedAt, MakingCRL
  <2> QED
    BY <2>2, InitTyped
<1>2. IInv /\ [Next]_vars => IInv'
  BY NextTyped, NextRevoked
<1>3. IInv => DeletedIsRevoked
  BY DEF DeletedIsRevoked, RevokedInv, RevokedAt
<1> QED
  BY <1>1, <1>2, <1>3, PTL DEF Spec

----------------------------------------------------------------------------
(* The networks behind the sites. *)

LEMMA NextAlone ==
  ASSUME Typed, AloneInv, [Next]_vars
  PROVE  AloneInv'
<1>1. DOMAIN at = Request /\ alone \subseteq Request
  BY DEF Typed, Shapes, TypeOK
<1>2. ASSUME alone' \subseteq alone, kind' = kind,
             \A r \in Request : (Active(r)' => Active(r)) /\ (at'[r] = "new" => at[r] = "new")
      PROVE  AloneInv'
  BY <1>1, <1>2 DEF AloneInv, Vpn
<1>3. ASSUME NEW r \in Request, Goes(r) PROVE AloneInv'
  <2>1. CASE Begin(r)
    <3> DEFINE beside == {q \in Request : Active(q) /\ Vpn(q) = Vpn(r)}
    <3>1. /\ alone' = (alone \ beside) \cup (IF beside = {} THEN {r} ELSE {})
          /\ at[r] = "new" /\ at'[r] = "start" /\ kind' = kind
          /\ \A q \in Request \ {r} : at'[q] = at[q]
      BY <1>1, <2>1 DEF Begin, Step
    <3>2. r \notin alone
      BY <3>1 DEF AloneInv
    <3>3. \A q \in Request : Vpn(q)' = Vpn(q)
      BY <3>1 DEF Vpn
    <3>4. \A q \in Request \ {r} : Active(q)' <=> Active(q)
      BY <3>1 DEF Active
    <3>5. \A q \in Request \ {r} : q \in alone' =>
            q \in alone /\ (Active(q) => Vpn(q) # Vpn(r))
      BY <3>1
    <3>6. r \in alone' => \A q \in Request \ {r} : Active(q) => Vpn(q) # Vpn(r)
      BY <3>1, <3>2
    <3>7. ASSUME NEW q \in alone', q # r
          PROVE  /\ at'[q] # "new"
                 /\ Active(q)' => \A p \in Request \ {q} : Active(p)' => Vpn(p)' # Vpn(q)'
      <4> HIDE DEF beside
      <4>1. q \in Request /\ q \in alone
        BY <1>1, <3>5, <3>7, <3>1
      <4> QED
        BY <3>1, <3>3, <3>4, <3>5, <3>7, <4>1 DEF AloneInv
    <3>8. r \in alone' =>
            /\ at'[r] # "new"
            /\ \A p \in Request \ {r} : Active(p)' => Vpn(p)' # Vpn(r)'
      <4> HIDE DEF beside
      <4> QED
        BY <3>1, <3>3, <3>4, <3>6
    <3> HIDE DEF beside
    <3> QED
      BY <3>7, <3>8 DEF AloneInv
  <2>2. CASE Fail(r)
    BY <1>1, <1>2, <2>2 DEF Fail, NoLocals, Active, Over
  <2> QED
    BY <1>3, <2>1, <2>2 DEF Goes
<1>4. ASSUME Breaks PROVE AloneInv'
  BY <1>2, <1>4 DEF Breaks, Crash, NoLocals, Active, Over
<1>5. CASE UNCHANGED vars
  BY <1>2, <1>5 DEF vars, callVars, Active
<1>6. ASSUME NEW r \in Request, VpnStep(r) PROVE AloneInv'
  <2>1. Touches(r)
    BY <1>6, StepTouches
  <2> QED
    BY <1>2, <2>1 DEF Touches, Active
<1> QED
  BY <1>3, <1>4, <1>5, <1>6, NextIs

LEMMA EditsAloneBack ==
  ASSUME Typed, AloneInv, [Next]_vars, EditsAlone'
  PROVE  EditsAlone
<1>1. DOMAIN at = Request
  BY DEF Typed, Shapes
<1>2. SUFFICES ASSUME NEW q \in Request, kind[q] \in {"sCreate", "sUpdate"}, at[q] = "done"
               PROVE  q \in alone
  BY DEF EditsAlone
<1>3. ASSUME kind' = kind, at'[q] = at[q], q \in alone' => q \in alone PROVE q \in alone
  BY <1>2, <1>3 DEF EditsAlone
<1>4. ASSUME NEW r \in Request, Goes(r) PROVE q \in alone
  <2>1. CASE Begin(r)
    <3>1. r # q /\ kind' = kind
      BY <1>1, <1>2, <2>1 DEF Begin, Step
    <3>2. at'[q] = at[q] /\ (q \in alone' => q \in alone)
      BY <1>1, <2>1, <3>1 DEF Begin, Step
    <3> QED
      BY <1>3, <3>1, <3>2
  <2>2. CASE Fail(r)
    BY <1>1, <1>2, <1>3, <2>2 DEF Fail, NoLocals, Active, Over
  <2> QED
    BY <1>4, <2>1, <2>2 DEF Goes
<1>5. ASSUME Breaks PROVE q \in alone
  BY <1>1, <1>2, <1>3, <1>5 DEF Breaks, Crash, NoLocals, Active, Over
<1>6. CASE UNCHANGED vars
  BY <1>3, <1>6 DEF vars, callVars
<1>7. ASSUME NEW r \in Request, VpnStep(r) PROVE q \in alone
  <2>1. Touches(r)
    BY <1>7, StepTouches
  <2> QED
    BY <1>2, <1>3, <2>1 DEF Touches, Over
<1> QED
  BY <1>4, <1>5, <1>6, <1>7, NextIs

Apart ==
  \A s \in Site : \A t \in Site \ {s} :
    site[s] # None /\ site[t] # None => site[s].net # site[t].net

(* The network an edit is about to write is free. *)
Free(r) ==
  at[r] = "sRow" => \A t \in Site \ {who[r]} : site[t] # None => site[t].net # asks[r]

ApartInv ==
  EditsAlone => Apart /\ \A r \in alone : Free(r)

(* Only the last step of an edit adds a network. *)
LEMMA SitesChange ==
  ASSUME NEW r \in Request, SitesStep(r),
         Shapes
  PROVE  /\ WGSiteWrite(r) \/ Free(r)'
         /\ site' = site \/ WGSiteWrite(r)
             \/ \A t \in Site : site'[t] = site[t] \/ site'[t] = None
<1> USE DEF Shapes, Step, NoLocals, Remember, siteVars, OnlySiteLocals, Free
<1>1. CASE WGSLocalRead(r)
  BY <1>1 DEF WGSLocalRead
<1>2. CASE WGSLocalNetwork(r)
  BY <1>2 DEF WGSLocalNetwork
<1>3. CASE WGSReadFirewall(r)
  BY <1>3 DEF WGSReadFirewall
<1>4. CASE WGSLocalFirewall(r)
  BY <1>4 DEF WGSLocalFirewall
<1>5. CASE WGSLocalReload(r)
  BY <1>5 DEF WGSLocalReload
<1>6. CASE WGSLocalUp(r)
  BY <1>6 DEF WGSLocalUp
<1>7. CASE WGSValidate(r)
  BY <1>7 DEF WGSValidate, FreeNetwork, AllSites
<1>8. CASE WGSiteWrite(r)
  BY <1>8 DEF WGSiteWrite
<1>9. CASE WGSiteDelete(r)
  BY <1>9 DEF WGSiteDelete
<1>10. CASE ReadSiteSections(r)
  BY <1>10 DEF ReadSiteSections
<1>11. CASE ReadSites(r)
  BY <1>11 DEF ReadSites
<1>12. CASE WriteSites(r)
  BY <1>12 DEF WriteSites
<1>13. CASE SitesUp(r)
  BY <1>13 DEF SitesUp
<1> QED
  BY <1>1, <1>2, <1>3, <1>4, <1>5, <1>6, <1>7, <1>8, <1>9, <1>10, <1>11, <1>12,
     <1>13 DEF SitesStep

LEMMA WrittenApart ==
  ASSUME NEW r \in Request, WGSiteWrite(r), Shapes, who[r] \in Site, Apart, Free(r)
  PROVE  Apart'
<1>1. CASE site' = site
  BY <1>1 DEF Apart
<1>2. CASE site' # site
  <2>1. /\ at[r] = "sRow"
        /\ \A t \in Site \ {who[r]} : site'[t] = site[t]
        /\ \E ip \in Asked, on \in BOOLEAN :
             site'[who[r]] = [ip |-> ip, net |-> asks[r], on |-> on]
    BY <1>2, WrittenSite
  <2>2. site'[who[r]].net = asks[r]
    BY <2>1
  <2> QED
    BY <2>1, <2>2 DEF Apart, Free
<1> QED
  BY <1>1, <1>2

LEMMA NextApart ==
  ASSUME Typed, AloneInv, ApartInv, [Next]_vars
  PROVE  ApartInv'
<1>0. SUFFICES ASSUME EditsAlone' PROVE Apart' /\ \A r \in alone' : Free(r)'
  BY DEF ApartInv
<1>1. /\ EditsAlone /\ Apart /\ \A r \in alone : Free(r)
      /\ DOMAIN at = Request /\ alone \subseteq Request
  BY <1>0, EditsAloneBack DEF ApartInv, Typed, Shapes, TypeOK
<1>2. ASSUME UNCHANGED <<site, who, asks>>,
             \A r \in alone' : at'[r] = "sRow" => r \in alone /\ at[r] = "sRow"
      PROVE  Apart' /\ \A r \in alone' : Free(r)'
  BY <1>1, <1>2 DEF Apart, Free
<1>3. ASSUME NEW r \in Request, Goes(r) PROVE Apart' /\ \A q \in alone' : Free(q)'
  <2>1. UNCHANGED <<site, who, asks>>
    BY <1>3 DEF Goes, siteVars
  <2>2. \A q \in alone' : at'[q] = "sRow" => q \in alone /\ at[q] = "sRow"
    BY <1>1, <1>3 DEF Goes, Begin, Fail, NoLocals, Step
  <2> QED
    BY <1>2, <2>1, <2>2
<1>4. ASSUME Breaks PROVE Apart' /\ \A r \in alone' : Free(r)'
  BY <1>1, <1>2, <1>4 DEF Breaks, Crash, NoLocals, siteVars
<1>5. CASE UNCHANGED vars
  BY <1>2, <1>5 DEF vars, callVars, siteVars
<1>6. ASSUME NEW r \in Request, VpnStep(r) PROVE Apart' /\ \A q \in alone' : Free(q)'
  <2>1. Touches(r) /\ Typed'
    BY <1>6, StepTouches, StepTyped
  <2>2. /\ kind' = kind /\ alone' = alone /\ at[r] \notin Over \cup {"new"}
        /\ \A q \in Request \ {r} : at'[q] = at[q] /\ who'[q] = who[q] /\ asks'[q] = asks[q]
    BY <2>1 DEF Touches
  <2>3. CASE SitesStep(r)
    <3>1. /\ WGSiteWrite(r) \/ Free(r)'
          /\ site' = site \/ WGSiteWrite(r)
               \/ \A t \in Site : site'[t] = site[t] \/ site'[t] = None
      BY <2>3, SitesChange DEF Typed
    <3>2. CASE WGSiteWrite(r)
      <4>1. /\ at[r] = "sRow" /\ who[r] \in Site /\ kind[r] \in {"sCreate", "sUpdate"}
            /\ at'[r] # "sRow"
        BY <3>2 DEF WGSiteWrite, Typed, Shapes, DataFits, DataFit, Step
      <4>2. r \in alone \/ site' = site
        <5>1. site' # site => at'[r] = "done"
          BY <3>2, <1>1 DEF WGSiteWrite, Step
        <5> QED
          BY <1>0, <2>2, <4>1, <5>1 DEF EditsAlone
      <4>3. Apart'
        <5>1. CASE r \in alone
          BY <1>1, <3>2, <4>1, <5>1, WrittenApart DEF Typed
        <5>2. CASE site' = site
          BY <1>1, <5>2 DEF Apart
        <5> QED
          BY <4>2, <5>1, <5>2
      <4>4. ASSUME NEW q \in alone, at'[q] = "sRow" PROVE Free(q)'
        <5>1. q # r /\ q \in Request /\ at[q] = "sRow"
          BY <1>1, <2>2, <4>1, <4>4
        <5>2. Active(q) /\ Active(r) /\ Vpn(q) = "wgs" /\ Vpn(r) = "wgs"
          <6>1. kind[q] \in {"sCreate", "sUpdate"}
            BY <5>1 DEF Typed, StepsFit, StepFits, Making, MakingCA, MakingServer, MakingCRL
          <6> QED
            BY <2>2, <4>1, <5>1, <6>1 DEF Active, Over, Vpn
        <5> QED
          BY <5>1, <5>2 DEF AloneInv
      <4> QED
        BY <2>2, <4>3, <4>4 DEF Free
    <3>3. CASE ~WGSiteWrite(r)
      <4>1. \A t \in Site : site'[t] = site[t] \/ site'[t] = None
        BY <3>1, <3>3
      <4>2. Apart'
        BY <1>1, <4>1 DEF Apart
      <4>3. \A q \in alone : q # r => Free(q)'
        BY <1>1, <2>2, <4>1 DEF Free
      <4> QED
        BY <2>2, <3>1, <3>3, <4>2, <4>3
    <3> QED
      BY <3>2, <3>3
  <2>4. CASE UNCHANGED siteVars /\ (OpenVPNStep(r) \/ WireGuardStep(r))
    <3>1. Vpn(r) # "wgs" /\ StepFits(r)'
      BY <2>1, <2>4, OvpnKind, WGKind DEF Typed, StepsFit
    <3>2. at'[r] # "sRow"
      BY <2>2, <3>1 DEF StepFits, Vpn, Making, MakingCA, MakingServer, MakingCRL
    <3> QED
      BY <1>1, <2>2, <2>4, <3>2 DEF Apart, Free, siteVars
  <2> QED
    BY <1>6, <2>3, <2>4 DEF VpnStep
<1> QED
  BY <1>3, <1>4, <1>5, <1>6, NextIs

LEMMA InitAlone == Init => AloneInv
  BY DEF Init, CallInit, AloneInv

(* The networks behind the sites stay apart whatever edits fail or crash,  *)
(* as long as no two overlapped (validateWGSite).                          *)
THEOREM SitesStayApart == Spec => []SitesApart
<1> DEFINE IInv == Typed /\ AloneInv /\ ApartInv
<1>1. Init => IInv
  <2> SUFFICES ASSUME Init PROVE IInv
    OBVIOUS
  <2>1. PICK s \in Scenario : CallInit(s) /\ SitesInit(s)
    BY DEF Init
  <2>2. Apart
    BY <2>1, SitesAssumption DEF SitesInit, Apart
  <2>3. alone = {}
    BY <2>1 DEF CallInit
  <2> QED
    BY <2>2, <2>3, InitTyped, InitAlone DEF ApartInv
<1>2. IInv /\ [Next]_vars => IInv'
  BY NextTyped, NextAlone, NextApart
<1>3. IInv => SitesApart
  BY DEF SitesApart, ApartInv, Apart, EditsAlone, AllSites
<1> QED
  BY <1>1, <1>2, <1>3, PTL DEF Spec

----------------------------------------------------------------------------
(* What a quiet apply leaves. *)

(* Operators on the sections of a file. *)
LEMMA OfUnion ==
  ASSUME NEW file, NEW X, NEW type, \A s \in X : s[1] # type
  PROVE  Of(file \cup X, type) = Of(file, type)
  BY DEF Of

LEMMA Types3 ==
  ASSUME NEW v
  PROVE  /\ Mgmt(v)[1] = "mgmt" /\ Zone(v)[1] = "zone" /\ Full(v)[1] = "full"
         /\ \A w : w # v => Mgmt(w) # Mgmt(v)
         /\ \A w : Mgmt(w) # Zone(v) /\ Mgmt(w) # Full(v)
  BY DEF Mgmt, Zone, Full

LEMMA BatchIs ==
  ASSUME NEW file, NEW type, NEW owners, NEW new, \A s \in new : s[1] = type
  PROVE  /\ \A other : other # type =>
              Of(Batch(file, type, owners, new), other) = Of(file, other)
         /\ owners = Owners(file, type) => Of(Batch(file, type, owners, new), type) = new
         /\ type # "mgmt" =>
              \A v : Mgmt(v) \in Batch(file, type, owners, new) <=> Mgmt(v) \in file
<1>1. ASSUME NEW other, other # type
      PROVE  Of(Batch(file, type, owners, new), other) = Of(file, other)
  BY <1>1 DEF Of, Batch
<1>2. ASSUME owners = Owners(file, type)
      PROVE  Of(Batch(file, type, owners, new), type) = new
  <2>1. \A s \in file : s[1] = type => s[2] \in owners
    BY <1>2 DEF Owners, Of
  <2> QED
    BY <2>1 DEF Of, Batch
<1>3. ASSUME type # "mgmt", NEW v
      PROVE  Mgmt(v) \in Batch(file, type, owners, new) <=> Mgmt(v) \in file
  BY <1>3, Types3 DEF Batch
<1> QED
  BY <1>1, <1>2, <1>3

LEMMA ZoneInputIs ==
  ASSUME NEW file, NEW read, NEW v, NEW allow \in BOOLEAN
  PROVE  /\ \A type \in {"or", "vr"} : Of(ZoneInput(file, read, v, allow), type) = Of(file, type)
         /\ \A w : w # v => (Mgmt(w) \in ZoneInput(file, read, v, allow) <=> Mgmt(w) \in file)
         /\ (Mgmt(v) \in read <=> Mgmt(v) \in file) =>
              (Mgmt(v) \in ZoneInput(file, read, v, allow) <=> allow)
<1>1. ASSUME NEW type \in {"or", "vr"}
      PROVE  Of(ZoneInput(file, read, v, allow), type) = Of(file, type)
  BY Types3 DEF Of, ZoneInput
<1>2. ASSUME NEW w, w # v
      PROVE  Mgmt(w) \in ZoneInput(file, read, v, allow) <=> Mgmt(w) \in file
  BY <1>2, Types3 DEF ZoneInput
<1>3. ASSUME Mgmt(v) \in read <=> Mgmt(v) \in file
      PROVE  Mgmt(v) \in ZoneInput(file, read, v, allow) <=> allow
  BY <1>3, Types3 DEF ZoneInput
<1> QED
  BY <1>1, <1>2, <1>3

LEMMA UpIs ==
  ASSUME NEW iface, IfUp(iface)
  PROVE  /\ Of(netRun', iface) = Of(netFile, iface)
         /\ \A other : other # iface => Of(netRun', other) = Of(netRun, other)
  BY DEF IfUp, Of

(* What a step of one VPN leaves of the others: their rules, sections and  *)
(* management, and what the firewall loads is the file.                    *)
Keeps(type) == Of(fwFile', type) = Of(fwFile, type)
KeepsMgmt(v) == Mgmt(v) \in fwFile' <=> Mgmt(v) \in fwFile
KeepsNet(v) == Of(netFile', v) = Of(netFile, v) /\ Of(netRun', v) = Of(netRun, v)
Loads == fwRun' = fwRun \/ (fwRun' = fwFile /\ fwFile' = fwFile)

LEMMA ServerWrites ==
  ASSUME NEW read, NEW v, NEW allow \in BOOLEAN, NEW X, X \subseteq {Full(v)},
         fwFile' = ZoneInput(fwFile, read, v, allow) \cup X
  PROVE  /\ Keeps("or") /\ Keeps("vr")
         /\ \A w : w # v => KeepsMgmt(w)
         /\ (Mgmt(v) \in read <=> Mgmt(v) \in fwFile) => (Mgmt(v) \in fwFile' <=> allow)
<1> DEFINE zone == ZoneInput(fwFile, read, v, allow)
<1>1. \A s \in X : s = Full(v)
  OBVIOUS
<1>2. \A w : Mgmt(w) \in fwFile' <=> Mgmt(w) \in zone
  BY <1>1, Types3
<1>3. \A type \in {"or", "vr"} : \A s \in X : s[1] # type
  BY <1>1, Types3
<1>4. \A type \in {"or", "vr"} : Of(fwFile', type) = Of(zone, type)
  BY <1>3, OfUnion
<1>5. /\ \A type \in {"or", "vr"} : Of(zone, type) = Of(fwFile, type)
      /\ \A w : w # v => (Mgmt(w) \in zone <=> Mgmt(w) \in fwFile)
      /\ (Mgmt(v) \in read <=> Mgmt(v) \in fwFile) => (Mgmt(v) \in zone <=> allow)
  BY ZoneInputIs
<1> HIDE DEF zone
<1> QED
  BY <1>2, <1>4, <1>5 DEF Keeps, KeepsMgmt

LEMMA AccessWrites ==
  ASSUME NEW v, NEW X, X \subseteq {Full(v)}, fwFile' = (fwFile \ {Full(v)}) \cup X
  PROVE  Keeps("or") /\ Keeps("vr") /\ \A w : KeepsMgmt(w)
<1>1. \A s \in X \cup {Full(v)} : s = Full(v)
  OBVIOUS
<1>2. \A w : Mgmt(w) \in fwFile' <=> Mgmt(w) \in fwFile
  BY <1>1, Types3
<1>3. \A type \in {"or", "vr"} : \A s \in X \cup {Full(v)} : s[1] # type
  BY <1>1, Types3
<1>4. \A type \in {"or", "vr"} : Of(fwFile', type) = Of(fwFile, type)
  BY <1>3 DEF Of
<1> QED
  BY <1>2, <1>4 DEF Keeps, KeepsMgmt

LEMMA OvpnLeaves ==
  ASSUME NEW r \in Request, OpenVPNStep(r),
         Shapes, StepFits(r), DataFit(r)
  PROVE  Keeps("vr") /\ KeepsMgmt("wg") /\ KeepsMgmt("wgs") /\ Loads
         /\ KeepsNet("wg") /\ KeepsNet("wgs")
<1> USE DEF Loads, Keeps, KeepsMgmt, KeepsNet, Step
<1> USE DEF configVars
<1>1. CASE LookForCA(r)
  BY <1>1 DEF LookForCA, OtherPki
<1>2. CASE LookForServer(r)
  BY <1>2 DEF LookForServer, OtherPki
<1>3. CASE OpenFile(r)
  BY <1>3 DEF OpenFile, Opened, OtherPki
<1>4. CASE FillFile(r)
  BY <1>4 DEF FillFile, Filled, OtherPki
<1>5. CASE ReadRevoked(r)
  BY <1>5 DEF ReadRevoked
<1>6. CASE WriteCRL(r)
  BY <1>6 DEF WriteCRL, Filled
<1>7. CASE ServerStart(r)
  BY <1>7 DEF ServerStart
<1>8. CASE ServerCommit(r)
  BY <1>8 DEF ServerCommit
<1>9. CASE ServerReadFirewall(r)
  BY <1>9 DEF ServerReadFirewall
<1>10. CASE ServerFirewall(r)
  <2>1. /\ fwFile' = ZoneInput(fwFile, rows[r], "ovpn", "mgmt" \in seen[r])
                       \cup ServerForwards(rows[r])
        /\ fwRun' = fwRun /\ netFile' = netFile /\ netRun' = netRun
    BY <1>10 DEF ServerFirewall
  <2>2. Keeps("or") /\ Keeps("vr") /\ \A w : w # "ovpn" => KeepsMgmt(w)
    <3> DEFINE allow == "mgmt" \in seen[r]
    <3> DEFINE X == ServerForwards(rows[r])
    <3>1. allow \in BOOLEAN /\ X \subseteq {Full("ovpn")}
      BY DEF ServerForwards
    <3>2. fwFile' = ZoneInput(fwFile, rows[r], "ovpn", allow) \cup X
      BY <2>1
    <3> HIDE DEF Keeps, KeepsMgmt, allow, X
    <3> QED
      BY <3>1, <3>2, ServerWrites
  <2> QED
    BY <2>1, <2>2
<1>11. CASE AccessRead(r)
  BY <1>11 DEF AccessRead
<1>12. CASE AccessCommit(r)
  <2>1. /\ fwFile' = (fwFile \ {Full("ovpn")}) \cup rows[r] /\ rows[r] \subseteq {Full("ovpn")}
        /\ fwRun' = fwRun /\ netFile' = netFile /\ netRun' = netRun
    BY <1>12 DEF AccessCommit, DataFit
  <2>2. Keeps("or") /\ Keeps("vr") /\ \A w : KeepsMgmt(w)
    <3> HIDE DEF Keeps, KeepsMgmt
    <3> QED
      BY <2>1, AccessWrites
  <2> QED
    BY <2>1, <2>2
<1>13. CASE NewClient(r)
  BY <1>13 DEF NewClient
<1>14. CASE InsertClient(r)
  BY <1>14 DEF InsertClient
<1>15. CASE UpdateClient(r)
  BY <1>15 DEF UpdateClient, OtherClients
<1>16. CASE SetClientRule(r)
  BY <1>16 DEF SetClientRule, OtherClients
<1>17. CASE Revoke(r)
  BY <1>17 DEF Revoke
<1>18. CASE DeleteClient(r)
  BY <1>18 DEF DeleteClient, OtherClients
<1>19. CASE WriteUsers(r)
  BY <1>19 DEF WriteUsers
<1>20. CASE ReadClients(r)
  BY <1>20 DEF ReadClients
<1>21. CASE ClearCCD(r)
  BY <1>21 DEF ClearCCD
<1>22. CASE WriteCCD(r)
  BY <1>22 DEF WriteCCD
<1>23. CASE ReadClientRules(r)
  BY <1>23 DEF ReadClientRules
<1>24. CASE ReadClientSections(r)
  BY <1>24 DEF ReadClientSections
<1>25. CASE WriteClientRules(r)
  <2>1. /\ fwFile' = Batch(fwFile, "or", seen[r], rows[r]) /\ \A s \in rows[r] : s[1] = "or"
        /\ fwRun' = fwRun /\ netFile' = netFile /\ netRun' = netRun
    BY <1>25 DEF WriteClientRules, DataFit
  <2>2. /\ \A other : other # "or" => Of(fwFile', other) = Of(fwFile, other)
        /\ \A v : Mgmt(v) \in fwFile' <=> Mgmt(v) \in fwFile
    BY <2>1, BatchIs
  <2> QED
    BY <2>1, <2>2
<1>26. CASE OpenVPNReload(r)
  BY <1>26 DEF OpenVPNReload, LoadFirewall
<1> QED
  BY <1>1, <1>2, <1>3, <1>4, <1>5, <1>6, <1>7, <1>8, <1>9, <1>10, <1>11, <1>12,
     <1>13, <1>14, <1>15, <1>16, <1>17, <1>18, <1>19, <1>20, <1>21, <1>22, <1>23,
     <1>24, <1>25, <1>26 DEF OpenVPNStep, PKIStep

LEMMA WGLeaves ==
  ASSUME NEW r \in Request, WireGuardStep(r),
         Shapes, StepFits(r), DataFit(r)
  PROVE  Keeps("or") /\ KeepsMgmt("ovpn") /\ KeepsMgmt("wgs") /\ Loads
         /\ KeepsNet("wgs")
<1> USE DEF Loads, Keeps, KeepsMgmt, KeepsNet, Step
<1> USE DEF configVars, OnlyLocals, Others
<1>1. CASE WGReadServer(r)
  BY <1>1 DEF WGReadServer
<1>2. CASE WGServerNetwork(r)
  BY <1>2 DEF WGServerNetwork
<1>3. CASE WGReadFirewall(r)
  BY <1>3 DEF WGReadFirewall
<1>4. CASE WGServerFirewall(r)
  <2>1. /\ fwFile' = ZoneInput(fwFile, rows[r], "wg", "mgmt" \in seen[r]) \cup {Full("wg")}
        /\ fwRun' = fwRun /\ netFile' = netFile /\ netRun' = netRun
    BY <1>4 DEF WGServerFirewall
  <2>2. Keeps("or") /\ Keeps("vr") /\ \A w : w # "wg" => KeepsMgmt(w)
    <3> DEFINE allow == "mgmt" \in seen[r]
    <3>1. allow \in BOOLEAN /\ {Full("wg")} \subseteq {Full("wg")}
      OBVIOUS
    <3>2. fwFile' = ZoneInput(fwFile, rows[r], "wg", allow) \cup {Full("wg")}
      BY <2>1
    <3> HIDE DEF Keeps, KeepsMgmt, allow
    <3> QED
      BY <3>1, <3>2, ServerWrites
  <2> QED
    BY <2>1, <2>2
<1>5. CASE WGServerReload(r)
  BY <1>5 DEF WGServerReload, LoadFirewall
<1>6. CASE WGServerUp(r)
  <2>1. IfUp("wg") /\ fwFile' = fwFile /\ fwRun' = fwRun /\ netFile' = netFile
    BY <1>6 DEF WGServerUp
  <2>2. \A other : other # "wg" => Of(netRun', other) = Of(netRun, other)
    BY <2>1, UpIs
  <2> QED
    BY <2>1, <2>2
<1>7. CASE WGAccessRead(r)
  BY <1>7 DEF WGAccessRead
<1>8. CASE WGAccessCommit(r)
  <2>1. /\ fwFile' = (fwFile \ {Full("wg")}) \cup rows[r] /\ rows[r] \subseteq {Full("wg")}
        /\ fwRun' = fwRun /\ netFile' = netFile /\ netRun' = netRun
    BY <1>8 DEF WGAccessCommit, DataFit
  <2>2. Keeps("or") /\ Keeps("vr") /\ \A w : KeepsMgmt(w)
    <3> HIDE DEF Keeps, KeepsMgmt
    <3> QED
      BY <2>1, AccessWrites
  <2> QED
    BY <2>1, <2>2
<1>9. CASE WGPeerCreate(r)
  BY <1>9 DEF WGPeerCreate
<1>10. CASE WGPeerUpdate(r)
  BY <1>10 DEF WGPeerUpdate
<1>11. CASE WGPeerRuleSet(r)
  BY <1>11 DEF WGPeerRuleSet
<1>12. CASE WGPeerDelete(r)
  BY <1>12 DEF WGPeerDelete
<1>13. CASE ReadPeerSections(r)
  BY <1>13 DEF ReadPeerSections
<1>14. CASE ReadPeers(r)
  BY <1>14 DEF ReadPeers
<1>15. CASE WritePeers(r)
  <2>1. /\ netFile' = Batch(netFile, "wg", seen[r], rows[r]) /\ \A s \in rows[r] : s[1] = "wg"
        /\ fwFile' = fwFile /\ fwRun' = fwRun /\ netRun' = netRun
    BY <1>15 DEF WritePeers, DataFit
  <2>2. /\ \A other : other # "wg" => Of(netFile', other) = Of(netFile, other)
        /\ \A v : Mgmt(v) \in netFile' <=> Mgmt(v) \in netFile
    BY <2>1, BatchIs
  <2> QED
    BY <2>1, <2>2
<1>16. CASE PeersUp(r)
  <2>1. IfUp("wg") /\ fwFile' = fwFile /\ fwRun' = fwRun /\ netFile' = netFile
    BY <1>16 DEF PeersUp
  <2>2. \A other : other # "wg" => Of(netRun', other) = Of(netRun, other)
    BY <2>1, UpIs
  <2> QED
    BY <2>1, <2>2
<1>17. CASE ReadPeerRules(r)
  BY <1>17 DEF ReadPeerRules
<1>18. CASE ReadRuleSections(r)
  BY <1>18 DEF ReadRuleSections
<1>19. CASE WritePeerRules(r)
  <2>1. /\ fwFile' = Batch(fwFile, "vr", seen[r], rows[r]) /\ \A s \in rows[r] : s[1] = "vr"
        /\ fwRun' = fwRun /\ netFile' = netFile /\ netRun' = netRun
    BY <1>19 DEF WritePeerRules, DataFit
  <2>2. /\ \A other : other # "vr" => Of(fwFile', other) = Of(fwFile, other)
        /\ \A v : Mgmt(v) \in fwFile' <=> Mgmt(v) \in fwFile
    BY <2>1, BatchIs
  <2> QED
    BY <2>1, <2>2
<1>20. CASE WGReload(r)
  BY <1>20 DEF WGReload, LoadFirewall
<1> QED
  BY <1>1, <1>2, <1>3, <1>4, <1>5, <1>6, <1>7, <1>8, <1>9, <1>10, <1>11, <1>12,
     <1>13, <1>14, <1>15, <1>16, <1>17, <1>18, <1>19, <1>20 DEF WireGuardStep

LEMMA SitesLeave ==
  ASSUME NEW r \in Request, SitesStep(r),
         Shapes, StepFits(r), DataFit(r)
  PROVE  Keeps("or") /\ Keeps("vr") /\ KeepsMgmt("ovpn") /\ KeepsMgmt("wg") /\ Loads
         /\ KeepsNet("wg")
<1> USE DEF Loads, Keeps, KeepsMgmt, KeepsNet, Step
<1> USE DEF configVars, OnlySiteLocals
<1>1. CASE WGSLocalRead(r)
  BY <1>1 DEF WGSLocalRead
<1>2. CASE WGSLocalNetwork(r)
  BY <1>2 DEF WGSLocalNetwork
<1>3. CASE WGSReadFirewall(r)
  BY <1>3 DEF WGSReadFirewall
<1>4. CASE WGSLocalFirewall(r)
  <2>1. /\ fwFile' = ZoneInput(fwFile, rows[r], "wgs", "mgmt" \in seen[r]) \cup {Full("wgs")}
        /\ fwRun' = fwRun /\ netFile' = netFile /\ netRun' = netRun
    BY <1>4 DEF WGSLocalFirewall
  <2>2. Keeps("or") /\ Keeps("vr") /\ \A w : w # "wgs" => KeepsMgmt(w)
    <3> DEFINE allow == "mgmt" \in seen[r]
    <3>1. allow \in BOOLEAN /\ {Full("wgs")} \subseteq {Full("wgs")}
      OBVIOUS
    <3>2. fwFile' = ZoneInput(fwFile, rows[r], "wgs", allow) \cup {Full("wgs")}
      BY <2>1
    <3> HIDE DEF Keeps, KeepsMgmt, allow
    <3> QED
      BY <3>1, <3>2, ServerWrites
  <2> QED
    BY <2>1, <2>2
<1>5. CASE WGSLocalReload(r)
  BY <1>5 DEF WGSLocalReload, LoadFirewall
<1>6. CASE WGSLocalUp(r)
  <2>1. /\ IfUp("wgs") \/ netRun' = netRun
        /\ fwFile' = fwFile /\ fwRun' = fwRun /\ netFile' = netFile
    BY <1>6 DEF WGSLocalUp
  <2>2. \A other : other # "wgs" => Of(netRun', other) = Of(netRun, other)
    BY <2>1, UpIs
  <2> QED
    BY <2>1, <2>2
<1>7. CASE WGSValidate(r)
  BY <1>7 DEF WGSValidate
<1>8. CASE WGSiteWrite(r)
  BY <1>8 DEF WGSiteWrite
<1>9. CASE WGSiteDelete(r)
  BY <1>9 DEF WGSiteDelete
<1>10. CASE ReadSiteSections(r)
  BY <1>10 DEF ReadSiteSections
<1>11. CASE ReadSites(r)
  BY <1>11 DEF ReadSites
<1>12. CASE WriteSites(r)
  <2>1. /\ netFile' = Batch(netFile, "wgs", seen[r], rows[r]) /\ \A s \in rows[r] : s[1] = "wgs"
        /\ fwFile' = fwFile /\ fwRun' = fwRun /\ netRun' = netRun
    BY <1>12 DEF WriteSites, DataFit
  <2>2. /\ \A other : other # "wgs" => Of(netFile', other) = Of(netFile, other)
        /\ \A v : Mgmt(v) \in netFile' <=> Mgmt(v) \in netFile
    BY <2>1, BatchIs
  <2> QED
    BY <2>1, <2>2
<1>13. CASE SitesUp(r)
  <2>1. IfUp("wgs") /\ fwFile' = fwFile /\ fwRun' = fwRun /\ netFile' = netFile
    BY <1>13 DEF SitesUp
  <2>2. \A other : other # "wgs" => Of(netRun', other) = Of(netRun, other)
    BY <2>1, UpIs
  <2> QED
    BY <2>1, <2>2
<1> QED
  BY <1>1, <1>2, <1>3, <1>4, <1>5, <1>6, <1>7, <1>8, <1>9, <1>10, <1>11, <1>12,
     <1>13 DEF SitesStep

(* Names stay apart. *)
LEMMA NamesOn ==
  ASSUME NEW r \in Request, VpnStep(r), Typed, NamesApart
  PROVE  NamesApart'
<1>1. ASSUME Clients' \subseteq Clients PROVE NamesApart'
  BY <1>1 DEF NamesApart
<1>2. CASE client' = client
  BY <1>1, <1>2 DEF Clients
<1>3. CASE InsertClient(r) /\ client' # client
  <2>1. who[r] \in Client
    BY <1>3 DEF InsertClient, Typed, DataFits, DataFit
  <2>2. /\ Unique(who[r], asks[r])
        /\ \A d \in Client \ {who[r]} : client'[d] = client[d]
    BY <1>3, InsertedClient DEF Typed
  <2>3. Clients' \ {who[r]} \subseteq Clients
    BY <2>2 DEF Clients
  <2>4. \A d \in Clients' \ {who[r]} : NameOf[d] # NameOf[who[r]]
    BY <2>2, <2>3 DEF Unique
  <2> QED
    BY <2>3, <2>4 DEF NamesApart
<1>4. CASE UpdateClient(r)
  <2>1. PICK c \in Clients : \A d \in Client \ {c} : client'[d] = client[d]
    BY <1>4, UpdatedClient DEF Typed, TypeOK
  <2> QED
    BY <1>1, <2>1 DEF Clients
<1>5. CASE SetClientRule(r)
  <2>1. PICK c \in Clients : \A d \in Client \ {c} : client'[d] = client[d]
    BY <1>5, ChangedRule DEF Typed, TypeOK
  <2> QED
    BY <1>1, <2>1 DEF Clients
<1>6. CASE DeleteClient(r)
  <2>1. \A d \in Client : client'[d] = client[d] \/ client'[d] = None
    BY <1>6 DEF DeleteClient, Typed, Shapes
  <2> QED
    BY <1>1, <2>1 DEF Clients
<1>7. CASE OpenVPNStep(r) /\ ~(InsertClient(r) \/ UpdateClient(r) \/ SetClientRule(r)
                               \/ DeleteClient(r))
  <2>1. client' = client
    BY <1>7, PKIKeeps DEF OpenVPNStep, ServerStart, ServerCommit, ServerReadFirewall, ServerFirewall, AccessRead,
         AccessCommit, NewClient, Revoke, WriteUsers, ReadClients, ClearCCD, WriteCCD,
         ReadClientRules, ReadClientSections, WriteClientRules, OpenVPNReload, ovpnVars
  <2> QED
    BY <1>2, <2>1
<1>8. CASE UNCHANGED ovpnVars
  BY <1>2, <1>8 DEF ovpnVars
<1> QED
  BY <1>2, <1>3, <1>4, <1>5, <1>6, <1>7, <1>8 DEF VpnStep

LEMMA SameClients ==
  ASSUME client' = client
  PROVE  CCDFiles' = CCDFiles /\ UserFile' = UserFile /\ ClientRules' = ClientRules
  BY DEF CCDFiles, UserFile, ClientRules, Enabled, Clients

(* Files of one name are one, so that replacing those of a name by the one *)
(* to be written loses none of the others.                                 *)
LEMMA WrittenFile ==
  ASSUME NEW f, NEW here, NEW left, f \in left, NamesApart,
         here \cup left = CCDFiles
  PROVE  {g \in here : g[1] # f[1]} \cup {f} \cup (left \ {f}) = CCDFiles
<1>1. \A x \in CCDFiles, y \in CCDFiles : x[1] = y[1] => x = y
  BY DEF CCDFiles, Enabled, NamesApart
<1> QED
  BY <1>1

(* The steps of an apply. *)
LEMMA ApplySteps ==
  ASSUME NEW r \in Request, OpenVPNStep(r), StepFits(r), kind[r] = "oApply"
  PROVE  \/ WriteUsers(r) \/ ReadClients(r) \/ ClearCCD(r) \/ WriteCCD(r)
         \/ ReadClientRules(r) \/ ReadClientSections(r) \/ WriteClientRules(r)
         \/ OpenVPNReload(r)
<1>1. at[r] \notin Making
  BY DEF StepFits, Making, MakingCA, MakingServer, MakingCRL
<1>2. ~PKIStep(r)
  BY <1>1, PKIKeeps
<1> QED
  BY <1>2 DEF OpenVPNStep, ServerStart, ServerCommit, ServerReadFirewall,
       ServerFirewall, AccessRead, AccessCommit, NewClient, InsertClient,
       UpdateClient, SetClientRule, Revoke, DeleteClient

(* Each step of an apply that is alone brings the tables further into the  *)
(* files, and when it is done they are in force.                           *)
LEMMA QuietApply ==
  ASSUME NEW r \in Request, OpenVPNStep(r), Shapes, StepFits(r), DataFit(r), kind' = kind,
         kind[r] = "oApply", NamesApart, QuietOvpn(r)
  PROVE  QuietOvpn(r)' /\ (at'[r] = "done" => InForce(r)')
<1>1. client' = client
  BY ApplySteps DEF WriteUsers, ReadClients, ClearCCD, WriteCCD, ReadClientRules,
       ReadClientSections, WriteClientRules, OpenVPNReload, ovpnVars
<1>2. CCDFiles' = CCDFiles /\ UserFile' = UserFile /\ ClientRules' = ClientRules
  BY <1>1, SameClients
<1> USE <1>2 DEF Shapes, Step, NoLocals, Remember, QuietOvpn, ovpnVars, ovpnFiles
<1>3. CASE WriteUsers(r)
  BY <1>3 DEF WriteUsers, UserFile
<1>4. CASE ReadClients(r)
  BY <1>4 DEF ReadClients, CCDFiles
<1>5. CASE ClearCCD(r)
  BY <1>5 DEF ClearCCD
<1>6. CASE WriteCCD(r)
  <2>1. PICK f \in rows[r] :
          ccd' = {g \in ccd : g[1] # f[1]} \cup {f} /\ rows'[r] = rows[r] \ {f}
    BY <1>6 DEF WriteCCD
  <2>2. ccd \cup rows[r] = CCDFiles
    BY <1>6 DEF WriteCCD
  <2>3. ccd' \cup rows'[r] = CCDFiles
    <3> HIDE DEF Shapes, Step, NoLocals, Remember, QuietOvpn
    <3> QED
      BY <2>1, <2>2, WrittenFile
  <2> QED
    BY <1>6, <2>3 DEF WriteCCD
<1>7. CASE ReadClientRules(r)
  BY <1>7 DEF ReadClientRules
<1>8. CASE ReadClientSections(r)
  <2>1. /\ seen'[r] = Owners(fwFile, "or") /\ fwFile' = fwFile /\ rows' = rows /\ ccd' = ccd
        /\ users' = users /\ at[r] = "seen" /\ at'[r] = "rules"
    BY <1>8 DEF ReadClientSections, configVars
  <2>2. Owners(fwFile, "or")' = Owners(fwFile, "or")
    BY <2>1 DEF Owners, Of
  <2> QED
    BY <2>1, <2>2
<1>9. CASE WriteClientRules(r)
  <2>1. /\ fwFile' = Batch(fwFile, "or", seen[r], rows[r]) /\ at[r] = "rules"
        /\ \A s \in rows[r] : s[1] = "or"
    BY <1>9 DEF WriteClientRules, DataFit
  <2>2. Of(fwFile', "or") = rows[r]
    BY <2>1, BatchIs
  <2>3. Of(fwFile, "or")' = ClientRules
    BY <2>1, <2>2 DEF Of
  <2> QED
    BY <1>9, <2>3 DEF WriteClientRules
<1>10. CASE OpenVPNReload(r)
  <2>1. /\ fwRun' = fwFile /\ fwFile' = fwFile /\ ccd' = ccd /\ users' = users
        /\ at[r] = "reload" /\ at'[r] = "done"
    BY <1>10 DEF OpenVPNReload, LoadFirewall
  <2>2. ccd' = CCDFiles' /\ users' = UserFile' /\ Of(fwRun, "or")' = ClientRules'
    BY <2>1 DEF Of
  <2>3. OpenVPNInForce'
    BY <2>2 DEF OpenVPNInForce, CCDFiles, UserFile
  <2> QED
    BY <2>1, <2>3 DEF InForce
<1> QED
  BY <1>3, <1>4, <1>5, <1>6, <1>7, <1>8, <1>9, <1>10, ApplySteps

(* A save of the server's settings opens the device as it was asked to. *)
LEMMA QuietServer ==
  ASSUME NEW r \in Request, OpenVPNStep(r), Shapes, StepFits(r), DataFit(r), kind' = kind,
         kind[r] = "oServer", QuietOvpn(r)
  PROVE  QuietOvpn(r)' /\ (at'[r] = "done" => InForce(r)')
<1>1. ASSUME at'[r] \notin {"fwCommit", "reload", "done"}
      PROVE  QuietOvpn(r)' /\ (at'[r] = "done" => InForce(r)')
  BY <1>1 DEF QuietOvpn
<1>2. \/ at'[r] \notin {"fwCommit", "reload", "done"} \/ ServerReadFirewall(r)
      \/ ServerFirewall(r) \/ OpenVPNReload(r)
  <2> USE DEF Step, Shapes
  <2>1. CASE LookForCA(r)
    BY <2>1 DEF LookForCA
  <2>2. CASE LookForServer(r)
    BY <2>2 DEF LookForServer
  <2>3. CASE OpenFile(r)
    BY <2>3 DEF OpenFile, Opened
  <2>4. CASE FillFile(r)
    BY <2>4 DEF FillFile, Filled
  <2>5. CASE ReadRevoked(r)
    BY <2>5 DEF ReadRevoked
  <2>6. CASE WriteCRL(r)
    BY <2>6 DEF WriteCRL, Filled, AfterCRL
  <2>7. CASE ServerStart(r)
    BY <2>7 DEF ServerStart
  <2>8. CASE ServerCommit(r)
    BY <2>8 DEF ServerCommit
  <2>9. CASE AccessRead(r)
    BY <2>9 DEF AccessRead
  <2>10. CASE AccessCommit(r)
    BY <2>10 DEF AccessCommit
  <2>11. CASE NewClient(r)
    BY <2>11 DEF NewClient
  <2>12. CASE InsertClient(r)
    BY <2>12 DEF InsertClient
  <2>13. CASE UpdateClient(r)
    BY <2>13 DEF UpdateClient
  <2>14. CASE SetClientRule(r)
    BY <2>14 DEF SetClientRule
  <2>15. CASE Revoke(r)
    BY <2>15 DEF Revoke
  <2>16. CASE DeleteClient(r)
    BY <2>16 DEF DeleteClient
  <2>17. CASE WriteUsers(r)
    BY <2>17 DEF WriteUsers
  <2>18. CASE ReadClients(r)
    BY <2>18 DEF ReadClients
  <2>19. CASE ClearCCD(r)
    BY <2>19 DEF ClearCCD
  <2>20. CASE WriteCCD(r)
    BY <2>20 DEF WriteCCD
  <2>21. CASE ReadClientRules(r)
    BY <2>21 DEF ReadClientRules
  <2>22. CASE ReadClientSections(r)
    BY <2>22 DEF ReadClientSections
  <2>23. CASE WriteClientRules(r)
    BY <2>23 DEF WriteClientRules
  <2> QED
    BY <2>1, <2>2, <2>3, <2>4, <2>5, <2>6, <2>7, <2>8, <2>9, <2>10, <2>11, <2>12,
         <2>13, <2>14, <2>15, <2>16, <2>17, <2>18, <2>19, <2>20, <2>21, <2>22, <2>23
         DEF OpenVPNStep, PKIStep
<1>3. CASE ServerReadFirewall(r)
  <2>1. /\ rows'[r] = fwFile \/ "unread" \in seen'[r]
        /\ fwFile' = fwFile /\ at'[r] = "fwCommit"
    BY <1>3 DEF ServerReadFirewall, ReadFirewall, Remember, Shapes, Step, configVars
  <2> QED
    BY <2>1 DEF QuietOvpn
<1>4. CASE ServerFirewall(r)
  <2> DEFINE allow == "mgmt" \in seen[r]
  <2> DEFINE X == ServerForwards(rows[r])
  <2>1. /\ at[r] = "fwCommit" /\ at'[r] = "reload" /\ seen' = seen
        /\ fwFile' = ZoneInput(fwFile, rows[r], "ovpn", allow) \cup X
    BY <1>4 DEF ServerFirewall, Step, Shapes, NoLocals
  <2>2. allow \in BOOLEAN /\ X \subseteq {Full("ovpn")}
    BY DEF ServerForwards
  <2>3. \/ "unread" \in seen[r]
        \/ Mgmt("ovpn") \in rows[r] <=> Mgmt("ovpn") \in fwFile
    BY <2>1 DEF QuietOvpn
  <2>4. "unread" \in seen[r] \/ (Mgmt("ovpn") \in fwFile' <=> allow)
    <3> HIDE DEF allow, X
    <3> QED
      BY <2>1, <2>2, <2>3, ServerWrites
  <2>5. "unread" \in seen[r] \/ (Mgmt("ovpn") \in fwFile)' = ("mgmt" \in seen[r])'
    BY <2>1, <2>4 DEF Mgmt
  <2> QED
    BY <2>1, <2>5 DEF QuietOvpn
<1>5. CASE OpenVPNReload(r)
  <2>1. /\ fwRun' = fwFile /\ at[r] = "reload" /\ at'[r] = "done" /\ seen' = seen
    BY <1>5 DEF OpenVPNReload, LoadFirewall, Step, Shapes, NoLocals
  <2>2. "unread" \in seen'[r] \/ (Mgmt("ovpn") \in fwRun') = ("mgmt" \in seen'[r])
    BY <2>1 DEF QuietOvpn
  <2>3. Vpn(r)' = "ovpn"
    BY DEF Vpn
  <2> QED
    BY <2>1, <2>2, <2>3 DEF QuietOvpn, InForce, MgmtAsAsked, Mgmt
<1> QED
  BY <1>1, <1>2, <1>3, <1>4, <1>5

LEMMA OvpnQuiet ==
  ASSUME NEW r \in Request, OpenVPNStep(r), Shapes, StepFits(r), DataFit(r), kind' = kind,
         NamesApart, QuietOvpn(r)
  PROVE  QuietOvpn(r)' /\ (at'[r] = "done" => InForce(r)')
<1>1. CASE kind[r] = "oApply"
  BY <1>1, QuietApply
<1>2. CASE kind[r] = "oServer"
  BY <1>2, QuietServer
<1>3. CASE kind[r] \notin {"oApply", "oServer"}
  <2>1. kind[r] \in {"oAccess", "oCreate", "oUpdate", "oDelete"}
    <3>1. Vpn(r) = "ovpn"
      BY OvpnKind
    <3> QED
      BY <1>3, <3>1 DEF Vpn
  <2> QED
    BY <1>3, <2>1 DEF QuietOvpn, InForce
<1> QED
  BY <1>1, <1>2, <1>3

(* The same for the peers of WireGuard. *)
LEMMA SamePeers ==
  ASSUME peer' = peer
  PROVE  PeerSections' = PeerSections /\ PeerRules' = PeerRules
  BY DEF PeerSections, PeerRules, Peers

LEMMA WGQuiet ==
  ASSUME NEW r \in Request, WireGuardStep(r), Shapes, StepFits(r), DataFit(r), kind' = kind,
         QuietWG(r)
  PROVE  QuietWG(r)' /\ (at'[r] = "done" => InForce(r)')
<1>0. ASSUME kind[r] \notin {"wApply", "wServer"}
      PROVE  QuietWG(r)' /\ (at'[r] = "done" => InForce(r)')
  <2>1. kind[r] \in {"wAccess", "wCreate", "wUpdate", "wDelete"}
    <3>1. Vpn(r) = "wg"
      BY WGKind
    <3> QED
      BY <1>0, <3>1, WGKind DEF Vpn, WireGuardStep, WGReadServer, WGServerNetwork,
         WGReadFirewall, WGServerFirewall, WGServerReload, WGServerUp, WGAccessRead,
         WGAccessCommit, WGPeerCreate, WGPeerUpdate, WGPeerRuleSet, WGPeerDelete,
         ReadPeerSections, ReadPeers, WritePeers, PeersUp, ReadPeerRules, ReadRuleSections,
         WritePeerRules, WGReload
  <2> QED
    BY <1>0, <2>1 DEF QuietWG, InForce
<1> USE DEF Shapes, Step, NoLocals, Remember, QuietWG
<1>1. CASE WGReadServer(r)
  BY <1>1, <1>0 DEF WGReadServer
<1>2. CASE WGServerNetwork(r)
  BY <1>2, <1>0 DEF WGServerNetwork
<1>3. CASE WGReadFirewall(r)
  <2>1. /\ rows'[r] = fwFile \/ "unread" \in seen'[r]
        /\ fwFile' = fwFile /\ at'[r] = "wFw" /\ kind[r] = "wServer"
    BY <1>3 DEF WGReadFirewall, ReadFirewall, OnlyLocals, configVars
  <2> QED
    BY <2>1
<1>4. CASE WGServerFirewall(r)
  <2> DEFINE allow == "mgmt" \in seen[r]
  <2>1. /\ at[r] = "wFw" /\ at'[r] = "wReload" /\ seen' = seen /\ kind[r] = "wServer"
        /\ fwFile' = ZoneInput(fwFile, rows[r], "wg", allow) \cup {Full("wg")}
    BY <1>4 DEF WGServerFirewall
  <2>2. allow \in BOOLEAN
    OBVIOUS
  <2>3. \/ "unread" \in seen[r]
        \/ Mgmt("wg") \in rows[r] <=> Mgmt("wg") \in fwFile
    BY <2>1
  <2>4. "unread" \in seen[r] \/ (Mgmt("wg") \in fwFile' <=> allow)
    <3> HIDE DEF allow, Shapes, Step, NoLocals, Remember, QuietWG
    <3> QED
      BY <2>1, <2>2, <2>3, ServerWrites
  <2>5. "unread" \in seen[r] \/ (Mgmt("wg") \in fwFile)' = ("mgmt" \in seen[r])'
    BY <2>1, <2>4 DEF Mgmt
  <2> QED
    BY <2>1, <2>5
<1>5. CASE WGServerReload(r)
  <2>1. /\ at[r] = "wReload" /\ at'[r] = "wUp" /\ seen' = seen /\ kind[r] = "wServer"
        /\ fwFile' = fwFile /\ fwRun' = fwFile
    BY <1>5 DEF WGServerReload, LoadFirewall
  <2>2. \/ "unread" \in seen[r]
        \/ /\ (Mgmt("wg") \in fwFile)' = ("mgmt" \in seen[r])'
           /\ (Mgmt("wg") \in fwRun)' = ("mgmt" \in seen[r])'
    BY <2>1 DEF Mgmt
  <2> QED
    BY <2>1, <2>2
<1>6. CASE WGServerUp(r)
  <2>1. /\ at[r] = "wUp" /\ at'[r] = "done" /\ seen' = seen /\ kind[r] = "wServer"
        /\ fwRun' = fwRun
    BY <1>6 DEF WGServerUp
  <2>2. "unread" \in seen'[r] \/ (Mgmt("wg") \in fwRun') = ("mgmt" \in seen'[r])
    BY <2>1
  <2>3. Vpn(r)' = "wg"
    BY <2>1 DEF Vpn
  <2> QED
    BY <2>1, <2>2, <2>3 DEF InForce, MgmtAsAsked, Mgmt
<1>7. CASE WGAccessRead(r)
  BY <1>7, <1>0 DEF WGAccessRead
<1>8. CASE WGAccessCommit(r)
  BY <1>8, <1>0 DEF WGAccessCommit
<1>9. CASE WGPeerCreate(r)
  BY <1>9, <1>0 DEF WGPeerCreate
<1>10. CASE WGPeerUpdate(r)
  BY <1>10, <1>0 DEF WGPeerUpdate
<1>11. CASE WGPeerRuleSet(r)
  BY <1>11, <1>0 DEF WGPeerRuleSet
<1>12. CASE WGPeerDelete(r)
  BY <1>12, <1>0 DEF WGPeerDelete
<1>13. CASE ReadPeerSections(r)
  <2>1. /\ seen'[r] = Owners(netFile, "wg") /\ netFile' = netFile /\ at'[r] = "wPeers"
        /\ kind[r] = "wApply"
    BY <1>13 DEF ReadPeerSections, OnlyLocals, configVars
  <2>2. Owners(netFile, "wg")' = Owners(netFile, "wg")
    BY <2>1 DEF Owners, Of
  <2> QED
    BY <2>1, <2>2
<1>14. CASE ReadPeers(r)
  <2>0. PeerSections' = PeerSections /\ PeerRules' = PeerRules
    BY <1>14, SamePeers DEF ReadPeers, OnlyLocals, wgVars
  <2>1. /\ rows'[r] = PeerSections /\ seen' = seen /\ netFile' = netFile
        /\ at[r] = "wPeers" /\ at'[r] = "wBatch" /\ kind[r] = "wApply"
    BY <1>14 DEF ReadPeers, OnlyLocals, configVars
  <2>2. Owners(netFile, "wg")' = Owners(netFile, "wg")
    BY <2>1 DEF Owners, Of
  <2> QED
    BY <2>0, <2>1, <2>2
<1>15. CASE WritePeers(r)
  <2>0. PeerSections' = PeerSections /\ PeerRules' = PeerRules
    BY <1>15, SamePeers DEF WritePeers, OnlyLocals, wgVars
  <2>1. /\ netFile' = Batch(netFile, "wg", seen[r], rows[r]) /\ at[r] = "wBatch"
        /\ \A s \in rows[r] : s[1] = "wg"
        /\ at'[r] = "wPeerUp" /\ kind[r] = "wApply"
    BY <1>15 DEF WritePeers, DataFit
  <2>2. Of(netFile', "wg") = rows[r]
    BY <2>1, BatchIs
  <2>3. Of(netFile, "wg")' = PeerSections
    BY <2>1, <2>2 DEF Of
  <2> QED
    BY <2>0, <2>1, <2>3
<1>16. CASE PeersUp(r)
  <2>0. PeerSections' = PeerSections /\ PeerRules' = PeerRules
    BY <1>16, SamePeers DEF PeersUp, OnlyLocals, wgVars
  <2>1. /\ IfUp("wg") /\ at[r] = "wPeerUp" /\ at'[r] = "wRules" /\ kind[r] = "wApply"
    BY <1>16 DEF PeersUp
  <2>2. Of(netRun', "wg") = Of(netFile, "wg")
    BY <2>1, UpIs
  <2>3. Of(netRun, "wg")' = PeerSections
    BY <2>1, <2>2 DEF Of
  <2> QED
    BY <2>0, <2>1, <2>3
<1>17. CASE ReadPeerRules(r)
  <2>0. PeerSections' = PeerSections /\ PeerRules' = PeerRules
    BY <1>17, SamePeers DEF ReadPeerRules, OnlyLocals, wgVars
  <2>1. /\ at[r] = "wRules" /\ at'[r] = "wSeen" /\ kind[r] = "wApply" /\ netRun' = netRun
        /\ fwFile' = fwFile /\ rows'[r] = PeerRules
    BY <1>17 DEF ReadPeerRules, OnlyLocals, configVars
  <2>2. Of(netRun, "wg")' = PeerSections'
    BY <2>0, <2>1 DEF Of
  <2> QED
    BY <2>0, <2>1, <2>2
<1>18. CASE ReadRuleSections(r)
  <2>0. PeerSections' = PeerSections /\ PeerRules' = PeerRules
    BY <1>18, SamePeers DEF ReadRuleSections, OnlyLocals, wgVars
  <2>1. /\ at[r] = "wSeen" /\ at'[r] = "wWrite" /\ kind[r] = "wApply" /\ netRun' = netRun
        /\ fwFile' = fwFile /\ seen'[r] = Owners(fwFile, "vr") /\ rows' = rows
    BY <1>18 DEF ReadRuleSections, OnlyLocals, configVars
  <2>2. Of(netRun, "wg")' = PeerSections'
    BY <2>0, <2>1 DEF Of
  <2>3. Owners(fwFile, "vr")' = Owners(fwFile, "vr")
    BY <2>1 DEF Owners, Of
  <2> QED
    BY <2>0, <2>1, <2>2, <2>3
<1>19. CASE WritePeerRules(r)
  <2>0. PeerSections' = PeerSections /\ PeerRules' = PeerRules
    BY <1>19, SamePeers DEF WritePeerRules, OnlyLocals, wgVars
  <2>1. /\ fwFile' = Batch(fwFile, "vr", seen[r], rows[r]) /\ at[r] = "wWrite"
        /\ \A s \in rows[r] : s[1] = "vr"
        /\ at'[r] = "wLoad" /\ kind[r] = "wApply" /\ netRun' = netRun
    BY <1>19 DEF WritePeerRules, DataFit
  <2>2. Of(fwFile', "vr") = rows[r]
    BY <2>1, BatchIs
  <2>3. Of(fwFile, "vr")' = PeerRules
    BY <2>1, <2>2 DEF Of
  <2>4. Of(netRun, "wg")' = PeerSections'
    BY <2>0, <2>1 DEF Of
  <2> QED
    BY <2>0, <2>1, <2>3, <2>4
<1>20. CASE WGReload(r)
  <2>0. PeerSections' = PeerSections /\ PeerRules' = PeerRules
    BY <1>20, SamePeers DEF WGReload, OnlyLocals, wgVars
  <2>1. CASE kind[r] = "wAccess"
    BY <1>0, <2>1
  <2>2. CASE kind[r] = "wApply"
    <3>1. /\ at[r] = "wLoad" /\ at'[r] = "done" /\ netRun' = netRun /\ fwRun' = fwFile
      BY <1>20 DEF WGReload, LoadFirewall
    <3>2. Of(netRun, "wg")' = PeerSections' /\ Of(fwRun, "vr")' = PeerRules'
      BY <2>0, <2>2, <3>1 DEF Of
    <3> QED
      BY <2>2, <3>1, <3>2 DEF InForce, WireGuardInForce
  <2> QED
    BY <1>20, <2>1, <2>2 DEF WGReload
<1> QED
  BY <1>1, <1>2, <1>3, <1>4, <1>5, <1>6, <1>7, <1>8, <1>9, <1>10, <1>11, <1>12,
       <1>13, <1>14, <1>15, <1>16, <1>17, <1>18, <1>19, <1>20 DEF WireGuardStep

(* The same for the sites. *)
LEMMA SameSites ==
  ASSUME site' = site
  PROVE  SiteSections' = SiteSections
  BY DEF SiteSections, AllSites

LEMMA SitesQuiet ==
  ASSUME NEW r \in Request, SitesStep(r), Shapes, StepFits(r), DataFit(r), kind' = kind,
         QuietSites(r)
  PROVE  QuietSites(r)' /\ (at'[r] = "done" => InForce(r)')
<1>0. ASSUME kind[r] \notin {"sApply", "sLocal"}
      PROVE  QuietSites(r)' /\ (at'[r] = "done" => InForce(r)')
  <2>1. kind[r] \in {"sCreate", "sUpdate", "sDelete"}
    BY <1>0 DEF SitesStep, WGSLocalRead, WGSLocalNetwork, WGSReadFirewall, WGSLocalFirewall,
         WGSLocalReload, WGSLocalUp, WGSValidate, WGSiteWrite, WGSiteDelete,
         ReadSiteSections, ReadSites, WriteSites, SitesUp
  <2> QED
    BY <1>0, <2>1 DEF QuietSites, InForce
<1> USE DEF Shapes, Step, NoLocals, Remember, QuietSites
<1>1. CASE WGSLocalRead(r)
  <2>1. PICK a \in SiteNet \ Local, allow \in BOOLEAN :
          /\ at' = [at EXCEPT ![r] = IF wgsFile = a THEN "sFwRead" ELSE "sNet"]
          /\ asks' = [asks EXCEPT ![r] = a]
          /\ seen' = [seen EXCEPT ![r] = (IF wgsFile = a THEN Behind ELSE {"changed"})
                                         \cup (IF allow THEN {"mgmt"} ELSE {})]
    BY <1>1 DEF WGSLocalRead
  <2>2. kind[r] = "sLocal" /\ wgsFile' = wgsFile /\ wgsRun' = wgsRun
    BY <1>1 DEF WGSLocalRead, OnlySiteLocals, siteVars
  <2>3. CASE wgsFile = a
    <3>1. /\ at'[r] = "sFwRead" /\ wgsFile' = asks'[r]
          /\ "behind" \in seen'[r] \/ wgsRun' = wgsFile'
      BY <2>1, <2>2, <2>3 DEF Behind
    <3> QED
      BY <2>2, <3>1
  <2>4. CASE wgsFile # a
    <3>1. at'[r] = "sNet" /\ "changed" \in seen'[r]
      BY <2>1, <2>2, <2>4
    <3> QED
      BY <2>2, <3>1
  <2> QED
    BY <2>3, <2>4
<1>2. CASE WGSLocalNetwork(r)
  <2>1. /\ at[r] = "sNet" /\ at'[r] = "sFwRead" /\ kind[r] = "sLocal"
        /\ wgsFile' = asks[r] /\ asks' = asks /\ seen' = seen
    BY <1>2 DEF WGSLocalNetwork
  <2> QED
    BY <2>1
<1>3. CASE WGSReadFirewall(r)
  <2>0. /\ asks' = asks /\ wgsFile' = wgsFile /\ wgsRun' = wgsRun /\ kind[r] = "sLocal"
    BY <1>3 DEF WGSReadFirewall, OnlySiteLocals, siteVars
  <2>1. /\ rows'[r] = fwFile \/ "unread" \in seen'[r]
        /\ seen[r] \subseteq seen'[r]
        /\ fwFile' = fwFile /\ at[r] = "sFwRead" /\ at'[r] = "sFw"
    BY <1>3 DEF WGSReadFirewall, ReadFirewall, OnlySiteLocals, configVars
  <2> QED
    BY <2>0, <2>1
<1>4. CASE WGSLocalFirewall(r)
  <2>0. /\ asks' = asks /\ wgsFile' = wgsFile /\ wgsRun' = wgsRun /\ kind[r] = "sLocal"
    BY <1>4 DEF WGSLocalFirewall, OnlySiteLocals, siteVars
  <2> DEFINE allow == "mgmt" \in seen[r]
  <2>1. /\ at[r] = "sFw" /\ at'[r] = "sReload" /\ seen' = seen
        /\ fwFile' = ZoneInput(fwFile, rows[r], "wgs", allow) \cup {Full("wgs")}
    BY <1>4 DEF WGSLocalFirewall
  <2>2. allow \in BOOLEAN
    OBVIOUS
  <2>3. \/ "unread" \in seen[r]
        \/ Mgmt("wgs") \in rows[r] <=> Mgmt("wgs") \in fwFile
    BY <2>0, <2>1
  <2>4. "unread" \in seen[r] \/ (Mgmt("wgs") \in fwFile' <=> allow)
    <3> HIDE DEF allow, Shapes, Step, NoLocals, Remember, QuietSites
    <3> QED
      BY <2>1, <2>2, <2>3, ServerWrites
  <2>5. "unread" \in seen[r] \/ (Mgmt("wgs") \in fwFile)' = ("mgmt" \in seen[r])'
    BY <2>1, <2>4 DEF Mgmt
  <2> QED
    BY <2>0, <2>1, <2>5
<1>5. CASE WGSLocalReload(r)
  <2>0. /\ asks' = asks /\ wgsFile' = wgsFile /\ wgsRun' = wgsRun /\ kind[r] = "sLocal"
    BY <1>5 DEF WGSLocalReload, OnlySiteLocals, siteVars
  <2>1. /\ at[r] = "sReload" /\ at'[r] = "sUp" /\ seen' = seen
        /\ fwFile' = fwFile /\ fwRun' = fwFile
    BY <1>5 DEF WGSLocalReload, LoadFirewall
  <2>2. \/ "unread" \in seen[r]
        \/ /\ (Mgmt("wgs") \in fwFile)' = ("mgmt" \in seen[r])'
           /\ (Mgmt("wgs") \in fwRun)' = ("mgmt" \in seen[r])'
    BY <2>0, <2>1 DEF Mgmt
  <2> QED
    BY <2>0, <2>1, <2>2
<1>6. CASE WGSLocalUp(r)
  <2>1. /\ at[r] = "sUp" /\ at'[r] = "done" /\ seen' = seen /\ asks' = asks
        /\ fwRun' = fwRun /\ kind[r] = "sLocal"
        /\ wgsRun' = IF "changed" \notin seen[r] THEN wgsRun ELSE wgsFile
    BY <1>6 DEF WGSLocalUp
  <2>2. /\ "unread" \in seen'[r] \/ (Mgmt("wgs") \in fwRun') = ("mgmt" \in seen'[r])
        /\ "behind" \in seen'[r] \/ wgsRun' = asks'[r]
    BY <2>1
  <2>3. Vpn(r)' = "wgs"
    BY <2>1 DEF Vpn
  <2> QED
    BY <2>1, <2>2, <2>3 DEF InForce, MgmtAsAsked, SavedAddress, Mgmt
<1>7. CASE WGSValidate(r)
  BY <1>7, <1>0 DEF WGSValidate
<1>8. CASE WGSiteWrite(r)
  BY <1>8, <1>0 DEF WGSiteWrite
<1>9. CASE WGSiteDelete(r)
  BY <1>9, <1>0 DEF WGSiteDelete
<1>10. CASE ReadSiteSections(r)
  <2>0. SiteSections' = SiteSections /\ kind[r] = "sApply"
    BY <1>10, SameSites DEF ReadSiteSections, OnlySiteLocals, siteVars
  <2>1. /\ seen'[r] = Owners(netFile, "wgs") /\ netFile' = netFile /\ at'[r] = "sSites"
    BY <1>10 DEF ReadSiteSections, OnlySiteLocals, configVars
  <2>2. Owners(netFile, "wgs")' = Owners(netFile, "wgs")
    BY <2>1 DEF Owners, Of
  <2> QED
    BY <2>0, <2>1, <2>2
<1>11. CASE ReadSites(r)
  <2>0. SiteSections' = SiteSections /\ kind[r] = "sApply"
    BY <1>11, SameSites DEF ReadSites, OnlySiteLocals, siteVars
  <2>1. /\ rows'[r] = SiteSections /\ seen' = seen /\ netFile' = netFile
        /\ at[r] = "sSites" /\ at'[r] = "sBatch"
    BY <1>11 DEF ReadSites, OnlySiteLocals, configVars
  <2>2. Owners(netFile, "wgs")' = Owners(netFile, "wgs")
    BY <2>1 DEF Owners, Of
  <2> QED
    BY <2>0, <2>1, <2>2
<1>12. CASE WriteSites(r)
  <2>0. SiteSections' = SiteSections /\ kind[r] = "sApply"
    BY <1>12, SameSites DEF WriteSites, OnlySiteLocals, siteVars
  <2>1. /\ netFile' = Batch(netFile, "wgs", seen[r], rows[r]) /\ at[r] = "sBatch"
        /\ \A s \in rows[r] : s[1] = "wgs"
        /\ at'[r] = "sSiteUp"
    BY <1>12 DEF WriteSites, DataFit
  <2>2. Of(netFile', "wgs") = rows[r]
    BY <2>0, <2>1, BatchIs
  <2>3. Of(netFile, "wgs")' = SiteSections
    BY <2>0, <2>1, <2>2 DEF Of
  <2> QED
    BY <2>0, <2>1, <2>3
<1>13. CASE SitesUp(r)
  <2>0. SiteSections' = SiteSections /\ kind[r] = "sApply"
    BY <1>13, SameSites DEF SitesUp, OnlySiteLocals, siteVars
  <2>1. IfUp("wgs") /\ at[r] = "sSiteUp" /\ at'[r] = "done"
    BY <1>13 DEF SitesUp
  <2>2. Of(netRun', "wgs") = Of(netFile, "wgs")
    BY <2>1, UpIs
  <2>3. Of(netRun, "wgs")' = SiteSections'
    BY <2>0, <2>1, <2>2 DEF Of
  <2> QED
    BY <2>0, <2>1, <2>3 DEF InForce, SitesInForce
<1> QED
  BY <1>1, <1>2, <1>3, <1>4, <1>5, <1>6, <1>7, <1>8, <1>9, <1>10, <1>11, <1>12,
       <1>13 DEF SitesStep

(* What of another VPN is over, or is no apply nor save, needs nothing. *)
LEMMA NotQuiet ==
  ASSUME NEW q \in Request, kind' = kind
  PROVE  /\ Vpn(q) # "ovpn" \/ at'[q] \in Over \cup {"start"} => QuietOvpn(q)'
         /\ Vpn(q) # "wg" \/ at'[q] \in Over \cup {"start"} => QuietWG(q)'
         /\ Vpn(q) # "wgs" \/ at'[q] \in Over \cup {"start"} => QuietSites(q)'
<1>1. ASSUME Vpn(q) # "ovpn" \/ at'[q] \in Over \cup {"start"} PROVE QuietOvpn(q)'
  BY <1>1 DEF QuietOvpn, Vpn, Over
<1>2. ASSUME Vpn(q) # "wg" \/ at'[q] \in Over \cup {"start"} PROVE QuietWG(q)'
  BY <1>2 DEF QuietWG, Vpn, Over
<1>3. ASSUME Vpn(q) # "wgs" \/ at'[q] \in Over \cup {"start"} PROVE QuietSites(q)'
  BY <1>3 DEF QuietSites, Vpn, Over
<1> QED
  BY <1>1, <1>2, <1>3

(* What other VPNs do leaves an apply of OpenVPN where it is. *)
LEMMA OvpnStays ==
  ASSUME NEW q \in Request, kind' = kind, at'[q] = at[q], rows'[q] = rows[q],
         seen'[q] = seen[q], UNCHANGED ovpnVars,
         Keeps("or"), KeepsMgmt("ovpn"), QuietOvpn(q)
  PROVE  QuietOvpn(q)'
<1>1. CCDFiles' = CCDFiles /\ UserFile' = UserFile /\ ClientRules' = ClientRules
  BY SameClients DEF ovpnVars
<1>2. Of(fwFile, "or")' = Of(fwFile, "or")
  BY DEF Keeps, Of
<1>3. Owners(fwFile, "or")' = Owners(fwFile, "or")
  BY <1>2 DEF Owners
<1>4. (Mgmt("ovpn") \in fwFile)' <=> Mgmt("ovpn") \in fwFile
  BY DEF KeepsMgmt, Mgmt
<1>5. (Mgmt("ovpn") \in rows[q])' <=> Mgmt("ovpn") \in rows[q]
  BY DEF Mgmt
<1> QED
  BY <1>1, <1>2, <1>3, <1>4, <1>5 DEF QuietOvpn, ovpnVars, ovpnFiles

LEMMA WGStays ==
  ASSUME NEW q \in Request, kind' = kind, at'[q] = at[q], rows'[q] = rows[q],
         seen'[q] = seen[q], UNCHANGED wgVars,
         Keeps("vr"), KeepsMgmt("wg"), KeepsNet("wg"), Loads, QuietWG(q)
  PROVE  QuietWG(q)'
<1>1. PeerSections' = PeerSections /\ PeerRules' = PeerRules
  BY SamePeers DEF wgVars
<1>2. /\ Of(fwFile, "vr")' = Of(fwFile, "vr") /\ Of(netFile, "wg")' = Of(netFile, "wg")
      /\ Of(netRun, "wg")' = Of(netRun, "wg")
  BY DEF Keeps, KeepsNet, Of
<1>3. /\ Owners(fwFile, "vr")' = Owners(fwFile, "vr")
      /\ Owners(netFile, "wg")' = Owners(netFile, "wg")
  BY <1>2 DEF Owners
<1>4. /\ (Mgmt("wg") \in fwFile)' <=> Mgmt("wg") \in fwFile
      /\ \/ (Mgmt("wg") \in fwRun)' <=> Mgmt("wg") \in fwRun
         \/ (Mgmt("wg") \in fwRun)' <=> Mgmt("wg") \in fwFile
  BY DEF KeepsMgmt, Mgmt, Loads
<1>5. (Mgmt("wg") \in rows[q])' <=> Mgmt("wg") \in rows[q]
  BY DEF Mgmt
<1> QED
  BY <1>1, <1>2, <1>3, <1>4, <1>5 DEF QuietWG, wgVars

LEMMA SitesStay ==
  ASSUME NEW q \in Request, kind' = kind, at'[q] = at[q], rows'[q] = rows[q],
         seen'[q] = seen[q], asks'[q] = asks[q], UNCHANGED siteVars,
         KeepsMgmt("wgs"), KeepsNet("wgs"), Loads, QuietSites(q)
  PROVE  QuietSites(q)'
<1>1. SiteSections' = SiteSections
  BY SameSites DEF siteVars
<1>2. Of(netFile, "wgs")' = Of(netFile, "wgs")
  BY DEF KeepsNet, Of
<1>3. Owners(netFile, "wgs")' = Owners(netFile, "wgs")
  BY <1>2 DEF Owners
<1>4. /\ (Mgmt("wgs") \in fwFile)' <=> Mgmt("wgs") \in fwFile
      /\ \/ (Mgmt("wgs") \in fwRun)' <=> Mgmt("wgs") \in fwRun
         \/ (Mgmt("wgs") \in fwRun)' <=> Mgmt("wgs") \in fwFile
  BY DEF KeepsMgmt, Mgmt, Loads
<1>5. (Mgmt("wgs") \in rows[q])' <=> Mgmt("wgs") \in rows[q]
  BY DEF Mgmt
<1> QED
  BY <1>1, <1>2, <1>3, <1>4, <1>5 DEF QuietSites, siteVars

(* The step of a VPN, seen from a request of another. *)
LEMMA OtherStays ==
  ASSUME Typed, NEW r \in Request, VpnStep(r), NEW q \in Request \ {r},
         at[q] \in Over \/ Vpn(q) # Vpn(r),
         QuietOvpn(q), QuietWG(q), QuietSites(q)
  PROVE  QuietOvpn(q)' /\ QuietWG(q)' /\ QuietSites(q)'
<1>1. /\ kind' = kind /\ at'[q] = at[q] /\ rows'[q] = rows[q] /\ seen'[q] = seen[q]
      /\ asks'[q] = asks[q]
  BY StepTouches DEF Touches
<1>2. Shapes /\ StepFits(r) /\ DataFit(r)
  BY DEF Typed, StepsFit, DataFits
<1>3. CASE at[q] \in Over
  BY <1>1, <1>3, NotQuiet
<1>4. CASE OpenVPNStep(r) /\ UNCHANGED <<wgVars, siteVars>> /\ Vpn(q) # Vpn(r)
  <2>1. Vpn(q) # "ovpn"
    BY <1>2, <1>4, OvpnKind
  <2> QED
    BY <1>1, <1>2, <1>4, <2>1, NotQuiet, OvpnLeaves, WGStays, SitesStay
<1>5. CASE WireGuardStep(r) /\ UNCHANGED <<ovpnVars, siteVars>> /\ Vpn(q) # Vpn(r)
  <2>1. Vpn(q) # "wg"
    BY <1>2, <1>5, WGKind
  <2> QED
    BY <1>1, <1>2, <1>5, <2>1, NotQuiet, WGLeaves, OvpnStays, SitesStay
<1>6. CASE SitesStep(r) /\ UNCHANGED <<ovpnVars, wgVars>> /\ Vpn(q) # Vpn(r)
  <2>1. Vpn(q) # "wgs"
    BY <1>2, <1>6, SitesKind
  <2> QED
    BY <1>1, <1>2, <1>6, <2>1, NotQuiet, SitesLeave, OvpnStays, WGStays
<1> QED
  BY <1>3, <1>4, <1>5, <1>6 DEF VpnStep

(* Its own step brings a request that is alone further. *)
LEMMA OwnStep ==
  ASSUME Typed, NamesApart, NEW r \in Request, VpnStep(r),
         QuietOvpn(r), QuietWG(r), QuietSites(r)
  PROVE  /\ QuietOvpn(r)' /\ QuietWG(r)' /\ QuietSites(r)'
         /\ at'[r] = "done" => InForce(r)'
<1>1. kind' = kind
  BY StepTouches DEF Touches
<1>2. Shapes /\ StepFits(r) /\ DataFit(r)
  BY DEF Typed, StepsFit, DataFits
<1>3. CASE OpenVPNStep(r)
  <2>1. Vpn(r) = "ovpn"
    BY <1>2, <1>3, OvpnKind
  <2>2. QuietOvpn(r)' /\ (at'[r] = "done" => InForce(r)')
    BY <1>1, <1>2, <1>3, OvpnQuiet
  <2> QED
    BY <1>1, <2>1, <2>2, NotQuiet
<1>4. CASE WireGuardStep(r)
  <2>1. Vpn(r) = "wg"
    BY <1>4, WGKind
  <2>2. QuietWG(r)' /\ (at'[r] = "done" => InForce(r)')
    BY <1>1, <1>2, <1>4, WGQuiet
  <2> QED
    BY <1>1, <2>1, <2>2, NotQuiet
<1>5. CASE SitesStep(r)
  <2>1. Vpn(r) = "wgs"
    BY <1>5, SitesKind
  <2>2. QuietSites(r)' /\ (at'[r] = "done" => InForce(r)')
    BY <1>1, <1>2, <1>5, SitesQuiet
  <2> QED
    BY <1>1, <2>1, <2>2, NotQuiet
<1> QED
  BY <1>3, <1>4, <1>5 DEF VpnStep

(* A step that only starts or ends requests. *)
LEMMA OthersQuiet ==
  ASSUME NEW q \in Request, kind' = kind, rows' = rows, seen' = seen, asks' = asks,
         at'[q] = at[q] \/ at'[q] \in {"start", "failed"},
         UNCHANGED <<configVars, ovpnVars, wgVars, siteVars>>,
         at'[q] = at[q] => QuietOvpn(q) /\ QuietWG(q) /\ QuietSites(q)
  PROVE  QuietOvpn(q)' /\ QuietWG(q)' /\ QuietSites(q)'
<1>1. CASE at'[q] \in {"start", "failed"}
  BY <1>1, NotQuiet DEF Over
<1>2. CASE at'[q] = at[q]
  <2>1. /\ \A type : Keeps(type) /\ KeepsMgmt(type) /\ KeepsNet(type)
        /\ Loads
    BY DEF Keeps, KeepsMgmt, KeepsNet, Loads, configVars
  <2> QED
    BY <1>2, <2>1, OvpnStays, WGStays, SitesStay
<1> QED
  BY <1>1, <1>2

LEMMA NextQuiet ==
  ASSUME Typed, AloneInv, QuietInv, [Next]_vars
  PROVE  /\ QuietInv'
         /\ \A r \in alone' \cap Request : at[r] # "done" /\ at'[r] = "done" => InForce(r)'
<1>0. DOMAIN at = Request /\ alone \subseteq Request
  BY DEF Typed, Shapes, TypeOK
<1>1. ASSUME UNCHANGED <<kind, who, asks, rows, seen, configVars, ovpnVars, wgVars, siteVars>>,
             alone' \subseteq Request,
             \A q \in alone' : \/ at'[q] \in {"start", "failed"}
                               \/ at'[q] = at[q] /\ q \in alone
      PROVE  /\ QuietInv'
             /\ \A r \in alone' \cap Request :
                  at[r] # "done" /\ at'[r] = "done" => InForce(r)'
  <2>1. NamesApart'
    BY <1>1 DEF QuietInv, NamesApart, Clients, ovpnVars
  <2>2. ASSUME NEW q \in alone' PROVE QuietOvpn(q)' /\ QuietWG(q)' /\ QuietSites(q)'
    <3>1. CASE at'[q] \in {"start", "failed"}
      BY <1>1, <2>2, <3>1, NotQuiet DEF Over
    <3>2. CASE at'[q] = at[q] /\ q \in alone
      BY <1>1, <2>2, <3>2, OthersQuiet DEF QuietInv
    <3> QED
      BY <1>1, <2>2, <3>1, <3>2
  <2> QED
    BY <1>1, <2>1, <2>2 DEF QuietInv
<1>2. ASSUME NEW r \in Request, Goes(r)
      PROVE  /\ QuietInv'
             /\ \A q \in alone' \cap Request :
                  at[q] # "done" /\ at'[q] = "done" => InForce(q)'
  <2>1. /\ UNCHANGED <<kind, who, asks, rows, seen, configVars, ovpnVars, wgVars, siteVars>>
        /\ alone' \subseteq alone \cup {r}
        /\ at'[r] \in {"start", "failed"} /\ \A q \in Request \ {r} : at'[q] = at[q]
    BY <1>0, <1>2 DEF Goes, Begin, Fail, NoLocals, Step
  <2> QED
    BY <1>0, <1>1, <2>1
<1>3. ASSUME Breaks
      PROVE  /\ QuietInv'
             /\ \A q \in alone' \cap Request :
                  at[q] # "done" /\ at'[q] = "done" => InForce(q)'
  <2>1. /\ UNCHANGED <<kind, who, asks, rows, seen, configVars, ovpnVars, wgVars, siteVars>>
        /\ alone' = alone
        /\ \A q \in Request : at'[q] = at[q] \/ at'[q] = "failed"
    BY <1>0, <1>3 DEF Breaks, Crash, NoLocals
  <2> QED
    BY <1>0, <1>1, <2>1
<1>4. CASE UNCHANGED vars
  BY <1>0, <1>1, <1>4 DEF vars, callVars
<1>5. ASSUME NEW r \in Request, VpnStep(r)
      PROVE  /\ QuietInv'
             /\ \A q \in alone' \cap Request :
                  at[q] # "done" /\ at'[q] = "done" => InForce(q)'
  <2>1. /\ kind' = kind /\ alone' = alone /\ at[r] \notin Over \cup {"new"}
        /\ \A q \in Request \ {r} : at'[q] = at[q]
    BY <1>5, StepTouches DEF Touches
  <2>2. NamesApart' /\ NamesApart
    BY <1>5, NamesOn DEF QuietInv
  <2>3. ASSUME NEW q \in alone \ {r} PROVE QuietOvpn(q)' /\ QuietWG(q)' /\ QuietSites(q)'
    <3>1. q \in Request \ {r} /\ q \in alone
      BY <1>0, <2>3
    <3>2. at[q] \in Over \/ Vpn(r) # Vpn(q)
      BY <2>1, <3>1 DEF AloneInv, Active, Over
    <3> QED
      BY <1>5, <3>1, <3>2, OtherStays DEF QuietInv
  <2>4. CASE r \in alone
    <3>1. /\ QuietOvpn(r)' /\ QuietWG(r)' /\ QuietSites(r)'
          /\ at'[r] = "done" => InForce(r)'
      BY <1>5, <2>2, <2>4, OwnStep DEF QuietInv
    <3> QED
      BY <2>1, <2>2, <2>3, <3>1 DEF QuietInv
  <2>5. CASE r \notin alone
    BY <1>0, <2>1, <2>2, <2>3, <2>5 DEF QuietInv
  <2> QED
    BY <2>4, <2>5
<1> QED
  BY <1>2, <1>3, <1>4, <1>5, NextIs

(* An apply or a save beside which nothing of its VPN ran leaves exactly   *)
(* what the tables and it say (handleOvpnApply, handleWGApply,             *)
(* handleWGSApply, handleWGSLocalSet), whatever failed or crashed before,  *)
(* but for a save that could not read the firewall file or found its       *)
(* address in the network file of an interface that has another.           *)
THEOREM QuietApplyAlwaysExact == Spec => QuietApplyIsExact
<1> DEFINE IInv == Typed /\ AloneInv /\ QuietInv
<1>1. Init => IInv
  <2> SUFFICES ASSUME Init PROVE IInv
    OBVIOUS
  <2>1. PICK s \in Scenario : CallInit(s) /\ OpenVPNInit(s)
    BY DEF Init
  <2>2. NamesApart
    BY <2>1, OpenVPNAssumption DEF OpenVPNInit, NamesApart, Clients
  <2>3. alone = {}
    BY <2>1 DEF CallInit
  <2> QED
    BY <2>2, <2>3, InitTyped, InitAlone DEF QuietInv
<1>2. IInv /\ [Next]_vars => IInv'
  BY NextTyped, NextAlone, NextQuiet
<1>3. IInv /\ IInv' /\ [Next]_vars =>
        [\A r \in Request :
           at[r] # "done" /\ at'[r] = "done" /\ r \in alone => InForce(r)']_vars
  <2> SUFFICES ASSUME IInv, IInv', Next, NEW r \in Request,
                      at[r] # "done", at'[r] = "done", r \in alone
               PROVE  InForce(r)'
    OBVIOUS
  <2>1. r \in alone'
    <3>1. CASE Breaks
      BY <3>1 DEF Breaks, Crash, NoLocals
    <3>2. CASE \E q \in Request : VpnStep(q)
      BY <3>2, StepTouches DEF Touches
    <3>3. ASSUME NEW q \in Request, Goes(q) PROVE r \in alone'
      <4>1. FALSE
        BY <3>3 DEF Goes, Begin, Fail, NoLocals, Step, Typed, Shapes
      <4> QED
        BY <4>1
    <3> QED
      BY <3>1, <3>2, <3>3, NextIs
  <2> QED
    BY <2>1, NextQuiet
<1> QED
  BY <1>1, <1>2, <1>3, PTL DEF Spec, QuietApplyIsExact
=============================================================================
