-------------------------------- MODULE Proxy --------------------------------
(***************************************************************************)
(* The published web sites of saguaro-core and its certificates: the sites *)
(* behind HAProxy (core/proxy.go), the certificates the acme package gets  *)
(* for them (core/acme.go), and the one of the user interface with the     *)
(* store the TLS server takes it from (core/guicert.go).  The package      *)
(* proves a name on port 80, which the firewall hands either to HAProxy or, *)
(* without it, to the challenge server: rules sag_rp_* and sag_ac_*.       *)
(*                                                                         *)
(* HAProxy's configuration is the set of the sites in it, each with        *)
(* whether the device opens its TLS.  A certificate is its version, newer  *)
(* ones having the later time of modification; HAProxy, the package and    *)
(* its nightly renewals are external.                                      *)
(***************************************************************************)
EXTENDS Calls

CONSTANTS
  Host,        \* names of sites and of the interface
  Example,     \* the package's own haproxy.cfg, with its open ports
  MaxIssued    \* bound: certificates the package gets

VARIABLES
  site,        \* table rp_sites, by host name
  guiHost,     \* setting gui_cert_host
  acme,        \* hosts with a section of ours in /etc/config/acme
  cert,        \* version of each host's certificate, 0 if none was issued
  links,       \* hosts with a link in the proxy's directory of certificates
  proxyFile,   \* haproxy.cfg, None if the package is not there
  proxyRun,    \* the configuration HAProxy runs, None if it is stopped
  onBoot,      \* is HAProxy started at boot?
  portFile,    \* who has port 80 in /etc/config/firewall: "rp", "gui"
  portRun,     \* and in the firewall
  store,       \* certStore: host and version served, <<None, 0>> self-signed
  loaded,      \* local: the certificate a reload has read
  watch,       \* step of certStore.watch
  sites,       \* local: rows, and then the configuration, of each request
  ports,       \* local: the port 80 rules each request has read
  passed,      \* requests that went on after a step failed (history)
  crossed      \* have two reloads of the store overlapped? (history)

proxyVars == <<site, guiHost, acme, cert, links, proxyFile, proxyRun, onBoot,
               portFile, portRun, store, loaded, watch, sites, ports, passed,
               crossed>>
packageVars == <<proxyFile, proxyRun, onBoot>>
storeVars == <<store, loaded, watch, crossed>>
portVars == <<portFile, portRun, ports>>

SiteRow == [on : BOOLEAN, acme : BOOLEAN]
SelfSigned == <<None, 0>>
Watcher == "watch"

ASSUME ProxyAssumption ==
  \A s \in Scenario : /\ s.site \in [Host -> SiteRow \cup {None}]
                      /\ s.ports \subseteq {"rp", "gui"}

ProxyInit(s) ==
  /\ site = s.site /\ guiHost = s.guiHost /\ acme = {}
  /\ cert = [h \in Host |-> IF h \in s.issued THEN 1 ELSE 0]
  /\ links = {} /\ proxyFile = s.proxy /\ proxyRun = None /\ onBoot = FALSE
  /\ portFile = s.ports /\ portRun = s.ports
  /\ store = (IF guiHost \in s.issued THEN <<guiHost, 1>> ELSE SelfSigned)
  /\ loaded = [a \in Request \cup {Watcher} |-> None]
  /\ watch = "idle"
  /\ sites = [r \in Request |-> {}] /\ ports = [r \in Request |-> {}]
  /\ passed = {} /\ crossed = FALSE

----------------------------------------------------------------------------
(* The table of sites; a host name can be there once. *)

Sites == {h \in Host : site[h] # None}

OnlySite == UNCHANGED <<guiHost, acme, cert, links, packageVars, portVars,
                        storeVars, sites, passed>>

SiteCreate(r) ==
  /\ Step(r, "siteSave", "start", "done")
  /\ \E h \in Host \ Sites, row \in SiteRow : site' = [site EXCEPT ![h] = row]
  /\ OnlySite

SiteUpdate(r) ==
  /\ Step(r, "siteSave", "start", "done")
  /\ \E h \in Sites, row \in SiteRow : \E g \in (Host \ Sites) \cup {h} :
        site' = [[site EXCEPT ![h] = None] EXCEPT ![g] = row]
  /\ OnlySite

SiteDelete(r) ==
  /\ Step(r, "siteDelete", "start", "done")
  /\ \E h \in Sites : site' = [site EXCEPT ![h] = None]
  /\ OnlySite

----------------------------------------------------------------------------
(* handleProxyInstall: the package starts with an example that has open    *)
(* ports; a configuration that is not ours is stopped and replaced by an   *)
(* empty one.                                                              *)
Managed == proxyFile \notin {None, Example}

InstallPackage(r) ==
  /\ Step(r, "install", "start", "stop")
  /\ IF proxyFile # None THEN UNCHANGED packageVars
     ELSE proxyFile' = Example /\ proxyRun' = Example /\ onBoot' = TRUE
  /\ UNCHANGED <<site, guiHost, acme, cert, links, portVars, storeVars, sites,
                 passed>>

(* Errors of `stop` and `disable` are passed over. *)
InstallStop(r) ==
  /\ Step(r, "install", "stop", IF Managed THEN "done" ELSE "write")
  /\ \/ Managed /\ UNCHANGED <<proxyRun, onBoot, passed>>
     \/ ~Managed /\ proxyRun' = None /\ onBoot' = FALSE /\ UNCHANGED passed
     \/ /\ ~Managed /\ MayFail /\ passed' = passed \cup {r}
        /\ proxyRun' \in {proxyRun, None} /\ onBoot' \in {onBoot, FALSE}
  /\ UNCHANGED <<site, guiHost, acme, cert, links, proxyFile, portVars,
                 storeVars, sites>>

InstallWrite(r) ==
  /\ Step(r, "install", "write", "done")
  /\ proxyFile' = {}
  /\ UNCHANGED <<site, guiHost, acme, cert, links, proxyRun, onBoot, portVars,
                 storeVars, sites, passed>>

----------------------------------------------------------------------------
(* What several handlers call.  Where a call ends is named by After.       *)

After(r, call) ==
  CASE call = "acme" -> (CASE kind[r] = "proxyApply" -> "write"
                           [] kind[r] = "guiSet" -> "load"
                           [] OTHER -> "renew")
    [] call = "sync" -> IF kind[r] = "proxyApply" THEN "done" ELSE "acme"
    [] call = "ports" -> "sync"

Steps(r, l, m) == \E k \in {kind[r]} : Step(r, k, l, m)

Enabled == {<<h, site[h].acme>> : h \in {h \in Sites : site[h].on}}
AcmeHosts(rows) == {s[1] : s \in {s \in rows : s[2]}}

(* What a handler holds of a site: its row, and whether linkCerts has come *)
(* to it; later, whether its certificate was found.                        *)
Unlinked(rows) == {<<s[1], s[2], FALSE>> : s \in rows}
ToLink(rows) == {s \in rows : s[2] /\ ~s[3]}

(* linkCerts: the old links go, but for what cannot be removed, which is   *)
(* passed over.                                                            *)
WipeLinks(r) ==
  /\ kind[r] \in {"proxyApply", "acmeIssue"} /\ Steps(r, "wipe", "link")
  /\ \/ links' = {} /\ UNCHANGED passed
     \/ MayFail /\ links' \in SUBSET links /\ passed' = passed \cup {r}
  /\ UNCHANGED <<site, guiHost, acme, cert, packageVars, portVars, storeVars,
                 sites>>

(* Then one by one each site that wants a certificate and has one gets a   *)
(* link; it fails where one is there already.                              *)
LinkCert(r) ==
  /\ kind[r] \in {"proxyApply", "acmeIssue"} /\ Steps(r, "link", "link")
  /\ \E s \in ToLink(sites[r]) :
        /\ sites' = [sites EXCEPT ![r] = (@ \ {s}) \cup {<<s[1], s[2], TRUE>>}]
        /\ IF cert[s[1]] = 0 THEN UNCHANGED links
           ELSE s[1] \notin links /\ links' = links \cup {s[1]}
  /\ UNCHANGED <<site, guiHost, acme, cert, packageVars, portVars, storeVars,
                 passed>>

(* The names a certificate is wanted for: sites, and the interface's if it *)
(* has one.                                                                *)

NamesWanted(rows) == AcmeHosts(rows) \cup ({guiHost} \ {None})

(* writeAcmeConfig: our sections are made anew of the sites that want a    *)
(* certificate, as read before, and of the interface's name.               *)
WriteAcme(r) ==
  /\ kind[r] \in {"proxyApply", "guiSet", "guiIssue", "acmeIssue"}
  /\ Steps(r, "acme", After(r, "acme"))
  /\ LET rows == IF kind[r] \in {"guiSet", "guiIssue"} THEN Enabled
                                                        ELSE sites[r]
     IN  acme' = NamesWanted(rows)
  /\ UNCHANGED <<site, guiHost, cert, links, packageVars, portVars, storeVars,
                 sites, passed>>

(* guiCertFirewallSync: port 80 goes to the challenge server if a name is  *)
(* set and the proxy does not have it.                                     *)
Wants(seen) == guiHost # None /\ "rp" \notin seen

OnlyPorts == UNCHANGED <<site, guiHost, acme, cert, links, packageVars,
                         storeVars, sites>>

SyncRead(r) ==
  /\ kind[r] \in {"proxyApply", "guiSet", "guiIssue"}
  /\ Steps(r, "sync", IF Wants(portFile) = ("gui" \in portFile)
                        THEN After(r, "sync") ELSE "syncCommit")
  /\ ports' = [ports EXCEPT ![r] = portFile]
  /\ UNCHANGED <<portFile, portRun, passed>> /\ OnlyPorts

SyncCommit(r) ==
  /\ Steps(r, "syncCommit", "syncReload")
  /\ portFile' = IF "gui" \in ports[r] THEN portFile \ {"gui"}
                                       ELSE portFile \cup {"gui"}
  /\ UNCHANGED <<portRun, ports, passed>> /\ OnlyPorts

SyncReload(r) ==
  /\ Steps(r, "syncReload", After(r, "sync"))
  /\ portRun' = portFile
  /\ UNCHANGED <<portFile, ports, passed>> /\ OnlyPorts

(* certStore.reload: what the setting and the file say is read, and then   *)
(* put into the store under its lock.                                      *)
Served == IF guiHost # None /\ cert[guiHost] > 0
            THEN <<guiHost, cert[guiHost]>> ELSE SelfSigned

LoadBy(a) ==
  /\ loaded' = [loaded EXCEPT ![a] = Served]
  /\ crossed' = (crossed \/ \E b \in DOMAIN loaded \ {a} : loaded[b] # None)
  /\ UNCHANGED store

StoreBy(a) ==
  /\ store' = loaded[a] /\ loaded' = [loaded EXCEPT ![a] = None]
  /\ UNCHANGED crossed

NotStore == UNCHANGED <<site, guiHost, acme, cert, links, packageVars,
                        portVars, sites, passed>>

LoadCert(r) ==
  /\ kind[r] \in {"guiSet", "guiIssue"} /\ Steps(r, "load", "store")
  /\ LoadBy(r) /\ NotStore /\ UNCHANGED watch

StoreCert(r) ==
  /\ Steps(r, "store", "done")
  /\ StoreBy(r) /\ NotStore /\ UNCHANGED watch

----------------------------------------------------------------------------
(* handleProxyApply. *)

OnlySites == UNCHANGED <<site, guiHost, acme, cert, links, packageVars,
                         portVars, storeVars, passed>>

ApplyRead(r) ==
  /\ proxyFile # None /\ Step(r, "proxyApply", "start", "wipe")
  /\ sites' = [sites EXCEPT ![r] = Unlinked(Enabled)]
  /\ OnlySites

(* A certificate is ready if its link is there. *)
ApplyReady(r) ==
  /\ ToLink(sites[r]) = {} /\ Step(r, "proxyApply", "link", "acme")
  /\ sites' = [sites EXCEPT ![r] = {<<s[1], s[2], s[1] \in links>> : s \in @}]
  /\ OnlySites

(* Mutant: a site is written before it has a certificate. *)
BuildAll(rows) == {<<s[1], s[2]>> : s \in rows}

(* buildHaproxyConfig: a site that wants a certificate and has none yet is *)
(* left out.                                                               *)
BuildConfig(rows) == {<<s[1], s[2]>> : s \in {s \in rows : s[2] => s[3]}}

ApplyWrite(r) ==
  /\ Step(r, "proxyApply", "write",
          IF sites[r] = {} THEN "stop" ELSE "restart")
  /\ proxyFile' = BuildConfig(sites[r])
  /\ UNCHANGED <<site, guiHost, acme, cert, links, proxyRun, onBoot, portVars,
                 storeVars, sites, passed>>

OnlyProxy == UNCHANGED <<site, guiHost, acme, cert, links, proxyFile, portVars,
                         storeVars, sites>>

ApplyStop(r) ==
  /\ Step(r, "proxyApply", "stop", "ports")
  /\ \/ proxyRun' = None /\ onBoot' = FALSE /\ UNCHANGED passed
     \/ MayFail /\ passed' = passed \cup {r} /\ UNCHANGED <<proxyRun, onBoot>>
  /\ OnlyProxy

ApplyRestart(r) ==
  /\ Step(r, "proxyApply", "restart", "ports")
  /\ proxyRun' = proxyFile /\ onBoot' = TRUE
  /\ UNCHANGED passed /\ OnlyProxy

(* rpFirewall: its rules are deleted where it has seen them, and added to  *)
(* open; with neither to do it returns.                                    *)
PortsRead(r) ==
  /\ Step(r, "proxyApply", "ports",
          IF sites[r] = {} /\ "rp" \notin portFile THEN "sync"
                                                   ELSE "portsCommit")
  /\ ports' = [ports EXCEPT ![r] = portFile]
  /\ UNCHANGED <<portFile, portRun, passed>> /\ OnlyPorts

PortsCommit(r) ==
  /\ Step(r, "proxyApply", "portsCommit", "portsReload")
  /\ portFile' = IF sites[r] = {} THEN portFile \ {"rp"}
                                  ELSE portFile \cup {"rp"}
  /\ UNCHANGED <<portRun, ports, passed>> /\ OnlyPorts

(* Mutant: port 80 is not handed over. *)
PortsReloadLast(r) ==
  /\ Step(r, "proxyApply", "portsReload", "done")
  /\ portRun' = portFile
  /\ UNCHANGED <<portFile, ports, passed>> /\ OnlyPorts

PortsReload(r) ==
  /\ Step(r, "proxyApply", "portsReload", "sync")
  /\ portRun' = portFile
  /\ UNCHANGED <<portFile, ports, passed>> /\ OnlyPorts

----------------------------------------------------------------------------
(* handleGuiCertSet and handleGuiCertIssue, handleAcmeIssue. *)

GuiSetting(r) ==
  /\ Step(r, "guiSet", "start", "sync")
  /\ \/ (\E h \in Host \cup {None} : guiHost' = h) /\ UNCHANGED passed
     \/ MayFail /\ passed' = passed \cup {r} /\ UNCHANGED guiHost
  /\ UNCHANGED <<site, acme, cert, links, packageVars, portVars, storeVars,
                 sites>>

GuiIssue(r) ==
  /\ guiHost # None /\ Step(r, "guiIssue", "start", "sync")
  /\ UNCHANGED proxyVars

AcmeIssueRead(r) ==
  /\ AcmeHosts(Enabled) # {} /\ Step(r, "acmeIssue", "start", "acme")
  /\ sites' = [sites EXCEPT ![r] = Unlinked(Enabled)]
  /\ OnlySites

(* The package is started and waited for, until the certificates are there *)
(* or it has ended without them.                                           *)
Renew(r) ==
  /\ kind[r] \in {"guiIssue", "acmeIssue"}
  /\ Steps(r, "renew", IF kind[r] = "guiIssue" THEN "load" ELSE "wipe")
  /\ UNCHANGED proxyVars

AcmeIssueLinked(r) ==
  /\ ToLink(sites[r]) = {} /\ Step(r, "acmeIssue", "link", "done")
  /\ UNCHANGED proxyVars

(* The calls whose errors the handler passes over: the rest goes on. *)
PassedOver(r) ==
  \/ kind[r] \in {"proxyApply", "guiSet"}
       /\ at[r] \in {"sync", "syncCommit", "syncReload"}
       /\ Steps(r, at[r], After(r, "sync"))
  \/ kind[r] = "guiSet" /\ at[r] = "acme" /\ Steps(r, "acme", "load")
  \/ /\ kind[r] = "proxyApply" /\ sites[r] = {}
     /\ at[r] \in {"ports", "portsCommit", "portsReload"}
     /\ Steps(r, at[r], "sync")

PassOver(r) ==
  /\ MayFail /\ PassedOver(r)
  /\ passed' = passed \cup {r}
  /\ UNCHANGED portVars /\ OnlyPorts

(* Steps at which an error does not end the handler. *)
GoesOn(r) ==
  \/ kind[r] = "guiSet"
  \/ kind[r] = "guiIssue" /\ at[r] \in {"load", "store"}
  \/ kind[r] = "proxyApply"
       /\ at[r] \in {"sync", "syncCommit", "syncReload", "stop"}
  \/ kind[r] = "install" /\ at[r] = "stop"
  \/ /\ kind[r] = "proxyApply" /\ sites[r] = {}
     /\ at[r] \in {"ports", "portsCommit", "portsReload"}

----------------------------------------------------------------------------
(* The package's certificates, asked for or by night: a name is proved on  *)
(* port 80, through the proxy or straight at the challenge server.         *)
Provable == \/ "gui" \in portRun
            \/ "rp" \in portRun /\ proxyRun \notin {None, Example}

Newest == CHOOSE v \in 0..MaxIssued :
            (\E h \in Host : cert[h] = v) /\ \A h \in Host : cert[h] <= v

Issue(h) ==
  /\ h \in acme /\ Provable /\ Newest < MaxIssued
  /\ cert' = [cert EXCEPT ![h] = Newest + 1]
  /\ UNCHANGED <<site, guiHost, acme, links, packageVars, portVars, storeVars,
                 sites, passed>>

(* certStore.watch, once a minute: the name is gone, the certificate is    *)
(* there for the first time, or it is newer than the one served.           *)
(* Mutant: a renewed certificate is not noticed. *)
StaleUnlessNew ==
  IF guiHost = None THEN store # SelfSigned
  ELSE cert[guiHost] > 0 /\ store = SelfSigned

Stale ==
  IF guiHost = None THEN store # SelfSigned
  ELSE IF cert[guiHost] > 0 THEN store = SelfSigned \/ cert[guiHost] > store[2]
  ELSE store # SelfSigned

WatchCheck ==
  /\ watch = "idle" /\ Stale /\ watch' = "read"
  /\ UNCHANGED <<store, loaded, crossed>> /\ NotStore

WatchRead ==
  /\ watch = "read" /\ watch' = "store" /\ LoadBy(Watcher) /\ NotStore

WatchStore ==
  /\ watch = "store" /\ watch' = "idle" /\ StoreBy(Watcher) /\ NotStore

Watch == WatchCheck \/ WatchRead \/ WatchStore

ProxyStep(r) ==
  \/ SiteCreate(r) \/ SiteUpdate(r) \/ SiteDelete(r)
  \/ InstallPackage(r) \/ InstallStop(r) \/ InstallWrite(r)
  \/ WriteAcme(r) \/ SyncRead(r) \/ SyncCommit(r) \/ SyncReload(r)
  \/ LoadCert(r) \/ StoreCert(r)
  \/ WipeLinks(r) \/ LinkCert(r)
  \/ ApplyRead(r) \/ ApplyReady(r) \/ ApplyWrite(r) \/ ApplyStop(r) \/ ApplyRestart(r)
  \/ PortsRead(r) \/ PortsCommit(r) \/ PortsReload(r)
  \/ GuiSetting(r) \/ GuiIssue(r) \/ AcmeIssueRead(r) \/ Renew(r)
  \/ AcmeIssueLinked(r) \/ PassOver(r)

ProxyBackground == Watch \/ \E h \in Host : Issue(h)

(* The service starts anew: the store is filled from the files.  A reboot  *)
(* starts the firewall and HAProxy from theirs.                            *)
ProxyRestart(reboot) ==
  /\ store' = Served /\ watch' = "idle"
  /\ loaded' = [a \in DOMAIN loaded |-> None]
  /\ portRun' = (IF reboot THEN portFile ELSE portRun)
  /\ proxyRun' = (IF ~reboot THEN proxyRun
                  ELSE IF onBoot THEN proxyFile ELSE None)
  /\ UNCHANGED <<site, guiHost, acme, cert, links, proxyFile, onBoot, portFile,
                 sites, ports, passed, crossed>>

ProxyType ==
  /\ site \in [Host -> SiteRow \cup {None}]
  /\ guiHost \in Host \cup {None} /\ acme \subseteq Host
  /\ cert \in [Host -> 0..MaxIssued] /\ links \subseteq Host
  /\ portFile \subseteq {"rp", "gui"} /\ portRun \subseteq {"rp", "gui"}
  /\ store[1] \in Host \cup {None} /\ store[2] \in 0..MaxIssued
  /\ watch \in {"idle", "read", "store"} /\ onBoot \in BOOLEAN
  /\ passed \subseteq Request /\ crossed \in BOOLEAN
=============================================================================
