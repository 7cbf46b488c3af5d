------------------------------- MODULE Sites -------------------------------
(***************************************************************************)
(* Site to site tunnels of saguaro-core (core/wgsite.go): an interface of  *)
(* its own, the table of sites with the networks behind each, and the      *)
(* handler that makes sections of the enabled ones.                        *)
(* Networks are members of SiteNet; two overlap when they are the same.    *)
(***************************************************************************)
EXTENDS WireGuard

CONSTANTS
  Site,       \* rows of wg_sites
  SiteNet,    \* networks, of a site or of the tunnel between them
  Local       \* those the device serves or routes already

VARIABLES
  wgsFile,    \* address and port of sag_wgs0 in the network file
  wgsRun,     \* those the interface runs with
  wgsTold,    \* the last ones answered as applied (history)
  site        \* table wg_sites

siteVars == <<wgsFile, wgsRun, wgsTold, site>>

SiteRow == [ip : Asked, net : SiteNet, on : BOOLEAN]

(* The networks behind the sites there at first are apart. *)
ASSUME SitesAssumption ==
  \A s \in Scenario :
     /\ s.wgs \in SiteNet \cup {None}
     /\ s.sites \in [Site -> SiteRow \cup {None}]
     /\ \A t \in Site : \A u \in Site \ {t} :
           s.sites[t] # None /\ s.sites[u] # None => s.sites[t].net # s.sites[u].net

SitesInit(s) ==
  /\ wgsFile = s.wgs /\ wgsRun = s.wgs /\ wgsTold = None
  /\ site = s.sites

AllSites == {s \in Site : site[s] # None}

OnlySiteLocals == UNCHANGED <<configVars, crashes, siteVars>>

----------------------------------------------------------------------------
(* handleWGSLocalSet.  The interface is touched only when the file has     *)
(* something else, though it may not run with what the file has: an        *)
(* earlier save may have broken off between the two.  Otherwise only the   *)
(* firewall is written and reloaded.                                       *)

Behind == IF wgsRun = wgsFile THEN {} ELSE {"behind"}

WGSLocalRead(r) ==
  /\ kind[r] = "sLocal"
  /\ \E a \in SiteNet \ Local, allow \in BOOLEAN :
        /\ Step(r, "start", IF wgsFile = a THEN "sFwRead" ELSE "sNet")
        /\ asks' = Remember(asks, r, a)
        /\ seen' = Remember(seen, r,
                     (IF wgsFile = a THEN Behind ELSE {"changed"})
                     \cup (IF allow THEN {"mgmt"} ELSE {}))
  /\ UNCHANGED <<kind, who, rows, alone>> /\ OnlySiteLocals

WGSLocalNetwork(r) ==
  /\ kind[r] = "sLocal" /\ Step(r, "sNet", "sFwRead")
  /\ wgsFile' = asks[r]
  /\ NoLocals /\ UNCHANGED <<configVars, crashes, wgsRun, wgsTold, site>>

WGSReadFirewall(r) ==
  /\ kind[r] = "sLocal" /\ Step(r, "sFwRead", "sFw")
  /\ ReadFirewall(r)
  /\ UNCHANGED <<kind, who, asks, alone>> /\ OnlySiteLocals

WGSLocalFirewall(r) ==
  /\ kind[r] = "sLocal" /\ Step(r, "sFw", "sReload")
  /\ fwFile' = ZoneInput(fwFile, rows[r], "wgs", "mgmt" \in seen[r])
                 \cup {Full("wgs")}
  /\ NoLocals /\ UNCHANGED <<fwRun, netFile, netRun, crashes, siteVars>>

WGSLocalReload(r) ==
  /\ kind[r] = "sLocal" /\ Step(r, "sReload", "sUp")
  /\ LoadFirewall
  /\ NoLocals /\ UNCHANGED <<fwFile, netFile, netRun, crashes, siteVars>>

WGSLocalUp(r) ==
  /\ kind[r] = "sLocal" /\ Step(r, "sUp", "done")
  /\ IF "changed" \notin seen[r]
       THEN UNCHANGED <<wgsRun, netRun>>
       ELSE wgsRun' = wgsFile /\ IfUp("wgs")
  /\ wgsTold' = asks[r]
  /\ NoLocals /\ UNCHANGED <<fwFile, fwRun, netFile, crashes, wgsFile, site>>

----------------------------------------------------------------------------
(* validateWGSite: the network is free.  The row follows in a              *)
(* statement of its own, for which only the tunnel address must be free.   *)

(* Mutant: other sites' networks are not looked at. *)
FreeOfLocal(s, n) == n \notin Local \cup {wgsFile}

FreeNetwork(s, n) ==
  n \notin Local \cup {wgsFile} /\ \A t \in AllSites \ {s} : site[t].net # n

WGSValidate(r) ==
  /\ kind[r] \in {"sCreate", "sUpdate"} /\ wgsFile # None
  /\ Step(r, "start", "sRow")
  /\ \E s \in Site, n \in SiteNet :
        /\ (s \in AllSites) = (kind[r] = "sUpdate")
        /\ FreeNetwork(s, n)
        /\ who' = Remember(who, r, s) /\ asks' = Remember(asks, r, n)
  /\ UNCHANGED <<kind, rows, seen, alone>> /\ OnlySiteLocals

(* An update of a row that was deleted meanwhile finds none. *)
WGSiteWrite(r) ==
  LET s == who[r] IN
  /\ kind[r] \in {"sCreate", "sUpdate"} /\ at[r] = "sRow"
  /\ IF kind[r] = "sUpdate" /\ s \notin AllSites
       THEN Step(r, "sRow", "failed") /\ UNCHANGED site
       ELSE /\ Step(r, "sRow", "done")
            /\ \E ip \in Asked, on \in BOOLEAN :
                 /\ Acceptable(TRUE, ip)
                 /\ \A t \in AllSites \ {s} : site[t].ip # ip
                 /\ site' = [site EXCEPT ![s] =
                               [ip |-> ip, net |-> asks[r], on |-> on]]
  /\ NoLocals /\ UNCHANGED <<configVars, crashes, wgsFile, wgsRun, wgsTold>>

WGSiteDelete(r) ==
  /\ kind[r] = "sDelete" /\ Step(r, "start", "done")
  /\ \E s \in AllSites : site' = [site EXCEPT ![s] = None]
  /\ NoLocals /\ UNCHANGED <<configVars, crashes, wgsFile, wgsRun, wgsTold>>

----------------------------------------------------------------------------
(* handleWGSApply: a section lists the tunnel address and the network.     *)

SiteSections ==
  LET on == {s \in AllSites : site[s].on}
  IN  {<<"wgs", s, <<"ip", site[s].ip>>>> : s \in on}
        \cup {<<"wgs", s, <<"net", site[s].net>>>> : s \in on}

ReadSiteSections(r) ==
  /\ kind[r] = "sApply" /\ wgsFile # None /\ Step(r, "start", "sSites")
  /\ seen' = Remember(seen, r, Owners(netFile, "wgs"))
  /\ UNCHANGED <<kind, who, asks, rows, alone>> /\ OnlySiteLocals

ReadSites(r) ==
  /\ kind[r] = "sApply" /\ Step(r, "sSites", "sBatch")
  /\ rows' = Remember(rows, r, SiteSections)
  /\ UNCHANGED <<kind, who, asks, seen, alone>> /\ OnlySiteLocals

WriteSites(r) ==
  /\ kind[r] = "sApply" /\ Step(r, "sBatch", "sSiteUp")
  /\ netFile' = Batch(netFile, "wgs", seen[r], rows[r])
  /\ NoLocals /\ UNCHANGED <<fwFile, fwRun, netRun, crashes, siteVars>>

SitesUp(r) ==
  /\ kind[r] = "sApply" /\ Step(r, "sSiteUp", "done")
  /\ IfUp("wgs") /\ wgsRun' = wgsFile
  /\ NoLocals
  /\ UNCHANGED <<fwFile, fwRun, netFile, crashes, wgsFile, wgsTold, site>>

SitesStep(r) ==
  \/ WGSLocalRead(r) \/ WGSLocalNetwork(r)
  \/ WGSReadFirewall(r) \/ WGSLocalFirewall(r)
  \/ WGSLocalReload(r) \/ WGSLocalUp(r)
  \/ WGSValidate(r) \/ WGSiteWrite(r) \/ WGSiteDelete(r)
  \/ ReadSiteSections(r) \/ ReadSites(r) \/ WriteSites(r) \/ SitesUp(r)

SitesType ==
  /\ {wgsFile, wgsRun, wgsTold} \subseteq SiteNet \cup {None}
  /\ \A s \in Site : site[s] = None \/ site[s] \in SiteRow
=============================================================================
