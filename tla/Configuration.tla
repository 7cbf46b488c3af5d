---------------------------- MODULE Configuration ----------------------------
(***************************************************************************)
(* The parts of saguaro-core that write the configuration of the services  *)
(* of the device, together: Names, Proxy and Services.  What they share is  *)
(* the way they do it (copy, edit, commit, reload) and that nothing keeps  *)
(* two requests apart.                                                     *)
(***************************************************************************)
EXTENDS Names, Proxy, Services

vars == <<callVars, nameVars, proxyVars, serviceVars>>

Init ==
  \E s \in Scenario :
     CallsInit(s) /\ NamesInit(s) /\ ProxyInit(s) /\ ServicesInit

(* Steps whose error is passed over, or that have none, cannot fail. *)
Fails(r) ==
  /\ ~GoesOn(r) /\ at[r] \notin {"note", "noteSplit", "noteForward"}
  /\ at[r] = "script" => Now(r).must /\ Now(r).do # "cronRead"
  /\ Fail(r)

Next ==
  \/ \E r \in Request :
        \/ (Begin(r) \/ Fails(r)) /\ UNCHANGED <<nameVars, proxyVars, serviceVars>>
        \/ NamesStep(r) /\ UNCHANGED <<proxyVars, serviceVars>>
        \/ ProxyStep(r) /\ UNCHANGED <<nameVars, serviceVars>>
        \/ ServicesStep(r) /\ UNCHANGED <<nameVars, proxyVars>>
  \/ ProxyBackground /\ UNCHANGED <<callVars, nameVars, serviceVars>>
  \/ \E reboot \in BOOLEAN :
        /\ Crash /\ ProxyRestart(reboot) /\ ServicesRestart(reboot)
        /\ dnsRun' = (IF reboot THEN dnsFile ELSE dnsRun)
        /\ UNCHANGED <<tables, dnsFile, noted, dnssecAdded, got, chosen,
                       unnoted, stale>>

(* Goroutines and the watcher run on; nothing has to fail, and nobody has  *)
(* to send a request.                                                      *)
Fairness ==
  /\ WF_vars(Watch /\ UNCHANGED <<callVars, nameVars, serviceVars>>)
  /\ \A r \in Request : WF_vars(ProxyStep(r) /\ UNCHANGED <<nameVars, serviceVars>>)

Spec == Init /\ [][Next]_vars /\ Fairness

----------------------------------------------------------------------------
(* Every variable of the components has its type. *)
TypeOK == CallsType /\ NamesType /\ ProxyType /\ ServicesType

Finishes(r, k) == kind[r] = k /\ at[r] # "done" /\ at'[r] = "done" /\ r \in alone

(* Nothing was cut short so far. *)
Whole == crashes = 0 /\ \A r \in Request : at[r] # "failed"

(* An apply of the names that is answered as done, and beside which no     *)
(* other request ran, leaves dnsmasq with the records, with every enabled  *)
(* row and with the entries made by hand, after whatever applies that      *)
(* failed, overlapped or crashed (handleDNSApply).  As long as requests    *)
(* come one at a time it leaves nothing else, but for entries some apply   *)
(* has committed to the list and not noted in its setting.                 *)
NamesInForce ==
  [][\A r \in Request : Finishes(r, "namesApply") =>
       /\ dnsRun'.records = RecordSections
       /\ ByHand \cup Entries(split) \subseteq dnsRun'.address
       /\ ByHand \cup Entries(forward) \subseteq dnsRun'.server
       /\ Domains(Entries(forward)) \subseteq dnsRun'.rebind
       /\ InTurn =>
            /\ dnsRun'.address
                 \subseteq ByHand \cup Entries(split) \cup unnoted.split
            /\ dnsRun'.server \ Upstreams(dnsRun')
                 \subseteq ByHand \cup Entries(forward) \cup unnoted.forward
            /\ dnsRun'.rebind
                 \subseteq Domains(Entries(forward) \cup unnoted.forward)]_vars

(* Servers somebody has chosen stay the only ones dnsmasq asks, through    *)
(* applies of the names and DNSSEC on and off again, whatever of these     *)
(* fails, as long as no two requests overlap: a family filter does not end *)
(* quietly (handleDNSUpstreamSet).  Excepted is a choice that was answered *)
(* as saved, though the note that takes the servers from DNSSEC could not  *)
(* be written (dnsupstream.go:217 passes over the error): DNSSEC off does  *)
(* delete those, contrary to the comment above that line.                  *)
ChoiceStays ==
  InTurn /\ ~stale /\ chosen \notin {None, {}} =>
    /\ Upstreams(dnsFile) = {Upstream(s) : s \in chosen}
    /\ dnsFile.noresolv

(* What somebody has put in the lists by hand is never lost (D-011),       *)
(* whatever overlaps, fails or crashes.                                    *)
ByHandStays == ByHand \subseteq dnsFile.address \cap dnsFile.server

(* Port 80 has one owner: as long as requests come one at a time, none of  *)
(* them was cut short, by a failure or a restart, and no step of any was   *)
(* passed over, an apply of the sites leaves it with the proxy if there    *)
(* are sites, and otherwise with the challenge server if the interface has *)
(* a name; a change of the name keeps to that (guiCertFirewallSync).       *)
PortHasOneOwner ==
  [][\A r \in Request :
       /\ Finishes(r, "proxyApply") \/ Finishes(r, "guiSet")
       /\ Whole /\ InTurn /\ passed' = {}
       => /\ portRun' = IF "rp" \in portFile THEN {"rp"}
                        ELSE IF guiHost # None THEN {"gui"} ELSE {}
          /\ Finishes(r, "proxyApply") =>
               ("rp" \in portFile) = (Enabled # {})]_vars

(* After an apply beside which no other request ran HAProxy has the        *)
(* enabled sites and a certificate for each whose TLS the device opens: it *)
(* can load what it was given.                                             *)
SitesAreServed ==
  [][\A r \in Request :
       Finishes(r, "proxyApply") /\ passed' = {} =>
         /\ Enabled # {} => proxyRun' = proxyFile /\ onBoot
         /\ Enabled = {} => proxyRun' = None
         /\ AcmeHosts(proxyFile) \subseteq links
         /\ \A h \in Host : <<h, FALSE>> \in Enabled => <<h, FALSE>> \in proxyFile]_vars

(* What the setting and the file say comes to be what the TLS server      *)
(* gives out, after a change of the name, the first certificate and each   *)
(* renewal, without a restart (guicert.go:23), unless two reloads of the   *)
(* store overlapped.                                                       *)
ServesCurrent == store # Served ~> store = Served \/ crossed

(* A handler of Services that runs alone changes its own parts only, and   *)
(* when it answers as done they are as asked, in the files and in the      *)
(* services that read them, whatever failed or overlapped before.  Parts   *)
(* it found to be so already it leaves alone, and what it passes over may  *)
(* be missing.  A line of another in the crontab is lost only where the    *)
(* crontab could not be read (backup.go:583 passes over the error), though *)
(* the comment above says that others' lines are not touched.              *)
DoesAsAsked ==
  [][\A r \in alone : kind[r] \in Scripted =>
       /\ line'[r] # line[r] =>
            \A p \in Part \ Writes(kind[r]) :
               \/ file'[p] = file[p]
               \/ p \in Crontab \cap missed'[r] /\ file'[p] = None
       /\ Finishes(r, kind[r]) =>
            \A p \in Writes(kind[r]) \ missed'[r] :
               file'[p] = wish[r] /\ run'[p] = wish[r]]_vars

(* As long as requests come one at a time, a network of which anything is  *)
(* in the files can be deleted: whatever fails, its interface is the first *)
(* of it to come and the last to go (handleVlanCreate, handleVlanDelete).  *)
(* A failed read taken for an empty file excepted.                         *)
VlanCanGo ==
  InTurn /\ ~blind /\ (file["vlan.dhcp"] # None \/ file["vlan.zone"] # None)
    => file["vlan.network"] # None

Committed(r, f) ==
  line'[r] # line[r] /\ \E p \in Part : FileOf[p] = f /\ file'[p] # file[p]

(* D-011: before a commit the config is copied, so that it can be put back. *)
(* All the scripted handlers but four keep to it; of those of Proxy, which *)
(* have no scripts, rpFirewall (proxy.go:428-432), guiCertFirewallSync     *)
(* (guicert.go:190) and writeAcmeConfig (acme.go:129) commit without a     *)
(* copy, and the property says nothing of them.                            *)
CopiedFirst ==
  [][\A r \in alone, f \in Config :
       /\ Committed(r, f)
       /\ kind[r] \notin {"hostnameSet", "bogon", "ipsecRules", "upsSet"}
       => f \in copied]_vars

=============================================================================
