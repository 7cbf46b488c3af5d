------------------------------ MODULE Services ------------------------------
(***************************************************************************)
(* The handlers of saguaro-core that write the configuration of a service  *)
(* and have the service read it: networks on a port or a VLAN, DHCP, IPv6, *)
(* OSPF, several WANs, QoS, dynamic DNS, banIP and adblock, the hardening  *)
(* measures, the port scan rules, the UPS, the system's own settings and   *)
(* the crontab.                                                            *)
(*                                                                         *)
(* Each handler is a script of steps, and each section it writes a part of *)
(* a file, whose value is the wish of the request that wrote it; None is a *)
(* section that is not there, or turned off.  What the values say is left  *)
(* out.                                                                    *)
(***************************************************************************)
EXTENDS Calls, Sequences

CONSTANT Wish    \* settings somebody may ask for

ASSUME ServicesAssumption == None \notin Wish

(* What is written: the part, its file, and the service that reads it.     *)
PartTable == {
  <<"vlan.network", "network", "network">>, <<"vlan.dhcp", "dhcp", "dnsmasq">>,
  <<"vlan.zone", "firewall", "firewall">>,
  <<"ipv6.network", "network", "network">>, <<"ipv6.dhcp", "dhcp", "odhcpd">>,
  <<"ospf.rules", "firewall", "firewall">>, <<"bird.conf", "bird.conf", "bird">>,
  <<"qos", "sqm", "sqm">>, <<"ddns", "ddns", "ddns">>,
  <<"mwan", "mwan3", "mwan3">>,
  <<"hosts", "dhcp", "dnsmasq">>, <<"server", "dhcp", "dnsmasq">>,
  <<"pool", "dhcp", "dnsmasq">>, <<"dnswan", "dhcp", "dnsmasq">>,
  <<"banip", "banip", "banip">>, <<"allowlist", "allowlist", "banip">>,
  <<"adblock", "adblock-fast", "adblock-fast">>,
  <<"rpfilter", "sysctl.conf", "kernel">>, <<"icmp", "firewall", "firewall">>,
  <<"bogon", "firewall", "firewall">>, <<"ipsec", "firewall", "firewall">>,
  <<"luci", "uhttpd", "uhttpd">>, <<"scan", "scan.nft", "firewall">>,
  <<"nut.server", "nut_server", "nut-server">>,
  <<"nut.monitor", "nut_monitor", "nut-monitor">>,
  <<"nut.rules", "firewall", "firewall">>,
  <<"hostname", "system", "system">>, <<"syslog", "system", "log">>,
  <<"zone", "system", "system">>, <<"ntp", "system", "sysntpd">>,
  <<"logstore", "system", "log">>, <<"logrotate", "crontab", "cron">>,
  <<"backup", "crontab", "cron">>}

Part == {row[1] : row \in PartTable}
RowOf(p) == CHOOSE row \in PartTable : row[1] = p
FileOf == [p \in Part |-> RowOf(p)[2]]
ReaderOf == [p \in Part |-> RowOf(p)[3]]
Network == {"vlan.network", "vlan.dhcp", "vlan.zone"}
Crontab == {"logrotate", "backup"}

(* The configs of D-011; the other files are Saguaro's or the system's.    *)
Config == {"network", "dhcp", "firewall", "sqm", "ddns", "mwan3", "banip",
           "adblock-fast", "uhttpd", "nut_server", "nut_monitor", "system"}

VARIABLES
  file,     \* value of each part in its file
  run,      \* value of each part that its reader has loaded
  wish,     \* what each request asks for
  line,     \* the step of its script each request takes next
  read,     \* local: values of parts the handler has read
  copied,   \* files whose present content was copied (history)
  missed,   \* parts a request has passed over, left alone or not read (history)
  blind     \* has a failed read been taken for an empty file? (history)

serviceVars == <<file, run, wish, line, read, copied, missed, blind>>

----------------------------------------------------------------------------
(* Steps.  The error of one in Try is passed over.                         *)
Do(what, on) == [do |-> what, on |-> on, must |-> TRUE]
Copy(f) == Do("copy", {f})             \* backupConfig
CommitAll(ps) == Do("commit", ps)      \* uciBatch, os.WriteFile
Commit(p) == CommitAll({p})
Load(s) == Do("load", {s})             \* serviceReload
Setting == Do("setting", {})           \* setSetting
CronRead(p) == Do("cronRead", Crontab \ {p})    \* for the others' lines
CronWrite(p) == Do("cronWrite", {p})
Stop(p) == Do("stop", {p})             \* answered as done if it is so already
Erase(p) == Do("erase", {p})           \* deleted if the handler has seen it
Skip(p) == Do("skip", {p})             \* so too, but only the next two steps
Try(step) == [step EXCEPT !.must = FALSE]

VlanCreate(w) ==
  <<Copy("network"), Copy("dhcp"), Copy("firewall"),
    Commit("vlan.network"), Commit("vlan.dhcp"), Commit("vlan.zone"),
    Load("network"), Load("dnsmasq"), Load("firewall")>>

(* Mutants: the network goes first; a file is not copied. *)
VlanDeleteDown(w) ==
  <<Copy("network"), Copy("dhcp"), Copy("firewall"),
    Commit("vlan.network"), Erase("vlan.dhcp"), Erase("vlan.zone"),
    Load("firewall"), Load("dnsmasq"), Load("network")>>
VlanDeleteBare(w) ==
  <<Copy("network"), Copy("dhcp"),
    Erase("vlan.zone"), Erase("vlan.dhcp"), Commit("vlan.network"),
    Load("firewall"), Load("dnsmasq"), Load("network")>>

VlanDelete(w) ==
  <<Copy("network"), Copy("dhcp"), Copy("firewall"),
    Erase("vlan.zone"), Erase("vlan.dhcp"), Commit("vlan.network"),
    Load("firewall"), Load("dnsmasq"), Load("network")>>

IPv6Set(w) ==
  <<Copy("network"), Copy("dhcp"), Commit("ipv6.network"), Commit("ipv6.dhcp"),
    Load("network"), Try(Load("odhcpd"))>>

(* The firewall is left alone when OSPF is off and there are no rules.     *)
OspfSet(w) ==
  <<Copy("bird.conf"), Commit("bird.conf"), Copy("firewall")>>
  \o (IF w = None THEN <<Skip("ospf.rules")>> ELSE <<>>)
  \o <<Commit("ospf.rules"), Load("firewall"), Setting>>
  \o (IF w = None THEN <<Try(Load("bird"))>> ELSE <<Load("bird")>>)

QosSet(w) == <<Copy("sqm"), Commit("qos"), Load("sqm")>>
DdnsSet(w) == <<Copy("ddns"), Commit("ddns"), Load("ddns")>>
MultiwanSet(w) == <<Copy("mwan3"), Commit("mwan"), Setting, Load("mwan3")>>

DHCPApply(w) == <<Copy("dhcp"), Commit("hosts"), Load("dnsmasq")>>
DHCPServerSet(w) == <<Copy("dhcp"), Commit("server"), Load("dnsmasq")>>
DHCPPoolSet(w) == <<Copy("dhcp"), Commit("pool"), Load("dnsmasq")>>

BanipSet(w) ==
  <<Copy("banip"), Commit("banip"), Commit("allowlist"), Load("banip")>>
AdblockSet(w) ==
  <<Copy("adblock-fast"), Commit("adblock"), Load("adblock-fast")>>

(* The hardening measures, which handleHardeningSet takes one by one; the  *)
(* first that fails ends it.                                               *)
RPFilter(w) ==
  IF w = None THEN <<Try(Commit("rpfilter")), Try(Load("kernel"))>>
              ELSE <<Commit("rpfilter"), Load("kernel")>>
ICMPLimit(w) ==
  <<Copy("firewall")>> \o (IF w = None THEN <<Stop("icmp")>> ELSE <<>>)
  \o <<Commit("icmp"), Load("firewall")>>
Bogon(w) ==
  IF w = None THEN <<Stop("bogon"), Commit("bogon"), Load("firewall")>>
              ELSE <<Copy("firewall"), Commit("bogon"), Load("firewall")>>
DNSWan(w) ==
  <<Copy("dhcp")>> \o (IF w = None THEN <<Stop("dnswan")>> ELSE <<>>)
  \o <<Commit("dnswan"), Load("dnsmasq")>>
LuciHTTPS(w) == <<Copy("uhttpd"), Commit("luci"), Load("uhttpd")>>
IPsecRules(w) ==
  <<Stop("ipsec")>> \o (IF w = None THEN <<>> ELSE <<Copy("firewall")>>)
  \o <<Commit("ipsec"), Load("firewall")>>

ScanSet(w) == <<Commit("scan"), Setting, Load("firewall")>>

(* applyUPSFirewall is only logged when it fails.                          *)
UPSSet(w) ==
  <<Copy("nut_server"), Copy("nut_monitor"), Try(Setting),
    Commit("nut.server"), Commit("nut.monitor"), Try(Setting),
    Try(Commit("nut.rules")), Try(Load("firewall")), Try(Load("nut-server"))>>
  \o (IF w = None THEN <<Try(Load("nut-monitor"))>> ELSE <<Load("nut-monitor")>>)

HostnameSet(w) ==
  <<Commit("hostname"), Try(Load("system")), Try(Setting)>>
SyslogSet(w) ==
  <<Copy("system")>> \o (IF w = None THEN <<Stop("syslog")>> ELSE <<>>)
  \o <<Commit("syslog"), Load("log")>>
TimeSet(w) ==
  <<Copy("system"), CommitAll({"zone", "ntp"}),
    Load("system"), Load("sysntpd"), Load("log")>>
LogStoreSet(w) ==
  <<Copy("system"), Commit("logstore"), Setting,
    CronRead("logrotate"), CronWrite("logrotate"), Load("cron"), Load("log")>>
BackupScheduleSet(w) == <<CronRead("backup"), CronWrite("backup"), Load("cron")>>

Script(k, w) ==
  CASE k = "vlanCreate" -> VlanCreate(w)   [] k = "vlanDelete" -> VlanDelete(w)
    [] k = "ipv6Set" -> IPv6Set(w)         [] k = "ospfSet" -> OspfSet(w)
    [] k = "qosSet" -> QosSet(w)           [] k = "ddnsSet" -> DdnsSet(w)
    [] k = "multiwanSet" -> MultiwanSet(w) [] k = "dhcpApply" -> DHCPApply(w)
    [] k = "dhcpServerSet" -> DHCPServerSet(w)
    [] k = "dhcpPoolSet" -> DHCPPoolSet(w) [] k = "banipSet" -> BanipSet(w)
    [] k = "adblockSet" -> AdblockSet(w)   [] k = "rpFilter" -> RPFilter(w)
    [] k = "icmpLimit" -> ICMPLimit(w)     [] k = "bogon" -> Bogon(w)
    [] k = "dnsWan" -> DNSWan(w)           [] k = "luciHTTPS" -> LuciHTTPS(w)
    [] k = "ipsecRules" -> IPsecRules(w)   [] k = "scanSet" -> ScanSet(w)
    [] k = "upsSet" -> UPSSet(w)           [] k = "hostnameSet" -> HostnameSet(w)
    [] k = "syslogSet" -> SyslogSet(w)     [] k = "timeSet" -> TimeSet(w)
    [] k = "logStoreSet" -> LogStoreSet(w)
    [] k = "backupSchedule" -> BackupScheduleSet(w)

Scripted == {"vlanCreate", "vlanDelete", "ipv6Set", "ospfSet", "qosSet",
  "ddnsSet", "multiwanSet", "dhcpApply", "dhcpServerSet", "dhcpPoolSet",
  "banipSet", "adblockSet", "rpFilter", "icmpLimit", "bogon", "dnsWan",
  "luciHTTPS", "ipsecRules", "scanSet", "upsSet", "hostnameSet", "syslogSet",
  "timeSet", "logStoreSet", "backupSchedule"}

(* The parts a handler writes. *)
Writes(k) ==
  UNION {s.on : s \in {t \in UNION {{Script(k, w)[i] : i \in DOMAIN Script(k, w)} :
                                    w \in Wish \cup {None}} :
                       t.do \in {"commit", "cronWrite", "erase"}}}

----------------------------------------------------------------------------
Blank == [p \in Part |-> None]

(* Failures, overlaps and hands on the shell have left the parts of the    *)
(* handlers called anything; the networks are made by the handlers alone.  *)
ServicesInit ==
  LET called == UNION {Writes(k) : k \in {kind[r] : r \in Request} \cap Scripted}
      free == (called \ Network) \cup (IF called \cap Crontab = {} THEN {} ELSE Crontab)
  IN  /\ \E f, l \in [free -> {None} \cup Wish], n \in {None} \cup Wish :
            /\ called \cap Network = {} => n = None
            /\ file = [p \in Part |-> IF p \in free THEN f[p]
                                     ELSE IF p \in Network THEN n ELSE None]
            /\ run = [p \in Part |-> IF p \in free THEN l[p] ELSE file[p]]
      /\ wish = [r \in Request |-> None] /\ line = [r \in Request |-> 0]
      /\ read = [r \in Request |-> Blank] /\ copied = {}
      /\ missed = [r \in Request |-> {}] /\ blind = FALSE

Code(r) == Script(kind[r], wish[r])
Now(r) == Code(r)[line[r]]

(* What is asked of a handler: a network to create is not there and one to *)
(* delete is.                                                              *)
Asked(k) ==
  CASE k = "vlanCreate" -> {w \in Wish : file["vlan.network"] = None}
    [] k = "vlanDelete" -> {w \in {None} : file["vlan.network"] # None}
    [] OTHER -> Wish \cup {None}

(* The request is read; vlan deletion looks at its sections, where a read  *)
(* that fails is taken for an empty file.                                  *)
Only(ps) == [p \in Part |-> IF p \in ps THEN file[p] ELSE None]

Arrive(r) ==
  /\ kind[r] \in Scripted /\ Step(r, kind[r], "start", "script")
  /\ \E w \in Asked(kind[r]) : wish' = [wish EXCEPT ![r] = w]
  /\ line' = [line EXCEPT ![r] = 1]
  /\ IF kind[r] # "vlanDelete" THEN UNCHANGED <<read, missed, blind>>
     ELSE \E gone \in {{}} \cup (IF MayFail THEN {{"vlan.dhcp"}, {"vlan.zone"}}
                                            ELSE {}) :
            /\ read' = [read EXCEPT ![r] = Only(Network \ gone)]
            /\ missed' = [missed EXCEPT ![r] = gone]
            /\ blind' = (blind \/ gone # {})
  /\ UNCHANGED <<file, run, copied>>

(* The next step, or the answer. *)
Goto(r, n) ==
  /\ Step(r, kind[r], "script", IF n > Len(Code(r)) THEN "done" ELSE "script")
  /\ line' = [line EXCEPT ![r] = n]
Onward(r) == Goto(r, line[r] + 1)

Takes(r, what) == at[r] = "script" /\ Now(r).do = what
Subject(r) == CHOOSE x \in Now(r).on : TRUE

CopyFile(r) ==
  /\ Takes(r, "copy") /\ Onward(r)
  /\ copied' = copied \cup Now(r).on
  /\ UNCHANGED <<file, run, wish, read, missed, blind>>

WriteTo(f) ==
  /\ file' = f
  /\ copied' = copied \ {FileOf[p] : p \in {p \in Part : f[p] # file[p]}}

CommitPart(r) ==
  /\ Takes(r, "commit") /\ Onward(r)
  /\ WriteTo([p \in Part |-> IF p \in Now(r).on THEN wish[r] ELSE file[p]])
  /\ UNCHANGED <<run, wish, read, missed, blind>>

ErasePart(r) ==
  /\ Takes(r, "erase") /\ Onward(r)
  /\ WriteTo([file EXCEPT ![Subject(r)] =
                IF read[r][Subject(r)] = None THEN @ ELSE None])
  /\ UNCHANGED <<run, wish, read, missed, blind>>

LoadService(r) ==
  /\ Takes(r, "load") /\ Onward(r)
  /\ run' = [p \in Part |-> IF ReaderOf[p] = Subject(r) THEN file[p] ELSE run[p]]
  /\ UNCHANGED <<file, wish, read, copied, missed, blind>>

WriteSetting(r) ==
  /\ Takes(r, "setting") /\ Onward(r)
  /\ UNCHANGED <<file, run, wish, read, copied, missed, blind>>

(* replaceCronLine: the crontab is read, and written with one line changed. *)
(* A read that fails is passed over and taken for an empty crontab, so that *)
(* the lines of the others are not written again.                          *)
ReadCrontab(r) ==
  /\ Takes(r, "cronRead") /\ Onward(r)
  /\ \/ read' = [read EXCEPT ![r] = Only(Crontab)] /\ UNCHANGED missed
     \/ /\ MayFail /\ read' = [read EXCEPT ![r] = Blank]
        /\ missed' = [missed EXCEPT ![r] = @ \cup Now(r).on]
  /\ UNCHANGED <<file, run, wish, copied, blind>>

(* Mutant: the other lines are not kept. *)
CrontabAlone(r, p) ==
  [q \in Part |-> IF q = p THEN wish[r] ELSE IF q \in Crontab THEN None ELSE file[q]]

CrontabWith(r, p) ==
  [q \in Part |-> IF q = p THEN wish[r]
                  ELSE IF q \in Crontab THEN read[r][q] ELSE file[q]]

WriteCrontab(r) ==
  /\ Takes(r, "cronWrite") /\ Onward(r)
  /\ WriteTo(CrontabWith(r, Subject(r)))
  /\ UNCHANGED <<run, wish, read, missed, blind>>

(* Nothing to do: the file is as asked, whatever the service runs. *)
Leave(r) ==
  /\ Takes(r, "stop") \/ Takes(r, "skip")
  /\ LET p == Subject(r)
     IN  IF file[p] # wish[r] THEN Onward(r) /\ UNCHANGED missed
         ELSE /\ Goto(r, IF Now(r).do = "skip" THEN line[r] + 3
                                               ELSE Len(Code(r)) + 1)
              /\ missed' = [missed EXCEPT ![r] = @ \cup {p}]
  /\ UNCHANGED <<file, run, wish, read, copied, blind>>

(* A step fails whose error is passed over. *)
PassStep(r) ==
  /\ MayFail /\ at[r] = "script" /\ ~Now(r).must /\ Onward(r)
  /\ missed' = [missed EXCEPT ![r] = @ \cup
        {p \in Part : p \in Now(r).on \/ ReaderOf[p] \in Now(r).on}]
  /\ UNCHANGED <<file, run, wish, read, copied, blind>>

ServicesStep(r) ==
  \/ Arrive(r) \/ CopyFile(r) \/ CommitPart(r) \/ ErasePart(r) \/ LoadService(r)
  \/ WriteSetting(r) \/ ReadCrontab(r) \/ WriteCrontab(r) \/ Leave(r) \/ PassStep(r)

(* After a reboot each service runs what its files say.                    *)
ServicesRestart(reboot) ==
  /\ run' = (IF reboot THEN file ELSE run)
  /\ UNCHANGED <<file, wish, line, read, copied, missed, blind>>

ServicesType ==
  /\ {file, run} \subseteq [Part -> Wish \cup {None}]
  /\ wish \in [Request -> Wish \cup {None}]
  /\ line \in [Request -> 0..12]
  /\ read \in [Request -> [Part -> Wish \cup {None}]]
  /\ missed \in [Request -> SUBSET Part]
  /\ copied \subseteq {FileOf[p] : p \in Part} /\ blind \in BOOLEAN
=============================================================================
