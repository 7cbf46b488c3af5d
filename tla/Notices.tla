------------------------------ MODULE Notices ------------------------------
(***************************************************************************)
(* What the device notices by itself and tells: the rounds of four         *)
(* goroutines (core/watchdog.go, monitor.go, ups.go, audit.go) and the     *)
(* calls that run beside them, each a sequence of checks.  A check looks   *)
(* how something is, recalls from the database how it was, remembers and   *)
(* tells; the order differs from check to check, and decides what a        *)
(* restart between two steps loses or repeats.  To tell is to write to the *)
(* log and, if the same text did not go out lately, to send a mail         *)
(* (core/alerts.go).  The monthly report and the mailed backup ask, send   *)
(* and record; the report counts traffic from a counter that starts anew   *)
(* with the device.  Every round here has the checks that the code makes   *)
(* in every fifth or 720th only, and how a thing "is" is what the look at  *)
(* it finds.                                                               *)
(***************************************************************************)
EXTENDS Naturals, Sequences, FiniteSets

CONSTANTS
  None,         \* nothing recalled, or not running
  Scenario,     \* what is watched, called and switched on at first
  Top,          \* bound of values, counters and months
  MaxChanges,   \* bound: changes of the world, of settings, and calls
  MaxFails,     \* bound: reads and mails that fail
  MaxCrashes,   \* bound: restarts of the service or the device
  Burst         \* failed logins between two rounds that are worth a notice

Subject == {"boot", "wan", "service", "daemon", "resource", "client",
            "logins", "scan", "traffic", "pubip", "cgnat", "prefix", "cert",
            "report", "host", "mac", "site", "comm", "power", "battery",
            "config", "backup"}
Loop == {"watchdog", "monitor", "ups", "audit"}
Call == {"run", "backup1", "backup2"}
Actor == Loop \cup Call
Switch == {"kinds", "unknown", "report", "backup"}
Value == 0..Top
Text == Subject \X Value

(* Told before they are remembered. *)
TellFirst == {"client", "site"}
(* Those whose every change is told, so that the log tells their state. *)
Followed == {"wan", "service", "daemon", "resource", "pubip", "prefix",
             "host", "comm", "power", "config", "report"} \cup TellFirst

ASSUME NoticesAssumption ==
  /\ None \notin Value \cup (Nat \X Nat)
  /\ Top \in Nat \ {0} /\ Burst \in Nat \ {0}
  /\ MaxChanges \in Nat /\ MaxFails \in Nat /\ MaxCrashes \in Nat
  /\ \A s \in Scenario : /\ s.checks \subseteq Subject
                         /\ s.calls \subseteq Call
                         /\ s.on \subseteq Switch /\ s.turn \subseteq Switch
                         /\ s.world \in [Subject -> Value]

VARIABLES
  given,      \* the scenario (never changes)
  on,         \* settings that are switched on
  world,      \* how each thing is: 0 or 1, a counter, an address, a month
  row,        \* of the watched host
  memory,     \* what the database remembers of each thing
  recent,     \* texts noted as sent within their period
  at,         \* the step of its round that each actor takes next, or None
  saw, was,   \* what it has seen and recalled
  counted,    \* traffic in the report
  changes, fails, crashes,
  (* History: *)
  announced, since,   \* how a thing is by the log, and has been since then
  disturbed,          \* things of which a check was cut off or overlapped
  mailed, repeated,   \* texts sent within their period, and once more
  passed,             \* traffic since it was first looked at
  boots               \* times the device was started

bounds == <<changes, fails, crashes>>
told == <<announced, since>>
mails == <<recent, mailed, repeated>>
noticeVars == <<given, on, world, row, memory, at, saw, was, counted, bounds,
                told, disturbed, mails, passed, boots>>

------------------------------------------------------------------------------
(* Rounds. *)

Checks(a) ==
  CASE a = "watchdog" -> <<"boot", "wan", "service", "daemon", "resource",
                           "client", "logins", "scan", "traffic", "pubip",
                           "cgnat", "prefix", "cert", "report">>
    [] a = "run"      -> <<"wan", "service", "resource", "client", "pubip",
                           "cgnat", "prefix", "cert">>
    [] a = "monitor"  -> <<"host", "mac", "site">>
    [] a = "ups"      -> <<"comm", "power", "battery">>
    [] a = "audit"    -> <<"config", "config">>
    [] OTHER          -> <<"backup">>

(* The checks of what is set up, by their places; the others return at once. *)
Round(a) == {i \in 1..Len(Checks(a)) : Checks(a)[i] \in given.checks}

TellSteps == <<"tell", "ask", "note">>

(* The steps of each check, in the order of the code.  What alertValue is  *)
(* asked about is remembered before it is told.                            *)
AlertValue == <<"look", "recall", "remember", "tell", "ask", "note">>
CheckReboot == AlertValue
CheckWAN == AlertValue
CheckServices == AlertValue
CheckDaemons == AlertValue
ResourceAlarm == AlertValue
CheckPublicIP == AlertValue
CheckCGNAT == AlertValue
CheckIPv6Prefix == AlertValue
CheckFailedLogins == AlertValue
CheckScanners == AlertValue
UnknownDevices == AlertValue
UPSEvents == AlertValue
ScanConfigs == AlertValue
CheckCerts == <<"look", "tell", "ask", "note">>
CheckVPNClients == <<"look", "recall", "tell", "ask", "note", "remember">>
(* Mutant: whether a site is reached is remembered before it is told. *)
SiteTunnelsForget == AlertValue
CheckSiteTunnels == <<"look", "recall", "tell", "ask", "note", "remember">>
MonitorHosts == <<"recall", "look", "remember", "tell", "ask", "note">>
ReportSample == <<"look", "recall", "remember", "add">>
ReportDue == <<"recall", "look", "send", "remember">>
MailBackupAfterCreate == <<"ask", "send", "note">>

Script ==
  [boot |-> CheckReboot, wan |-> CheckWAN, service |-> CheckServices,
   daemon |-> CheckDaemons, resource |-> ResourceAlarm,
   client |-> CheckVPNClients, logins |-> CheckFailedLogins,
   scan |-> CheckScanners, traffic |-> ReportSample, pubip |-> CheckPublicIP,
   cgnat |-> CheckCGNAT, prefix |-> CheckIPv6Prefix, cert |-> CheckCerts,
   report |-> ReportDue, host |-> MonitorHosts, mac |-> UnknownDevices,
   site |-> CheckSiteTunnels, comm |-> UPSEvents, power |-> UPSEvents,
   battery |-> UPSEvents, config |-> ScanConfigs,
   backup |-> MailBackupAfterCreate]

Steps(c) == Script[c]

Check(a) == Checks(a)[at[a][1]]
Does(a, step) == at[a] # None /\ Steps(Check(a))[at[a][2]] = step
Inside(a, c) == at[a] # None /\ Check(a) = c /\ at[a][2] > 1

First(S) == IF S = {} THEN None
            ELSE <<CHOOSE i \in S : \A j \in S : i <= j, 1>>

Start(a) == First(Round(a))

(* Done once: the look at the boot, and the first at the configuration. *)
Once(a) == IF a \in {"watchdog", "audit"} THEN {1} ELSE {}

(* A loop goes on with its next round. *)
Again(a) == IF a \in Call THEN None ELSE First(Round(a) \ Once(a))

NextCheck(a, without) ==
  LET rest == {i \in Round(a) : i > at[a][1] /\ Checks(a)[i] \notin without}
  IN  IF rest = {} THEN Again(a) ELSE First(rest)

(* Nothing more is read from a UPS that does not answer. *)
GoOn(a, n) ==
  at' = [at EXCEPT ![a] =
           IF @[2] + n <= Len(Steps(Check(a))) THEN <<@[1], @[2] + n>>
           ELSE NextCheck(a, IF Check(a) = "comm" /\ saw[a] = 0
                             THEN {"power", "battery"} ELSE {})]

Leave(a, without) == at' = [at EXCEPT ![a] = NextCheck(a, without)]

(* Another actor has the same check under way. *)
Meets(a) == at[a][2] = 1 /\ \E b \in Actor \ {a} : Inside(b, Check(a))

(* What a check has seen and recalled is forgotten when it ends. *)
Holds(a, v, p) ==
  LET over == at'[a] = None \/ at'[a][2] = 1
  IN  /\ saw' = [saw EXCEPT ![a] = IF over THEN None ELSE v]
      /\ was' = [was EXCEPT ![a] = IF over THEN None ELSE p]

(* scanConfigs(true): the first look after each start compares nothing, so *)
(* what has changed since the last one before is never told.               *)
Seeds(a) == a = "audit" /\ at[a][1] = 1
Swallows(a) == Seeds(a) /\ Does(a, "remember")
                /\ memory["config"] \notin {None, saw[a]}

Settled == UNCHANGED <<given, on, world, row, bounds, boots>>
Untold == UNCHANGED <<told, mails, counted, passed>>

------------------------------------------------------------------------------
(* The steps of a check. *)

(* Mutant: nothing is checked while notices are switched off. *)
OffWithNotices(c) == "kinds" \notin on \/ (c = "host" /\ row # "there")

(* Checks that are switched off, or have nothing to look at. *)
Off(c) == \/ c = "mac" /\ "unknown" \notin on
          \/ c = "report" /\ "report" \notin on
          \/ c = "backup" /\ "backup" \notin on
          \/ c = "host" /\ row # "there"

PassOver(a) ==
  /\ at[a] # None /\ at[a][2] = 1 /\ Off(Check(a))
  /\ Leave(a, {})
  /\ Holds(a, None, None) /\ UNCHANGED <<memory, disturbed>> /\ Settled /\ Untold

(* Actor a takes the given step of its check. *)
Takes(a, step) ==
  /\ Does(a, step)
  /\ at[a][2] = 1 => ~Off(Check(a))
  /\ disturbed' = disturbed \cup (IF Meets(a) \/ Swallows(a) THEN {Check(a)} ELSE {})
  /\ Settled

Look(a) ==
  /\ Takes(a, "look") /\ GoOn(a, 1)
  /\ Holds(a, world[Check(a)], was[a])
  /\ UNCHANGED memory /\ Untold

Recall(a) ==
  /\ Takes(a, "recall") /\ GoOn(a, 1)
  /\ Holds(a, saw[a], IF Seeds(a) THEN None ELSE memory[Check(a)])
  /\ UNCHANGED memory /\ Untold

(* What is written: alertValue and the loop over the hosts write when the  *)
(* value is another one, an address stays in seen_macs, and a host that is *)
(* deleted has no row.                                                     *)
Writes(a) ==
  CASE Check(a) = "mac"  -> saw[a] = 1
    [] Check(a) = "host" -> row = "there" /\ was[a] # saw[a]
    [] Check(a) \in {"boot", "client", "logins", "scan", "traffic", "report"} -> TRUE
    [] OTHER -> was[a] # saw[a]

Announces(c, v) ==
  /\ announced' = [announced EXCEPT ![c] = v]
  /\ since' = [since EXCEPT ![c] = {world[c]}]

(* The first time most checks only remember: the log starts from there. *)
Baseline(a) == /\ was[a] = None /\ announced[Check(a)] = None
               /\ Check(a) \in Followed \ {"client", "report"}

Remember(a) ==
  /\ Takes(a, "remember") /\ GoOn(a, 1)
  /\ memory' = IF Writes(a) THEN [memory EXCEPT ![Check(a)] = saw[a]] ELSE memory
  /\ IF Baseline(a) THEN Announces(Check(a), saw[a]) ELSE UNCHANGED told
  /\ passed' = IF Check(a) = "traffic" /\ was[a] = None
               THEN world["traffic"] - saw[a] ELSE passed
  /\ Holds(a, saw[a], was[a]) /\ UNCHANGED <<mails, counted>>

(* Is what was seen worth a notice, after what was recalled? *)
Else0(p) == IF p = None THEN 0 ELSE p
Changed(p, v) == p # None /\ p # v
Rebooted(p, v) == v < Top /\ (p = None \/ p > v)
ManyLogins(p, v) == p # None /\ p > 0 /\ v >= p + Burst

Notable(c, p, v) ==
  CASE c = "client" -> v # Else0(p)
    [] c = "scan"   -> v > Else0(p)
    [] c = "logins" -> ManyLogins(p, v)
    [] c = "boot"   -> Rebooted(p, v)
    [] c = "mac"    -> p = None /\ v = 1
    [] c = "cert"   -> v = 1
    [] c \in {"cgnat", "battery"} -> Changed(p, v) /\ v = 1
    [] OTHER        -> Changed(p, v)

(* alert writes the notice to the log. *)
Tell(a) ==
  LET c == Check(a)
  IN  /\ Takes(a, "tell")
      /\ IF Notable(c, was[a], saw[a])
         THEN GoOn(a, 1) /\ Announces(c, IF c = "boot" THEN boots ELSE saw[a])
         ELSE GoOn(a, Len(TellSteps)) /\ UNCHANGED told
      /\ Holds(a, saw[a], was[a]) /\ UNCHANGED <<memory, mails, counted, passed>>

TextOf(a) == <<Check(a), IF Check(a) = "backup" THEN 0 ELSE saw[a]>>

(* Mutant: whether it did go out lately is not asked. *)
DueAlways(a) == Check(a) = "backup" \/ "kinds" \in on

(* alertDue, backupMailDue: did this go out lately? *)
Due(a) == /\ Check(a) = "backup" \/ "kinds" \in on
          /\ TextOf(a) \notin recent

Ask(a) ==
  /\ Takes(a, "ask")
  /\ IF Due(a) THEN GoOn(a, 1)
     ELSE GoOn(a, IF Check(a) = "backup" THEN 3 ELSE 2)
  /\ Holds(a, saw[a], was[a]) /\ UNCHANGED memory /\ Untold

Mails(t) ==
  /\ mailed' = mailed \cup {t}
  /\ repeated' = repeated \cup ({t} \cap mailed)

(* The moment is remembered; a notice goes out with it, in a goroutine, a  *)
(* backup has gone out before.                                             *)
Note(a) ==
  /\ Takes(a, "note") /\ GoOn(a, 1)
  /\ recent' = recent \cup {TextOf(a)}
  /\ IF Check(a) = "backup" THEN UNCHANGED <<mailed, repeated>>
     ELSE Mails(TextOf(a))
  /\ Holds(a, saw[a], was[a]) /\ UNCHANGED <<memory, told, counted, passed>>

(* The report of a month goes out if none has been recorded for it. *)
Send(a) ==
  /\ Takes(a, "send")
  /\ IF Check(a) = "report" /\ was[a] = saw[a]
     THEN GoOn(a, 2) /\ UNCHANGED <<told, mailed, repeated>>
     ELSE /\ GoOn(a, 1) /\ Mails(TextOf(a))
          /\ IF Check(a) = "report" THEN Announces("report", saw[a])
             ELSE UNCHANGED told
  /\ Holds(a, saw[a], was[a]) /\ UNCHANGED <<memory, recent, counted, passed>>

(* Mutant: what the counter had before it was first seen is counted too. *)
DeltaOfAll(p, v) == IF p = None \/ v < p THEN v ELSE v - p

(* counterDelta: a counter that has become smaller has started anew. *)
Delta(p, v) == IF p = None THEN 0 ELSE IF v < p THEN v ELSE v - p

Add(a) ==
  /\ Takes(a, "add") /\ GoOn(a, 1)
  /\ counted' = counted + Delta(was[a], saw[a])
  /\ Holds(a, saw[a], was[a]) /\ UNCHANGED <<memory, told, mails, passed>>

(* A read that fails ends the check, and that of the public address the    *)
(* one for CGNAT with it.                                                  *)
LookFails(a) ==
  /\ Does(a, "look") /\ fails < MaxFails
  /\ Check(a) \notin {"service", "daemon", "client", "cgnat", "host", "comm",
                      "power", "battery", "site", "mac", "report"}
  /\ fails' = fails + 1
  /\ Leave(a, IF Check(a) = "pubip" THEN {"cgnat"} ELSE {})
  /\ Holds(a, None, None)
  /\ UNCHANGED <<given, on, world, row, memory, changes, crashes,
                 disturbed, boots>> /\ Untold

(* The failure is told, as a notice of its own, and nothing is recorded. *)
SendFails(a) ==
  /\ Does(a, "send") /\ ~(Check(a) = "report" /\ was[a] = saw[a])
  /\ fails < MaxFails /\ fails' = fails + 1
  /\ Leave(a, {})
  /\ Holds(a, None, None)
  /\ UNCHANGED <<given, on, world, row, memory, changes, crashes,
                 disturbed, boots>> /\ Untold

Step(a) == \/ PassOver(a) \/ Look(a) \/ Recall(a) \/ Remember(a) \/ Tell(a)
           \/ Ask(a) \/ Note(a) \/ Send(a) \/ Add(a)

------------------------------------------------------------------------------
(* The world, the settings and restarts. *)

(* Everything but these stays as it is. *)
Idle == UNCHANGED <<given, memory, at, saw, was, counted, fails, crashes,
                    announced, mailed, repeated, boots>>

Counts(c) == c \in {"traffic", "report"}
Bits == Subject \ {"pubip", "prefix", "config", "logins", "scan"}

(* Something becomes another; a counter and the month go on. *)
Change(c, v) ==
  /\ c \in given.moves /\ changes < MaxChanges
  /\ v # world[c]
  /\ IF Counts(c) THEN v = world[c] + 1 ELSE c \in Bits => v < 2
  /\ changes' = changes + 1
  /\ world' = [world EXCEPT ![c] = v]
  /\ since' = [since EXCEPT ![c] = @ \cup {v}]
  /\ passed' = IF c = "traffic" /\ memory[c] # None THEN passed + 1 ELSE passed
  /\ UNCHANGED <<on, row, recent, disturbed>> /\ Idle

(* The quiet time of a text, or the period of the backup mail, is over. *)
Expire(t) ==
  /\ t \in recent /\ t[1] # "report" /\ changes < MaxChanges
  /\ changes' = changes + 1
  /\ recent' = recent \ {t} /\ mailed' = mailed \ {t}
  /\ UNCHANGED <<given, on, world, row, memory, at, saw, was, counted, fails,
                 crashes, told, disturbed, repeated, passed, boots>>

(* The settings of notices, of new devices, of the report and of backups. *)
Turn(x) ==
  /\ x \in given.turn /\ changes < MaxChanges
  /\ changes' = changes + 1
  /\ on' = IF x \in on THEN on \ {x} ELSE on \cup {x}
  /\ UNCHANGED <<given, world, row, recent, at, saw, was, counted, fails,
                 crashes, told, mailed, repeated, passed, boots>>

AlertsSet == Turn("kinds") /\ UNCHANGED <<memory, disturbed>>
BackupMailSet == Turn("backup") /\ UNCHANGED <<memory, disturbed>>
ReportSettings == /\ Turn("report") /\ UNCHANGED memory
                  /\ disturbed' = disturbed \cup {"report"}

(* Before new devices are told about, those that are there are marked. *)
MonitorSettings ==
  /\ Turn("unknown") /\ UNCHANGED disturbed
  /\ memory' = IF "unknown" \notin on /\ world["mac"] = 1
               THEN [memory EXCEPT !["mac"] = 1] ELSE memory

MonitorCreate ==
  /\ row = "none" /\ "host" \in given.moves /\ row' = "there"
  /\ disturbed' = disturbed \ {"host"}
  /\ UNCHANGED <<on, world, changes, recent, since, passed>> /\ Idle

(* A host that is not there, or no more, is not looked at. *)
MonitorDelete ==
  /\ row = "there" /\ "host" \in given.moves /\ changes < MaxChanges
  /\ row' = "gone" /\ changes' = changes + 1
  /\ disturbed' = disturbed \cup {"host"}
  /\ UNCHANGED <<on, world, recent, since, passed>> /\ Idle

(* handleWatchdogRun, or a backup that may be mailed. *)
Begin(a) ==
  /\ a \in given.calls /\ at[a] = None /\ changes < MaxChanges
  /\ changes' = changes + 1
  /\ at' = [at EXCEPT ![a] = Start(a)]
  /\ UNCHANGED <<given, on, world, row, memory, saw, was, counted, fails,
                 crashes, told, disturbed, mails, passed, boots>>

(* The step is one after which a restart loses or repeats what is told or  *)
(* counted: half of remembering and telling, or of sending and recording,  *)
(* is done.                                                                *)
HalfDone(a) ==
  LET c == Check(a)
  IN  /\ at[a] # None
      /\ CASE c = "traffic" -> Does(a, "add")
           [] c = "report"  -> Does(a, "remember")
           [] c = "backup"  -> Does(a, "note")
           [] OTHER ->
                /\ IF c \notin TellFirst THEN Does(a, "tell")
                   ELSE \E step \in {"ask", "note", "remember"} : Does(a, step)
                /\ Notable(c, was[a], saw[a])

(* The service or the device goes down and comes up: rounds start again,   *)
(* calls are gone, and with the device its counters.  The boot is seen by  *)
(* the time the device has been up: Top stands for five minutes or more.   *)
Restart(reboot, up) ==
  LET now == [world EXCEPT !["boot"] = up,
                           !["traffic"] = IF reboot THEN 0 ELSE @]
  IN  /\ crashes < MaxCrashes /\ crashes' = crashes + 1
      /\ IF reboot THEN 0 < up /\ up < Top ELSE world["boot"] <= up
      /\ world' = now
      /\ since' = [c \in Subject |-> since[c] \cup {now[c]}]
      /\ boots' = boots + (IF reboot THEN 1 ELSE 0)
      /\ at' = [a \in Actor |-> IF a \in Loop THEN Start(a) ELSE None]
      /\ disturbed' = disturbed
           \cup {Check(a) : a \in {b \in Actor : HalfDone(b)}}
           \cup (IF reboot THEN {"traffic"} ELSE {})
      /\ saw' = [a \in Actor |-> None] /\ was' = [a \in Actor |-> None]
      /\ UNCHANGED <<given, on, row, memory, counted, changes, fails, announced, mails, passed>>

------------------------------------------------------------------------------
NoticesInit ==
  \E s \in Scenario :
    /\ given = s /\ on = s.on /\ world = s.world
    /\ row = "none"
    /\ memory = [c \in Subject |-> None]
    /\ at = [a \in Actor |-> IF a \in Loop THEN Start(a) ELSE None]
    /\ saw = [a \in Actor |-> None] /\ was = [a \in Actor |-> None]
    /\ recent = {} /\ mailed = {} /\ repeated = {}
    /\ counted = 0 /\ passed = 0 /\ boots = 1
    /\ changes = 0 /\ fails = 0 /\ crashes = 0
    /\ announced = [c \in Subject |-> IF c \notin s.checks THEN s.world[c]
                                      ELSE IF c = "client" THEN 0 ELSE None]
    /\ since = [c \in Subject |-> {s.world[c]}]
    /\ disturbed = {"host"}

NoticesNext ==
  \/ \E a \in Actor : Step(a) \/ LookFails(a) \/ SendFails(a) \/ Begin(a)
  \/ \E c \in Subject, v \in Value : Change(c, v)
  \/ \E t \in Text : Expire(t)
  \/ AlertsSet \/ BackupMailSet \/ ReportSettings \/ MonitorSettings
  \/ MonitorCreate \/ MonitorDelete
  \/ \E reboot \in BOOLEAN, up \in Value : Restart(reboot, up)

(* Each loop is a goroutine that goes on as long as the program runs; that *)
(* its reads and mails succeed in the end is the bound MaxFails.           *)
NoticesFairness == \A a \in Loop : WF_noticeVars(Step(a))

NoticesSpec == NoticesInit /\ [][NoticesNext]_noticeVars /\ NoticesFairness

------------------------------------------------------------------------------
(* Properties. *)

Known == Value \cup {None}

(* What a check writes, tells, sends or counts it has looked at before: no *)
(* order of steps, with what is left out or passed over, leads from the    *)
(* start of a check to these without a value that was seen.                *)
Uses == {"remember", "tell", "ask", "note", "send", "add"}

NoticesTypeOK ==
  /\ given \in Scenario /\ on \subseteq Switch /\ row \in {"none", "there", "gone"}
  /\ world \in [Subject -> Value] /\ memory \in [Subject -> Known]
  /\ recent \subseteq Text /\ mailed \subseteq Text /\ repeated \subseteq Text
  /\ at \in [Actor -> (Nat \X Nat) \cup {None}]
  /\ \A a \in Actor : at[a] # None => /\ at[a][1] \in Round(a)
                                    /\ at[a][2] \in 1..Len(Steps(Check(a)))
  /\ saw \in [Actor -> Known] /\ was \in [Actor -> Known]
  /\ \A a \in Actor : \A step \in Uses :
       Does(a, step) /\ Check(a) # "backup" => saw[a] \in Value
  /\ announced \in [Subject -> Nat \cup {None}]
  /\ \A c \in Followed : announced[c] \in Known
  /\ since \in [Subject -> SUBSET Value] /\ disturbed \subseteq Subject
  /\ boots \in Nat /\ changes \in Nat /\ fails \in Nat /\ crashes \in Nat

(* alertValue, checkVPNClients, checkSiteTunnels, monitorLoop, scanConfigs *)
(* and reportDue implement Reporter: a notice is about a change that was   *)
(* one, no change is told twice (no report sent twice), and the log comes  *)
(* to tell how things are, wherever a restart falls but between the two    *)
(* steps of remembering and telling, and as long as no other call makes    *)
(* the same check and, for the mains, the UPS answers.  A change of the    *)
(* configuration between the last look before a restart and the first      *)
(* after it is not told: such a file counts as disturbed.                  *)
Unsure == disturbed \cup (IF world["comm"] = 0 THEN {"power"} ELSE {})

Log == INSTANCE Reporter WITH
         Thing <- Followed,
         world <- [c \in Followed |-> world[c]],
         announced <- [c \in Followed |-> announced[c]],
         since <- [c \in Followed |-> since[c]],
         loose <- Unsure \cap Followed

ReporterSpec == Log!Init /\ [][Log!Next]_(Log!vars)

(* The fair version: of what comes to rest the log comes to tell how it is. *)
ReporterFairSpec == Log!Spec

(* alertDue, backupMailDue and report_sent: a text goes out once within    *)
(* its quiet time, a mailed backup once within its period and the report   *)
(* of a month once, unless two overlap or one is cut off between sending   *)
(* and recording.                                                          *)
OncePerPeriod == \A t \in repeated : t[1] \in disturbed

(* counterDelta and reportSample: restarts of the service and the device,  *)
(* whenever they come, never make the report count traffic that was not    *)
(* there; and unless the device itself restarts, or the service just then, *)
(* nothing is missing but what has come since the last look.               *)
TrafficIsCounted ==
  /\ counted <= passed
  /\ (/\ memory["traffic"] # None /\ "traffic" \notin disturbed
      /\ ~\E a \in Actor : Does(a, "add"))
       => passed - counted = world["traffic"] - memory["traffic"]

(* The comment at checkReboot: that the device was started anew is known   *)
(* by a short uptime, after the last one seen was longer.                  *)
RebootIsTold ==
  [][\A a \in Loop : Does(a, "look") /\ Check(a) # "boot" /\ "boot" \in given.checks
                     /\ "boot" \notin disturbed /\ fails = 0
                     => announced["boot"] = boots]_noticeVars
=============================================================================
