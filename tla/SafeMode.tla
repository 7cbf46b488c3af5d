------------------------------ MODULE SafeMode ------------------------------
(***************************************************************************)
(* Safe Mode of saguaro-core: a risky change of the network or firewall    *)
(* configuration is committed and applied at once, and undone when nobody  *)
(* confirms it in time (core/saferollback.go).  The module has the handlers *)
(* that put a change on trial (LAN address, static routes, management ACL, *)
(* WAN links), the ones that edit the same files without a trial, the      *)
(* numbered backups they rely on (backupConfig in core/dhcp.go), the timer *)
(* and its callback, the confirmation, and restarts of the service and of  *)
(* the device.  Handlers run concurrently, one goroutine per request; the  *)
(* only lock is rbMu, around the pending trial.                            *)
(*                                                                         *)
(* The content of a UCI file is abstracted to the set of changes whose     *)
(* edits it holds.  `uci batch` and `ubus call uci get` are external; an   *)
(* edit is applied to the file as it is when the batch runs.               *)
(***************************************************************************)
EXTENDS Integers, Sequences, FiniteSets

CONSTANTS
  Change,       \* requests: each is one call of a handler
  NoChange,     \* rbPending == nil
  Offered,      \* [Change -> SUBSET Kind]: what each request may be
  Cutting,      \* the changes that, once applied, cut the administrator off
  Window,       \* rollbackWindow, in seconds of the model's clock
  BackupKeep,   \* backupKeep: copies kept of one file
  MaxStart,     \* bound: requests start no later than this second
  LastSecond,   \* bound: the clock stops here
  MaxRestarts,  \* bound: restarts of the service or the device
  MayFail,      \* may backups, commits, writes and reloads fail?
  SharedSecond  \* may two backups of a file be made within one second?

File == {"network", "firewall"}

Kind == {"lan", "route", "aclOn", "aclOff", "wan", "wan2", "wanDelete",
         "otherNet", "otherFw"}

Second == 1..LastSecond

ASSUME SafeModeAssumption ==
  /\ NoChange \notin Change
  /\ Offered \in [Change -> SUBSET Kind]
  /\ Window \in Nat \ {0} /\ BackupKeep \in Nat \ {0}
  /\ MaxStart \in Nat \ {0} /\ LastSecond \in Nat /\ MaxStart <= LastSecond
  /\ MaxRestarts \in Nat
  /\ MayFail \in BOOLEAN /\ SharedSecond \in BOOLEAN

VARIABLES
  now,          \* the second the wall clock shows
  file,         \* /etc/config/network and /etc/config/firewall
  running,      \* the content each service loaded last
  saved,        \* names of the backups that exist: <<file, second>>
  copy,         \* content of each backup
  kind,         \* what each request is, "none" before it arrives
  todo,         \* the steps each handler has left
  name,         \* the backup each handler made of each file, 0 if none
  rbPending,    \* the change on trial
  timer,        \* state of each pendingRollback's timer
  deadline,     \* when an armed timer fires
  toWrite,      \* files executeRollback has still to write back
  toReload,     \* services executeRollback has still to reload
  aclSetting,   \* setting mgmt_acl_enabled
  verdict,      \* how each trial ended (history variable)
  broken,       \* changes whose handler or rollback was cut short (history)
  restarts      \* restarts so far

config    == <<file, running>>
backups   == <<saved, copy>>
handlers  == <<kind, todo, name>>
trials    == <<rbPending, timer, deadline, verdict>>
rollback  == <<toWrite, toReload>>
vars == <<now, file, running, saved, copy, kind, todo, name, rbPending, timer,
          deadline, toWrite, toReload, aclSetting, verdict, broken, restarts>>

----------------------------------------------------------------------------
(* The handlers, each as the sequence of its state changing steps.  A      *)
(* reload that fails ends the handler, so what comes after it is not done. *)
(* The LAN handler schedules first, answers, and reloads three seconds     *)
(* later in a goroutine.                                                   *)

Op == {"backup", "commit", "reload", "settings", "schedule"}

Net(op) == <<op, "network">>
Fw(op)  == <<op, "firewall">>

(* Mutant: no trial at all. *)
ScriptUnscheduled ==
  [k \in Kind |-> <<Net("backup"), Net("commit"), Net("reload")>>]

LanSet == <<Net("backup"), Net("commit"), Net("schedule"), Net("reload")>>

RouteApply ==
  <<Net("backup"), Net("commit"), Net("reload"), Net("schedule")>>

(* The main link; an additional one joins the firewall zone as well. *)
WANSet == <<Net("backup"), Net("commit"), Net("reload"), Net("schedule")>>

WANAdd ==
  <<Net("backup"), Net("commit"), Fw("backup"), Fw("commit"), Fw("reload"),
    Net("reload"), Net("schedule")>>

WANDelete ==
  <<Net("backup"), Fw("backup"), Fw("commit"), Net("commit"), Fw("reload"),
    Net("reload")>>

MgmtACLOff == <<Fw("backup"), Fw("commit"), Fw("reload"), Fw("settings")>>

MgmtACLOn == MgmtACLOff \o <<Fw("schedule")>>

(* Handlers without a trial: the site to site tunnels and the DMZ host. *)
WGSApply == <<Net("backup"), Net("commit"), Net("reload")>>

DMZSet == <<Fw("backup"), Fw("commit"), Fw("reload")>>

Script ==
  [k \in Kind |-> CASE k = "lan"       -> LanSet
                    [] k = "route"     -> RouteApply
                    [] k = "wan"       -> WANSet
                    [] k = "wan2"      -> WANAdd
                    [] k = "wanDelete" -> WANDelete
                    [] k = "aclOn"     -> MgmtACLOn
                    [] k = "aclOff"    -> MgmtACLOff
                    [] k = "otherNet"  -> WGSApply
                    [] OTHER           -> DMZSet]

(* The kinds that write the same sections: a later one replaces what an    *)
(* earlier one wrote.                                                      *)
SameSections ==
  {{"lan"}, {"route"}, {"wan"}, {"wan2", "wanDelete"}, {"aclOn", "aclOff"}}

Replaces(k, l) == \E group \in SameSections : k \in group /\ l \in group

Edited(c, content) ==
  {d \in content : ~Replaces(kind[c], kind[d])} \union {c}

(* Whether the second WAN interface, or ACL rules, are in a file. *)
Holds(content, k) == \E c \in content : kind[c] = k

Active(c) == todo[c] # <<>>

Doing(c, op, f) == Active(c) /\ Head(todo[c]) = <<op, f>>

Done(c) == todo' = [todo EXCEPT ![c] = Tail(@)]

Quit(c) == todo' = [todo EXCEPT ![c] = <<>>]

(* The handler returns an error in the middle of its work. *)
Abort(c) == Quit(c) /\ broken' = broken \union {c}

(* Mutant: a plan for the network file only. *)
PlanWithoutFirewall(c) == {f \in {"network"} : name[c][f] # 0}

(* The files of a trial: the ones its handler backed up. *)
Plan(c) == {f \in File : name[c][f] # 0}

(* The administrator reaches the device: nothing that runs cuts him off. *)
Reachable == \A f \in File : running[f] \intersect Cutting = {}

----------------------------------------------------------------------------
Init ==
  /\ now = 1
  /\ file = [f \in File |-> {}]
  /\ running = file
  /\ saved = {}
  /\ copy = [f \in File |-> [t \in Second |-> {}]]
  /\ kind = [c \in Change |-> "none"]
  /\ todo = [c \in Change |-> <<>>]
  /\ name = [c \in Change |-> [f \in File |-> 0]]
  /\ rbPending = NoChange
  /\ timer = [c \in Change |-> "off"]
  /\ deadline = [c \in Change |-> 0]
  /\ toWrite = [c \in Change |-> {}]
  /\ toReload = [c \in Change |-> {}]
  /\ aclSetting = FALSE
  /\ verdict = [c \in Change |-> "none"]
  /\ broken = {}
  /\ restarts = 0

(* A request that passed validation.  handleWANDelete answers 404 for a    *)
(* link that is not in the configuration.                                  *)
Begin(c, k) ==
  /\ kind[c] = "none" /\ now <= MaxStart /\ Reachable
  /\ k = "wanDelete" => Holds(file["network"], "wan2")
  /\ kind' = [kind EXCEPT ![c] = k]
  /\ todo' = [todo EXCEPT ![c] = Script[k]]
  /\ UNCHANGED <<now, config, backups, name, trials, rollback, aclSetting,
                 broken, restarts>>

(* backupConfig: the name has the resolution of a second, so a backup made *)
(* in the same second replaces the earlier one; then all but the newest    *)
(* BackupKeep copies of that file are removed.                             *)
(* Mutant: the rotation keeps one copy less (>= for >). *)
NewestLessOne(names, f) ==
  {n \in names : \/ n[1] # f
                 \/ Cardinality({m \in names : m[1] = f /\ m[2] > n[2]})
                      < BackupKeep - 1}

Newest(names, f) ==
  {n \in names : \/ n[1] # f
                 \/ Cardinality({m \in names : m[1] = f /\ m[2] > n[2]})
                      < BackupKeep}

Backup(c, f) ==
  /\ Doing(c, "backup", f)
  /\ SharedSecond \/ <<f, now>> \notin saved
  /\ saved' = Newest(saved \union {<<f, now>>}, f)
  /\ copy' = [copy EXCEPT ![f][now] = file[f]]
  /\ name' = [name EXCEPT ![c][f] = now]
  /\ Done(c)
  /\ UNCHANGED <<now, config, kind, trials, rollback, aclSetting, broken,
                 restarts>>

(* The backup cannot be made: the handler answers 500 and leaves what it   *)
(* has committed so far.                                                   *)
BackupFails(c, f) ==
  /\ MayFail
  /\ Doing(c, "backup", f)
  /\ Abort(c)
  /\ UNCHANGED <<now, config, backups, kind, name, trials, rollback,
                 aclSetting, restarts>>

(* What is left of a handler that skips ahead by n steps.  A WAN link that *)
(* exists already needs no firewall; one that is in the zone already needs *)
(* no commit and reload of the firewall, and an ACL that is off already    *)
(* makes the handler return at once.                                       *)
Ahead(c, n) == SubSeq(todo[c], n + 1, Len(todo[c]))

Skips(c, f) ==
  \/ kind[c] = "wan2" /\ f = "firewall" /\ Holds(file[f], "wan2")
  \/ kind[c] = "wanDelete" /\ f = "firewall" /\ ~Holds(file[f], "wan2")
  \/ kind[c] = "aclOff" /\ ~Holds(file[f], "aclOn")

AfterCommit(c, f) ==
  IF kind[c] = "wan2" /\ f = "network" /\ Holds(file[f], "wan2")
    THEN Ahead(c, 4)
    ELSE Ahead(c, 1)

AfterSkip(c) ==
  CASE kind[c] = "wan2"      -> Ahead(c, 2)
    [] kind[c] = "wanDelete" -> Ahead(c, 1)
    [] OTHER                 -> <<>>

(* uciGetConfig and uciBatch: the edits go into the file as it is now. *)
Commit(c, f) ==
  /\ Doing(c, "commit", f)
  /\ ~Skips(c, f)
  /\ file' = [file EXCEPT ![f] = Edited(c, @)]
  /\ todo' = [todo EXCEPT ![c] = AfterCommit(c, f)]
  /\ UNCHANGED <<now, running, backups, kind, name, trials, rollback,
                 aclSetting, broken, restarts>>

NothingToCommit(c, f) ==
  /\ Doing(c, "commit", f)
  /\ Skips(c, f)
  /\ todo' = [todo EXCEPT ![c] = AfterSkip(c)]
  /\ UNCHANGED <<now, config, backups, kind, name, trials, rollback,
                 aclSetting, broken, restarts>>

(* An error of uciBatch: it may come before or after the commit line. *)
CommitFails(c, f, written) ==
  /\ MayFail
  /\ Doing(c, "commit", f)
  /\ ~Skips(c, f)
  /\ file' = IF written THEN [file EXCEPT ![f] = Edited(c, @)] ELSE file
  /\ Abort(c)
  /\ UNCHANGED <<now, running, backups, kind, name, trials, rollback,
                 aclSetting, restarts>>

Reload(c, f) ==
  /\ Doing(c, "reload", f)
  /\ running' = [running EXCEPT ![f] = file[f]]
  /\ Done(c)
  /\ UNCHANGED <<now, file, backups, kind, name, trials, rollback, aclSetting,
                 broken, restarts>>

(* serviceReload returns an error, or its 15 seconds run out: the service  *)
(* may have loaded the file or not, and the handler returns.               *)
ReloadFails(c, f, loaded) ==
  /\ MayFail
  /\ Doing(c, "reload", f)
  /\ running' = IF loaded THEN [running EXCEPT ![f] = file[f]] ELSE running
  /\ Abort(c)
  /\ UNCHANGED <<now, file, backups, kind, name, trials, rollback, aclSetting,
                 restarts>>

(* The settings of the ACL; the system page takes whether it is on from    *)
(* the firewall file, so a rollback need not know them.                    *)
SaveSettings(c, f) ==
  /\ Doing(c, "settings", f)
  /\ aclSetting' = (kind[c] = "aclOn")
  /\ Done(c)
  /\ UNCHANGED <<now, config, backups, kind, name, trials, rollback, broken,
                 restarts>>

(* Stop has no effect on a timer that fired: its callback is on its way. *)
Stop(t) == IF t = "armed" THEN "off" ELSE t

(* Mutant: the timer is not started. *)
ScheduleWithoutTimer(c, f) ==
  /\ Doing(c, "schedule", f)
  /\ rbPending' = c
  /\ verdict' = [d \in Change |-> IF d = c THEN "trial"
                                  ELSE IF d = rbPending THEN "superseded"
                                  ELSE verdict[d]]
  /\ Done(c)
  /\ UNCHANGED <<now, config, backups, kind, name, timer, deadline, rollback,
                 aclSetting, broken, restarts>>

ScheduleRollback(c, f) ==
  /\ Doing(c, "schedule", f)
  /\ rbPending' = c
  /\ timer' = [d \in Change |-> IF d = c THEN "armed"
                                ELSE IF d = rbPending THEN Stop(timer[d])
                                ELSE timer[d]]
  /\ deadline' = [deadline EXCEPT ![c] = now + Window]
  /\ verdict' = [d \in Change |-> IF d = c THEN "trial"
                                  ELSE IF d = rbPending THEN "superseded"
                                  ELSE verdict[d]]
  /\ Done(c)
  /\ UNCHANGED <<now, config, backups, kind, name, rollback, aclSetting, broken,
                 restarts>>

----------------------------------------------------------------------------
(* The timer starts its callback in a goroutine of its own. *)
Expire(c) ==
  /\ timer[c] = "armed" /\ now >= deadline[c]
  /\ timer' = [timer EXCEPT ![c] = "fired"]
  /\ UNCHANGED <<now, config, backups, handlers, rbPending, deadline, verdict,
                 rollback, aclSetting, broken, restarts>>

(* Mutant: the callback does not look whether its trial is still pending. *)
ExecuteRollbackUnchecked(c) ==
  /\ timer[c] = "fired"
  /\ timer' = [timer EXCEPT ![c] = "off"]
  /\ rbPending' = NoChange
  /\ verdict' = [verdict EXCEPT ![c] = "undone"]
  /\ toWrite' = [toWrite EXCEPT ![c] = Plan(c)]
  /\ toReload' = [toReload EXCEPT ![c] = Plan(c)]
  /\ UNCHANGED <<now, config, backups, handlers, deadline, aclSetting, broken,
                 restarts>>

(* The part of executeRollback under the lock. *)
ExecuteRollback(c) ==
  /\ timer[c] = "fired"
  /\ timer' = [timer EXCEPT ![c] = "off"]
  /\ IF rbPending = c
       THEN /\ rbPending' = NoChange
            /\ verdict' = [verdict EXCEPT ![c] = "undone"]
            /\ toWrite' = [toWrite EXCEPT ![c] = Plan(c)]
            /\ toReload' = [toReload EXCEPT ![c] = Plan(c)]
       ELSE UNCHANGED <<rbPending, verdict, rollback>>
  /\ UNCHANGED <<now, config, backups, handlers, deadline, aclSetting, broken,
                 restarts>>

(* The rest of it runs without the lock: write the files back, in any      *)
(* order; a backup that is gone is only logged.                            *)
RestoreFile(c, f) ==
  /\ f \in toWrite[c]
  /\ toWrite' = [toWrite EXCEPT ![c] = @ \ {f}]
  /\ file' = IF <<f, name[c][f]>> \in saved
               THEN [file EXCEPT ![f] = copy[f][name[c][f]]]
               ELSE file
  /\ UNCHANGED <<now, running, backups, handlers, trials, toReload, aclSetting,
                 broken, restarts>>

RestoreFileFails(c, f) ==
  /\ MayFail
  /\ f \in toWrite[c]
  /\ toWrite' = [toWrite EXCEPT ![c] = @ \ {f}]
  /\ broken' = broken \union {c}
  /\ UNCHANGED <<now, config, backups, handlers, trials, toReload, aclSetting,
                 restarts>>

(* Mutant: the services are reloaded while files are still being written. *)
ReloadTurnEarly(c, f) ==
  f \in toReload[c] /\ (f = "firewall" => "network" \notin toReload[c])

(* Then reload the services: the network, then the firewall. *)
ReloadTurn(c, f) ==
  /\ toWrite[c] = {} /\ f \in toReload[c]
  /\ f = "firewall" => "network" \notin toReload[c]

RestoreReload(c, f) ==
  /\ ReloadTurn(c, f)
  /\ toReload' = [toReload EXCEPT ![c] = @ \ {f}]
  /\ running' = [running EXCEPT ![f] = file[f]]
  /\ UNCHANGED <<now, file, backups, handlers, trials, toWrite, aclSetting,
                 broken, restarts>>

RestoreReloadFails(c, f) ==
  /\ MayFail
  /\ ReloadTurn(c, f)
  /\ toReload' = [toReload EXCEPT ![c] = @ \ {f}]
  /\ broken' = broken \union {c}
  /\ UNCHANGED <<now, config, backups, handlers, trials, toWrite, aclSetting,
                 restarts>>

(* handleRollbackConfirm: whoever reaches the device confirms whatever is  *)
(* pending.                                                                *)
Confirm ==
  /\ rbPending # NoChange /\ Reachable
  /\ timer' = [timer EXCEPT ![rbPending] = Stop(@)]
  /\ verdict' = [verdict EXCEPT ![rbPending] = "confirmed"]
  /\ rbPending' = NoChange
  /\ UNCHANGED <<now, config, backups, handlers, deadline, rollback, aclSetting,
                 broken, restarts>>

(* The service dies and procd starts it again, or the device reboots: the  *)
(* trial, its timer, the handlers and a rollback under way are gone, what  *)
(* is on disk stays.  A reboot starts the services from the files.         *)
Interrupted ==
  {c \in Change : Active(c) \/ toWrite[c] # {} \/ toReload[c] # {}}

Restart(reboot) ==
  /\ restarts < MaxRestarts
  /\ restarts' = restarts + 1
  /\ running' = IF reboot THEN file ELSE running
  /\ todo' = [c \in Change |-> <<>>]
  /\ rbPending' = NoChange
  /\ timer' = [c \in Change |-> "off"]
  /\ verdict' = [c \in Change |-> IF c = rbPending THEN "lost" ELSE verdict[c]]
  /\ toWrite' = [c \in Change |-> {}]
  /\ toReload' = [c \in Change |-> {}]
  /\ broken' = broken \union Interrupted
  /\ UNCHANGED <<now, file, backups, kind, name, deadline, aclSetting>>

(* The clock.  After MaxStart it waits for the handlers under way, unless  *)
(* they wait for it.                                                       *)
Waits(c) == \E f \in File : Doing(c, "backup", f) /\ <<f, now>> \in saved

Tick ==
  /\ now < LastSecond
  /\ now < MaxStart \/ \A c \in Change : Active(c) => Waits(c) /\ ~SharedSecond
  /\ now' = now + 1
  /\ UNCHANGED <<config, backups, handlers, trials, rollback, aclSetting, broken,
                 restarts>>

----------------------------------------------------------------------------
Handler(c) ==
  \E f \in File : \/ Backup(c, f)
                  \/ Commit(c, f)
                  \/ NothingToCommit(c, f)
                  \/ Reload(c, f)
                  \/ SaveSettings(c, f)
                  \/ ScheduleRollback(c, f)

HandlerFails(c) ==
  \E f \in File : \/ BackupFails(c, f)
                  \/ \E w \in BOOLEAN : CommitFails(c, f, w)
                  \/ \E l \in BOOLEAN : ReloadFails(c, f, l)

Restore(c) ==
  \E f \in File : \/ RestoreFile(c, f)
                  \/ RestoreReload(c, f)

RestoreFails(c) ==
  \E f \in File : \/ RestoreFileFails(c, f)
                  \/ RestoreReloadFails(c, f)

Next ==
  \/ \E c \in Change : \/ \E k \in Offered[c] : Begin(c, k)
                       \/ Handler(c)
                       \/ HandlerFails(c)
                       \/ Expire(c)
                       \/ ExecuteRollback(c)
                       \/ Restore(c)
                       \/ RestoreFails(c)
  \/ Confirm
  \/ \E reboot \in BOOLEAN : Restart(reboot)
  \/ Tick

(* Goroutines run on, timers fire, time passes.  Nobody has to send a      *)
(* request or a confirmation, nothing has to fail.                         *)
Fairness ==
  /\ WF_vars(Tick)
  /\ \A c \in Change : /\ WF_vars(Handler(c))
                       /\ WF_vars(Expire(c))
                       /\ WF_vars(ExecuteRollback(c))
                       /\ WF_vars(Restore(c))

Spec == Init /\ [][Next]_vars

FairSpec == Spec /\ Fairness

----------------------------------------------------------------------------
(* Types. *)
TypeOK ==
  /\ now \in Second
  /\ file \in [File -> SUBSET Change]
  /\ running \in [File -> SUBSET Change]
  /\ saved \in SUBSET (File \X Second)
  /\ copy \in [File -> [Second -> SUBSET Change]]
  /\ kind \in [Change -> Kind \union {"none"}]
  /\ todo \in [Change -> Seq(Op \X File)]
  /\ name \in [Change -> [File -> 0..LastSecond]]
  /\ rbPending \in Change \union {NoChange}
  /\ timer \in [Change -> {"off", "armed", "fired"}]
  /\ deadline \in [Change -> Nat]
  /\ toWrite \in [Change -> SUBSET File]
  /\ toReload \in [Change -> SUBSET File]
  /\ aclSetting \in BOOLEAN
  /\ verdict \in [Change -> {"none", "trial", "confirmed", "superseded",
                             "undone", "lost"}]
  /\ broken \in SUBSET Change
  /\ restarts \in 0..MaxRestarts

Restoring(c) == toWrite[c] # {} \/ toReload[c] # {}

Idle == \A c \in Change : ~Active(c) /\ ~Restoring(c)

(* Once a change is confirmed, superseded, undone or lost it stays so: a   *)
(* timer that fired while handleRollbackConfirm or another registration    *)
(* held rbMu undoes nothing when its callback gets the lock.               *)
VerdictIsFinal ==
  [][\A c \in Change :
       verdict[c] \notin {"none", "trial"} => verdict'[c] = verdict[c]]_vars

(* Safe Mode keeps the promise of TrialChange whatever handlers, timers,   *)
(* confirmations and restarts interleave.                                  *)
Trial == INSTANCE TrialChange WITH trial <- rbPending, verdict <- verdict

TrialSpec == Trial!Init /\ [][Trial!Next]_(Trial!vars)

(* The fair version: a trial that nobody confirms is undone.               *)
TrialFairSpec == Trial!Spec

(* The copies made of a file after that of a request, by their names; the  *)
(* names have the second in them, so two requests may have one.            *)
NewerCopies(c, f) == {t \in {name[d][f] : d \in Change} : t > name[c][f]}

RotatedOut(c, f) == Cardinality(NewerCopies(c, f)) >= BackupKeep

Shares(c, f) ==
  name[c][f] # 0 /\ \E d \in Change \ {c} : name[d][f] = name[c][f]

(* While a trial is pending, the copy of every file of its plan is there   *)
(* and holds the file without the change, whatever the other handlers add  *)
(* to the file, copy, rotate or undo: backupConfig (dhcp.go:385) loses a   *)
(* plan's copy only to as many newer ones as it keeps, and spoils it only  *)
(* when another request copies the file within the same second.            *)
PlanIsRestorable ==
  rbPending # NoChange =>
    \A f \in Plan(rbPending) :
      LET t == name[rbPending][f]
      IN  /\ <<f, t>> \in saved \/ RotatedOut(rbPending, f)
          /\ rbPending \notin copy[f][t] \/ Shares(rbPending, f)

(* When every handler and rollback has finished and none was cut short, the *)
(* services run what the files say: no commit and no restored file is left *)
(* without a reload after it, in whatever order they came.                 *)
Converges == Idle /\ broken = {} => running = file

(* A risky change nobody confirmed is gone from the files once nothing is  *)
(* pending or under way (saferollback.go:13, PRIRUCNIK.md:184), whatever   *)
(* else was done, failed or restarted, but for these: its own handler or   *)
(* rollback was cut short, a restart forgot its trial, its copy was lost   *)
(* (see above), or another risky change that had copied the file no        *)
(* earlier was undone as well, and brought it back.                        *)
Risky == {"lan", "route", "aclOn", "wan", "wan2"}

BroughtBack(c, f) ==
  \E d \in Change \ {c} : verdict[d] = "undone" /\ name[d][f] >= name[c][f]

UnconfirmedReverted ==
  Idle /\ rbPending = NoChange =>
    \A c \in Change \ broken :
      kind[c] \in Risky /\ verdict[c] \notin {"confirmed", "superseded", "lost"}
        => \A f \in File :
             c \in file[f] => RotatedOut(c, f) \/ Shares(c, f) \/ BroughtBack(c, f)

(* The comment at saferollback.go:13: a change that was put on trial and   *)
(* that nobody confirmed in time is undone.                                *)
TrialIsUndone ==
  Idle /\ rbPending = NoChange =>
    \A c \in Change : verdict[c] \in {"undone", "lost"}
                        => \A f \in File : c \notin file[f]

(* An administrator who is cut off by his own change reaches the device    *)
(* again without doing anything, if it was not confirmed before it was in  *)
(* force: the LAN handler (network.go:147) puts the change on trial and    *)
(* answers, and reloads three seconds later, so a page that is still       *)
(* reached at the old address can confirm what nobody will reach.          *)
LockoutEnds ==
  ~Reachable /\ (\A c \in Cutting : verdict[c] # "confirmed") ~> Reachable
=============================================================================
