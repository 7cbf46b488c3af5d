# Saguaro: specification and proofs

saguaro-core (Go, `core/`) runs on a small router next to OpenWrt's own
tools. It keeps its own data in SQLite, edits the UCI files under
`/etc/config`, reloads OpenWrt's services, and looks after its own backups,
updates, certificates and accounts; the pages in `web/` are its only client.
This directory holds TLA+ models of the parts where order, failure and
concurrency matter, small instances that TLC checks, and proofs that TLAPS
checks.

All handlers run concurrently, one goroutine per HTTP request, in one process
that procd restarts when it dies. There are few locks (the pending trial of
Safe Mode, the API token, the login limits, the sampled counters); SQLite has
one connection, so single statements are atomic and sequences of them are not;
files under `/etc/config`, `/opt/saguaro` and `/tmp` are shared without locks.
That, together with power cuts and with OpenWrt programs that fail half-way,
is what the models are about.

## Inventory

Status: **M** modelled, **P** partly, **–** left out (`PROJECT.json`,
`components`, has the reason for each and splits some of these rows).

| Component | State it keeps | Operations | Hard behaviour | What makes it correct | |
|---|---|---|---|---|---|
| Safe Mode (`saferollback.go`) | `rbPending`, its timer; the UCI files and their copies | register, expire, roll back, confirm | a timer that fires while a confirmation or another registration holds the lock; a rollback without the lock beside handlers; restarts | one trial, one verdict; an unconfirmed change is undone; the administrator gets back in | M |
| LAN, WAN, routes, system (`network.go`, `wan.go`, `routes.go`, `system.go`) | `/etc/config/network`, `firewall`, `system`; settings | back up, commit, reload, register a trial | two files in one handler, failures between, reload after answering | the plan of the trial can undo all of it | M/P |
| uci and ubus access, config backups (`ubus.go`, `dhcp.go`) | UCI files; the newest 20 copies of each | get, batch, reload; copy and rotate | copies named by the second, rotated by everybody | the copy a plan names is there and older than the change | M/P |
| Full backup (`backup.go`) | archives; the keep list; the crontab | create, rotate, delete, schedule, restore | the keep list is cut down and put back without a lock | the list is full when nobody makes an archive; archives hold no program | P |
| Firmware upgrade (`openwrt.go`) | staged image and its description | fetch, upload, flash | the image may change between check and use; the handler is gone when `sysupgrade` runs | what was checked is what is written, after a backup, with the program on the list | P |
| Database (`db.go`) | `saguaro.db`, its log, a staged successor | open, exchange | a power cut between any two steps | never an empty or a mixed database | M |
| Data partition (`datapart.go`) | partition table, fstab, record | create and move | the data is copied under a running service by a shell that outlives the request | nothing acknowledged is lost; what is mounted stays mounted | P |
| Program update (`update.go`) | staged package, program, pages | upload, apply, restart | several files replaced one by one; shared staging file | program and pages of one release; a whole program at any time | M |
| Firewall tables (`firewall.go`, `snat.go`, `forceddns.go`) | rows with positions; `sag_*` sections | create, move, delete, switch, apply | renumbering, reading tables one by one, aliases that go meanwhile | the sections are those of one state of the tables | M/P |
| VPNs (`openvpn.go`, `wireguard.go`, `wgsite.go`, `ipalloc.go`) | certificate authority, clients, peers, sites, keys, addresses | set up, create, edit, delete, apply | files made one by one, revocation, sections of three VPNs in two files | keys fit each other; who is deleted stays out; what is applied is exact | M/P |
| Names (`dns.go`, `dnsupstream.go`) | records, split domains, forwards, the lists of dnsmasq | edit, apply, DNSSEC, choose servers | one list with entries of four owners | nothing made by hand is lost, a choice stays | M |
| Published sites and certificates (`proxy.go`, `acme.go`, `guicert.go`, `tlsgen.go`) | sites, sections of the acme package, links, `haproxy.cfg`, port 80, the store of the TLS server | edit, install, apply, issue, watch | files in order, port 80 handed over, renewals by night | the proxy can load what it is given, port 80 has one owner, the current certificate is served | M/P |
| Services (`vlan.go`, `dhcppool.go`, `ipv6.go`, `ospf.go`, `ddns.go`, `qos.go`, `multiwan.go`, `protection.go`, `hardening.go`, `scandetect.go`, `ups.go`) | their UCI files, settings | set, create, delete | many files in one handler, steps that fail and are passed over | services run what the files say, and that is what was asked | M/P |
| Notices (`alerts.go`, `watchdog.go`, `monitor.go`, `ups.go`, `report.go`, `backupmail.go`, `audit.go`) | last value and time of each thing, counters, snapshots | look, remember, tell, send | remembered and not told, told and not remembered, two callers | every change is told, none twice | M/P |
| Accounts (`auth.go`, `users.go`, `totp.go`) | users, sessions, challenges, codes, limits | log in, change, disable, delete, second factor | checks and changes in separate statements | an administrator remains; an old password lets nobody in; a code is good once | M/P |
| Backup off the device, disk, inventory, dashboard, diagnostics (`backupoff.go`, `disk.go`, `inventory.go`, `handlers.go`, `diagnostics.go`, `diagtools.go`) | tables; captures | CRUD, read, run a tool | a capture that outlives its request | – | – |
| Pages, install and image scripts (`web/`, `scripts/`, `image/`) | – | – | run by hand, at boot or in the browser | – | – |

How they interact: almost every handler edits UCI files through `uciBatch` and
reloads services (shared files); Safe Mode writes the same files back from the
copies other handlers rotate (shared files, timer callback); updates, firmware
upgrades and the data partition all make a full backup first (calls) and end
with a restart, a reboot or a shell that outlives the service; a restored
database is taken over by the next start of the service, whatever caused it;
the three VPNs write one firewall and one network file, and every reload loads
what any of them has put there; the loops of the watchdog, the host monitor,
the UPS and the audit read what all others leave and tell it through one table.

## Modules

| Module | Models | Extends |
|---|---|---|
| `TrialChange` | what Safe Mode promises, abstractly | |
| `SafeMode` | Safe Mode with the handlers that use it and those beside it | |
| `FullBackup` | `createFullBackup` for any number of callers | |
| `Firmware` | the upgrade, staging of images, restarts, reboots | `FullBackup` |
| `DataStore` | where the data is, `openDB` step by step | |
| `Storage` | restore, data partition, restarts, reboots | `DataStore` |
| `Update` | `handleUpdateUpload`, `handleUpdateApply`, restarts | |
| `Rules` | the firewall's tables, `handleFWApply` | |
| `TunnelAddress` | the addresses of a tunnel, a pure algorithm | |
| `VpnCalls` | requests to the VPN handlers, shared files, restarts | `TunnelAddress` |
| `OpenVPN`, `WireGuard`, `Sites` | the three VPNs | `VpnCalls` (`Sites`: `WireGuard`) |
| `Tunnels` | the three together | `OpenVPN`, `Sites` |
| `Calls` | requests to the other handlers, restarts | |
| `Names`, `Proxy`, `Services` | three groups of handlers | `Calls` |
| `Configuration` | the three together | `Names`, `Proxy`, `Services` |
| `Reporter` | what a log of notices promises, abstractly | |
| `Notices` | the loops and the calls beside them | (implements `Reporter`) |
| `Accounts` | login, sessions, users, second factor | |
| `SafeMode_proofs`, `Update_proofs`, `Rules_proofs`, `Tunnels_proofs`, `Storage_proofs`, `Accounts_proofs`, `Configuration_proofs` | theorems | the module of that name, `TLAPS` |
| `Device_proofs` | theorems | `Firmware`, `Notices`, `TLAPS` |
| `MCSafeMode`, `MCFirmware`, `MCStorage`, `MCUpdate`, `MCRules`, `MCTunnels`, `MCConfiguration`, `MCNotices`, `MCAccounts` | small instances for TLC | the module of that name |

An operator marked "Mutant" in a comment is a plausible mistake in the
definition after it; `PROJECT.json` says which property finds it.

### Safe Mode

`SafeMode` has one request per element of `Change`. A handler is a sequence of
steps (`Script`): `backupConfig`, `uciBatch` with a commit, `serviceReload`,
settings, `scheduleRollback`, in the code's order for each handler. One action
takes one step of one handler, so handlers interleave at every place where the
code may be preempted between two calls that change something. The content of
a UCI file is the set of requests whose edits it holds; an edit replaces those
of the same sections (`SameSections`). `rbPending`, `timer` and `deadline` are
the variables of the same names; `Expire` is the runtime starting the callback
in a goroutine of its own, `ExecuteRollback` its part under `rbMu`,
`RestoreFile` and `RestoreReload` the part after the unlock. `saved` and `copy`
are the files under `backup/`, named by file and second, rotated by `Newest`.
`running` is what each OpenWrt service loaded last. `verdict` and `broken` are
history: how each trial ended, and whose work was cut short.

`TrialChange` says what all that amounts to: a change is put on trial, possibly
in the place of another one, and ends with one verdict. `Trial` in `SafeMode`
is the refinement mapping (`trial <- rbPending`).

### Backups and firmware

`FullBackup` follows one call of `createFullBackup` through reading the keep
list, writing the short one, `sysupgrade -b`, writing back what was read,
snapshot, archive and rotation, each step with its failure. The list is
abstracted to the two things that can be on it. `Firmware` adds the staging of
an image in the one place for it (opening truncates, removing leaves writers
with a nameless file), the checks of `handleOpenWrtFlash`, its backup, the
detached `sysupgrade` that opens both image and list when it runs, restarts and
reboots, and the start of the service, which writes the full list.

### Database, restore and data partition

`DataStore` has each file in two places, `root` and `part`, of which `Here` is
the one seen under `/opt/saguaro`. `openDB` is four steps (`RemoveDb`,
`RemoveWal`, `Rename`, `Open`) of the service or a command-line tool, and the
process may be gone between any two. A database is its origin (device or
archive) and the number of writes acknowledged since. `Storage` adds
`handleBackupRestore` and `handleDataPartCreate` step by step, the shell the
latter leaves behind, restarts, and reboots, which mount what fstab says.
`tried`, `due` and `opened` are history.

### Program update

`Update` has one request per call of `handleUpdateUpload` (`Upload`) and
`handleUpdateApply` (`Apply`). A package and every file out of it are known by
their release; `Torn` is a file of which a part, or a mixture of two writers,
is there. `package` is `update-staged.tar.gz`: opening it truncates it under
whoever still writes to it, removing it leaves writers with a nameless file.
An update verifies what is in that place, unpacks what is in it then, backs up,
writes `saguaro-core.new` (`newProgram`), renames it (`program`), overwrites the
pages in two steps each (`OpenPage`, `FillPage`), removes the package and
answers; `RestartAfter` is the goroutine that restarts the service. `Crash`
and `StartService` are the environment. `last` is history: the update whose
rename was the latest.

### Firewall tables

`Rules` has the rows of `fw_rules` with the columns that decide their order
(`pos`, `age` for `created_at`) and whether they are enabled, the aliases they
name, and the file with the sections made of them. Port forwards, 1:1 NAT,
source NAT and the networks whose DNS is turned back to the device are
`Object`s without an order, each kind read by an apply at its own moment;
`forcing` switches the last kind on. A statement on the database is one step.
Creating a rule is two (`BeginCreate` reads the highest position, `Insert`
writes the row), moving one is a read (`BeginMove`) and a statement for every
row (`WritePos`), and the other handlers are one each. `handleFWApply` reads
table after table (`ReadForwards`, `ReadRules`, `ReadNat11`), copies and reads
the file (`ReadConfig`), reads the setting and the zones of forced DNS, resolves
one alias at a time (`Resolve`), reads source NAT, runs one batch (`Batch`,
`BatchBreaksOff`) and reloads. A section is named by its place and its row, as
in the code, so that overlapping applies can leave sections of two orders in the
file. `plan` and `work` are the local variables of handlers; `last.knew`,
`quiet` and `tidy` are history.

### VPNs

A request of `VpnCalls` is a handler (`kind`) at a step (`at`) with what it has
read (`rows`, `seen`); `Begin`, `Fail` and `Crash` are common to all. A section
of `/etc/config/firewall` or `network` is a triple of its type, owner and
value; `fwRun` and `netRun` are what was loaded last, and a reload loads
everything in the file, whoever wrote it. `OpenVPN` follows `ensureOvpnPKI` file
by file, `handleOvpnServerSet`, access, the handlers of clients with their
certificates, revocation (`writeOvpnCRL` reads the table and writes the list a
step later) and `handleOvpnApply`. Keys are known by the request that made them
and certificates by their row. `WireGuard` has the server's key, peers and
`handleWGApply`, which writes one file after the other; `Sites` the interface of
`handleWGSLocalSet`, which is touched only when its file differs, the other
sides and their networks. `TunnelAddress` has `ipalloc.go`: `NextFree` is the
loop of `nextFreeTunnelIP`, said as the first address that is free.

### Configuration

`Calls` is the same frame for handlers of the other components. In `Names` an
entry of a list of dnsmasq is a pair of domain and address; the handlers tell
their own entries from others by what they have noted (`noted`), which they
write after the file. `Proxy` has the sites, the sections of the acme package,
the links, `haproxy.cfg` as the set of sites in it, port 80 in file and
firewall, and the store of the TLS server with its watcher; a certificate is its
version. In `Services` a handler is a script over parts of files
(`PartTable`): back up, write, commit, reload, with what it reads first, what
it passes over when it fails, and when it has nothing to do; the value of a part
is the wish of the request that wrote it. `Configuration` lets all of them run
beside each other with one restart.

### Notices

The rounds of four goroutines and the calls that run beside them are sequences
of checks, and every check a sequence of steps in the code's order: `look`,
`recall`, `remember`, `tell`, `ask`, `note`, `send`, `add`. Most remember
before they tell; `checkVPNClients` and `checkSiteTunnels` tell first. How
something "is", is what the look at it finds. `Reporter` says what a log
promises: a notice says something else than the one before, and something that
was so since; and of what comes to rest the log comes to say how it is. `Log` in
`Notices` is the refinement mapping; `ReporterSpec` is the safety part, which is
proved, `ReporterFairSpec` the whole, which TLC checks.

### Accounts

A row is what decides a login: role, switched off or not, which password, the
secret of the second factor, whether it is on, and the last step of the clock
used. A code is its secret and step of time, or its set and number. Every
statement on the database is an action and every handler a sequence of them, so
what it has read (`was` in `call`) may be old when it writes. `Me` and
`Permitted` are `auth` and `permitted`, `Check` to `Open` the two stages of a
login, `Pass` and `CloseOthers` a new password (by the user, by an
administrator or on the command line), `Unset` to `Forget` the second factor,
`Create` to `Remove` the management of users. `Restart` loses what is in memory
(challenges, limits, requests), `StatementFails` is a write whose error most
handlers do not look at. `crossed`, `missed` and `early` are history: of whom
requests overlapped, of whom a statement was cut off or failed, and who logged
in with a secret that was not on.

## Runs

| Run | Properties | Shows |
|---|---|---|
| `safemode_races` | `PlanIsRestorable`, `Converges`, `TrialSpec` | three requests of LAN, ACL and second WAN on both files, every step failing, one restart; `SafeMode` implements `TrialChange` |
| `safemode_lockout` | `UnconfirmedReverted`, `LockoutEnds`, `TrialFairSpec` | one risky change of each other kind that cuts its administrator off, beside two edits, no failures, fair |
| `safemode_restart` | `UnconfirmedReverted` is violated | a restart forgets the trial |
| `firmware` | `ArchivesAreSlim`, `ProgramSurvives`, `FlashedIsVerified`, `FlashHasBackup` | a backup and an upgrade beside fetch and upload, every step failing, two restarts |
| `storage` | `KnownDatabase`, `PartStaysMounted`, `RestoreIsWhole` | two restores, a data partition, restarts, reboots and tools |
| `update` | `ProgramIsWhole`, `UpdateIsWhole`, `UpdateTakesEffect` | two updates, an upload beside them, every step failing, two crashes |
| `rules` | `NarrowStaysNarrow`, `OrderKept`, `QuietApplyIsExact` | two applies beside a new rule or a move, two new rules beside two moves, an edit of any table in any order, every step failing |
| `tunnels` | `KeysMatch`, `DeletedIsRevoked`, `SitesApart`, `SuggestionIsFree`, `QuietApplyIsExact` | thirteen scenarios of two or three calls of the VPNs, every step failing, a restart |
| `configuration` | `ChoiceStays`, `ByHandStays`, `VlanCanGo`, `NamesInForce`, `PortHasOneOwner`, `SitesAreServed`, `ServesCurrent`, `DoesAsAsked`, `CopiedFirst` | every handler of `Services` alone, and fifteen scenarios of two or three calls that meet, every step failing, a restart |
| `notices` | `OncePerPeriod`, `TrafficIsCounted`, `ReporterFairSpec` | every check alone, and those that meet a call or another check, a failed read or mail, a restart of the service or the device; `Notices` implements `Reporter` |
| `notices_reboot` | `RebootIsTold` is violated | a reboot that is not told |
| `accounts` | `AdministratorRemains`, `OldAccessEnds`, `RecoveryOnce`, `CodeOnce` | eight mixtures of calls, two requests at a time, a restart or a write that fails unnoticed |

A property is stated next to a comment that says what it means and which code
it is about. The type invariants are in the modules and in no run of their own:
they are proved for `SafeMode`, `Firmware`, `Storage`, `Update`, `Tunnels`,
`Notices` and `Accounts`.

### What the violations show

* `safemode_restart`: the pending trial lives in memory; a restart of the
  service or the device forgets it and the unconfirmed change stays, against
  `saferollback.go:13`.
* `notices_reboot`: `checkReboot` compares the uptime with the one it saw last,
  but runs once per start of the program; a boot after which the program starts
  as late as the time before is not told, against `watchdog.go:63`.

### Departures without a run

Places where the code departs from a comment or document, or does what one
would not expect. The models have them; each is kept out of the properties by
the history variable, the constant or the exception named.

* Safe Mode: of two risky changes of one file that overlap, the second may copy
  it while the first is on trial. When the timer undoes the first before the
  second is scheduled, and nobody confirms the second either, its rollback
  writes back a file with the edits of the first in it: they are in force, never
  confirmed, and no trial is pending (`saferollback.go:13`; the requests of
  `safemode_lockout` have one risky change, and the theorem assumes `OneRisky`).
  The LAN handler starts its trial three seconds before the reload, so a
  confirmation in between confirms nothing (`network.go:147`,
  `saferollback.go:15`).
* Firmware (`Exclusive = FALSE`): a backup that reads the keep list while
  another one has it cut down writes the short list back, and the upgrade drops
  the program (PRIRUCNIK.md:909); the image is checked, then a backup takes its
  time, and what is in its place afterwards is written unchecked
  (`openwrt.go:515`).
* Storage: the database is staged before `sysupgrade -r`; when that fails, the
  next start of the service installs it (PRIRUCNIK.md:800). With `"write"` in
  `Faults`: `cp -a` runs before the service is stopped, and what is acknowledged
  in between is lost (PRIRUCNIK.md:876).
* VPNs: `handleWGServerSet` opens the device to the VPN again at each save
  (`wireguard.go:342`) where `handleOvpnServerSet` keeps what was chosen
  (`openvpn.go:556`); `handleOvpnApply` never rewrites `crl.pem`, whatever the
  comment at `openvpn.go:886` says; two revocations that overlap
  (`OneRevoker = FALSE`), or a query that fails and is passed over
  (`ReadsAnswer = FALSE`), let a revoked certificate in again; a save of the site
  interface that broke off is not completed by repeating it
  (`FreshSave = FALSE`); two first calls at once may each make an authority or a
  server key (`OneSetup`, `OneServer`).
* Copies before a commit (D-011, `docs/DECISIONS.md:17`): `bogonSet`
  (`hardening.go:332`), the IPsec rules (`hardening.go:477`), the rules of the UPS
  (`ups.go:103`) and the host name (`system.go:62`) are committed without one
  (`CopiedFirst` excepts them); so are, in `Proxy`, the rules of port 80 and the
  sections of the acme package.
* Handlers that answer "nothing to do" when the file is already as asked do not
  look whether the service has read it: turning OSPF, the ICMP limit, the bogon
  filter, DNS on the WAN, the remote log or the ACL off, the IPsec rules, port
  80 of the interface and of the sites. After a reload that failed the service
  goes on with the old configuration (`DoesAsAsked` leaves them out, `missed`).
* Names: a save of a forward and one of a split domain for the same name can
  overlap and both be made (`domainInSplit` is asked before the row is written).
  An apply reads dnsmasq's section early (`dns.go:642`) and what it has noted late
  (`dns.go:716`): if another apply in between removes the entry of a deleted row and
  notes that, the first writes the entry back as if somebody had made it by hand,
  and no later apply removes it. So `NamesInForce` says that every row is in force
  for any apply beside which none runs, and that nothing else is only as long as
  requests come one at a time.
* Rules: a move gives the places 1, 2, ... one statement at a time
  (`firewall.go:692`). When rows share a position and have a lower one than their
  place (all are 0 after the column was added, `db.go:45`; a move that broke off
  leaves two alike; so do rules that are created at once), or when two moves
  overlap, a reader in between meets rules in an order nobody asked for, and it
  stays when the move breaks off. `tidy` says that the last move has found the
  rules numbered; a move that runs to its end alone leaves them so.
* Forced DNS: its settings are read, and written, in separate statements, so an
  apply may use a mixture of old and new.
* Notices: `tick%720 // jednom dnevno` (once a day) is every twelve hours; the
  first scan of the audit after a start takes the files as they are, so what
  changed just before is not told; a mail that fails adds an event that the
  report does not count (`alerts.go:166`); traffic between the last sample and a
  reboot is lost; a read of the local address that fails is taken by
  `checkCGNAT` for "no CGNAT", so that the next good read tells CGNAT again;
  what is told first (`TellFirst`) is told twice when a restart falls before it
  is remembered, and what is remembered first not at all.
* Accounts: two updates that overlap can each remove one of the last two
  administrators (`users.go:163`, `users.go:283`: "Zadnji administrator mora
  ostati"; `crossed`); a login that has checked the password, or waits for its
  code, before the password is changed or its user switched off opens its
  session afterwards (`late`; while the user is off it is refused); a login
  accepts a code of a secret that is set up and not on yet (`totp.go:478`), and
  the same code can then turn it on (`early`); two renewals of recovery codes
  that overlap leave two sets good (`crossed`); `-reset-admin` gives the
  administrator a password, but neither switches him on again nor his second
  factor off.

### Bounds, and why they are enough

* Safe Mode: three requests are what a superseded trial, its successor and an
  edit beside both need. `Window` is one or two seconds of the model's clock,
  so that timers expire before, between and after the steps of handlers;
  `BackupKeep = 3` is as many copies as three requests make of one file, the
  proportion the real 20 has to a window of 300 s with few users: with one copy
  fewer, `PlanIsRestorable` fails, which the mutant `NewestLessOne` shows.
  `MaxStart` ends the arrivals, and the clock then waits for handlers under
  way, so a trial's whole window lies within `LastSecond`.
  `SharedSecond = FALSE`: two copies of a file within one second replace each
  other, and a plan then names the later one. No run asks for this.
* Firmware: one backup, one upgrade, one fetch, one upload and two restarts
  are one of every party; `FullKeep = 1` makes rotation bite at once.
  `Exclusive` keeps others from starting while the upgrade is under way: the
  properties need it, and the code does not enforce it.
* Storage: two archives, one made on a device without a data partition and one
  with, and two restores, so that one can follow a failed one. `MaxWrites = 1`
  tells a database with an acknowledged write from one without. `Faults` names
  what may go wrong; the run leaves out errors of writing certificates and of
  putting the fstab entry back, which the code ignores; a final mount that
  fails; a second restore or a move at the same time; writes during a move; and
  tools beside the running service.
* Update: two updates, so that one can follow a failed one, and one upload that
  comes at any moment of theirs; three releases, of which one has no program
  and the first has a page fewer than the next. `MaxRestarts = 2` crashes.
  Updates do not overlap (`Alone`): two of them write the same `.new` file, and
  one may rename what the other is still writing. The code does not prevent it
  and nothing it says promises more.
* Rules: three rules whose age is not their order, so that rows of one position
  in the middle of a move come in another order than before; one object of each
  kind, of which one names an alias. Two applies overlap or follow each other; the file they start from (`OldFiles`) is what
  two overlapping applies have left. One statement of another handler
  (`MaxEdits`): the applies are all that reads more than one table, and one
  change between two reads is what they can meet; a second one would have to
  undo the first to matter. `OldForcing` is off, and switched on by that
  statement. A failed statement, or a crash, leaves things as they are, which
  `WritePosFails` and `ApplyFails` stand for. `Scenarios` says which requests come
  together: two applies with a rule that is made or with a move, and two of each
  of the latter, so that a move follows or overlaps one that broke off while
  rules are made and deleted. The theorems of `Rules_proofs` hold for any
  `Scenarios`, also when all requests come at once.
* Tunnels, Configuration: a scenario names the two or three calls that can meet
  in a hazard, and the tables at first, so that all their interleavings,
  failures and one restart can be followed to the end; the handlers of two
  scenarios share no state but the files, whose reloads both have. Two rows of
  each table, three addresses a request may ask for, four networks.
  `TunnelNet` is the smallest with room (`/29`). `MaxIssued = 2` certificates are
  the first and a renewal. One `Wish` is enough to tell asked from not asked.
* Notices: values are 0 to `Top = 2`, so that a third value can come while a
  change is told; three changes of the world, settings or calls are a change,
  its reverse and another one; one failed read or mail, one restart.
  `RebootIsTold` needs three boots.
* Accounts: two users, two requests at a time and two to four in all for each
  of the eight scenarios; `LoginMaxFails`, `ChallengeTries`, `RecoveryCount` and
  `MaxPass` are 2 for the code's 5, 5, 8 and any, so that there is a first, a
  last and one between them and the limit; two steps of the clock and the one
  ahead that `totpVerify` allows; one restart or failed write. The theorems
  need none of these.

### Fairness

`safemode_lockout`, `update`, `configuration` and `notices` have liveness. In
`Update` procd respawns the service (`StartService`) and the restart goroutine is
run (`RestartAfter`), and its command does not fail. In `SafeMode` goroutines
that can take a step do (`Handler`, `ExecuteRollback`, `Restore`), a timer whose
time has come fires (`Expire`), the clock ticks. In `Configuration` the watcher
of the certificate (`Watch`) and the requests under way (`ProxyStep`) go on; in
`Notices` each loop comes to its next step. That is what Go's scheduler and
runtime give. Nothing is assumed of users: nobody has to send a request or
confirm. In `safemode_lockout` failures are off because a service that never
reloads cannot let anybody in; elsewhere they are bounded in number.

## Proofs

Each theorem holds for every value of the constants that the assumption of its
module allows, so for any number of requests, rows, failures and restarts.

`SafeMode_proofs`:

* `TypeCorrect`: `Spec => []TypeOK`. `TypeOK` is inductive; the work is that
  every script, and what is left of one after a step or a skip, is a sequence
  of steps (`ScriptType`, `TailType`, `AheadType`).
* `ImplementsTrial`: `Spec => TrialSpec`. `TrialChange` lets a change be put on
  trial only if it has no verdict, which no guard in the code says. The
  strengthening `TrialInv` supplies it: the verdict of a change is "trial" iff
  it is `rbPending`; what is left of a handler has at most one schedule step,
  and as long as it has one there is no verdict. The scripts have one at most
  (`ScriptSchedules`), and a handler only gets shorter (`ScheduleTail`,
  `ScheduleAhead`). Each action is then a step of `TrialChange` or a stutter
  (`TrialNext`).
* `VerdictsFinal`: `Spec => VerdictIsFinal`, from the same invariant.

What follows rests on what a handler still has to do. `RestInv` says that it is
the end of its script; every script has an order (`ScriptOrderly`: a file is
copied once, then committed once, then reloaded, and a trial is scheduled after
the last commit); and no step of anybody does more to a handler than to let it
begin, go on, skip or quit (`NextGoes`).

* `CopyAlwaysStays` and `PlanAlwaysRestorable`: `Spec => []PlanIsRestorable`,
  with one copy of a file per second (`~SharedSecond`) and no more requests than
  copies are kept (20 in the code). The invariant `BackupInv` says that who has
  still to copy a file has left no edit anywhere (`NotYet`), that copies bear the
  second they were made in (`Dated`), and that a copy is without its maker's edits
  and goes only when as many as are kept have come after it (`CopyStays`). So the
  other handlers can add to a file, commit it and even restore it: none can
  bring the edits of the change on trial into its own copy. `RotatedOut` does the
  counting.
* `AlwaysConverges`: `Spec => []Converges`, without any assumption. `LoadedInv`:
  a service that does not run its file is one that a handler has committed and
  not reloaded, or that a rollback has still to reload. A handler never commits
  a file again after it has reloaded it (`HeadOrder`), and where a commit finds
  nothing to do and steps are skipped, the file is as it was (`SkipOwes`,
  `WanAddEnds`, `AclOffEnds`). `UndoInv`: a rollback reloads what it writes.
* `UnconfirmedAlwaysReverted`: `Spec => []UnconfirmedReverted`, on a device where
  nothing fails or restarts (`~MayFail`, `MaxRestarts = 0`), for one risky request
  (`OneRisky`) among any number of others, and on the copies above. `CopiedInv`
  says that who has an edit anywhere has copied the file before; `OnTrialInv` that
  a risky change is on trial from its last commit on, and that after it was undone
  it is only in files still to be written. The assumptions are needed: a file
  that cannot be written back stays as it is, `safemode_restart` shows what a
  restart does, and without `OneRisky` TLC finds the departure described above.

`Update_proofs`: `TypeCorrect`; `AlwaysWhole`: `Spec => []ProgramIsWhole`;
`OneRelease`: `Spec => []UpdateIsWhole`. Neither is inductive. `UpdateInv` adds
that one update at most is under way (`OneUpdate`), that what it has unpacked is
usable although the package may have been replaced since (`UnpackedUsable`),
that what it renames is complete (`RenamesWhole`), that the update whose pages
are being copied is the last to have renamed (`CopiesLast`), and that all its
pages are in place but for those it has still to copy (`Installed`).
`EarlyStep` covers all steps before the program is touched at once.

`Rules_proofs`: `AlwaysNarrow`: `Spec => []NarrowStaysNarrow`, for every file at
first that is itself narrow (`OldFilesAssumption`). What the firewall runs is no
invariant by itself: `NarrowInv` adds the file it was loaded from and what every
apply has made so far for its batch (`NarrowPlan`), because an apply that has
resolved an alias may write it long after the alias is gone. On it rest:

* `QuietApplyAlwaysExact`: `Spec => QuietApplyIsExact`. `ExactInv` says of every
  apply that is quiet how far it has come (`ExactFits`): what it has read is in
  the tables, what it has made is of the rows it has resolved, what it has seen is
  the file. Who writes a table ends the quiet, and so does another's batch; nobody
  else disturbs it (`TablesStay`, `FitsStay`). At the batch, what it made is all
  that is wanted (`WantedParts`) and it deletes all that was there.
* `OrderAlwaysKept`: `Spec => OrderKept`. `Ready` says of a move that is writing:
  the rows it has come to have their places, none that it has yet to come to is
  passed on the way by one that belongs before it, and rows made meanwhile are
  behind all. `Tidy` adds that no other move is writing and that a rule being made
  has a position behind those it knew of. Both follow from `Numbered` alone, when
  a move begins (`SwappedOrder`), so a move that finds the rules numbered keeps
  their order whatever earlier moves did. `RankOrders` is the lemma underneath:
  the place of a rule, a number of rows, orders the rules as the table does.

`Tunnels_proofs`: `TypeCorrect`, whose invariant `Typed` adds which steps belong
to which handler (`StepsFit`), what each has in hand (`DataFits`) and that who is
past the authority finds its certificate (`Authority`). On it rest:

* `KeysAlwaysMatch`, under `OneSetup` and `OneServer`: `Spec => []KeysMatch`. A
  handler that breaks off may leave a key without its certificate. `SetupFits`
  says that between the two the key is the request's own and no certificate is
  there; `CertificatesFit` is what holds all the time. The key of the WireGuard
  server is the one in the file once it is there (`ServerFits`).
* `DeletedAlwaysRevoked`, under `OneRevoker` and `ReadsAnswer`:
  `Spec => []DeletedIsRevoked`. `RevokedInv` adds what whoever is about to write
  crl.pem has read: every client a user was told of, and its own
  (`RevokedFits`). Without the two bounds it is false: two writers lose an entry,
  and a read that fails gives an empty list, both of which the hazards name.
* `SitesStayApart`: `Spec => []SitesApart`. As long as no edits have overlapped,
  what a request has found free is still so when it writes the row (`ApartInv`).
* `QuietApplyAlwaysExact`, under `ReadsAnswer` and `FreshSave`:
  `Spec => QuietApplyIsExact`. `QuietInv` says how far each step of an apply that
  is alone has brought the tables into the files. Its own steps go on from there
  (`OvpnQuiet`, `WGQuiet`, `SitesQuiet`); those of another VPN write the same two
  files, and leave its sections as they are (`OvpnLeaves`, `WGLeaves`,
  `SitesLeave`); a reload by another loads a file that has them (`Loads`). Files
  are by name, so that no two clients have one name is part of it (`NamesApart`).
* `SuggestionAlwaysFree`: `Spec => []SuggestionIsFree`, for any network and any
  tables; the invariant needs no step, but the algorithm does: a set of numbers
  has a least member (`LeastMember`), so the loop stops at an address that is free
  whenever there is one (`FreeAddressFound`). That a power of two is a natural
  number is assumed (`TunnelAddressAssumption`): the provers cannot do the
  induction.

`OpenVPNAssumption`, `WireGuardAssumption` and `SitesAssumption` say of a scenario
what its tables must satisfy: a client has a certificate of the authority that is
there and a name of its own, two sites have two networks.

`Device_proofs`, of `Firmware`, under `Exclusive`: `AlwaysSlim`, `ProgramAlwaysSurvives`,
`AlwaysVerified`, `AlwaysHasBackup`, and `TypeCorrect` without it. `UpgradeInv`
has one part for each: one party at a time (`OneAtATime`), the keep list is full
but where a backup has it cut down (`ListKept`), what a backup holds in its hands
is slim (`SlimInv`), the archive of an upgrade stays (`BackupInv`), and the image
that was checked is there or none is (`ImageInv`).

`Storage_proofs`, under `Undisturbed` (the faults the run leaves out):
`AlwaysMounted`, `AlwaysWhole`, `AlwaysKnown`, and `TypeCorrect` without it.
`StorageInv` says who may be at work beside whom (`Alone`), where the data is and
what fstab says at each step of a restore and of a move (`Mounts`), which files
a restore has written (`Written`), what an exchange of the database that was cut
off leaves to be finished (`Exchanging`), and what can be found by the next start
(`Known`).

`Accounts_proofs`: `TypeCorrect`, whose invariant `Typed` adds which steps belong
to which call and what data each has (`StepsFit`, `DataFits`).
`AnAdministratorRemains`: `Spec => []AdministratorRemains`. An edit is a read, a
look at oneself, a count and up to three writes, any of which may fail: as long
as nothing has crossed, edits come one at a time (`InTurn`), what an edit has
read is still so, and once it has counted there is an administrator it does not
touch, or it leaves one (`SafeEdit`). `TheOldPasswordEnds`:
`Spec => []OldAccessEnds`. A session whose password is not its user's is one that
the request which wrote the password has yet to close (`SessionInv`): nothing
else writes a password (`StepKeepsPass`), and no step but the closing one ends
that request without a trace in `missed`.

`ARecoveryCodeIsGoodOnce`: `Spec => []RecoveryOnce`. `RecoveryInv` adds that a
recovery code is in one place: in the table of one user, or in the hands of one
request that is about to store it or to open a session with it, or spent
(`InOnePlace`), and that the codes of a user are of one set, the one being
stored if one is (`OneSet`). Sets and secrets have numbers that are given out once
(`Issued`, `NumbersGrow`), so no code made before comes again.

`ACodeOfTheClockIsGoodOnce`: `Spec => []CodeOnce`. `CodeInv` adds that no secret
is of two users (`SecretsDiffer`), that who calls on his own account is the user of
his session (`OwnSession`), that a used code is at or before the last step of its
secret (`UsedIsOld`), and that one found right and not used yet is of its user's
secret and in no other hand (`InHandIsNew`). `AccountsAssumption` says of a
scenario only what its rows must satisfy: secrets, codes and session numbers of two users differ.

`Configuration_proofs`: every safety property of `Configuration`. `CallsInv` says
that whoever is `alone` has nobody beside it, and two facts carry the rest: a step of
one group of handlers leaves the labels of the others alone (`NamesOrAside`,
`ProxyOrOff`, `ServicesOrRests`), and who goes on while requests come one at a time
is the only one there (`OnlyOne`).

* `ByHandAlwaysStays`: `Spec => []ByHandStays`. `NamesInv` is the type of the tables
  and of what each request has in hand; `ByHandInv` adds that whoever has read the
  section and not written it yet has read what was made by hand.
* `AChoiceAlwaysStays`: `Spec => []ChoiceStays`. `ChoiceInv` follows a choice from
  its batch to its note, and a switch of DNSSEC from the note it has read: as long
  as somebody's servers are in force, DNSSEC has none noted as its own.
* `AnApplyIsInForce`: `Spec => NamesInForce`. `ForceInv` says what an apply that is
  alone has in hand, that from its batch on every row is in the file, and, while
  requests come one at a time, that an entry of a list is made by hand, noted, or
  committed and not noted. Other handlers of the same section leave the part of it
  that matters here (`OthersForce`).
* `SitesAreAlwaysServed`: `Spec => SitesAreServed`, from `SiteInv`: how far an apply
  has brought the enabled sites, into the links, the file and HAProxy.
  `PortAlwaysHasOneOwner`: `Spec => PortHasOneOwner`. `PortInv`: the firewall runs its
  file but between a commit and the reload after it, and who has port 80 in hand has
  read what is there.
* `EachDoesAsAsked`: `Spec => DoesAsAsked`, `ConfigsAreCopiedFirst`:
  `Spec => CopiedFirst`, `AVlanCanAlwaysGo`: `Spec => []VlanCanGo`. Each of the
  twenty-five scripts is shown to have a shape once (the lemmas named for the
  handlers, `ScriptShape`): it writes its own parts only, loads each after it has
  written it, copies a config before it commits to it, and reads the crontab right
  before it writes it. What follows is about any script of that shape. `AskInv`:
  each part is still to be written and loaded, or written and still to be loaded, or
  as asked. `CopyInv`: what will be written of a config is copied, or will be before.
  `VlanInv`: the interface comes before the rest of a network, and what a deletion
  has not seen or has passed is not there.

`NamesAssumption` says that what was made by hand is neither an entry of a row nor an
upstream server, and, with `ProxyAssumption`, what the tables of a scenario are made
of; `ServicesAssumption` that no wish is the absence of one.

`Device_proofs`, of `Notices`, for every scenario and any number of changes,
failures and restarts. First how an actor moves: it goes one to three steps on in
the script of its check and holds what the step says (`GoesOn`), or it is done with
the check and holds nothing (`Quits`); where each step has its place in each of
the scripts (`Place`, `WhereIs`). What follows is about a check and a place in it.

* `NoticesTypeCorrect`: `NoticesSpec => []NoticesTypeOK`, which says more than
  types: what a check writes, tells, sends or counts it has seen. That is not
  inductive, since `ask` or `note` may come after a skip. `SeenFirst` says it of
  every place after the look.
* `MailedOnce`: `NoticesSpec => []OncePerPeriod`. `OneInside` says that a check that
  is not disturbed has one actor in it. `Mailing` has one part for each way of
  asking: a notice that went out is noted as recent (`NotedAreMailed`), and who has
  asked and not noted yet has a text that is not (`NoteIsNew`); a mailed backup is
  noted, or being noted (`BackupNoted`); a report that went out is recorded, or
  being recorded (`ReportOnce`).
* `TrafficCounted`: `NoticesSpec => []TrafficIsCounted`. `Traffic` says at each step
  of a sample that what is counted, what the sample will add and what has come
  since are at most what has passed (`AtMost`), and all of it as long as the
  counter went on (`Exactly`): between remembering a sample and adding it, it is
  the value held and not the one remembered that counts.
* `NoticesReport`: `NoticesSpec => ReporterSpec`. `Logging` says of every followed
  thing that is not disturbed how the log stands to what is remembered, seen and
  recalled at each place of its check (`FollowsAt`), with one form for those told
  before they are remembered (`FollowsFirst`), one for those remembered first
  (`FollowsLatter`) and one for the report (`FollowsReport`); outside of it the log
  says what is remembered. A step of an actor keeps that and tells something new
  that was so (`Kept`, `Fresh`); a restart that leaves a check undisturbed has cut
  it off at a place where the log says what is remembered (`CutOff`). Each step is
  then a step of `Reporter` (`LogStep`).

`NoticesAssumption` says only that `None` is no value and no place, and that the
bounds are natural numbers, those of values and of bursts not zero; a scenario is
made of the things, calls and switches there are.

Every safety property of a passing run has its theorem (`ReporterSpec` is the one
in `ReporterFairSpec`). Only model-checked is liveness (`LockoutEnds`,
`TrialFairSpec`, `ReporterFairSpec`, `ServesCurrent`, `UpdateTakesEffect`), which
the installed provers cannot do under fairness. What `safemode_restart` and
`notices_reboot` show needs no proof: a counterexample is one.

## Abstractions to know of

* Reading a file with `ubus call uci get` and writing the edits with `uci
  batch` is one step in `SafeMode`; a batch that fails is either in or not. The
  same goes for a read and a write of the keep list each. `VpnCalls` and `Calls`
  have the two apart.
* Option values, validation and formatting are left out. A request that fails
  validation changes nothing and has no action.
* A name given twice within one second is possible in the models
  (`SharedSecond`) and excluded in the runs.
* Data that is written and not synced is taken as written at a power cut.
* Archives made while a restore is staged carry the staged file in their copy
  of `/etc`'s list; not modelled.
* Passwords, codes, keys and certificates are names; that they cannot be guessed
  or forged is not what these models are about.

## Not modelled

* Diagnostics, dashboard, inventory, disk, and the copy of a backup off the
  device: they read, run an external program or change single rows nobody else
  reads. A packet capture outlives a restart of the service, and then its limit.
* The API token: a file and its copy in memory, which regeneration replaces one
  after the other.
* The text of things: reports, mails, differences, profiles, generated
  configuration beyond what of it decides whether a service can load it.
* Building a firmware image and reinstalling packages, which run services of
  OpenWrt; the boot script that recovers a data partition; the pages and the
  installation scripts.
* Hazards known and not followed further: edits of other handlers undone by a
  rollback of the whole file (`saferollback.go:65`); a handler of two files that
  stops after the first (`wan.go:256`; in `SafeMode` it is part of every run);
  archives named by the second (`backup.go:32`); a database torn while staged
  (`backup.go:461`); an fstab entry that cannot be put back (`backup.go:511`);
  updates that overlap (`update.go:358`); a tool that opens the database beside
  the service (`main.go:89`); tables read one by one (`firewall.go:1063`,
  `dns.go:816`); who is named as the author of a change (`audit.go:40`,
  `audit.go:54`).

## What could follow

The hazards listed without a property: copies named by the second (`dhcp.go:391`)
and services that missed an earlier restart (`hardening.go:313`). A model of the
captures of the diagnostics, which outlive their requests, and of the API token.
Of the theorems that assume that nothing overlaps (`Exclusive`, `Undisturbed`,
`OneSetup`, `OneRevoker`), how much of each stays true when something does.
