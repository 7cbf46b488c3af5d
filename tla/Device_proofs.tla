--------------------------- MODULE Device_proofs ---------------------------
(***************************************************************************)
(* Proofs about what the device does to itself and tells by itself.        *)
(*                                                                         *)
(* Firmware, for any calls side by side, any failures and restarts: its    *)
(* types, and of every upgrade that it writes what was checked, after a    *)
(* backup, and leaves the program in place, with the exceptions its        *)
(* properties name.                                                        *)
(*                                                                         *)
(* Notices, for any scenario, failures and restarts: their types, that     *)
(* nothing goes out twice in its period, that traffic is counted as it     *)
(* was, and that they implement Reporter.  Who is inside a check, and what *)
(* it holds at each of its steps, is one invariant per promise.            *)
(***************************************************************************)
EXTENDS Firmware, Notices, WellFoundedInduction, FiniteSetTheorems, TLAPS

(* The types, and which calls have a second.                               *)
Typed ==
  /\ TypeOK
  /\ \A j \in Job : IF step[j] = "off" THEN ts[j] = 0 ELSE ts[j] \in Second

(* While the service is down no call goes on.                              *)
QuietWhenDown == ~up => \A j \in Job : ~Making(j)

(* Unless the list is broken, one call at most has it in hand, has read    *)
(* the full one, and it is the full one but while it is cut down.          *)
ListKept ==
  listBroken \/
  /\ \A j, k \in InHand : j = k
  /\ \A j \in InHand : listRead[j] = Full
  /\ (up \/ \E j \in FlashJob : flash[j] = "armed") /\ CutDown = {}
       => keepList = Full

(* What sysupgrade -b takes for a call that had the list for itself has no *)
(* program in it.                                                          *)
SlimInv ==
  /\ ArchivesAreSlim
  /\ \A j \in together : step[j] # "off"
  /\ \A j, k \in InHand : j # k => j \in together
  /\ \A j \in Job \ together :
       /\ step[j] = "etc" => "program" \notin keepList
       /\ step[j] \in {"restore", "snapshot", "archive"} => "program" \notin taken[j]

Shared(j) == \E k \in Job \ {j} : ts[k] = ts[j]

(* The archive an upgrade has made stays until the firmware is written,    *)
(* or is replaced.                                                         *)
BackupInv ==
  /\ \A t \in Second : archive[t] # "none" => \E k \in Job : ts[k] = t
  /\ \A j \in Job :
       step[j] = "archive" => archive[ts[j]] \in {"partial", "none"} \/ Shared(j)
  /\ \A j \in FlashJob :
       /\ flash[j] = "armed" => step[j] = "made"
       /\ flash[j] \in {"backup", "armed"} /\ step[j] = "made"
            => archive[ts[j]] = "whole" \/ Replaced(j)

(* The image that was checked is there, or none is, unless another was     *)
(* staged.                                                                 *)
ImageInv ==
  /\ \A j \in FlashJob : flash[j] \in {"off", "check"} => j \notin risky
  /\ \A j \in Checked :
       /\ j \in restaged \/ (image \in {checked[j], NoImage} /\ Writers = {})
       /\ j \in risky => accept[j]

UpgradeInv ==
  Typed /\ QuietWhenDown /\ ListKept /\ SlimInv /\ BackupInv /\ ImageInv

----------------------------------------------------------------------------
(* Types.                                                                  *)
LEMMA TypedInit == Init => Typed
  <1> SUFFICES ASSUME Init PROVE Typed
    OBVIOUS
  <1>1. BackupTypeOK
    <2>1. now \in Second /\ 0 \in 0..LastSecond
      BY FullBackupAssumption DEF Init, BackupInit, Second
    <2>2. listBroken \in BOOLEAN
      BY DEF Init, BackupInit
    <2>3. keepList \subseteq Item
      BY DEF Init, BackupInit, Full
    <2> QED
      BY <2>1, <2>2, <2>3 DEF Init, BackupInit, BackupTypeOK
  <1>2. TypeOK
    BY <1>1, FirmwareAssumption DEF Init, TypeOK
  <1> QED
    BY <1>2 DEF Init, BackupInit, Typed

(* Requests that are cut off leave functions of the same types.            *)
LEMMA KillTyped ==
  ASSUME Typed, KillRequests
  PROVE  /\ step' \in [Job -> {"off", "list", "slim", "etc", "restore", "giveUp",
                               "snapshot", "archive", "made", "failed"}]
         /\ stage' \in [Stager -> {"off", "copy", "meta", "over"}]
         /\ \A j \in Job : step'[j] = "off" <=> step[j] = "off"
  BY DEF Typed, TypeOK, BackupTypeOK, KillRequests, Making

(* A call of createFullBackup starts.                                      *)
LEMMA StartTyped ==
  ASSUME Typed, NEW j \in Job, StartBackup(j)
  PROVE  /\ BackupTypeOK'
         /\ \A k \in Job : IF step'[k] = "off" THEN ts'[k] = 0 ELSE ts'[k] \in Second
  <1>1. Second \subseteq 0..LastSecond
    BY FullBackupAssumption DEF Second
  <1> QED
    BY <1>1 DEF StartBackup, Go, Typed, TypeOK, BackupTypeOK

(* A call that takes a step was on its way before, and stays on it or is   *)
(* over; no name of an archive changes.                                    *)
LEMMA BackupGoesOn ==
  ASSUME NEW j \in Job, Typed, BackupStep(j) \/ BackupStepFails(j)
  PROVE  /\ Making(j) /\ step'[j] # "off" /\ UNCHANGED <<ts, removed>>
         /\ step' \in [Job -> {"off", "list", "slim", "etc", "restore", "giveUp",
                               "snapshot", "archive", "made", "failed"}]
         /\ \A k \in Job : k # j => step'[k] = step[k]
  BY DEF BackupStep, BackupStepFails, ReadList, WriteSlim, WriteSlimFails, MakeEtc,
         MakeEtcFails, RestoreList, RestoreListFails, OpenArchive, SnapshotFails,
         CloseArchive, CloseArchiveFails, AfterRestore, Go, Making, Typed, TypeOK,
         BackupTypeOK

(* It takes a step.                                                        *)
LEMMA TypedBackup ==
  ASSUME Typed, NEW j \in Job, BackupStep(j) \/ BackupStepFails(j)
  PROVE  /\ BackupTypeOK'
         /\ \A k \in Job : IF step'[k] = "off" THEN ts'[k] = 0 ELSE ts'[k] \in Second
  <1> USE DEF Typed, TypeOK, BackupTypeOK
  <1>1. \A k \in Job : IF step'[k] = "off" THEN ts'[k] = 0 ELSE ts'[k] \in Second
    BY BackupGoesOn DEF Making
  <1>2. /\ UNCHANGED <<ts, removed>>
        /\ step' \in [Job -> {"off", "list", "slim", "etc", "restore", "giveUp",
                              "snapshot", "archive", "made", "failed"}]
    BY BackupGoesOn
  <1>3. CASE ReadList(j)
    <2>1. /\ listBroken' \in BOOLEAN /\ together' \subseteq Job
          /\ listRead' \in [Job -> SUBSET Item]
      <3>1. InHand \subseteq Job
        BY DEF InHand
      <3>2. CASE InHand = {}
        <4>1. listBroken' = listBroken /\ together' = together
          BY <1>3, <3>2 DEF ReadList
        <4>2. listRead' \in [Job -> SUBSET Item]
          BY <1>3 DEF ReadList
        <4>3. listBroken' \in BOOLEAN
          BY <4>1, Zenon
        <4> QED
          BY <4>1, <4>2, <4>3
      <3>3. CASE InHand # {}
        <4>1. listBroken' = TRUE
          BY <1>3, <3>3 DEF ReadList
        <4>2. together' \subseteq Job /\ listRead' \in [Job -> SUBSET Item]
          BY <1>3, <3>1, <3>3 DEF ReadList
        <4>3. listBroken' \in BOOLEAN
          BY <4>1, Zenon
        <4> QED
          BY <4>2, <4>3
      <3> QED
        BY <3>2, <3>3
    <2>2. UNCHANGED <<now, keepList, archive, holds, taken>>
      BY <1>3 DEF ReadList
    <2> QED
      BY <1>1, <1>2, <2>1, <2>2
  <1>4. CASE WriteSlim(j) \/ WriteSlimFails(j)
    BY <1>1, <1>2, <1>4 DEF WriteSlim, WriteSlimFails, ForgetList, Slim
  <1>5. CASE MakeEtc(j) \/ MakeEtcFails(j)
    BY <1>1, <1>2, <1>5 DEF MakeEtc, MakeEtcFails
  <1>6. CASE RestoreList(j) \/ RestoreListFails(j)
    BY <1>1, <1>2, <1>6 DEF RestoreList, RestoreListFails, ForgetList
  <1>7. CASE OpenArchive(j) \/ SnapshotFails(j) \/ CloseArchiveFails(j)
    BY <1>1, <1>2, <1>7 DEF OpenArchive, SnapshotFails, CloseArchiveFails
  <1>8. CASE CloseArchive(j)
    <2>1. archive' \in [Second -> {"none", "partial", "torn", "whole"}]
      BY <1>8 DEF CloseArchive
    <2>2. holds' \in [Second -> SUBSET Item] /\ taken' \in [Job -> SUBSET Item]
      BY <1>8 DEF CloseArchive
    <2> QED
      BY <1>1, <1>2, <1>8, <2>1, <2>2 DEF CloseArchive
  <1> QED
    BY <1>3, <1>4, <1>5, <1>6, <1>7, <1>8 DEF BackupStep, BackupStepFails

(* Every step keeps the types.                                             *)
LEMMA TypedNext == Typed /\ [Next]_vars => Typed'
  <1> SUFFICES ASSUME Typed, [Next]_vars PROVE Typed'
    OBVIOUS
  <1> USE DEF Typed, TypeOK
  <1>1. ASSUME NEW j \in BackupJob, BeginBackup(j) PROVE Typed'
    BY <1>1, StartTyped, FirmwareAssumption DEF BeginBackup, staging, flashing, service
  <1>2. CASE \E j \in Job : Backups(j)
    BY <1>2, TypedBackup DEF Backups, staging, flashing, service
  <1>3. CASE \E t \in Second : Delete(t)
    BY <1>3 DEF Delete, DeleteArchive, staging, flashing, service, BackupTypeOK
  <1>4. ASSUME NEW s \in Stager, OpenImage(s) \/ CopyImage(s) \/ CopyFails(s) \/ DescribeImage(s)
        PROVE  Typed'
    <2>1. UNCHANGED <<backupVars, flash, checked, accept, risky, flasher, service>>
      BY <1>4 DEF OpenImage, CopyImage, CopyFails, DescribeImage, flashing
    <2>2. CASE OpenImage(s)
      BY <2>1, <2>2 DEF OpenImage, Checked, backupVars, service, BackupTypeOK
    <2>3. CASE CopyImage(s)
      BY <2>1, <2>3 DEF CopyImage, backupVars, flashing, service, BackupTypeOK
    <2>4. CASE CopyFails(s)
      BY <2>1, <2>4 DEF CopyFails, backupVars, flashing, service, BackupTypeOK
    <2>5. CASE DescribeImage(s)
      BY <2>1, <2>5 DEF DescribeImage, backupVars, flashing, service, BackupTypeOK
    <2> QED
      BY <1>4, <2>2, <2>3, <2>4, <2>5
  <1>5. ASSUME NEW j \in FlashJob, NEW consent \in BOOLEAN, BeginFlash(j, consent)
        PROVE  Typed'
    BY <1>5 DEF BeginFlash, backupVars, staging, service, BackupTypeOK
  <1>6. ASSUME NEW j \in FlashJob, NEW p \in BOOLEAN, NEW n \in Needed, CheckImage(j, p, n)
        PROVE  Typed'
    <2> DEFINE asks == NeedsConsent(checked[j], p, n)
    <2>1. CASE MayFlash(j, asks)
      <3>1. /\ StartBackup(j) /\ flash' = [flash EXCEPT ![j] = "backup"]
            /\ risky' \in {risky, risky \union {j}}
            /\ restaged' \in {restaged, restaged \union {j}}
        BY <1>6, <2>1 DEF CheckImage
      <3>2. UNCHANGED <<staging, checked, accept, flasher, service>>
        BY <1>6 DEF CheckImage
      <3>3. j \in Job
        BY FirmwareAssumption
      <3>4. /\ BackupTypeOK'
            /\ \A k \in Job : IF step'[k] = "off" THEN ts'[k] = 0 ELSE ts'[k] \in Second
        BY <3>1, <3>3, StartTyped
      <3> QED
        BY <3>1, <3>2, <3>4 DEF staging, service
    <2>2. CASE ~MayFlash(j, asks)
      BY <1>6, <2>2 DEF CheckImage, backupVars, staging, service, BackupTypeOK
    <2> QED
      BY <2>1, <2>2
  <1>7. ASSUME NEW j \in FlashJob, Launch(j) \/ LaunchFails(j) \/ SysupgradeRefuses(j)
        PROVE  Typed'
    BY <1>7 DEF Launch, LaunchFails, SysupgradeRefuses, backupVars, staging, service,
                BackupTypeOK
  <1>8. ASSUME NEW j \in FlashJob, Sysupgrade(j) PROVE Typed'
    <2>1. KillRequests
      BY <1>8 DEF Sysupgrade
    <2>2. installed' \in BOOLEAN /\ up' \in BOOLEAN
      <3>1. installed' = ("program" \in keepList) /\ up' = FALSE
        BY <1>8 DEF Sysupgrade
      <3>2. ("program" \in keepList) \in BOOLEAN
        OBVIOUS
      <3> QED
        BY <3>1, <3>2, Zenon
    <2>3. image' = NoImage /\ meta' \in {meta, NoImage}
      BY <1>8 DEF Sysupgrade
    <2>4. /\ BackupTypeOK'
          /\ \A k \in Job : IF step'[k] = "off" THEN ts'[k] = 0 ELSE ts'[k] \in Second
      BY <1>8, <2>1, KillTyped DEF Sysupgrade, BackupTypeOK
    <2>5. /\ flash' \in [FlashJob -> {"off", "check", "backup", "armed", "over"}]
          /\ flasher' \in FlashJob
          /\ UNCHANGED <<written, checked, accept, risky, restaged, restarts>>
      BY <1>8 DEF Sysupgrade
    <2> QED
      BY <2>1, <2>2, <2>3, <2>4, <2>5, KillTyped
  <1>9. ASSUME NEW reboot \in BOOLEAN, Stop(reboot) PROVE Typed'
    <2>1. KillRequests
      BY <1>9 DEF Stop
    <2>2. restarts' \in 0..MaxRestarts
      BY <1>9, FirmwareAssumption DEF Stop
    <2>3. image' \in {image, NoImage} /\ up' \in BOOLEAN
      BY <1>9 DEF Stop
    <2>4. listBroken' \in BOOLEAN
      <3>1. (listBroken \/ CutDown # {}) \in BOOLEAN
        OBVIOUS
      <3> QED
        BY <1>9, <3>1 DEF Stop
    <2>5. /\ BackupTypeOK'
          /\ \A k \in Job : IF step'[k] = "off" THEN ts'[k] = 0 ELSE ts'[k] \in Second
      BY <1>9, <2>1, <2>4, KillTyped DEF Stop, BackupTypeOK
    <2>6. /\ flash' \in [FlashJob -> {"off", "check", "backup", "armed", "over"}]
          /\ UNCHANGED <<installed, meta, written, checked, accept, risky, restaged,
                         flasher>>
      BY <1>9 DEF Stop
    <2> QED
      BY <2>1, <2>2, <2>3, <2>5, <2>6, KillTyped
  <1>10. CASE StartService
    BY <1>10 DEF StartService, EnsureKeepList, Full, staging, flashing, BackupTypeOK
  <1>11. CASE Clock
    BY <1>11, FullBackupAssumption
       DEF Clock, NextSecond, staging, flashing, service, BackupTypeOK, Second
  <1>12. CASE UNCHANGED vars
    BY <1>12 DEF vars, BackupTypeOK
  <1> QED
    BY <1>1, <1>2, <1>3, <1>4, <1>5, <1>6, <1>7, <1>8, <1>9, <1>10, <1>11, <1>12
       DEF Next

(* Every reachable state of an upgrade and of the backups beside it has    *)
(* the stated types, whoever overlaps.                                     *)
THEOREM TypeCorrect == Spec => []TypeOK
  <1>1. Typed => TypeOK
    BY DEF Typed
  <1> QED
    BY <1>1, TypedInit, TypedNext, PTL DEF Spec

----------------------------------------------------------------------------
(* What the other steps leave alone.                                       *)

(* The steps that touch neither the list nor a backup on its way.          *)
Aside ==
  \/ \E t \in Second : Delete(t)
  \/ \E s \in Stager : OpenImage(s) \/ CopyImage(s) \/ CopyFails(s)
                       \/ DescribeImage(s)
  \/ \E j \in FlashJob : \/ \E consent \in BOOLEAN : BeginFlash(j, consent)
                         \/ Launch(j) \/ LaunchFails(j) \/ SysupgradeRefuses(j)
  \/ Clock
  \/ UNCHANGED vars

LEMMA AsideLeaves ==
  ASSUME Aside
  PROVE  UNCHANGED <<keepList, listBroken, holds, listRead, taken, step, ts, together, up>>
  BY DEF Aside, Delete, DeleteArchive, OpenImage, CopyImage, CopyFails, DescribeImage,
         BeginFlash, Launch, LaunchFails, SysupgradeRefuses, Clock, NextSecond, vars,
         backupVars, staging, flashing, service

(* A backup is started, by hand or by an upgrade.                          *)
Starts(j) ==
  /\ up /\ step[j] = "off"
  /\ step' = [step EXCEPT ![j] = "list"]
  /\ ts' = [ts EXCEPT ![j] = now]
  /\ UNCHANGED <<now, keepList, listBroken, archive, holds, listRead, taken,
                 together, removed, up, installed, restarts, image, written>>

Ends ==
  \/ \E j \in FlashJob : Sysupgrade(j)
  \/ \E reboot \in BOOLEAN : Stop(reboot)

LEMMA Kinds ==
  ASSUME [Next]_vars
  PROVE  \/ \E j \in BackupJob : BeginBackup(j)
         \/ \E j \in Job : Backups(j)
         \/ \E j \in FlashJob, p \in BOOLEAN, n \in Needed : CheckImage(j, p, n)
         \/ StartService
         \/ Ends
         \/ Aside
  BY DEF Next, Ends, Aside

(* A check either starts a backup or ends the request.                     *)
LEMMA CheckStarts ==
  ASSUME Typed, NEW j \in FlashJob, NEW p \in BOOLEAN, NEW n \in Needed, CheckImage(j, p, n)
  PROVE  /\ flash[j] = "check"
         /\ \/ /\ UNCHANGED <<backupVars, risky, restaged>>
               /\ flash' = [flash EXCEPT ![j] = "over"]
            \/ Starts(j) /\ flash' = [flash EXCEPT ![j] = "backup"]
         /\ UNCHANGED <<image, written, stage, meta, up, checked, accept>>
  BY DEF CheckImage, StartBackup, Go, Starts, staging, service

LEMMA BeginStarts ==
  ASSUME NEW j \in BackupJob, BeginBackup(j)
  PROVE  Starts(j) /\ UNCHANGED <<staging, flashing>>
  BY DEF BeginBackup, StartBackup, Go, Starts, staging, flashing, service

(* After a stop, or an upgrade, nobody is at work but a launched upgrade.  *)
LEMMA NobodyLeft ==
  ASSUME Typed, KillRequests
  PROVE  /\ \A j \in Job : ~Making(j)' /\ (step'[j] = step[j] \/ step'[j] = "failed")
         /\ \A j \in Job : step[j] \in {"off", "made"} => step'[j] = step[j]
         /\ InHand' = {} /\ CutDown' = {} /\ Writers' = {}
  <1>1. /\ \A j \in Job : ~Making(j)' /\ (step'[j] = step[j] \/ step'[j] = "failed")
        /\ \A j \in Job : step[j] \in {"off", "made"} => step'[j] = step[j]
    BY DEF KillRequests, Making, Typed, TypeOK, BackupTypeOK
  <1>2. InHand' = {} /\ CutDown' = {}
    BY <1>1 DEF Making, InHand, CutDown
  <1>3. \A s \in Stager : stage'[s] # "copy"
    BY DEF KillRequests
  <1>4. Writers' = {}
    BY <1>3 DEF Writers, Copying
  <1> QED
    BY <1>1, <1>2, <1>4

LEMMA EndsAll ==
  ASSUME Typed, Ends
  PROVE  /\ KillRequests /\ ~up'
         /\ UNCHANGED <<holds, listRead, taken, ts, together, removed, checked, accept,
                        risky, restaged>>
         /\ \A t \in Second : archive'[t] \in {archive[t], "none"}
         /\ \A j \in FlashJob : \/ flash'[j] \in {"off", "over"} /\ flash'[j] \in {flash[j], "over"}
                                \/ flash'[j] = "armed" /\ flash[j] = "armed"
                                   /\ UNCHANGED <<keepList, archive>>
                                   /\ listBroken' = (listBroken \/ CutDown # {})
         /\ image' \in {image, NoImage}
         /\ listBroken => listBroken'
  BY DEF Ends, Sysupgrade, Stop, Typed, TypeOK, BackupTypeOK

----------------------------------------------------------------------------
(* While the service is down nobody works.                                 *)
LEMMA QuietInit == Init => QuietWhenDown
  BY DEF Init, QuietWhenDown

LEMMA QuietNext ==
  ASSUME Typed, QuietWhenDown, [Next]_vars
  PROVE  QuietWhenDown'
  <1> USE DEF QuietWhenDown
  <1>1. CASE Aside
    BY <1>1, AsideLeaves DEF Making
  <1>2. CASE Ends
    BY <1>2, EndsAll, NobodyLeft
  <1>3. CASE \/ \E j \in BackupJob : BeginBackup(j)
             \/ \E j \in Job : Backups(j)
             \/ StartService
    <2>1. up'
      BY <1>3 DEF BeginBackup, Backups, StartService, service
    <2> QED
      BY <2>1
  <1>4. CASE \E j \in FlashJob, p \in BOOLEAN, n \in Needed : CheckImage(j, p, n)
    <2>1. up'
      BY <1>4 DEF CheckImage, service
    <2> QED
      BY <2>1
  <1> QED
    BY <1>1, <1>2, <1>3, <1>4, Kinds

----------------------------------------------------------------------------
(* The list.                                                               *)
LEMMA ListInit == Init => ListKept
  BY DEF Init, BackupInit, ListKept, InHand, CutDown

(* A call of createFullBackup leaves the list full, or cut down while it   *)
(* is the one that has read the full one, or broken.                       *)
LEMMA ListBackup ==
  ASSUME Typed, ListKept, NEW j \in Job, Backups(j)
  PROVE  ListKept'
  <1> USE DEF ListKept, Go, Typed, TypeOK, BackupTypeOK
  <1>1. up /\ UNCHANGED <<up, flash>> /\ \A k \in Job : k # j => step'[k] = step[k]
    BY BackupGoesOn DEF Backups, flashing, service
  <1>2. CASE ReadList(j)
    <2>1. CASE InHand # {}
      BY <1>2, <2>1 DEF ReadList
    <2>2. CASE InHand = {}
      <3>1. CutDown = {} /\ \A k \in Job : step[k] \notin {"slim", "etc", "restore", "giveUp"}
        BY <2>2 DEF InHand, CutDown
      <3>2. InHand' = {j} /\ CutDown' = {}
        BY <1>1, <1>2, <3>1 DEF ReadList, InHand, CutDown
      <3>3. UNCHANGED <<keepList, listBroken>> /\ listRead'[j] = keepList
        BY <1>2, <2>2 DEF ReadList
      <3> QED
        BY <1>1, <3>1, <3>2, <3>3
    <2> QED
      BY <2>1, <2>2
  <1>3. CASE WriteSlim(j)
    <2>1. j \in InHand /\ j \in CutDown' /\ InHand' = InHand
      BY <1>1, <1>3 DEF WriteSlim, InHand, CutDown
    <2>2. UNCHANGED <<listBroken, listRead>>
      BY <1>3 DEF WriteSlim
    <2> QED
      BY <2>1, <2>2
  <1>4. CASE MakeEtc(j) \/ MakeEtcFails(j)
    <2>1. InHand' = InHand /\ CutDown' = CutDown
      BY <1>1, <1>4 DEF MakeEtc, MakeEtcFails, InHand, CutDown
    <2>2. UNCHANGED <<keepList, listBroken, listRead>>
      BY <1>4 DEF MakeEtc, MakeEtcFails
    <2> QED
      BY <1>1, <2>1, <2>2
  <1>5. CASE RestoreList(j)
    <2>1. j \in InHand /\ InHand' = InHand \ {j}
      BY <1>1, <1>5 DEF RestoreList, AfterRestore, InHand
    <2>2. /\ UNCHANGED listBroken /\ keepList' = listRead[j]
          /\ \A k \in Job : k # j => listRead'[k] = listRead[k]
      BY <1>5 DEF RestoreList, ForgetList
    <2> QED
      BY <2>1, <2>2
  <1>6. CASE OpenArchive(j) \/ SnapshotFails(j) \/ CloseArchive(j) \/ CloseArchiveFails(j)
    <2>1. InHand' = InHand /\ CutDown' = CutDown
      BY <1>1, <1>6 DEF OpenArchive, SnapshotFails, CloseArchive, CloseArchiveFails, InHand,
                        CutDown
    <2>2. UNCHANGED <<keepList, listBroken, listRead>>
      BY <1>6 DEF OpenArchive, SnapshotFails, CloseArchive, CloseArchiveFails
    <2> QED
      BY <1>1, <2>1, <2>2
  <1>7. CASE WriteSlimFails(j) \/ RestoreListFails(j)
    BY <1>7 DEF WriteSlimFails, RestoreListFails
  <1> QED
    BY <1>2, <1>3, <1>4, <1>5, <1>6, <1>7 DEF Backups, BackupStep, BackupStepFails

(* A backup that is started has not read the list.                         *)
LEMMA ListStarts ==
  ASSUME Typed, ListKept, NEW j \in Job, Starts(j),
         \A k \in FlashJob : flash'[k] = "armed" => flash[k] = "armed"
  PROVE  ListKept'
  <1>1. InHand' = InHand /\ CutDown' = CutDown
    BY DEF Starts, InHand, CutDown, Typed, TypeOK, BackupTypeOK
  <1>2. UNCHANGED <<keepList, listBroken, listRead, up>> /\ up
    BY DEF Starts
  <1> QED
    BY <1>1, <1>2 DEF ListKept

LEMMA ListNext ==
  ASSUME Typed, QuietWhenDown, ListKept, [Next]_vars
  PROVE  ListKept'
  <1> USE FirmwareAssumption
  <1>1. ASSUME NEW j \in BackupJob, BeginBackup(j) PROVE ListKept'
    <2>1. j \in Job /\ Starts(j) /\ UNCHANGED flash
      BY <1>1, BeginStarts DEF flashing
    <2> QED
      BY <2>1, ListStarts
  <1>2. ASSUME NEW j \in Job, Backups(j) PROVE ListKept'
    BY <1>2, ListBackup
  <1>3. ASSUME NEW j \in FlashJob, NEW p \in BOOLEAN, NEW n \in Needed, CheckImage(j, p, n)
        PROVE  ListKept'
    <2>1. \A k \in FlashJob : flash'[k] = "armed" => flash[k] = "armed"
      BY <1>3, CheckStarts DEF Typed, TypeOK
    <2>2. CASE Starts(j)
      BY <2>1, <2>2, ListStarts
    <2>3. CASE UNCHANGED backupVars
      BY <1>3, <2>1, <2>3, CheckStarts DEF backupVars, ListKept, InHand, CutDown
    <2> QED
      BY <1>3, <2>2, <2>3, CheckStarts
  <1>4. CASE Aside
    <2>1. UNCHANGED <<keepList, listBroken, listRead, step, up>>
      BY <1>4, AsideLeaves
    <2>2. up \/ \A j \in FlashJob : flash'[j] = "armed" => flash[j] = "armed"
      BY <1>4 DEF Aside, Delete, OpenImage, CopyImage, CopyFails, DescribeImage,
                  BeginFlash, Launch, LaunchFails, SysupgradeRefuses, Clock, vars,
                  flashing, Typed, TypeOK
    <2> QED
      BY <2>1, <2>2 DEF ListKept, InHand, CutDown
  <1>5. CASE Ends
    <2>1. InHand' = {} /\ ~up' /\ (listBroken => listBroken')
      BY <1>5, EndsAll, NobodyLeft
    <2>2. ASSUME NEW j \in FlashJob, flash'[j] = "armed", ~listBroken'
          PROVE  keepList' = Full
      <3>1. flash[j] = "armed" /\ UNCHANGED keepList /\ listBroken' = (listBroken \/ CutDown # {})
        BY <1>5, <2>2, EndsAll
      <3> QED
        BY <2>2, <3>1 DEF ListKept
    <2> QED
      BY <2>1, <2>2 DEF ListKept
  <1>6. CASE StartService
    <2>1. \A j \in Job : ~Making(j)
      BY <1>6 DEF StartService, QuietWhenDown
    <2>2. InHand' = {}
      BY <1>6, <2>1 DEF StartService, Making, InHand
    <2>3. keepList' = Full \/ listBroken'
      BY <1>6 DEF StartService, EnsureKeepList
    <2> QED
      BY <2>2, <2>3 DEF ListKept
  <1> QED
    BY <1>1, <1>2, <1>3, <1>4, <1>5, <1>6, Kinds

----------------------------------------------------------------------------
(* The archives.                                                           *)
LEMMA SlimInit == Init => SlimInv
  BY DEF Init, BackupInit, SlimInv, ArchivesAreSlim, InHand

LEMMA SlimBackup ==
  ASSUME Typed, SlimInv, NEW j \in Job, Backups(j)
  PROVE  SlimInv'
  <1> USE DEF Go, Typed, TypeOK, BackupTypeOK
  <1>1. /\ Making(j) /\ step'[j] # "off" /\ UNCHANGED <<ts, removed>>
        /\ \A k \in Job : k # j => step'[k] = step[k]
    BY BackupGoesOn DEF Backups
  <1>2. CASE ReadList(j)
    <2>1. /\ InHand' = InHand \union {j}
          /\ together' = IF InHand = {} THEN together ELSE together \union InHand \union {j}
      BY <1>1, <1>2 DEF ReadList, InHand
    <2>2. UNCHANGED <<keepList, archive, holds, taken, ts>> /\ step'[j] = "slim"
      BY <1>2 DEF ReadList
    <2>3. \A k \in together' : k \in together \/ step'[k] # "off"
      BY <1>1, <2>1, <2>2 DEF InHand
    <2>4. ArchivesAreSlim'
      BY <2>1, <2>2 DEF SlimInv, ArchivesAreSlim
    <2>5. \A k, m \in InHand' : k # m => k \in together'
      BY <2>1 DEF SlimInv
    <2>6. \A k \in together' : step'[k] # "off"
      BY <1>1, <2>3 DEF SlimInv
    <2> QED
      BY <1>1, <2>1, <2>2, <2>4, <2>5, <2>6 DEF SlimInv
  <1>3. CASE WriteSlim(j) \/ WriteSlimFails(j)
    <2>1. /\ UNCHANGED <<archive, holds, taken, ts, together>>
          /\ step[j] = "slim" /\ j \in InHand /\ InHand' \subseteq InHand
      BY <1>1, <1>3 DEF WriteSlim, WriteSlimFails, InHand
    <2>2. step'[j] = "etc" => "program" \notin keepList'
      BY <1>3 DEF WriteSlim, WriteSlimFails, Slim
    <2>3. \A k \in Job \ together : k # j => step[k] # "etc"
      BY <2>1 DEF SlimInv, InHand
    <2>4. step'[j] \in {"etc", "failed"}
      BY <1>3 DEF WriteSlim, WriteSlimFails
    <2> QED
      BY <1>1, <2>1, <2>2, <2>3, <2>4 DEF SlimInv, ArchivesAreSlim, Making
  <1>4. CASE MakeEtc(j) \/ MakeEtcFails(j)
    <2>1. /\ UNCHANGED <<keepList, archive, holds, ts, together>> /\ InHand' = InHand
          /\ step[j] = "etc" /\ step'[j] \in {"restore", "giveUp"}
          /\ \A k \in Job : k # j => taken'[k] = taken[k]
      BY <1>1, <1>4 DEF MakeEtc, MakeEtcFails, InHand
    <2>2. step'[j] = "restore" => taken'[j] = keepList
      BY <1>4 DEF MakeEtc, MakeEtcFails
    <2> QED
      BY <1>1, <2>1, <2>2 DEF SlimInv, ArchivesAreSlim, Making
  <1>5. CASE RestoreList(j) \/ RestoreListFails(j)
    <2>1. /\ UNCHANGED <<archive, holds, taken, ts, together>>
          /\ j \in InHand /\ InHand' \subseteq InHand
          /\ step'[j] = (IF step[j] = "restore" THEN "snapshot" ELSE "failed")
      BY <1>1, <1>5 DEF RestoreList, RestoreListFails, AfterRestore, InHand
    <2>2. \A k \in Job \ together : k # j => step[k] # "etc"
      BY <2>1 DEF SlimInv, InHand
    <2> QED
      BY <1>1, <2>1, <2>2 DEF SlimInv, ArchivesAreSlim, Making
  <1>6. CASE OpenArchive(j) \/ SnapshotFails(j) \/ CloseArchiveFails(j)
    <2>1. /\ UNCHANGED <<keepList, holds, taken, ts, together>> /\ InHand' = InHand
          /\ step[j] \in {"snapshot", "archive"} /\ step'[j] \in {"archive", "failed"}
          /\ step'[j] = "archive" => step[j] = "snapshot"
      BY <1>1, <1>6 DEF OpenArchive, SnapshotFails, CloseArchiveFails, InHand
    <2>2. \A t \in Second : archive'[t] = "whole" => archive[t] = "whole"
      BY <1>6 DEF OpenArchive, SnapshotFails, CloseArchiveFails
    <2> QED
      BY <1>1, <2>1, <2>2 DEF SlimInv, ArchivesAreSlim, Making
  <1>7. CASE CloseArchive(j)
    <2>1. /\ UNCHANGED <<keepList, ts, together>> /\ InHand' = InHand
          /\ step[j] = "archive" /\ step'[j] \in {"made", "failed"}
          /\ \A k \in Job : k # j => taken'[k] = taken[k]
      BY <1>1, <1>7 DEF CloseArchive, InHand
    <2>2. "program" \in taken[j] => j \in together
      BY <2>1 DEF SlimInv
    <2>3. \A t \in Second : archive'[t] = "whole" =>
             (t = ts[j] /\ holds'[t] = taken[j])
             \/ (archive[t] = "whole" /\ holds'[t] = holds[t])
      BY <1>7 DEF CloseArchive
    <2>4. ArchivesAreSlim'
      BY <2>1, <2>2, <2>3 DEF SlimInv, ArchivesAreSlim
    <2> QED
      BY <1>1, <2>1, <2>4 DEF SlimInv
  <1> QED
    BY <1>2, <1>3, <1>4, <1>5, <1>6, <1>7 DEF Backups, BackupStep, BackupStepFails

LEMMA SlimStarts ==
  ASSUME Typed, SlimInv, NEW j \in Job, Starts(j)
  PROVE  SlimInv'
  <1>1. /\ UNCHANGED <<keepList, archive, holds, taken, together>>
        /\ step[j] = "off" /\ step' = [step EXCEPT ![j] = "list"]
        /\ j \notin together /\ \A k \in Job : k # j => ts'[k] = ts[k]
    BY DEF Starts, SlimInv, Typed, TypeOK, BackupTypeOK
  <1>2. InHand' = InHand
    BY <1>1 DEF InHand, Typed, TypeOK, BackupTypeOK
  <1>3. \A k \in Job : step'[k] = step[k] \/ k = j
    BY <1>1 DEF Typed, TypeOK, BackupTypeOK
  <1>4. ArchivesAreSlim'
    BY <1>1 DEF SlimInv, ArchivesAreSlim, Typed, TypeOK, BackupTypeOK
  <1>5. step'[j] = "list"
    BY <1>1 DEF Typed, TypeOK, BackupTypeOK
  <1> QED
    BY <1>1, <1>2, <1>3, <1>4, <1>5 DEF SlimInv

LEMMA SlimNext ==
  ASSUME Typed, QuietWhenDown, SlimInv, [Next]_vars
  PROVE  SlimInv'
  <1> USE FirmwareAssumption
  <1>1. ASSUME NEW j \in BackupJob, BeginBackup(j) PROVE SlimInv'
    BY <1>1, BeginStarts, SlimStarts
  <1>2. ASSUME NEW j \in Job, Backups(j) PROVE SlimInv'
    BY <1>2, SlimBackup
  <1>3. ASSUME NEW j \in FlashJob, NEW p \in BOOLEAN, NEW n \in Needed, CheckImage(j, p, n)
        PROVE  SlimInv'
    <2>1. CASE Starts(j)
      BY <2>1, SlimStarts
    <2>2. CASE UNCHANGED backupVars
      BY <2>2 DEF backupVars, SlimInv, ArchivesAreSlim, InHand
    <2> QED
      BY <1>3, <2>1, <2>2, CheckStarts
  <1>4. CASE Aside
    <2>1. UNCHANGED <<keepList, holds, taken, step, ts, together>>
      BY <1>4, AsideLeaves
    <2>2. \A t \in Second : archive'[t] = "whole" => archive[t] = "whole"
      BY <1>4 DEF Aside, Delete, DeleteArchive, OpenImage, CopyImage, CopyFails, DescribeImage,
                  BeginFlash, Launch, LaunchFails, SysupgradeRefuses, Clock, NextSecond, vars,
                  backupVars, Typed, TypeOK, BackupTypeOK
    <2> QED
      BY <2>1, <2>2 DEF SlimInv, ArchivesAreSlim, InHand
  <1>5. CASE Ends
    <2>1. InHand' = {} /\ \A j \in Job : ~Making(j)' /\ (step[j] # "off" => step'[j] # "off")
      BY <1>5, EndsAll, NobodyLeft
    <2>2. UNCHANGED <<holds, ts, together>>
      BY <1>5, EndsAll
    <2>3. \A t \in Second : archive'[t] = "whole" => archive[t] = "whole"
      BY <1>5, EndsAll
    <2>4. \A j \in Job : step'[j] \notin {"etc", "restore", "snapshot", "archive"}
      BY <2>1 DEF Making
    <2>5. together \subseteq Job
      BY DEF Typed, TypeOK, BackupTypeOK
    <2> QED
      BY <2>1, <2>2, <2>3, <2>4, <2>5 DEF SlimInv, ArchivesAreSlim
  <1>6. CASE StartService
    <2>1. \A j \in Job : ~Making(j)
      BY <1>6 DEF StartService, QuietWhenDown
    <2>2. UNCHANGED <<archive, holds, taken, step, ts, together>>
      BY <1>6 DEF StartService
    <2> QED
      BY <2>1, <2>2 DEF SlimInv, ArchivesAreSlim, InHand, Making
  <1> QED
    BY <1>1, <1>2, <1>3, <1>4, <1>5, <1>6, Kinds

----------------------------------------------------------------------------
(* The archive an upgrade makes.                                           *)
LEMMA BackupInvInit == Init => BackupInv
  BY FirmwareAssumption DEF Init, BackupInit, BackupInv, Checked

(* The seconds archives are named after are few enough to be counted.      *)
LEMMA SecondsAreFinite ==
  ASSUME NEW S \in SUBSET (0..LastSecond)
  PROVE  IsFiniteSet(S)
  <1>1. 0 \in Int /\ LastSecond \in Int
    BY FullBackupAssumption
  <1>2. IsFiniteSet(0..LastSecond)
    BY <1>1, FS_Interval
  <1> QED
    BY <1>2, FS_Subset

(* What has replaced an archive stays: names are given out once.           *)
LEMMA ReplacedStays ==
  ASSUME Typed, Typed', NEW j \in Job, ts[j] # 0, Replaced(j),
         removed \subseteq removed',
         \A k \in Job : ts[k] # 0 => ts'[k] = ts[k]
  PROVE  Replaced(j)'
  <1>1. ts'[j] = ts[j]
    OBVIOUS
  <1>2. CASE ts[j] \in removed
    BY <1>1, <1>2 DEF Replaced
  <1>3. CASE Cardinality(NewerArchives(j)) >= FullKeep
    <2>1. NewerArchives(j) \subseteq NewerArchives(j)'
      <3> SUFFICES ASSUME NEW k \in Job, ts[k] > ts[j] PROVE ts[k] \in NewerArchives(j)'
        BY DEF NewerArchives
      <3>1. ts[k] # 0
        BY DEF Typed, TypeOK, BackupTypeOK
      <3> QED
        BY <1>1, <3>1 DEF NewerArchives
    <2>2. IsFiniteSet(NewerArchives(j)')
      <3>1. NewerArchives(j)' \in SUBSET (0..LastSecond)
        BY DEF NewerArchives, Typed, TypeOK, BackupTypeOK
      <3> QED
        BY <3>1, SecondsAreFinite
    <2>3. /\ Cardinality(NewerArchives(j)) <= Cardinality(NewerArchives(j)')
          /\ Cardinality(NewerArchives(j)) \in Nat /\ Cardinality(NewerArchives(j)') \in Nat
      BY <2>1, <2>2, FS_Subset, FS_CardinalityType
    <2> QED
      BY <1>3, <2>3, FullBackupAssumption DEF Replaced
  <1>4. CASE \E k \in Job \ {j} : ts[k] = ts[j]
    BY <1>1, <1>4 DEF Replaced
  <1> QED
    BY <1>2, <1>3, <1>4 DEF Replaced

(* Archives the rotation removes have enough newer ones.                   *)
LEMMA RotationKeeps ==
  ASSUME Typed, NEW j \in Job, NEW names \in SUBSET Second,
         ts[j] \in names, ts[j] \notin NewestArchives(names),
         \A t \in names : \E k \in Job : ts[k] = t
  PROVE  Cardinality(NewerArchives(j)) >= FullKeep
  <1> DEFINE M == {u \in names : u > ts[j]}
  <1>1. M \subseteq NewerArchives(j)
    BY DEF NewerArchives
  <1>2. IsFiniteSet(NewerArchives(j))
    <2>1. NewerArchives(j) \in SUBSET (0..LastSecond)
      BY DEF NewerArchives, Typed, TypeOK, BackupTypeOK
    <2> QED
      BY <2>1, SecondsAreFinite
  <1>3. /\ Cardinality(M) <= Cardinality(NewerArchives(j))
        /\ Cardinality(M) \in Nat /\ Cardinality(NewerArchives(j)) \in Nat
    BY <1>1, <1>2, FS_Subset, FS_CardinalityType
  <1>4. ~(Cardinality(M) < FullKeep)
    BY DEF NewestArchives
  <1> QED
    BY <1>3, <1>4, FullBackupAssumption

(* Every archive has been made by a call.                                  *)
Named == \A t \in Second : archive[t] # "none" => \E k \in Job : ts[k] = t

(* The archives of an upgrade are there, or replaced, while nothing but    *)
(* the archives changes.                                                   *)
LEMMA BackupInvBackup ==
  ASSUME Typed, Typed', BackupInv, NEW j \in Job, Backups(j)
  PROVE  BackupInv'
  <1> USE FirmwareAssumption DEF Go
  <1>1. /\ Making(j) /\ step'[j] # "off" /\ UNCHANGED <<ts, removed, flash>>
        /\ \A k \in Job : k # j => step'[k] = step[k]
    BY BackupGoesOn DEF Backups, flashing
  <1>2. /\ step[j] \notin {"off", "made"} /\ ts[j] \in Second
        /\ \A k \in Job : step[k] # "off" => ts[k] \in Second
    BY <1>1 DEF Making, Typed
  <1>3. \A k \in Job : Shared(k)' = Shared(k) /\ Replaced(k)' = Replaced(k)
    BY <1>1 DEF Shared, Replaced, NewerArchives
  <1>4. flash[j] # "armed" \/ j \notin FlashJob
    BY <1>2 DEF BackupInv
  <1>5. CASE \/ ReadList(j) \/ WriteSlim(j) \/ WriteSlimFails(j) \/ MakeEtc(j)
             \/ MakeEtcFails(j) \/ RestoreList(j) \/ RestoreListFails(j)
             \/ SnapshotFails(j)
    <2>1. step'[j] \notin {"archive", "made"} /\ UNCHANGED archive
      BY <1>5 DEF ReadList, WriteSlim, WriteSlimFails, MakeEtc, MakeEtcFails, RestoreList,
                  RestoreListFails, AfterRestore, SnapshotFails, Typed, TypeOK, BackupTypeOK
    <2> QED
      BY <1>1, <1>3, <1>4, <2>1 DEF BackupInv
  <1>6. CASE OpenArchive(j)
    <2>1. /\ step'[j] = "archive"
          /\ archive'[ts[j]] = (IF Packing(ts[j]) = {} THEN "partial" ELSE "torn")
          /\ \A t \in Second : t # ts[j] => archive'[t] = archive[t]
      BY <1>2, <1>6 DEF OpenArchive, Typed, TypeOK, BackupTypeOK
    <2>2. step[j] = "snapshot"
      BY <1>6 DEF OpenArchive
    <2>3. Packing(ts[j]) # {} => Shared(j)
      BY <2>2 DEF Packing, Shared
    <2>4. \A k \in Job : k # j /\ ts[k] = ts[j] => Shared(k) /\ Replaced(k)
      BY DEF Shared, Replaced
    <2>5. Named'
      BY <1>1, <2>1 DEF BackupInv, Named
    <2>6. \A k \in Job :
            step'[k] = "archive" => archive'[ts'[k]] \in {"partial", "none"} \/ Shared(k)'
      BY <1>1, <1>2, <1>3, <2>1, <2>3, <2>4 DEF BackupInv
    <2>7. \A k \in FlashJob :
            /\ flash'[k] = "armed" => step'[k] = "made"
            /\ flash'[k] \in {"backup", "armed"} /\ step'[k] = "made"
                 => archive'[ts'[k]] = "whole" \/ Replaced(k)'
      BY <1>1, <1>2, <1>3, <1>4, <2>1, <2>4 DEF BackupInv
    <2> QED
      BY <2>5, <2>6, <2>7 DEF BackupInv, Named
  <1>7. CASE CloseArchive(j)
    <2> DEFINE packed == [archive EXCEPT ![ts[j]] = IF @ = "partial" THEN "whole" ELSE @]
               names  == {u \in Second : packed[u] # "none"}
    <2>1. /\ archive' = [u \in Second |-> IF u \in NewestArchives(names) THEN packed[u]
                                                                         ELSE "none"]
          /\ step' = [step EXCEPT ![j] = IF archive'[ts[j]] # "none" THEN "made" ELSE "failed"]
          /\ step[j] = "archive"
      BY <1>7 DEF CloseArchive
    <2>2. /\ packed \in [Second -> {"none", "partial", "torn", "whole"}]
          /\ \A u \in Second : packed[u] # "none" <=> archive[u] # "none"
          /\ \A u \in Second : u # ts[j] => packed[u] = archive[u]
      BY <1>2 DEF Typed, TypeOK, BackupTypeOK
    <2>3. \A u \in names : \E k \in Job : ts[k] = u
      BY <2>2 DEF BackupInv
    <2>4. Named'
      BY <1>1, <2>1, <2>3 DEF Named
    <2>5. \A k \in Job : k # j /\ ts[k] = ts[j] => Shared(k) /\ Replaced(k)
      BY DEF Shared, Replaced
    <2>6. \A k \in Job :
            step'[k] = "archive" => archive'[ts'[k]] \in {"partial", "none"} \/ Shared(k)'
      <3> SUFFICES ASSUME NEW k \in Job, step'[k] = "archive", ~Shared(k)
                   PROVE  archive'[ts[k]] \in {"partial", "none"}
        BY <1>1, <1>3
      <3>1. k # j
        BY <2>1 DEF Typed, TypeOK, BackupTypeOK
      <3>2. step[k] = "archive" /\ ts[k] # ts[j] /\ ts[k] \in Second
        BY <1>1, <1>2, <2>5, <3>1
      <3>3. archive[ts[k]] \in {"partial", "none"}
        BY <3>2 DEF BackupInv
      <3> QED
        BY <2>1, <2>2, <3>2, <3>3
    <2>7. ASSUME NEW k \in FlashJob, step'[k] = "made", flash[k] \in {"backup", "armed"},
                 ~Replaced(k)
          PROVE  archive'[ts[k]] = "whole"
      <3>1. k \in Job /\ ts[k] \in Second
        <4>1. k \in Job /\ step'[k] # "off"
          BY <2>7
        <4> QED
          BY <1>1, <1>2, <4>1
      <3>2. packed[ts[k]] = "whole"
        <4>1. CASE k = j
          <5>1. ~Shared(j)
            BY <2>7, <4>1 DEF Shared, Replaced
          <5>2. archive[ts[j]] \in {"partial", "none"}
            BY <2>1, <5>1 DEF BackupInv
          <5>3. archive'[ts[j]] # "none"
            BY <2>1, <2>7, <4>1 DEF Typed, TypeOK, BackupTypeOK
          <5>4. packed[ts[j]] # "none"
            BY <1>2, <2>1, <5>3
          <5> QED
            BY <1>2, <2>2, <4>1, <5>2, <5>4 DEF Typed, TypeOK, BackupTypeOK
        <4>2. CASE k # j
          <5>1. step[k] = "made" /\ ts[k] # ts[j]
            BY <1>1, <2>5, <2>7, <3>1, <4>2
          <5>2. archive[ts[k]] = "whole"
            BY <2>7, <5>1 DEF BackupInv
          <5> QED
            BY <2>2, <3>1, <5>1, <5>2
        <4> QED
          BY <4>1, <4>2
      <3>3. ts[k] \in names
        BY <3>1, <3>2
      <3>4. ts[k] \in NewestArchives(names)
        <4> SUFFICES ASSUME ts[k] \notin NewestArchives(names) PROVE FALSE
          OBVIOUS
        <4>1. Cardinality(NewerArchives(k)) >= FullKeep
          BY <2>3, <3>1, <3>3, RotationKeeps
        <4> QED
          BY <2>7, <4>1 DEF Replaced
      <3> QED
        BY <2>1, <3>1, <3>2, <3>4
    <2>8. \A k \in FlashJob : flash[k] = "armed" => step'[k] = "made"
      BY <1>1, <1>4 DEF BackupInv
    <2> QED
      BY <1>1, <1>3, <2>4, <2>6, <2>7, <2>8 DEF BackupInv, Named
  <1>8. CASE CloseArchiveFails(j)
    <2>1. /\ step'[j] = "failed" /\ archive'[ts[j]] = "none"
          /\ \A t \in Second : t # ts[j] => archive'[t] = archive[t]
      BY <1>2, <1>8 DEF CloseArchiveFails, Typed, TypeOK, BackupTypeOK
    <2>2. \A k \in Job : k # j /\ ts[k] = ts[j] => Replaced(k)
      BY DEF Replaced
    <2>3. Named'
      BY <1>1, <2>1 DEF BackupInv, Named
    <2>4. \A k \in Job :
            step'[k] = "archive" => archive'[ts'[k]] \in {"partial", "none"} \/ Shared(k)'
      BY <1>1, <1>2, <1>3, <2>1 DEF BackupInv
    <2>5. \A k \in FlashJob :
            /\ flash'[k] = "armed" => step'[k] = "made"
            /\ flash'[k] \in {"backup", "armed"} /\ step'[k] = "made"
                 => archive'[ts'[k]] = "whole" \/ Replaced(k)'
      BY <1>1, <1>2, <1>3, <1>4, <2>1, <2>2 DEF BackupInv
    <2> QED
      BY <2>3, <2>4, <2>5 DEF BackupInv, Named
  <1> QED
    BY <1>5, <1>6, <1>7, <1>8 DEF Backups, BackupStep, BackupStepFails

(* A step that leaves the archives as they are, or removes some, and lets  *)
(* nobody go on with a backup, replaces what it removes.                   *)
LEMMA BackupInvFrame ==
  ASSUME Typed, Typed', BackupInv,
         removed \subseteq removed',
         \A k \in Job : ts[k] # 0 => ts'[k] = ts[k],
         \A k \in Job : step'[k] \in {"archive", "made"} => step'[k] = step[k],
         \A t \in Second : archive'[t] = archive[t] \/ archive'[t] = "none",
         \A k \in FlashJob :
           /\ flash'[k] = "armed" => step'[k] = "made"
           /\ flash'[k] \in {"backup", "armed"} /\ step'[k] = "made"
                => /\ flash[k] \in {"backup", "armed"}
                   /\ archive'[ts[k]] = archive[ts[k]] \/ ts[k] \in removed'
  PROVE  BackupInv'
  <1> USE FirmwareAssumption
  <1>1. \A k \in Job : step[k] # "off" => ts[k] # 0 /\ ts[k] \in Second
    BY DEF Typed, Second
  <1>2. Named'
    BY DEF BackupInv, Named, Second
  <1>3. \A k \in Job :
          step'[k] = "archive" => archive'[ts'[k]] \in {"partial", "none"} \/ Shared(k)'
    <2> SUFFICES ASSUME NEW k \in Job, step'[k] = "archive"
                 PROVE  archive'[ts'[k]] \in {"partial", "none"} \/ Shared(k)'
      OBVIOUS
    <2>1. step[k] = "archive" /\ ts'[k] = ts[k] /\ ts[k] \in Second /\ ts[k] # 0
      BY <1>1
    <2>2. CASE archive[ts[k]] \in {"partial", "none"}
      BY <2>1, <2>2
    <2>3. CASE Shared(k)
      BY <2>1, <2>3 DEF Shared
    <2> QED
      BY <2>1, <2>2, <2>3 DEF BackupInv
  <1>4. ASSUME NEW k \in FlashJob, flash'[k] \in {"backup", "armed"}, step'[k] = "made"
        PROVE  archive'[ts'[k]] = "whole" \/ Replaced(k)'
    <2>1. k \in Job /\ step[k] = "made" /\ ts[k] # 0 /\ ts'[k] = ts[k] /\ ts[k] \in Second
      BY <1>1, <1>4
    <2>2. CASE ts[k] \in removed'
      BY <2>1, <2>2 DEF Replaced
    <2>3. CASE Replaced(k)
      BY <2>1, <2>3, ReplacedStays
    <2>4. CASE archive[ts[k]] = "whole" /\ archive'[ts[k]] = archive[ts[k]]
      BY <2>1, <2>4
    <2> QED
      BY <1>4, <2>1, <2>2, <2>3, <2>4 DEF BackupInv
  <1> QED
    BY <1>2, <1>3, <1>4 DEF BackupInv, Named

LEMMA BackupInvNext ==
  ASSUME Typed, Typed', BackupInv, [Next]_vars
  PROVE  BackupInv'
  <1> USE FirmwareAssumption
  <1>1. ASSUME NEW j \in Job, Starts(j),
               \A k \in FlashJob : flash'[k] = flash[k]
                                   \/ (k = j /\ flash[k] = "check" /\ flash'[k] = "backup")
        PROVE  BackupInv'
    <2>1. /\ UNCHANGED <<archive, removed>> /\ step[j] = "off" /\ ts[j] = 0
          /\ step'[j] = "list"
          /\ \A k \in Job : k # j => step'[k] = step[k] /\ ts'[k] = ts[k]
      BY <1>1 DEF Starts, Typed, TypeOK, BackupTypeOK
    <2>2. \A k \in FlashJob : flash[k] = "armed" => k # j /\ step[k] = "made"
      BY <2>1 DEF BackupInv
    <2> QED
      BY <1>1, <2>1, <2>2, BackupInvFrame
  <1>2. ASSUME NEW j \in BackupJob, BeginBackup(j) PROVE BackupInv'
    <2>1. j \in Job /\ Starts(j) /\ UNCHANGED flash
      BY <1>2, BeginStarts DEF flashing
    <2> QED
      BY <1>1, <2>1
  <1>3. ASSUME NEW j \in Job, Backups(j) PROVE BackupInv'
    BY <1>3, BackupInvBackup
  <1>4. ASSUME NEW j \in FlashJob, NEW p \in BOOLEAN, NEW n \in Needed, CheckImage(j, p, n)
        PROVE  BackupInv'
    <2>1. CASE Starts(j) /\ flash' = [flash EXCEPT ![j] = "backup"]
      <3>1. flash[j] = "check" /\ j \in Job
        BY <1>4, CheckStarts
      <3> QED
        BY <1>1, <2>1, <3>1 DEF Typed, TypeOK
    <2>2. CASE UNCHANGED backupVars /\ flash' = [flash EXCEPT ![j] = "over"]
      <3>1. \A k \in FlashJob : flash'[k] = flash[k] \/ flash'[k] = "over"
        BY <2>2 DEF Typed, TypeOK
      <3>2. UNCHANGED <<archive, step, ts, removed>>
        BY <2>2 DEF backupVars
      <3>3. \A k \in FlashJob : flash[k] = "armed" => step[k] = "made"
        BY DEF BackupInv
      <3> QED
        BY <3>1, <3>2, <3>3, BackupInvFrame
    <2> QED
      BY <1>4, <2>1, <2>2, CheckStarts
  <1>5. CASE Aside \/ StartService
    <2>1. UNCHANGED <<step, ts>>
      BY <1>5, AsideLeaves DEF StartService
    <2>2. /\ removed \subseteq removed'
          /\ \A t \in Second : archive'[t] = archive[t]
                               \/ (archive'[t] = "none" /\ t \in removed')
      BY <1>5 DEF Aside, StartService, Delete, DeleteArchive, OpenImage, CopyImage, CopyFails,
                  DescribeImage, BeginFlash, Launch, LaunchFails, SysupgradeRefuses, Clock,
                  NextSecond, vars, backupVars, Typed, TypeOK, BackupTypeOK
    <2>3. \A k \in FlashJob :
             \/ flash'[k] = flash[k]
             \/ flash'[k] \in {"check", "over"}
             \/ flash[k] = "backup" /\ step[k] = "made"
      BY <1>5 DEF Aside, StartService, Delete, OpenImage, CopyImage, CopyFails,
                  DescribeImage, BeginFlash, Launch, LaunchFails, SysupgradeRefuses,
                  Clock, vars, flashing, Typed, TypeOK
    <2>4. \A k \in Job : step[k] = "made" => ts[k] \in Second
      BY DEF Typed
    <2>5. \A k \in FlashJob : flash[k] = "armed" => step[k] = "made"
      BY DEF BackupInv
    <2> QED
      BY <2>1, <2>2, <2>3, <2>4, <2>5, BackupInvFrame
  <1>6. CASE Ends
    <2>1. /\ UNCHANGED <<ts, removed>>
          /\ \A t \in Second : archive'[t] \in {archive[t], "none"}
          /\ \A k \in FlashJob : \/ flash'[k] \in {"off", "over"}
                                 \/ flash'[k] = "armed" /\ flash[k] = "armed"
                                    /\ UNCHANGED archive
      BY <1>6, EndsAll
    <2>2. \A k \in Job : /\ step'[k] = step[k] \/ step'[k] = "failed"
                         /\ step[k] = "made" => step'[k] = "made"
      BY <1>6, EndsAll, NobodyLeft
    <2>3. \A k \in FlashJob : flash[k] = "armed" => step[k] = "made"
      BY DEF BackupInv
    <2> QED
      BY <2>1, <2>2, <2>3, BackupInvFrame
  <1> QED
    BY <1>2, <1>3, <1>4, <1>5, <1>6, Kinds

----------------------------------------------------------------------------
(* The image.                                                              *)
LEMMA ImageInit == Init => ImageInv
  BY DEF Init, ImageInv, Checked

LEMMA ImageNext ==
  ASSUME Typed, ImageInv, [Next]_vars
  PROVE  ImageInv'
  <1>1. CASE \/ \E j \in BackupJob : BeginBackup(j)
             \/ \E j \in Job : Backups(j)
             \/ \E t \in Second : Delete(t)
             \/ Clock \/ StartService \/ UNCHANGED vars
    <2>1. UNCHANGED <<staging, flashing>>
      BY <1>1 DEF BeginBackup, Backups, Delete, Clock, StartService, vars, staging, flashing
    <2> QED
      BY <2>1 DEF ImageInv, Checked, Writers, Copying, staging, flashing
  <1>2. ASSUME NEW s \in Stager, OpenImage(s) PROVE ImageInv'
    <2>1. /\ UNCHANGED <<flash, checked, accept, risky>>
          /\ restaged' = restaged \union Checked
      BY <1>2 DEF OpenImage
    <2> QED
      BY <2>1 DEF ImageInv, Checked
  <1>3. ASSUME NEW s \in Stager, CopyImage(s) PROVE ImageInv'
    <2>1. UNCHANGED flashing /\ Writers' \subseteq Writers /\ stage[s] = "copy"
      BY <1>3 DEF CopyImage, Writers, Copying, Typed, TypeOK
    <2>2. CASE written[s] = "gone"
      <3>1. UNCHANGED image
        BY <1>3, <2>2 DEF CopyImage
      <3> QED
        BY <2>1, <3>1 DEF ImageInv, Checked, flashing
    <2>3. CASE written[s] # "gone"
      <3>1. s \in Writers
        BY <2>1, <2>3 DEF Writers, Copying
      <3> QED
        BY <2>1, <3>1 DEF ImageInv, Checked, flashing
    <2> QED
      BY <2>2, <2>3
  <1>4. ASSUME NEW s \in Stager, CopyFails(s) PROVE ImageInv'
    <2>1. UNCHANGED flashing /\ Writers' = {} /\ image' = NoImage
      BY <1>4 DEF CopyFails, Writers, Copying, Typed, TypeOK
    <2> QED
      BY <2>1 DEF ImageInv, Checked, flashing
  <1>5. ASSUME NEW s \in Stager, DescribeImage(s) PROVE ImageInv'
    <2>1. UNCHANGED <<flashing, image>> /\ Writers' \subseteq Writers
      BY <1>5 DEF DescribeImage, Writers, Copying, Typed, TypeOK
    <2> QED
      BY <2>1 DEF ImageInv, Checked, flashing
  <1>6. ASSUME NEW j \in FlashJob, NEW consent \in BOOLEAN, BeginFlash(j, consent)
        PROVE  ImageInv'
    <2>1. /\ flash[j] = "off" /\ flash' = [flash EXCEPT ![j] = "check"]
          /\ UNCHANGED <<staging, risky, restaged>>
          /\ \A k \in FlashJob : k # j => checked'[k] = checked[k] /\ accept'[k] = accept[k]
      BY <1>6 DEF BeginFlash, Typed, TypeOK
    <2>2. Checked' = Checked /\ j \notin Checked
      BY <2>1 DEF Checked, Typed, TypeOK
    <2>3. \A k \in FlashJob : flash'[k] \in {"off", "check"} => flash[k] \in {"off", "check"}
      BY <2>1 DEF Typed, TypeOK
    <2>4. \A k \in Checked : checked'[k] = checked[k] /\ accept'[k] = accept[k]
      BY <2>1, <2>2 DEF Checked
    <2> QED
      BY <2>1, <2>2, <2>3, <2>4 DEF ImageInv, Writers, Copying, staging
  <1>7. ASSUME NEW j \in FlashJob, NEW p \in BOOLEAN, NEW n \in Needed, CheckImage(j, p, n)
        PROVE  ImageInv'
    <2> DEFINE asks == NeedsConsent(checked[j], p, n)
    <2>1. UNCHANGED <<image, stage, written, checked, accept>> /\ flash[j] = "check"
      BY <1>7 DEF CheckImage, staging
    <2>2. Writers' = Writers /\ j \notin risky
      BY <2>1 DEF Writers, Copying, ImageInv
    <2>3. CASE MayFlash(j, asks)
      <3>1. /\ flash' = [flash EXCEPT ![j] = "backup"]
            /\ risky' = IF asks THEN risky \union {j} ELSE risky
            /\ restaged' = IF Writers = {} THEN restaged ELSE restaged \union {j}
        BY <1>7, <2>3 DEF CheckImage
      <3>2. Checked' = Checked \union {j}
        BY <3>1 DEF Checked, Typed, TypeOK
      <3>3. /\ \A k \in FlashJob : flash'[k] \in {"off", "check"}
                                     => k # j /\ flash[k] \in {"off", "check"}
            /\ risky' \subseteq risky \union {j}
        BY <3>1 DEF Typed, TypeOK
      <3>4. /\ j \in restaged' \/ (image' \in {checked'[j], NoImage} /\ Writers' = {})
            /\ j \in risky' => accept'[j]
        BY <2>1, <2>2, <2>3, <3>1 DEF MayFlash
      <3>5. \A k \in Checked : k \in risky' => k \in risky \/ k = j
        BY <3>3
      <3> QED
        BY <2>1, <2>2, <3>1, <3>2, <3>3, <3>4, <3>5 DEF ImageInv
    <2>4. CASE ~MayFlash(j, asks)
      <3>1. flash' = [flash EXCEPT ![j] = "over"] /\ UNCHANGED <<risky, restaged>>
        BY <1>7, <2>4 DEF CheckImage
      <3>2. Checked' = Checked
        BY <2>1, <3>1 DEF Checked, Typed, TypeOK
      <3>3. \A k \in FlashJob : flash'[k] \in {"off", "check"} => flash[k] \in {"off", "check"}
        BY <3>1 DEF Typed, TypeOK
      <3> QED
        BY <2>1, <2>2, <3>1, <3>2, <3>3 DEF ImageInv
    <2> QED
      BY <2>3, <2>4
  <1>8. ASSUME NEW j \in FlashJob, Launch(j) \/ LaunchFails(j) \/ SysupgradeRefuses(j)
        PROVE  ImageInv'
    <2>1. /\ UNCHANGED <<staging, checked, accept, risky, restaged>>
          /\ \A k \in FlashJob :
               /\ flash'[k] \in {"off", "check"} => flash'[k] = flash[k]
               /\ flash'[k] \in {"backup", "armed"} => flash[k] \in {"backup", "armed"}
      BY <1>8 DEF Launch, LaunchFails, SysupgradeRefuses, Typed, TypeOK
    <2>2. Checked' \subseteq Checked
      BY <2>1 DEF Checked
    <2> QED
      BY <2>1, <2>2 DEF ImageInv, Writers, Copying, staging
  <1>9. CASE Ends
    <2>1. /\ image' \in {image, NoImage} /\ UNCHANGED <<checked, accept, risky, restaged>>
          /\ \A k \in FlashJob : flash'[k] \in {flash[k], "over"}
      BY <1>9, EndsAll
    <2>2. Writers' = {} /\ Checked' \subseteq Checked
      BY <1>9, <2>1, EndsAll, NobodyLeft DEF Checked
    <2>3. \A k \in FlashJob : flash'[k] \in {"off", "check"} => flash'[k] = flash[k]
      BY <2>1
    <2> QED
      BY <2>1, <2>2, <2>3 DEF ImageInv
  <1> QED
    BY <1>1, <1>2, <1>3, <1>4, <1>5, <1>6, <1>7, <1>8, <1>9 DEF Next, Ends

----------------------------------------------------------------------------
(* All of it together.                                                     *)
LEMMA UpgradeInit == Init => UpgradeInv
  BY TypedInit, QuietInit, ListInit, SlimInit, BackupInvInit, ImageInit DEF UpgradeInv

LEMMA UpgradeNext == UpgradeInv /\ [Next]_vars => UpgradeInv'
  <1> SUFFICES ASSUME UpgradeInv, [Next]_vars PROVE UpgradeInv'
    OBVIOUS
  <1>1. Typed'
    BY TypedNext DEF UpgradeInv
  <1> QED
    BY <1>1, QuietNext, ListNext, SlimNext, BackupInvNext, ImageNext DEF UpgradeInv

(* The firmware is written by a launched upgrade.                          *)
LEMMA Flashes ==
  ASSUME Typed, [Next]_vars, flasher' # flasher
  PROVE  flasher' \in FlashJob /\ Sysupgrade(flasher')
  <1>1. CASE \E j \in FlashJob : Sysupgrade(j)
    BY <1>1 DEF Sysupgrade
  <1>2. CASE ~\E j \in FlashJob : Sysupgrade(j)
    <2>1. UNCHANGED flasher
      BY <1>2 DEF Next, BeginBackup, Backups, Delete, OpenImage, CopyImage, CopyFails,
                  DescribeImage, BeginFlash, CheckImage, Launch, LaunchFails,
                  SysupgradeRefuses, Stop, StartService, Clock, vars, flashing
    <2> QED
      BY <2>1
  <1> QED
    BY <1>1, <1>2

(* No archive holds the program, for any calls side by side, any seconds,  *)
(* failures and restarts, but those of calls that had the list in hand     *)
(* together with another.                                                  *)
THEOREM AlwaysSlim == Spec => []ArchivesAreSlim
  <1>1. UpgradeInv => ArchivesAreSlim
    BY DEF UpgradeInv, SlimInv
  <1> QED
    BY <1>1, UpgradeInit, UpgradeNext, PTL DEF Spec

(* An upgrade brings the program over, whatever goes on beside it, unless  *)
(* the list is cut down at that moment, or broken.                         *)
THEOREM ProgramAlwaysSurvives == Spec => ProgramSurvives
  <1>1. UpgradeInv /\ [Next]_vars
          => [flasher' # flasher => keepList = Full \/ CutDown # {} \/ listBroken]_vars
    BY Flashes DEF UpgradeInv, ListKept, Sysupgrade
  <1> QED
    BY <1>1, UpgradeInit, UpgradeNext, PTL DEF Spec, ProgramSurvives

(* What it writes is what its hash was checked of, unless another image    *)
(* was staged since, and agreed to where the root partition may shrink.    *)
THEOREM AlwaysVerified == Spec => FlashedIsVerified
  <1>1. UpgradeInv /\ [Next]_vars
          => [flasher' # flasher => /\ image = checked[flasher'] \/ flasher' \in restaged
                                    /\ flasher' \in risky => accept[flasher']]_vars
    BY Flashes, FirmwareAssumption DEF UpgradeInv, ImageInv, Checked, Sysupgrade
  <1> QED
    BY <1>1, UpgradeInit, UpgradeNext, PTL DEF Spec, FlashedIsVerified

(* And the archive made before it is there, and whole, unless it is        *)
(* replaced.                                                               *)
THEOREM AlwaysHasBackup == Spec => FlashHasBackup
  <1>1. UpgradeInv /\ [Next]_vars
          => [flasher' # flasher =>
                archive[ts[flasher']] = "whole" \/ Replaced(flasher')]_vars
    BY Flashes DEF UpgradeInv, BackupInv, Sysupgrade
  <1> QED
    BY <1>1, UpgradeInit, UpgradeNext, PTL DEF Spec, FlashHasBackup

----------------------------------------------------------------------------
(* Notices: the scripts.  The checks of every kind, by the order in which  *)
(* they take their steps.                                                  *)

Others == {"cert", "traffic", "report", "backup", "host"} \cup TellFirst
Plain == Subject \ Others

LEMMA PlaceIsCheck ==
  ASSUME NEW a \in Actor, NEW i \in 1..Len(Checks(a))
  PROVE  Checks(a)[i] \in Subject
  BY DEF Checks, Actor, Loop, Call, Subject

LEMMA PlainSteps == \A c \in Plain : Steps(c) = AlertValue
  BY DEF Plain, Others, TellFirst, Subject, Steps, Script, CheckReboot, CheckWAN,
     CheckServices, CheckDaemons, ResourceAlarm, CheckPublicIP, CheckCGNAT,
     CheckIPv6Prefix, CheckFailedLogins, CheckScanners, UnknownDevices,
     UPSEvents, ScanConfigs

LEMMA OtherSteps ==
  /\ \A c \in TellFirst : Steps(c) = CheckVPNClients
  /\ Steps("host") = MonitorHosts /\ Steps("cert") = CheckCerts
  /\ Steps("traffic") = ReportSample /\ Steps("report") = ReportDue
  /\ Steps("backup") = MailBackupAfterCreate
  BY DEF TellFirst, Steps, Script, CheckVPNClients, CheckSiteTunnels

Length(c) == IF c = "backup" THEN 3
             ELSE IF c \in {"cert", "traffic", "report"} THEN 4 ELSE 6

LEMMA Lengths == \A c \in Subject : Len(Steps(c)) = Length(c)
  <1> SUFFICES ASSUME NEW c \in Subject PROVE Len(Steps(c)) = Length(c)
    OBVIOUS
  <1>1. CASE c \in Plain
    BY <1>1, PlainSteps DEF Length, AlertValue, Plain, Others
  <1>2. CASE c \in TellFirst
    BY <1>2, OtherSteps DEF Length, CheckVPNClients, TellFirst
  <1>3. CASE c \notin Plain \cup TellFirst
    BY <1>3, OtherSteps DEF Length, MonitorHosts, CheckCerts, ReportSample,
       ReportDue, MailBackupAfterCreate, Plain, Others
  <1> QED
    BY <1>1, <1>2, <1>3

(* Where the step of a name stands in the script of a check. *)
Place(c, act) ==
  CASE act = "look" -> IF c \in {"host", "report"} THEN 2
                        ELSE IF c = "backup" THEN 0 ELSE 1
    [] act = "recall" -> IF c \in {"host", "report"} THEN 1
                          ELSE IF c \in {"backup", "cert"} THEN 0 ELSE 2
    [] act = "remember" -> IF c \in TellFirst THEN 6
                            ELSE IF c = "report" THEN 4
                            ELSE IF c \in {"backup", "cert"} THEN 0 ELSE 3
    [] act = "tell" -> IF c \in TellFirst THEN 3 ELSE IF c = "cert" THEN 2
                        ELSE IF c \in {"backup", "report", "traffic"} THEN 0 ELSE 4
    [] act = "ask" -> IF c \in TellFirst THEN 4 ELSE IF c = "cert" THEN 3
                       ELSE IF c = "backup" THEN 1
                       ELSE IF c \in {"report", "traffic"} THEN 0 ELSE 5
    [] act = "note" -> IF c \in TellFirst THEN 5 ELSE IF c = "cert" THEN 4
                        ELSE IF c = "backup" THEN 3
                        ELSE IF c \in {"report", "traffic"} THEN 0 ELSE 6
    [] act = "send" -> IF c = "report" THEN 3 ELSE IF c = "backup" THEN 2 ELSE 0
    [] act = "add" -> IF c = "traffic" THEN 4 ELSE 0

StepName == {"look", "recall"} \cup Uses

LEMMA Places ==
  ASSUME NEW c \in Subject, NEW n \in 1..Len(Steps(c)), NEW act \in StepName
  PROVE  Steps(c)[n] = act <=> n = Place(c, act)
  <1>0. n \in 1..Length(c) /\ Length(c) \in {3, 4, 6}
    BY Lengths DEF Length
  <1> HIDE DEF Length
  <1> USE DEF StepName, Uses
  <1>1. CASE c \in Plain
    <2>1. Length(c) = 6 /\ Steps(c) = AlertValue
      BY <1>1, PlainSteps DEF Length, Plain, Others
    <2> QED
      BY <1>0, <1>1, <2>1 DEF Place, AlertValue, Plain, Others
  <1>2. CASE c \in TellFirst
    <2>1. Length(c) = 6 /\ Steps(c) = CheckVPNClients
      BY <1>2, OtherSteps DEF Length, TellFirst
    <2> QED
      BY <1>0, <1>2, <2>1 DEF Place, CheckVPNClients, TellFirst
  <1>3. CASE c = "host"
    BY <1>0, <1>3, OtherSteps DEF Place, MonitorHosts, TellFirst
  <1>4. CASE c = "cert"
    BY <1>0, <1>4, OtherSteps DEF Length, Place, CheckCerts, TellFirst
  <1>5. CASE c = "traffic"
    BY <1>0, <1>5, OtherSteps DEF Length, Place, ReportSample, TellFirst
  <1>6. CASE c = "report"
    BY <1>0, <1>6, OtherSteps DEF Length, Place, ReportDue, TellFirst
  <1>7. CASE c = "backup"
    BY <1>0, <1>7, OtherSteps DEF Length, Place, MailBackupAfterCreate, TellFirst
  <1> QED
    BY <1>1, <1>2, <1>3, <1>4, <1>5, <1>6, <1>7 DEF Plain, Others

(* Some checks are made by one actor, or by the loops only. *)
LEMMA Whose ==
  ASSUME NEW a \in Actor, NEW i \in 1..Len(Checks(a))
  PROVE  /\ Checks(a)[i] \in {"traffic", "report"} => a = "watchdog"
         /\ Checks(a)[i] = "host" => a = "monitor"
         /\ Checks(a)[i] = "config" => a = "audit"
  BY DEF Checks, Actor, Loop, Call

----------------------------------------------------------------------------
(* Notices: how an actor moves. *)

(* The first of a set of places. *)
LEMMA FirstIsOne ==
  ASSUME NEW S, S \subseteq Nat
  PROVE  /\ S = {} => First(S) = None
         /\ S # {} => \E i \in S : First(S) = <<i, 1>>
  <1>1. CASE S = {}
    BY <1>1 DEF First
  <1>2. CASE S # {}
    <2> DEFINE Less == {p \in Nat \X Nat : p[1] < p[2]}
    <2>1. IsWellFoundedOn(Less, Nat)
      BY NatLessThanWellFounded DEF OpToRel
    <2>2. PICK i \in S : \A j \in S : i <= j
      <3>1. \E i \in S : \A j \in S : ~(<<j, i>> \in Less)
        <4> HIDE DEF Less
        <4> QED
          BY <1>2, <2>1, WFMin
      <3>2. PICK i \in S : \A j \in S : ~(<<j, i>> \in Less)
        BY <3>1
      <3>3. ASSUME NEW j \in S PROVE i <= j
        <4>1. i \in Nat /\ j \in Nat /\ ~(<<j, i>> \in Less)
          BY <3>2
        <4>2. ~(j < i)
          BY <4>1
        <4> QED
          BY <4>1, <4>2
      <3> QED
        BY <3>3
    <2>3. (CHOOSE k \in S : \A j \in S : k <= j) \in S
      BY <2>2
    <2> QED
      BY <1>2, <2>3 DEF First
  <1> QED
    BY <1>1, <1>2

(* An actor that is at no check, or at the beginning of one. *)
Outside(a) == {None} \cup (Round(a) \X {1})

LEMMA RoundIsPlaces ==
  \A a \in Actor : /\ Round(a) \subseteq Nat /\ Round(a) \subseteq 1..Len(Checks(a))
                  /\ \A i \in Round(a) : Checks(a)[i] \in Subject \cap given.checks
  BY PlaceIsCheck DEF Round

LEMMA FirstIsOutside ==
  ASSUME NEW a \in Actor, NEW S, S \subseteq Round(a)
  PROVE  First(S) \in Outside(a)
  <1>1. S \subseteq Nat
    BY RoundIsPlaces
  <1>2. CASE S = {}
    BY <1>1, <1>2, FirstIsOne DEF Outside
  <1>3. CASE S # {}
    <2>1. PICK i \in S : First(S) = <<i, 1>>
      BY <1>1, <1>3, FirstIsOne
    <2> QED
      BY <2>1 DEF Outside
  <1> QED
    BY <1>2, <1>3

LEMMA StartsOutside == \A a \in Actor : Start(a) \in Outside(a)
  BY FirstIsOutside DEF Start

LEMMA NextIsOutside ==
  ASSUME NEW a \in Actor, NEW without
  PROVE  NextCheck(a, without) \in Outside(a)
  <1>1. Again(a) \in Outside(a)
    <2>1. First(Round(a) \ Once(a)) \in Outside(a)
      BY FirstIsOutside
    <2> QED
      BY <2>1 DEF Again, Outside
  <1> DEFINE rest == {i \in Round(a) : i > at[a][1] /\ Checks(a)[i] \notin without}
  <1>2. First(rest) \in Outside(a)
    BY FirstIsOutside
  <1> QED
    BY <1>1, <1>2 DEF NextCheck

(* What every step of an actor leaves: the others stay where they are, and *)
(* it goes on in its check, holding v and p, or leaves it and forgets.     *)
GoesOn(a, n, v, p) ==
  /\ at[a][2] + n <= Length(Check(a))
  /\ at' = [at EXCEPT ![a] = <<at[a][1], at[a][2] + n>>]
  /\ saw' = [saw EXCEPT ![a] = v] /\ was' = [was EXCEPT ![a] = p]

Quits(a) ==
  /\ \E x \in Outside(a) : at' = [at EXCEPT ![a] = x]
  /\ saw' = [saw EXCEPT ![a] = None] /\ was' = [was EXCEPT ![a] = None]

(* Where an actor is. *)
LEMMA WhereIs ==
  ASSUME NoticesTypeOK, NEW a \in Actor, at[a] # None
  PROVE  /\ at[a][1] \in Round(a) /\ at[a][1] \in Nat /\ at[a][2] \in Nat
         /\ at[a] = <<at[a][1], at[a][2]>>
         /\ at[a][2] \in 1..Length(Check(a)) /\ Check(a) \in Subject
         /\ Check(a) \in given.checks
         /\ Check(a) \in {"traffic", "report"} => a = "watchdog"
         /\ Check(a) = "host" => a = "monitor"
         /\ Check(a) = "config" => a = "audit"
         /\ \A act \in StepName : Does(a, act) <=> at[a][2] = Place(Check(a), act)
  <1>1. at[a] \in Nat \X Nat /\ at[a][1] \in Round(a) /\ at[a][2] \in 1..Len(Steps(Check(a)))
    BY DEF NoticesTypeOK
  <1>2. at[a][1] \in 1..Len(Checks(a))
    BY <1>1, RoundIsPlaces
  <1>3. Check(a) \in Subject \cap given.checks
    BY <1>1, RoundIsPlaces DEF Check
  <1>4. Len(Steps(Check(a))) = Length(Check(a))
    BY <1>3, Lengths
  <1>5. /\ Check(a) \in {"traffic", "report"} => a = "watchdog"
        /\ Check(a) = "host" => a = "monitor"
        /\ Check(a) = "config" => a = "audit"
    BY <1>2, Whose DEF Check
  <1>6. ASSUME NEW act \in StepName
        PROVE  Does(a, act) <=> at[a][2] = Place(Check(a), act)
    BY <1>1, <1>3, Places DEF Does
  <1> QED
    BY <1>1, <1>3, <1>4, <1>5, <1>6

LEMMA LeavesAndForgets ==
  ASSUME NoticesTypeOK, NEW a \in Actor, at[a] # None, NEW without, NEW v, NEW p,
         Leave(a, without), Holds(a, v, p)
  PROVE  Quits(a)
  <1>1. NextCheck(a, without) \in Outside(a)
    BY NextIsOutside
  <1>2. at'[a] = NextCheck(a, without)
    BY DEF Leave, NoticesTypeOK
  <1>3. at'[a] = None \/ at'[a][2] = 1
    BY <1>1, <1>2 DEF Outside
  <1> QED
    BY <1>1, <1>3 DEF Quits, Leave, Holds

LEMMA GoesOnOrQuits ==
  ASSUME NoticesTypeOK, NEW a \in Actor, at[a] # None, NEW n \in 1..3, NEW v, NEW p,
         GoOn(a, n), Holds(a, v, p)
  PROVE  /\ at[a][2] + n <= Length(Check(a)) => GoesOn(a, n, v, p)
         /\ at[a][2] + n > Length(Check(a)) => Quits(a)
  <1>1. /\ at[a] = <<at[a][1], at[a][2]>> /\ at[a][1] \in Nat
        /\ at[a][2] \in Nat \ {0} /\ Check(a) \in Subject
        /\ Len(Steps(Check(a))) = Length(Check(a))
    BY WhereIs, Lengths
  <1>2. Length(Check(a)) \in Nat
    BY DEF Length
  <1>3. CASE at[a][2] + n <= Length(Check(a))
    <2>1. at' = [at EXCEPT ![a] = <<at[a][1], at[a][2] + n>>]
      BY <1>1, <1>3 DEF GoOn
    <2>2. at'[a] = <<at[a][1], at[a][2] + n>>
      BY <2>1 DEF NoticesTypeOK
    <2>3. at'[a] \in Nat \X Nat /\ at'[a][2] # 1
      BY <1>1, <2>2
    <2>4. at'[a] # None
      BY <2>3, NoticesAssumption
    <2>5. GoesOn(a, n, v, p)
      BY <1>3, <2>1, <2>3, <2>4 DEF GoesOn, Holds
    <2> QED
      BY <1>1, <1>2, <1>3, <2>5
  <1>4. CASE at[a][2] + n > Length(Check(a))
    <2> DEFINE w0 == IF Check(a) = "comm" /\ saw[a] = 0
                     THEN {"power", "battery"} ELSE {}
    <2>1. at' = [at EXCEPT ![a] = NextCheck(a, w0)]
      <3>1. ~(at[a][2] + n <= Len(Steps(Check(a))))
        BY <1>1, <1>2, <1>4
      <3> QED
        BY <3>1 DEF GoOn
    <2>2. Leave(a, w0)
      BY <2>1 DEF Leave
    <2> QED
      BY <1>1, <1>2, <1>4, <2>2, LeavesAndForgets
  <1> QED
    BY <1>1, <1>2, <1>3, <1>4

(* Where each step leads. *)
LEMMA LookMoves ==
  ASSUME NoticesTypeOK, NEW a \in Actor, Look(a)
  PROVE  /\ at[a] # None /\ at[a][2] = Place(Check(a), "look")
         /\ Check(a) # "backup"
         /\ GoesOn(a, 1, world[Check(a)], was[a])
  <1>1. at[a] # None /\ Does(a, "look") /\ GoOn(a, 1) /\ Holds(a, world[Check(a)], was[a])
    BY DEF Look, Takes, Does
  <1>2. at[a][2] = Place(Check(a), "look")
    BY <1>1, WhereIs DEF StepName
  <1>3. at[a][2] \in 1..Length(Check(a)) /\ Check(a) \in Subject
    BY <1>1, WhereIs
  <1>4. Check(a) # "backup" /\ at[a][2] + 1 <= Length(Check(a))
    BY <1>2, <1>3 DEF Place, Length
  <1> QED
    BY <1>1, <1>2, <1>4, GoesOnOrQuits

LEMMA RecallMoves ==
  ASSUME NoticesTypeOK, NEW a \in Actor, Recall(a)
  PROVE  /\ at[a] # None /\ at[a][2] = Place(Check(a), "recall")
         /\ Check(a) \notin {"backup", "cert"}
         /\ GoesOn(a, 1, saw[a], IF Seeds(a) THEN None ELSE memory[Check(a)])
  <1>1. /\ at[a] # None /\ Does(a, "recall") /\ GoOn(a, 1)
        /\ Holds(a, saw[a], IF Seeds(a) THEN None ELSE memory[Check(a)])
    BY DEF Recall, Takes, Does
  <1>2. at[a][2] = Place(Check(a), "recall")
    BY <1>1, WhereIs DEF StepName
  <1>3. at[a][2] \in 1..Length(Check(a)) /\ Check(a) \in Subject
    BY <1>1, WhereIs
  <1>4. Check(a) \notin {"backup", "cert"} /\ at[a][2] + 1 <= Length(Check(a))
    BY <1>2, <1>3 DEF Place, Length
  <1> QED
    BY <1>1, <1>2, <1>4, GoesOnOrQuits

LEMMA RememberMoves ==
  ASSUME NoticesTypeOK, NEW a \in Actor, Remember(a)
  PROVE  /\ at[a] # None /\ at[a][2] = Place(Check(a), "remember")
         /\ Check(a) \notin {"backup", "cert"} /\ saw[a] \in Value
         /\ IF Check(a) \in TellFirst \cup {"report"} THEN Quits(a)
            ELSE GoesOn(a, 1, saw[a], was[a])
  <1>1. /\ at[a] # None /\ Does(a, "remember") /\ GoOn(a, 1)
        /\ Holds(a, saw[a], was[a])
    BY DEF Remember, Takes, Does
  <1>2. at[a][2] = Place(Check(a), "remember")
    BY <1>1, WhereIs DEF StepName, Uses
  <1>3. at[a][2] \in 1..Length(Check(a)) /\ Check(a) \in Subject
    BY <1>1, WhereIs
  <1>4. /\ Check(a) \notin {"backup", "cert"}
        /\ IF Check(a) \in TellFirst \cup {"report"}
           THEN at[a][2] + 1 > Length(Check(a)) ELSE at[a][2] + 1 <= Length(Check(a))
    BY <1>2, <1>3 DEF Place, Length, TellFirst
  <1>5. saw[a] \in Value
    BY <1>1, <1>4 DEF NoticesTypeOK, Uses
  <1> QED
    BY <1>1, <1>2, <1>4, <1>5, GoesOnOrQuits

LEMMA TellMoves ==
  ASSUME NoticesTypeOK, NEW a \in Actor, Tell(a)
  PROVE  /\ at[a] # None /\ at[a][2] = Place(Check(a), "tell")
         /\ Check(a) \notin {"backup", "report", "traffic"} /\ saw[a] \in Value
         /\ IF Notable(Check(a), was[a], saw[a]) THEN GoesOn(a, 1, saw[a], was[a])
            ELSE IF Check(a) \in TellFirst THEN GoesOn(a, 3, saw[a], was[a])
            ELSE Quits(a)
  <1>1. /\ at[a] # None /\ Does(a, "tell") /\ Holds(a, saw[a], was[a])
        /\ IF Notable(Check(a), was[a], saw[a]) THEN GoOn(a, 1) ELSE GoOn(a, 3)
    BY DEF Tell, Takes, Does, TellSteps
  <1>2. at[a][2] = Place(Check(a), "tell")
    BY <1>1, WhereIs DEF StepName, Uses
  <1>3. at[a][2] \in 1..Length(Check(a)) /\ Check(a) \in Subject
    BY <1>1, WhereIs
  <1>4. /\ Check(a) \notin {"backup", "report", "traffic"}
        /\ at[a][2] + 1 <= Length(Check(a))
        /\ IF Check(a) \in TellFirst
           THEN at[a][2] + 3 <= Length(Check(a)) ELSE at[a][2] + 3 > Length(Check(a))
    BY <1>2, <1>3 DEF Place, Length, TellFirst
  <1>5. saw[a] \in Value
    BY <1>1, <1>4 DEF NoticesTypeOK, Uses
  <1>6. /\ GoOn(a, 1) => GoesOn(a, 1, saw[a], was[a])
        /\ GoOn(a, 3) => IF Check(a) \in TellFirst THEN GoesOn(a, 3, saw[a], was[a])
                         ELSE Quits(a)
    BY <1>1, <1>4, GoesOnOrQuits
  <1> QED
    BY <1>1, <1>2, <1>4, <1>5, <1>6

LEMMA AskMoves ==
  ASSUME NoticesTypeOK, NEW a \in Actor, Ask(a)
  PROVE  /\ at[a] # None /\ at[a][2] = Place(Check(a), "ask")
         /\ Check(a) \notin {"report", "traffic"}
         /\ Check(a) # "backup" => saw[a] \in Value
         /\ IF Due(a) THEN GoesOn(a, 1, saw[a], was[a])
            ELSE IF Check(a) \in TellFirst THEN GoesOn(a, 2, saw[a], was[a])
            ELSE Quits(a)
  <1>1. /\ at[a] # None /\ Does(a, "ask") /\ Holds(a, saw[a], was[a])
        /\ IF Due(a) THEN GoOn(a, 1) ELSE GoOn(a, IF Check(a) = "backup" THEN 3 ELSE 2)
    BY DEF Ask, Takes, Does
  <1>2. at[a][2] = Place(Check(a), "ask")
    BY <1>1, WhereIs DEF StepName, Uses
  <1>3. at[a][2] \in 1..Length(Check(a)) /\ Check(a) \in Subject
    BY <1>1, WhereIs
  <1>4. /\ Check(a) \notin {"report", "traffic"}
        /\ at[a][2] + 1 <= Length(Check(a))
        /\ Check(a) \in TellFirst => at[a][2] + 2 <= Length(Check(a)) /\ Check(a) # "backup"
        /\ Check(a) \notin TellFirst \cup {"backup"} => at[a][2] + 2 > Length(Check(a))
        /\ Check(a) = "backup" => at[a][2] + 3 > Length(Check(a))
    BY <1>2, <1>3 DEF Place, Length, TellFirst
  <1>5. Check(a) # "backup" => saw[a] \in Value
    BY <1>1 DEF NoticesTypeOK, Uses
  <1>6. /\ GoOn(a, 1) => GoesOn(a, 1, saw[a], was[a])
        /\ Check(a) \in TellFirst /\ GoOn(a, 2) => GoesOn(a, 2, saw[a], was[a])
        /\ Check(a) \notin TellFirst \cup {"backup"} /\ GoOn(a, 2) => Quits(a)
        /\ Check(a) = "backup" /\ GoOn(a, 3) => Quits(a)
    BY <1>1, <1>4, GoesOnOrQuits
  <1> QED
    BY <1>1, <1>2, <1>4, <1>5, <1>6

LEMMA NoteMoves ==
  ASSUME NoticesTypeOK, NEW a \in Actor, Note(a)
  PROVE  /\ at[a] # None /\ at[a][2] = Place(Check(a), "note")
         /\ Check(a) \notin {"report", "traffic"}
         /\ Check(a) # "backup" => saw[a] \in Value
         /\ IF Check(a) \in TellFirst THEN GoesOn(a, 1, saw[a], was[a]) ELSE Quits(a)
  <1>1. /\ at[a] # None /\ Does(a, "note") /\ Holds(a, saw[a], was[a]) /\ GoOn(a, 1)
    BY DEF Note, Takes, Does
  <1>2. at[a][2] = Place(Check(a), "note")
    BY <1>1, WhereIs DEF StepName, Uses
  <1>3. at[a][2] \in 1..Length(Check(a)) /\ Check(a) \in Subject
    BY <1>1, WhereIs
  <1>4. /\ Check(a) \notin {"report", "traffic"}
        /\ IF Check(a) \in TellFirst
           THEN at[a][2] + 1 <= Length(Check(a)) ELSE at[a][2] + 1 > Length(Check(a))
    BY <1>2, <1>3 DEF Place, Length, TellFirst
  <1>5. Check(a) # "backup" => saw[a] \in Value
    BY <1>1 DEF NoticesTypeOK, Uses
  <1> QED
    BY <1>1, <1>2, <1>4, <1>5, GoesOnOrQuits

LEMMA SendMoves ==
  ASSUME NoticesTypeOK, NEW a \in Actor, Send(a)
  PROVE  /\ at[a] # None /\ at[a][2] = Place(Check(a), "send")
         /\ Check(a) \in {"report", "backup"}
         /\ Check(a) = "report" => saw[a] \in Value
         /\ IF Check(a) = "report" /\ was[a] = saw[a] THEN Quits(a)
            ELSE GoesOn(a, 1, saw[a], was[a])
  <1>1. /\ at[a] # None /\ Does(a, "send") /\ Holds(a, saw[a], was[a])
        /\ GoOn(a, IF Check(a) = "report" /\ was[a] = saw[a] THEN 2 ELSE 1)
    BY DEF Send, Takes, Does
  <1>2. at[a][2] = Place(Check(a), "send")
    BY <1>1, WhereIs DEF StepName, Uses
  <1>3. at[a][2] \in 1..Length(Check(a)) /\ Check(a) \in Subject
    BY <1>1, WhereIs
  <1>4. /\ Check(a) \in {"report", "backup"}
        /\ at[a][2] + 1 <= Length(Check(a))
        /\ Check(a) = "report" => at[a][2] + 2 > Length(Check(a))
    BY <1>2, <1>3 DEF Place, Length
  <1>5. Check(a) = "report" => saw[a] \in Value
    BY <1>1 DEF NoticesTypeOK, Uses
  <1>6. /\ GoOn(a, 1) => GoesOn(a, 1, saw[a], was[a])
        /\ Check(a) = "report" /\ GoOn(a, 2) => Quits(a)
    BY <1>1, <1>4, GoesOnOrQuits
  <1> QED
    BY <1>1, <1>2, <1>4, <1>5, <1>6

LEMMA AddMoves ==
  ASSUME NoticesTypeOK, NEW a \in Actor, Add(a)
  PROVE  /\ at[a] # None /\ at[a][2] = 4 /\ Check(a) = "traffic"
         /\ saw[a] \in Value /\ Quits(a)
  <1>1. at[a] # None /\ Does(a, "add") /\ Holds(a, saw[a], was[a]) /\ GoOn(a, 1)
    BY DEF Add, Takes, Does
  <1>2. at[a][2] = Place(Check(a), "add")
    BY <1>1, WhereIs DEF StepName, Uses
  <1>3. at[a][2] \in 1..Length(Check(a)) /\ Check(a) \in Subject
    BY <1>1, WhereIs
  <1>4. Check(a) = "traffic" /\ at[a][2] = 4 /\ at[a][2] + 1 > Length(Check(a))
    BY <1>2, <1>3 DEF Place, Length
  <1>5. saw[a] \in Value
    BY <1>1, <1>4 DEF NoticesTypeOK, Uses
  <1> QED
    BY <1>1, <1>4, <1>5, GoesOnOrQuits

LEMMA EndMoves ==
  ASSUME NoticesTypeOK, NEW a \in Actor, PassOver(a) \/ LookFails(a) \/ SendFails(a)
  PROVE  at[a] # None /\ Quits(a)
  <1>1. at[a] # None
    BY DEF PassOver, LookFails, SendFails, Does
  <1>2. \E without : Leave(a, without) /\ Holds(a, None, None)
    BY DEF PassOver, LookFails, SendFails
  <1> QED
    BY <1>1, <1>2, LeavesAndForgets

----------------------------------------------------------------------------
(* Notices: types. *)

(* After its look a check holds what was seen: the strengthening that      *)
(* makes the types inductive.                                              *)
SeenFirst ==
  \A a \in Actor :
    at[a] # None /\ Check(a) # "backup" /\ at[a][2] > Place(Check(a), "look")
      => saw[a] \in Value

AtOK == /\ at \in [Actor -> (Nat \X Nat) \cup {None}]
        /\ \A a \in Actor : at[a] # None => /\ at[a][1] \in Round(a)
                                         /\ at[a][2] \in 1..Len(Steps(Check(a)))

HeldOK == saw \in [Actor -> Known] /\ was \in [Actor -> Known]

UsesSeen == \A a \in Actor : \A act \in Uses :
              Does(a, act) /\ Check(a) # "backup" => saw[a] \in Value

LEMMA UsesAreSeen == AtOK /\ SeenFirst => UsesSeen
  <1> SUFFICES ASSUME AtOK, SeenFirst, NEW a \in Actor, NEW act \in Uses,
                      Does(a, act), Check(a) # "backup"
               PROVE  saw[a] \in Value
    BY DEF UsesSeen
  <1>1. /\ at[a] # None /\ at[a][1] \in 1..Len(Checks(a))
        /\ at[a][2] \in 1..Len(Steps(Check(a))) /\ Steps(Check(a))[at[a][2]] = act
    BY RoundIsPlaces DEF Does, AtOK
  <1>2. Check(a) \in Subject
    BY <1>1, PlaceIsCheck DEF Check
  <1>3. at[a][2] = Place(Check(a), act) /\ at[a][2] > 0
    <2>1. at[a][2] > 0
      BY <1>1, <1>2, Lengths DEF Length
    <2>2. act \in StepName
      BY DEF StepName
    <2>3. \A n \in 1..Len(Steps(Check(a))) :
            Steps(Check(a))[n] = act <=> n = Place(Check(a), act)
      BY <1>2, <2>2, Places
    <2>4. at[a][2] = Place(Check(a), act)
      BY <1>1, <2>3
    <2> QED
      BY <2>1, <2>4
  <1>4. at[a][2] > Place(Check(a), "look")
    BY <1>2, <1>3 DEF Place, Uses
  <1> QED
    BY <1>1, <1>4 DEF SeenFirst

Moves(a) ==
  \/ Quits(a)
  \/ \E n \in 1..3, v \in Known, p \in Known :
       /\ GoesOn(a, n, v, p)
       /\ Check(a) # "backup" /\ at[a][2] + n > Place(Check(a), "look") => v \in Value

LEMMA OthersStay ==
  ASSUME NoticesTypeOK, NEW a \in Actor, at[a] # None, Moves(a),
         NEW b \in Actor, b # a
  PROVE  at'[b] = at[b] /\ saw'[b] = saw[b] /\ was'[b] = was[b] /\ Check(b)' = Check(b)
  BY DEF Moves, Quits, GoesOn, NoticesTypeOK, Check

LEMMA MoverMoves ==
  ASSUME NoticesTypeOK, NEW a \in Actor, at[a] # None
  PROVE  /\ Quits(a) => /\ at'[a] = None \/ at'[a][2] = 1
                        /\ at'[a] \in Outside(a)
                        /\ saw'[a] = None /\ was'[a] = None
         /\ \A n \in 1..3 : \A v, p : GoesOn(a, n, v, p) =>
              /\ at'[a] # None /\ at'[a][1] = at[a][1] /\ at'[a][2] = at[a][2] + n
              /\ at'[a] \in Nat \X Nat /\ at'[a][2] \in 1..Length(Check(a))
              /\ saw'[a] = v /\ was'[a] = p /\ Check(a)' = Check(a)
  <1>1. ASSUME Quits(a)
        PROVE  /\ at'[a] = None \/ at'[a][2] = 1
               /\ at'[a] \in Outside(a)
               /\ saw'[a] = None /\ was'[a] = None
    <2>1. at'[a] \in Outside(a) /\ saw'[a] = None /\ was'[a] = None
      BY <1>1 DEF Quits, NoticesTypeOK
    <2> QED
      BY <2>1 DEF Outside
  <1>2. ASSUME NEW n \in 1..3, NEW v, NEW p, GoesOn(a, n, v, p)
        PROVE  /\ at'[a] # None /\ at'[a][1] = at[a][1] /\ at'[a][2] = at[a][2] + n
               /\ at'[a] \in Nat \X Nat /\ at'[a][2] \in 1..Length(Check(a))
               /\ saw'[a] = v /\ was'[a] = p /\ Check(a)' = Check(a)
    <2>1. at[a][1] \in Nat /\ at[a][2] \in Nat \ {0} /\ Length(Check(a)) \in Nat
      BY WhereIs DEF Length
    <2>2. at'[a] = <<at[a][1], at[a][2] + n>> /\ saw'[a] = v /\ was'[a] = p
      BY <1>2 DEF GoesOn, NoticesTypeOK
    <2>3. at'[a] \in Nat \X Nat
      BY <2>1, <2>2
    <2>4. at[a][2] + n <= Length(Check(a))
      BY <1>2 DEF GoesOn
    <2> QED
      BY <2>1, <2>2, <2>3, <2>4, NoticesAssumption DEF Check
  <1> QED
    BY <1>1, <1>2

LEMMA MovesKeepTypes ==
  ASSUME NoticesTypeOK, SeenFirst, NEW a \in Actor, at[a] # None, Moves(a), given' = given
  PROVE  AtOK' /\ HeldOK' /\ SeenFirst'
  <1>0. \A b \in Actor : Round(b)' = Round(b) /\ Round(b) \subseteq Nat
    BY RoundIsPlaces DEF Round
  <1>1. HeldOK' /\ at' \in [Actor -> (Nat \X Nat) \cup {None}]
    <2>1. CASE Quits(a)
      BY <2>1, <1>0 DEF Quits, HeldOK, NoticesTypeOK, Known, Outside
    <2>2. ASSUME NEW n \in 1..3, NEW v \in Known, NEW p \in Known, GoesOn(a, n, v, p)
          PROVE  HeldOK' /\ at' \in [Actor -> (Nat \X Nat) \cup {None}]
      <3>1. <<at[a][1], at[a][2] + n>> \in Nat \X Nat
        BY WhereIs
      <3> QED
        BY <2>2, <3>1 DEF GoesOn, HeldOK, NoticesTypeOK
    <2> QED
      BY <2>1, <2>2 DEF Moves
  <1>2. ASSUME NEW b \in Actor, at'[b] # None
        PROVE  /\ at'[b][1] \in Round(b)' /\ at'[b][2] \in 1..Len(Steps(Check(b)'))
               /\ Check(b)' # "backup" /\ at'[b][2] > Place(Check(b)', "look")
                    => saw'[b] \in Value
    <2>1. CASE b # a
      <3>1. at'[b] = at[b] /\ saw'[b] = saw[b] /\ Check(b)' = Check(b)
        BY <2>1, OthersStay
      <3> QED
        BY <1>2, <1>0, <3>1 DEF NoticesTypeOK, SeenFirst
    <2>2. CASE b = a /\ Quits(a)
      <3>1. at'[a] \in Round(a) \X {1}
        BY <1>2, <2>2, MoverMoves DEF Outside
      <3>2. at'[a][1] \in Round(a) /\ at'[a][2] = 1
        BY <3>1
      <3>3. Check(a)' \in Subject
        BY <3>2, RoundIsPlaces DEF Check
      <3>4. Len(Steps(Check(a)')) = Length(Check(a)')
        BY <3>3, Lengths
      <3>5. Check(a)' # "backup" => ~(1 > Place(Check(a)', "look"))
        BY DEF Place
      <3> QED
        BY <2>2, <1>0, <3>2, <3>4, <3>5 DEF Length
    <2>3. ASSUME b = a, NEW n \in 1..3, NEW v \in Known, NEW p \in Known, GoesOn(a, n, v, p),
                 Check(a) # "backup" /\ at[a][2] + n > Place(Check(a), "look") => v \in Value
          PROVE  /\ at'[b][1] \in Round(b)' /\ at'[b][2] \in 1..Len(Steps(Check(b)'))
                 /\ Check(b)' # "backup" /\ at'[b][2] > Place(Check(b)', "look")
                      => saw'[b] \in Value
      <3>1. /\ at'[a][1] = at[a][1] /\ at'[a][2] = at[a][2] + n /\ saw'[a] = v
            /\ at'[a][2] \in 1..Length(Check(a)) /\ Check(a)' = Check(a)
        BY <2>3, MoverMoves
      <3>2. Len(Steps(Check(a))) = Length(Check(a)) /\ at[a][1] \in Round(a)
        BY WhereIs, Lengths
      <3> QED
        BY <1>0, <2>3, <3>1, <3>2
    <2> QED
      BY <2>1, <2>2, <2>3 DEF Moves
  <1> QED
    BY <1>1, <1>2 DEF AtOK, SeenFirst

Acts(a) == Step(a) \/ LookFails(a) \/ SendFails(a)

LEMMA ActorMoves ==
  ASSUME NoticesTypeOK, SeenFirst, NEW a \in Actor, Acts(a)
  PROVE  at[a] # None /\ Moves(a) /\ given' = given
  <1>1. saw[a] \in Known /\ was[a] \in Known /\ None \in Known
    BY DEF NoticesTypeOK, Known
  <1>2. at[a] # None => /\ world[Check(a)] \in Value /\ memory[Check(a)] \in Known
                        /\ Check(a) \in Subject
    BY WhereIs DEF NoticesTypeOK
  <1>3. CASE PassOver(a) \/ LookFails(a) \/ SendFails(a)
    BY <1>3, EndMoves DEF Moves, PassOver, LookFails, SendFails, Settled
  <1>4. CASE Look(a)
    <2>1. given' = given
      BY <1>4 DEF Look, Takes, Settled
    <2> QED
      BY <1>1, <1>2, <1>4, <2>1, LookMoves DEF Moves, Known
  <1>5. CASE Recall(a)
    <2>1. given' = given
      BY <1>5 DEF Recall, Takes, Settled
    <2>2. /\ at[a] # None /\ at[a][2] = Place(Check(a), "recall")
          /\ GoesOn(a, 1, saw[a], IF Seeds(a) THEN None ELSE memory[Check(a)])
          /\ Check(a) \notin {"backup", "cert"}
      BY <1>5, RecallMoves
    <2>3. at[a][2] + 1 > Place(Check(a), "look") => saw[a] \in Value
      <3>1. CASE Check(a) \in {"host", "report"}
        BY <2>2, <3>1 DEF Place
      <3>2. CASE Check(a) \notin {"host", "report"}
        BY <2>2, <3>2 DEF Place, SeenFirst
      <3> QED
        BY <3>1, <3>2
    <2>4. (IF Seeds(a) THEN None ELSE memory[Check(a)]) \in Known
      BY <1>1, <1>2, <2>2
    <2> QED
      BY <1>1, <2>1, <2>2, <2>3, <2>4 DEF Moves
  <1>6. CASE Remember(a)
    <2>1. given' = given
      BY <1>6 DEF Remember, Takes, Settled
    <2> QED
      BY <1>1, <1>6, <2>1, RememberMoves DEF Moves
  <1>7. CASE Tell(a)
    <2>1. given' = given
      BY <1>7 DEF Tell, Takes, Settled
    <2> QED
      BY <1>1, <1>7, <2>1, TellMoves DEF Moves
  <1>8. CASE Ask(a)
    <2>1. given' = given
      BY <1>8 DEF Ask, Takes, Settled
    <2> QED
      BY <1>1, <1>8, <2>1, AskMoves DEF Moves
  <1>9. CASE Note(a)
    <2>1. given' = given
      BY <1>9 DEF Note, Takes, Settled
    <2> QED
      BY <1>1, <1>9, <2>1, NoteMoves DEF Moves
  <1>10. CASE Send(a)
    <2>1. given' = given
      BY <1>10 DEF Send, Takes, Settled
    <2> QED
      BY <1>1, <1>10, <2>1, SendMoves DEF Moves
  <1>11. CASE Add(a)
    <2>1. given' = given
      BY <1>11 DEF Add, Takes, Settled
    <2> QED
      BY <1>1, <1>11, <2>1, AddMoves DEF Moves
  <1> QED
    BY <1>3, <1>4, <1>5, <1>6, <1>7, <1>8, <1>9, <1>10, <1>11 DEF Acts, Step

(* The types of what is not at, saw and was. *)
DataOK ==
  /\ given \in Scenario /\ on \subseteq Switch /\ row \in {"none", "there", "gone"}
  /\ world \in [Subject -> Value] /\ memory \in [Subject -> Known]
  /\ recent \subseteq Text /\ mailed \subseteq Text /\ repeated \subseteq Text
  /\ announced \in [Subject -> Nat \cup {None}]
  /\ \A c \in Followed : announced[c] \in Known
  /\ since \in [Subject -> SUBSET Value] /\ disturbed \subseteq Subject
  /\ boots \in Nat /\ changes \in Nat /\ fails \in Nat /\ crashes \in Nat

LEMMA TypesAreParts == NoticesTypeOK <=> DataOK /\ AtOK /\ HeldOK /\ UsesSeen
  BY DEF NoticesTypeOK, DataOK, AtOK, HeldOK, UsesSeen

LEMMA AnnouncesTyped ==
  ASSUME DataOK, NEW c \in Subject, NEW v \in Nat, c \in Followed => v \in Value,
         Announces(c, v)
  PROVE  /\ announced' \in [Subject -> Nat \cup {None}]
         /\ \A d \in Followed : announced'[d] \in Known
         /\ since' \in [Subject -> SUBSET Value]
  <1>1. \A d \in Followed : d \in Subject
    BY DEF Followed, Subject, TellFirst
  <1> QED
    BY <1>1 DEF Announces, DataOK, Known

LEMMA ValueIsNat == Value \subseteq Nat /\ 0 \in Value /\ None \notin Value
  BY NoticesAssumption DEF Value

(* The steps of the actors keep the types of the data. *)
LEMMA ActorKeepsData ==
  ASSUME NoticesTypeOK, SeenFirst, NEW a \in Actor, Acts(a)
  PROVE  DataOK'
  <1> DEFINE c == Check(a)
  <1>0. DataOK /\ at[a] # None /\ c \in Subject
    BY TypesAreParts, ActorMoves, WhereIs
  <1>1. Swallows(a) \/ Meets(a) => {c} \subseteq Subject
    BY <1>0
  <1>2. ASSUME disturbed' = disturbed \cup (IF Meets(a) \/ Swallows(a) THEN {c} ELSE {})
        PROVE  disturbed' \subseteq Subject
    BY <1>0, <1>2 DEF DataOK
  <1> HIDE DEF c
  <1> USE DEF Settled, Untold, bounds, told, mails
  <1>3. CASE PassOver(a)
    BY <1>0, <1>3 DEF PassOver, DataOK
  <1>4. CASE LookFails(a) \/ SendFails(a)
    BY <1>0, <1>4 DEF LookFails, SendFails, DataOK
  <1>5. CASE Look(a) \/ Recall(a) \/ Ask(a)
    BY <1>0, <1>2, <1>5 DEF Look, Recall, Ask, Takes, DataOK, c
  <1>6. CASE Remember(a)
    <2>1. saw[a] \in Value
      BY <1>6, RememberMoves
    <2>2. /\ announced' \in [Subject -> Nat \cup {None}]
          /\ \A d \in Followed : announced'[d] \in Known
          /\ since' \in [Subject -> SUBSET Value]
      <3>1. CASE Announces(c, saw[a])
        BY <1>0, <2>1, <3>1, AnnouncesTyped, ValueIsNat
      <3>2. CASE UNCHANGED told
        BY <1>0, <3>2 DEF DataOK
      <3> QED
        BY <1>6, <3>1, <3>2 DEF Remember, c
    <2>3. memory' \in [Subject -> Known]
      BY <1>0, <1>6, <2>1 DEF Remember, DataOK, Known, c
    <2>4. /\ disturbed' \subseteq Subject
          /\ UNCHANGED <<given, on, world, row, bounds, boots, mails>>
      BY <1>2, <1>6 DEF Remember, Takes, c
    <2> QED
      BY <1>0, <2>2, <2>3, <2>4 DEF DataOK
  <1>7. CASE Tell(a)
    <2>1. saw[a] \in Value /\ boots \in Nat
      BY <1>0, <1>7, TellMoves DEF DataOK
    <2>2. /\ announced' \in [Subject -> Nat \cup {None}]
          /\ \A d \in Followed : announced'[d] \in Known
          /\ since' \in [Subject -> SUBSET Value]
      <3>1. ASSUME Announces(c, IF c = "boot" THEN boots ELSE saw[a])
            PROVE  /\ announced' \in [Subject -> Nat \cup {None}]
                   /\ \A d \in Followed : announced'[d] \in Known
                   /\ since' \in [Subject -> SUBSET Value]
        <4>1. "boot" \notin Followed
          BY DEF Followed, TellFirst
        <4> QED
          BY <1>0, <2>1, <3>1, <4>1, AnnouncesTyped, ValueIsNat
      <3>2. CASE UNCHANGED told
        BY <1>0, <3>2 DEF DataOK
      <3> QED
        BY <1>7, <3>1, <3>2 DEF Tell, c
    <2>3. /\ disturbed' \subseteq Subject
          /\ UNCHANGED <<given, on, world, row, memory, bounds, boots, mails>>
      BY <1>2, <1>7 DEF Tell, Takes, c
    <2> QED
      BY <1>0, <2>2, <2>3 DEF DataOK
  <1>8. CASE Note(a) \/ Send(a) \/ Add(a)
    <2>1. Note(a) \/ Send(a) => TextOf(a) \in Text
      <3>1. ASSUME Note(a) \/ Send(a) PROVE c # "backup" => saw[a] \in Value
        BY <1>0, <3>1, NoteMoves, SendMoves DEF c
      <3> QED
        BY <1>0, <3>1, ValueIsNat DEF TextOf, Text, c
    <2>2. /\ recent' \subseteq Text /\ mailed' \subseteq Text /\ repeated' \subseteq Text
      BY <1>0, <1>8, <2>1 DEF Note, Send, Add, Mails, DataOK
    <2>3. /\ announced' \in [Subject -> Nat \cup {None}]
          /\ \A d \in Followed : announced'[d] \in Known
          /\ since' \in [Subject -> SUBSET Value]
      <3>1. CASE UNCHANGED told
        BY <1>0, <3>1 DEF DataOK
      <3>2. CASE Send(a) /\ Announces("report", saw[a]) /\ c = "report"
        <4>1. saw[a] \in Value
          BY <3>2, SendMoves DEF c
        <4> QED
          BY <1>0, <3>2, <4>1, AnnouncesTyped, ValueIsNat
      <3> QED
        BY <1>8, <3>1, <3>2 DEF Note, Send, Add, c
    <2>4. /\ disturbed' \subseteq Subject
          /\ UNCHANGED <<given, on, world, row, memory, bounds, boots>>
      BY <1>2, <1>8 DEF Note, Send, Add, Takes, c
    <2> QED
      BY <1>0, <2>2, <2>3, <2>4 DEF DataOK
  <1> QED
    BY <1>3, <1>4, <1>5, <1>6, <1>7, <1>8 DEF Acts, Step

(* The steps of the world, the settings and the calls that begin. *)
Outer ==
  \/ \E c \in Subject, v \in Value : Change(c, v)
  \/ \E t \in Text : Expire(t)
  \/ AlertsSet \/ BackupMailSet \/ ReportSettings \/ MonitorSettings
  \/ MonitorCreate \/ MonitorDelete

Restarts == \E reboot \in BOOLEAN, v \in Value : Restart(reboot, v)

LEMMA NextIs ==
  NoticesNext <=> (\E a \in Actor : Acts(a) \/ Begin(a)) \/ Outer \/ Restarts
  BY DEF NoticesNext, Acts, Outer, Restarts

LEMMA OuterStays == Outer => UNCHANGED <<given, at, saw, was>>
  BY DEF Outer, Change, Expire, AlertsSet, BackupMailSet, ReportSettings, MonitorSettings,
     MonitorCreate, MonitorDelete, Turn, Idle

LEMMA SameMoves ==
  ASSUME UNCHANGED <<given, at, saw, was>>
  PROVE  /\ (AtOK <=> AtOK') /\ (HeldOK <=> HeldOK') /\ (SeenFirst <=> SeenFirst')
         /\ \A a \in Actor : /\ Check(a)' = Check(a)
                             /\ \A c : Inside(a, c)' <=> Inside(a, c)
                             /\ \A act : Does(a, act)' <=> Does(a, act)
  BY DEF AtOK, HeldOK, SeenFirst, Round, Check, Inside, Does

LEMMA OuterKeepsData ==
  ASSUME DataOK, Outer
  PROVE  DataOK'
  <1> USE DEF told, bounds, mails
  <1>1. ASSUME NEW c \in Subject, NEW v \in Value, Change(c, v) PROVE DataOK'
    BY <1>1 DEF DataOK, Change, Idle
  <1>2. ASSUME NEW t \in Text, Expire(t) PROVE DataOK'
    BY <1>2 DEF DataOK, Expire
  <1>3. ASSUME NEW x \in Switch, Turn(x),
               disturbed' \subseteq Subject, memory' \in [Subject -> Known]
        PROVE  DataOK'
    BY <1>3 DEF DataOK, Turn
  <1>4. CASE AlertsSet \/ BackupMailSet \/ ReportSettings
    <2>1. \E x \in Switch : Turn(x)
      BY <1>4 DEF AlertsSet, BackupMailSet, ReportSettings, Switch
    <2>2. disturbed' \subseteq Subject /\ memory' \in [Subject -> Known]
      BY <1>4 DEF AlertsSet, BackupMailSet, ReportSettings, DataOK, Subject
    <2> QED
      BY <1>3, <2>1, <2>2
  <1>5. CASE MonitorSettings
    <2>1. "unknown" \in Switch /\ Turn("unknown")
      BY <1>5 DEF MonitorSettings, Switch
    <2>2. 1 \in Known
      BY NoticesAssumption DEF Known, Value
    <2>3. disturbed' \subseteq Subject /\ memory' \in [Subject -> Known]
      BY <1>5, <2>2 DEF MonitorSettings, DataOK
    <2> QED
      BY <1>3, <2>1, <2>3
  <1>6. CASE MonitorCreate \/ MonitorDelete
    <2>1. {"host"} \subseteq Subject
      BY DEF Subject
    <2>2. disturbed' \subseteq Subject /\ row' \in {"none", "there", "gone"}
      BY <1>6, <2>1 DEF DataOK, MonitorCreate, MonitorDelete
    <2>3. changes' \in Nat
      BY <1>6 DEF DataOK, MonitorCreate, MonitorDelete
    <2>4. UNCHANGED <<given, on, world, memory, recent, mailed, repeated, announced,
                      since, boots, fails, crashes>>
      BY <1>6 DEF MonitorCreate, MonitorDelete, Idle
    <2> QED
      BY <2>2, <2>3, <2>4 DEF DataOK
  <1> QED
    BY <1>1, <1>2, <1>4, <1>5, <1>6 DEF Outer

(* A call begins outside, and with a restart every actor is outside. *)
LEMMA OutsideIsTyped ==
  ASSUME NEW f \in [Actor -> (Nat \X Nat) \cup {None}],
         NEW a \in Actor, f[a] \in Outside(a), f[a] # None
  PROVE  /\ f[a][1] \in Round(a) /\ f[a][2] = 1
         /\ Checks(a)[f[a][1]] \in Subject
         /\ f[a][2] \in 1..Len(Steps(Checks(a)[f[a][1]]))
         /\ Checks(a)[f[a][1]] # "backup"
              => ~(f[a][2] > Place(Checks(a)[f[a][1]], "look"))
  <1>1. f[a] \in Round(a) \X {1}
    BY DEF Outside
  <1>2. f[a][1] \in Round(a) /\ f[a][2] = 1
    BY <1>1
  <1>3. Checks(a)[f[a][1]] \in Subject
    BY <1>2, RoundIsPlaces
  <1>4. Len(Steps(Checks(a)[f[a][1]])) = Length(Checks(a)[f[a][1]])
    BY <1>3, Lengths
  <1> QED
    BY <1>2, <1>3, <1>4 DEF Length, Place

LEMMA BeginKeepsTypes ==
  ASSUME NoticesTypeOK, SeenFirst, NEW a \in Actor, Begin(a)
  PROVE  DataOK' /\ AtOK' /\ HeldOK' /\ SeenFirst'
  <1>1. DataOK'
    BY DEF NoticesTypeOK, DataOK, Begin, told, mails
  <1>2. HeldOK'
    BY DEF NoticesTypeOK, HeldOK, Begin
  <1>3. /\ at' = [at EXCEPT ![a] = Start(a)] /\ Start(a) \in Outside(a)
        /\ given' = given /\ saw' = saw
    BY StartsOutside DEF Begin
  <1>4. at' \in [Actor -> (Nat \X Nat) \cup {None}]
    BY <1>3, RoundIsPlaces DEF NoticesTypeOK, Outside
  <1>5. \A b \in Actor : Round(b)' = Round(b)
    BY <1>3 DEF Round
  <1>6. ASSUME NEW b \in Actor, at'[b] # None
        PROVE  /\ at'[b][1] \in Round(b)' /\ at'[b][2] \in 1..Len(Steps(Check(b)'))
               /\ Check(b)' # "backup" /\ at'[b][2] > Place(Check(b)', "look")
                    => saw'[b] \in Value
    <2>1. CASE b = a
      <3>1. at'[a] \in Outside(a)
        BY <1>3 DEF NoticesTypeOK
      <3> QED
        BY <1>4, <1>5, <1>6, <2>1, <3>1, OutsideIsTyped DEF Check
    <2>2. CASE b # a
      <3>1. at'[b] = at[b] /\ Check(b)' = Check(b)
        BY <1>3, <2>2 DEF NoticesTypeOK, Check
      <3> QED
        BY <1>3, <1>5, <1>6, <3>1 DEF NoticesTypeOK, SeenFirst
    <2> QED
      BY <2>1, <2>2
  <1> QED
    BY <1>1, <1>2, <1>4, <1>6 DEF AtOK, SeenFirst

(* Every actor is outside. *)
AllOutside == /\ at \in [Actor -> (Nat \X Nat) \cup {None}]
              /\ \A a \in Actor : at[a] \in Outside(a)

LEMMA AllOutsideIsTyped == AllOutside => AtOK /\ SeenFirst
  BY OutsideIsTyped DEF AllOutside, AtOK, SeenFirst, Check

LEMMA StartIsOutside ==
  ASSUME at = [a \in Actor |-> IF a \in Loop THEN Start(a) ELSE None]
  PROVE  AllOutside
  <1>1. \A a \in Actor : at[a] \in Outside(a)
    BY StartsOutside DEF Outside
  <1>2. \A a \in Actor : Outside(a) \subseteq (Nat \X Nat) \cup {None}
    BY RoundIsPlaces DEF Outside
  <1> QED
    BY <1>1, <1>2 DEF AllOutside

LEMMA RestartIsOutside == Restarts => AllOutside'
  <1> SUFFICES ASSUME Restarts PROVE AllOutside'
    OBVIOUS
  <1>1. /\ at' = [a \in Actor |-> IF a \in Loop THEN Start(a) ELSE None]
        /\ given' = given
    BY DEF Restarts, Restart
  <1>2. \A a \in Actor : Start(a)' = Start(a) /\ Round(a)' = Round(a)
    BY <1>1 DEF Start, Round
  <1>3. \A a \in Actor : at'[a] \in Outside(a)'
    BY <1>1, <1>2, StartsOutside DEF Outside
  <1>4. \A a \in Actor : Outside(a)' \subseteq (Nat \X Nat) \cup {None}
    BY <1>2, RoundIsPlaces DEF Outside
  <1> QED
    BY <1>1, <1>3, <1>4 DEF AllOutside

LEMMA RestartKeepsTypes ==
  ASSUME NoticesTypeOK, Restarts
  PROVE  DataOK' /\ AtOK' /\ HeldOK' /\ SeenFirst'
  <1> PICK reboot \in BOOLEAN, v \in Value : Restart(reboot, v)
    BY DEF Restarts
  <1>1. AtOK' /\ SeenFirst'
    BY RestartIsOutside, AllOutsideIsTyped, PTL
  <1>2. HeldOK'
    BY DEF Restart, HeldOK, Known
  <1>3. ASSUME NEW b \in Actor, HalfDone(b) PROVE Check(b) \in Subject
    BY <1>3, WhereIs DEF HalfDone
  <1>4. disturbed' \subseteq Subject
    BY <1>3 DEF Restart, NoticesTypeOK, Subject
  <1>5. world' \in [Subject -> Value]
    BY ValueIsNat DEF Restart, NoticesTypeOK
  <1>6. since' \in [Subject -> SUBSET Value]
    <2>1. \A c \in Subject : world'[c] \in Value /\ since[c] \subseteq Value
      BY <1>5 DEF NoticesTypeOK
    <2>2. since' = [c \in Subject |-> since[c] \cup {world'[c]}]
      BY DEF Restart
    <2> QED
      BY <2>1, <2>2
  <1>7. /\ boots' \in Nat /\ crashes' \in Nat
        /\ UNCHANGED <<given, on, row, memory, recent, mailed, repeated, announced,
                       changes, fails>>
    BY DEF Restart, NoticesTypeOK, mails
  <1>8. DataOK'
    BY <1>4, <1>5, <1>6, <1>7 DEF NoticesTypeOK, DataOK
  <1> QED
    BY <1>1, <1>2, <1>8

LEMMA NoticesTypeInit == NoticesInit => NoticesTypeOK /\ SeenFirst
  <1> SUFFICES ASSUME NoticesInit PROVE NoticesTypeOK /\ SeenFirst
    OBVIOUS
  <1> PICK s \in Scenario : NoticesInit!(s)
    BY DEF NoticesInit
  <1>1. AtOK /\ SeenFirst
    BY StartIsOutside, AllOutsideIsTyped
  <1>2. HeldOK
    BY DEF HeldOK, Known
  <1>3. s.on \subseteq Switch /\ s.world \in [Subject -> Value]
    BY NoticesAssumption
  <1>4. announced \in [Subject -> Known]
    BY <1>3, ValueIsNat DEF Known
  <1>5. announced \in [Subject -> Nat \cup {None}] /\ \A c \in Followed : announced[c] \in Known
    <2>1. Followed \subseteq Subject
      BY DEF Followed, TellFirst, Subject
    <2>2. Known \subseteq Nat \cup {None}
      BY ValueIsNat DEF Known
    <2> QED
      BY <1>4, <2>1, <2>2
  <1>6. since \in [Subject -> SUBSET Value] /\ world \in [Subject -> Value]
    BY <1>3
  <1>7. disturbed \subseteq Subject /\ memory \in [Subject -> Known]
    BY DEF Subject, Known
  <1>8. DataOK
    BY <1>3, <1>5, <1>6, <1>7 DEF DataOK
  <1> QED
    BY <1>1, <1>2, <1>8, TypesAreParts, UsesAreSeen

LEMMA NoticesTypeStep ==
  NoticesTypeOK /\ SeenFirst /\ [NoticesNext]_noticeVars => NoticesTypeOK' /\ SeenFirst'
  <1> SUFFICES ASSUME NoticesTypeOK, SeenFirst, [NoticesNext]_noticeVars
               PROVE  DataOK' /\ AtOK' /\ HeldOK' /\ SeenFirst'
    BY TypesAreParts, UsesAreSeen, PTL
  <1>1. ASSUME NEW a \in Actor, Acts(a) PROVE DataOK' /\ AtOK' /\ HeldOK' /\ SeenFirst'
    BY <1>1, ActorMoves, ActorKeepsData, MovesKeepTypes
  <1>2. ASSUME NEW a \in Actor, Begin(a) PROVE DataOK' /\ AtOK' /\ HeldOK' /\ SeenFirst'
    BY <1>2, BeginKeepsTypes
  <1>3. CASE Outer
    BY <1>3, TypesAreParts, OuterStays, OuterKeepsData, SameMoves
  <1>4. CASE Restarts
    BY <1>4, RestartKeepsTypes
  <1>5. CASE UNCHANGED noticeVars
    <2>1. UNCHANGED <<given, at, saw, was>>
      BY <1>5 DEF noticeVars
    <2>2. DataOK'
      BY <1>5, TypesAreParts DEF noticeVars, bounds, told, mails, DataOK
    <2> QED
      BY <2>1, <2>2, TypesAreParts, SameMoves
  <1> QED
    BY <1>1, <1>2, <1>3, <1>4, <1>5, NextIs

(* Whatever is watched, called and switched: the values have their types,  *)
(* and what a check writes, tells, sends or counts it has seen.            *)
THEOREM NoticesTypeCorrect == NoticesSpec => []NoticesTypeOK
  BY NoticesTypeInit, NoticesTypeStep, PTL DEF NoticesSpec

----------------------------------------------------------------------------
(* Notices: who is at which check.  Two actors inside the same check have  *)
(* disturbed it; and nothing is known of a host before it is watched.      *)

LEMMA InsideIs ==
  ASSUME NoticesTypeOK, NEW a \in Actor, NEW c
  PROVE  /\ Inside(a, c) <=> at[a] # None /\ Check(a) = c /\ at[a][2] > 1
         /\ Inside(a, c) => c \in Subject \cap given.checks
  BY WhereIs DEF Inside

LEMMA ActorInside ==
  ASSUME NoticesTypeOK, SeenFirst, NEW a \in Actor, Acts(a), NEW b \in Actor, NEW c
  PROVE  /\ b # a => /\ at'[b] = at[b] /\ saw'[b] = saw[b] /\ was'[b] = was[b]
                     /\ Check(b)' = Check(b) /\ (Inside(b, c)' <=> Inside(b, c))
         /\ Inside(a, c)' => c = Check(a) /\ ~Quits(a)
         /\ Quits(a) => ~Inside(a, c)'
         /\ \A n \in 1..3 : \A v, p : GoesOn(a, n, v, p) => (Inside(a, c)' <=> c = Check(a))
  <1>0. at[a] # None /\ Moves(a)
    BY ActorMoves
  <1>1. b # a => /\ at'[b] = at[b] /\ saw'[b] = saw[b] /\ was'[b] = was[b]
                 /\ Check(b)' = Check(b) /\ (Inside(b, c)' <=> Inside(b, c))
    BY <1>0, OthersStay DEF Inside
  <1>2. Quits(a) => ~Inside(a, c)'
    BY <1>0, MoverMoves DEF Inside
  <1>3. ASSUME NEW n \in 1..3, NEW v, NEW p, GoesOn(a, n, v, p)
        PROVE  Inside(a, c)' <=> c = Check(a)
    <2>1. /\ at'[a] # None /\ at'[a][2] = at[a][2] + n /\ Check(a)' = Check(a)
      BY <1>0, <1>3, MoverMoves
    <2>2. at[a][2] \in Nat \ {0}
      BY <1>0, WhereIs
    <2>3. at'[a][2] > 1
      BY <2>1, <2>2
    <2> QED
      BY <2>1, <2>3 DEF Inside
  <1>4. Quits(a) \/ \E n \in 1..3, v \in Known, p \in Known : GoesOn(a, n, v, p)
    BY <1>0 DEF Moves
  <1> QED
    BY <1>1, <1>2, <1>3, <1>4

(* An actor that does not just leave its check takes a step of it.         *)
LEMMA ActorTakes ==
  ASSUME NoticesTypeOK, SeenFirst, NEW a \in Actor, Acts(a)
  PROVE  \/ /\ PassOver(a) \/ LookFails(a) \/ SendFails(a)
            /\ Quits(a) /\ disturbed' = disturbed
            /\ UNCHANGED <<memory, told, mails, counted, passed>>
         \/ /\ at[a][2] = 1 => ~Off(Check(a))
            /\ disturbed' = disturbed \cup (IF Meets(a) \/ Swallows(a) THEN {Check(a)} ELSE {})
            /\ Look(a) \/ Recall(a) \/ Remember(a) \/ Tell(a) \/ Ask(a) \/ Note(a)
               \/ Send(a) \/ Add(a)
  <1>1. CASE PassOver(a) \/ LookFails(a) \/ SendFails(a)
    <2>1. /\ disturbed' = disturbed /\ UNCHANGED <<memory, told, mails, counted, passed>>
      BY <1>1 DEF PassOver, LookFails, SendFails, Untold
    <2>2. Quits(a)
      BY <1>1, EndMoves
    <2> QED
      BY <1>1, <2>1, <2>2
  <1>2. CASE Look(a) \/ Recall(a) \/ Remember(a) \/ Tell(a) \/ Ask(a) \/ Note(a)
             \/ Send(a) \/ Add(a)
    <2>1. \E act : Takes(a, act)
      BY <1>2 DEF Look, Recall, Remember, Tell, Ask, Note, Send, Add
    <2> QED
      BY <1>2, <2>1 DEF Takes
  <1> QED
    BY <1>1, <1>2 DEF Acts, Step

LEMMA ActorDisturbs ==
  ASSUME NoticesTypeOK, SeenFirst, NEW a \in Actor, Acts(a)
  PROVE  /\ disturbed \subseteq disturbed' /\ disturbed' \subseteq disturbed \cup {Check(a)}
         /\ ~Quits(a) /\ Meets(a) => Check(a) \in disturbed'
  <1>1. CASE Quits(a) /\ disturbed' = disturbed
    BY <1>1
  <1>2. CASE disturbed' = disturbed \cup (IF Meets(a) \/ Swallows(a) THEN {Check(a)} ELSE {})
    <2>1. Meets(a) => disturbed' = disturbed \cup {Check(a)}
      BY <1>2
    <2>2. disturbed' = disturbed \/ disturbed' = disturbed \cup {Check(a)}
      BY <1>2
    <2> QED
      BY <2>1, <2>2
  <1> QED
    BY <1>1, <1>2, ActorTakes

(* What the step of an actor leaves of the checks it is not at.            *)
LEMMA ActorLeaves ==
  ASSUME NoticesTypeOK, SeenFirst, NEW a \in Actor, Acts(a), NEW c \in Subject, c # Check(a)
  PROVE  /\ memory'[c] = memory[c] /\ announced'[c] = announced[c] /\ since'[c] = since[c]
         /\ c \in disturbed' <=> c \in disturbed
         /\ UNCHANGED <<given, on, world, row, boots>>
         /\ \A t \in Text : t[1] = c => /\ t \in recent' <=> t \in recent
                                        /\ t \in mailed' <=> t \in mailed
                                        /\ t \in repeated' <=> t \in repeated
         /\ \A b \in Actor : /\ Inside(b, c)' <=> Inside(b, c)
                             /\ Inside(b, c) => /\ at'[b] = at[b] /\ saw'[b] = saw[b]
                                                /\ was'[b] = was[b] /\ Check(b)' = Check(b)
  <1>1. UNCHANGED <<given, on, world, row, boots>>
    BY DEF Acts, Step, PassOver, LookFails, SendFails, Look, Recall, Remember, Tell, Ask,
       Note, Send, Add, Takes, Settled
  <1>2. ASSUME NEW b \in Actor
        PROVE  /\ Inside(b, c)' <=> Inside(b, c)
               /\ Inside(b, c) => /\ at'[b] = at[b] /\ saw'[b] = saw[b]
                                  /\ was'[b] = was[b] /\ Check(b)' = Check(b)
    <2>1. CASE b = a
      BY <2>1, ActorInside, InsideIs
    <2>2. CASE b # a
      BY <2>2, ActorInside
    <2> QED
      BY <2>1, <2>2
  <1>3. CASE UNCHANGED <<memory, told, mails, counted, passed>> /\ disturbed' = disturbed
    BY <1>1, <1>2, <1>3 DEF told, mails
  <1>4. ASSUME disturbed' = disturbed \cup (IF Meets(a) \/ Swallows(a) THEN {Check(a)} ELSE {}),
               Look(a) \/ Recall(a) \/ Remember(a) \/ Tell(a) \/ Ask(a) \/ Note(a)
               \/ Send(a) \/ Add(a)
        PROVE  /\ memory'[c] = memory[c] /\ announced'[c] = announced[c]
               /\ since'[c] = since[c]
               /\ c \in disturbed' <=> c \in disturbed
               /\ \A t \in Text : t[1] = c => /\ t \in recent' <=> t \in recent
                                              /\ t \in mailed' <=> t \in mailed
                                              /\ t \in repeated' <=> t \in repeated
    <2>1. c \in disturbed' <=> c \in disturbed
      BY <1>4
    <2>2. \A t \in Text : t[1] = c => t # TextOf(a)
      BY DEF TextOf
    <2>3. CASE Look(a) \/ Recall(a) \/ Ask(a)
      BY <2>1, <2>3 DEF Look, Recall, Ask, Untold, told, mails
    <2>4. CASE Remember(a)
      BY <2>1, <2>4 DEF Remember, Announces, told, mails, NoticesTypeOK
    <2>5. CASE Tell(a)
      BY <2>1, <2>5 DEF Tell, Announces, told, mails, NoticesTypeOK
    <2>6. CASE Note(a)
      BY <2>1, <2>2, <2>6 DEF Note, Mails, told
    <2>7. CASE Send(a)
      BY <2>1, <2>2, <2>7 DEF Send, Mails, Announces, told, NoticesTypeOK
    <2>8. CASE Add(a)
      BY <2>1, <2>8 DEF Add, told, mails
    <2> QED
      BY <1>4, <2>3, <2>4, <2>5, <2>6, <2>7, <2>8
  <1> QED
    BY <1>1, <1>2, <1>3, <1>4, ActorTakes

(* An actor that stays undisturbed at its check is the only one there.     *)
OneInside ==
  \A a, b \in Actor : \A c \in Subject :
    Inside(a, c) /\ Inside(b, c) /\ a # b => c \in disturbed

LEMMA OnlyOne ==
  ASSUME NoticesTypeOK, SeenFirst, OneInside, NEW a \in Actor, Acts(a),
         NEW c, c = Check(a), c \notin disturbed', ~Quits(a) \/ at[a][2] > 1
  PROVE  /\ c \notin disturbed
         /\ \A b \in Actor \ {a} : ~Inside(b, c) /\ ~Inside(b, c)'
  <1>1. at[a] # None /\ Check(a) \in Subject /\ at[a][2] \in Nat \ {0}
    BY ActorMoves, WhereIs
  <1>2. disturbed \subseteq disturbed' /\ (~Quits(a) => ~Meets(a))
    BY ActorDisturbs
  <1>3. ASSUME NEW b \in Actor \ {a} PROVE ~Inside(b, c)
    <2>1. CASE at[a][2] > 1
      <3>1. Inside(a, c)
        BY <1>1, <2>1, InsideIs
      <3> QED
        BY <1>1, <1>2, <3>1 DEF OneInside
    <2>2. CASE at[a][2] = 1
      BY <1>2, <2>2 DEF Meets
    <2> QED
      BY <1>1, <2>1, <2>2
  <1>4. ASSUME NEW b \in Actor \ {a} PROVE ~Inside(b, c)'
    BY <1>3, ActorInside
  <1> QED
    BY <1>2, <1>3, <1>4

LEMMA ActorKeepsOneInside ==
  ASSUME NoticesTypeOK, SeenFirst, OneInside, NEW a \in Actor, Acts(a)
  PROVE  OneInside'
  <1> SUFFICES ASSUME NEW x \in Actor, NEW y \in Actor, NEW c \in Subject,
                      Inside(x, c)', Inside(y, c)', x # y, c \notin disturbed'
               PROVE  FALSE
    BY DEF OneInside
  <1>1. CASE c # Check(a)
    BY <1>1, ActorLeaves DEF OneInside
  <1>2. CASE c = Check(a) /\ x # a /\ y # a
    <2>1. Inside(x, c) /\ Inside(y, c)
      BY <1>2, ActorInside
    <2>2. disturbed \subseteq disturbed'
      BY ActorDisturbs
    <2> QED
      BY <2>1, <2>2 DEF OneInside
  <1>3. CASE c = Check(a) /\ (x = a \/ y = a)
    <2>1. ~Quits(a)
      BY <1>3, ActorInside
    <2> QED
      BY <1>3, <2>1, OnlyOne
  <1> QED
    BY <1>1, <1>2, <1>3

LEMMA BeginInside ==
  ASSUME NoticesTypeOK, NEW a \in Actor, Begin(a), NEW b \in Actor, NEW c
  PROVE  /\ Inside(b, c)' <=> Inside(b, c)
         /\ Inside(b, c) => /\ at'[b] = at[b] /\ Check(b)' = Check(b)
         /\ saw' = saw /\ was' = was
  <1>1. at[a] = None /\ at' = [at EXCEPT ![a] = Start(a)] /\ saw' = saw /\ was' = was
    BY DEF Begin
  <1>2. at'[a] = None \/ at'[a][2] = 1
    BY <1>1, StartsOutside DEF NoticesTypeOK, Outside
  <1>3. b # a => at'[b] = at[b] /\ Check(b)' = Check(b)
    BY <1>1 DEF NoticesTypeOK, Check
  <1> QED
    BY <1>1, <1>2, <1>3 DEF Inside

LEMMA RestartInside ==
  ASSUME Restarts, NEW b \in Actor, NEW c
  PROVE  ~Inside(b, c)'
  <1>1. at' \in [Actor -> (Nat \X Nat) \cup {None}] /\ at'[b] \in Outside(b)'
    BY RestartIsOutside DEF AllOutside
  <1>2. at'[b] = None \/ at'[b][2] = 1
    BY <1>1 DEF Outside
  <1> QED
    BY <1>2 DEF Inside

(* Nothing is known or told of the host before it has a row.               *)
HostUnmade ==
  row = "none" =>
    /\ memory["host"] = None /\ \A a \in Actor : ~Inside(a, "host")
    /\ "host" \in given.checks => announced["host"] = None
    /\ \A t \in repeated : t[1] # "host"

LEMMA ActorKeepsHost ==
  ASSUME NoticesTypeOK, SeenFirst, HostUnmade, NEW a \in Actor, Acts(a)
  PROVE  HostUnmade'
  <1> SUFFICES ASSUME row' = "none"
               PROVE  /\ memory'["host"] = None
                      /\ \A b \in Actor : ~Inside(b, "host")'
                      /\ "host" \in given'.checks => announced'["host"] = None
                      /\ \A t \in repeated' : t[1] # "host"
    BY DEF HostUnmade
  <1>0. /\ UNCHANGED <<row, given>> /\ "host" \in Subject
        /\ at[a] # None /\ Check(a) \in Subject /\ at[a][2] \in Nat \ {0}
    <2>1. UNCHANGED <<row, given>>
      BY DEF Acts, Step, PassOver, LookFails, SendFails, Look, Recall, Remember, Tell,
         Ask, Note, Send, Add, Takes, Settled
    <2> QED
      BY <2>1, ActorMoves, WhereIs DEF Subject
  <1>1. /\ memory["host"] = None /\ \A b \in Actor : ~Inside(b, "host")
        /\ "host" \in given.checks => announced["host"] = None
        /\ \A t \in repeated : t[1] # "host"
    BY <1>0 DEF HostUnmade
  <1>2. CASE Check(a) # "host"
    <2>1. \A t \in Text : t[1] = "host" => (t \in repeated' <=> t \in repeated)
      BY <1>0, <1>2, ActorLeaves
    <2>2. repeated' \subseteq Text
      BY ActorKeepsData DEF DataOK
    <2> QED
      BY <1>0, <1>1, <1>2, <2>1, <2>2, ActorLeaves
  <1>3. CASE Check(a) = "host"
    <2>1. at[a][2] = 1
      BY <1>0, <1>1, <1>3, InsideIs
    <2>2. Off(Check(a))
      BY <1>0, <1>3 DEF Off
    <2>3. Quits(a) /\ UNCHANGED <<memory, told, mails>>
      BY <2>1, <2>2, ActorTakes
    <2>4. \A b \in Actor : ~Inside(b, "host")'
      BY <1>1, <2>3, ActorInside
    <2> QED
      BY <1>0, <1>1, <2>3, <2>4 DEF told, mails
  <1> QED
    BY <1>2, <1>3

Crowd == OneInside /\ HostUnmade

LEMMA OuterKeepsCrowd == ASSUME NoticesTypeOK, Crowd, Outer PROVE Crowd'
  <1>1. \A a \in Actor : \A c : Inside(a, c)' <=> Inside(a, c)
    BY OuterStays, SameMoves
  <1>2. \/ disturbed \subseteq disturbed'
        \/ row = "none" /\ disturbed' = disturbed \ {"host"}
    BY DEF Outer, Change, Expire, AlertsSet, BackupMailSet, ReportSettings,
       MonitorSettings, MonitorCreate, MonitorDelete
  <1>3. OneInside'
    BY <1>1, <1>2 DEF OneInside, Crowd, HostUnmade
  <1>4. CASE row' = "none"
    <2>1. row = "none"
      BY <1>4 DEF Outer, Change, Expire, AlertsSet, BackupMailSet, ReportSettings,
         MonitorSettings, MonitorCreate, MonitorDelete, Turn
    <2>2. memory'["host"] = memory["host"]
      <3>1. memory' = memory \/ memory' = [memory EXCEPT !["mac"] = 1]
        BY DEF Outer, Change, Expire, AlertsSet, BackupMailSet, ReportSettings,
           MonitorSettings, MonitorCreate, MonitorDelete, Turn, Idle
      <3> QED
        BY <3>1 DEF NoticesTypeOK, Subject
    <2>3. UNCHANGED <<given, announced, repeated>>
      BY DEF Outer, Change, Expire, AlertsSet, BackupMailSet, ReportSettings,
         MonitorSettings, MonitorCreate, MonitorDelete, Turn, Idle, told
    <2> QED
      BY <1>1, <1>3, <2>1, <2>2, <2>3 DEF Crowd, HostUnmade
  <1> QED
    BY <1>3, <1>4 DEF Crowd, HostUnmade

LEMMA CrowdInit == NoticesInit => Crowd
  <1> SUFFICES ASSUME NoticesInit PROVE Crowd
    OBVIOUS
  <1>1. AllOutside
    BY StartIsOutside DEF NoticesInit
  <1>2. \A a \in Actor : \A c : ~Inside(a, c)
    <2>1. \A a \in Actor : at[a] = None \/ at[a][2] = 1
      BY <1>1 DEF AllOutside, Outside
    <2> QED
      BY <2>1 DEF Inside
  <1>3. /\ memory["host"] = None /\ repeated = {}
        /\ "host" \in given.checks => announced["host"] = None
    BY DEF NoticesInit, Subject
  <1> QED
    BY <1>2, <1>3 DEF Crowd, OneInside, HostUnmade

LEMMA CrowdStep ==
  NoticesTypeOK /\ SeenFirst /\ Crowd /\ [NoticesNext]_noticeVars => Crowd'
  <1> SUFFICES ASSUME NoticesTypeOK, SeenFirst, Crowd, [NoticesNext]_noticeVars
               PROVE  Crowd'
    OBVIOUS
  <1>1. ASSUME NEW a \in Actor, Acts(a) PROVE Crowd'
    BY <1>1, ActorKeepsOneInside, ActorKeepsHost DEF Crowd
  <1>2. ASSUME NEW a \in Actor, Begin(a) PROVE Crowd'
    <2>1. \A b \in Actor : \A c : Inside(b, c)' <=> Inside(b, c)
      BY <1>2, BeginInside
    <2>2. UNCHANGED <<given, row, memory, announced, repeated, disturbed>>
      BY <1>2 DEF Begin, told, mails
    <2> QED
      BY <2>1, <2>2 DEF Crowd, OneInside, HostUnmade
  <1>3. CASE Restarts
    <2>1. \A b \in Actor : \A c : ~Inside(b, c)'
      BY <1>3, RestartInside
    <2>2. UNCHANGED <<given, row, memory, announced, repeated>>
      BY <1>3 DEF Restarts, Restart, mails
    <2> QED
      BY <2>1, <2>2 DEF Crowd, OneInside, HostUnmade
  <1>4. CASE UNCHANGED noticeVars
    <2>1. UNCHANGED <<given, at, saw, was, row, memory, announced, repeated, disturbed>>
      BY <1>4 DEF noticeVars, told, mails
    <2>2. \A a \in Actor : \A c : Inside(a, c)' <=> Inside(a, c)
      BY <2>1, SameMoves
    <2> QED
      BY <2>1, <2>2 DEF Crowd, OneInside, HostUnmade
  <1> QED
    BY <1>1, <1>2, <1>3, <1>4, OuterKeepsCrowd, NextIs

----------------------------------------------------------------------------
(* Notices: what goes out once.                                            *)

LEMMA MailSteps ==
  ASSUME NoticesTypeOK, SeenFirst, NEW a \in Actor, Acts(a)
  PROVE  \/ UNCHANGED mails
         \/ /\ Note(a) /\ recent' = recent \cup {TextOf(a)} /\ Check(a) # "backup"
            /\ mailed' = mailed \cup {TextOf(a)}
            /\ repeated' = repeated \cup ({TextOf(a)} \cap mailed)
         \/ /\ Note(a) /\ recent' = recent \cup {TextOf(a)} /\ Check(a) = "backup"
            /\ UNCHANGED <<mailed, repeated>>
         \/ /\ Send(a) /\ ~(Check(a) = "report" /\ was[a] = saw[a])
            /\ recent' = recent /\ mailed' = mailed \cup {TextOf(a)}
            /\ repeated' = repeated \cup ({TextOf(a)} \cap mailed)
  <1>1. CASE UNCHANGED mails
    BY <1>1
  <1>2. CASE Look(a) \/ Recall(a) \/ Remember(a) \/ Tell(a) \/ Ask(a) \/ Add(a)
    BY <1>2 DEF Look, Recall, Remember, Tell, Ask, Add, Untold
  <1>3. CASE Note(a)
    BY <1>3 DEF Note, Mails
  <1>4. CASE Send(a)
    BY <1>4 DEF Send, Mails, mails
  <1> QED
    BY <1>1, <1>2, <1>3, <1>4, ActorTakes

(* A text that was mailed is noted, but for those that go by themselves.   *)
NotedAreMailed == \A t \in mailed : t[1] \notin {"report", "backup"} => t \in recent

(* What is about to be noted was not, unless two overlap.                  *)
AtNote(a) == at[a] # None /\ Check(a) # "backup" /\ at[a][2] = Place(Check(a), "note")

NoteIsNew ==
  \A a \in Actor : AtNote(a) /\ Check(a) \notin disturbed => TextOf(a) \notin recent

LEMMA NotePlace ==
  ASSUME NEW c, c # "backup"
  PROVE  /\ Place(c, "note") \in {0, 4, 5, 6}
         /\ c \in {"report", "traffic"} => Place(c, "note") = 0
  BY DEF Place, TellFirst

LEMMA AtNoteIsInside ==
  ASSUME NoticesTypeOK, NEW a \in Actor, AtNote(a)
  PROVE  /\ Inside(a, Check(a)) /\ Check(a) \in Subject
         /\ Check(a) \notin {"report", "traffic", "backup"}
         /\ TextOf(a) = <<Check(a), saw[a]>> /\ saw[a] \in Value
  <1>1. /\ at[a] # None /\ Check(a) \in Subject /\ at[a][2] \in Nat \ {0}
        /\ at[a][2] = Place(Check(a), "note") /\ Check(a) # "backup"
        /\ Does(a, "note")
    BY WhereIs DEF AtNote, StepName, Uses
  <1>2. saw[a] \in Value
    BY <1>1 DEF NoticesTypeOK, Uses
  <1>3. Check(a) \notin {"report", "traffic", "backup"} /\ at[a][2] > 1
    BY <1>1, NotePlace
  <1> QED
    BY <1>1, <1>2, <1>3 DEF Inside, TextOf

LEMMA ActorKeepsNotes ==
  ASSUME NoticesTypeOK, SeenFirst, Crowd, NotedAreMailed, NoteIsNew,
         NEW a \in Actor, Acts(a)
  PROVE  NotedAreMailed' /\ NoteIsNew'
  <1>0. NoticesTypeOK' /\ SeenFirst'
    BY ActorMoves, ActorKeepsData, MovesKeepTypes, TypesAreParts, UsesAreSeen, PTL
  <1>1. NotedAreMailed'
    <2>1. ASSUME Send(a) PROVE TextOf(a)[1] \in {"report", "backup"}
      BY <2>1, SendMoves DEF TextOf
    <2> QED
      BY <2>1, MailSteps DEF NotedAreMailed, mails
  <1>2. ASSUME NEW x \in Actor, AtNote(x)', Check(x)' \notin disturbed'
        PROVE  TextOf(x)' \notin recent'
    <2>1. CASE x # a
      <3>1. /\ Check(x)' = Check(x) /\ at'[x] = at[x] /\ saw'[x] = saw[x]
        BY <2>1, ActorInside
      <3>2. AtNote(x) /\ TextOf(x)' = TextOf(x)
        BY <1>2, <3>1 DEF AtNote, TextOf
      <3>3. Inside(x, Check(x)) /\ Check(x) \in Subject /\ TextOf(x)[1] = Check(x)
            /\ TextOf(x) \in Text
        BY <3>2, AtNoteIsInside DEF Text
      <3>4. Check(x) \notin disturbed /\ Check(x) \notin disturbed'
        BY <1>2, <3>1, ActorDisturbs
      <3>5. TextOf(x) \notin recent
        BY <3>2, <3>4 DEF NoteIsNew
      <3>6. CASE Check(x) # Check(a)
        BY <3>2, <3>3, <3>5, <3>6, ActorLeaves
      <3>7. CASE Check(x) = Check(a)
        <4>1. CASE Note(a)
          <5>1. at[a] # None /\ at[a][2] = Place(Check(a), "note")
            BY <4>1, NoteMoves
          <5>2. AtNote(a)
            BY <5>1, <3>2, <3>7 DEF AtNote
          <5>3. Inside(a, Check(a))
            BY <5>2, AtNoteIsInside
          <5> QED
            BY <2>1, <3>3, <3>4, <3>7, <5>3 DEF Crowd, OneInside
        <4>2. CASE ~Note(a)
          BY <3>2, <3>5, <4>2, MailSteps DEF mails
        <4> QED
          BY <4>1, <4>2
      <3> QED
        BY <3>6, <3>7
    <2>2. CASE x = a
      <3> DEFINE c == Check(a)
      <3>0. /\ at[a] # None /\ c \in Subject /\ at[a][2] \in 1..Length(c)
        BY ActorMoves, WhereIs
      <3>1. /\ at'[a] # None /\ at'[a][2] = Place(Check(a)', "note")
            /\ at'[a][2] > 1 /\ Check(a)' # "backup"
        <4>1. at'[a] # None /\ at'[a][2] = Place(Check(a)', "note") /\ Check(a)' # "backup"
          BY <1>2, <2>2 DEF AtNote
        <4>2. at'[a][2] \in 1..Len(Steps(Check(a)'))
          BY <1>0, <4>1 DEF NoticesTypeOK
        <4>3. at'[a][2] # 0
          BY <4>2
        <4> QED
          BY <4>1, <4>3, NotePlace
      <3>2. ~Quits(a)
        BY <3>0, <3>1, MoverMoves
      <3>3. ASSUME NEW n \in 1..3, NEW v, NEW p, GoesOn(a, n, v, p)
            PROVE  /\ Check(a)' = c /\ at[a][2] + n = Place(c, "note") /\ c # "backup"
                   /\ saw'[a] = v
        BY <3>0, <3>1, <3>3, MoverMoves
      <3>4. ASSUME Due(a), GoesOn(a, 1, saw[a], was[a]), recent' = recent
            PROVE  TextOf(x)' \notin recent'
        <4>1. TextOf(a)' = TextOf(a)
          BY <3>3, <3>4 DEF TextOf
        <4> QED
          BY <2>2, <3>4, <4>1 DEF Due
      <3> HIDE DEF c
      <3>5. CASE Look(a)
        BY <3>0, <3>3, <3>5, LookMoves DEF Place, c
      <3>6. CASE Recall(a)
        BY <3>0, <3>3, <3>6, RecallMoves DEF Place, c
      <3>7. CASE Remember(a)
        BY <3>0, <3>2, <3>3, <3>7, RememberMoves DEF Place, c
      <3>8. CASE Tell(a)
        BY <3>0, <3>2, <3>3, <3>8, TellMoves DEF Place, TellFirst, c
      <3>9. CASE Ask(a)
        <4>1. Due(a)
          BY <3>0, <3>2, <3>3, <3>9, AskMoves DEF Place, TellFirst, c
        <4>2. recent' = recent
          BY <3>9 DEF Ask, Untold, mails
        <4> QED
          BY <3>4, <3>9, <4>1, <4>2, AskMoves
      <3>10. CASE Note(a)
        BY <3>0, <3>2, <3>3, <3>10, NoteMoves DEF Place, TellFirst, c
      <3>11. CASE Send(a)
        BY <3>0, <3>2, <3>3, <3>11, SendMoves DEF Place, TellFirst, c
      <3>12. CASE Add(a)
        BY <3>2, <3>12, AddMoves
      <3> QED
        BY <3>2, <3>5, <3>6, <3>7, <3>8, <3>9, <3>10, <3>11, <3>12, ActorTakes
    <2> QED
      BY <2>1, <2>2
  <1> QED
    BY <1>1, <1>2 DEF NoteIsNew

(* A mailed backup is noted, or about to be, unless two overlap or one was *)
(* cut off; and one that is about to be sent is not noted.                 *)
BackupText == <<"backup", 0>>

BackupNoted ==
  /\ \A t \in mailed : t[1] = "backup" => t = BackupText
  /\ "backup" \notin disturbed =>
       /\ BackupText \in mailed =>
            \/ BackupText \in recent
            \/ \E a \in Actor : Inside(a, "backup") /\ at[a][2] = 3
       /\ \A a \in Actor : Inside(a, "backup") /\ at[a][2] = 2 => BackupText \notin recent

LEMMA ActorKeepsBackup ==
  ASSUME NoticesTypeOK, SeenFirst, Crowd, BackupNoted, NEW a \in Actor, Acts(a)
  PROVE  BackupNoted'
  <1>0. /\ "backup" \in Subject /\ BackupText \in Text
        /\ at[a] # None /\ Check(a) \in Subject /\ at[a][2] \in 1..Length(Check(a))
    BY ActorMoves, WhereIs, ValueIsNat DEF Subject, Text, BackupText
  <1>1. CASE Check(a) # "backup"
    <2>1. /\ "backup" \in disturbed' <=> "backup" \in disturbed
          /\ \A t \in Text : t[1] = "backup" => /\ t \in recent' <=> t \in recent
                                                /\ t \in mailed' <=> t \in mailed
          /\ \A b \in Actor : /\ Inside(b, "backup")' <=> Inside(b, "backup")
                              /\ Inside(b, "backup") => at'[b] = at[b]
      BY <1>0, <1>1, ActorLeaves
    <2>2. mailed' \subseteq Text
      BY ActorKeepsData DEF DataOK
    <2>3. BackupText[1] = "backup"
      BY DEF BackupText
    <2> QED
      BY <1>0, <2>1, <2>2, <2>3 DEF BackupNoted
  <1>2. CASE Check(a) = "backup"
    <2>0. TextOf(a) = BackupText
      BY <1>2 DEF TextOf, BackupText
    <2>1. \A t \in mailed' : t[1] = "backup" => t = BackupText
      BY <2>0, MailSteps DEF BackupNoted, mails
    <2>2. ASSUME "backup" \notin disturbed'
          PROVE  /\ BackupText \in mailed' =>
                      \/ BackupText \in recent'
                      \/ \E b \in Actor : Inside(b, "backup")' /\ at'[b][2] = 3
                 /\ \A b \in Actor : Inside(b, "backup")' /\ at'[b][2] = 2
                                       => BackupText \notin recent'
      <3>0. "backup" \notin disturbed
        BY <2>2, ActorDisturbs
      <3>1. /\ BackupText \in mailed =>
                 \/ BackupText \in recent
                 \/ \E b \in Actor : Inside(b, "backup") /\ at[b][2] = 3
            /\ \A b \in Actor : Inside(b, "backup") /\ at[b][2] = 2
                                  => BackupText \notin recent
        BY <3>0 DEF BackupNoted
      <3>2. ~Quits(a) \/ at[a][2] > 1
              => \A b \in Actor \ {a} : ~Inside(b, "backup") /\ ~Inside(b, "backup")'
        BY <1>2, <2>2, OnlyOne DEF Crowd
      <3>3. \A b \in Actor \ {a} : /\ Inside(b, "backup")' <=> Inside(b, "backup")
                                   /\ at'[b] = at[b]
        BY ActorInside
      <3>4. Inside(a, "backup") <=> at[a][2] > 1
        BY <1>0, <1>2, InsideIs
      <3>5. CASE PassOver(a) \/ LookFails(a) \/ SendFails(a)
        <4>1. Quits(a) /\ ~Inside(a, "backup")' /\ UNCHANGED <<recent, mailed>>
          BY <3>5, EndMoves, ActorInside DEF PassOver, LookFails, SendFails, Untold, mails
        <4>2. at[a][2] # 3
          <5>1. at[a][2] = 1 \/ Does(a, "look") \/ Does(a, "send")
            BY <3>5 DEF PassOver, LookFails, SendFails
          <5>2. at[a][2] = 1 \/ at[a][2] = Place("backup", "look")
                  \/ at[a][2] = Place("backup", "send")
            BY <1>0, <1>2, <5>1, WhereIs DEF StepName, Uses
          <5> QED
            BY <5>2 DEF Place
        <4> QED
          BY <3>1, <3>3, <4>1, <4>2
      <3>6. CASE Ask(a)
        <4>0. at[a][2] = 1 /\ UNCHANGED <<recent, mailed>>
          BY <1>2, <3>6, AskMoves DEF Place, TellFirst, Ask, Untold, mails
        <4>1. CASE Due(a)
          <5>1. GoesOn(a, 1, saw[a], was[a]) /\ BackupText \notin recent
            BY <2>0, <3>6, <4>1, AskMoves DEF Due
          <5>2. ~Quits(a)
            BY <1>0, <1>2, <5>1, MoverMoves, <4>0
          <5>3. BackupText \notin mailed
            BY <3>1, <3>2, <3>4, <4>0, <5>1, <5>2
          <5> QED
            BY <4>0, <5>1, <5>3
        <4>2. CASE ~Due(a)
          <5>1. Quits(a) /\ ~Inside(a, "backup")'
            BY <1>2, <3>6, <4>2, AskMoves, ActorInside DEF TellFirst
          <5> QED
            BY <3>1, <3>3, <3>4, <4>0, <5>1
        <4> QED
          BY <4>1, <4>2
      <3>7. CASE Send(a)
        <4>1. at[a][2] = 2 /\ GoesOn(a, 1, saw[a], was[a])
          BY <1>2, <3>7, SendMoves DEF Place
        <4>2. at'[a][2] = 3 /\ Inside(a, "backup")'
          BY <1>0, <1>2, <4>1, MoverMoves, ActorInside
        <4>3. \A b \in Actor \ {a} : ~Inside(b, "backup")'
          BY <3>2, <4>1
        <4> QED
          BY <4>2, <4>3
      <3>8. CASE Note(a)
        <4>1. at[a][2] = 3 /\ Quits(a)
          BY <1>2, <3>8, NoteMoves DEF Place, TellFirst
        <4>2. \A b \in Actor : ~Inside(b, "backup")'
          BY <3>2, <4>1, ActorInside
        <4>3. BackupText \in recent'
          BY <2>0, <3>8 DEF Note
        <4> QED
          BY <4>2, <4>3
      <3>9. ~Look(a) /\ ~Recall(a) /\ ~Remember(a) /\ ~Tell(a) /\ ~Add(a)
        BY <1>2, LookMoves, RecallMoves, RememberMoves, TellMoves, AddMoves
      <3> QED
        BY <3>5, <3>6, <3>7, <3>8, <3>9, ActorTakes
    <2> QED
      BY <2>1, <2>2 DEF BackupNoted
  <1> QED
    BY <1>1, <1>2

(* A report that was sent is of a month that has been recorded, or is      *)
(* about to be, unless it was cut off or switched meanwhile.               *)
ReportOnce ==
  LET a == "watchdog"
      m == memory["report"]
      in == Inside(a, "report")
  IN  /\ m # None => m <= world["report"]
      /\ in => was[a] = m
      /\ in /\ at[a][2] > 2 =>
           saw[a] \in Value /\ saw[a] <= world["report"] /\ (m # None => m <= saw[a])
      /\ "report" \notin disturbed =>
           \A t \in mailed : t[1] = "report" =>
             \/ m # None /\ t[2] <= m
             \/ in /\ at[a][2] = 4 /\ t[2] <= saw[a]

LEMMA ActorKeepsReport ==
  ASSUME NoticesTypeOK, SeenFirst, Crowd, ReportOnce, NEW a \in Actor, Acts(a)
  PROVE  ReportOnce'
  <1>0. /\ "report" \in Subject /\ "watchdog" \in Actor
        /\ at[a] # None /\ Check(a) \in Subject /\ at[a][2] \in 1..Length(Check(a))
    BY ActorMoves, WhereIs DEF Subject, Actor, Loop
  <1>1. CASE Check(a) # "report"
    <2>1. /\ memory'["report"] = memory["report"] /\ world' = world
          /\ "report" \in disturbed' <=> "report" \in disturbed
          /\ \A t \in Text : t[1] = "report" => (t \in mailed' <=> t \in mailed)
          /\ \A b \in Actor : /\ Inside(b, "report")' <=> Inside(b, "report")
                              /\ Inside(b, "report") => /\ at'[b] = at[b]
                                   /\ saw'[b] = saw[b] /\ was'[b] = was[b]
      BY <1>0, <1>1, ActorLeaves
    <2>2. mailed' \subseteq Text
      BY ActorKeepsData DEF DataOK
    <2> QED
      BY <1>0, <2>1, <2>2 DEF ReportOnce
  <1>2. CASE Check(a) = "report"
    <2> DEFINE m == memory["report"]
               w == world["report"]
    <2>0. /\ a = "watchdog" /\ m \in Known /\ w \in Value /\ Value \subseteq Nat
          /\ None \notin Value /\ at[a][2] \in Nat \ {0}
          /\ Inside(a, "report") <=> at[a][2] > 1
      BY <1>0, <1>2, WhereIs, InsideIs, ValueIsNat DEF NoticesTypeOK
    <2>1. /\ m # None => m <= w
          /\ at[a][2] > 1 => was[a] = m
          /\ at[a][2] > 2 => saw[a] \in Value /\ saw[a] <= w /\ (m # None => m <= saw[a])
          /\ "report" \notin disturbed =>
               \A t \in mailed : t[1] = "report" =>
                 \/ m # None /\ t[2] <= m
                 \/ at[a][2] = 4 /\ t[2] <= saw[a]
      BY <2>0 DEF ReportOnce
    <2>2. disturbed \subseteq disturbed' /\ world' = world
      BY <1>2, ActorDisturbs DEF Acts, Step, PassOver, LookFails, SendFails, Look, Recall,
         Remember, Tell, Ask, Note, Send, Add, Takes, Settled
    <2>3. /\ Quits(a) => ~Inside(a, "report")'
          /\ \A n \in 1..3 : \A v, p : GoesOn(a, n, v, p) =>
               /\ Inside(a, "report")' /\ at'[a][2] = at[a][2] + n
               /\ saw'[a] = v /\ was'[a] = p
      BY <1>0, <1>2, ActorInside, MoverMoves
    <2> HIDE DEF m, w
    <2>4. ASSUME memory'["report"] = m, mailed' = mailed, at[a][2] # 4, Quits(a)
          PROVE  ReportOnce'
      BY <2>0, <2>1, <2>2, <2>3, <2>4 DEF ReportOnce, m, w
    <2>11. ASSUME Inside(a, "report")', memory'["report"] = m, was'[a] = m,
                  at'[a][2] > 2 => saw'[a] \in Value /\ saw'[a] <= w /\ (m # None => m <= saw'[a]),
                  \A t \in mailed' : t[1] = "report" /\ "report" \notin disturbed =>
                     \/ m # None /\ t[2] <= m
                     \/ at'[a][2] = 4 /\ t[2] <= saw'[a]
           PROVE  ReportOnce'
      <3>1. m # None => m <= w
        BY <2>1
      <3>2. "report" \notin disturbed' => "report" \notin disturbed
        BY <2>2
      <3>3. world'["report"] = w
        BY <2>2 DEF w
      <3> QED
        BY <2>0, <2>11, <3>1, <3>2, <3>3 DEF ReportOnce
    <2>5. CASE PassOver(a) \/ LookFails(a) \/ SendFails(a)
      <3>1. Quits(a) /\ memory' = memory /\ mailed' = mailed
        BY <2>5, EndMoves DEF PassOver, LookFails, SendFails, Untold, mails
      <3>2. at[a][2] = 1 \/ Does(a, "look") \/ Does(a, "send")
        BY <2>5 DEF PassOver, LookFails, SendFails
      <3>3. at[a][2] = 1 \/ at[a][2] = Place("report", "look")
              \/ at[a][2] = Place("report", "send")
        BY <1>0, <1>2, <3>2, WhereIs DEF StepName, Uses
      <3>4. at[a][2] # 4
        BY <3>3 DEF Place
      <3> QED
        BY <2>4, <3>1, <3>4 DEF m
    <2>6. CASE Recall(a)
      <3>1. /\ at[a][2] = 1 /\ memory' = memory /\ mailed' = mailed
            /\ GoesOn(a, 1, saw[a], m)
        BY <1>2, <2>0, <2>6, RecallMoves DEF Place, Recall, Untold, mails, Seeds, m
      <3>2. Inside(a, "report")' /\ at'[a][2] = 2 /\ was'[a] = m
        BY <2>3, <3>1
      <3>3. \A t \in mailed : t[1] = "report" /\ "report" \notin disturbed
              => m # None /\ t[2] <= m
        BY <2>1, <3>1
      <3> QED
        BY <2>11, <3>1, <3>2, <3>3 DEF m
    <2>7. CASE Look(a)
      <3>1. /\ at[a][2] = 2 /\ memory' = memory /\ mailed' = mailed
            /\ GoesOn(a, 1, w, was[a])
        BY <1>2, <2>7, LookMoves DEF Place, Look, Untold, mails, w
      <3>2. Inside(a, "report")' /\ at'[a][2] = 3 /\ was'[a] = m /\ saw'[a] = w
        BY <2>1, <2>3, <3>1
      <3>3. \A t \in mailed : t[1] = "report" /\ "report" \notin disturbed
              => m # None /\ t[2] <= m
        BY <2>1, <3>1
      <3>4. w \in Value /\ w <= w /\ (m # None => m <= w)
        BY <2>0, <2>1
      <3> QED
        BY <2>11, <3>1, <3>2, <3>3, <3>4 DEF m
    <2>8. CASE Send(a)
      <3>1. at[a][2] = 3 /\ memory' = memory /\ saw[a] \in Value
        BY <1>2, <2>8, SendMoves DEF Place, Send
      <3>2. CASE was[a] = saw[a]
        BY <1>2, <2>4, <2>8, <3>1, <3>2, SendMoves DEF Send, m
      <3>3. CASE was[a] # saw[a]
        <4>1. GoesOn(a, 1, saw[a], was[a]) /\ mailed' = mailed \cup {TextOf(a)}
          BY <1>2, <2>8, <3>3, SendMoves DEF Send, Mails
        <4>2. /\ Inside(a, "report")' /\ at'[a][2] = 4 /\ was'[a] = m /\ saw'[a] = saw[a]
              /\ TextOf(a)[2] = saw[a] /\ saw[a] <= saw[a]
          <5>1. /\ Inside(a, "report")' /\ at'[a][2] = at[a][2] + 1
                /\ was'[a] = was[a] /\ saw'[a] = saw[a]
            BY <2>3, <4>1
          <5>2. was[a] = m /\ at[a][2] + 1 = 4
            BY <2>1, <3>1
          <5>3. saw[a] \in Nat
            BY <2>0, <3>1
          <5> QED
            BY <1>2, <5>1, <5>2, <5>3 DEF TextOf
        <4>3. saw'[a] \in Value /\ saw'[a] <= w /\ (m # None => m <= saw'[a])
          BY <2>1, <3>1, <4>2
        <4>4. ASSUME NEW t \in mailed', t[1] = "report", "report" \notin disturbed
              PROVE  (m # None /\ t[2] <= m) \/ (at'[a][2] = 4 /\ t[2] <= saw'[a])
          <5>1. CASE t = TextOf(a)
            BY <4>2, <5>1
          <5>2. CASE t \in mailed
            BY <2>1, <3>1, <4>4, <5>2
          <5> QED
            BY <4>1, <5>1, <5>2
        <4> QED
          BY <2>11, <3>1, <4>2, <4>3, <4>4 DEF m
      <3> QED
        BY <3>2, <3>3
    <2>9. CASE Remember(a)
      <3>1. /\ at[a][2] = 4 /\ mailed' = mailed /\ Quits(a) /\ saw[a] \in Value
            /\ memory'["report"] = saw[a]
        BY <1>0, <1>2, <2>9, RememberMoves DEF Place, TellFirst, Remember, Writes, mails,
           NoticesTypeOK
      <3>2. ~Inside(a, "report")'
        BY <2>3, <3>1
      <3>3. ASSUME NEW t \in mailed, t[1] = "report", "report" \notin disturbed
            PROVE  t[2] <= saw[a]
        <4>1. t[2] \in Nat
          BY <2>0 DEF NoticesTypeOK, Text
        <4>2. saw[a] \in Nat
          BY <2>0, <3>1
        <4>3. CASE m # None /\ t[2] <= m
          <5>1. m \in Nat /\ m <= saw[a]
            <6>1. m \in Nat
              BY <2>0, <4>3 DEF Known
            <6>2. m <= saw[a]
              BY <2>1, <3>1, <4>3
            <6> QED
              BY <6>1, <6>2
          <5> QED
            BY <4>1, <4>2, <4>3, <5>1
        <4> QED
          BY <2>1, <3>1, <3>3, <4>3
      <3>4. saw[a] <= w
        BY <2>1, <3>1
      <3>5. /\ "report" \notin disturbed' => "report" \notin disturbed
            /\ world'["report"] = w
        BY <2>2 DEF w
      <3>6. None # saw[a]
        BY <2>0, <3>1
      <3> QED
        BY <2>0, <3>1, <3>2, <3>3, <3>4, <3>5, <3>6 DEF ReportOnce
    <2>10. ~Tell(a) /\ ~Ask(a) /\ ~Note(a) /\ ~Add(a)
      BY <1>2, TellMoves, AskMoves, NoteMoves, AddMoves
    <2> QED
      BY <2>5, <2>6, <2>7, <2>8, <2>9, <2>10, ActorTakes
  <1> QED
    BY <1>1, <1>2

LEMMA ActorKeepsOnce ==
  ASSUME NoticesTypeOK, SeenFirst, Crowd, NotedAreMailed, NoteIsNew, BackupNoted, ReportOnce,
         OncePerPeriod, NEW a \in Actor, Acts(a)
  PROVE  OncePerPeriod'
  <1>0. /\ at[a] # None /\ Check(a) \in Subject /\ at[a][2] \in 1..Length(Check(a))
        /\ Check(a) = "report" => a = "watchdog"
        /\ TextOf(a)[1] = Check(a) /\ disturbed \subseteq disturbed'
    BY ActorMoves, WhereIs, ActorDisturbs DEF TextOf
  <1>1. ASSUME TextOf(a) \in mailed, Check(a) \notin disturbed,
               Note(a) /\ Check(a) # "backup"
        PROVE  FALSE
    <2>1. AtNote(a) /\ Check(a) # "report"
      BY <1>1, NoteMoves DEF AtNote
    <2> QED
      BY <1>0, <1>1, <2>1 DEF NoteIsNew, NotedAreMailed
  <1>2. ASSUME TextOf(a) \in mailed, Check(a) \notin disturbed,
               Send(a), ~(Check(a) = "report" /\ was[a] = saw[a])
        PROVE  FALSE
    <2>1. CASE Check(a) = "backup"
      <3>1. Inside(a, "backup") /\ at[a][2] = 2 /\ TextOf(a) = BackupText
        BY <1>0, <1>2, <2>1, SendMoves, InsideIs DEF Place, TextOf, BackupText
      <3>2. PICK b \in Actor : Inside(b, "backup") /\ at[b][2] = 3
        BY <1>2, <2>1, <3>1 DEF BackupNoted
      <3> QED
        BY <1>0, <1>2, <2>1, <3>1, <3>2 DEF Crowd, OneInside
    <2>2. CASE Check(a) = "report"
      <3>1. /\ Inside(a, "report") /\ at[a][2] = 3 /\ saw[a] \in Value
            /\ TextOf(a) = <<"report", saw[a]>> /\ a = "watchdog"
        BY <1>0, <1>2, <2>2, SendMoves, InsideIs DEF Place, TextOf
      <3>2. /\ was[a] = memory["report"] /\ memory["report"] # None
            /\ memory["report"] <= saw[a] /\ saw[a] <= memory["report"]
        BY <1>2, <2>2, <3>1 DEF ReportOnce
      <3>3. memory["report"] \in Nat /\ saw[a] \in Nat
        BY <3>1, <3>2, ValueIsNat DEF NoticesTypeOK, Known, Subject
      <3> QED
        BY <1>2, <2>2, <3>2, <3>3
    <2> QED
      BY <1>2, <2>1, <2>2, SendMoves
  <1>3. repeated' = repeated \/ repeated' = repeated \cup ({TextOf(a)} \cap mailed)
    BY MailSteps DEF mails
  <1>4. repeated' # repeated => \/ Note(a) /\ Check(a) # "backup"
                                \/ Send(a) /\ ~(Check(a) = "report" /\ was[a] = saw[a])
    BY MailSteps DEF mails
  <1>5. TextOf(a) \in mailed /\ repeated' # repeated => Check(a) \in disturbed
    BY <1>1, <1>2, <1>4
  <1> QED
    BY <1>0, <1>3, <1>5 DEF OncePerPeriod

(* What the inductive invariant says of mails.                             *)
Mailing == NotedAreMailed /\ NoteIsNew /\ BackupNoted /\ ReportOnce /\ OncePerPeriod

(* Changes, settings and the quiet times.                                  *)
LEMMA OuterMails ==
  ASSUME NoticesTypeOK, Outer
  PROVE  /\ \/ disturbed \subseteq disturbed'
            \/ row = "none" /\ disturbed' = disturbed \ {"host"}
         /\ \/ mailed' = mailed /\ recent' = recent
            \/ \E t \in Text : /\ t[1] # "report" /\ mailed' = mailed \ {t}
                               /\ recent' = recent \ {t}
         /\ repeated' = repeated /\ memory'["report"] = memory["report"]
         /\ world'["report"] \in Value /\ world["report"] <= world'["report"]
  <1>1. /\ \/ disturbed \subseteq disturbed'
           \/ row = "none" /\ disturbed' = disturbed \ {"host"}
        /\ \/ mailed' = mailed /\ recent' = recent
           \/ \E t \in Text : /\ t[1] # "report" /\ mailed' = mailed \ {t}
                              /\ recent' = recent \ {t}
        /\ repeated' = repeated
    BY DEF Outer, Change, Expire, AlertsSet, BackupMailSet, ReportSettings,
       MonitorSettings, MonitorCreate, MonitorDelete, Turn, Idle, told, mails
  <1>2. memory'["report"] = memory["report"]
    <2>1. memory' = memory \/ memory' = [memory EXCEPT !["mac"] = 1]
      BY DEF Outer, Change, Expire, AlertsSet, BackupMailSet, ReportSettings,
         MonitorSettings, MonitorCreate, MonitorDelete, Turn, Idle
    <2> QED
      BY <2>1 DEF NoticesTypeOK, Subject
  <1>3. world'["report"] \in Value /\ world["report"] <= world'["report"]
    <2>1. \/ world' = world
          \/ \E c \in Subject, v \in Value :
               /\ world' = [world EXCEPT ![c] = v]
               /\ c = "report" => v = world["report"] + 1
      BY DEF Outer, Change, Expire, AlertsSet, BackupMailSet, ReportSettings,
         MonitorSettings, MonitorCreate, MonitorDelete, Turn, Counts
    <2>2. "report" \in Subject /\ world["report"] \in Value /\ world["report"] \in Nat
      BY ValueIsNat DEF NoticesTypeOK, Subject
    <2> QED
      BY <2>1, <2>2 DEF NoticesTypeOK
  <1> QED
    BY <1>1, <1>2, <1>3

LEMMA OuterKeepsMailing ==
  ASSUME NoticesTypeOK, Crowd, Mailing, Outer
  PROVE  Mailing'
  <1>0. /\ UNCHANGED <<given, at, saw, was>>
        /\ \A b \in Actor : /\ Check(b)' = Check(b) /\ \A c : Inside(b, c)' <=> Inside(b, c)
    BY OuterStays, SameMoves
  <1>1. /\ \/ disturbed \subseteq disturbed'
           \/ row = "none" /\ disturbed' = disturbed \ {"host"}
        /\ \/ mailed' = mailed /\ recent' = recent
           \/ \E t \in Text : /\ t[1] # "report" /\ mailed' = mailed \ {t}
                              /\ recent' = recent \ {t}
        /\ repeated' = repeated /\ memory'["report"] = memory["report"]
        /\ world'["report"] \in Value /\ world["report"] <= world'["report"]
    BY OuterMails
  <1>2. NotedAreMailed'
    BY <1>1 DEF NotedAreMailed, Mailing
  <1>3. NoteIsNew'
    <2> SUFFICES ASSUME NEW b \in Actor, AtNote(b)', Check(b)' \notin disturbed',
                        TextOf(b)' \in recent'
                 PROVE  FALSE
      BY DEF NoteIsNew
    <2>1. AtNote(b) /\ TextOf(b)' = TextOf(b) /\ Check(b) \notin disturbed'
      BY <1>0 DEF AtNote, TextOf
    <2>2. TextOf(b) \in recent
      BY <1>1, <2>1
    <2>3. Check(b) # "host" \/ row # "none"
      BY <2>1, AtNoteIsInside DEF Crowd, HostUnmade
    <2> QED
      BY <1>1, <2>1, <2>2, <2>3 DEF NoteIsNew, Mailing
  <1>4. BackupNoted'
    <2>1. "backup" \notin disturbed' => "backup" \notin disturbed
      BY <1>1
    <2>2. /\ mailed' \subseteq mailed /\ recent' \subseteq recent
          /\ BackupText \in mailed' /\ BackupText \in recent => BackupText \in recent'
      BY <1>1
    <2> QED
      BY <1>0, <2>1, <2>2 DEF BackupNoted, Mailing
  <1>5. ReportOnce'
    <2>1. "report" \notin disturbed' => "report" \notin disturbed
      BY <1>1
    <2>2. mailed' \subseteq mailed
      BY <1>1
    <2>3. /\ memory["report"] \in Known /\ world["report"] \in Nat
          /\ world'["report"] \in Nat /\ Known \subseteq Nat \cup {None} /\ "watchdog" \in Actor
      BY <1>1, ValueIsNat DEF NoticesTypeOK, Subject, Known, Actor, Loop
    <2>4. ReportOnce
      BY DEF Mailing
    <2>5. memory'["report"] # None => memory'["report"] <= world'["report"]
      <3>1. memory["report"] # None =>
              memory["report"] \in Nat /\ memory["report"] <= world["report"]
        BY <2>3, <2>4 DEF ReportOnce
      <3>2. world["report"] <= world'["report"] /\ memory'["report"] = memory["report"]
        BY <1>1
      <3> QED
        BY <2>3, <3>1, <3>2
    <2>6. Inside("watchdog", "report")' /\ at'["watchdog"][2] > 2
            => saw'["watchdog"] <= world'["report"]
      <3>1. Inside("watchdog", "report") /\ at["watchdog"][2] > 2
              => saw["watchdog"] \in Nat /\ saw["watchdog"] <= world["report"]
        BY <2>4, ValueIsNat DEF ReportOnce
      <3>2. world["report"] <= world'["report"]
        BY <1>1
      <3> HIDE DEF Inside
      <3>3. ASSUME NEW x \in Nat, NEW y \in Nat, NEW z \in Nat, x <= y, y <= z PROVE x <= z
        BY <3>3
      <3> QED
        BY <1>0, <2>3, <3>1, <3>2, <3>3
    <2>7. /\ Inside("watchdog", "report")' <=> Inside("watchdog", "report")
          /\ at' = at /\ saw' = saw /\ was' = was
      BY <1>0, <2>3
    <2>8. memory'["report"] = memory["report"]
      BY <1>1
    <2>9. Inside("watchdog", "report")' => was'["watchdog"] = memory'["report"]
      BY <2>4, <2>7, <2>8 DEF ReportOnce
    <2>10. Inside("watchdog", "report")' /\ at'["watchdog"][2] > 2
             => /\ saw'["watchdog"] \in Value
                /\ memory'["report"] # None => memory'["report"] <= saw'["watchdog"]
      BY <2>4, <2>7, <2>8 DEF ReportOnce
    <2>11. "report" \notin disturbed' =>
             \A t \in mailed' : t[1] = "report" =>
               \/ memory'["report"] # None /\ t[2] <= memory'["report"]
               \/ /\ Inside("watchdog", "report")' /\ at'["watchdog"][2] = 4
                  /\ t[2] <= saw'["watchdog"]
      BY <2>1, <2>2, <2>4, <2>7, <2>8 DEF ReportOnce
    <2> QED
      BY <2>5, <2>6, <2>9, <2>10, <2>11 DEF ReportOnce
  <1>6. OncePerPeriod'
    BY <1>1 DEF OncePerPeriod, Mailing, Crowd, HostUnmade
  <1> QED
    BY <1>2, <1>3, <1>4, <1>5, <1>6 DEF Mailing

(* A restart cuts off the checks that are half done.                       *)
LEMMA RestartCuts ==
  ASSUME NoticesTypeOK, Restarts
  PROVE  /\ disturbed \subseteq disturbed'
         /\ \A b \in Actor : HalfDone(b) => Check(b) \in disturbed'
         /\ UNCHANGED <<given, on, row, memory, counted, announced, mails, passed>>
         /\ \A c \in Subject \ {"boot", "traffic"} : world'[c] = world[c]
         /\ \A b \in Actor, c \in Subject : ~Inside(b, c)'
  <1>1. \A b \in Actor, c \in Subject : ~Inside(b, c)'
    BY RestartInside
  <1>2. PICK reboot \in BOOLEAN, v \in Value : Restart(reboot, v)
    BY DEF Restarts
  <1>3. world' = [world EXCEPT !["boot"] = v,
                               !["traffic"] = IF reboot THEN 0 ELSE @]
    BY <1>2 DEF Restart
  <1>4. \A c \in Subject \ {"boot", "traffic"} : world'[c] = world[c]
    BY <1>3 DEF NoticesTypeOK
  <1>5. /\ disturbed' = disturbed \cup {Check(b) : b \in {d \in Actor : HalfDone(d)}}
                          \cup (IF reboot THEN {"traffic"} ELSE {})
        /\ UNCHANGED <<given, on, row, memory, counted, announced, mails, passed>>
    BY <1>2 DEF Restart
  <1> QED
    BY <1>1, <1>4, <1>5

LEMMA HalfDoneMail ==
  ASSUME NoticesTypeOK, NEW b \in Actor
  PROVE  /\ Inside(b, "backup") /\ at[b][2] = 3 => HalfDone(b)
         /\ Inside(b, "report") /\ at[b][2] = 4 => HalfDone(b)
  <1>1. ASSUME Inside(b, "backup"), at[b][2] = 3 PROVE HalfDone(b)
    <2>1. at[b] # None /\ Check(b) = "backup" /\ Place("backup", "note") = 3
      BY <1>1 DEF Inside, Place, TellFirst
    <2>2. Does(b, "note")
      BY <1>1, <2>1, WhereIs DEF StepName, Uses
    <2> QED
      BY <2>1, <2>2 DEF HalfDone
  <1>2. ASSUME Inside(b, "report"), at[b][2] = 4 PROVE HalfDone(b)
    <2>1. at[b] # None /\ Check(b) = "report" /\ Place("report", "remember") = 4
      BY <1>2 DEF Inside, Place, TellFirst
    <2>2. Does(b, "remember")
      BY <1>2, <2>1, WhereIs DEF StepName, Uses
    <2> QED
      BY <2>1, <2>2 DEF HalfDone
  <1> QED
    BY <1>1, <1>2

LEMMA RestartKeepsMailing ==
  ASSUME NoticesTypeOK, Mailing, Restarts
  PROVE  Mailing'
  <1>1. /\ disturbed \subseteq disturbed'
        /\ \A b \in Actor : HalfDone(b) => Check(b) \in disturbed'
        /\ memory' = memory /\ UNCHANGED mails /\ world'["report"] = world["report"]
        /\ \A b \in Actor, c \in Subject : ~Inside(b, c)'
    BY RestartCuts DEF Subject
  <1>2. UNCHANGED <<recent, mailed, repeated>>
    BY <1>1 DEF mails
  <1>3. NotedAreMailed' /\ OncePerPeriod'
    BY <1>1, <1>2 DEF NotedAreMailed, OncePerPeriod, Mailing
  <1>4. NoteIsNew'
    <2>1. \A b \in Actor : at'[b] = None \/ at'[b][2] = 1
      BY RestartIsOutside DEF AllOutside, Outside
    <2>2. ASSUME NEW b \in Actor, AtNote(b)' PROVE FALSE
      <3>1. Place(Check(b)', "note") \in {0, 4, 5, 6}
        BY <2>2, NotePlace DEF AtNote
      <3> QED
        BY <2>1, <2>2, <3>1 DEF AtNote
    <2> QED
      BY <2>2 DEF NoteIsNew
  <1>5. BackupNoted'
    <2>1. "backup" \in Subject
      BY DEF Subject
    <2>2. ASSUME "backup" \notin disturbed', BackupText \in mailed' PROVE BackupText \in recent'
      <3>1. \A b \in Actor : ~(Inside(b, "backup") /\ at[b][2] = 3)
        BY <1>1, <2>2, HalfDoneMail DEF Inside
      <3> QED
        BY <1>1, <1>2, <2>2, <3>1 DEF BackupNoted, Mailing
    <2> QED
      BY <1>1, <1>2, <2>1, <2>2 DEF BackupNoted, Mailing
  <1>6. ReportOnce'
    <2>1. "report" \in Subject /\ "watchdog" \in Actor
      BY DEF Subject, Actor, Loop
    <2>2. ~Inside("watchdog", "report")'
      BY <1>1, <2>1
    <2>3. "report" \notin disturbed' =>
            /\ "report" \notin disturbed
            /\ ~(Inside("watchdog", "report") /\ at["watchdog"][2] = 4)
      BY <1>1, <2>1, HalfDoneMail DEF Inside
    <2>4. ReportOnce
      BY DEF Mailing
    <2> QED
      BY <1>1, <1>2, <2>2, <2>3, <2>4 DEF ReportOnce
  <1> QED
    BY <1>3, <1>4, <1>5, <1>6 DEF Mailing

LEMMA MailingStep ==
  NoticesTypeOK /\ SeenFirst /\ Crowd /\ Mailing /\ [NoticesNext]_noticeVars => Mailing'
  <1> SUFFICES ASSUME NoticesTypeOK, SeenFirst, Crowd, Mailing, [NoticesNext]_noticeVars
               PROVE  Mailing'
    OBVIOUS
  <1>1. ASSUME NEW a \in Actor, Acts(a) PROVE Mailing'
    BY <1>1, ActorKeepsNotes, ActorKeepsBackup, ActorKeepsReport, ActorKeepsOnce DEF Mailing
  <1>2. ASSUME UNCHANGED <<memory, world, recent, mailed, repeated, disturbed, saw, was>>,
               \A b \in Actor : \A c : /\ Inside(b, c)' <=> Inside(b, c)
                                       /\ Inside(b, c) => /\ at'[b] = at[b]
                                                          /\ Check(b)' = Check(b),
               NoticesTypeOK'
        PROVE  Mailing'
    <2>1. NotedAreMailed' /\ OncePerPeriod'
      BY <1>2 DEF NotedAreMailed, OncePerPeriod, Mailing
    <2>2. NoteIsNew'
      <3> SUFFICES ASSUME NEW b \in Actor, AtNote(b)', Check(b)' \notin disturbed'
                   PROVE  TextOf(b)' \notin recent'
        BY DEF NoteIsNew
      <3>1. at'[b] # None /\ at'[b][2] > 1
        <4>1. at'[b] # None /\ at'[b][2] \in Nat \ {0}
          BY <1>2 DEF AtNote, NoticesTypeOK
        <4>2. at'[b][2] \in {0, 4, 5, 6}
          BY NotePlace DEF AtNote
        <4> QED
          BY <4>1, <4>2
      <3>2. Inside(b, Check(b)')
        BY <1>2, <3>1 DEF Inside
      <3>3. AtNote(b) /\ Check(b)' = Check(b) /\ at'[b] = at[b]
        BY <1>2, <3>2 DEF AtNote, Inside
      <3>4. TextOf(b)' = TextOf(b)
        BY <1>2, <3>3 DEF TextOf
      <3> QED
        BY <1>2, <3>3, <3>4 DEF NoteIsNew, Mailing
    <2>3. BackupNoted'
      BY <1>2 DEF BackupNoted, Mailing
    <2>4. ReportOnce'
      <3>1. "watchdog" \in Actor
        BY DEF Actor, Loop
      <3> QED
        BY <1>2, <3>1 DEF ReportOnce, Mailing
    <2> QED
      BY <2>1, <2>2, <2>3, <2>4 DEF Mailing
  <1>3. NoticesTypeOK'
    BY NoticesTypeStep
  <1>4. ASSUME NEW a \in Actor, Begin(a) PROVE Mailing'
    <2>1. UNCHANGED <<memory, world, recent, mailed, repeated, disturbed, saw, was>>
      BY <1>4 DEF Begin, mails
    <2> QED
      BY <1>2, <1>3, <1>4, <2>1, BeginInside
  <1>5. CASE UNCHANGED noticeVars
    <2>1. UNCHANGED <<memory, world, recent, mailed, repeated, disturbed, given, at, saw, was>>
      BY <1>5 DEF noticeVars, mails
    <2> QED
      BY <1>2, <1>3, <2>1, SameMoves
  <1> QED
    BY <1>1, <1>4, <1>5, OuterKeepsMailing, RestartKeepsMailing, NextIs

LEMMA MailingInit == NoticesInit => Mailing
  <1> SUFFICES ASSUME NoticesInit PROVE Mailing
    OBVIOUS
  <1>1. recent = {} /\ mailed = {} /\ repeated = {} /\ memory = [c \in Subject |-> None]
    BY DEF NoticesInit
  <1>2. NoticesTypeOK
    BY NoticesTypeInit
  <1>3. \A b \in Actor : at[b] = None \/ at[b][2] = 1
    BY StartIsOutside DEF NoticesInit, AllOutside, Outside
  <1>4. \A b \in Actor : \A c : ~Inside(b, c)
    BY <1>3 DEF Inside
  <1>5. ReportOnce
    <2>1. "report" \in Subject /\ "watchdog" \in Actor
      BY DEF Subject, Actor, Loop
    <2> QED
      BY <1>1, <1>4, <2>1 DEF ReportOnce
  <1> QED
    BY <1>1, <1>4, <1>5 DEF Mailing, NotedAreMailed, NoteIsNew, BackupNoted, OncePerPeriod

(* alertDue, backupMailDue and report_sent: whatever is watched, called    *)
(* and switched, and wherever restarts, failures and overlapping calls     *)
(* fall, no text goes out twice within its period but those of a check     *)
(* that two actors made at a time or that was cut off between sending and  *)
(* recording.                                                              *)
THEOREM MailedOnce == NoticesSpec => []OncePerPeriod
  <1> DEFINE Inv == NoticesTypeOK /\ SeenFirst /\ Crowd /\ Mailing
  <1>1. NoticesInit => Inv
    BY NoticesTypeInit, CrowdInit, MailingInit
  <1>2. Inv /\ [NoticesNext]_noticeVars => Inv'
    BY NoticesTypeStep, CrowdStep, MailingStep
  <1>3. Inv => OncePerPeriod
    BY DEF Mailing
  <1> QED
    BY <1>1, <1>2, <1>3, PTL DEF NoticesSpec

----------------------------------------------------------------------------
(* Notices: traffic.  At step n of its check (1: not inside), what the     *)
(* report has counted, c, with what it will count of what was seen, v,     *)
(* after what is remembered, m, or was, p, and with what has come since,   *)
(* is at most the traffic t that passed; and it is all of it as long as    *)
(* the counter w went on.                                                  *)
AtMost(n, m, w, v, p, c, t) ==
  /\ m = None => c = 0 /\ t = 0
  /\ n > 1 => v \in Value /\ v <= w
  /\ n = 1 /\ m # None => c + Delta(m, w) <= t
  /\ n \in {2, 3} /\ m # None => c + Delta(m, v) + (w - v) <= t
  /\ n = 3 => p = m
  /\ n = 4 => m = v /\ c + Delta(p, v) + (w - v) <= t

Exactly(n, m, w, v, p, c, t) ==
  m # None =>
    /\ m <= w
    /\ n \in {2, 3} => m <= v
    /\ n < 4 => t = c + (w - m)
    /\ n = 4 => /\ p # None => p <= v
                /\ t = c + (IF p = None THEN 0 ELSE v - p) + (w - m)

LEMMA LookCounts ==
  ASSUME NEW m \in Known, NEW w \in Value, NEW v \in Known, NEW p \in Known,
         NEW q, NEW c \in Nat, NEW t \in Nat
  PROVE  /\ AtMost(1, m, w, v, p, c, t) => AtMost(2, m, w, w, q, c, t)
         /\ Exactly(1, m, w, v, p, c, t) => Exactly(2, m, w, w, q, c, t)
  BY ValueIsNat DEF AtMost, Exactly, Delta, Known

LEMMA RecallCounts ==
  ASSUME NEW m \in Known, NEW w \in Value, NEW v \in Known, NEW p \in Known,
         NEW c \in Nat, NEW t \in Nat
  PROVE  /\ AtMost(2, m, w, v, p, c, t) => AtMost(3, m, w, v, m, c, t)
         /\ Exactly(2, m, w, v, p, c, t) => Exactly(3, m, w, v, m, c, t)
  BY ValueIsNat DEF AtMost, Exactly, Delta, Known

LEMMA RememberCounts ==
  ASSUME NEW m \in Known, NEW w \in Value, NEW v \in Known, NEW p \in Known,
         NEW c \in Nat, NEW t \in Nat,
         AtMost(3, m, w, v, p, c, t),
         NEW u, u = IF p = None THEN w - v ELSE t
  PROVE  /\ u \in Nat /\ AtMost(4, v, w, v, p, c, u)
         /\ Exactly(3, m, w, v, p, c, t) => Exactly(4, v, w, v, p, c, u)
  <1>0. v \in Value /\ p = m
    BY DEF AtMost
  <1>1. v \in Nat /\ w \in Nat /\ v <= w /\ v # None
    BY <1>0, ValueIsNat DEF AtMost
  <1>2. CASE p = None
    <2>1. u = w - v /\ c = 0
      BY <1>1, <1>2 DEF AtMost
    <2> QED
      BY <1>0, <1>1, <1>2, <2>1 DEF AtMost, Exactly, Delta
  <1>3. CASE p # None
    <2>1. u = t /\ m \in Nat
      BY <1>0, <1>1, <1>3, ValueIsNat DEF Known
    <2> QED
      BY <1>0, <1>1, <1>3, <2>1 DEF AtMost, Exactly, Delta
  <1> QED
    BY <1>2, <1>3

LEMMA AddCounts ==
  ASSUME NEW m \in Known, NEW w \in Value, NEW v \in Known, NEW p \in Known,
         NEW c \in Nat, NEW t \in Nat,
         NEW q, NEW r, AtMost(4, m, w, v, p, c, t)
  PROVE  /\ c + Delta(p, v) \in Nat
         /\ AtMost(1, m, w, q, r, c + Delta(p, v), t)
         /\ Exactly(4, m, w, v, p, c, t) => Exactly(1, m, w, q, r, c + Delta(p, v), t)
  <1>0. v \in Value /\ m = v
    BY DEF AtMost
  <1>1. v \in Nat /\ w \in Nat /\ v <= w /\ m # None
    BY <1>0, ValueIsNat DEF AtMost
  <1>2. CASE p = None
    BY <1>0, <1>1, <1>2 DEF AtMost, Exactly, Delta
  <1>3. CASE p # None
    <2>1. p \in Nat
      BY <1>3, ValueIsNat DEF Known
    <2> QED
      BY <1>0, <1>1, <1>3, <2>1 DEF AtMost, Exactly, Delta
  <1> QED
    BY <1>2, <1>3

LEMMA RestartCounts ==
  ASSUME NEW n \in 1..4, NEW m \in Known, NEW w \in Value, NEW v \in Known, NEW p \in Known,
         NEW c \in Nat,
         NEW t \in Nat, NEW q, NEW r, AtMost(n, m, w, v, p, c, t)
  PROVE  /\ AtMost(1, m, w, q, r, c, t) /\ AtMost(1, m, 0, q, r, c, t)
         /\ n # 4 /\ Exactly(n, m, w, v, p, c, t) => Exactly(1, m, w, q, r, c, t)
  <1>0. w \in Nat /\ (m # None => m \in Nat) /\ (p # None => p \in Nat)
        /\ (n > 1 => v \in Nat /\ v <= w /\ v # None)
    BY ValueIsNat DEF AtMost, Known
  <1>1. n # 4 /\ Exactly(n, m, w, v, p, c, t) => Exactly(1, m, w, q, r, c, t)
    BY <1>0 DEF Exactly
  <1>2. CASE m = None
    <2>1. c = 0 /\ t = 0
      BY <1>2 DEF AtMost
    <2>2. AtMost(1, m, w, q, r, c, t)
      BY <1>2, <2>1 DEF AtMost
    <2>3. AtMost(1, m, 0, q, r, c, t)
      BY <1>2, <2>1 DEF AtMost
    <2> QED
      BY <1>1, <2>2, <2>3
  <1>3. CASE m # None
    <2>1. c + Delta(m, w) <= t
      <3>1. CASE n = 1
        BY <1>3, <3>1 DEF AtMost
      <3>2. CASE n \in {2, 3}
        <4>1. c + Delta(m, v) + (w - v) <= t
          BY <1>3, <3>2 DEF AtMost
        <4>2. Delta(m, w) <= Delta(m, v) + (w - v) /\ Delta(m, w) \in Nat /\ Delta(m, v) \in Nat
          BY <1>0, <1>3, <3>2 DEF Delta
        <4> QED
          BY <1>0, <3>2, <4>1, <4>2
      <3>3. CASE n = 4
        <4>1. m = v /\ c + Delta(p, v) + (w - v) <= t
          BY <3>3 DEF AtMost
        <4>2. Delta(m, w) = w - v /\ Delta(p, v) \in Nat
          BY <1>0, <1>3, <3>3, <4>1 DEF Delta
        <4> QED
          BY <1>0, <3>3, <4>1, <4>2
      <3> QED
        BY <3>1, <3>2, <3>3
    <2>2. Delta(m, 0) = 0 /\ Delta(m, w) \in Nat
      BY <1>0, <1>3 DEF Delta
    <2>3. c + Delta(m, 0) <= t
      BY <2>1, <2>2
    <2> QED
      BY <1>1, <1>3, <2>1, <2>3 DEF AtMost
  <1> QED
    BY <1>1, <1>2, <1>3

LEMMA ChangeCounts ==
  ASSUME NEW n \in 1..4, NEW m \in Known, NEW w \in Value, NEW v \in Known, NEW p \in Known,
         NEW c \in Nat,
         NEW t \in Nat, NEW u, u = IF m = None THEN t ELSE t + 1
  PROVE  /\ u \in Nat
         /\ AtMost(n, m, w, v, p, c, t) => AtMost(n, m, w + 1, v, p, c, u)
         /\ Exactly(n, m, w, v, p, c, t) => Exactly(n, m, w + 1, v, p, c, u)
  <1>0. w \in Nat /\ u \in Nat /\ (m # None => m \in Nat) /\ (p # None => p \in Nat)
        /\ Value \subseteq Nat /\ None \notin Value
    BY ValueIsNat DEF Known
  <1>1. \A x \in Value : x <= w => x <= w + 1
    BY <1>0
  <1>2. CASE m = None
    <2>1. u = t
      BY <1>2
    <2>2. AtMost(n, m, w, v, p, c, t) => n # 4
      BY <1>0, <1>2 DEF AtMost
    <2>3. Exactly(n, m, w + 1, v, p, c, u)
      BY <1>2 DEF Exactly
    <2>4. ASSUME AtMost(n, m, w, v, p, c, t) PROVE AtMost(n, m, w + 1, v, p, c, u)
      <3>1. c = 0 /\ u = 0 /\ n # 4
        BY <1>2, <2>1, <2>2, <2>4 DEF AtMost
      <3>2. n > 1 => v \in Value /\ v <= w
        BY <2>4 DEF AtMost
      <3>3. n > 1 => v <= w + 1
        BY <1>1, <3>2
      <3>4. n = 3 => p = m
        BY <2>4 DEF AtMost
      <3> QED
        BY <1>2, <3>1, <3>2, <3>3, <3>4 DEF AtMost
    <2> QED
      BY <1>0, <2>3, <2>4
  <1>3. CASE m # None
    <2>1. u = t + 1 /\ m \in Nat
      BY <1>0, <1>3
    <2>2. Delta(m, w + 1) <= Delta(m, w) + 1 /\ Delta(m, w + 1) \in Nat /\ Delta(m, w) \in Nat
      BY <1>0, <1>3, <2>1 DEF Delta
    <2>3. \A x \in Value : /\ Delta(m, x) \in Nat /\ x \in Nat /\ (w + 1) - x = (w - x) + 1
                           /\ Delta(p, x) \in Nat
      BY <1>0, <1>3, <2>1 DEF Delta
    <2>4. AtMost(n, m, w, v, p, c, t) => AtMost(n, m, w + 1, v, p, c, u)
      <3> SUFFICES ASSUME AtMost(n, m, w, v, p, c, t) PROVE AtMost(n, m, w + 1, v, p, c, u)
        OBVIOUS
      <3>1. n = 1 => c + Delta(m, w + 1) <= u
        BY <1>0, <1>3, <2>1, <2>2 DEF AtMost
      <3>2. n > 1 => v \in Value /\ v <= w + 1
        <4>1. n > 1 => v \in Value /\ v <= w
          BY DEF AtMost
        <4> QED
          BY <1>1, <4>1
      <3>3. n \in {2, 3} => c + Delta(m, v) + ((w + 1) - v) <= u
        <4>1. n \in {2, 3} => c + Delta(m, v) + (w - v) <= t /\ v \in Value
          BY <1>3 DEF AtMost
        <4> QED
          BY <1>0, <2>1, <2>3, <4>1
      <3>4. n = 4 => c + Delta(p, v) + ((w + 1) - v) <= u
        <4>1. n = 4 => c + Delta(p, v) + (w - v) <= t /\ v \in Value
          BY <1>3 DEF AtMost
        <4> QED
          BY <1>0, <2>1, <2>3, <4>1
      <3> QED
        BY <1>3, <3>1, <3>2, <3>3, <3>4 DEF AtMost
    <2>5. Exactly(n, m, w, v, p, c, t) => Exactly(n, m, w + 1, v, p, c, u)
      BY <1>0, <1>3, <2>1 DEF Exactly
    <2> QED
      BY <1>0, <2>4, <2>5
  <1> QED
    BY <1>2, <1>3

(* The step of the check of traffic that is next.                          *)
Phase == IF Inside("watchdog", "traffic") THEN at["watchdog"][2] ELSE 1

Traffic ==
  /\ counted \in Nat /\ passed \in Nat
  /\ AtMost(Phase, memory["traffic"], world["traffic"], saw["watchdog"], was["watchdog"],
            counted, passed)
  /\ "traffic" \notin disturbed =>
       Exactly(Phase, memory["traffic"], world["traffic"], saw["watchdog"],
               was["watchdog"], counted, passed)

LEMMA OutsideCounts ==
  ASSUME NEW m, NEW w, NEW v, NEW p, NEW q, NEW r, NEW c, NEW t
  PROVE  /\ AtMost(1, m, w, v, p, c, t) => AtMost(1, m, w, q, r, c, t)
         /\ Exactly(1, m, w, v, p, c, t) => Exactly(1, m, w, q, r, c, t)
  BY DEF AtMost, Exactly

LEMMA TrafficTypes ==
  ASSUME NoticesTypeOK
  PROVE  /\ "traffic" \in Subject /\ "watchdog" \in Actor
         /\ memory["traffic"] \in Known /\ world["traffic"] \in Value
         /\ saw["watchdog"] \in Known /\ was["watchdog"] \in Known
         /\ Phase \in Nat /\ Phase >= 1
  <1>1. "traffic" \in Subject /\ "watchdog" \in Actor
    BY DEF Subject, Actor, Loop
  <1>2. Inside("watchdog", "traffic") => at["watchdog"][2] \in Nat /\ at["watchdog"][2] > 1
    BY <1>1, WhereIs DEF Inside
  <1> QED
    BY <1>1, <1>2 DEF NoticesTypeOK, Phase

(* Steps that leave the numbers: the check of traffic stays where it is.   *)
LEMMA TrafficStays ==
  ASSUME Traffic, UNCHANGED <<counted, passed>>,
         memory'["traffic"] = memory["traffic"], world'["traffic"] = world["traffic"],
         "traffic" \notin disturbed' => "traffic" \notin disturbed,
         Inside("watchdog", "traffic")' <=> Inside("watchdog", "traffic"),
         Inside("watchdog", "traffic") =>
           /\ at'["watchdog"] = at["watchdog"] /\ saw'["watchdog"] = saw["watchdog"]
           /\ was'["watchdog"] = was["watchdog"]
  PROVE  Traffic'
  <1>1. CASE Inside("watchdog", "traffic")
    BY <1>1 DEF Traffic, Phase
  <1>2. CASE ~Inside("watchdog", "traffic")
    <2>1. Phase = 1 /\ Phase' = 1
      BY <1>2 DEF Phase
    <2> QED
      BY <2>1, OutsideCounts DEF Traffic
  <1> QED
    BY <1>1, <1>2

LEMMA ActorKeepsTraffic ==
  ASSUME NoticesTypeOK, SeenFirst, Traffic, NEW a \in Actor, Acts(a)
  PROVE  Traffic'
  <1>0. /\ at[a] # None /\ Check(a) \in Subject /\ at[a][2] \in 1..Length(Check(a))
        /\ "traffic" \in Subject /\ "watchdog" \in Actor
    BY ActorMoves, WhereIs, TrafficTypes
  <1>1. CASE Check(a) # "traffic"
    <2>1. UNCHANGED <<counted, passed>>
      BY <1>1, ActorTakes, AddMoves DEF Look, Recall, Remember, Tell, Ask, Note, Send, Untold
    <2>2. /\ memory'["traffic"] = memory["traffic"] /\ world' = world
          /\ "traffic" \in disturbed' <=> "traffic" \in disturbed
          /\ \A b \in Actor : /\ Inside(b, "traffic")' <=> Inside(b, "traffic")
                              /\ Inside(b, "traffic") => /\ at'[b] = at[b]
                                   /\ saw'[b] = saw[b] /\ was'[b] = was[b]
      BY <1>0, <1>1, ActorLeaves
    <2> QED
      BY <1>0, <2>1, <2>2, TrafficStays
  <1>2. CASE Check(a) = "traffic"
    <2> DEFINE m == memory["traffic"]
               w == world["traffic"]
               v == saw[a]
               p == was[a]
               n == at[a][2]
    <2>0. /\ a = "watchdog" /\ Phase = n /\ n \in 1..4
          /\ m \in Known /\ w \in Value /\ v \in Known /\ p \in Known
          /\ counted \in Nat /\ passed \in Nat
          /\ AtMost(n, m, w, v, p, counted, passed)
          /\ "traffic" \notin disturbed => Exactly(n, m, w, v, p, counted, passed)
      <3>1. a = "watchdog" /\ n \in 1..4 /\ (Inside(a, "traffic") <=> n > 1)
        BY <1>0, <1>2, WhereIs, InsideIs DEF Length
      <3>2. Phase = n
        BY <3>1 DEF Phase
      <3> QED
        BY <3>1, <3>2, TrafficTypes DEF Traffic
    <2>1. "traffic" \notin disturbed' => "traffic" \notin disturbed
      BY ActorDisturbs
    <2>2. world' = world
      BY DEF Acts, Step, PassOver, LookFails, SendFails, Look, Recall,
         Remember, Tell, Ask, Note, Send, Add, Takes, Settled
    <2>3. Quits(a) => Phase' = 1
      BY <1>2, <2>0, ActorInside DEF Phase
    <2>4. \A q, r : GoesOn(a, 1, q, r) => Phase' = n + 1 /\ saw'[a] = q /\ was'[a] = r
      BY <1>0, <1>2, <2>0, ActorInside, MoverMoves DEF Phase
    <2> HIDE DEF m, w, v, p, n
    <2>5. ASSUME NEW c \in Nat, NEW t \in Nat, counted' = c, passed' = t,
                 AtMost(Phase', memory'["traffic"], w, saw'[a], was'[a], c, t),
                 Exactly(n, m, w, v, p, counted, passed) =>
                   Exactly(Phase', memory'["traffic"], w, saw'[a], was'[a], c, t)
          PROVE  Traffic'
      <3>1. world'["traffic"] = w
        BY <2>2 DEF w
      <3> QED
        BY <2>0, <2>1, <2>5, <3>1 DEF Traffic
    <2>6. CASE PassOver(a) \/ LookFails(a) \/ SendFails(a)
      <3>1. /\ Phase' = 1 /\ memory' = memory /\ UNCHANGED <<counted, passed>>
        BY <2>3, <2>6, EndMoves DEF PassOver, LookFails, SendFails, Untold
      <3>2. n = 1 \/ Does(a, "look") \/ Does(a, "send")
        BY <2>6 DEF PassOver, LookFails, SendFails, n
      <3>3. n = 1 \/ n = Place("traffic", "look") \/ n = Place("traffic", "send")
        BY <1>0, <1>2, <3>2, WhereIs DEF StepName, Uses, n
      <3>4. n = 1
        BY <2>0, <3>3 DEF Place
      <3> QED
        BY <2>0, <2>5, <3>1, <3>4, OutsideCounts DEF m
    <2>7. CASE Look(a)
      <3>1. n = 1 /\ GoesOn(a, 1, w, p) /\ memory' = memory /\ UNCHANGED <<counted, passed>>
        BY <1>2, <2>7, LookMoves DEF Look, Untold, Place, n, w, p
      <3>2. Phase' = 2 /\ saw'[a] = w /\ was'[a] = p
        BY <2>4, <3>1
      <3>3. /\ AtMost(2, m, w, w, p, counted, passed)
            /\ Exactly(1, m, w, v, p, counted, passed) => Exactly(2, m, w, w, p, counted, passed)
        BY <2>0, <3>1, LookCounts
      <3> QED
        BY <2>0, <2>5, <3>1, <3>2, <3>3 DEF m
    <2>8. CASE Recall(a)
      <3>1. n = 2 /\ GoesOn(a, 1, v, m) /\ memory' = memory /\ UNCHANGED <<counted, passed>>
        BY <1>2, <2>0, <2>8, RecallMoves DEF Recall, Untold, Place, Seeds, n, v, m
      <3>2. Phase' = 3 /\ saw'[a] = v /\ was'[a] = m
        BY <2>4, <3>1
      <3>3. /\ AtMost(3, m, w, v, m, counted, passed)
            /\ Exactly(2, m, w, v, p, counted, passed) => Exactly(3, m, w, v, m, counted, passed)
        BY <2>0, <3>1, RecallCounts
      <3> QED
        BY <2>0, <2>5, <3>1, <3>2, <3>3 DEF m
    <2>9. CASE Remember(a)
      <3>1. /\ n = 3 /\ GoesOn(a, 1, v, p) /\ memory'["traffic"] = v /\ counted' = counted
            /\ passed' = IF p = None THEN w - v ELSE passed
        <4>1. n = 3 /\ GoesOn(a, 1, v, p)
          BY <1>2, <2>9, RememberMoves DEF Place, TellFirst, n, v, p
        <4>2. counted' = counted /\ passed' = IF p = None THEN w - v ELSE passed
          BY <1>2, <2>9 DEF Remember, w, v, p
        <4>3. memory' = [memory EXCEPT !["traffic"] = v]
          BY <1>2, <2>9 DEF Remember, Writes, v
        <4> QED
          BY <4>1, <4>2, <4>3, <1>0 DEF NoticesTypeOK
      <3>2. Phase' = 4 /\ saw'[a] = v /\ was'[a] = p
        BY <2>4, <3>1
      <3>3. /\ passed' \in Nat /\ AtMost(4, v, w, v, p, counted, passed')
            /\ Exactly(3, m, w, v, p, counted, passed)
                 => Exactly(4, v, w, v, p, counted, passed')
        BY <2>0, <3>1, RememberCounts
      <3> QED
        BY <2>0, <2>5, <3>1, <3>2, <3>3
    <2>10. CASE Add(a)
      <3>1. /\ n = 4 /\ Quits(a) /\ memory' = memory /\ passed' = passed
            /\ counted' = counted + Delta(p, v)
        BY <2>10, AddMoves DEF Add, n, v, p
      <3>2. Phase' = 1
        BY <2>3, <3>1
      <3>3. /\ counted' \in Nat /\ AtMost(1, m, w, saw'[a], was'[a], counted', passed)
            /\ Exactly(4, m, w, v, p, counted, passed)
                 => Exactly(1, m, w, saw'[a], was'[a], counted', passed)
        BY <2>0, <3>1, AddCounts
      <3> QED
        BY <2>0, <2>5, <3>1, <3>2, <3>3 DEF m
    <2>11. ~Tell(a) /\ ~Ask(a) /\ ~Note(a) /\ ~Send(a)
      BY <1>2, TellMoves, AskMoves, NoteMoves, SendMoves
    <2> QED
      BY <2>6, <2>7, <2>8, <2>9, <2>10, <2>11, ActorTakes
  <1> QED
    BY <1>1, <1>2

LEMMA OuterKeepsTraffic == ASSUME NoticesTypeOK, Traffic, Outer PROVE Traffic'
  <1>0. /\ UNCHANGED <<given, at, saw, was>>
        /\ Inside("watchdog", "traffic")' <=> Inside("watchdog", "traffic")
    BY OuterStays, SameMoves, TrafficTypes
  <1>1. /\ counted' = counted
        /\ memory' = memory \/ memory' = [memory EXCEPT !["mac"] = 1]
        /\ "traffic" \notin disturbed' => "traffic" \notin disturbed
        /\ \/ world' = world /\ passed' = passed
           \/ \E c \in Subject, v \in Value : Change(c, v)
    BY DEF Outer, Change, Expire, AlertsSet, BackupMailSet, ReportSettings, MonitorSettings,
       MonitorCreate, MonitorDelete, Turn, Idle
  <1>2. memory'["traffic"] = memory["traffic"]
    BY <1>1 DEF NoticesTypeOK, Subject
  <1>3. CASE world' = world /\ passed' = passed
    BY <1>0, <1>1, <1>2, <1>3, TrafficStays
  <1>4. ASSUME NEW c \in Subject, NEW v \in Value, Change(c, v) PROVE Traffic'
    <2>1. CASE c # "traffic"
      <3>1. world'["traffic"] = world["traffic"] /\ passed' = passed
        BY <1>4, <2>1 DEF Change, NoticesTypeOK
      <3> QED
        BY <1>0, <1>1, <1>2, <3>1, TrafficStays
    <2>2. CASE c = "traffic"
      <3> DEFINE m == memory["traffic"]
                 w == world["traffic"]
                 s == saw["watchdog"]
                 p == was["watchdog"]
      <3>1. /\ world'["traffic"] = w + 1
            /\ passed' = IF m = None THEN passed ELSE passed + 1
        BY <1>4, <2>2, TrafficTypes DEF Change, Counts, NoticesTypeOK
      <3>2. /\ m \in Known /\ w \in Value /\ s \in Known /\ p \in Known
            /\ Phase \in 1..4 /\ counted \in Nat /\ passed \in Nat
            /\ AtMost(Phase, m, w, s, p, counted, passed)
            /\ "traffic" \notin disturbed => Exactly(Phase, m, w, s, p, counted, passed)
        <4>1. Inside("watchdog", "traffic") => at["watchdog"][2] \in 1..4
          BY TrafficTypes, WhereIs DEF Inside, Length
        <4> QED
          BY <4>1, TrafficTypes DEF Traffic, Phase
      <3>3. Phase' = Phase
        BY <1>0 DEF Phase
      <3> HIDE DEF m, w, s, p
      <3>4. /\ passed' \in Nat /\ AtMost(Phase, m, w + 1, s, p, counted, passed')
            /\ "traffic" \notin disturbed => Exactly(Phase, m, w + 1, s, p, counted, passed')
        BY <3>1, <3>2, ChangeCounts
      <3> QED
        BY <1>0, <1>1, <1>2, <3>1, <3>2, <3>3, <3>4 DEF Traffic, m, s, p
    <2> QED
      BY <2>1, <2>2
  <1> QED
    BY <1>1, <1>3, <1>4

LEMMA RestartKeepsTraffic == ASSUME NoticesTypeOK, Traffic, Restarts PROVE Traffic'
  <1>1. PICK reboot \in BOOLEAN, v \in Value : Restart(reboot, v)
    BY DEF Restarts
  <1>2. /\ \A b \in Actor : HalfDone(b) => Check(b) \in disturbed'
        /\ memory' = memory /\ counted' = counted /\ passed' = passed
        /\ "traffic" \notin disturbed' => "traffic" \notin disturbed
        /\ \A b \in Actor, c \in Subject : ~Inside(b, c)'
    BY RestartCuts
  <1>3. /\ world'["traffic"] = IF reboot THEN 0 ELSE world["traffic"]
        /\ reboot => "traffic" \in disturbed'
    BY <1>1, TrafficTypes DEF Restart, NoticesTypeOK
  <1>4. Phase' = 1
    BY <1>2, TrafficTypes DEF Phase
  <1>5. "traffic" \notin disturbed' => Phase # 4
    <2> SUFFICES ASSUME Phase = 4 PROVE "traffic" \in disturbed'
      OBVIOUS
    <2>1. Inside("watchdog", "traffic") /\ at["watchdog"][2] = 4
      BY DEF Phase
    <2>2. /\ "watchdog" \in Actor /\ at["watchdog"] # None /\ Check("watchdog") = "traffic"
          /\ Place("traffic", "add") = 4
      BY <2>1, TrafficTypes DEF Inside, Place
    <2>3. Does("watchdog", "add")
      BY <2>1, <2>2, WhereIs DEF StepName, Uses
    <2>4. HalfDone("watchdog")
      BY <2>2, <2>3 DEF HalfDone
    <2> QED
      BY <1>2, <2>2, <2>4
  <1> DEFINE m == memory["traffic"]
             w == world["traffic"]
             s == saw["watchdog"]
             p == was["watchdog"]
  <1>6. /\ m \in Known /\ w \in Value /\ s \in Known /\ p \in Known
        /\ Phase \in 1..4 /\ counted \in Nat /\ passed \in Nat
        /\ AtMost(Phase, m, w, s, p, counted, passed)
        /\ "traffic" \notin disturbed => Exactly(Phase, m, w, s, p, counted, passed)
    <2>1. Inside("watchdog", "traffic") => at["watchdog"][2] \in 1..4
      BY TrafficTypes, WhereIs DEF Inside, Length
    <2> QED
      BY <2>1, TrafficTypes DEF Traffic, Phase
  <1> HIDE DEF m, w, s, p
  <1>7. \A q, r : /\ AtMost(1, m, w, q, r, counted, passed)
                  /\ AtMost(1, m, 0, q, r, counted, passed)
                  /\ "traffic" \notin disturbed'
                       => Exactly(1, m, w, q, r, counted, passed)
    BY <1>2, <1>5, <1>6, RestartCounts
  <1> QED
    BY <1>2, <1>3, <1>4, <1>6, <1>7 DEF Traffic, m, w

LEMMA TrafficStep ==
  NoticesTypeOK /\ SeenFirst /\ Traffic /\ [NoticesNext]_noticeVars => Traffic'
  <1> SUFFICES ASSUME NoticesTypeOK, SeenFirst, Traffic, [NoticesNext]_noticeVars
               PROVE  Traffic'
    OBVIOUS
  <1>1. ASSUME NEW a \in Actor, Begin(a) PROVE Traffic'
    <2>1. UNCHANGED <<counted, passed, memory, world, disturbed, saw, was>>
      BY <1>1 DEF Begin
    <2> QED
      BY <1>1, <2>1, BeginInside, TrafficTypes, TrafficStays
  <1>2. CASE UNCHANGED noticeVars
    <2>1. UNCHANGED <<counted, passed, memory, world, disturbed, given, at, saw, was>>
      BY <1>2 DEF noticeVars
    <2> QED
      BY <2>1, SameMoves, TrafficTypes, TrafficStays
  <1> QED
    BY <1>1, <1>2, ActorKeepsTraffic, OuterKeepsTraffic, RestartKeepsTraffic, NextIs

LEMMA TrafficInit == NoticesInit => Traffic
  <1> SUFFICES ASSUME NoticesInit PROVE Traffic
    OBVIOUS
  <1>1. counted = 0 /\ passed = 0 /\ memory = [c \in Subject |-> None]
    BY DEF NoticesInit
  <1>2. \A b \in Actor : at[b] = None \/ at[b][2] = 1
    BY StartIsOutside DEF NoticesInit, AllOutside, Outside
  <1>3. "watchdog" \in Actor /\ memory["traffic"] = None
    BY <1>1, NoticesTypeInit, TrafficTypes
  <1>4. Phase = 1
    BY <1>2, <1>3 DEF Phase, Inside
  <1> QED
    BY <1>1, <1>3, <1>4 DEF Traffic, AtMost, Exactly

LEMMA TrafficSays == NoticesTypeOK /\ Traffic => TrafficIsCounted
  <1> SUFFICES ASSUME NoticesTypeOK, Traffic PROVE TrafficIsCounted
    OBVIOUS
  <1> DEFINE m == memory["traffic"]
             w == world["traffic"]
             s == saw["watchdog"]
             p == was["watchdog"]
  <1>1. /\ m \in Known /\ w \in Value /\ s \in Known /\ p \in Known
        /\ Phase \in 1..4 /\ counted \in Nat /\ passed \in Nat
        /\ AtMost(Phase, m, w, s, p, counted, passed)
        /\ "traffic" \notin disturbed => Exactly(Phase, m, w, s, p, counted, passed)
    <2>1. Inside("watchdog", "traffic") => at["watchdog"][2] \in 1..4
      BY TrafficTypes, WhereIs DEF Inside, Length
    <2> QED
      BY <2>1, TrafficTypes DEF Traffic, Phase
  <1>2. Phase = 4 => Does("watchdog", "add") /\ "watchdog" \in Actor
    <2> SUFFICES ASSUME Phase = 4 PROVE Does("watchdog", "add") /\ "watchdog" \in Actor
      OBVIOUS
    <2>1. Inside("watchdog", "traffic") /\ at["watchdog"][2] = 4
      BY DEF Phase
    <2>2. /\ "watchdog" \in Actor /\ at["watchdog"] # None /\ Check("watchdog") = "traffic"
          /\ Place("traffic", "add") = 4
      BY <2>1, TrafficTypes DEF Inside, Place
    <2> QED
      BY <2>1, <2>2, WhereIs DEF StepName, Uses
  <1> HIDE DEF m, w, s, p
  <1>3. counted <= passed
    <2>1. AtMost(1, m, w, s, p, counted, passed)
      BY <1>1, RestartCounts
    <2>2. CASE m = None
      BY <2>1, <2>2 DEF AtMost
    <2>3. CASE m # None
      <3>1. Delta(m, w) \in Nat /\ counted + Delta(m, w) <= passed
        BY <1>1, <2>1, <2>3, ValueIsNat DEF AtMost, Delta, Known
      <3> QED
        BY <1>1, <3>1
    <2> QED
      BY <2>2, <2>3
  <1>4. ASSUME m # None, "traffic" \notin disturbed, Phase # 4
        PROVE  passed - counted = w - m
    <2>1. Phase < 4 /\ m \in Nat /\ w \in Nat
      BY <1>1, <1>4, ValueIsNat DEF Known
    <2>2. m <= w /\ passed = counted + (w - m)
      BY <1>1, <1>4, <2>1 DEF Exactly
    <2> QED
      BY <1>1, <2>1, <2>2
  <1> QED
    BY <1>2, <1>3, <1>4 DEF TrafficIsCounted, m, w

(* counterDelta and reportSample: wherever restarts of the service and the *)
(* device fall, and however often, the report never counts traffic that    *)
(* was not there; and unless one of them disturbs a sample, it lacks only  *)
(* what has come since the last one.                                       *)
THEOREM TrafficCounted == NoticesSpec => []TrafficIsCounted
  <1> DEFINE Inv == NoticesTypeOK /\ SeenFirst /\ Traffic
  <1>1. NoticesInit => Inv
    BY NoticesTypeInit, TrafficInit
  <1>2. Inv /\ [NoticesNext]_noticeVars => Inv'
    BY NoticesTypeStep, TrafficStep
  <1>3. Inv => TrafficIsCounted
    BY TrafficSays
  <1> QED
    BY <1>1, <1>2, <1>3, PTL DEF NoticesSpec

----------------------------------------------------------------------------
(* Notices: what is told.  How a check stands, at step n of it (1: outside *)
(* it), with the value v seen, p recalled and m remembered, to what was    *)
(* told last, s, and to how the thing has been since, S.                   *)
Recalled(c, m) == IF c = "client" THEN Else0(m) ELSE m

(* Those told first have been told when they are remembered, but for the   *)
(* first state of a site, from which its log starts.                       *)
FollowsFirst(c, n, v, p, m, s, S) ==
  /\ n > 1 => v \in Value
  /\ n > 2 => p = m
  /\ n \in {2, 3} => s = Recalled(c, m) /\ v \in S
  /\ n \in {4, 5} => s = v /\ Notable(c, p, v)
  /\ n = 6 => \/ s = v /\ (c = "site" => p # None)
              \/ c = "site" /\ p = None /\ s = None /\ v \in S

(* The report is sent before its month is recorded.                        *)
FollowsReport(n, v, p, m, s, S) ==
  /\ n > 1 => p = m
  /\ n \in {2, 3} => s = m
  /\ n = 3 => v \in Value /\ v \in S
  /\ n = 4 => s = v /\ v \in Value

(* The others are remembered first; the seeding look has recalled nothing. *)
FollowsLatter(c, seed, n, v, p, m, s, S) ==
  /\ n \in {2, 3} => s = m
  /\ (n = 2 /\ c # "host") \/ n = 3 => v \in Value /\ v \in S
  /\ (n = 2 /\ c = "host") \/ n = 3 => IF seed THEN p = None ELSE p = m
  /\ n = 4 => /\ m = v /\ v \in Value
              /\ IF p = None THEN s = v ELSE s = p /\ v \in S
  /\ n > 4 => s = m

FollowsAt(c, seed, n, v, p, m, s, S) ==
  /\ n = 1 => s = Recalled(c, m)
  /\ c \in TellFirst => FollowsFirst(c, n, v, p, m, s, S)
  /\ c = "report" => FollowsReport(n, v, p, m, s, S)
  /\ c \notin TellFirst \cup {"report"} => FollowsLatter(c, seed, n, v, p, m, s, S)

Follow(c) ==
  c \notin disturbed =>
    /\ (\A a \in Actor : ~Inside(a, c)) => announced[c] = Recalled(c, memory[c])
    /\ \A a \in Actor : Inside(a, c) =>
         FollowsAt(c, Seeds(a), at[a][2], saw[a], was[a], memory[c], announced[c], since[c])

(* The log goes on where it is; a host that was deleted is not watched.    *)
Logging ==
  /\ row = "gone" => "host" \in disturbed
  /\ \A c \in Subject : world[c] \in since[c]
  /\ \A c \in Followed \cap given.checks : Follow(c)

(* What the step of actor a must leave of its check c; and that a notice   *)
(* says something new, and something that was so.                          *)
Kept(a, c) ==
  IF Inside(a, c)'
  THEN FollowsAt(c, Seeds(a)', at'[a][2], saw'[a], was'[a],
                 memory'[c], announced'[c], since'[c])
  ELSE announced'[c] = Recalled(c, memory'[c])

Fresh(c) ==
  \/ UNCHANGED told
  \/ \E v \in Value : Announces(c, v) /\ v # announced[c] /\ v \in since[c]

LEMMA Landing ==
  ASSUME NoticesTypeOK, SeenFirst, NEW a \in Actor, Acts(a), NEW c, c = Check(a)
  PROVE  /\ Quits(a) => ~Inside(a, c)'
         /\ \A n \in 1..3 : \A v, p : GoesOn(a, n, v, p) =>
              /\ Inside(a, c)' /\ at'[a][2] = at[a][2] + n /\ (Seeds(a)' <=> Seeds(a))
              /\ saw'[a] = v /\ was'[a] = p
  <1>1. at[a] # None
    BY ActorMoves
  <1>2. ASSUME NEW n \in 1..3, NEW v, NEW p, GoesOn(a, n, v, p)
        PROVE  /\ Inside(a, c)' /\ at'[a][2] = at[a][2] + n /\ (Seeds(a)' <=> Seeds(a))
               /\ saw'[a] = v /\ was'[a] = p
    BY <1>1, <1>2, ActorInside, MoverMoves DEF Seeds
  <1> QED
    BY <1>2, ActorInside

(* What is told and remembered by the steps that do.                       *)
LEMMA StepTells ==
  ASSUME NoticesTypeOK, NEW a \in Actor, NEW c \in Subject, c = Check(a)
  PROVE  /\ PassOver(a) \/ LookFails(a) \/ SendFails(a) \/ Look(a) \/ Recall(a)
            \/ Ask(a) \/ Note(a) \/ Add(a) => UNCHANGED told /\ memory' = memory
         /\ Tell(a) => /\ memory' = memory
                       /\ IF Notable(c, was[a], saw[a])
                          THEN c = "boot" \/ Announces(c, saw[a])
                          ELSE UNCHANGED told
         /\ Send(a) => /\ memory' = memory
                       /\ c = "report" /\ was[a] # saw[a] => Announces(c, saw[a])
                       /\ c = "report" /\ was[a] = saw[a] => UNCHANGED told
         /\ Remember(a) => /\ memory'[c] = IF Writes(a) THEN saw[a] ELSE memory[c]
                           /\ IF Baseline(a) THEN Announces(c, saw[a]) ELSE UNCHANGED told
         /\ \A v : Announces(c, v) => announced'[c] = v /\ since'[c] = {world[c]}
  <1>1. \A v : Announces(c, v) => announced'[c] = v /\ since'[c] = {world[c]}
    BY DEF Announces, NoticesTypeOK
  <1>2. PassOver(a) \/ LookFails(a) \/ SendFails(a) \/ Look(a) \/ Recall(a)
          \/ Ask(a) \/ Note(a) \/ Add(a) => UNCHANGED told /\ memory' = memory
    BY DEF PassOver, LookFails, SendFails, Look, Recall, Ask, Note, Add, Untold
  <1>3. Tell(a) => /\ memory' = memory
                   /\ IF Notable(c, was[a], saw[a])
                      THEN c = "boot" \/ Announces(c, saw[a])
                      ELSE UNCHANGED told
    BY DEF Tell
  <1>4. Send(a) => /\ memory' = memory
                   /\ c = "report" /\ was[a] # saw[a] => Announces(c, saw[a])
                   /\ c = "report" /\ was[a] = saw[a] => UNCHANGED told
    BY DEF Send
  <1>5. Remember(a) => /\ memory'[c] = IF Writes(a) THEN saw[a] ELSE memory[c]
                       /\ IF Baseline(a) THEN Announces(c, saw[a]) ELSE UNCHANGED told
    BY DEF Remember, NoticesTypeOK
  <1> QED
    BY <1>1, <1>2, <1>3, <1>4, <1>5

(* Only the look at the configuration seeds.                               *)
LEMMA SeedsConfig ==
  ASSUME NoticesTypeOK, NEW a \in Actor, at[a] # None, Seeds(a)
  PROVE  Check(a) = "config"
  <1>1. a = "audit" /\ at[a][1] = 1
    BY DEF Seeds
  <1> QED
    BY <1>1 DEF Check, Checks

LEMMA FirstKept ==
  ASSUME NoticesTypeOK, SeenFirst, NEW a \in Actor, Acts(a), NEW c \in TellFirst, c = Check(a),
         FollowsAt(c, Seeds(a), at[a][2], saw[a], was[a], memory[c], announced[c], since[c]),
         world[c] \in since[c]
  PROVE  Kept(a, c) /\ Fresh(c)
  <1> DEFINE n == at[a][2]
             v == saw[a]
             p == was[a]
             m == memory[c]
             s == announced[c]
             S == since[c]
  <1>0. /\ c \in Subject /\ c \in {"client", "site"} /\ at[a] # None /\ n \in 1..6
        /\ m \in Known /\ p \in Known /\ world[c] \in Value /\ None \notin Value
    BY ActorMoves, WhereIs, ValueIsNat DEF TellFirst, Subject, NoticesTypeOK, Length
  <1>1. /\ n = 1 => s = Recalled(c, m)
        /\ FollowsFirst(c, n, v, p, m, s, S)
    BY DEF FollowsAt
  <1>2. ASSUME NEW k \in 1..3, NEW u, NEW q, GoesOn(a, k, u, q),
               FollowsFirst(c, n + k, u, q, memory'[c], announced'[c], since'[c])
        PROVE  Kept(a, c)
    <2>1. /\ Inside(a, c)' /\ at'[a][2] = n + k /\ n + k # 1
          /\ saw'[a] = u /\ was'[a] = q /\ c # "report"
      BY <1>0, <1>2, Landing
    <2> QED
      BY <1>0, <1>2, <2>1 DEF Kept, FollowsAt
  <1>3. ASSUME Quits(a), announced'[c] = Recalled(c, memory'[c]) PROVE Kept(a, c)
    BY <1>3, Landing DEF Kept
  <1>4. UNCHANGED told => announced'[c] = s /\ since'[c] = S
    BY DEF told
  <1>5. \A u : Announces(c, u) => announced'[c] = u /\ since'[c] = {world[c]}
    BY <1>0, StepTells
  <1> HIDE DEF n, v, p, m, s, S
  <1>6. CASE PassOver(a) \/ LookFails(a) \/ SendFails(a)
    <2>1. n = 1 /\ Quits(a) /\ UNCHANGED told /\ memory' = memory
      <3>1. n = 1 \/ Does(a, "send")
        BY <1>0, <1>6 DEF PassOver, LookFails, SendFails, n
      <3>2. n = 1 \/ n = Place(c, "send")
        BY <1>0, <3>1, WhereIs DEF StepName, Uses, n
      <3> QED
        BY <1>0, <1>6, <3>2, EndMoves, StepTells DEF Place
    <2> QED
      BY <1>1, <1>3, <1>4, <2>1 DEF Fresh, m
  <1>7. CASE Look(a)
    <2>1. n = 1 /\ GoesOn(a, 1, world[c], p) /\ UNCHANGED told /\ memory' = memory
      BY <1>0, <1>7, LookMoves, StepTells DEF Place, n, p
    <2>2. FollowsFirst(c, 2, world[c], p, m, s, S)
      BY <1>0, <1>1, <2>1 DEF FollowsFirst, S
    <2> QED
      BY <1>2, <1>4, <2>1, <2>2 DEF Fresh, m
  <1>8. CASE Recall(a)
    <2>1. n = 2 /\ GoesOn(a, 1, v, m) /\ UNCHANGED told /\ memory' = memory
      <3>1. ~Seeds(a)
        BY <1>0, SeedsConfig
      <3> QED
        BY <1>0, <1>8, <3>1, RecallMoves, StepTells DEF Place, n, v, m
    <2>2. FollowsFirst(c, 3, v, m, m, s, S)
      BY <1>1, <2>1 DEF FollowsFirst
    <2> QED
      BY <1>2, <1>4, <2>1, <2>2 DEF Fresh, m
  <1>9. CASE Tell(a)
    <2>1. /\ n = 3 /\ memory' = memory
          /\ IF Notable(c, p, v) THEN GoesOn(a, 1, v, p) /\ Announces(c, v)
             ELSE GoesOn(a, 3, v, p) /\ UNCHANGED told
      BY <1>0, <1>9, TellMoves, StepTells DEF Place, n, v, p
    <2>2. v \in Value /\ p = m /\ s = Recalled(c, m) /\ v \in S
      BY <1>1, <2>1 DEF FollowsFirst
    <2>3. CASE Notable(c, p, v)
      <3>1. FollowsFirst(c, 4, v, p, m, v, {world[c]})
        BY <2>2, <2>3 DEF FollowsFirst
      <3>2. v # s
        BY <1>0, <2>2, <2>3 DEF Notable, Recalled, Changed
      <3>3. announced'[c] = v /\ since'[c] = {world[c]}
        BY <1>5, <2>1, <2>3
      <3>4. Kept(a, c)
        BY <1>2, <2>1, <2>3, <3>1, <3>3 DEF m
      <3> QED
        BY <2>1, <2>2, <2>3, <3>2, <3>4 DEF Fresh, s, S
    <2>4. CASE ~Notable(c, p, v)
      <3>1. FollowsFirst(c, 6, v, p, m, s, S)
        BY <1>0, <2>2, <2>4 DEF FollowsFirst, Notable, Recalled, Changed
      <3> QED
        BY <1>2, <1>4, <2>1, <2>4, <3>1 DEF Fresh, m
    <2> QED
      BY <2>3, <2>4
  <1>10. CASE Ask(a)
    <2>1. /\ n = 4 /\ UNCHANGED told /\ memory' = memory
          /\ GoesOn(a, 1, v, p) \/ GoesOn(a, 2, v, p)
      BY <1>0, <1>10, AskMoves, StepTells DEF Place, n, v, p
    <2>2. FollowsFirst(c, 5, v, p, m, s, S) /\ FollowsFirst(c, 6, v, p, m, s, S)
      BY <1>0, <1>1, <2>1 DEF FollowsFirst, Notable, Changed
    <2> QED
      BY <1>2, <1>4, <2>1, <2>2 DEF Fresh, m
  <1>11. CASE Note(a)
    <2>1. n = 5 /\ GoesOn(a, 1, v, p) /\ UNCHANGED told /\ memory' = memory
      BY <1>0, <1>11, NoteMoves, StepTells DEF Place, n, v, p
    <2>2. FollowsFirst(c, 6, v, p, m, s, S)
      BY <1>0, <1>1, <2>1 DEF FollowsFirst, Notable, Changed
    <2> QED
      BY <1>2, <1>4, <2>1, <2>2 DEF Fresh, m
  <1>12. CASE Remember(a)
    <2>1. /\ n = 6 /\ Quits(a)
          /\ memory'[c] = IF Writes(a) THEN v ELSE m
          /\ IF Baseline(a) THEN Announces(c, v) ELSE UNCHANGED told
      BY <1>0, <1>12, RememberMoves, StepTells DEF Place, n, v, m
    <2>2. v \in Value /\ p = m /\ v # None
      BY <1>0, <1>1, <2>1 DEF FollowsFirst
    <2>3. \/ s = v /\ (c = "site" => p # None)
          \/ c = "site" /\ p = None /\ s = None /\ v \in S
      BY <1>1, <2>1 DEF FollowsFirst
    <2>4. Baseline(a) <=> c = "site" /\ p = None /\ s = None
      BY <1>0 DEF Baseline, p, s, Followed, TellFirst
    <2>5. Writes(a) <=> c = "client" \/ p # v
      BY <1>0 DEF Writes, p, v
    <2>6. memory'[c] = v
      BY <2>1, <2>2, <2>5
    <2>7. announced'[c] = v
      BY <1>4, <1>5, <2>1, <2>2, <2>3, <2>4
    <2>8. Kept(a, c)
      BY <1>3, <2>1, <2>2, <2>6, <2>7 DEF Recalled, Else0
    <2>9. Fresh(c)
      BY <2>1, <2>2, <2>3, <2>4 DEF Fresh, s, S
    <2> QED
      BY <2>8, <2>9
  <1>13. ~Send(a) /\ ~Add(a)
    BY <1>0, SendMoves, AddMoves
  <1> QED
    BY <1>6, <1>7, <1>8, <1>9, <1>10, <1>11, <1>12, <1>13, ActorTakes

LEMMA ReportKept ==
  ASSUME NoticesTypeOK, SeenFirst, NEW a \in Actor, Acts(a), NEW c, c = "report", c = Check(a),
         FollowsAt(c, Seeds(a), at[a][2], saw[a], was[a], memory[c], announced[c], since[c]),
         world[c] \in since[c]
  PROVE  Kept(a, c) /\ Fresh(c)
  <1> DEFINE n == at[a][2]
             v == saw[a]
             p == was[a]
             m == memory[c]
             s == announced[c]
             S == since[c]
  <1>0. /\ c \in Subject /\ c \notin TellFirst /\ at[a] # None /\ n \in 1..4
        /\ m \in Known /\ p \in Known /\ world[c] \in Value /\ None \notin Value
    BY ActorMoves, WhereIs, ValueIsNat DEF TellFirst, Subject, NoticesTypeOK, Length
  <1>1. /\ n = 1 => s = m
        /\ FollowsReport(n, v, p, m, s, S)
    BY <1>0 DEF FollowsAt, Recalled
  <1>2. ASSUME NEW u, NEW q, GoesOn(a, 1, u, q),
               FollowsReport(n + 1, u, q, memory'[c], announced'[c], since'[c])
        PROVE  Kept(a, c)
    <2>1. /\ Inside(a, c)' /\ at'[a][2] = n + 1 /\ n + 1 # 1
          /\ saw'[a] = u /\ was'[a] = q
      BY <1>0, <1>2, Landing
    <2> QED
      BY <1>0, <1>2, <2>1 DEF Kept, FollowsAt
  <1>3. ASSUME Quits(a), announced'[c] = memory'[c] PROVE Kept(a, c)
    BY <1>3, Landing DEF Kept, Recalled
  <1>4. UNCHANGED told => announced'[c] = s /\ since'[c] = S
    BY DEF told
  <1>5. \A u : Announces(c, u) => announced'[c] = u /\ since'[c] = {world[c]}
    BY <1>0, StepTells
  <1> HIDE DEF n, v, p, m, s, S
  <1>6. CASE PassOver(a) \/ LookFails(a) \/ SendFails(a)
    <2>1. n \in {1, 3} /\ Quits(a) /\ UNCHANGED told /\ memory' = memory
      <3>1. ~LookFails(a)
        BY DEF LookFails
      <3>2. n = 1 \/ Does(a, "send")
        BY <1>6, <3>1 DEF PassOver, SendFails, n
      <3>3. n = 1 \/ n = Place(c, "send")
        BY <1>0, <3>2, WhereIs DEF StepName, Uses, n
      <3> QED
        BY <1>0, <1>6, <3>3, EndMoves, StepTells DEF Place
    <2>2. s = m
      BY <1>1, <2>1 DEF FollowsReport
    <2> QED
      BY <1>3, <1>4, <2>1, <2>2 DEF Fresh, m
  <1>7. CASE Recall(a)
    <2>1. n = 1 /\ GoesOn(a, 1, v, m) /\ UNCHANGED told /\ memory' = memory
      <3>1. ~Seeds(a)
        BY <1>0, SeedsConfig
      <3> QED
        BY <1>0, <1>7, <3>1, RecallMoves, StepTells DEF Place, n, v, m
    <2>2. FollowsReport(2, v, m, m, s, S)
      BY <1>1, <2>1 DEF FollowsReport
    <2> QED
      BY <1>2, <1>4, <2>1, <2>2 DEF Fresh, m
  <1>8. CASE Look(a)
    <2>1. n = 2 /\ GoesOn(a, 1, world[c], p) /\ UNCHANGED told /\ memory' = memory
      BY <1>0, <1>8, LookMoves, StepTells DEF Place, n, p
    <2>2. FollowsReport(3, world[c], p, m, s, S)
      BY <1>0, <1>1, <2>1 DEF FollowsReport, S
    <2> QED
      BY <1>2, <1>4, <2>1, <2>2 DEF Fresh, m
  <1>9. CASE Send(a)
    <2>1. /\ n = 3 /\ memory' = memory
          /\ IF p = v THEN Quits(a) /\ UNCHANGED told ELSE GoesOn(a, 1, v, p) /\ Announces(c, v)
      BY <1>0, <1>9, SendMoves, StepTells DEF Place, n, v, p
    <2>2. v \in Value /\ v \in S /\ p = m /\ s = m
      BY <1>1, <2>1 DEF FollowsReport
    <2>3. CASE p = v
      BY <1>3, <1>4, <2>1, <2>2, <2>3 DEF Fresh, m
    <2>4. CASE p # v
      <3>1. FollowsReport(4, v, p, m, v, {world[c]})
        BY <2>2 DEF FollowsReport
      <3>2. announced'[c] = v /\ since'[c] = {world[c]}
        BY <1>5, <2>1, <2>4
      <3>3. Kept(a, c)
        BY <1>2, <2>1, <2>4, <3>1, <3>2 DEF m
      <3>4. v # s
        BY <2>2, <2>4
      <3> QED
        BY <2>1, <2>2, <2>4, <3>3, <3>4 DEF Fresh, s, S
    <2> QED
      BY <2>3, <2>4
  <1>10. CASE Remember(a)
    <2>1. /\ n = 4 /\ Quits(a)
          /\ memory'[c] = IF Writes(a) THEN v ELSE m
          /\ IF Baseline(a) THEN Announces(c, v) ELSE UNCHANGED told
      BY <1>0, <1>10, RememberMoves, StepTells DEF Place, n, v, m
    <2>2. Writes(a) /\ ~Baseline(a)
      BY DEF Writes, Baseline
    <2>3. s = v
      BY <1>1, <2>1 DEF FollowsReport
    <2> QED
      BY <1>3, <1>4, <2>1, <2>2, <2>3 DEF Fresh
  <1>11. ~Tell(a) /\ ~Ask(a) /\ ~Note(a) /\ ~Add(a)
    BY <1>0, TellMoves, AskMoves, NoteMoves, AddMoves
  <1> QED
    BY <1>6, <1>7, <1>8, <1>9, <1>10, <1>11, ActorTakes

Latter == Followed \ (TellFirst \cup {"report"})

LEMMA LatterKept ==
  ASSUME NoticesTypeOK, SeenFirst, NEW a \in Actor, Acts(a), NEW c \in Latter, c = Check(a),
         FollowsAt(c, Seeds(a), at[a][2], saw[a], was[a], memory[c], announced[c], since[c]),
         world[c] \in since[c], c \notin disturbed',
         c = "host" /\ at[a][2] > 1 => row = "there"
  PROVE  Kept(a, c) /\ Fresh(c)
  <1> DEFINE n == at[a][2]
             v == saw[a]
             p == was[a]
             m == memory[c]
             s == announced[c]
             S == since[c]
  <1>0. /\ c \in Subject /\ c \notin TellFirst /\ at[a] # None /\ n \in 1..6
        /\ c \notin {"client", "report", "backup", "cert", "traffic", "boot", "logins", "scan",
                     "mac", "cgnat", "battery"}
        /\ m \in Known /\ p \in Known /\ world[c] \in Value /\ None \notin Value
    <2>1. /\ c \in Subject /\ c \notin TellFirst
          /\ c \notin {"client", "report", "backup", "cert", "traffic", "boot", "logins",
                       "scan", "mac", "cgnat", "battery"}
      BY DEF TellFirst, Subject, Latter, Followed
    <2>2. at[a] # None /\ n \in 1..Length(c)
      BY ActorMoves, WhereIs
    <2>3. Length(c) = 6
      BY <2>1 DEF Length
    <2> QED
      BY <2>1, <2>2, <2>3, ValueIsNat DEF NoticesTypeOK
  <1>1. /\ n = 1 => s = m
        /\ FollowsLatter(c, Seeds(a), n, v, p, m, s, S)
    BY <1>0 DEF FollowsAt, Recalled
  <1>2. ASSUME NEW u, NEW q, GoesOn(a, 1, u, q),
               FollowsLatter(c, Seeds(a), n + 1, u, q, memory'[c], announced'[c], since'[c])
        PROVE  Kept(a, c)
    <2>1. /\ Inside(a, c)' /\ at'[a][2] = n + 1 /\ n + 1 # 1
          /\ saw'[a] = u /\ was'[a] = q /\ Seeds(a)' = Seeds(a)
      BY <1>0, <1>2, Landing DEF Seeds
    <2> QED
      BY <1>0, <1>2, <2>1 DEF Kept, FollowsAt
  <1>3. ASSUME Quits(a), announced'[c] = memory'[c] PROVE Kept(a, c)
    BY <1>0, <1>3, Landing DEF Kept, Recalled
  <1>4. UNCHANGED told => announced'[c] = s /\ since'[c] = S
    BY DEF told
  <1>5. \A u : Announces(c, u) => announced'[c] = u /\ since'[c] = {world[c]}
    BY <1>0, StepTells
  <1> HIDE DEF n, v, p, m, s, S
  <1>6. CASE PassOver(a) \/ LookFails(a) \/ SendFails(a)
    <2>1. n = 1 /\ Quits(a) /\ UNCHANGED told /\ memory' = memory
      <3>1. n = 1 \/ (Does(a, "look") /\ c # "host") \/ Does(a, "send")
        BY <1>6 DEF PassOver, LookFails, SendFails, n
      <3>2. n = 1 \/ (n = Place(c, "look") /\ c # "host") \/ n = Place(c, "send")
        BY <1>0, <3>1, WhereIs DEF StepName, Uses, n
      <3> QED
        BY <1>0, <1>6, <3>2, EndMoves, StepTells DEF Place
    <2> QED
      BY <1>1, <1>3, <1>4, <2>1 DEF Fresh, m
  <1>7. CASE Look(a)
    <2>1. /\ n = IF c = "host" THEN 2 ELSE 1
          /\ GoesOn(a, 1, world[c], p) /\ UNCHANGED told /\ memory' = memory
      BY <1>0, <1>7, LookMoves, StepTells DEF Place, n, p
    <2>2. FollowsLatter(c, Seeds(a), n + 1, world[c], p, m, s, S)
      BY <1>0, <1>1, <2>1 DEF FollowsLatter, S
    <2> QED
      BY <1>2, <1>4, <2>1, <2>2 DEF Fresh, m
  <1>8. CASE Recall(a)
    <2>1. /\ n = IF c = "host" THEN 1 ELSE 2
          /\ GoesOn(a, 1, v, IF Seeds(a) THEN None ELSE m) /\ UNCHANGED told /\ memory' = memory
      BY <1>0, <1>8, RecallMoves, StepTells DEF Place, n, v, m
    <2>2. FollowsLatter(c, Seeds(a), n + 1, v, IF Seeds(a) THEN None ELSE m, m, s, S)
      BY <1>0, <1>1, <2>1 DEF FollowsLatter
    <2> QED
      BY <1>2, <1>4, <2>1, <2>2 DEF Fresh, m
  <1>9. CASE Remember(a)
    <2>1. /\ n = 3 /\ GoesOn(a, 1, v, p)
          /\ memory'[c] = IF Writes(a) THEN v ELSE m
          /\ IF Baseline(a) THEN Announces(c, v) ELSE UNCHANGED told
      BY <1>0, <1>9, RememberMoves, StepTells DEF Place, n, v, p, m
    <2>2. /\ v \in Value /\ v \in S /\ s = m /\ v # None
          /\ IF Seeds(a) THEN p = None ELSE p = m
      BY <1>0, <1>1, <2>1 DEF FollowsLatter
    <2>3. Writes(a) <=> p # v
      BY <1>0, <2>1 DEF Writes, p, v, n
    <2>4. Baseline(a) <=> p = None /\ s = None
      BY <1>0 DEF Baseline, p, s, Latter
    <2>5. Seeds(a) => m \in {None, v}
      <3>1. disturbed' = disturbed \cup (IF Meets(a) \/ Swallows(a) THEN {Check(a)} ELSE {})
        BY <1>9 DEF Remember, Takes
      <3>2. ~Swallows(a)
        BY <3>1
      <3>3. Seeds(a) => c = "config"
        BY <1>0, SeedsConfig
      <3> QED
        BY <1>9, <3>2, <3>3 DEF Swallows, Remember, Takes, m, v
    <2>6. memory'[c] = v
      BY <2>1, <2>2, <2>3
    <2>7. IF p = None THEN announced'[c] = v ELSE announced'[c] = p /\ v \in since'[c]
      <3>1. CASE Baseline(a)
        BY <1>5, <2>1, <2>4, <3>1
      <3>2. CASE ~Baseline(a)
        BY <1>4, <2>1, <2>2, <2>4, <2>5, <3>2
      <3> QED
        BY <3>1, <3>2
    <2>8. FollowsLatter(c, Seeds(a), 4, v, p, memory'[c], announced'[c], since'[c])
      BY <2>2, <2>6, <2>7 DEF FollowsLatter
    <2>9. Fresh(c)
      BY <2>1, <2>2, <2>4 DEF Fresh, s, S
    <2> QED
      BY <1>2, <2>1, <2>8, <2>9
  <1>10. CASE Tell(a)
    <2>1. /\ n = 4 /\ memory' = memory
          /\ IF Changed(p, v) THEN GoesOn(a, 1, v, p) /\ Announces(c, v)
             ELSE Quits(a) /\ UNCHANGED told
      <3>1. Notable(c, p, v) <=> Changed(p, v)
        BY <1>0 DEF Notable
      <3> QED
        BY <1>0, <1>10, <3>1, TellMoves, StepTells DEF Place, n, v, p
    <2>2. /\ m = v /\ v \in Value
          /\ IF p = None THEN s = v ELSE s = p /\ v \in S
      BY <1>1, <2>1 DEF FollowsLatter
    <2>3. CASE Changed(p, v)
      <3>1. announced'[c] = v /\ since'[c] = {world[c]}
        BY <1>5, <2>1, <2>3
      <3>2. FollowsLatter(c, Seeds(a), 5, v, p, m, v, {world[c]})
        BY <2>2 DEF FollowsLatter
      <3>3. Kept(a, c)
        BY <1>2, <2>1, <2>3, <3>1, <3>2 DEF m
      <3>4. v # s /\ v \in S
        BY <2>2, <2>3 DEF Changed
      <3> QED
        BY <2>1, <2>2, <2>3, <3>3, <3>4 DEF Fresh, s, S
    <2>4. CASE ~Changed(p, v)
      BY <1>3, <1>4, <2>1, <2>2, <2>4 DEF Fresh, Changed, m
    <2> QED
      BY <2>3, <2>4
  <1>11. CASE Ask(a)
    <2>1. /\ n = 5 /\ UNCHANGED told /\ memory' = memory
          /\ GoesOn(a, 1, v, p) \/ Quits(a)
      BY <1>0, <1>11, AskMoves, StepTells DEF Place, n, v, p
    <2>2. s = m /\ FollowsLatter(c, Seeds(a), 6, v, p, m, s, S)
      BY <1>1, <2>1 DEF FollowsLatter
    <2> QED
      BY <1>2, <1>3, <1>4, <2>1, <2>2 DEF Fresh, m
  <1>12. CASE Note(a)
    <2>1. n = 6 /\ UNCHANGED told /\ memory' = memory /\ Quits(a)
      BY <1>0, <1>12, NoteMoves, StepTells DEF Place, n
    <2>2. s = m
      BY <1>1, <2>1 DEF FollowsLatter
    <2> QED
      BY <1>3, <1>4, <2>1, <2>2 DEF Fresh, m
  <1>13. ~Send(a) /\ ~Add(a)
    BY <1>0, SendMoves, AddMoves
  <1> QED
    BY <1>6, <1>7, <1>8, <1>9, <1>10, <1>11, <1>12, <1>13, ActorTakes

(* The first step of a check tells and remembers nothing.                  *)
LEMMA FirstStepTells ==
  ASSUME NoticesTypeOK, SeenFirst, NEW a \in Actor, Acts(a), at[a][2] = 1
  PROVE  UNCHANGED told /\ memory' = memory
  <1>1. at[a] # None /\ Check(a) \in Subject
    BY ActorMoves, WhereIs
  <1>2. ~Tell(a) /\ ~Send(a) /\ ~Remember(a)
    BY TellMoves, SendMoves, RememberMoves DEF Place
  <1> QED
    BY <1>1, <1>2, StepTells DEF Acts, Step

LEMMA ActorFollows ==
  ASSUME NoticesTypeOK, SeenFirst, Crowd, Logging, NEW a \in Actor, Acts(a),
         NEW c \in Followed, c = Check(a), c \notin disturbed'
  PROVE  Follow(c)' /\ Fresh(c)
  <1>0. /\ at[a] # None /\ c \in Subject \cap given.checks /\ at[a][2] \in Nat \ {0}
        /\ c \notin disturbed /\ Follow(c) /\ world[c] \in since[c]
        /\ \A b \in Actor : Inside(b, c) <=> at[b] # None /\ Check(b) = c /\ at[b][2] > 1
        /\ \A b \in Actor \ {a} : /\ Inside(b, c)' <=> Inside(b, c)
                                  /\ at'[b] = at[b] /\ saw'[b] = saw[b] /\ was'[b] = was[b]
    <2>1. at[a] # None /\ c \in Subject \cap given.checks /\ at[a][2] \in Nat \ {0}
      BY ActorMoves, WhereIs
    <2>2. c \notin disturbed
      BY ActorDisturbs
    <2>3. \A b \in Actor \ {a} : /\ Inside(b, c)' <=> Inside(b, c)
                                 /\ at'[b] = at[b] /\ saw'[b] = saw[b] /\ was'[b] = was[b]
      BY ActorInside
    <2> QED
      BY <2>1, <2>2, <2>3, InsideIs DEF Logging
  <1>1. CASE Quits(a) /\ at[a][2] = 1
    <2>1. UNCHANGED told /\ memory' = memory
      BY <1>1, FirstStepTells
    <2>2. ~Inside(a, c) /\ ~Inside(a, c)'
      BY <1>0, <1>1, ActorInside
    <2>3. \A b \in Actor : /\ Inside(b, c)' <=> Inside(b, c)
                           /\ Inside(b, c) => /\ at'[b] = at[b] /\ saw'[b] = saw[b]
                                              /\ was'[b] = was[b] /\ Seeds(b)' = Seeds(b)
      BY <1>0, <2>2 DEF Seeds
    <2>4. announced' = announced /\ since' = since
      BY <2>1 DEF told
    <2>5. Follow(c)'
      BY <1>0, <2>1, <2>3, <2>4 DEF Follow
    <2> QED
      BY <2>1, <2>5 DEF Fresh
  <1>2. CASE ~(Quits(a) /\ at[a][2] = 1)
    <2>1. \A b \in Actor \ {a} : ~Inside(b, c) /\ ~Inside(b, c)'
      BY <1>0, <1>2, OnlyOne DEF Crowd
    <2>2. FollowsAt(c, Seeds(a), at[a][2], saw[a], was[a], memory[c], announced[c], since[c])
      <3>1. CASE at[a][2] > 1
        BY <1>0, <3>1 DEF Follow
      <3>2. CASE at[a][2] = 1
        <4>1. announced[c] = Recalled(c, memory[c])
          BY <1>0, <2>1, <3>2 DEF Follow
        <4> QED
          BY <3>2, <4>1 DEF FollowsAt, FollowsFirst, FollowsReport, FollowsLatter
      <3> QED
        BY <1>0, <3>1, <3>2
    <2>3. Kept(a, c) /\ Fresh(c)
      <3>1. CASE c \in TellFirst
        BY <1>0, <2>2, <3>1, FirstKept
      <3>2. CASE c = "report"
        BY <1>0, <2>2, <3>2, ReportKept
      <3>3. CASE c \in Latter
        <4>1. c = "host" /\ at[a][2] > 1 => row = "there"
          BY <1>0 DEF Crowd, HostUnmade, Logging, NoticesTypeOK
        <4> QED
          BY <1>0, <2>2, <3>3, <4>1, LatterKept
      <3> QED
        BY <3>1, <3>2, <3>3 DEF Latter
    <2>4. Follow(c)'
      <3>1. CASE Inside(a, c)'
        BY <2>1, <2>3, <3>1 DEF Follow, Kept
      <3>2. CASE ~Inside(a, c)'
        BY <2>1, <2>3, <3>2 DEF Follow, Kept
      <3> QED
        BY <3>1, <3>2
    <2> QED
      BY <2>3, <2>4
  <1> QED
    BY <1>1, <1>2

LEMMA ActorAnnounces ==
  ASSUME NoticesTypeOK, SeenFirst, NEW a \in Actor, Acts(a), NEW c, c = Check(a)
  PROVE  /\ c \in Subject /\ world' = world /\ row' = row /\ given' = given
         /\ UNCHANGED told \/ \E v \in Nat : Announces(c, v) /\ (c \in Followed => v \in Value)
  <1>1. at[a] # None /\ c \in Subject
    BY ActorMoves, WhereIs
  <1>2. world' = world /\ row' = row /\ given' = given
    BY DEF Acts, Step, PassOver, LookFails, SendFails, Look, Recall,
       Remember, Tell, Ask, Note, Send, Add, Takes, Settled
  <1>3. CASE Tell(a)
    <2>1. saw[a] \in Value /\ boots \in Nat /\ "boot" \notin Followed
      BY <1>3, TellMoves DEF NoticesTypeOK, Followed, TellFirst
    <2>2. UNCHANGED told \/ Announces(c, IF c = "boot" THEN boots ELSE saw[a])
      BY <1>3 DEF Tell
    <2> QED
      BY <1>1, <1>2, <2>1, <2>2, ValueIsNat
  <1>4. CASE Remember(a)
    <2>1. saw[a] \in Value
      BY <1>4, RememberMoves
    <2> QED
      BY <1>1, <1>2, <1>4, <2>1, StepTells, ValueIsNat
  <1>5. CASE Send(a)
    <2>1. c = "report" => saw[a] \in Value
      BY <1>5, SendMoves
    <2>2. c # "report" => UNCHANGED told
      BY <1>5 DEF Send
    <2> QED
      BY <1>1, <1>2, <1>5, <2>1, <2>2, StepTells, ValueIsNat
  <1>6. CASE ~Tell(a) /\ ~Remember(a) /\ ~Send(a)
    BY <1>1, <1>2, <1>6, StepTells DEF Acts, Step
  <1> QED
    BY <1>3, <1>4, <1>5, <1>6

LEMMA ActorKeepsLogging ==
  ASSUME NoticesTypeOK, SeenFirst, Crowd, Logging, NEW a \in Actor, Acts(a)
  PROVE  Logging'
  <1>1. /\ Check(a) \in Subject /\ world' = world /\ row' = row /\ given' = given
        /\ UNCHANGED told \/ \E v \in Nat : Announces(Check(a), v)
    BY ActorAnnounces
  <1>2. disturbed \subseteq disturbed'
    BY ActorDisturbs
  <1>3. \A d \in Subject : world'[d] \in since'[d]
    <2> SUFFICES ASSUME NEW d \in Subject PROVE world'[d] \in since'[d]
      OBVIOUS
    <2>1. CASE UNCHANGED told
      BY <1>1, <2>1 DEF told, Logging
    <2>2. CASE \E v \in Nat : Announces(Check(a), v)
      BY <1>1, <2>2 DEF Announces, Logging, NoticesTypeOK
    <2> QED
      BY <1>1, <2>1, <2>2
  <1>4. ASSUME NEW c \in Followed \cap given.checks PROVE Follow(c)'
    <2>1. CASE c = Check(a)
      <3>1. CASE c \notin disturbed'
        BY <2>1, <3>1, ActorFollows
      <3>2. CASE c \in disturbed'
        BY <3>2 DEF Follow
      <3> QED
        BY <3>1, <3>2
    <2>2. CASE c # Check(a)
      <3>0. c \in Subject
        BY DEF Followed, TellFirst, Subject
      <3>1. /\ memory'[c] = memory[c] /\ announced'[c] = announced[c] /\ since'[c] = since[c]
            /\ c \in disturbed' <=> c \in disturbed
            /\ \A b \in Actor : /\ Inside(b, c)' <=> Inside(b, c)
                                /\ Inside(b, c) => /\ at'[b] = at[b] /\ saw'[b] = saw[b]
                                                   /\ was'[b] = was[b]
        BY <2>2, <3>0, ActorLeaves
      <3>2. \A b \in Actor : Inside(b, c) => Seeds(b)' = Seeds(b)
        BY <3>1 DEF Seeds
      <3>3. Follow(c)
        BY DEF Logging
      <3> QED
        BY <3>1, <3>2, <3>3 DEF Follow
    <2> QED
      BY <2>1, <2>2
  <1> QED
    BY <1>1, <1>2, <1>3, <1>4 DEF Logging

LEMMA MoreSince ==
  ASSUME NEW c, NEW seed, NEW n, NEW v, NEW p, NEW m, NEW s, NEW S, NEW T, S \subseteq T,
         FollowsAt(c, seed, n, v, p, m, s, S)
  PROVE  FollowsAt(c, seed, n, v, p, m, s, T)
  <1>1. c \in TellFirst => FollowsFirst(c, n, v, p, m, s, T)
    BY DEF FollowsAt, FollowsFirst
  <1>2. c = "report" => FollowsReport(n, v, p, m, s, T)
    BY DEF FollowsAt, FollowsReport
  <1>3. c \notin TellFirst \cup {"report"} => FollowsLatter(c, seed, n, v, p, m, s, T)
    BY DEF FollowsAt, FollowsLatter
  <1> QED
    BY <1>1, <1>2, <1>3 DEF FollowsAt

(* Steps that leave the checks where they are, and the log as it is.       *)
LEMMA FollowStays ==
  ASSUME NEW c, Follow(c), c \notin disturbed' => c \notin disturbed,
         memory'[c] = memory[c], announced'[c] = announced[c], since[c] \subseteq since'[c],
         saw' = saw, was' = was,
         \A b \in Actor : /\ Inside(b, c)' <=> Inside(b, c)
                          /\ Inside(b, c) => at'[b] = at[b]
  PROVE  Follow(c)'
  <1>1. \A b \in Actor : Inside(b, c) => Seeds(b)' = Seeds(b)
    BY DEF Seeds
  <1>2. ASSUME NEW b \in Actor, Inside(b, c), c \notin disturbed
        PROVE  FollowsAt(c, Seeds(b)', at'[b][2], saw'[b], was'[b],
                         memory'[c], announced'[c], since'[c])
    <2>1. FollowsAt(c, Seeds(b), at[b][2], saw[b], was[b], memory[c], announced[c], since[c])
      BY <1>2 DEF Follow
    <2>2. FollowsAt(c, Seeds(b), at[b][2], saw[b], was[b], memory[c], announced[c], since'[c])
      BY <2>1, MoreSince
    <2> QED
      BY <1>1, <1>2, <2>2
  <1> QED
    BY <1>2 DEF Follow

LEMMA OuterSince ==
  ASSUME NoticesTypeOK, Outer
  PROVE  /\ announced' = announced
         /\ \/ world' = world /\ since' = since
            \/ \E c \in Subject, v \in Value : /\ world' = [world EXCEPT ![c] = v]
                                               /\ since' = [since EXCEPT ![c] = @ \cup {v}]
  BY DEF Outer, Change, Expire, AlertsSet, BackupMailSet, ReportSettings, MonitorSettings,
     MonitorCreate, MonitorDelete, Turn, Idle, told

LEMMA OuterKeepsLogging == ASSUME NoticesTypeOK, Crowd, Logging, Outer PROVE Logging'
  <1>1. /\ UNCHANGED <<given, at, saw, was>>
        /\ \A b \in Actor : \A c : Inside(b, c)' <=> Inside(b, c)
    BY OuterStays, SameMoves
  <1>2. /\ memory' = memory \/ memory' = [memory EXCEPT !["mac"] = 1]
        /\ \/ /\ disturbed \subseteq disturbed'
              /\ (row' = "gone" => row = "gone" \/ "host" \in disturbed')
           \/ row = "none" /\ row' = "there" /\ disturbed' = disturbed \ {"host"}
    BY DEF Outer, Change, Expire, AlertsSet, BackupMailSet, ReportSettings, MonitorSettings,
       MonitorCreate, MonitorDelete, Turn, Idle
  <1>3. \A d \in Subject : since[d] \subseteq since'[d] /\ world'[d] \in since'[d]
    BY OuterSince DEF Logging, NoticesTypeOK
  <1>4. row' = "gone" => "host" \in disturbed'
    BY <1>2 DEF Logging
  <1>5. ASSUME NEW c \in Followed \cap given.checks PROVE Follow(c)'
    <2>1. c \in Subject /\ c # "mac" /\ Follow(c)
      BY DEF Followed, TellFirst, Subject, Logging
    <2>2. /\ memory'[c] = memory[c] /\ announced'[c] = announced[c]
          /\ since[c] \subseteq since'[c]
      BY <1>2, <1>3, <2>1, OuterSince DEF NoticesTypeOK
    <2>3. CASE c \notin disturbed' => c \notin disturbed
      BY <1>1, <2>1, <2>2, <2>3, FollowStays
    <2>4. CASE c = "host" /\ row = "none"
      <3>1. \A b \in Actor : ~Inside(b, c)'
        BY <1>1, <2>4 DEF Crowd, HostUnmade
      <3>2. announced'[c] = Recalled(c, memory'[c])
        BY <2>2, <2>4 DEF Crowd, HostUnmade, Recalled
      <3> QED
        BY <3>1, <3>2 DEF Follow
    <2> QED
      BY <1>2, <2>3, <2>4
  <1> QED
    BY <1>1, <1>3, <1>4, <1>5 DEF Logging

(* A check that is cut off, but not half done, leaves the log as the       *)
(* memory has it.                                                          *)
LEMMA CutOff ==
  ASSUME NoticesTypeOK, NEW a \in Actor, NEW c \in Followed, Inside(a, c), ~HalfDone(a),
         FollowsAt(c, Seeds(a), at[a][2], saw[a], was[a], memory[c], announced[c], since[c])
  PROVE  announced[c] = Recalled(c, memory[c])
  <1> DEFINE n == at[a][2]
             v == saw[a]
             p == was[a]
             m == memory[c]
             s == announced[c]
             S == since[c]
  <1>0. /\ at[a] # None /\ Check(a) = c /\ c \in Subject /\ n > 1 /\ n \in 1..Length(c)
        /\ m \in Known /\ p \in Known /\ None \notin Value
        /\ c \notin {"traffic", "backup", "cert", "boot", "logins", "scan", "mac", "cgnat",
                     "battery"}
    BY WhereIs, ValueIsNat DEF Inside, Followed, TellFirst, Subject, NoticesTypeOK
  <1>1. \A act \in StepName : Does(a, act) <=> n = Place(c, act)
    BY <1>0, WhereIs
  <1>2. CASE c \in TellFirst
    <2>0. c \in {"client", "site"} /\ n \in 2..6
      BY <1>0, <1>2 DEF TellFirst, Length
    <2>1. FollowsFirst(c, n, v, p, m, s, S)
      BY <1>2 DEF FollowsAt
    <2>2. n \in {4, 5, 6} => ~Notable(c, p, v)
      <3>1. n \in {4, 5, 6} => \E act \in {"ask", "note", "remember"} : Does(a, act)
        BY <1>1, <1>2 DEF Place, StepName, Uses
      <3> QED
        BY <1>0, <1>2, <2>0, <3>1 DEF HalfDone
    <2> HIDE DEF n, v, p, m, s, S
    <2>3. CASE n = 6
      BY <1>0, <2>0, <2>1, <2>2, <2>3 DEF FollowsFirst, Notable, Changed, Recalled, s, m
    <2>4. CASE n \in {2, 3}
      BY <2>1, <2>4 DEF FollowsFirst, s, m
    <2>5. CASE n \in {4, 5}
      BY <2>1, <2>2, <2>5 DEF FollowsFirst
    <2> QED
      BY <2>0, <2>3, <2>4, <2>5
  <1>3. CASE c = "report"
    <2>0. n \in 2..4 /\ c \notin TellFirst
      BY <1>0, <1>3 DEF Length, TellFirst
    <2>1. FollowsReport(n, v, p, m, s, S)
      BY <1>3 DEF FollowsAt
    <2>2. n # 4
      <3>1. n = 4 => Does(a, "remember")
        BY <1>1, <1>3, <2>0 DEF Place, StepName, Uses
      <3> QED
        BY <1>0, <1>3, <3>1 DEF HalfDone
    <2> QED
      BY <1>3, <2>0, <2>1, <2>2 DEF FollowsReport, Recalled
  <1>4. CASE c \in Latter
    <2>0. n \in 2..6 /\ c \notin TellFirst \cup {"report"}
      BY <1>0, <1>4 DEF Length, Latter
    <2>1. FollowsLatter(c, Seeds(a), n, v, p, m, s, S)
      BY <2>0 DEF FollowsAt
    <2>2. n = 4 => ~Changed(p, v)
      <3>1. n = 4 => Does(a, "tell")
        BY <1>0, <1>1, <2>0 DEF Place, StepName, Uses
      <3>2. Notable(c, p, v) <=> Changed(p, v)
        BY <1>0, <2>0 DEF Notable, TellFirst
      <3> QED
        BY <1>0, <2>0, <3>1, <3>2 DEF HalfDone
    <2>3. Recalled(c, m) = m
      BY <2>0 DEF Recalled, TellFirst
    <2> QED
      BY <2>0, <2>1, <2>2, <2>3 DEF FollowsLatter, Changed
  <1> QED
    BY <1>2, <1>3, <1>4 DEF Latter

LEMMA RestartSince ==
  ASSUME Restarts
  PROVE  since' = [c \in Subject |-> since[c] \cup {world'[c]}]
  BY DEF Restarts, Restart

LEMMA RestartKeepsLogging == ASSUME NoticesTypeOK, Logging, Restarts PROVE Logging'
  <1>1. /\ disturbed \subseteq disturbed'
        /\ \A b \in Actor : HalfDone(b) => Check(b) \in disturbed'
        /\ given' = given /\ row' = row /\ memory' = memory /\ announced' = announced
        /\ \A b \in Actor, c \in Subject : ~Inside(b, c)'
    BY RestartCuts
  <1>2. \A d \in Subject : world'[d] \in since'[d]
    BY RestartSince
  <1>3. ASSUME NEW c \in Followed \cap given.checks PROVE Follow(c)'
    <2>1. c \in Subject /\ Follow(c)
      BY DEF Followed, TellFirst, Subject, Logging
    <2>2. ASSUME c \notin disturbed' PROVE announced[c] = Recalled(c, memory[c])
      <3>1. c \notin disturbed
        BY <1>1, <2>2
      <3>2. CASE \A b \in Actor : ~Inside(b, c)
        BY <2>1, <3>1, <3>2 DEF Follow
      <3>3. ASSUME NEW b \in Actor, Inside(b, c) PROVE announced[c] = Recalled(c, memory[c])
        <4>1. FollowsAt(c, Seeds(b), at[b][2], saw[b], was[b], memory[c], announced[c], since[c])
          BY <2>1, <3>1, <3>3 DEF Follow
        <4>2. ~HalfDone(b)
          BY <1>1, <2>2, <3>3 DEF Inside
        <4> QED
          BY <3>3, <4>1, <4>2, CutOff
      <3> QED
        BY <3>2, <3>3
    <2> QED
      BY <1>1, <2>1, <2>2 DEF Follow
  <1> QED
    BY <1>1, <1>2, <1>3 DEF Logging

LEMMA LoggingStep ==
  NoticesTypeOK /\ SeenFirst /\ Crowd /\ Logging /\ [NoticesNext]_noticeVars => Logging'
  <1> SUFFICES ASSUME NoticesTypeOK, SeenFirst, Crowd, Logging, [NoticesNext]_noticeVars
               PROVE  Logging'
    OBVIOUS
  <1>1. ASSUME UNCHANGED <<given, row, world, memory, announced, since, disturbed, saw, was>>,
               \A b \in Actor : \A c : /\ Inside(b, c)' <=> Inside(b, c)
                                       /\ Inside(b, c) => at'[b] = at[b]
        PROVE  Logging'
    <2>1. \A c \in Followed \cap given.checks : Follow(c)'
      BY <1>1, FollowStays DEF Logging
    <2> QED
      BY <1>1, <2>1 DEF Logging
  <1>2. ASSUME NEW a \in Actor, Begin(a) PROVE Logging'
    <2>1. UNCHANGED <<given, row, world, memory, announced, since, disturbed, saw, was>>
      BY <1>2 DEF Begin, told
    <2> QED
      BY <1>1, <1>2, <2>1, BeginInside
  <1>3. CASE UNCHANGED noticeVars
    <2>1. UNCHANGED <<given, row, world, memory, announced, since, disturbed, at, saw, was>>
      BY <1>3 DEF noticeVars, told
    <2> QED
      BY <1>1, <2>1, SameMoves
  <1> QED
    BY <1>2, <1>3, ActorKeepsLogging, OuterKeepsLogging, RestartKeepsLogging, NextIs

LEMMA LoggingInit == NoticesInit => Logging
  <1> SUFFICES ASSUME NoticesInit PROVE Logging
    OBVIOUS
  <1>1. PICK s \in Scenario :
          /\ given = s /\ world = s.world
          /\ announced = [c \in Subject |-> IF c \notin s.checks THEN s.world[c]
                                            ELSE IF c = "client" THEN 0 ELSE None]
          /\ since = [c \in Subject |-> {s.world[c]}]
    BY DEF NoticesInit
  <1>2. row = "none" /\ memory = [c \in Subject |-> None] /\ 0 \in Value
    BY ValueIsNat DEF NoticesInit
  <1>3. \A b \in Actor : at[b] = None \/ at[b][2] = 1
    BY StartIsOutside DEF NoticesInit, AllOutside, Outside
  <1>4. \A b \in Actor : \A c : ~Inside(b, c)
    BY <1>3 DEF Inside
  <1>5. ASSUME NEW c \in Followed \cap given.checks PROVE Follow(c)
    <2>1. c \in Subject
      BY DEF Followed, TellFirst, Subject
    <2>2. announced[c] = Recalled(c, memory[c])
      BY <1>1, <1>2, <2>1 DEF Recalled, Else0
    <2> QED
      BY <1>4, <2>2 DEF Follow
  <1> QED
    BY <1>1, <1>2, <1>5 DEF Logging

----------------------------------------------------------------------------
(* Notices implement Reporter.                                             *)

LEMMA FollowedAreSubjects == Followed \subseteq Subject
  BY DEF Followed, TellFirst, Subject

LEMMA LogChanges ==
  ASSUME \A c \in Followed : /\ announced'[c] = announced[c]
                             /\ since'[c] = since[c] \cup {world'[c]}
  PROVE  Log!Next
  <1>1. Log!Change
    BY DEF Log!Change
  <1> QED
    BY <1>1 DEF Log!Next

LEMMA LogAnnounces ==
  ASSUME NoticesTypeOK, NEW c \in Followed, NEW v \in Value, Announces(c, v), world' = world,
         c \notin disturbed' => v # announced[c] /\ v \in since[c]
  PROVE  Log!Next
  <1>1. /\ \A d \in Followed : /\ announced'[d] = IF d = c THEN v ELSE announced[d]
                               /\ since'[d] = IF d = c THEN {world[c]} ELSE since[d]
    BY FollowedAreSubjects DEF Announces, NoticesTypeOK
  <1>2. c \notin (Unsure \cap Followed)' => v # announced[c] /\ v \in since[c]
    BY DEF Unsure
  <1>3. Log!Announce(c, v)
    BY <1>1, <1>2 DEF Log!Announce
  <1> QED
    BY <1>3 DEF Log!Next

LEMMA LogStep ==
  NoticesTypeOK /\ SeenFirst /\ Crowd /\ Logging /\ [NoticesNext]_noticeVars => Log!Next
  <1> SUFFICES ASSUME NoticesTypeOK, SeenFirst, Crowd, Logging, [NoticesNext]_noticeVars
               PROVE  Log!Next
    OBVIOUS
  <1>0. \A c \in Followed : c \in Subject /\ world[c] \in since[c]
    BY FollowedAreSubjects DEF Logging
  <1>1. ASSUME UNCHANGED told, world' = world PROVE Log!Next
    <2>1. \A c \in Followed : /\ announced'[c] = announced[c]
                              /\ since'[c] = since[c] \cup {world'[c]}
      BY <1>0, <1>1 DEF told
    <2> QED
      BY <2>1, LogChanges
  <1>2. ASSUME NEW a \in Actor, Acts(a) PROVE Log!Next
    <2> DEFINE c == Check(a)
    <2>1. /\ c \in Subject /\ world' = world
          /\ UNCHANGED told \/ \E v \in Nat : Announces(c, v) /\ (c \in Followed => v \in Value)
      BY <1>2, ActorAnnounces
    <2>2. c \in Followed /\ c \notin disturbed' => Fresh(c)
      BY <1>2, ActorFollows
    <2> HIDE DEF c
    <2>3. CASE UNCHANGED told
      BY <1>1, <2>1, <2>3
    <2>4. ASSUME NEW v \in Nat, Announces(c, v), c \in Followed => v \in Value PROVE Log!Next
      <3>1. CASE c \notin Followed
        <4>1. \A d \in Followed : /\ announced'[d] = announced[d]
                                  /\ since'[d] = since[d] \cup {world'[d]}
          BY <1>0, <2>1, <2>4, <3>1 DEF Announces, NoticesTypeOK
        <4> QED
          BY <4>1, LogChanges
      <3>2. CASE c \in Followed /\ c \in disturbed'
        BY <2>1, <2>4, <3>2, LogAnnounces
      <3>3. CASE c \in Followed /\ c \notin disturbed'
        <4>1. CASE UNCHANGED told
          BY <2>3, <4>1
        <4>2. ASSUME NEW u \in Value, Announces(c, u), u # announced[c], u \in since[c]
              PROVE  Log!Next
          BY <2>1, <3>3, <4>2, LogAnnounces
        <4> QED
          BY <2>2, <3>3, <4>1, <4>2 DEF Fresh
      <3> QED
        BY <3>1, <3>2, <3>3
    <2> QED
      BY <2>1, <2>3, <2>4
  <1>3. ASSUME NEW a \in Actor, Begin(a) PROVE Log!Next
    BY <1>1, <1>3 DEF Begin
  <1>4. CASE Outer
    <2>1. \A c \in Followed : /\ announced'[c] = announced[c]
                              /\ since'[c] = since[c] \cup {world'[c]}
      <3>1. CASE world' = world /\ since' = since
        BY <1>0, <1>4, <3>1, OuterSince
      <3>2. ASSUME NEW c \in Subject, NEW v \in Value, world' = [world EXCEPT ![c] = v],
                   since' = [since EXCEPT ![c] = @ \cup {v}]
            PROVE  \A d \in Followed : since'[d] = since[d] \cup {world'[d]}
        BY <1>0, <3>2 DEF NoticesTypeOK
      <3> QED
        BY <1>4, <3>1, <3>2, OuterSince
    <2> QED
      BY <2>1, LogChanges
  <1>5. CASE Restarts
    <2>1. announced' = announced
      BY <1>5, RestartCuts
    <2>2. \A c \in Followed : /\ announced'[c] = announced[c]
                              /\ since'[c] = since[c] \cup {world'[c]}
      BY <1>0, <1>5, <2>1, RestartSince
    <2> QED
      BY <2>2, LogChanges
  <1>6. CASE UNCHANGED noticeVars
    BY <1>1, <1>6 DEF noticeVars
  <1> QED
    BY <1>2, <1>3, <1>4, <1>5, <1>6, NextIs

LEMMA LogInit == NoticesInit => Log!Init
  <1> SUFFICES ASSUME NoticesInit PROVE Log!Init
    OBVIOUS
  <1>1. PICK s \in Scenario : /\ world = s.world
                              /\ since = [c \in Subject |-> {s.world[c]}]
    BY DEF NoticesInit
  <1>2. NoticesTypeOK
    BY NoticesTypeInit
  <1>3. [c \in Followed |-> world[c]] \in [Followed -> Value]
    BY <1>2, FollowedAreSubjects DEF NoticesTypeOK
  <1>4. [c \in Followed |-> announced[c]] \in [Followed -> Value \cup {None}]
    BY <1>2 DEF NoticesTypeOK, Known
  <1>5. \A c \in Followed : since[c] = {world[c]}
    BY <1>1, FollowedAreSubjects
  <1> QED
    BY <1>3, <1>4, <1>5 DEF Log!Init

(* alertValue, checkVPNClients, checkSiteTunnels, monitorLoop, scanConfigs *)
(* and reportDue implement Reporter, in every scenario and wherever a      *)
(* restart, a failure or another call falls: of a thing no check of which  *)
(* was disturbed, every notice says something else than the one before and *)
(* something that was so since then.                                       *)
THEOREM NoticesReport == NoticesSpec => ReporterSpec
  <1> DEFINE Inv == NoticesTypeOK /\ SeenFirst /\ Crowd /\ Logging
  <1>1. NoticesInit => Inv /\ Log!Init
    BY NoticesTypeInit, CrowdInit, LoggingInit, LogInit
  <1>2. Inv /\ [NoticesNext]_noticeVars => Inv'
    BY NoticesTypeStep, CrowdStep, LoggingStep
  <1>3. Inv /\ [NoticesNext]_noticeVars => [Log!Next]_(Log!vars)
    BY LogStep
  <1> QED
    BY <1>1, <1>2, <1>3, PTL DEF NoticesSpec, ReporterSpec
=============================================================================
