------------------------------ MODULE Firmware ------------------------------
(***************************************************************************)
(* The upgrade of the device's firmware (core/openwrt.go): an image is     *)
(* fetched or uploaded to one place in memory and described in one file,   *)
(* checked, and written by a detached `sysupgrade` a few seconds after the *)
(* handler has answered.  In between the handler makes a full backup       *)
(* (FullBackup), which other callers make as well.  The module composes    *)
(* the handlers with the backups, with restarts of the service, whose      *)
(* start writes the list of files to keep anew, and with reboots.          *)
(*                                                                         *)
(* An image is identified with the request that staged it; equal hashes    *)
(* mean equal images.  The device has no data partition.  Nothing keeps    *)
(* the handlers apart: any may start while others are under way.           *)
(***************************************************************************)
EXTENDS FullBackup

CONSTANTS
  BackupJob,     \* calls of handleBackupCreate
  FlashJob,      \* calls of handleOpenWrtFlash
  FetchJob,      \* calls of handleOpenWrtFetch
  UploadJob,     \* calls of handleOpenWrtUpload
  NoImage,       \* there is no image, or no description of one
  Torn,          \* an image of which only a part, or a mixture, is there
  NoJob,
  RootfsMB,      \* the root partition each image is said to bring, 0 unknown
  Needed,        \* what the root partition may have to hold
  MaxRestarts    \* bound: restarts of the service or the device

Stager == FetchJob \union UploadJob

ASSUME FirmwareAssumption ==
  /\ Job = BackupJob \union FlashJob
  /\ BackupJob \intersect FlashJob = {} /\ FetchJob \intersect UploadJob = {}
  /\ NoImage \notin Stager /\ Torn \notin Stager /\ NoImage # Torn
  /\ NoJob \notin Job
  /\ RootfsMB \in [Stager -> Nat] /\ \A s \in UploadJob : RootfsMB[s] = 0
  /\ Needed \subseteq Nat
  /\ MaxRestarts \in Nat

VARIABLES
  up,         \* does the service run?
  installed,  \* is the program on the device?
  image,      \* the file at owImagePath
  meta,       \* the image owMetaFile describes
  stage,      \* where each fetch or upload is
  written,    \* what becomes of what each fetch or upload writes
  flash,      \* where each call of handleOpenWrtFlash is
  checked,    \* the description each of them has read
  accept,     \* accept_rootfs of each of them
  risky,      \* those whose image may shrink the root partition (history)
  restaged,   \* those whose image may have been replaced after the check
              \* (history)
  flasher,    \* the call whose sysupgrade wrote the firmware last
  restarts    \* restarts so far

staging  == <<image, meta, stage, written>>
flashing == <<flash, checked, accept, risky, restaged, flasher>>
service  == <<up, installed, restarts>>
vars == <<now, keepList, listBroken, archive, holds, step, listRead, taken,
          ts, together, removed, up, installed, image, meta, stage, written,
          flash, checked, accept, risky, restaged, flasher, restarts>>

(* An image whose root partition is not known, on a device whose partition *)
(* is (an uploaded one never is), or one that is known to be too small for *)
(* what the device needs.                                                  *)
NeedsConsent(s, partKnown, need) ==
  \/ RootfsMB[s] = 0 /\ partKnown
  \/ RootfsMB[s] > 0 /\ RootfsMB[s] < need

Init ==
  /\ BackupInit
  /\ up = TRUE /\ installed = TRUE
  /\ image = NoImage /\ meta = NoImage
  /\ stage = [s \in Stager |-> "off"]
  /\ written = [s \in Stager |-> "clean"]
  /\ flash = [j \in FlashJob |-> "off"]
  /\ checked = [j \in FlashJob |-> NoImage]
  /\ accept = [j \in FlashJob |-> FALSE]
  /\ risky = {} /\ restaged = {}
  /\ flasher = NoJob
  /\ restarts = 0

----------------------------------------------------------------------------
(* Staging.  Opening truncates the file that is there, also one that       *)
(* another request still writes to; removing it leaves that request        *)
(* writing to a file without a name.                                       *)
Copying == {s \in Stager : stage[s] = "copy"}

Writers == {s \in Copying : written[s] # "gone"}

Checked == {j \in FlashJob : flash[j] \in {"backup", "armed"}}

OpenImage(s) ==
  /\ up /\ stage[s] = "off"
  /\ written' = [r \in Stager |->
                   IF r = s THEN IF Writers = {} THEN "clean" ELSE "mixed"
                   ELSE IF r \in Writers THEN "mixed" ELSE written[r]]
  /\ image' = Torn
  /\ stage' = [stage EXCEPT ![s] = "copy"]
  /\ restaged' = restaged \union Checked
  /\ UNCHANGED <<backupVars, meta, flash, checked, accept, risky, flasher, service>>

CopyImage(s) ==
  /\ up /\ stage[s] = "copy"
  /\ image' \in CASE written[s] = "clean" -> {s}
                  [] written[s] = "mixed" -> {s, Torn}
                  [] written[s] = "gone"  -> {image}
  /\ stage' = [stage EXCEPT ![s] = "meta"]
  /\ written' = [written EXCEPT ![s] = "clean"]
  /\ UNCHANGED <<backupVars, meta, flashing, service>>

(* The transfer breaks off, or the hash of what was fetched is not the one *)
(* the build service has given.                                            *)
CopyFails(s) ==
  /\ up /\ stage[s] = "copy"
  /\ image' = NoImage
  /\ written' = [r \in Stager |->
                   IF r = s THEN "clean"
                   ELSE IF r \in Copying THEN "gone" ELSE written[r]]
  /\ stage' = [stage EXCEPT ![s] = "over"]
  /\ UNCHANGED <<backupVars, meta, flashing, service>>

(* An error of writing the description is ignored: there is the old one,   *)
(* or one that cannot be read.                                             *)
DescribeImage(s) ==
  /\ up /\ stage[s] = "meta"
  /\ meta' \in {s, meta, NoImage}
  /\ stage' = [stage EXCEPT ![s] = "over"]
  /\ UNCHANGED <<backupVars, image, written, flashing, service>>

----------------------------------------------------------------------------
(* The upgrade: the image and its description must be there ...            *)
BeginFlash(j, consent) ==
  /\ up /\ flash[j] = "off"
  /\ image # NoImage /\ meta # NoImage
  /\ checked' = [checked EXCEPT ![j] = meta]
  /\ accept' = [accept EXCEPT ![j] = consent]
  /\ flash' = [flash EXCEPT ![j] = "check"]
  /\ UNCHANGED <<backupVars, staging, risky, restaged, flasher, service>>

(* Mutants: the hash, or the root partition, is not checked, or only that  *)
(* of images whose size is not known.                                      *)
MayFlashUnchecked(j, asks) == asks => accept[j]

MayFlashAnyRoot(j, asks) == image = checked[j]

MayFlashSmallRoot(j, asks) ==
  image = checked[j] /\ (asks /\ RootfsMB[checked[j]] = 0 => accept[j])

(* ... the hash of the image as it is now must be the one described, and   *)
(* the root partition it brings large enough, or accepted.                 *)
MayFlash(j, asks) == image = checked[j] /\ (asks => accept[j])

CheckImage(j, partKnown, need) ==
  /\ up /\ flash[j] = "check"
  /\ LET asks == NeedsConsent(checked[j], partKnown, need)
     IN IF MayFlash(j, asks)
          THEN /\ StartBackup(j)
               /\ flash' = [flash EXCEPT ![j] = "backup"]
               /\ risky' = IF asks THEN risky \union {j} ELSE risky
               /\ restaged' = IF Writers = {} THEN restaged ELSE restaged \union {j}
          ELSE /\ flash' = [flash EXCEPT ![j] = "over"]
               /\ UNCHANGED <<backupVars, risky, restaged>>
  /\ UNCHANGED <<staging, checked, accept, flasher, service>>

(* Mutant: the outcome of the backup is not looked at. *)
LaunchAnyway(j) ==
  /\ up /\ flash[j] = "backup" /\ step[j] \in {"made", "failed"}
  /\ flash' = [flash EXCEPT ![j] = "armed"]
  /\ UNCHANGED <<backupVars, staging, checked, accept, risky, restaged, flasher,
                 service>>

(* The handler answers and leaves a shell behind that waits 3 seconds. *)
Launch(j) ==
  /\ up /\ flash[j] = "backup" /\ step[j] = "made"
  /\ flash' = [flash EXCEPT ![j] = "armed"]
  /\ UNCHANGED <<backupVars, staging, checked, accept, risky, restaged, flasher,
                 service>>

(* There is no backup, or the shell cannot be started. *)
LaunchFails(j) ==
  /\ up /\ flash[j] = "backup" /\ step[j] \in {"made", "failed"}
  /\ flash' = [flash EXCEPT ![j] = "over"]
  /\ UNCHANGED <<backupVars, staging, checked, accept, risky, restaged, flasher,
                 service>>

(* Nothing that runs on the device survives it. *)
KillRequests ==
  /\ step' = [j \in Job |-> IF Making(j) THEN "failed" ELSE step[j]]
  /\ stage' = [s \in Stager |->
                 IF stage[s] \in {"copy", "meta"} THEN "over" ELSE stage[s]]

(* sysupgrade writes the image that is there now and brings over what is   *)
(* on the list now; the rest of the root partition is gone, the archives   *)
(* and the list included, and so is what was in memory.                    *)
Sysupgrade(j) ==
  /\ flash[j] = "armed" /\ image \in Stager
  /\ flasher' = j
  /\ installed' = ("program" \in keepList)
  /\ meta' = IF "config" \in keepList THEN meta ELSE NoImage
  /\ up' = FALSE /\ image' = NoImage
  /\ keepList' = {} /\ archive' = [t \in Second |-> "none"]
  /\ KillRequests
  /\ flash' = [k \in FlashJob |-> IF flash[k] = "off" THEN "off" ELSE "over"]
  /\ UNCHANGED <<now, listBroken, holds, listRead, taken, ts, together, removed,
                 written, checked, accept, risky, restaged, restarts>>

(* It checks the image itself: one that is damaged or not there it         *)
(* refuses, and any other it may.                                          *)
SysupgradeRefuses(j) ==
  /\ flash[j] = "armed"
  /\ flash' = [flash EXCEPT ![j] = "over"]
  /\ UNCHANGED <<backupVars, staging, checked, accept, risky, restaged, flasher,
                 service>>

----------------------------------------------------------------------------
(* handleBackupCreate and handleBackupDelete. *)
BeginBackup(j) ==
  /\ up
  /\ StartBackup(j)
  /\ UNCHANGED <<staging, flashing, service>>

Delete(t) ==
  /\ up
  /\ DeleteArchive(t)
  /\ UNCHANGED <<staging, flashing, service>>

(* The service dies; a launched sysupgrade goes on.  A reboot ends that    *)
(* too, and clears /tmp.  A list that is cut down stays so.                *)
Stop(reboot) ==
  /\ restarts < MaxRestarts
  /\ restarts' = restarts + 1
  /\ up' = FALSE
  /\ KillRequests
  /\ listBroken' = (listBroken \/ CutDown # {})
  /\ image' = IF reboot THEN NoImage ELSE image
  /\ flash' = [j \in FlashJob |->
                 IF flash[j] = "off" \/ (flash[j] = "armed" /\ ~reboot)
                   THEN flash[j] ELSE "over"]
  /\ UNCHANGED <<now, keepList, archive, holds, listRead, taken, ts, together,
                 removed, installed, meta, written, checked, accept, risky,
                 restaged, flasher>>

(* Mutant: a list that is there is left as it is. *)
EnsureKeepListOnce == IF keepList = {} THEN Full ELSE keepList

(* ensureKeepList: a list that is not the full one is written anew. *)
EnsureKeepList == Full

(* An error of writing it is only logged. *)
StartService ==
  /\ ~up /\ installed
  /\ up' = TRUE
  /\ \/ keepList' = EnsureKeepList /\ listBroken' = FALSE
     \/ /\ "ensure" \in Fails /\ keepList # EnsureKeepList
        /\ keepList' \in {keepList, {}} /\ listBroken' = TRUE
  /\ UNCHANGED <<now, archive, holds, step, listRead, taken, ts, together, removed,
                 installed, restarts, staging, flashing>>

----------------------------------------------------------------------------
Backups(j) ==
  /\ up
  /\ BackupStep(j) \/ BackupStepFails(j)
  /\ UNCHANGED <<staging, flashing, service>>

Clock == NextSecond /\ UNCHANGED <<staging, flashing, service>>

Next ==
  \/ \E j \in BackupJob : BeginBackup(j)
  \/ \E j \in Job : Backups(j)
  \/ \E t \in Second : Delete(t)
  \/ \E s \in Stager : OpenImage(s) \/ CopyImage(s) \/ CopyFails(s)
                       \/ DescribeImage(s)
  \/ \E j \in FlashJob : \/ \E consent \in BOOLEAN : BeginFlash(j, consent)
                         \/ \E partKnown \in BOOLEAN, need \in Needed :
                              CheckImage(j, partKnown, need)
                         \/ Launch(j)
                         \/ LaunchFails(j)
                         \/ Sysupgrade(j)
                         \/ SysupgradeRefuses(j)
  \/ \E reboot \in BOOLEAN : Stop(reboot)
  \/ StartService
  \/ Clock

Spec == Init /\ [][Next]_vars

----------------------------------------------------------------------------
(* Types. *)
TypeOK ==
  /\ BackupTypeOK
  /\ up \in BOOLEAN /\ installed \in BOOLEAN
  /\ image \in Stager \union {NoImage, Torn}
  /\ meta \in Stager \union {NoImage}
  /\ stage \in [Stager -> {"off", "copy", "meta", "over"}]
  /\ written \in [Stager -> {"clean", "mixed", "gone"}]
  /\ flash \in [FlashJob -> {"off", "check", "backup", "armed", "over"}]
  /\ checked \in [FlashJob -> Stager \union {NoImage}]
  /\ accept \in [FlashJob -> BOOLEAN]
  /\ risky \in SUBSET FlashJob /\ restaged \in SUBSET FlashJob
  /\ flasher \in FlashJob \union {NoJob}
  /\ restarts \in 0..MaxRestarts

(* An archive never holds the program (backup.go:39), whatever failed      *)
(* while it was made, unless another call had the list in hand as well:    *)
(* nothing locks it, and what one writes back the other packs.             *)
ArchivesAreSlim ==
  \A t \in Second :
    archive[t] = "whole" /\ "program" \in holds[t] => \E j \in together : ts[j] = t

(* The program, like the configuration, is still there after an upgrade of *)
(* the firmware (PRIRUCNIK.md:909): sysupgrade runs with the full list,    *)
(* unless a backup has it cut down at that moment, or it is broken: since  *)
(* the service started it could not be written, two backups had it in hand *)
(* at once, or a stop came upon one that had cut it down.                  *)
ProgramSurvives ==
  [][flasher' # flasher => keepList = Full \/ CutDown # {} \/ listBroken]_vars

(* The image that is written is the one whose hash the handler has checked *)
(* (openwrt.go:515), unless another was staged between the check and the   *)
(* writing, which is a full backup and three seconds later; and one that   *)
(* may shrink the root partition has the administrator's consent           *)
(* (openwrt.go:538).                                                       *)
FlashedIsVerified ==
  [][flasher' # flasher =>
       /\ image = checked[flasher'] \/ flasher' \in restaged
       /\ flasher' \in risky => accept[flasher']]_vars

(* The archive the handler has made is there, and whole, when the firmware *)
(* is written (openwrt.go:565), unless it was deleted by hand, as many     *)
(* newer ones were begun as are kept, or one in the same second.           *)
NewerArchives(j) == {t \in {ts[k] : k \in Job} : t > ts[j]}

Replaced(j) ==
  \/ ts[j] \in removed
  \/ Cardinality(NewerArchives(j)) >= FullKeep
  \/ \E k \in Job \ {j} : ts[k] = ts[j]

FlashHasBackup ==
  [][flasher' # flasher =>
       archive[ts[flasher']] = "whole" \/ Replaced(flasher')]_vars
=============================================================================
