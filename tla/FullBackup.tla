----------------------------- MODULE FullBackup -----------------------------
(***************************************************************************)
(* createFullBackup of core/backup.go, step by step, for any number of     *)
(* callers at once.  OpenWrt's `sysupgrade` takes the list of files to     *)
(* keep from one file, /lib/upgrade/keep.d/saguaro, for two purposes: what *)
(* an archive of /etc holds, and what survives an upgrade of the firmware. *)
(* An archive must not hold the program, so each caller takes the program  *)
(* off the list, makes the archive, and writes back the list it has read.  *)
(* Nothing locks the list.                                                 *)
(*                                                                         *)
(* The list is abstracted to what matters of it: whether it names the      *)
(* program with its web pages, and the configuration with its database.    *)
(***************************************************************************)
EXTENDS Integers, FiniteSets

CONSTANTS
  Job,           \* requests; each is one call of a handler
  FullKeep,      \* fullKeep: archives kept
  LastSecond,    \* bound: the clock stops here
  Fails          \* the steps that may fail, a subset of FailPoint

FailPoint == {"slim", "etc", "restore", "snapshot", "archive", "ensure"}

ASSUME FullBackupAssumption ==
  /\ FullKeep \in Nat \ {0} /\ LastSecond \in Nat \ {0}
  /\ Fails \subseteq FailPoint

Item   == {"program", "config"}
Full   == Item
Second == 1..LastSecond

VARIABLES
  now,        \* the second the wall clock shows
  keepList,   \* what /lib/upgrade/keep.d/saguaro names
  listBroken, \* since the service started: could the list not be written, did
              \* two calls have it in hand, or a stop come upon one? (history)
  archive,    \* state of the archive named after each second
  holds,      \* what each archive's copy of /etc holds
  step,       \* where each call of createFullBackup is
  listRead,   \* the list each call has read
  taken,      \* what sysupgrade -b has put in each call's etc.tar.gz
  ts,         \* the second each call was started in, 0 before
  together,   \* calls that had the list in hand beside another (history)
  removed     \* archives removed by handleBackupDelete (history)

backupVars ==
  <<now, keepList, listBroken, archive, holds, step, listRead, taken, ts,
    together, removed>>

Making(j) == step[j] \notin {"off", "made", "failed"}

(* A call that has read the list and will write it, or has cut it down.    *)
InHand == {j \in Job : step[j] \in {"slim", "etc", "restore", "giveUp"}}

CutDown == {j \in Job : step[j] \in {"etc", "restore", "giveUp"}}

Go(j, s) == step' = [step EXCEPT ![j] = s]

ForgetList(j) == listRead' = [listRead EXCEPT ![j] = {}]

BackupInit ==
  /\ now = 1
  /\ keepList = Full /\ listBroken = FALSE
  /\ archive = [t \in Second |-> "none"]
  /\ holds = [t \in Second |-> {}]
  /\ step = [j \in Job |-> "off"]
  /\ listRead = [j \in Job |-> {}]
  /\ taken = [j \in Job |-> {}]
  /\ ts = [j \in Job |-> 0]
  /\ together = {}
  /\ removed = {}

(* The name of the archive is fixed when the call starts; two that start   *)
(* within one second have the same.                                        *)
StartBackup(j) ==
  /\ step[j] = "off"
  /\ ts' = [ts EXCEPT ![j] = now]
  /\ Go(j, "list")
  /\ UNCHANGED <<now, keepList, listBroken, archive, holds, listRead, taken,
                 together, removed>>

ReadList(j) ==
  /\ step[j] = "list"
  /\ listRead' = [listRead EXCEPT ![j] = keepList]
  /\ Go(j, "slim")
  /\ IF InHand = {}
       THEN UNCHANGED <<listBroken, together>>
       ELSE listBroken' = TRUE /\ together' = together \union InHand \union {j}
  /\ UNCHANGED <<now, keepList, archive, holds, taken, ts, removed>>

(* Mutant: the program stays on the list. *)
SlimNothing(list) == list

Slim(list) == list \ {"program"}

WriteSlim(j) ==
  /\ step[j] = "slim"
  /\ keepList' = Slim(listRead[j])
  /\ Go(j, "etc")
  /\ UNCHANGED <<now, listBroken, archive, holds, listRead, taken, ts,
                 together, removed>>

(* The list cannot be written: it is as it was, or empty. *)
WriteSlimFails(j) ==
  /\ "slim" \in Fails /\ step[j] = "slim"
  /\ keepList' \in {keepList, {}} /\ listBroken' = TRUE
  /\ ForgetList(j)
  /\ Go(j, "failed")
  /\ UNCHANGED <<now, archive, holds, taken, ts, together, removed>>

(* sysupgrade -b: the archive holds what is on the list now. *)
MakeEtc(j) ==
  /\ step[j] = "etc"
  /\ taken' = [taken EXCEPT ![j] = keepList]
  /\ Go(j, "restore")
  /\ UNCHANGED <<now, keepList, listBroken, archive, holds, listRead, ts,
                 together, removed>>

MakeEtcFails(j) ==
  /\ "etc" \in Fails /\ step[j] = "etc"
  /\ Go(j, "giveUp")
  /\ UNCHANGED <<now, keepList, listBroken, archive, holds, listRead, taken,
                 ts, together, removed>>

AfterRestore(j) == IF step[j] = "restore" THEN "snapshot" ELSE "failed"

(* Mutant: the list is written back as it is, not as it was read. *)
RestoreListAsItIs(j) ==
  /\ step[j] \in {"restore", "giveUp"}
  /\ ForgetList(j)
  /\ Go(j, AfterRestore(j))
  /\ UNCHANGED <<now, keepList, listBroken, archive, holds, taken, ts, together,
                 removed>>

RestoreList(j) ==
  /\ step[j] \in {"restore", "giveUp"}
  /\ keepList' = listRead[j]
  /\ ForgetList(j)
  /\ Go(j, AfterRestore(j))
  /\ UNCHANGED <<now, listBroken, archive, holds, taken, ts, together, removed>>

(* An error of this write is ignored. *)
RestoreListFails(j) ==
  /\ "restore" \in Fails /\ step[j] \in {"restore", "giveUp"}
  /\ keepList' \in {keepList, {}} /\ listBroken' = TRUE
  /\ ForgetList(j)
  /\ Go(j, AfterRestore(j))
  /\ UNCHANGED <<now, archive, holds, taken, ts, together, removed>>

(* The snapshot of the database, then the archive is opened, which         *)
(* truncates one of the same name.                                         *)
Packing(t) == {j \in Job : step[j] = "archive" /\ ts[j] = t}

OpenArchive(j) ==
  /\ step[j] = "snapshot"
  /\ archive' = [archive EXCEPT ![ts[j]] =
                   IF Packing(ts[j]) = {} THEN "partial" ELSE "torn"]
  /\ Go(j, "archive")
  /\ UNCHANGED <<now, keepList, listBroken, holds, listRead, taken, ts,
                 together, removed>>

SnapshotFails(j) ==
  /\ "snapshot" \in Fails /\ step[j] = "snapshot"
  /\ Go(j, "failed")
  /\ UNCHANGED <<now, keepList, listBroken, archive, holds, listRead, taken,
                 ts, together, removed>>

(* rotateBackups keeps the newest ones; a call whose archive is not there  *)
(* afterwards fails.                                                       *)
NewestArchives(names) ==
  {t \in names : Cardinality({u \in names : u > t}) < FullKeep}

CloseArchive(j) ==
  /\ step[j] = "archive"
  /\ LET t      == ts[j]
         packed == [archive EXCEPT ![t] = IF @ = "partial" THEN "whole" ELSE @]
         kept   == NewestArchives({u \in Second : packed[u] # "none"})
     IN /\ archive' = [u \in Second |-> IF u \in kept THEN packed[u] ELSE "none"]
        /\ holds' = [holds EXCEPT ![t] = taken[j]]
        /\ taken' = [taken EXCEPT ![j] = {}]
        /\ Go(j, IF archive'[t] # "none" THEN "made" ELSE "failed")
  /\ UNCHANGED <<now, keepList, listBroken, listRead, ts, together, removed>>

(* An archive that cannot be written is removed. *)
CloseArchiveFails(j) ==
  /\ "archive" \in Fails /\ step[j] = "archive"
  /\ archive' = [archive EXCEPT ![ts[j]] = "none"]
  /\ Go(j, "failed")
  /\ UNCHANGED <<now, keepList, listBroken, holds, listRead, taken, ts,
                 together, removed>>

(* handleBackupDelete. *)
DeleteArchive(t) ==
  /\ archive[t] # "none"
  /\ archive' = [archive EXCEPT ![t] = "none"]
  /\ removed' = removed \union {t}
  /\ UNCHANGED <<now, keepList, listBroken, holds, step, listRead, taken, ts,
                 together>>

BackupStep(j) ==
  \/ ReadList(j)
  \/ WriteSlim(j)
  \/ MakeEtc(j)
  \/ RestoreList(j)
  \/ OpenArchive(j)
  \/ CloseArchive(j)

BackupStepFails(j) ==
  \/ WriteSlimFails(j)
  \/ MakeEtcFails(j)
  \/ RestoreListFails(j)
  \/ SnapshotFails(j)
  \/ CloseArchiveFails(j)

NextSecond ==
  /\ now < LastSecond
  /\ now' = now + 1
  /\ UNCHANGED <<keepList, listBroken, archive, holds, step, listRead, taken, ts,
                 together, removed>>

BackupTypeOK ==
  /\ now \in Second
  /\ keepList \subseteq Item /\ listBroken \in BOOLEAN
  /\ archive \in [Second -> {"none", "partial", "torn", "whole"}]
  /\ holds \in [Second -> SUBSET Item]
  /\ step \in [Job -> {"off", "list", "slim", "etc", "restore", "giveUp",
                       "snapshot", "archive", "made", "failed"}]
  /\ listRead \in [Job -> SUBSET Item]
  /\ taken \in [Job -> SUBSET Item]
  /\ ts \in [Job -> 0..LastSecond]
  /\ together \in SUBSET Job /\ removed \in SUBSET Second
=============================================================================
