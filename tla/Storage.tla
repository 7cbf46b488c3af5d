------------------------------ MODULE Storage -------------------------------
(***************************************************************************)
(* What changes the data of a device under the running service: restoring  *)
(* a full backup (core/backup.go), which leaves the database beside the    *)
(* live one for the next start, writes the configuration back and reboots, *)
(* and making a data partition (core/datapart.go), which enters it in      *)
(* fstab and leaves a shell behind that copies the data and mounts it.     *)
(* They are composed with DataStore, with restarts of the service (a       *)
(* program update makes one), command-line tools and reboots.  Nothing in  *)
(* the code keeps any of these apart: every step may fail or be cut off,   *)
(* and all of them may overlap.  What the code cannot then keep is         *)
(* recorded by its cause (unkept, unwritten, crossed, collided) and        *)
(* excepted by name in the properties.                                     *)
(***************************************************************************)
EXTENDS DataStore

CONSTANTS
  Request,       \* calls of handleBackupRestore
  RootArchive    \* archives made without a data partition; the others come
                 \* from a device that has one of its own

ASSUME StorageAssumption == RootArchive \subseteq Archive

VARIABLES
  config,    \* where /etc/config comes from
  fstab,     \* the partition /etc/config/fstab mounts: none, own, other
  certs,     \* where the token and the certificates come from
  restore,   \* where each request is
  pick,      \* the archive it restores
  saw,       \* the fstab entry it has found before
  move,      \* how far the data partition is
  unkept,    \* was the entry of the partition replaced by a restore that had
             \* not seen it, or that could not put it back?
  unwritten, \* restores that silently left the certificates as they were
  crossed,   \* restores beside another one, or beside the move
  collided   \* has a tool opened the database while the service opened it,
             \* restored one or was moved?

device   == <<config, fstab, certs>>
requests == <<restore, pick, saw>>
causes   == <<unkept, unwritten, crossed, collided>>
vars == <<storeVars, device, requests, move, causes>>

InHand(r) == restore[r] \in {"stage", "write", "files", "config", "mount"}
Restoring == \E r \in Request : InHand(r)
Busy      == {r \in Request : InHand(r) \/ restore[r] = "done"}
Moving    == move \in {"mkfs", "fstab", "record", "copy", "stop", "final"}

Init ==
  /\ StoreInit
  /\ config = Device /\ fstab = "none" /\ certs = Device
  /\ restore = [r \in Request |-> "off"]
  /\ pick = [r \in Request |-> None]
  /\ saw = [r \in Request |-> "none"]
  /\ move = "off"
  /\ unkept = FALSE /\ unwritten = {} /\ crossed = {} /\ collided = FALSE

Step(r, from, to) ==
  restore[r] = from /\ restore' = [restore EXCEPT ![r] = to]

(* What the handlers of these requests knew is gone with them. *)
Forget(S) ==
  /\ pick' = [r \in Request |-> IF r \in S THEN None ELSE pick[r]]
  /\ saw' = [r \in Request |-> IF r \in S THEN "none" ELSE saw[r]]
  /\ unwritten' = unwritten \ S
  /\ crossed' = crossed \ S

(* The service begins what a tool must not disturb. *)
Meets(x) == collided' = (collided \/ opening[x] # "off")

----------------------------------------------------------------------------
(* handleBackupRestore: the archive is there and can be read.  One that    *)
(* was answered and still waits for the reboot is not the last word now.   *)
BeginRestore(r, a) ==
  /\ up
  /\ Step(r, "off", "stage")
  /\ pick' = [pick EXCEPT ![r] = a]
  /\ crossed' = IF Busy = {} /\ ~Moving THEN crossed ELSE crossed \union Busy \union {r}
  /\ due' = None
  /\ Meets("tool")
  /\ UNCHANGED <<files, mounted, opening, up, linked, held, tried,
                 history, device, saw, move, unkept, unwritten>>

Stage(r) ==
  /\ Step(r, "stage", "write")
  /\ staged' = [staged EXCEPT ![Here] = Torn]
  /\ tried' = TRUE
  /\ Touch
  /\ UNCHANGED <<db, wal, program, mounted, opening, up, linked, held, due, device, pick, saw, move, causes>>

(* A tool may have given the file that is written the name of the database. *)
WriteStaged(r) ==
  /\ Step(r, "write", "files")
  /\ IF staged[Here] = None
       THEN db' = [db EXCEPT ![Here] = Of(pick[r])] /\ UNCHANGED staged
       ELSE staged' = [staged EXCEPT ![Here] = Of(pick[r])] /\ UNCHANGED db
  /\ Touch
  /\ UNCHANGED <<wal, program, mounted, processes, device, pick, saw, move,
                 causes>>

StageFails(r) ==
  /\ Step(r, "write", "over") /\ Forget({r})
  /\ UNCHANGED <<storeVars, device, move, unkept, collided>>

(* Errors of writing the token and the certificates are not looked at. The *)
(* fstab entry is read before the configuration is replaced.               *)
WriteFiles(r) ==
  /\ Step(r, "files", "config")
  /\ \/ certs' = pick[r] /\ UNCHANGED unwritten
     \/ certs' = certs /\ unwritten' = unwritten \union {r}
  /\ saw' = [saw EXCEPT ![r] = fstab]
  /\ UNCHANGED <<storeVars, config, fstab, pick, move, unkept, crossed, collided>>

(* sysupgrade -r.  An archive made without a data partition holds the data *)
(* directory too, with a copy of the database that was live then, and has  *)
(* no entry in fstab.                                                      *)
Unpack(a) ==
  /\ config' = a
  /\ IF a \in RootArchive
       THEN /\ fstab' = "none"
            /\ db' = [db EXCEPT ![Here] = Of(a)]
            /\ wal' = [wal EXCEPT ![Here] = a]
            /\ linked' = FALSE
       ELSE fstab' = "other" /\ UNCHANGED <<db, wal, linked>>

WriteConfig(r) ==
  /\ Step(r, "config", "mount")
  /\ Unpack(pick[r])
  /\ unkept' = (unkept \/ saw[r] # "own")
  /\ UNCHANGED <<staged, program, mounted, opening, up, held, tried, due,
                 history, certs, pick, saw, move, unwritten, crossed, collided>>

(* Mutant: the exit code of sysupgrade is not looked at. *)
WriteConfigFailsUnseen(r) ==
  /\ Step(r, "config", "mount")
  /\ UNCHANGED <<storeVars, device, pick, saw, move, causes>>

(* It may fail before or after it has replaced files. *)
WriteConfigFails(r) ==
  /\ Step(r, "config", "over") /\ Forget({r})
  /\ \/ Unpack(pick[r]) /\ unkept' = TRUE
     \/ UNCHANGED <<config, fstab, db, wal, linked, unkept>>
  /\ UNCHANGED <<staged, program, mounted, opening, up, held, tried, due,
                 history, certs, move, collided>>

(* Mutant: any entry the archive brings is good enough. *)
EntryIfNone(r) == IF fstab = "none" THEN saw[r] ELSE fstab

(* The entry that was there before the restore, if there was one. *)
EntryToKeep(r) == IF saw[r] = "none" THEN fstab ELSE saw[r]

(* The entry is put back; a failure is only logged.  The handler answers.  *)
KeepMount(r) ==
  /\ Step(r, "mount", "done")
  /\ \/ /\ fstab' = EntryToKeep(r)
        /\ unkept' = IF saw[r] = "none" THEN unkept ELSE saw[r] = "other"
     \/ fstab' = fstab /\ unkept' = TRUE
  /\ saw' = [saw EXCEPT ![r] = "none"]
  /\ due' = IF r \in crossed THEN None ELSE pick[r]
  /\ UNCHANGED <<files, mounted, opening, up, linked, held, tried,
                 history, config, certs, pick, move, unwritten, crossed,
                 collided>>

----------------------------------------------------------------------------
(* handleDataPartCreate, after its backup. *)
BeginMove ==
  /\ up /\ move = "off"
  /\ move' = "mkfs"
  /\ crossed' = crossed \union Busy
  /\ Meets("tool")
  /\ UNCHANGED <<storeVars, device, requests, unkept, unwritten>>

MakePart ==
  /\ move = "mkfs"
  /\ move' \in {"fstab", "failed"}
  /\ UNCHANGED <<storeVars, device, requests, causes>>

EnterFstab ==
  /\ move = "fstab"
  /\ \/ fstab' = "own" /\ unkept' = FALSE /\ move' = "record"
     \/ UNCHANGED <<fstab, unkept>> /\ move' = "failed"
  /\ UNCHANGED <<storeVars, config, certs, requests, unwritten, crossed, collided>>

(* The geometry is recorded, the shell launched, and the handler answers. *)
RecordPart ==
  /\ move = "record"
  /\ move' \in {"copy", "failed"}
  /\ UNCHANGED <<storeVars, device, requests, causes>>

CopyFile(f) == [f EXCEPT !["part"] = f["root"]]

(* cp -a, while the service runs. *)
CopyData ==
  /\ move = "copy"
  /\ db' = CopyFile(db) /\ wal' = CopyFile(wal)
  /\ staged' = CopyFile(staged) /\ program' = CopyFile(program)
  /\ late' = FALSE
  /\ move' = "stop"
  /\ UNCHANGED <<mounted, processes, moved, device, requests, causes>>

(* The shell gives up; what is entered in fstab stays there. *)
CopyFails ==
  /\ move = "copy"
  /\ move' = "failed"
  /\ UNCHANGED <<storeVars, device, requests, causes>>

(* What a request does dies with the service, a restore that was answered  *)
(* excepted: its configuration and its database are on the disk.           *)
CutOff ==
  /\ restore' = [r \in Request |-> IF InHand(r) THEN "over" ELSE restore[r]]
  /\ Forget({r \in Request : InHand(r)})
  /\ unkept' = (unkept \/ \E r \in Request : restore[r] = "mount")
  /\ UNCHANGED collided

StopForMove ==
  /\ move = "stop"
  /\ Ends /\ CutOff
  /\ move' = "final"
  /\ UNCHANGED <<files, mounted, held, tried, due, history, device>>

(* The shell starts the service in either case. *)
MountPart ==
  /\ move = "final"
  /\ \/ Mount(TRUE) /\ move' = "done"
     \/ UNCHANGED <<mounted, history>> /\ move' = "failed"
  /\ UNCHANGED <<files, processes, device, requests, causes>>

----------------------------------------------------------------------------
StartService ==
  /\ move # "final"
  /\ Start("service")
  /\ Meets("tool")
  /\ UNCHANGED <<device, requests, move, unkept, unwritten, crossed>>

(* A command line with -reset-admin, -ovpn-export or -decrypt-backup.      *)
StartTool ==
  /\ Start("tool")
  /\ collided' = (collided \/ opening["service"] # "off" \/ Restoring \/ Moving)
  /\ UNCHANGED <<device, requests, move, unkept, unwritten, crossed>>

OpenDB(x) ==
  /\ RemoveDb(x) \/ RemoveWal(x) \/ Rename(x) \/ Open(x)
  /\ UNCHANGED <<device, requests, move, causes>>

(* A handler writes to the database. *)
ServiceWrites ==
  /\ Write
  /\ UNCHANGED <<device, requests, move, causes>>

(* The service is restarted, by an update among others, or crashes.        *)
Restart ==
  /\ up \/ opening["service"] # "off"
  /\ Ends /\ CutOff
  /\ move' = IF move \in {"mkfs", "fstab", "record"} THEN "failed" ELSE move
  /\ UNCHANGED <<files, mounted, held, tried, due, history, device>>

(* What is in fstab is mounted; a partition of another device is not here. *)
Reboot ==
  /\ up' = FALSE /\ linked' = FALSE
  /\ opening' = [x \in Process |-> "off"]
  /\ Mount(fstab = "own")
  /\ restore' = [r \in Request |-> IF r \in Busy THEN "over" ELSE restore[r]]
  /\ Forget(Busy)
  /\ unkept' = (unkept \/ \E r \in Request : restore[r] = "mount")
  /\ move' = IF Moving THEN "failed" ELSE move
  /\ UNCHANGED <<files, held, tried, due, device, collided>>

Restores(r) ==
  \/ \E a \in Archive : BeginRestore(r, a)
  \/ Stage(r)
  \/ WriteStaged(r)
  \/ StageFails(r)
  \/ WriteFiles(r)
  \/ WriteConfig(r)
  \/ WriteConfigFails(r)
  \/ KeepMount(r)

Moves ==
  \/ BeginMove
  \/ MakePart
  \/ EnterFstab
  \/ RecordPart
  \/ CopyData
  \/ CopyFails
  \/ StopForMove
  \/ MountPart

Next ==
  \/ \E r \in Request : Restores(r)
  \/ Moves
  \/ StartService
  \/ StartTool
  \/ \E x \in Process : OpenDB(x)
  \/ ServiceWrites
  \/ Restart
  \/ Reboot

Spec == Init /\ [][Next]_vars

----------------------------------------------------------------------------
(* Types. *)
TypeOK ==
  /\ StoreTypeOK
  /\ config \in Origin /\ certs \in Origin
  /\ fstab \in {"none", "own", "other"}
  /\ restore \in [Request -> {"off", "stage", "write", "files", "config",
                              "mount", "done", "over"}]
  /\ pick \in [Request -> Archive \union {None}]
  /\ saw \in [Request -> {"none", "own", "other"}]
  /\ move \in {"off", "mkfs", "fstab", "record", "copy", "stop", "final",
               "done", "failed"}
  /\ unkept \in BOOLEAN /\ collided \in BOOLEAN
  /\ unwritten \subseteq Request /\ crossed \subseteq Request

(* The service starts with the database it had, every write it has         *)
(* acknowledged included, if no restore has staged one, and with the       *)
(* archive's once a restore was accepted; also when a restore was begun    *)
(* and failed, it never finds an empty database, nor one beside the log of *)
(* another (db.go:16).  Excepted are a start after the data was written to *)
(* behind its copy and then found in the other directory (datapart.go:365  *)
(* copies under the running service), and what follows when a tool opens   *)
(* the database at the same time: nothing keeps it from doing so.          *)
KnownDatabase ==
  [][Open("service") =>
       \/ collided
       \/ /\ ~tried => Found = held \/ moved
          /\ due # None => Found = Of(due) \/ moved
          /\ Found \notin {Fresh, Mixed}]_vars

(* A data partition that is in use has its entry in fstab, so that it is   *)
(* mounted again at the next boot, whatever the archive that was restored  *)
(* says, and whatever else of a restore fails (backup.go:480).  Excepted   *)
(* are a restore that is about to put it back, and from then on until the  *)
(* entry is written again, one that could not, and one that began when     *)
(* another had already taken it away.                                      *)
PartStaysMounted ==
  mounted => fstab = "own" \/ unkept \/ \E r \in Request : restore[r] = "mount"

(* When a restore has been answered, all that the device will come up with *)
(* is from its archive: configuration, certificates and database           *)
(* (PRIRUCNIK.md:778).  Excepted are certificates that could not be        *)
(* written, which the code does not look at (backup.go:477), another       *)
(* restore or a move at the same time, and a tool that opened the          *)
(* database meanwhile.                                                     *)
RestoreIsWhole ==
  \A r \in Request : restore[r] = "done" =>
    \/ r \in crossed \/ collided
    \/ /\ config = pick[r] /\ (certs = pick[r] \/ r \in unwritten)
       /\ \/ staged[Here] = Of(pick[r])
          \/ db[Here] # None /\ db[Here].origin = pick[r]
=============================================================================
