--------------------------- MODULE Storage_proofs ---------------------------
(***************************************************************************)
(* Proofs about Storage, for any archives, requests and number of writes,  *)
(* whatever overlaps or fails, and wherever the service or the device goes *)
(* down: its types; that the data partition stays mounted; that an         *)
(* answered restore is whole; and that the service starts with a database  *)
(* it had or one that was asked for.                                       *)
(***************************************************************************)
EXTENDS Storage, TLAPS

(* The types, and that a restore in hand or answered has its archive.      *)
Typed == TypeOK /\ \A r \in Busy : pick[r] \in Archive

(* Who may be at work beside whom.                                         *)
Alone ==
  /\ Restoring => up
  /\ \A r \in Busy \ crossed : ~Moving /\ \A q \in Busy : q = r
  /\ opening["service"] # "off" => ~up
  /\ move = "final" => ~up /\ opening["service"] = "off"
  /\ ~collided /\ opening["tool"] # "off" =>
       opening["service"] = "off" /\ ~Restoring /\ ~Moving

(* Where the data is mounted. *)
Mounts ==
  /\ Moving => ~mounted
  /\ mounted \/ fstab = "own" \/ (\E r \in Request : saw[r] = "own")
       => move \notin {"off", "mkfs", "fstab"}
  /\ mounted \/ move \in {"record", "copy", "stop", "final"}
       => \/ fstab = "own" \/ unkept
          \/ \E r \in Request : restore[r] = "mount" /\ saw[r] = "own"

(* What a restore has written so far. *)
Written ==
  \A r \in Request :
    /\ restore[r] \in {"write", "files", "config", "mount"} =>
         tried /\ (collided \/ staged[Here] # None)
    /\ r \notin crossed =>
         /\ restore[r] \in {"config", "mount", "done"} =>
              certs = pick[r] \/ r \in unwritten
         /\ restore[r] \in {"mount", "done"} => config = pick[r]
         /\ restore[r] \in {"files", "config", "mount"} =>
              collided \/ staged[Here] = Of(pick[r])
         /\ restore[r] = "done" =>
              \/ collided
              \/ staged[Here] = Of(pick[r])
              \/ staged[Here] = None /\ db[Here] # None /\ db[Here].origin = pick[r]

(* What the next start of the service finds in a place. *)
Outcome(p) == IF staged[p] # None THEN staged[p] ELSE db[p]

(* A database with its own log or none. *)
Sound(p) ==
  /\ staged[p] \in {None, Torn} \union {Of(a) : a \in Archive}
  /\ staged[p] = None =>
       /\ db[p] # None
       /\ db[p] # Torn => db[p].origin # None /\ wal[p] \in {None, db[p].origin}

(* The exchange, and the database that is open. *)
Exchanging ==
  /\ \A p \in Place : program[p] => Sound(p)
  /\ \A x \in Process :
       /\ opening[x] \in {"removeDb", "removeWal", "rename"} => staged[Here] # None
       /\ opening[x] \in {"removeWal", "rename"} => ~linked
       /\ opening[x] = "rename" => wal[Here] = None
       /\ opening[x] = "open" => staged[Here] = None
       /\ opening[x] # "off" => program[Here]
  /\ up => program[Here]
  /\ held.origin # None
  /\ linked => up /\ db[Here] = held /\ wal[Here] = held.origin
  /\ up /\ ~tried => linked /\ staged[Here] = None

(* Where the data is that the service had last. *)
Home == IF mounted /\ program["part"] THEN "part" ELSE "root"

(* What the service will find. *)
Known ==
  /\ Restoring => due = None
  /\ up /\ due # None => ~linked \/ staged[Here] # None
  /\ program["part"] /\ ~late => Outcome("part") = Outcome("root")
  /\ ~moved => /\ ~tried => Outcome(Home) = held
               /\ due # None => Outcome(Home) = Of(due)

----------------------------------------------------------------------------
(* Types.                                                                  *)
LEMMA ContentType ==
  /\ \A o \in Origin \union {None} : Of(o) \in Content /\ Of(o).origin = o
  /\ Fresh \in Content /\ Fresh.origin = None
  /\ Here \in Place
  BY DataStoreAssumption DEF Of, Content, Fresh, Here, Place

LEMMA FoundType ==
  ASSUME TypeOK
  PROVE  /\ Found \in Content \union {Torn, Mixed}
         /\ Found \notin {Torn, Mixed} => Found \in Content
  <1>1. db[Here] \in File
    BY ContentType DEF TypeOK, StoreTypeOK
  <1> QED
    BY <1>1, ContentType DEF Found, File

LEMMA TypedInit == Init => Typed
  <1> SUFFICES ASSUME Init PROVE Typed
    OBVIOUS
  <1>1. Of(Device) \in Content
    BY ContentType DEF Origin
  <1>2. program \in [Place -> BOOLEAN]
    BY DEF Init, StoreInit
  <1>3. StoreTypeOK
    BY <1>1, <1>2 DEF Init, StoreInit, StoreTypeOK, File, Origin, Place, Process
  <1> QED
    BY <1>3 DEF Init, Typed, TypeOK, Origin, Busy, InHand

(* The steps of openDB.                                                    *)
LEMMA TypedOpen ==
  ASSUME TypeOK, NEW x \in Process, RemoveDb(x) \/ RemoveWal(x) \/ Rename(x) \/ Open(x)
  PROVE  StoreTypeOK'
  <1> USE ContentType DEF TypeOK, StoreTypeOK, At
  <1>1. CASE RemoveDb(x)
    BY <1>1 DEF RemoveDb, File, history
  <1>2. CASE RemoveWal(x)
    BY <1>2 DEF RemoveWal, history
  <1>3. CASE Rename(x)
    <2>1. staged[Here] \in File
      OBVIOUS
    <2>2. CASE staged[Here] = None
      BY <1>3, <2>2 DEF Rename, history
    <2>3. CASE staged[Here] # None
      BY <1>3, <2>1, <2>3 DEF Rename, File, history
    <2> QED
      BY <2>2, <2>3
  <1>4. CASE Open(x)
    <2>1. opening' \in [Process -> {"off", "removeDb", "removeWal", "rename", "open"}]
      BY <1>4 DEF Open
    <2>3. CASE Found \in {Torn, Mixed}
      BY <1>4, <2>1, <2>3 DEF Open
    <2>4. CASE Found \notin {Torn, Mixed}
      <3>1. Found \in Content /\ Found.origin \in Origin \union {None}
        BY <2>4, FoundType DEF Content
      <3>2. db' \in [Place -> File] /\ wal' \in [Place -> Origin \union {None}]
        BY <1>4, <2>4, <3>1 DEF Open, File
      <3>3. UNCHANGED <<staged, program, mounted, late>>
        BY <1>4 DEF Open
      <3>4. CASE x = "tool"
        <4>1. UNCHANGED <<up, linked, held, tried, due, moved>>
          BY <1>4, <2>4, <3>4 DEF Open
        <4> QED
          BY <2>1, <3>2, <3>3, <4>1
      <3>5. CASE x # "tool"
        <4>1. /\ up' = TRUE /\ linked' = TRUE /\ held' = Found
              /\ tried' = FALSE /\ due' = None /\ moved' = FALSE
          BY <1>4, <2>4, <3>5 DEF Open
        <4> QED
          BY <2>1, <3>1, <3>2, <3>3, <4>1
      <3> QED
        BY <3>4, <3>5
    <2> QED
      BY <2>3, <2>4
  <1> QED
    BY <1>1, <1>2, <1>3, <1>4

LEMMA TypedTouch ==
  ASSUME TypeOK, Touch
  PROVE  late' \in BOOLEAN /\ moved' \in BOOLEAN
  <1>1. late' \in BOOLEAN
    BY Zenon DEF Touch
  <1> QED
    BY <1>1 DEF Touch, TypeOK, StoreTypeOK

LEMMA TypedMount ==
  ASSUME TypeOK, NEW on, Mount(on), on \in BOOLEAN
  PROVE  mounted' \in BOOLEAN /\ late' \in BOOLEAN /\ moved' \in BOOLEAN
  <1>1. moved' \in BOOLEAN
    BY Zenon DEF Mount
  <1> QED
    BY <1>1 DEF Mount, TypeOK, StoreTypeOK

LEMMA TypedWrite ==
  ASSUME TypeOK, Write
  PROVE  StoreTypeOK' /\ held'.origin = held.origin
  <1> USE DEF TypeOK, StoreTypeOK
  <1>1. held' = [held EXCEPT !.writes = @ + 1] /\ held.writes \in 0..MaxWrites
        /\ held.writes < MaxWrites
    BY DEF Write, Content
  <1>2. held' \in Content /\ held'.origin = held.origin
    BY <1>1, DataStoreAssumption DEF Content
  <1>3. db' \in [Place -> File]
    BY <1>2, ContentType DEF Write, File
  <1>4. late' \in BOOLEAN /\ moved' \in BOOLEAN
    BY TypedTouch DEF Write
  <1> QED
    BY <1>2, <1>3, <1>4 DEF Write

(* What is forgotten, and what a tool that is met leaves behind.           *)
LEMMA TypedForget ==
  ASSUME TypeOK, NEW S, Forget(S)
  PROVE  /\ pick' \in [Request -> Archive \union {None}]
         /\ saw' \in [Request -> {"none", "own", "other"}]
         /\ unwritten' \subseteq Request /\ crossed' \subseteq Request
         /\ \A r \in Request : r \notin S => pick'[r] = pick[r]
  BY DEF Forget, TypeOK

LEMMA TypedCut ==
  ASSUME Typed, CutOff
  PROVE  /\ restore' \in [Request -> {"off", "stage", "write", "files", "config",
                                     "mount", "done", "over"}]
         /\ pick' \in [Request -> Archive \union {None}]
         /\ saw' \in [Request -> {"none", "own", "other"}]
         /\ unwritten' \subseteq Request /\ crossed' \subseteq Request
         /\ unkept' \in BOOLEAN /\ collided' \in BOOLEAN
         /\ \A r \in Busy' : pick'[r] \in Archive
  <1>1. unkept' \in BOOLEAN
    BY Zenon DEF CutOff
  <1>2. \A r \in Busy' : r \in Busy /\ ~InHand(r)
    BY DEF CutOff, Busy, InHand, Typed, TypeOK
  <1> DEFINE S == {r \in Request : InHand(r)}
  <1>3. Forget(S)
    BY DEF CutOff
  <1>4. \A r \in Busy' : pick'[r] = pick[r] /\ r \in Busy
    BY <1>2, <1>3, TypedForget DEF Typed, Busy
  <1>5. restore' \in [Request -> {"off", "stage", "write", "files", "config",
                                 "mount", "done", "over"}]
    BY DEF CutOff, Typed, TypeOK
  <1>6. /\ pick' \in [Request -> Archive \union {None}]
        /\ saw' \in [Request -> {"none", "own", "other"}]
        /\ unwritten' \subseteq Request /\ crossed' \subseteq Request
    BY <1>3, TypedForget DEF Typed
  <1> QED
    BY <1>1, <1>4, <1>5, <1>6 DEF CutOff, Typed, TypeOK

(* The steps of a restore.                                                 *)
LEMMA TypedRestore ==
  ASSUME Typed, NEW r \in Request, Restores(r)
  PROVE  Typed'
  <1> USE ContentType DEF Typed, TypeOK, Step
  <1>1. ASSUME NEW a \in Archive, BeginRestore(r, a) PROVE Typed'
    <2>1. collided' \in BOOLEAN
      BY <1>1, Zenon DEF BeginRestore, Meets
    <2>2. StoreTypeOK'
      BY <1>1 DEF BeginRestore, StoreTypeOK, files, history
    <2>3. crossed' \subseteq Request
      BY <1>1 DEF BeginRestore, Busy
    <2>4. \A q \in Busy' : pick'[q] \in Archive
      BY <1>1 DEF BeginRestore, Busy, InHand
    <2> QED
      BY <1>1, <2>1, <2>2, <2>3, <2>4 DEF BeginRestore, device
  <1>2. CASE Stage(r) \/ WriteStaged(r)
    <2>1. r \in Busy /\ pick[r] \in Archive
      BY <1>2 DEF Stage, WriteStaged, Busy, InHand
    <2>2. late' \in BOOLEAN /\ moved' \in BOOLEAN
      BY <1>2, TypedTouch DEF Stage, WriteStaged
    <2>3. Of(pick[r]) \in File /\ Torn \in File
      BY <2>1 DEF File, Origin
    <2>4. /\ db' \in [Place -> File] /\ staged' \in [Place -> File]
          /\ UNCHANGED <<wal, program, mounted, opening, up, linked, held, due>>
          /\ tried' \in BOOLEAN
      BY <1>2, <2>3 DEF Stage, WriteStaged, processes, StoreTypeOK
    <2>5. StoreTypeOK'
      BY <2>2, <2>4 DEF StoreTypeOK
    <2>6. \A q \in Busy' : q \in Busy
      BY <1>2, <2>1 DEF Stage, WriteStaged, Busy, InHand
    <2> QED
      BY <1>2, <2>5, <2>6 DEF Stage, WriteStaged, device, causes
  <1>3. CASE StageFails(r)
    <2>1. StoreTypeOK'
      BY <1>3 DEF StageFails, storeVars, StoreTypeOK
    <2>2. \A q \in Busy' : q \in Busy /\ q \notin {r}
      BY <1>3 DEF StageFails, Busy, InHand
    <2>3. \A q \in Busy' : pick'[q] = pick[q] /\ q \in Busy
      BY <1>3, <2>2, TypedForget DEF StageFails, Busy
    <2>4. /\ pick' \in [Request -> Archive \union {None}]
          /\ saw' \in [Request -> {"none", "own", "other"}]
          /\ unwritten' \subseteq Request /\ crossed' \subseteq Request
      BY <1>3, TypedForget DEF StageFails
    <2> QED
      BY <1>3, <2>1, <2>3, <2>4 DEF StageFails, device
  <1>4. CASE WriteFiles(r)
    <2>1. r \in Busy /\ pick[r] \in Archive /\ fstab \in {"none", "own", "other"}
      BY <1>4 DEF WriteFiles, Busy, InHand
    <2>2. certs' \in Origin /\ unwritten' \subseteq Request
      BY <1>4, <2>1 DEF WriteFiles, Origin
    <2>3. StoreTypeOK'
      BY <1>4 DEF WriteFiles, storeVars, StoreTypeOK
    <2>4. \A q \in Busy' : q \in Busy
      BY <1>4, <2>1 DEF WriteFiles, Busy, InHand
    <2> QED
      BY <1>4, <2>1, <2>2, <2>3, <2>4 DEF WriteFiles
  <1>5. CASE WriteConfig(r) \/ WriteConfigFails(r)
    <2> DEFINE a == pick[r]
    <2>1. a \in Archive /\ r \in Busy
      BY <1>5 DEF WriteConfig, WriteConfigFails, Busy, InHand
    <2>2. Unpack(a) \/ UNCHANGED <<config, fstab, db, wal, linked>>
      BY <1>5 DEF WriteConfig, WriteConfigFails
    <2>3. Of(a) \in File /\ a \in Origin
      BY <2>1, ContentType DEF File, Origin
    <2>4. unkept' \in BOOLEAN
      <3>1. CASE WriteConfig(r)
        BY <3>1, Zenon DEF WriteConfig
      <3>2. CASE WriteConfigFails(r)
        BY <3>2 DEF WriteConfigFails
      <3> QED
        BY <1>5, <3>1, <3>2
    <2> HIDE DEF a
    <2>5. /\ config' \in Origin /\ fstab' \in {"none", "own", "other"}
          /\ db' \in [Place -> File] /\ wal' \in [Place -> Origin \union {None}]
      BY <2>2, <2>3 DEF Unpack, StoreTypeOK
    <2>6. linked' \in BOOLEAN
      BY <2>2 DEF Unpack, StoreTypeOK
    <2>7. StoreTypeOK'
      BY <1>5, <2>5, <2>6 DEF WriteConfig, WriteConfigFails, history, StoreTypeOK
    <2>8. CASE WriteConfig(r)
      <3>1. \A q \in Busy' : q \in Busy
        BY <2>1, <2>8 DEF WriteConfig, Busy, InHand
      <3> QED
        BY <2>4, <2>5, <2>7, <2>8, <3>1 DEF WriteConfig
    <2>9. CASE WriteConfigFails(r)
      <3>1. \A q \in Busy' : q \in Busy /\ q \notin {r}
        BY <2>9 DEF WriteConfigFails, Busy, InHand
      <3>2. \A q \in Busy' : pick'[q] = pick[q] /\ q \in Busy
        BY <2>9, <3>1, TypedForget DEF WriteConfigFails, Busy
      <3>3. /\ pick' \in [Request -> Archive \union {None}]
            /\ saw' \in [Request -> {"none", "own", "other"}]
            /\ unwritten' \subseteq Request /\ crossed' \subseteq Request
        BY <2>9, TypedForget DEF WriteConfigFails
      <3> QED
        BY <2>4, <2>5, <2>7, <2>9, <3>2, <3>3 DEF WriteConfigFails
    <2> QED
      BY <1>5, <2>8, <2>9
  <1>6. CASE KeepMount(r)
    <2>1. pick[r] \in Archive /\ EntryToKeep(r) \in {"none", "own", "other"} /\ r \in Busy
      BY <1>6 DEF KeepMount, EntryToKeep, Busy, InHand
    <2>2. unkept' \in BOOLEAN
      <3>1. CASE unkept' = TRUE \/ unkept' = unkept
        BY <3>1
      <3>2. CASE unkept' = (saw[r] = "other")
        BY <3>2, Zenon
      <3> QED
        BY <1>6, <3>1, <3>2 DEF KeepMount
    <2>3. StoreTypeOK'
      BY <1>6, <2>1 DEF KeepMount, files, history, StoreTypeOK
    <2>4. \A q \in Busy' : q \in Busy
      BY <1>6, <2>1 DEF KeepMount, Busy, InHand
    <2> QED
      BY <1>6, <2>1, <2>2, <2>3, <2>4 DEF KeepMount
  <1> QED
    BY <1>1, <1>2, <1>3, <1>4, <1>5, <1>6 DEF Restores

(* The steps of the move.                                                  *)
LEMMA TypedMove ==
  ASSUME Typed, Moves
  PROVE  Typed'
  <1> USE DEF Typed, TypeOK
  <1>1. CASE BeginMove
    <2>1. collided' \in BOOLEAN
      BY <1>1, Zenon DEF BeginMove, Meets
    <2> QED
      BY <1>1, <2>1 DEF BeginMove, storeVars, device, requests, StoreTypeOK, Busy, InHand
  <1>2. CASE MakePart \/ RecordPart \/ CopyFails
    <2>1. /\ UNCHANGED <<storeVars, device, requests, causes>>
          /\ move' \in {"fstab", "failed", "copy"}
      BY <1>2 DEF MakePart, RecordPart, CopyFails
    <2> QED
      BY <2>1 DEF storeVars, device, requests, causes, StoreTypeOK, Busy, InHand
  <1>3. CASE EnterFstab
    <2>1. unkept' \in BOOLEAN
      <3>1. unkept' = FALSE \/ unkept' = unkept
        BY <1>3 DEF EnterFstab
      <3> QED
        BY <3>1
    <2>2. fstab' \in {"none", "own", "other"} /\ move' \in {"record", "failed"}
      BY <1>3 DEF EnterFstab
    <2> QED
      BY <1>3, <2>1, <2>2 DEF EnterFstab, storeVars, requests, StoreTypeOK, Busy, InHand
  <1>4. CASE CopyData
    <2>1. StoreTypeOK'
      BY <1>4 DEF CopyData, CopyFile, Place, processes, StoreTypeOK
    <2> QED
      BY <1>4, <2>1 DEF CopyData, device, requests, causes, Busy, InHand
  <1>5. CASE StopForMove
    <2>1. StoreTypeOK'
      BY <1>5 DEF StopForMove, Ends, files, history, Process, StoreTypeOK
    <2> QED
      BY <1>5, <2>1, TypedCut DEF StopForMove, device
  <1>6. CASE MountPart
    <2>1. mounted' \in BOOLEAN /\ late' \in BOOLEAN /\ moved' \in BOOLEAN
      BY <1>6, TypedMount DEF MountPart, history, StoreTypeOK
    <2>2. StoreTypeOK'
      BY <1>6, <2>1 DEF MountPart, files, processes, StoreTypeOK
    <2> QED
      BY <1>6, <2>2 DEF MountPart, device, requests, causes, Busy, InHand
  <1> QED
    BY <1>1, <1>2, <1>3, <1>4, <1>5, <1>6 DEF Moves

LEMMA TypedNext == Typed /\ [Next]_vars => Typed'
  <1> SUFFICES ASSUME Typed, [Next]_vars PROVE Typed'
    OBVIOUS
  <1> USE DEF Typed, TypeOK
  <1>1. ASSUME NEW r \in Request, Restores(r) PROVE Typed'
    BY <1>1, TypedRestore
  <1>2. CASE Moves
    BY <1>2, TypedMove
  <1>3. CASE StartService \/ StartTool
    <2>1. collided' \in BOOLEAN
      <3>1. CASE StartService
        BY <3>1, Zenon DEF StartService, Meets
      <3>2. CASE StartTool
        BY <3>2, Zenon DEF StartTool
      <3> QED
        BY <1>3, <3>1, <3>2
    <2>2. StoreTypeOK'
      BY <1>3 DEF StartService, StartTool, Start, At, StoreTypeOK, files, history, Process
    <2> QED
      BY <1>3, <2>1, <2>2 DEF StartService, StartTool, device, requests, Busy, InHand
  <1>4. ASSUME NEW x \in Process, OpenDB(x) PROVE Typed'
    BY <1>4, TypedOpen DEF OpenDB, device, requests, causes, Busy, InHand
  <1>5. CASE ServiceWrites
    BY <1>5, TypedWrite DEF ServiceWrites, device, requests, causes, Busy, InHand
  <1>6. CASE Restart
    <2>1. StoreTypeOK'
      BY <1>6 DEF Restart, Ends, files, history, Process, StoreTypeOK
    <2> QED
      BY <1>6, <2>1, TypedCut DEF Restart, device
  <1>7. CASE Reboot
    <2>1. (fstab = "own") \in BOOLEAN
      OBVIOUS
    <2>2. mounted' \in BOOLEAN /\ late' \in BOOLEAN /\ moved' \in BOOLEAN
      BY <1>7, <2>1, TypedMount DEF Reboot
    <2>3. StoreTypeOK'
      BY <1>7, <2>2 DEF Reboot, files, StoreTypeOK
    <2>4. unkept' \in BOOLEAN
      BY <1>7, Zenon DEF Reboot
    <2>5. Busy' = {}
      BY <1>7 DEF Reboot, Busy, InHand
    <2>6. /\ pick' \in [Request -> Archive \union {None}]
          /\ saw' \in [Request -> {"none", "own", "other"}]
          /\ unwritten' \subseteq Request /\ crossed' \subseteq Request
      BY <1>7, TypedForget DEF Reboot
    <2> QED
      BY <1>7, <2>3, <2>4, <2>5, <2>6 DEF Reboot, device
  <1>8. CASE UNCHANGED vars
    BY <1>8 DEF vars, storeVars, device, requests, causes, StoreTypeOK, Busy, InHand
  <1> QED
    BY <1>1, <1>2, <1>3, <1>4, <1>5, <1>6, <1>7, <1>8 DEF Next

(* Every reachable state of the data and of what changes it has the stated *)
(* types, whatever overlaps or fails.                                      *)
THEOREM TypeCorrect == Spec => []TypeOK
  <1>1. Typed => TypeOK
    BY DEF Typed
  <1> QED
    BY <1>1, TypedInit, TypedNext, PTL DEF Spec
----------------------------------------------------------------------------
(* Where a step of a restore leads from where.                             *)
Goes(r) ==
  \/ restore[r] = "stage" /\ restore'[r] = "write"
  \/ restore[r] = "write" /\ restore'[r] \in {"files", "over"}
  \/ restore[r] = "files" /\ restore'[r] = "config"
  \/ restore[r] = "config" /\ restore'[r] \in {"mount", "over"}
  \/ restore[r] = "mount" /\ restore'[r] = "done"

(* What a restore leaves alone once it has begun.                          *)
LEMMA RestoreFrame ==
  ASSUME Typed, NEW r \in Request, Restores(r), ~\E a \in Archive : BeginRestore(r, a)
  PROVE  /\ UNCHANGED <<program, mounted, opening, up, held, moved, move, collided>>
         /\ Goes(r)
         /\ \A q \in Request : q # r => /\ restore'[q] = restore[q]
                                        /\ pick'[q] = pick[q] /\ saw'[q] = saw[q]
                                        /\ (q \in unwritten' <=> q \in unwritten)
                                        /\ (q \in crossed' <=> q \in crossed)
         /\ restore'[r] # "over" =>
              /\ pick'[r] = pick[r] /\ (r \in crossed' <=> r \in crossed)
              /\ restore'[r] \notin {"config", "done"} => saw'[r] = saw[r]
              /\ restore'[r] # "config" => (r \in unwritten' <=> r \in unwritten)
  <1> USE DEF Typed, TypeOK, Step, Goes
  <1>1. CASE Stage(r)
    BY <1>1 DEF Stage, Touch, device, causes
  <1>2. CASE WriteStaged(r)
    BY <1>2 DEF WriteStaged, Touch, processes, device, causes
  <1>3. CASE StageFails(r)
    BY <1>3 DEF StageFails, Forget, storeVars, device
  <1>4. CASE WriteFiles(r)
    BY <1>4 DEF WriteFiles, storeVars
  <1>5. CASE WriteConfig(r)
    BY <1>5 DEF WriteConfig, history
  <1>6. CASE WriteConfigFails(r)
    BY <1>6 DEF WriteConfigFails, Forget, history
  <1>7. CASE KeepMount(r)
    BY <1>7 DEF KeepMount, files, history
  <1> QED
    BY <1>1, <1>2, <1>3, <1>4, <1>5, <1>6, <1>7 DEF Restores

(* Who is still busy, and beside nobody, was so before.                    *)
LEMMA RestoreBusy ==
  ASSUME Typed, NEW r \in Request, Restores(r), ~\E a \in Archive : BeginRestore(r, a)
  PROVE  /\ r \in Busy /\ InHand(r) /\ Restoring
         /\ Busy' \subseteq Busy /\ Busy' \ crossed' \subseteq Busy \ crossed
  <1> USE RestoreFrame DEF Busy, InHand, Restoring, Goes
  <1>1. r \in Busy /\ InHand(r)
    OBVIOUS
  <1>2. \A q \in Request : q \in Busy' => q \in Busy /\ (q \in crossed' <=> q \in crossed)
    OBVIOUS
  <1> QED
    BY <1>1, <1>2

(* What is cut off is no longer busy; what was answered is left alone.     *)
LEMMA CutFrame ==
  ASSUME Typed, CutOff
  PROVE  /\ \A q \in Request : ~InHand(q)'
         /\ \A q \in Request : restore'[q] = IF InHand(q) THEN "over" ELSE restore[q]
         /\ \A q \in Request : ~InHand(q) => /\ pick'[q] = pick[q] /\ saw'[q] = saw[q]
                                             /\ (q \in unwritten' <=> q \in unwritten)
                                             /\ (q \in crossed' <=> q \in crossed)
         /\ \A q \in Request : saw'[q] = "own" => saw[q] = "own"
         /\ Busy' \subseteq Busy /\ Busy' \ crossed' \subseteq Busy \ crossed
         /\ UNCHANGED collided
  <1> USE DEF CutOff, Forget, InHand, Typed, TypeOK
  <1>1. /\ \A q \in Request : ~InHand(q)'
        /\ \A q \in Request : restore'[q] = IF InHand(q) THEN "over" ELSE restore[q]
    OBVIOUS
  <1>2. \A q \in Request : ~InHand(q) => /\ pick'[q] = pick[q] /\ saw'[q] = saw[q]
                                         /\ (q \in unwritten' <=> q \in unwritten)
                                         /\ (q \in crossed' <=> q \in crossed)
    OBVIOUS
  <1>3. \A q \in Request : saw'[q] = "own" => saw[q] = "own"
    OBVIOUS
  <1>4. \A q \in Request : q \in Busy' => q \in Busy /\ (q \in crossed' <=> q \in crossed)
    BY <1>1, <1>2 DEF Busy
  <1> QED
    BY <1>1, <1>2, <1>3, <1>4 DEF Busy

LEMMA RebootFrame ==
  ASSUME Typed, Reboot
  PROVE  /\ Busy' = {} /\ \A q \in Request : restore'[q] \in {"off", "over"}
         /\ \A q \in Request : saw'[q] = "own" => saw[q] = "own"
         /\ ~Moving' /\ (move \notin {"off", "mkfs", "fstab"} =>
                          move' \notin {"off", "mkfs", "fstab"})
  BY DEF Reboot, Forget, Busy, InHand, Moving, Typed, TypeOK

(* The steps of openDB leave the requests alone.                           *)
LEMMA OpenFrame ==
  ASSUME Typed, NEW x \in Process, OpenDB(x)
  PROVE  /\ UNCHANGED <<program, mounted, late, device, requests, move, causes>>
         /\ opening[x] # "off" /\ \A y \in Process : y # x => opening'[y] = opening[y]
         /\ x = "tool" => UNCHANGED up
         /\ opening'["service"] # "off" => opening["service"] # "off" /\ UNCHANGED up
  BY DEF OpenDB, RemoveDb, RemoveWal, Rename, Open, At, history, Process, Typed, TypeOK,
         StoreTypeOK

----------------------------------------------------------------------------
(* Who may be at work beside whom.                                         *)
LEMMA AloneInit == Init => Alone
  BY DEF Init, StoreInit, Alone, Restoring, Busy, Moving, InHand, Process

LEMMA AloneRestore ==
  ASSUME Typed, Alone, NEW r \in Request, Restores(r)
  PROVE  Alone'
  <1>1. ASSUME NEW a \in Archive, BeginRestore(r, a) PROVE Alone'
    <2>1. /\ up /\ UNCHANGED <<opening, up, move>> /\ restore[r] = "off"
          /\ restore' = [restore EXCEPT ![r] = "stage"]
          /\ crossed' = IF Busy = {} /\ ~Moving THEN crossed
                        ELSE crossed \union Busy \union {r}
          /\ collided' = (collided \/ opening["tool"] # "off")
      BY <1>1 DEF BeginRestore, Step, Meets
    <2>2. Busy' = Busy \union {r}
      BY <2>1 DEF Busy, InHand, Typed, TypeOK
    <2>3. \A q \in Busy' \ crossed' : ~Moving' /\ \A p \in Busy' : p = q
      BY <2>1, <2>2 DEF Moving
    <2>4. ~collided' => opening'["tool"] = "off"
      BY <2>1
    <2> QED
      BY <2>1, <2>3, <2>4 DEF Alone
  <1>2. CASE ~\E a \in Archive : BeginRestore(r, a)
    <2>1. /\ UNCHANGED <<opening, up, move, collided>> /\ Restoring
          /\ Busy' \subseteq Busy /\ Busy' \ crossed' \subseteq Busy \ crossed
      BY <1>2, RestoreFrame, RestoreBusy
    <2> QED
      BY <2>1 DEF Alone, Moving
  <1> QED
    BY <1>1, <1>2

LEMMA AloneMove ==
  ASSUME Typed, Alone, Moves
  PROVE  Alone'
  <1>1. CASE BeginMove
    <2>1. /\ up /\ UNCHANGED <<opening, up, restore>> /\ move' = "mkfs"
          /\ crossed' = crossed \union Busy
          /\ collided' = (collided \/ opening["tool"] # "off")
      BY <1>1 DEF BeginMove, Meets, storeVars, requests
    <2>2. Busy' = Busy /\ (Restoring' <=> Restoring)
      BY <2>1 DEF Busy, InHand, Restoring
    <2>3. Busy' \ crossed' = {}
      BY <2>1, <2>2
    <2> QED
      BY <2>1, <2>2, <2>3 DEF Alone
  <1>2. CASE MakePart \/ EnterFstab \/ RecordPart \/ CopyData \/ CopyFails
    <2>1. /\ UNCHANGED <<opening, up, restore, crossed, collided>> /\ Moving
          /\ move' # "final"
      BY <1>2 DEF MakePart, EnterFstab, RecordPart, CopyData, CopyFails, storeVars,
                  processes, requests, causes, Moving
    <2>2. Busy' = Busy /\ (Restoring' <=> Restoring)
      BY <2>1 DEF Busy, InHand, Restoring
    <2> QED
      BY <2>1, <2>2 DEF Alone
  <1>3. CASE StopForMove
    <2>1. /\ ~up' /\ opening' = [opening EXCEPT !["service"] = "off"] /\ CutOff
          /\ Moving
      BY <1>3 DEF StopForMove, Ends, Moving
    <2>2. ~Restoring' /\ opening'["service"] = "off" /\ opening'["tool"] = opening["tool"]
      BY <2>1, CutFrame DEF Restoring, Process, Typed, TypeOK, StoreTypeOK
    <2>3. Busy' \ crossed' = {} /\ UNCHANGED collided
      BY <2>1, CutFrame DEF Alone
    <2> QED
      BY <2>1, <2>2, <2>3 DEF Alone
  <1>4. CASE MountPart
    <2>1. UNCHANGED <<opening, up, restore, crossed, collided>> /\ Moving /\ ~Moving'
      BY <1>4 DEF MountPart, processes, requests, causes, Moving
    <2>2. Busy' = Busy /\ (Restoring' <=> Restoring) /\ move' # "final"
      BY <2>1 DEF Busy, InHand, Restoring, Moving
    <2> QED
      BY <2>1, <2>2 DEF Alone
  <1> QED
    BY <1>1, <1>2, <1>3, <1>4 DEF Moves

LEMMA AloneNext ==
  ASSUME Typed, Alone, [Next]_vars
  PROVE  Alone'
  <1>1. ASSUME NEW r \in Request, Restores(r) PROVE Alone'
    BY <1>1, AloneRestore
  <1>2. CASE Moves
    BY <1>2, AloneMove
  <1>3. CASE StartService
    <2>1. /\ UNCHANGED <<up, restore, crossed, move>> /\ ~up /\ move # "final"
          /\ collided' = (collided \/ opening["tool"] # "off")
          /\ opening'["tool"] = opening["tool"]
      BY <1>3 DEF StartService, Start, At, Meets, requests, Process, Typed, TypeOK, StoreTypeOK
    <2>2. Busy' = Busy /\ (Restoring' <=> Restoring)
      BY <2>1 DEF Busy, InHand, Restoring
    <2> QED
      BY <2>1, <2>2 DEF Alone, Moving
  <1>4. CASE StartTool
    <2>1. /\ UNCHANGED <<up, restore, crossed, move>>
          /\ collided' = (collided \/ opening["service"] # "off" \/ Restoring \/ Moving)
          /\ opening'["service"] = opening["service"]
      BY <1>4 DEF StartTool, Start, At, requests, Process, Typed, TypeOK, StoreTypeOK
    <2>2. Busy' = Busy /\ (Restoring' <=> Restoring)
      BY <2>1 DEF Busy, InHand, Restoring
    <2> QED
      BY <2>1, <2>2 DEF Alone, Moving
  <1>5. ASSUME NEW x \in Process, OpenDB(x) PROVE Alone'
    <2>1. /\ UNCHANGED <<restore, crossed, move, collided>> /\ opening[x] # "off"
          /\ \A y \in Process : y # x => opening'[y] = opening[y]
          /\ x = "tool" => UNCHANGED up
          /\ opening'["service"] # "off" => opening["service"] # "off" /\ UNCHANGED up
      BY <1>5, OpenFrame DEF requests, causes
    <2>2. Busy' = Busy /\ (Restoring' <=> Restoring)
      BY <2>1 DEF Busy, InHand, Restoring
    <2>3. CASE x = "service"
      <3>1. ~up /\ ~Restoring /\ move # "final" /\ opening'["tool"] = opening["tool"]
        BY <2>1, <2>3 DEF Alone, Process
      <3>2. ~collided => opening["tool"] = "off"
        BY <2>1, <2>3 DEF Alone
      <3> QED
        BY <2>1, <2>2, <3>1, <3>2 DEF Alone, Moving
    <2>4. CASE x = "tool"
      <3>1. UNCHANGED up /\ opening'["service"] = opening["service"]
        BY <2>1, <2>4 DEF Process
      <3> QED
        BY <2>1, <2>2, <2>4, <3>1 DEF Alone, Moving
    <2> QED
      BY <2>3, <2>4 DEF Process
  <1>6. CASE ServiceWrites
    BY <1>6 DEF ServiceWrites, Write, requests, causes, Alone, Busy, InHand, Restoring, Moving
  <1>7. CASE Restart
    <2>1. /\ ~up' /\ opening' = [opening EXCEPT !["service"] = "off"] /\ CutOff
          /\ Moving' => Moving
      BY <1>7 DEF Restart, Ends, Moving
    <2>2. ~Restoring' /\ opening'["service"] = "off" /\ opening'["tool"] = opening["tool"]
      BY <2>1, CutFrame DEF Restoring, Process, Typed, TypeOK, StoreTypeOK
    <2>3. /\ Busy' \subseteq Busy /\ Busy' \ crossed' \subseteq Busy \ crossed
          /\ UNCHANGED collided
      BY <2>1, CutFrame
    <2> QED
      BY <2>1, <2>2, <2>3 DEF Alone
  <1>8. CASE Reboot
    <2>1. ~up' /\ opening' = [x \in Process |-> "off"]
      BY <1>8 DEF Reboot
    <2>2. Busy' = {} /\ ~Restoring' /\ ~Moving'
      BY <1>8, RebootFrame DEF Restoring, InHand
    <2> QED
      BY <2>1, <2>2 DEF Alone, Process, Moving
  <1>9. CASE UNCHANGED vars
    BY <1>9 DEF vars, storeVars, requests, causes, Alone, Busy, InHand, Restoring, Moving
  <1> QED
    BY <1>1, <1>2, <1>3, <1>4, <1>5, <1>6, <1>7, <1>8, <1>9 DEF Next

----------------------------------------------------------------------------
(* Where the data is mounted.                                              *)
LEMMA MountsInit == Init => Mounts
  BY DEF Init, StoreInit, Mounts, Moving

LEMMA MountsRestore ==
  ASSUME Typed, Mounts, NEW r \in Request, Restores(r)
  PROVE  Mounts'
  <1>1. CASE \E a \in Archive : BeginRestore(r, a)
    <2>1. /\ UNCHANGED <<mounted, move, fstab, saw, unkept>> /\ restore[r] = "off"
          /\ restore' = [restore EXCEPT ![r] = "stage"]
      BY <1>1 DEF BeginRestore, Step, device
    <2>2. \A q \in Request : restore[q] = "mount" => restore'[q] = "mount"
      BY <2>1 DEF Typed, TypeOK
    <2> QED
      BY <2>1, <2>2 DEF Mounts, Moving
  <1>2. CASE ~\E a \in Archive : BeginRestore(r, a)
    <2>1. UNCHANGED <<mounted, move>>
      BY <1>2, RestoreFrame
    <2>2. \A q \in Request : q # r => restore'[q] = restore[q] /\ saw'[q] = saw[q]
      BY <1>2, RestoreFrame
    <2>3. CASE Stage(r) \/ WriteStaged(r) \/ StageFails(r)
      <3>1. /\ UNCHANGED <<fstab, unkept>> /\ restore[r] # "mount"
            /\ saw'[r] \in {saw[r], "none"}
        BY <2>3 DEF Stage, WriteStaged, StageFails, Step, Forget, device, causes
      <3> QED
        BY <2>1, <2>2, <3>1 DEF Mounts, Moving
    <2>4. CASE WriteFiles(r)
      <3>1. UNCHANGED <<fstab, unkept>> /\ restore[r] # "mount" /\ saw'[r] = fstab
        BY <2>4 DEF WriteFiles, Step, Typed, TypeOK
      <3> QED
        BY <2>1, <2>2, <3>1 DEF Mounts, Moving
    <2>5. CASE WriteConfig(r)
      <3>1. /\ fstab' \in {"none", "other"} /\ restore'[r] = "mount" /\ saw'[r] = saw[r]
            /\ unkept' \/ saw[r] = "own"
        BY <2>5 DEF WriteConfig, Unpack, Step, Typed, TypeOK
      <3> QED
        BY <2>1, <2>2, <3>1 DEF Mounts, Moving
    <2>6. CASE WriteConfigFails(r)
      <3>1. /\ restore[r] # "mount" /\ saw'[r] = "none"
            /\ \/ fstab' \in {"none", "other"} /\ unkept'
               \/ UNCHANGED <<fstab, unkept>>
        BY <2>6 DEF WriteConfigFails, Unpack, Step, Forget, Typed, TypeOK
      <3> QED
        BY <2>1, <2>2, <3>1 DEF Mounts, Moving
    <2>7. CASE KeepMount(r)
      <3>1. saw'[r] = "none"
        BY <2>7 DEF KeepMount, Typed, TypeOK
      <3>2. \/ fstab' = fstab /\ unkept'
            \/ fstab' = fstab /\ UNCHANGED unkept /\ saw[r] = "none"
            \/ fstab' = "own" /\ saw[r] = "own"
            \/ fstab' = "other" /\ unkept'
        BY <2>7 DEF KeepMount, EntryToKeep, Typed, TypeOK
      <3> QED
        BY <2>1, <2>2, <3>1, <3>2 DEF Mounts, Moving
    <2> QED
      BY <1>2, <2>3, <2>4, <2>5, <2>6, <2>7 DEF Restores
  <1> QED
    BY <1>1, <1>2

(* What is cut off can no longer put its entry back. *)
LEMMA CutUnkept ==
  ASSUME Typed, CutOff
  PROVE  /\ unkept => unkept'
         /\ (\E r \in Request : restore[r] = "mount") => unkept'
  BY DEF CutOff

LEMMA MountsMove ==
  ASSUME Typed, Mounts, Moves
  PROVE  Mounts'
  <1>1. CASE BeginMove \/ MakePart \/ RecordPart \/ CopyFails \/ CopyData
    <2>1. UNCHANGED <<mounted, fstab, restore, saw, unkept>>
      BY <1>1 DEF BeginMove, MakePart, RecordPart, CopyFails, CopyData, storeVars,
                  processes, device, requests, causes
    <2>2. \/ move = "off" /\ move' = "mkfs"
          \/ move = "mkfs" /\ move' \in {"fstab", "failed"}
          \/ move = "record" /\ move' \in {"copy", "failed"}
          \/ move = "copy" /\ move' \in {"stop", "failed"}
      BY <1>1 DEF BeginMove, MakePart, RecordPart, CopyFails, CopyData
    <2> QED
      BY <2>1, <2>2 DEF Mounts, Moving
  <1>2. CASE EnterFstab
    <2>1. /\ UNCHANGED <<mounted, restore, saw>> /\ move = "fstab"
          /\ \/ fstab' = "own" /\ move' = "record"
             \/ UNCHANGED <<fstab, unkept>> /\ move' = "failed"
      BY <1>2 DEF EnterFstab, storeVars, requests
    <2> QED
      BY <2>1 DEF Mounts, Moving
  <1>3. CASE StopForMove
    <2>1. UNCHANGED <<mounted, fstab>> /\ move = "stop" /\ move' = "final" /\ CutOff
      BY <1>3 DEF StopForMove, device
    <2>2. \A q \in Request : saw'[q] = "own" => saw[q] = "own"
      BY <2>1, CutFrame
    <2> QED
      BY <2>1, <2>2, CutUnkept DEF Mounts, Moving
  <1>4. CASE MountPart
    <2>1. /\ UNCHANGED <<fstab, restore, saw, unkept>> /\ move = "final"
          /\ move' \in {"done", "failed"}
      BY <1>4 DEF MountPart, device, requests, causes
    <2> QED
      BY <2>1 DEF Mounts, Moving
  <1> QED
    BY <1>1, <1>2, <1>3, <1>4 DEF Moves

LEMMA MountsNext ==
  ASSUME Typed, Mounts, [Next]_vars
  PROVE  Mounts'
  <1>1. ASSUME NEW r \in Request, Restores(r) PROVE Mounts'
    BY <1>1, MountsRestore
  <1>2. CASE Moves
    BY <1>2, MountsMove
  <1>3. CASE \/ StartService \/ StartTool \/ (\E x \in Process : OpenDB(x))
             \/ ServiceWrites \/ UNCHANGED vars
    <2>1. UNCHANGED <<mounted, fstab, restore, saw, move, unkept>>
      BY <1>3 DEF StartService, StartTool, OpenDB, ServiceWrites, Start, RemoveDb,
                  RemoveWal, Rename, Open, Write, device, requests, causes, vars, storeVars
    <2> QED
      BY <2>1 DEF Mounts, Moving
  <1>4. CASE Restart
    <2>1. /\ UNCHANGED <<mounted, fstab>> /\ CutOff
          /\ move' = IF move \in {"mkfs", "fstab", "record"} THEN "failed" ELSE move
      BY <1>4 DEF Restart, device
    <2>2. \A q \in Request : saw'[q] = "own" => saw[q] = "own"
      BY <2>1, CutFrame
    <2> QED
      BY <2>1, <2>2, CutUnkept DEF Mounts, Moving
  <1>5. CASE Reboot
    <2>1. UNCHANGED fstab /\ (mounted' <=> fstab = "own")
      BY <1>5 DEF Reboot, Mount, device
    <2>2. \A q \in Request : saw'[q] = "own" => saw[q] = "own"
      BY <1>5, RebootFrame
    <2>3. ~Moving' /\ (move \notin {"off", "mkfs", "fstab"} =>
                       move' \notin {"off", "mkfs", "fstab"})
      BY <1>5, RebootFrame
    <2> QED
      BY <2>1, <2>2, <2>3 DEF Mounts, Moving
  <1> QED
    BY <1>1, <1>2, <1>3, <1>4, <1>5 DEF Next

----------------------------------------------------------------------------
(* What a restore writes.                                                  *)
LEMMA OfArchive ==
  ASSUME NEW a \in Archive
  PROVE  /\ Of(a) \in Content /\ Of(a).origin = a /\ Of(a) \notin {None, Torn, Mixed}
         /\ a # None
  BY DataStoreAssumption, ContentType DEF Origin

LEMMA WrittenInit == Init => Written
  BY DEF Init, Written

LEMMA WrittenRestore ==
  ASSUME Typed, Alone, Written, NEW r \in Request, Restores(r)
  PROVE  Written'
  <1>0. Here' = Here /\ Here \in Place
    BY ContentType DEF Restores, BeginRestore, Stage, WriteStaged, StageFails, WriteFiles,
           WriteConfig, WriteConfigFails, KeepMount, storeVars, processes, files, Here
  <1>1. CASE \E a \in Archive : BeginRestore(r, a)
    <2>1. /\ UNCHANGED <<config, certs, tried, staged, db, unwritten>>
          /\ restore[r] = "off" /\ restore' = [restore EXCEPT ![r] = "stage"]
          /\ \A q \in Request : q # r => pick'[q] = pick[q]
          /\ crossed \subseteq crossed' /\ (collided => collided')
      BY <1>1 DEF BeginRestore, Step, Meets, files, device, Typed, TypeOK
    <2> QED
      BY <1>0, <2>1 DEF Written, Typed, TypeOK
  <1>2. CASE ~\E a \in Archive : BeginRestore(r, a)
    <2>1. /\ Goes(r) /\ UNCHANGED collided /\ r \in Busy /\ InHand(r)
          /\ \A q \in Request : q # r =>
               /\ restore'[q] = restore[q] /\ pick'[q] = pick[q]
               /\ (q \in unwritten' <=> q \in unwritten)
               /\ (q \in crossed' <=> q \in crossed)
          /\ restore'[r] # "over" =>
               /\ pick'[r] = pick[r] /\ (r \in crossed' <=> r \in crossed)
               /\ restore'[r] # "config" => (r \in unwritten' <=> r \in unwritten)
      BY <1>2, RestoreFrame, RestoreBusy
    <2>2. pick[r] \in Archive /\ Of(pick[r]) # None /\ Torn # None
          /\ Of(pick[r]).origin = pick[r]
      BY <2>1, OfArchive, DataStoreAssumption DEF Typed
    (* The others are crossed, as they are beside this one.                *)
    <2>3. \A q \in Request : q # r /\ restore[q] \notin {"off", "over"} => q \in crossed
      BY <2>1 DEF Alone, Busy, InHand, Typed, TypeOK
    <2>4. staged \in [Place -> File] /\ db \in [Place -> File]
      BY DEF Typed, TypeOK, StoreTypeOK
    <2>5. CASE Stage(r) \/ WriteStaged(r)
      <3>1. /\ UNCHANGED <<config, certs>> /\ tried'
            /\ \/ restore[r] = "stage" /\ restore'[r] = "write"
                  /\ staged' = [staged EXCEPT ![Here] = Torn]
               \/ restore[r] = "write" /\ restore'[r] = "files"
                  /\ \/ staged' = [staged EXCEPT ![Here] = Of(pick[r])]
                     \/ staged[Here] = None /\ UNCHANGED staged
        <4>1. CASE Stage(r)
          BY <4>1 DEF Stage, Step, device, Typed, TypeOK
        <4>2. CASE WriteStaged(r)
          BY <4>2 DEF WriteStaged, Step, processes, device, Typed, TypeOK, Written
        <4> QED
          BY <2>5, <4>1, <4>2
      <3>2. collided \/ (staged'[Here] # None /\ (restore'[r] = "files" =>
                                                staged'[Here] = Of(pick[r])))
        BY <1>0, <2>2, <2>4, <3>1 DEF Written
      <3> QED
        BY <1>0, <2>1, <2>3, <3>1, <3>2 DEF Written, Typed, TypeOK
    <2>6. CASE StageFails(r)
      <3>1. UNCHANGED <<config, certs, tried, staged, db>> /\ restore'[r] = "over"
        BY <2>6 DEF StageFails, Step, storeVars, device, Typed, TypeOK
      <3> QED
        BY <1>0, <2>1, <3>1 DEF Written
    <2>7. CASE WriteFiles(r)
      <3>1. /\ UNCHANGED <<config, tried, staged, db>> /\ restore[r] = "files"
            /\ restore'[r] = "config" /\ (certs' = pick[r] \/ r \in unwritten')
        BY <2>7 DEF WriteFiles, Step, storeVars, device, Typed, TypeOK
      <3> QED
        BY <1>0, <2>1, <2>3, <3>1 DEF Written, Typed, TypeOK
    <2>8. CASE WriteConfig(r)
      <3>1. /\ UNCHANGED <<certs, tried, staged>> /\ restore[r] = "config"
            /\ restore'[r] = "mount" /\ config' = pick[r]
        BY <2>8 DEF WriteConfig, Unpack, Step, Typed, TypeOK
      <3> QED
        BY <1>0, <2>1, <2>3, <3>1 DEF Written, Typed, TypeOK
    <2>9. CASE WriteConfigFails(r)
      <3>1. UNCHANGED <<certs, tried, staged>> /\ restore'[r] = "over"
        BY <2>9 DEF WriteConfigFails, Step, Typed, TypeOK
      <3> QED
        BY <1>0, <2>1, <2>3, <3>1 DEF Written, Typed, TypeOK
    <2>10. CASE KeepMount(r)
      <3>1. /\ UNCHANGED <<config, certs, tried, staged, db>> /\ restore[r] = "mount"
            /\ restore'[r] = "done"
        BY <2>10 DEF KeepMount, Step, files, Typed, TypeOK
      <3> QED
        BY <1>0, <2>1, <2>3, <3>1 DEF Written, Typed, TypeOK
    <2> QED
      BY <1>2, <2>5, <2>6, <2>7, <2>8, <2>9, <2>10 DEF Restores
  <1> QED
    BY <1>1, <1>2

(* Once a tool has met the service, that stays so. *)
LEMMA Latched ==
  ASSUME Typed, [Next]_vars, collided
  PROVE  collided'
  <1>1. ASSUME NEW r \in Request, Restores(r) PROVE collided'
    <2>1. CASE \E a \in Archive : BeginRestore(r, a)
      BY <2>1 DEF BeginRestore, Meets
    <2>2. CASE ~\E a \in Archive : BeginRestore(r, a)
      BY <1>1, <2>2, RestoreFrame
    <2> QED
      BY <2>1, <2>2
  <1>2. CASE Moves
    BY <1>2, CutFrame DEF Moves, BeginMove, MakePart, EnterFstab, RecordPart, CopyData,
                CopyFails, StopForMove, MountPart, Meets, causes
  <1>3. CASE StartService \/ StartTool \/ ServiceWrites \/ Reboot
    BY <1>3 DEF StartService, StartTool, ServiceWrites, Reboot, Meets, causes
  <1>4. ASSUME NEW x \in Process, OpenDB(x) PROVE collided'
    BY <1>4 DEF OpenDB, causes
  <1>5. CASE Restart \/ UNCHANGED vars
    BY <1>5, CutFrame DEF Restart, vars, causes
  <1> QED
    BY <1>1, <1>2, <1>3, <1>4, <1>5 DEF Next

(* What a database is found to be, when there is no other to take its      *)
(* place.                                                                  *)
LEMMA FoundSound ==
  ASSUME Typed, Sound(Here), staged[Here] = None
  PROVE  /\ Found = db[Here] /\ Found # Mixed /\ Found # Fresh
         /\ Found # Torn => Found \in Content /\ Found.origin # None
  <1>1. db[Here] \in Content \union {Torn}
    BY ContentType DEF Typed, TypeOK, StoreTypeOK, File, Sound
  <1>2. Torn \notin Content /\ Mixed \notin Content /\ Torn # Mixed
    BY DataStoreAssumption
  <1>3. Fresh \in Content /\ Fresh.origin = None
    BY ContentType
  <1>4. Found = db[Here]
    BY DEF Found, Sound
  <1> QED
    BY <1>1, <1>2, <1>3, <1>4 DEF Sound

(* The exchange gives the database the contents that were staged, and      *)
(* opening it changes nothing.                                             *)
LEMMA OpenKeeps ==
  ASSUME Typed, Exchanging, NEW x \in Process, OpenDB(x)
  PROVE  /\ Here' = Here /\ Here \in Place /\ program[Here] /\ Sound(Here)
         /\ UNCHANGED <<program, mounted>>
         /\ \A p \in Place : p # Here => UNCHANGED <<db[p], staged[p], wal[p]>>
         /\ \/ RemoveDb(x) /\ staged[Here] # None /\ UNCHANGED staged
            \/ RemoveWal(x) /\ staged[Here] # None /\ UNCHANGED <<db, staged>>
            \/ /\ Rename(x) /\ staged[Here] # None /\ wal[Here] = None
               /\ db' = [db EXCEPT ![Here] = staged[Here]]
               /\ staged' = [staged EXCEPT ![Here] = None]
            \/ /\ Open(x) /\ staged[Here] = None /\ UNCHANGED <<db, staged>>
               /\ Found = db[Here]
  <1> USE DEF Typed, TypeOK, StoreTypeOK
  <1>1. /\ UNCHANGED <<program, mounted>> /\ Here' = Here /\ Here \in Place
        /\ opening[x] # "off"
    BY OpenFrame, ContentType DEF Here
  <1>2. program[Here] /\ Sound(Here)
    BY <1>1 DEF Exchanging
  <1>3. CASE RemoveDb(x)
    BY <1>1, <1>2, <1>3 DEF RemoveDb, Exchanging
  <1>4. CASE RemoveWal(x)
    BY <1>1, <1>2, <1>4 DEF RemoveWal, Exchanging
  <1>5. CASE Rename(x)
    BY <1>1, <1>2, <1>5 DEF Rename, Exchanging
  <1>6. CASE Open(x)
    <2>1. staged[Here] = None /\ UNCHANGED staged
      BY <1>6 DEF Open, Exchanging
    <2>2. Found = db[Here]
      BY <1>2, <2>1, FoundSound
    <2>3. db' = db /\ \A p \in Place : p # Here => UNCHANGED wal[p]
      BY <1>6, <2>2 DEF Open
    <2> QED
      BY <1>1, <1>2, <1>6, <2>1, <2>2, <2>3
  <1> QED
    BY <1>3, <1>4, <1>5, <1>6 DEF OpenDB

LEMMA WrittenOpen ==
  ASSUME Typed, Alone, Written, collided \/ Exchanging, NEW x \in Process, OpenDB(x)
  PROVE  Written'
  <1>1. /\ UNCHANGED <<config, certs, restore, pick, unwritten, crossed, collided>>
        /\ opening[x] # "off" /\ Here' = Here /\ Here \in Place
    BY OpenFrame, ContentType DEF device, requests, causes, Here
  <1>2. CASE Restoring
    <2>1. collided
      BY <1>1, <1>2 DEF Alone, Process
    <2>2. UNCHANGED tried
      <3>1. x = "tool"
        BY <1>1, <1>2 DEF Alone, Process
      <3> QED
        BY <3>1 DEF OpenDB, RemoveDb, RemoveWal, Rename, Open
    <2> QED
      BY <1>1, <2>1, <2>2 DEF Written
  <1>3. CASE ~Restoring
    <2>1. \A q \in Request : restore[q] \notin {"write", "files", "config", "mount"}
      BY <1>3 DEF Restoring, InHand
    <2>2. CASE collided
      BY <1>1, <2>1, <2>2 DEF Written
    <2>3. CASE Exchanging
      <3>1. ASSUME NEW a \in Archive,
                   \/ staged[Here] = Of(a)
                   \/ staged[Here] = None /\ db[Here] # None /\ db[Here].origin = a
            PROVE  \/ staged'[Here] = Of(a)
                   \/ staged'[Here] = None /\ db'[Here] # None /\ db'[Here].origin = a
        BY <2>3, <3>1, OpenKeeps, OfArchive DEF Typed, TypeOK, StoreTypeOK
      <3>2. \A q \in Request : restore[q] = "done" => pick[q] \in Archive
        BY DEF Typed, Busy
      <3> QED
        BY <1>1, <2>1, <3>1, <3>2 DEF Written
    <2> QED
      BY <2>2, <2>3
  <1> QED
    BY <1>2, <1>3

LEMMA WrittenMove ==
  ASSUME Typed, Alone, Mounts, Written, Moves
  PROVE  Written'
  <1>1. CASE BeginMove \/ MakePart \/ EnterFstab \/ RecordPart \/ CopyFails
    <2>1. /\ UNCHANGED <<storeVars, config, certs, restore, pick, unwritten>>
          /\ crossed \subseteq crossed'
      BY <1>1 DEF BeginMove, MakePart, EnterFstab, RecordPart, CopyFails, device, requests,
                  causes
    <2>2. collided => collided'
      BY Latched DEF Next
    <2>3. Here' = Here
      BY <2>1 DEF storeVars, Here
    <2> QED
      BY <2>1, <2>2, <2>3 DEF Written, storeVars
  <1>2. CASE CopyData
    <2>1. /\ UNCHANGED <<config, certs, tried, mounted, restore, pick, unwritten, crossed,
                        collided>>
          /\ Moving /\ staged' = CopyFile(staged)
      BY <1>2 DEF CopyData, Moving, processes, device, requests, causes
    <2>2. Here = "root" /\ Here' = "root" /\ staged'["root"] = staged["root"]
      BY <2>1 DEF Mounts, Here, CopyFile, Typed, TypeOK, StoreTypeOK, Place
    <2>3. \A q \in Request : restore[q] \notin {"off", "over"} => q \in crossed
      BY <2>1 DEF Alone, Busy, InHand, Typed, TypeOK
    <2> QED
      BY <2>1, <2>2, <2>3 DEF Written, Typed, TypeOK
  <1>3. CASE StopForMove \/ MountPart
    <2>1. Moving /\ \A q \in Request : ~InHand(q)'
      <3>1. CASE StopForMove
        BY <3>1, CutFrame DEF StopForMove, Moving
      <3>2. CASE MountPart
        BY <3>2 DEF MountPart, Alone, Restoring, InHand, requests, Moving
      <3> QED
        BY <1>3, <3>1, <3>2
    <2>2. Busy' \subseteq crossed'
      <3>1. CASE StopForMove
        <4>1. Busy' \ crossed' \subseteq Busy \ crossed
          BY <3>1, CutFrame DEF StopForMove
        <4> QED
          BY <2>1, <4>1 DEF Alone
      <3>2. CASE MountPart
        BY <2>1, <3>2 DEF MountPart, Alone, Busy, InHand, requests, causes
      <3> QED
        BY <1>3, <3>1, <3>2
    <2> QED
      BY <2>1, <2>2 DEF Written, Busy, InHand
  <1> QED
    BY <1>1, <1>2, <1>3 DEF Moves

LEMMA WrittenNext ==
  ASSUME Typed, Alone, Mounts, Written, collided \/ Exchanging, [Next]_vars
  PROVE  Written'
  <1>1. ASSUME NEW r \in Request, Restores(r) PROVE Written'
    BY <1>1, WrittenRestore
  <1>2. CASE Moves
    BY <1>2, WrittenMove
  <1>3. CASE StartService \/ StartTool \/ UNCHANGED vars
    <2>1. /\ UNCHANGED <<db, staged, tried, mounted, config, certs, restore, pick,
                        unwritten, crossed>>
      BY <1>3 DEF StartService, StartTool, Start, vars, storeVars, files, device,
                  requests, causes
    <2>2. collided => collided'
      BY Latched
    <2>3. Here' = Here
      BY <2>1 DEF Here
    <2> QED
      BY <2>1, <2>2, <2>3 DEF Written
  <1>4. ASSUME NEW x \in Process, OpenDB(x) PROVE Written'
    BY <1>4, WrittenOpen
  <1>5. CASE ServiceWrites
    <2>1. /\ UNCHANGED <<staged, tried, mounted, config, certs, restore, pick, unwritten,
                        crossed, collided>>
          /\ db' = IF linked THEN [db EXCEPT ![Here] = held'] ELSE db
      BY <1>5 DEF ServiceWrites, Write, device, requests, causes
    <2>2. held' \in Content /\ held'.origin = held.origin /\ held' # None
      BY <1>5, TypedWrite, DataStoreAssumption DEF ServiceWrites, Typed, TypeOK, StoreTypeOK
    <2>3. Here' = Here /\ Here \in Place
      BY <2>1, ContentType DEF Here
    <2>4. collided \/ (db[Here] # None => /\ db'[Here] # None
                                          /\ db'[Here].origin = db[Here].origin)
      BY <2>1, <2>2, <2>3 DEF Exchanging, Typed, TypeOK, StoreTypeOK
    <2> QED
      BY <2>1, <2>3, <2>4 DEF Written
  <1>6. CASE Restart
    <2>1. /\ UNCHANGED <<db, staged, tried, mounted, config, certs>> /\ CutOff
      BY <1>6 DEF Restart, files, device
    <2>2. Here' = Here
      BY <2>1 DEF Here
    <2>3. /\ \A q \in Request : ~InHand(q)' /\ UNCHANGED collided
          /\ \A q \in Request : restore'[q] = "done" =>
               /\ restore[q] = "done" /\ pick'[q] = pick[q]
               /\ (q \in unwritten' <=> q \in unwritten)
               /\ (q \in crossed' <=> q \in crossed)
      BY <2>1, CutFrame DEF InHand
    <2> QED
      BY <2>1, <2>2, <2>3 DEF Written, InHand
  <1>7. CASE Reboot
    BY <1>7, RebootFrame DEF Written
  <1> QED
    BY <1>1, <1>2, <1>3, <1>4, <1>5, <1>6, <1>7 DEF Next

----------------------------------------------------------------------------
(* The exchange.                                                           *)
LEMMA ExchangingInit == Init => Exchanging
  <1> SUFFICES ASSUME Init PROVE Exchanging
    OBVIOUS
  <1>1. Of(Device).origin = Device /\ Of(Device) \in Content /\ Device # None
        /\ Of(Device) # None
    BY DataStoreAssumption, ContentType DEF Origin
  <1> QED
    BY <1>1 DEF Init, StoreInit, Exchanging, Sound, Place, Process, Here

LEMMA ExchangingRestore ==
  ASSUME Typed, Alone, Written, Exchanging, NEW r \in Request, Restores(r), ~collided'
  PROVE  Exchanging'
  <1> USE DEF Exchanging, Typed, TypeOK, StoreTypeOK, Step
  <1>0. UNCHANGED <<mounted, program, opening, up, held>> /\ Here' = Here /\ Here \in Place
    BY ContentType DEF Restores, BeginRestore, Stage, WriteStaged, StageFails, WriteFiles,
           WriteConfig, WriteConfigFails, KeepMount, storeVars, processes, files, Here
  <1>1. ~collided
    BY Latched DEF Next
  <1>2. CASE \/ \E a \in Archive : BeginRestore(r, a)
             \/ StageFails(r) \/ WriteFiles(r) \/ KeepMount(r)
    <2>1. UNCHANGED <<db, wal, staged, linked, tried>>
      BY <1>2 DEF BeginRestore, StageFails, WriteFiles, KeepMount, storeVars, files
    <2> QED
      BY <1>0, <2>1 DEF Sound
  <1>3. CASE Stage(r) \/ WriteStaged(r) \/ WriteConfig(r) \/ WriteConfigFails(r)
    <2>1. InHand(r) /\ pick[r] \in Archive
      BY <1>3 DEF Stage, WriteStaged, WriteConfig, WriteConfigFails, InHand, Busy
    <2>2. \A x \in Process : opening[x] = "off"
      BY <1>1, <2>1 DEF Alone, Restoring, Process
    <2>3. Of(pick[r]) # None /\ Torn # None
      BY <2>1, OfArchive, DataStoreAssumption
    <2>4. CASE Stage(r) \/ WriteStaged(r)
      <3>1. UNCHANGED <<wal, linked>> /\ tried'
        BY <2>4 DEF Stage, WriteStaged, processes, Written
      <3>2. UNCHANGED db /\ \/ staged' = [staged EXCEPT ![Here] = Torn]
                            \/ staged' = [staged EXCEPT ![Here] = Of(pick[r])]
        BY <1>1, <2>4 DEF Stage, WriteStaged, Written
      <3>3. \A p \in Place : Sound(p) => Sound(p)'
        BY <2>1, <2>3, <3>1, <3>2 DEF Sound
      <3> QED
        BY <1>0, <2>2, <3>1, <3>2, <3>3
    <2>5. CASE WriteConfig(r) \/ WriteConfigFails(r)
      <3>1. /\ UNCHANGED <<staged, tried>> /\ tried /\ staged[Here] # None
            /\ Unpack(pick[r]) \/ UNCHANGED <<db, wal, linked>>
        BY <1>1, <2>5 DEF WriteConfig, WriteConfigFails, Written
      <3>2. CASE UNCHANGED <<db, wal, linked>>
        BY <1>0, <2>2, <3>1, <3>2 DEF Sound
      <3>3. CASE ~UNCHANGED <<db, wal, linked>>
        <4>1. /\ db' = [db EXCEPT ![Here] = Of(pick[r])]
              /\ wal' = [wal EXCEPT ![Here] = pick[r]] /\ linked' = FALSE
          BY <3>1, <3>3 DEF Unpack
        <4> QED
          BY <1>0, <2>2, <3>1, <4>1 DEF Sound
      <3> QED
        BY <3>2, <3>3
    <2> QED
      BY <1>3, <2>4, <2>5
  <1> QED
    BY <1>2, <1>3 DEF Restores

LEMMA ExchangingMove ==
  ASSUME Typed, Alone, Mounts, Exchanging, Moves, ~collided'
  PROVE  Exchanging'
  <1> USE DEF Exchanging, Typed, TypeOK, StoreTypeOK
  <1>0. ~collided
    BY Latched DEF Next
  <1>1. CASE BeginMove \/ MakePart \/ EnterFstab \/ RecordPart \/ CopyFails
    <2>1. UNCHANGED storeVars
      BY <1>1 DEF BeginMove, MakePart, EnterFstab, RecordPart, CopyFails
    <2> QED
      BY <2>1 DEF storeVars, Sound, Here
  <1>2. CASE CopyData
    <2>1. Here = "root" /\ Here' = "root"
      BY <1>2 DEF CopyData, Mounts, Moving, Here
    <2>2. /\ \A f \in {db, wal, staged, program} : CopyFile(f)["root"] = f["root"]
          /\ \A f \in {db, wal, staged, program} : CopyFile(f)["part"] = f["root"]
      BY DEF CopyFile, Place
    <2>3. \A p \in Place : /\ db'[p] = db["root"] /\ wal'[p] = wal["root"]
                           /\ staged'[p] = staged["root"] /\ program'[p] = program["root"]
      BY <1>2, <2>2 DEF CopyData, Place
    <2>4. UNCHANGED processes
      BY <1>2 DEF CopyData
    <2> QED
      BY <2>1, <2>3, <2>4 DEF Sound, processes, Place
  <1>3. CASE StopForMove
    <2>1. /\ UNCHANGED <<db, wal, staged, program, mounted, held>> /\ ~up' /\ ~linked'
          /\ opening' = [opening EXCEPT !["service"] = "off"]
      BY <1>3 DEF StopForMove, Ends, files
    <2>2. Here' = Here
      BY <2>1 DEF Here
    <2> QED
      BY <2>1, <2>2 DEF Sound, Process
  <1>4. CASE MountPart
    <2>1. /\ UNCHANGED <<db, wal, staged, program, held, opening, linked, up>>
          /\ ~up /\ ~linked
          /\ \A x \in Process : opening[x] = "off"
      BY <1>0, <1>4 DEF MountPart, files, processes, Alone, Moving, Process
    <2> QED
      BY <2>1 DEF Sound
  <1> QED
    BY <1>1, <1>2, <1>3, <1>4 DEF Moves

LEMMA ExchangingOpen ==
  ASSUME Typed, Alone, Exchanging, NEW x \in Process, OpenDB(x), ~collided
  PROVE  Exchanging'
  <1> USE DEF Exchanging, Typed, TypeOK, StoreTypeOK, At
  <1>0. /\ UNCHANGED <<program, mounted>> /\ Here' = Here /\ Here \in Place
        /\ opening[x] # "off" /\ program[Here] /\ Sound(Here)
        /\ \A y \in Process : y # x => opening[y] = "off" /\ opening'[y] = "off"
        /\ x = "service" => ~up
    BY OpenKeeps, OpenFrame DEF Alone, Process
  <1>1. CASE RemoveDb(x)
    BY <1>0, <1>1 DEF RemoveDb, Sound
  <1>2. CASE RemoveWal(x)
    <2>1. /\ UNCHANGED <<db, staged, up, linked, held, tried>> /\ staged[Here] # None
          /\ wal' = [wal EXCEPT ![Here] = None] /\ opening[x] = "removeWal"
          /\ opening' = [opening EXCEPT ![x] = "rename"]
      BY <1>2 DEF RemoveWal
    <2>2. ~linked
      BY <1>0, <2>1
    <2> QED
      BY <1>0, <2>1, <2>2 DEF Sound
  <1>3. CASE Rename(x)
    <2>1. /\ db' = [db EXCEPT ![Here] = staged[Here]] /\ staged' = [staged EXCEPT ![Here] = None]
          /\ opening' = [opening EXCEPT ![x] = "open"]
          /\ UNCHANGED <<wal, up, linked, held, tried>>
          /\ wal[Here] = None /\ staged[Here] # None
      BY <1>0, <1>3 DEF Rename
    <2>2. staged[Here] # Torn => staged[Here].origin # None
      BY <1>0, <2>1, OfArchive DEF Sound
    <2>3. \A p \in Place : Sound(p) => Sound(p)'
      BY <2>1, <2>2 DEF Sound
    <2>4. ~linked
      BY <2>1
    <2> QED
      BY <1>0, <2>1, <2>3, <2>4
  <1>4. CASE Open(x)
    <2>1. /\ staged[Here] = None /\ opening' = [opening EXCEPT ![x] = "off"]
          /\ UNCHANGED staged
      BY <1>4 DEF Open
    <2>2. Found = db[Here] /\ Found # Mixed
          /\ (Found # Torn => Found \in Content /\ Found.origin # None)
      BY <1>0, <2>1, FoundSound
    <2>3. CASE Found = Torn
      <3>1. UNCHANGED <<db, wal, up, linked, held, tried>>
        BY <1>4, <2>3 DEF Open
      <3> QED
        BY <1>0, <2>1, <3>1 DEF Sound
    <2>4. CASE Found # Torn
      <3>1. db' = db /\ wal' = [wal EXCEPT ![Here] = Found.origin]
        BY <1>0, <1>4, <2>2, <2>4 DEF Open
      <3>2. \A p \in Place : Sound(p) => Sound(p)'
        BY <1>0, <2>1, <2>2, <2>4, <3>1 DEF Sound
      <3>3. \/ UNCHANGED <<up, linked, held, tried>>
            \/ up' /\ linked' /\ held' = Found
        BY <1>4, <2>2, <2>4 DEF Open
      <3> QED
        BY <1>0, <2>1, <2>2, <2>4, <3>1, <3>2, <3>3
    <2> QED
      BY <2>3, <2>4
  <1> QED
    BY <1>1, <1>2, <1>3, <1>4 DEF OpenDB

LEMMA ExchangingNext ==
  ASSUME Typed, Alone, Mounts, Written, Exchanging, [Next]_vars, ~collided'
  PROVE  Exchanging'
  <1> USE DEF Exchanging, Typed, TypeOK, StoreTypeOK
  <1>0. ~collided
    BY Latched
  <1>1. ASSUME NEW r \in Request, Restores(r) PROVE Exchanging'
    BY <1>1, ExchangingRestore
  <1>2. CASE Moves
    BY <1>2, ExchangingMove
  <1>3. CASE StartService \/ StartTool
    <2>1. PICK x \in Process : Start(x)
      BY <1>3 DEF StartService, StartTool, Process
    <2>2. Here' = Here
      BY <2>1 DEF Start, Here
    <2> QED
      BY <2>1, <2>2 DEF Start, At, files, Sound
  <1>4. ASSUME NEW x \in Process, OpenDB(x) PROVE Exchanging'
    BY <1>0, <1>4, ExchangingOpen
  <1>5. CASE ServiceWrites
    <2>1. /\ UNCHANGED <<wal, staged, program, mounted, opening, up, linked, tried>> /\ up
          /\ db' = IF linked THEN [db EXCEPT ![Here] = held'] ELSE db
      BY <1>5 DEF ServiceWrites, Write
    <2>2. held' \in Content /\ held'.origin = held.origin
      BY <1>5, TypedWrite DEF ServiceWrites
    <2>3. Here' = Here /\ Here \in Place
      BY <2>1, ContentType DEF Here
    <2>4. held' \notin {None, Torn}
      BY <2>2, DataStoreAssumption
    <2>5. \A p \in Place : Sound(p) => Sound(p)'
      BY <2>1, <2>2, <2>3, <2>4 DEF Sound
    <2> QED
      BY <2>1, <2>2, <2>3, <2>5
  <1>6. CASE Restart
    <2>1. /\ UNCHANGED <<db, wal, staged, program, mounted, held>> /\ ~up' /\ ~linked'
          /\ opening' = [opening EXCEPT !["service"] = "off"]
      BY <1>6 DEF Restart, Ends, files
    <2>2. Here' = Here
      BY <2>1 DEF Here
    <2> QED
      BY <2>1, <2>2 DEF Sound, Process
  <1>7. CASE Reboot
    <2>1. /\ UNCHANGED <<db, wal, staged, program, held>> /\ ~up' /\ ~linked'
          /\ opening' = [x \in Process |-> "off"]
      BY <1>7 DEF Reboot, files
    <2> QED
      BY <2>1 DEF Sound
  <1>8. CASE UNCHANGED vars
    BY <1>8 DEF vars, storeVars, Sound, Here
  <1> QED
    BY <1>1, <1>2, <1>3, <1>4, <1>5, <1>6, <1>7, <1>8 DEF Next

----------------------------------------------------------------------------
(* What the service will find.                                             *)
LEMMA KnownInit == Init => Known
  <1> SUFFICES ASSUME Init PROVE Known
    OBVIOUS
  <1>1. Of(Device) # None
    BY DataStoreAssumption, ContentType DEF Origin
  <1> QED
    BY <1>1 DEF Init, StoreInit, Known, Outcome, Home, Place, Restoring, InHand

(* The data of a directory that holds the program and is in use.           *)
LEMMA HomeHere ==
  ASSUME Typed, program[Here]
  PROVE  Home = Here
  BY DEF Home, Here

LEMMA KnownRestore ==
  ASSUME Typed, Alone, Written, Exchanging, Known, NEW r \in Request, Restores(r), ~collided'
  PROVE  Known'
  <1> USE DEF Typed, TypeOK, StoreTypeOK, Step
  <1>0. /\ UNCHANGED <<mounted, program, opening, up, held, moved>>
        /\ Here' = Here /\ Here \in Place /\ up
    BY ContentType DEF Restores, BeginRestore, Stage, WriteStaged, StageFails, WriteFiles,
           WriteConfig, WriteConfigFails, KeepMount, storeVars, processes, files, Here,
           Alone, Restoring, InHand, Touch, history
  <1>1. ~collided
    BY Latched DEF Next
  <1>2. Home = Here /\ Home' = Home
    <2>1. Home = Here
      BY <1>0, HomeHere DEF Exchanging
    <2>2. Home' = Home
      BY <1>0 DEF Home
    <2> QED
      BY <2>1, <2>2
  <1>3. CASE \E a \in Archive : BeginRestore(r, a)
    <2>1. UNCHANGED <<db, staged, tried, linked, late>> /\ due' = None
      BY <1>3 DEF BeginRestore, files, history
    <2> QED
      BY <1>0, <1>2, <2>1 DEF Known, Outcome
  <1>4. CASE ~\E a \in Archive : BeginRestore(r, a)
    <2>1. Restoring /\ due = None /\ r \in Busy
      BY <1>4, RestoreBusy DEF Known
    <2>2. CASE StageFails(r) \/ WriteFiles(r)
      <3>1. UNCHANGED <<db, staged, tried, linked, late, due>>
        BY <2>2 DEF StageFails, WriteFiles, storeVars
      <3> QED
        BY <1>0, <1>2, <2>1, <3>1 DEF Known, Outcome
    <2>3. CASE Stage(r) \/ WriteStaged(r)
      <3>1. UNCHANGED due /\ tried' /\ (program["part"] => late')
        BY <2>3 DEF Stage, WriteStaged, Touch, processes, Written
      <3> QED
        BY <1>0, <1>2, <2>1, <3>1 DEF Known
    <2>4. CASE WriteConfig(r) \/ WriteConfigFails(r)
      <3>1. /\ UNCHANGED <<staged, tried, due, late>> /\ tried /\ staged[Here] # None
            /\ Unpack(pick[r]) \/ UNCHANGED <<db, wal, linked>>
        BY <1>1, <2>4 DEF WriteConfig, WriteConfigFails, Written, history
      <3>2. \A p \in Place : Outcome(p)' = Outcome(p)
        BY <1>0, <3>1 DEF Unpack, Outcome
      <3> QED
        BY <1>0, <1>2, <2>1, <3>1, <3>2 DEF Known, Place
    <2>5. CASE KeepMount(r)
      <3>1. /\ UNCHANGED <<db, staged, tried, linked, late>> /\ restore[r] = "mount" /\ tried
            /\ restore' = [restore EXCEPT ![r] = "done"]
            /\ due' = IF r \in crossed THEN None ELSE pick[r]
        BY <2>5 DEF KeepMount, files, history, Written
      <3>2. \A p \in Place : Outcome(p)' = Outcome(p)
        BY <3>1 DEF Outcome
      <3>3. CASE r \in crossed
        BY <1>0, <1>2, <3>1, <3>2, <3>3 DEF Known, Place
      <3>4. CASE r \notin crossed
        <4>1. staged[Here] = Of(pick[r]) /\ Of(pick[r]) # None
          BY <1>1, <2>1, <3>1, <3>4, OfArchive DEF Written
        <4>2. ~Restoring'
          BY <2>1, <3>1, <3>4 DEF Restoring, Alone, Busy, InHand
        <4>3. Outcome(Home)' = Of(due')
          BY <1>0, <1>2, <3>1, <3>4, <4>1 DEF Outcome
        <4> QED
          BY <1>0, <1>2, <3>1, <3>2, <4>1, <4>2, <4>3 DEF Known, Place
      <3> QED
        BY <3>3, <3>4
    <2> QED
      BY <1>4, <2>2, <2>3, <2>4, <2>5 DEF Restores
  <1> QED
    BY <1>3, <1>4

(* The service is gone; the data is as it was.                             *)
LEMMA KnownStays ==
  ASSUME Typed, Known, UNCHANGED <<db, staged, program, mounted, held, tried, due, late, moved>>,
         ~up' \/ UNCHANGED <<up, linked>>, Restoring' => Restoring
  PROVE  Known'
  <1>1. Here' = Here /\ Home' = Home
    BY DEF Here, Home
  <1>2. \A p \in Place : Outcome(p)' = Outcome(p)
    BY DEF Outcome
  <1>3. Home \in Place
    BY DEF Home, Place
  <1> QED
    BY <1>1, <1>2, <1>3 DEF Known, Place

(* What is mounted changes, and the service is not there to see it.        *)
LEMMA KnownMounts ==
  ASSUME Typed, Known, UNCHANGED <<db, staged, program, held, tried, due>>,
         NEW on \in BOOLEAN, Mount(on), ~up', ~Restoring'
  PROVE  Known'
  <1>1. \A p \in Place : Outcome(p)' = Outcome(p)
    BY DEF Outcome
  <1>2. /\ ~moved' => ~moved /\ ~(on # mounted /\ late)
        /\ mounted' = on /\ UNCHANGED late
    BY Zenon DEF Mount
  <1>3. ~moved' => ~moved /\ Outcome(Home)' = Outcome(Home)
    <2> SUFFICES ASSUME ~moved' PROVE Outcome(Home)' = Outcome(Home)
      BY <1>2
    <2>1. CASE Home' = Home
      BY <2>1 DEF Outcome
    <2>2. CASE Home' # Home
      <3>1. program["part"] /\ mounted' # mounted
        BY <2>2 DEF Home
      <3>2. ~late
        BY <1>2, <3>1, Zenon
      <3>3. Outcome("part") = Outcome("root")
        BY <3>1, <3>2 DEF Known
      <3> QED
        BY <3>3 DEF Home, Outcome
    <2> QED
      BY <2>1, <2>2
  <1> QED
    BY <1>1, <1>2, <1>3 DEF Known, Place

LEMMA KnownMove ==
  ASSUME Typed, Alone, Mounts, Known, Moves
  PROVE  Known'
  <1> USE DEF Typed, TypeOK, StoreTypeOK
  <1>1. CASE BeginMove \/ MakePart \/ EnterFstab \/ RecordPart \/ CopyFails
    <2>1. UNCHANGED <<storeVars, restore>>
      BY <1>1 DEF BeginMove, MakePart, EnterFstab, RecordPart, CopyFails, requests
    <2> QED
      BY <2>1, KnownStays DEF storeVars, Restoring, InHand
  <1>2. CASE CopyData
    <2>1. ~mounted /\ UNCHANGED <<mounted, processes, restore, moved>>
      BY <1>2 DEF CopyData, Mounts, Moving, requests
    <2>2. /\ \A f \in {db, staged, program} : CopyFile(f)["root"] = f["root"]
          /\ \A f \in {db, staged, program} : CopyFile(f)["part"] = f["root"]
      BY DEF CopyFile, Place
    <2>3. \A p \in Place : /\ db'[p] = db["root"] /\ staged'[p] = staged["root"]
                           /\ program'[p] = program["root"]
      BY <1>2, <2>2 DEF CopyData, Place
    <2>4. /\ Outcome("root")' = Outcome("root") /\ Outcome("part")' = Outcome("root")
          /\ staged'["root"] = staged["root"]
          /\ Here = "root" /\ Here' = "root" /\ Home = "root" /\ Home' = "root"
      BY <2>1, <2>3 DEF Outcome, Place, Here, Home
    <2>5. Outcome(Home)' = Outcome(Home)
      BY <2>4 DEF Outcome
    <2> QED
      BY <2>1, <2>4, <2>5 DEF Known, processes, Restoring, InHand
  <1>3. CASE StopForMove
    <2>1. UNCHANGED <<db, staged, program, mounted, held, tried, due, late, moved>> /\ ~up'
      BY <1>3 DEF StopForMove, Ends, files, history
    <2>2. ~Restoring'
      BY <1>3, CutFrame DEF StopForMove, Restoring
    <2> QED
      BY <2>1, <2>2, KnownStays
  <1>4. CASE MountPart
    <2>1. /\ UNCHANGED <<db, staged, program, held, tried, due, up, linked, restore>>
          /\ ~up
          /\ Mount(TRUE) \/ UNCHANGED <<mounted, late, moved>>
      BY <1>4 DEF MountPart, files, processes, history, Alone, requests
    <2>2. ~Restoring'
      BY <2>1 DEF Alone, Restoring, InHand
    <2>3. CASE Mount(TRUE)
      BY <2>1, <2>2, <2>3, KnownMounts
    <2>4. CASE UNCHANGED <<mounted, late, moved>>
      BY <2>1, <2>2, <2>4, KnownStays
    <2> QED
      BY <2>1, <2>3, <2>4
  <1> QED
    BY <1>1, <1>2, <1>3, <1>4 DEF Moves

LEMMA KnownOpen ==
  ASSUME Typed, Alone, Exchanging, Known, NEW x \in Process, OpenDB(x)
  PROVE  Known'
  <1> USE DEF Typed, TypeOK, StoreTypeOK
  <1>1. /\ UNCHANGED <<program, mounted, late, restore>>
        /\ Here' = Here /\ Here \in Place /\ program[Here] /\ x = "service" => ~up
    BY OpenKeeps, OpenFrame DEF requests, Alone
  <1>2. Home = Here /\ Home' = Home
    <2>1. program[Here]
      BY OpenKeeps
    <2> QED
      BY <1>1, <2>1, HomeHere DEF Home
  <1>3. \A p \in Place : Outcome(p)' = Outcome(p)
    BY OpenKeeps DEF Outcome
  <1>4. Outcome(Home)' = Outcome(Home)
    BY <1>1, <1>2, <1>3, OpenKeeps DEF Outcome
  <1>5. Restoring' => Restoring
    BY <1>1 DEF Restoring, InHand
  <1>6. CASE RemoveDb(x) \/ RemoveWal(x)
    <2>1. UNCHANGED <<up, held, tried, due, moved, staged>>
      BY <1>6 DEF RemoveDb, RemoveWal, history
    <2>2. staged[Here] # None
      BY <1>6, OpenKeeps DEF RemoveDb, RemoveWal, Open
    <2>3. (staged[Here])' # None
      BY <1>1, <2>1, <2>2 DEF Here
    <2> QED
      BY <1>1, <1>2, <1>3, <1>4, <1>5, <2>1, <2>3 DEF Known, Place
  <1>7. CASE Rename(x)
    <2>1. UNCHANGED <<up, held, tried, due, moved, linked>> /\ wal[Here] = None
      BY <1>7 DEF Rename, history, Exchanging
    <2>2. ~linked
      BY <2>1 DEF Exchanging
    <2> QED
      BY <1>1, <1>2, <1>3, <1>4, <1>5, <2>1, <2>2 DEF Known, Place
  <1>8. CASE Open(x)
    <2>1. UNCHANGED staged /\ staged[Here] = None
      BY <1>8 DEF Open, Exchanging
    <2>2. CASE UNCHANGED <<up, linked, held, tried, due, moved>>
      BY <1>1, <1>2, <1>3, <1>4, <1>5, <2>1, <2>2 DEF Known, Place
    <2>3. CASE ~UNCHANGED <<up, linked, held, tried, due, moved>>
      <3>1. held' = Found /\ due' = None
        BY <1>8, <2>3 DEF Open
      <3>2. Outcome(Home) = Found
        BY <1>1, <1>2, <2>1, OpenKeeps, FoundSound DEF Outcome
      <3> QED
        BY <1>1, <1>3, <1>4, <3>1, <3>2 DEF Known, Place
    <2> QED
      BY <2>2, <2>3
  <1> QED
    BY <1>6, <1>7, <1>8 DEF OpenDB

LEMMA KnownNext ==
  ASSUME Typed, Alone, Mounts, Written, Exchanging, Known, [Next]_vars, ~collided'
  PROVE  Known'
  <1> USE DEF Typed, TypeOK, StoreTypeOK
  <1>1. ASSUME NEW r \in Request, Restores(r) PROVE Known'
    BY <1>1, KnownRestore
  <1>2. CASE Moves
    BY <1>2, KnownMove
  <1>3. CASE StartService \/ StartTool \/ UNCHANGED vars
    <2>1. UNCHANGED <<db, staged, program, mounted, held, tried, due, late, moved, up, linked,
                      restore>>
      BY <1>3 DEF StartService, StartTool, Start, vars, storeVars, files, history, requests
    <2> QED
      BY <2>1, KnownStays DEF Restoring, InHand
  <1>4. ASSUME NEW x \in Process, OpenDB(x) PROVE Known'
    BY <1>4, KnownOpen
  <1>5. CASE ServiceWrites
    <2>1. /\ UNCHANGED <<staged, program, mounted, tried, due, up, linked, moved, restore>>
          /\ up /\ (program["part"] => late')
          /\ db' = IF linked THEN [db EXCEPT ![Here] = held'] ELSE db
      BY <1>5 DEF ServiceWrites, Write, Touch, requests
    <2>2. Here' = Here /\ Here \in Place /\ Home = Here /\ Home' = Home
      <3>1. program[Here]
        BY <2>1 DEF Exchanging
      <3> QED
        BY <2>1, <3>1, ContentType, HomeHere DEF Here, Home
    <2>3. ~tried => Outcome(Home)' = held'
      BY <2>1, <2>2 DEF Exchanging, Outcome
    <2>4. due # None => Outcome(Home)' = Outcome(Home)
      BY <2>1, <2>2 DEF Known, Outcome
    <2> QED
      BY <2>1, <2>2, <2>3, <2>4 DEF Known, Restoring, InHand
  <1>6. CASE Restart
    <2>1. UNCHANGED <<db, staged, program, mounted, held, tried, due, late, moved>> /\ ~up'
      BY <1>6 DEF Restart, Ends, files, history
    <2>2. ~Restoring'
      BY <1>6, CutFrame DEF Restart, Restoring
    <2> QED
      BY <2>1, <2>2, KnownStays
  <1>7. CASE Reboot
    <2>1. /\ UNCHANGED <<db, staged, program, held, tried, due>> /\ ~up'
          /\ Mount(fstab = "own")
      BY <1>7 DEF Reboot, files
    <2>2. ~Restoring' /\ (fstab = "own") \in BOOLEAN
      BY <1>7, RebootFrame DEF Restoring, InHand
    <2> QED
      BY <2>1, <2>2, KnownMounts
  <1> QED
    BY <1>1, <1>2, <1>3, <1>4, <1>5, <1>6, <1>7 DEF Next

----------------------------------------------------------------------------
(* All of it together.                                                     *)
StorageInv ==
  /\ Typed /\ Alone /\ Mounts /\ Written
  /\ collided \/ (Exchanging /\ Known)

LEMMA StorageInit == Init => StorageInv
  BY TypedInit, AloneInit, MountsInit, WrittenInit, ExchangingInit, KnownInit DEF StorageInv

LEMMA StorageNext == StorageInv /\ [Next]_vars => StorageInv'
  <1> SUFFICES ASSUME StorageInv, [Next]_vars PROVE StorageInv'
    OBVIOUS
  <1>1. Typed' /\ Alone' /\ Mounts' /\ Written'
    BY TypedNext, AloneNext, MountsNext, WrittenNext DEF StorageInv
  <1>2. CASE ~collided'
    <2>1. ~collided
      BY <1>2, Latched DEF StorageInv
    <2> QED
      BY <1>1, <1>2, <2>1, ExchangingNext, KnownNext DEF StorageInv
  <1> QED
    BY <1>1, <1>2 DEF StorageInv

(* What the service finds when it opens the database. *)
LEMMA KnownAtOpen ==
  ASSUME StorageInv, Open("service"), ~collided
  PROVE  /\ ~tried => Found = held \/ moved
         /\ due # None => Found = Of(due) \/ moved
         /\ Found \notin {Fresh, Mixed}
  <1>1. /\ Typed /\ Exchanging /\ Known /\ opening["service"] = "open"
    BY DEF StorageInv, Open
  <1>2. program[Here] /\ staged[Here] = None /\ Here \in Place
    BY <1>1, ContentType DEF Exchanging, Process
  <1>3. /\ Found = db[Here] /\ Found # Mixed /\ Found # Fresh
    BY <1>1, <1>2, FoundSound DEF Exchanging
  <1>4. Outcome(Home) = Found
    BY <1>1, <1>2, <1>3, HomeHere DEF Outcome
  <1> QED
    BY <1>1, <1>3, <1>4 DEF Known

(* A data partition in use has its entry in fstab, whatever archives were  *)
(* restored, whatever failed and wherever the device went down; but for a  *)
(* restore that has taken it away without having seen it or being able to  *)
(* put it back.                                                            *)
THEOREM AlwaysMounted == Spec => []PartStaysMounted
  <1>1. StorageInv => PartStaysMounted
    BY DEF StorageInv, Mounts, PartStaysMounted
  <1> QED
    BY <1>1, StorageInit, StorageNext, PTL DEF Spec

(* A restore that was answered and had the device for itself is whole:     *)
(* configuration, certificates it could write, and database are of its     *)
(* archive.                                                                *)
THEOREM AlwaysWhole == Spec => []RestoreIsWhole
  <1>1. StorageInv => RestoreIsWhole
    BY DEF StorageInv, Written, RestoreIsWhole
  <1> QED
    BY <1>1, StorageInit, StorageNext, PTL DEF Spec

(* The service starts with the database it had, every acknowledged write   *)
(* included, or with the archive's; never with an empty one or with two    *)
(* mixed; but for a move under its writes and a tool at the same time.     *)
THEOREM AlwaysKnown == Spec => KnownDatabase
  <1>1. StorageInv /\ [Next]_vars => [Open("service") =>
          \/ collided
          \/ /\ ~tried => Found = held \/ moved
             /\ due # None => Found = Of(due) \/ moved
             /\ Found \notin {Fresh, Mixed}]_vars
    BY KnownAtOpen
  <1> QED
    BY <1>1, StorageInit, StorageNext, PTL DEF Spec, KnownDatabase
=============================================================================
