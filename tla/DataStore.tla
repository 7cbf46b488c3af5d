----------------------------- MODULE DataStore ------------------------------
(***************************************************************************)
(* Where saguaro-core keeps its data: the directory /opt/saguaro, which is *)
(* on the root partition or, once there is one, on the data partition      *)
(* mounted over it; in it the program and the database, beside which lie   *)
(* the database's write-ahead log and, after a restore, the database that  *)
(* is to take its place.  openDB (core/db.go) makes that exchange, file by *)
(* file, when the service or a command-line tool starts; the service or    *)
(* the power may go away between any two of its steps.                     *)
(*                                                                         *)
(* A database is known by where it comes from and by the number of writes  *)
(* the service has acknowledged since.                                     *)
(***************************************************************************)
EXTENDS Integers, FiniteSets

CONSTANTS
  Archive,      \* full backups; each holds a database of its own
  Device,       \* the origin of the database the device has at first
  None,         \* no such file
  Torn,         \* a file of which only a part is there
  Mixed,        \* a database beside the log of another
  MaxWrites     \* bound: writes the service acknowledges to one database

Place   == {"root", "part"}
Origin  == Archive \union {Device}
Content == [origin : Origin \union {None}, writes : 0..MaxWrites]
File    == Content \union {None, Torn}
Process == {"service", "tool"}

ASSUME DataStoreAssumption ==
  /\ Device \notin Archive /\ None \notin Archive /\ None # Device
  /\ Torn # Mixed /\ None \notin {Torn, Mixed}
  /\ {None, Torn, Mixed} \intersect Content = {}
  /\ MaxWrites \in Nat

Of(o)  == [origin |-> o, writes |-> 0]

(* What openDB makes when there is none: an empty database. *)
Fresh == Of(None)

VARIABLES
  db,        \* saguaro.db in each place
  wal,       \* the origin of the database each saguaro.db-wal belongs to
  staged,    \* saguaro.db.restore in each place
  program,   \* is the program there, in each place?
  mounted,   \* is the data partition mounted over /opt/saguaro?
  opening,   \* where each process is in openDB
  up,        \* does the service run?
  linked,    \* is the file the service has open the one in /opt/saguaro?
  held,      \* the database the service has open or had open last
  tried,     \* has a restore begun to stage another since it was opened?
  due,       \* the archive whose restore was accepted since, if any
  late,      \* was anything written since the data was copied?
  moved      \* has the directory been changed, after such a write, since the
             \* service has opened its database?

files     == <<db, wal, staged, program>>
processes == <<opening, up, linked, held, tried, due>>
history   == <<late, moved>>
storeVars == <<db, wal, staged, program, mounted, opening, up, linked, held,
               tried, due, late, moved>>

Here == IF mounted THEN "part" ELSE "root"

StoreInit ==
  /\ db = [p \in Place |-> IF p = "root" THEN Of(Device) ELSE None]
  /\ wal = [p \in Place |-> IF p = "root" THEN Device ELSE None]
  /\ staged = [p \in Place |-> None]
  /\ program = [p \in Place |-> p = "root"]
  /\ mounted = FALSE
  /\ opening = [x \in Process |-> "off"]
  /\ up = TRUE /\ linked = TRUE
  /\ held = Of(Device)
  /\ tried = FALSE /\ due = None
  /\ late = FALSE /\ moved = FALSE

(* Something is written, and there is a copy of the data.                  *)
Touch == late' = (late \/ program["part"]) /\ UNCHANGED moved

(* The other of the two directories comes in place of the one in use.      *)
Mount(on) ==
  /\ mounted' = on
  /\ moved' = (moved \/ (on # mounted /\ late))
  /\ UNCHANGED late

At(x, s) == opening' = [opening EXCEPT ![x] = s]

(* A process that starts looks whether a database is to take the place of  *)
(* the one that is there.                                                  *)
Start(x) ==
  /\ opening[x] = "off" /\ program[Here]
  /\ x = "service" => ~up
  /\ At(x, IF staged[Here] = None THEN "open" ELSE "removeDb")
  /\ UNCHANGED <<files, mounted, up, linked, held, tried, due, history>>

RemoveDb(x) ==
  /\ opening[x] = "removeDb"
  /\ db' = [db EXCEPT ![Here] = None]
  /\ linked' = FALSE
  /\ At(x, "removeWal")
  /\ UNCHANGED <<wal, staged, program, mounted, up, held, tried, due, history>>

(* Mutant: the log is left to the database that comes. *)
KeepWal(x) ==
  /\ opening[x] = "removeWal"
  /\ At(x, "rename")
  /\ UNCHANGED <<files, mounted, up, linked, held, tried, due, history>>

RemoveWal(x) ==
  /\ opening[x] = "removeWal"
  /\ wal' = [wal EXCEPT ![Here] = None]
  /\ At(x, "rename")
  /\ UNCHANGED <<db, staged, program, mounted, up, linked, held, tried, due, history>>

(* The exchange itself; another process may have made it, which is fatal.  *)
Rename(x) ==
  /\ opening[x] = "rename"
  /\ IF staged[Here] = None
       THEN UNCHANGED <<db, staged>> /\ At(x, "off")
       ELSE /\ db' = [db EXCEPT ![Here] = staged[Here]]
            /\ staged' = [staged EXCEPT ![Here] = None]
            /\ At(x, "open")
  /\ UNCHANGED <<wal, program, mounted, up, linked, held, tried, due,
                 history>>

(* The log of another database makes this one unreadable. *)
Found ==
  LET file == db[Here] IN
  IF file = None THEN Fresh
  ELSE IF file # Torn /\ wal[Here] \notin {None, file.origin} THEN Mixed
  ELSE file

(* A database that cannot be read ends the process. *)
Open(x) ==
  /\ opening[x] = "open"
  /\ At(x, "off")
  /\ IF Found \in {Torn, Mixed}
       THEN UNCHANGED <<db, wal, up, linked, held, tried, due, moved>>
       ELSE /\ db' = [db EXCEPT ![Here] = Found]
            /\ wal' = [wal EXCEPT ![Here] = Found.origin]
            /\ IF x = "tool"
                 THEN UNCHANGED <<up, linked, held, tried, due, moved>>
                 ELSE /\ up' = TRUE /\ linked' = TRUE /\ held' = Found
                      /\ tried' = FALSE /\ due' = None /\ moved' = FALSE
  /\ UNCHANGED <<staged, program, mounted, late>>

(* Any handler that changes the database and answers. *)
Write ==
  /\ up /\ held.writes < MaxWrites
  /\ held' = [held EXCEPT !.writes = @ + 1]
  /\ db' = IF linked THEN [db EXCEPT ![Here] = held'] ELSE db
  /\ Touch
  /\ UNCHANGED <<wal, staged, program, mounted, opening, up, linked, tried,
                 due>>

(* The service ends, or is killed while it starts. *)
Ends ==
  /\ up' = FALSE /\ linked' = FALSE
  /\ opening' = [opening EXCEPT !["service"] = "off"]

StoreTypeOK ==
  /\ db \in [Place -> File] /\ staged \in [Place -> File]
  /\ wal \in [Place -> Origin \union {None}]
  /\ program \in [Place -> BOOLEAN]
  /\ mounted \in BOOLEAN /\ up \in BOOLEAN /\ linked \in BOOLEAN
  /\ opening \in [Process -> {"off", "removeDb", "removeWal", "rename", "open"}]
  /\ held \in Content
  /\ tried \in BOOLEAN /\ due \in Archive \union {None}
  /\ late \in BOOLEAN /\ moved \in BOOLEAN
=============================================================================
