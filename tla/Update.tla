------------------------------- MODULE Update -------------------------------
(***************************************************************************)
(* The update of the program (core/update.go).  A package is uploaded or   *)
(* fetched to one place, unpacked, and after a full backup the program is  *)
(* replaced by a rename and the pages of the interface are overwritten one *)
(* by one; two seconds after the answer the service is restarted.          *)
(* Requests run concurrently, updates among them, which share the package, *)
(* the file beside the program and the pages; and the service or the       *)
(* device may go down between any two steps.                               *)
(*                                                                         *)
(* A package is known by its release, and so is every file that comes from *)
(* it.  The console tools of a package are left out: an error of           *)
(* installing them is only logged.                                         *)
(***************************************************************************)
EXTENDS Integers, FiniteSets

CONSTANTS
  Upload,        \* calls of handleUpdateUpload
  Apply,         \* calls of handleUpdateApply
  NoApply,
  Release,       \* releases there are packages of
  Bad,           \* those whose package has no program in it
  Offered,       \* releases GitHub may offer as the latest one
  Hashed,        \* those with a hash beside the package
  First,         \* the release that is installed at first
  Page,          \* files of the interface
  Brings,        \* [Release -> SUBSET Page]: the pages in each package
  None,          \* no such file, or nothing
  Torn,          \* a file of which only a part, or a mixture, is there
  MaxRestarts,   \* bound: restarts nobody asked for
  Fails          \* the steps that may fail, a subset of FailPoint

FailPoint == {"upload", "fetch", "backup", "program", "page"}

ASSUME UpdateAssumption ==
  /\ First \in Release \ Bad /\ Bad \subseteq Release
  /\ Hashed \subseteq Offered /\ Offered \subseteq Release
  /\ Brings \in [Release -> SUBSET Page]
  /\ None \notin Release \union Page /\ Torn \notin Release /\ None # Torn
  /\ Upload \intersect Apply = {} /\ NoApply \notin Apply
  /\ MaxRestarts \in Nat /\ Fails \subseteq FailPoint

Request == Upload \union Apply
File    == Release \union {None, Torn}

VARIABLES
  package,    \* update-staged.tar.gz
  newProgram, \* saguaro-core.new
  program,    \* saguaro-core
  page,       \* the files of the interface
  running,    \* the release that runs, None while the service is down
  step,       \* where each request is
  brought,    \* the release each request uploads, fetches or has unpacked
  written,    \* what becomes of what each request writes to its open file
  slipped,    \* updates whose open file another one has made the program
  toCopy,     \* pages each update has still to overwrite
  inCopy,     \* the page it is overwriting
  last,       \* the update that replaced the program last (history)
  met,        \* the files at which each update met another one (history)
  restarts    \* restarts nobody asked for so far

disk     == <<package, newProgram, program, page>>
copying  == <<slipped, toCopy, inCopy>>
requests == <<step, brought, written, copying>>
history  == <<last, met>>
vars == <<disk, running, requests, history, restarts>>

Up         == running # None
Rest       == {"off", "over", "failed"}
Writing    == {r \in Request : step[r] = "write"}
Go(r, s)   == step' = [step EXCEPT ![r] = s]
At(r, s)   == Up /\ step[r] = s
May(fault) == fault \in Fails

Init ==
  /\ package = None /\ newProgram = None /\ program = First
  /\ page = [p \in Page |-> IF p \in Brings[First] THEN First ELSE None]
  /\ running = First
  /\ step = [r \in Request |-> "off"]
  /\ brought = [r \in Request |-> None]
  /\ written = [r \in Request |-> "clean"]
  /\ slipped = {}
  /\ toCopy = [a \in Apply |-> {}]
  /\ inCopy = [a \in Apply |-> None]
  /\ last = NoApply
  /\ met = [a \in Apply |-> {}]
  /\ restarts = 0

----------------------------------------------------------------------------
(* A file that is opened is truncated, also while other requests write to  *)
(* it: none of them knows then whether its own part is all that is there.  *)
Open(r, others) ==
  written' = [q \in Request |->
                IF q = r THEN IF others = {} THEN "clean" ELSE "mixed"
                ELSE IF q \in others THEN "mixed" ELSE written[q]]

Filled(r) == IF written[r] = "clean" THEN {brought[r]} ELSE {brought[r], Torn}

(* The package.  What is removed has no name any more for those who write. *)
OpenPackage(r, release) ==
  /\ At(r, "off")
  /\ Go(r, "write")
  /\ brought' = [brought EXCEPT ![r] = release]
  /\ package' = Torn
  /\ Open(r, {q \in Writing : written[q] # "gone"})
  /\ UNCHANGED <<newProgram, program, page, running, copying, history, restarts>>

RemovePackage ==
  /\ package' = None
  /\ written' = [q \in Request |-> IF q \in Writing THEN "gone" ELSE written[q]]

ClosePackage(r, s) ==
  /\ At(r, "write")
  /\ Go(r, s)
  /\ package' \in IF written[r] = "gone" THEN {package} ELSE Filled(r)
  /\ UNCHANGED <<newProgram, program, page, running, brought, written, copying,
                 history, restarts>>

(* handleUpdateUpload; a transfer that breaks off removes the file.        *)
BeginUpload(u) == \E release \in Release : OpenPackage(u, release)

FinishUpload(u) == ClosePackage(u, "over")

UploadFails(u) ==
  /\ May("upload") /\ At(u, "write")
  /\ Go(u, "failed")
  /\ RemovePackage
  /\ UNCHANGED <<newProgram, program, page, running, brought, copying, history,
                 restarts>>

----------------------------------------------------------------------------
(* handleUpdateApply. *)
ApplyStaged(a) ==
  /\ At(a, "off") /\ package # None
  /\ Go(a, "unpack")
  /\ UNCHANGED <<disk, running, brought, written, copying, history, restarts>>

ApplyLatest(a) == \E release \in Offered : OpenPackage(a, release)

FinishFetch(a) == ClosePackage(a, "verify")

(* What has arrived stays in the place of the package. *)
FetchFails(a) ==
  /\ May("fetch") /\ At(a, "write")
  /\ Go(a, "failed")
  /\ UNCHANGED <<disk, running, brought, written, copying, history, restarts>>

(* A package with another hash is removed, and one whose hash cannot be    *)
(* fetched; one of a release without a hash is taken as it is.             *)
VerifyPackage(a) ==
  /\ At(a, "verify")
  /\ \/ /\ brought[a] \in Hashed => package = brought[a]
        /\ Go(a, "unpack")
        /\ UNCHANGED <<package, written>>
     \/ /\ brought[a] \in Hashed
        /\ package = brought[a] => May("fetch")
        /\ Go(a, "failed")
        /\ RemovePackage
  /\ UNCHANGED <<newProgram, program, page, running, brought, copying, history,
                 restarts>>

(* It must be whole, and there must be a program in it. *)
Usable(file) == file \in Release \ Bad

(* extractUpdate reads what is in the place now. *)
Unpack(a) ==
  /\ At(a, "unpack")
  /\ IF Usable(package)
       THEN Go(a, "backup") /\ brought' = [brought EXCEPT ![a] = package]
       ELSE Go(a, "failed") /\ UNCHANGED brought
  /\ UNCHANGED <<disk, running, written, copying, history, restarts>>

BackUp(a) ==
  /\ At(a, "backup")
  /\ Go(a, "open") \/ (May("backup") /\ Go(a, "failed"))
  /\ UNCHANGED <<disk, running, brought, written, copying, history, restarts>>

----------------------------------------------------------------------------
(* The file beside the program has one name for all updates: two that are  *)
(* between opening and renaming it meet there.                             *)
Beside(a) == {b \in Apply \ {a} : step[b] \in {"fill", "rename"}}

Fills(b) == step[b] = "fill" /\ written[b] # "gone"

Meets(a, others, file) ==
  met' = [b \in Apply |->
            IF others # {} /\ b \in others \union {a}
              THEN met[b] \union {file} ELSE met[b]]

(* Mutant: the program is written over the one that is there. *)
OpenProgramInPlace(a) ==
  /\ At(a, "open")
  /\ Go(a, "fill")
  /\ program' = Torn
  /\ slipped' = slipped \union {a}
  /\ UNCHANGED <<package, newProgram, page, running, brought, written, toCopy,
                 inCopy, history, restarts>>

OpenProgram(a) ==
  /\ At(a, "open")
  /\ Go(a, "fill")
  /\ newProgram' = Torn
  /\ Open(a, {b \in Apply \ slipped : Fills(b)})
  /\ slipped' = slipped \ {a}
  /\ Meets(a, Beside(a), "program")
  /\ UNCHANGED <<package, program, page, running, brought, toCopy, inCopy, last,
                 restarts>>

(* What is copied goes where the open file is by now: beside the program,  *)
(* in its place, or nowhere.                                               *)
Lands(a, file) ==
  /\ newProgram' = IF Fills(a) /\ a \notin slipped THEN file ELSE newProgram
  /\ program' = IF Fills(a) /\ a \in slipped THEN file ELSE program

(* The copy may fail, or the rename after it. *)
FillProgram(a) ==
  /\ At(a, "fill")
  /\ \/ \E file \in Filled(a) : Lands(a, file) /\ Go(a, "rename")
     \/ /\ May("program")
        /\ \E file \in Filled(a) \union {Torn} : Lands(a, file)
        /\ Go(a, "failed")
  /\ UNCHANGED <<package, page, running, brought, written, copying, history,
                 restarts>>

(* Another update may have renamed the file already, or be writing to it.  *)
RenameProgram(a) ==
  /\ At(a, "rename")
  /\ IF newProgram = None
       THEN /\ Go(a, "failed")
            /\ UNCHANGED <<program, newProgram, written, slipped, toCopy,
                           history>>
       ELSE /\ Go(a, "pages")
            /\ program' = newProgram /\ newProgram' = None
            /\ slipped' = {b \in Apply \ slipped : Fills(b)}
            /\ written' = [q \in Request |->
                             IF q \in slipped /\ Fills(q) THEN "gone"
                             ELSE written[q]]
            /\ toCopy' = [toCopy EXCEPT ![a] = Brings[brought[a]]]
            /\ last' = a
            /\ Meets(a, {b \in Apply \ {a} : step[b] = "pages"}, "pages")
  /\ UNCHANGED <<package, page, running, brought, inCopy, restarts>>

----------------------------------------------------------------------------
(* The pages, over those that are there. *)
OpenPage(a, p) ==
  /\ At(a, "pages") /\ inCopy[a] = None /\ p \in toCopy[a]
  /\ page' = [page EXCEPT ![p] = Torn]
  /\ inCopy' = [inCopy EXCEPT ![a] = p]
  /\ Open(a, {b \in Apply \ {a} : step[b] = "pages" /\ inCopy[b] = p})
  /\ UNCHANGED <<package, newProgram, program, running, step, brought, slipped,
                 toCopy, history, restarts>>

PageDone(a) ==
  /\ toCopy' = [toCopy EXCEPT ![a] = @ \ {inCopy[a]}]
  /\ inCopy' = [inCopy EXCEPT ![a] = None]

FillPage(a) ==
  /\ At(a, "pages") /\ inCopy[a] # None
  /\ \E file \in Filled(a) : page' = [page EXCEPT ![inCopy[a]] = file]
  /\ PageDone(a)
  /\ UNCHANGED <<package, newProgram, program, running, step, brought, written,
                 slipped, history, restarts>>

(* Mutant: the error is only logged. *)
FillPageFailsUnseen(a) ==
  /\ May("page") /\ At(a, "pages") /\ inCopy[a] # None
  /\ PageDone(a)
  /\ UNCHANGED <<disk, running, step, brought, written, slipped, history,
                 restarts>>

(* The answer is an error, and nothing is restarted. *)
FillPageFails(a) ==
  /\ May("page") /\ At(a, "pages") /\ inCopy[a] # None
  /\ Go(a, "failed")
  /\ page' \in {page, [page EXCEPT ![inCopy[a]] = Torn]}
  /\ UNCHANGED <<package, newProgram, program, running, brought, written,
                 copying, history, restarts>>

(* The package is removed, whoever has put it there, and the answer sent.  *)
Answer(a) ==
  /\ At(a, "pages") /\ toCopy[a] = {}
  /\ Go(a, "answered")
  /\ RemovePackage
  /\ UNCHANGED <<newProgram, program, page, running, brought, copying, history,
                 restarts>>

----------------------------------------------------------------------------
(* What is under way dies with the service. *)
Down ==
  /\ running' = None
  /\ step' = [r \in Request |-> IF step[r] \in Rest THEN step[r]
                                ELSE IF step[r] = "answered" THEN "over"
                                ELSE "failed"]

(* Mutant: the restart is forgotten. *)
NoRestart(a) ==
  /\ At(a, "answered")
  /\ Go(a, "over")
  /\ UNCHANGED <<disk, running, brought, written, copying, history, restarts>>

(* Two seconds after the answer. *)
RestartAfter(a) ==
  /\ At(a, "answered")
  /\ Down
  /\ UNCHANGED <<disk, brought, written, copying, history, restarts>>

(* A crash, a power cut, or somebody's restart. *)
Crash ==
  /\ Up /\ restarts < MaxRestarts
  /\ restarts' = restarts + 1
  /\ Down
  /\ UNCHANGED <<disk, brought, written, copying, history>>

(* procd starts what is there. *)
StartService ==
  /\ ~Up /\ program \in Release
  /\ running' = program
  /\ UNCHANGED <<disk, requests, history, restarts>>

Updates(a) ==
  \/ ApplyStaged(a)
  \/ ApplyLatest(a)
  \/ FinishFetch(a)
  \/ FetchFails(a)
  \/ VerifyPackage(a)
  \/ Unpack(a)
  \/ BackUp(a)
  \/ OpenProgram(a)
  \/ FillProgram(a)
  \/ RenameProgram(a)
  \/ \E p \in Page : OpenPage(a, p)
  \/ FillPage(a)
  \/ FillPageFails(a)
  \/ Answer(a)
  \/ RestartAfter(a)

Uploads(u) ==
  \/ BeginUpload(u)
  \/ FinishUpload(u)
  \/ UploadFails(u)

Next ==
  \/ \E u \in Upload : Uploads(u)
  \/ \E a \in Apply : Updates(a)
  \/ Crash
  \/ StartService

(* The goroutine that restarts the service is run, and procd respawns it.  *)
Fairness ==
  /\ WF_vars(StartService)
  /\ \A a \in Apply : WF_vars(RestartAfter(a))

Spec == Init /\ [][Next]_vars /\ Fairness

----------------------------------------------------------------------------
(* Types. *)
TypeOK ==
  /\ package \in File /\ newProgram \in File /\ program \in File
  /\ page \in [Page -> File]
  /\ running \in Release \union {None}
  /\ step \in [Request -> {"off", "write", "verify", "unpack", "backup", "open",
                           "fill", "rename", "pages", "answered", "over",
                           "failed"}]
  /\ brought \in [Request -> Release \union {None}]
  /\ written \in [Request -> {"clean", "mixed", "gone"}]
  /\ slipped \subseteq Apply
  /\ toCopy \in [Apply -> SUBSET Page]
  /\ inCopy \in [Apply -> Page \union {None}]
  /\ last \in Apply \union {NoApply}
  /\ met \in [Apply -> SUBSET {"program", "pages"}]
  /\ restarts \in 0..MaxRestarts

MetAt(file) == last # NoApply /\ file \in met[last]

(* Whatever fails, and wherever the power goes, there is a whole program   *)
(* to start (update.go:59): unless the update that put it in place met     *)
(* another one at the file beside the program, when it may have renamed    *)
(* what the other had only half written.                                   *)
ProgramIsWhole == MetAt("program") \/ program \in Release \ Bad

(* After an update that was answered, program and pages are those of one   *)
(* release, the one it has unpacked, also when earlier updates failed      *)
(* half-way or met each other, and when the package was replaced           *)
(* meanwhile; until the next update replaces the program.  Excepted is an  *)
(* update that met another one itself, at the program or at the pages.     *)
UpdateIsWhole ==
  last # NoApply =>
    (step[last] \in {"answered", "over"} /\ met[last] = {} =>
       /\ program = brought[last]
       /\ \A p \in Brings[program] : page[p] = program)

(* An update that was answered takes effect without anybody's doing, and   *)
(* whatever crashes (PRIRUCNIK.md:799), unless updates that met have left  *)
(* no whole program to start.                                              *)
UpdateTakesEffect ==
  \A a \in Apply :
    step[a] = "answered" ~> (running = program \/ MetAt("program"))
=============================================================================
