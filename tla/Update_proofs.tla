--------------------------- MODULE Update_proofs ----------------------------
(***************************************************************************)
(* Proofs about Update, for any releases, pages and requests, in any       *)
(* order and at the same time: there is a whole program unless the update  *)
(* that put it in place met another one there, and an update that was      *)
(* answered and met no other one has installed one release.                *)
(***************************************************************************)
EXTENDS Update, TLAPS

(* The initial state has the types of TypeOK. *)
LEMMA TypeInit == Init => TypeOK
  BY UpdateAssumption DEF Init, TypeOK, File, Request

----------------------------------------------------------------------------
(* The inductive invariant.  Two updates at the file beside the program,   *)
(* or at the pages, at the same time have met there.                       *)
Meetings ==
  \A a, b \in Apply :
    /\ a # b /\ step[a] \in {"fill", "rename"} /\ step[b] \in {"fill", "rename"}
         => "program" \in met[a]
    /\ a # b /\ step[a] = "pages" /\ step[b] = "pages" => "pages" \in met[a]

(* What an update has unpacked is usable. *)
Unpacked == {"backup", "open", "fill", "rename", "pages", "answered", "over"}

UnpackedUsable ==
  \A a \in Apply : step[a] \in Unpacked \/ a = last => Usable(brought[a])

(* An update that has met no other one is the only one to write to its new *)
(* program, and renames it when it is all there; and a file that has       *)
(* become the program under its writer did so in a meeting.                *)
WritesAlone ==
  \A a \in Apply :
    /\ step[a] = "fill" /\ "program" \notin met[a]
         => a \notin slipped /\ written[a] = "clean"
    /\ step[a] = "rename" /\ "program" \notin met[a] => newProgram = brought[a]
    /\ step[a] = "fill" /\ a \in slipped => MetAt("program")

(* The pages are copied by the update that replaced the program last, or   *)
(* by one that it met there.                                               *)
CopiesPages ==
  \A a \in Apply :
    /\ step[a] = "pages" => last # NoApply /\ (a # last => MetAt("pages"))
    /\ step[a] = "pages" /\ inCopy[a] # None =>
         /\ inCopy[a] \in toCopy[a]
         /\ "pages" \notin met[a] => written[a] = "clean"
    /\ step[a] \in {"answered", "over"} => toCopy[a] = {}
    /\ step[a] \notin {"pages", "failed"} => inCopy[a] = None

(* The program is the one of the update that replaced it last, and so are  *)
(* its pages, those still to copy excepted.                                *)
Installed ==
  /\ last \in Apply => step[last] \in {"pages", "answered", "over", "failed"}
  /\ last = NoApply => program = First
  /\ last # NoApply /\ ~MetAt("program") => program = brought[last]
  /\ last # NoApply /\ met[last] = {}
       /\ step[last] \in {"pages", "answered", "over"}
       => \A p \in Brings[brought[last]] \ toCopy[last] : page[p] = brought[last]

UpdateInv ==
  Meetings /\ UnpackedUsable /\ WritesAlone /\ CopiesPages /\ Installed

----------------------------------------------------------------------------
(* Opening a file changes what others write to that file only.             *)
LEMMA OpenKeeps ==
  ASSUME TypeOK, NEW r \in Request, NEW others, Open(r, others)
  PROVE  /\ written' \in [Request -> {"clean", "mixed", "gone"}]
         /\ others = {} => written'[r] = "clean"
         /\ \A q \in Request \ {r} : q \notin others => written'[q] = written[q]
  BY DEF TypeOK, Open

(* Two that meet at a file are noted, and nobody is forgotten.             *)
LEMMA MeetsKeeps ==
  ASSUME TypeOK, NEW a \in Apply, NEW others \in SUBSET Apply,
         NEW file \in {"program", "pages"}, Meets(a, others, file)
  PROVE  /\ met' \in [Apply -> SUBSET {"program", "pages"}]
         /\ \A b \in Apply : met[b] \subseteq met'[b]
         /\ \A b \in others : file \in met'[b] /\ file \in met'[a]
         /\ \A b \in Apply : \A f \in {"program", "pages"} \ {file} :
              f \in met'[b] => f \in met[b]
         /\ others = {} => met'[a] = met[a]
  BY DEF TypeOK, Meets

(* What a writer leaves in its file is whole when it writes alone.         *)
LEMMA FilledType ==
  ASSUME TypeOK, NEW r \in Request, brought[r] \in Release
  PROVE  /\ Filled(r) \subseteq File
         /\ written[r] = "clean" => Filled(r) = {brought[r]}
  BY DEF TypeOK, Filled, File

(* Every step keeps the types, action by action. *)
LEMMA TypeStep == TypeOK /\ UpdateInv /\ [Next]_vars => TypeOK'
  <1> SUFFICES ASSUME TypeOK, UpdateInv, [Next]_vars PROVE TypeOK'
    OBVIOUS
  <1> USE UpdateAssumption
      DEF disk, copying, history, requests, File, Request, Go, At, Up
  <1>1. ASSUME NEW r \in Request, NEW release \in Release,
               OpenPackage(r, release)
        PROVE  TypeOK'
    <2>1. written' \in [Request -> {"clean", "mixed", "gone"}]
      BY <1>1, OpenKeeps DEF OpenPackage
    <2> QED
      BY <1>1, <2>1 DEF TypeOK, OpenPackage
  <1>2. ASSUME NEW r \in Request, NEW s \in {"over", "verify"},
               ClosePackage(r, s)
        PROVE  TypeOK'
    <2>1. package' \in File
      BY <1>2 DEF TypeOK, ClosePackage, Filled
    <2> QED
      BY <1>2, <2>1 DEF TypeOK, ClosePackage
  <1>3. ASSUME NEW u \in Upload, UploadFails(u) PROVE TypeOK'
    BY <1>3 DEF TypeOK, UploadFails, RemovePackage
  <1>4. ASSUME NEW a \in Apply, ApplyStaged(a) \/ FetchFails(a)
        PROVE  TypeOK'
    BY <1>4 DEF TypeOK, ApplyStaged, FetchFails
  <1>5. ASSUME NEW a \in Apply, VerifyPackage(a) PROVE TypeOK'
    BY <1>5 DEF TypeOK, VerifyPackage, RemovePackage
  <1>6. ASSUME NEW a \in Apply, Unpack(a) PROVE TypeOK'
    BY <1>6 DEF TypeOK, Unpack, Usable
  <1>7. ASSUME NEW a \in Apply, BackUp(a) PROVE TypeOK'
    BY <1>7 DEF TypeOK, BackUp
  <1>8. ASSUME NEW a \in Apply, OpenProgram(a) PROVE TypeOK'
    <2>1. written' \in [Request -> {"clean", "mixed", "gone"}]
      BY <1>8, OpenKeeps DEF OpenProgram
    <2>2. met' \in [Apply -> SUBSET {"program", "pages"}]
      BY <1>8, MeetsKeeps DEF OpenProgram, Beside
    <2> QED
      BY <1>8, <2>1, <2>2 DEF TypeOK, OpenProgram
  <1>9. ASSUME NEW a \in Apply, FillProgram(a) PROVE TypeOK'
    <2>1. brought[a] \in Release
      BY <1>9 DEF UpdateInv, UnpackedUsable, Unpacked, Usable, FillProgram
    <2>2. newProgram' \in File /\ program' \in File
      BY <1>9, <2>1 DEF TypeOK, FillProgram, Lands, Filled
    <2>3. step'[a] \in {"rename", "failed"}
          /\ step' = [step EXCEPT ![a] = step'[a]]
      BY <1>9 DEF TypeOK, FillProgram
    <2> QED
      BY <1>9, <2>2, <2>3 DEF TypeOK, FillProgram
  <1>10. ASSUME NEW a \in Apply, RenameProgram(a) PROVE TypeOK'
    <2>1. brought[a] \in Release
      BY <1>10 DEF UpdateInv, UnpackedUsable, Unpacked, Usable, RenameProgram
    <2>2. CASE newProgram = None
      BY <1>10, <2>2 DEF TypeOK, RenameProgram
    <2>3. CASE newProgram # None
      <3>1. met' \in [Apply -> SUBSET {"program", "pages"}]
        BY <1>10, <2>3, MeetsKeeps DEF RenameProgram
      <3>2. written' \in [Request -> {"clean", "mixed", "gone"}]
        BY <1>10, <2>3 DEF RenameProgram, TypeOK
      <3>3. step' = [step EXCEPT ![a] = "pages"] /\ program' = newProgram
            /\ newProgram' = None /\ last' = a /\ slipped' \subseteq Apply
            /\ toCopy' = [toCopy EXCEPT ![a] = Brings[brought[a]]]
        BY <1>10, <2>3 DEF RenameProgram
      <3>4. UNCHANGED <<package, page, running, brought, inCopy, restarts>>
        BY <1>10 DEF RenameProgram
      <3>5. toCopy' \in [Apply -> SUBSET Page]
        BY <2>1, <3>3 DEF TypeOK
      <3> QED
        BY <3>1, <3>2, <3>3, <3>4, <3>5 DEF TypeOK
    <2> QED
      BY <2>2, <2>3
  <1>11. ASSUME NEW a \in Apply, NEW p \in Page, OpenPage(a, p)
         PROVE  TypeOK'
    <2>1. written' \in [Request -> {"clean", "mixed", "gone"}]
      BY <1>11, OpenKeeps DEF OpenPage
    <2> QED
      BY <1>11, <2>1 DEF TypeOK, OpenPage
  <1>12. ASSUME NEW a \in Apply, FillPage(a) PROVE TypeOK'
    <2>1. brought[a] \in Release
      BY <1>12 DEF UpdateInv, UnpackedUsable, Unpacked, Usable, FillPage
    <2>2. PICK file \in File : page' = [page EXCEPT ![inCopy[a]] = file]
      BY <1>12, <2>1, FilledType DEF FillPage
    <2> QED
      BY <1>12, <2>2 DEF TypeOK, FillPage, PageDone
  <1>13. ASSUME NEW a \in Apply, FillPageFails(a) PROVE TypeOK'
    BY <1>13 DEF TypeOK, FillPageFails
  <1>14. ASSUME NEW a \in Apply, Answer(a) PROVE TypeOK'
    BY <1>14 DEF TypeOK, Answer, RemovePackage
  <1>15. ASSUME NEW a \in Apply, RestartAfter(a) PROVE TypeOK'
    BY <1>15 DEF TypeOK, RestartAfter, Down
  <1>16. ASSUME Crash PROVE TypeOK'
    BY <1>16 DEF TypeOK, Crash, Down
  <1>17. ASSUME StartService PROVE TypeOK'
    BY <1>17 DEF TypeOK, StartService
  <1>18. CASE UNCHANGED vars
    BY <1>18 DEF TypeOK, vars
  <1> QED
    BY <1>1, <1>2, <1>3, <1>4, <1>5, <1>6, <1>7, <1>8, <1>9, <1>10, <1>11,
       <1>12, <1>13, <1>14, <1>15, <1>16, <1>17, <1>18
       DEF Next, Updates, Uploads, BeginUpload, FinishUpload, ApplyLatest,
           FinishFetch

(* The invariant holds at first. *)
LEMMA UpdateInvInit == Init => UpdateInv
  BY UpdateAssumption
     DEF Init, UpdateInv, Meetings, UnpackedUsable, WritesAlone, CopiesPages,
         Installed, Unpacked, Request, MetAt, Usable

(* A step of an upload, or of an update before it makes its backup, leaves *)
(* the installed files and those of other updates alone.                   *)
LEMMA EarlyStep ==
  ASSUME TypeOK, UpdateInv, NEW r \in Request, NEW s,
         step' = [step EXCEPT ![r] = s],
         r \in Apply =>
           /\ step[r] \in {"off", "write", "verify", "unpack"}
           /\ s \in {"write", "verify", "unpack", "backup", "failed"}
           /\ s = "backup" => Usable(brought'[r]),
         \A q \in Request \ {r} : brought'[q] = brought[q],
         \A q \in Apply : step[q] \in {"fill", "pages"}
                            => written'[q] = written[q],
         UNCHANGED <<newProgram, program, page, copying, history>>
  PROVE  UpdateInv'
  <1> USE DEF Request, TypeOK, copying, history
  <1>1. \A a \in Apply : step'[a] = IF a = r THEN s ELSE step[a]
    OBVIOUS
  <1>2. r # last \/ r \notin Apply
    BY DEF UpdateInv, Installed
  <1>3. Meetings'
    BY <1>1 DEF UpdateInv, Meetings
  <1>4. UnpackedUsable'
    BY <1>1, <1>2 DEF UpdateInv, UnpackedUsable, Unpacked, Usable
  <1>5. WritesAlone'
    BY <1>1 DEF UpdateInv, WritesAlone, MetAt
  <1>6. CopiesPages'
    BY <1>1 DEF UpdateInv, CopiesPages, MetAt
  <1>7. Installed'
    BY <1>1, <1>2, UpdateAssumption DEF UpdateInv, Installed, MetAt
  <1> QED
    BY <1>3, <1>4, <1>5, <1>6, <1>7 DEF UpdateInv

(* A step that ends or answers a request leaves everything else alone. *)
LEMMA LateStep ==
  ASSUME TypeOK, UpdateInv,
         \A a \in Apply :
           \/ step'[a] = step[a]
           \/ step'[a] = "failed"
           \/ step[a] = "pages" /\ step'[a] = "answered" /\ toCopy[a] = {}
           \/ step[a] = "answered" /\ step'[a] = "over"
           \/ step[a] = "backup" /\ step'[a] = "open",
         \A q \in Apply : step[q] \in {"fill", "pages"}
                            => written'[q] = written[q],
         page' = page \/ \E a \in Apply, p \in Page :
           /\ step[a] = "pages" /\ step'[a] = "failed"
           /\ page' = [page EXCEPT ![p] = Torn],
         UNCHANGED <<newProgram, program, brought, copying, history>>
  PROVE  UpdateInv'
  <1> USE DEF Request, TypeOK, copying, history
  <1>1. Meetings' /\ UnpackedUsable'
    BY DEF UpdateInv, Meetings, UnpackedUsable, Unpacked, Usable
  <1>2. WritesAlone'
    BY DEF UpdateInv, WritesAlone, MetAt
  <1>3. CopiesPages'
    BY DEF UpdateInv, CopiesPages, MetAt
  <1>4. Installed'
    BY UpdateAssumption DEF UpdateInv, Installed, CopiesPages, MetAt
  <1> QED
    BY <1>1, <1>2, <1>3, <1>4 DEF UpdateInv

(* Opening the new program: who is there already is met. *)
LEMMA OpenProgramStep ==
  ASSUME TypeOK, UpdateInv, NEW a \in Apply, OpenProgram(a)
  PROVE  UpdateInv'
  <1> USE DEF Request
  <1> DEFINE others == {b \in Apply \ slipped : Fills(b)}
  <1>1. /\ step[a] = "open" /\ step' = [step EXCEPT ![a] = "fill"]
        /\ newProgram' = Torn /\ slipped' = slipped \ {a}
        /\ Open(a, others) /\ Meets(a, Beside(a), "program")
        /\ UNCHANGED <<program, page, brought, toCopy, inCopy, last>>
    BY DEF OpenProgram, At, Go
  <1>2. /\ step'[a] = "fill"
        /\ \A b \in Apply \ {a} : step'[b] = step[b]
    BY <1>1 DEF TypeOK
  <1>3. /\ \A b \in Apply : met[b] \subseteq met'[b]
        /\ \A b \in Beside(a) : "program" \in met'[b] /\ "program" \in met'[a]
        /\ \A b \in Apply : "pages" \in met'[b] => "pages" \in met[b]
        /\ Beside(a) = {} => met'[a] = met[a]
    BY <1>1, MeetsKeeps DEF Beside
  <1>4. /\ others = {} => written'[a] = "clean"
        /\ \A b \in Apply \ {a} : b \notin others => written'[b] = written[b]
    BY <1>1, OpenKeeps
  <1>5. others \subseteq Beside(a)
    BY <1>1 DEF Beside, Fills
  <1>6. MetAt("program") => MetAt("program")'
    BY <1>1, <1>3 DEF MetAt, TypeOK
  <1>7. MetAt("pages") => MetAt("pages")'
    BY <1>1, <1>3 DEF MetAt, TypeOK
  <1>8. Meetings'
    BY <1>1, <1>2, <1>3 DEF UpdateInv, Meetings, Beside
  <1>9. UnpackedUsable'
    BY <1>1, <1>2 DEF UpdateInv, UnpackedUsable, Unpacked
  <1>10. WritesAlone'
    <2> SUFFICES ASSUME NEW b \in Apply
                 PROVE  /\ step'[b] = "fill" /\ "program" \notin met'[b]
                             => b \notin slipped' /\ written'[b] = "clean"
                        /\ step'[b] = "rename" /\ "program" \notin met'[b]
                             => newProgram' = brought'[b]
                        /\ step'[b] = "fill" /\ b \in slipped'
                             => MetAt("program")'
      BY DEF WritesAlone
    <2>1. CASE b = a
      <3>1. "program" \notin met'[a] => Beside(a) = {}
        BY <1>3
      <3> QED
        BY <2>1, <3>1, <1>1, <1>2, <1>4, <1>5
    <2>2. CASE b # a
      <3>1. step[b] \in {"fill", "rename"} => b \in Beside(a)
        BY <2>2 DEF Beside
      <3> QED
        BY <2>2, <3>1, <1>1, <1>2, <1>3, <1>6 DEF UpdateInv, WritesAlone
    <2> QED
      BY <2>1, <2>2
  <1>11. CopiesPages'
    <2> SUFFICES ASSUME NEW b \in Apply
                 PROVE  /\ step'[b] = "pages" =>
                             last' # NoApply /\ (b # last' => MetAt("pages")')
                        /\ step'[b] = "pages" /\ inCopy'[b] # None =>
                             /\ inCopy'[b] \in toCopy'[b]
                             /\ "pages" \notin met'[b] => written'[b] = "clean"
                        /\ step'[b] \in {"answered", "over"} => toCopy'[b] = {}
                        /\ step'[b] \notin {"pages", "failed"}
                             => inCopy'[b] = None
      BY DEF CopiesPages
    <2>1. step[b] = "pages" => b # a /\ b \notin others
      BY <1>1 DEF Fills
    <2>2. step'[b] = "pages" => step[b] = "pages" /\ written'[b] = written[b]
      BY <1>2, <1>4, <2>1
    <2> QED
      BY <1>1, <1>2, <1>3, <1>7, <2>2 DEF UpdateInv, CopiesPages
  <1>12. Installed'
    <2>1. last # a
      BY <1>1 DEF UpdateInv, Installed
    <2>2. last # NoApply => last \in Apply
      BY DEF TypeOK
    <2>3. last # NoApply => (met'[last] = {} => met[last] = {})
      BY <2>2, <1>3
    <2> QED
      BY <1>1, <1>2, <1>6, <2>1, <2>2, <2>3, UpdateAssumption
         DEF UpdateInv, Installed
  <1> QED
    BY <1>8, <1>9, <1>10, <1>11, <1>12 DEF UpdateInv

(* Filling it: who is alone leaves it whole, beside the program. *)
LEMMA FillProgramStep ==
  ASSUME TypeOK, UpdateInv, NEW a \in Apply, FillProgram(a)
  PROVE  UpdateInv'
  <1> USE DEF Request
  <1>1. /\ step[a] = "fill" /\ step'[a] \in {"rename", "failed"}
        /\ \A b \in Apply \ {a} : step'[b] = step[b]
        /\ UNCHANGED <<page, brought, written, slipped, toCopy, inCopy, last,
                       met>>
    BY DEF FillProgram, At, Go, TypeOK, copying, history
  <1>2. brought[a] \in Release
    BY <1>1 DEF UpdateInv, UnpackedUsable, Unpacked, Usable
  <1>3. /\ a \notin slipped => program' = program
        /\ a \in slipped => newProgram' = newProgram
    BY DEF FillProgram, Lands
  <1>4. step'[a] = "rename" /\ "program" \notin met[a]
          => newProgram' = brought[a]
    <2> SUFFICES ASSUME step'[a] = "rename", "program" \notin met[a]
                 PROVE  newProgram' = brought[a]
      OBVIOUS
    <2>1. a \notin slipped /\ written[a] = "clean"
      BY <1>1 DEF UpdateInv, WritesAlone
    <2>2. Fills(a)
      BY <1>1, <2>1 DEF Fills
    <2>3. PICK file \in Filled(a) : Lands(a, file)
      BY <1>1 DEF FillProgram, Go, TypeOK
    <2> QED
      BY <2>1, <2>2, <2>3 DEF Lands, Filled
  <1>5. Meetings' /\ UnpackedUsable'
    BY <1>1 DEF UpdateInv, Meetings, UnpackedUsable, Unpacked, Usable
  <1>6. WritesAlone'
    <2>1. \A b \in Apply \ {a} : step[b] = "rename" => "program" \in met[b]
      BY <1>1 DEF UpdateInv, Meetings
    <2> QED
      BY <1>1, <1>4, <2>1 DEF UpdateInv, WritesAlone, MetAt
  <1>7. CopiesPages'
    BY <1>1 DEF UpdateInv, CopiesPages, MetAt
  <1>8. Installed'
    <2>1. /\ last # NoApply => last \in Apply
          /\ last \in Apply => step'[last] = step[last]
      BY <1>1 DEF TypeOK, UpdateInv, Installed
    <2>2. program' = program \/ MetAt("program")
      BY <1>1, <1>3 DEF UpdateInv, WritesAlone
    <2>3. MetAt("program")' <=> MetAt("program")
      BY <1>1 DEF MetAt
    <2>4. CASE program' = program
      BY <1>1, <2>1, <2>3, <2>4 DEF UpdateInv, Installed
    <2>5. CASE MetAt("program")
      <3>1. last # NoApply /\ met[last] # {}
        BY <2>5 DEF MetAt
      <3> QED
        BY <1>1, <2>1, <2>3, <2>5, <3>1 DEF UpdateInv, Installed
    <2> QED
      BY <2>2, <2>4, <2>5
  <1> QED
    BY <1>5, <1>6, <1>7, <1>8 DEF UpdateInv

(* The rename: who has met no one renames its own, whole program. *)
LEMMA RenameProgramStep ==
  ASSUME TypeOK, UpdateInv, NEW a \in Apply, RenameProgram(a),
         newProgram # None
  PROVE  UpdateInv'
  <1> USE DEF Request
  <1> DEFINE others == {b \in Apply \ {a} : step[b] = "pages"}
  <1>1. /\ step[a] = "rename" /\ step' = [step EXCEPT ![a] = "pages"]
        /\ program' = newProgram /\ newProgram' = None
        /\ slipped' = {b \in Apply \ slipped : Fills(b)}
        /\ written' = [q \in Request |->
                         IF q \in slipped /\ Fills(q) THEN "gone"
                         ELSE written[q]]
        /\ toCopy' = [toCopy EXCEPT ![a] = Brings[brought[a]]]
        /\ last' = a /\ Meets(a, others, "pages")
        /\ UNCHANGED <<page, brought, inCopy>>
    BY DEF RenameProgram, At, Go
  <1>2. /\ step'[a] = "pages" /\ \A b \in Apply \ {a} : step'[b] = step[b]
        /\ toCopy'[a] = Brings[brought[a]]
        /\ \A b \in Apply \ {a} : toCopy'[b] = toCopy[b]
    BY <1>1 DEF TypeOK
  <1>3. /\ \A b \in Apply : met[b] \subseteq met'[b]
        /\ \A b \in others : "pages" \in met'[b] /\ "pages" \in met'[a]
        /\ \A b \in Apply : "program" \in met'[b] => "program" \in met[b]
    BY <1>1, MeetsKeeps
  <1>4. a # NoApply /\ inCopy[a] = None /\ Usable(brought[a])
    BY <1>1, UpdateAssumption
       DEF UpdateInv, CopiesPages, UnpackedUsable, Unpacked
  <1>5. \A b \in Apply : step[b] = "fill" => "program" \in met[a]
                                           /\ "program" \in met[b]
    BY <1>1 DEF UpdateInv, Meetings
  <1>6. \A b \in Apply : step[b] = "rename" /\ b # a => "program" \in met[b]
    BY <1>1 DEF UpdateInv, Meetings
  <1>7. MetAt("program")' <=> "program" \in met'[a]
    BY <1>1, <1>4 DEF MetAt
  <1>8. MetAt("pages")' <=> "pages" \in met'[a]
    BY <1>1, <1>4 DEF MetAt
  <1>9. Meetings'
    BY <1>2, <1>3 DEF UpdateInv, Meetings
  <1>10. UnpackedUsable'
    BY <1>1, <1>2, <1>4 DEF UpdateInv, UnpackedUsable, Unpacked
  <1>11. WritesAlone'
    <2>1. \A b \in Apply : step'[b] = "fill" => "program" \in met'[b]
                                             /\ "program" \in met'[a]
      BY <1>2, <1>3, <1>5
    <2>2. \A b \in Apply : step'[b] = "rename" => "program" \in met'[b]
      BY <1>2, <1>3, <1>6
    <2> QED
      BY <1>7, <2>1, <2>2 DEF WritesAlone
  <1>12. CopiesPages'
    <2> SUFFICES ASSUME NEW b \in Apply
                 PROVE  /\ step'[b] = "pages" =>
                             last' # NoApply /\ (b # last' => MetAt("pages")')
                        /\ step'[b] = "pages" /\ inCopy'[b] # None =>
                             /\ inCopy'[b] \in toCopy'[b]
                             /\ "pages" \notin met'[b] => written'[b] = "clean"
                        /\ step'[b] \in {"answered", "over"} => toCopy'[b] = {}
                        /\ step'[b] \notin {"pages", "failed"}
                             => inCopy'[b] = None
      BY DEF CopiesPages
    <2>1. CASE b = a
      BY <2>1, <1>1, <1>2, <1>4
    <2>2. CASE b # a
      BY <2>2, <1>1, <1>2, <1>3, <1>4, <1>8 DEF UpdateInv, CopiesPages
    <2> QED
      BY <2>1, <2>2
  <1>13. Installed'
    <2>1. "program" \notin met'[a] => program' = brought[a]
      BY <1>1, <1>3 DEF UpdateInv, WritesAlone
    <2> QED
      BY <1>1, <1>2, <1>4, <1>7, <2>1 DEF Installed
  <1> QED
    BY <1>9, <1>10, <1>11, <1>12, <1>13 DEF UpdateInv

(* Opening a page: another update in its pages has been met. *)
LEMMA OpenPageStep ==
  ASSUME TypeOK, UpdateInv, NEW a \in Apply, NEW p \in Page, OpenPage(a, p)
  PROVE  UpdateInv'
  <1> USE DEF Request
  <1> DEFINE others == {b \in Apply \ {a} : step[b] = "pages" /\ inCopy[b] = p}
  <1>1. /\ step[a] = "pages" /\ inCopy[a] = None /\ p \in toCopy[a]
        /\ page' = [page EXCEPT ![p] = Torn]
        /\ inCopy' = [inCopy EXCEPT ![a] = p]
        /\ Open(a, others)
        /\ UNCHANGED <<newProgram, program, step, brought, slipped, toCopy,
                       last, met>>
    BY DEF OpenPage, At, history
  <1>2. /\ inCopy'[a] = p /\ \A b \in Apply \ {a} : inCopy'[b] = inCopy[b]
        /\ \A q \in Page \ {p} : page'[q] = page[q]
    BY <1>1 DEF TypeOK
  <1>3. /\ others = {} => written'[a] = "clean"
        /\ \A b \in Apply \ {a} : b \notin others => written'[b] = written[b]
    BY <1>1, OpenKeeps
  <1>4. \A b \in others : "pages" \in met[b] /\ "pages" \in met[a]
    BY <1>1 DEF UpdateInv, Meetings
  <1>5. Meetings' /\ UnpackedUsable'
    BY <1>1 DEF UpdateInv, Meetings, UnpackedUsable, Unpacked
  <1>6. WritesAlone'
    <2>1. \A b \in Apply : step[b] = "fill" => written'[b] = written[b]
      BY <1>1, <1>3
    <2> QED
      BY <1>1, <2>1 DEF UpdateInv, WritesAlone, MetAt
  <1>7. CopiesPages'
    <2> SUFFICES ASSUME NEW b \in Apply
                 PROVE  /\ step'[b] = "pages" =>
                             last' # NoApply /\ (b # last' => MetAt("pages")')
                        /\ step'[b] = "pages" /\ inCopy'[b] # None =>
                             /\ inCopy'[b] \in toCopy'[b]
                             /\ "pages" \notin met'[b] => written'[b] = "clean"
                        /\ step'[b] \in {"answered", "over"} => toCopy'[b] = {}
                        /\ step'[b] \notin {"pages", "failed"}
                             => inCopy'[b] = None
      BY DEF CopiesPages
    <2>1. CASE b = a
      BY <2>1, <1>1, <1>2, <1>3, <1>4 DEF UpdateInv, CopiesPages, MetAt
    <2>2. CASE b # a
      BY <2>2, <1>1, <1>2, <1>3, <1>4 DEF UpdateInv, CopiesPages, MetAt
    <2> QED
      BY <2>1, <2>2
  <1>8. Installed'
    <2>1. last # NoApply /\ (a = last \/ MetAt("pages"))
      BY <1>1 DEF UpdateInv, CopiesPages
    <2>2. Brings[brought[a]] \in SUBSET Page
      BY <1>1, UpdateAssumption
         DEF UpdateInv, UnpackedUsable, Unpacked, Usable
    <2> QED
      BY <1>1, <1>2, <2>1, <2>2 DEF UpdateInv, Installed, MetAt
  <1> QED
    BY <1>5, <1>6, <1>7, <1>8 DEF UpdateInv

(* Filling it: who has met no one leaves it whole. *)
LEMMA FillPageStep ==
  ASSUME TypeOK, UpdateInv, NEW a \in Apply, FillPage(a)
  PROVE  UpdateInv'
  <1> USE DEF Request
  <1>1. /\ step[a] = "pages" /\ inCopy[a] # None
        /\ toCopy' = [toCopy EXCEPT ![a] = @ \ {inCopy[a]}]
        /\ inCopy' = [inCopy EXCEPT ![a] = None]
        /\ UNCHANGED <<newProgram, program, step, brought, written, slipped,
                       last, met>>
    BY DEF FillPage, PageDone, At, history
  <1>2. PICK file \in Filled(a) : page' = [page EXCEPT ![inCopy[a]] = file]
    BY DEF FillPage
  <1>3. /\ inCopy[a] \in toCopy[a] /\ inCopy[a] \in Page
        /\ toCopy'[a] = toCopy[a] \ {inCopy[a]} /\ inCopy'[a] = None
        /\ page'[inCopy[a]] = file
        /\ \A q \in Page \ {inCopy[a]} : page'[q] = page[q]
        /\ \A b \in Apply \ {a} : inCopy'[b] = inCopy[b] /\ toCopy'[b] = toCopy[b]
    BY <1>1, <1>2 DEF TypeOK, UpdateInv, CopiesPages
  <1>4. "pages" \notin met[a] => file = brought[a]
    BY <1>1, <1>2 DEF UpdateInv, CopiesPages, Filled
  <1>5. Meetings' /\ UnpackedUsable' /\ WritesAlone'
    BY <1>1 DEF UpdateInv, Meetings, UnpackedUsable, Unpacked, WritesAlone,
                MetAt
  <1>6. CopiesPages'
    BY <1>1, <1>3 DEF UpdateInv, CopiesPages, MetAt
  <1>7. Installed'
    <2>1. last # NoApply /\ (a = last \/ MetAt("pages"))
      BY <1>1 DEF UpdateInv, CopiesPages
    <2>2. Brings[brought[a]] \in SUBSET Page
      BY <1>1, UpdateAssumption
         DEF UpdateInv, UnpackedUsable, Unpacked, Usable
    <2> QED
      BY <1>1, <1>3, <1>4, <2>1, <2>2 DEF UpdateInv, Installed, MetAt
  <1> QED
    BY <1>5, <1>6, <1>7 DEF UpdateInv

(* Every step keeps the invariant. *)
LEMMA UpdateInvStep == TypeOK /\ UpdateInv /\ [Next]_vars => UpdateInv'
  <1> SUFFICES ASSUME TypeOK, UpdateInv, [Next]_vars PROVE UpdateInv'
    OBVIOUS
  <1> USE DEF Go, At, Request, disk, requests
  <1>1. ASSUME NEW r \in Request, NEW release \in Release,
               OpenPackage(r, release)
        PROVE  UpdateInv'
    <2>1. \A q \in Apply : step[q] \in {"fill", "pages"}
                             => written'[q] = written[q]
      BY <1>1, OpenKeeps DEF OpenPackage, Writing
    <2> QED
      BY <1>1, <2>1, EarlyStep DEF OpenPackage, TypeOK
  <1>2. ASSUME NEW r \in Request, NEW s, ClosePackage(r, s),
               r \in Apply => s = "verify"
        PROVE  UpdateInv'
    BY <1>2, EarlyStep DEF ClosePackage
  <1>3. ASSUME NEW u \in Upload, Uploads(u) PROVE UpdateInv'
    <2>1. u \notin Apply
      BY UpdateAssumption
    <2>2. CASE UploadFails(u)
      BY <2>1, <2>2, EarlyStep DEF UploadFails, RemovePackage, Writing
    <2> QED
      BY <1>1, <1>2, <1>3, <2>1, <2>2 DEF Uploads, BeginUpload, FinishUpload
  <1>4. ASSUME NEW a \in Apply,
               \/ ApplyStaged(a) \/ ApplyLatest(a) \/ FinishFetch(a)
               \/ FetchFails(a) \/ VerifyPackage(a) \/ Unpack(a)
        PROVE  UpdateInv'
    <2>1. CASE ApplyStaged(a)
      BY <2>1, EarlyStep DEF ApplyStaged
    <2>2. CASE ApplyLatest(a)
      BY <2>2, <1>1, UpdateAssumption DEF ApplyLatest
    <2>3. CASE FinishFetch(a)
      BY <2>3, <1>2 DEF FinishFetch
    <2>4. CASE FetchFails(a)
      BY <2>4, EarlyStep DEF FetchFails
    <2>5. CASE VerifyPackage(a)
      <3>1. CASE step' = [step EXCEPT ![a] = "unpack"] /\ UNCHANGED written
        BY <2>5, <3>1, EarlyStep DEF VerifyPackage
      <3>2. CASE step' = [step EXCEPT ![a] = "failed"] /\ RemovePackage
        BY <2>5, <3>2, EarlyStep DEF VerifyPackage, RemovePackage, Writing
      <3> QED
        BY <2>5, <3>1, <3>2 DEF VerifyPackage
    <2>6. CASE Unpack(a)
      <3>1. CASE Usable(package)
        <4>1. /\ step[a] = "unpack" /\ step' = [step EXCEPT ![a] = "backup"]
              /\ brought' = [brought EXCEPT ![a] = package]
              /\ UNCHANGED <<disk, written, copying, history>>
          BY <2>6, <3>1 DEF Unpack
        <4>2. /\ brought'[a] = package
              /\ \A q \in Request \ {a} : brought'[q] = brought[q]
          BY <4>1 DEF TypeOK
        <4> QED
          BY <3>1, <4>1, <4>2, EarlyStep
      <3>2. CASE ~Usable(package)
        BY <2>6, <3>2, EarlyStep DEF Unpack, TypeOK
      <3> QED
        BY <3>1, <3>2
    <2> QED
      BY <1>4, <2>1, <2>2, <2>3, <2>4, <2>5, <2>6
  <1>5. ASSUME NEW a \in Apply, BackUp(a) PROVE UpdateInv'
    BY <1>5, LateStep DEF BackUp, TypeOK
  <1>6. ASSUME NEW a \in Apply, RenameProgram(a) PROVE UpdateInv'
    <2>1. CASE newProgram = None
      BY <1>6, <2>1, LateStep DEF RenameProgram, TypeOK, copying
    <2> QED
      BY <1>6, <2>1, RenameProgramStep
  <1>7. ASSUME NEW a \in Apply, FillPageFails(a) PROVE UpdateInv'
    <2>1. /\ step[a] = "pages" /\ inCopy[a] # None
          /\ step' = [step EXCEPT ![a] = "failed"]
          /\ page' \in {page, [page EXCEPT ![inCopy[a]] = Torn]}
          /\ UNCHANGED <<newProgram, program, brought, written, copying,
                         history>>
      BY <1>7 DEF FillPageFails
    <2>2. inCopy[a] \in Page /\ step'[a] = "failed"
          /\ \A b \in Apply \ {a} : step'[b] = step[b]
      BY <2>1 DEF TypeOK
    <2>3. page' = page \/ \E b \in Apply, p \in Page :
            /\ step[b] = "pages" /\ step'[b] = "failed"
            /\ page' = [page EXCEPT ![p] = Torn]
      BY <2>1, <2>2
    <2> QED
      BY <2>1, <2>2, <2>3, LateStep
  <1>8. ASSUME NEW a \in Apply, Answer(a) PROVE UpdateInv'
    BY <1>8, LateStep DEF Answer, RemovePackage, Writing, TypeOK
  <1>9. ASSUME Down,
               UNCHANGED <<newProgram, program, page, brought, written,
                           copying, history>>
        PROVE  UpdateInv'
    <2>1. \A a \in Apply : step'[a] = IF step[a] \in Rest THEN step[a]
                                      ELSE IF step[a] = "answered" THEN "over"
                                      ELSE "failed"
      BY <1>9 DEF Down
    <2> QED
      BY <1>9, <2>1, LateStep
  <1>10. CASE StartService \/ UNCHANGED vars
    BY <1>10, LateStep DEF StartService, vars
  <1> QED
    BY <1>3, <1>4, <1>5, <1>6, <1>7, <1>8, <1>9, <1>10, OpenProgramStep,
       FillProgramStep, OpenPageStep, FillPageStep
       DEF Next, Updates, Crash, RestartAfter

(* Every reachable state has the types of TypeOK and satisfies UpdateInv. *)
LEMMA Invariants == Spec => [](TypeOK /\ UpdateInv)
  BY TypeInit, UpdateInvInit, TypeStep, UpdateInvStep, PTL DEF Spec

(* Every reachable state has the types of TypeOK. *)
THEOREM TypeCorrect == Spec => []TypeOK
  BY Invariants, PTL

(* There is a whole program to start at any time, whatever fails and       *)
(* whenever the service or the device goes down, unless the update that    *)
(* put it in place met another one at the file beside the program.         *)
THEOREM AlwaysWhole == Spec => []ProgramIsWhole
  <1>1. TypeOK /\ UpdateInv => ProgramIsWhole
    <2> SUFFICES ASSUME TypeOK, UpdateInv, ~MetAt("program")
                 PROVE  program \in Release \ Bad
      BY DEF ProgramIsWhole
    <2>1. CASE last = NoApply
      BY <2>1, UpdateAssumption DEF UpdateInv, Installed
    <2>2. CASE last # NoApply
      BY <2>2 DEF UpdateInv, Installed, UnpackedUsable, Usable, TypeOK
    <2> QED
      BY <2>1, <2>2
  <1> QED
    BY <1>1, Invariants, PTL

(* An update that was answered and met no other one has installed program  *)
(* and pages of one release, whatever earlier updates have left.           *)
THEOREM OneRelease == Spec => []UpdateIsWhole
  <1>1. TypeOK /\ UpdateInv => UpdateIsWhole
    BY DEF TypeOK, UpdateInv, Installed, CopiesPages, UpdateIsWhole, MetAt
  <1> QED
    BY <1>1, Invariants, PTL
=====
