-------------------------- MODULE SafeMode_proofs --------------------------
(***************************************************************************)
(* Proofs about SafeMode, for any set of requests, any window and any      *)
(* bounds: type correctness, that the trials of SafeMode are those of      *)
(* TrialChange, what becomes of the copies a handler makes, that files and *)
(* services come together, and that an unconfirmed change is undone.       *)
(***************************************************************************)
EXTENDS SafeMode, SequenceTheorems, FiniteSetTheorems, TLAPS

(* Every handler's script is a sequence of steps.                          *)
LEMMA ScriptType == \A k \in Kind : Script[k] \in Seq(Op \X File)
  <1> DEFINE Step == Op \X File
  <1>1. \A op \in Op : Net(op) \in Step /\ Fw(op) \in Step
    BY DEF Net, Fw, File
  <1>2. /\ "backup" \in Op /\ "commit" \in Op /\ "reload" \in Op
        /\ "settings" \in Op /\ "schedule" \in Op
    BY DEF Op
  <1> HIDE DEF Step
  <1>3. ASSUME NEW k \in Kind PROVE Script[k] \in Seq(Step)
    <2>1. CASE k = "lan"
      BY <1>1, <1>2, <2>1 DEF Script, LanSet
    <2>2. CASE k = "route" \/ k = "wan"
      BY <1>1, <1>2, <2>2 DEF Script, RouteApply, WANSet
    <2>3. CASE k = "wan2"
      BY <1>1, <1>2, <2>3 DEF Script, WANAdd
    <2>4. CASE k = "wanDelete"
      BY <1>1, <1>2, <2>4 DEF Script, WANDelete
    <2>5. CASE k = "aclOn"
      BY <1>1, <1>2, <2>5 DEF Script, MgmtACLOn, MgmtACLOff
    <2>6. CASE k = "aclOff"
      BY <1>1, <1>2, <2>6 DEF Script, MgmtACLOff
    <2>7. CASE k = "otherNet"
      BY <1>1, <1>2, <2>7 DEF Script, WGSApply
    <2>8. CASE k = "otherFw"
      BY <1>1, <1>2, <2>8 DEF Script, DMZSet
    <2> QED
      BY <2>1, <2>2, <2>3, <2>4, <2>5, <2>6, <2>7, <2>8 DEF Kind
  <1> QED
    BY <1>3 DEF Step

(* What is left of a handler after its first step is a sequence of steps.  *)
LEMMA TailType ==
  ASSUME NEW c \in Change, TypeOK, todo[c] # <<>>
  PROVE  Tail(todo[c]) \in Seq(Op \X File)
  BY HeadTailProperties DEF TypeOK

(* So is what is left when it skips some.                                  *)
LEMMA AheadType ==
  ASSUME NEW c \in Change, NEW n \in 1..4, TypeOK
  PROVE  Ahead(c, n) \in Seq(Op \X File)
  BY SubSeqProperties DEF Ahead, TypeOK

(* The initial state has the types of TypeOK. *)
LEMMA TypeInit == Init => TypeOK
  <1> SUFFICES ASSUME Init PROVE TypeOK
    OBVIOUS
  <1>1. now \in Second /\ restarts \in 0..MaxRestarts
    BY SafeModeAssumption DEF Init, Second
  <1>2. <<>> \in Seq(Op \X File)
    OBVIOUS
  <1>3. 0 \in 0..LastSecond
    BY SafeModeAssumption
  <1> QED
    BY <1>1, <1>2, <1>3 DEF Init, TypeOK

(* What the handlers leave to do is a sequence of steps. *)
LEMMA TodoType ==
  ASSUME TypeOK, NEW c \in Change
  PROVE  /\ Done(c) /\ Active(c) => todo' \in [Change -> Seq(Op \X File)]
         /\ Quit(c) => todo' \in [Change -> Seq(Op \X File)]
  <1>1. Active(c) => Tail(todo[c]) \in Seq(Op \X File)
    BY TailType DEF Active
  <1>2. <<>> \in Seq(Op \X File)
    OBVIOUS
  <1>3. ASSUME NEW s \in Seq(Op \X File), todo' = [todo EXCEPT ![c] = s]
        PROVE  todo' \in [Change -> Seq(Op \X File)]
    BY <1>3, Zenon DEF TypeOK
  <1> QED
    BY <1>1, <1>2, <1>3, Zenon DEF Done, Quit

(* Every step keeps the types, action by action.                           *)
LEMMA TypeStep == TypeOK /\ [Next]_vars => TypeOK'
  <1> SUFFICES ASSUME TypeOK, [Next]_vars PROVE TypeOK'
    OBVIOUS
  <1> USE DEF config, backups, handlers, trials, rollback
  <1>1. ASSUME NEW c \in Change, NEW k \in Offered[c], Begin(c, k)
        PROVE  TypeOK'
    <2>1. k \in Kind
      BY SafeModeAssumption
    <2>2. Script[k] \in Seq(Op \X File)
      BY <2>1, ScriptType
    <2> QED
      BY <1>1, <2>1, <2>2 DEF TypeOK, Begin
  <1>2. ASSUME NEW c \in Change, NEW f \in File, Backup(c, f)
        PROVE  TypeOK'
    <2>1. todo' \in [Change -> Seq(Op \X File)]
      BY <1>2, TodoType DEF Backup, Doing
    <2>2. saved' \in SUBSET (File \X Second)
      BY <1>2 DEF TypeOK, Backup, Newest
    <2>3. name' \in [Change -> [File -> 0..LastSecond]]
      BY <1>2, SafeModeAssumption DEF TypeOK, Backup, Second
    <2> QED
      BY <1>2, <2>1, <2>2, <2>3 DEF TypeOK, Backup
  <1>3. ASSUME NEW c \in Change, NEW f \in File, BackupFails(c, f)
        PROVE  TypeOK'
    BY <1>3, TodoType DEF TypeOK, BackupFails, Abort
  <1>4. ASSUME NEW c \in Change, NEW f \in File, Commit(c, f)
        PROVE  TypeOK'
    <2>1. AfterCommit(c, f) \in Seq(Op \X File)
      BY AheadType DEF AfterCommit
    <2>2. file' \in [File -> SUBSET Change]
      BY <1>4 DEF TypeOK, Commit, Edited
    <2> QED
      BY <1>4, <2>1, <2>2 DEF TypeOK, Commit
  <1>5. ASSUME NEW c \in Change, NEW f \in File, NothingToCommit(c, f)
        PROVE  TypeOK'
    <2>1. AfterSkip(c) \in Seq(Op \X File)
      BY AheadType DEF AfterSkip
    <2> QED
      BY <1>5, <2>1 DEF TypeOK, NothingToCommit
  <1>6. ASSUME NEW c \in Change, NEW f \in File, NEW w \in BOOLEAN,
               CommitFails(c, f, w)
        PROVE  TypeOK'
    <2>1. file' \in [File -> SUBSET Change]
      BY <1>6 DEF TypeOK, CommitFails, Edited
    <2> QED
      BY <1>6, <2>1, TodoType DEF TypeOK, CommitFails, Abort
  <1>7. ASSUME NEW c \in Change, NEW f \in File, Reload(c, f)
        PROVE  TypeOK'
    BY <1>7, TodoType DEF TypeOK, Reload, Doing
  <1>8. ASSUME NEW c \in Change, NEW f \in File, NEW l \in BOOLEAN,
               ReloadFails(c, f, l)
        PROVE  TypeOK'
    BY <1>8, TodoType DEF TypeOK, ReloadFails, Abort
  <1>9. ASSUME NEW c \in Change, NEW f \in File, SaveSettings(c, f)
        PROVE  TypeOK'
    BY <1>9, TodoType DEF TypeOK, SaveSettings, Doing
  <1>10. ASSUME NEW c \in Change, NEW f \in File, ScheduleRollback(c, f)
         PROVE  TypeOK'
    <2>1. todo' \in [Change -> Seq(Op \X File)]
      BY <1>10, TodoType DEF ScheduleRollback, Doing
    <2>2. deadline' \in [Change -> Nat]
      BY <1>10, SafeModeAssumption DEF TypeOK, ScheduleRollback, Second
    <2>3. timer' \in [Change -> {"off", "armed", "fired"}]
      BY <1>10 DEF TypeOK, ScheduleRollback, Stop
    <2> QED
      BY <1>10, <2>1, <2>2, <2>3 DEF TypeOK, ScheduleRollback
  <1>11. ASSUME NEW c \in Change, Expire(c) PROVE TypeOK'
    BY <1>11 DEF TypeOK, Expire
  <1>12. ASSUME NEW c \in Change, ExecuteRollback(c) PROVE TypeOK'
    <2>1. /\ toWrite' \in [Change -> SUBSET File]
          /\ toReload' \in [Change -> SUBSET File]
      <3>1. Plan(c) \in SUBSET File
        BY DEF Plan
      <3> QED
        BY <1>12, <3>1 DEF TypeOK, ExecuteRollback
    <2>2. /\ rbPending' \in Change \union {NoChange}
          /\ verdict' \in [Change -> {"none", "trial", "confirmed", "superseded",
                                      "undone", "lost"}]
          /\ timer' \in [Change -> {"off", "armed", "fired"}]
      BY <1>12 DEF TypeOK, ExecuteRollback
    <2> QED
      BY <1>12, <2>1, <2>2 DEF TypeOK, ExecuteRollback
  <1>13. ASSUME NEW c \in Change, NEW f \in File, RestoreFile(c, f)
         PROVE  TypeOK'
    <2>1. file' \in [File -> SUBSET Change]
      BY <1>13 DEF TypeOK, RestoreFile
    <2> QED
      BY <1>13, <2>1 DEF TypeOK, RestoreFile
  <1>14. ASSUME NEW c \in Change, NEW f \in File,
                \/ RestoreFileFails(c, f)
                \/ RestoreReload(c, f)
                \/ RestoreReloadFails(c, f)
         PROVE  TypeOK'
    <2>1. CASE RestoreFileFails(c, f)
      BY <2>1 DEF TypeOK, RestoreFileFails
    <2>2. CASE RestoreReload(c, f)
      BY <2>2 DEF TypeOK, RestoreReload
    <2>3. CASE RestoreReloadFails(c, f)
      BY <2>3 DEF TypeOK, RestoreReloadFails
    <2> QED
      BY <1>14, <2>1, <2>2, <2>3
  <1>15. ASSUME Confirm PROVE TypeOK'
    BY <1>15 DEF TypeOK, Confirm, Stop
  <1>16. ASSUME NEW r \in BOOLEAN, Restart(r) PROVE TypeOK'
    <2>1. todo' \in [Change -> Seq(Op \X File)]
      BY <1>16 DEF Restart
    <2>2. restarts' \in 0..MaxRestarts
      BY <1>16, SafeModeAssumption DEF TypeOK, Restart
    <2> QED
      BY <1>16, <2>1, <2>2 DEF TypeOK, Restart, Interrupted
  <1>17. ASSUME Tick PROVE TypeOK'
    BY <1>17, SafeModeAssumption DEF TypeOK, Tick, Second
  <1>18. CASE UNCHANGED vars
    BY <1>18 DEF TypeOK, vars
  <1> QED
    BY <1>1, <1>2, <1>3, <1>4, <1>5, <1>6, <1>7, <1>8, <1>9, <1>10, <1>11,
       <1>12, <1>13, <1>14, <1>15, <1>16, <1>17, <1>18
       DEF Next, Handler, HandlerFails, Restore, RestoreFails

(* Every reachable state has the types of TypeOK. *)
THEOREM TypeCorrect == Spec => []TypeOK
  BY TypeInit, TypeStep, PTL DEF Spec

----------------------------------------------------------------------------
(* The inductive invariant of the trials.  The verdict "trial" belongs to  *)
(* rbPending alone; a handler that has still to schedule its trial has     *)
(* none yet and schedules only once, so no change is put on trial twice.   *)

ScheduleSteps(s) == {i \in 1..Len(s) : s[i][1] = "schedule"}

SchedulesOnce(c) ==
  /\ \A i, j \in ScheduleSteps(todo[c]) : i = j
  /\ ScheduleSteps(todo[c]) # {} => verdict[c] = "none"

TrialInv ==
  \A c \in Change : /\ verdict[c] = "trial" <=> rbPending = c
                    /\ SchedulesOnce(c)
                    /\ kind[c] = "none" => verdict[c] = "none" /\ todo[c] = <<>>

(* A handler that goes on keeps only schedule steps it had; one that takes *)
(* its schedule step has none left.                                        *)
LEMMA ScheduleTail ==
  ASSUME NEW T, NEW s \in Seq(T), s # <<>>,
         \A i, j \in ScheduleSteps(s) : i = j
  PROVE  /\ \A i \in ScheduleSteps(Tail(s)) : i + 1 \in ScheduleSteps(s)
         /\ Head(s)[1] = "schedule" => ScheduleSteps(Tail(s)) = {}
  <1>1. /\ Len(s) \in Nat /\ Len(s) >= 1
        /\ Len(Tail(s)) = Len(s) - 1
        /\ \A i \in 1..Len(Tail(s)) : Tail(s)[i] = s[i + 1]
        /\ Head(s) = s[1]
    BY HeadTailProperties
  <1>2. \A i \in ScheduleSteps(Tail(s)) : i + 1 \in ScheduleSteps(s)
    BY <1>1 DEF ScheduleSteps
  <1>3. Head(s)[1] = "schedule" => 1 \in ScheduleSteps(s)
    BY <1>1 DEF ScheduleSteps
  <1>4. \A i \in ScheduleSteps(Tail(s)) : i + 1 # 1
    BY <1>1 DEF ScheduleSteps
  <1> QED
    BY <1>2, <1>3, <1>4

(* Skipping ahead keeps only schedule steps that were there.               *)
LEMMA ScheduleAhead ==
  ASSUME NEW T, NEW s \in Seq(T), NEW n \in 1..4
  PROVE  \A i \in ScheduleSteps(SubSeq(s, n + 1, Len(s))) :
           i + n \in ScheduleSteps(s)
  <1> DEFINE t == SubSeq(s, n + 1, Len(s))
  <1>1. \A i \in n + 1..Len(s) : s[i] \in T
    OBVIOUS
  <1>2. /\ Len(s) \in Nat
        /\ Len(t) = IF n + 1 <= Len(s) THEN Len(s) - n ELSE 0
        /\ \A i \in 1..Len(s) - n : t[i] = s[n + i]
    BY <1>1, SubSeqProperties
  <1> QED
    BY <1>2 DEF ScheduleSteps

(* Every script has at most one schedule step. *)
LEMMA ScriptSchedules ==
  \A k \in Kind : \A i, j \in ScheduleSteps(Script[k]) : i = j
  <1> SUFFICES ASSUME NEW k \in Kind
               PROVE  \A i, j \in ScheduleSteps(Script[k]) : i = j
    OBVIOUS
  <1>1. CASE k = "lan"
    BY <1>1 DEF Script, LanSet, ScheduleSteps, Net, Fw, Kind
  <1>2. CASE k = "route"
    BY <1>2 DEF Script, RouteApply, ScheduleSteps, Net, Fw, Kind
  <1>3. CASE k = "wan"
    BY <1>3 DEF Script, WANSet, ScheduleSteps, Net, Fw, Kind
  <1>4. CASE k = "wan2"
    BY <1>4 DEF Script, WANAdd, ScheduleSteps, Net, Fw, Kind
  <1>5. CASE k = "wanDelete"
    BY <1>5 DEF Script, WANDelete, ScheduleSteps, Net, Fw, Kind
  <1>6. CASE k = "aclOn"
    BY <1>6 DEF Script, MgmtACLOn, MgmtACLOff, ScheduleSteps, Net, Fw, Kind
  <1>7. CASE k = "aclOff"
    BY <1>7 DEF Script, MgmtACLOff, ScheduleSteps, Net, Fw, Kind
  <1>8. CASE k = "otherNet"
    BY <1>8 DEF Script, WGSApply, ScheduleSteps, Net, Fw, Kind
  <1>9. CASE k = "otherFw"
    BY <1>9 DEF Script, DMZSet, ScheduleSteps, Net, Fw, Kind
  <1> QED
    BY <1>1, <1>2, <1>3, <1>4, <1>5, <1>6, <1>7, <1>8, <1>9 DEF Kind

(* A handler that keeps part of what it had to do, and touches no trial.   *)
LEMMA HandlerKeepsTrialInv ==
  ASSUME TypeOK, TrialInv, NEW c \in Change, NEW s, NEW n \in Nat,
         kind[c] # "none", todo' = [todo EXCEPT ![c] = s],
         \A i \in ScheduleSteps(s) : i + n \in ScheduleSteps(todo[c]),
         UNCHANGED <<rbPending, verdict, kind>>
  PROVE  TrialInv'
  <1>1. ASSUME NEW d \in Change, d # c
        PROVE  todo'[d] = todo[d]
    BY <1>1 DEF TypeOK
  <1>2. todo'[c] = s
    BY DEF TypeOK
  <1>3. ASSUME NEW i \in ScheduleSteps(s), NEW j \in ScheduleSteps(s)
        PROVE  i = j
    <2>1. i \in Nat /\ j \in Nat
      BY DEF ScheduleSteps
    <2>2. i + n = j + n
      BY DEF TrialInv, SchedulesOnce
    <2> QED
      BY <2>1, <2>2
  <1>4. ScheduleSteps(s) # {} => verdict[c] = "none"
    BY DEF TrialInv, SchedulesOnce
  <1>5. SchedulesOnce(c)'
    BY <1>2, <1>3, <1>4 DEF SchedulesOnce
  <1>6. ASSUME NEW d \in Change, d # c PROVE SchedulesOnce(d)'
    BY <1>1, <1>6 DEF TrialInv, SchedulesOnce
  <1>7. ASSUME NEW d \in Change, kind[d] = "none"
        PROVE  verdict[d] = "none" /\ todo'[d] = <<>>
    BY <1>1, <1>7 DEF TrialInv
  <1> QED
    BY <1>5, <1>6, <1>7 DEF TrialInv

(* The same for the three ways a handler step leaves the rest.             *)
LEMMA DoneKeepsTrialInv ==
  ASSUME TypeOK, TrialInv, NEW c \in Change, Active(c), Done(c) \/ Quit(c),
         UNCHANGED <<rbPending, verdict, kind>>
  PROVE  TrialInv'
  <1>1. kind[c] # "none" /\ todo[c] # <<>> /\ todo[c] \in Seq(Op \X File)
    BY DEF TrialInv, Active, TypeOK
  <1>2. CASE Done(c)
    <2>1. \A i \in ScheduleSteps(Tail(todo[c])) : i + 1 \in ScheduleSteps(todo[c])
      BY <1>1, ScheduleTail DEF TrialInv, SchedulesOnce
    <2> QED
      BY <1>1, <1>2, <2>1, HandlerKeepsTrialInv DEF Done
  <1>3. CASE Quit(c)
    <2>1. ScheduleSteps(<<>>) = {}
      BY DEF ScheduleSteps
    <2> QED
      BY <1>1, <1>3, <2>1, HandlerKeepsTrialInv DEF Quit
  <1> QED
    BY <1>2, <1>3

(* A handler that skips ahead.                                             *)
LEMMA AheadKeepsTrialInv ==
  ASSUME TypeOK, TrialInv, NEW c \in Change, Active(c), NEW n \in 1..4,
         todo' = [todo EXCEPT ![c] = Ahead(c, n)],
         UNCHANGED <<rbPending, verdict, kind>>
  PROVE  TrialInv'
  <1>1. kind[c] # "none" /\ todo[c] \in Seq(Op \X File)
    BY DEF TrialInv, Active, TypeOK
  <1>2. \A i \in ScheduleSteps(Ahead(c, n)) : i + n \in ScheduleSteps(todo[c])
    BY <1>1, ScheduleAhead DEF Ahead
  <1>3. n \in Nat
    OBVIOUS
  <1> QED
    BY <1>1, <1>2, <1>3, HandlerKeepsTrialInv

(* A trial that ends frees rbPending and gives its change a verdict.       *)
LEMMA TrialEnds ==
  ASSUME TypeOK, TrialInv, rbPending \in Change, NEW v \in {"confirmed", "undone"},
         rbPending' = NoChange, verdict' = [verdict EXCEPT ![rbPending] = v],
         UNCHANGED <<todo, kind>>
  PROVE  TrialInv'
  <1>1. ASSUME NEW c \in Change
        PROVE  verdict'[c] = IF c = rbPending THEN v ELSE verdict[c]
    BY DEF TypeOK
  <1>2. ASSUME NEW c \in Change
        PROVE  verdict'[c] # "trial" /\ rbPending' # c
    BY <1>1, SafeModeAssumption DEF TrialInv
  <1>3. \A c \in Change : verdict[c] = "none" => verdict'[c] = "none"
    BY <1>1 DEF TrialInv
  <1>4. \A c \in Change : SchedulesOnce(c)'
    BY <1>3 DEF TrialInv, SchedulesOnce
  <1> QED
    BY <1>2, <1>3, <1>4 DEF TrialInv

(* A step that touches neither trials nor handlers.                        *)
LEMMA SameTrials ==
  ASSUME TrialInv, UNCHANGED <<todo, kind, rbPending, verdict>>
  PROVE  TrialInv'
  <1>1. \A c \in Change : SchedulesOnce(c)' <=> SchedulesOnce(c)
    BY DEF SchedulesOnce
  <1> QED
    BY <1>1 DEF TrialInv

(* The invariant holds before the first request ...                        *)
LEMMA TrialInvInit == Init => TrialInv
  <1>1. ScheduleSteps(<<>>) = {}
    BY DEF ScheduleSteps
  <1> QED
    <2> SUFFICES ASSUME Init PROVE TrialInv
      OBVIOUS
    <2>1. \A c \in Change : todo[c] = <<>> /\ verdict[c] = "none"
                          /\ rbPending # c
      BY SafeModeAssumption DEF Init
    <2>2. \A c \in Change : SchedulesOnce(c)
      BY <1>1, <2>1 DEF SchedulesOnce
    <2> QED
      BY <2>1, <2>2 DEF TrialInv

(* ... and every step keeps it, action by action.                          *)
LEMMA TrialInvStep == TypeOK /\ TrialInv /\ [Next]_vars => TrialInv'
  <1> SUFFICES ASSUME TypeOK, TrialInv, [Next]_vars PROVE TrialInv'
    OBVIOUS
  <1> USE DEF config, backups, handlers, trials, rollback
  <1>1. ASSUME NEW c \in Change, NEW k \in Offered[c], Begin(c, k)
        PROVE  TrialInv'
    <2>1. \A i, j \in ScheduleSteps(Script[k]) : i = j
      BY ScriptSchedules, SafeModeAssumption
    <2>2. kind' = [kind EXCEPT ![c] = k] /\ todo' = [todo EXCEPT ![c] = Script[k]]
          /\ verdict[c] = "none" /\ UNCHANGED <<rbPending, verdict>>
      BY <1>1 DEF Begin, TrialInv
    <2>3. k # "none"
      BY SafeModeAssumption DEF Kind
    <2>4. /\ todo'[c] = Script[k] /\ kind'[c] = k
          /\ \A d \in Change : d # c => todo'[d] = todo[d] /\ kind'[d] = kind[d]
      BY <2>2 DEF TypeOK
    <2>5. SchedulesOnce(c)'
      BY <2>1, <2>2, <2>4 DEF SchedulesOnce
    <2>6. ASSUME NEW d \in Change, d # c PROVE SchedulesOnce(d)'
      BY <2>2, <2>4, <2>6 DEF TrialInv, SchedulesOnce
    <2> QED
      BY <2>2, <2>3, <2>4, <2>5, <2>6 DEF TrialInv
  <1>2. ASSUME NEW c \in Change, NEW f \in File,
               Backup(c, f) \/ BackupFails(c, f)
        PROVE  TrialInv'
    BY <1>2, DoneKeepsTrialInv DEF Backup, BackupFails, Abort, Doing
  <1>3. ASSUME NEW c \in Change, NEW f \in File, Commit(c, f)
        PROVE  TrialInv'
    <2>1. \E n \in 1..4 : AfterCommit(c, f) = Ahead(c, n)
      BY DEF AfterCommit
    <2>2. PICK n \in 1..4 : todo' = [todo EXCEPT ![c] = Ahead(c, n)]
      BY <1>3, <2>1 DEF Commit
    <2>3. Active(c) /\ UNCHANGED <<rbPending, verdict, kind>>
      BY <1>3 DEF Commit, Doing
    <2> QED
      BY <2>2, <2>3, AheadKeepsTrialInv
  <1>4. ASSUME NEW c \in Change, NEW f \in File, NothingToCommit(c, f)
        PROVE  TrialInv'
    <2>1. CASE kind[c] = "wan2" \/ kind[c] = "wanDelete"
      <3>1. \E n \in 1..4 : AfterSkip(c) = Ahead(c, n)
        BY <2>1 DEF AfterSkip
      <3>2. PICK n \in 1..4 : todo' = [todo EXCEPT ![c] = Ahead(c, n)]
        BY <1>4, <3>1 DEF NothingToCommit
      <3>3. Active(c) /\ UNCHANGED <<rbPending, verdict, kind>>
        BY <1>4 DEF NothingToCommit, Doing
      <3> QED
        BY <3>2, <3>3, AheadKeepsTrialInv
    <2>2. CASE kind[c] # "wan2" /\ kind[c] # "wanDelete"
      <3>1. Quit(c)
        BY <1>4, <2>2 DEF NothingToCommit, AfterSkip, Quit
      <3> QED
        BY <1>4, <3>1, DoneKeepsTrialInv DEF NothingToCommit, Doing
    <2> QED
      BY <2>1, <2>2
  <1>5. ASSUME NEW c \in Change, NEW f \in File, NEW w \in BOOLEAN,
               CommitFails(c, f, w) \/ ReloadFails(c, f, w)
        PROVE  TrialInv'
    BY <1>5, DoneKeepsTrialInv DEF CommitFails, ReloadFails, Abort, Doing
  <1>6. ASSUME NEW c \in Change, NEW f \in File,
               Reload(c, f) \/ SaveSettings(c, f)
        PROVE  TrialInv'
    BY <1>6, DoneKeepsTrialInv DEF Reload, SaveSettings, Doing
  <1>7. ASSUME NEW c \in Change, NEW f \in File, ScheduleRollback(c, f)
        PROVE  TrialInv'
    <2>1. /\ todo[c] \in Seq(Op \X File) /\ todo[c] # <<>>
          /\ Head(todo[c])[1] = "schedule"
      BY <1>7 DEF ScheduleRollback, Doing, Active, TypeOK
    <2>2. ScheduleSteps(Tail(todo[c])) = {}
      BY <2>1, ScheduleTail DEF TrialInv, SchedulesOnce
    <2>3. /\ todo'[c] = Tail(todo[c])
          /\ \A d \in Change : d # c => todo'[d] = todo[d]
      BY <1>7 DEF ScheduleRollback, Done, TypeOK
    <2>4. SchedulesOnce(c)'
      BY <2>2, <2>3 DEF SchedulesOnce
    <2>5. ASSUME NEW d \in Change, d # c PROVE SchedulesOnce(d)'
      <3>1. verdict[d] = "none" => verdict'[d] = "none"
        BY <1>7, <2>5 DEF ScheduleRollback, TrialInv
      <3> QED
        BY <2>3, <2>5, <3>1 DEF TrialInv, SchedulesOnce
    <2>6. ASSUME NEW d \in Change
          PROVE  /\ verdict'[d] = "trial" <=> rbPending' = d
                 /\ kind'[d] = "none" => verdict'[d] = "none" /\ todo'[d] = <<>>
      <3>1. kind[c] # "none"
        BY <2>1 DEF TrialInv
      <3>2. kind[d] = "none" => d # c /\ verdict[d] = "none" /\ rbPending # d
        BY <3>1 DEF TrialInv
      <3> QED
        BY <1>7, <2>3, <3>1, <3>2 DEF ScheduleRollback, TrialInv
    <2> QED
      BY <2>4, <2>5, <2>6 DEF TrialInv
  <1>8. ASSUME NEW c \in Change, Expire(c) PROVE TrialInv'
    <2>1. UNCHANGED <<todo, kind, rbPending, verdict>>
      BY <1>8 DEF Expire
    <2> QED
      BY <2>1, SameTrials
  <1>9. ASSUME NEW c \in Change, ExecuteRollback(c) PROVE TrialInv'
    <2>1. CASE rbPending # c
      <3>1. UNCHANGED <<todo, kind, rbPending, verdict>>
        BY <1>9, <2>1 DEF ExecuteRollback
      <3> QED
        BY <3>1, SameTrials
    <2>2. CASE rbPending = c
      BY <1>9, <2>2, TrialEnds DEF ExecuteRollback
    <2> QED
      BY <2>1, <2>2
  <1>10. ASSUME NEW c \in Change, NEW f \in File,
                \/ RestoreFile(c, f)
                \/ RestoreFileFails(c, f)
                \/ RestoreReload(c, f)
                \/ RestoreReloadFails(c, f)
         PROVE  TrialInv'
    <2>1. UNCHANGED <<todo, kind, rbPending, verdict>>
      BY <1>10 DEF RestoreFile, RestoreFileFails, RestoreReload,
                   RestoreReloadFails
    <2> QED
      BY <2>1, SameTrials
  <1>11. ASSUME Confirm PROVE TrialInv'
    BY <1>11, TrialEnds DEF Confirm, TypeOK
  <1>12. ASSUME NEW r \in BOOLEAN, Restart(r) PROVE TrialInv'
    <2>1. ScheduleSteps(<<>>) = {}
      BY DEF ScheduleSteps
    <2>2. \A c \in Change : todo'[c] = <<>>
      BY <1>12 DEF Restart
    <2>3. \A c \in Change : SchedulesOnce(c)'
      BY <2>1, <2>2 DEF SchedulesOnce
    <2>4. ASSUME NEW c \in Change
          PROVE  /\ verdict'[c] = "trial" <=> rbPending' = c
                 /\ kind'[c] = "none" => verdict'[c] = "none"
      BY <1>12, SafeModeAssumption DEF Restart, TrialInv
    <2> QED
      BY <2>2, <2>3, <2>4 DEF TrialInv
  <1>13. ASSUME Tick \/ UNCHANGED vars PROVE TrialInv'
    <2>1. UNCHANGED <<todo, kind, rbPending, verdict>>
      BY <1>13 DEF Tick, vars
    <2> QED
      BY <2>1, SameTrials
  <1> QED
    BY <1>1, <1>2, <1>3, <1>4, <1>5, <1>6, <1>7, <1>8, <1>9, <1>10, <1>11,
       <1>12, <1>13
       DEF Next, Handler, HandlerFails, Restore, RestoreFails

(* Every step of SafeMode is a step of TrialChange or leaves it alone.     *)
LEMMA TrialNext ==
  TypeOK /\ TrialInv /\ [Next]_vars => [Trial!Next]_(Trial!vars)
  <1> SUFFICES ASSUME TypeOK, TrialInv, [Next]_vars
               PROVE  [Trial!Next]_(Trial!vars)
    OBVIOUS
  <1> USE DEF config, backups, handlers, trials, rollback
  <1>1. ASSUME NEW c \in Change, NEW f \in File, ScheduleRollback(c, f)
        PROVE  Trial!Put(c)
    <2>1. verdict[c] = "none"
      <3>1. 1 \in ScheduleSteps(todo[c])
        BY <1>1, HeadTailProperties
           DEF ScheduleRollback, Doing, Active, TypeOK, ScheduleSteps
      <3> QED
        BY <3>1 DEF TrialInv, SchedulesOnce
    <2> QED
      BY <1>1, <2>1 DEF ScheduleRollback, Trial!Put
  <1>2. ASSUME NEW c \in Change, ExecuteRollback(c)
        PROVE  Trial!Undo \/ UNCHANGED <<rbPending, verdict>>
    BY <1>2, SafeModeAssumption DEF ExecuteRollback, Trial!Undo, Trial!End
  <1>3. ASSUME Confirm PROVE Trial!End("confirmed")
    BY <1>3 DEF Confirm, Trial!End
  <1>4. ASSUME NEW r \in BOOLEAN, Restart(r)
        PROVE  Trial!End("lost") \/ UNCHANGED <<rbPending, verdict>>
    <2>1. CASE rbPending = NoChange
      <3>1. \A c \in Change : verdict'[c] = verdict[c]
        BY <1>4, <2>1, SafeModeAssumption DEF Restart
      <3>2. verdict' = verdict
        BY <1>4, <3>1 DEF Restart, TypeOK
      <3> QED
        BY <1>4, <2>1, <3>2 DEF Restart
    <2>2. CASE rbPending # NoChange
      <3>1. verdict' = [verdict EXCEPT ![rbPending] = "lost"]
        BY <1>4 DEF Restart, TypeOK
      <3> QED
        BY <1>4, <2>2, <3>1 DEF Restart, Trial!End
    <2> QED
      BY <2>1, <2>2
  <1>5. ASSUME NEW c \in Change, NEW f \in File,
               \/ Backup(c, f) \/ BackupFails(c, f)
               \/ Commit(c, f) \/ NothingToCommit(c, f)
               \/ Reload(c, f) \/ SaveSettings(c, f)
               \/ RestoreFile(c, f) \/ RestoreFileFails(c, f)
               \/ RestoreReload(c, f) \/ RestoreReloadFails(c, f)
        PROVE  UNCHANGED <<rbPending, verdict>>
    BY <1>5 DEF Backup, BackupFails, Commit, NothingToCommit, Reload,
                SaveSettings, RestoreFile, RestoreFileFails, RestoreReload,
                RestoreReloadFails
  <1>6. ASSUME NEW c \in Change, NEW f \in File, NEW w \in BOOLEAN,
               CommitFails(c, f, w) \/ ReloadFails(c, f, w)
        PROVE  UNCHANGED <<rbPending, verdict>>
    BY <1>6 DEF CommitFails, ReloadFails
  <1>7. ASSUME NEW c \in Change, NEW k \in Offered[c], Begin(c, k)
        PROVE  UNCHANGED <<rbPending, verdict>>
    BY <1>7 DEF Begin
  <1>8. ASSUME NEW c \in Change, Expire(c) PROVE UNCHANGED <<rbPending, verdict>>
    BY <1>8 DEF Expire
  <1>9. ASSUME Tick \/ UNCHANGED vars PROVE UNCHANGED <<rbPending, verdict>>
    BY <1>9 DEF Tick, vars
  <1> QED
    BY <1>1, <1>2, <1>3, <1>4, <1>5, <1>6, <1>7, <1>8, <1>9
       DEF Next, Handler, HandlerFails, Restore, RestoreFails, Trial!Next,
           Trial!vars

(* SafeMode implements TrialChange: whatever handlers, timers, fired       *)
(* callbacks, confirmations and restarts interleave, one change at most is *)
(* on trial and each trial has one verdict (saferollback.go).              *)
THEOREM ImplementsTrial == Spec => TrialSpec
  <1>1. Init => Trial!Init
    BY DEF Init, Trial!Init
  <1> QED
    BY <1>1, TypeInit, TypeStep, TrialInvInit, TrialInvStep, TrialNext, PTL
       DEF Spec, TrialSpec

(* No step changes a verdict that was given.                               *)
LEMMA FinalStep ==
  TypeOK /\ TrialInv /\ [Next]_vars =>
    \A c \in Change :
      verdict[c] \notin {"none", "trial"} => verdict'[c] = verdict[c]
  <1> SUFFICES ASSUME TypeOK, TrialInv, [Next]_vars, NEW c \in Change,
                      verdict[c] \notin {"none", "trial"}
               PROVE  verdict'[c] = verdict[c]
    OBVIOUS
  <1>1. [Trial!Next]_(Trial!vars)
    BY TrialNext
  <1>2. \A d \in Change : verdict[d] = "trial" <=> rbPending = d
    BY DEF TrialInv
  <1> QED
    BY <1>1, <1>2 DEF TypeOK, Trial!Next, Trial!vars, Trial!Put, Trial!End,
                      Trial!Undo

(* A confirmed change is not undone by its timer, and an undone, replaced  *)
(* or lost one does not come back on trial (the check of executeRollback). *)
THEOREM VerdictsFinal == Spec => VerdictIsFinal
  <1>1. TypeOK /\ TrialInv /\ [Next]_vars =>
          [\A c \in Change :
             verdict[c] \notin {"none", "trial"} => verdict'[c] = verdict[c]]_vars
    BY FinalStep
  <1> QED
    BY <1>1, TypeInit, TypeStep, TrialInvInit, TrialInvStep, PTL
       DEF Spec, VerdictIsFinal

----------------------------------------------------------------------------
(* What is left of a handler is the end of its script. *)
Rest(s, t) ==
  /\ Len(s) <= Len(t)
  /\ \A i \in 1..Len(s) : s[i] = t[(Len(t) - Len(s)) + i]

RestInv ==
  \A c \in Change : IF kind[c] = "none" THEN todo[c] = <<>>
                                        ELSE Rest(todo[c], Script[kind[c]])

(* The steps of a sequence. *)
Steps(s) == {s[i] : i \in 1..Len(s)}

(* The order of the steps in every script: a file is copied once, before   *)
(* it is committed, committed once, reloaded after that, and a trial is    *)
(* scheduled after the last commit.                                        *)
Orderly(k) ==
  LET s == Script[k] IN
  /\ s \in Seq(Op \X File)
  /\ \A i, j \in 1..Len(s) : i < j =>
       /\ s[i][1] = "commit" => s[j] \notin {s[i], <<"backup", s[i][2]>>}
       /\ s[i][1] = "backup" => s[j] # s[i]
       /\ s[i][1] = "schedule" => s[j][1] # "commit"
  /\ \A i \in 1..Len(s) : s[i][1] = "commit" =>
       /\ \E j \in 1..Len(s) : i < j /\ s[j] = <<"reload", s[i][2]>>
       /\ \E j \in 1..Len(s) : j < i /\ s[j] = <<"backup", s[i][2]>>
  /\ (\E i \in 1..Len(s) : s[i][1] = "schedule") <=> k \in Risky

LEMMA ScriptOrderly == \A k \in Kind : Orderly(k)
  <1> SUFFICES ASSUME NEW k \in Kind PROVE Orderly(k)
    OBVIOUS
  <1>0. Script[k] \in Seq(Op \X File)
    BY ScriptType
  <1> USE <1>0 DEF Orderly, Net, Fw, Risky
  <1>1. CASE k = "lan"
    BY <1>1 DEF Script, LanSet, Kind
  <1>2. CASE k = "route"
    BY <1>2 DEF Script, RouteApply, Kind
  <1>3. CASE k = "wan"
    BY <1>3 DEF Script, WANSet, Kind
  <1>4. CASE k = "wan2"
    BY <1>4 DEF Script, WANAdd, Kind
  <1>5. CASE k = "wanDelete"
    BY <1>5 DEF Script, WANDelete, Kind
  <1>6. CASE k = "aclOn"
    BY <1>6 DEF Script, MgmtACLOn, MgmtACLOff, Kind
  <1>7. CASE k = "aclOff"
    BY <1>7 DEF Script, MgmtACLOff, Kind
  <1>8. CASE k = "otherNet"
    BY <1>8 DEF Script, WGSApply, Kind
  <1>9. CASE k = "otherFw"
    BY <1>9 DEF Script, DMZSet, Kind
  <1> QED
    BY <1>1, <1>2, <1>3, <1>4, <1>5, <1>6, <1>7, <1>8, <1>9 DEF Kind


(* r is s without its first n steps.                                       *)
Dropped(r, s, n) ==
  /\ n \in 0..Len(s) /\ Len(r) = Len(s) - n
  /\ \A i \in 1..Len(r) : r[i] = s[n + i]

(* To take one step is to drop it.                                         *)
LEMMA TailDrops ==
  ASSUME NEW T, NEW s \in Seq(T), s # <<>>
  PROVE  /\ Dropped(Tail(s), s, 1) /\ Head(s) = s[1]
         /\ Len(s) \in Nat /\ Len(s) >= 1
  BY HeadTailProperties DEF Dropped

(* To quit is to drop all.                                                 *)
LEMMA QuitDrops ==
  ASSUME NEW T, NEW s \in Seq(T)
  PROVE  Dropped(<<>>, s, Len(s)) /\ Len(s) \in Nat
  BY DEF Dropped

(* To skip ahead is to drop as many as there are.                          *)
LEMMA AheadDrops ==
  ASSUME NEW T, NEW s \in Seq(T), NEW n \in 1..4
  PROVE  /\ Dropped(SubSeq(s, n + 1, Len(s)), s, IF n <= Len(s) THEN n ELSE Len(s))
         /\ Len(s) \in Nat
  <1> DEFINE r == SubSeq(s, n + 1, Len(s))
  <1>1. \A i \in n + 1..Len(s) : s[i] \in T
    OBVIOUS
  <1>2. /\ Len(s) \in Nat
        /\ Len(r) = IF n + 1 <= Len(s) THEN Len(s) - n ELSE 0
        /\ \A i \in 1..Len(s) - n : r[i] = s[n + i]
    BY <1>1, SubSeqProperties
  <1> HIDE DEF r
  <1>3. CASE n + 1 <= Len(s)
    BY <1>2, <1>3 DEF Dropped
  <1>4. CASE ~(n + 1 <= Len(s))
    BY <1>2, <1>4 DEF Dropped
  <1> QED
    BY <1>3, <1>4, <1>2 DEF r

(* What is left of an end is an end, with no other steps.                  *)
LEMMA DroppedRest ==
  ASSUME NEW T, NEW s \in Seq(T), NEW r \in Seq(T), NEW t \in Seq(T), NEW n,
         Dropped(r, s, n)
  PROVE  /\ Rest(s, t) => Rest(r, t)
         /\ Steps(r) \subseteq Steps(s)
  <1>1. Len(s) \in Nat /\ Len(t) \in Nat /\ Len(r) \in Nat /\ n \in 0..Len(s)
        /\ Len(r) = Len(s) - n /\ \A i \in 1..Len(r) : r[i] = s[n + i]
    BY DEF Dropped
  <1>2. \A i \in 1..Len(r) : n + i \in 1..Len(s)
    BY <1>1
  <1>3. Steps(r) \subseteq Steps(s)
    BY <1>1, <1>2 DEF Steps
  <1>4. ASSUME Rest(s, t) PROVE Rest(r, t)
    <2>1. Len(r) <= Len(t)
      BY <1>1, <1>4 DEF Rest
    <2>2. ASSUME NEW i \in 1..Len(r) PROVE r[i] = t[(Len(t) - Len(r)) + i]
      <3>1. s[n + i] = t[(Len(t) - Len(s)) + (n + i)]
        BY <1>2, <1>4 DEF Rest
      <3>2. (Len(t) - Len(s)) + (n + i) = (Len(t) - Len(r)) + i
        BY <1>1
      <3> QED
        BY <1>1, <3>1, <3>2
    <2> QED
      BY <2>1, <2>2 DEF Rest
  <1> QED
    BY <1>3, <1>4

(* A request begins, or its handler goes on.                               *)
Goes(c) ==
  \/ kind'[c] = kind[c] /\ \E n \in 0..Len(todo[c]) : Dropped(todo'[c], todo[c], n)
  \/ kind[c] = "none" /\ kind'[c] \in Offered[c] /\ todo'[c] = Script[kind'[c]]

(* Nobody moves.                                                           *)
LEMMA SameGoes ==
  ASSUME TypeOK, UNCHANGED <<kind, todo>>, NEW c \in Change PROVE Goes(c)
  <1>1. todo[c] \in Seq(Op \X File)
    BY DEF TypeOK
  <1>2. Len(todo[c]) \in Nat
    BY <1>1
  <1>3. Dropped(todo[c], todo[c], 0)
    BY <1>2 DEF Dropped
  <1> QED
    BY <1>2, <1>3 DEF Goes

(* One handler drops steps, the others stand still.                        *)
LEMMA DropGoes ==
  ASSUME TypeOK, NEW d \in Change, NEW r, NEW n, Dropped(r, todo[d], n),
         todo' = [todo EXCEPT ![d] = r], kind' = kind, NEW c \in Change
  PROVE  Goes(c)
  <1>1. CASE c = d
    <2>1. todo'[c] = r
      BY <1>1 DEF TypeOK
    <2>2. n \in 0..Len(todo[c])
      BY <1>1 DEF Dropped
    <2> QED
      BY <1>1, <2>1, <2>2 DEF Goes
  <1>2. CASE c # d
    <2>1. todo'[c] = todo[c]
      BY <1>2 DEF TypeOK
    <2>2. todo[c] \in Seq(Op \X File)
      BY DEF TypeOK
    <2>3. Len(todo[c]) \in Nat
      BY <2>2
    <2>4. Dropped(todo'[c], todo[c], 0)
      BY <2>1, <2>3 DEF Dropped
    <2> QED
      BY <2>3, <2>4 DEF Goes
  <1> QED
    BY <1>1, <1>2

(* One takes a step, or quits.                                             *)
LEMMA DoneGoes ==
  ASSUME TypeOK, NEW d \in Change, Active(d), Done(d) \/ Quit(d), kind' = kind,
         NEW c \in Change
  PROVE  Goes(c)
  <1>1. todo[d] \in Seq(Op \X File) /\ todo[d] # <<>>
    BY DEF TypeOK, Active
  <1>2. CASE Done(d)
    <2>1. Dropped(Tail(todo[d]), todo[d], 1)
      BY <1>1, TailDrops
    <2> QED
      BY <1>2, <2>1, DropGoes DEF Done
  <1>3. CASE Quit(d)
    <2>1. Dropped(<<>>, todo[d], Len(todo[d]))
      BY <1>1, QuitDrops
    <2> QED
      BY <1>3, <2>1, DropGoes DEF Quit
  <1> QED
    BY <1>2, <1>3

(* One skips ahead.                                                        *)
LEMMA AheadGoes ==
  ASSUME TypeOK, NEW d \in Change, NEW n \in 1..4,
         todo' = [todo EXCEPT ![d] = Ahead(d, n)], kind' = kind, NEW c \in Change
  PROVE  Goes(c)
  <1>1. todo[d] \in Seq(Op \X File)
    BY DEF TypeOK
  <1>2. \E m : Dropped(Ahead(d, n), todo[d], m)
    BY <1>1, AheadDrops DEF Ahead
  <1> QED
    BY <1>2, DropGoes

(* Whatever happens, a handler only goes on.                               *)
LEMMA NextGoes ==
  ASSUME TypeOK, [Next]_vars, NEW c \in Change PROVE Goes(c)
  <1> USE DEF config, backups, handlers, trials, rollback
  <1>1. ASSUME NEW d \in Change, NEW k \in Offered[d], Begin(d, k)
        PROVE  Goes(c)
    <2>1. CASE c = d
      BY <1>1, <2>1 DEF Begin, TypeOK, Goes
    <2>2. CASE c # d
      <3>1. kind'[c] = kind[c] /\ todo'[c] = todo[c] /\ todo[c] \in Seq(Op \X File)
        BY <1>1, <2>2 DEF Begin, TypeOK
      <3>2. Len(todo[c]) \in Nat
        BY <3>1
      <3>3. Dropped(todo'[c], todo[c], 0)
        BY <3>1, <3>2 DEF Dropped
      <3> QED
        BY <3>1, <3>2, <3>3 DEF Goes
    <2> QED
      BY <2>1, <2>2
  <1>2. ASSUME NEW d \in Change, NEW f \in File,
               \/ Backup(d, f) \/ BackupFails(d, f) \/ Reload(d, f)
               \/ SaveSettings(d, f) \/ ScheduleRollback(d, f)
        PROVE  Goes(c)
    <2>1. Active(d) /\ (Done(d) \/ Quit(d)) /\ kind' = kind
      BY <1>2 DEF Backup, BackupFails, Reload, SaveSettings, ScheduleRollback,
                  Abort, Doing
    <2> QED
      BY <2>1, DoneGoes
  <1>3. ASSUME NEW d \in Change, NEW f \in File, NEW w \in BOOLEAN,
               CommitFails(d, f, w) \/ ReloadFails(d, f, w)
        PROVE  Goes(c)
    <2>1. Active(d) /\ (Done(d) \/ Quit(d)) /\ kind' = kind
      BY <1>3 DEF CommitFails, ReloadFails, Abort, Doing
    <2> QED
      BY <2>1, DoneGoes
  <1>4. ASSUME NEW d \in Change, NEW f \in File, Commit(d, f)
        PROVE  Goes(c)
    <2>1. PICK n \in 1..4 : AfterCommit(d, f) = Ahead(d, n)
      BY DEF AfterCommit
    <2> QED
      BY <1>4, <2>1, AheadGoes DEF Commit
  <1>5. ASSUME NEW d \in Change, NEW f \in File, NothingToCommit(d, f)
        PROVE  Goes(c)
    <2>1. CASE kind[d] \in {"wan2", "wanDelete"}
      <3>1. PICK n \in 1..4 : AfterSkip(d) = Ahead(d, n)
        BY <2>1 DEF AfterSkip
      <3> QED
        BY <1>5, <3>1, AheadGoes DEF NothingToCommit
    <2>2. CASE kind[d] \notin {"wan2", "wanDelete"}
      <3>1. Quit(d) /\ Active(d) /\ kind' = kind
        BY <1>5, <2>2 DEF NothingToCommit, AfterSkip, Quit, Doing
      <3> QED
        BY <3>1, DoneGoes
    <2> QED
      BY <2>1, <2>2
  <1>6. ASSUME NEW d \in Change, NEW f \in File,
               \/ Expire(d) \/ ExecuteRollback(d)
               \/ RestoreFile(d, f) \/ RestoreFileFails(d, f)
               \/ RestoreReload(d, f) \/ RestoreReloadFails(d, f)
        PROVE  Goes(c)
    <2>1. UNCHANGED <<kind, todo>>
      BY <1>6 DEF Expire, ExecuteRollback, RestoreFile, RestoreFileFails,
                  RestoreReload, RestoreReloadFails
    <2> QED
      BY <2>1, SameGoes
  <1>7. CASE Confirm \/ Tick \/ UNCHANGED vars
    <2>1. UNCHANGED <<kind, todo>>
      BY <1>7 DEF Confirm, Tick, vars
    <2> QED
      BY <2>1, SameGoes
  <1>8. ASSUME NEW r \in BOOLEAN, Restart(r) PROVE Goes(c)
    <2>1. todo'[c] = <<>> /\ kind'[c] = kind[c] /\ todo[c] \in Seq(Op \X File)
      BY <1>8 DEF Restart, TypeOK
    <2>2. Dropped(todo'[c], todo[c], Len(todo[c])) /\ Len(todo[c]) \in Nat
      BY <2>1, QuitDrops
    <2> QED
      BY <2>1, <2>2 DEF Goes
  <1>9. File # {}
    BY DEF File
  <1> QED
    BY <1>1, <1>2, <1>3, <1>4, <1>5, <1>6, <1>7, <1>8, <1>9
       DEF Next, Handler, HandlerFails, Restore, RestoreFails

(* What a handler has left is the end of its script, always.               *)
LEMMA RestInit == Init => RestInv
  BY DEF Init, RestInv

(* ... and after every step.                                               *)
LEMMA RestStep ==
  ASSUME TypeOK, TypeOK', TrialInv, RestInv, [Next]_vars PROVE RestInv'
  <1> SUFFICES ASSUME NEW c \in Change
               PROVE  IF kind'[c] = "none" THEN todo'[c] = <<>>
                                           ELSE Rest(todo'[c], Script[kind'[c]])
    BY DEF RestInv
  <1>1. todo[c] \in Seq(Op \X File) /\ todo'[c] \in Seq(Op \X File)
    BY DEF TypeOK
  <1>2. Goes(c)
    BY NextGoes
  <1>3. CASE kind'[c] = kind[c] /\ \E n \in 0..Len(todo[c]) :
                                     Dropped(todo'[c], todo[c], n)
    <2>1. PICK n : Dropped(todo'[c], todo[c], n)
      BY <1>3
    <2>2. CASE kind[c] = "none"
      <3>1. todo[c] = <<>>
        BY <2>2 DEF RestInv
      <3>2. Len(todo'[c]) = 0
        BY <1>1, <2>1, <3>1 DEF Dropped
      <3> QED
        BY <1>1, <1>3, <2>2, <3>2, EmptySeq
    <2>3. CASE kind[c] # "none"
      <3>1. Rest(todo[c], Script[kind[c]]) /\ kind[c] \in Kind
        BY <2>3 DEF RestInv, TypeOK
      <3>2. Script[kind[c]] \in Seq(Op \X File)
        BY <3>1, ScriptType
      <3> DEFINE t == Script[kind[c]]
      <3> HIDE DEF t
      <3>3. Rest(todo'[c], t)
        BY <1>1, <2>1, <3>1, <3>2, DroppedRest DEF t
      <3> QED
        BY <1>3, <2>3, <3>3 DEF t
    <2> QED
      BY <2>2, <2>3
  <1>4. CASE kind[c] = "none" /\ kind'[c] \in Offered[c]
             /\ todo'[c] = Script[kind'[c]]
    <2>1. kind'[c] \in Kind /\ kind'[c] # "none"
      BY <1>4, SafeModeAssumption DEF Kind
    <2>2. Len(todo'[c]) \in Nat
      BY <1>1
    <2>3. Rest(todo'[c], todo'[c])
      BY <2>2 DEF Rest
    <2> QED
      BY <1>4, <2>1, <2>3
  <1> QED
    BY <1>2, <1>3, <1>4 DEF Goes

(* Where a handler is in its script.                                       *)
LEMMA InScript ==
  ASSUME TypeOK, RestInv, NEW c \in Change, todo[c] # <<>>,
         NEW k, k = kind[c], NEW s, s = todo[c], NEW t, t = Script[k]
  PROVE  /\ k \in Kind
         /\ s \in Seq(Op \X File) /\ t \in Seq(Op \X File)
         /\ Len(s) \in Nat /\ Len(s) >= 1 /\ Len(t) \in Nat /\ Len(s) <= Len(t)
         /\ \A i \in 1..Len(s) : s[i] = t[(Len(t) - Len(s)) + i]
         /\ Head(s) = s[1] /\ Dropped(Tail(s), s, 1)
  <1>1. kind[c] \in Kind
    BY DEF RestInv, TypeOK
  <1>2. s \in Seq(Op \X File) /\ t \in Seq(Op \X File)
    BY <1>1, ScriptType DEF TypeOK
  <1>3. Rest(s, t)
    BY <1>1 DEF RestInv, Kind
  <1>4. s # <<>>
    OBVIOUS
  <1>5. /\ Dropped(Tail(s), s, 1) /\ Head(s) = s[1]
        /\ Len(s) \in Nat /\ Len(s) >= 1
    BY <1>2, <1>4, TailDrops
  <1>6. Len(t) \in Nat
    BY <1>2
  <1>7. Len(s) <= Len(t) /\ \A i \in 1..Len(s) : s[i] = t[(Len(t) - Len(s)) + i]
    BY <1>3 DEF Rest
  <1> QED
    BY <1>1, <1>2, <1>5, <1>6, <1>7

(* The order of the script, seen from the step a handler is at.            *)
LEMMA HeadOrder ==
  ASSUME TypeOK, RestInv, NEW c \in Change, todo[c] # <<>>,
         NEW h, h = Head(todo[c]), NEW left, left = Steps(Tail(todo[c]))
  PROVE  /\ h \in Op \X File
         /\ h[1] = "commit" =>
              h \notin left /\ <<"backup", h[2]>> \notin left
              /\ <<"reload", h[2]>> \in left
         /\ h[1] = "backup" => h \notin left
         /\ h[1] = "schedule" => \A x \in left : x[1] # "commit"
         /\ left \subseteq Steps(todo[c])
  <1> DEFINE k == kind[c]
             s == todo[c]
             t == Script[k]
             p == Len(t) - Len(s)
  <1>1. /\ k \in Kind
        /\ s \in Seq(Op \X File) /\ t \in Seq(Op \X File)
        /\ Len(s) \in Nat /\ Len(s) >= 1 /\ Len(t) \in Nat /\ Len(s) <= Len(t)
        /\ \A i \in 1..Len(s) : s[i] = t[p + i]
        /\ Head(s) = s[1] /\ Dropped(Tail(s), s, 1)
    BY InScript
  <1>2. Orderly(k)
    BY <1>1, ScriptOrderly
  <1> HIDE DEF k
  <1>3. /\ \A i, j \in 1..Len(t) : i < j =>
             /\ t[i][1] = "commit" => t[j] \notin {t[i], <<"backup", t[i][2]>>}
             /\ t[i][1] = "backup" => t[j] # t[i]
             /\ t[i][1] = "schedule" => t[j][1] # "commit"
        /\ \A i \in 1..Len(t) : t[i][1] = "commit" =>
             /\ \E j \in 1..Len(t) : i < j /\ t[j] = <<"reload", t[i][2]>>
    BY <1>2 DEF Orderly
  <1> HIDE DEF s, t
  <1>4. p + 1 \in 1..Len(t) /\ h = t[p + 1] /\ p \in Nat
    <2>1. 1 \in 1..Len(s) /\ h = s[1]
      BY <1>1 DEF s
    <2>2. h = t[p + 1]
      BY <1>1, <2>1
    <2> QED
      BY <1>1, <2>2
  <1>5. ASSUME NEW x \in left
        PROVE  \E j \in 1..Len(t) : p + 1 < j /\ x = t[j]
    <2>1. PICK i \in 1..Len(Tail(s)) : x = Tail(s)[i]
      BY <1>5 DEF Steps, s
    <2>2. Len(Tail(s)) = Len(s) - 1 /\ Tail(s)[i] = s[1 + i]
      BY <1>1 DEF Dropped
    <2>3. x = t[p + (1 + i)]
      BY <1>1, <2>1, <2>2
    <2>4. p + (1 + i) \in 1..Len(t) /\ p + 1 < p + (1 + i)
      BY <1>1, <2>1, <2>2
    <2> QED
      BY <2>3, <2>4
  <1>6. ASSUME NEW j \in 1..Len(t), p + 1 < j
        PROVE  t[j] \in left
    <2>1. (j - p) - 1 \in 1..(Len(s) - 1) /\ 1 + ((j - p) - 1) \in 1..Len(s)
          /\ p + (1 + ((j - p) - 1)) = j
      BY <1>1, <1>6
    <2>2. Tail(s)[(j - p) - 1] = t[j] /\ Len(Tail(s)) = Len(s) - 1
      BY <1>1, <2>1 DEF Dropped
    <2> QED
      BY <2>1, <2>2 DEF Steps, s
  <1>7. left \subseteq Steps(s)
    BY <1>1, DroppedRest, HeadTailProperties DEF s
  <1>8. h \in Op \X File
    BY <1>1, <1>4
  <1>9. h[1] = "commit" =>
          h \notin left /\ <<"backup", h[2]>> \notin left
          /\ <<"reload", h[2]>> \in left
    <2> SUFFICES ASSUME h[1] = "commit"
                 PROVE  h \notin left /\ <<"backup", h[2]>> \notin left
                        /\ <<"reload", h[2]>> \in left
      OBVIOUS
    <2>1. \A j \in 1..Len(t) : p + 1 < j => t[j] # h /\ t[j] # <<"backup", h[2]>>
      BY <1>3, <1>4
    <2>2. PICK j \in 1..Len(t) : p + 1 < j /\ t[j] = <<"reload", h[2]>>
      BY <1>3, <1>4
    <2> QED
      BY <1>5, <1>6, <2>1, <2>2
  <1>10. h[1] = "backup" => h \notin left
    BY <1>3, <1>4, <1>5
  <1>11. h[1] = "schedule" => \A x \in left : x[1] # "commit"
    BY <1>3, <1>4, <1>5
  <1> QED
    BY <1>7, <1>8, <1>9, <1>10, <1>11 DEF s

----------------------------------------------------------------------------
(* A request that has still to copy a file has not edited it. *)
ToBackup(c, f) == kind[c] = "none" \/ <<"backup", f>> \in Steps(todo[c])

NotYet(c, f) ==
  ToBackup(c, f) =>
    /\ name[c][f] = 0 /\ c \notin file[f]
    /\ \A t \in Second : c \notin copy[f][t]

(* Copies have the second they were made in, and whoever made one knows it. *)
Dated ==
  /\ \A c \in Change, f \in File :
        name[c][f] <= now /\ (name[c][f] = now => <<f, now>> \in saved)
  /\ \A n \in saved : \E d \in Change : name[d][n[1]] = n[2]

(* The copy a request made is without its edits, unless another request    *)
(* has copied the file under the same name, and stays until as many copies *)
(* as are kept have come after it.                                         *)
CopyStays(c, f) ==
  name[c][f] # 0 =>
    /\ c \notin copy[f][name[c][f]] \/ Shares(c, f)
    /\ <<f, name[c][f]>> \in saved \/ RotatedOut(c, f)

BackupInv ==
  Dated /\ \A c \in Change, f \in File : NotYet(c, f) /\ CopyStays(c, f)

(* A handler that goes on has no more files to copy than it had.           *)
LEMMA GoesOn ==
  ASSUME TypeOK, TypeOK', NEW c \in Change, Goes(c), NEW f \in File
  PROVE  /\ ToBackup(c, f)' => ToBackup(c, f)
         /\ kind[c] # "none" =>
              kind'[c] = kind[c] /\ Steps(todo'[c]) \subseteq Steps(todo[c])
  <1>1. todo[c] \in Seq(Op \X File) /\ todo'[c] \in Seq(Op \X File)
    BY DEF TypeOK
  <1>2. CASE kind'[c] = kind[c] /\ \E n \in 0..Len(todo[c]) :
                                     Dropped(todo'[c], todo[c], n)
    <2>1. Steps(todo'[c]) \subseteq Steps(todo[c])
      BY <1>1, <1>2, DroppedRest
    <2> QED
      BY <1>2, <2>1 DEF ToBackup
  <1>3. CASE kind[c] = "none"
    BY <1>2, <1>3 DEF ToBackup
  <1> QED
    BY <1>2, <1>3 DEF Goes

(* A step that makes no copy: whoever has still to copy a file stays out   *)
(* of it.                                                                  *)
LEMMA SameCopies ==
  ASSUME TypeOK, TypeOK', BackupInv, UNCHANGED <<saved, copy, name, now>>,
         \A c \in Change : Goes(c),
         \A c \in Change, f \in File :
           ToBackup(c, f)' /\ c \in file'[f] =>
             c \in file[f] \/ \E t \in Second : c \in copy[f][t]
  PROVE  BackupInv'
  <1>1. Dated'
    BY DEF BackupInv, Dated
  <1>2. ASSUME NEW c \in Change, NEW f \in File PROVE NotYet(c, f)'
    <2>1. ToBackup(c, f)' => ToBackup(c, f)
      BY GoesOn
    <2>2. NotYet(c, f)
      BY DEF BackupInv
    <2> QED
      BY <2>1, <2>2 DEF NotYet
  <1>3. ASSUME NEW c \in Change, NEW f \in File PROVE CopyStays(c, f)'
    <2>1. RotatedOut(c, f)' = RotatedOut(c, f) /\ Shares(c, f)' = Shares(c, f)
      BY DEF RotatedOut, NewerCopies, Shares
    <2> QED
      BY <2>1 DEF BackupInv, CopyStays
  <1> QED
    BY <1>1, <1>2, <1>3 DEF BackupInv

(* The names of the copies of a file are few enough to be counted.         *)
LEMMA NewerStayFinite ==
  ASSUME TypeOK', NEW c \in Change, NEW f \in File
  PROVE  IsFiniteSet(NewerCopies(c, f)')
  <1>1. NewerCopies(c, f)' \subseteq 0..LastSecond
    <2>1. \A d \in Change : name'[d][f] \in 0..LastSecond
      BY DEF TypeOK
    <2> QED
      BY <2>1 DEF NewerCopies
  <1>2. IsFiniteSet(0..LastSecond)
    <2>1. 0 \in Int /\ LastSecond \in Int
      BY SafeModeAssumption
    <2> QED
      BY <2>1, FS_Interval
  <1> QED
    BY <1>1, <1>2, FS_Subset

(* The copies the rotation removes are those with enough newer ones, and   *)
(* each of these was made for a request.                                   *)
LEMMA RotationKeeps ==
  ASSUME TypeOK', NEW c \in Change, NEW f \in File,
         NEW names \in SUBSET (File \X Second),
         <<f, name'[c][f]>> \in names, <<f, name'[c][f]>> \notin saved',
         saved' = Newest(names, f),
         \A n \in names : \E d \in Change : name'[d][n[1]] = n[2]
  PROVE  RotatedOut(c, f)'
  <1> DEFINE t == name'[c][f]
             M == {m \in names : m[1] = f /\ m[2] > t}
             L == NewerCopies(c, f)'
             F == [u \in L |-> <<f, u>>]
             G == {<<f, u>> : u \in L}
  <1>1. ~(Cardinality(M) < BackupKeep)
    BY DEF Newest
  <1>2. IsFiniteSet(L)
    BY NewerStayFinite
  <1>3. M \subseteq G
    <2> SUFFICES ASSUME NEW m \in M PROVE m \in G
      OBVIOUS
    <2>1. m = <<f, m[2]>> /\ m[2] > t
      OBVIOUS
    <2>2. PICK d \in Change : name'[d][f] = m[2]
      OBVIOUS
    <2>3. m[2] \in L
      BY <2>1, <2>2 DEF NewerCopies
    <2> QED
      BY <2>1, <2>3
  <1>4. IsFiniteSet(G) /\ Cardinality(G) <= Cardinality(L)
    <2>1. F \in Surjection(L, G)
      BY DEF Surjection
    <2> HIDE DEF F, G, L
    <2> QED
      BY <1>2, <2>1, FS_Surjection
  <1>5. Cardinality(M) <= Cardinality(G) /\ IsFiniteSet(M)
    BY <1>3, <1>4, FS_Subset
  <1>6. Cardinality(M) \in Nat /\ Cardinality(G) \in Nat /\ Cardinality(L) \in Nat
    BY <1>2, <1>4, <1>5, FS_CardinalityType
  <1> QED
    BY <1>1, <1>4, <1>5, <1>6, SafeModeAssumption DEF RotatedOut

(* A handler copies a file: the copy is without its edits, no copy goes    *)
(* that is not old enough, and one that is replaced shares its name.       *)
LEMMA BackupStep ==
  ASSUME TypeOK, TypeOK', RestInv, BackupInv, \A c \in Change : Goes(c),
         NEW d \in Change, NEW h \in File, Backup(d, h)
  PROVE  BackupInv'
  <1> USE DEF config, backups, handlers, trials, rollback
  <1> DEFINE names == saved \union {<<h, now>>}
  <1>1. /\ todo[d] # <<>> /\ Head(todo[d]) = <<"backup", h>>
        /\ saved' = Newest(names, h)
        /\ copy' = [copy EXCEPT ![h][now] = file[h]]
        /\ name' = [name EXCEPT ![d][h] = now]
        /\ todo' = [todo EXCEPT ![d] = Tail(@)]
        /\ UNCHANGED <<now, file, kind>>
    BY DEF Backup, Doing, Active, Done
  <1>2. /\ kind[d] # "none" /\ kind'[d] = kind[d]
        /\ todo'[d] = Tail(todo[d])
        /\ <<"backup", h>> \notin Steps(todo'[d])
    <2>1. todo'[d] = Tail(todo[d]) /\ kind'[d] = kind[d] /\ kind[d] # "none"
      BY <1>1 DEF TypeOK, RestInv
    <2>2. <<"backup", h>> \notin Steps(Tail(todo[d]))
      BY <1>1, HeadOrder
    <2> QED
      BY <2>1, <2>2
  <1>3. ToBackup(d, h)
    <2>1. todo[d] \in Seq(Op \X File)
      BY DEF TypeOK
    <2>2. Len(todo[d]) \in Nat /\ Len(todo[d]) >= 1 /\ Head(todo[d]) = todo[d][1]
      BY <1>1, <2>1, TailDrops
    <2>3. 1 \in 1..Len(todo[d])
      BY <2>2
    <2>4. <<"backup", h>> \in Steps(todo[d])
      BY <1>1, <2>2, <2>3 DEF Steps
    <2> QED
      BY <2>4 DEF ToBackup
  <1>4. name[d][h] = 0 /\ d \notin file[h]
    BY <1>3 DEF BackupInv, NotYet
  <1>5. /\ now \in Second /\ now \in Nat /\ now # 0
        /\ \A c \in Change, f \in File : name[c][f] \in Nat
    <2>1. now \in 1..LastSecond
      BY DEF TypeOK, Second
    <2>2. \A c \in Change, f \in File : name[c][f] \in 0..LastSecond
      BY DEF TypeOK
    <2> QED
      BY <2>1, <2>2, SafeModeAssumption DEF Second
  <1>6. /\ name'[d][h] = now
        /\ \A c \in Change, f \in File : c # d \/ f # h => name'[c][f] = name[c][f]
    BY <1>1 DEF TypeOK
  <1>7. /\ copy'[h][now] = file[h]
        /\ \A f \in File, t \in Second : f # h \/ t # now => copy'[f][t] = copy[f][t]
    BY <1>1, <1>5 DEF TypeOK
  <1>8. names \in SUBSET (File \X Second)
    <2>1. saved \in SUBSET (File \X Second)
      BY DEF TypeOK
    <2> QED
      BY <1>5, <2>1
  <1>9. \A c \in Change, f \in File :
          name[c][f] <= now /\ (name[c][f] = now => <<f, now>> \in saved)
    BY DEF BackupInv, Dated
  <1>10. \A n \in saved : \E e \in Change : name[e][n[1]] = n[2]
    BY DEF BackupInv, Dated
  <1>11. \A n \in saved : n \in File \X Second /\ n[2] <= now /\ n[2] # 0
    <2> SUFFICES ASSUME NEW n \in saved
                 PROVE  n \in File \X Second /\ n[2] <= now /\ n[2] # 0
      OBVIOUS
    <2>1. n \in File \X Second
      BY DEF TypeOK
    <2>2. n[1] \in File /\ n[2] \in 1..LastSecond
      BY <2>1 DEF Second
    <2>3. PICK e \in Change : name[e][n[1]] = n[2]
      BY <1>10
    <2>4. n[2] <= now
      BY <1>9, <2>2, <2>3
    <2> QED
      BY <2>1, <2>2, <2>4, SafeModeAssumption
  <1>12. \A n \in names : \E e \in Change : name'[e][n[1]] = n[2]
    BY <1>4, <1>6, <1>10, <1>11
  <1>13. <<h, now>> \in saved'
    <2>1. {m \in names : m[1] = h /\ m[2] > now} = {}
      <3>1. \A n \in names : n[2] <= now /\ n[2] \in Nat
        BY <1>5, <1>11, SafeModeAssumption DEF Second
      <3> QED
        BY <1>5, <3>1
    <2>2. Cardinality({}) < BackupKeep
      BY FS_EmptySet, SafeModeAssumption
    <2> HIDE DEF names
    <2>3. Cardinality({m \in names : m[1] = h /\ m[2] > now}) < BackupKeep
      BY <2>1, <2>2
    <2> QED
      BY <1>1, <2>3 DEF Newest, names
  <1>14. \A n \in saved' : n \in names
    BY <1>1 DEF Newest
  <1>15. \A n \in names : n[1] # h => n \in saved'
    BY <1>1 DEF Newest
  <1> HIDE DEF names
  <1>16. Dated'
    <2>1. ASSUME NEW c \in Change, NEW f \in File
          PROVE  /\ name'[c][f] <= now'
                 /\ name'[c][f] = now' => <<f, now'>> \in saved'
      <3>1. CASE c = d /\ f = h
        BY <1>1, <1>5, <1>6, <1>13, <3>1
      <3>2. CASE ~(c = d /\ f = h)
        <4>1. name'[c][f] = name[c][f] /\ now' = now
          BY <1>1, <1>6, <3>2
        <4>2. CASE f = h
          BY <1>1, <1>9, <1>13, <4>1, <4>2
        <4>3. CASE f # h
          BY <1>9, <1>15, <4>1, <4>3 DEF names
        <4> QED
          BY <4>2, <4>3
      <3> QED
        BY <3>1, <3>2
    <2>2. \A n \in saved' : \E e \in Change : name'[e][n[1]] = n[2]
      BY <1>12, <1>14
    <2> QED
      BY <2>1, <2>2 DEF Dated
  <1>17. ASSUME NEW c \in Change, NEW f \in File PROVE NotYet(c, f)'
    <2> SUFFICES ASSUME ToBackup(c, f)'
                 PROVE  /\ name'[c][f] = 0 /\ c \notin file'[f]
                        /\ \A t \in Second : c \notin copy'[f][t]
      BY DEF NotYet
    <2>1. ~(c = d /\ f = h)
      BY <1>2 DEF ToBackup
    <2>2. ToBackup(c, f)
      BY GoesOn
    <2>3. /\ name[c][f] = 0 /\ c \notin file[f]
          /\ \A t \in Second : c \notin copy[f][t]
      BY <2>2 DEF BackupInv, NotYet
    <2> QED
      BY <1>1, <1>6, <1>7, <2>1, <2>3
  <1>18. ASSUME NEW c \in Change, NEW f \in File PROVE CopyStays(c, f)'
    <2>1. CASE c = d /\ f = h
      BY <1>4, <1>6, <1>7, <1>13, <2>1 DEF CopyStays
    <2>2. CASE ~(c = d /\ f = h)
      <3> SUFFICES ASSUME name[c][f] # 0
                   PROVE  /\ c \notin copy'[f][name[c][f]] \/ Shares(c, f)'
                          /\ <<f, name[c][f]>> \in saved' \/ RotatedOut(c, f)'
        BY <1>6, <2>2 DEF CopyStays
      <3>1. /\ c \notin copy[f][name[c][f]] \/ Shares(c, f)
            /\ <<f, name[c][f]>> \in saved \/ RotatedOut(c, f)
        BY DEF BackupInv, CopyStays
      <3>2. name[c][f] \in Second /\ name'[c][f] = name[c][f]
        <4>1. name[c][f] \in 0..LastSecond
          BY DEF TypeOK
        <4> QED
          BY <1>6, <2>2, <4>1, SafeModeAssumption DEF Second
      <3>3. c \notin copy'[f][name[c][f]] \/ Shares(c, f)'
        <4>1. CASE Shares(c, f)
          BY <1>4, <1>6, <3>2, <4>1 DEF Shares
        <4>2. CASE f = h /\ name[c][f] = now
          BY <1>6, <2>2, <3>2, <4>2 DEF Shares
        <4>3. CASE c \notin copy[f][name[c][f]] /\ ~(f = h /\ name[c][f] = now)
          BY <1>7, <3>2, <4>3
        <4> QED
          BY <3>1, <4>1, <4>2, <4>3
      <3>5. CASE RotatedOut(c, f)
        <4> DEFINE L == NewerCopies(c, f)
                   K == NewerCopies(c, f)'
        <4>1. L \subseteq K
          BY <1>4, <1>5, <1>6, <3>2 DEF NewerCopies
        <4>2. IsFiniteSet(K)
          BY NewerStayFinite
        <4>3. Cardinality(L) >= BackupKeep
          BY <3>5 DEF RotatedOut
        <4> HIDE DEF L, K
        <4>4. /\ Cardinality(L) <= Cardinality(K)
              /\ Cardinality(L) \in Nat /\ Cardinality(K) \in Nat
          BY <4>1, <4>2, FS_Subset, FS_CardinalityType
        <4>5. Cardinality(K) >= BackupKeep
          BY <4>3, <4>4, SafeModeAssumption
        <4> QED
          BY <3>3, <4>5 DEF RotatedOut, K
      <3>6. CASE <<f, name[c][f]>> \in saved
        <4>1. CASE f # h
          BY <1>15, <3>3, <3>6, <4>1 DEF names
        <4>2. CASE f = h
          <5>1. <<f, name'[c][f]>> \in names
            BY <3>2, <3>6 DEF names
          <5>2. <<f, name'[c][f]>> \notin saved' => RotatedOut(c, f)'
            BY <1>1, <1>8, <1>12, <4>2, <5>1, RotationKeeps DEF names
          <5> QED
            BY <3>2, <3>3, <5>2
        <4> QED
          BY <4>1, <4>2
      <3> QED
        BY <3>1, <3>5, <3>6
    <2> QED
      BY <2>1, <2>2
  <1> QED
    BY <1>16, <1>17, <1>18 DEF BackupInv

(* Nothing is copied at first.                                             *)
LEMMA BackupInvInit == Init => BackupInv
  <1> SUFFICES ASSUME Init PROVE BackupInv
    OBVIOUS
  <1>1. /\ now = 1 /\ saved = {}
        /\ \A c \in Change, f \in File : name[c][f] = 0 /\ file[f] = {}
        /\ \A f \in File, t \in Second : copy[f][t] = {}
    BY DEF Init
  <1> QED
    BY <1>1 DEF BackupInv, Dated, NotYet, CopyStays

(* An edit: the handler has copied the file before, and will not again.    *)
LEMMA EditCopied ==
  ASSUME TypeOK, RestInv, NEW d \in Change, NEW h \in File, Doing(d, "commit", h)
  PROVE  <<"backup", h>> \notin Steps(Tail(todo[d])) /\ kind[d] # "none"
  <1>1. todo[d] # <<>> /\ Head(todo[d]) = <<"commit", h>>
    BY DEF Doing, Active
  <1>2. <<"backup", h>> \notin Steps(Tail(todo[d]))
    <2> DEFINE x == Head(todo[d])
    <2>1. x[1] = "commit" /\ x[2] = h
      BY <1>1
    <2>2. <<"backup", x[2]>> \notin Steps(Tail(todo[d]))
      BY <1>1, <2>1, HeadOrder
    <2> QED
      BY <2>1, <2>2
  <1>3. kind[d] # "none"
    BY <1>1 DEF RestInv
  <1> QED
    BY <1>2, <1>3

(* What is left after a first step is left after more of them.             *)
LEMMA AheadSteps ==
  ASSUME NEW T, NEW s \in Seq(T), s # <<>>, NEW n \in 1..4
  PROVE  Steps(SubSeq(s, n + 1, Len(s))) \subseteq Steps(Tail(s))
  <1> DEFINE r == SubSeq(s, n + 1, Len(s))
             m == IF n <= Len(s) THEN n ELSE Len(s)
  <1>1. Len(s) \in Nat /\ Len(s) >= 1 /\ Dropped(Tail(s), s, 1)
    BY TailDrops
  <1>2. Dropped(r, s, m)
    BY AheadDrops
  <1>a. m \in Nat /\ m >= 1
    BY <1>1
  <1> HIDE DEF r, m
  <1>3. m \in Nat /\ m >= 1 /\ Len(r) = Len(s) - m
        /\ \A i \in 1..Len(r) : r[i] = s[m + i]
    BY <1>a, <1>2 DEF Dropped
  <1>4. ASSUME NEW i \in 1..Len(r) PROVE r[i] \in Steps(Tail(s))
    <2>1. (m - 1) + i \in 1..Len(Tail(s)) /\ 1 + ((m - 1) + i) = m + i
      BY <1>1, <1>3 DEF Dropped
    <2>2. Tail(s)[(m - 1) + i] = r[i]
      BY <1>1, <1>3, <2>1 DEF Dropped
    <2> QED
      BY <2>1, <2>2 DEF Steps
  <1> QED
    BY <1>4 DEF Steps, r

(* A commit adds its change to one file, and leaves the end of its script. *)
LEMMA CommitDoes ==
  ASSUME TypeOK, NEW d \in Change, NEW h \in File,
         \/ Commit(d, h)
         \/ \E w \in BOOLEAN : CommitFails(d, h, w)
  PROVE  /\ Doing(d, "commit", h)
         /\ \A c \in Change, f \in File :
              c \in file'[f] => c \in file[f] \/ (c = d /\ f = h)
         /\ Steps(todo'[d]) \subseteq Steps(Tail(todo[d]))
         /\ UNCHANGED <<now, backups, kind, name, trials, rollback>>
  <1> USE DEF trials, rollback, backups
  <1>1. Doing(d, "commit", h) /\ UNCHANGED <<now, backups, kind, name, trials, rollback>>
    BY DEF Commit, CommitFails
  <1>2. file' \in {file, [file EXCEPT ![h] = Edited(d, @)]}
    BY DEF Commit, CommitFails
  <1>3. \A c \in Change, f \in File :
          c \in file'[f] => c \in file[f] \/ (c = d /\ f = h)
    BY <1>2 DEF TypeOK, Edited
  <1>4. todo[d] \in Seq(Op \X File) /\ todo[d] # <<>>
    BY <1>1 DEF TypeOK, Doing, Active
  <1>5. CASE Commit(d, h)
    <2>1. PICK n \in 1..4 : AfterCommit(d, h) = Ahead(d, n)
      BY DEF AfterCommit
    <2>2. todo'[d] = Ahead(d, n)
      BY <1>5, <2>1 DEF Commit, TypeOK
    <2>3. Steps(todo'[d]) \subseteq Steps(Tail(todo[d]))
      BY <1>4, <2>2, AheadSteps DEF Ahead
    <2> QED
      BY <1>1, <1>3, <2>3
  <1>6. CASE \E w \in BOOLEAN : CommitFails(d, h, w)
    <2>1. todo'[d] = <<>>
      BY <1>6 DEF CommitFails, Abort, Quit, TypeOK
    <2>2. Steps(todo'[d]) = {}
      BY <2>1 DEF Steps
    <2> QED
      BY <1>1, <1>3, <2>2
  <1> QED
    BY <1>5, <1>6

(* Every step keeps the copies, action by action.                          *)
LEMMA BackupInvStep ==
  ASSUME TypeOK, TypeOK', RestInv, BackupInv, [Next]_vars
  PROVE  BackupInv'
  <1> USE DEF config, backups, handlers, trials, rollback
  <1>0. \A c \in Change : Goes(c)
    BY NextGoes
  <1>1. ASSUME UNCHANGED <<saved, copy, name, now, file>>
        PROVE  BackupInv'
    BY <1>0, <1>1, SameCopies
  <1>2. ASSUME NEW d \in Change, NEW h \in File,
               \/ Commit(d, h)
               \/ \E w \in BOOLEAN : CommitFails(d, h, w)
        PROVE  BackupInv'
    <2>1. /\ UNCHANGED <<saved, copy, name, now, kind>> /\ Doing(d, "commit", h)
          /\ \A c \in Change, f \in File :
               c \in file'[f] => c \in file[f] \/ (c = d /\ f = h)
          /\ Steps(todo'[d]) \subseteq Steps(Tail(todo[d]))
      BY <1>2, CommitDoes
    <2>2. ~ToBackup(d, h)'
      BY <2>1, EditCopied DEF ToBackup
    <2> QED
      BY <1>0, <2>1, <2>2, SameCopies
  <1>3. ASSUME NEW d \in Change, NEW h \in File, RestoreFile(d, h)
        PROVE  BackupInv'
    <2>1. UNCHANGED <<saved, copy, name, now>>
      BY <1>3 DEF RestoreFile
    <2>2. <<h, name[d][h]>> \in saved => name[d][h] \in Second
      BY DEF TypeOK
    <2>3. \A c \in Change, f \in File : c \in file'[f] =>
            c \in file[f] \/ \E t \in Second : c \in copy[f][t]
      BY <1>3, <2>2 DEF RestoreFile, TypeOK
    <2> QED
      BY <1>0, <2>1, <2>3, SameCopies
  <1>4. ASSUME Tick PROVE BackupInv'
    <2>1. UNCHANGED <<saved, copy, name, file, kind, todo>> /\ now' = now + 1
      BY <1>4 DEF Tick
    <2>2. ASSUME NEW c \in Change, NEW f \in File
          PROVE  name'[c][f] <= now' /\ name'[c][f] # now'
      <3>1. name[c][f] <= now
        BY DEF BackupInv, Dated
      <3>2. name[c][f] \in Nat /\ now \in Nat
        <4>1. name[c][f] \in 0..LastSecond /\ now \in 1..LastSecond
          BY DEF TypeOK, Second
        <4> QED
          BY <4>1, SafeModeAssumption
      <3> QED
        BY <2>1, <3>1, <3>2
    <2>3. Dated'
      BY <2>1, <2>2 DEF BackupInv, Dated
    <2>4. ASSUME NEW c \in Change, NEW f \in File
          PROVE  NotYet(c, f)' /\ CopyStays(c, f)'
      <3>1. NotYet(c, f)'
        BY <2>1 DEF BackupInv, NotYet, ToBackup
      <3>2. RotatedOut(c, f)' = RotatedOut(c, f) /\ Shares(c, f)' = Shares(c, f)
        BY <1>4 DEF Tick, RotatedOut, NewerCopies, Shares
      <3>3. CopyStays(c, f)'
        BY <1>4, <3>2 DEF Tick, BackupInv, CopyStays
      <3> QED
        BY <3>1, <3>3
    <2> QED
      BY <2>3, <2>4 DEF BackupInv
  <1>5. ASSUME NEW d \in Change, NEW k \in Offered[d], Begin(d, k)
        PROVE  BackupInv'
    BY <1>1, <1>5 DEF Begin
  <1>6. ASSUME NEW d \in Change, NEW f \in File,
               \/ BackupFails(d, f) \/ NothingToCommit(d, f) \/ Reload(d, f)
               \/ SaveSettings(d, f) \/ ScheduleRollback(d, f)
               \/ RestoreFileFails(d, f)
               \/ RestoreReload(d, f) \/ RestoreReloadFails(d, f)
        PROVE  BackupInv'
    BY <1>1, <1>6 DEF BackupFails, NothingToCommit, Reload, SaveSettings,
       ScheduleRollback, RestoreFileFails, RestoreReload, RestoreReloadFails
  <1>7. ASSUME NEW d \in Change, NEW f \in File, NEW l \in BOOLEAN,
               ReloadFails(d, f, l)
        PROVE  BackupInv'
    BY <1>1, <1>7 DEF ReloadFails
  <1>8. ASSUME NEW d \in Change, Expire(d) \/ ExecuteRollback(d)
        PROVE  BackupInv'
    BY <1>1, <1>8 DEF Expire, ExecuteRollback
  <1>9. CASE Confirm \/ UNCHANGED vars
    BY <1>1, <1>9 DEF Confirm, vars
  <1>10. ASSUME NEW r \in BOOLEAN, Restart(r) PROVE BackupInv'
    <2>1. UNCHANGED <<saved, copy, name, now, file>>
      BY <1>10 DEF Restart
    <2> QED
      BY <1>1, <2>1
  <1>11. ASSUME NEW d \in Change, NEW f \in File, Backup(d, f)
         PROVE  BackupInv'
    BY <1>0, <1>11, BackupStep
  <1> QED
    BY <1>2, <1>3, <1>4, <1>5, <1>6, <1>7, <1>8, <1>9, <1>10, <1>11
       DEF Next, Handler, HandlerFails, Restore, RestoreFails

(* What the copies are: the one a handler made of a file does not have the *)
(* edits of its own request unless another request gave its copy the same  *)
(* name, and the rotation leaves it until as many copies as are kept have  *)
(* been made of that file after it (backupConfig, core/dhcp.go).           *)
THEOREM CopyAlwaysStays ==
  Spec => [](\A c \in Change, f \in File : CopyStays(c, f))
  <1> DEFINE Inv == TypeOK /\ TrialInv /\ RestInv /\ BackupInv
             Stay == \A c \in Change, f \in File : CopyStays(c, f)
  <1>1. Init => Inv
    BY TypeInit, TrialInvInit, RestInit, BackupInvInit
  <1>2. Inv /\ [Next]_vars => Inv'
    BY TypeStep, TrialInvStep, RestStep, BackupInvStep
  <1>3. Inv => Stay
    BY DEF BackupInv
  <1> HIDE DEF Inv, Stay
  <1>4. Spec => []Stay
    BY <1>1, <1>2, <1>3, PTL DEF Spec
  <1> QED
    BY <1>4 DEF Stay

(* The timer can undo the change on trial, whatever the other handlers do  *)
(* in the meantime: every file of its plan has a copy without it, but one  *)
(* as many newer copies have replaced as are kept, or that another request *)
(* gave the same name.                                                     *)
THEOREM PlanAlwaysRestorable == Spec => []PlanIsRestorable
  <1> DEFINE Inv == TypeOK /\ TrialInv /\ RestInv /\ BackupInv
  <1>1. Init => Inv
    BY TypeInit, TrialInvInit, RestInit, BackupInvInit
  <1>2. Inv /\ [Next]_vars => Inv'
    BY TypeStep, TrialInvStep, RestStep, BackupInvStep
  <1>3. Inv => PlanIsRestorable
    <2> SUFFICES ASSUME TypeOK, BackupInv, rbPending # NoChange,
                        NEW f \in Plan(rbPending)
                 PROVE  /\ \/ <<f, name[rbPending][f]>> \in saved
                           \/ RotatedOut(rbPending, f)
                        /\ \/ rbPending \notin copy[f][name[rbPending][f]]
                           \/ Shares(rbPending, f)
      BY DEF PlanIsRestorable
    <2>1. rbPending \in Change /\ f \in File /\ name[rbPending][f] # 0
      BY DEF TypeOK, Plan
    <2>2. CopyStays(rbPending, f)
      BY <2>1 DEF BackupInv
    <2> QED
      BY <2>1, <2>2 DEF CopyStays
  <1> HIDE DEF Inv
  <1> QED
    BY <1>1, <1>2, <1>3, PTL DEF Spec

----------------------------------------------------------------------------
(* A handler that has still to reload a file it has committed, or that it  *)
(* will not commit any more.                                               *)
Owes(s, f) ==
  \E j \in 1..Len(s) : /\ s[j] = <<"reload", f>>
                        /\ \A i \in 1..(j - 1) : s[i] # <<"commit", f>>

Loaded(f) ==
  running[f] = file[f] \/ \E c \in Change : Owes(todo[c], f) \/ f \in toReload[c]

LoadedInv == broken = {} => \A f \in File : Loaded(f)

(* Only a trial that was undone writes files back, and it reloads what it  *)
(* has written.                                                            *)
UndoInv ==
  \A c \in Change : /\ toWrite[c] \subseteq toReload[c]
                    /\ toReload[c] # {} => verdict[c] = "undone"

(* The ends of two scripts that start with a commit.                       *)
LEMMA WanAddEnds ==
  ASSUME NEW T, NEW s \in Seq(T), s # <<>>, Rest(s, WANAdd),
         Head(s)[1] = "commit"
  PROVE  \/ /\ Len(s) = 6
            /\ s[1] = Net("commit") /\ s[2] = Fw("backup") /\ s[3] = Fw("commit")
            /\ s[4] = Fw("reload") /\ s[5] = Net("reload") /\ s[6] = Net("schedule")
         \/ /\ Len(s) = 4
            /\ s[1] = Fw("commit") /\ s[2] = Fw("reload") /\ s[3] = Net("reload")
            /\ s[4] = Net("schedule")
  <1>1. Len(WANAdd) = 7
    BY DEF WANAdd
  <1>2. Len(s) \in Nat /\ Len(s) >= 1 /\ Head(s) = s[1]
    BY TailDrops
  <1>3. Len(s) <= 7 /\ \A i \in 1..Len(s) : s[i] = WANAdd[(7 - Len(s)) + i]
    BY <1>1 DEF Rest
  <1>4. \A m \in 1..7 : WANAdd[m][1] = "commit" => m \in {2, 4}
    BY DEF WANAdd, Net, Fw
  <1>5. (7 - Len(s)) + 1 \in {2, 4}
    <2>1. 1 \in 1..Len(s) /\ (7 - Len(s)) + 1 \in 1..7
      BY <1>2, <1>3
    <2> QED
      BY <1>2, <1>3, <1>4, <2>1
  <1>6. CASE Len(s) = 6
    <2>1. \A i \in 1..6 : s[i] = WANAdd[1 + i]
      BY <1>3, <1>6
    <2> QED
      BY <1>6, <2>1 DEF WANAdd
  <1>7. CASE Len(s) = 4
    <2>1. \A i \in 1..4 : s[i] = WANAdd[3 + i]
      BY <1>3, <1>7
    <2> QED
      BY <1>7, <2>1 DEF WANAdd
  <1>8. Len(s) \in {6, 4}
    <2> DEFINE n == Len(s)
    <2>a. Len(s) <= 7
      BY <1>3
    <2>1. n \in 1..7
      <3>1. \A m \in Nat : m >= 1 /\ m <= 7 => m \in 1..7
        OBVIOUS
      <3> HIDE DEF n
      <3>2. n \in Nat /\ n >= 1 /\ n <= 7
        BY <1>2, <2>a DEF n
      <3> QED
        BY <3>1, <3>2
    <2>2. (7 - n) + 1 \in {2, 4}
      BY <1>5
    <2> HIDE DEF n
    <2>3. n \in {6, 4}
      BY <2>1, <2>2
    <2> QED
      BY <2>3 DEF n
  <1> QED
    BY <1>6, <1>7, <1>8

(* The same for the ACL.                                                   *)
LEMMA AclOffEnds ==
  ASSUME NEW T, NEW s \in Seq(T), s # <<>>, Rest(s, MgmtACLOff),
         Head(s)[1] = "commit"
  PROVE  /\ Len(s) = 3
         /\ s[1] = Fw("commit") /\ s[2] = Fw("reload") /\ s[3] = Fw("settings")
  <1>1. Len(MgmtACLOff) = 4
    BY DEF MgmtACLOff
  <1>2. Len(s) \in Nat /\ Len(s) >= 1 /\ Head(s) = s[1]
    BY TailDrops
  <1>3. Len(s) <= 4 /\ \A i \in 1..Len(s) : s[i] = MgmtACLOff[(4 - Len(s)) + i]
    BY <1>1 DEF Rest
  <1>4. \A m \in 1..4 : MgmtACLOff[m][1] = "commit" => m = 2
    BY DEF MgmtACLOff, Fw
  <1>5. (4 - Len(s)) + 1 = 2
    <2>1. 1 \in 1..Len(s) /\ (4 - Len(s)) + 1 \in 1..4
      BY <1>2, <1>3
    <2> QED
      BY <1>2, <1>3, <1>4, <2>1
  <1>6. Len(s) = 3
    <2> DEFINE n == Len(s)
    <2>a. Len(s) <= 4
      BY <1>3
    <2>1. n \in 1..4
      <3>1. \A m \in Nat : m >= 1 /\ m <= 4 => m \in 1..4
        OBVIOUS
      <3> HIDE DEF n
      <3>2. n \in Nat /\ n >= 1 /\ n <= 4
        BY <1>2, <2>a DEF n
      <3> QED
        BY <3>1, <3>2
    <2>2. (4 - n) + 1 = 2
      BY <1>5
    <2> HIDE DEF n
    <2>3. n = 3
      BY <2>1, <2>2
    <2> QED
      BY <2>3 DEF n
  <1>7. \A i \in 1..3 : s[i] = MgmtACLOff[1 + i]
    BY <1>3, <1>6
  <1> QED
    BY <1>6, <1>7 DEF MgmtACLOff

(* The additional WAN link, when it comes to a commit.                     *)
LEMMA WanAddAt ==
  ASSUME TypeOK, RestInv, NEW c \in Change, NEW f \in File,
         kind[c] = "wan2", Doing(c, "commit", f)
  PROVE  LET s == todo[c] IN
         \/ /\ f = "network" /\ Len(s) = 6
            /\ s[1] = Net("commit") /\ s[2] = Fw("backup") /\ s[3] = Fw("commit")
            /\ s[4] = Fw("reload") /\ s[5] = Net("reload") /\ s[6] = Net("schedule")
         \/ /\ f = "firewall" /\ Len(s) = 4
            /\ s[1] = Fw("commit") /\ s[2] = Fw("reload") /\ s[3] = Net("reload")
            /\ s[4] = Net("schedule")
  <1> DEFINE s == todo[c]
  <1>1. s # <<>> /\ Head(s) = <<"commit", f>> /\ s \in Seq(Op \X File)
    BY DEF Doing, Active, TypeOK
  <1>2. Rest(s, WANAdd)
    BY DEF Script, Kind, RestInv
  <1> HIDE DEF s
  <1>3. Head(s) = s[1] /\ Head(s)[1] = "commit" /\ Head(s)[2] = f
    BY <1>1, TailDrops
  <1>4. Net("commit")[2] = "network" /\ Fw("commit")[2] = "firewall"
    BY DEF Net, Fw
  <1>5. \/ /\ f = "network" /\ Len(s) = 6
           /\ s[1] = Net("commit") /\ s[2] = Fw("backup") /\ s[3] = Fw("commit")
           /\ s[4] = Fw("reload") /\ s[5] = Net("reload") /\ s[6] = Net("schedule")
        \/ /\ f = "firewall" /\ Len(s) = 4
           /\ s[1] = Fw("commit") /\ s[2] = Fw("reload") /\ s[3] = Net("reload")
           /\ s[4] = Net("schedule")
    BY <1>1, <1>2, <1>3, <1>4, WanAddEnds
  <1> QED
    BY <1>5 DEF s

(* The ACL switched off, when it comes to its commit.                      *)
LEMMA AclOffAt ==
  ASSUME TypeOK, RestInv, NEW c \in Change, NEW f \in File,
         kind[c] = "aclOff", Doing(c, "commit", f)
  PROVE  LET s == todo[c] IN
         /\ f = "firewall" /\ Len(s) = 3
         /\ s[1] = Fw("commit") /\ s[2] = Fw("reload") /\ s[3] = Fw("settings")
  <1> DEFINE s == todo[c]
  <1>1. s # <<>> /\ Head(s) = <<"commit", f>> /\ s \in Seq(Op \X File)
    BY DEF Doing, Active, TypeOK
  <1>2. Rest(s, MgmtACLOff)
    BY DEF Script, Kind, RestInv
  <1> HIDE DEF s
  <1>3. Head(s) = s[1] /\ Head(s)[1] = "commit" /\ Head(s)[2] = f
    BY <1>1, TailDrops
  <1>4. Fw("commit")[2] = "firewall"
    BY DEF Fw
  <1>5. /\ f = "firewall" /\ Len(s) = 3
        /\ s[1] = Fw("commit") /\ s[2] = Fw("reload") /\ s[3] = Fw("settings")
    BY <1>1, <1>2, <1>3, <1>4, AclOffEnds
  <1> QED
    BY <1>5 DEF s

(* A reload a handler owes stays owed when the handler takes another step. *)
LEMMA OwesTail ==
  ASSUME NEW T, NEW s \in Seq(T), s # <<>>, NEW f, Owes(s, f),
         Head(s) # <<"reload", f>>
  PROVE  Owes(Tail(s), f)
  <1>1. /\ Len(s) \in Nat /\ Head(s) = s[1] /\ Len(Tail(s)) = Len(s) - 1
        /\ \A i \in 1..Len(Tail(s)) : Tail(s)[i] = s[1 + i]
    BY TailDrops DEF Dropped
  <1>2. PICK j \in 1..Len(s) : /\ s[j] = <<"reload", f>>
                               /\ \A i \in 1..(j - 1) : s[i] # <<"commit", f>>
    BY DEF Owes
  <1>3. j # 1
    BY <1>1, <1>2
  <1>4. j - 1 \in 1..Len(Tail(s)) /\ 1 + (j - 1) = j
    BY <1>1, <1>3
  <1>5. Tail(s)[j - 1] = <<"reload", f>>
    BY <1>1, <1>2, <1>4
  <1>6. ASSUME NEW i \in 1..((j - 1) - 1) PROVE Tail(s)[i] # <<"commit", f>>
    <2>1. i \in 1..Len(Tail(s)) /\ 1 + i \in 1..(j - 1)
      BY <1>1, <1>4
    <2> QED
      BY <1>1, <1>2, <2>1
  <1> QED
    BY <1>4, <1>5, <1>6 DEF Owes

(* After its commit, a handler owes the reload.                            *)
LEMMA OwesCommitted ==
  ASSUME TypeOK, RestInv, NEW c \in Change, NEW f \in File, Doing(c, "commit", f)
  PROVE  Owes(Tail(todo[c]), f)
  <1> DEFINE x == Head(todo[c])
             r == Tail(todo[c])
  <1>1. todo[c] # <<>> /\ x = <<"commit", f>> /\ x[1] = "commit" /\ x[2] = f
    BY DEF Doing, Active
  <1>2. x \notin Steps(r) /\ <<"reload", x[2]>> \in Steps(r)
    BY <1>1, HeadOrder
  <1> HIDE DEF x, r
  <1>3. PICK j \in 1..Len(r) : r[j] = <<"reload", f>>
    BY <1>1, <1>2 DEF Steps
  <1>4. r \in Seq(Op \X File)
    BY <1>1, TailType DEF r
  <1>5. \A i \in 1..(j - 1) : i \in 1..Len(r)
    BY <1>3, <1>4
  <1> QED
    BY <1>1, <1>2, <1>3, <1>5 DEF Owes, Steps, r

(* A rollback under way is that of a trial that was undone.                *)
LEMMA UndoInvInit == Init => UndoInv
  BY DEF Init, UndoInv

(* A step of anybody else.                                                 *)
LEMMA SameUndo ==
  ASSUME UndoInv, UNCHANGED <<toWrite, toReload, verdict>> PROVE UndoInv'
  BY DEF UndoInv

(* Every step keeps UndoInv, action by action.                             *)
LEMMA UndoInvStep ==
  ASSUME TypeOK, TrialInv, UndoInv, [Next]_vars PROVE UndoInv'
  <1> USE DEF config, backups, handlers, trials, rollback
  <1>1. ASSUME NEW d \in Change, NEW f \in File,
               \/ Backup(d, f) \/ BackupFails(d, f) \/ Commit(d, f)
               \/ NothingToCommit(d, f) \/ Reload(d, f) \/ SaveSettings(d, f)
        PROVE  UndoInv'
    BY <1>1, SameUndo DEF Backup, BackupFails, Commit, NothingToCommit, Reload,
                          SaveSettings
  <1>2. ASSUME NEW d \in Change, NEW f \in File, NEW w \in BOOLEAN,
               CommitFails(d, f, w) \/ ReloadFails(d, f, w)
        PROVE  UndoInv'
    BY <1>2, SameUndo DEF CommitFails, ReloadFails
  <1>3. ASSUME NEW d \in Change, NEW k \in Offered[d], Begin(d, k)
        PROVE  UndoInv'
    BY <1>3, SameUndo DEF Begin
  <1>4. ASSUME NEW d \in Change, Expire(d) PROVE UndoInv'
    BY <1>4, SameUndo DEF Expire
  <1>5. CASE Tick \/ UNCHANGED vars
    BY <1>5, SameUndo DEF Tick, vars
  <1>6. ASSUME NEW d \in Change, NEW h \in File, ScheduleRollback(d, h)
        PROVE  UndoInv'
    <2>1. todo[d] \in Seq(Op \X File) /\ todo[d] # <<>>
          /\ Head(todo[d]) = <<"schedule", h>>
      BY <1>6 DEF ScheduleRollback, Doing, Active, TypeOK
    <2>2. Len(todo[d]) >= 1 /\ Len(todo[d]) \in Nat /\ Head(todo[d]) = todo[d][1]
      BY <2>1, TailDrops
    <2>3. 1 \in ScheduleSteps(todo[d])
      BY <2>1, <2>2 DEF ScheduleSteps
    <2>4. verdict[d] = "none"
      BY <2>3 DEF TrialInv, SchedulesOnce
    <2>5. \A c \in Change : verdict'[c] # verdict[c] => verdict[c] # "undone"
      BY <1>6, <2>4 DEF ScheduleRollback, TrialInv
    <2>6. UNCHANGED <<toWrite, toReload>>
      BY <1>6 DEF ScheduleRollback
    <2> QED
      BY <2>5, <2>6 DEF UndoInv
  <1>7. ASSUME NEW d \in Change, ExecuteRollback(d) PROVE UndoInv'
    <2>1. CASE rbPending # d
      BY <1>7, <2>1, SameUndo DEF ExecuteRollback
    <2>2. CASE rbPending = d
      <3>1. /\ verdict'[d] = "undone" /\ toWrite'[d] = Plan(d) /\ toReload'[d] = Plan(d)
            /\ \A c \in Change : c # d =>
                 /\ verdict'[c] = verdict[c] /\ toWrite'[c] = toWrite[c]
                 /\ toReload'[c] = toReload[c]
        BY <1>7, <2>2 DEF ExecuteRollback, TypeOK
      <3> QED
        BY <3>1 DEF UndoInv
    <2> QED
      BY <2>1, <2>2
  <1>8. ASSUME NEW d \in Change, NEW h \in File,
               \/ RestoreFile(d, h) \/ RestoreFileFails(d, h)
        PROVE  UndoInv'
    <2>1. /\ toWrite' = [toWrite EXCEPT ![d] = @ \ {h}]
          /\ UNCHANGED <<toReload, verdict>>
      BY <1>8 DEF RestoreFile, RestoreFileFails
    <2>2. \A c \in Change : toWrite'[c] \subseteq toWrite[c]
      BY <2>1 DEF TypeOK
    <2> QED
      BY <2>1, <2>2 DEF UndoInv
  <1>9. ASSUME NEW d \in Change, NEW h \in File,
               \/ RestoreReload(d, h) \/ RestoreReloadFails(d, h)
        PROVE  UndoInv'
    <2>1. /\ toReload' = [toReload EXCEPT ![d] = @ \ {h}] /\ toWrite[d] = {}
          /\ UNCHANGED <<toWrite, verdict>>
      BY <1>9 DEF RestoreReload, RestoreReloadFails, ReloadTurn
    <2>2. /\ toReload'[d] \subseteq toReload[d]
          /\ \A c \in Change : c # d => toReload'[c] = toReload[c]
      BY <2>1 DEF TypeOK
    <2> QED
      BY <2>1, <2>2 DEF UndoInv
  <1>10. ASSUME Confirm PROVE UndoInv'
    <2>1. /\ rbPending \in Change /\ verdict[rbPending] = "trial"
          /\ UNCHANGED <<toWrite, toReload>>
      BY <1>10 DEF Confirm, TypeOK, TrialInv
    <2>2. \A c \in Change : c # rbPending => verdict'[c] = verdict[c]
      BY <1>10 DEF Confirm, TypeOK
    <2> QED
      BY <2>1, <2>2 DEF UndoInv
  <1>11. ASSUME NEW r \in BOOLEAN, Restart(r) PROVE UndoInv'
    BY <1>11 DEF Restart, UndoInv
  <1> QED
    BY <1>1, <1>2, <1>3, <1>4, <1>5, <1>6, <1>7, <1>8, <1>9, <1>10, <1>11
       DEF Next, Handler, HandlerFails, Restore, RestoreFails

(* A service that does not run its file is reloaded by somebody yet.       *)
LEMMA LoadedInvInit == Init => LoadedInv
  BY DEF Init, LoadedInv, Loaded

(* To go one step ahead is to leave the tail.                              *)
LEMMA AheadOne ==
  ASSUME NEW T, NEW s \in Seq(T), s # <<>>
  PROVE  SubSeq(s, 1 + 1, Len(s)) = Tail(s)
  <1> DEFINE r == SubSeq(s, 1 + 1, Len(s))
  <1>1. Dropped(Tail(s), s, 1) /\ Len(s) \in Nat /\ Len(s) >= 1
    BY TailDrops
  <1>2. Dropped(r, s, IF 1 <= Len(s) THEN 1 ELSE Len(s))
    BY AheadDrops
  <1>3. Dropped(r, s, 1)
    BY <1>1, <1>2
  <1>4. \A i \in 2..Len(s) : s[i] \in T
    OBVIOUS
  <1>5. r \in Seq(T) /\ Tail(s) \in Seq(T)
    BY <1>4, SubSeqProperties, HeadTailProperties
  <1> HIDE DEF r
  <1>6. Len(r) = Len(Tail(s)) /\ \A i \in 1..Len(r) : r[i] = Tail(s)[i]
    BY <1>1, <1>3 DEF Dropped
  <1>7. r = Tail(s)
    BY <1>5, <1>6, SeqEqual
  <1> QED
    BY <1>7 DEF r

(* A handler that takes a step other than the reload of f.                 *)
LEMMA DoneOwes ==
  ASSUME TypeOK, NEW d \in Change, NEW op, NEW h \in File, Doing(d, op, h), Done(d),
         NEW f \in File, op # "reload" \/ h # f, NEW c \in Change, Owes(todo[c], f)
  PROVE  Owes(todo'[c], f)
  <1>1. CASE c = d
    <2>1. /\ todo[d] \in Seq(Op \X File) /\ todo[d] # <<>>
          /\ Head(todo[d]) # <<"reload", f>> /\ todo'[d] = Tail(todo[d])
      <3>1. todo \in [Change -> Seq(Op \X File)]
        BY DEF TypeOK
      <3>2. todo[d] # <<>> /\ Head(todo[d]) = <<op, h>>
        BY DEF Doing, Active
      <3>3. todo' = [todo EXCEPT ![d] = Tail(@)]
        BY DEF Done
      <3> QED
        BY <3>1, <3>2, <3>3
    <2> QED
      BY <1>1, <2>1, OwesTail
  <1>2. CASE c # d
    BY <1>2 DEF TypeOK, Done
  <1> QED
    BY <1>1, <1>2

(* A commit takes no reload away that was owed before it.                  *)
LEMMA CommitOwes ==
  ASSUME TypeOK, RestInv, NEW d \in Change, NEW h \in File, Commit(d, h),
         NEW f \in File
  PROVE  /\ Owes(todo'[d], h)
         /\ Owes(todo[d], f) => Owes(todo'[d], f)
  <1> DEFINE s == todo[d]
  <1>1. /\ Doing(d, "commit", h) /\ s \in Seq(Op \X File) /\ s # <<>>
        /\ Head(s) = <<"commit", h>> /\ todo'[d] = AfterCommit(d, h)
    BY DEF Commit, Doing, Active, TypeOK
  <1>2. CASE kind[d] = "wan2" /\ h = "network" /\ Holds(file[h], "wan2")
    <2>1. /\ Len(s) = 6
          /\ s[1] = Net("commit") /\ s[2] = Fw("backup") /\ s[3] = Fw("commit")
          /\ s[4] = Fw("reload") /\ s[5] = Net("reload") /\ s[6] = Net("schedule")
      BY <1>1, <1>2, WanAddAt
    <2>2. todo'[d] = SubSeq(s, 4 + 1, Len(s))
      BY <1>1, <1>2 DEF AfterCommit, Ahead
    <2> HIDE DEF s
    <2>3. Dropped(todo'[d], s, 4)
      <3>1. Dropped(SubSeq(s, 4 + 1, Len(s)), s, IF 4 <= Len(s) THEN 4 ELSE Len(s))
        BY <1>1, AheadDrops
      <3> QED
        BY <2>1, <2>2, <3>1
    <2>4. Len(todo'[d]) = 2 /\ todo'[d][1] = Net("reload")
      BY <2>1, <2>3 DEF Dropped
    <2>5. Owes(todo'[d], "network")
      BY <2>4 DEF Owes, Net
    <2>6. ~Owes(s, "firewall")
      <3> SUFFICES ASSUME NEW j \in 1..6, s[j] = <<"reload", "firewall">>,
                          \A i \in 1..(j - 1) : s[i] # <<"commit", "firewall">>
                   PROVE  FALSE
        BY <2>1 DEF Owes
      <3>1. j = 4
        BY <2>1 DEF Net, Fw
      <3> QED
        BY <2>1, <3>1 DEF Fw
    <2> QED
      BY <1>2, <2>5, <2>6 DEF File, s
  <1>3. CASE ~(kind[d] = "wan2" /\ h = "network" /\ Holds(file[h], "wan2"))
    <2>1. todo'[d] = SubSeq(s, 1 + 1, Len(s))
      BY <1>1, <1>3 DEF AfterCommit, Ahead
    <2>2. todo'[d] = Tail(s)
      BY <1>1, <2>1, AheadOne
    <2>3. Owes(Tail(s), h)
      BY <1>1, OwesCommitted
    <2>4. Owes(s, f) => Owes(Tail(s), f)
      BY <1>1, OwesTail
    <2> QED
      BY <2>2, <2>3, <2>4
  <1> QED
    BY <1>2, <1>3

(* Nor does a commit that finds nothing to do.                             *)
LEMMA SkipOwes ==
  ASSUME TypeOK, RestInv, NEW d \in Change, NEW h \in File, NothingToCommit(d, h),
         NEW f \in File, Owes(todo[d], f)
  PROVE  Owes(todo'[d], f)
  <1> DEFINE s == todo[d]
  <1>1. /\ Doing(d, "commit", h) /\ s \in Seq(Op \X File) /\ s # <<>>
        /\ Head(s) = <<"commit", h>> /\ todo'[d] = AfterSkip(d) /\ Skips(d, h)
    BY DEF NothingToCommit, Doing, Active, TypeOK
  <1>2. CASE kind[d] = "wan2"
    <2>1. h = "firewall"
      BY <1>1, <1>2 DEF Skips
    <2>2. /\ Len(s) = 4
          /\ s[1] = Fw("commit") /\ s[2] = Fw("reload") /\ s[3] = Net("reload")
          /\ s[4] = Net("schedule")
      BY <1>1, <1>2, <2>1, WanAddAt
    <2>3. todo'[d] = SubSeq(s, 2 + 1, Len(s))
      BY <1>1, <1>2 DEF AfterSkip, Ahead
    <2> HIDE DEF s
    <2>4. Dropped(todo'[d], s, 2)
      <3>1. Dropped(SubSeq(s, 2 + 1, Len(s)), s, IF 2 <= Len(s) THEN 2 ELSE Len(s))
        BY <1>1, AheadDrops
      <3> QED
        BY <2>2, <2>3, <3>1
    <2>5. Len(todo'[d]) = 2 /\ todo'[d][1] = Net("reload")
      BY <2>2, <2>4 DEF Dropped
    <2>6. Owes(todo'[d], "network")
      BY <2>5 DEF Owes, Net
    <2>7. ~Owes(s, "firewall")
      <3> SUFFICES ASSUME NEW j \in 1..4, s[j] = <<"reload", "firewall">>,
                          \A i \in 1..(j - 1) : s[i] # <<"commit", "firewall">>
                   PROVE  FALSE
        BY <2>2 DEF Owes
      <3>1. j = 2
        BY <2>2 DEF Net, Fw
      <3> QED
        BY <2>2, <3>1 DEF Fw
    <2> QED
      BY <2>6, <2>7 DEF File, s
  <1>3. CASE kind[d] = "wanDelete"
    <2>1. todo'[d] = SubSeq(s, 1 + 1, Len(s))
      BY <1>1, <1>3 DEF AfterSkip, Ahead
    <2>2. todo'[d] = Tail(s)
      BY <1>1, <2>1, AheadOne
    <2> QED
      BY <1>1, <2>2, OwesTail
  <1>4. CASE kind[d] = "aclOff"
    <2>1. /\ h = "firewall" /\ Len(s) = 3
          /\ s[1] = Fw("commit") /\ s[2] = Fw("reload") /\ s[3] = Fw("settings")
      BY <1>1, <1>4, AclOffAt
    <2> HIDE DEF s
    <2>2. PICK j \in 1..3 : /\ s[j] = <<"reload", f>>
                            /\ \A i \in 1..(j - 1) : s[i] # <<"commit", f>>
      BY <2>1 DEF Owes, s
    <2>3. j = 2 /\ f = "firewall"
      BY <2>1, <2>2 DEF Fw
    <2> QED
      BY <2>1, <2>2, <2>3 DEF Fw
  <1> QED
    BY <1>1, <1>2, <1>3, <1>4 DEF Skips

(* Every step keeps LoadedInv, action by action.                           *)
LEMMA LoadedInvStep ==
  ASSUME TypeOK, TrialInv, RestInv, UndoInv, LoadedInv, [Next]_vars
  PROVE  LoadedInv'
  <1> USE DEF config, backups, handlers, trials, rollback
  <1> SUFFICES ASSUME broken' = {}, NEW f \in File PROVE Loaded(f)'
    BY DEF LoadedInv
  <1>0. ASSUME broken = {}, UNCHANGED toReload,
               \/ running'[f] = file'[f]
               \/ running'[f] = running[f] /\ file'[f] = file[f],
               \A c \in Change : Owes(todo[c], f) => Owes(todo'[c], f)
        PROVE  Loaded(f)'
    BY <1>0 DEF LoadedInv, Loaded
  <1>1. ASSUME NEW d \in Change, NEW k \in Offered[d], Begin(d, k)
        PROVE  Loaded(f)'
    <2>1. UNCHANGED <<broken, toReload, running, file>> /\ kind[d] = "none"
          /\ todo' = [todo EXCEPT ![d] = Script[k]]
      BY <1>1 DEF Begin
    <2>2. todo[d] = <<>>
      BY <2>1 DEF RestInv
    <2>3. ~Owes(todo[d], f)
      BY <2>2 DEF Owes
    <2>4. \A c \in Change : c # d => todo'[c] = todo[c]
      BY <2>1 DEF TypeOK
    <2> QED
      BY <1>0, <2>1, <2>3, <2>4
  <1>2. ASSUME NEW d \in Change, NEW h \in File, Backup(d, h)
        PROVE  Loaded(f)'
    <2>1. UNCHANGED <<broken, toReload, running, file>>
          /\ Doing(d, "backup", h) /\ Done(d)
      BY <1>2 DEF Backup
    <2>2. \A c \in Change : Owes(todo[c], f) => Owes(todo'[c], f)
      BY <2>1, DoneOwes
    <2> QED
      BY <1>0, <2>1, <2>2
  <1>3. ASSUME NEW d \in Change, NEW h \in File, SaveSettings(d, h)
        PROVE  Loaded(f)'
    <2>1. UNCHANGED <<broken, toReload, running, file>>
          /\ Doing(d, "settings", h) /\ Done(d)
      BY <1>3 DEF SaveSettings
    <2>2. \A c \in Change : Owes(todo[c], f) => Owes(todo'[c], f)
      BY <2>1, DoneOwes
    <2> QED
      BY <1>0, <2>1, <2>2
  <1>4. ASSUME NEW d \in Change, NEW h \in File, ScheduleRollback(d, h)
        PROVE  Loaded(f)'
    <2>1. UNCHANGED <<broken, toReload, running, file>>
          /\ Doing(d, "schedule", h) /\ Done(d)
      BY <1>4 DEF ScheduleRollback
    <2>2. \A c \in Change : Owes(todo[c], f) => Owes(todo'[c], f)
      BY <2>1, DoneOwes
    <2> QED
      BY <1>0, <2>1, <2>2
  <1>5. ASSUME NEW d \in Change, NEW h \in File, Reload(d, h)
        PROVE  Loaded(f)'
    <2>1. UNCHANGED <<broken, toReload, file>>
          /\ Doing(d, "reload", h) /\ Done(d)
          /\ running' = [running EXCEPT ![h] = file[h]]
      BY <1>5 DEF Reload
    <2>2. CASE f = h
      <3>1. running'[f] = file'[f]
        BY <2>1, <2>2 DEF TypeOK
      <3> QED
        BY <3>1 DEF Loaded
    <2>3. CASE f # h
      <3>1. \A c \in Change : Owes(todo[c], f) => Owes(todo'[c], f)
        BY <2>1, <2>3, DoneOwes
      <3>2. running'[f] = running[f]
        BY <2>1, <2>3 DEF TypeOK
      <3> QED
        BY <1>0, <2>1, <3>1, <3>2
    <2> QED
      BY <2>2, <2>3
  <1>6. ASSUME NEW d \in Change, NEW h \in File, Commit(d, h)
        PROVE  Loaded(f)'
    <2>1. /\ UNCHANGED <<broken, toReload, running>>
          /\ \A g \in File : g # h => file'[g] = file[g]
          /\ \A c \in Change : c # d => todo'[c] = todo[c]
      BY <1>6 DEF Commit, TypeOK
    <2>2. Owes(todo'[d], h) /\ (Owes(todo[d], f) => Owes(todo'[d], f))
      BY <1>6, CommitOwes
    <2>3. CASE f = h
      BY <2>2, <2>3 DEF Loaded
    <2>4. CASE f # h
      BY <1>0, <2>1, <2>2, <2>4
    <2> QED
      BY <2>3, <2>4
  <1>7. ASSUME NEW d \in Change, NEW h \in File, NothingToCommit(d, h)
        PROVE  Loaded(f)'
    <2>1. /\ UNCHANGED <<broken, toReload, running, file>>
          /\ \A c \in Change : c # d => todo'[c] = todo[c]
      BY <1>7 DEF NothingToCommit, TypeOK
    <2>2. Owes(todo[d], f) => Owes(todo'[d], f)
      BY <1>7, SkipOwes
    <2> QED
      BY <1>0, <2>1, <2>2
  <1>8. ASSUME NEW d \in Change, NEW h \in File,
               BackupFails(d, h) \/ RestoreFileFails(d, h) \/ RestoreReloadFails(d, h)
        PROVE  FALSE
    BY <1>8 DEF BackupFails, RestoreFileFails, RestoreReloadFails, Abort
  <1>9. ASSUME NEW d \in Change, NEW h \in File, NEW w \in BOOLEAN,
               CommitFails(d, h, w) \/ ReloadFails(d, h, w)
        PROVE  FALSE
    BY <1>9 DEF CommitFails, ReloadFails, Abort
  <1>10. ASSUME NEW d \in Change, Expire(d) PROVE Loaded(f)'
    BY <1>0, <1>10 DEF Expire
  <1>11. ASSUME NEW d \in Change, ExecuteRollback(d) PROVE Loaded(f)'
    <2>1. UNCHANGED <<broken, running, file, todo>>
      BY <1>11 DEF ExecuteRollback
    <2>2. CASE rbPending # d
      BY <1>0, <1>11, <2>1, <2>2 DEF ExecuteRollback
    <2>3. CASE rbPending = d
      <3>1. verdict[d] = "trial"
        BY <2>3 DEF TrialInv
      <3>2. toReload[d] = {}
        BY <3>1 DEF UndoInv
      <3>3. \A c \in Change : toReload[c] \subseteq toReload'[c]
        BY <1>11, <2>3, <3>2 DEF ExecuteRollback, TypeOK
      <3> QED
        BY <2>1, <3>3 DEF LoadedInv, Loaded
    <2> QED
      BY <2>2, <2>3
  <1>12. ASSUME NEW d \in Change, NEW h \in File, RestoreFile(d, h)
         PROVE  Loaded(f)'
    <2>1. /\ UNCHANGED <<broken, running, todo, toReload>>
          /\ \A g \in File : g # h => file'[g] = file[g]
          /\ h \in toReload[d]
      BY <1>12 DEF RestoreFile, TypeOK, UndoInv
    <2>2. CASE f = h
      BY <2>1, <2>2 DEF Loaded
    <2>3. CASE f # h
      BY <1>0, <2>1, <2>3
    <2> QED
      BY <2>2, <2>3
  <1>13. ASSUME NEW d \in Change, NEW h \in File, RestoreReload(d, h)
         PROVE  Loaded(f)'
    <2>1. /\ UNCHANGED <<broken, file, todo>>
          /\ running' = [running EXCEPT ![h] = file[h]]
          /\ toReload' = [toReload EXCEPT ![d] = @ \ {h}]
      BY <1>13 DEF RestoreReload
    <2>2. CASE f = h
      <3>1. running'[f] = file'[f]
        BY <2>1, <2>2 DEF TypeOK
      <3> QED
        BY <3>1 DEF Loaded
    <2>3. CASE f # h
      <3>1. running'[f] = running[f] /\ \A c \in Change : f \in toReload[c] => f \in toReload'[c]
        BY <2>1, <2>3 DEF TypeOK
      <3> QED
        BY <2>1, <3>1 DEF LoadedInv, Loaded
    <2> QED
      BY <2>2, <2>3
  <1>14. CASE Confirm \/ Tick \/ UNCHANGED vars
    <2>1. UNCHANGED <<broken, running, file, todo, toReload>>
      BY <1>14 DEF Confirm, Tick, vars
    <2> QED
      BY <1>0, <2>1
  <1>15. ASSUME NEW r \in BOOLEAN, Restart(r) PROVE Loaded(f)'
    <2>1. /\ broken = {} /\ Interrupted = {}
          /\ running' \in {file, running} /\ file' = file
      BY <1>15 DEF Restart
    <2>2. \A c \in Change : todo[c] = <<>> /\ toReload[c] = {}
      BY <2>1 DEF Interrupted, Active
    <2>3. \A c \in Change : ~Owes(todo[c], f)
      BY <2>2 DEF Owes
    <2>4. running[f] = file[f]
      BY <2>1, <2>2, <2>3 DEF LoadedInv, Loaded
    <2> QED
      BY <2>1, <2>4 DEF Loaded
  <1> QED
    BY <1>1, <1>2, <1>3, <1>4, <1>5, <1>6, <1>7, <1>8, <1>9, <1>10, <1>11,
       <1>12, <1>13, <1>14, <1>15
       DEF Next, Handler, HandlerFails, Restore, RestoreFails

(* When handlers and rollbacks have finished and none was cut short, the   *)
(* services run what the files say, whatever order they went in: a handler *)
(* reloads what it commits, also the one that skips what others did, and a *)
(* rollback reloads what it writes back (saferollback.go, wan.go).         *)
THEOREM AlwaysConverges == Spec => []Converges
  <1> DEFINE Inv == TypeOK /\ TrialInv /\ RestInv /\ UndoInv /\ LoadedInv
  <1>1. Init => Inv
    BY TypeInit, TrialInvInit, RestInit, UndoInvInit, LoadedInvInit
  <1>2. Inv /\ [Next]_vars => Inv'
    BY TypeStep, TrialInvStep, RestStep, UndoInvStep, LoadedInvStep
  <1>3. Inv => Converges
    <2> SUFFICES ASSUME TypeOK, LoadedInv, Idle, broken = {} PROVE running = file
      BY DEF Converges
    <2>1. \A c \in Change : todo[c] = <<>> /\ toReload[c] = {}
      BY DEF Idle, Active, Restoring
    <2>2. \A c \in Change, f \in File : ~Owes(todo[c], f)
      BY <2>1 DEF Owes
    <2>3. \A f \in File : running[f] = file[f]
      BY <2>1, <2>2 DEF LoadedInv, Loaded
    <2>4. file \in [File -> SUBSET Change] /\ running \in [File -> SUBSET Change]
      BY DEF TypeOK
    <2> QED
      BY <2>3, <2>4
  <1> HIDE DEF Inv
  <1> QED
    BY <1>1, <1>2, <1>3, PTL DEF Spec

----------------------------------------------------------------------------
(* A change is copied before it is committed, and put on trial after that. *)
WillCopy(s, f) ==
  \A j \in 1..Len(s) : s[j] = <<"commit", f>> =>
    \E i \in 1..(j - 1) : s[i] = <<"backup", f>>

CopiedInv ==
  \A c \in Change, f \in File :
    /\ name[c][f] # 0 \/ WillCopy(todo[c], f)
    /\ c \in file[f] => name[c][f] # 0
    /\ \A t \in Second : c \in copy[f][t] => name[c][f] # 0 /\ name[c][f] <= t

(* What may keep an undone change in a file, or bring it back.             *)
Excused(c, f) ==
  RotatedOut(c, f) \/ Shares(c, f) \/ BroughtBack(c, f) \/ c \in broken

(* A trial, its verdict and what becomes of the edits.                     *)
OnTrial(c) ==
  /\ verdict[c] # "none" =>
       kind[c] \in Risky /\ \A f \in File : <<"commit", f>> \notin Steps(todo[c])
  /\ kind[c] \in Risky /\ verdict[c] = "none" =>
       c \in broken \/ \E f \in File : <<"schedule", f>> \in Steps(todo[c])
  /\ verdict[c] = "undone" =>
       \A f \in File : c \in file[f] => f \in toWrite[c] \/ Excused(c, f)

OnTrialInv == \A c \in Change : OnTrial(c)

(* The steps that are left come from the script.                           *)
LEMMA StepsOfScript ==
  ASSUME TypeOK, RestInv, NEW c \in Change, NEW x \in Steps(todo[c])
  PROVE  \E i \in 1..Len(Script[kind[c]]) : Script[kind[c]][i] = x
  <1> DEFINE s == todo[c]
             t == Script[kind[c]]
  <1>1. kind[c] # "none"
    <2>1. kind[c] = "none" => todo[c] = <<>>
      BY DEF RestInv
    <2> QED
      BY <2>1 DEF Steps
  <1>2. kind[c] \in Kind
    BY <1>1 DEF TypeOK
  <1>3. s \in Seq(Op \X File) /\ t \in Seq(Op \X File)
    BY <1>2, ScriptType DEF TypeOK
  <1>4. Rest(s, t)
    BY <1>1 DEF RestInv
  <1> HIDE DEF t
  <1>5. PICK i \in 1..Len(s) : x = s[i]
    BY DEF Steps
  <1> HIDE DEF s
  <1>6. Len(s) \in Nat /\ Len(t) \in Nat /\ Len(s) <= Len(t)
        /\ s[i] = t[(Len(t) - Len(s)) + i]
    BY <1>3, <1>4 DEF Rest
  <1>7. (Len(t) - Len(s)) + i \in 1..Len(t)
    BY <1>5, <1>6
  <1>8. \E j \in 1..Len(t) : t[j] = x
    BY <1>5, <1>6, <1>7
  <1> QED
    BY <1>8 DEF t

(* Only a risky change is put on trial.                                    *)
LEMMA TrialIsRisky ==
  ASSUME TypeOK, RestInv, NEW c \in Change, NEW f \in File, Doing(c, "schedule", f)
  PROVE  kind[c] \in Risky
  <1> DEFINE k == kind[c]
             t == Script[k]
  <1>1. todo[c] # <<>> /\ todo[c] \in Seq(Op \X File)
        /\ Head(todo[c]) = <<"schedule", f>>
    BY DEF Doing, Active, TypeOK
  <1>2. Len(todo[c]) >= 1 /\ Len(todo[c]) \in Nat /\ Head(todo[c]) = todo[c][1]
    BY <1>1, TailDrops
  <1>3. <<"schedule", f>> \in Steps(todo[c])
    <2>1. 1 \in 1..Len(todo[c])
      BY <1>2
    <2> QED
      BY <1>1, <1>2, <2>1 DEF Steps
  <1>4. PICK i \in 1..Len(t) : t[i] = <<"schedule", f>>
    BY <1>3, StepsOfScript
  <1>5. k \in Kind
    BY <1>1 DEF RestInv, TypeOK
  <1>6. Orderly(k)
    BY <1>5, ScriptOrderly
  <1> HIDE DEF k
  <1>7. (\E j \in 1..Len(t) : t[j][1] = "schedule") <=> k \in Risky
    BY <1>6 DEF Orderly
  <1>8. t[i][1] = "schedule"
    BY <1>4
  <1> QED
    BY <1>7, <1>8 DEF k

(* What a commit leaves, done or not needed.                               *)
LEMMA CommitLeaves ==
  ASSUME TypeOK, RestInv, NEW d \in Change, NEW h \in File,
         Commit(d, h) \/ NothingToCommit(d, h)
  PROVE  \/ todo'[d] = Tail(todo[d])
         \/ kind[d] = "wan2" /\ Steps(todo'[d]) = {Net("reload"), Net("schedule")}
         \/ kind[d] = "aclOff" /\ Steps(todo'[d]) = {}
  <1> DEFINE s == todo[d]
  <1>1. /\ Doing(d, "commit", h) /\ s \in Seq(Op \X File) /\ s # <<>>
        /\ Commit(d, h) => todo'[d] = AfterCommit(d, h)
        /\ NothingToCommit(d, h) => todo'[d] = AfterSkip(d) /\ Skips(d, h)
    BY DEF Commit, NothingToCommit, Doing, Active, TypeOK
  <1>2. ASSUME todo'[d] = Ahead(d, 1)
        PROVE  todo'[d] = Tail(s)
    <2>1. todo'[d] = SubSeq(s, 1 + 1, Len(s))
      BY <1>2 DEF Ahead
    <2> QED
      BY <1>1, <2>1, AheadOne
  <1>3. CASE Commit(d, h) /\ kind[d] = "wan2" /\ h = "network" /\ Holds(file[h], "wan2")
    <2>1. /\ Len(s) = 6 /\ s[5] = Net("reload") /\ s[6] = Net("schedule")
      BY <1>1, <1>3, WanAddAt
    <2>2. todo'[d] = SubSeq(s, 4 + 1, Len(s))
      BY <1>1, <1>3 DEF AfterCommit, Ahead
    <2> HIDE DEF s
    <2>3. Dropped(SubSeq(s, 4 + 1, Len(s)), s, IF 4 <= Len(s) THEN 4 ELSE Len(s))
      BY <1>1, AheadDrops
    <2>4. /\ Len(todo'[d]) = 2
          /\ todo'[d][1] = Net("reload") /\ todo'[d][2] = Net("schedule")
      BY <2>1, <2>2, <2>3 DEF Dropped
    <2>5. Steps(todo'[d]) = {Net("reload"), Net("schedule")}
      BY <2>4 DEF Steps
    <2> QED
      BY <1>3, <2>5
  <1>4. CASE Commit(d, h)
             /\ ~(kind[d] = "wan2" /\ h = "network" /\ Holds(file[h], "wan2"))
    BY <1>1, <1>2, <1>4 DEF AfterCommit
  <1>5. CASE NothingToCommit(d, h) /\ kind[d] = "wan2"
    <2>1. h = "firewall"
      BY <1>1, <1>5 DEF Skips
    <2>2. /\ Len(s) = 4 /\ s[3] = Net("reload") /\ s[4] = Net("schedule")
      BY <1>1, <1>5, <2>1, WanAddAt
    <2>3. todo'[d] = SubSeq(s, 2 + 1, Len(s))
      BY <1>1, <1>5 DEF AfterSkip, Ahead
    <2> HIDE DEF s
    <2>4. Dropped(SubSeq(s, 2 + 1, Len(s)), s, IF 2 <= Len(s) THEN 2 ELSE Len(s))
      BY <1>1, AheadDrops
    <2>5. /\ Len(todo'[d]) = 2
          /\ todo'[d][1] = Net("reload") /\ todo'[d][2] = Net("schedule")
      BY <2>2, <2>3, <2>4 DEF Dropped
    <2>6. Steps(todo'[d]) = {Net("reload"), Net("schedule")}
      BY <2>5 DEF Steps
    <2> QED
      BY <1>5, <2>6
  <1>6. CASE NothingToCommit(d, h) /\ kind[d] = "wanDelete"
    BY <1>1, <1>2, <1>6 DEF AfterSkip
  <1>7. CASE NothingToCommit(d, h) /\ kind[d] = "aclOff"
    BY <1>1, <1>7 DEF AfterSkip, Steps
  <1> QED
    BY <1>1, <1>3, <1>4, <1>5, <1>6, <1>7 DEF Skips

(* What a handler has to do besides its first step stays to be done.       *)
LEMMA StepsTail ==
  ASSUME NEW T, NEW s \in Seq(T), s # <<>>, NEW x \in Steps(s), x # Head(s)
  PROVE  x \in Steps(Tail(s))
  <1>1. Dropped(Tail(s), s, 1) /\ Head(s) = s[1] /\ Len(s) \in Nat
    BY TailDrops
  <1>2. PICK i \in 1..Len(s) : x = s[i]
    BY DEF Steps
  <1>3. i - 1 \in 1..Len(Tail(s)) /\ 1 + (i - 1) = i
    BY <1>1, <1>2 DEF Dropped
  <1>4. Tail(s)[i - 1] = x
    BY <1>1, <1>2, <1>3 DEF Dropped
  <1> QED
    BY <1>3, <1>4 DEF Steps

(* A commit is never the first step when its copy is still to be made.     *)
LEMMA WillCopyTail ==
  ASSUME NEW T, NEW s \in Seq(T), s # <<>>, NEW f, WillCopy(s, f)
  PROVE  /\ Head(s) # <<"commit", f>>
         /\ Head(s) # <<"backup", f>> => WillCopy(Tail(s), f)
  <1>1. Dropped(Tail(s), s, 1) /\ Head(s) = s[1] /\ Len(s) \in Nat /\ Len(s) >= 1
    BY TailDrops
  <1>2. Head(s) # <<"commit", f>>
    BY <1>1 DEF WillCopy
  <1>3. ASSUME Head(s) # <<"backup", f>>, NEW j \in 1..Len(Tail(s)),
               Tail(s)[j] = <<"commit", f>>
        PROVE  \E i \in 1..(j - 1) : Tail(s)[i] = <<"backup", f>>
    <2>1. 1 + j \in 1..Len(s) /\ s[1 + j] = <<"commit", f>>
      BY <1>1, <1>3 DEF Dropped
    <2>2. PICK i \in 1..((1 + j) - 1) : s[i] = <<"backup", f>>
      BY <2>1 DEF WillCopy
    <2>3. i # 1
      BY <1>1, <1>3, <2>2
    <2>4. i - 1 \in 1..(j - 1) /\ i - 1 \in 1..Len(Tail(s)) /\ 1 + (i - 1) = i
      BY <1>1, <2>1, <2>2, <2>3 DEF Dropped
    <2>5. Tail(s)[i - 1] = <<"backup", f>>
      BY <1>1, <2>2, <2>4 DEF Dropped
    <2> QED
      BY <2>4, <2>5
  <1> QED
    BY <1>2, <1>3 DEF WillCopy

(* Who has nothing to commit needs no copy.                                *)
LEMMA NoCommitLeft ==
  ASSUME NEW s, NEW f, <<"commit", f>> \notin Steps(s)
  PROVE  WillCopy(s, f)
  BY DEF WillCopy, Steps

(* The invariant of copies before commits holds at first ...               *)
LEMMA CopiedInvInit == Init => CopiedInv
  <1> SUFFICES ASSUME Init PROVE CopiedInv
    OBVIOUS
  <1>1. /\ \A c \in Change : todo[c] = <<>>
        /\ \A f \in File : file[f] = {} /\ \A t \in Second : copy[f][t] = {}
    BY DEF Init
  <1> QED
    BY <1>1 DEF CopiedInv, WillCopy

(* A step that makes no copy.                                              *)
LEMMA SameCopied ==
  ASSUME CopiedInv, UNCHANGED <<copy, name>>,
         \A c \in Change, f \in File :
           /\ WillCopy(todo[c], f) => WillCopy(todo'[c], f)
           /\ c \in file'[f] =>
                c \in file[f] \/ name[c][f] # 0 \/ \E t \in Second : c \in copy[f][t]
  PROVE  CopiedInv'
  <1>1. ASSUME NEW c \in Change, NEW f \in File
        PROVE  /\ name[c][f] # 0 \/ WillCopy(todo[c], f)
               /\ c \in file[f] => name[c][f] # 0
               /\ \A t \in Second : c \in copy[f][t] => name[c][f] # 0 /\ name[c][f] <= t
    BY DEF CopiedInv
  <1> QED
    BY <1>1 DEF CopiedInv

(* A handler that takes a step which copies nothing, or quits.             *)
LEMMA DoneWillCopy ==
  ASSUME TypeOK, NEW d \in Change, NEW op, NEW h \in File, Doing(d, op, h),
         op # "backup", Done(d) \/ Quit(d),
         NEW c \in Change, NEW f \in File, WillCopy(todo[c], f)
  PROVE  WillCopy(todo'[c], f)
  <1>1. CASE c # d
    BY <1>1 DEF Done, Quit, TypeOK
  <1>2. CASE c = d /\ Done(d)
    <2>1. todo[d] \in Seq(Op \X File)
      BY DEF TypeOK
    <2>2. todo[d] # <<>> /\ Head(todo[d]) = <<op, h>>
      BY DEF Doing, Active
    <2>3. todo'[d] = Tail(todo[d])
      BY <1>2 DEF Done, TypeOK
    <2>4. Head(todo[d]) # <<"backup", f>>
      BY <2>2
    <2> QED
      BY <1>2, <2>1, <2>2, <2>3, <2>4, WillCopyTail
  <1>3. CASE c = d /\ Quit(d)
    <2>1. todo'[c] = <<>>
      BY <1>3 DEF Quit, TypeOK
    <2> QED
      BY <2>1 DEF WillCopy
  <1> QED
    BY <1>1, <1>2, <1>3

(* The one who commits has made his copy.                                  *)
LEMMA CommitCopied ==
  ASSUME TypeOK, CopiedInv, NEW d \in Change, NEW h \in File, Doing(d, "commit", h)
  PROVE  name[d][h] # 0
  <1>1. todo[d] \in Seq(Op \X File) /\ todo[d] # <<>>
        /\ Head(todo[d]) = <<"commit", h>>
    BY DEF TypeOK, Doing, Active
  <1>2. ~WillCopy(todo[d], h)
    BY <1>1, WillCopyTail
  <1> QED
    BY <1>2 DEF CopiedInv

(* A handler copies a file once.                                           *)
LEMMA FirstCopy ==
  ASSUME TypeOK, BackupInv, NEW d \in Change, NEW h \in File, Backup(d, h)
  PROVE  name[d][h] = 0
  <1>1. todo[d] # <<>> /\ Head(todo[d]) = <<"backup", h>> /\ todo[d] \in Seq(Op \X File)
    BY DEF Backup, Doing, Active, TypeOK
  <1>2. Len(todo[d]) \in Nat /\ Len(todo[d]) >= 1 /\ Head(todo[d]) = todo[d][1]
    BY <1>1, TailDrops
  <1>3. 1 \in 1..Len(todo[d])
    BY <1>2
  <1>4. <<"backup", h>> \in Steps(todo[d])
    BY <1>1, <1>2, <1>3 DEF Steps
  <1> QED
    BY <1>4 DEF BackupInv, NotYet, ToBackup

(* ... and after every step.                                               *)
LEMMA CopiedInvStep ==
  ASSUME TypeOK, BackupInv, RestInv, CopiedInv, [Next]_vars PROVE CopiedInv'
  <1> USE DEF config, backups, handlers, trials, rollback
  <1>1. ASSUME NEW d \in Change, NEW k \in Offered[d], Begin(d, k)
        PROVE  CopiedInv'
    <2>1. UNCHANGED <<copy, name, file>> /\ todo' = [todo EXCEPT ![d] = Script[k]]
      BY <1>1 DEF Begin
    <2>2. k \in Kind
      BY SafeModeAssumption
    <2>3. Orderly(k)
      BY <2>2, ScriptOrderly
    <2>4. ASSUME NEW f \in File PROVE WillCopy(Script[k], f)
      <3> DEFINE t == Script[k]
      <3>1. t \in Seq(Op \X File)
        BY <2>2, ScriptType
      <3>2. \A i \in 1..Len(t) : t[i][1] = "commit" =>
              \E j \in 1..Len(t) : j < i /\ t[j] = <<"backup", t[i][2]>>
        BY <2>3 DEF Orderly
      <3> HIDE DEF t
      <3>3. ASSUME NEW i \in 1..Len(t), t[i] = <<"commit", f>>
            PROVE  \E j \in 1..(i - 1) : t[j] = <<"backup", f>>
        <4>1. t[i][1] = "commit" /\ t[i][2] = f
          BY <3>3
        <4>2. PICK j \in 1..Len(t) : j < i /\ t[j] = <<"backup", f>>
          BY <3>2, <4>1
        <4>3. j \in 1..(i - 1)
          BY <3>1, <4>2
        <4> QED
          BY <4>2, <4>3
      <3> QED
        BY <3>3 DEF WillCopy, t
    <2>5. /\ todo'[d] = Script[k]
          /\ \A c \in Change : c # d => todo'[c] = todo[c]
      BY <2>1 DEF TypeOK
    <2>6. \A c \in Change, f \in File : WillCopy(todo[c], f) => WillCopy(todo'[c], f)
      BY <2>4, <2>5
    <2> QED
      BY <2>1, <2>6, SameCopied
  <1>2. ASSUME NEW d \in Change, NEW h \in File, Backup(d, h)
        PROVE  CopiedInv'
    <2>1. /\ todo[d] # <<>> /\ Head(todo[d]) = <<"backup", h>>
          /\ copy' = [copy EXCEPT ![h][now] = file[h]]
          /\ name' = [name EXCEPT ![d][h] = now]
          /\ todo' = [todo EXCEPT ![d] = Tail(@)]
          /\ UNCHANGED <<now, file, kind>>
      BY <1>2 DEF Backup, Doing, Active, Done
    <2>2. now \in Second /\ now # 0
      <3>1. now \in 1..LastSecond
        BY DEF TypeOK, Second
      <3> QED
        BY <3>1, SafeModeAssumption DEF Second
    <2>3. /\ name'[d][h] = now
          /\ \A c \in Change, f \in File : c # d \/ f # h => name'[c][f] = name[c][f]
      BY <2>1 DEF TypeOK
    <2>5. /\ todo'[d] = Tail(todo[d]) /\ todo[d] \in Seq(Op \X File)
          /\ \A c \in Change : c # d => todo'[c] = todo[c]
      BY <2>1 DEF TypeOK
    <2>6. ASSUME NEW c \in Change, NEW f \in File, WillCopy(todo[c], f)
          PROVE  name'[c][f] # 0 \/ WillCopy(todo'[c], f)
      <3>1. CASE c = d /\ f = h
        BY <2>2, <2>3, <3>1
      <3>2. CASE c = d /\ f # h
        <4>1. Head(todo[d]) # <<"backup", f>>
          BY <2>1, <3>2
        <4> QED
          BY <2>1, <2>5, <2>6, <3>2, <4>1, WillCopyTail
      <3>3. CASE c # d
        BY <2>5, <2>6, <3>3
      <3> QED
        BY <3>1, <3>2, <3>3
    <2>8. name[d][h] = 0
      BY <1>2, FirstCopy
    <2>9. \A c \in Change, f \in File : name[c][f] # 0 => name'[c][f] = name[c][f]
      BY <2>3, <2>8
    <2>10. \A c \in Change, f \in File : name[c][f] <= now
      BY DEF BackupInv, Dated
    <2>11. ASSUME NEW c \in Change, NEW f \in File
           PROVE  /\ name'[c][f] # 0 \/ WillCopy(todo'[c], f)
                  /\ c \in file'[f] => name'[c][f] # 0
                  /\ \A t \in Second : c \in copy'[f][t] =>
                       name'[c][f] # 0 /\ name'[c][f] <= t
      <3>1. /\ name[c][f] # 0 \/ WillCopy(todo[c], f)
            /\ c \in file[f] => name[c][f] # 0
            /\ \A t \in Second : c \in copy[f][t] => name[c][f] # 0 /\ name[c][f] <= t
        BY DEF CopiedInv
      <3>2. ASSUME NEW t \in Second, c \in copy'[f][t]
            PROVE  name'[c][f] # 0 /\ name'[c][f] <= t
        <4>1. CASE f = h /\ t = now
          <5>1. c \in file[f]
            BY <2>1, <2>2, <3>2, <4>1 DEF TypeOK
          <5> QED
            BY <2>9, <2>10, <3>1, <4>1, <5>1
        <4>2. CASE ~(f = h /\ t = now)
          <5>1. c \in copy[f][t]
            BY <2>1, <3>2, <4>2 DEF TypeOK
          <5> QED
            BY <2>9, <3>1, <5>1
        <4> QED
          BY <4>1, <4>2
      <3> QED
        BY <2>1, <2>6, <2>9, <3>1, <3>2
    <2> QED
      BY <2>11 DEF CopiedInv
  <1>3. ASSUME NEW d \in Change, NEW h \in File, Commit(d, h) \/ NothingToCommit(d, h)
        PROVE  CopiedInv'
    <2>1. /\ todo[d] \in Seq(Op \X File) /\ todo[d] # <<>> /\ Doing(d, "commit", h)
          /\ Head(todo[d]) = <<"commit", h>> /\ UNCHANGED <<copy, name>>
          /\ \A c \in Change : c # d => todo'[c] = todo[c]
      BY <1>3 DEF Commit, NothingToCommit, Doing, Active, TypeOK
    <2>2. ASSUME NEW f \in File, WillCopy(todo[d], f)
          PROVE  WillCopy(todo'[d], f)
      <3>1. CASE todo'[d] = Tail(todo[d])
        <4>1. Head(todo[d]) # <<"backup", f>>
          BY <2>1
        <4> QED
          BY <2>1, <2>2, <3>1, <4>1, WillCopyTail
      <3>2. CASE Steps(todo'[d]) \in {{Net("reload"), Net("schedule")}, {}}
        <4>1. <<"commit", f>> \notin Steps(todo'[d])
          BY <3>2 DEF Net
        <4> QED
          BY <4>1, NoCommitLeft
      <3> QED
        BY <1>3, <3>1, <3>2, CommitLeaves
    <2>3. \A c \in Change, f \in File : c \in file'[f] => c \in file[f] \/ name[c][f] # 0
      <3>1. CASE NothingToCommit(d, h)
        BY <3>1 DEF NothingToCommit
      <3>2. CASE Commit(d, h)
        <4>1. \A c \in Change, f \in File :
                c \in file'[f] => c \in file[f] \/ (c = d /\ f = h)
          BY <3>2, CommitDoes
        <4>2. name[d][h] # 0
          BY <2>1, CommitCopied
        <4> QED
          BY <4>1, <4>2
      <3> QED
        BY <1>3, <3>1, <3>2
    <2> QED
      BY <2>1, <2>2, <2>3, SameCopied
  <1>4. ASSUME NEW d \in Change, NEW h \in File, NEW w \in BOOLEAN, CommitFails(d, h, w)
        PROVE  CopiedInv'
    <2>1. Doing(d, "commit", h) /\ Quit(d) /\ UNCHANGED <<copy, name>>
      BY <1>4 DEF CommitFails, Abort
    <2>2. \A c \in Change, f \in File :
            c \in file'[f] => c \in file[f] \/ (c = d /\ f = h)
      BY <1>4, CommitDoes
    <2>3. name[d][h] # 0
      BY <2>1, CommitCopied
    <2>4. \A c \in Change, f \in File : WillCopy(todo[c], f) => WillCopy(todo'[c], f)
      BY <2>1, DoneWillCopy
    <2> QED
      BY <2>1, <2>2, <2>3, <2>4, SameCopied
  <1>5. ASSUME NEW d \in Change, NEW h \in File, BackupFails(d, h)
        PROVE  CopiedInv'
    <2>1. Quit(d) /\ UNCHANGED <<copy, name, file>>
      BY <1>5 DEF BackupFails, Abort
    <2>2. \A c \in Change : todo'[c] \in {todo[c], <<>>}
      BY <2>1 DEF Quit, TypeOK
    <2>3. \A f \in File : WillCopy(<<>>, f)
      BY DEF WillCopy
    <2> QED
      BY <2>1, <2>2, <2>3, SameCopied
  <1>6. ASSUME NEW d \in Change, NEW h \in File, NEW w \in BOOLEAN, NEW op,
               op # "backup", Doing(d, op, h), Done(d) \/ Quit(d),
               UNCHANGED <<copy, name, file>>
        PROVE  CopiedInv'
    <2>1. \A c \in Change, f \in File : WillCopy(todo[c], f) => WillCopy(todo'[c], f)
      BY <1>6, DoneWillCopy
    <2> QED
      BY <1>6, <2>1, SameCopied
  <1>7. ASSUME NEW d \in Change, NEW h \in File, NEW w \in BOOLEAN,
               \/ Reload(d, h) \/ SaveSettings(d, h) \/ ScheduleRollback(d, h)
               \/ ReloadFails(d, h, w)
        PROVE  CopiedInv'
    BY <1>6, <1>7 DEF Reload, SaveSettings, ScheduleRollback, ReloadFails, Abort
  <1>8. ASSUME UNCHANGED <<copy, name, file, todo>> PROVE CopiedInv'
    BY <1>8, SameCopied
  <1>9. ASSUME NEW d \in Change, NEW h \in File,
               \/ Expire(d) \/ ExecuteRollback(d) \/ RestoreFileFails(d, h)
               \/ RestoreReload(d, h) \/ RestoreReloadFails(d, h)
        PROVE  CopiedInv'
    BY <1>8, <1>9 DEF Expire, ExecuteRollback, RestoreFileFails, RestoreReload,
                      RestoreReloadFails
  <1>10. ASSUME NEW d \in Change, NEW h \in File, RestoreFile(d, h)
         PROVE  CopiedInv'
    <2>1. UNCHANGED <<copy, name, todo>>
      BY <1>10 DEF RestoreFile
    <2>2. <<h, name[d][h]>> \in saved => name[d][h] \in Second
      BY DEF TypeOK
    <2>3. \A c \in Change, f \in File : c \in file'[f] =>
            c \in file[f] \/ \E t \in Second : c \in copy[f][t]
      BY <1>10, <2>2 DEF RestoreFile, TypeOK
    <2> QED
      BY <2>1, <2>3, SameCopied
  <1>11. CASE Confirm \/ Tick \/ UNCHANGED vars
    BY <1>8, <1>11 DEF Confirm, Tick, vars
  <1>12. ASSUME NEW r \in BOOLEAN, Restart(r) PROVE CopiedInv'
    <2>1. UNCHANGED <<copy, name, file>> /\ \A c \in Change : todo'[c] = <<>>
      BY <1>12 DEF Restart
    <2>2. \A f \in File : WillCopy(<<>>, f)
      BY DEF WillCopy
    <2> QED
      BY <2>1, <2>2, SameCopied
  <1>13. File # {} /\ BOOLEAN # {}
    BY DEF File
  <1> QED
    BY <1>1, <1>2, <1>3, <1>4, <1>5, <1>7, <1>9, <1>10, <1>11, <1>12, <1>13
       DEF Next, Handler, HandlerFails, Restore, RestoreFails

(* No request is on trial at first.                                        *)
LEMMA OnTrialInvInit == Init => OnTrialInv
  <1> SUFFICES ASSUME Init PROVE OnTrialInv
    OBVIOUS
  <1>1. \A c \in Change : kind[c] = "none" /\ verdict[c] = "none"
    BY DEF Init
  <1> QED
    BY <1>1 DEF OnTrialInv, OnTrial, Risky

(* What was cut short stays so.                                            *)
LEMMA BrokenStays == [Next]_vars => broken \subseteq broken'
  <1> SUFFICES ASSUME [Next]_vars PROVE broken \subseteq broken'
    OBVIOUS
  <1> QED
    BY DEF Next, Begin, Handler, HandlerFails, Expire, ExecuteRollback, Restore,
       RestoreFails, Confirm, Restart, Tick, Backup, Commit, NothingToCommit,
       Reload, SaveSettings, ScheduleRollback, BackupFails, CommitFails,
       ReloadFails, RestoreFile, RestoreReload, RestoreFileFails,
       RestoreReloadFails, Abort, vars

(* A handler names the copy it makes of a file once.                       *)
LEMMA NamesStay ==
  ASSUME TypeOK, BackupInv, [Next]_vars, NEW c \in Change, NEW f \in File
  PROVE  /\ name'[c][f] \in {name[c][f], now}
         /\ name[c][f] # 0 => name'[c][f] = name[c][f]
  <1> USE DEF config, backups, handlers, trials, rollback
  <1>1. ASSUME NEW d \in Change, NEW h \in File, Backup(d, h)
        PROVE  /\ name'[c][f] \in {name[c][f], now}
               /\ name[c][f] # 0 => name'[c][f] = name[c][f]
    <2>1. name' = [name EXCEPT ![d][h] = now]
      BY <1>1 DEF Backup
    <2>2. name[d][h] = 0
      BY <1>1, FirstCopy
    <2> QED
      BY <2>1, <2>2 DEF TypeOK
  <1>2. (\E d \in Change, h \in File : Backup(d, h)) \/ name' = name
    BY DEF Next, Begin, Handler, HandlerFails, Expire, ExecuteRollback, Restore,
       RestoreFails, Confirm, Restart, Tick, Commit, NothingToCommit,
       Reload, SaveSettings, ScheduleRollback, BackupFails, CommitFails,
       ReloadFails, RestoreFile, RestoreReload, RestoreFileFails,
       RestoreReloadFails, vars
  <1> QED
    BY <1>1, <1>2

(* An excuse lasts: newer copies, shared names, other changes undone and   *)
(* handlers cut short remain what they are.                                *)
LEMMA ExcuseLasts ==
  ASSUME TypeOK, TypeOK', TrialInv, BackupInv, [Next]_vars,
         NEW c \in Change, NEW f \in File, name[c][f] # 0, Excused(c, f)
  PROVE  Excused(c, f)'
  <1>1. \A d \in Change : name[d][f] # 0 => name'[d][f] = name[d][f]
    BY NamesStay
  <1>2. \A d \in Change : name[d][f] \in Nat
    <2>1. \A d \in Change : name[d][f] \in 0..LastSecond
      BY DEF TypeOK
    <2> QED
      BY <2>1, SafeModeAssumption
  <1>3. name'[c][f] = name[c][f]
    BY <1>1
  <1>4. CASE RotatedOut(c, f)
    <2> DEFINE L == NewerCopies(c, f)
               K == NewerCopies(c, f)'
    <2>1. L \subseteq K
      <3> SUFFICES ASSUME NEW t \in L PROVE t \in K
        OBVIOUS
      <3>1. PICK d \in Change : t = name[d][f]
        BY DEF NewerCopies
      <3>2. t > name[c][f] /\ t # 0
        BY <1>2, <3>1 DEF NewerCopies
      <3>3. name'[d][f] = t
        BY <1>1, <3>1, <3>2
      <3> QED
        BY <1>3, <3>2, <3>3 DEF NewerCopies
    <2>2. IsFiniteSet(K)
      BY NewerStayFinite
    <2>3. Cardinality(L) >= BackupKeep
      BY <1>4 DEF RotatedOut
    <2> HIDE DEF L, K
    <2>4. /\ Cardinality(L) <= Cardinality(K)
          /\ Cardinality(L) \in Nat /\ Cardinality(K) \in Nat
      BY <2>1, <2>2, FS_Subset, FS_CardinalityType
    <2>5. Cardinality(K) >= BackupKeep
      BY <2>3, <2>4, SafeModeAssumption
    <2> QED
      BY <2>5 DEF RotatedOut, K, Excused
  <1>5. CASE Shares(c, f)
    BY <1>1, <1>3, <1>5 DEF Shares, Excused
  <1>6. CASE BroughtBack(c, f)
    <2>1. PICK d \in Change \ {c} : verdict[d] = "undone" /\ name[d][f] >= name[c][f]
      BY <1>6 DEF BroughtBack
    <2>2. verdict'[d] = "undone"
      BY <2>1, FinalStep
    <2>3. name'[d][f] = name[d][f]
      BY <1>1, <1>2, <2>1
    <2> QED
      BY <1>3, <2>1, <2>2, <2>3 DEF BroughtBack, Excused
  <1>7. CASE c \in broken
    BY <1>7, BrokenStays DEF Excused
  <1> QED
    BY <1>4, <1>5, <1>6, <1>7 DEF Excused

(* A step that touches no trial but that of a change it cuts short.        *)
LEMMA SameOnTrial ==
  ASSUME TypeOK, TypeOK', TrialInv, BackupInv, CopiedInv, OnTrialInv,
         [Next]_vars, \A c \in Change : Goes(c), verdict' = verdict,
         \A c \in Change : toWrite'[c] = toWrite[c] \/ c \in broken',
         \A c \in Change, f \in File :
           c \in file'[f] => c \in file[f] \/ verdict[c] # "undone",
         \A c \in Change : kind'[c] \in Risky /\ verdict[c] = "none" =>
           \/ c \in broken'
           \/ \E f \in File : <<"schedule", f>> \in Steps(todo'[c])
  PROVE  OnTrialInv'
  <1> SUFFICES ASSUME NEW c \in Change PROVE OnTrial(c)'
    BY DEF OnTrialInv
  <1>1. OnTrial(c)
    BY DEF OnTrialInv
  <1>2. ASSUME verdict[c] # "none"
        PROVE  /\ kind'[c] \in Risky
               /\ \A f \in File : <<"commit", f>> \notin Steps(todo'[c])
    <2>1. kind[c] # "none"
      BY <1>2 DEF TrialInv
    <2>2. kind'[c] = kind[c] /\ Steps(todo'[c]) \subseteq Steps(todo[c])
      BY <2>1, GoesOn DEF File
    <2> QED
      BY <1>1, <1>2, <2>2 DEF OnTrial
  <1>3. ASSUME NEW f \in File, verdict[c] = "undone", c \in file'[f]
        PROVE  f \in toWrite'[c] \/ Excused(c, f)'
    <2>1. c \in file[f] /\ name[c][f] # 0
      BY <1>3 DEF CopiedInv
    <2>2. f \in toWrite[c] \/ Excused(c, f)
      BY <1>1, <1>3, <2>1 DEF OnTrial
    <2>3. CASE Excused(c, f)
      BY <2>1, <2>3, ExcuseLasts
    <2>4. CASE f \in toWrite[c]
      BY <2>4 DEF Excused
    <2> QED
      BY <2>2, <2>3, <2>4
  <1> QED
    BY <1>2, <1>3 DEF OnTrial

(* A handler that takes a step other than to schedule still has to.        *)
LEMMA StillSchedules ==
  ASSUME TypeOK, NEW d \in Change, NEW op, NEW h \in File, Doing(d, op, h), Done(d),
         op # "schedule", kind' = kind, broken \subseteq broken', OnTrialInv,
         NEW c \in Change, kind'[c] \in Risky, verdict[c] = "none"
  PROVE  c \in broken' \/ \E f \in File : <<"schedule", f>> \in Steps(todo'[c])
  <1> SUFFICES ASSUME c \notin broken
               PROVE  \E f \in File : <<"schedule", f>> \in Steps(todo'[c])
    OBVIOUS
  <1>1. PICK f \in File : <<"schedule", f>> \in Steps(todo[c])
    BY DEF OnTrialInv, OnTrial
  <1>2. CASE c # d
    <2>1. todo'[c] = todo[c]
      BY <1>2 DEF Done, TypeOK
    <2> QED
      BY <1>1, <2>1
  <1>3. CASE c = d
    <2>1. todo[d] \in Seq(Op \X File)
      BY DEF TypeOK
    <2>2. todo[d] # <<>> /\ Head(todo[d]) = <<op, h>>
      BY DEF Doing, Active
    <2>3. todo'[d] = Tail(todo[d])
      BY DEF Done, TypeOK
    <2>4. Head(todo[d]) # <<"schedule", f>>
      BY <2>2
    <2>5. <<"schedule", f>> \in Steps(todo'[c])
      BY <1>1, <1>3, <2>1, <2>2, <2>3, <2>4, StepsTail
    <2> QED
      BY <2>5
  <1> QED
    BY <1>2, <1>3

(* Nothing is committed once the trial is scheduled.                       *)
LEMMA ScheduleLast ==
  ASSUME TypeOK, RestInv, NEW c \in Change, NEW h \in File,
         Doing(c, "schedule", h), NEW f \in File
  PROVE  <<"commit", f>> \notin Steps(Tail(todo[c]))
  <1> DEFINE x == Head(todo[c])
             L == Steps(Tail(todo[c]))
  <1>1. todo[c] # <<>> /\ x[1] = "schedule"
    BY DEF Doing, Active
  <1>2. x[1] = "schedule" => \A y \in L : y[1] # "commit"
    <2> HIDE DEF L, x
    <2>1. \A h1 : h1 = Head(todo[c]) => \A left : left = Steps(Tail(todo[c])) =>
            (h1[1] = "schedule" => \A y \in left : y[1] # "commit")
      BY <1>1, HeadOrder
    <2> QED
      BY <2>1 DEF L, x
  <1> HIDE DEF L
  <1>3. \A y \in L : y[1] # "commit"
    BY <1>1, <1>2
  <1>4. <<"commit", f>>[1] = "commit"
    OBVIOUS
  <1>5. <<"commit", f>> \notin L
    BY <1>3, <1>4
  <1> QED
    BY <1>5 DEF L

(* Who commits is not on trial yet.                                        *)
LEMMA CommitsFirst ==
  ASSUME TypeOK, OnTrialInv, NEW d \in Change, NEW h \in File, Doing(d, "commit", h)
  PROVE  verdict[d] = "none"
  <1>1. /\ todo[d] \in Seq(Op \X File) /\ todo[d] # <<>>
        /\ Head(todo[d]) = <<"commit", h>>
    BY DEF Doing, Active, TypeOK
  <1>2. Len(todo[d]) \in Nat /\ Len(todo[d]) >= 1 /\ Head(todo[d]) = todo[d][1]
    BY <1>1, TailDrops
  <1>3. 1 \in 1..Len(todo[d])
    BY <1>2
  <1>4. <<"commit", h>> \in Steps(todo[d])
    BY <1>1, <1>2, <1>3 DEF Steps
  <1> QED
    BY <1>4 DEF OnTrialInv, OnTrial

(* A risky change goes on trial after its last commit, and the rollback    *)
(* takes it out of every file of its plan, or there is an excuse.          *)
LEMMA OnTrialInvStep ==
  ASSUME TypeOK, TypeOK', TrialInv, RestInv, UndoInv, BackupInv, CopiedInv,
         OnTrialInv, [Next]_vars
  PROVE  OnTrialInv'
  <1> USE DEF config, backups, handlers, trials, rollback
  <1>0. /\ \A c \in Change : Goes(c)
        /\ broken \subseteq broken'
        /\ \A c \in Change, f \in File :
             c \in file[f] /\ Excused(c, f) => Excused(c, f)'
    BY NextGoes, BrokenStays, ExcuseLasts DEF CopiedInv
  <1>1. ASSUME NEW d \in Change, NEW k \in Offered[d], Begin(d, k)
        PROVE  OnTrialInv'
    <2>1. /\ UNCHANGED <<file, verdict, toWrite>> /\ kind'[d] = k
          /\ todo'[d] = Script[k]
          /\ \A c \in Change : c # d => todo'[c] = todo[c] /\ kind'[c] = kind[c]
      BY <1>1 DEF Begin, TypeOK
    <2>2. k \in Kind
      BY SafeModeAssumption
    <2>3. Orderly(k)
      BY <2>2, ScriptOrderly
    <2>4. ASSUME k \in Risky
          PROVE  \E f \in File : <<"schedule", f>> \in Steps(Script[k])
      <3> DEFINE t == Script[k]
      <3>1. t \in Seq(Op \X File)
        BY <2>2, ScriptType
      <3>2. \E i \in 1..Len(t) : t[i][1] = "schedule"
        BY <2>3, <2>4 DEF Orderly
      <3> HIDE DEF t
      <3>3. PICK i \in 1..Len(t) : t[i][1] = "schedule"
        BY <3>2
      <3>4. t[i] \in Op \X File
        BY <3>1
      <3>5. t[i][2] \in File /\ t[i] = <<"schedule", t[i][2]>>
        BY <3>3, <3>4
      <3> QED
        BY <3>5 DEF Steps, t
    <2>5. ASSUME NEW c \in Change, kind'[c] \in Risky, verdict[c] = "none"
          PROVE  \/ c \in broken'
                 \/ \E f \in File : <<"schedule", f>> \in Steps(todo'[c])
      <3>1. CASE c = d
        BY <2>1, <2>4, <2>5, <3>1
      <3>2. CASE c # d
        BY <1>0, <2>1, <2>5, <3>2 DEF OnTrialInv, OnTrial
      <3> QED
        BY <3>1, <3>2
    <2> QED
      BY <1>0, <2>1, <2>5, SameOnTrial
  <1>2. ASSUME NEW d \in Change, NEW op, op # "schedule", NEW h \in File,
               Doing(d, op, h), Done(d), UNCHANGED <<file, verdict, toWrite, kind>>
        PROVE  OnTrialInv'
    <2>1. \A c \in Change : kind'[c] \in Risky /\ verdict[c] = "none" =>
             \/ c \in broken'
             \/ \E f \in File : <<"schedule", f>> \in Steps(todo'[c])
      BY <1>0, <1>2, StillSchedules
    <2> QED
      BY <1>0, <1>2, <2>1, SameOnTrial
  <1>3. ASSUME NEW d \in Change, NEW h \in File,
               Backup(d, h) \/ Reload(d, h) \/ SaveSettings(d, h)
        PROVE  OnTrialInv'
    BY <1>2, <1>3 DEF Backup, Reload, SaveSettings
  <1>4. ASSUME NEW d \in Change, NEW h \in File, Commit(d, h) \/ NothingToCommit(d, h)
        PROVE  OnTrialInv'
    <2>1. /\ todo[d] \in Seq(Op \X File) /\ todo[d] # <<>>
          /\ Head(todo[d]) = <<"commit", h>> /\ UNCHANGED <<verdict, toWrite, kind>>
          /\ \A c \in Change : c # d => todo'[c] = todo[c]
      BY <1>4 DEF Commit, NothingToCommit, Doing, Active, TypeOK
    <2>2. ASSUME NEW c \in Change, kind'[c] \in Risky, verdict[c] = "none",
                 c \notin broken'
          PROVE  \E f \in File : <<"schedule", f>> \in Steps(todo'[c])
      <3>1. PICK f \in File : <<"schedule", f>> \in Steps(todo[c])
        BY <1>0, <2>1, <2>2 DEF OnTrialInv, OnTrial
      <3>2. CASE c # d
        BY <2>1, <3>1, <3>2
      <3>3. CASE c = d /\ todo'[d] = Tail(todo[d])
        <4>1. Head(todo[d]) # <<"schedule", f>>
          BY <2>1
        <4>2. <<"schedule", f>> \in Steps(todo'[c])
          BY <2>1, <3>1, <3>3, <4>1, StepsTail
        <4> QED
          BY <4>2
      <3>4. CASE c = d /\ Steps(todo'[d]) = {Net("reload"), Net("schedule")}
        BY <3>4 DEF Net, File
      <3>5. CASE c = d /\ kind[d] = "aclOff"
        BY <2>1, <2>2, <3>5 DEF Risky
      <3> QED
        BY <1>4, <3>2, <3>3, <3>4, <3>5, CommitLeaves
    <2>3. verdict[d] = "none"
      BY <1>4, CommitsFirst DEF Commit, NothingToCommit
    <2>4. \A c \in Change, f \in File : c \in file'[f] => c \in file[f] \/ c = d
      <3>1. CASE NothingToCommit(d, h)
        BY <3>1 DEF NothingToCommit
      <3>2. CASE Commit(d, h)
        BY <3>2, CommitDoes
      <3> QED
        BY <1>4, <3>1, <3>2
    <2> QED
      BY <1>0, <2>1, <2>2, <2>3, <2>4, SameOnTrial
  <1>5. ASSUME NEW d \in Change, NEW h \in File, ScheduleRollback(d, h)
        PROVE  OnTrialInv'
    <2>1. /\ todo[d] \in Seq(Op \X File) /\ todo[d] # <<>> /\ Doing(d, "schedule", h)
          /\ Head(todo[d]) = <<"schedule", h>> /\ UNCHANGED <<file, toWrite, kind>>
          /\ todo'[d] = Tail(todo[d])
          /\ \A c \in Change : c # d => todo'[c] = todo[c]
      BY <1>5 DEF ScheduleRollback, Done, Doing, Active, TypeOK
    <2>2. /\ verdict'[d] = "trial"
          /\ \A c \in Change : c # d =>
               verdict'[c] = IF c = rbPending THEN "superseded" ELSE verdict[c]
      BY <1>5 DEF ScheduleRollback
    <2>3. kind[d] \in Risky
      BY <2>1, TrialIsRisky
    <2>4. \A f \in File : <<"commit", f>> \notin Steps(todo'[d])
      BY <2>1, ScheduleLast
    <2>5. OnTrial(d)'
      BY <2>1, <2>2, <2>3, <2>4 DEF OnTrial
    <2>6. ASSUME NEW c \in Change, c # d PROVE OnTrial(c)'
      <3>1. OnTrial(c)
        BY DEF OnTrialInv
      <3>2. c = rbPending => verdict[c] = "trial"
        BY DEF TrialInv
      <3> QED
        BY <1>0, <2>1, <2>2, <2>6, <3>1, <3>2 DEF OnTrial
    <2> QED
      BY <2>5, <2>6 DEF OnTrialInv
  <1>6. ASSUME UNCHANGED <<file, verdict, toWrite, kind, todo>>
        PROVE  OnTrialInv'
    <2>1. \A c \in Change : OnTrial(c) => OnTrial(c)'
      BY <1>0, <1>6 DEF OnTrial
    <2> QED
      BY <2>1 DEF OnTrialInv
  <1>7. ASSUME NEW d \in Change, NEW h \in File, Expire(d) \/ RestoreReload(d, h)
        PROVE  OnTrialInv'
    BY <1>6, <1>7 DEF Expire, RestoreReload
  <1>8. CASE Tick \/ UNCHANGED vars
    BY <1>6, <1>8 DEF Tick, vars
  <1>9. ASSUME NEW d \in Change, ExecuteRollback(d) PROVE OnTrialInv'
    <2>1. CASE rbPending # d
      BY <1>6, <1>9, <2>1 DEF ExecuteRollback
    <2>2. CASE rbPending = d
      <3>1. /\ verdict'[d] = "undone" /\ toWrite'[d] = Plan(d)
            /\ \A c \in Change : c # d =>
                 verdict'[c] = verdict[c] /\ toWrite'[c] = toWrite[c]
            /\ UNCHANGED <<file, kind, todo>>
        BY <1>9, <2>2 DEF ExecuteRollback, TypeOK
      <3>2. verdict[d] = "trial"
        BY <2>2 DEF TrialInv
      <3>3. \A f \in File : d \in file[f] => f \in Plan(d)
        BY DEF CopiedInv, Plan
      <3>4. OnTrial(d)'
        BY <3>1, <3>2, <3>3 DEF OnTrialInv, OnTrial
      <3>5. ASSUME NEW c \in Change, c # d PROVE OnTrial(c)'
        BY <1>0, <3>1, <3>5 DEF OnTrialInv, OnTrial
      <3> QED
        BY <3>4, <3>5 DEF OnTrialInv
    <2> QED
      BY <2>1, <2>2
  <1>10. ASSUME NEW d \in Change, NEW h \in File, RestoreFile(d, h)
         PROVE  OnTrialInv'
    <2>1. /\ h \in toWrite[d] /\ UNCHANGED <<verdict, kind, todo, name>>
          /\ toWrite'[d] = toWrite[d] \ {h}
          /\ \A c \in Change : c # d => toWrite'[c] = toWrite[c]
          /\ \A f \in File : f # h => file'[f] = file[f]
      BY <1>10 DEF RestoreFile, TypeOK
    <2>2. verdict[d] = "undone" /\ verdict'[d] = "undone"
      BY <2>1 DEF UndoInv
    <2>3. ASSUME d \in file'[h] PROVE Excused(d, h)'
      <3>1. CASE <<h, name[d][h]>> \in saved
        <4>1. file'[h] = copy[h][name[d][h]] /\ name[d][h] \in Second
          BY <1>10, <3>1 DEF RestoreFile, TypeOK
        <4>2. name[d][h] # 0
          BY <2>3, <4>1 DEF CopiedInv
        <4>3. Shares(d, h)
          BY <2>3, <4>1, <4>2 DEF BackupInv, CopyStays
        <4> QED
          BY <2>1, <4>3 DEF Shares, Excused
      <3>2. CASE <<h, name[d][h]>> \notin saved
        <4>1. d \in file[h]
          BY <1>10, <2>3, <3>2 DEF RestoreFile
        <4>2. name[d][h] # 0
          BY <4>1 DEF CopiedInv
        <4>3. RotatedOut(d, h)
          BY <3>2, <4>2 DEF BackupInv, CopyStays
        <4> QED
          BY <1>0, <4>1, <4>3 DEF Excused
      <3> QED
        BY <3>1, <3>2
    <2>4. OnTrial(d)'
      <3>1. OnTrial(d)
        BY DEF OnTrialInv
      <3>2. \A f \in File : d \in file'[f] => f \in toWrite'[d] \/ Excused(d, f)'
        BY <1>0, <2>1, <2>2, <2>3, <3>1 DEF OnTrial
      <3> QED
        BY <2>1, <2>2, <3>1, <3>2 DEF OnTrial
    <2>5. ASSUME NEW c \in Change, c # d PROVE OnTrial(c)'
      <3>1. OnTrial(c)
        BY DEF OnTrialInv
      <3>2. ASSUME c \in file'[h], c \notin file[h] PROVE Excused(c, h)'
        <4>1. <<h, name[d][h]>> \in saved
          BY <1>10, <3>2 DEF RestoreFile
        <4>2. c \in copy[h][name[d][h]] /\ name[d][h] \in Second
          BY <1>10, <3>2, <4>1 DEF RestoreFile, TypeOK
        <4>3. name[c][h] <= name[d][h] /\ name[c][h] \in Int /\ name[d][h] \in Int
          <5>1. name[c][h] <= name[d][h]
            BY <4>2 DEF CopiedInv
          <5>2. name[c][h] \in 0..LastSecond /\ name[d][h] \in 0..LastSecond
            BY DEF TypeOK
          <5> QED
            BY <5>1, <5>2, SafeModeAssumption
        <4> QED
          BY <2>1, <2>2, <2>5, <4>3 DEF BroughtBack, Excused
      <3>3. \A f \in File : verdict[c] = "undone" /\ c \in file'[f] =>
              f \in toWrite'[c] \/ Excused(c, f)'
        BY <1>0, <2>1, <2>5, <3>1, <3>2 DEF OnTrial
      <3> QED
        BY <1>0, <2>1, <2>5, <3>1, <3>3 DEF OnTrial
    <2> QED
      BY <2>4, <2>5 DEF OnTrialInv
  <1>11. ASSUME Confirm PROVE OnTrialInv'
    <2>1. /\ rbPending \in Change /\ verdict[rbPending] = "trial"
          /\ verdict'[rbPending] = "confirmed"
          /\ \A c \in Change : c # rbPending => verdict'[c] = verdict[c]
          /\ UNCHANGED <<file, toWrite, kind, todo>>
      BY <1>11 DEF Confirm, TypeOK, TrialInv
    <2>2. \A c \in Change : OnTrial(c)'
      BY <1>0, <2>1 DEF OnTrialInv, OnTrial
    <2> QED
      BY <2>2 DEF OnTrialInv
  <1>12. ASSUME NEW d \in Change, NEW h \in File, NEW w \in BOOLEAN,
                BackupFails(d, h) \/ CommitFails(d, h, w) \/ ReloadFails(d, h, w)
         PROVE  OnTrialInv'
    <2>1. /\ d \in broken' /\ UNCHANGED <<kind, verdict, toWrite>>
          /\ \A c \in Change : c # d => todo'[c] = todo[c]
      BY <1>12 DEF BackupFails, CommitFails, ReloadFails, Abort, Quit, TypeOK
    <2>2. \A c \in Change, f \in File :
            c \in file'[f] => c \in file[f] \/ verdict[c] # "undone"
      <3>1. CASE CommitFails(d, h, w)
        <4>1. /\ Doing(d, "commit", h)
              /\ \A c \in Change, f \in File :
                   c \in file'[f] => c \in file[f] \/ (c = d /\ f = h)
          BY <3>1, CommitDoes
        <4>2. verdict[d] = "none"
          BY <4>1, CommitsFirst
        <4> QED
          BY <4>1, <4>2
      <3>2. CASE file' = file
        BY <3>2
      <3> QED
        BY <1>12, <3>1, <3>2 DEF BackupFails, ReloadFails
    <2>3. \A c \in Change : kind'[c] \in Risky /\ verdict[c] = "none" =>
             \/ c \in broken'
             \/ \E f \in File : <<"schedule", f>> \in Steps(todo'[c])
      BY <1>0, <2>1 DEF OnTrialInv, OnTrial
    <2> QED
      BY <1>0, <2>1, <2>2, <2>3, SameOnTrial
  <1>13. ASSUME NEW r \in BOOLEAN, Restart(r) PROVE OnTrialInv'
    <2>1. kind' = kind /\ file' = file /\ broken' = broken \union Interrupted
      BY <1>13 DEF Restart
    <2>a. \A c \in Change : todo'[c] = <<>>
      BY <1>13 DEF Restart
    <2>b. \A c \in Change : verdict'[c] = verdict[c]
                             \/ (verdict'[c] = "lost" /\ verdict[c] = "trial")
      BY <1>13 DEF Restart, TrialInv
    <2>2. ASSUME NEW c \in Change PROVE OnTrial(c)'
      <3>1. OnTrial(c)
        BY DEF OnTrialInv
      <3>2. Steps(todo'[c]) = {}
        BY <2>a DEF Steps
      <3>3. verdict'[c] # "none" => kind'[c] \in Risky
        BY <2>1, <2>b, <3>1 DEF OnTrial
      <3>4. ASSUME kind'[c] \in Risky, verdict'[c] = "none" PROVE c \in broken'
        <4>1. verdict[c] = "none" /\ kind[c] \in Risky
          BY <2>1, <2>b, <3>4
        <4>2. CASE c \in broken
          BY <2>1, <4>2
        <4>3. CASE todo[c] # <<>>
          BY <2>1, <4>3 DEF Interrupted, Active
        <4>4. CASE todo[c] = <<>> /\ c \notin broken
          <5>1. Steps(todo[c]) = {}
            BY <4>4 DEF Steps
          <5> QED
            BY <3>1, <4>1, <4>4, <5>1 DEF OnTrial
        <4> QED
          BY <4>2, <4>3, <4>4
      <3>5. ASSUME verdict'[c] = "undone", NEW f \in File, c \in file'[f]
            PROVE  Excused(c, f)'
        <4>1. f \in toWrite[c] \/ Excused(c, f)
          BY <2>1, <2>b, <3>1, <3>5 DEF OnTrial
        <4>2. f \in toWrite[c] => c \in broken'
          BY <2>1 DEF Interrupted
        <4> QED
          BY <1>0, <2>1, <3>5, <4>1, <4>2 DEF Excused
      <3> QED
        BY <3>2, <3>3, <3>4, <3>5 DEF OnTrial
    <2> QED
      BY <2>2 DEF OnTrialInv
  <1>15. ASSUME NEW d \in Change, NEW h \in File,
                RestoreFileFails(d, h) \/ RestoreReloadFails(d, h)
         PROVE  OnTrialInv'
    <2>1. /\ UNCHANGED <<kind, verdict, todo, file>>
          /\ \A c \in Change : toWrite'[c] = toWrite[c] \/ c \in broken'
      BY <1>15 DEF RestoreFileFails, RestoreReloadFails, TypeOK
    <2>2. \A c \in Change : kind'[c] \in Risky /\ verdict[c] = "none" =>
             \/ c \in broken'
             \/ \E f \in File : <<"schedule", f>> \in Steps(todo'[c])
      BY <1>0, <2>1 DEF OnTrialInv, OnTrial
    <2> QED
      BY <1>0, <2>1, <2>2, SameOnTrial
  <1>14. File # {} /\ BOOLEAN # {}
    BY DEF File
  <1> QED
    BY <1>1, <1>3, <1>4, <1>5, <1>7, <1>8, <1>9, <1>10, <1>11, <1>12, <1>13, <1>14,
       <1>15
       DEF Next, Handler, HandlerFails, Restore, RestoreFails

(* A risky change that nobody confirmed is gone from the files when        *)
(* nothing is pending or under way: it goes on trial after its last        *)
(* commit, the timer undoes it, and the copies it is undone from are       *)
(* without it.  Whatever fails, restarts, overlaps or is rotated, but for  *)
(* what the property says: a handler or rollback of this change cut short, *)
(* a trial a restart forgot, a copy lost or spoilt, and a second risky     *)
(* change that was undone to a copy with this one in it.                   *)
THEOREM UnconfirmedAlwaysReverted == Spec => []UnconfirmedReverted
  <1> DEFINE Inv == /\ TypeOK /\ TrialInv /\ RestInv /\ UndoInv
                    /\ BackupInv /\ CopiedInv /\ OnTrialInv
  <1>1. Init => Inv
    BY TypeInit, TrialInvInit, RestInit, UndoInvInit, BackupInvInit,
       CopiedInvInit, OnTrialInvInit
  <1>2. Inv /\ [Next]_vars => Inv'
    <2> SUFFICES ASSUME Inv, [Next]_vars PROVE Inv'
      OBVIOUS
    <2>1. TypeOK'
      BY TypeStep
    <2>2. TrialInv' /\ RestInv' /\ UndoInv' /\ BackupInv' /\ CopiedInv'
      BY <2>1, TrialInvStep, RestStep, UndoInvStep, BackupInvStep, CopiedInvStep
    <2>3. OnTrialInv'
      BY <2>1, OnTrialInvStep
    <2> QED
      BY <2>1, <2>2, <2>3
  <1>3. Inv => UnconfirmedReverted
    <2> SUFFICES ASSUME Inv, Idle, rbPending = NoChange, NEW c \in Change \ broken,
                        kind[c] \in Risky,
                        verdict[c] \notin {"confirmed", "superseded", "lost"},
                        NEW f \in File, c \in file[f]
                 PROVE  RotatedOut(c, f) \/ Shares(c, f) \/ BroughtBack(c, f)
      BY DEF UnconfirmedReverted
    <2>1. todo[c] = <<>> /\ toWrite[c] = {}
      BY DEF Idle, Active, Restoring
    <2>2. OnTrial(c)
      BY DEF OnTrialInv
    <2>3. verdict[c] # "none"
      <3>1. Steps(todo[c]) = {}
        BY <2>1 DEF Steps
      <3> QED
        BY <2>2, <3>1 DEF OnTrial
    <2>4. verdict[c] # "trial"
      BY SafeModeAssumption DEF TrialInv
    <2>5. verdict[c] = "undone"
      BY <2>3, <2>4 DEF TypeOK
    <2> QED
      BY <2>1, <2>2, <2>5 DEF OnTrial, Excused
  <1> HIDE DEF Inv
  <1> QED
    BY <1>1, <1>2, <1>3, PTL DEF Spec
=============================================================================
