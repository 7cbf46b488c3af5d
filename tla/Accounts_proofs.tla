--------------------------- MODULE Accounts_proofs ---------------------------
(***************************************************************************)
(* Proofs about Accounts: types, that an administrator remains, that       *)
(* sessions fall with their password, and that codes are good once, for    *)
(* any users, scenarios, requests and bounds.                              *)
(***************************************************************************)
EXTENDS Accounts, FiniteSetTheorems, TLAPS

------------------------------------------------------------------------------
(* Invariants. *)

(* Which steps belong to which call. *)
StepFits(r) ==
  \/ at[r] = "idle"
  \/ Kind(r) = "login"    /\ at[r] \in {"check", "open"}
  \/ Kind(r) = "code"     /\ at[r] \in {"verify", "mark", "recover", "open"}
  \/ Kind(r) = "logout"   /\ at[r] = "logout"
  \/ Kind(r) = "others"   /\ at[r] = "others"
  \/ Kind(r) = "change"   /\ at[r] \in {"proof", "pass", "closeOthers"}
  \/ Kind(r) = "setup"    /\ at[r] \in {"unset", "secret"}
  \/ Kind(r) = "enable"   /\ at[r] \in {"proof", "wipe", "store", "factor"}
  \/ Kind(r) = "disable"  /\ at[r] \in {"proof", "unfactor", "forget"}
  \/ Kind(r) = "renew"    /\ at[r] \in {"proof", "wipe", "store"}
  \/ Kind(r) = "create"   /\ at[r] = "create"
  \/ Kind(r) = "close"    /\ at[r] = "close"
  \/ Kind(r) = "password" /\ at[r] \in {"read", "pass", "closeOthers"}
  \/ Kind(r) = "reset"    /\ at[r] \in {"read", "unfactor", "forget", "close"}
  \/ Kind(r) = "update"   /\ at[r] \in {"read", "self", "count", "role", "off", "close"}
  \/ Kind(r) = "delete"   /\ at[r] \in {"read", "self", "count", "close", "remove"}
  \/ Kind(r) = "cli"      /\ at[r] \in {"pass", "closeOthers"}
StepsFit == \A r \in Request : StepFits(r)

(* What a request has of the data its steps use. *)
DataFit(r) ==
  at[r] # "idle" =>
    /\ at[r] # "others" => Target(r) \in User
    /\ at[r] \in {"role", "create"} => call[r].role \in Role
    /\ at[r] = "off" => call[r].off \in BOOLEAN
    /\ Kind(r) = "update" => call[r].role \in Role \/ call[r].off \in BOOLEAN
    /\ Kind(r) \in {"code", "enable"} => call[r].code \in Code
    /\ Kind(r) = "login" => call[r].code = None
    /\ Kind(r) = "enable" /\ at[r] # "proof" => call[r].code[1] = "timed"
    /\ at[r] = "mark" => call[r].code[1] = "timed"
    /\ at[r] \in {"wipe", "store"} => call[r].left \in 1..RecoveryCount
DataFits == \A r \in Request : DataFit(r)

Typed == TypeOK /\ StepsFit /\ DataFits

Active(r, kinds) == at[r] # "idle" /\ Kind(r) \in kinds

(* As long as nothing has crossed, edits come one at a time, and so do the *)
(* uses of codes of a user.                                                *)
InTurn ==
  \A r \in Request : \A q \in Request \ {r} :
    /\ crossed = {} => ~(Active(r, Edit) /\ Active(q, Edit))
    /\ Active(r, Factor) /\ Active(q, Factor) /\ Target(r) = Target(q)
         => Target(r) \in crossed

AnotherAdmin(r) == \E u \in User \ {Target(r)} : IsAdmin(u)

(* What an edit has read is so, and once it has counted there is an        *)
(* administrator that it does not touch, or it leaves one.                 *)
SafeEdit(r) ==
  /\ at[r] \in {"self", "count"} =>
       /\ There(Target(r)) /\ call[r].was \in Row
       /\ row[Target(r)].role = call[r].was.role
       /\ row[Target(r)].off = call[r].was.off
  /\ at[r] \in {"role", "off", "close", "remove"} =>
       IF WasAdmin(r) /\ ~Demotes(r) THEN IsAdmin(Target(r)) ELSE AnotherAdmin(r)
EditsAreSafe ==
  crossed = {} => \A r \in Request : Active(r, Edit) => SafeEdit(r)

AdminInv == AdministratorRemains /\ EditsAreSafe

(* A session that stands for an old password is one the request that       *)
(* changed it has yet to close.                                            *)
Doomed(s) == \E r \in Request : at[r] = "closeOthers" /\ Target(r) = s.user

SessionInv ==
  \A s \in sessions :
    /\ There(s.user)
    /\ s.pass = row[s.user].pass \/ s.late \/ s.user \in missed \/ Doomed(s)

------------------------------------------------------------------------------
(* Types. *)

LEMMA Constants ==
  /\ IsFiniteSet(User) /\ Cardinality(User) \in Nat /\ None \notin User /\ Admin \in User
  /\ None \notin Role /\ None \notin BOOLEAN
  /\ NotYet \notin Row /\ Gone \notin Row /\ NotYet # Gone
  /\ LoginMaxFails \in Nat \ {0} /\ ChallengeTries \in Nat \ {0}
  /\ RecoveryCount \in Nat \ {0} /\ MaxPass \in Nat \ {0}
  /\ MaxTime \in Nat /\ MaxFaults \in Nat
  BY AccountsAssumption, FS_CardinalityType

LEMMA RowsFit ==
  ASSUME NEW s \in Scenario
  PROVE  /\ s.row \in [User -> Row \cup {NotYet}]
         /\ s.recovery \in [User -> SUBSET ({"recovery"} \X (1..Cardinality(User))
                                                      \X (1..RecoveryCount))]
         /\ s.number \in [User -> 1..Cardinality(User)]
         /\ s.calls \in Nat /\ s.roles \subseteq Role
         /\ s.signedIn \subseteq {u \in User : s.row[u] # NotYet}
         /\ s.kinds \subseteq Own \cup Managing \cup {"login", "code", "cli"}
  BY AccountsAssumption

LEMMA NothingAsked == Request0 \in Call
  BY DEF Request0, Call

LEMMA InitTyped == Init => Typed
<1> SUFFICES ASSUME Init PROVE Typed
  OBVIOUS
<1>1. PICK s \in Scenario :
         /\ given = s /\ row = s.row
         /\ sessions = {[id |-> s.number[u], user |-> u, pass |-> s.row[u].pass, late |-> FALSE]
                          : u \in s.signedIn}
         /\ recovery = s.recovery
  BY DEF Init
<1>2. \A u \in s.signedIn : u \in User /\ s.row[u] \in Row /\ s.number[u] \in Nat
  BY RowsFit, Constants
<1>3. \A u \in s.signedIn : s.row[u].pass \in Nat
  BY <1>2 DEF Row
<1>4. sessions \subseteq [id : Nat, user : User, pass : Nat, late : BOOLEAN]
  <2> SUFFICES ASSUME NEW x \in sessions
               PROVE  x \in [id : Nat, user : User, pass : Nat, late : BOOLEAN]
    OBVIOUS
  <2> PICK u \in s.signedIn :
        x = [id |-> s.number[u], user |-> u, pass |-> s.row[u].pass, late |-> FALSE]
    BY <1>1
  <2> QED
    BY <1>2, <1>3
<1>5. recovery \in [User -> SUBSET Code]
  <2>1. {"recovery"} \X (1..Cardinality(User)) \X (1..RecoveryCount) \subseteq Code
    BY Constants DEF Code
  <2>2. s.recovery \in [User -> SUBSET ({"recovery"} \X (1..Cardinality(User))
                                                      \X (1..RecoveryCount))]
    BY RowsFit
  <2> QED
    BY <1>1, <2>1, <2>2
<1>6. call \in [Request -> Call] /\ at \in [Request -> Label]
  <2>1. call = [r \in Request |-> Request0] /\ at = [r \in Request |-> "idle"]
    BY DEF Init
  <2>2. call \in [Request -> Call]
    BY <2>1, NothingAsked
  <2>3. at \in [Request -> Label]
    BY <2>1 DEF Label
  <2> QED
    BY <2>2, <2>3
<1>7. TypeOK
  <2>1. given \in Scenario /\ row \in [User -> Row \cup {NotYet, Gone}]
    BY <1>1, RowsFit
  <2>2. issued \in Nat
    BY Constants DEF Init
  <2>3. calls \in Nat /\ faults \in Nat /\ wrong \in 0..LoginMaxFails /\ time \in 1..MaxTime + 1
    BY Constants DEF Init
  <2> QED
    BY <1>4, <1>5, <1>6, <2>1, <2>2, <2>3 DEF Init, TypeOK
<1>8. StepsFit /\ DataFits
  BY DEF Init, StepsFit, StepFits, DataFits, DataFit
<1> QED
  BY <1>7, <1>8 DEF Typed

LEMMA GoesTyped ==
  ASSUME TypeOK, NEW r \in Request, NEW step \in Label, NEW c \in Call, Goes(r, step, c)
  PROVE  at' \in [Request -> Label] /\ call' \in [Request -> Call]
  BY NothingAsked DEF Goes, TypeOK

LEMMA SetRowTyped ==
  ASSUME TypeOK, NEW u \in User, NEW new, There(u) => new \in Row, SetRow(u, new)
  PROVE  row' \in [User -> Row \cup {NotYet, Gone}]
  BY DEF SetRow, TypeOK

(* A call that begins. *)
LEMMA StartTyped ==
  ASSUME TypeOK, NEW r \in Request, NEW c \in Call, NEW step \in Label,
         Start(r, c, step), UNCHANGED wrong,
         challenges' \subseteq [id : Nat, user : User, pass : Nat, tries : Nat]
  PROVE  TypeOK'
<1>1. at' \in [Request -> Label] /\ call' \in [Request -> Call]
  BY DEF Start, TypeOK
<1>2. crossed' \cup missed' \subseteq User \cup {None}
  <2>1. \A q \in Request : call[q].user \in User \cup {None}
    BY DEF TypeOK, Call
  <2>2. Overlap(r, c) \subseteq Request /\ c.user \in User \cup {None}
    BY DEF Overlap, Call
  <2> QED
    BY <2>1, <2>2 DEF Start, TypeOK
<1>3. {issued', calls', faults'} \subseteq Nat
  BY DEF Start, TypeOK
<1> QED
  BY <1>1, <1>2, <1>3 DEF Start, TypeOK, store

LEMMA CodesTyped ==
  ASSUME TypeOK, NEW u \in User
  PROVE  Codes(u) \subseteq Code
<1>1. There(u) => row[u].secret \in Nat
  BY DEF TypeOK, There, Row
<1>2. There(u) => {Timed(row[u].secret, t) : t \in 1..MaxTime + 1} \subseteq Code
  BY <1>1 DEF Timed, Code
<1> QED
  BY <1>2 DEF Codes, TypeOK

LEMMA BeginTyped ==
  ASSUME TypeOK, NEW r \in Request, Begin(r)
  PROVE  TypeOK'
<1>1. CASE BeginLogin(r)
  <2>1. PICK u \in User, p \in 1..MaxPass :
          Start(r, [Request0 EXCEPT !.kind = "login", !.user = u, !.pass = p], "check")
    BY <1>1 DEF BeginLogin
  <2>2. p \in Nat
    BY Constants
  <2>3. [Request0 EXCEPT !.kind = "login", !.user = u, !.pass = p] \in Call
    BY <2>2 DEF Request0, Call
  <2> QED
    BY <1>1, <2>1, <2>3, StartTyped DEF BeginLogin, Label, TypeOK
<1>2. CASE BeginCode(r)
  <2>1. PICK ch \in challenges : \E c \in Codes(ch.user) :
       /\ Start(r, [Request0 EXCEPT !.kind = "code", !.user = ch.user,
                      !.pass = ch.pass, !.code = c, !.challenge = ch.id], "verify")
       /\ challenges' = (challenges \ {ch}) \cup
            (IF ch.tries + 1 < ChallengeTries THEN {[ch EXCEPT !.tries = @ + 1]} ELSE {})
    BY <1>2 DEF BeginCode
  <2>2. PICK c \in Codes(ch.user) :
       Start(r, [Request0 EXCEPT !.kind = "code", !.user = ch.user,
                      !.pass = ch.pass, !.code = c, !.challenge = ch.id], "verify")
    BY <2>1
  <2>3. ch \in [id : Nat, user : User, pass : Nat, tries : Nat]
    BY DEF TypeOK
  <2>4. c \in Code
    BY <2>3, CodesTyped
  <2>5. [Request0 EXCEPT !.kind = "code", !.user = ch.user,
                      !.pass = ch.pass, !.code = c, !.challenge = ch.id] \in Call
    BY <2>3, <2>4 DEF Request0, Call
  <2>6. [ch EXCEPT !.tries = @ + 1] \in [id : Nat, user : User, pass : Nat, tries : Nat]
    BY <2>3
  <2>7. challenges' \subseteq [id : Nat, user : User, pass : Nat, tries : Nat]
    BY <2>1, <2>6 DEF TypeOK
  <2> QED
    BY <1>2, <2>2, <2>5, <2>7, StartTyped DEF BeginCode, Label
<1>3. CASE BeginOwn(r)
  <2>1. PICK s \in sessions, k \in Own \cap given.kinds :
         \E c \in IF k = "enable" THEN Codes(s.user) ELSE {None} :
           Start(r, [Request0 EXCEPT !.kind = k, !.who = s.id,
                                     !.user = s.user, !.code = c], FirstOwn(k))
    BY <1>3 DEF BeginOwn
  <2>2. PICK c \in IF k = "enable" THEN Codes(s.user) ELSE {None} :
           Start(r, [Request0 EXCEPT !.kind = k, !.who = s.id,
                                     !.user = s.user, !.code = c], FirstOwn(k))
    BY <2>1
  <2>3. s.id \in Nat /\ s.user \in User
    BY DEF TypeOK
  <2>4. c \in Code \cup {None}
    BY <2>3, CodesTyped
  <2>5. [Request0 EXCEPT !.kind = k, !.who = s.id, !.user = s.user, !.code = c] \in Call
    BY <2>3, <2>4 DEF Request0, Call
  <2>6. FirstOwn(k) \in Label
    BY DEF FirstOwn, Label, Own
  <2> QED
    BY <1>3, <2>2, <2>5, <2>6, StartTyped DEF BeginOwn, TypeOK
<1>4. CASE BeginManaging(r)
  <2>1. PICK id \in {0} \cup {s.id : s \in sessions}, k \in Managing \cap given.kinds,
             u \in User, role \in given.roles \cup {None}, off \in BOOLEAN \cup {None} :
          Start(r, [Request0 EXCEPT !.kind = k, !.who = id, !.user = u,
                        !.role = role, !.off = off], FirstManaging(k))
    BY <1>4 DEF BeginManaging
  <2>2. id \in Nat
    BY DEF TypeOK
  <2>3. role \in Role \cup {None}
    BY RowsFit DEF TypeOK
  <2>4. [Request0 EXCEPT !.kind = k, !.who = id, !.user = u, !.role = role, !.off = off] \in Call
    BY <2>2, <2>3 DEF Request0, Call
  <2>5. FirstManaging(k) \in Label
    BY DEF FirstManaging, Label
  <2> QED
    BY <1>4, <2>1, <2>4, <2>5, StartTyped DEF BeginManaging, TypeOK
<1>5. CASE BeginOthers(r)
  <2>1. [Request0 EXCEPT !.kind = "others"] \in Call
    BY DEF Request0, Call, Own
  <2> QED
    BY <1>5, <2>1, StartTyped DEF BeginOthers, Label, TypeOK
<1>6. CASE BeginCli(r)
  <2>1. [Request0 EXCEPT !.kind = "cli", !.user = Admin] \in Call
    BY Constants DEF Request0, Call
  <2> QED
    BY <1>6, <2>1, StartTyped DEF BeginCli, Label, TypeOK
<1> QED
  BY <1>1, <1>2, <1>3, <1>4, <1>5, <1>6 DEF Begin

(* Where a request goes on, its data stay of their types. *)
LEMMA GoToTyped ==
  ASSUME TypeOK, NEW r \in Request, NEW step \in Label, GoTo(r, step)
  PROVE  at' \in [Request -> Label] /\ call' \in [Request -> Call]
  BY GoesTyped DEF GoTo, TypeOK

LEMMA DoneTyped ==
  ASSUME TypeOK, NEW r \in Request, Done(r)
  PROVE  at' \in [Request -> Label] /\ call' \in [Request -> Call]
  BY GoToTyped DEF Done, Label

(* A row that is written keeps the rights.                                 *)
Alike(old, new) == new \in Row /\ new.role = old.role /\ new.off = old.off

LEMMA Writes ==
  ASSUME NEW u, NEW new, SetRow(u, new), There(u) => Alike(row[u], new)
  PROVE  \E x : SetRow(u, x) /\ (There(u) => Alike(row[u], x))
  OBVIOUS

LEMMA OwnRow ==
  ASSUME Typed, NEW r \in Request,
         Mark(r) \/ Pass(r) \/ Secret(r) \/ FactorOn(r) \/ Unfactor(r)
  PROVE  /\ Target(r) \in User
         /\ \E x : SetRow(Target(r), x) /\ (There(Target(r)) => Alike(row[Target(r)], x))
<1> USE DEF Typed, Does
<1>a. TypeOK /\ call[r] \in Call /\ at[r] \in Label
  BY DEF TypeOK
<1>b. Target(r) \in User
  BY DEF DataFits, DataFit, Mark, Pass, Secret, FactorOn, Unfactor
<1>c. There(Target(r)) => row[Target(r)] \in Row
  BY <1>b DEF There, TypeOK
<1>1. CASE Mark(r)
  <2>1. call[r].code[3] \in 0..MaxTime + 1
    BY <1>1, Constants DEF Mark, DataFits, DataFit, Code, StepsFit, StepFits
  <2>2. SetRow(Target(r), [row[Target(r)] EXCEPT !.last = call[r].code[3]])
    BY <1>1 DEF Mark
  <2>3. There(Target(r)) =>
          Alike(row[Target(r)], [row[Target(r)] EXCEPT !.last = call[r].code[3]])
    BY <1>c, <2>1 DEF Row, Alike
  <2> QED
    BY <1>b, <2>2, <2>3, Writes
<1>2. CASE Pass(r)
  <2>1. SetRow(Target(r), [row[Target(r)] EXCEPT !.pass = @ + 1, !.must = Kind(r) # "change"])
    BY <1>2 DEF Pass
  <2>2. There(Target(r)) => row[Target(r)].pass + 1 \in 1..MaxPass
    BY <1>2, <1>c, Constants DEF Pass, Row
  <2>3. (Kind(r) # "change") \in BOOLEAN
    OBVIOUS
  <2>4. There(Target(r)) =>
          Alike(row[Target(r)],
                [row[Target(r)] EXCEPT !.pass = @ + 1, !.must = Kind(r) # "change"])
    BY <1>c, <2>2, <2>3 DEF Row, Alike
  <2> QED
    BY <1>b, <2>1, <2>4, Writes
<1>3. CASE Secret(r)
  <2>1. SetRow(Target(r), [row[Target(r)] EXCEPT !.secret = issued + 1, !.factor = FALSE])
    BY <1>3 DEF Secret
  <2>2. issued + 1 \in Nat
    BY DEF TypeOK
  <2>3. There(Target(r)) =>
          Alike(row[Target(r)],
                [row[Target(r)] EXCEPT !.secret = issued + 1, !.factor = FALSE])
    BY <1>c, <2>2 DEF Row, Alike
  <2> QED
    BY <1>b, <2>1, <2>3, Writes
<1>4. CASE FactorOn(r)
  <2>1. call[r].code \in Code /\ call[r].code[1] = "timed"
    BY <1>4 DEF FactorOn, DataFits, DataFit, StepsFit, StepFits
  <2>2. call[r].code[3] \in 0..MaxTime + 1
    BY <2>1, Constants DEF Code
  <2>3. SetRow(Target(r), [row[Target(r)] EXCEPT !.factor = TRUE, !.last = call[r].code[3]])
    BY <1>4 DEF FactorOn
  <2>4. There(Target(r)) =>
          Alike(row[Target(r)],
                [row[Target(r)] EXCEPT !.factor = TRUE, !.last = call[r].code[3]])
    BY <1>c, <2>2 DEF Row, Alike
  <2> QED
    BY <1>b, <2>3, <2>4, Writes
<1>5. CASE Unfactor(r)
  <2>1. SetRow(Target(r), [row[Target(r)] EXCEPT !.factor = FALSE, !.secret = 0, !.last = 0])
    BY <1>5 DEF Unfactor
  <2>2. 0 \in 0..MaxTime + 1
    BY Constants
  <2>3. There(Target(r)) =>
          Alike(row[Target(r)],
                [row[Target(r)] EXCEPT !.factor = FALSE, !.secret = 0, !.last = 0])
    BY <1>c, <2>2 DEF Row, Alike
  <2> QED
    BY <1>b, <2>1, <2>3, Writes
<1> QED
  BY <1>1, <1>2, <1>3, <1>4, <1>5

LEMMA OwnRowTyped ==
  ASSUME Typed, NEW r \in Request,
         Mark(r) \/ Pass(r) \/ Secret(r) \/ FactorOn(r) \/ Unfactor(r)
  PROVE  row' \in [User -> Row \cup {NotYet, Gone}]
<1>1. Target(r) \in User
  BY OwnRow
<1>2. PICK x : SetRow(Target(r), x) /\ (There(Target(r)) => Alike(row[Target(r)], x))
  BY OwnRow
<1> QED
  BY <1>1, <1>2, SetRowTyped DEF Typed, Alike

LEMMA StepTyped ==
  ASSUME Typed, NEW r \in Request, Step(r)
  PROVE  TypeOK'
<1> USE DEF Typed, NoStore, NoLogin, NoCodes, Kept, KeptButEarly, store, Does
<1>a. TypeOK /\ call[r] \in Call /\ at[r] \in Label
  BY DEF TypeOK
<1>b. at[r] \notin {"idle", "others"} => Target(r) \in User
  BY DEF DataFits, DataFit
<1>c. There(Target(r)) /\ Target(r) \in User => row[Target(r)] \in Row
  BY DEF There, TypeOK
<1>d. call[r].left \in Nat /\ call[r].set \in Nat /\ call[r].code \in Code \cup {None} /\ call[r].pass \in Nat
  BY <1>a DEF Call
<1>1. CASE Check(r)
  <2>1. at' \in [Request -> Label] /\ call' \in [Request -> Call]
    BY <1>1, GoToTyped, DoneTyped DEF Check, Label
  <2>2. wrong' \in 0..LoginMaxFails
    BY <1>1, Constants DEF Check, Failed, Blocked, TypeOK
  <2>3. There(Target(r)) => row[Target(r)].pass \in Nat
    BY <1>1, <1>b, <1>c DEF Check, Row
  <2>4. /\ challenges' \subseteq [id : Nat, user : User, pass : Nat, tries : Nat]
        /\ issued' \in Nat
    BY <1>1, <1>b, <2>3 DEF Check, TypeOK
  <2> QED
    BY <1>1, <2>1, <2>2, <2>4 DEF Check, TypeOK
<1>2. CASE Verify(r)
  BY <1>2, GoToTyped, DoneTyped DEF Verify, TypeOK, Label
<1>3. CASE Mark(r)
  <2>1. early' \subseteq User
    BY <1>3, <1>b DEF Mark, TypeOK
  <2> QED
    BY <1>3, <2>1, OwnRowTyped, GoToTyped DEF Mark, TypeOK, Label
<1>4. CASE Recover(r)
  <2>1. recovery' \in [User -> SUBSET Code]
    BY <1>4 DEF Recover, TypeOK
  <2>2. wrong' \in 0..LoginMaxFails
    BY <1>4, Constants DEF Recover, Failed, Blocked, TypeOK
  <2> QED
    BY <1>4, <2>1, <2>2, GoToTyped, DoneTyped DEF Recover, TypeOK, Label
<1>5. CASE Open(r)
  <2>1. There(Target(r)) => sessions' \subseteq [id : Nat, user : User, pass : Nat, late : BOOLEAN]
    <3> SUFFICES ASSUME There(Target(r))
                 PROVE  sessions' \subseteq [id : Nat, user : User, pass : Nat, late : BOOLEAN]
      OBVIOUS
    <3>1. Target(r) \in User /\ issued + 1 \in Nat
      BY <1>5, <1>b DEF Open, TypeOK
    <3>2. [id |-> issued + 1, user |-> Target(r), pass |-> call[r].pass,
           late |-> call[r].pass # row[Target(r)].pass]
             \in [id : Nat, user : User, pass : Nat, late : BOOLEAN]
      BY <3>1, <1>d
    <3>3. sessions' = sessions \cup
            {[id |-> issued + 1, user |-> Target(r), pass |-> call[r].pass,
              late |-> call[r].pass # row[Target(r)].pass]}
      BY <1>5 DEF Open
    <3> QED
      BY <3>2, <3>3 DEF TypeOK
  <2>2. spent' \subseteq Code /\ again' \subseteq Code
    BY <1>5, <1>d DEF Open, Spends, TypeOK
  <2>3. wrong' \in 0..LoginMaxFails
    BY <1>5, Constants DEF Open
  <2>4. issued' \in Nat
    BY <1>5 DEF Open, TypeOK
  <2>5. challenges' \subseteq [id : Nat, user : User, pass : Nat, tries : Nat]
    BY <1>5 DEF Open, TypeOK
  <2> QED
    BY <1>5, <2>1, <2>2, <2>3, <2>4, <2>5, DoneTyped DEF Open, TypeOK
<1>6. CASE Logout(r) \/ LogoutOthers(r)
  BY <1>6, DoneTyped DEF Logout, LogoutOthers, Without, TypeOK
<1>7. CASE Proof(r)
  <2>1. [call[r] EXCEPT !.left = RecoveryCount] \in Call
    BY <1>a, Constants DEF Call
  <2>2. at[r] = "proof" => Kind(r) \in {"change", "enable", "disable", "renew"}
    BY DEF StepsFit, StepFits
  <2>3. at' \in [Request -> Label] /\ call' \in [Request -> Call]
    BY <1>7, <2>1, <2>2, GoesTyped, DoneTyped DEF Proof, Label
  <2> QED
    BY <1>7, <2>3 DEF Proof, TypeOK
<1>8. CASE Pass(r)
  BY <1>8, OwnRowTyped, GoToTyped DEF Pass, TypeOK, Label
<1>9. CASE CloseOthers(r)
  <2>1. There(Target(r)) => row[Target(r)].pass \in Nat
    BY <1>9, <1>b, <1>c DEF CloseOthers, Row
  <2>2. sessions' \subseteq [id : Nat, user : User, pass : Nat, late : BOOLEAN]
    BY <1>9, <2>1 DEF CloseOthers, TypeOK
  <2> QED
    BY <1>9, <2>2, DoneTyped DEF CloseOthers, TypeOK
<1>10. CASE Unset(r)
  BY <1>10, GoToTyped, DoneTyped DEF Unset, TypeOK, Label
<1>11. CASE Secret(r)
  <2>1. issued' \in Nat
    BY <1>11 DEF Secret, TypeOK
  <2>2. row' \in [User -> Row \cup {NotYet, Gone}]
    BY <1>11, OwnRowTyped
  <2> QED
    BY <1>11, <2>1, <2>2, DoneTyped DEF Secret, TypeOK
<1>12. CASE Wipe(r)
  <2>1. [call[r] EXCEPT !.set = issued + 1] \in Call
    BY <1>a DEF Call, TypeOK
  <2>2. recovery' \in [User -> SUBSET Code]
    BY <1>12 DEF Wipe, TypeOK
  <2> QED
    BY <1>12, <2>1, <2>2, GoesTyped DEF Wipe, TypeOK, Label
<1>13. CASE StoreCode(r)
  <2>1. Recovery(call[r].set, call[r].left) \in Code
    BY <1>d DEF Recovery, Code
  <2>2. recovery' \in [User -> SUBSET Code]
    BY <1>13, <2>1 DEF StoreCode, TypeOK
  <2>3. call[r].left > 1 => [call[r] EXCEPT !.left = @ - 1] \in Call
    BY <1>a DEF Call
  <2>4. at' \in [Request -> Label] /\ call' \in [Request -> Call]
    BY <1>13, <2>3, GoesTyped, GoToTyped, DoneTyped DEF StoreCode, Label
  <2> QED
    BY <1>13, <2>2, <2>4 DEF StoreCode, TypeOK
<1>14. CASE FactorOn(r)
  <2>1. call[r].code \in Code
    BY <1>14 DEF FactorOn, DataFits, DataFit, StepsFit, StepFits
  <2> QED
    BY <1>14, <2>1, OwnRowTyped, DoneTyped DEF FactorOn, Spends, TypeOK
<1>15. CASE Unfactor(r)
  BY <1>15, OwnRowTyped, GoToTyped DEF Unfactor, TypeOK, Label
<1>16. CASE Forget(r)
  <2>1. AfterForget(r) \in Label
    BY DEF AfterForget, Label
  <2>2. recovery' \in [User -> SUBSET Code]
    BY <1>16 DEF Forget, TypeOK
  <2> QED
    BY <1>16, <2>1, <2>2, GoToTyped DEF Forget, TypeOK
<1>17. CASE Create(r)
  <2>1. call[r].role \in Role
    BY <1>17 DEF Create, DataFits, DataFit
  <2>2. [role |-> call[r].role, off |-> FALSE, pass |-> 1, must |-> TRUE,
         secret |-> 0, factor |-> FALSE, last |-> 0] \in Row
    BY <2>1, Constants DEF Row
  <2> QED
    BY <1>17, <2>2, DoneTyped DEF Create, TypeOK
<1>18. CASE Read(r)
  <2>1. There(Target(r)) => [call[r] EXCEPT !.was = row[Target(r)]] \in Call
    BY <1>18, <1>a, <1>b, <1>c DEF Call, Read
  <2> QED
    BY <1>18, <2>1, GoesTyped, DoneTyped DEF Read, TypeOK, Label
<1>19. CASE Self(r) \/ Count(r)
  BY <1>19, GoToTyped, DoneTyped DEF Self, Count, Written, TypeOK, Label
<1>20. CASE SetRole(r)
  <2>1. There(Target(r)) => [row[Target(r)] EXCEPT !.role = call[r].role] \in Row
    BY <1>20, <1>b, <1>c DEF SetRole, Row, DataFits, DataFit
  <2>2. row' \in [User -> Row \cup {NotYet, Gone}]
    BY <1>20, <1>b, <2>1, SetRowTyped DEF SetRole
  <2> QED
    BY <1>20, <2>2, GoToTyped DEF SetRole, AfterRole, TypeOK, Label
<1>21. CASE SetOff(r)
  <2>1. There(Target(r)) => [row[Target(r)] EXCEPT !.off = call[r].off] \in Row
    BY <1>21, <1>b, <1>c DEF SetOff, Row, DataFits, DataFit
  <2>2. row' \in [User -> Row \cup {NotYet, Gone}]
    BY <1>21, <1>b, <2>1, SetRowTyped DEF SetOff
  <2> QED
    BY <1>21, <2>2, GoToTyped DEF SetOff, AfterOff, TypeOK, Label
<1>22. CASE Close(r)
  BY <1>22, GoToTyped DEF Close, AfterClose, Without, TypeOK, Label
<1>23. CASE Remove(r)
  BY <1>23, <1>b, DoneTyped DEF Remove, Without, TypeOK
<1> QED
  BY <1>1, <1>2, <1>3, <1>4, <1>5, <1>6, <1>7, <1>8, <1>9, <1>10, <1>11, <1>12, <1>13, <1>14,
     <1>15, <1>16, <1>17, <1>18, <1>19, <1>20, <1>21, <1>22, <1>23 DEF Step

(* A step, or its failure, is of one request.                              *)
LEMMA OthersStay ==
  ASSUME TypeOK, NEW r \in Request, Step(r) \/ StatementFails(r) \/ Begin(r)
  PROVE  /\ \A q \in Request \ {r} : at'[q] = at[q] /\ call'[q] = call[q]
         /\ at' = [at EXCEPT ![r] = at'[r]] /\ call' = [call EXCEPT ![r] = call'[r]]
<1>1. CASE Begin(r)
  <2>1. PICK c, step : Start(r, c, step)
    BY <1>1 DEF Begin, BeginLogin, BeginCode, BeginOwn, BeginManaging, BeginOthers, BeginCli
  <2> QED
    BY <2>1 DEF Start, TypeOK
<1>2. CASE StatementFails(r)
  BY <1>2 DEF StatementFails, GoTo, Goes, TypeOK
<1>3. CASE Step(r)
  BY <1>3 DEF Step, Check, Verify, Mark, Recover, Open, Logout, LogoutOthers, Proof, Pass,
     CloseOthers, Unset, Secret, Wipe, StoreCode, FactorOn, Unfactor, Forget, Create, Read,
     Self, Count, SetRole, SetOff, Close, Remove, GoTo, Goes, Done, TypeOK
<1> QED
  BY <1>1, <1>2, <1>3

LEMMA BeginFits ==
  ASSUME Typed, NEW r \in Request, Begin(r)
  PROVE  StepFits(r)' /\ DataFit(r)'
<1> USE DEF Typed, StepFits, DataFit, Kind, Target
<1>1. CASE BeginLogin(r)
  BY <1>1 DEF BeginLogin, Start, Request0, TypeOK, Edit
<1>2. CASE BeginCode(r)
  <2>1. PICK ch \in challenges, c \in Code :
       Start(r, [Request0 EXCEPT !.kind = "code", !.user = ch.user,
                      !.pass = ch.pass, !.code = c, !.challenge = ch.id], "verify")
    BY <1>2, CodesTyped DEF BeginCode, TypeOK
  <2>2. ch.user \in User
    BY DEF TypeOK
  <2> QED
    BY <2>1, <2>2 DEF Start, Request0, TypeOK
<1>3. CASE BeginOwn(r)
  <2>1. PICK s \in sessions, k \in Own \cap given.kinds :
         \E c \in IF k = "enable" THEN Codes(s.user) ELSE {None} :
           Start(r, [Request0 EXCEPT !.kind = k, !.who = s.id,
                                     !.user = s.user, !.code = c], FirstOwn(k))
    BY <1>3 DEF BeginOwn
  <2>2. s.user \in User
    BY DEF TypeOK
  <2>3. PICK c : /\ k = "enable" => c \in Code
                 /\ Start(r, [Request0 EXCEPT !.kind = k, !.who = s.id,
                                     !.user = s.user, !.code = c], FirstOwn(k))
    BY <2>1, <2>2, CodesTyped
  <2> QED
    BY <2>2, <2>3 DEF Start, Request0, FirstOwn, Own, TypeOK
<1>4. CASE BeginManaging(r)
  <2>1. PICK id \in {0} \cup {s.id : s \in sessions}, k \in Managing \cap given.kinds,
             u \in User, role \in given.roles \cup {None}, off \in BOOLEAN \cup {None} :
          /\ k = "create" => role # None
          /\ k = "update" => <<role, off>> # <<None, None>>
          /\ Start(r, [Request0 EXCEPT !.kind = k, !.who = id, !.user = u,
                        !.role = role, !.off = off], FirstManaging(k))
    BY <1>4 DEF BeginManaging
  <2>2. role \in Role \cup {None}
    BY RowsFit DEF TypeOK
  <2> QED
    BY <2>1, <2>2 DEF Start, Request0, FirstManaging, Managing, Edit, TypeOK
<1>5. CASE BeginOthers(r)
  BY <1>5 DEF BeginOthers, Start, Request0, TypeOK
<1>6. CASE BeginCli(r)
  BY <1>6, Constants DEF BeginCli, Start, Request0, TypeOK
<1> QED
  BY <1>1, <1>2, <1>3, <1>4, <1>5, <1>6 DEF Begin

LEMMA StepFitsOn ==
  ASSUME Typed, NEW r \in Request, Step(r)
  PROVE  StepFits(r)' /\ DataFit(r)'
<1> USE DEF Typed, StepsFit, StepFits, DataFits, DataFit, Does, GoTo, Goes, Done, Kind, Target
<1>a. TypeOK /\ call[r] \in Call
  BY DEF TypeOK
<1>1. CASE Check(r) \/ Open(r) \/ Logout(r) \/ LogoutOthers(r) \/ CloseOthers(r)
  BY <1>1 DEF Check, Open, Logout, LogoutOthers, CloseOthers, TypeOK
<1>2. CASE Verify(r) \/ Mark(r) \/ Recover(r)
  BY <1>2 DEF Verify, Mark, Recover, Fits, TypeOK
<1>3. CASE Proof(r)
  <2>1. RecoveryCount \in 1..RecoveryCount
    BY Constants
  <2> QED
    BY <1>a, <1>3, <2>1 DEF Proof, Fits, TypeOK, Call
<1>4. CASE Pass(r) \/ Unset(r) \/ Secret(r) \/ FactorOn(r)
  BY <1>4 DEF Pass, Unset, Secret, FactorOn, TypeOK
<1>5. CASE Wipe(r)
  BY <1>a, <1>5 DEF Wipe, TypeOK, Call
<1>6. CASE StoreCode(r)
  BY <1>a, <1>6, Constants DEF StoreCode, TypeOK, Call
<1>7. CASE Unfactor(r) \/ Forget(r)
  BY <1>7 DEF Unfactor, Forget, AfterForget, TypeOK
<1>8. CASE Create(r) \/ Close(r) \/ Remove(r)
  BY <1>8 DEF Create, Close, Remove, AfterClose, TypeOK
<1>9. CASE Read(r)
  BY <1>a, <1>9 DEF Read, TypeOK, Call
<1>10. CASE Self(r) \/ Count(r)
  <2>1. call[r].role \in Role \cup {None}
    BY <1>a DEF Call
  <2>4. Kind(r) \in {"update", "delete"}
    BY <1>10 DEF Self, Count
  <2>2. /\ Written(r) \in {"close", "role", "off"}
        /\ Written(r) = "close" <=> Kind(r) = "delete"
        /\ Written(r) = "role" => call[r].role \in Role
    BY <2>1, <2>4, Constants DEF Written
  <2>3. Kind(r) = "update" /\ Written(r) = "off" => call[r].off \in BOOLEAN
    BY <1>10, <2>1, Constants DEF Written, Self, Count
  <2>5. at'[r] \in {"idle", "count", Written(r)} /\ (at'[r] # "idle" => call'[r] = call[r])
    BY <1>10, <1>a DEF Self, Count, TypeOK
  <2> QED
    BY <1>10, <2>2, <2>3, <2>4, <2>5 DEF Self, Count
<1>11. CASE SetRole(r) \/ SetOff(r)
  BY <1>a, <1>11, Constants DEF SetRole, SetOff, AfterRole, AfterOff, TypeOK, Call
<1> QED
  BY <1>1, <1>2, <1>3, <1>4, <1>5, <1>6, <1>7, <1>8, <1>9, <1>10, <1>11 DEF Step

LEMMA FailTyped ==
  ASSUME Typed, NEW r \in Request, StatementFails(r)
  PROVE  TypeOK' /\ StepFits(r)' /\ DataFit(r)'
<1> USE DEF Typed, StepsFit, StepFits, DataFits, DataFit
<1>1. Unlooked(r) \in Label
  BY DEF Unlooked, AfterForget, AfterRole, AfterOff, AfterClose, Label
<1>2. at' \in [Request -> Label] /\ call' \in [Request -> Call]
  BY <1>1, GoToTyped DEF StatementFails
<1>3. missed' \subseteq User \cup {None}
  BY DEF StatementFails, TypeOK
<1>4. TypeOK'
  BY <1>2, <1>3 DEF StatementFails, TypeOK, store
<1>5. StepFits(r)' /\ DataFit(r)'
  <2>1. call[r] \in Call /\ call'[r] = IF Unlooked(r) = "idle" THEN Request0 ELSE call[r]
    BY DEF StatementFails, GoTo, Goes, TypeOK
  <2>2. at'[r] = Unlooked(r)
    BY DEF StatementFails, GoTo, Goes, TypeOK
  <2>3. CASE Unlooked(r) = "idle"
    BY <2>2, <2>3
  <2>4. CASE Unlooked(r) # "idle"
    <3>1. call'[r] = call[r] /\ at[r] # "idle"
      BY <2>1, <2>4 DEF StatementFails
    <3>2. at[r] = "role" /\ Unlooked(r) = "off" => call[r].off \in BOOLEAN
      BY <2>1 DEF Unlooked, AfterRole, Call
    <3>3. StepFits(r)'
      BY <2>2, <3>1
      DEF Unlooked, AfterForget, AfterRole, AfterOff, AfterClose, Kind
    <3>4. Unlooked(r) \in {"open", "forget", "close", "off", "remove", "closeOthers", "idle"}
      BY DEF Unlooked, AfterForget, AfterRole, AfterOff, AfterClose
    <3>5. Unlooked(r) = "off" => at[r] = "role"
      BY DEF Unlooked, AfterForget, AfterRole, AfterOff, AfterClose
    <3>6. at[r] # "others" /\ Kind(r) # "enable"
      BY <2>4 DEF Unlooked, Kind
    <3>7. DataFit(r)'
      BY <2>2, <3>1, <3>2, <3>4, <3>5, <3>6 DEF Kind, Target
    <3> QED
      BY <3>3, <3>7
  <2> QED
    BY <2>3, <2>4
<1> QED
  BY <1>4, <1>5

LEMMA TypedStep == Typed /\ [Next]_vars => Typed'
<1> SUFFICES ASSUME Typed, [Next]_vars PROVE Typed'
  OBVIOUS
<1>1. ASSUME NEW r \in Request, Begin(r) \/ Step(r) \/ StatementFails(r) PROVE Typed'
  <2>1. TypeOK' /\ StepFits(r)' /\ DataFit(r)'
    BY <1>1, BeginTyped, BeginFits, StepTyped, StepFitsOn, FailTyped DEF Typed
  <2>2. ASSUME NEW q \in Request \ {r} PROVE StepFits(q)' /\ DataFit(q)'
    BY <1>1, OthersStay DEF Typed, StepsFit, StepFits, DataFits, DataFit, Kind, Target
  <2> QED
    BY <2>1, <2>2 DEF Typed, StepsFit, DataFits
<1>2. CASE Tick
  <2>1. time' \in 1..MaxTime + 1
    BY <1>2, Constants DEF Tick, Typed, TypeOK
  <2> QED
    BY <1>2, <2>1 DEF Tick, Typed, TypeOK, StepsFit, StepFits, DataFits, DataFit, Kind, Target,
                      store, history
<1>3. CASE Expire
  <2>1. wrong' \in 0..LoginMaxFails
    BY <1>3, Constants DEF Expire, Typed, TypeOK
  <2> QED
    BY <1>3, <2>1 DEF Expire, Typed, TypeOK, StepsFit, StepFits, DataFits, DataFit, Kind, Target,
                      history
<1>4. CASE Restart
  <2>1. call' \in [Request -> Call] /\ at' \in [Request -> Label]
    BY <1>4, NothingAsked DEF Restart, Label
  <2>2. missed' \subseteq User \cup {None}
    <3>1. ASSUME NEW q \in Request PROVE Target(q) \in User \cup {None}
      BY DEF Typed, TypeOK, Call, Target
    <3> QED
      BY <1>4, <3>1 DEF Restart, Typed, TypeOK
  <2>3. wrong' \in 0..LoginMaxFails
    BY <1>4, Constants DEF Restart
  <2>4. TypeOK'
    BY <1>4, <2>1, <2>2, <2>3 DEF Restart, Typed, TypeOK, store
  <2>5. \A q \in Request : at'[q] = "idle"
    BY <1>4 DEF Restart
  <2> QED
    BY <2>4, <2>5 DEF Typed, StepsFit, StepFits, DataFits, DataFit
<1>5. CASE UNCHANGED vars
  BY <1>5 DEF vars, store, history, Typed, TypeOK, StepsFit, StepFits, DataFits, DataFit, Kind, Target
<1> QED
  BY <1>1, <1>2, <1>3, <1>4, <1>5 DEF Next

(* The variables keep their types: rows, sessions, codes, and the steps    *)
(* and data of every request.                                              *)
THEOREM TypeCorrect == Spec => []TypeOK
<1>1. Spec => []Typed
  BY InitTyped, TypedStep, PTL DEF Spec
<1> QED
  BY <1>1, PTL DEF Typed

------------------------------------------------------------------------------
(* Who overlaps whom. *)

(* A step keeps what was asked, or ends the request. *)
LEMMA SameCall ==
  ASSUME Typed, NEW r \in Request, Step(r) \/ StatementFails(r)
  PROVE  /\ at[r] # "idle" /\ crossed' = crossed
         /\ at'[r] = "idle" \/ /\ Kind(r)' = Kind(r) /\ Target(r)' = Target(r)
                               /\ call'[r].code = call[r].code
                               /\ call'[r].role = call[r].role /\ call'[r].off = call[r].off
                               /\ call'[r].who = call[r].who
         /\ at[r] # "read" /\ at'[r] # "idle" => call'[r].was = call[r].was
<1> USE DEF Typed, TypeOK, Kind, Target, GoTo, Goes, Done, Does, Kept, KeptButEarly
<1>1. CASE StatementFails(r)
  BY <1>1 DEF StatementFails
<1>2. CASE Step(r)
  <2>1. CASE Check(r) \/ Verify(r) \/ Mark(r) \/ Recover(r) \/ Open(r) \/ Logout(r)
             \/ LogoutOthers(r) \/ Pass(r) \/ CloseOthers(r) \/ Unset(r)
             \/ Secret(r) \/ FactorOn(r) \/ Unfactor(r) \/ Forget(r)
    BY <2>1 DEF Check, Verify, Mark, Recover, Open, Logout, LogoutOthers, Pass, CloseOthers,
                Unset, Secret, FactorOn, Unfactor, Forget
  <2>2. CASE Create(r) \/ Self(r) \/ Count(r) \/ SetRole(r) \/ SetOff(r) \/ Close(r) \/ Remove(r)
    BY <2>2 DEF Create, Self, Count, SetRole, SetOff, Close, Remove
  <2>3. CASE Proof(r) \/ Wipe(r) \/ StoreCode(r) \/ Read(r)
    <3>1. call[r] \in Call /\ at \in [Request -> Label] /\ call \in [Request -> Call]
      OBVIOUS
    <3>2. CASE Proof(r)
      <4>1. at[r] = "proof" /\ crossed' = crossed
        BY <3>2 DEF Proof
      <4>2. \/ at'[r] = "idle"
            \/ call'[r] = [call[r] EXCEPT !.left = RecoveryCount]
        BY <3>1, <3>2 DEF Proof
      <4> QED
        BY <3>1, <4>1, <4>2 DEF Call
    <3>3. CASE Wipe(r)
      BY <3>1, <3>3 DEF Wipe, Call
    <3>4. CASE StoreCode(r)
      BY <3>1, <3>4 DEF StoreCode, Call
    <3>5. CASE Read(r)
      BY <3>1, <3>5 DEF Read, Call
    <3> QED
      BY <2>3, <3>2, <3>3, <3>4, <3>5
  <2> QED
    BY <1>2, <2>1, <2>2, <2>3 DEF Step
<1> QED
  BY <1>1, <1>2

LEMMA InTurnInit == Init => InTurn
  BY DEF Init, InTurn, Active

LEMMA InTurnStep == Typed /\ InTurn /\ [Next]_vars => InTurn'
<1> SUFFICES ASSUME Typed, InTurn, [Next]_vars PROVE InTurn'
  OBVIOUS
<1> USE DEF InTurn, Active, Kind, Target
<1>1. ASSUME NEW r \in Request, Begin(r) PROVE InTurn'
  <2>1. PICK c, step : Start(r, c, step)
    BY <1>1 DEF Begin, BeginLogin, BeginCode, BeginOwn, BeginManaging, BeginOthers, BeginCli
  <2>2. call'[r] = c /\ \A q \in Request \ {r} : at'[q] = at[q] /\ call'[q] = call[q]
    BY <2>1 DEF Start, Typed, TypeOK
  <2>3. crossed \subseteq crossed' /\ (Overlap(r, c) # {} => c.user \in crossed')
    BY <2>1 DEF Start
  <2>4. ASSUME NEW q \in Request \ {r}, at[q] # "idle",
               \/ call[q].kind \in Edit /\ c.kind \in Edit
               \/ call[q].kind \in Factor /\ c.kind \in Factor /\ call[q].user = c.user
        PROVE  c.user \in crossed'
    BY <2>3, <2>4 DEF Overlap
  <2> QED
    BY <2>2, <2>3, <2>4
<1>2. ASSUME NEW r \in Request, Step(r) \/ StatementFails(r) PROVE InTurn'
  BY <1>2, SameCall, OthersStay DEF Typed
<1>3. CASE Tick \/ Expire \/ UNCHANGED vars
  BY <1>3 DEF Tick, Expire, vars, history
<1>4. CASE Restart
  <2>1. \A q \in Request : at'[q] = "idle"
    BY <1>4 DEF Restart
  <2> QED
    BY <2>1
<1> QED
  BY <1>1, <1>2, <1>3, <1>4 DEF Next

------------------------------------------------------------------------------
(* An administrator remains. *)

(* Who is there, with which rights, is up to the edits. *)
RightsKept ==
  \A u \in User : There(u) =>
    /\ There(u)' /\ row'[u].role = row[u].role /\ row'[u].off = row[u].off

LEMMA StepKeepsRights ==
  ASSUME Typed, NEW r \in Request, Step(r), ~SetRole(r), ~SetOff(r), ~Remove(r)
  PROVE  RightsKept
<1> USE DEF RightsKept, There
<1>a. \A u \in User : There(u) => row[u] \in Row
  BY DEF Typed, TypeOK
<1>b. row \in [User -> Row \cup {NotYet, Gone}]
  BY DEF Typed, TypeOK
<1>2. CASE row' = row
  BY <1>2
<1>3. CASE Check(r) \/ Verify(r) \/ Recover(r) \/ Open(r) \/ Logout(r)
           \/ LogoutOthers(r) \/ Proof(r) \/ CloseOthers(r) \/ Unset(r) \/ Wipe(r)
           \/ StoreCode(r) \/ Forget(r) \/ Read(r) \/ Self(r) \/ Count(r) \/ Close(r)
  BY <1>2, <1>3 DEF Check, Verify, Recover, Open, Logout, LogoutOthers, Proof, CloseOthers,
     Unset, Wipe, StoreCode, Forget, Read, Self, Count, Close, NoStore, store
<1>4. CASE Mark(r) \/ Pass(r) \/ Secret(r) \/ FactorOn(r) \/ Unfactor(r)
  <2>1. PICK x : SetRow(Target(r), x) /\ (There(Target(r)) => Alike(row[Target(r)], x))
    BY <1>4, OwnRow
  <2> QED
    BY <1>b, <2>1, Constants DEF SetRow, Alike
<1>5. CASE Create(r)
  BY <1>5, <1>b DEF Create
<1> QED
  BY <1>3, <1>4, <1>5 DEF Step

LEMMA RightsOfOthers ==
  ASSUME RightsKept
  PROVE  /\ \A u \in User : IsAdmin(u) => IsAdmin(u)'
         /\ AdministratorRemains /\ crossed' = crossed => AdministratorRemains'
  BY DEF RightsKept, IsAdmin, There, AdministratorRemains

(* Who steps without editing disturbs no edit. *)
LEMMA SafeBesides ==
  ASSUME Typed, AdminInv, RightsKept, NEW q \in Request, crossed' = {}, crossed = {},
         at'[q] = at[q], call'[q] = call[q], Active(q, Edit)'
  PROVE  SafeEdit(q)'
<1>1. Active(q, Edit) /\ Target(q)' = Target(q) /\ Target(q) \in User
  BY DEF Active, Kind, Target, Typed, DataFits, DataFit, Edit, StepsFit, StepFits
<1>2. (WasAdmin(q)' <=> WasAdmin(q)) /\ (Demotes(q)' <=> Demotes(q))
  BY DEF WasAdmin, Demotes, NewRole, NewOff, Kind
<1>3. SafeEdit(q)
  BY <1>1 DEF AdminInv, EditsAreSafe
<1>4. AnotherAdmin(q) => AnotherAdmin(q)'
  BY <1>1, RightsOfOthers DEF AnotherAdmin
<1>5. IsAdmin(Target(q)) => IsAdmin(Target(q))'
  BY <1>1, RightsOfOthers
<1>6. There(Target(q)) => /\ There(Target(q))' /\ row'[Target(q)'].role = row[Target(q)].role
                          /\ row'[Target(q)'].off = row[Target(q)].off
  BY <1>1 DEF RightsKept, There
<1> QED
  BY <1>2, <1>3, <1>4, <1>5, <1>6 DEF SafeEdit

LEMMA EditStep ==
  ASSUME Typed, AdminInv, crossed = {}, NEW r \in Request, Step(r), Active(r, Edit)
  PROVE  (\E u \in User : IsAdmin(u))' /\ SafeEdit(r)'
<1> USE DEF Does
<1>a. /\ Target(r) \in User /\ call[r] \in Call /\ at \in [Request -> Label]
      /\ call \in [Request -> Call] /\ row \in [User -> Row \cup {NotYet, Gone}]
  BY DEF Active, Edit, Typed, TypeOK, DataFits, DataFit, StepsFit, StepFits
<1>b. SafeEdit(r) /\ \E u \in User : IsAdmin(u)
  BY DEF AdminInv, EditsAreSafe, AdministratorRemains
<1>c. Kind(r) \in Edit /\ at[r] \in {"read", "self", "count", "role", "off", "close", "remove"}
  BY DEF Active, Typed, StepsFit, StepFits, Edit
<1>d. (AnotherAdmin(r) \/ IsAdmin(Target(r))) => \E u \in User : IsAdmin(u)
  BY <1>a DEF AnotherAdmin
<1>1. CASE row' = row /\ at'[r] \in {"role", "off", "close", "remove", "idle"}
           /\ (at'[r] # "idle" => call'[r] = call[r])
           /\ (at'[r] # "idle" =>
                 IF WasAdmin(r) /\ ~Demotes(r) THEN IsAdmin(Target(r)) ELSE AnotherAdmin(r))
  BY <1>1, <1>b DEF SafeEdit, IsAdmin, There, AnotherAdmin, WasAdmin, Demotes, NewRole, NewOff,
                    Kind, Target
<1>2. CASE Read(r)
  <2>1. row' = row
    BY <1>2 DEF Read, NoStore, store
  <2>2. CASE There(Target(r))
    <3>1. at'[r] = "self" /\ call'[r] = [call[r] EXCEPT !.was = row[Target(r)]]
      BY <1>2, <1>a, <1>c, <2>2 DEF Read, Goes, Edit
    <3>2. Target(r)' = Target(r) /\ call'[r].was = row[Target(r)]
      BY <3>1, <1>a DEF Target, Call
    <3> QED
      BY <2>1, <2>2, <3>1, <3>2, <1>a, <1>b DEF SafeEdit, There, IsAdmin
  <2>3. CASE ~There(Target(r))
    <3>1. at'[r] = "idle"
      BY <1>2, <1>a, <2>3 DEF Read, Done, GoTo, Goes
    <3> QED
      BY <2>1, <3>1, <1>b DEF SafeEdit, IsAdmin, There
  <2> QED
    BY <2>2, <2>3
<1>3. CASE Self(r)
  <2>1. row' = row /\ at[r] = "self"
    BY <1>3 DEF Self, NoStore, store
  <2>2. CASE at'[r] = "count"
    <3>1. call'[r] = call[r]
      BY <1>3, <1>a, <2>2 DEF Self, GoTo, Goes, Done
    <3> QED
      BY <2>1, <2>2, <3>1, <1>b DEF SafeEdit, There, IsAdmin, Target
  <2>3. CASE at'[r] # "count"
    <3>1. at'[r] \in {"idle", "close", "role", "off"} /\ (at'[r] # "idle" => call'[r] = call[r])
      BY <1>3, <1>a, <2>3 DEF Self, GoTo, Goes, Done, Written
    <3>2. at'[r] # "idle" => ~(WasAdmin(r) /\ Demotes(r))
      BY <1>3, <1>a, <2>3 DEF Self, GoTo, Goes, Done
    <3>3. WasAdmin(r) => IsAdmin(Target(r))
      BY <2>1, <1>b DEF SafeEdit, WasAdmin, IsAdmin
    <3>4. ~WasAdmin(r) => AnotherAdmin(r)
      BY <2>1, <1>b DEF SafeEdit, WasAdmin, IsAdmin, AnotherAdmin
    <3> QED
      BY <1>1, <2>1, <3>1, <3>2, <3>3, <3>4
  <2> QED
    BY <2>2, <2>3
<1>4. CASE Count(r)
  <2>1. row' = row /\ at[r] = "count"
    BY <1>4 DEF Count, NoStore, store
  <2>2. at'[r] \in {"idle", "close", "role", "off"} /\ (at'[r] # "idle" => call'[r] = call[r])
    BY <1>4, <1>a DEF Count, GoTo, Goes, Done, Written
  <2>3. at'[r] # "idle" => AdminCount(Target(r)) # 0
    BY <1>4, <1>a DEF Count, GoTo, Goes, Done
  <2>4. at'[r] # "idle" => AnotherAdmin(r)
    BY <2>3, FS_EmptySet DEF AdminCount, AnotherAdmin
  <2>5. WasAdmin(r) => IsAdmin(Target(r))
    BY <2>1, <1>b DEF SafeEdit, WasAdmin, IsAdmin
  <2> QED
    BY <1>1, <2>1, <2>2, <2>4, <2>5
<1>5. CASE Close(r)
  <2>1. row' = row /\ at[r] = "close"
    BY <1>5 DEF Close
  <2>2. at'[r] \in {"idle", "remove"} /\ (at'[r] # "idle" => call'[r] = call[r])
    BY <1>5, <1>a DEF Close, AfterClose, GoTo, Goes
  <2> QED
    BY <1>1, <1>b, <2>1, <2>2 DEF SafeEdit
<1>6. CASE SetRole(r) \/ SetOff(r) \/ Remove(r)
  <2>1. /\ at[r] \in {"role", "off", "remove"}
        /\ at'[r] \in {"off", "close", "idle"} /\ (at'[r] # "idle" => call'[r] = call[r])
    BY <1>6, <1>a DEF SetRole, SetOff, Remove, AfterRole, AfterOff, Done, GoTo, Goes
  <2>2. \A u \in User \ {Target(r)} : row'[u] = row[u]
    BY <1>6, <1>a DEF SetRole, SetOff, Remove, SetRow
  <2>3. AnotherAdmin(r) => \E u \in User \ {Target(r)} : IsAdmin(u)'
    BY <2>2 DEF AnotherAdmin, IsAdmin, There
  <2>4. ASSUME WasAdmin(r), ~Demotes(r)
        PROVE  IsAdmin(Target(r)) /\ row'[Target(r)].role = "admin" /\ ~row'[Target(r)].off
               /\ row'[Target(r)] \notin {NotYet, Gone}
    <3>1. IsAdmin(Target(r)) /\ row[Target(r)] \in Row
      BY <1>a, <1>b, <2>1, <2>4 DEF SafeEdit, IsAdmin, There
    <3>2. NewRole(r) = "admin" /\ ~NewOff(r) /\ Kind(r) # "delete"
      BY <2>4 DEF Demotes
    <3>3. CASE SetRole(r)
      <4>1. call[r].role = "admin"
        BY <3>2, <3>3, Constants DEF SetRole, NewRole, Typed, DataFits, DataFit
      <4>2. row'[Target(r)] = [row[Target(r)] EXCEPT !.role = "admin"]
        BY <3>1, <3>3, <4>1, <1>a DEF SetRole, SetRow, IsAdmin
      <4>3. row'[Target(r)] \in Row
        BY <3>1, <4>2 DEF Row, Role
      <4> QED
        BY <3>1, <4>2, <4>3, Constants DEF Row, IsAdmin
    <3>4. CASE SetOff(r)
      <4>1. call[r].off = FALSE
        BY <3>2, <3>4, Constants DEF SetOff, NewOff, Typed, DataFits, DataFit
      <4>2. row'[Target(r)] = [row[Target(r)] EXCEPT !.off = FALSE]
        BY <3>1, <3>4, <4>1, <1>a DEF SetOff, SetRow, IsAdmin
      <4>3. row'[Target(r)] \in Row
        BY <3>1, <4>2 DEF Row
      <4> QED
        BY <3>1, <4>2, <4>3, Constants DEF Row, IsAdmin
    <3>5. CASE Remove(r)
      BY <3>2, <3>5 DEF Remove, Typed, StepsFit, StepFits
    <3> QED
      BY <1>6, <3>1, <3>3, <3>4, <3>5
  <2>5. WasAdmin(r) /\ ~Demotes(r) => \E u \in User : IsAdmin(u)'
    BY <1>a, <2>4 DEF IsAdmin, There
  <2>6. ~(WasAdmin(r) /\ ~Demotes(r)) => AnotherAdmin(r)
    BY <1>b, <2>1 DEF SafeEdit
  <2>7. (\E u \in User : IsAdmin(u))'
    BY <2>3, <2>5, <2>6
  <2>8. CASE at'[r] = "idle"
    BY <2>7, <2>8 DEF SafeEdit
  <2>9. CASE at'[r] # "idle"
    <3>1. call'[r] = call[r] /\ Target(r)' = Target(r) /\ WasAdmin(r)' = WasAdmin(r)
          /\ Demotes(r)' = Demotes(r) /\ at'[r] \notin {"self", "count"}
      BY <2>1, <2>9 DEF Target, WasAdmin, Demotes, NewRole, NewOff, Kind
    <3>2. WasAdmin(r) /\ ~Demotes(r) => IsAdmin(Target(r))'
      BY <2>4, <3>1 DEF IsAdmin, There
    <3>3. AnotherAdmin(r) => AnotherAdmin(r)'
      BY <2>3, <3>1 DEF AnotherAdmin
    <3> QED
      BY <2>6, <2>7, <3>1, <3>2, <3>3 DEF SafeEdit
  <2> QED
    BY <2>8, <2>9
<1> QED
  BY <1>c, <1>2, <1>3, <1>4, <1>5, <1>6
  DEF Step, Check, Verify, Mark, Recover, Open, Logout, LogoutOthers, Proof, Pass, CloseOthers,
      Unset, Secret, Wipe, StoreCode, FactorOn, Unfactor, Forget, Create

LEMMA AdminStep == Typed /\ InTurn /\ AdminInv /\ [Next]_vars => AdminInv'
<1> SUFFICES ASSUME Typed, InTurn, AdminInv, [Next]_vars, crossed' = {}
             PROVE  (\E u \in User : IsAdmin(u))'
                    /\ \A r \in Request : Active(r, Edit)' => SafeEdit(r)'
  BY DEF AdminInv, AdministratorRemains, EditsAreSafe
<1>1. ASSUME NEW r \in Request, Step(r) \/ StatementFails(r) \/ Begin(r), RightsKept,
             crossed = {}, Active(r, Edit)' => SafeEdit(r)'
      PROVE  (\E u \in User : IsAdmin(u))'
             /\ \A q \in Request : Active(q, Edit)' => SafeEdit(q)'
  <2>1. (\E u \in User : IsAdmin(u))'
    BY <1>1, RightsOfOthers DEF AdminInv, AdministratorRemains
  <2>2. ASSUME NEW q \in Request \ {r}, Active(q, Edit)' PROVE SafeEdit(q)'
    BY <1>1, <2>2, OthersStay, SafeBesides DEF Typed
  <2> QED
    BY <1>1, <2>1, <2>2
<1>2. ASSUME NEW r \in Request, Begin(r)
      PROVE  RightsKept /\ crossed = {} /\ (Active(r, Edit)' => SafeEdit(r)')
  <2>1. PICK c, step : Start(r, c, step)
    BY <1>2 DEF Begin, BeginLogin, BeginCode, BeginOwn, BeginManaging, BeginOthers, BeginCli
  <2>2. row' = row /\ crossed = {}
    BY <2>1 DEF Start, store
  <2>3. Kind(r)' \in Edit => at'[r] = "read"
    <3> USE DEF Start, Kind, Request0, Edit, Typed, TypeOK
    <3>1. CASE BeginLogin(r)
      BY <3>1 DEF BeginLogin
    <3>2. CASE BeginCode(r)
      BY <3>2 DEF BeginCode
    <3>3. CASE BeginOwn(r)
      BY <3>3 DEF BeginOwn, Own
    <3>4. CASE BeginManaging(r)
      BY <3>4 DEF BeginManaging, FirstManaging
    <3>5. CASE BeginOthers(r)
      BY <3>5 DEF BeginOthers
    <3>6. CASE BeginCli(r)
      BY <3>6 DEF BeginCli
    <3> QED
      BY <1>2, <3>1, <3>2, <3>3, <3>4, <3>5, <3>6 DEF Begin
  <2> QED
    BY <2>2, <2>3 DEF RightsKept, There, SafeEdit, Active
<1>3. ASSUME NEW r \in Request, StatementFails(r)
      PROVE  RightsKept /\ crossed = {} /\ (Active(r, Edit)' => SafeEdit(r)')
  <2>1. row' = row /\ crossed = {}
    BY <1>3 DEF StatementFails, store
  <2>2. ASSUME at'[r] # "idle", Kind(r)' \in Edit
        PROVE  /\ call'[r] = call[r] /\ Active(r, Edit)
               /\ at[r] \in {"role", "off", "close", "remove"}
               /\ at'[r] \in {"role", "off", "close", "remove"}
    <3>1. call'[r] = call[r]
      BY <1>3, <2>2 DEF StatementFails, GoTo, Goes, Typed, TypeOK
    <3>2. Kind(r) \in Edit /\ StepFits(r)
      BY <2>2, <3>1 DEF Kind, Typed, StepsFit
    <3>3. at[r] \in {"role", "off", "close", "remove"}
      BY <1>3, <3>2 DEF StatementFails, StepFits, Edit
    <3>4. at'[r] \in {"role", "off", "close", "remove"}
      BY <1>3, <2>2, <3>3 DEF StatementFails, GoTo, Goes, Unlooked, AfterRole, AfterOff, AfterClose,
         Typed, TypeOK
    <3> QED
      BY <3>1, <3>2, <3>3, <3>4 DEF Active
  <2>3. ASSUME Active(r, Edit)' PROVE SafeEdit(r)'
    <3>1. SafeEdit(r)
      BY <2>1, <2>2, <2>3 DEF AdminInv, EditsAreSafe, Active
    <3> QED
      BY <2>1, <2>2, <2>3, <3>1 DEF Active, SafeEdit, There, IsAdmin, AnotherAdmin, WasAdmin,
         Demotes, NewRole, NewOff, Kind, Target
  <2> QED
    BY <2>1, <2>3 DEF RightsKept, There
<1>4. ASSUME NEW r \in Request, Step(r), ~Active(r, Edit)
      PROVE  RightsKept /\ crossed = {} /\ (Active(r, Edit)' => SafeEdit(r)')
  <2>1. ~SetRole(r) /\ ~SetOff(r) /\ ~Remove(r)
    BY <1>4 DEF SetRole, SetOff, Remove, Does, Active, Typed, StepsFit, StepFits, Edit
  <2>2. at[r] # "idle" /\ crossed' = crossed /\ (at'[r] = "idle" \/ Kind(r)' = Kind(r))
    BY <1>4, SameCall
  <2> QED
    BY <1>4, <2>1, <2>2, StepKeepsRights DEF Active
<1>5. ASSUME NEW r \in Request, Step(r), Active(r, Edit)
      PROVE  (\E u \in User : IsAdmin(u))'
             /\ \A q \in Request : Active(q, Edit)' => SafeEdit(q)'
  <2>1. crossed = {}
    BY <1>5, SameCall
  <2>2. \A q \in Request \ {r} : ~Active(q, Edit)'
    <3>1. \A q \in Request \ {r} : ~Active(q, Edit)
      BY <1>5, <2>1 DEF InTurn
    <3> QED
      BY <1>5, <3>1, OthersStay DEF Active, Kind, Typed
  <2> QED
    BY <1>5, <2>1, <2>2, EditStep
<1>6. CASE Tick \/ Expire \/ UNCHANGED vars
  <2>1. row' = row /\ crossed' = crossed /\ at' = at /\ call' = call
    BY <1>6 DEF Tick, Expire, vars, store, history
  <2> QED
    BY <2>1 DEF AdminInv, AdministratorRemains, EditsAreSafe, Active, SafeEdit, There, IsAdmin,
       AnotherAdmin, WasAdmin, Demotes, NewRole, NewOff, Kind, Target
<1>7. CASE Restart
  <2>1. row' = row /\ crossed' = crossed /\ \A r \in Request : at'[r] = "idle"
    BY <1>7 DEF Restart, store
  <2> QED
    BY <2>1 DEF AdminInv, AdministratorRemains, Active, IsAdmin, There
<1> QED
  BY <1>1, <1>2, <1>3, <1>4, <1>5, <1>6, <1>7 DEF Next

LEMMA InitAdmin == Init => AdminInv
<1> SUFFICES ASSUME Init PROVE AdminInv
  OBVIOUS
<1>1. \E u \in User : IsAdmin(u)
  <2>1. PICK s \in Scenario : row = s.row
    BY DEF Init
  <2>2. PICK u \in User : row[u] # NotYet /\ row[u].role = "admin" /\ ~row[u].off
    BY <2>1, AccountsAssumption
  <2>3. row[u] \in Row
    BY <2>1, <2>2, RowsFit
  <2> QED
    BY <2>2, <2>3, Constants DEF IsAdmin, There
<1>2. \A r \in Request : ~Active(r, Edit)
  BY DEF Init, Active
<1> QED
  BY <1>1, <1>2 DEF AdminInv, AdministratorRemains, EditsAreSafe

(* Whatever is edited, switched off and deleted, and whatever fails, an    *)
(* administrator remains who is not switched off, as long as no two edits  *)
(* overlap.                                                                *)
THEOREM AnAdministratorRemains == Spec => []AdministratorRemains
<1>1. Init => Typed /\ InTurn /\ AdminInv
  BY InitTyped, InTurnInit, InitAdmin
<1>2. Typed /\ InTurn /\ AdminInv /\ [Next]_vars => (Typed /\ InTurn /\ AdminInv)'
  BY TypedStep, InTurnStep, AdminStep
<1>3. Typed /\ InTurn /\ AdminInv => AdministratorRemains
  BY DEF AdminInv
<1> QED
  BY <1>1, <1>2, <1>3, PTL DEF Spec

------------------------------------------------------------------------------
(* Sessions fall with their password.                                      *)

(* The password of a user is only written by Pass. *)
PassKept ==
  \A u \in User : There(u) => There(u)' /\ row'[u].pass = row[u].pass

LEMMA StepKeepsPass ==
  ASSUME Typed, NEW r \in Request, Step(r), ~Pass(r), ~Remove(r)
  PROVE  PassKept
<1> USE DEF PassKept, There
<1>a. (\A u \in User : There(u) => row[u] \in Row) /\ row \in [User -> Row \cup {NotYet, Gone}]
  BY DEF Typed, TypeOK
<1>1. CASE row' = row
  BY <1>1
<1>2. CASE Check(r) \/ Verify(r) \/ Recover(r) \/ Open(r) \/ Logout(r)
           \/ LogoutOthers(r) \/ Proof(r) \/ CloseOthers(r) \/ Unset(r) \/ Wipe(r)
           \/ StoreCode(r) \/ Forget(r) \/ Read(r) \/ Self(r) \/ Count(r) \/ Close(r)
  BY <1>1, <1>2 DEF Check, Verify, Recover, Open, Logout, LogoutOthers, Proof, CloseOthers,
     Unset, Wipe, StoreCode, Forget, Read, Self, Count, Close, NoStore, store
<1>c. at[r] \notin {"idle", "others"} => Target(r) \in User
  BY DEF Typed, DataFits, DataFit
<1>3. ASSUME NEW new, Target(r) \in User, SetRow(Target(r), new),
             There(Target(r)) => /\ row'[Target(r)] \in Row
                                 /\ row'[Target(r)].pass = row[Target(r)].pass
      PROVE  PassKept
  BY <1>3, <1>a, Constants DEF SetRow
<1>d. ASSUME Mark(r) \/ Secret(r) \/ FactorOn(r) \/ Unfactor(r)
      PROVE  Target(r) \in User /\ (There(Target(r)) => row'[Target(r)] \in Row)
  BY <1>d, <1>a, OwnRow DEF SetRow, Alike
<1>4. CASE Mark(r)
  <2>1. SetRow(Target(r), [row[Target(r)] EXCEPT !.last = call[r].code[3]])
    BY <1>4 DEF Mark
  <2>2. There(Target(r)) => row'[Target(r)].pass = row[Target(r)].pass
    BY <1>a, <1>d, <1>4, <2>1 DEF SetRow, Row
  <2> QED
    BY <1>3, <1>d, <1>4, <2>1, <2>2
<1>5. CASE Secret(r)
  <2>1. SetRow(Target(r), [row[Target(r)] EXCEPT !.secret = issued + 1, !.factor = FALSE])
    BY <1>5 DEF Secret
  <2>2. There(Target(r)) => row'[Target(r)].pass = row[Target(r)].pass
    BY <1>a, <1>d, <1>5, <2>1 DEF SetRow, Row
  <2> QED
    BY <1>3, <1>d, <1>5, <2>1, <2>2
<1>6. CASE FactorOn(r)
  <2>1. SetRow(Target(r), [row[Target(r)] EXCEPT !.factor = TRUE, !.last = call[r].code[3]])
    BY <1>6 DEF FactorOn
  <2>2. There(Target(r)) => row'[Target(r)].pass = row[Target(r)].pass
    BY <1>a, <1>d, <1>6, <2>1 DEF SetRow, Row
  <2> QED
    BY <1>3, <1>d, <1>6, <2>1, <2>2
<1>7. CASE Unfactor(r)
  <2>1. SetRow(Target(r), [row[Target(r)] EXCEPT !.factor = FALSE, !.secret = 0, !.last = 0])
    BY <1>7 DEF Unfactor
  <2>2. There(Target(r)) => row'[Target(r)].pass = row[Target(r)].pass
    BY <1>a, <1>d, <1>7, <2>1 DEF SetRow, Row
  <2> QED
    BY <1>3, <1>d, <1>7, <2>1, <2>2
<1>8. CASE SetRole(r)
  <2>1. SetRow(Target(r), [row[Target(r)] EXCEPT !.role = call[r].role]) /\ Target(r) \in User
    BY <1>8, <1>c DEF SetRole, Does
  <2>2. There(Target(r)) => row'[Target(r)].pass = row[Target(r)].pass
    BY <1>a, <2>1 DEF SetRow, Row
  <2>3. There(Target(r)) => row'[Target(r)] \in Row
    BY <1>8, <1>a, <2>1 DEF SetRow, Row, SetRole, Does, Typed, DataFits, DataFit
  <2> QED
    BY <1>3, <2>1, <2>2, <2>3
<1>9. CASE SetOff(r)
  <2>1. SetRow(Target(r), [row[Target(r)] EXCEPT !.off = call[r].off]) /\ Target(r) \in User
    BY <1>9, <1>c DEF SetOff, Does
  <2>2. There(Target(r)) => row'[Target(r)].pass = row[Target(r)].pass
    BY <1>a, <2>1 DEF SetRow, Row
  <2>3. There(Target(r)) => row'[Target(r)] \in Row
    BY <1>9, <1>a, <2>1 DEF SetRow, Row, SetOff, Does, Typed, DataFits, DataFit
  <2> QED
    BY <1>3, <2>1, <2>2, <2>3
<1>10. CASE Create(r)
  BY <1>10, <1>a, <1>c DEF Create, Does
<1> QED
  BY <1>2, <1>4, <1>5, <1>6, <1>7, <1>8, <1>9, <1>10 DEF Step

(* What SessionInv says of one session. *)
SessionFits(s) ==
  /\ There(s.user)
  /\ s.pass = row[s.user].pass \/ s.late \/ s.user \in missed \/ Doomed(s)

(* While its user keeps the password, a session stays as it is, unless the *)
(* request that was to close it is over.                                   *)
LEMMA FitsStill ==
  ASSUME Typed, NEW s \in sessions, SessionFits(s), There(s.user)',
         row'[s.user].pass = row[s.user].pass, missed \subseteq missed',
         Doomed(s) => Doomed(s)' \/ s.user \in missed'
  PROVE  SessionFits(s)'
  BY DEF SessionFits

LEMMA SessionStep == Typed /\ SessionInv /\ [Next]_vars => SessionInv'
<1> SUFFICES ASSUME Typed, SessionInv, [Next]_vars, NEW s \in sessions' PROVE SessionFits(s)'
  BY DEF SessionInv, SessionFits
<1>a. \A x \in sessions : SessionFits(x) /\ x.user \in User
  BY DEF SessionInv, SessionFits, Typed, TypeOK
<1>b. \A u \in User : There(u) => row[u] \in Row
  BY DEF Typed, TypeOK, There
<1>1. ASSUME NEW r \in Request, Step(r) \/ StatementFails(r) \/ Begin(r), s \in sessions,
             Doomed(s), ~Doomed(s)'
      PROVE  at[r] = "closeOthers" /\ Target(r) = s.user
  BY <1>1, OthersStay DEF Doomed, Target, Typed
<1>2. ASSUME NEW r \in Request, Begin(r) PROVE SessionFits(s)'
  <2>1. PICK c, step : Start(r, c, step)
    BY <1>2 DEF Begin, BeginLogin, BeginCode, BeginOwn, BeginManaging, BeginOthers, BeginCli
  <2>2. at[r] = "idle"
    BY <1>2 DEF Begin
  <2> QED
    BY <1>1, <1>2, <1>a, <2>1, <2>2, FitsStill DEF Start, store, There, SessionFits
<1>3. ASSUME NEW r \in Request, StatementFails(r) PROVE SessionFits(s)'
  <2>1. at[r] = "closeOthers" => Target(r) \in missed'
    BY <1>3 DEF StatementFails
  <2> QED
    BY <1>1, <1>3, <1>a, <2>1, FitsStill DEF StatementFails, store, There, SessionFits
<1>4. ASSUME NEW r \in Request, Step(r), ~Pass(r), ~Remove(r), ~CloseOthers(r), ~Open(r)
      PROVE  SessionFits(s)'
  <2>1. sessions' \subseteq sessions /\ missed' = missed /\ at[r] # "closeOthers"
    BY <1>4 DEF Step, Check, Verify, Mark, Recover, Logout, LogoutOthers, Proof, Unset, Secret,
       Wipe, StoreCode, FactorOn, Unfactor, Forget, Create, Read, Self, Count, SetRole, SetOff,
       Close, Without, NoStore, store, Kept, KeptButEarly, Does
  <2>2. PassKept
    BY <1>4, StepKeepsPass
  <2> QED
    BY <1>1, <1>4, <1>a, <2>1, <2>2, FitsStill DEF PassKept, SessionFits
<1>5. ASSUME NEW r \in Request, Pass(r) PROVE SessionFits(s)'
  <2>1. sessions' = sessions /\ missed' = missed /\ at[r] = "pass" /\ Step(r)
    BY <1>5 DEF Pass, Kept, KeptButEarly, Does, Step
  <2>2. PICK new : SetRow(Target(r), new) /\ Target(r) \in User
                   /\ (There(Target(r)) => Alike(row[Target(r)], new))
    BY <1>5, OwnRow
  <2>3. CASE s.user = Target(r)
    <3>1. There(Target(r)) /\ Alike(row[Target(r)], new)
      BY <1>a, <2>1, <2>2, <2>3 DEF SessionFits
    <3>2. There(s.user)'
      <4>1. row'[s.user] = new
        BY <2>2, <2>3, <3>1 DEF Typed, TypeOK, SetRow
      <4> QED
        BY <3>1, <4>1, Constants DEF There, Alike
    <3>3. at'[r] = "closeOthers" /\ Target(r)' = Target(r)
      BY <1>5, <3>1 DEF Pass, GoTo, Goes, Target, Typed, TypeOK
    <3> QED
      BY <2>3, <3>2, <3>3 DEF SessionFits, Doomed
  <2>4. CASE s.user # Target(r)
    <3>1. row'[s.user] = row[s.user] /\ There(s.user)'
      BY <1>a, <2>1, <2>2, <2>4 DEF Typed, TypeOK, SetRow, There, SessionFits
    <3> QED
      BY <1>1, <1>a, <2>1, <3>1, FitsStill
  <2> QED
    BY <2>3, <2>4
<1>6. ASSUME NEW r \in Request, Remove(r) PROVE SessionFits(s)'
  <2>1. /\ s \in sessions /\ s.user # Target(r) /\ missed' = missed /\ at[r] = "remove"
        /\ Step(r)
    BY <1>6 DEF Remove, Without, OfUser, Kept, KeptButEarly, Does, Step
  <2>2. row'[s.user] = row[s.user] /\ There(s.user)'
    BY <1>6, <1>a, <2>1 DEF Remove, There, SessionFits, Typed, TypeOK
  <2> QED
    BY <1>1, <1>a, <2>1, <2>2, FitsStill
<1>7. ASSUME NEW r \in Request, Open(r) PROVE SessionFits(s)'
  <2>1. row' = row /\ missed' = missed /\ at[r] = "open" /\ Step(r)
    BY <1>7 DEF Open, Kept, KeptButEarly, Does, Step
  <2>2. CASE s \in sessions
    BY <1>1, <1>a, <2>1, <2>2, FitsStill DEF There, SessionFits
  <2>3. CASE s \notin sessions
    <3>1. /\ There(Target(r))
          /\ s = [id |-> issued + 1, user |-> Target(r), pass |-> call[r].pass,
                  late |-> call[r].pass # row[Target(r)].pass]
      BY <1>7, <2>3 DEF Open
    <3> QED
      BY <2>1, <3>1 DEF SessionFits, There
  <2> QED
    BY <2>2, <2>3
<1>8. ASSUME NEW r \in Request, CloseOthers(r) PROVE SessionFits(s)'
  <2>1. row' = row /\ missed' = missed /\ at[r] = "closeOthers" /\ Step(r)
    BY <1>8 DEF CloseOthers, Kept, KeptButEarly, Does, Step
  <2>2. PICK x \in sessions :
          /\ ~Closes(r, x)
          /\ s = IF x.id = call[r].who /\ x.user = Target(r) /\ There(Target(r))
                 THEN [x EXCEPT !.pass = row[Target(r)].pass] ELSE x
    BY <1>8 DEF CloseOthers
  <2>3. SessionFits(x) /\ x \in [id : Nat, user : User, pass : Nat, late : BOOLEAN]
    BY <1>a DEF Typed, TypeOK
  <2>4. CASE x.id = call[r].who /\ x.user = Target(r) /\ There(Target(r))
    <3>1. s.user = Target(r) /\ s.pass = row[Target(r)].pass
      BY <2>2, <2>3, <2>4
    <3> QED
      BY <2>1, <2>4, <3>1 DEF SessionFits, There
  <2>5. CASE ~(x.id = call[r].who /\ x.user = Target(r) /\ There(Target(r)))
    <3>1. s = x /\ x.user # Target(r)
      BY <2>1, <2>2, <2>3, <2>5 DEF Closes, SessionFits
    <3> QED
      BY <1>1, <1>a, <2>1, <3>1, FitsStill DEF There, SessionFits
  <2> QED
    BY <2>4, <2>5
<1>9. CASE Tick \/ Expire \/ UNCHANGED vars
  <2>1. s \in sessions /\ row' = row /\ missed' = missed /\ at' = at /\ call' = call
    BY <1>9 DEF Tick, Expire, vars, store, history
  <2> QED
    BY <1>a, <2>1, FitsStill DEF There, SessionFits, Doomed, Target
<1>10. CASE Restart
  <2>1. s \in sessions /\ row' = row
        /\ missed' = missed \cup {Target(r) : r \in {q \in Request : Does(q, "closeOthers")}}
    BY <1>10 DEF Restart, store
  <2>2. Doomed(s) => s.user \in missed'
    BY <2>1 DEF Doomed, Does
  <2> QED
    BY <1>a, <2>1, <2>2, FitsStill DEF There, SessionFits
<1> QED
  BY <1>2, <1>3, <1>4, <1>5, <1>6, <1>7, <1>8, <1>9, <1>10 DEF Next

LEMMA InitSessions == Init => SessionInv
<1> SUFFICES ASSUME Init, NEW x \in sessions PROVE There(x.user) /\ x.pass = row[x.user].pass
  BY DEF SessionInv
<1>1. PICK s \in Scenario :
         /\ row = s.row
         /\ sessions = {[id |-> s.number[u], user |-> u, pass |-> s.row[u].pass, late |-> FALSE]
                          : u \in s.signedIn}
  BY DEF Init
<1>2. PICK u \in s.signedIn :
         x = [id |-> s.number[u], user |-> u, pass |-> s.row[u].pass, late |-> FALSE]
  BY <1>1
<1>3. u \in User /\ s.row[u] \in Row
  BY RowsFit
<1> QED
  BY <1>1, <1>2, <1>3, Constants DEF There

(* Whoever changes a password, and whatever goes on meanwhile: sessions    *)
(* that were opened with the one before are closed with it.                *)
THEOREM TheOldPasswordEnds == Spec => []OldAccessEnds
<1>1. Init => Typed /\ SessionInv
  BY InitTyped, InitSessions
<1>2. Typed /\ SessionInv /\ [Next]_vars => (Typed /\ SessionInv)'
  BY TypedStep, SessionStep
<1>3. ASSUME Typed, SessionInv PROVE OldAccessEnds
  <2> SUFFICES ASSUME NEW s \in sessions, NEW r \in Request,
                      at[r] = "closeOthers", Target(r) = s.user
               PROVE  Does(r, "closeOthers") /\ (Closes(r, s) \/ s.id = call[r].who)
    BY <1>3 DEF OldAccessEnds, SessionInv, Doomed
  <2> QED
    BY DEF Does, Closes
<1> QED
  BY <1>1, <1>2, <1>3, PTL DEF Spec

------------------------------------------------------------------------------
(* Numbers, sessions and rows. *)

(* Numbers of sessions are given out once, and who calls on his own        *)
(* account is the user of the session he calls with.                       *)
OwnSession ==
  /\ \A s \in sessions : 0 < s.id /\ s.id <= issued
  /\ \A s \in sessions, t \in sessions : s.id = t.id => s.user = t.user
  /\ \A r \in Request : Active(r, Own) =>
       /\ call[r].who <= issued
       /\ \A s \in sessions : s.id = call[r].who => s.user = Target(r)

(* Who has logged in or is about to has been created. *)
Known ==
  /\ \A ch \in challenges : row[ch.user] # NotYet
  /\ \A r \in Request : Active(r, {"code", "enable"}) => row[Target(r)] # NotYet

(* Secrets and sets have the numbers that were given out. *)
Issued ==
  /\ \A u \in User : There(u) => row[u].secret <= issued
  /\ \A u \in User : \A c \in recovery[u] : c[1] = "recovery" /\ c[2] <= issued
  /\ None \notin spent /\ \A c \in spent : c[2] <= issued
  /\ \A r \in Request : Active(r, {"code", "enable"}) => call[r].code[2] <= issued
  /\ \A r \in Request : at[r] = "store" => call[r].set <= issued

LEMMA BeginStarts ==
  ASSUME NEW r \in Request, Begin(r)
  PROVE  at[r] = "idle" /\ \E c, step : Start(r, c, step)
  BY DEF Begin, BeginLogin, BeginCode, BeginOwn, BeginManaging, BeginOthers, BeginCli

(* What a request begins with. *)
Asked(r, c) ==
  \/ c.kind \in {"login", "cli"} \cup Managing
  \/ c.kind = "others" /\ c.who = 0
  \/ c.kind = "code" /\ \E ch \in challenges : c.user = ch.user /\ c.code \in Codes(ch.user)
  \/ /\ c.kind \in Own
     /\ \E s \in sessions : /\ c.who = s.id /\ c.user = s.user
                            /\ c.kind = "enable" => c.code \in Codes(s.user)

FirstSteps == {"check", "verify", "logout", "others", "unset", "proof", "create", "close",
               "read", "pass"}

LEMMA BeginAsks ==
  ASSUME Typed, NEW r \in Request, Begin(r)
  PROVE  /\ \E c : \E step \in FirstSteps : Start(r, c, step) /\ Asked(r, c)
         /\ \A x \in challenges' : \E ch \in challenges : x.user = ch.user
<1> USE DEF Asked, FirstSteps
<1>1. CASE BeginLogin(r)
  <2>1. PICK u \in User, p \in 1..MaxPass :
          Start(r, [Request0 EXCEPT !.kind = "login", !.user = u, !.pass = p], "check")
    BY <1>1 DEF BeginLogin
  <2>2. [Request0 EXCEPT !.kind = "login", !.user = u, !.pass = p].kind = "login"
    BY DEF Request0
  <2> QED
    BY <1>1, <2>1, <2>2 DEF BeginLogin
<1>2. CASE BeginCode(r)
  <2>a. PICK ch \in challenges : \E cd \in Codes(ch.user) :
          /\ Start(r, [Request0 EXCEPT !.kind = "code", !.user = ch.user,
                         !.pass = ch.pass, !.code = cd, !.challenge = ch.id], "verify")
          /\ challenges' = (challenges \ {ch}) \cup
               (IF ch.tries + 1 < ChallengeTries THEN {[ch EXCEPT !.tries = @ + 1]} ELSE {})
    BY <1>2 DEF BeginCode
  <2>1. PICK cd \in Codes(ch.user) :
          Start(r, [Request0 EXCEPT !.kind = "code", !.user = ch.user,
                      !.pass = ch.pass, !.code = cd, !.challenge = ch.id], "verify")
    BY <2>a
  <2> DEFINE c == [Request0 EXCEPT !.kind = "code", !.user = ch.user,
                     !.pass = ch.pass, !.code = cd, !.challenge = ch.id]
  <2>2. c.kind = "code" /\ c.user = ch.user /\ c.code = cd
    BY DEF Request0
  <2>3. \A x \in challenges' : \E y \in challenges : x.user = y.user
    BY <2>a DEF Typed, TypeOK
  <2>4. Asked(r, c)
    BY <2>2
  <2> HIDE DEF c
  <2> QED
    BY <2>1, <2>3, <2>4 DEF c
<1>3. CASE BeginOwn(r)
  <2>1. PICK s \in sessions, k \in Own \cap given.kinds :
         \E cd \in IF k = "enable" THEN Codes(s.user) ELSE {None} :
           Start(r, [Request0 EXCEPT !.kind = k, !.who = s.id,
                                     !.user = s.user, !.code = cd], FirstOwn(k))
    BY <1>3 DEF BeginOwn
  <2>2. PICK cd : /\ k = "enable" => cd \in Codes(s.user)
                  /\ Start(r, [Request0 EXCEPT !.kind = k, !.who = s.id,
                                 !.user = s.user, !.code = cd], FirstOwn(k))
    BY <2>1
  <2> DEFINE c == [Request0 EXCEPT !.kind = k, !.who = s.id, !.user = s.user, !.code = cd]
  <2>3. c.kind = k /\ c.who = s.id /\ c.user = s.user /\ c.code = cd
    BY DEF Request0
  <2>4. Asked(r, c)
    BY <2>2, <2>3
  <2>5. FirstOwn(k) \in FirstSteps
    BY DEF FirstOwn
  <2> HIDE DEF c
  <2> QED
    BY <1>3, <2>2, <2>4, <2>5 DEF c, BeginOwn
<1>4. CASE BeginManaging(r)
  <2>1. PICK id \in {0} \cup {s.id : s \in sessions}, k \in Managing \cap given.kinds,
             u \in User, role \in given.roles \cup {None}, off \in BOOLEAN \cup {None} :
          Start(r, [Request0 EXCEPT !.kind = k, !.who = id, !.user = u,
                        !.role = role, !.off = off], FirstManaging(k))
    BY <1>4 DEF BeginManaging
  <2> DEFINE c == [Request0 EXCEPT !.kind = k, !.who = id, !.user = u,
                     !.role = role, !.off = off]
  <2>2. c.kind = k
    BY DEF Request0
  <2>3. Asked(r, c) /\ FirstManaging(k) \in FirstSteps
    BY <2>2 DEF FirstManaging
  <2> HIDE DEF c
  <2> QED
    BY <1>4, <2>1, <2>3 DEF c, BeginManaging
<1>5. CASE BeginOthers(r)
  <2>1. [Request0 EXCEPT !.kind = "others"].kind = "others"
        /\ [Request0 EXCEPT !.kind = "others"].who = 0
    BY DEF Request0
  <2> QED
    BY <1>5, <2>1 DEF BeginOthers
<1>6. CASE BeginCli(r)
  <2>1. [Request0 EXCEPT !.kind = "cli", !.user = Admin].kind = "cli"
    BY DEF Request0
  <2> QED
    BY <1>6, <2>1 DEF BeginCli
<1> QED
  BY <1>1, <1>2, <1>3, <1>4, <1>5, <1>6 DEF Begin

(* Where a request comes from. *)
LEMMA Arrives ==
  ASSUME Typed, NEW r \in Request, Step(r) \/ StatementFails(r)
  PROVE  /\ at'[r] = "store" => Wipe(r) \/ StoreCode(r)
         /\ at'[r] = "mark" => Verify(r)
         /\ at'[r] = "open" => Check(r) \/ at[r] = "mark" \/ Recover(r)
         /\ at'[r] = "wipe" => Proof(r)
         /\ at'[r] = "factor" => StoreCode(r)
<1> USE DEF Typed, TypeOK, GoTo, Goes, Done, Does
<1>1. CASE StatementFails(r)
  BY <1>1 DEF StatementFails, Unlooked, AfterForget, AfterRole, AfterOff, AfterClose
<1>2. CASE Step(r)
  <2>1. CASE Check(r) \/ Verify(r) \/ Mark(r) \/ Recover(r) \/ Open(r) \/ Logout(r)
             \/ LogoutOthers(r) \/ Pass(r) \/ CloseOthers(r) \/ Unset(r)
             \/ Secret(r) \/ FactorOn(r) \/ Unfactor(r) \/ Forget(r)
    BY <2>1 DEF Check, Verify, Mark, Recover, Open, Logout, LogoutOthers, Pass, CloseOthers,
                Unset, Secret, FactorOn, Unfactor, Forget, AfterForget
  <2>2. CASE Create(r) \/ Self(r) \/ Count(r) \/ SetRole(r) \/ SetOff(r) \/ Close(r) \/ Remove(r)
    BY <2>2 DEF Create, Self, Count, SetRole, SetOff, Close, Remove, Written, AfterRole,
                AfterOff, AfterClose
  <2>3. CASE Wipe(r) \/ StoreCode(r) \/ Read(r) \/ Proof(r)
    BY <2>3 DEF Wipe, StoreCode, Read, Proof, StepsFit, StepFits, Kind
  <2> QED
    BY <1>2, <2>1, <2>2, <2>3 DEF Step
<1> QED
  BY <1>1, <1>2

(* What a step leaves alone. *)
LEMMA StepLeaves ==
  ASSUME NEW r \in Request, Step(r)
  PROVE  /\ Recover(r) \/ Wipe(r) \/ StoreCode(r) \/ Forget(r) \/ Remove(r) \/ recovery' = recovery
         /\ Open(r) \/ FactorOn(r) \/ (spent' = spent /\ again' = again)
         /\ Check(r) \/ Open(r) \/ Secret(r) \/ Wipe(r) \/ issued' = issued
         /\ Open(r) \/ CloseOthers(r) \/ sessions' \subseteq sessions
         /\ Check(r) \/ challenges' \subseteq challenges
         /\ missed' = missed /\ crossed' = crossed /\ (Mark(r) \/ early' = early)
<1> USE DEF NoStore, NoLogin, NoCodes, Kept, KeptButEarly, store, Without
<1>1. CASE Check(r) \/ Verify(r) \/ Mark(r) \/ Recover(r) \/ Open(r) \/ Logout(r)
             \/ LogoutOthers(r) \/ Pass(r) \/ CloseOthers(r) \/ Unset(r)
             \/ Secret(r) \/ FactorOn(r) \/ Unfactor(r) \/ Forget(r)
  BY <1>1 DEF Check, Verify, Mark, Recover, Open, Logout, LogoutOthers, Pass, CloseOthers,
              Unset, Secret, FactorOn, Unfactor, Forget
<1>2. CASE Create(r) \/ Self(r) \/ Count(r) \/ SetRole(r) \/ SetOff(r) \/ Close(r) \/ Remove(r)
           \/ Proof(r) \/ Wipe(r) \/ StoreCode(r) \/ Read(r)
  BY <1>2 DEF Create, Self, Count, SetRole, SetOff, Close, Remove, Proof, Wipe, StoreCode, Read
<1> QED
  BY <1>1, <1>2 DEF Step

LEMMA NumbersGrow ==
  ASSUME Typed, [Next]_vars
  PROVE  issued <= issued' /\ issued' \in Nat
<1>1. issued \in Nat
  BY DEF Typed, TypeOK
<1> SUFFICES issued' \in {issued, issued + 1}
  BY <1>1
<1>2. ASSUME NEW r \in Request, Step(r) PROVE issued' \in {issued, issued + 1}
  BY <1>2, StepLeaves DEF Check, Open, Secret, Wipe
<1>3. ASSUME NEW r \in Request, Begin(r) PROVE issued' \in {issued, issued + 1}
  BY <1>3, BeginStarts DEF Start
<1>4. ASSUME NEW r \in Request, StatementFails(r) PROVE issued' \in {issued, issued + 1}
  BY <1>4 DEF StatementFails
<1>5. CASE Tick \/ Expire \/ Restart
  BY <1>5 DEF Tick, Expire, Restart, store, history
<1>6. CASE UNCHANGED vars
  BY <1>6 DEF vars, store, history
<1> QED
  BY <1>2, <1>3, <1>4, <1>5, <1>6 DEF Next

LEMMA OwnSessionStep == Typed /\ OwnSession /\ [Next]_vars => OwnSession'
<1> SUFFICES ASSUME Typed, OwnSession, [Next]_vars PROVE OwnSession'
  OBVIOUS
<1>a. issued \in Nat /\ issued <= issued' /\ issued' \in Nat
  BY NumbersGrow DEF Typed, TypeOK
<1>b. /\ sessions \subseteq [id : Nat, user : User, pass : Nat, late : BOOLEAN]
      /\ \A r \in Request : call[r] \in Call /\ call[r].who \in Nat
  BY DEF Typed, TypeOK, Call
(* Sessions that are some of those there were, and requests that go on. *)
<1>c. ASSUME \A s \in sessions' : \E t \in sessions : s.id = t.id /\ s.user = t.user,
             \A r \in Request : Active(r, Own)' =>
                \/ /\ Active(r, Own) /\ Target(r)' = Target(r)
                   /\ call'[r].who = call[r].who
                \/ /\ call'[r].who \in 0..issued
                   /\ \A s \in sessions : s.id = call'[r].who => s.user = Target(r)'
      PROVE  OwnSession'
  <2>1. \A s \in sessions' : 0 < s.id /\ s.id <= issued'
    BY <1>a, <1>b, <1>c DEF OwnSession
  <2>2. \A s \in sessions', t \in sessions' : s.id = t.id => s.user = t.user
    BY <1>c DEF OwnSession
  <2>3. ASSUME NEW r \in Request, Active(r, Own)'
        PROVE  /\ call'[r].who <= issued'
               /\ \A s \in sessions : s.id = call'[r].who => s.user = Target(r)'
    BY <1>a, <1>b, <1>c, <2>3 DEF OwnSession
  <2> QED
    BY <1>c, <2>1, <2>2, <2>3 DEF OwnSession
<1>1. ASSUME NEW r \in Request, Begin(r) PROVE OwnSession'
  <2>1. sessions' = sessions /\ \A q \in Request \ {r} : at'[q] = at[q] /\ call'[q] = call[q]
    BY <1>1, BeginStarts, OthersStay DEF Start, store, Typed
  <2>2. ASSUME Active(r, Own)'
        PROVE  /\ call'[r].who \in 0..issued
               /\ \A s \in sessions : s.id = call'[r].who => s.user = Target(r)'
    <3>1. PICK c : \E step \in FirstSteps : Start(r, c, step) /\ Asked(r, c)
      BY <1>1, BeginAsks
    <3>2. call'[r] = c
      BY <3>1 DEF Start, Typed, TypeOK
    <3>3. CASE c.kind = "others" /\ c.who = 0
      BY <1>a, <1>b, <3>2, <3>3 DEF OwnSession
    <3>4. CASE c.kind \in Own /\ \E s \in sessions : c.who = s.id /\ c.user = s.user
      BY <1>a, <1>b, <3>2, <3>4 DEF OwnSession, Target
    <3>5. CASE c.kind \in {"login", "cli", "code"} \cup Managing
      BY <2>2, <3>2, <3>5 DEF Active, Own, Kind, Managing, Edit
    <3>6. \/ c.kind = "others" /\ c.who = 0
          \/ c.kind \in Own /\ \E s \in sessions : c.who = s.id /\ c.user = s.user
          \/ c.kind \in {"login", "cli", "code"} \cup Managing
      BY <3>1 DEF Asked
    <3> QED
      BY <3>3, <3>4, <3>5, <3>6
  <2> QED
    BY <1>c, <2>1, <2>2 DEF Active, Kind, Target
<1>2. ASSUME NEW r \in Request, Step(r) \/ StatementFails(r),
             \A s \in sessions' : \E t \in sessions : s.id = t.id /\ s.user = t.user
      PROVE  OwnSession'
  BY <1>2, <1>c, SameCall, OthersStay DEF Active, Kind, Target, Typed
<1>3. ASSUME NEW r \in Request, StatementFails(r) PROVE OwnSession'
  BY <1>2, <1>3 DEF StatementFails, store
<1>4. ASSUME NEW r \in Request, Step(r), ~Open(r), ~CloseOthers(r) PROVE OwnSession'
  BY <1>2, <1>4, StepLeaves
<1>5. ASSUME NEW r \in Request, CloseOthers(r) PROVE OwnSession'
  <2>1. ASSUME NEW s \in sessions' PROVE \E t \in sessions : s.id = t.id /\ s.user = t.user
    <3>1. PICK t \in sessions :
            s = IF t.id = call[r].who /\ t.user = Target(r) /\ There(Target(r))
                THEN [t EXCEPT !.pass = row[Target(r)].pass] ELSE t
      BY <1>5, <2>1 DEF CloseOthers
    <3> QED
      BY <1>b, <3>1
  <2> QED
    BY <1>2, <1>5, <2>1 DEF Step
<1>6. ASSUME NEW r \in Request, Open(r) PROVE OwnSession'
  <2>1. CASE There(Target(r))
    <3> DEFINE new == [id |-> issued + 1, user |-> Target(r), pass |-> call[r].pass,
                       late |-> call[r].pass # row[Target(r)].pass]
    <3>1. sessions' = sessions \cup {new} /\ issued' = issued + 1
      BY <1>6, <2>1 DEF Open
    <3>2. new.id = issued + 1
      OBVIOUS
    <3>3. \A s \in sessions : s.id # new.id
      BY <1>a, <1>b, <3>2 DEF OwnSession
    <3>4. ASSUME NEW q \in Request, Active(q, Own)'
          PROVE  Active(q, Own) /\ Target(q)' = Target(q) /\ call'[q].who = call[q].who
      BY <1>6, <3>4, SameCall, OthersStay DEF Active, Kind, Target, Typed, Step
    <3> HIDE DEF new
    <3>5. \A s \in sessions' : 0 < s.id /\ s.id <= issued'
      BY <1>a, <1>b, <3>1, <3>2 DEF OwnSession
    <3>6. \A s \in sessions', t \in sessions' : s.id = t.id => s.user = t.user
      BY <3>1, <3>3 DEF OwnSession
    <3>7. ASSUME NEW q \in Request, Active(q, Own)'
          PROVE  /\ call'[q].who <= issued'
                 /\ \A s \in sessions' : s.id = call'[q].who => s.user = Target(q)'
      <4>1. call'[q].who = call[q].who /\ call[q].who <= issued
        BY <3>4, <3>7 DEF OwnSession
      <4> QED
        BY <1>a, <1>b, <3>1, <3>2, <3>4, <3>7, <4>1 DEF OwnSession
    <3> QED
      BY <3>5, <3>6, <3>7 DEF OwnSession
  <2>2. CASE ~There(Target(r))
    BY <1>2, <1>6, <2>2 DEF Open, Step
  <2> QED
    BY <2>1, <2>2
<1>7. CASE Tick \/ Expire \/ UNCHANGED vars
  <2>1. sessions' \subseteq sessions /\ at' = at /\ call' = call
    BY <1>7 DEF Tick, Expire, vars, store
  <2> QED
    BY <1>c, <2>1 DEF Active, Kind, Target
<1>8. CASE Restart
  <2>1. sessions' = sessions /\ \A r \in Request : at'[r] = "idle"
    BY <1>8 DEF Restart, store
  <2> QED
    BY <1>c, <2>1 DEF Active
<1> QED
  BY <1>1, <1>3, <1>4, <1>5, <1>6, <1>7, <1>8 DEF Next

LEMMA OwnSessionInit == Init => OwnSession
<1> SUFFICES ASSUME Init PROVE OwnSession
  OBVIOUS
<1>1. PICK s \in Scenario :
         /\ sessions = {[id |-> s.number[u], user |-> u, pass |-> s.row[u].pass, late |-> FALSE]
                          : u \in s.signedIn}
         /\ issued = Cardinality(User)
  BY DEF Init
<1>2. /\ s.number \in [User -> 1..Cardinality(User)] /\ s.signedIn \subseteq User
      /\ \A u \in User : \A v \in User \ {u} : s.number[u] # s.number[v]
  BY AccountsAssumption
<1>3. \A x \in sessions : x.user \in User /\ x.id = s.number[x.user]
  BY <1>1, <1>2
<1>4. \A r \in Request : at[r] = "idle"
  BY DEF Init
<1> QED
  BY <1>1, <1>2, <1>3, <1>4, Constants DEF OwnSession, Active

(* Secret, factor and last step of a user are what they were; of a new     *)
(* user there is no secret.                                                *)
FactorKept ==
  \A u \in User : There(u)' =>
    \/ /\ There(u) /\ row'[u].secret = row[u].secret
       /\ row'[u].factor = row[u].factor /\ row'[u].last = row[u].last
    \/ row[u] = NotYet /\ row'[u].secret = 0

LEMMA StepKeepsFactor ==
  ASSUME Typed, NEW r \in Request, Step(r), ~Mark(r), ~Secret(r), ~FactorOn(r), ~Unfactor(r)
  PROVE  FactorKept
<1> USE DEF FactorKept, There
<1>a. (\A u \in User : There(u) => row[u] \in Row) /\ row \in [User -> Row \cup {NotYet, Gone}]
  BY DEF Typed, TypeOK
<1>b. at[r] \notin {"idle", "others"} => Target(r) \in User
  BY DEF Typed, DataFits, DataFit
<1>1. CASE row' = row
  BY <1>1
<1>2. CASE Check(r) \/ Verify(r) \/ Recover(r) \/ Open(r) \/ Logout(r)
           \/ LogoutOthers(r) \/ Proof(r) \/ CloseOthers(r) \/ Unset(r) \/ Wipe(r)
           \/ StoreCode(r) \/ Forget(r) \/ Read(r) \/ Self(r) \/ Count(r) \/ Close(r)
  BY <1>1, <1>2 DEF Check, Verify, Recover, Open, Logout, LogoutOthers, Proof, CloseOthers,
     Unset, Wipe, StoreCode, Forget, Read, Self, Count, Close, NoStore, store
<1>3. ASSUME NEW new, Target(r) \in User, SetRow(Target(r), new),
             There(Target(r)) => /\ new.secret = row[Target(r)].secret
                                 /\ new.factor = row[Target(r)].factor
                                 /\ new.last = row[Target(r)].last
      PROVE  FactorKept
  BY <1>3, <1>a DEF SetRow
<1>4. CASE Pass(r)
  <2> DEFINE new == [row[Target(r)] EXCEPT !.pass = @ + 1, !.must = Kind(r) # "change"]
  <2>1. SetRow(Target(r), new) /\ Target(r) \in User
    BY <1>4, <1>b DEF Pass, Does
  <2>2. There(Target(r)) => /\ new.secret = row[Target(r)].secret
                            /\ new.factor = row[Target(r)].factor
                            /\ new.last = row[Target(r)].last
    BY <1>a, <2>1 DEF Row
  <2> HIDE DEF new
  <2> QED
    BY <1>3, <2>1, <2>2
<1>5. CASE SetRole(r)
  <2> DEFINE new == [row[Target(r)] EXCEPT !.role = call[r].role]
  <2>1. SetRow(Target(r), new) /\ Target(r) \in User
    BY <1>5, <1>b DEF SetRole, Does
  <2>2. There(Target(r)) => /\ new.secret = row[Target(r)].secret
                            /\ new.factor = row[Target(r)].factor
                            /\ new.last = row[Target(r)].last
    BY <1>a, <2>1 DEF Row
  <2> HIDE DEF new
  <2> QED
    BY <1>3, <2>1, <2>2
<1>6. CASE SetOff(r)
  <2> DEFINE new == [row[Target(r)] EXCEPT !.off = call[r].off]
  <2>1. SetRow(Target(r), new) /\ Target(r) \in User
    BY <1>6, <1>b DEF SetOff, Does
  <2>2. There(Target(r)) => /\ new.secret = row[Target(r)].secret
                            /\ new.factor = row[Target(r)].factor
                            /\ new.last = row[Target(r)].last
    BY <1>a, <2>1 DEF Row
  <2> HIDE DEF new
  <2> QED
    BY <1>3, <2>1, <2>2
<1>7. CASE Create(r)
  BY <1>7, <1>a, <1>b DEF Create, Does
<1>8. CASE Remove(r)
  BY <1>8, <1>a, <1>b DEF Remove, Does
<1> QED
  BY <1>2, <1>4, <1>5, <1>6, <1>7, <1>8 DEF Step

(* What the four others write. *)
LEMMA FactorWritten ==
  ASSUME Typed, NEW r \in Request, Mark(r) \/ Secret(r) \/ FactorOn(r) \/ Unfactor(r)
  PROVE  /\ Target(r) \in User
         /\ \A v \in User : /\ There(v)' => There(v)
                            /\ v # Target(r) => row'[v] = row[v]
         /\ There(Target(r)) =>
              LET old == row[Target(r)]
                  new == row'[Target(r)]
              IN  /\ Mark(r) => /\ new.secret = old.secret /\ new.factor = old.factor
                                /\ new.last = call[r].code[3]
                  /\ Secret(r) => /\ new.secret = issued + 1 /\ ~new.factor
                  /\ FactorOn(r) => /\ new.secret = old.secret /\ new.factor
                                    /\ new.last = call[r].code[3]
                  /\ Unfactor(r) => new.secret = 0
<1>a. (\A u \in User : There(u) => row[u] \in Row) /\ row \in [User -> Row \cup {NotYet, Gone}]
  BY DEF Typed, TypeOK, There
<1>1. PICK x : SetRow(Target(r), x) /\ Target(r) \in User
  BY OwnRow
<1>2. \A v \in User : /\ There(v)' => There(v)
                      /\ v # Target(r) => row'[v] = row[v]
  BY <1>1, <1>a DEF SetRow, There
<1>3. ASSUME There(Target(r))
      PROVE LET old == row[Target(r)]
                new == row'[Target(r)]
            IN  /\ Mark(r) => /\ new.secret = old.secret /\ new.factor = old.factor
                              /\ new.last = call[r].code[3]
                /\ Secret(r) => /\ new.secret = issued + 1 /\ ~new.factor
                /\ FactorOn(r) => /\ new.secret = old.secret /\ new.factor
                                  /\ new.last = call[r].code[3]
                /\ Unfactor(r) => new.secret = 0
  <2>a. row[Target(r)] \in Row
    BY <1>1, <1>3, <1>a
  <2>1. CASE Mark(r)
    <3>1. row'[Target(r)] = [row[Target(r)] EXCEPT !.last = call[r].code[3]]
      BY <1>1, <1>3, <1>a, <2>1 DEF Mark, SetRow
    <3>2. ~Secret(r) /\ ~FactorOn(r) /\ ~Unfactor(r)
      BY <2>1 DEF Mark, Secret, FactorOn, Unfactor, Does
    <3> QED
      BY <2>a, <3>1, <3>2 DEF Row
  <2>2. CASE Secret(r)
    <3>1. row'[Target(r)] = [row[Target(r)] EXCEPT !.secret = issued + 1, !.factor = FALSE]
      BY <1>1, <1>3, <1>a, <2>2 DEF Secret, SetRow
    <3>2. ~Mark(r) /\ ~FactorOn(r) /\ ~Unfactor(r)
      BY <2>2 DEF Mark, Secret, FactorOn, Unfactor, Does
    <3> QED
      BY <2>a, <3>1, <3>2 DEF Row
  <2>3. CASE FactorOn(r)
    <3>1. row'[Target(r)] = [row[Target(r)] EXCEPT !.factor = TRUE, !.last = call[r].code[3]]
      BY <1>1, <1>3, <1>a, <2>3 DEF FactorOn, SetRow
    <3>2. ~Mark(r) /\ ~Secret(r) /\ ~Unfactor(r)
      BY <2>3 DEF Mark, Secret, FactorOn, Unfactor, Does
    <3> QED
      BY <2>a, <3>1, <3>2 DEF Row
  <2>4. CASE Unfactor(r)
    <3>1. row'[Target(r)] = [row[Target(r)] EXCEPT !.factor = FALSE, !.secret = 0, !.last = 0]
      BY <1>1, <1>3, <1>a, <2>4 DEF Unfactor, SetRow
    <3>2. ~Mark(r) /\ ~Secret(r) /\ ~FactorOn(r)
      BY <2>4 DEF Mark, Secret, FactorOn, Unfactor, Does
    <3> QED
      BY <2>a, <3>1, <3>2 DEF Row
  <2> QED
    BY <2>1, <2>2, <2>3, <2>4
<1> QED
  BY <1>1, <1>2, <1>3

(* Nobody is created a second time. *)
LEMMA StaysKnown ==
  ASSUME Typed, [Next]_vars, NEW u \in User, row[u] # NotYet
  PROVE  row'[u] # NotYet
<1>a. row \in [User -> Row \cup {NotYet, Gone}]
  BY DEF Typed, TypeOK
<1>1. ASSUME NEW r \in Request, Step(r) PROVE row'[u] # NotYet
  <2>1. CASE row' = row
    BY <2>1
  <2>2. CASE Check(r) \/ Verify(r) \/ Recover(r) \/ Open(r) \/ Logout(r)
           \/ LogoutOthers(r) \/ Proof(r) \/ CloseOthers(r) \/ Unset(r) \/ Wipe(r)
           \/ StoreCode(r) \/ Forget(r) \/ Read(r) \/ Self(r) \/ Count(r) \/ Close(r)
    BY <2>1, <2>2 DEF Check, Verify, Recover, Open, Logout, LogoutOthers, Proof, CloseOthers,
       Unset, Wipe, StoreCode, Forget, Read, Self, Count, Close, NoStore, store
  <2>3. CASE Mark(r) \/ Pass(r) \/ Secret(r) \/ FactorOn(r) \/ Unfactor(r)
    <3>1. PICK x : SetRow(Target(r), x) /\ (There(Target(r)) => Alike(row[Target(r)], x))
      BY <2>3, OwnRow
    <3> QED
      BY <1>a, <3>1, Constants DEF SetRow, Alike
  <2>4. CASE SetRole(r) \/ SetOff(r)
    <3>1. PICK x : SetRow(Target(r), x) /\ (There(Target(r)) /\ Target(r) \in User => x \in Row)
      <4>1. Target(r) \in User /\ (There(Target(r)) => row[Target(r)] \in Row)
        BY <1>a, <2>4 DEF SetRole, SetOff, Does, Typed, DataFits, DataFit, There
      <4>2. CASE SetRole(r)
        <5>1. There(Target(r)) => [row[Target(r)] EXCEPT !.role = call[r].role] \in Row
          BY <4>1, <4>2 DEF SetRole, Does, Typed, DataFits, DataFit, Row
        <5> QED
          BY <4>2, <5>1 DEF SetRole
      <4>3. CASE SetOff(r)
        <5>1. There(Target(r)) => [row[Target(r)] EXCEPT !.off = call[r].off] \in Row
          BY <4>1, <4>3 DEF SetOff, Does, Typed, DataFits, DataFit, Row
        <5> QED
          BY <4>3, <5>1 DEF SetOff
      <4> QED
        BY <2>4, <4>2, <4>3
    <3> QED
      BY <1>a, <3>1, Constants DEF SetRow
  <2>5. CASE Create(r)
    BY <1>a, <2>5 DEF Create
  <2>6. CASE Remove(r)
    BY <1>a, <2>6, Constants DEF Remove
  <2> QED
    BY <1>1, <2>2, <2>3, <2>4, <2>5, <2>6 DEF Step
<1>2. ASSUME NEW r \in Request, Begin(r) PROVE row' = row
  BY <1>2, BeginStarts DEF Start, store
<1>3. ASSUME NEW r \in Request, StatementFails(r) PROVE row' = row
  BY <1>3 DEF StatementFails, store
<1>4. CASE Tick \/ Expire \/ Restart \/ UNCHANGED vars
  BY <1>4 DEF Tick, Expire, Restart, vars, store
<1> QED
  BY <1>1, <1>2, <1>3, <1>4 DEF Next

LEMMA KnownStep == Typed /\ SessionInv /\ Known /\ [Next]_vars => Known'
<1> SUFFICES ASSUME Typed, SessionInv, Known, [Next]_vars PROVE Known'
  OBVIOUS
<1>a. \A s \in sessions : s.user \in User /\ row[s.user] # NotYet
  BY DEF Typed, TypeOK, SessionInv, There
<1>b. \A ch \in challenges : ch.user \in User /\ row'[ch.user] # NotYet
  BY StaysKnown DEF Known, Typed, TypeOK
<1>c. \A q \in Request : Active(q, {"code", "enable"}) => row'[Target(q)] # NotYet
  BY StaysKnown DEF Known, Active, Typed, DataFits, DataFit, StepsFit, StepFits
<1>1. ASSUME NEW r \in Request, Begin(r) PROVE Known'
  <2>1. PICK c : \E step \in FirstSteps : Start(r, c, step) /\ Asked(r, c)
    BY <1>1, BeginAsks
  <2>2. row' = row /\ call'[r] = c
    BY <2>1 DEF Start, store, Typed, TypeOK
  <2>3. \A ch \in challenges' : row'[ch.user] # NotYet
    BY <1>1, <1>b, BeginAsks
  <2>4. c.kind \in {"code", "enable"} => row'[c.user] # NotYet
    BY <1>a, <1>b, <2>1, <2>2 DEF Asked, Managing, Edit
  <2>5. \A q \in Request \ {r} : at'[q] = at[q] /\ call'[q] = call[q]
    BY <1>1, OthersStay DEF Typed
  <2> QED
    BY <1>c, <2>2, <2>3, <2>4, <2>5 DEF Known, Active, Kind, Target
<1>2. ASSUME NEW r \in Request, Step(r) \/ StatementFails(r),
             \A ch \in challenges' : row'[ch.user] # NotYet
      PROVE  Known'
  BY <1>2, <1>c, SameCall, OthersStay DEF Known, Active, Kind, Target, Typed
<1>3. ASSUME NEW r \in Request, Step(r) PROVE Known'
  <2>1. CASE Check(r)
    <3>1. \A ch \in challenges' : ch \in challenges \/ (ch.user = Target(r) /\ There(Target(r)))
      <4>1. \/ challenges' = challenges
            \/ /\ There(Target(r))
               /\ challenges' = challenges \cup {[id |-> issued + 1, user |-> Target(r),
                                     pass |-> row[Target(r)].pass, tries |-> 0]}
        BY <2>1 DEF Check
      <4>2. [id |-> issued + 1, user |-> Target(r),
             pass |-> row[Target(r)].pass, tries |-> 0].user = Target(r)
        OBVIOUS
      <4> QED
        BY <4>1, <4>2
    <3>2. Target(r) \in User /\ row' = row
      BY <2>1 DEF Check, store, Does, Typed, DataFits, DataFit
    <3> QED
      BY <1>2, <1>3, <1>b, <3>1, <3>2 DEF There
  <2>2. CASE ~Check(r)
    BY <1>2, <1>3, <1>b, <2>2, StepLeaves
  <2> QED
    BY <2>1, <2>2
<1>4. ASSUME NEW r \in Request, StatementFails(r) PROVE Known'
  BY <1>2, <1>4, <1>b DEF StatementFails
<1>5. CASE Tick \/ Expire \/ UNCHANGED vars
  <2>1. row' = row /\ challenges' \subseteq challenges /\ at' = at /\ call' = call
    BY <1>5 DEF Tick, Expire, vars, store
  <2> QED
    BY <1>b, <1>c, <2>1 DEF Known, Active, Kind, Target
<1>6. CASE Restart
  BY <1>6 DEF Restart, Known, Active
<1> QED
  BY <1>1, <1>3, <1>4, <1>5, <1>6 DEF Next

LEMMA KnownInit == Init => Known
  BY DEF Init, Known, Active

LEMMA IssuedStep == Typed /\ Issued /\ [Next]_vars => Issued'
<1> SUFFICES ASSUME Typed, Issued, [Next]_vars PROVE Issued'
  OBVIOUS
<1>a. issued \in Nat /\ issued <= issued' /\ issued' \in Nat
  BY NumbersGrow DEF Typed, TypeOK
<1>b. /\ \A u \in User : There(u) => row[u] \in Row /\ row[u].secret \in Nat
      /\ \A c \in Code : c[2] \in Nat
      /\ spent \subseteq Code /\ \A u \in User : recovery[u] \subseteq Code
      /\ \A q \in Request : call[q].set \in Nat
      /\ \A q \in Request : Active(q, {"code", "enable"}) => call[q].code[2] \in Nat
      /\ at \in [Request -> Label] /\ call \in [Request -> Call]
  BY DEF Typed, TypeOK, There, Row, Code, Call, DataFits, DataFit, Active
<1>c. ASSUME NEW u \in User, NEW c \in Codes(u) PROVE c[2] <= issued /\ c[2] \in Nat
  <2>1. CASE There(u) /\ c \in {Timed(row[u].secret, t) : t \in 1..MaxTime + 1}
    <3>1. c[2] = row[u].secret
      BY <2>1 DEF Timed
    <3> QED
      BY <1>b, <2>1, <3>1 DEF Issued
  <2>2. CASE c \in recovery[u] \cup spent
    BY <1>b, <2>2 DEF Issued
  <2> QED
    BY <2>1, <2>2 DEF Codes
(* One conjunct after the other, when it is disturbed at most by a request. *)
<1>d. ASSUME \A u \in User : There(u)' => row'[u].secret <= issued',
             \A u \in User : \A c \in recovery'[u] : c[1] = "recovery" /\ c[2] <= issued',
             None \notin spent' /\ \A c \in spent' : c[2] <= issued',
             \A q \in Request : \/ at'[q] = "idle"
                                \/ /\ at'[q] = at[q] /\ call'[q] = call[q]
                                \/ /\ Active(q, {"code", "enable"})' => call'[q].code[2] <= issued'
                                   /\ at'[q] = "store" => call'[q].set <= issued'
      PROVE  Issued'
  <2>1. ASSUME NEW q \in Request, Active(q, {"code", "enable"})'
        PROVE  call'[q].code[2] <= issued'
    <3>1. CASE at'[q] = at[q] /\ call'[q] = call[q]
      BY <1>a, <1>b, <2>1, <3>1 DEF Issued, Active, Kind
    <3> QED
      BY <1>d, <2>1, <3>1 DEF Active
  <2>2. ASSUME NEW q \in Request, at'[q] = "store" PROVE call'[q].set <= issued'
    <3>1. CASE at'[q] = at[q] /\ call'[q] = call[q]
      BY <1>a, <1>b, <2>2, <3>1 DEF Issued
    <3> QED
      BY <1>d, <2>2, <3>1
  <2> QED
    BY <1>d, <2>1, <2>2 DEF Issued
<1>e. /\ row' = row => \A u \in User : There(u)' => row'[u].secret <= issued'
      /\ \A u \in User : \A c \in recovery[u] : c[1] = "recovery" /\ c[2] <= issued'
      /\ None \notin spent /\ \A c \in spent : c[2] <= issued'
  BY <1>a, <1>b DEF Issued, There
<1>1. ASSUME NEW r \in Request, Begin(r) PROVE Issued'
  <2>1. PICK c : \E step \in FirstSteps : Start(r, c, step) /\ Asked(r, c)
    BY <1>1, BeginAsks
  <2>2. /\ row' = row /\ recovery' = recovery /\ spent' = spent /\ issued' = issued
        /\ call'[r] = c /\ at'[r] # "store"
    BY <1>b, <2>1 DEF Start, store, FirstSteps
  <2>3. c.kind \in {"code", "enable"} => c.code[2] <= issued
    <3>1. \A x \in sessions \cup challenges : x.user \in User
      BY DEF Typed, TypeOK
    <3>2. c.kind \in {"code", "enable"} => \E u \in User : c.code \in Codes(u)
      BY <2>1, <3>1 DEF Asked, Managing, Edit, Own
    <3> QED
      BY <1>c, <3>2
  <2>4. \A q \in Request \ {r} : at'[q] = at[q] /\ call'[q] = call[q]
    BY <1>1, OthersStay DEF Typed
  <2> QED
    BY <1>d, <1>e, <2>2, <2>3, <2>4 DEF Active, Kind
<1>2. ASSUME NEW r \in Request, Step(r) PROVE Issued'
  <2>1. \A u \in User : There(u)' => row'[u].secret <= issued'
    <3>1. CASE ~Mark(r) /\ ~Secret(r) /\ ~FactorOn(r) /\ ~Unfactor(r)
      BY <1>2, <1>a, <1>b, <3>1, StepKeepsFactor DEF FactorKept, Issued
    <3>2. CASE Mark(r) \/ Secret(r) \/ FactorOn(r) \/ Unfactor(r)
      <4>1. \A u \in User : There(u)' => There(u) /\ (u # Target(r) => row'[u] = row[u])
        BY <3>2, FactorWritten
      <4>2. There(Target(r)) => row'[Target(r)].secret \in {row[Target(r)].secret, issued', 0}
        BY <3>2, FactorWritten DEF Secret
      <4> QED
        BY <1>a, <1>b, <4>1, <4>2 DEF Issued
    <3> QED
      BY <3>1, <3>2
  <2>2. \A u \in User : \A c \in recovery'[u] : c[1] = "recovery" /\ c[2] <= issued'
    <3>1. CASE StoreCode(r)
      <4>1. Target(r) \in User /\ call[r].set <= issued /\ recovery \in [User -> SUBSET Code]
        BY <3>1 DEF StoreCode, Does, Typed, TypeOK, DataFits, DataFit, Issued
      <4>2. \A u \in User : \A c \in recovery'[u] :
              c \in recovery[u] \/ c = Recovery(call[r].set, call[r].left)
        BY <3>1, <4>1 DEF StoreCode
      <4> QED
        BY <1>a, <1>b, <1>e, <4>1, <4>2 DEF Recovery
    <3>2. CASE ~StoreCode(r)
      <4>1. \A u \in User : recovery'[u] \subseteq recovery[u]
        BY <1>2, <3>2, StepLeaves DEF Recover, Wipe, Forget, Remove, Typed, TypeOK
      <4> QED
        BY <1>e, <4>1
    <3> QED
      BY <3>1, <3>2
  <2>3. None \notin spent' /\ \A c \in spent' : c[2] <= issued'
    <3>1. CASE Open(r) \/ FactorOn(r)
      <4>1. spent' \subseteq spent \cup ({call[r].code} \ {None})
        BY <3>1 DEF Open, FactorOn, Spends, NoCodes
      <4>2. Active(r, {"code", "enable"}) \/ call[r].code = None
        BY <3>1 DEF Open, FactorOn, Does, Active, Typed, StepsFit, StepFits, DataFits, DataFit
      <4> QED
        BY <1>a, <1>b, <1>e, <4>1, <4>2 DEF Issued
    <3>2. CASE ~Open(r) /\ ~FactorOn(r)
      BY <1>2, <1>e, <3>2, StepLeaves
    <3> QED
      BY <3>1, <3>2
  <2>4. at'[r] = "idle" \/ (Active(r, {"code", "enable"})' => call'[r].code[2] <= issued')
    BY <1>2, <1>a, <1>b, SameCall DEF Active, Issued
  <2>5. at'[r] = "store" => call'[r].set <= issued'
    <3>1. CASE Wipe(r)
      BY <1>a, <1>b, <3>1 DEF Wipe, Goes, Call
    <3>2. CASE StoreCode(r)
      <4>1. at'[r] = "store" => call'[r].set = call[r].set
        BY <1>b, <3>2 DEF StoreCode, Goes, GoTo, Done, Call
      <4> QED
        BY <1>a, <1>b, <3>2, <4>1 DEF StoreCode, Does, Issued
    <3> QED
      BY <1>2, <3>1, <3>2, Arrives
  <2>6. \A q \in Request \ {r} : at'[q] = at[q] /\ call'[q] = call[q]
    BY <1>2, OthersStay DEF Typed
  <2> QED
    BY <1>d, <2>1, <2>2, <2>3, <2>4, <2>5, <2>6
<1>3. ASSUME NEW r \in Request, StatementFails(r) PROVE Issued'
  <2>1. row' = row /\ recovery' = recovery /\ spent' = spent
    BY <1>3 DEF StatementFails, store
  <2>2. at'[r] # "store"
    BY <1>3, Arrives DEF StatementFails, Wipe, StoreCode, Goes, GoTo, Done, Unlooked, AfterForget,
       AfterRole, AfterOff, AfterClose, Typed, TypeOK
  <2>3. at'[r] = "idle" \/ (Active(r, {"code", "enable"})' => call'[r].code[2] <= issued')
    BY <1>3, <1>a, <1>b, SameCall DEF Active, Issued
  <2>4. \A q \in Request \ {r} : at'[q] = at[q] /\ call'[q] = call[q]
    BY <1>3, OthersStay DEF Typed
  <2> QED
    BY <1>d, <1>e, <2>1, <2>2, <2>3, <2>4
<1>4. CASE Tick \/ Expire \/ Restart \/ UNCHANGED vars
  <2>1. /\ row' = row /\ recovery' = recovery /\ spent' = spent
        /\ (at' = at /\ call' = call) \/ \A q \in Request : at'[q] = "idle"
    BY <1>4 DEF Tick, Expire, Restart, vars, store, history
  <2> QED
    BY <1>d, <1>e, <2>1
<1> QED
  BY <1>1, <1>2, <1>3, <1>4 DEF Next

LEMMA IssuedInit == Init => Issued
<1> SUFFICES ASSUME Init PROVE Issued
  OBVIOUS
<1>1. PICK s \in Scenario : row = s.row /\ recovery = s.recovery /\ issued = Cardinality(User)
  BY DEF Init
<1>2. /\ \A u \in User : s.row[u] # NotYet => s.row[u].secret <= Cardinality(User)
      /\ \A u \in User : s.recovery[u] \subseteq {"recovery"} \X (1..Cardinality(User))
                                                            \X (1..RecoveryCount)
  BY AccountsAssumption
<1>3. spent = {} /\ \A r \in Request : at[r] = "idle"
  BY DEF Init
<1> QED
  BY <1>1, <1>2, <1>3, Constants DEF Issued, There, Active

------------------------------------------------------------------------------
(* Recovery codes. *)

(* A code is on its way to open a session, still to be stored, good, or    *)
(* spent, and in one place only.                                           *)
Carries(r, c) == at[r] = "open" /\ Kind(r) = "code" /\ call[r].code = c
Stores(r, c) == at[r] = "store" /\ c[2] = call[r].set /\ c[3] <= call[r].left
Holds(r, c) == Carries(r, c) \/ Stores(r, c)

InOnePlace(c) ==
  /\ \A u \in User : c \in recovery[u] =>
       /\ c \notin spent
       /\ \A v \in User \ {u} : c \notin recovery[v]
       /\ \A r \in Request : ~Holds(r, c)
  /\ \A r \in Request : Holds(r, c) =>
       c \notin spent /\ \A q \in Request \ {r} : ~Holds(q, c)

(* A user has codes of one set, that which is being stored if one is. *)
OneSet ==
  \A u \in User \ crossed :
    /\ \A c \in recovery[u], d \in recovery[u] : c[2] = d[2]
    /\ \A r \in Request : at[r] = "store" /\ Target(r) = u =>
         \A c \in recovery[u] : c[2] = call[r].set

RecoveryInv ==
  /\ \A c \in Code : c[1] = "recovery" => InOnePlace(c)
  /\ OneSet
  /\ \A c \in again : c[1] # "recovery"

LEMMA StaysInPlace ==
  ASSUME NEW c, InOnePlace(c),
         \A u \in User : c \in recovery'[u] => c \in recovery[u],
         c \in spent' => c \in spent,
         \A q \in Request : Holds(q, c)' => Holds(q, c)
  PROVE  InOnePlace(c)'
  BY DEF InOnePlace

LEMMA HoldsStill ==
  ASSUME Typed, NEW r \in Request, NEW c \in Code, c[1] = "recovery",
         \/ StatementFails(r)
         \/ Step(r) /\ ~Recover(r) /\ ~Wipe(r)
  PROVE  \A q \in Request : Holds(q, c)' => Holds(q, c)
<1> SUFFICES ASSUME Holds(r, c)' PROVE Holds(r, c)
  BY OthersStay DEF Holds, Carries, Stores, Kind, Typed
<1>a. /\ at[r] \in Label /\ at'[r] # "idle" /\ Kind(r)' = Kind(r)
      /\ call'[r].code = call[r].code
  BY SameCall DEF Holds, Carries, Stores, Typed, TypeOK
<1>1. CASE Carries(r, c)'
  <2>1. at[r] = "mark" => call[r].code[1] = "timed"
    BY DEF Typed, DataFits, DataFit
  <2>2. ~Check(r)
    BY <1>a, <1>1 DEF Carries, Check, Does, Typed, StepsFit, StepFits
  <2>3. ~Recover(r)
    BY DEF Recover, StatementFails, Does
  <2> QED
    BY <1>a, <1>1, <2>1, <2>2, <2>3, Arrives DEF Carries
<1>2. CASE Stores(r, c)'
  <2>1. ~Wipe(r) /\ StoreCode(r)
    <3>1. ~StatementFails(r)
      BY <1>2 DEF Stores, StatementFails, GoTo, Goes, Unlooked, AfterForget, AfterRole, AfterOff,
         AfterClose, Typed, TypeOK
    <3> QED
      BY <1>2, <3>1, Arrives DEF Stores
  <2>2. call[r] \in Call /\ call \in [Request -> Call] /\ at \in [Request -> Label]
    BY DEF Typed, TypeOK
  <2>3. call'[r].set = call[r].set /\ call'[r].left = call[r].left - 1
    BY <1>2, <2>1, <2>2 DEF Stores, StoreCode, Goes, GoTo, Done, Call
  <2>4. c[3] \in Nat /\ call[r].left \in Nat
    <3>1. \A x \in Code : x[3] \in Nat
      BY Constants DEF Code
    <3> QED
      BY <2>2, <3>1 DEF Call
  <2>5. c[2] = call[r].set /\ c[3] <= call[r].left /\ at[r] = "store"
    BY <1>2, <2>1, <2>3, <2>4 DEF Stores, StoreCode, Does
  <2> QED
    BY <2>5 DEF Holds, Stores
<1> QED
  BY <1>1, <1>2 DEF Holds

LEMMA PlaceStep ==
  ASSUME Typed, Issued, NEW c \in Code, c[1] = "recovery", InOnePlace(c), [Next]_vars
  PROVE  InOnePlace(c)'
<1>a. /\ issued \in Nat /\ c[2] \in Nat /\ c[3] \in Nat
      /\ at \in [Request -> Label] /\ call \in [Request -> Call]
      /\ recovery \in [User -> SUBSET Code]
  <2>1. \A x \in Code : x[2] \in Nat /\ x[3] \in Nat
    BY Constants DEF Code
  <2> QED
    BY <2>1 DEF Typed, TypeOK
<1>1. ASSUME NEW r \in Request, Begin(r) PROVE InOnePlace(c)'
  <2>1. PICK d : \E step \in FirstSteps : Start(r, d, step) /\ Asked(r, d)
    BY <1>1, BeginAsks
  <2>2. recovery' = recovery /\ spent' = spent /\ at'[r] \notin {"open", "store"}
    BY <1>a, <2>1 DEF Start, store, FirstSteps
  <2>3. \A q \in Request : Holds(q, c)' => Holds(q, c)
    BY <1>1, <2>2, OthersStay DEF Holds, Carries, Stores, Kind, Typed
  <2> QED
    BY <2>2, <2>3, StaysInPlace
<1>2. ASSUME NEW r \in Request, StatementFails(r) PROVE InOnePlace(c)'
  <2>1. recovery' = recovery /\ spent' = spent
    BY <1>2 DEF StatementFails, store
  <2> QED
    BY <1>2, <2>1, HoldsStill, StaysInPlace
<1>3. ASSUME NEW r \in Request, Recover(r) PROVE InOnePlace(c)'
  <2>1. spent' = spent /\ at[r] = "recover" /\ Target(r) \in User /\ Step(r)
    BY <1>3 DEF Recover, NoCodes, Does, Step, Typed, DataFits, DataFit
  <2>2. \A q \in Request \ {r} : Holds(q, c)' <=> Holds(q, c)
    BY <2>1, OthersStay DEF Holds, Carries, Stores, Kind, Typed
  <2>3. CASE c = call[r].code /\ c \in recovery[Target(r)]
    <3>1. c \notin recovery'[Target(r)] /\ \A v \in User \ {Target(r)} : recovery'[v] = recovery[v]
      BY <1>a, <1>3, <2>1, <2>3 DEF Recover
    <3>2. \A v \in User : c \notin recovery'[v]
      BY <2>1, <2>3, <3>1 DEF InOnePlace
    <3> QED
      BY <2>1, <2>2, <2>3, <3>2 DEF InOnePlace
  <2>4. CASE ~(c = call[r].code /\ c \in recovery[Target(r)])
    <3>1. \A v \in User : recovery'[v] \subseteq recovery[v]
      BY <1>a, <1>3 DEF Recover
    <3>2. ~Holds(r, c)'
      <4>1. at'[r] # "store"
        BY <1>a, <1>3 DEF Recover, Done, GoTo, Goes
      <4>2. at'[r] = "open" => call'[r].code # c
        BY <1>a, <1>3, <2>4 DEF Recover, Done, GoTo, Goes
      <4> QED
        BY <4>1, <4>2 DEF Holds, Carries, Stores
    <3> QED
      BY <2>1, <2>2, <3>1, <3>2, StaysInPlace
  <2> QED
    BY <2>3, <2>4
<1>4. ASSUME NEW r \in Request, Wipe(r) PROVE InOnePlace(c)'
  <2>1. spent' = spent /\ at[r] = "wipe" /\ Step(r)
    BY <1>4 DEF Wipe, NoCodes, Does, Step
  <2>2. \A q \in Request \ {r} : Holds(q, c)' <=> Holds(q, c)
    BY <2>1, OthersStay DEF Holds, Carries, Stores, Kind, Typed
  <2>3. \A v \in User : recovery'[v] \subseteq recovery[v]
    BY <1>a, <1>4 DEF Wipe
  <2>4. at'[r] = "store" /\ call'[r].set = issued + 1
    BY <1>a, <1>4 DEF Wipe, Goes, Call
  <2>5. CASE c[2] = issued + 1
    <3>1. c \notin spent /\ \A v \in User : c \notin recovery[v]
      BY <1>a, <2>5 DEF Issued
    <3>2. \A q \in Request : ~Holds(q, c)
      <4> SUFFICES ASSUME NEW q \in Request, Holds(q, c) PROVE FALSE
        OBVIOUS
      <4>1. CASE Carries(q, c)
        BY <1>a, <2>5, <4>1 DEF Carries, Issued, Active
      <4>2. CASE Stores(q, c)
        BY <1>a, <2>5, <4>2 DEF Stores, Issued
      <4> QED
        BY <4>1, <4>2 DEF Holds
    <3> QED
      BY <2>1, <2>2, <2>3, <3>1, <3>2 DEF InOnePlace
  <2>6. CASE c[2] # issued + 1
    BY <2>1, <2>2, <2>3, <2>4, <2>6, StaysInPlace DEF Holds, Carries, Stores
  <2> QED
    BY <2>5, <2>6
<1>5. ASSUME NEW r \in Request, StoreCode(r) PROVE InOnePlace(c)'
  <2>1. /\ spent' = spent /\ at[r] = "store" /\ Target(r) \in User
        /\ Step(r) /\ ~Recover(r) /\ ~Wipe(r)
    BY <1>5 DEF StoreCode, NoCodes, Does, Step, Recover, Wipe, Typed, DataFits, DataFit
  <2>2. \A q \in Request : Holds(q, c)' => Holds(q, c)
    BY <2>1, HoldsStill
  <2>3. CASE There(Target(r)) /\ c = Recovery(call[r].set, call[r].left)
    <3>1. call[r] \in Call /\ call[r].left \in Nat
      BY <1>a DEF Call
    <3>2. c[2] = call[r].set /\ c[3] = call[r].left
      BY <2>3 DEF Recovery
    <3>3. Holds(r, c)
      BY <2>1, <3>1, <3>2 DEF Holds, Stores
    <3>4. ~Holds(r, c)'
      <4>1. at'[r] # "open"
        BY <1>a, <1>5 DEF StoreCode, Goes, GoTo, Done
      <4>2. at'[r] = "store" => call'[r].left = call[r].left - 1
        BY <1>a, <1>5, <2>3, <3>1 DEF StoreCode, Goes, GoTo, Done, Call
      <4> QED
        BY <3>1, <3>2, <4>1, <4>2 DEF Holds, Carries, Stores
    <3>5. \A v \in User \ {Target(r)} : recovery'[v] = recovery[v]
      BY <1>a, <1>5 DEF StoreCode
    <3>6. \A q \in Request : ~Holds(q, c)'
      BY <2>2, <3>3, <3>4 DEF InOnePlace
    <3>7. c \notin spent' /\ \A v \in User \ {Target(r)} : c \notin recovery'[v]
      BY <2>1, <3>3, <3>5 DEF InOnePlace
    <3> QED
      BY <3>6, <3>7 DEF InOnePlace
  <2>4. CASE ~(There(Target(r)) /\ c = Recovery(call[r].set, call[r].left))
    <3>1. \A v \in User : c \in recovery'[v] => c \in recovery[v]
      BY <1>a, <1>5, <2>1, <2>4 DEF StoreCode
    <3> QED
      BY <2>1, <2>2, <3>1, StaysInPlace
  <2> QED
    BY <2>3, <2>4
<1>6. ASSUME NEW r \in Request, Open(r) PROVE InOnePlace(c)'
  <2>1. recovery' = recovery /\ at[r] = "open" /\ Step(r) /\ ~Recover(r) /\ ~Wipe(r)
    BY <1>6 DEF Open, Does, Step, Recover, Wipe
  <2>2. \A q \in Request : Holds(q, c)' => Holds(q, c)
    BY <2>1, HoldsStill
  <2>3. ~Holds(r, c)'
    BY <1>a, <1>6 DEF Open, Done, GoTo, Goes, Holds, Carries, Stores
  <2>4. CASE Holds(r, c)
    <3>1. \A q \in Request : ~Holds(q, c)'
      BY <2>2, <2>3, <2>4 DEF InOnePlace
    <3>2. \A u \in User : c \notin recovery'[u]
      BY <2>1, <2>4 DEF InOnePlace
    <3> QED
      BY <3>1, <3>2 DEF InOnePlace
  <2>5. CASE ~Holds(r, c)
    <3>1. c \in spent' => c \in spent
      <4>1. spent' = spent \/ spent' = spent \cup ({call[r].code} \ {None})
        BY <1>6 DEF Open, Spends, NoCodes
      <4>2. Kind(r) = "code" \/ call[r].code = None
        BY <2>1 DEF Typed, StepsFit, StepFits, DataFits, DataFit
      <4>3. call[r].code = None \/ call[r].code # c
        BY <2>1, <2>5, <4>2 DEF Holds, Carries
      <4> QED
        BY <4>1, <4>3
    <3> QED
      BY <2>1, <2>2, <3>1, StaysInPlace
  <2> QED
    BY <2>4, <2>5
<1>7. ASSUME NEW r \in Request, Step(r), ~Recover(r), ~Wipe(r), ~StoreCode(r), ~Open(r)
      PROVE  InOnePlace(c)'
  <2>1. \A u \in User : recovery'[u] \subseteq recovery[u]
    BY <1>a, <1>7, StepLeaves DEF Forget, Remove
  <2>2. c \in spent' => c \in spent
    <3>1. CASE FactorOn(r)
      <4>1. call[r].code[1] = "timed" /\ spent' = spent \cup ({call[r].code} \ {None})
        BY <3>1 DEF FactorOn, Spends, Does, Typed, StepsFit, StepFits, DataFits, DataFit
      <4> QED
        BY <4>1
    <3>2. CASE ~FactorOn(r)
      BY <1>7, <3>2, StepLeaves
    <3> QED
      BY <3>1, <3>2
  <2> QED
    BY <1>7, <2>1, <2>2, HoldsStill, StaysInPlace
<1>8. CASE Tick \/ Expire \/ UNCHANGED vars
  <2>1. /\ recovery' = recovery /\ spent' = spent /\ at' = at /\ call' = call
    BY <1>8 DEF Tick, Expire, vars, store, history
  <2> QED
    BY <2>1, StaysInPlace DEF Holds, Carries, Stores, Kind
<1>9. CASE Restart
  <2>1. /\ recovery' = recovery /\ spent' = spent /\ \A q \in Request : at'[q] = "idle"
    BY <1>9 DEF Restart, store
  <2> QED
    BY <2>1, StaysInPlace DEF Holds, Carries, Stores
<1> QED
  BY <1>1, <1>2, <1>3, <1>4, <1>5, <1>6, <1>7, <1>8, <1>9 DEF Next

LEMMA OneSetStep == Typed /\ InTurn /\ OneSet /\ [Next]_vars => OneSet'
<1> SUFFICES ASSUME Typed, InTurn, OneSet, [Next]_vars, NEW u \in User \ crossed'
             PROVE  /\ \A c \in recovery'[u], d \in recovery'[u] : c[2] = d[2]
                    /\ \A q \in Request : at'[q] = "store" /\ Target(q)' = u =>
                         \A c \in recovery'[u] : c[2] = call'[q].set
  BY DEF OneSet
<1>a. /\ at \in [Request -> Label] /\ call \in [Request -> Call]
      /\ recovery \in [User -> SUBSET Code] /\ InTurn'
  BY InTurnStep DEF Typed, TypeOK
<1>b. u \in User \ crossed =>
        /\ \A c \in recovery[u], d \in recovery[u] : c[2] = d[2]
        /\ \A q \in Request : at[q] = "store" /\ Target(q) = u =>
             \A c \in recovery[u] : c[2] = call[q].set
  BY DEF OneSet
(* Nothing is added, and whoever stores did so before. *)
<1>c. ASSUME crossed \subseteq crossed', recovery'[u] \subseteq recovery[u],
             \A q \in Request : at'[q] = "store" =>
               /\ at[q] = "store" /\ Target(q)' = Target(q) /\ call'[q].set = call[q].set
      PROVE  /\ \A c \in recovery'[u], d \in recovery'[u] : c[2] = d[2]
             /\ \A q \in Request : at'[q] = "store" /\ Target(q)' = u =>
                  \A c \in recovery'[u] : c[2] = call'[q].set
  BY <1>b, <1>c
<1>1. ASSUME NEW r \in Request, Begin(r)
      PROVE  crossed \subseteq crossed' /\ recovery' = recovery
             /\ \A q \in Request : at'[q] = "store" => /\ at[q] = "store" /\ call'[q] = call[q]
  <2>1. PICK c : \E step \in FirstSteps : Start(r, c, step) /\ Asked(r, c)
    BY <1>1, BeginAsks
  <2>2. crossed \subseteq crossed' /\ recovery' = recovery /\ at'[r] # "store"
    BY <1>a, <2>1 DEF Start, store, FirstSteps
  <2> QED
    BY <1>1, <2>2, OthersStay DEF Typed
<1>2. ASSUME NEW r \in Request, Wipe(r)
      PROVE  /\ \A c \in recovery'[u], d \in recovery'[u] : c[2] = d[2]
             /\ \A q \in Request : at'[q] = "store" /\ Target(q)' = u =>
                  \A c \in recovery'[u] : c[2] = call'[q].set
  <2>1. at[r] = "wipe" /\ Target(r) \in User /\ Step(r) /\ crossed' = crossed
    BY <1>2, SameCall DEF Wipe, Does, Step, Typed, DataFits, DataFit
  <2>2. CASE Target(r) = u
    <3>1. recovery'[u] = {}
      BY <1>a, <1>2, <2>1, <2>2 DEF Wipe
    <3> QED
      BY <3>1
  <2>3. CASE Target(r) # u
    <3>1. recovery'[u] = recovery[u]
      BY <1>a, <1>2, <2>1, <2>3 DEF Wipe
    <3>2. Target(r)' # u
      BY <1>a, <1>2, <2>3 DEF Wipe, Goes, Target, Call
    <3>3. \A q \in Request \ {r} : at'[q] = at[q] /\ call'[q] = call[q]
      BY <2>1, OthersStay DEF Typed
    <3> QED
      BY <1>b, <2>1, <3>1, <3>2, <3>3 DEF Target
  <2> QED
    BY <2>2, <2>3
<1>3. ASSUME NEW r \in Request, StoreCode(r)
      PROVE  /\ \A c \in recovery'[u], d \in recovery'[u] : c[2] = d[2]
             /\ \A q \in Request : at'[q] = "store" /\ Target(q)' = u =>
                  \A c \in recovery'[u] : c[2] = call'[q].set
  <2>1. at[r] = "store" /\ Target(r) \in User /\ Step(r) /\ crossed' = crossed
    BY <1>3, SameCall DEF StoreCode, Does, Step, Typed, DataFits, DataFit
  <2>2. \A q \in Request \ {r} : at'[q] = at[q] /\ call'[q] = call[q]
    BY <2>1, OthersStay DEF Typed
  <2>3. at'[r] = "store" => call'[r].set = call[r].set /\ Target(r)' = Target(r)
    BY <1>a, <1>3 DEF StoreCode, Goes, GoTo, Done, Target, Call
  <2>4. CASE Target(r) = u
    <3>1. \A c \in recovery'[u] : c[2] = call[r].set
      <4>1. \A c \in recovery'[u] : c \in recovery[u] \/ c = Recovery(call[r].set, call[r].left)
        BY <1>a, <1>3, <2>1, <2>4 DEF StoreCode
      <4> QED
        BY <1>b, <2>1, <2>4, <4>1 DEF Recovery
    <3>2. ASSUME NEW q \in Request \ {r}, at'[q] = "store", Target(q)' = u
          PROVE  FALSE
      <4>1. at[q] = "store" /\ Target(q) = u
        BY <2>2, <3>2 DEF Target
      <4>2. Active(q, Factor) /\ Active(r, Factor)
        BY <2>1, <4>1 DEF Active, Factor, Typed, StepsFit, StepFits
      <4> QED
        BY <2>1, <2>4, <4>1, <4>2 DEF InTurn
    <3> QED
      BY <2>3, <3>1, <3>2
  <2>5. CASE Target(r) # u
    <3>1. recovery'[u] = recovery[u]
      BY <1>a, <1>3, <2>1, <2>5 DEF StoreCode
    <3> QED
      BY <1>b, <2>1, <2>2, <2>3, <2>5, <3>1 DEF Target
  <2> QED
    BY <2>4, <2>5
<1>4. ASSUME NEW r \in Request, Step(r), ~Wipe(r), ~StoreCode(r)
      PROVE  /\ crossed \subseteq crossed' /\ recovery'[u] \subseteq recovery[u]
             /\ \A q \in Request : at'[q] = "store" => at[q] = "store" /\ call'[q] = call[q]
  <2>1. recovery'[u] \subseteq recovery[u] /\ crossed' = crossed
    BY <1>a, <1>4, StepLeaves DEF Recover, Forget, Remove
  <2>2. at'[r] # "store"
    BY <1>4, Arrives
  <2> QED
    BY <1>4, <2>1, <2>2, OthersStay DEF Typed
<1>5. ASSUME NEW r \in Request, StatementFails(r)
      PROVE  /\ crossed \subseteq crossed' /\ recovery' = recovery
             /\ \A q \in Request : at'[q] = "store" => at[q] = "store" /\ call'[q] = call[q]
  <2>1. at'[r] # "store"
    BY <1>a, <1>5 DEF StatementFails, GoTo, Goes, Unlooked, AfterForget, AfterRole, AfterOff,
       AfterClose
  <2> QED
    BY <1>5, <2>1, OthersStay DEF StatementFails, store, Typed
<1>6. CASE Tick \/ Expire \/ Restart \/ UNCHANGED vars
  <2>1. /\ crossed' = crossed /\ recovery' = recovery
        /\ (at' = at /\ call' = call) \/ \A q \in Request : at'[q] = "idle"
    BY <1>6 DEF Tick, Expire, Restart, vars, store, history
  <2> QED
    BY <1>c, <2>1 DEF Target
<1> QED
  BY <1>1, <1>2, <1>3, <1>4, <1>5, <1>6, <1>c DEF Next, Target

LEMMA RecoveryStep == Typed /\ InTurn /\ Issued /\ RecoveryInv /\ [Next]_vars => RecoveryInv'
<1> SUFFICES ASSUME Typed, InTurn, Issued, RecoveryInv, [Next]_vars PROVE RecoveryInv'
  OBVIOUS
<1>1. \A c \in Code : c[1] = "recovery" => InOnePlace(c)'
  BY PlaceStep DEF RecoveryInv
<1>2. OneSet'
  BY OneSetStep DEF RecoveryInv
<1>3. ASSUME NEW c \in again', c[1] = "recovery" PROVE FALSE
  <2>a. c \notin again
    BY <1>3 DEF RecoveryInv
  <2>1. ASSUME NEW r \in Request, Step(r) PROVE FALSE
    <3>1. Open(r) \/ FactorOn(r)
      BY <1>3, <2>1, <2>a, StepLeaves
    <3>2. c = call[r].code /\ c \in spent /\ c \in Code
      BY <1>3, <2>a, <3>1 DEF Open, FactorOn, Spends, NoCodes, Typed, TypeOK
    <3>3. ~FactorOn(r)
      BY <1>3, <3>2 DEF FactorOn, Does, Typed, StepsFit, StepFits, DataFits, DataFit
    <3>4. Kind(r) = "code" /\ at[r] = "open"
      <4>1. call[r].code # None
        BY <3>2 DEF Issued
      <4> QED
        BY <3>1, <3>3, <4>1 DEF Open, Does, Typed, StepsFit, StepFits, DataFits, DataFit
    <3> QED
      BY <1>3, <3>2, <3>4 DEF RecoveryInv, InOnePlace, Holds, Carries
  <2>2. ASSUME NEW r \in Request, Begin(r) PROVE FALSE
    BY <1>3, <2>2, <2>a, BeginStarts DEF Start
  <2>3. ASSUME NEW r \in Request, StatementFails(r) PROVE FALSE
    BY <1>3, <2>3, <2>a DEF StatementFails
  <2>4. CASE Tick \/ Expire \/ Restart \/ UNCHANGED vars
    BY <1>3, <2>4, <2>a DEF Tick, Expire, Restart, vars, history
  <2> QED
    BY <2>1, <2>2, <2>3, <2>4 DEF Next
<1> QED
  BY <1>1, <1>2, <1>3 DEF RecoveryInv

LEMMA RecoveryInit == Init => RecoveryInv
<1> SUFFICES ASSUME Init PROVE RecoveryInv
  OBVIOUS
<1>1. PICK s \in Scenario : recovery = s.recovery
  BY DEF Init
<1>2. \A u \in User : /\ \A c \in s.recovery[u], d \in s.recovery[u] : c[2] = d[2]
                     /\ \A v \in User \ {u} : s.recovery[u] \cap s.recovery[v] = {}
  BY AccountsAssumption
<1>3. spent = {} /\ again = {} /\ \A r \in Request : at[r] = "idle"
  BY DEF Init
<1> QED
  BY <1>1, <1>2, <1>3 DEF RecoveryInv, InOnePlace, OneSet, Holds, Carries, Stores

(* A recovery code opens one session, and with a new set the one before it *)
(* is worth nothing.                                                       *)
THEOREM ARecoveryCodeIsGoodOnce == Spec => []RecoveryOnce
<1>1. Init => Typed /\ InTurn /\ Issued /\ RecoveryInv
  BY InitTyped, InTurnInit, IssuedInit, RecoveryInit
<1>2. Typed /\ InTurn /\ Issued /\ RecoveryInv /\ [Next]_vars
        => (Typed /\ InTurn /\ Issued /\ RecoveryInv)'
  BY TypedStep, InTurnStep, IssuedStep, RecoveryStep
<1>3. RecoveryInv => RecoveryOnce
  <2> SUFFICES ASSUME RecoveryInv, NEW u \in User \ crossed
               PROVE  Cardinality({c[2] : c \in recovery[u]}) <= 1
    BY DEF RecoveryInv, RecoveryOnce
  <2>1. \A c \in recovery[u], d \in recovery[u] : c[2] = d[2]
    BY DEF RecoveryInv, OneSet
  <2>2. CASE recovery[u] = {}
    <3>1. {c[2] : c \in recovery[u]} = {}
      BY <2>2
    <3> QED
      BY <3>1, FS_EmptySet
  <2>3. CASE recovery[u] # {}
    <3>1. PICK d \in recovery[u] : TRUE
      BY <2>3
    <3>2. {c[2] : c \in recovery[u]} = {d[2]}
      BY <2>1, <3>1
    <3> QED
      <4>1. Cardinality({d[2]}) = 1
        BY FS_Singleton
      <4> QED
        BY <3>2, <4>1
  <2> QED
    BY <2>2, <2>3
<1> QED
  BY <1>1, <1>2, <1>3, PTL DEF Spec

------------------------------------------------------------------------------
(* Codes of the clock. *)

SecretsDiffer ==
  \A u \in User : \A v \in User \ {u} : There(u) /\ There(v) =>
    row[u].secret # row[v].secret \/ row[u].secret = 0

(* A code that was used is not newer than the last one of its secret, and  *)
(* its secret is on.                                                       *)
Old(c) ==
  /\ c[2] # 0
  /\ \A u \in User : There(u) /\ c[2] = row[u].secret => row[u].factor /\ c[3] <= row[u].last
UsedIsOld == \A c \in spent : c[1] = "timed" => Old(c)

(* A code found right, until it is used, is of the secret of its user and  *)
(* of nobody else, and newer than those used.                              *)
InHand(r) ==
  \/ at[r] = "mark"
  \/ at[r] = "open" /\ Kind(r) = "code" /\ call[r].code[1] = "timed"
  \/ Kind(r) = "enable" /\ at[r] \in {"wipe", "store", "factor"}

OfItsUser(r) ==
  There(Target(r)) =>
    /\ row[Target(r)].secret = call[r].code[2]
    /\ at[r] = "mark" => row[Target(r)].last < call[r].code[3]
    /\ at[r] = "open" => row[Target(r)].factor /\ call[r].code[3] <= row[Target(r)].last
    /\ Kind(r) = "enable" => ~row[Target(r)].factor

OfNobodyElse(r) ==
  /\ call[r].code \notin spent /\ call[r].code[2] # 0
  /\ \A v \in User \ {Target(r)} : There(v) => row[v].secret # call[r].code[2]
  /\ \A q \in Request \ {r} : InHand(q) => call[q].code[2] # call[r].code[2]

InHandIsNew == \A r \in Request : InHand(r) => OfItsUser(r) /\ OfNobodyElse(r)

InOrder == crossed \cup missed \cup early = {}

CodeInv == SecretsDiffer /\ (InOrder => UsedIsOld /\ InHandIsNew /\ \A c \in again : c[1] # "timed")

(* Once out of order, always. *)
LEMMA InOrderBack ==
  ASSUME Typed, [Next]_vars, InOrder'
  PROVE  InOrder
<1> USE DEF InOrder
<1>1. ASSUME NEW r \in Request, Step(r) PROVE InOrder
  BY <1>1, StepLeaves DEF Mark
<1>2. ASSUME NEW r \in Request, Begin(r) PROVE InOrder
  BY <1>2, BeginStarts DEF Start
<1>3. ASSUME NEW r \in Request, StatementFails(r) PROVE InOrder
  BY <1>3 DEF StatementFails
<1>4. CASE Tick \/ Expire \/ Restart \/ UNCHANGED vars
  BY <1>4 DEF Tick, Expire, Restart, vars, history
<1> QED
  BY <1>1, <1>2, <1>3, <1>4 DEF Next

(* What becomes of the factor of a user in a step. *)
FactorSteps(r) == Mark(r) \/ Secret(r) \/ FactorOn(r) \/ Unfactor(r)
SameFactor(v) ==
  /\ There(v) /\ row'[v].secret = row[v].secret
  /\ row'[v].factor = row[v].factor /\ row'[v].last = row[v].last

LEMMA FactorAfter ==
  ASSUME Typed, NEW r \in Request, Step(r), NEW v \in User, There(v)'
  PROVE  \/ SameFactor(v)
         \/ row[v] = NotYet /\ row'[v].secret = 0
         \/ There(v) /\ v = Target(r) /\ FactorSteps(r) /\ Active(r, Factor)
<1>1. CASE FactorSteps(r)
  <2>1. There(v) /\ (v # Target(r) => row'[v] = row[v])
    BY <1>1, FactorWritten DEF FactorSteps
  <2>2. Active(r, Factor)
    BY <1>1 DEF FactorSteps, Mark, Secret, FactorOn, Unfactor, Does, Active, Factor, Typed,
       StepsFit, StepFits
  <2> QED
    BY <1>1, <2>1, <2>2 DEF SameFactor
<1>2. CASE ~FactorSteps(r)
  BY <1>2, StepKeepsFactor DEF FactorSteps, FactorKept, SameFactor
<1> QED
  BY <1>1, <1>2

LEMMA SecretsStep == Typed /\ Issued /\ SecretsDiffer /\ [Next]_vars => SecretsDiffer'
<1> SUFFICES ASSUME Typed, Issued, SecretsDiffer, [Next]_vars PROVE SecretsDiffer'
  OBVIOUS
<1>a. issued \in Nat /\ \A u \in User : There(u) => row[u].secret \in Nat
  BY DEF Typed, TypeOK, There, Row
<1>1. ASSUME NEW r \in Request, Step(r) PROVE SecretsDiffer'
  <2>1. ASSUME NEW v \in User, There(v)'
        PROVE  \/ row'[v].secret = 0
               \/ There(v) /\ row'[v].secret = row[v].secret
               \/ v = Target(r) /\ row'[v].secret = issued + 1
    <3>1. CASE There(v) /\ v = Target(r) /\ FactorSteps(r)
      BY <3>1, FactorWritten DEF FactorSteps
    <3> QED
      BY <1>1, <2>1, <3>1, FactorAfter DEF SameFactor
  <2> QED
    BY <1>a, <2>1 DEF SecretsDiffer, Issued
<1>2. ASSUME NEW r \in Request, Begin(r) PROVE row' = row
  BY <1>2, BeginStarts DEF Start, store
<1>3. ASSUME NEW r \in Request, StatementFails(r) PROVE row' = row
  BY <1>3 DEF StatementFails, store
<1>4. CASE row' = row
  BY <1>4 DEF SecretsDiffer, There
<1>5. CASE Tick \/ Expire \/ Restart \/ UNCHANGED vars
  BY <1>4, <1>5 DEF Tick, Expire, Restart, vars, store
<1> QED
  BY <1>1, <1>2, <1>3, <1>4, <1>5 DEF Next

(* What the codes in hand are. *)
LEMMA InHandTyped ==
  ASSUME Typed, NEW r \in Request, InHand(r)
  PROVE  /\ Active(r, Factor) /\ Active(r, {"code", "enable"}) /\ Target(r) \in User
         /\ call[r].code \in Code /\ call[r].code[1] = "timed"
  BY DEF Typed, StepsFit, StepFits, DataFits, DataFit, InHand, Active, Factor

(* A code that opens a session or turns the factor on is in hand. *)
LEMMA SpendsInHand ==
  ASSUME Typed, NEW r \in Request, Open(r) \/ FactorOn(r), call[r].code # None
  PROVE  InHand(r) \/ call[r].code[1] = "recovery"
<1>1. CASE Open(r)
  <2>1. Kind(r) = "code" /\ call[r].code \in Code /\ at[r] = "open"
    BY <1>1 DEF Open, Does, Typed, StepsFit, StepFits, DataFits, DataFit
  <2> QED
    BY <2>1 DEF InHand, Code
<1>2. CASE FactorOn(r)
  BY <1>2 DEF FactorOn, Does, Typed, StepsFit, StepFits, InHand
<1> QED
  BY <1>1, <1>2

LEMMA Numbers ==
  ASSUME Typed
  PROVE  /\ \A c \in Code : c[2] \in Nat /\ c[3] \in Nat
         /\ \A u \in User : There(u) => row[u].secret \in Nat /\ row[u].last \in Nat
         /\ spent \subseteq Code /\ issued \in Nat
<1>1. \A c \in Code : c[2] \in Nat /\ c[3] \in Nat
  BY Constants DEF Code
<1>2. \A u \in User : There(u) => row[u].secret \in Nat /\ row[u].last \in Nat
  BY Constants DEF Typed, TypeOK, There, Row
<1> QED
  BY <1>1, <1>2 DEF Typed, TypeOK

(* Codes used stay old. *)
LEMMA OldStep ==
  ASSUME Typed, Issued, UsedIsOld, InHandIsNew, NEW r \in Request, Step(r)
  PROVE  UsedIsOld'
<1> SUFFICES ASSUME NEW c \in spent', c[1] = "timed"
             PROVE  /\ c[2] # 0
                    /\ \A u \in User : There(u)' /\ c[2] = row'[u].secret =>
                         row'[u].factor /\ c[3] <= row'[u].last
  BY DEF UsedIsOld, Old
<1>1. CASE c \in spent
  <2>1. Old(c) /\ c[2] <= issued /\ c[2] \in Nat /\ c[3] \in Nat
    BY <1>1, Numbers DEF UsedIsOld, Issued
  <2> SUFFICES ASSUME NEW u \in User, There(u)', c[2] = row'[u].secret
               PROVE  row'[u].factor /\ c[3] <= row'[u].last
    BY <2>1 DEF Old
  <2>2. CASE SameFactor(u)
    BY <2>1, <2>2 DEF Old, SameFactor
  <2>3. CASE row[u] = NotYet /\ row'[u].secret = 0
    BY <2>1, <2>3 DEF Old
  <2>4. CASE There(u) /\ u = Target(r) /\ FactorSteps(r)
    <3>1. CASE Mark(r)
      <4>1. InHand(r) /\ call[r].code[3] \in Nat
        BY <3>1, InHandTyped, Numbers DEF InHand, Mark, Does
      <4>2. row[u].last < call[r].code[3] /\ row[u].last \in Nat
        BY <2>4, <3>1, <4>1, Numbers DEF InHandIsNew, OfItsUser, Mark, Does
      <4>3. /\ row'[u].secret = row[u].secret /\ row'[u].factor = row[u].factor
            /\ row'[u].last = call[r].code[3]
        BY <2>4, <3>1, FactorWritten
      <4> QED
        BY <2>1, <2>4, <4>1, <4>2, <4>3 DEF Old
    <3>2. CASE Secret(r)
      <4>1. row'[u].secret = issued + 1
        BY <2>4, <3>2, FactorWritten
      <4> QED
        BY <2>1, <4>1, Numbers
    <3>3. CASE FactorOn(r)
      <4>1. InHand(r) /\ Kind(r) = "enable"
        BY <3>3 DEF FactorOn, Does, InHand, Typed, StepsFit, StepFits
      <4>2. row'[u].secret = row[u].secret /\ ~row[u].factor
        BY <2>4, <3>3, <4>1, FactorWritten DEF InHandIsNew, OfItsUser
      <4> QED
        BY <2>1, <2>4, <4>2 DEF Old
    <3>4. CASE Unfactor(r)
      <4>1. row'[u].secret = 0
        BY <2>4, <3>4, FactorWritten
      <4> QED
        BY <2>1, <4>1 DEF Old
    <3> QED
      BY <2>4, <3>1, <3>2, <3>3, <3>4 DEF FactorSteps
  <2> QED
    BY <2>2, <2>3, <2>4, FactorAfter
<1>2. CASE c \notin spent
  <2>1. ((Open(r) /\ There(Target(r))) \/ FactorOn(r)) /\ c = call[r].code /\ c # None
    BY <1>2, StepLeaves DEF Open, FactorOn, Spends, NoCodes
  <2>2. InHand(r)
    BY <2>1, SpendsInHand
  <2>3. OfItsUser(r) /\ OfNobodyElse(r) /\ c \in Code /\ Target(r) \in User
    BY <2>1, <2>2, InHandTyped DEF InHandIsNew
  <2>4. CASE Open(r)
    <3>1. row' = row /\ at[r] = "open"
      BY <2>4 DEF Open, Does
    <3> QED
      BY <2>1, <2>3, <3>1 DEF OfItsUser, OfNobodyElse, There
  <2>5. CASE FactorOn(r)
    <3>1. c[3] \in Nat
      BY <2>3, Numbers
    <3>2. ASSUME NEW v \in User, v = Target(r), There(v)'
          PROVE  row'[v].factor /\ row'[v].last = c[3]
      BY <2>1, <2>3, <2>5, <3>2, FactorWritten
    <3>3. \A v \in User \ {Target(r)} : There(v)' => There(v) /\ row'[v] = row[v]
      BY <2>5, FactorWritten
    <3> QED
      BY <2>1, <2>3, <3>1, <3>2, <3>3 DEF OfNobodyElse, There
  <2> QED
    BY <2>1, <2>4, <2>5
<1> QED
  BY <1>1, <1>2

(* A code is found right by a step that leaves rows and codes as they are. *)
LEMMA FoundRight ==
  ASSUME Typed, SessionInv, OwnSession, Issued, SecretsDiffer, UsedIsOld,
         NEW r \in Request, Step(r), InHand(r)', ~InHand(r)
  PROVE  /\ row' = row /\ spent' = spent /\ call'[r].code = call[r].code
         /\ Target(r)' = Target(r) /\ Target(r) \in User /\ There(Target(r))
         /\ row[Target(r)].secret = call[r].code[2] /\ call[r].code[2] # 0
         /\ call[r].code \notin spent /\ Active(r, Factor)
         /\ \/ at'[r] = "mark" /\ Kind(r) = "code" /\ row[Target(r)].last < call[r].code[3]
            \/ at'[r] = "wipe" /\ ~row[Target(r)].factor
<1>a. /\ call \in [Request -> Call] /\ at \in [Request -> Label]
      /\ at[r] # "idle" /\ at'[r] # "idle" /\ Kind(r)' = Kind(r) /\ Target(r)' = Target(r)
      /\ call'[r].code = call[r].code
  BY SameCall DEF InHand, Typed, TypeOK
<1>1. Verify(r) \/ Proof(r)
  <2>1. CASE at'[r] = "mark" \/ at'[r] = "wipe"
    BY <2>1, Arrives
  <2>2. CASE at'[r] = "open" /\ Kind(r) = "code" /\ call[r].code[1] = "timed"
    <3>1. ~Check(r)
      BY <1>a, <2>2 DEF Check, Does, Typed, StepsFit, StepFits
    <3>2. ~Recover(r)
      <4> SUFFICES ASSUME Recover(r) PROVE FALSE
        OBVIOUS
      <4>1. call[r].code \in recovery[Target(r)] /\ Target(r) \in User
        BY <1>a, <2>2 DEF Recover, Done, GoTo, Goes, Does, Typed, DataFits, DataFit
      <4> QED
        BY <2>2, <4>1 DEF Issued
    <3> QED
      BY <2>2, <3>1, <3>2, Arrives DEF InHand
  <2>3. CASE Kind(r) = "enable" /\ at'[r] \in {"store", "factor"}
    <3>1. Wipe(r) \/ StoreCode(r)
      BY <2>3, Arrives
    <3> QED
      BY <2>3, <3>1 DEF InHand, Wipe, StoreCode, Does
  <2> QED
    BY <1>a, <2>1, <2>2, <2>3 DEF InHand
<1>2. CASE Verify(r)
  <2>1. row' = row /\ spent' = spent /\ at[r] = "verify" /\ Kind(r) = "code"
        /\ Target(r) \in User /\ call[r].code \in Code
    BY <1>2 DEF Verify, NoStore, NoCodes, store, Does, Typed, StepsFit, StepFits, DataFits, DataFit
  <2>2. at'[r] \in {"idle", "mark", "recover"}
    BY <1>a, <1>2 DEF Verify, GoTo, Goes, Done
  <2>3. at'[r] = "mark"
    BY <1>a, <2>1, <2>2 DEF InHand
  <2>4. /\ There(Target(r))
        /\ Fits(call[r].code, row[Target(r)].secret, row[Target(r)].last)
    BY <1>a, <1>2, <2>3 DEF Verify, GoTo, Goes, Done
  <2>5. row[Target(r)].last < call[r].code[3] /\ call[r].code[1] = "timed"
        /\ row[Target(r)].secret = call[r].code[2] /\ call[r].code[2] # 0
    BY <2>1, <2>4, Numbers DEF Fits
  <2>6. call[r].code \notin spent
    BY <2>1, <2>4, <2>5, Numbers DEF UsedIsOld, Old
  <2> QED
    BY <1>a, <2>1, <2>3, <2>4, <2>5, <2>6 DEF Active, Factor
<1>3. CASE Proof(r)
  <2>1. row' = row /\ spent' = spent /\ at[r] = "proof"
    BY <1>3 DEF Proof, NoStore, NoCodes, store, Does
  <2>2. Kind(r) = "enable"
    <3>1. Kind(r) \in {"change", "enable", "disable", "renew"}
      BY <2>1 DEF Typed, StepsFit, StepFits
    <3>2. at'[r] \in {"idle", "pass", "wipe", "unfactor"}
      BY <1>a, <1>3, <3>1 DEF Proof, Goes, GoTo, Done
    <3> QED
      BY <1>a, <3>2 DEF InHand
  <2>3. at'[r] = "wipe" /\ Me(call[r].who) # None /\ ~row[Target(r)].factor
        /\ Fits(call[r].code, row[Target(r)].secret, 0)
    BY <1>a, <1>3, <2>2 DEF Proof, Goes, GoTo, Done
  <2>4. Target(r) \in User /\ There(Target(r)) /\ call[r].code \in Code
    <3>1. Live(call[r].who) /\ Active(r, Own) /\ call[r].code \in Code
      BY <2>1, <2>2, <2>3 DEF Me, Active, Own, Typed, DataFits, DataFit
    <3>2. PICK s \in sessions : s.id = call[r].who
      BY <3>1 DEF Live
    <3>3. s.user = Target(r) /\ There(s.user) /\ s.user \in User
      BY <3>1, <3>2 DEF OwnSession, SessionInv, Typed, TypeOK
    <3> QED
      BY <3>1, <3>3
  <2>5. row[Target(r)].secret = call[r].code[2] /\ call[r].code[2] # 0
        /\ call[r].code[1] = "timed"
    BY <2>3 DEF Fits
  <2>6. call[r].code \notin spent
    BY <2>3, <2>4, <2>5 DEF UsedIsOld, Old
  <2> QED
    BY <1>a, <2>1, <2>2, <2>3, <2>4, <2>5, <2>6 DEF Active, Factor
<1> QED
  BY <1>1, <1>2, <1>3

(* As long as all is in order, two requests with a code each are of two    *)
(* users.                                                                  *)
LEMMA TwoUsers ==
  ASSUME InTurn, InOrder, NEW r \in Request, NEW q \in Request \ {r},
         Active(r, Factor), Active(q, Factor)
  PROVE  Target(r) # Target(q)
  BY DEF InTurn, InOrder

(* The codes of the others stay in hand as they were. *)
LEMMA OthersInHand ==
  ASSUME Typed, InTurn, Known, SessionInv, OwnSession, Issued, SecretsDiffer, UsedIsOld,
         InHandIsNew, InOrder,
         NEW r \in Request, Step(r), NEW q \in Request \ {r}, InHand(q)'
  PROVE  OfItsUser(q)' /\ OfNobodyElse(q)'
<1>a. at'[q] = at[q] /\ call'[q] = call[q]
  BY OthersStay DEF Typed
<1>b. InHand(q) /\ OfItsUser(q) /\ OfNobodyElse(q)
  BY <1>a DEF InHandIsNew, InHand, Kind
<1>c. /\ Active(q, Factor) /\ Target(q) \in User /\ call[q].code \in Code
      /\ call[q].code[1] = "timed" /\ call[q].code[2] <= issued /\ row[Target(q)] # NotYet
      /\ call[q].code[2] \in Nat /\ issued \in Nat
  BY <1>b, InHandTyped, Numbers DEF Issued, Known
<1>d. Target(q)' = Target(q) /\ Kind(q)' = Kind(q)
  BY <1>a DEF Target, Kind
<1> DEFINE u == Target(q)
           c == call[q].code
<1>1. ASSUME NEW v \in User, v = u, There(v)' PROVE SameFactor(v)
  <2>1. ~(v = Target(r) /\ Active(r, Factor))
    BY <1>1, <1>c, TwoUsers
  <2> QED
    BY <1>1, <1>c, <2>1, FactorAfter
<1>2. OfItsUser(q)'
  <2>1. SameFactor(u) \/ row'[u] \in {NotYet, Gone}
    BY <1>1, <1>c DEF There
  <2> QED
    BY <1>a, <1>b, <1>d, <2>1 DEF OfItsUser, SameFactor, There
<1>3. c \notin spent'
  <2>1. CASE Open(r) \/ FactorOn(r)
    <3>1. spent' = spent \/ spent' = spent \cup ({call[r].code} \ {None})
      BY <2>1 DEF Open, FactorOn, Spends, NoCodes
    <3>2. call[r].code = None \/ call[r].code[1] = "recovery" \/ InHand(r)
      BY <2>1, SpendsInHand
    <3>3. InHand(r) => call[r].code[2] # c[2]
      BY <1>b DEF OfNobodyElse
    <3> QED
      BY <1>b, <1>c, <3>1, <3>2, <3>3 DEF OfNobodyElse
  <2>2. CASE ~Open(r) /\ ~FactorOn(r)
    BY <1>b, <2>2, StepLeaves DEF OfNobodyElse
  <2> QED
    BY <2>1, <2>2
<1>4. ASSUME NEW v \in User \ {u}, There(v)' PROVE row'[v].secret # c[2]
  <2>1. CASE SameFactor(v)
    BY <1>b, <2>1 DEF SameFactor, OfNobodyElse
  <2>2. CASE row'[v].secret = 0
    BY <1>b, <2>2 DEF OfNobodyElse
  <2>3. CASE There(v) /\ v = Target(r) /\ FactorSteps(r)
    <3>1. row'[v].secret \in {row[v].secret, issued + 1, 0}
      BY <2>3, FactorWritten DEF FactorSteps
    <3> QED
      BY <1>b, <1>c, <2>3, <3>1 DEF OfNobodyElse
  <2> QED
    BY <1>4, <2>1, <2>2, <2>3, FactorAfter
<1>5. ASSUME NEW p \in Request \ {q}, InHand(p)' PROVE call'[p].code[2] # c[2]
  <2>1. CASE InHand(p)
    <3>1. call'[p].code = call[p].code
      <4>1. CASE p = r
        <5>1. at'[p] # "idle"
          BY <1>5 DEF InHand
        <5> QED
          BY <4>1, <5>1, SameCall
      <4>2. CASE p # r
        BY <4>2, OthersStay DEF Typed
      <4> QED
        BY <4>1, <4>2
    <3> QED
      BY <1>b, <2>1, <3>1 DEF OfNobodyElse
  <2>2. CASE ~InHand(p)
    <3>1. p = r
      BY <1>5, <2>2, OthersStay DEF InHand, Kind, Typed
    <3>2. /\ call'[r].code = call[r].code /\ Target(r) \in User /\ There(Target(r))
          /\ row[Target(r)].secret = call[r].code[2] /\ Active(r, Factor)
      BY <1>5, <2>2, <3>1, FoundRight
    <3>3. Target(r) # u
      BY <1>c, <3>2, TwoUsers
    <3> QED
      BY <1>b, <3>1, <3>2, <3>3 DEF OfNobodyElse
  <2> QED
    BY <2>1, <2>2
<1>6. OfNobodyElse(q)'
  <2>1. c = call'[q].code /\ u = Target(q)'
    BY <1>a, <1>d
  <2>2. c[2] # 0
    BY <1>b DEF OfNobodyElse
  <2> HIDE DEF c, u
  <2> QED
    BY <1>3, <1>4, <1>5, <2>1, <2>2 DEF OfNobodyElse
<1> QED
  BY <1>2, <1>6

(* So do those of the request itself. *)
LEMMA OwnInHand ==
  ASSUME Typed, InTurn, Known, SessionInv, OwnSession, Issued, SecretsDiffer, UsedIsOld,
         InHandIsNew, InOrder, InOrder',
         NEW r \in Request, Step(r), InHand(r)'
  PROVE  OfItsUser(r)' /\ OfNobodyElse(r)'
<1>a. /\ at \in [Request -> Label] /\ at'[r] # "idle"
      /\ Target(r)' = Target(r) /\ Kind(r)' = Kind(r) /\ call'[r].code = call[r].code
  BY SameCall DEF InHand, Typed, TypeOK
<1>b. \A q \in Request \ {r} : InHand(q)' => InHand(q) /\ call'[q].code = call[q].code
  BY OthersStay DEF InHand, Kind, Typed
<1>1. CASE ~InHand(r)
  <2>1. /\ row' = row /\ spent' = spent /\ Target(r) \in User /\ There(Target(r))
        /\ row[Target(r)].secret = call[r].code[2] /\ call[r].code[2] # 0
        /\ call[r].code \notin spent /\ Active(r, Factor)
        /\ \/ at'[r] = "mark" /\ Kind(r) = "code" /\ row[Target(r)].last < call[r].code[3]
           \/ at'[r] = "wipe" /\ ~row[Target(r)].factor
    BY <1>1, FoundRight
  <2>2. OfItsUser(r)'
    BY <1>a, <2>1 DEF OfItsUser
  <2>3. \A v \in User \ {Target(r)} : There(v) => row[v].secret # call[r].code[2]
    BY <2>1 DEF SecretsDiffer
  <2>4. ASSUME NEW q \in Request \ {r}, InHand(q)' PROVE call'[q].code[2] # call[r].code[2]
    <3>1. InHand(q) /\ Active(q, Factor) /\ Target(q) # Target(r)
      BY <1>b, <2>1, <2>4, InHandTyped, TwoUsers
    <3>2. row[Target(r)].secret # call[q].code[2]
      BY <2>1, <3>1 DEF InHandIsNew, OfNobodyElse
    <3> QED
      BY <1>b, <2>1, <2>4, <3>2
  <2> QED
    BY <1>a, <2>1, <2>2, <2>3, <2>4 DEF OfNobodyElse, There
<1>2. CASE InHand(r)
  <2>1. OfItsUser(r) /\ OfNobodyElse(r) /\ Target(r) \in User /\ call[r].code \in Code
    BY <1>2, InHandTyped DEF InHandIsNew
  <2>2. Mark(r) \/ Wipe(r) \/ StoreCode(r)
    <3>1. CASE at[r] = "mark"
      BY <3>1 DEF Step, Does, Check, Verify, Mark, Recover, Open, Logout, LogoutOthers, Proof,
         Pass, CloseOthers, Unset, Secret, Wipe, StoreCode, FactorOn, Unfactor, Forget, Create,
         Read, Self, Count, SetRole, SetOff, Close, Remove
    <3>2. CASE at[r] \in {"wipe", "store"}
      BY <3>2 DEF Step, Does, Check, Verify, Mark, Recover, Open, Logout, LogoutOthers, Proof,
         Pass, CloseOthers, Unset, Secret, Wipe, StoreCode, FactorOn, Unfactor, Forget, Create,
         Read, Self, Count, SetRole, SetOff, Close, Remove
    <3>3. CASE at[r] \in {"open", "factor"}
      <4>1. Open(r) \/ FactorOn(r)
        BY <3>3 DEF Step, Does, Check, Verify, Mark, Recover, Open, Logout, LogoutOthers, Proof,
           Pass, CloseOthers, Unset, Secret, Wipe, StoreCode, FactorOn, Unfactor, Forget, Create,
           Read, Self, Count, SetRole, SetOff, Close, Remove
      <4> QED
        BY <1>a, <4>1 DEF Open, FactorOn, Done, GoTo, Goes
    <3> QED
      BY <1>2, <3>1, <3>2, <3>3 DEF InHand
  <2>3. spent' = spent /\ ~Open(r) /\ ~FactorOn(r)
    BY <2>2 DEF Mark, Wipe, StoreCode, NoCodes, Does, Open, FactorOn
  <2>4. \A v \in User \ {Target(r)} : There(v)' => There(v) /\ row'[v] = row[v]
    BY <2>2, FactorWritten DEF Wipe, StoreCode, There
  <2>5. OfNobodyElse(r)'
    BY <1>a, <1>b, <2>1, <2>3, <2>4 DEF OfNobodyElse
  <2>6. CASE Mark(r)
    <3>1. at'[r] = "open" /\ Kind(r) # "enable" /\ call[r].code[3] \in Nat
      BY <1>a, <2>1, <2>6, Numbers DEF Mark, GoTo, Goes, Does, Typed, StepsFit, StepFits
    <3>2. ASSUME NEW v \in User, v = Target(r), There(v)'
          PROVE  /\ row'[v].secret = call[r].code[2] /\ row'[v].factor
                 /\ call[r].code[3] <= row'[v].last
      <4>1. There(v)
        BY <2>6, <3>2, FactorWritten
      <4>2. row[v].factor
        BY <2>6, <3>2, <4>1 DEF Mark, InOrder
      <4> QED
        BY <2>1, <2>6, <3>1, <3>2, <4>1, <4>2, FactorWritten DEF OfItsUser
    <3>3. OfItsUser(r)'
      BY <1>a, <2>1, <3>1, <3>2 DEF OfItsUser, There
    <3> QED
      BY <2>5, <3>3
  <2>7. CASE Wipe(r) \/ StoreCode(r)
    <3>1. row' = row /\ Kind(r) = "enable" /\ at'[r] \in {"store", "factor"}
      <4>1. row' = row /\ at[r] \in {"wipe", "store"}
        BY <2>7 DEF Wipe, StoreCode, Does
      <4>2. at'[r] \in {"store", "factor", "idle"}
        BY <1>a, <2>7 DEF Wipe, StoreCode, Goes, GoTo, Done
      <4> QED
        BY <1>2, <1>a, <4>1, <4>2 DEF InHand
    <3>2. OfItsUser(r)'
      BY <1>a, <2>1, <3>1 DEF OfItsUser, There
    <3> QED
      BY <2>5, <3>2
  <2> QED
    BY <2>2, <2>6, <2>7
<1> QED
  BY <1>1, <1>2

LEMMA CodeStep ==
  /\ Typed /\ InTurn /\ Known /\ SessionInv /\ OwnSession /\ Issued /\ CodeInv
  /\ [Next]_vars
  => CodeInv'
<1> SUFFICES ASSUME Typed, InTurn, Known, SessionInv, OwnSession, Issued, CodeInv, [Next]_vars
             PROVE  CodeInv'
  OBVIOUS
<1>1. SecretsDiffer' /\ SecretsDiffer
  BY SecretsStep DEF CodeInv
<1> SUFFICES ASSUME InOrder' PROVE UsedIsOld' /\ InHandIsNew' /\ \A c \in again' : c[1] # "timed"
  BY <1>1 DEF CodeInv
<1>2. InOrder
  BY InOrderBack
<1>3. UsedIsOld /\ InHandIsNew /\ \A c \in again : c[1] # "timed"
  BY <1>2 DEF CodeInv
<1>4. ASSUME NEW r \in Request, Step(r)
      PROVE  UsedIsOld' /\ InHandIsNew' /\ \A c \in again' : c[1] # "timed"
  <2>1. UsedIsOld'
    BY <1>3, <1>4, OldStep
  <2>2. InHandIsNew'
    <3>1. ASSUME NEW q \in Request, InHand(q)' PROVE OfItsUser(q)' /\ OfNobodyElse(q)'
      <4>1. CASE q = r
        BY <1>1, <1>2, <1>3, <1>4, <3>1, <4>1, OwnInHand
      <4>2. CASE q # r
        BY <1>1, <1>2, <1>3, <1>4, <3>1, <4>2, OthersInHand
      <4> QED
        BY <4>1, <4>2
    <3> QED
      BY <3>1 DEF InHandIsNew
  <2>3. ASSUME NEW c \in again', c[1] = "timed" PROVE FALSE
    <3>1. Open(r) \/ FactorOn(r)
      BY <1>3, <1>4, <2>3, StepLeaves
    <3>2. c = call[r].code /\ c \in spent
      BY <1>3, <2>3, <3>1 DEF Open, FactorOn, Spends, NoCodes
    <3>3. InHand(r)
      BY <2>3, <3>1, <3>2, SpendsInHand DEF Issued
    <3> QED
      BY <1>3, <3>2, <3>3 DEF InHandIsNew, OfNobodyElse
  <2> QED
    BY <2>1, <2>2, <2>3
(* The others leave rows and codes alone, and bring nothing in hand. *)
<1>5. ASSUME row' = row, spent' = spent, again' = again,
             \A q \in Request : InHand(q)' => at'[q] = at[q] /\ call'[q] = call[q]
      PROVE  UsedIsOld' /\ InHandIsNew' /\ \A c \in again' : c[1] # "timed"
  <2>1. UsedIsOld'
    BY <1>3, <1>5 DEF UsedIsOld, Old, There
  <2>2. ASSUME NEW q \in Request, InHand(q)' PROVE InHand(q) /\ call'[q] = call[q]
    BY <1>5, <2>2 DEF InHand, Kind
  <2>3. ASSUME NEW q \in Request, InHand(q)' PROVE OfItsUser(q)' /\ OfNobodyElse(q)'
    <3>1. OfItsUser(q) /\ OfNobodyElse(q) /\ at'[q] = at[q] /\ call'[q] = call[q]
      BY <1>3, <1>5, <2>2, <2>3 DEF InHandIsNew
    <3> QED
      BY <1>5, <2>2, <3>1 DEF OfItsUser, OfNobodyElse, There, Target, Kind
  <2> QED
    BY <1>3, <1>5, <2>1, <2>3 DEF InHandIsNew
<1>6. ASSUME NEW r \in Request, Begin(r)
      PROVE  UsedIsOld' /\ InHandIsNew' /\ \A c \in again' : c[1] # "timed"
  <2>1. PICK c : \E step \in FirstSteps : Start(r, c, step) /\ Asked(r, c)
    BY <1>6, BeginAsks
  <2>2. row' = row /\ spent' = spent /\ again' = again /\ ~InHand(r)'
    BY <2>1 DEF Start, store, FirstSteps, InHand, Typed, TypeOK
  <2> QED
    BY <1>5, <1>6, <2>2, OthersStay DEF Typed
<1>7. ASSUME NEW r \in Request, StatementFails(r)
      PROVE  UsedIsOld' /\ InHandIsNew' /\ \A c \in again' : c[1] # "timed"
  <2>1. at[r] # "mark"
    BY <1>7 DEF StatementFails, InOrder
  <2>2. at'[r] \notin {"mark", "open", "wipe", "store", "factor"}
    BY <1>7, <2>1 DEF StatementFails, GoTo, Goes, Unlooked, AfterForget, AfterRole, AfterOff,
       AfterClose, Typed, TypeOK
  <2>3. row' = row /\ spent' = spent /\ again' = again /\ ~InHand(r)'
    BY <1>7, <2>2 DEF StatementFails, store, InHand
  <2> QED
    BY <1>5, <1>7, <2>3, OthersStay DEF Typed
<1>8. CASE Tick \/ Expire \/ Restart \/ UNCHANGED vars
  <2>1. /\ row' = row /\ spent' = spent /\ again' = again
        /\ (at' = at /\ call' = call) \/ \A q \in Request : at'[q] = "idle"
    BY <1>8 DEF Tick, Expire, Restart, vars, store, history
  <2> QED
    BY <1>5, <2>1 DEF InHand
<1> QED
  BY <1>4, <1>6, <1>7, <1>8 DEF Next

LEMMA CodeInit == Init => CodeInv
<1> SUFFICES ASSUME Init PROVE CodeInv
  OBVIOUS
<1>1. PICK s \in Scenario : row = s.row
  BY DEF Init
<1>2. \A u \in User, v \in User :
        s.row[u] # NotYet /\ s.row[v] # NotYet /\ s.row[u].secret = s.row[v].secret
          => u = v \/ s.row[u].secret = 0
  BY AccountsAssumption
<1>3. spent = {} /\ again = {} /\ \A r \in Request : at[r] = "idle"
  BY DEF Init
<1> QED
  BY <1>1, <1>2, <1>3 DEF CodeInv, SecretsDiffer, UsedIsOld, InHandIsNew, InHand, There

(* A code of the clock is good once, as long as uses of one user's codes   *)
(* do not overlap, every used step is written, and nobody logs in with a   *)
(* secret that is not on.                                                  *)
THEOREM ACodeOfTheClockIsGoodOnce == Spec => []CodeOnce
<1> DEFINE Inv == Typed /\ InTurn /\ Known /\ SessionInv /\ OwnSession /\ Issued /\ CodeInv
<1>1. Init => Inv
  BY InitTyped, InTurnInit, KnownInit, InitSessions, OwnSessionInit, IssuedInit, CodeInit
<1>2. Inv /\ [Next]_vars => Inv'
  BY TypedStep, InTurnStep, KnownStep, SessionStep, OwnSessionStep, IssuedStep, CodeStep
<1>3. Inv => CodeOnce
  BY DEF CodeInv, CodeOnce, InOrder
<1> QED
  BY <1>1, <1>2, <1>3, PTL DEF Spec
=============================================================================
