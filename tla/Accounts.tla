------------------------------ MODULE Accounts ------------------------------
(***************************************************************************)
(* Accounts, sessions and the second factor (core/auth.go, core/users.go,  *)
(* core/totp.go).  The database does one statement at a time; a handler is *)
(* several of them, so what it has read may be old when it writes.  Of a   *)
(* password only matters which one it is, counted from 1, and of a code    *)
(* the secret and the step of time it belongs to, or the set it was issued *)
(* with.  The name and the label of a user are left out.                   *)
(***************************************************************************)
EXTENDS Naturals, FiniteSets

CONSTANTS
  User,
  Admin,           \* the one whose name is "admin"
  Request,
  None, NotYet, Gone,
  Scenario,        \* rows and sessions to begin with, calls and their bound
  LoginMaxFails,   \* wrong answers after which an address has to wait
  ChallengeTries,  \* codes that may be tried after one password
  RecoveryCount,   \* codes in a set
  MaxPass,         \* bound: passwords a user has one after the other
  MaxTime,         \* bound: steps of the clock
  MaxFaults        \* bound: restarts, and writes that fail unnoticed

Role == {"admin", "operator", "viewer"}
Edit == {"update", "delete"}
Factor == {"code", "setup", "enable", "disable", "renew", "reset"}
Own == {"logout", "others", "change", "setup", "enable", "disable", "renew"}
Managing == {"create", "password", "close", "reset"} \cup Edit

Row == [role : Role, off : BOOLEAN, pass : 1..MaxPass, must : BOOLEAN,
        secret : Nat, factor : BOOLEAN, last : 0..MaxTime + 1]

(* A step of time, or a code of a set. *)
Timed(secret, t) == <<"timed", secret, t>>
Recovery(set, i) == <<"recovery", set, i>>

(* The secrets and the sessions of a scenario differ, each user has one    *)
(* set of codes, and there is an administrator.                            *)
ASSUME AccountsAssumption ==
  /\ IsFiniteSet(User) /\ None \notin User /\ Admin \in User
  /\ None \notin Role /\ None \notin BOOLEAN /\ {NotYet, Gone} \cap Row = {} /\ NotYet # Gone
  /\ {LoginMaxFails, ChallengeTries, RecoveryCount, MaxPass} \subseteq Nat \ {0}
  /\ {MaxTime, MaxFaults} \subseteq Nat
  /\ \A s \in Scenario :
       /\ s.row \in [User -> Row \cup {NotYet}]
       /\ \A u \in User, v \in User :
            /\ s.row[u] # NotYet => s.row[u].secret <= Cardinality(User)
            /\ s.row[u] # NotYet /\ s.row[v] # NotYet /\ s.row[u].secret = s.row[v].secret
                 => u = v \/ s.row[u].secret = 0
       /\ \E u \in User : /\ s.row[u] # NotYet
                           /\ s.row[u].role = "admin" /\ ~s.row[u].off
       /\ \A u \in User : /\ \A c \in s.recovery[u], d \in s.recovery[u] : c[2] = d[2]
                           /\ \A v \in User \ {u} : s.recovery[u] \cap s.recovery[v] = {}
       /\ s.recovery \in [User -> SUBSET ({"recovery"} \X (1..Cardinality(User))
                                                    \X (1..RecoveryCount))]
       /\ s.number \in [User -> 1..Cardinality(User)]
       /\ \A u \in User : \A v \in User \ {u} : s.number[u] # s.number[v]
       /\ s.calls \in Nat /\ s.roles \subseteq Role
       /\ s.signedIn \subseteq {u \in User : s.row[u] # NotYet}
       /\ s.kinds \subseteq Own \cup Managing \cup {"login", "code", "cli"}

VARIABLES
  given,       \* the scenario (never changes)
  row,         \* of each user: NotYet before it is created, Gone after
  sessions,    \* a session is [id, user], with the password it stands for
  recovery,    \* codes of each user that are still good
  challenges,  \* logins that wait for a code
  wrong,       \* wrong answers from the address
  time,
  issued,      \* numbers of sessions, challenges, secrets and sets given out
  at, call,    \* next step of each request ("idle" if none), and its data
  calls, faults,
  (* History: *)
  spent, again,  \* codes a session was opened with, and those with another
  crossed,       \* users of whom two edits, or two uses of codes, overlapped
  missed,        \* users of whom a statement was cut off or failed
  early          \* users who logged in with a secret that was not on yet

store == <<row, sessions, recovery>>
history == <<spent, again, crossed, missed, early>>
vars == <<given, store, challenges, wrong, time, issued, at, call, calls,
          faults, history>>

There(u) == row[u] \notin {NotYet, Gone}

------------------------------------------------------------------------------
(* Who may call. *)

Session(id) == CHOOSE s \in sessions : s.id = id
Live(id) == \E s \in sessions : s.id = id

(* sessionUserRole: the user of a session, unless it is switched off.  The *)
(* token of the API has the number 0 and no user.                          *)
Me(id) == IF id # 0 /\ Live(id) /\ ~row[Session(id).user].off
          THEN Session(id).user ELSE None

(* auth and permitted. *)
Permitted(id, k) ==
  \/ id = 0
  \/ LET u == Me(id)
     IN  /\ u # None
         /\ row[u].must => k \in {"change", "logout", "others"}
         /\ k \in Managing => row[u].role = "admin"
         /\ row[u].role = "viewer" => k \in {"change", "logout", "others"}

Blocked == wrong = LoginMaxFails
Failed == wrong' = IF Blocked THEN wrong ELSE wrong + 1

Request0 == [kind |-> None, who |-> 0, user |-> None, role |-> None,
             off |-> None, pass |-> 0, code |-> None, challenge |-> None,
             set |-> 0, left |-> 0, was |-> None]

Overlap(r, c) ==
  {q \in Request \ {r} : /\ at[q] # "idle"
                         /\ \/ call[q].kind \in Edit /\ c.kind \in Edit
                            \/ /\ call[q].kind \in Factor /\ c.kind \in Factor
                               /\ call[q].user = c.user}

Start(r, c, step) ==
  /\ calls' = calls + 1
  /\ c.kind \in given.kinds
  /\ at' = [at EXCEPT ![r] = step]
  /\ call' = [call EXCEPT ![r] = c]
  /\ crossed' = crossed \cup (IF Overlap(r, c) = {} THEN {}
                              ELSE {c.user} \cup {call[q].user : q \in Overlap(r, c)})
  /\ UNCHANGED <<given, store, time, issued, faults, spent, again, missed, early>>

Codes(u) ==
  (IF There(u) THEN {Timed(row[u].secret, t) : t \in 1..MaxTime + 1} ELSE {})
  \cup recovery[u] \cup spent

BeginLogin(r) ==
  /\ ~Blocked
  /\ \E u \in User, p \in 1..MaxPass :
        Start(r, [Request0 EXCEPT !.kind = "login", !.user = u, !.pass = p], "check")
  /\ UNCHANGED <<challenges, wrong>>

(* claimChallenge: one of the tries is used up, whatever comes of it. *)
BeginCode(r) ==
  /\ ~Blocked
  /\ \E ch \in challenges : \E c \in Codes(ch.user) :
       /\ Start(r, [Request0 EXCEPT !.kind = "code", !.user = ch.user,
                      !.pass = ch.pass, !.code = c, !.challenge = ch.id], "verify")
       /\ challenges' = (challenges \ {ch}) \cup
            (IF ch.tries + 1 < ChallengeTries THEN {[ch EXCEPT !.tries = @ + 1]} ELSE {})
  /\ UNCHANGED wrong

FirstOwn(k) == CASE k \in {"logout", "others"} -> k
                 [] k = "setup" -> "unset"
                 [] OTHER -> "proof"

(* Calls on the caller's own account need a session. *)
BeginOwn(r) ==
  /\ \E s \in sessions, k \in Own \cap given.kinds :
     \E c \in IF k = "enable" THEN Codes(s.user) ELSE {None} :
       /\ Permitted(s.id, k)
       /\ Start(r, [Request0 EXCEPT !.kind = k, !.who = s.id,
                                   !.user = s.user, !.code = c], FirstOwn(k))
  /\ UNCHANGED <<challenges, wrong>>

FirstManaging(k) == IF k \in {"create", "close"} THEN k ELSE "read"

BeginManaging(r) ==
  /\ \E id \in {0} \cup {s.id : s \in sessions}, k \in Managing \cap given.kinds,
        u \in User, role \in given.roles \cup {None}, off \in BOOLEAN \cup {None} :
       /\ Permitted(id, k)
       /\ off # None => k = "update"
       /\ role # None => k \in {"create", "update"}
       /\ k = "create" => role # None
       /\ k = "update" => <<role, off>> # <<None, None>>
       /\ Start(r, [Request0 EXCEPT !.kind = k, !.who = id, !.user = u,
                        !.role = role, !.off = off], FirstManaging(k))
  /\ UNCHANGED <<challenges, wrong>>

(* The token of the API may close every session, too. *)
BeginOthers(r) ==
  /\ Start(r, [Request0 EXCEPT !.kind = "others"], "others")
  /\ UNCHANGED <<challenges, wrong>>

(* saguaro-core -reset-admin, another process with the same database. *)
BeginCli(r) ==
  /\ Start(r, [Request0 EXCEPT !.kind = "cli", !.user = Admin], "pass")
  /\ UNCHANGED <<challenges, wrong>>

Begin(r) ==
  /\ at[r] = "idle" /\ calls < given.calls
  /\ \/ BeginLogin(r) \/ BeginCode(r) \/ BeginOwn(r)
     \/ BeginManaging(r) \/ BeginOthers(r) \/ BeginCli(r)

------------------------------------------------------------------------------
(* The steps of a request. *)

Does(r, step) == at[r] = step

(* Goes on with the given step, or is over. *)
Goes(r, step, c) ==
  /\ at' = [at EXCEPT ![r] = step]
  /\ call' = [call EXCEPT ![r] = IF step = "idle" THEN Request0 ELSE c]
GoTo(r, step) == Goes(r, step, call[r])
Done(r) == GoTo(r, "idle")

Kind(r) == call[r].kind
Target(r) == call[r].user

KeptButEarly == UNCHANGED <<given, time, calls, faults, crossed, missed>>
Kept == KeptButEarly /\ UNCHANGED early
NoCodes == UNCHANGED <<spent, again>>
NoLogin == UNCHANGED <<challenges, wrong>>
NoStore == UNCHANGED <<store, issued>>

SetRow(u, new) == row' = IF There(u) THEN [row EXCEPT ![u] = new] ELSE row

(* handleLogin: the row is read once, and all is decided by it. *)
Check(r) ==
  LET u == Target(r)
      good == There(u) /\ call[r].pass = row[u].pass /\ ~row[u].off
  IN  /\ Does(r, "check")
      /\ IF ~good THEN Failed /\ Done(r) /\ UNCHANGED <<challenges, issued>>
         ELSE /\ wrong' = 0
              /\ IF row[u].factor
                 THEN /\ challenges' = challenges \cup
                           {[id |-> issued + 1, user |-> u, pass |-> row[u].pass, tries |-> 0]}
                      /\ issued' = issued + 1 /\ Done(r)
                 ELSE GoTo(r, "open") /\ UNCHANGED <<challenges, issued>>
      /\ UNCHANGED <<store>> /\ NoCodes /\ Kept

(* Mutant: the step that was used last is good again. *)
FitsOnceMore(code, secret, last) ==
  /\ secret # 0 /\ code[1] = "timed" /\ code[2] = secret
  /\ code[3] >= last /\ code[3] <= time + 1 /\ time <= code[3] + 1

(* totpVerify: of this step of time, or the one before or after it, and    *)
(* later than the last one used.                                           *)
Fits(code, secret, last) ==
  /\ secret # 0 /\ code[1] = "timed" /\ code[2] = secret
  /\ code[3] > last /\ code[3] <= time + 1 /\ time <= code[3] + 1

(* handleLoginTOTP: the code is checked, the step is marked as used, and   *)
(* otherwise it may be a recovery code.                                    *)
Verify(r) ==
  /\ Does(r, "verify")
  /\ IF ~There(Target(r)) THEN Done(r)
     ELSE GoTo(r, IF Fits(call[r].code, row[Target(r)].secret, row[Target(r)].last)
                 THEN "mark" ELSE "recover")
  /\ NoStore /\ NoLogin /\ NoCodes /\ Kept

(* Nothing asks whether the secret is on. *)
Mark(r) ==
  LET u == Target(r)
  IN  /\ Does(r, "mark") /\ GoTo(r, "open")
      /\ SetRow(u, [row[u] EXCEPT !.last = call[r].code[3]])
      /\ early' = early \cup (IF There(u) /\ ~row[u].factor THEN {u} ELSE {})
      /\ UNCHANGED <<sessions, recovery, issued>> /\ NoLogin /\ NoCodes /\ KeptButEarly

(* Mutant: the code is found and stays. *)
RecoverAndKeep(r) ==
  /\ Does(r, "recover")
  /\ IF call[r].code \in recovery[Target(r)]
     THEN GoTo(r, "open") /\ UNCHANGED <<recovery, wrong>>
     ELSE Done(r) /\ Failed /\ UNCHANGED recovery
  /\ UNCHANGED <<row, sessions, issued, challenges>> /\ NoCodes /\ Kept

(* useRecoveryCode deletes the code, and looks whether there was one. *)
Recover(r) ==
  /\ Does(r, "recover")
  /\ IF call[r].code \in recovery[Target(r)]
     THEN /\ GoTo(r, "open") /\ UNCHANGED wrong
          /\ recovery' = [recovery EXCEPT ![Target(r)] = @ \ {call[r].code}]
     ELSE Done(r) /\ Failed /\ UNCHANGED recovery
  /\ UNCHANGED <<row, sessions, issued, challenges>> /\ NoCodes /\ Kept

Spends(code) ==
  /\ spent' = spent \cup ({code} \ {None})
  /\ again' = again \cup ({code} \cap spent)

(* startSession.  The database keeps no session of a user who is gone. *)
Open(r) ==
  LET u == Target(r)
  IN  /\ Does(r, "open") /\ Done(r)
      /\ wrong' = 0
      /\ challenges' = {ch \in challenges : ch.id # call[r].challenge}
      /\ IF There(u)
         THEN /\ sessions' = sessions \cup
                   {[id |-> issued + 1, user |-> u, pass |-> call[r].pass,
                     late |-> call[r].pass # row[u].pass]}
              /\ issued' = issued + 1 /\ Spends(call[r].code)
         ELSE UNCHANGED <<sessions, issued>> /\ NoCodes
      /\ UNCHANGED <<row, recovery>> /\ Kept

Without(ss) == sessions' = sessions \ ss
OfUser(u) == {s \in sessions : s.user = u}

Logout(r) ==
  /\ Does(r, "logout") /\ Done(r)
  /\ Without({s \in sessions : s.id = call[r].who})
  /\ UNCHANGED <<row, recovery, issued>> /\ NoLogin /\ NoCodes /\ Kept

(* handleLogoutOthers: of every user. *)
LogoutOthers(r) ==
  /\ Does(r, "others") /\ Done(r)
  /\ Without({s \in sessions : s.id # call[r].who})
  /\ UNCHANGED <<row, recovery, issued>> /\ NoLogin /\ NoCodes /\ Kept

(* handlePasswordChange, handleTOTPEnable, handleTOTPDisable and           *)
(* handleTOTPRecoveryNew: the session is looked up once more, then the row *)
(* is read and the password or the code checked by it.                     *)
Proof(r) ==
  LET u == Target(r)
      next == CASE Kind(r) = "change"  -> "pass"
                [] Kind(r) = "enable"  -> "wipe"
                [] Kind(r) = "disable" -> "unfactor"
                [] Kind(r) = "renew"   -> "wipe"
      good == CASE Kind(r) = "enable" -> /\ ~row[u].factor
                                         /\ Fits(call[r].code, row[u].secret, 0)
                [] Kind(r) = "renew"  -> row[u].factor
                [] OTHER              -> TRUE
  IN  /\ Does(r, "proof")
      /\ IF Me(call[r].who) # None /\ good
         THEN Goes(r, next, [call[r] EXCEPT !.left = RecoveryCount])
         ELSE Done(r)
      /\ NoStore /\ NoLogin /\ NoCodes /\ Kept

(* A new password; who did not choose it has to change it. *)
Pass(r) ==
  LET u == Target(r)
  IN  /\ Does(r, "pass")
      /\ GoTo(r, IF Kind(r) = "cli" /\ ~There(u) THEN "idle" ELSE "closeOthers")
      /\ There(u) => row[u].pass < MaxPass
      /\ SetRow(u, [row[u] EXCEPT !.pass = @ + 1, !.must = Kind(r) # "change"])
      /\ UNCHANGED <<sessions, recovery, issued>> /\ NoLogin /\ NoCodes /\ Kept

(* Mutant: the sessions kept and closed are mixed up. *)
ClosesOwn(r, s) ==
  CASE Kind(r) = "cli"    -> TRUE
    [] Kind(r) = "change" -> s.user = Target(r) /\ s.id = call[r].who
    [] OTHER              -> s.user = Target(r)

(* Which sessions fall with a password: those of the user but the one it   *)
(* was changed in, and on the command line all.                            *)
Closes(r, s) ==
  CASE Kind(r) = "cli"    -> TRUE
    [] Kind(r) = "change" -> s.user = Target(r) /\ s.id # call[r].who
    [] OTHER              -> s.user = Target(r)

CloseOthers(r) ==
  /\ Does(r, "closeOthers") /\ Done(r)
  /\ sessions' = {IF s.id = call[r].who /\ s.user = Target(r) /\ There(Target(r))
                  THEN [s EXCEPT !.pass = row[Target(r)].pass] ELSE s
                    : s \in {x \in sessions : ~Closes(r, x)}}
  /\ UNCHANGED <<row, recovery, issued>> /\ NoLogin /\ NoCodes /\ Kept

(* handleTOTPSetup: first it looks whether the factor is on, then it       *)
(* writes a secret that is not.                                            *)
Unset(r) ==
  LET u == Me(call[r].who)
  IN  /\ Does(r, "unset")
      /\ IF u # None /\ ~row[u].factor THEN GoTo(r, "secret") ELSE Done(r)
      /\ NoStore /\ NoLogin /\ NoCodes /\ Kept

Secret(r) ==
  LET u == Target(r)
  IN  /\ Does(r, "secret") /\ Done(r)
      /\ SetRow(u, [row[u] EXCEPT !.secret = issued + 1, !.factor = FALSE])
      /\ issued' = issued + 1
      /\ UNCHANGED <<sessions, recovery>> /\ NoLogin /\ NoCodes /\ Kept

(* storeRecoveryCodes: the old set goes, the new one comes code by code. *)
Wipe(r) ==
  /\ Does(r, "wipe") /\ Goes(r, "store", [call[r] EXCEPT !.set = issued + 1])
  /\ recovery' = [recovery EXCEPT ![Target(r)] = {}]
  /\ issued' = issued + 1
  /\ UNCHANGED <<row, sessions>> /\ NoLogin /\ NoCodes /\ Kept

StoreCode(r) ==
  LET u == Target(r)
  IN  /\ Does(r, "store")
      /\ IF There(u)
         THEN /\ recovery' = [recovery EXCEPT ![u] = @ \cup
                                {Recovery(call[r].set, call[r].left)}]
              /\ IF call[r].left > 1 THEN Goes(r, "store", [call[r] EXCEPT !.left = @ - 1])
                 ELSE GoTo(r, IF Kind(r) = "enable" THEN "factor" ELSE "idle")
         ELSE Done(r) /\ UNCHANGED recovery
      /\ UNCHANGED <<row, sessions, issued>> /\ NoLogin /\ NoCodes /\ Kept

(* The factor is on, with whatever secret is there. *)
FactorOn(r) ==
  LET u == Target(r)
  IN  /\ Does(r, "factor") /\ Done(r)
      /\ SetRow(u, [row[u] EXCEPT !.factor = TRUE, !.last = call[r].code[3]])
      /\ Spends(call[r].code)
      /\ UNCHANGED <<sessions, recovery, issued>> /\ NoLogin /\ Kept

(* handleTOTPDisable, handleUserTOTPReset. *)
Unfactor(r) ==
  LET u == Target(r)
  IN  /\ Does(r, "unfactor") /\ GoTo(r, "forget")
      /\ SetRow(u, [row[u] EXCEPT !.factor = FALSE, !.secret = 0, !.last = 0])
      /\ UNCHANGED <<sessions, recovery, issued>> /\ NoLogin /\ NoCodes /\ Kept

AfterForget(r) == IF Kind(r) = "reset" THEN "close" ELSE "idle"

Forget(r) ==
  /\ Does(r, "forget") /\ GoTo(r, AfterForget(r))
  /\ recovery' = [recovery EXCEPT ![Target(r)] = {}]
  /\ UNCHANGED <<row, sessions, issued>> /\ NoLogin /\ NoCodes /\ Kept

(* handleUserCreate. *)
Create(r) ==
  LET u == Target(r)
  IN  /\ Does(r, "create") /\ Done(r)
      /\ row' = IF row[u] = NotYet
                THEN [row EXCEPT ![u] =
                        [role |-> call[r].role, off |-> FALSE, pass |-> 1, must |-> TRUE,
                         secret |-> 0, factor |-> FALSE, last |-> 0]]
                ELSE row
      /\ UNCHANGED <<sessions, recovery, issued>> /\ NoLogin /\ NoCodes /\ Kept

(* The row is read; what is asked and not in it is kept as it is. *)
Read(r) ==
  LET u == Target(r)
      next == CASE Kind(r) = "password" -> "pass"
                [] Kind(r) = "reset"    -> "unfactor"
                [] OTHER                -> "self"
  IN  /\ Does(r, "read")
      /\ IF There(u)
         THEN Goes(r, next, [call[r] EXCEPT !.was = row[u]])
         ELSE Done(r)
      /\ NoStore /\ NoLogin /\ NoCodes /\ Kept

(* The user is left without an administrator's rights. *)
WasAdmin(r) == call[r].was.role = "admin" /\ ~call[r].was.off
NewRole(r) == IF call[r].role = None THEN call[r].was.role ELSE call[r].role
NewOff(r) == IF call[r].off = None THEN call[r].was.off ELSE call[r].off
Demotes(r) == Kind(r) = "delete" \/ NewRole(r) # "admin" \/ NewOff(r)

(* What is asked for is written in a statement each. *)
Written(r) == CASE Kind(r) = "delete" -> "close"
                [] Kind(r) = "update" /\ call[r].role # None -> "role"
                [] OTHER -> "off"

(* Nobody does it to himself. *)
Self(r) ==
  /\ Does(r, "self")
  /\ IF Me(call[r].who) = Target(r) /\ Demotes(r) THEN Done(r)
     ELSE GoTo(r, IF WasAdmin(r) /\ Demotes(r) THEN "count"
                  ELSE Written(r))
  /\ NoStore /\ NoLogin /\ NoCodes /\ Kept

IsAdmin(u) == There(u) /\ row[u].role = "admin" /\ ~row[u].off

(* Mutant: those switched off are counted with the others. *)
AdminCountAll(u) == Cardinality({v \in User \ {u} : There(v) /\ row[v].role = "admin"})

AdminCount(u) == Cardinality({v \in User \ {u} : IsAdmin(v)})

Count(r) ==
  /\ Does(r, "count")
  /\ IF AdminCount(Target(r)) = 0 THEN Done(r)
     ELSE GoTo(r, Written(r))
  /\ NoStore /\ NoLogin /\ NoCodes /\ Kept

AfterRole(r) == IF call[r].off = None THEN "idle" ELSE "off"
AfterOff(r) == IF call[r].off THEN "close" ELSE "idle"
AfterClose(r) == IF Kind(r) = "delete" THEN "remove" ELSE "idle"

SetRole(r) ==
  LET u == Target(r)
  IN  /\ Does(r, "role") /\ GoTo(r, AfterRole(r))
      /\ SetRow(u, [row[u] EXCEPT !.role = call[r].role])
      /\ UNCHANGED <<sessions, recovery, issued>> /\ NoLogin /\ NoCodes /\ Kept

SetOff(r) ==
  LET u == Target(r)
  IN  /\ Does(r, "off") /\ GoTo(r, AfterOff(r))
      /\ SetRow(u, [row[u] EXCEPT !.off = call[r].off])
      /\ UNCHANGED <<sessions, recovery, issued>> /\ NoLogin /\ NoCodes /\ Kept

(* handleUserSessions, and the end of switching off, reset and delete. *)
Close(r) ==
  /\ Does(r, "close") /\ GoTo(r, AfterClose(r))
  /\ Without(OfUser(Target(r)))
  /\ UNCHANGED <<row, recovery, issued>> /\ NoLogin /\ NoCodes /\ Kept

(* Sessions and codes of the row go with it (ON DELETE CASCADE). *)
Remove(r) ==
  LET u == Target(r)
  IN  /\ Does(r, "remove") /\ Done(r)
      /\ row' = IF There(u) THEN [row EXCEPT ![u] = Gone] ELSE row
      /\ Without(OfUser(u))
      /\ recovery' = [recovery EXCEPT ![u] = {}]
      /\ UNCHANGED <<issued>> /\ NoLogin /\ NoCodes /\ Kept

Step(r) ==
  \/ Check(r) \/ Verify(r) \/ Mark(r) \/ Recover(r) \/ Open(r)
  \/ Logout(r) \/ LogoutOthers(r) \/ Proof(r) \/ Pass(r) \/ CloseOthers(r)
  \/ Unset(r) \/ Secret(r) \/ Wipe(r) \/ StoreCode(r) \/ FactorOn(r)
  \/ Unfactor(r) \/ Forget(r) \/ Create(r) \/ Read(r) \/ Self(r) \/ Count(r)
  \/ SetRole(r) \/ SetOff(r) \/ Close(r) \/ Remove(r)

------------------------------------------------------------------------------
(* Time and faults. *)

Tick ==
  /\ time < MaxTime /\ time' = time + 1
  /\ UNCHANGED <<given, store, challenges, wrong, issued, at, call, calls,
                 faults, history>>

(* The minute of a blocked address, a challenge or a session is over. *)
Expire ==
  /\ \/ Blocked /\ wrong' = 0 /\ UNCHANGED <<challenges, sessions>>
     \/ /\ \E ch \in challenges : challenges' = challenges \ {ch}
        /\ UNCHANGED <<wrong, sessions>>
     \/ /\ \E s \in sessions : sessions' = sessions \ {s}
        /\ UNCHANGED <<wrong, challenges>>
  /\ UNCHANGED <<given, row, recovery, time, issued, at, call, calls, faults, history>>

(* The service or the device goes down; the database stays. *)
Restart ==
  /\ faults < MaxFaults /\ faults' = faults + 1
  /\ challenges' = {} /\ wrong' = 0
  /\ at' = [r \in Request |-> "idle"]
  /\ call' = [r \in Request |-> Request0]
  /\ missed' = missed \cup {Target(r) : r \in {q \in Request : Does(q, "closeOthers")}}
  /\ UNCHANGED <<given, store, time, issued, calls, spent, again, crossed, early>>

(* A statement that writes fails: most handlers do not look at the error,  *)
(* and go on to the next one as if it had not.                             *)
Unlooked(r) ==
  CASE at[r] = "mark"     -> "open"
    [] at[r] = "unfactor" -> "forget"
    [] at[r] = "forget"   -> AfterForget(r)
    [] at[r] = "role"     -> AfterRole(r)
    [] at[r] = "off"      -> AfterOff(r)
    [] at[r] = "close"    -> AfterClose(r)
    [] at[r] = "pass" /\ Kind(r) = "password" -> "closeOthers"
    [] OTHER              -> "idle"

StatementFails(r) ==
  /\ faults < MaxFaults /\ faults' = faults + 1
  /\ at[r] \in {"mark", "unfactor", "forget", "role", "off", "close", "pass", "factor",
                "closeOthers", "others", "logout", "secret", "wipe", "store",
                "create", "remove"}
  /\ GoTo(r, Unlooked(r))
  /\ missed' = missed \cup (IF at[r] \in {"mark", "closeOthers"} THEN {Target(r)} ELSE {})
  /\ UNCHANGED <<given, store, challenges, wrong, time, issued, calls,
                 spent, again, crossed, early>>

Init ==
  \E s \in Scenario :
    /\ given = s /\ row = s.row
    /\ sessions = {[id |-> s.number[u], user |-> u, pass |-> s.row[u].pass, late |-> FALSE]
                     : u \in s.signedIn}
    /\ recovery = s.recovery
    /\ challenges = {} /\ wrong = 0 /\ time = 1
    /\ issued = Cardinality(User)
    /\ at = [r \in Request |-> "idle"]
    /\ call = [r \in Request |-> Request0]
    /\ calls = 0 /\ faults = 0
    /\ spent = {} /\ again = {} /\ crossed = {} /\ missed = {} /\ early = {}

Next == \/ \E r \in Request : Begin(r) \/ Step(r) \/ StatementFails(r)
        \/ Tick \/ Expire \/ Restart

Spec == Init /\ [][Next]_vars

------------------------------------------------------------------------------
(* Properties. *)

Label == {"idle", "check", "verify", "mark", "recover", "open", "logout", "others",
          "proof", "pass", "closeOthers", "unset", "secret", "wipe", "store", "factor",
          "unfactor", "forget", "create", "read", "self", "count", "role", "off",
          "close", "remove"}

Code == ({"timed"} \X Nat \X (1..MaxTime + 1)) \cup ({"recovery"} \X Nat \X Nat)

Call == [kind : {None, "login", "code", "cli"} \cup Own \cup Managing, who : Nat,
         user : User \cup {None}, role : Role \cup {None}, off : BOOLEAN \cup {None},
         pass : Nat, code : Code \cup {None}, challenge : Nat \cup {None}, set : Nat,
         left : Nat, was : Row \cup {None}]

(* The types of the variables. *)
TypeOK ==
  /\ given \in Scenario
  /\ row \in [User -> Row \cup {NotYet, Gone}]
  /\ sessions \subseteq [id : Nat, user : User, pass : Nat, late : BOOLEAN]
  /\ recovery \in [User -> SUBSET Code]
  /\ challenges \subseteq [id : Nat, user : User, pass : Nat, tries : Nat]
  /\ wrong \in 0..LoginMaxFails /\ time \in 1..MaxTime + 1
  /\ {issued, calls, faults} \subseteq Nat
  /\ at \in [Request -> Label] /\ call \in [Request -> Call]
  /\ spent \subseteq Code /\ again \subseteq Code
  /\ crossed \cup missed \subseteq User \cup {None} /\ early \subseteq User

(* adminCount: there is always an administrator who is not switched off,   *)
(* after whatever edits, unless two of them overlap.                       *)
AdministratorRemains == crossed = {} => \E u \in User : IsAdmin(u)

(* A session stands for the password the user has: when that is changed    *)
(* by himself, by another or on the command line, sessions opened with the *)
(* one before are closed, whatever else goes on.  A login that checked the *)
(* old password and opens its session afterwards is left (with a second    *)
(* factor the two are minutes apart), and one where closing them failed.   *)
OldAccessEnds ==
  \A s \in sessions :
     \/ s.pass = row[s.user].pass \/ s.late \/ s.user \in missed
     \/ \E r \in Request : Does(r, "closeOthers")
                            /\ (Closes(r, s) \/ s.id = call[r].who)

(* useRecoveryCode, storeRecoveryCodes: a recovery code opens one session, *)
(* whatever overlaps and fails, and with a new set the ones before it are  *)
(* worthless, unless two sets were made at once.                           *)
RecoveryOnce ==
  /\ \A c \in again : c[1] # "recovery"
  /\ \A u \in User \ crossed : Cardinality({c[2] : c \in recovery[u]}) <= 1

(* totpVerify: a code of a step of time is good once, the one that turned  *)
(* the second factor on included, unless two uses overlapped, the step     *)
(* could not be written, or a login that began with a factor since turned  *)
(* off ended with the next secret before that was on.                      *)
CodeOnce == crossed \cup missed \cup early = {} => \A c \in again : c[1] # "timed"
=============================================================================
