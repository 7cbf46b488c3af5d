-------------------------------- MODULE Calls --------------------------------
(***************************************************************************)
(* Requests to the handlers of saguaro-core: net/http runs each in a       *)
(* goroutine of its own, nothing keeps two of them apart, and a restart of *)
(* the service or the device ends those under way.  The components that    *)
(* change the configuration (Names, Proxy, Services) each add their state  *)
(* and the steps of their handlers.                                        *)
(***************************************************************************)
EXTENDS Naturals, FiniteSets

CONSTANTS
  Request,     \* calls of handlers
  Kind,        \* the handlers
  Scenario,    \* what is there at first, and which handlers are called
  None,        \* no row, nothing read
  MayFail,     \* may steps fail?
  MaxCrashes   \* bound: restarts of the service or the device

ASSUME CallsAssumption ==
  /\ None \notin Kind
  /\ \A s \in Scenario : s.calls \in [Request -> Kind \cup {None}]
  /\ MayFail \in BOOLEAN /\ MaxCrashes \in Nat

VARIABLES
  kind,     \* the handler each request calls, None if it never comes
  at,       \* the step each request takes next
  alone,    \* requests beside which no other ran (history)
  crashes

callVars == <<kind, at, alone, crashes>>

Over == {"done", "failed"}
Active(r) == at[r] \notin Over \cup {"new"}
Began(r) == at[r] # "new"

(* No two of the requests so far ran at a time. *)
InTurn == \A r \in Request : Began(r) => r \in alone

CallsInit(s) ==
  /\ kind = s.calls
  /\ at = [r \in Request |-> "new"]
  /\ alone = {} /\ crashes = 0

(* A request arrives; beside another one neither is alone. *)
Begin(r) ==
  LET beside == {q \in Request : Active(q)}
  IN  /\ kind[r] # None /\ at[r] = "new"
      /\ at' = [at EXCEPT ![r] = "start"]
      /\ alone' = (alone \ beside) \cup (IF beside = {} THEN {r} ELSE {})
      /\ UNCHANGED <<kind, crashes>>

(* One step of the handler k of request r, from label l to label m. *)
Step(r, k, l, m) ==
  /\ kind[r] = k /\ at[r] = l /\ at' = [at EXCEPT ![r] = m]
  /\ UNCHANGED <<kind, alone, crashes>>

(* A step fails: the handler answers with an error, and what it has done   *)
(* so far stays.                                                           *)
Fail(r) ==
  /\ MayFail /\ Active(r)
  /\ at' = [at EXCEPT ![r] = "failed"]
  /\ UNCHANGED <<kind, alone, crashes>>

(* The service restarts: the requests under way are gone. *)
Crash ==
  /\ crashes < MaxCrashes /\ \E r \in Request : Active(r)
  /\ crashes' = crashes + 1
  /\ at' = [r \in Request |-> IF Active(r) THEN "failed" ELSE at[r]]
  /\ UNCHANGED <<kind, alone>>

CallsType ==
  /\ kind \in [Request -> Kind \cup {None}]
  /\ alone \subseteq Request /\ crashes \in 0..MaxCrashes
=============================================================================
