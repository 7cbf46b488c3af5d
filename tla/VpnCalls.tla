------------------------------ MODULE VpnCalls ------------------------------
(***************************************************************************)
(* What the three VPN components of saguaro-core share: the requests under *)
(* way with their local variables, the sections in /etc/config/firewall    *)
(* and /etc/config/network with what was loaded of them, and restarts.     *)
(* A section is a triple: its type, whose it is, and its address or value. *)
(* OpenVPN, WireGuard and Sites each add their tables and handlers.        *)
(***************************************************************************)
EXTENDS Naturals, FiniteSets, TunnelAddress

CONSTANTS
  Request,     \* calls of handlers
  Scenario,    \* what is there at first, and which handlers are called
  Old,         \* a key made long ago
  Asked,       \* addresses requests ask for
  None,        \* no key, no file, no row
  TunnelNet,   \* the network of a tunnel; each VPN has one of its own
  MayFail,     \* may steps fail?
  MaxCrashes   \* bound: restarts of the service or the device

Kind == {"oServer", "oAccess", "oCreate", "oUpdate", "oDelete", "oApply",
         "wServer", "wAccess", "wCreate", "wUpdate", "wDelete", "wApply",
         "sLocal", "sCreate", "sUpdate", "sDelete", "sApply"}

ASSUME VpnCallsAssumption ==
  /\ \A s \in Scenario : s.calls \in [Request -> Kind \cup {None}] /\ s.setUp \in BOOLEAN
  /\ MayFail \in BOOLEAN /\ MaxCrashes \in Nat
  /\ None \notin Request \cup {Old}
  /\ TunnelNet \in Net /\ Asked \subseteq Nat

VARIABLES
  kind,     \* the handler each request calls, None if it never comes
  at,       \* the step each request takes next
  who,      \* the row each request is about, or the key it generated
  asks,     \* the address each request asks for
  rows,     \* local: what a request has read of a table or a file
  seen,     \* local: owners of the sections a request has read; of a save of
            \* a server's settings what it asks for and finds, and as history
            \* "unread" if the firewall was not read, "behind" if the
            \* interface does not run with what the file has
  alone,    \* requests beside which no other of the same VPN ran (history)
  fwFile,   \* sections of /etc/config/firewall
  fwRun,    \* sections the firewall has loaded
  netFile,  \* peer sections of /etc/config/network
  netRun,   \* peers WireGuard has
  crashes

callVars == <<kind, at, who, asks, rows, seen, alone>>
configVars == <<fwFile, fwRun, netFile, netRun>>

Over == {"done", "failed"}
Active(r) == at[r] \notin Over \cup {"new"}

(* The VPN a handler belongs to. *)
Vpn(r) == CASE kind[r] \in {"oServer", "oAccess", "oCreate", "oUpdate",
                            "oDelete", "oApply"} -> "ovpn"
            [] kind[r] \in {"wServer", "wAccess", "wCreate", "wUpdate",
                            "wDelete", "wApply"} -> "wg"
            [] OTHER -> "wgs"

Key == Request \cup {Old}

CallInit(s) ==
  /\ kind = s.calls
  /\ at = [r \in Request |-> "new"]
  /\ who = [r \in Request |-> None]
  /\ asks = [r \in Request |-> None]
  /\ rows = [r \in Request |-> {}]
  /\ seen = [r \in Request |-> {}]
  /\ alone = {}
  /\ netFile = {} /\ netRun = {}
  /\ crashes = 0

(* One step of request r, from label l to label m. *)
Step(r, l, m) == at[r] = l /\ at' = [at EXCEPT ![r] = m]

Remember(f, r, x) == [f EXCEPT ![r] = x]

NoLocals == UNCHANGED <<kind, who, asks, rows, seen, alone>>

(* A request arrives; beside another one of its VPN neither is alone. *)
Begin(r) ==
  LET beside == {q \in Request : Active(q) /\ Vpn(q) = Vpn(r)}
  IN  /\ kind[r] # None /\ Step(r, "new", "start")
      /\ alone' = (alone \ beside) \cup (IF beside = {} THEN {r} ELSE {})
      /\ UNCHANGED <<kind, who, asks, rows, seen, configVars, crashes>>

(* A step fails: the handler answers with an error, and what it has done   *)
(* so far stays.                                                           *)
Fail(r) ==
  /\ MayFail /\ Active(r)
  /\ at' = [at EXCEPT ![r] = "failed"]
  /\ NoLocals /\ UNCHANGED <<configVars, crashes>>

(* The service or the device restarts: the requests under way are gone.    *)
Crash ==
  /\ crashes < MaxCrashes /\ \E r \in Request : Active(r)
  /\ crashes' = crashes + 1
  /\ at' = [r \in Request |-> IF Active(r) THEN "failed" ELSE at[r]]
  /\ NoLocals /\ UNCHANGED configVars

(* Sections of one type, and their owners. *)
Of(file, type) == {s \in file : s[1] = type}
Owners(file, type) == {s[2] : s \in Of(file, type)}

(* uci batch: delete the sections the handler has seen, then set the new    *)
(* ones.  add_list to a section that is there adds to it.                  *)
Batch(file, type, owners, new) ==
  (file \ {s \in file : s[1] = type /\ s[2] \in owners}) \cup new

(* Pulling the firewall's sections in: /etc/init.d/firewall reload. *)
LoadFirewall == fwRun' = fwFile

(* The firewall file is read to see what is there; an error is passed over *)
(* as if it had no sections.                                               *)
ReadFirewall(r) ==
  \/ rows' = Remember(rows, r, fwFile) /\ UNCHANGED seen
  \/ /\ rows' = Remember(rows, r, {})
     /\ seen' = Remember(seen, r, seen[r] \cup {"unread"})

(* An address a row may get: once there is a server, one of its network    *)
(* that is not reserved.                                                   *)
Acceptable(served, ip) ==
  served => Contains(TunnelNet, ip) /\ ~Reserved(TunnelNet, ip)

(* Full or restricted access of a VPN: two forwardings, there or not; the  *)
(* rule that opens the device itself, its management, to the VPN.          *)
Full(v) == <<"full", v, None>>
Zone(v) == <<"zone", v, None>>
Mgmt(v) == <<"mgmt", v, None>>

(* Mutant: the rule is left where management is not asked for. *)
ZoneStaysOpen(file, read, v, allow) ==
  file \cup {Zone(v)} \cup (IF allow THEN {Mgmt(v)} ELSE {})

(* vpnZoneInput: deletes the rule where it has read that it is there. *)
ZoneInput(file, read, v, allow) ==
  {Zone(v)} \cup
  (IF allow THEN file \cup {Mgmt(v)}
            ELSE IF Mgmt(v) \in read THEN file \ {Mgmt(v)} ELSE file)
=============================================================================
