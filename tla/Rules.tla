------------------------------- MODULE Rules --------------------------------
(***************************************************************************)
(* The rule tables of the firewall and their way into the device           *)
(* (core/firewall.go, snat.go, forceddns.go).  Traffic rules are ordered:  *)
(* a packet gets what the first rule that fits says.  Their order is in a  *)
(* column of the table that is read and written row by row; handleFWApply  *)
(* reads the tables and the configuration one after the other and          *)
(* exchanges all its sections in one batch.  Requests interleave between   *)
(* any two statements.                                                     *)
(*                                                                         *)
(* The fields of a row are left out but for the alias that narrows it.     *)
(* Port forwards, 1:1 NAT, source NAT and the networks of forced DNS are   *)
(* objects: they have no order here (that of source NAT is kept like that  *)
(* of the rules), but each kind is read at a moment of its own.            *)
(***************************************************************************)
EXTENDS Integers, FiniteSets, FiniteSetsExt

CONSTANTS
  Old,         \* rules that are there at first
  Create,      \* calls of handleFWRuleCreate, each the name of its rule
  Move,        \* calls of handleFWRuleMove
  Apply,       \* calls of handleFWApply
  Forward,     \* port forwards
  Nat11,       \* pairs of addresses, 1:1 NAT
  Source,      \* rows of source NAT
  Forced,      \* networks whose DNS traffic is turned back to the device
  OldObjects,  \* objects that are there at first
  OldForcing,  \* whether forced DNS is on at first
  Alias,       \* named groups of addresses
  Address,     \* what may be in one
  Via,         \* [Rule \union Object -> Alias \union {None}]: the alias named
  None,        \* no alias, or no address
  OldPos,      \* [Old -> Nat]: their positions at first
  OldFiles,    \* sections that earlier applies may have left
  OldAge,      \* [Old -> 1..Cardinality(Old)]: which is older
  Scenarios,   \* bound: the sets of requests that come together
  MaxEdits,    \* bound: statements of other handlers
  Fails        \* the steps that may fail, a subset of FailPoint

Rule      == Old \union Create
Object    == Forward \union Nat11 \union Source \union Forced
Request   == Create \union Move \union Apply
FailPoint == {"position", "backup", "batch", "reload"}

ASSUME RulesAssumption ==
  /\ IsFiniteSet(Old) /\ IsFiniteSet(Create) /\ IsFiniteSet(Object)
  /\ Old \intersect Create = {} /\ Object \intersect Rule = {}
  /\ Create \intersect Move = {} /\ Apply \intersect (Create \union Move) = {}
  /\ OldObjects \subseteq Object /\ OldForcing \in BOOLEAN
  /\ None \notin Alias \union Address
  /\ Via \in [Rule \union Object -> Alias \union {None}]
  /\ Source \intersect (Forward \union Nat11 \union Forced) = {}
  /\ Forced \intersect (Forward \union Nat11) = {}
  /\ \A o \in Object \ Source : Via[o] = None
  /\ OldAge \in [Old -> 1..Cardinality(Old)]
  /\ OldPos \in [Old -> Nat]
  /\ \A x, y \in Old : OldAge[x] = OldAge[y] => x = y
  /\ MaxEdits \in Nat
  /\ Fails \subseteq FailPoint

(* What apply writes for a row: where in the order (0 for an object), for  *)
(* what, and the addresses of its alias.                                   *)
Place   == [at : 0..Cardinality(Rule), what : Rule \union Object]
Section == [at : 0..Cardinality(Rule), what : Rule \union Object,
            addr : Address \union {None}]

(* No section is for a row with an alias and has no addresses. *)
Narrow(S) == \A s \in S : Via[s.what] # None => s.addr # None

ASSUME OldFilesAssumption ==
  /\ OldFiles \subseteq SUBSET Section
  /\ \A S \in OldFiles : Narrow(S)

VARIABLES
  exists,   \* rows of fw_rules
  pos,      \* column pos
  age,      \* column created_at; rows of one second keep their order
  on,       \* column enabled
  object,   \* enabled rows of fw_forwards, fw_nat11 and fw_snat, and the
            \* networks in fdns_zones
  forcing,  \* fdns_enabled
  alias,    \* fw_aliases
  file,     \* the sections of /etc/config/firewall that are ours
  running,  \* those the firewall has loaded
  step,     \* where each request is
  last,     \* the position a new rule gets, and the rules there were before
  work,     \* the order a move writes, row by row, and the pair it swaps
  plan,     \* what each apply has read and made
  quiet,    \* applies during which nothing else has changed (history)
  edits,    \* statements of other handlers so far
  tidy      \* the move that began last has found the rules numbered (history)

table    == <<exists, pos, age, on>>
objects  == <<object, forcing>>
config   == <<file, running>>
requests == <<step, last, work, plan>>
vars == <<exists, pos, age, on, object, forcing, alias, file, running, step, last, work,
          plan, quiet, edits, tidy>>

Go(r, s)     == step' = [step EXCEPT ![r] = s]
May(fault)   == fault \in Fails
(* A request comes, with those that have come already, as some scenario    *)
(* has it; SUBSET Request is no bound.                                     *)
Comes(r) ==
  \E S \in Scenarios : r \in S /\ {q \in Request : step[q] # "off"} \subseteq S

NoLast       == [pos |-> 0, knew |-> {}]
NoWork       == [order |-> <<>>, pair |-> {}, next |-> 1]
NoPlan       == [objects |-> {}, left |-> {}, made |-> {}, seen |-> {}]

(* Mutant: ORDER BY pos alone, with rows of one position as they come.     *)
BeforeByPos(x, y) == pos[x] < pos[y] \/ (pos[x] = pos[y] /\ age[x] > age[y])

(* ORDER BY pos, created_at. *)
Before(x, y) == pos[x] < pos[y] \/ (pos[x] = pos[y] /\ age[x] < age[y])

(* The place of x in S in that order. *)
Rank(x, S) == 1 + Cardinality({y \in S : Before(y, x)})

Init ==
  /\ exists = Old
  /\ pos = [x \in Rule |-> IF x \in Old THEN OldPos[x] ELSE 0]
  /\ age = [x \in Rule |-> IF x \in Old THEN OldAge[x] ELSE 0]
  /\ on = [x \in Rule |-> x \in Old]
  /\ object = OldObjects /\ forcing = OldForcing
  /\ alias \in [Alias -> Address]
  /\ file \in OldFiles /\ running = file
  /\ step = [r \in Request |-> "off"]
  /\ last = [c \in Create |-> NoLast]
  /\ work = [m \in Move |-> NoWork]
  /\ plan = [a \in Apply |-> NoPlan]
  /\ quiet = {} /\ edits = 0 /\ tidy = TRUE

----------------------------------------------------------------------------
(* handleFWRuleCreate: the position is read first, the row written then.   *)

LastPos == Max({pos[x] : x \in exists} \union {0})

BeginCreate(c) ==
  /\ step[c] = "off" /\ Comes(c) /\ (Via[c] # None => alias[Via[c]] # None)
  /\ Go(c, "insert")
  /\ last' = [last EXCEPT ![c] = [pos |-> LastPos + 1, knew |-> exists]]
  /\ UNCHANGED <<table, objects, alias, config, work, plan, quiet, edits, tidy>>

Insert(c) ==
  /\ step[c] = "insert"
  /\ Go(c, "over")
  /\ exists' = exists \union {c}
  /\ pos' = [pos EXCEPT ![c] = last[c].pos]
  /\ age' = [age EXCEPT ![c] = 1 + Max({age[x] : x \in Rule})]
  /\ on' = [on EXCEPT ![c] = TRUE]
  /\ last' = [last EXCEPT ![c] = NoLast]
  /\ quiet' = {}
  /\ UNCHANGED <<objects, alias, config, work, plan, edits, tidy>>

----------------------------------------------------------------------------
(* handleFWRuleMove: the order is read, two neighbours change places, and  *)
(* all rows are numbered anew, one statement each.                         *)

(* Mutant: the rules that are not enabled are left out. *)
ListedEnabled == {x \in exists : on[x]}

Listed == exists

(* Whether a move can do with the positions it finds: each rule is where   *)
(* its place in the order puts it or behind that, no other move is writing *)
(* and those who are making a rule will put it behind all.                 *)
Numbered ==
  /\ \A x \in exists : Rank(x, exists) <= pos[x]
  /\ \A m \in Move : step[m] # "write"
  /\ \A c \in Create : step[c] = "insert" => LastPos < last[c].pos

BeginMove(m, x, down) ==
  /\ step[m] = "off" /\ Comes(m) /\ x \in Listed
  /\ LET rank   == [y \in Listed |-> Rank(y, Listed)]
         beside == {y \in Listed : rank[y] = rank[x] + IF down THEN 1 ELSE -1}
     IN \E y \in beside :
          work' = [work EXCEPT ![m] =
            [order |-> [rank EXCEPT ![x] = rank[y], ![y] = rank[x]],
             pair  |-> {x, y},
             next  |-> 1]]
  /\ Go(m, "write")
  /\ tidy' = Numbered
  /\ UNCHANGED <<table, objects, alias, config, last, plan, quiet, edits>>

(* A row that is no more is not updated. *)
WritePos(m) ==
  /\ step[m] = "write"
  /\ LET w   == work[m]
         end == w.next = Cardinality(DOMAIN w.order)
     IN /\ \E x \in DOMAIN w.order :
             /\ w.order[x] = w.next
             /\ pos' = IF x \in exists THEN [pos EXCEPT ![x] = w.next] ELSE pos
        /\ work' = [work EXCEPT ![m] =
                      IF end THEN NoWork ELSE [w EXCEPT !.next = @ + 1]]
        /\ Go(m, IF end THEN "over" ELSE "write")
  /\ quiet' = {}
  /\ UNCHANGED <<exists, age, on, objects, alias, config, last, plan, edits, tidy>>

WritePosFails(m) ==
  /\ May("position") /\ step[m] = "write"
  /\ Go(m, "failed")
  /\ work' = [work EXCEPT ![m] = NoWork]
  /\ UNCHANGED <<table, objects, alias, config, last, plan, quiet, edits, tidy>>

----------------------------------------------------------------------------
(* The handlers of one statement each. *)
Edit ==
  /\ edits < MaxEdits
  /\ edits' = edits + 1
  /\ quiet' = {}
  /\ UNCHANGED <<age, config, requests, tidy>>

UpdateRule(x) ==
  /\ x \in exists
  /\ on' = [on EXCEPT ![x] = ~@]
  /\ Edit
  /\ UNCHANGED <<exists, pos, objects, alias>>

DeleteRule(x) ==
  /\ x \in exists
  /\ exists' = exists \ {x}
  /\ pos' = [pos EXCEPT ![x] = 0]
  /\ on' = [on EXCEPT ![x] = FALSE]
  /\ Edit
  /\ UNCHANGED <<objects, alias>>

(* A row is made, enabled, disabled or deleted. *)
Toggles(o) ==
  /\ object' = IF o \in object THEN object \ {o} ELSE object \union {o}
  /\ Edit
  /\ UNCHANGED <<exists, pos, on, alias, forcing>>

EditForward(o) == o \in Forward /\ Toggles(o)

EditNat11(o) == o \in Nat11 /\ Toggles(o)

(* The alias of a new row is not looked up. *)
EditSource(o) == o \in Source /\ Toggles(o)

(* handleForcedDNSSet writes the switch and the networks one after the     *)
(* other; it may be switched on with none.                                 *)
SwitchForcing ==
  /\ forcing' = ~forcing
  /\ Edit
  /\ UNCHANGED <<exists, pos, on, alias, object>>

SetZones(zones) ==
  /\ object' = (object \ Forced) \union zones
  /\ Edit
  /\ UNCHANGED <<exists, pos, on, alias, forcing>>

(* Made, changed, or deleted, whoever names it. *)
EditAlias(n, to) ==
  /\ alias[n] # to
  /\ alias' = [alias EXCEPT ![n] = to]
  /\ Edit
  /\ UNCHANGED <<exists, pos, on, objects>>

----------------------------------------------------------------------------
(* handleFWApply. *)
Name(s)   == <<s.at, s.what>>
Names(S)  == {Name(s) : s \in S}
Enabled   == {x \in exists : on[x]}
Sets(a, p) == plan' = [plan EXCEPT ![a] = p]
Plain(S)   == {[at |-> 0, what |-> o, addr |-> None] : o \in S}

ReadForwards(a) ==
  /\ step[a] = "off" /\ Comes(a)
  /\ Go(a, "rules")
  /\ Sets(a, [NoPlan EXCEPT !.objects = object \intersect Forward])
  /\ quiet' = quiet \union {a}
  /\ UNCHANGED <<table, objects, alias, config, last, work, edits, tidy>>

ReadRules(a) ==
  /\ step[a] = "rules"
  /\ Go(a, "nat11")
  /\ Sets(a, [plan[a] EXCEPT !.left =
                {[at |-> Rank(x, Enabled), what |-> x] : x \in Enabled}])
  /\ UNCHANGED <<table, objects, alias, config, last, work, quiet, edits, tidy>>

ReadNat11(a) ==
  /\ step[a] = "nat11"
  /\ Go(a, "config")
  /\ Sets(a, [plan[a] EXCEPT !.objects = @ \union (object \intersect Nat11)])
  /\ UNCHANGED <<table, objects, alias, config, last, work, quiet, edits, tidy>>

(* Mutant: what is not in the tables any more is forgotten. *)
OursIfEnabled == Names({s \in file : s.what \in Enabled \union object})

(* The sections with our prefixes. *)
Ours == Names(file)

ReadConfig(a) ==
  /\ step[a] = "config"
  /\ Go(a, "forced")
  /\ Sets(a, [plan[a] EXCEPT !.seen = Ours])
  /\ UNCHANGED <<table, objects, alias, config, last, work, quiet, edits, tidy>>

(* writeForcedDNSSections: the switch is read first, the networks then.    *)
ReadForcing(a) ==
  /\ step[a] = "forced"
  /\ Go(a, IF forcing THEN "zones" ELSE "resolve")
  /\ Sets(a, [plan[a] EXCEPT !.made = Plain(plan[a].objects)])
  /\ UNCHANGED <<table, objects, alias, config, last, work, quiet, edits, tidy>>

ReadZones(a) ==
  /\ step[a] = "zones"
  /\ Go(a, "resolve")
  /\ Sets(a, [plan[a] EXCEPT !.made = @ \union Plain(object \intersect Forced)])
  /\ UNCHANGED <<table, objects, alias, config, last, work, quiet, edits, tidy>>

(* The addresses of the alias a row names, if they are there. *)
AddressOf(x) == IF Via[x] = None THEN None ELSE alias[Via[x]]

Resolving(a) == step[a] \in {"resolve", "source"}

(* Mutant: a rule whose alias is not there is written without addresses.   *)
ResolveLeniently(a) ==
  /\ Resolving(a)
  /\ \E r \in plan[a].left :
       /\ \A q \in plan[a].left : r.at <= q.at
       /\ LET addr == AddressOf(r.what)
          IN Sets(a, [plan[a] EXCEPT !.left = @ \ {r}, !.made = @ \union
                 {[at |-> r.at, what |-> r.what, addr |-> addr]}])
  /\ UNCHANGED <<table, objects, alias, config, step, last, work, quiet, edits, tidy>>

(* resolveAlias, a query for each row; the first alias that is not there  *)
(* ends the request.                                                       *)
Resolve(a) ==
  /\ Resolving(a)
  /\ \E r \in plan[a].left :
       /\ \A q \in plan[a].left : r.at <= q.at
       /\ LET addr == AddressOf(r.what)
          IN IF Via[r.what] # None /\ addr = None
               THEN Go(a, "failed") /\ Sets(a, NoPlan)
               ELSE /\ Sets(a, [plan[a] EXCEPT !.left = @ \ {r},
                          !.made = @ \union
                            {[at |-> r.at, what |-> r.what, addr |-> addr]}])
                    /\ UNCHANGED step
  /\ UNCHANGED <<table, objects, alias, config, last, work, quiet, edits, tidy>>

(* The rows of source NAT are read last, when the rules are resolved.      *)
ReadSources(a) ==
  /\ step[a] = "resolve" /\ plan[a].left = {}
  /\ Go(a, "source")
  /\ Sets(a, [plan[a] EXCEPT !.left =
                {[at |-> 0, what |-> o] : o \in object \intersect Source}])
  /\ UNCHANGED <<table, objects, alias, config, last, work, quiet, edits, tidy>>

(* One batch: it deletes what was seen, which breaks it off when one of    *)
(* those is gone (firewall.go:1355), and writes what was made.             *)
Batch(a) ==
  /\ step[a] = "source" /\ plan[a].left = {} /\ plan[a].seen \subseteq Ours
  /\ Go(a, "reload")
  /\ file' = plan[a].made \union
             {s \in file : Name(s) \notin plan[a].seen \union
                                          Names(plan[a].made)}
  /\ Sets(a, NoPlan)
  /\ quiet' = quiet \intersect {a}
  /\ UNCHANGED <<table, objects, alias, running, last, work, edits, tidy>>

BatchBreaksOff(a) ==
  /\ step[a] = "source" /\ plan[a].left = {} /\ ~(plan[a].seen \subseteq Ours)
  /\ Go(a, "failed")
  /\ Sets(a, NoPlan)
  /\ UNCHANGED <<table, objects, alias, config, last, work, quiet, edits, tidy>>

(* The copy of the file, uci or the connection to it. *)
ApplyFails(a) ==
  /\ \/ May("backup") /\ step[a] = "config"
     \/ May("batch") /\ step[a] = "source" /\ plan[a].left = {}
     \/ May("reload") /\ step[a] = "reload"
  /\ Go(a, "failed")
  /\ Sets(a, NoPlan)
  /\ UNCHANGED <<table, objects, alias, config, last, work, quiet, edits, tidy>>

Reload(a) ==
  /\ step[a] = "reload"
  /\ Go(a, "over")
  /\ running' = file
  /\ UNCHANGED <<table, objects, alias, file, last, work, plan, quiet, edits, tidy>>

----------------------------------------------------------------------------
Edits ==
  \/ \E x \in Rule : UpdateRule(x)
  \/ \E x \in Rule : DeleteRule(x)
  \/ \E o \in Forward : EditForward(o)
  \/ \E o \in Nat11 : EditNat11(o)
  \/ \E o \in Source : EditSource(o)
  \/ SwitchForcing
  \/ \E zones \in SUBSET Forced : SetZones(zones)
  \/ \E n \in Alias, to \in Address \union {None} : EditAlias(n, to)

Applies(a) ==
  \/ ReadForwards(a)
  \/ ReadRules(a)
  \/ ReadNat11(a)
  \/ ReadConfig(a)
  \/ ReadForcing(a)
  \/ ReadZones(a)
  \/ Resolve(a)
  \/ ReadSources(a)
  \/ Batch(a)
  \/ BatchBreaksOff(a)
  \/ ApplyFails(a)
  \/ Reload(a)

Next ==
  \/ \E c \in Create : BeginCreate(c) \/ Insert(c)
  \/ \E m \in Move, x \in Rule, down \in BOOLEAN : BeginMove(m, x, down)
  \/ \E m \in Move : WritePos(m) \/ WritePosFails(m)
  \/ Edits
  \/ \E a \in Apply : Applies(a)

Spec == Init /\ [][Next]_vars
----------------------------------------------------------------------------
(* Types. *)
TypeOK ==
  /\ exists \subseteq Rule
  /\ pos \in [Rule -> Nat] /\ age \in [Rule -> Nat] /\ on \in [Rule -> BOOLEAN]
  /\ object \subseteq Object /\ forcing \in BOOLEAN
  /\ alias \in [Alias -> Address \union {None}]
  /\ file \subseteq Section /\ running \subseteq Section
  /\ step \in [Request -> {"off", "insert", "write", "rules", "nat11",
                           "config", "forced", "zones", "resolve", "source",
                           "reload", "over", "failed"}]
  /\ last \in [Create -> [pos : Nat, knew : SUBSET Rule]]
  /\ \A m \in Move :
       /\ DOMAIN work[m].order \subseteq Rule /\ work[m].pair \subseteq Rule
       /\ work[m].next \in Nat \ {0}
       /\ {work[m].order[x] : x \in DOMAIN work[m].order} =
            1..Cardinality(DOMAIN work[m].order)
  /\ \A a \in Apply :
       /\ plan[a].objects \subseteq Object /\ plan[a].left \subseteq Place
       /\ plan[a].made \subseteq Section
       /\ plan[a].seen \subseteq (0..Cardinality(Rule)) \X (Rule \union Object)
  /\ quiet \subseteq Apply
  /\ edits \in 0..MaxEdits /\ tidy \in BOOLEAN

(* While a move numbers the rows, whatever else is done and wherever it    *)
(* breaks off, nobody who reads the table meets two rules in an order they *)
(* did not have, but for the two that change places (firewall.go:689), and *)
(* a new rule goes behind all that were there when it was asked for, also  *)
(* when a move has numbered them in between (firewall.go:587): as long as  *)
(* the move that began last has found positions it can do with.            *)
OrderKept ==
  [][tidy =>
     /\ \A x, y \in exists \intersect exists' :
          Before(x, y) /\ Before(y, x)' =>
            \E m \in Move : step[m] = "write" /\ {x, y} = work[m].pair
     /\ \A c \in exists' \ exists :
          \A x \in last[c].knew \intersect exists : Before(x, c)']_table

(* What the firewall should have. *)
Wanted ==
  {[at |-> Rank(x, Enabled), what |-> x, addr |-> AddressOf(x)] : x \in Enabled}
  \union {[at |-> 0, what |-> o, addr |-> AddressOf(o)] :
           o \in IF forcing THEN object ELSE object \ Forced}

(* An apply during which nothing else changed leaves the firewall with     *)
(* what the tables say, in their order and nothing besides, whatever       *)
(* earlier applies that overlapped or failed have left in the file         *)
(* (PRIRUCNIK.md:60).                                                      *)
QuietApplyIsExact ==
  [][\A a \in quiet :
       step[a] = "reload" /\ step'[a] = "over" => running' = Wanted]_vars

(* A rule, or a row of source NAT, for an alias is never in force without  *)
(* its addresses, also when the alias went after the row was read: it      *)
(* would hold for everybody.                                               *)
NarrowStaysNarrow == Narrow(running)
=============================================================================
