---------------------------- MODULE Rules_proofs ----------------------------
(***************************************************************************)
(* Proofs about Rules, for any rules, aliases and requests: no rule is in  *)
(* force without the addresses it is meant for (NarrowStaysNarrow), an     *)
(* apply during which nothing else changed leaves what the tables say      *)
(* (QuietApplyIsExact), and while a move numbers the rules nobody meets    *)
(* them in an order they did not have (OrderKept).                         *)
(***************************************************************************)
EXTENDS Rules, FiniteSetTheorems, TLAPS

(* The inductive invariant: what the firewall runs was in the file, what   *)
(* is in the file was made by an apply, and what an apply makes is narrow; *)
(* the objects that are written as they are name no alias.                 *)

(* A plan has its four parts. *)
IsPlan(p) == p = [objects |-> p.objects, left |-> p.left, made |-> p.made,
                  seen |-> p.seen]

NarrowPlan(p) == IsPlan(p) /\ p.objects \subseteq Object \ Source /\ Narrow(p.made)

NarrowInv ==
  /\ object \subseteq Object
  /\ Narrow(file) /\ Narrow(running)
  /\ DOMAIN plan = Apply
  /\ \A a \in Apply : NarrowPlan(plan[a])

----------------------------------------------------------------------------
(* A section is narrow by itself, so the union of narrow sets is narrow.   *)
LEMMA NarrowUnion ==
  ASSUME NEW S, NEW T, Narrow(S), Narrow(T)
  PROVE  Narrow(S \union T) /\ \A R \in SUBSET S : Narrow(R)
  BY DEF Narrow

(* The plan of one apply is exchanged for a narrow one. *)
LEMMA OnePlan ==
  ASSUME NarrowInv, NEW a \in Apply, NEW p, NarrowPlan(p), Sets(a, p)
  PROVE  DOMAIN plan' = Apply /\ \A b \in Apply : NarrowPlan(plan'[b])
  <1>1. DOMAIN plan' = Apply /\ \A b \in Apply : plan'[b] = IF b = a THEN p
                                                            ELSE plan[b]
    BY DEF NarrowInv, Sets
  <1> QED
    BY <1>1 DEF NarrowInv

(* A plan with nothing in it is narrow. *)
LEMMA EmptyPlan == NarrowPlan(NoPlan)
  BY DEF NarrowPlan, IsPlan, NoPlan, Narrow

(* What becomes of a plan of which one part is exchanged. *)
LEMMA ChangedPlan ==
  ASSUME NEW p, NarrowPlan(p), NEW v
  PROVE  /\ NarrowPlan([p EXCEPT !.left = v]) /\ NarrowPlan([p EXCEPT !.seen = v])
         /\ v \subseteq Object \ Source => NarrowPlan([p EXCEPT !.objects = v])
         /\ Narrow(v) => NarrowPlan([p EXCEPT !.made = v])
  <1>1. /\ [p EXCEPT !.left = v] = [objects |-> p.objects, left |-> v,
                                   made |-> p.made, seen |-> p.seen]
        /\ [p EXCEPT !.seen = v] = [objects |-> p.objects, left |-> p.left,
                                   made |-> p.made, seen |-> v]
        /\ [p EXCEPT !.objects = v] = [objects |-> v, left |-> p.left,
                                      made |-> p.made, seen |-> p.seen]
        /\ [p EXCEPT !.made = v] = [objects |-> p.objects, left |-> p.left,
                                   made |-> v, seen |-> p.seen]
    BY DEF NarrowPlan, IsPlan
  <1> QED
    BY <1>1 DEF NarrowPlan, IsPlan

(* Objects other than source NAT need no addresses.                        *)
LEMMA PlainIsNarrow ==
  ASSUME NEW S, S \subseteq Object \ Source
  PROVE  Narrow(Plain(S))
  BY RulesAssumption DEF Plain, Narrow

(* Forwards, pairs and networks are such objects.                          *)
LEMMA NotSource ==
  ASSUME NEW S, S \subseteq Object
  PROVE  \A K \in {Forward, Nat11, Forced} : S \intersect K \subseteq Object \ Source
  BY RulesAssumption

(* The invariant holds at first. *)
LEMMA NarrowInit == Init => NarrowInv
  BY EmptyPlan, RulesAssumption, OldFilesAssumption DEF Init, NarrowInv

(* A step of an apply keeps it. *)
LEMMA NarrowApply ==
  ASSUME NarrowInv, NEW a \in Apply, Applies(a)
  PROVE  NarrowInv'
  <1> DEFINE p == plan[a]
  <1>0. NarrowPlan(p)
    BY DEF NarrowInv
  <1>1. CASE ReadForwards(a) \/ ReadNat11(a)
    <2> DEFINE some == IF step[a] = "off" THEN object \intersect Forward
                       ELSE p.objects \union (object \intersect Nat11)
               q == [IF step[a] = "off" THEN NoPlan ELSE p EXCEPT !.objects = some]
    <2>1. some \subseteq Object \ Source
      BY <1>0, NotSource DEF NarrowInv, NarrowPlan
    <2>2. Sets(a, q)
      BY <1>1 DEF ReadForwards, ReadNat11
    <2> HIDE DEF some
    <2>3. NarrowPlan(q)
      BY <1>0, <2>1, EmptyPlan, ChangedPlan
    <2> HIDE DEF q
    <2> QED
      BY <1>1, <2>2, <2>3, OnePlan
         DEF ReadForwards, ReadNat11, NarrowInv, config, objects
  <1>2. CASE ReadRules(a) \/ ReadSources(a)
    <2> DEFINE rows == IF step[a] = "rules"
                         THEN {[at |-> Rank(x, Enabled), what |-> x] : x \in Enabled}
                         ELSE {[at |-> 0, what |-> o] : o \in object \intersect Source}
               q == [p EXCEPT !.left = rows]
    <2>1. Sets(a, q)
      BY <1>2 DEF ReadRules, ReadSources
    <2> HIDE DEF rows
    <2>2. NarrowPlan(q)
      BY <1>0, ChangedPlan
    <2> HIDE DEF q
    <2> QED
      BY <1>2, <2>1, <2>2, OnePlan
         DEF ReadRules, ReadSources, NarrowInv, config, objects
  <1>3. CASE ReadConfig(a)
    <2>1. NarrowPlan([p EXCEPT !.seen = Ours])
      BY <1>0, ChangedPlan
    <2> QED
      BY <1>3, <2>1, OnePlan DEF ReadConfig, NarrowInv, config, objects
  <1>8. CASE ReadForcing(a) \/ ReadZones(a)
    <2> DEFINE written == IF step[a] = "forced" THEN Plain(p.objects)
                          ELSE p.made \union Plain(object \intersect Forced)
               q == [p EXCEPT !.made = written]
    <2>1. Narrow(Plain(p.objects)) /\ Narrow(Plain(object \intersect Forced))
      BY <1>0, NotSource, PlainIsNarrow DEF NarrowPlan, NarrowInv
    <2>2. Narrow(written)
      BY <1>0, <2>1, NarrowUnion DEF NarrowPlan
    <2>3. Sets(a, q)
      BY <1>8 DEF ReadForcing, ReadZones
    <2> HIDE DEF written
    <2>4. NarrowPlan(q)
      BY <1>0, <2>2, ChangedPlan
    <2> HIDE DEF q
    <2> QED
      BY <1>8, <2>3, <2>4, OnePlan
         DEF ReadForcing, ReadZones, NarrowInv, config, objects
  <1>4. CASE Resolve(a)
    <2>1. PICK r \in p.left :
            LET addr == AddressOf(r.what)
            IN IF Via[r.what] # None /\ addr = None
                 THEN Go(a, "failed") /\ Sets(a, NoPlan)
                 ELSE /\ Sets(a, [p EXCEPT !.left = @ \ {r},
                            !.made = @ \union
                              {[at |-> r.at, what |-> r.what, addr |-> addr]}])
                      /\ UNCHANGED step
      BY <1>4 DEF Resolve
    <2> DEFINE addr == AddressOf(r.what)
               s    == [at |-> r.at, what |-> r.what, addr |-> addr]
               q    == [p EXCEPT !.left = @ \ {r}, !.made = @ \union {s}]
    <2>2. CASE Via[r.what] # None /\ addr = None
      BY <1>4, <2>1, <2>2, EmptyPlan, OnePlan DEF Resolve, NarrowInv, config, objects
    <2>3. CASE ~(Via[r.what] # None /\ addr = None)
      <3>1. Narrow({s})
        BY <2>3 DEF Narrow
      <3>2. Sets(a, q)
        BY <2>1, <2>3
      <3> HIDE DEF s
      <3>3. NarrowPlan([p EXCEPT !.left = @ \ {r}])
        BY <1>0, ChangedPlan
      <3>4. Narrow(p.made \union {s})
        BY <1>0, <3>1, NarrowUnion DEF NarrowPlan
      <3>5. NarrowPlan(q)
        BY <3>3, <3>4, ChangedPlan
      <3> HIDE DEF q
      <3> QED
        BY <1>4, <3>2, <3>5, OnePlan DEF Resolve, NarrowInv, config, objects
    <2> QED
      BY <2>2, <2>3
  <1>5. CASE Batch(a)
    <2>1. Narrow(file')
      BY <1>0, <1>5 DEF Batch, NarrowPlan, NarrowInv, Narrow
    <2> QED
      BY <1>5, <2>1, EmptyPlan, OnePlan DEF Batch, NarrowInv, objects
  <1>6. CASE BatchBreaksOff(a) \/ ApplyFails(a)
    BY <1>6, EmptyPlan, OnePlan DEF BatchBreaksOff, ApplyFails, NarrowInv, config, objects
  <1>7. CASE Reload(a)
    BY <1>7 DEF Reload, NarrowInv, objects
  <1> QED
    BY <1>1, <1>2, <1>3, <1>4, <1>5, <1>6, <1>7, <1>8 DEF Applies

(* Every step keeps it: only applies touch the file or their plans. *)
LEMMA NarrowStep == NarrowInv /\ [Next]_vars => NarrowInv'
  <1> SUFFICES ASSUME NarrowInv, [Next]_vars PROVE NarrowInv'
    OBVIOUS
  <1>1. ASSUME \/ \E c \in Create : BeginCreate(c) \/ Insert(c)
               \/ \E m \in Move, x \in Rule, down \in BOOLEAN :
                    BeginMove(m, x, down)
               \/ \E m \in Move : WritePos(m) \/ WritePosFails(m)
        PROVE  NarrowInv'
    <2>1. UNCHANGED <<object, config, plan>>
      BY <1>1 DEF BeginCreate, Insert, BeginMove, WritePos, WritePosFails, objects
    <2> QED
      BY <2>1 DEF NarrowInv, config
  <1>2. ASSUME Edits PROVE NarrowInv'
    <2>1. object' \subseteq Object /\ UNCHANGED <<config, plan>>
      BY <1>2 DEF Edits, UpdateRule, DeleteRule, EditForward, EditNat11,
                  EditSource, Toggles, SwitchForcing, SetZones, EditAlias, Edit,
                  requests, objects, Object, NarrowInv
    <2> QED
      BY <2>1 DEF NarrowInv, config
  <1>3. ASSUME NEW a \in Apply, Applies(a) PROVE NarrowInv'
    BY <1>3, NarrowApply
  <1>4. CASE UNCHANGED vars
    BY <1>4 DEF NarrowInv, vars
  <1> QED
    BY <1>1, <1>2, <1>3, <1>4 DEF Next

(* A rule, or a row of source NAT, for an alias is never in force without  *)
(* its addresses, whichever requests interleave and whichever of their     *)
(* steps fail.                                                             *)
THEOREM AlwaysNarrow == Spec => []NarrowStaysNarrow
  <1>1. NarrowInv => NarrowStaysNarrow
    BY DEF NarrowInv, NarrowStaysNarrow
  <1> QED
    BY <1>1, NarrowInit, NarrowStep, PTL DEF Spec

----------------------------------------------------------------------------
(* What a quiet apply leaves. *)

(* The rows it reads, and the sections it makes of some.                   *)
RuleRows   == {[at |-> Rank(x, Enabled), what |-> x] : x \in Enabled}
SourceRows == {[at |-> 0, what |-> o] : o \in object \intersect Source}
Resolved(rows) ==
  {[at |-> q.at, what |-> q.what, addr |-> AddressOf(q.what)] : q \in rows}

(* The objects that are written as they are.                               *)
Unordered == object \intersect (Forward \union Nat11)
Forcings  == IF forcing THEN object \intersect Forced ELSE {}

(* How far it has come: what it has read is in the tables, what it has     *)
(* made is of that, what it has seen is in the file.                       *)
ExactFits(a) ==
  /\ step[a] \in {"rules", "nat11"} => plan[a].objects = object \intersect Forward
  /\ step[a] \in {"config", "forced", "zones"} => plan[a].objects = Unordered
  /\ step[a] \in {"nat11", "config", "forced", "zones"} => plan[a].left = RuleRows
  /\ step[a] \in {"forced", "zones", "resolve", "source"} => plan[a].seen = Ours
  /\ step[a] = "zones" => forcing /\ plan[a].made = Plain(Unordered)
  /\ step[a] = "resolve" =>
       /\ plan[a].left \subseteq RuleRows
       /\ plan[a].made = Plain(Unordered \union Forcings)
                           \union Resolved(RuleRows \ plan[a].left)
  /\ step[a] = "source" =>
       /\ plan[a].left \subseteq SourceRows
       /\ plan[a].made = Plain(Unordered \union Forcings) \union Resolved(RuleRows)
                           \union Resolved(SourceRows \ plan[a].left)
  /\ step[a] = "reload" => file = Wanted

ExactInv ==
  /\ NarrowInv /\ DOMAIN step = Request /\ quiet \subseteq Apply
  /\ \A a \in quiet : ExactFits(a)

(* Rules, objects written as they are and source NAT are all that is       *)
(* wanted.                                                                 *)
LEMMA WantedParts ==
  ASSUME object \subseteq Object
  PROVE  Wanted = Plain(Unordered \union Forcings) \union Resolved(RuleRows)
                    \union Resolved(SourceRows)
  <1>1. Resolved(RuleRows) = {[at |-> Rank(x, Enabled), what |-> x,
                               addr |-> AddressOf(x)] : x \in Enabled}
    <2>1. ASSUME NEW s \in Resolved(RuleRows)
          PROVE  \E x \in Enabled : s = [at |-> Rank(x, Enabled), what |-> x,
                                         addr |-> AddressOf(x)]
      <3>1. PICK q \in RuleRows :
                   s = [at |-> q.at, what |-> q.what, addr |-> AddressOf(q.what)]
        BY DEF Resolved
      <3>2. PICK x \in Enabled : q = [at |-> Rank(x, Enabled), what |-> x]
        BY DEF RuleRows
      <3>3. q.at = Rank(x, Enabled) /\ q.what = x
        BY <3>2
      <3> QED
        BY <3>1, <3>3
    <2>2. ASSUME NEW x \in Enabled
          PROVE  [at |-> Rank(x, Enabled), what |-> x, addr |-> AddressOf(x)]
                   \in Resolved(RuleRows)
      <3> DEFINE q == [at |-> Rank(x, Enabled), what |-> x]
      <3>1. q \in RuleRows
        BY DEF RuleRows
      <3>2. q.at = Rank(x, Enabled) /\ q.what = x
        OBVIOUS
      <3> HIDE DEF q
      <3>3. [at |-> q.at, what |-> q.what, addr |-> AddressOf(q.what)]
              \in Resolved(RuleRows)
        BY <3>1 DEF Resolved
      <3> QED
        BY <3>2, <3>3
    <2> QED
      BY <2>1, <2>2
  <1>2. Resolved(SourceRows) = {[at |-> 0, what |-> o, addr |-> AddressOf(o)] :
                                 o \in object \intersect Source}
    <2>1. ASSUME NEW s \in Resolved(SourceRows)
          PROVE  \E o \in object \intersect Source :
                    s = [at |-> 0, what |-> o, addr |-> AddressOf(o)]
      <3>1. PICK q \in SourceRows :
                   s = [at |-> q.at, what |-> q.what, addr |-> AddressOf(q.what)]
        BY DEF Resolved
      <3>2. PICK o \in object \intersect Source : q = [at |-> 0, what |-> o]
        BY DEF SourceRows
      <3>3. q.at = 0 /\ q.what = o
        BY <3>2
      <3> QED
        BY <3>1, <3>3
    <2>2. ASSUME NEW o \in object \intersect Source
          PROVE  [at |-> 0, what |-> o, addr |-> AddressOf(o)]
                   \in Resolved(SourceRows)
      <3> DEFINE q == [at |-> 0, what |-> o]
      <3>1. q \in SourceRows
        BY DEF SourceRows
      <3>2. q.at = 0 /\ q.what = o
        OBVIOUS
      <3> HIDE DEF q
      <3>3. [at |-> q.at, what |-> q.what, addr |-> AddressOf(q.what)]
              \in Resolved(SourceRows)
        BY <3>1 DEF Resolved
      <3> QED
        BY <3>2, <3>3
    <2> QED
      BY <2>1, <2>2
  <1>3. \A o \in Unordered \union Forcings : AddressOf(o) = None
    BY RulesAssumption DEF AddressOf, Unordered, Forcings, Object
  <1>4. Plain(Unordered \union Forcings)
          = {[at |-> 0, what |-> o, addr |-> AddressOf(o)] :
              o \in Unordered \union Forcings}
    BY <1>3 DEF Plain
  <1>5. (IF forcing THEN object ELSE object \ Forced)
          = (Unordered \union Forcings) \union (object \intersect Source)
    BY RulesAssumption DEF Unordered, Forcings, Object
  <1> DEFINE all == IF forcing THEN object ELSE object \ Forced
             some == Unordered \union Forcings
             sources == object \intersect Source
             rules == {[at |-> Rank(x, Enabled), what |-> x,
                        addr |-> AddressOf(x)] : x \in Enabled}
  <1>6. Wanted = rules \union {[at |-> 0, what |-> o, addr |-> AddressOf(o)] : o \in all}
    BY DEF Wanted
  <1>7. all = some \union sources
    BY <1>5
  <1> HIDE DEF all, some, sources, rules
  <1>8. {[at |-> 0, what |-> o, addr |-> AddressOf(o)] : o \in all}
          = {[at |-> 0, what |-> o, addr |-> AddressOf(o)] : o \in some}
            \union {[at |-> 0, what |-> o, addr |-> AddressOf(o)] : o \in sources}
    BY <1>7
  <1> QED
    BY <1>1, <1>2, <1>4, <1>6, <1>8 DEF some, sources, rules

(* Whatever leaves the tables alone leaves what an apply makes of them.    *)
LEMMA TablesStay ==
  ASSUME UNCHANGED <<table, objects, alias>>
  PROVE  /\ RuleRows' = RuleRows /\ SourceRows' = SourceRows
         /\ Unordered' = Unordered /\ Forcings' = Forcings
         /\ Wanted' = Wanted /\ \A x : AddressOf(x)' = AddressOf(x)
  <1>1. /\ exists' = exists /\ pos' = pos /\ age' = age /\ on' = on
        /\ object' = object /\ forcing' = forcing /\ alias' = alias
    BY DEF table, objects
  <1>2. Enabled' = Enabled /\ \A x : Rank(x, Enabled)' = Rank(x, Enabled)
    BY <1>1 DEF Enabled, Rank, Before
  <1>3. \A x : AddressOf(x)' = AddressOf(x)
    BY <1>1 DEF AddressOf
  <1> QED
    BY <1>1, <1>2, <1>3 DEF RuleRows, SourceRows, Unordered, Forcings, Wanted

(* So does what leaves the file, and where the apply is, alone.            *)
LEMMA FitsStay ==
  ASSUME UNCHANGED <<table, objects, alias, file>>, NEW a, ExactFits(a),
         step'[a] = step[a], plan'[a] = plan[a]
  PROVE  ExactFits(a)'
  <1>1. /\ RuleRows' = RuleRows /\ SourceRows' = SourceRows
        /\ Unordered' = Unordered /\ Forcings' = Forcings
        /\ Wanted' = Wanted /\ \A x : AddressOf(x)' = AddressOf(x)
    BY TablesStay
  <1>2. Ours' = Ours /\ forcing' = forcing /\ object' = object
    BY DEF Ours, Names, Name, objects
  <1>3. /\ Resolved(RuleRows)' = Resolved(RuleRows)
        /\ Resolved(RuleRows \ plan[a].left)' = Resolved(RuleRows \ plan[a].left)
        /\ Resolved(SourceRows \ plan[a].left)' = Resolved(SourceRows \ plan[a].left)
    BY <1>1 DEF Resolved
  <1> QED
    BY <1>1, <1>2, <1>3 DEF ExactFits, Plain

(* The plan and the place of one apply are exchanged. *)
LEMMA OwnPlan ==
  ASSUME ExactInv, NEW a \in Apply, NEW p, Sets(a, p), NEW s, Go(a, s)
  PROVE  plan'[a] = p /\ step'[a] = s
  BY DEF ExactInv, NarrowInv, Sets, Go, Request

(* The parts of a plan of which one is exchanged. *)
LEMMA PlanParts ==
  ASSUME NEW p, IsPlan(p), NEW v
  PROVE  /\ [p EXCEPT !.left = v] = [objects |-> p.objects, left |-> v,
                                     made |-> p.made, seen |-> p.seen]
         /\ [p EXCEPT !.seen = v] = [objects |-> p.objects, left |-> p.left,
                                     made |-> p.made, seen |-> v]
         /\ [p EXCEPT !.objects = v] = [objects |-> v, left |-> p.left,
                                        made |-> p.made, seen |-> p.seen]
         /\ [p EXCEPT !.made = v] = [objects |-> p.objects, left |-> p.left,
                                     made |-> v, seen |-> p.seen]
  BY DEF IsPlan

(* One row more is resolved. *)
LEMMA ResolvedMore ==
  ASSUME NEW rows, NEW r
  PROVE  Resolved(rows \union {r}) = Resolved(rows) \union
           {[at |-> r.at, what |-> r.what, addr |-> AddressOf(r.what)]}
  BY DEF Resolved

(* The reads, each of the tables as they are.                              *)
LEMMA ReadsFit ==
  ASSUME ExactInv, NEW a \in Apply, a \in quiet => ExactFits(a),
         \/ ReadForwards(a) \/ ReadRules(a) \/ ReadNat11(a) \/ ReadConfig(a)
         \/ ReadForcing(a) \/ ReadZones(a) \/ ReadSources(a),
         a \in quiet'
  PROVE  ExactFits(a)'
  <1> DEFINE p == plan[a]
  <1>1. UNCHANGED <<table, objects, alias, file>>
    BY DEF ReadForwards, ReadRules, ReadNat11, ReadConfig, ReadForcing, ReadZones,
           ReadSources, config
  <1>2. /\ RuleRows' = RuleRows /\ SourceRows' = SourceRows
        /\ Unordered' = Unordered /\ Forcings' = Forcings
        /\ Wanted' = Wanted /\ \A x : AddressOf(x)' = AddressOf(x)
    BY <1>1, TablesStay
  <1>3. Ours' = Ours /\ forcing' = forcing /\ object' = object
    BY <1>1 DEF Ours, Names, Name, objects
  <1>4. IsPlan(p)
    BY DEF ExactInv, NarrowInv, NarrowPlan
  <1>5. CASE ReadForwards(a)
    <2> DEFINE q == [NoPlan EXCEPT !.objects = object \intersect Forward]
    <2>1. q.objects = object \intersect Forward
      BY DEF NoPlan
    <2>2. Sets(a, q) /\ Go(a, "rules")
      BY <1>5 DEF ReadForwards
    <2> HIDE DEF q
    <2>3. plan'[a] = q /\ step'[a] = "rules"
      BY <2>2, OwnPlan
    <2> QED
      BY <2>1, <2>3, <1>3 DEF ExactFits
  <1>6. CASE ~ReadForwards(a)
    <2>1. a \in quiet /\ ExactFits(a)
      BY <1>6 DEF ReadRules, ReadNat11, ReadConfig, ReadForcing, ReadZones, ReadSources
    <2>2. CASE ReadRules(a)
      <3> DEFINE q == [p EXCEPT !.left = RuleRows]
      <3>1. q.objects = p.objects /\ q.left = RuleRows
        BY <1>4, PlanParts
      <3>2. Sets(a, q) /\ Go(a, "nat11") /\ step[a] = "rules"
        BY <2>2 DEF ReadRules, RuleRows
      <3> HIDE DEF q
      <3>3. plan'[a] = q /\ step'[a] = "nat11"
        BY <3>2, OwnPlan
      <3> QED
        BY <2>1, <3>1, <3>2, <3>3, <1>2, <1>3 DEF ExactFits
    <2>3. CASE ReadNat11(a)
      <3> DEFINE all == p.objects \union (object \intersect Nat11)
                 q == [p EXCEPT !.objects = all]
      <3>1. q.objects = all /\ q.left = p.left
        <4> HIDE DEF all
        <4> QED BY <1>4, PlanParts
      <3>2. Sets(a, q) /\ Go(a, "config") /\ step[a] = "nat11"
        BY <2>3 DEF ReadNat11
      <3> HIDE DEF q
      <3>3. plan'[a] = q /\ step'[a] = "config"
        BY <3>2, OwnPlan
      <3>4. all = Unordered
        BY <2>1, <3>2 DEF ExactFits, Unordered
      <3> QED
        BY <2>1, <3>1, <3>2, <3>3, <3>4, <1>2, <1>3 DEF ExactFits
    <2>4. CASE ReadConfig(a)
      <3> DEFINE q == [p EXCEPT !.seen = Ours]
      <3>1. q.objects = p.objects /\ q.left = p.left /\ q.seen = Ours
        BY <1>4, PlanParts
      <3>2. Sets(a, q) /\ Go(a, "forced") /\ step[a] = "config"
        BY <2>4 DEF ReadConfig
      <3> HIDE DEF q
      <3>3. plan'[a] = q /\ step'[a] = "forced"
        BY <3>2, OwnPlan
      <3> QED
        BY <2>1, <3>1, <3>2, <3>3, <1>2, <1>3 DEF ExactFits
    <2>5. CASE ReadForcing(a)
      <3> DEFINE m == Plain(p.objects)
                 q == [p EXCEPT !.made = m]
                 s == IF forcing THEN "zones" ELSE "resolve"
      <3>1. /\ q.objects = p.objects /\ q.left = p.left /\ q.seen = p.seen
            /\ q.made = m
        <4> HIDE DEF m
        <4> QED BY <1>4, PlanParts
      <3>2. Sets(a, q) /\ Go(a, s) /\ step[a] = "forced"
        BY <2>5 DEF ReadForcing
      <3> HIDE DEF q
      <3>3. plan'[a] = q /\ step'[a] = s
        BY <3>2, OwnPlan
      <3>4. p.objects = Unordered /\ p.left = RuleRows /\ p.seen = Ours
        BY <2>1, <3>2 DEF ExactFits
      <3>5. ~forcing => Unordered \union Forcings = Unordered
        BY DEF Forcings
      <3>6. /\ Plain(Unordered \union Forcings)' = Plain(Unordered \union Forcings)
            /\ Plain(Unordered)' = Plain(Unordered)
        BY <1>2 DEF Plain
      <3>7. Resolved(RuleRows \ plan[a].left)' = {}
        BY <3>1, <3>3, <3>4, <1>2 DEF Resolved
      <3> QED
        BY <3>1, <3>3, <3>4, <3>5, <3>6, <3>7, <1>2, <1>3 DEF ExactFits
    <2>6. CASE ReadZones(a)
      <3> DEFINE m == p.made \union Plain(object \intersect Forced)
                 q == [p EXCEPT !.made = m]
      <3>1. /\ q.left = p.left /\ q.seen = p.seen /\ q.made = m
        <4> HIDE DEF m
        <4> QED BY <1>4, PlanParts
      <3>2. Sets(a, q) /\ Go(a, "resolve") /\ step[a] = "zones"
        BY <2>6 DEF ReadZones
      <3> HIDE DEF q
      <3>3. plan'[a] = q /\ step'[a] = "resolve"
        BY <3>2, OwnPlan
      <3>4. /\ p.left = RuleRows /\ p.seen = Ours /\ forcing
            /\ p.made = Plain(Unordered)
        BY <2>1, <3>2 DEF ExactFits
      <3>5. m = Plain(Unordered \union Forcings)
        BY <3>4 DEF Plain, Forcings
      <3>6. Resolved(RuleRows \ plan[a].left)' = {}
        BY <3>1, <3>3, <3>4, <1>2 DEF Resolved
      <3>7. Plain(Unordered \union Forcings)' = Plain(Unordered \union Forcings)
        BY <1>2 DEF Plain
      <3> HIDE DEF m
      <3> QED
        BY <3>1, <3>3, <3>4, <3>5, <3>6, <3>7, <1>2, <1>3 DEF ExactFits
    <2>7. CASE ReadSources(a)
      <3> DEFINE q == [p EXCEPT !.left = SourceRows]
      <3>1. q.left = SourceRows /\ q.seen = p.seen /\ q.made = p.made
        BY <1>4, PlanParts
      <3>2. Sets(a, q) /\ Go(a, "source") /\ step[a] = "resolve" /\ p.left = {}
        BY <2>7 DEF ReadSources, SourceRows
      <3> HIDE DEF q
      <3>3. plan'[a] = q /\ step'[a] = "source"
        BY <3>2, OwnPlan
      <3>4. /\ p.seen = Ours
            /\ p.made = Plain(Unordered \union Forcings) \union Resolved(RuleRows)
        <4>1. RuleRows \ p.left = RuleRows
          BY <3>2
        <4> QED
          BY <2>1, <3>2, <4>1 DEF ExactFits
      <3>5. Resolved(SourceRows \ plan[a].left)' = {}
        BY <3>1, <3>3, <1>2 DEF Resolved
      <3>6. /\ Plain(Unordered \union Forcings)' = Plain(Unordered \union Forcings)
            /\ Resolved(RuleRows)' = Resolved(RuleRows)
        BY <1>2 DEF Plain, Resolved
      <3> QED
        BY <3>1, <3>3, <3>4, <3>5, <3>6, <1>2, <1>3 DEF ExactFits
    <2> QED
      BY <1>6, <2>2, <2>3, <2>4, <2>5, <2>6, <2>7
  <1> QED
    BY <1>5, <1>6

(* A row is resolved, or the apply ends for want of its alias.             *)
LEMMA ResolveFits ==
  ASSUME ExactInv, NEW a \in quiet, Resolve(a)
  PROVE  ExactFits(a)'
  <1> DEFINE p == plan[a]
  <1>1. UNCHANGED <<table, objects, alias, file>>
    BY DEF Resolve, config
  <1>2. /\ RuleRows' = RuleRows /\ SourceRows' = SourceRows
        /\ Unordered' = Unordered /\ Forcings' = Forcings
        /\ Wanted' = Wanted /\ \A x : AddressOf(x)' = AddressOf(x)
    BY <1>1, TablesStay
  <1>3. Ours' = Ours /\ a \in Apply /\ ExactFits(a)
    BY <1>1 DEF Ours, Names, Name, ExactInv
  <1>4. IsPlan(p)
    BY <1>3 DEF ExactInv, NarrowInv, NarrowPlan
  <1>5. PICK r \in p.left :
          LET addr == AddressOf(r.what)
          IN IF Via[r.what] # None /\ addr = None
               THEN Go(a, "failed") /\ Sets(a, NoPlan)
               ELSE /\ Sets(a, [p EXCEPT !.left = @ \ {r},
                          !.made = @ \union
                            {[at |-> r.at, what |-> r.what, addr |-> addr]}])
                    /\ UNCHANGED step
    BY DEF Resolve
  <1>6. CASE Go(a, "failed") /\ Sets(a, NoPlan)
    <2>1. step'[a] = "failed"
      BY <1>3, <1>6, OwnPlan
    <2> QED
      BY <2>1 DEF ExactFits
  <1>7. CASE ~(Go(a, "failed") /\ Sets(a, NoPlan))
    <2> DEFINE less == p.left \ {r}
               more == p.made \union
                         {[at |-> r.at, what |-> r.what, addr |-> AddressOf(r.what)]}
               q == [p EXCEPT !.left = less, !.made = more]
    <2>1. q = [objects |-> p.objects, left |-> less, made |-> more, seen |-> p.seen]
      <3> HIDE DEF less, more
      <3> DEFINE u == [p EXCEPT !.left = less]
      <3>1. u = [objects |-> p.objects, left |-> less, made |-> p.made,
                 seen |-> p.seen]
        BY <1>4, PlanParts
      <3>2. q = [u EXCEPT !.made = more]
        OBVIOUS
      <3> HIDE DEF u, q
      <3>3. IsPlan(u)
        BY <3>1 DEF IsPlan
      <3>4. q = [objects |-> u.objects, left |-> u.left, made |-> more,
                 seen |-> u.seen]
        BY <3>2, <3>3, PlanParts
      <3> QED
        BY <3>1, <3>4
    <2>2. q.left = less /\ q.made = more /\ q.seen = p.seen
      BY <2>1
    <2>3. Sets(a, q) /\ step' = step
      BY <1>5, <1>7
    <2> HIDE DEF q
    <2>4. plan'[a] = q
      BY <1>3, <2>3 DEF Sets, ExactInv, NarrowInv
    <2>5. CASE step[a] = "resolve"
      <3>1. /\ p.left \subseteq RuleRows /\ p.seen = Ours
            /\ p.made = Plain(Unordered \union Forcings)
                          \union Resolved(RuleRows \ p.left)
        BY <1>3, <2>5 DEF ExactFits
      <3>2. Resolved(RuleRows \ less) = Resolved(RuleRows \ p.left) \union
              {[at |-> r.at, what |-> r.what, addr |-> AddressOf(r.what)]}
        <4>1. RuleRows \ less = (RuleRows \ p.left) \union {r}
          BY <3>1
        <4> QED
          BY <4>1, ResolvedMore
      <3>3. more = Plain(Unordered \union Forcings) \union Resolved(RuleRows \ less)
        BY <3>1, <3>2
      <3>4. /\ Plain(Unordered \union Forcings)' = Plain(Unordered \union Forcings)
            /\ Resolved(RuleRows \ plan[a].left)' = Resolved(RuleRows \ less)
        BY <1>2, <2>2, <2>4 DEF Plain, Resolved
      <3>5. step'[a] = "resolve" /\ plan'[a].left \subseteq RuleRows'
            /\ plan'[a].seen = Ours'
        BY <1>2, <1>3, <2>2, <2>3, <2>4, <2>5, <3>1
      <3>6. plan'[a].made = Plain(Unordered \union Forcings)'
                              \union Resolved(RuleRows \ plan[a].left)'
        BY <2>2, <2>4, <3>3, <3>4
      <3> QED
        BY <3>5, <3>6 DEF ExactFits
    <2>6. CASE step[a] = "source"
      <3> DEFINE rules == Plain(Unordered \union Forcings) \union Resolved(RuleRows)
      <3>1. /\ p.left \subseteq SourceRows /\ p.seen = Ours
            /\ p.made = rules \union Resolved(SourceRows \ p.left)
        BY <1>3, <2>6 DEF ExactFits
      <3>2. Resolved(SourceRows \ less) = Resolved(SourceRows \ p.left) \union
              {[at |-> r.at, what |-> r.what, addr |-> AddressOf(r.what)]}
        <4>1. SourceRows \ less = (SourceRows \ p.left) \union {r}
          BY <3>1
        <4> QED
          BY <4>1, ResolvedMore
      <3>3. more = rules \union Resolved(SourceRows \ less)
        <4> HIDE DEF rules
        <4> QED BY <3>1, <3>2
      <3>4. /\ rules' = rules
            /\ Resolved(SourceRows \ plan[a].left)' = Resolved(SourceRows \ less)
        BY <1>2, <2>2, <2>4 DEF Plain, Resolved
      <3>5. step'[a] = "source" /\ plan'[a].left \subseteq SourceRows'
            /\ plan'[a].seen = Ours'
        BY <1>2, <1>3, <2>2, <2>3, <2>4, <2>6, <3>1
      <3>6. plan'[a].made = rules' \union Resolved(SourceRows \ plan[a].left)'
        BY <2>2, <2>4, <3>3, <3>4
      <3> QED
        BY <3>5, <3>6 DEF ExactFits
    <2> QED
      BY <2>5, <2>6 DEF Resolve, Resolving
  <1> QED
    BY <1>6, <1>7

(* The batch deletes all that is there and writes what is wanted; after it *)
(* the file stays as it is.                                                *)
LEMMA EndFits ==
  ASSUME ExactInv, NEW a \in quiet,
         Batch(a) \/ BatchBreaksOff(a) \/ ApplyFails(a) \/ Reload(a)
  PROVE  ExactFits(a)'
  <1>1. a \in Apply /\ ExactFits(a) /\ object \subseteq Object
    BY DEF ExactInv, NarrowInv
  <1>2. CASE Batch(a)
    <2>1. /\ step[a] = "source" /\ plan[a].left = {}
          /\ Go(a, "reload") /\ Sets(a, NoPlan)
          /\ UNCHANGED <<table, objects, alias>>
          /\ file' = plan[a].made \union
                       {s \in file : Name(s) \notin plan[a].seen \union
                                                    Names(plan[a].made)}
      BY <1>2 DEF Batch
    <2>2. SourceRows \ plan[a].left = SourceRows
      BY <2>1
    <2>3. plan[a].seen = Ours /\ plan[a].made = Wanted
      BY <1>1, <2>1, <2>2, WantedParts DEF ExactFits
    <2>4. \A s \in file : Name(s) \in Ours
      BY DEF Ours, Names
    <2>5. file' = Wanted
      BY <2>1, <2>3, <2>4
    <2>6. Wanted' = Wanted
      BY <2>1, TablesStay
    <2>7. step'[a] = "reload"
      BY <1>1, <2>1, OwnPlan
    <2> QED
      BY <2>5, <2>6, <2>7 DEF ExactFits
  <1>3. CASE ~Batch(a)
    <2>1. step'[a] \in {"over", "failed"}
      BY <1>1, <1>3 DEF BatchBreaksOff, ApplyFails, Reload, Go, ExactInv, Request
    <2> QED
      BY <2>1 DEF ExactFits
  <1> QED
    BY <1>2, <1>3

(* A step of an apply leaves the others where they are, and nobody else's  *)
(* batch goes unnoticed.                                                   *)
LEMMA ApplyExact ==
  ASSUME ExactInv, NEW a \in Apply, Applies(a)
  PROVE  /\ DOMAIN step' = Request /\ quiet' \subseteq Apply
         /\ \A b \in quiet' : ExactFits(b)'
  <1>1. DOMAIN step' = Request /\ quiet' \subseteq quiet \union {a}
    BY DEF Applies, ReadForwards, ReadRules, ReadNat11, ReadConfig, ReadForcing,
           ReadZones, Resolve, ReadSources, Batch, BatchBreaksOff, ApplyFails,
           Reload, Go, ExactInv
  <1>2. ASSUME NEW b \in quiet', b # a PROVE ExactFits(b)'
    <2>1. ~Batch(a)
      BY <1>2 DEF Batch
    <2>2. UNCHANGED <<table, objects, alias, file>>
      BY <2>1 DEF Applies, ReadForwards, ReadRules, ReadNat11, ReadConfig,
           ReadForcing, ReadZones, Resolve, ReadSources, BatchBreaksOff,
           ApplyFails, Reload, config
    <2>3. step'[b] = step[b] /\ plan'[b] = plan[b] /\ ExactFits(b)
      BY <1>1, <1>2 DEF Applies, ReadForwards, ReadRules, ReadNat11, ReadConfig,
           ReadForcing, ReadZones, Resolve, ReadSources, Batch, BatchBreaksOff,
           ApplyFails, Reload, Go, Sets, ExactInv, NarrowInv, Request
    <2> QED
      BY <2>2, <2>3, FitsStay
  <1>3. ASSUME a \in quiet' PROVE ExactFits(a)'
    <2>1. CASE \/ ReadForwards(a) \/ ReadRules(a) \/ ReadNat11(a) \/ ReadConfig(a)
               \/ ReadForcing(a) \/ ReadZones(a) \/ ReadSources(a)
      BY <1>3, <2>1, ReadsFit DEF ExactInv
    <2>2. CASE \/ Resolve(a) \/ Batch(a) \/ BatchBreaksOff(a) \/ ApplyFails(a)
               \/ Reload(a)
      <3>1. a \in quiet
        BY <1>3, <2>2 DEF Resolve, Batch, BatchBreaksOff, ApplyFails, Reload
      <3> QED
        BY <2>2, <3>1, ResolveFits, EndFits
    <2> QED
      BY <2>1, <2>2 DEF Applies
  <1> QED
    BY <1>1, <1>2, <1>3 DEF ExactInv

(* Whoever writes a table ends the quiet, and nobody else does anything to *)
(* an apply.                                                               *)
LEMMA ExactStep == ExactInv /\ [Next]_vars => ExactInv'
  <1> SUFFICES ASSUME ExactInv, [Next]_vars PROVE ExactInv'
    OBVIOUS
  <1>1. NarrowInv'
    BY NarrowStep DEF ExactInv
  <1> DEFINE Fits == /\ DOMAIN step' = Request /\ quiet' \subseteq Apply
                     /\ \A a \in quiet' : ExactFits(a)'
  <1>2. SUFFICES Fits
    BY <1>1 DEF ExactInv
  <1>3. ASSUME NEW c \in Create, BeginCreate(c) \/ Insert(c)
        PROVE  Fits
    <2>1. CASE BeginCreate(c)
      <3>1. ASSUME NEW a \in quiet'
            PROVE  step'[a] = step[a] /\ plan'[a] = plan[a] /\ ExactFits(a)
        BY <2>1, RulesAssumption DEF BeginCreate, Go, ExactInv
      <3> QED
        BY <2>1, <3>1, FitsStay DEF BeginCreate, Go, ExactInv, config
    <2>2. CASE Insert(c)
      BY <2>2 DEF Insert, Go, ExactInv
    <2> QED
      BY <1>3, <2>1, <2>2
  <1>4. ASSUME NEW m \in Move,
               \/ \E x \in Rule, down \in BOOLEAN : BeginMove(m, x, down)
               \/ WritePosFails(m)
        PROVE  Fits
    <2>1. ASSUME NEW a \in quiet'
          PROVE  step'[a] = step[a] /\ plan'[a] = plan[a] /\ ExactFits(a)
      <3>1. quiet' = quiet /\ plan' = plan /\ \E s : Go(m, s)
        BY <1>4 DEF BeginMove, WritePosFails
      <3> QED
        BY <3>1, RulesAssumption DEF Go, ExactInv
    <2> QED
      BY <1>4, <2>1, FitsStay DEF BeginMove, WritePosFails, Go, ExactInv, config
  <1>5. ASSUME NEW m \in Move, WritePos(m)
        PROVE  Fits
    BY <1>5 DEF WritePos, Go, ExactInv
  <1>6. CASE Edits
    BY <1>6 DEF Edits, UpdateRule, DeleteRule, EditForward, EditNat11, EditSource,
                Toggles, SwitchForcing, SetZones, EditAlias, Edit, requests, ExactInv
  <1>7. ASSUME NEW a \in Apply, Applies(a)
        PROVE  Fits
    BY <1>7, ApplyExact
  <1>8. CASE UNCHANGED vars
    <2>1. ASSUME NEW a \in quiet'
          PROVE  step'[a] = step[a] /\ plan'[a] = plan[a] /\ ExactFits(a)
      BY <1>8 DEF vars, requests, ExactInv
    <2> QED
      BY <1>8, <2>1, FitsStay DEF vars, table, objects, config, requests, ExactInv
  <1> HIDE DEF Fits
  <1> QED
    BY <1>3, <1>4, <1>5, <1>6, <1>7, <1>8 DEF Next

(* Only its reload ends an apply well.                                     *)
LEMMA OnlyReloadEnds ==
  ASSUME DOMAIN step = Request, [Next]_vars, NEW a \in Apply,
         step[a] = "reload", step'[a] = "over"
  PROVE  Reload(a)
  <1>1. ASSUME NEW q \in Create \union Move, NEW s PROVE ~Go(q, s)
    <2>1. q # a
      BY RulesAssumption
    <2> QED
      BY <2>1 DEF Go, Request
  <1>2. /\ \A c \in Create : BeginCreate(c) \/ Insert(c) => \E s : Go(c, s)
        /\ \A m \in Move : /\ WritePos(m) \/ WritePosFails(m) => \E s : Go(m, s)
                          /\ \A x, down : BeginMove(m, x, down) => Go(m, "write")
    BY DEF BeginCreate, Insert, WritePos, WritePosFails, BeginMove
  <1>3. ~ \/ \E c \in Create : BeginCreate(c) \/ Insert(c)
          \/ \E m \in Move, x \in Rule, down \in BOOLEAN : BeginMove(m, x, down)
          \/ \E m \in Move : WritePos(m) \/ WritePosFails(m)
    BY <1>1, <1>2
  <1>4. ~Edits
    BY DEF Edits, UpdateRule, DeleteRule, EditForward, EditNat11, EditSource,
           Toggles, SwitchForcing, SetZones, EditAlias, Edit, requests
  <1>5. ~UNCHANGED vars
    BY DEF vars, requests
  <1>6. ASSUME NEW b \in Apply, Applies(b) PROVE Reload(a)
    BY <1>6 DEF Applies, ReadForwards, ReadRules, ReadNat11, ReadConfig, ReadForcing,
           ReadZones, Resolve, ReadSources, Batch, BatchBreaksOff, ApplyFails, Go,
           Reload, Request
  <1> QED
    BY <1>3, <1>4, <1>5, <1>6 DEF Next

(* An apply during which nothing else changed leaves the firewall with     *)
(* what the tables say, in their order and nothing besides, whatever       *)
(* earlier applies that overlapped, failed or broke off have left in the   *)
(* file (handleFWApply, core/firewall.go).                                 *)
THEOREM QuietApplyAlwaysExact == Spec => QuietApplyIsExact
  <1>1. Init => ExactInv
    BY NarrowInit DEF Init, ExactInv
  <1> DEFINE A == \A a \in quiet :
                    step[a] = "reload" /\ step'[a] = "over" => running' = Wanted
  <1>2. ExactInv /\ [Next]_vars => [A]_vars
    <2> SUFFICES ASSUME ExactInv, Next, NEW a \in quiet, step[a] = "reload",
                        step'[a] = "over"
                 PROVE  running' = Wanted
      OBVIOUS
    <2>1. a \in Apply /\ file = Wanted
      BY DEF ExactInv, ExactFits
    <2>2. Reload(a)
      BY <2>1, OnlyReloadEnds DEF ExactInv
    <2> QED
      BY <2>1, <2>2 DEF Reload
  <1>3. ExactInv /\ [Next]_vars => ExactInv'
    BY ExactStep
  <1>4. Spec => [][A]_vars
    <2> HIDE DEF A
    <2> QED BY <1>1, <1>2, <1>3, PTL DEF Spec
  <1> QED
    BY <1>4, PTL DEF QuietApplyIsExact

----------------------------------------------------------------------------
(* The order of the rules.  A move writes the places 1, 2, ... into a table *)
(* whose rows have positions that are no lower; so the rows it has come to *)
(* are before those it has not, and those that are made meanwhile behind   *)
(* all of them.                                                            *)

(* A set of numbers that is finite and not empty has a greatest one.       *)
LEMMA GreatestMember ==
  ASSUME NEW S, IsFiniteSet(S), S \subseteq Nat, S # {}
  PROVE  \E x \in S : \A y \in S : x >= y
  <1> DEFINE Topless == {T \in SUBSET S : T # {} /\ ~\E x \in T : \A y \in T : x >= y}
  <1>1. SUFFICES ASSUME Topless # {} PROVE FALSE
    <2> SUFFICES ASSUME ~\E x \in S : \A y \in S : x >= y PROVE Topless # {}
      BY <1>1
    <2>1. S \in Topless
      OBVIOUS
    <2> QED
      BY <2>1
  <1>2. IsWellFoundedOn(StrictSubsetOrdering(S), FiniteSubsetsOf(S))
    BY FS_StrictSubsetOrderingWellFounded
  <1>3. Topless \subseteq FiniteSubsetsOf(S)
    BY FS_FiniteSubsetsOfFinite
  <1> HIDE DEF Topless
  <1>4. PICK T \in Topless : \A U \in Topless : ~(<<U, T>> \in StrictSubsetOrdering(S))
    BY <1>1, <1>2, <1>3, WFMin
  <1> USE DEF Topless
  <1>5. PICK x \in T : TRUE
    OBVIOUS
  <1>6. T \ {x} \notin Topless
    BY <1>4 DEF StrictSubsetOrdering
  <1>7. T \ {x} # {}
    BY <1>5
  <1>8. PICK y \in T \ {x} : \A z \in T \ {x} : y >= z
    BY <1>6, <1>7
  <1>9. CASE x >= y
    BY <1>5, <1>8, <1>9
  <1>10. CASE ~(x >= y)
    BY <1>5, <1>8, <1>10
  <1> QED
    BY <1>9, <1>10

LEMMA MaxIs ==
  ASSUME NEW S, IsFiniteSet(S), S \subseteq Nat, S # {}
  PROVE  Max(S) \in S /\ \A y \in S : Max(S) >= y
  BY GreatestMember DEF Max

(* Positions and ages of rules. *)
Dated ==
  /\ exists \subseteq Rule /\ pos \in [Rule -> Nat] /\ age \in [Rule -> Nat]
  /\ \A x, y \in exists : age[x] = age[y] => x = y

(* The values a function has on a finite set are finitely many.            *)
LEMMA FiniteValues ==
  ASSUME NEW S, IsFiniteSet(S), NEW f
  PROVE  IsFiniteSet({f[x] : x \in S})
  <1> DEFINE T == {f[x] : x \in S}
             g == [x \in S |-> f[x]]
  <1>1. g \in Surjection(S, T)
    BY DEF Surjection
  <1> QED
    BY <1>1, FS_Surjection

(* No rule has a position behind the last, and a new one is the youngest.  *)
LEMMA LastIsLast ==
  ASSUME Dated, Rule # {}
  PROVE  /\ LastPos \in Nat /\ \A x \in exists : pos[x] <= LastPos
         /\ LET young == 1 + Max({age[x] : x \in Rule})
            IN  young \in Nat /\ \A x \in Rule : age[x] < young
  <1>1. IsFiniteSet(Rule) /\ IsFiniteSet(exists)
    BY RulesAssumption, FS_Union, FS_Subset DEF Rule, Dated
  <1> DEFINE P == {pos[x] : x \in exists} \union {0}
             A == {age[x] : x \in Rule}
  <1>2. IsFiniteSet(P) /\ P \subseteq Nat /\ P # {}
    <2> DEFINE Q == {pos[x] : x \in exists}
    <2>1. IsFiniteSet(Q) /\ Q \subseteq Nat
      BY <1>1, FiniteValues DEF Dated
    <2>2. P = Q \union {0}
      OBVIOUS
    <2> HIDE DEF P, Q
    <2> QED
      BY <2>1, <2>2, FS_AddElement
  <1>3. IsFiniteSet(A) /\ A \subseteq Nat /\ A # {}
    BY <1>1, FiniteValues DEF Dated
  <1>4. /\ Max(P) \in P /\ \A y \in P : Max(P) >= y
        /\ Max(A) \in A /\ \A y \in A : Max(A) >= y
    BY <1>2, <1>3, MaxIs
  <1>5. \A x \in exists : pos[x] \in P
    OBVIOUS
  <1>6. \A x \in Rule : age[x] \in A
    OBVIOUS
  <1>7. LastPos = Max(P)
    BY DEF LastPos
  <1> DEFINE p == Max(P)  a == Max(A)
  <1>8. /\ p \in Nat /\ \A x \in exists : pos[x] <= p
        /\ a \in Nat /\ \A x \in Rule : age[x] <= a
    <2> HIDE DEF P, A
    <2> QED BY <1>2, <1>3, <1>4, <1>5, <1>6
  <1> HIDE DEF p
  <1>9. 1 + a \in Nat /\ \A x \in Rule : age[x] < 1 + a
    <2> HIDE DEF a
    <2> QED BY <1>8 DEF Dated
  <1> QED
    BY <1>7, <1>8, <1>9 DEF p

(* What a move that is writing relies on, with the order it writes: each   *)
(* row it has come to has its place; none that it has yet to come to is    *)
(* passed by one that belongs before it, but for the pair; and rows that   *)
(* are made meanwhile, or are being made, are behind all of them.          *)
Ready(m) ==
  LET o == work[m].order
      k == work[m].next
      L == DOMAIN o \intersect exists
  IN /\ \A x \in L : o[x] < k => pos[x] = o[x]
     /\ \A x, y \in L : o[x] < o[y] /\ {x, y} # work[m].pair =>
          /\ k <= o[y] => o[x] < pos[y]
          /\ k <= o[x] => Before(x, y)
     /\ \A x \in L : o[x] <= pos[x] + 1
     /\ \A x \in L, c \in exists \ L :
          o[x] <= pos[c] /\ pos[x] <= pos[c] /\ age[x] < age[c]
     /\ \A x \in L, c \in Create : step[c] = "insert" =>
          o[x] <= last[c].pos /\ pos[x] <= last[c].pos

(* An order is a numbering of some rules.                                  *)
Numbering(o) ==
  /\ DOMAIN o \subseteq Rule /\ o \in [DOMAIN o -> Nat]
  /\ \A x, y \in DOMAIN o : o[x] = o[y] => x = y

(* A rule that is not made yet is known to nobody.                         *)
Unmade(c) ==
  /\ c \notin exists
  /\ \A d \in Create : c \notin last[d].knew
  /\ \A m \in Move : step[m] = "write" => c \notin DOMAIN work[m].order

OrderTypes ==
  /\ Dated /\ DOMAIN step = Request /\ DOMAIN work = Move
  /\ last \in [Create -> [pos : Nat, knew : SUBSET Rule]]
  /\ \A m \in Move : step[m] = "write" => Numbering(work[m].order) /\ work[m].next \in Nat
  /\ \A c \in Create : step[c] \in {"off", "insert"} => Unmade(c)

(* When the move that began last has found the rules numbered, no other is *)
(* writing, and a rule that is being made comes behind those it knew of.   *)
Tidy ==
  /\ \A m, n \in Move : step[m] = "write" /\ step[n] = "write" => m = n
  /\ \A m \in Move : step[m] = "write" => Ready(m)
  /\ \A c \in Create : step[c] = "insert" =>
       \A x \in last[c].knew \intersect exists : pos[x] <= last[c].pos

OrderInv == OrderTypes /\ (tidy => Tidy)

(* ORDER BY pos, created_at puts rows that exist one after the other.      *)
LEMMA BeforeOrders ==
  ASSUME Dated
  PROVE  /\ \A x, y \in exists : x # y => Before(x, y) \/ Before(y, x)
         /\ \A x, y \in Rule : ~(Before(x, y) /\ Before(y, x))
         /\ \A x, y, z \in Rule : Before(x, y) /\ Before(y, z) => Before(x, z)
  <1>1. /\ \A x \in Rule : pos[x] \in Nat /\ age[x] \in Nat
        /\ exists \subseteq Rule
        /\ \A x, y \in exists : age[x] = age[y] => x = y
    BY DEF Dated
  <1> QED
    BY <1>1 DEF Before

(* Who comes before another has a lower place, so the places tell them     *)
(* apart.                                                                  *)
LEMMA RankOrders ==
  ASSUME Dated
  PROVE  /\ \A x \in exists : Rank(x, exists) \in Nat \ {0}
         /\ \A x, y \in exists :
              /\ Before(x, y) => Rank(x, exists) < Rank(y, exists)
              /\ Rank(x, exists) < Rank(y, exists) => Before(x, y)
              /\ Rank(x, exists) = Rank(y, exists) => x = y
  <1>1. IsFiniteSet(exists) /\ exists \subseteq Rule
    BY RulesAssumption, FS_Union, FS_Subset DEF Rule, Dated
  <1> DEFINE Earlier(x) == {y \in exists : Before(y, x)}
  <1>2. ASSUME NEW x \in exists
        PROVE  IsFiniteSet(Earlier(x)) /\ Cardinality(Earlier(x)) \in Nat
    BY <1>1, FS_Subset, FS_CardinalityType
  <1>3. \A x \in exists : Rank(x, exists) = 1 + Cardinality(Earlier(x))
    BY DEF Rank
  <1>4. ASSUME NEW x \in exists, NEW y \in exists, Before(x, y)
        PROVE  Cardinality(Earlier(x)) < Cardinality(Earlier(y))
    <2>1. Earlier(x) \subseteq Earlier(y) /\ x \in Earlier(y) /\ x \notin Earlier(x)
      BY <1>1, <1>4, BeforeOrders
    <2> HIDE DEF Earlier
    <2>2. Earlier(x) \in SUBSET Earlier(y) /\ Earlier(x) # Earlier(y)
      BY <2>1
    <2>3. /\ Cardinality(Earlier(x)) <= Cardinality(Earlier(y))
          /\ Cardinality(Earlier(y)) # Cardinality(Earlier(x))
      BY <1>2, <2>2, FS_Subset
    <2> QED
      BY <1>2, <2>3
  <1> HIDE DEF Earlier
  <1>5. \A x, y \in exists : Before(x, y) => Rank(x, exists) < Rank(y, exists)
    BY <1>2, <1>3, <1>4
  <1>6. \A x \in exists : Rank(x, exists) \in Nat \ {0}
    BY <1>2, <1>3
  <1>7. \A x, y \in exists : x # y => Before(x, y) \/ Before(y, x)
    BY BeforeOrders
  <1>8. ASSUME NEW x \in exists, NEW y \in exists
        PROVE  /\ Rank(x, exists) < Rank(y, exists) => Before(x, y)
               /\ Rank(x, exists) = Rank(y, exists) => x = y
    <2>1. x # y => Before(x, y) \/ Before(y, x)
      BY <1>7
    <2>2. Before(y, x) => Rank(y, exists) < Rank(x, exists)
      BY <1>5
    <2>3. Before(x, y) => Rank(x, exists) < Rank(y, exists)
      BY <1>5
    <2> QED
      BY <1>6, <2>1, <2>2, <2>3
  <1> QED
    BY <1>5, <1>6, <1>8

(* The steps of everybody else: rows may go, but those that stay keep      *)
(* their positions.                                                        *)
LEMMA OthersKeepOrder ==
  ASSUME OrderInv, exists' \subseteq exists, pos' \in [Rule -> Nat],
         \A x \in exists' : pos'[x] = pos[x],
         UNCHANGED <<age, last, work, tidy>>, DOMAIN step' = Request,
         \A r \in Create \union Move : step'[r] = step[r]
  PROVE  OrderInv'
  <1>1. OrderTypes'
    BY DEF OrderInv, OrderTypes, Dated, Unmade, Numbering
  <1>2. ASSUME tidy' PROVE Tidy'
    <2>1. Tidy
      BY <1>2 DEF OrderInv
    <2>2. ASSUME NEW m \in Move, step'[m] = "write" PROVE Ready(m)'
      <3>1. Ready(m)
        BY <2>1, <2>2 DEF Tidy
      <3>2. \A x, y \in exists' : Before(x, y)' <=> Before(x, y)
        BY DEF Before
      <3> QED
        BY <3>1, <3>2 DEF Ready
    <2> QED
      BY <2>1, <2>2 DEF Tidy
  <1> QED
    BY <1>1, <1>2 DEF OrderInv

(* A rule that is asked for gets a position behind all, also behind the    *)
(* places a move has yet to give.                                          *)
LEMMA BeginCreateKeepsOrder ==
  ASSUME OrderInv, NEW c \in Create, BeginCreate(c)
  PROVE  OrderInv'
  <1>1. /\ step[c] = "off"
        /\ step' = [step EXCEPT ![c] = "insert"]
        /\ last' = [last EXCEPT ![c] = [pos |-> LastPos + 1, knew |-> exists]]
        /\ UNCHANGED <<exists, pos, age, work, tidy>>
    BY DEF BeginCreate, Go, table
  <1>2. /\ Dated /\ DOMAIN step = Request /\ DOMAIN work = Move
        /\ last \in [Create -> [pos : Nat, knew : SUBSET Rule]]
        /\ \A m \in Move : step[m] = "write" =>
             Numbering(work[m].order) /\ work[m].next \in Nat
        /\ \A d \in Create : step[d] \in {"off", "insert"} => Unmade(d)
    BY DEF OrderInv, OrderTypes
  <1>3. LastPos \in Nat /\ \A x \in exists : pos[x] <= LastPos
    BY <1>2, LastIsLast DEF Rule
  <1>4. /\ c \in Request /\ \A m \in Move : m # c /\ m \in Request
        /\ exists \subseteq Rule
    BY <1>2, RulesAssumption DEF Request, Dated
  <1>5. /\ step'[c] = "insert" /\ \A r \in Request \ {c} : step'[r] = step[r]
        /\ last'[c].pos = LastPos + 1 /\ last'[c].knew = exists
        /\ \A d \in Create \ {c} : last'[d] = last[d]
    BY <1>1, <1>2, <1>4
  <1>6. OrderTypes'
    <2>1. last' \in [Create -> [pos : Nat, knew : SUBSET Rule]]
      BY <1>1, <1>2, <1>3, <1>4
    <2>2. Dated'
      BY <1>1, <1>2 DEF Dated
    <2>3. ASSUME NEW d \in Create, step'[d] \in {"off", "insert"}
          PROVE  Unmade(d)'
      <3>1. Unmade(d)
        BY <1>1, <1>2, <1>5, <2>3 DEF Request
      <3> QED
        BY <1>1, <1>4, <1>5, <3>1 DEF Unmade
    <2>4. \A m \in Move : step'[m] = "write" =>
             Numbering(work[m].order)' /\ work'[m].next \in Nat
      BY <1>1, <1>2, <1>4, <1>5 DEF Numbering
    <2> QED
      BY <1>1, <1>2, <2>1, <2>2, <2>3, <2>4 DEF OrderTypes
  <1>7. ASSUME tidy' PROVE Tidy'
    <2>1. Tidy
      BY <1>1, <1>7 DEF OrderInv
    <2>2. ASSUME NEW m \in Move, step'[m] = "write" PROVE Ready(m)'
      <3>1. Ready(m) /\ Numbering(work[m].order)
        BY <1>2, <1>4, <1>5, <2>1, <2>2 DEF Tidy
      <3>2. \A x, y \in exists : Before(x, y)' <=> Before(x, y)
        BY <1>1 DEF Before
      <3> DEFINE o == work[m].order
                 L == DOMAIN o \intersect exists
      <3>3. ASSUME NEW x \in L, NEW d \in Create, step'[d] = "insert"
            PROVE  o[x] <= last'[d].pos /\ pos[x] <= last'[d].pos
        <4>1. CASE d = c
          <5>1. o[x] \in Nat /\ pos[x] \in Nat /\ o[x] <= pos[x] + 1 /\ pos[x] <= LastPos
            BY <1>2, <1>3, <3>1 DEF Ready, Numbering, Dated
          <5> QED
            BY <1>3, <1>5, <4>1, <5>1
        <4>2. CASE d # c
          BY <1>5, <3>1, <3>3, <4>2 DEF Ready, Request
        <4> QED
          BY <4>1, <4>2
      <3> QED
        BY <1>1, <3>1, <3>2, <3>3 DEF Ready
    <2>3. ASSUME NEW d \in Create, step'[d] = "insert",
                 NEW x \in last'[d].knew \intersect exists'
          PROVE  pos'[x] <= last'[d].pos
      <3>1. CASE d = c
        <4>1. pos[x] \in Nat /\ pos[x] <= LastPos
          BY <1>1, <1>2, <1>3, <2>3 DEF Dated
        <4> QED
          BY <1>1, <1>3, <1>5, <3>1, <4>1
      <3>2. CASE d # c
        BY <1>1, <1>5, <2>1, <2>3, <3>2 DEF Tidy, Request
      <3> QED
        BY <3>1, <3>2
    <2>4. \A m, n \in Move : step'[m] = "write" /\ step'[n] = "write" => m = n
      BY <1>4, <1>5, <2>1 DEF Tidy
    <2> QED
      BY <2>2, <2>3, <2>4 DEF Tidy
  <1> QED
    BY <1>6, <1>7 DEF OrderInv

(* A new rule is the youngest; it gets its position, and the others keep   *)
(* theirs.                                                                 *)
LEMMA InsertKeepsOrder ==
  ASSUME OrderInv, NEW c \in Create, Insert(c)
  PROVE  /\ OrderInv'
         /\ c \notin exists /\ exists' = exists \union {c}
         /\ \A x, y \in exists : Before(x, y)' <=> Before(x, y)
         /\ tidy => \A x \in last[c].knew \intersect exists : Before(x, c)'
  <1> DEFINE young == 1 + Max({age[x] : x \in Rule})
  <1>1. /\ step[c] = "insert"
        /\ step' = [step EXCEPT ![c] = "over"]
        /\ exists' = exists \union {c}
        /\ pos' = [pos EXCEPT ![c] = last[c].pos]
        /\ age' = [age EXCEPT ![c] = young]
        /\ last' = [last EXCEPT ![c] = NoLast]
        /\ UNCHANGED <<work, tidy>>
    BY DEF Insert, Go
  <1>2. /\ Dated /\ DOMAIN step = Request /\ DOMAIN work = Move
        /\ last \in [Create -> [pos : Nat, knew : SUBSET Rule]]
        /\ \A m \in Move : step[m] = "write" =>
             Numbering(work[m].order) /\ work[m].next \in Nat
        /\ \A d \in Create : step[d] \in {"off", "insert"} => Unmade(d)
    BY DEF OrderInv, OrderTypes
  <1>3. young \in Nat /\ \A x \in Rule : age[x] < young
    BY <1>2, LastIsLast DEF Rule
  <1> HIDE DEF young
  <1>4. /\ c \in Request /\ c \in Rule /\ \A m \in Move : m # c /\ m \in Request
        /\ exists \subseteq Rule /\ c \notin exists
    BY <1>1, <1>2, RulesAssumption DEF Request, Rule, Dated, Unmade
  <1>5. /\ step'[c] = "over" /\ \A r \in Request \ {c} : step'[r] = step[r]
        /\ \A d \in Create \ {c} : last'[d] = last[d]
        /\ last'[c].knew = {} /\ last'[c].pos = 0
    BY <1>1, <1>2, <1>4 DEF NoLast
  <1>6. /\ pos \in [Rule -> Nat] /\ age \in [Rule -> Nat] /\ last[c].pos \in Nat
        /\ pos' \in [Rule -> Nat] /\ age' \in [Rule -> Nat]
        /\ \A x \in exists : pos'[x] = pos[x] /\ age'[x] = age[x]
        /\ pos'[c] = last[c].pos /\ age'[c] = young
    BY <1>1, <1>2, <1>3, <1>4 DEF Dated
  <1>7. \A x, y \in exists : Before(x, y)' <=> Before(x, y)
    BY <1>6 DEF Before
  <1>8. OrderTypes'
    <2>1. last' \in [Create -> [pos : Nat, knew : SUBSET Rule]]
      BY <1>1, <1>2 DEF NoLast
    <2>2. Dated'
      <3>1. \A x, y \in exists' : age'[x] = age'[y] => x = y
        BY <1>1, <1>2, <1>3, <1>4, <1>6 DEF Dated
      <3> QED
        BY <1>1, <1>4, <1>6, <3>1 DEF Dated
    <2>3. ASSUME NEW d \in Create, step'[d] \in {"off", "insert"}
          PROVE  Unmade(d)'
      <3>1. Unmade(d) /\ d # c
        BY <1>1, <1>2, <1>5, <2>3 DEF Request
      <3> QED
        BY <1>1, <1>4, <1>5, <3>1 DEF Unmade
    <2>4. \A m \in Move : step'[m] = "write" =>
             Numbering(work[m].order)' /\ work'[m].next \in Nat
      BY <1>1, <1>2, <1>4, <1>5 DEF Numbering
    <2> QED
      BY <1>1, <1>2, <2>1, <2>2, <2>3, <2>4 DEF OrderTypes
  <1>9. ASSUME tidy' PROVE Tidy'
    <2>1. Tidy
      BY <1>1, <1>9 DEF OrderInv
    <2>2. ASSUME NEW m \in Move, step'[m] = "write" PROVE Ready(m)'
      <3>1. Ready(m) /\ Numbering(work[m].order) /\ c \notin DOMAIN work[m].order
        BY <1>1, <1>2, <1>4, <1>5, <2>1, <2>2 DEF Tidy, Unmade
      <3> DEFINE o == work[m].order
                 L == DOMAIN o \intersect exists
      <3>2. DOMAIN o \intersect exists' = L /\ L \subseteq exists
        BY <1>1, <3>1
      <3>3. ASSUME NEW x \in L, NEW d \in exists' \ L
            PROVE  o[x] <= pos'[d] /\ pos[x] <= pos'[d] /\ age'[x] < age'[d]
        <4>1. CASE d = c
          BY <1>1, <1>3, <1>4, <1>6, <3>1, <4>1 DEF Ready
        <4>2. CASE d # c
          BY <1>1, <1>6, <3>1, <3>3, <4>2 DEF Ready
        <4> QED
          BY <4>1, <4>2
      <3>4. ASSUME NEW x \in L, NEW d \in Create, step'[d] = "insert"
            PROVE  o[x] <= last'[d].pos /\ pos[x] <= last'[d].pos
        BY <1>5, <3>1, <3>4 DEF Ready, Request
      <3>5. /\ work'[m] = work[m]
            /\ \A x \in L : pos'[x] = pos[x] /\ age'[x] = age[x]
            /\ \A x, y \in L : Before(x, y)' <=> Before(x, y)
        BY <1>1, <1>6, <1>7, <3>2
      <3> QED
        BY <3>1, <3>2, <3>3, <3>4, <3>5 DEF Ready
    <2>3. ASSUME NEW d \in Create, step'[d] = "insert",
                 NEW x \in last'[d].knew \intersect exists'
          PROVE  pos'[x] <= last'[d].pos
      <3>1. d # c /\ step[d] = "insert" /\ last'[d] = last[d]
        BY <1>5, <2>3 DEF Request
      <3>2. x \in exists
        BY <1>1, <1>2, <2>3, <3>1 DEF Unmade
      <3> QED
        BY <1>6, <2>1, <2>3, <3>1, <3>2 DEF Tidy
    <2>4. \A m, n \in Move : step'[m] = "write" /\ step'[n] = "write" => m = n
      BY <1>4, <1>5, <2>1 DEF Tidy
    <2> QED
      BY <2>2, <2>3, <2>4 DEF Tidy
  <1>10. ASSUME tidy, NEW x \in last[c].knew \intersect exists
         PROVE  Before(x, c)'
    <2>1. pos[x] <= last[c].pos
      BY <1>1, <1>10 DEF OrderInv, Tidy
    <2>2. age[x] < young
      BY <1>3, <1>4
    <2> QED
      BY <1>4, <1>6, <2>1, <2>2 DEF Before
  <1> QED
    BY <1>1, <1>4, <1>7, <1>8, <1>9, <1>10 DEF OrderInv

(* Two neighbours in the order change places: nobody else does, and when   *)
(* the rules were numbered, who comes before another in the new order will *)
(* have a number below the position the other has now.                     *)
LEMMA SwappedOrder ==
  ASSUME Dated, NEW x \in exists, NEW y \in exists,
         Rank(y, exists) = Rank(x, exists) + 1,
         NEW o, o = [z \in exists |-> IF z = x THEN Rank(y, exists)
                                     ELSE IF z = y THEN Rank(x, exists)
                                     ELSE Rank(z, exists)]
  PROVE  /\ Numbering(o)
         /\ \A a, b \in exists : o[a] < o[b] /\ {a, b} # {x, y} =>
              Before(a, b) /\ (Rank(b, exists) <= pos[b] => o[a] < pos[b])
         /\ \A a \in exists : 0 < o[a] /\ o[a] <= Rank(a, exists) + 1
  <1> DEFINE r == [z \in exists |-> Rank(z, exists)]
  <1>1. /\ \A z \in exists : r[z] \in Nat \ {0} /\ r[z] = Rank(z, exists)
        /\ \A a, b \in exists : /\ r[a] < r[b] => Before(a, b)
                                /\ r[a] = r[b] => a = b
    BY RankOrders
  <1>2. /\ DOMAIN o = exists /\ r[y] = r[x] + 1
        /\ \A z \in exists : o[z] = IF z = x THEN r[y] ELSE IF z = y THEN r[x] ELSE r[z]
    OBVIOUS
  <1> HIDE DEF r
  <1>3. x # y
    BY <1>1, <1>2
  <1>4. Numbering(o)
    <2>1. \A a, b \in exists : o[a] = o[b] => a = b
      BY <1>1, <1>2
    <2>2. \A a \in exists : o[a] \in Nat
      BY <1>1, <1>2
    <2> QED
      BY <1>2, <2>1, <2>2 DEF Numbering, Dated
  <1>5. ASSUME NEW a \in exists PROVE 0 < o[a] /\ o[a] <= r[a] + 1
    BY <1>1, <1>2
  <1>6. ASSUME NEW a \in exists, NEW b \in exists, o[a] < o[b], {a, b} # {x, y}
        PROVE  r[a] < r[b] /\ o[a] < r[b]
    <2>1. ~(a = x /\ b = y) /\ ~(a = y /\ b = x) /\ a # b
      BY <1>1, <1>2, <1>6
    <2>2. /\ r[a] \in Nat /\ r[b] \in Nat /\ r[x] \in Nat /\ r[y] \in Nat
          /\ a # x => r[a] # r[x]
          /\ a # y => r[a] # r[y]
          /\ b # x => r[b] # r[x]
          /\ b # y => r[b] # r[y]
      BY <1>1
    <2>3. /\ o[a] = IF a = x THEN r[y] ELSE IF a = y THEN r[x] ELSE r[a]
          /\ o[b] = IF b = x THEN r[y] ELSE IF b = y THEN r[x] ELSE r[b]
      BY <1>2
    <2>4. CASE a = x
      BY <1>2, <1>3, <1>6, <2>1, <2>2, <2>3, <2>4
    <2>5. CASE a = y
      BY <1>2, <1>3, <1>6, <2>1, <2>2, <2>3, <2>5
    <2>6. CASE a # x /\ a # y
      BY <1>2, <1>3, <1>6, <2>1, <2>2, <2>3, <2>6
    <2> QED
      BY <2>4, <2>5, <2>6
  <1>7. ASSUME NEW a \in exists, NEW b \in exists, o[a] < o[b], {a, b} # {x, y},
               Rank(b, exists) <= pos[b]
        PROVE  o[a] < pos[b]
    <2>1. o[a] \in Nat /\ pos[b] \in Nat /\ r[b] \in Nat /\ r[b] = Rank(b, exists)
      BY <1>1, <1>2, <1>4 DEF Numbering, Dated
    <2> QED
      BY <1>6, <1>7, <2>1
  <1> QED
    BY <1>1, <1>4, <1>5, <1>6, <1>7

(* A move begins with the order it found, but for the two that change      *)
(* places.                                                                 *)
LEMMA BeginMoveOrder ==
  ASSUME OrderInv, NEW m \in Move, NEW x \in Rule, NEW down \in BOOLEAN,
         BeginMove(m, x, down)
  PROVE  LET o == work'[m].order
             p == work'[m].pair
         IN /\ Numbering(o) /\ DOMAIN o = exists /\ work'[m].next = 1
            /\ \A a, b \in exists : o[a] < o[b] /\ {a, b} # p =>
                 Before(a, b) /\ (Rank(b, exists) <= pos[b] => o[a] < pos[b])
            /\ \A a \in exists : o[a] \in Nat \ {0} /\ o[a] <= Rank(a, exists) + 1
  <1>1. Dated /\ DOMAIN work = Move
    BY DEF OrderInv, OrderTypes
  <1> DEFINE r == [z \in exists |-> Rank(z, exists)]
  <1>2. PICK y \in {z \in exists : r[z] = r[x] + IF down THEN 1 ELSE -1} :
          work' = [work EXCEPT ![m] = [order |-> [r EXCEPT ![x] = r[y], ![y] = r[x]],
                                       pair |-> {x, y}, next |-> 1]]
    BY DEF BeginMove, Listed
  <1>3. x \in exists /\ y \in exists
    BY DEF BeginMove, Listed
  <1> DEFINE o == [r EXCEPT ![x] = r[y], ![y] = r[x]]
             low == IF down THEN x ELSE y
             high == IF down THEN y ELSE x
  <1>4. /\ work'[m].order = o /\ work'[m].pair = {x, y} /\ work'[m].next = 1
    BY <1>1, <1>2
  <1>5. \A z \in exists : r[z] = Rank(z, exists) /\ r[z] \in Nat
    BY <1>1, RankOrders
  <1>6. Rank(high, exists) = Rank(low, exists) + 1 /\ low \in exists /\ high \in exists
    BY <1>2, <1>3, <1>5
  <1>7. o = [z \in exists |-> IF z = low THEN Rank(high, exists)
                              ELSE IF z = high THEN Rank(low, exists)
                              ELSE Rank(z, exists)]
    BY <1>2, <1>3, <1>5
  <1>8. {x, y} = {low, high}
    OBVIOUS
  <1> HIDE DEF o, low, high
  <1>9. /\ Numbering(o)
        /\ \A a, b \in exists : o[a] < o[b] /\ {a, b} # {low, high} =>
              Before(a, b) /\ (Rank(b, exists) <= pos[b] => o[a] < pos[b])
        /\ \A a \in exists : 0 < o[a] /\ o[a] <= Rank(a, exists) + 1
    BY <1>1, <1>6, <1>7, SwappedOrder
  <1>10. DOMAIN o = exists
    BY <1>7
  <1>11. \A a \in exists : o[a] \in Nat \ {0}
    BY <1>9, <1>10 DEF Numbering
  <1> QED
    BY <1>4, <1>8, <1>9, <1>10, <1>11

(* So when it found them numbered, it is ready to write.                   *)
LEMMA BeginMoveKeepsOrder ==
  ASSUME OrderInv, NEW m \in Move, NEW x \in Rule, NEW down \in BOOLEAN,
         BeginMove(m, x, down)
  PROVE  OrderInv'
  <1>1. /\ step' = [step EXCEPT ![m] = "write"]
        /\ tidy' = Numbered
        /\ UNCHANGED <<exists, pos, age, last>>
        /\ \A n \in Move \ {m} : work'[n] = work[n]
        /\ DOMAIN work' = DOMAIN work
    BY DEF BeginMove, Go, table, OrderInv, OrderTypes
  <1>2. /\ Dated /\ DOMAIN step = Request /\ DOMAIN work = Move
        /\ last \in [Create -> [pos : Nat, knew : SUBSET Rule]]
        /\ \A n \in Move : step[n] = "write" =>
             Numbering(work[n].order) /\ work[n].next \in Nat
        /\ \A d \in Create : step[d] \in {"off", "insert"} => Unmade(d)
    BY DEF OrderInv, OrderTypes
  <1> DEFINE o == work'[m].order
  <1>3. /\ Numbering(o) /\ DOMAIN o = exists /\ work'[m].next = 1
        /\ \A a, b \in exists : o[a] < o[b] /\ {a, b} # work'[m].pair =>
             Before(a, b) /\ (Rank(b, exists) <= pos[b] => o[a] < pos[b])
        /\ \A a \in exists : o[a] \in Nat \ {0} /\ o[a] <= Rank(a, exists) + 1
    BY BeginMoveOrder
  <1>4. /\ m \in Request /\ \A c \in Create : c # m /\ c \in Request
        /\ \A n \in Move : n \in Request
    BY RulesAssumption DEF Request
  <1>5. /\ step'[m] = "write" /\ \A r \in Request \ {m} : step'[r] = step[r]
    BY <1>1, <1>2, <1>4
  <1>6. OrderTypes'
    <2>1. Dated'
      BY <1>1, <1>2 DEF Dated
    <2>2. ASSUME NEW n \in Move, step'[n] = "write"
          PROVE  Numbering(work[n].order)' /\ work'[n].next \in Nat
      <3>1. CASE n = m
        BY <1>3, <3>1 DEF Numbering
      <3>2. CASE n # m
        BY <1>1, <1>2, <1>4, <1>5, <2>2, <3>2 DEF Numbering
      <3> QED
        BY <3>1, <3>2
    <2>3. ASSUME NEW d \in Create, step'[d] \in {"off", "insert"}
          PROVE  Unmade(d)'
      <3>1. Unmade(d)
        BY <1>2, <1>4, <1>5, <2>3
      <3>2. ASSUME NEW n \in Move, step'[n] = "write"
            PROVE  d \notin DOMAIN work'[n].order
        BY <1>1, <1>3, <1>4, <1>5, <3>1, <3>2 DEF Unmade
      <3> QED
        BY <1>1, <3>1, <3>2 DEF Unmade
    <2> QED
      BY <1>1, <1>2, <2>1, <2>2, <2>3 DEF OrderTypes
  <1>7. ASSUME tidy' PROVE Tidy'
    <2>1. Numbered
      BY <1>1, <1>7
    <2>2. ASSUME NEW n \in Move, step'[n] = "write" PROVE n = m
      BY <1>4, <1>5, <2>1, <2>2 DEF Numbered
    <2>3. \A a, b \in exists : Before(a, b)' <=> Before(a, b)
      BY <1>1 DEF Before
    <2>4. /\ LastPos \in Nat
          /\ \A a \in exists :
               /\ pos[a] \in Nat /\ pos[a] <= LastPos /\ Rank(a, exists) \in Nat
               /\ Rank(a, exists) <= pos[a]
      BY <1>2, <1>3, <2>1, LastIsLast, RankOrders DEF Dated, Numbered
    <2>5. \A a, b \in exists : o[a] < o[b] /\ {a, b} # work'[m].pair =>
             Before(a, b)' /\ o[a] < pos[b]
      BY <1>3, <2>3, <2>4
    <2>6. \A a \in exists : o[a] \in Nat /\ o[a] <= pos[a] + 1
      <3>1. ASSUME NEW a \in exists PROVE o[a] <= pos[a] + 1
        BY <1>3, <2>4
      <3> QED
        BY <1>3, <3>1
    <2>7. ASSUME NEW a \in exists, NEW c \in Create, step[c] = "insert"
          PROVE  o[a] <= last[c].pos /\ pos[a] <= last[c].pos
      <3>1. LastPos < last[c].pos /\ last[c].pos \in Nat
        BY <1>2, <2>1, <2>7 DEF Numbered
      <3>2. o[a] <= LastPos + 1
        BY <2>4, <2>6
      <3> QED
        BY <2>4, <2>6, <3>1, <3>2
    <2>8. \A a \in exists : ~(o[a] < 1) \/ pos[a] = o[a]
      BY <1>3
    <2>9. Ready(m)'
      BY <1>1, <1>3, <1>4, <1>5, <2>5, <2>6, <2>7, <2>8 DEF Ready
    <2>10. \A c \in Create : step'[c] = "insert" =>
             \A a \in last'[c].knew \intersect exists' : pos'[a] <= last'[c].pos
      BY <1>1, <1>4, <1>5, <2>7
    <2> QED
      BY <2>2, <2>9, <2>10 DEF Tidy
  <1> QED
    BY <1>6, <1>7 DEF OrderInv

(* The next row gets its place: the two of the pair aside, nobody passes   *)
(* it.                                                                     *)
LEMMA WritePosKeepsOrder ==
  ASSUME OrderInv, NEW m \in Move, WritePos(m)
  PROVE  /\ OrderInv'
         /\ exists' = exists /\ step[m] = "write"
         /\ tidy => \A a, b \in exists : {a, b} # work[m].pair =>
                      ~(Before(a, b) /\ Before(b, a)')
  <1> DEFINE w == work[m]
             o == w.order
             k == w.next
             end == k = Cardinality(DOMAIN o)
             L == DOMAIN o \intersect exists
  <1>1. /\ step[m] = "write"
        /\ UNCHANGED <<exists, age, last, tidy>>
        /\ step' = [step EXCEPT ![m] = IF end THEN "over" ELSE "write"]
        /\ work' = [work EXCEPT ![m] = IF end THEN NoWork ELSE [w EXCEPT !.next = @ + 1]]
    BY DEF WritePos, Go
  <1>2. PICK x \in DOMAIN o :
          o[x] = k /\ pos' = IF x \in exists THEN [pos EXCEPT ![x] = k] ELSE pos
    BY DEF WritePos
  <1>3. /\ Dated /\ DOMAIN step = Request /\ DOMAIN work = Move
        /\ last \in [Create -> [pos : Nat, knew : SUBSET Rule]]
        /\ \A n \in Move : step[n] = "write" =>
             Numbering(work[n].order) /\ work[n].next \in Nat
        /\ \A d \in Create : step[d] \in {"off", "insert"} => Unmade(d)
    BY DEF OrderInv, OrderTypes
  <1>4. /\ Numbering(o) /\ k \in Nat /\ DOMAIN o \subseteq Rule
        /\ \A a \in DOMAIN o : o[a] \in Nat
        /\ \A a \in DOMAIN o : o[a] = k => a = x
    BY <1>1, <1>2, <1>3 DEF Numbering
  <1>5. /\ m \in Request /\ \A c \in Create : c # m /\ c \in Request
        /\ \A n \in Move : n \in Request /\ exists \subseteq Rule
    BY <1>3, RulesAssumption DEF Request, Dated
  <1>6. /\ \A r \in Request \ {m} : step'[r] = step[r]
        /\ step'[m] \in {"over", "write"}
        /\ \A n \in Move \ {m} : work'[n] = work[n]
        /\ step'[m] = "write" => /\ work'[m].order = o /\ work'[m].next = k + 1
                                 /\ work'[m].pair = w.pair
    BY <1>1, <1>3, <1>5
  <1> HIDE DEF end
  <1>7. /\ pos \in [Rule -> Nat] /\ age \in [Rule -> Nat] /\ pos' \in [Rule -> Nat]
        /\ \A a \in exists : pos'[a] = IF a = x THEN k ELSE pos[a]
    BY <1>2, <1>3, <1>4, <1>5 DEF Dated
  <1>8. OrderTypes'
    <2>1. Dated'
      BY <1>1, <1>3, <1>7 DEF Dated
    <2>2. ASSUME NEW n \in Move, step'[n] = "write"
          PROVE  Numbering(work[n].order)' /\ work'[n].next \in Nat
      <3>1. CASE n = m
        BY <1>4, <1>6, <2>2, <3>1 DEF Numbering
      <3>2. CASE n # m
        BY <1>3, <1>5, <1>6, <2>2, <3>2 DEF Numbering
      <3> QED
        BY <3>1, <3>2
    <2>3. ASSUME NEW d \in Create, step'[d] \in {"off", "insert"}
          PROVE  Unmade(d)'
      <3>1. Unmade(d)
        BY <1>3, <1>5, <1>6, <2>3
      <3>2. ASSUME NEW n \in Move, step'[n] = "write"
            PROVE  d \notin DOMAIN work'[n].order
        BY <1>1, <1>5, <1>6, <3>1, <3>2 DEF Unmade
      <3> QED
        BY <1>1, <3>1, <3>2 DEF Unmade
    <2>4. DOMAIN step' = Request /\ DOMAIN work' = Move
      BY <1>1, <1>3
    <2> QED
      BY <1>1, <1>3, <2>1, <2>2, <2>3, <2>4 DEF OrderTypes
  <1>9. ASSUME tidy
        PROVE  \A a, b \in exists : {a, b} # w.pair => ~(Before(a, b) /\ Before(b, a)')
    <2>1. Ready(m)
      BY <1>1, <1>9 DEF OrderInv, Tidy
    <2>2. ASSUME NEW b \in exists, {x, b} # w.pair, x \in exists, b # x
          PROVE  (Before(b, x) /\ Before(b, x)') \/ (Before(x, b) /\ Before(x, b)')
      <3>1. /\ pos[b] \in Nat /\ age[b] \in Nat /\ age[x] \in Nat /\ pos[x] \in Nat
            /\ pos'[b] = pos[b] /\ pos'[x] = k /\ age' = age
        BY <1>1, <1>5, <1>7, <2>2
      <3>2. CASE b \in L /\ o[b] < k
        <4>1. pos[b] = o[b] /\ o[b] < pos[x]
          BY <1>2, <1>4, <2>1, <2>2, <3>2 DEF Ready
        <4> QED
          BY <1>2, <1>4, <3>1, <3>2, <4>1 DEF Before
      <3>3. CASE b \in L /\ k < o[b]
        <4>1. k < pos[b] /\ Before(x, b)
          BY <1>2, <1>4, <2>1, <2>2, <3>3 DEF Ready
        <4> QED
          BY <3>1, <4>1 DEF Before
      <3>4. CASE b \notin L
        <4>1. k <= pos[b] /\ pos[x] <= pos[b] /\ age[x] < age[b]
          BY <1>2, <2>1, <2>2, <3>4 DEF Ready
        <4> QED
          BY <1>4, <3>1, <4>1 DEF Before
      <3> QED
        BY <1>4, <2>2, <3>2, <3>3, <3>4
    <2>3. \A a, b \in Rule : ~(Before(a, b) /\ Before(b, a))
      BY <1>3, BeforeOrders
    <2>4. \A a, b \in Rule : ~(Before(a, b)' /\ Before(b, a)')
      BY <1>1, <1>7 DEF Before
    <2>5. \A a, b \in exists : a # x /\ b # x => (Before(a, b)' <=> Before(a, b))
      BY <1>1, <1>7 DEF Before
    <2>6. \A a \in exists : ~Before(a, a)
      BY <1>5, <2>3
    <2> QED
      BY <1>5, <2>2, <2>3, <2>4, <2>5, <2>6
  <1>10. ASSUME tidy' PROVE Tidy'
    <2>1. Tidy /\ Ready(m)
      BY <1>1, <1>10 DEF OrderInv, Tidy
    <2>2. ASSUME NEW n \in Move, step'[n] = "write" PROVE n = m
      BY <1>1, <1>5, <1>6, <2>1, <2>2 DEF Tidy
    <2>3. ASSUME step'[m] = "write" PROVE Ready(m)'
      <3>1. work'[m].order = o /\ work'[m].next = k + 1 /\ work'[m].pair = w.pair
        BY <1>6, <2>3
      <3>2. /\ \A a \in L : o[a] < k => pos[a] = o[a]
            /\ \A a, b \in L : o[a] < o[b] /\ {a, b} # w.pair =>
                 /\ k <= o[b] => o[a] < pos[b]
                 /\ k <= o[a] => Before(a, b)
            /\ \A a \in L : o[a] <= pos[a] + 1
            /\ \A a \in L, c \in exists \ L :
                 o[a] <= pos[c] /\ pos[a] <= pos[c] /\ age[a] < age[c]
            /\ \A a \in L, c \in Create : step[c] = "insert" =>
                 o[a] <= last[c].pos /\ pos[a] <= last[c].pos
        BY <2>1 DEF Ready
      <3>3. /\ k \in Nat
            /\ \A a \in L : /\ o[a] \in Nat /\ pos[a] \in Nat
                            /\ a = x => o[a] = k /\ pos'[a] = k
                            /\ a # x => o[a] # k /\ pos'[a] = pos[a]
        BY <1>2, <1>4, <1>5, <1>7
      <3>4. \A c \in exists \ L : pos'[c] = pos[c]
        BY <1>2, <1>7
      <3> DEFINE pair == w.pair
      <3> SUFFICES
            /\ \A a \in L : o[a] < k + 1 => pos'[a] = o[a]
            /\ \A a, b \in L : o[a] < o[b] /\ {a, b} # pair =>
                 /\ k + 1 <= o[b] => o[a] < pos'[b]
                 /\ k + 1 <= o[a] => Before(a, b)'
            /\ \A a \in L : o[a] <= pos'[a] + 1
            /\ \A a \in L, c \in exists \ L :
                 o[a] <= pos'[c] /\ pos'[a] <= pos'[c] /\ age'[a] < age'[c]
            /\ \A a \in L, c \in Create : step'[c] = "insert" =>
                 o[a] <= last'[c].pos /\ pos'[a] <= last'[c].pos
        BY <1>1, <3>1 DEF Ready
      <3> HIDE DEF L, o, k, w, pair
      <3>5. ASSUME NEW a \in L, o[a] < k + 1 PROVE pos'[a] = o[a]
        BY <3>2, <3>3, <3>5
      <3>6. ASSUME NEW a \in L, NEW b \in L, o[a] < o[b], {a, b} # pair,
                   k + 1 <= o[b]
            PROVE  o[a] < pos'[b]
        BY <3>2, <3>3, <3>6 DEF pair
      <3>7. ASSUME NEW a \in L, NEW b \in L, o[a] < o[b], {a, b} # pair,
                   k + 1 <= o[a]
            PROVE  Before(a, b)'
        <4>1. Before(a, b) /\ a # x /\ b # x
          BY <3>2, <3>3, <3>7 DEF pair
        <4> QED
          BY <1>1, <3>3, <4>1 DEF Before
      <3>8. ASSUME NEW a \in L PROVE o[a] <= pos'[a] + 1
        BY <3>2, <3>3
      <3>9. ASSUME NEW a \in L, NEW c \in exists \ L
            PROVE  o[a] <= pos'[c] /\ pos'[a] <= pos'[c] /\ age'[a] < age'[c]
        BY <1>1, <3>2, <3>3, <3>4
      <3>10. ASSUME NEW a \in L, NEW c \in Create, step'[c] = "insert"
             PROVE  o[a] <= last'[c].pos /\ pos'[a] <= last'[c].pos
        <4>1. step[c] = "insert"
          BY <1>5, <1>6, <3>10
        <4> QED
          BY <1>1, <3>2, <3>3, <4>1
      <3> QED
        BY <3>5, <3>6, <3>7, <3>8, <3>9, <3>10
    <2>4. ASSUME NEW c \in Create, step'[c] = "insert",
                 NEW a \in last'[c].knew \intersect exists'
          PROVE  pos'[a] <= last'[c].pos
      BY <1>1, <1>2, <1>5, <1>6, <1>7, <2>1, <2>4 DEF Tidy, Ready
    <2> QED
      BY <2>2, <2>3, <2>4 DEF Tidy
  <1> QED
    BY <1>1, <1>8, <1>9, <1>10 DEF OrderInv

(* A move that breaks off writes no more.                                  *)
LEMMA WritePosFailsKeepsOrder ==
  ASSUME OrderInv, NEW m \in Move, WritePosFails(m)
  PROVE  OrderInv'
  <1>1. /\ step' = [step EXCEPT ![m] = "failed"]
        /\ work' = [work EXCEPT ![m] = NoWork]
        /\ UNCHANGED <<exists, pos, age, last, tidy>>
    BY DEF WritePosFails, Go, table
  <1>2. /\ DOMAIN step = Request /\ DOMAIN work = Move
        /\ m \in Request /\ \A c \in Create : c # m /\ c \in Request
        /\ \A n \in Move : n \in Request
    BY RulesAssumption DEF OrderInv, OrderTypes, Request
  <1>3. /\ step'[m] = "failed" /\ \A r \in Request \ {m} : step'[r] = step[r]
        /\ \A n \in Move \ {m} : work'[n] = work[n]
        /\ DOMAIN step' = Request /\ DOMAIN work' = Move
    BY <1>1, <1>2
  <1>4. \A n \in Move : step'[n] = "write" => n # m /\ step[n] = "write"
                                              /\ work'[n] = work[n]
    BY <1>2, <1>3
  <1>5. \A c \in Create : step'[c] = step[c]
    BY <1>2, <1>3
  <1>6. OrderTypes'
    BY <1>1, <1>3, <1>4, <1>5 DEF OrderInv, OrderTypes, Dated, Numbering, Unmade
  <1>7. ASSUME tidy' PROVE Tidy'
    <2>1. Tidy
      BY <1>1, <1>7 DEF OrderInv
    <2>2. ASSUME NEW n \in Move, step'[n] = "write" PROVE Ready(n)'
      <3>1. Ready(n) /\ work'[n] = work[n]
        BY <1>4, <2>1, <2>2 DEF Tidy
      <3>2. \A x, y \in exists : Before(x, y)' <=> Before(x, y)
        BY <1>1 DEF Before
      <3> QED
        BY <1>1, <1>5, <3>1, <3>2 DEF Ready
    <2> QED
      BY <1>1, <1>4, <1>5, <2>1, <2>2 DEF Tidy
  <1> QED
    BY <1>6, <1>7 DEF OrderInv

(* Applies and the handlers of one statement give no position, though they *)
(* may take a rule away.                                                   *)
LEMMA OthersLeaveOrder ==
  ASSUME OrderInv, Edits \/ (\E a \in Apply : Applies(a)) \/ UNCHANGED vars
  PROVE  /\ OrderInv' /\ exists' \subseteq exists /\ age' = age
         /\ \A x \in exists' : pos'[x] = pos[x]
  <1>1. /\ pos \in [Rule -> Nat] /\ DOMAIN step = Request
    BY DEF OrderInv, OrderTypes, Dated
  <1>2. CASE Edits
    <2>1. /\ UNCHANGED <<age, last, work, tidy, step>>
      BY <1>2 DEF Edits, UpdateRule, DeleteRule, EditForward, EditNat11, EditSource,
                  Toggles, SwitchForcing, SetZones, EditAlias, Edit, requests
    <2>2. UNCHANGED <<exists, pos>> \/ \E x \in Rule : DeleteRule(x)
      BY <1>2 DEF Edits, UpdateRule, EditForward, EditNat11, EditSource,
                  Toggles, SwitchForcing, SetZones, EditAlias, objects
    <2>3. /\ exists' \subseteq exists /\ pos' \in [Rule -> Nat]
          /\ \A x \in exists' : pos'[x] = pos[x]
      BY <1>1, <2>2 DEF DeleteRule, OrderInv, OrderTypes, Dated
    <2> QED
      BY <1>1, <2>1, <2>3, OthersKeepOrder
  <1>3. ASSUME NEW a \in Apply, Applies(a)
        PROVE  OrderInv' /\ UNCHANGED <<exists, pos, age>>
    <2>1. /\ UNCHANGED <<exists, pos, age, last, work, tidy>>
          /\ UNCHANGED step \/ \E s : Go(a, s)
      BY <1>3 DEF Applies, ReadForwards, ReadRules, ReadNat11, ReadConfig, ReadForcing,
           ReadZones, Resolve, ReadSources, Batch, BatchBreaksOff, ApplyFails, Reload,
           table
    <2>2. \A r \in Create \union Move : r # a /\ r \in Request
      BY RulesAssumption DEF Request
    <2>3. DOMAIN step' = Request /\ \A r \in Create \union Move : step'[r] = step[r]
      BY <1>1, <2>1, <2>2 DEF Go
    <2> QED
      BY <1>1, <2>1, <2>3, OthersKeepOrder
  <1>4. CASE UNCHANGED vars
    BY <1>1, <1>4, OthersKeepOrder DEF vars, requests, table
  <1> QED
    BY <1>2, <1>3, <1>4

(* Whoever reads the table while a move numbers it, or after the move has  *)
(* broken off, meets no two rules in an order they did not have, but for   *)
(* the two that change places, and a new rule goes behind all that were    *)
(* there when it was asked for (handleFWRuleMove and handleFWRuleCreate,   *)
(* core/firewall.go), as long as the last move has found them numbered.    *)
THEOREM OrderAlwaysKept == Spec => OrderKept
  <1>1. Init => OrderInv
    <2> SUFFICES ASSUME Init PROVE OrderInv
      OBVIOUS
    <2>1. /\ exists = Old /\ pos = [x \in Rule |-> IF x \in Old THEN OldPos[x] ELSE 0]
          /\ age = [x \in Rule |-> IF x \in Old THEN OldAge[x] ELSE 0]
          /\ step = [r \in Request |-> "off"]
          /\ last = [c \in Create |-> NoLast] /\ work = [m \in Move |-> NoWork]
      BY DEF Init
    <2>2. Dated
      <3>1. \A x \in Old : x \in Rule /\ OldPos[x] \in Nat /\ OldAge[x] \in Nat
        <4>1. \A x \in Old : OldAge[x] \in 1..Cardinality(Old)
          BY RulesAssumption
        <4> QED
          BY <4>1, RulesAssumption DEF Rule
      <3> QED
        BY <2>1, <3>1, RulesAssumption DEF Dated
    <2>3. \A r \in Request : step[r] = "off"
      BY <2>1
    <2>4. last \in [Create -> [pos : Nat, knew : SUBSET Rule]]
      BY <2>1 DEF NoLast
    <2>5. \A c \in Create : Unmade(c)
      BY <2>1, <2>3, RulesAssumption DEF Unmade, NoLast, Request
    <2> QED
      BY <2>1, <2>2, <2>3, <2>4, <2>5 DEF OrderInv, OrderTypes, Tidy, Request
  <1> DEFINE A == tidy =>
     /\ \A x, y \in exists \intersect exists' :
          Before(x, y) /\ Before(y, x)' =>
            \E m \in Move : step[m] = "write" /\ {x, y} = work[m].pair
     /\ \A c \in exists' \ exists :
          \A x \in last[c].knew \intersect exists : Before(x, c)'
  <1>2. OrderInv /\ [Next]_vars => OrderInv' /\ A
    <2> SUFFICES ASSUME OrderInv, [Next]_vars PROVE OrderInv' /\ A
      OBVIOUS
    <2>1. \A x, y \in exists : ~(Before(x, y) /\ Before(y, x))
      BY BeforeOrders DEF OrderInv, OrderTypes, Dated
    <2>2. ASSUME NEW c \in Create, BeginCreate(c) PROVE OrderInv' /\ A
      <3>1. UNCHANGED <<exists, pos, age>>
        BY <2>2 DEF BeginCreate, table
      <3> QED
        BY <2>1, <2>2, <3>1, BeginCreateKeepsOrder DEF Before
    <2>3. ASSUME NEW c \in Create, Insert(c) PROVE OrderInv' /\ A
      <3>1. /\ OrderInv' /\ c \notin exists /\ exists' = exists \union {c}
            /\ \A x, y \in exists : Before(x, y)' <=> Before(x, y)
            /\ tidy => \A x \in last[c].knew \intersect exists : Before(x, c)'
        BY <2>3, InsertKeepsOrder
      <3> QED
        BY <2>1, <3>1
    <2>4. ASSUME NEW m \in Move, NEW x \in Rule, NEW down \in BOOLEAN,
                 BeginMove(m, x, down)
          PROVE  OrderInv' /\ A
      <3>1. UNCHANGED <<exists, pos, age>>
        BY <2>4 DEF BeginMove, table
      <3> QED
        BY <2>1, <2>4, <3>1, BeginMoveKeepsOrder DEF Before
    <2>5. ASSUME NEW m \in Move, WritePos(m) PROVE OrderInv' /\ A
      BY <2>5, WritePosKeepsOrder
    <2>6. ASSUME NEW m \in Move, WritePosFails(m) PROVE OrderInv' /\ A
      <3>1. UNCHANGED <<exists, pos, age>>
        BY <2>6 DEF WritePosFails, table
      <3> QED
        BY <2>1, <2>6, <3>1, WritePosFailsKeepsOrder DEF Before
    <2>7. CASE Edits \/ (\E a \in Apply : Applies(a)) \/ UNCHANGED vars
      <3>1. /\ OrderInv' /\ exists' \subseteq exists /\ age' = age
            /\ \A x \in exists' : pos'[x] = pos[x]
        BY <2>7, OthersLeaveOrder
      <3>2. \A x, y \in exists' : Before(x, y)' <=> Before(x, y)
        BY <3>1 DEF Before
      <3> QED
        BY <2>1, <3>1, <3>2
    <2> HIDE DEF A
    <2> QED
      BY <2>2, <2>3, <2>4, <2>5, <2>6, <2>7 DEF Next
  <1>3. Spec => [][A]_vars
    <2> HIDE DEF A
    <2> QED BY <1>1, <1>2, PTL DEF Spec
  <1>4. [A]_vars => [A]_table
    BY DEF vars, table
  <1> QED
    <2> HIDE DEF A
    <2>1. Spec => [][A]_table
      BY <1>3, <1>4, PTL
    <2> QED
      BY <2>1 DEF OrderKept, A
=============================================================================
