------------------------------ MODULE MCRules -------------------------------
(***************************************************************************)
(* A small instance of Rules: three rules of which one names an alias, an  *)
(* object of each kind, and either two applies beside a rule that is       *)
(* created or a move, or two rules that are created and two moves.         *)
(***************************************************************************)
EXTENDS Rules, TLC

CONSTANTS r1, r2, r3, c1, c2, m1, m2, a1, a2, web, pub, out, lan, guests, net

OldRules   == {r1, r2, r3}
TwoCreates == {c1, c2}
TwoMoves   == {m1, m2}
TwoApplies == {a1, a2}
OneAnother == {{c1, a1, a2}, {m1, a1, a2}, {c1, c2, m1, m2}}
OneForward == {web}
OnePair    == {pub}
OneSource  == {out}
OneZone    == {lan}
AllButWeb  == {pub, out, lan}
OneAlias   == {guests}
OneAddress == {net}
ViaOf      == [x \in Rule \union Object |-> IF x \in {r1, out} THEN guests ELSE None]
PosOf      == r1 :> 1 @@ r2 :> 2 @@ r3 :> 3
(* Two applies have overlapped before: their sections of r1 and r2, and    *)
(* one for a forward that is gone.                                         *)
Sections(S) == {[at |-> s[1], what |-> s[2],
                 addr |-> IF s[2] = r1 THEN net ELSE None] : s \in S}
OldFile     == {Sections({<<1, r1>>, <<2, r2>>, <<1, r2>>, <<2, r1>>,
                          <<0, web>>})}
AgeOf       == r1 :> 2 @@ r2 :> 1 @@ r3 :> 3

EqualApplies == Permutations(TwoApplies)
=============================================================================
