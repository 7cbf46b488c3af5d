------------------------------ MODULE MCUpdate ------------------------------
(***************************************************************************)
(* A small instance of Update: the first release, a newer one with one     *)
(* page more, and a package without a program.                             *)
(***************************************************************************)
EXTENDS Update, TLC

CONSTANTS u1, d1, d2, old, new, empty, index, script

OneUpload   == {u1}
TwoApplies  == {d1, d2}
Releases    == {old, new, empty}
NoProgram   == {empty}
OfferedReleases == {new, old}
HashedReleases  == {new}
Pages       == {index, script}
BringsPages == old :> {index} @@ new :> {index, script} @@ empty :> {script}
=============================================================================
