----------------------------- MODULE MCStorage ------------------------------
(***************************************************************************)
(* A small instance of Storage: an archive of a device without a data      *)
(* partition and one of a device with one, two restores, one partition.    *)
(***************************************************************************)
EXTENDS Storage, TLC

CONSTANTS a1, a2, r1, r2

TwoArchives == {a1, a2}
OneArchive  == {a1}
TwoRequests == {r1, r2}
TwoAlike    == Permutations(TwoRequests)

(* Once a tool has met the service, nothing is claimed of the database any *)
(* more: what the partition does then is not followed.                     *)
Followed == collided => move = "off"
=============================================================================
