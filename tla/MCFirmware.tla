----------------------------- MODULE MCFirmware -----------------------------
(***************************************************************************)
(* Small instances of Firmware.                                            *)
(***************************************************************************)
EXTENDS Firmware, TLC

CONSTANTS b1, f1, s1, s2

OneBackup == {b1}
OneFlash  == {f1}
TwoJobs   == {b1, f1}
OneFetch  == {s1}
OneUpload == {s2}

(* The fetched image fits a device that needs 1, not one that needs 2. *)
Sizes == s1 :> 1 @@ s2 :> 0
Needs == {1, 2}
=============================================================================
