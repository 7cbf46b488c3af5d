----------------------------- MODULE MCSafeMode -----------------------------
(***************************************************************************)
(* Small instances of SafeMode.  Each request may be one of a few kinds:   *)
(* requests of different kinds that meet on the same files.                *)
(***************************************************************************)
EXTENDS SafeMode, TLC

CONSTANTS c1, c2, c3

(* Three requests on both files, with failures and restarts. *)
RaceChange  == {c1, c2, c3}
RaceOffered == c1 :> {"lan"} @@ c2 :> {"aclOn", "wan2"}
               @@ c3 :> {"aclOff", "wanDelete"}

(* One risky change of any kind that may cut its administrator off, and    *)
(* two edits beside it.                                                    *)
LockoutOffered == c1 :> {"lan", "route", "wan", "wan2", "aclOn"}
                  @@ c2 :> {"otherNet", "otherFw"}
                  @@ c3 :> {"otherNet"}

OneOffered == c1 :> {"route", "wan"}

OneChange  == {c1}
Nobody     == {}
=============================================================================
