---------------------------- MODULE TrialChange ----------------------------
(***************************************************************************)
(* What Safe Mode promises about a risky change, without timers, files or  *)
(* handlers: at most one change is on trial; the trial ends with exactly   *)
(* one verdict, and a verdict is never taken back.  A change that is put   *)
(* on trial while another one is pending supersedes it (comment at         *)
(* core/saferollback.go:36), a restart of the service loses the trial.     *)
(* SafeMode implements this specification.                                 *)
(***************************************************************************)
CONSTANTS
  Change,
  NoChange    \* no member of Change

VARIABLES
  trial,      \* the change that waits for a confirmation, or NoChange
  verdict     \* how the trial of each change ended

vars == <<trial, verdict>>

Verdict == {"none", "trial", "confirmed", "superseded", "undone", "lost"}

Init == /\ trial = NoChange
        /\ verdict = [c \in Change |-> "none"]

(* A change goes on trial, in the place of the one that was there. *)
Put(c) ==
  /\ verdict[c] = "none"
  /\ trial' = c
  /\ verdict' = [d \in Change |-> IF d = c THEN "trial"
                                  ELSE IF d = trial THEN "superseded"
                                  ELSE verdict[d]]

(* The trial ends with the verdict v. *)
End(v) ==
  /\ trial # NoChange
  /\ trial' = NoChange
  /\ verdict' = [verdict EXCEPT ![trial] = v]

Undo == End("undone")

Next == \/ \E c \in Change : Put(c)
        \/ End("confirmed")
        \/ Undo
        \/ End("lost")

(* Nobody has to confirm, so it is the undoing that must not be put off:   *)
(* the promise of a revert at the end of the window.                       *)
Spec == Init /\ [][Next]_vars /\ WF_vars(Undo)
=============================================================================
