--------------------------- MODULE UninstallContract ---------------------------
(***************************************************************************)
(* What uninstalling the Feast module promises the feast operator: as long *)
(* as the feast operator holds its claim the module keeps serving it, or   *)
(* gives up on it after a warning; and an uninstall always ends.           *)
(***************************************************************************)

VARIABLES
  phase,    \* out: no module CR; serving; draining: being uninstalled
  held,     \* the feast operator holds its claim
  gaveUp    \* the module has warned that it no longer waits for that claim

vars == <<phase, held, gaveUp>>

Init == phase \in {"out", "serving"} /\ held = FALSE /\ gaveUp = FALSE

Free == ~held \/ gaveUp

Install == phase = "out" /\ phase' = "serving" /\ UNCHANGED <<held, gaveUp>>

\* A CR that was never taken up may vanish without a drain.
Discard == phase = "serving" /\ Free /\ phase' = "out" /\ UNCHANGED <<held, gaveUp>>

Uninstall == phase = "serving" /\ phase' = "draining" /\ UNCHANGED <<held, gaveUp>>

\* Only while there is a module, and never again once it has given up.
Claim == phase # "out" /\ ~gaveUp /\ ~held /\ held' = TRUE /\ UNCHANGED <<phase, gaveUp>>

Release == held /\ held' = FALSE /\ gaveUp' \in {gaveUp, FALSE} /\ UNCHANGED phase

GiveUp ==
  /\ phase = "draining" /\ held /\ ~gaveUp
  /\ gaveUp' = TRUE /\ UNCHANGED <<phase, held>>

\* The claim that was given up on is gone, and the warning with it.
Forget == gaveUp /\ ~held /\ gaveUp' = FALSE /\ UNCHANGED <<phase, held>>

Finish == phase = "draining" /\ Free /\ phase' = "out" /\ UNCHANGED <<held, gaveUp>>

Next ==
  \/ Install \/ Discard \/ Uninstall \/ Claim
  \/ Release \/ GiveUp \/ Forget \/ Finish

Spec == Init /\ [][Next]_vars /\ WF_vars(GiveUp) /\ WF_vars(Finish)
=============================================================================
