--------------------------------- MODULE Tenure ---------------------------------
(***************************************************************************)
(* What the recipes promise about tracked work and its lease, whatever     *)
(* goroutines and select loops they use for it: work is admitted once,     *)
(* under a lease that is held; it is told to stop before anything else     *)
(* happens to the lease; the release is asked for only after the work has  *)
(* returned, and never for work that was left behind.                      *)
(***************************************************************************)
VARIABLES
  phase,  \* "waiting", "working", "stopping" (work was told to stop), "over"
  work,   \* "none", "active", "ended"
  held,   \* the lease is held
  asked   \* the release was asked for

vars == <<phase, work, held, asked>>

Init == phase = "waiting" /\ work = "none" /\ held \in BOOLEAN /\ asked = FALSE

Acquire == phase = "waiting" /\ ~held /\ held' = TRUE /\ UNCHANGED <<phase, work, asked>>

Admit ==
  /\ phase = "waiting" /\ held
  /\ phase' = "working" /\ work' = "active"
  /\ UNCHANGED <<held, asked>>

WorkReturns == work = "active" /\ work' = "ended" /\ UNCHANGED <<phase, held, asked>>

Stop == phase = "working" /\ phase' = "stopping" /\ UNCHANGED <<work, held, asked>>

\* The lease runs out, is lost, or a client gives up on it.
Lapse == held /\ held' = FALSE /\ UNCHANGED <<phase, work, asked>>

\* It may be refused, and then the lease stays until it lapses.  If it was asked
\* for in vain, the recipe may have ended at once.
AskRelease ==
  /\ phase = "stopping" /\ work = "ended" /\ held /\ ~asked
  /\ asked' = TRUE
  /\ held' \in BOOLEAN
  /\ phase' \in {"stopping", "over"}
  /\ UNCHANGED work

\* Work may be left behind, but then its lease was not released.
End ==
  /\ phase \in {"waiting", "stopping"}
  /\ work = "active" => ~asked
  /\ phase' = "over"
  /\ held' \in {FALSE, held}
  /\ UNCHANGED <<work, asked>>

Next == Acquire \/ Admit \/ WorkReturns \/ Stop \/ Lapse \/ AskRelease \/ End

Spec == Init /\ [][Next]_vars

================================================================================
