------------------------------ MODULE Leadership -------------------------------
(***************************************************************************)
(* What a lease promises to the application that uses it: at most one      *)
(* process has authority, authority once gone does not come back, and each *)
(* new grant carries an epoch above all earlier ones, so that a resource   *)
(* can reject whoever was granted before.                                  *)
(***************************************************************************)
EXTENDS Naturals

CONSTANT Client

VARIABLES
  holders,  \* the processes with authority
  epoch     \* the epoch of the latest grant

Init == holders = {} /\ epoch = 0

\* Epochs can be skipped: a proposal can win the object and grant nothing.
Grant(c) ==
  /\ holders = {}
  /\ holders' = {c}
  /\ epoch' \in Nat /\ epoch' > epoch

Lapse ==
  /\ holders # {}
  /\ holders' = {}
  /\ UNCHANGED epoch

Next == Lapse \/ \E c \in Client : Grant(c)

Spec == Init /\ [][Next]_<<holders, epoch>>
================================================================================
