------------------------------ MODULE MCLeaseCore ------------------------------
(* Instances of LeaseCore for TLC. *)
EXTENDS LeaseInvariant, TLC

CONSTANTS a, b

\* Every process under its own identity.
OwnID == [c \in Client |-> c]
\* Two processes configured with one identity.
OneID == [c \in Client |-> a]
RenewTwo == [c \in Client |-> 2]
RenewOne == [c \in Client |-> 1]
LeaseThree == [c \in Client |-> 3]
LeaseTwo == [c \in Client |-> 2]
\* A process with short intervals beside one with long intervals.
RenewMixed == (a :> 1) @@ (b :> 2)
LeaseMixed == (a :> 2) @@ (b :> 3)
\* The Observe calls of a process are interchangeable.
CallSymmetry == Permutations(ObserveCalls)
================================================================================
