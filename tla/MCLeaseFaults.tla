----------------------------- MODULE MCLeaseFaults -----------------------------
(* Instances of LeaseFaults for TLC. *)
EXTENDS LeaseFaults, TLC

CONSTANTS a, b

OwnID == [c \in Client |-> c]
RenewOne == [c \in Client |-> 1]
LeaseTwo == [c \in Client |-> 2]
================================================================================
