-------------------------- MODULE MCObserverDispatcher --------------------------
(* Instances of ObserverDispatcher for TLC. *)
EXTENDS ObserverDispatcher

CONSTANTS p, q
================================================================================
