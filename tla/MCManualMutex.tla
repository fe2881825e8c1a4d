----------------------------- MODULE MCManualMutex -----------------------------
(* Instances of ManualMutex for TLC. *)
EXTENDS ManualMutex

CONSTANTS c, d

================================================================================
