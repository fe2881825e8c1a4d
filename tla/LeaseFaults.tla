------------------------------ MODULE LeaseFaults ------------------------------
(***************************************************************************)
(* LeaseCore with interference from outside the protocol: somebody deletes *)
(* the object, restores an older record from a backup, or overwrites it.   *)
(* The code promises to fail closed, not to stay available.                *)
(***************************************************************************)
EXTENDS LeaseCore

CONSTANT MaxFaults  \* bound: how often the object is interfered with

ASSUME FaultAssumption == MaxFaults \in Nat

VARIABLES
  faults,     \* counts interference against MaxFaults
  creations,  \* creations of the object given up on by their caller
  seen        \* history: the highest epoch each process has had in observed

faultVars == <<vars, faults, creations, seen>>

FaultInit ==
  /\ Init
  /\ faults = 0
  /\ creations = {}
  /\ seen = [c \in Client |-> 0]

Interfere ==
  /\ object.version # 0
  /\ faults < MaxFaults
  /\ faults' = faults + 1
  /\ UNCHANGED <<now, lost, granted, authority, callVars, get, creations, seen>>

\* Under a new version, writes that expected the old one can only fail.
replaceObject(record) ==
  /\ issued' = issued + 1
  /\ object' = [version |-> issued + 1, record |-> record]
  /\ late' = {}

\* If-None-Match: * can be met again: a creation that is still under way takes
\* effect after all.
Delete ==
  /\ Interfere
  /\ object' = NoObject
  /\ late' = creations
  /\ UNCHANGED issued

\* An older record, as some process has seen it, comes back.
Restore(c) ==
  /\ Interfere
  /\ observed[c].version # 0 /\ observed[c].record # object.record
  /\ replaceObject(observed[c].record)

\* A body that decodeRecord rejects.
Corrupt == Interfere /\ replaceObject(NoRecord)

\* A store that returns one version for two records.
ReuseVersion ==
  /\ Interfere
  /\ canAdvance(object.record.seq)
  /\ object' = [object EXCEPT !.record.seq = @ + 1]
  /\ UNCHANGED <<issued, late>>

\* The caller stops waiting for a request to create the object.
givesUpCreation(c) ==
  /\ put[c].state = "sent" /\ prop[c].expected = 0
  /\ Crash(c) \/ PutUnknown(c) \/ AttemptRepeated(c)

\* A creation stays in the set when it arrives: the SDK may have sent it twice.
FaultNext ==
  \/ /\ Next
     /\ UNCHANGED faults
     /\ creations' = creations \cup
          {prop[c].record : c \in {d \in Client : givesUpCreation(d)}}
     /\ seen' = [c \in Client |->
          IF observed'[c].version = 0 THEN 0
          ELSE IF observed'[c].record.epoch > seen[c] THEN observed'[c].record.epoch
          ELSE seen[c]]
  \/ Delete
  \/ Corrupt
  \/ ReuseVersion
  \/ \E c \in Client : Restore(c)

FaultSpec == FaultInit /\ [][FaultNext]_faultVars

--------------------------------------------------------------------------------
\* Once a process has reported a protocol violation it has no authority, and
\* no answer that arrives afterwards gives it any (setTerminalLocked,
\* confirmAcquisition).
TerminalFailsClosed == \A c \in Client : terminal[c] => ~lease[c].held

\* A process that has observed the object never proposes to create it: a deleted
\* object is not silently reinitialized with epoch 1 (readCurrent).  An attempt of the
\* first creation that the SDK repeats is the same proposal, not a new one.
NeverReinitialises ==
  [][\A c \in Client :
       put[c].state = "none" /\ put'[c].state = "sent" /\ seen[c] # 0
         => prop'[c].expected # 0]_faultVars

\* A process follows one object for as long as it lives: whoever recreates a deleted
\* object, a delayed creation or a process that has not seen it, does so under another
\* uid, which no read and no late answer lets into the observation (recordsCompatible,
\* confirmAcquisition).
FollowsOneObject ==
  [][\A c \in Client :
       observed[c].version # 0 /\ observed'[c].version # 0
         => observed'[c].record.uid = observed[c].record.uid]_faultVars

\* The design says that a rollback of the object is reported as a protocol
\* violation: what a process reads is never installed when its epoch is below
\* one the process has observed.  confirmRelease replaces a newer observation
\* by its own older record, after which a rollback goes unnoticed.
RollbackReported ==
  [][\A c \in Client : \A r \in Reader :
       /\ get[c][r].busy /\ ~get'[c][r].busy
       /\ get[c][r].found.version # 0 /\ get[c][r].found.record.epoch < seen[c]
       => observed'[c] = observed[c] \/ observed'[c] = NotObserved]_faultVars

================================================================================
