------------------------------ MODULE LeaseRecord ------------------------------
(***************************************************************************)
(* The lease record of lease/record.go: the JSON document kept in the one  *)
(* S3 object, and the pure functions that build, validate and compare it.  *)
(*                                                                         *)
(* A record keeps the fields the protocol tells apart:                     *)
(*   uid    metadata.uid; a random UUID is the pair <<creator, instant>>   *)
(*   owner  spec.clientID; Nobody is the empty string of a release         *)
(*   dur    spec.leaseDurationSeconds                                      *)
(*   at     spec.renewTime (acquireTime is fixed with the epoch)           *)
(*   epoch  spec.epochID      seq  spec.sequenceID                         *)
(* Two proposals of one client frozen in the same instant have equal       *)
(* contents; sameRecord of the code is therefore equality of records.      *)
(***************************************************************************)
EXTENDS Naturals

CONSTANTS
  Client,         \* processes, each with one lease.Client
  ClientID,       \* the configured identity of each process; a label only
  Nobody,         \* the empty clientID of a released record
  LeaseDuration,  \* advertised duration of each client's grants
  RenewDeadline,  \* local authority granted by one confirmed write
  MaxCounter      \* math.MaxUint64: the last value of epochID and sequenceID

\* The part of Config that validateConfig makes the protocol rely on.
ValidConfig(c) ==
  /\ ClientID[c] # Nobody
  /\ RenewDeadline[c] \in Nat \ {0}
  /\ LeaseDuration[c] \in Nat
  /\ LeaseDuration[c] > RenewDeadline[c]

ASSUME ConfigAssumption == \A c \in Client : ValidConfig(c)
ASSUME CounterAssumption == MaxCounter \in Nat \ {0}

NoUid == <<>>
Uid == (Client \X Nat) \cup {NoUid}
Owner == {ClientID[c] : c \in Client} \cup {Nobody}
Record ==
  [uid : Uid, owner : Owner, dur : Nat, at : Nat,
   epoch : 0 .. MaxCounter, seq : 0 .. MaxCounter]

\* Go's zero Record; also what a malformed body decodes to.
NoRecord ==
  [uid |-> NoUid, owner |-> Nobody, dur |-> 0, at |-> 0, epoch |-> 0, seq |-> 0]

validRecord(r) == r.uid # NoUid /\ r.dur # 0 /\ r.epoch # 0 /\ r.seq # 0

\* (epoch, sequence) of r is at or after that of q.
AtOrAfter(r, q) == r.epoch > q.epoch \/ (r.epoch = q.epoch /\ r.seq >= q.seq)

recordsCompatible(previous, next) ==
  /\ previous.uid = next.uid
  /\ AtOrAfter(next, previous)
  /\ next.epoch = previous.epoch /\ next.seq = previous.seq => next = previous

newInitialRecord(c, t) ==
  [uid |-> <<c, t>>, owner |-> ClientID[c], dur |-> LeaseDuration[c], at |-> t,
   epoch |-> 1, seq |-> 1]

\* Mutation of canAdvance: an off-by-one lets the counter pass its last value.
canAdvance_wraps(counter) == counter <= MaxCounter

\* ErrCounterOverflow otherwise: counters never wrap around.
canAdvance(counter) == counter < MaxCounter

\* Mutation of acquisitionRecord: the sequence does not restart with the epoch.
acquisitionRecord_keepsSeq(previous, c, t) ==
  [previous EXCEPT !.owner = ClientID[c], !.dur = LeaseDuration[c], !.at = t,
                   !.epoch = @ + 1]

\* Defined when canAdvance(previous.epoch).
acquisitionRecord(previous, c, t) ==
  [uid |-> previous.uid, owner |-> ClientID[c], dur |-> LeaseDuration[c], at |-> t,
   epoch |-> previous.epoch + 1, seq |-> 1]

\* The next record of the same grant; both below need canAdvance(previous.seq).
nextRecord(previous, owner, t) ==
  [uid |-> previous.uid, owner |-> owner, dur |-> previous.dur, at |-> t,
   epoch |-> previous.epoch, seq |-> previous.seq + 1]

renewalRecord(previous, t) == nextRecord(previous, previous.owner, t)

releaseRecord(previous, t) == nextRecord(previous, Nobody, t)
================================================================================
