------------------------------ MODULE LeaseProofs ------------------------------
(***************************************************************************)
(* Theorems about LeaseCore, for every set of processes, every identity    *)
(* and duration that validateConfig accepts, and every bound.              *)
(***************************************************************************)
EXTENDS LeaseInvariant, TLAPS

--------------------------------------------------------------------------------
(***************************************************************************)
(* Types.                                                                  *)
(***************************************************************************)

\* The empty values have the types of their variables.
LEMMA EmptyTypes ==
  /\ NoRecord \in Record /\ NoObject \in Object /\ NoProposal \in Proposal
  /\ NotObserved \in Observed /\ NoLease \in Lease /\ NoGet \in Get /\ NoPut \in Put
<1>1. NoRecord \in Record
  BY CounterAssumption DEF NoRecord, Record, NoUid, Uid, Owner
<1> QED
  BY <1>1 DEF NoObject, Object, NoProposal, Proposal, NotObserved, Observed,
     NoLease, Lease, NoGet, Get, NoPut, Put, NoUid, Uid

\* The records of record.go are well formed; counters stay in range.
LEMMA InitialRecordType ==
  ASSUME NEW c \in Client, NEW t \in Nat
  PROVE  newInitialRecord(c, t) \in Record
BY ConfigAssumption, CounterAssumption
   DEF newInitialRecord, Record, Uid, Owner, ValidConfig

LEMMA AcquisitionRecordType ==
  ASSUME NEW c \in Client, NEW t \in Nat, NEW r \in Record, canAdvance(r.epoch)
  PROVE  acquisitionRecord(r, c, t) \in Record
BY ConfigAssumption, CounterAssumption
   DEF acquisitionRecord, canAdvance, Record, Owner, ValidConfig

LEMMA RenewalRecordType ==
  ASSUME NEW t \in Nat, NEW r \in Record, canAdvance(r.seq)
  PROVE  renewalRecord(r, t) \in Record /\ releaseRecord(r, t) \in Record
BY CounterAssumption
   DEF renewalRecord, releaseRecord, nextRecord, canAdvance, Record, Owner

LEMMA PhaseEndType ==
  ASSUME NEW c \in Client, NEW p \in Proposal
  PROVE  proposalEnd(c, p) \in Nat /\ proposalPhaseEnd(c, p) \in Nat
BY ConfigAssumption
   DEF proposalEnd, proposalPhaseEnd, Proposal, Record, ValidConfig

\* The effects of LeaseCore keep the types of the variables they assign.
LEMMA ReturnTypes ==
  ASSUME TypeOK, NEW c \in Client, return(c)
  PROVE  /\ pc' \in [Client -> Location] /\ prop' \in [Client -> Proposal]
         /\ cur' \in [Client -> Observed] /\ put' \in [Client -> Put]
BY EmptyTypes DEF TypeOK, return, Location

LEMMA SendTypes ==
  ASSUME TypeOK, NEW c \in Client, NEW p \in Proposal, send(c, p)
  PROVE  /\ pc' \in [Client -> Location] /\ prop' \in [Client -> Proposal]
         /\ cur' \in [Client -> Observed] /\ put' \in [Client -> Put]
<1>1. [state |-> "sent", version |-> 0] \in Put
  BY DEF Put
<1> QED  BY <1>1, EmptyTypes DEF TypeOK, send, Location

LEMMA StartReadType ==
  ASSUME TypeOK, NEW c \in Client, NEW r \in Reader, startRead(c, r)
  PROVE  get' \in [Client -> [Reader -> Get]]
<1>1. [busy |-> TRUE, asked |-> now, found |-> object, same |-> TRUE] \in Get
  BY DEF TypeOK, Get
<1> QED  BY <1>1 DEF TypeOK, startRead

LEMMA FinishReadType ==
  ASSUME TypeOK, NEW c \in Client, NEW r \in Reader, finishRead(c, r)
  PROVE  get' \in [Client -> [Reader -> Get]]
BY EmptyTypes DEF TypeOK, finishRead

LEMMA CallReadTypes ==
  ASSUME TypeOK, NEW c \in Client, NEW p \in Proposal, NEW step \in Location,
         callRead(c, step, p)
  PROVE  /\ pc' \in [Client -> Location] /\ prop' \in [Client -> Proposal]
         /\ cur' \in [Client -> Observed] /\ put' \in [Client -> Put]
         /\ get' \in [Client -> [Reader -> Get]]
<1>1. get' \in [Client -> [Reader -> Get]]
  BY StartReadType DEF callRead, Reader
<1> QED  BY <1>1, EmptyTypes DEF TypeOK, callRead

LEMMA OutdateReadsType ==
  ASSUME TypeOK, NEW c \in Client
  PROVE  outdateReads(c) \in [Reader -> Get]
BY DEF TypeOK, outdateReads, Get

LEMMA ReplaceObservedType ==
  ASSUME TypeOK, NEW c \in Client, NEW v \in Nat, NEW record \in Record,
         NEW since \in Nat, replaceObserved(c, v, record, since)
  PROVE  observed' \in [Client -> Observed]
<1>1. [version |-> v, record |-> record, since |-> since] \in Observed
  BY DEF Observed
<1> QED  BY <1>1 DEF TypeOK, replaceObserved

LEMMA DropTypes ==
  ASSUME TypeOK, NEW c \in Client, NEW p, dropPending(c, p)
  PROVE  pending' \in [Client -> Proposal] /\ lease' \in [Client -> Lease]
BY EmptyTypes DEF TypeOK, dropPending

LEMMA ClearType ==
  ASSUME TypeOK, NEW c \in Client, NEW p, clearPending(c, p)
  PROVE  pending' \in [Client -> Proposal]
BY EmptyTypes DEF TypeOK, clearPending

LEMMA RetireType ==
  ASSUME TypeOK, NEW c \in Client, retire(c)
  PROVE  lease' \in [Client -> Lease]
BY EmptyTypes DEF TypeOK, retire

LEMMA ReadTypes ==
  ASSUME TypeOK, NEW c \in Client, NEW r \in Reader,
         \/ readFails(c, r) \/ readViolates(c, r) \/ readNotFound(c, r)
         \/ readSuperseded(c, r) \/ readInstalls(c, r)
  PROVE  /\ observed' \in [Client -> Observed] /\ lease' \in [Client -> Lease]
         /\ terminal' \in [Client -> BOOLEAN]
         /\ get' \in [Client -> [Reader -> Get]]
<1>1. CASE readFails(c, r) \/ readNotFound(c, r) \/ readSuperseded(c, r)
  <2>1. finishRead(c, r) /\ UNCHANGED <<observed, lease, terminal>>
    BY <1>1 DEF readFails, readNotFound, readSuperseded
  <2> QED  BY <2>1, FinishReadType DEF TypeOK
<1>2. CASE readViolates(c, r)
  BY <1>2, FinishReadType, RetireType DEF readViolates, TypeOK
<1>3. CASE readInstalls(c, r)
  <2> DEFINE o == get[c][r].found
  <2>1. o \in Object /\ get[c][r].asked \in Nat
    BY DEF TypeOK, Get
  <2>2. PICK readAt \in get[c][r].asked .. now :
          replaceObserved(c, o.version, o.record, unchangedSince(c, o, readAt))
    BY <1>3 DEF readInstalls
  <2>3. unchangedSince(c, o, readAt) \in Nat
    BY <2>1, <2>2 DEF unchangedSince, TypeOK, Observed
  <2>4. observed' \in [Client -> Observed]
    BY <2>1, <2>2, <2>3, ReplaceObservedType DEF Object
  <2>5. lease' \in [Client -> Lease]
    BY <1>3, EmptyTypes DEF readInstalls, TypeOK
  <2>6. get' \in [Client -> [Reader -> Get]]
    BY <1>3, EmptyTypes, OutdateReadsType DEF readInstalls, TypeOK
  <2>7. terminal' \in [Client -> BOOLEAN]
    BY <1>3 DEF readInstalls, TypeOK
  <2> QED  BY <2>4, <2>5, <2>6, <2>7
<1> QED  BY <1>1, <1>2, <1>3

LEMMA ConfirmTypes ==
  ASSUME TypeOK, NEW c \in Client, NEW v \in Nat, confirm(c, v)
  PROVE  /\ observed' \in [Client -> Observed] /\ lease' \in [Client -> Lease]
         /\ pending' \in [Client -> Proposal] /\ granted' \in Nat
         /\ pc' \in [Client -> Location] /\ prop' \in [Client -> Proposal]
         /\ cur' \in [Client -> Observed] /\ put' \in [Client -> Put]
         /\ get' \in [Client -> [Reader -> Get]]
<1> DEFINE p == prop[c]
<1>1. p \in Proposal /\ p.record \in Record /\ p.record.at \in Nat
      /\ p.record.epoch \in Nat /\ p.record.seq \in Nat /\ p.record.uid \in Uid
  BY CounterAssumption DEF TypeOK, Proposal, Record
<1>2. proposalEnd(c, p) \in Nat /\ proposalPhaseEnd(c, p) \in Nat
  BY <1>1, PhaseEndType
<1>3. /\ pc' \in [Client -> Location] /\ prop' \in [Client -> Proposal]
      /\ cur' \in [Client -> Observed] /\ put' \in [Client -> Put]
  BY ReturnTypes DEF confirm
<1>4. [get EXCEPT ![c] = outdateReads(c)] \in [Client -> [Reader -> Get]]
  BY OutdateReadsType DEF TypeOK
<1>5. replaceObserved(c, v, p.record, p.record.at) => observed' \in [Client -> Observed]
  BY <1>1, ReplaceObservedType
<1>6. CASE p.kind = "acquire" /\ confirmAcquisition(c, v)
  <2>1. [held |-> TRUE, uid |-> p.record.uid, epoch |-> p.record.epoch,
         seq |-> p.record.seq, validUntil |-> proposalPhaseEnd(c, p)] \in Lease
    BY <1>1, <1>2 DEF Lease
  <2> QED  BY <1>1, <1>3, <1>4, <1>5, <1>6, <2>1 DEF confirmAcquisition, TypeOK
<1>7. CASE p.kind = "renew" /\ confirmRenewal(c, v) /\ UNCHANGED granted
  <2>1. [held |-> TRUE, uid |-> lease[c].uid, epoch |-> lease[c].epoch,
         seq |-> p.record.seq, validUntil |-> proposalEnd(c, p)] \in Lease
    BY <1>1, <1>2 DEF Lease, TypeOK
  <2>2. CASE renewalConfirmed(c)
    BY <1>3, <1>4, <1>5, <1>7, <2>1, <2>2, ClearType DEF confirmRenewal, TypeOK
  <2>3. CASE ~renewalConfirmed(c)
    BY <1>3, <1>7, <2>3, DropTypes DEF confirmRenewal, TypeOK
  <2> QED  BY <2>2, <2>3
<1>8. CASE p.kind = "release" /\ confirmRelease(c, v) /\ UNCHANGED granted
  BY <1>3, <1>4, <1>5, <1>8, ClearType DEF confirmRelease, TypeOK
<1> QED  BY <1>6, <1>7, <1>8 DEF confirm

LEMMA SendPendingTypes ==
  ASSUME TypeOK, NEW c \in Client, NEW p \in Proposal, sendPending(c, p)
  PROVE  /\ pending' \in [Client -> Proposal] /\ lease' \in [Client -> Lease]
         /\ pc' \in [Client -> Location] /\ prop' \in [Client -> Proposal]
         /\ cur' \in [Client -> Observed] /\ put' \in [Client -> Put]
<1>1. CASE send(c, p) /\ pending' = [pending EXCEPT ![c] = p] /\ UNCHANGED lease
  BY <1>1, SendTypes DEF TypeOK
<1>2. CASE return(c) /\ clearPending(c, p) /\ UNCHANGED lease
  BY <1>2, ReturnTypes, ClearType DEF TypeOK
<1>3. CASE return(c) /\ dropPending(c, p)
  BY <1>3, ReturnTypes, DropTypes
<1> QED  BY <1>1, <1>2, <1>3 DEF sendPending

\* What Renew and Release propose from a valid observation is a proposal.
LEMMA FrozenTypes ==
  ASSUME TypeOK, NEW c \in Client, canAdvance(observed[c].record.seq)
  PROVE  renewal(c) \in Proposal /\ release(c) \in Proposal
<1>1. /\ observed[c].record \in Record /\ observed[c].version \in Nat
      /\ lease[c].validUntil \in Nat /\ now \in Nat
  BY DEF TypeOK, Observed, Lease
<1> QED  BY <1>1, RenewalRecordType DEF renewal, release, Proposal

LEMMA AcquisitionType ==
  ASSUME NEW c \in Client, NEW x \in Observed, now \in Nat,
         x.version # 0 => canAdvance(x.record.epoch)
  PROVE  acquisition(c, x) \in Proposal
<1>1. x.record \in Record /\ x.version \in Nat
  BY DEF Observed
<1>2. CASE x.version = 0
  BY <1>1, <1>2, InitialRecordType DEF acquisition, Proposal
<1>3. CASE x.version # 0
  BY <1>1, <1>3, AcquisitionRecordType DEF acquisition, Proposal
<1> QED  BY <1>2, <1>3

LEMMA InitTypes == Init => TypeOK
BY EmptyTypes DEF Init, TypeOK, Location

LEMMA NextTypes == TypeOK /\ [Next]_vars => TypeOK'
<1> SUFFICES ASSUME TypeOK, [Next]_vars PROVE TypeOK'
  OBVIOUS
<1>1. CASE Tick
  BY <1>1 DEF Tick, TypeOK, storeVars, authority, callVars
<1>2. ASSUME NEW record \in late, LateWriteArrives(record) PROVE TypeOK'
  <2>1. [version |-> issued + 1, record |-> record] \in Object
    BY <1>2 DEF TypeOK, Object
  <2> QED  BY <1>2, <2>1 DEF LateWriteArrives, commit, TypeOK, authority, callVars
<1>3. ASSUME NEW c \in Client, Crash(c) PROVE TypeOK'
  <2>1. late' \subseteq Record
    BY <1>3 DEF Crash, abandonWrite, TypeOK, Proposal
  <2> QED  BY <1>3, <2>1, ReturnTypes, RetireType, EmptyTypes DEF Crash, TypeOK
<1>4. ASSUME NEW c \in Client, Expire(c) PROVE TypeOK'
  BY <1>4, RetireType DEF Expire, TypeOK, storeVars, callVars
<1>5. ASSUME NEW c \in Client, NEW r \in ObserveCalls, Observe(c, r) PROVE TypeOK'
  BY <1>5, StartReadType DEF Observe, TypeOK, storeVars, callVars, authority, Reader
<1>6. ASSUME NEW c \in Client, NEW r \in ObserveCalls, ObserveReturns(c, r) PROVE TypeOK'
  BY <1>6, ReadTypes DEF ObserveReturns, TypeOK, storeVars, callVars, Reader
<1>7. ASSUME NEW c \in Client, Require(c) PROVE TypeOK'
  <2>1. lease' \in [Client -> Lease] /\ pending' \in [Client -> Proposal]
    BY <1>7, EmptyTypes DEF Require, TypeOK
  <2>2. CASE UNCHANGED <<callVars, get>>
    BY <1>7, <2>1, <2>2 DEF Require, TypeOK, storeVars, callVars
  <2>3. CASE callRead(c, "requireRead", NoProposal)
    BY <1>7, <2>1, <2>3, CallReadTypes, EmptyTypes
       DEF Require, TypeOK, storeVars, Location
  <2> QED  BY <1>7, <2>2, <2>3 DEF Require
<1>8. ASSUME NEW c \in Client, NEW kind, reconcilePending(c, kind)
      PROVE  /\ pending' \in [Client -> Proposal] /\ lease' \in [Client -> Lease]
             /\ pc' \in [Client -> Location] /\ prop' \in [Client -> Proposal]
             /\ cur' \in [Client -> Observed] /\ put' \in [Client -> Put]
             /\ get' \in [Client -> [Reader -> Get]]
  <2>1. CASE dropPending(c, pending[c]) /\ UNCHANGED <<callVars, get>>
    BY <2>1, DropTypes DEF TypeOK, callVars
  <2>2. CASE callRead(c, "reconcileRead", pending[c]) /\ UNCHANGED <<lease, pending>>
    <3>1. pending[c] \in Proposal
      BY DEF TypeOK
    <3> QED  BY <2>2, <3>1, CallReadTypes DEF TypeOK, Location
  <2> QED  BY <1>8, <2>1, <2>2 DEF reconcilePending
<1>9. ASSUME NEW c \in Client, Renew(c) PROVE TypeOK'
  <2>1. CASE reconcilePending(c, "renew")
    BY <1>8, <1>9, <2>1 DEF Renew, TypeOK, storeVars
  <2>2. CASE retire(c) /\ UNCHANGED <<pending, callVars, get>>
    BY <1>9, <2>2, RetireType DEF Renew, TypeOK, storeVars, callVars
  <2>3. CASE /\ canAdvance(observed[c].record.seq)
             /\ pc' = [pc EXCEPT ![c] = "frozen"]
             /\ prop' = [prop EXCEPT ![c] = renewal(c)]
             /\ UNCHANGED <<lease, pending, cur, put, get>>
    BY <1>9, <2>3, FrozenTypes DEF Renew, TypeOK, storeVars, Location
  <2> QED  BY <1>9, <2>1, <2>2, <2>3 DEF Renew
<1>10. ASSUME NEW c \in Client, Release(c) PROVE TypeOK'
  <2>1. CASE reconcilePending(c, "release")
    BY <1>8, <1>10, <2>1 DEF Release, TypeOK, storeVars
  <2>2. CASE retire(c) /\ UNCHANGED <<pending, callVars, get>>
    BY <1>10, <2>2, RetireType DEF Release, TypeOK, storeVars, callVars
  <2>3. CASE /\ canAdvance(observed[c].record.seq) /\ retire(c) /\ UNCHANGED get
             /\ send(c, release(c)) /\ pending' = [pending EXCEPT ![c] = release(c)]
    BY <1>10, <2>3, FrozenTypes, SendTypes, RetireType DEF Release, TypeOK, storeVars
  <2>4. CASE retire(c) /\ UNCHANGED get /\ return(c) /\ UNCHANGED pending
    BY <1>10, <2>4, ReturnTypes, RetireType DEF Release, TypeOK, storeVars
  <2> QED  BY <1>10, <2>1, <2>2, <2>3, <2>4 DEF Release
<1>11. ASSUME NEW c \in Client, RequireDecides(c) PROVE TypeOK'
  <2>1. /\ observed' \in [Client -> Observed] /\ lease' \in [Client -> Lease]
        /\ terminal' \in [Client -> BOOLEAN] /\ get' \in [Client -> [Reader -> Get]]
    BY <1>11, ReadTypes DEF RequireDecides, Reader
  <2>2. CASE return(c)
    BY <1>11, <2>1, <2>2, ReturnTypes DEF RequireDecides, TypeOK, storeVars
  <2>3. CASE send(c, acquisition(c, NotObserved))
    <3>1. acquisition(c, NotObserved) \in Proposal
      BY AcquisitionType, EmptyTypes DEF TypeOK, NotObserved
    <3> QED  BY <1>11, <2>1, <2>3, <3>1, SendTypes DEF RequireDecides, TypeOK, storeVars
  <2>4. CASE mayAcquire(observed'[c]) /\ send(c, acquisition(c, observed'[c]))
    <3>1. acquisition(c, observed'[c]) \in Proposal
      BY <2>1, <2>4, AcquisitionType DEF TypeOK, mayAcquire
    <3> QED  BY <1>11, <2>1, <2>4, <3>1, SendTypes DEF RequireDecides, TypeOK, storeVars
  <2> QED  BY <1>11, <2>2, <2>3, <2>4 DEF RequireDecides
<1>12. ASSUME NEW c \in Client, RenewFreezes(c) PROVE TypeOK'
  <2>1. CASE sendPending(c, prop[c])
    BY <1>12, <2>1, SendPendingTypes DEF RenewFreezes, TypeOK, storeVars
  <2>2. CASE return(c) /\ UNCHANGED pending /\ lease' = [lease EXCEPT ![c] =
                IF retiredByValidate(c) THEN NoLease ELSE @]
    BY <1>12, <2>2, ReturnTypes, EmptyTypes DEF RenewFreezes, TypeOK, storeVars
  <2> QED  BY <1>12, <2>1, <2>2 DEF RenewFreezes
<1>13. ASSUME NEW c \in Client, ReadbackReturns(c) PROVE TypeOK'
  <2>1. /\ observed' \in [Client -> Observed] /\ lease' \in [Client -> Lease]
        /\ terminal' \in [Client -> BOOLEAN] /\ get' \in [Client -> [Reader -> Get]]
    BY <1>13, ReadTypes DEF ReadbackReturns, Reader
  <2>2. CASE return(c)
    BY <1>13, <2>1, <2>2, ReturnTypes DEF ReadbackReturns, TypeOK, storeVars
  <2>3. CASE ~return(c)
    BY <1>13, <2>1, <2>3 DEF ReadbackReturns, TypeOK, storeVars, Location
  <2> QED  BY <2>2, <2>3
<1>14. ASSUME NEW c \in Client, StoreCommits(c) PROVE TypeOK'
  <2>1. /\ [version |-> issued + 1, record |-> prop[c].record] \in Object
        /\ [state |-> "committed", version |-> issued + 1] \in Put
    BY <1>14 DEF TypeOK, Object, Put, Proposal
  <2> QED  BY <1>14, <2>1 DEF StoreCommits, commit, TypeOK, authority
<1>15. ASSUME NEW c \in Client, PutSucceeds(c) PROVE TypeOK'
  <2>1. put[c].version \in Nat
    BY DEF TypeOK, Put
  <2> QED  BY <1>15, <2>1, ConfirmTypes DEF PutSucceeds, TypeOK, storeVars
<1>16. ASSUME NEW c \in Client, PutUnknown(c) PROVE TypeOK'
  <2>1. late' \subseteq Record
    BY <1>16 DEF PutUnknown, abandonWrite, TypeOK, Proposal
  <2> QED  BY <1>16, <2>1, ReturnTypes DEF PutUnknown, TypeOK, authority
<1>17. ASSUME NEW c \in Client, PutConflicts(c) PROVE TypeOK'
  <2>1. CASE return(c) /\ UNCHANGED <<lease, pending, get>>
    BY <1>17, <2>1, ReturnTypes DEF PutConflicts, TypeOK, storeVars
  <2>2. CASE dropPending(c, prop[c]) /\ return(c) /\ UNCHANGED get
    BY <1>17, <2>2, ReturnTypes, DropTypes DEF PutConflicts, TypeOK, storeVars
  <2>3. CASE callRead(c, "conflictRead", prop[c]) /\ UNCHANGED <<lease, pending>>
    <3>1. prop[c] \in Proposal
      BY DEF TypeOK
    <3> QED  BY <1>17, <2>3, <3>1, CallReadTypes
                DEF PutConflicts, TypeOK, storeVars, Location
  <2> QED  BY <1>17, <2>1, <2>2, <2>3 DEF PutConflicts
<1>18. ASSUME NEW c \in Client, PutRefused(c) PROVE TypeOK'
  BY <1>18, ReturnTypes, ClearType DEF PutRefused, TypeOK, storeVars
<1>19. ASSUME NEW c \in Client, ReadbackDecides(c) PROVE TypeOK'
  <2>1. CASE confirm(c, cur[c].version)
    <3>1. cur[c].version \in Nat
      BY DEF TypeOK, Observed
    <3> QED  BY <1>19, <2>1, <3>1, ConfirmTypes DEF ReadbackDecides, TypeOK, storeVars
  <2>2. CASE dropPending(c, prop[c]) /\ return(c) /\ UNCHANGED <<observed, get, granted>>
    BY <1>19, <2>2, ReturnTypes, DropTypes DEF ReadbackDecides, TypeOK, storeVars
  <2>3. CASE unresolved(c) /\ UNCHANGED <<observed, get, granted>>
    <3>1. CASE return(c) /\ UNCHANGED <<lease, pending>>
      BY <1>19, <2>3, <3>1, ReturnTypes DEF ReadbackDecides, TypeOK, storeVars
    <3>2. CASE sendPending(c, prop[c])
      <4>1. prop[c] \in Proposal
        BY DEF TypeOK
      <4> QED  BY <1>19, <2>3, <3>2, <4>1, SendPendingTypes
                  DEF ReadbackDecides, TypeOK, storeVars
    <3> QED  BY <2>3, <3>1, <3>2 DEF unresolved
  <2> QED  BY <1>19, <2>1, <2>2, <2>3 DEF ReadbackDecides
<1>20. CASE UNCHANGED vars
  BY <1>20 DEF vars, TypeOK
<1>21. ASSUME NEW c \in Client, AttemptRepeated(c) PROVE TypeOK'
  <2>1. late' \subseteq Record
    BY <1>21 DEF AttemptRepeated, abandonWrite, TypeOK, Proposal
  <2>2. [state |-> "sent", version |-> 0] \in Put
    BY DEF Put
  <2> QED  BY <1>21, <2>1, <2>2 DEF AttemptRepeated, TypeOK, authority
<1> QED
  BY <1>1, <1>2, <1>3, <1>4, <1>5, <1>6, <1>7, <1>9, <1>10, <1>11, <1>12, <1>13,
     <1>14, <1>15, <1>16, <1>17, <1>18, <1>19, <1>20, <1>21
     DEF Next, CallStep

\* Every variable keeps its type and the counters of record.go never wrap:
\* Require, Renew and Release refuse to pass MaxCounter (ErrCounterOverflow).
THEOREM TypeCorrect == Spec => []TypeOK
BY InitTypes, NextTypes, PTL DEF Spec

--------------------------------------------------------------------------------
(***************************************************************************)
(* Steps that leave the store and the clock alone.                         *)
(***************************************************************************)

Others(c) ==
  \A d \in Client \ {c} :
    /\ observed'[d] = observed[d] /\ lease'[d] = lease[d] /\ pending'[d] = pending[d]
    /\ terminal'[d] = terminal[d] /\ pc'[d] = pc[d] /\ prop'[d] = prop[d]
    /\ cur'[d] = cur[d] /\ put'[d] = put[d] /\ get'[d] = get[d]

\* A step of c that touches neither the object nor the clock, and neither
\* grants nor extends a lease.
Quiet(c) ==
  /\ UNCHANGED <<now, object, issued>> /\ Others(c)
  /\ lease'[c] = lease[c] \/ ~lease'[c].held
  /\ grantInFlight(c)' => grantInFlight(c) /\ prop'[c] = prop[c]

LEMMA ConfirmedGrantQuiet ==
  ASSUME NEW c \in Client, Quiet(c), NEW r, OfConfirmedGrant(r)
  PROVE  OfConfirmedGrant(r)'
BY DEF Quiet, Others, OfConfirmedGrant, grantInFlight

LEMMA GrantProposalQuiet ==
  ASSUME NEW c \in Client, Quiet(c), NEW d \in Client, NEW p, GrantProposal(d, p)
  PROVE  GrantProposal(d, p)'
<1> SUFFICES ASSUME p.kind \in {"renew", "release"}
             PROVE  GrantProposal(d, p)'
  BY DEF GrantProposal
<1>1. OfConfirmedGrant(p.record)'
  BY ConfirmedGrantQuiet DEF GrantProposal
<1>2. (p.expected <= object.version)'
      /\ ((p.expected = object.version)' => NextInGrant(p.record)')
  BY DEF GrantProposal, Quiet, NextInGrant
<1>3. (p.kind = "renew" /\ heldBy(d, p))' =>
        (p.record.seq = lease[d].seq + 1 /\ p.ends = lease[d].validUntil)'
  BY DEF GrantProposal, Quiet, Others, heldBy
<1> QED  BY <1>1, <1>2, <1>3 DEF GrantProposal

\* Whoever takes a quiet step, the others keep their part of the invariant.
LEMMA OthersQuiet ==
  ASSUME NEW c \in Client, Quiet(c), NEW d \in Client \ {c}, Local(d)
  PROVE  Local(d)'
<1>1. CallOK(d)'
  BY DEF Local, CallOK, Quiet, Others
<1>2. SnapshotOK(d)'
  BY DEF Local, SnapshotOK, Past, Quiet, Others
<1>3. SinceOK(d)'
  BY DEF Local, SinceOK, Quiet, Others
<1>4. ProposalOK(d)'
  <2>1. GrantProposal(d, pending[d])' /\ GrantProposal(d, prop[d])'
    <3>1. GrantProposal(d, pending[d]) /\ GrantProposal(d, prop[d])
      BY DEF Local, ProposalOK
    <3>2. pending'[d] = pending[d] /\ prop'[d] = prop[d] /\ d \in Client
      BY DEF Quiet, Others
    <3> QED  BY <3>1, <3>2, GrantProposalQuiet
  <2> QED  BY <2>1 DEF Local, ProposalOK, NextGrant, Quiet, Others
<1>5. ReadOK(d)'
  BY DEF Local, ReadOK, Quiet, Others
<1> QED  BY <1>1, <1>2, <1>3, <1>4, <1>5 DEF Local

LEMMA QuietStep ==
  ASSUME Safe, TypeOK', NEW c \in Client, Quiet(c), Local(c)',
         \A r \in late' : r \in late \/ Harmless(r)
  PROVE  Safe'
<1>1. StoreInv'
  BY DEF Safe, StoreInv, Quiet
<1>2. LateInv'
  <2> SUFFICES ASSUME NEW r \in late' PROVE Harmless(r)'
    BY DEF LateInv
  <2>1. Harmless(r)
    BY DEF Safe, LateInv, Harmless
  <2>2. (NextGrant(r) => NextGrant(r)') /\ (NextInGrant(r) => NextInGrant(r)')
    BY DEF NextGrant, NextInGrant, Quiet
  <2> QED  BY <2>1, <2>2, ConfirmedGrantQuiet DEF Harmless
<1>3. EpochInv'
  BY DEF Safe, EpochInv, Quiet, Others, grantInFlight
<1>4. GrantInv'
  BY DEF Safe, GrantInv, Quiet, Others, grantInFlight
<1>5. AuthorityInv'
  BY DEF Safe, AuthorityInv, AuthorityBacked, Valid, Quiet, Others
<1>6. \A d \in Client : Local(d)'
  BY OthersQuiet DEF Safe
<1> QED  BY <1>1, <1>2, <1>3, <1>4, <1>5, <1>6 DEF Safe

\* The numbers of a well-typed state.
LEMMA ObservedFields ==
  ASSUME NEW x \in Observed
  PROVE  /\ x.version \in Nat /\ x.since \in Nat /\ x.record \in Record
         /\ x.record.epoch \in Nat /\ x.record.seq \in Nat /\ x.record.at \in Nat
         /\ x.record.dur \in Nat
BY CounterAssumption DEF Observed, Record

LEMMA ObjectFields ==
  ASSUME NEW x \in Object
  PROVE  /\ x.version \in Nat /\ x.record \in Record
         /\ x.record.epoch \in Nat /\ x.record.seq \in Nat /\ x.record.at \in Nat
         /\ x.record.dur \in Nat
BY CounterAssumption DEF Object, Record

LEMMA ProposalFields ==
  ASSUME NEW x \in Proposal
  PROVE  /\ x.expected \in Nat /\ x.ends \in Nat /\ x.record \in Record
         /\ x.record.epoch \in Nat /\ x.record.seq \in Nat /\ x.record.at \in Nat
         /\ x.record.dur \in Nat
BY CounterAssumption DEF Proposal, Record

\* The empty values were never an object, and lie before every object.
LEMMA EmptyIsPast ==
  ASSUME TypeOK, StoreInv
  PROVE  Past(0, NoRecord)
<1>1. /\ object.version \in Nat /\ object.record.epoch \in Nat
      /\ object.record.seq \in Nat
  BY ObjectFields DEF TypeOK
<1>2. CASE object.version = 0
  BY <1>1, <1>2 DEF StoreInv, NoObject, Past, NoRecord, AtOrAfter
<1>3. CASE object.version # 0
  BY <1>1, <1>3 DEF StoreInv, Past, NoRecord, AtOrAfter, validRecord
<1> QED  BY <1>2, <1>3

LEMMA CurrentIsPast ==
  ASSUME TypeOK, StoreInv
  PROVE  Past(object.version, object.record)
<1>1. /\ object.version \in Nat /\ object.record.epoch \in Nat
      /\ object.record.seq \in Nat
  BY ObjectFields DEF TypeOK
<1> QED  BY <1>1 DEF StoreInv, NoObject, Past, AtOrAfter

\* A process at rest, between calls or just restarted, has nothing to prove.
LEMMA NoProposalOK ==
  ASSUME NEW c, NEW p, p.kind = "none"
  PROVE  GrantProposal(c, p)
BY DEF GrantProposal

LEMMA StartReadOK ==
  ASSUME Safe, NEW c \in Client, NEW r \in Reader, startRead(c, r),
         UNCHANGED <<now, object, observed, terminal>>
  PROVE  /\ \A q \in Reader : Past(get[c][q].found.version, get[c][q].found.record)'
         /\ SinceOK(c)' /\ ReadOK(c)' /\ get'[c][r].busy
         /\ \A d \in Client \ {c} : get'[d] = get[d]
<1>1. /\ get'[c][r] = [busy |-> TRUE, asked |-> now, found |-> object, same |-> TRUE]
      /\ \A q \in Reader \ {r} : get'[c][q] = get[c][q]
      /\ \A d \in Client \ {c} : get'[d] = get[d]
  BY DEF Safe, TypeOK, startRead
<1>2. Past(object.version, object.record) /\ SnapshotOK(c) /\ SinceOK(c) /\ ReadOK(c)
  BY CurrentIsPast DEF Safe, Local
<1>3. \A q \in Reader : Past(get[c][q].found.version, get[c][q].found.record)'
  BY <1>1, <1>2 DEF SnapshotOK, Past
<1>4. SinceOK(c)'
  BY <1>1, <1>2 DEF SinceOK, Safe, StoreInv
<1>5. ReadOK(c)'
  <2>1. observed[c].version # 0 =>
          object.version # 0 /\ recordsCompatible(observed[c].record, object.record)
    <3>1. observed[c] \in Observed /\ object \in Object
      BY DEF Safe, TypeOK
    <3> QED  BY <1>2, <3>1, ObservedFields, ObjectFields
                DEF SnapshotOK, Past, recordsCompatible
  <2>2. object.version = observed[c].version => object.record = observed[c].record
    BY <1>2 DEF SnapshotOK, Past
  <2> QED  BY <1>1, <1>2, <2>1, <2>2 DEF ReadOK
<1> QED  BY <1>1, <1>3, <1>4, <1>5

\* A read that ends without being installed.
LEMMA FinishReadOK ==
  ASSUME Safe, NEW c \in Client, NEW r \in Reader, finishRead(c, r),
         UNCHANGED <<now, object, observed, terminal>>
  PROVE  /\ \A q \in Reader : Past(get[c][q].found.version, get[c][q].found.record)'
         /\ SinceOK(c)' /\ ReadOK(c)'
         /\ \A d \in Client \ {c} : get'[d] = get[d]
         /\ \A q \in Reader \ {r} : get'[c][q] = get[c][q]
<1>1. /\ get'[c][r] = NoGet
      /\ \A q \in Reader \ {r} : get'[c][q] = get[c][q]
      /\ \A d \in Client \ {c} : get'[d] = get[d]
  BY DEF Safe, TypeOK, finishRead
<1>2. Past(0, NoRecord) /\ SnapshotOK(c) /\ SinceOK(c) /\ ReadOK(c)
  BY EmptyIsPast DEF Safe, Local
<1>3. \A q \in Reader : Past(get[c][q].found.version, get[c][q].found.record)'
  BY <1>1, <1>2 DEF SnapshotOK, Past, NoGet, NoObject
<1>4. SinceOK(c)'
  BY <1>1, <1>2 DEF SinceOK, NoGet
<1>5. ReadOK(c)'
  BY <1>1, <1>2 DEF ReadOK, NoGet
<1> QED  BY <1>1, <1>3, <1>4, <1>5

\* Without interference no read contradicts what the process has seen.
LEMMA NoViolation ==
  ASSUME Safe, NEW c \in Client, NEW r \in Reader, get[c][r].busy, get[c][r].same
  PROVE  ~violation(c, get[c][r].found)
<1>1. ReadOK(c) /\ SnapshotOK(c)
  BY DEF Safe, Local
<1> QED  BY <1>1 DEF ReadOK, SnapshotOK, Past, violation, incompatible

\* What readCurrent leaves behind, however it ends.
LEMMA ReadStep ==
  ASSUME Safe, NEW c \in Client, NEW r \in Reader, get[c][r].busy,
         UNCHANGED <<now, object>>,
         \/ readFails(c, r) \/ readViolates(c, r) \/ readNotFound(c, r)
         \/ readSuperseded(c, r) \/ readInstalls(c, r)
  PROVE  /\ Past(observed[c].version, observed[c].record)'
         /\ \A q \in Reader : Past(get[c][q].found.version, get[c][q].found.record)'
         /\ SinceOK(c)' /\ ReadOK(c)'
         /\ lease'[c] = lease[c] \/ ~lease'[c].held
         /\ \A d \in Client \ {c} :
              /\ observed'[d] = observed[d] /\ lease'[d] = lease[d]
              /\ terminal'[d] = terminal[d] /\ get'[d] = get[d]
         /\ \A q \in Reader \ {r} : get'[c][q].busy = get[c][q].busy
<1>1. CASE \/ readFails(c, r) \/ readNotFound(c, r) \/ readSuperseded(c, r)
  <2>1. finishRead(c, r) /\ UNCHANGED <<observed, lease, terminal>>
    BY <1>1 DEF readFails, readNotFound, readSuperseded
  <2>2. Past(observed[c].version, observed[c].record)'
    BY <2>1 DEF Safe, Local, SnapshotOK, Past
  <2> QED  BY <2>1, <2>2, FinishReadOK
<1>2. CASE readViolates(c, r)
  BY <1>2, NoViolation DEF readViolates, superseded
<1>3. CASE readInstalls(c, r)
  <2> DEFINE o == get[c][r].found
  <2>1. PICK readAt \in get[c][r].asked .. now :
          replaceObserved(c, o.version, o.record, unchangedSince(c, o, readAt))
    BY <1>3 DEF readInstalls
  <2>2. /\ observed'[c] = [version |-> o.version, record |-> o.record,
                           since |-> unchangedSince(c, o, readAt)]
        /\ \A d \in Client \ {c} : observed'[d] = observed[d]
    BY <2>1 DEF replaceObserved, Safe, TypeOK
  <2>3. /\ lease'[c] = lease[c] \/ ~lease'[c].held
        /\ \A d \in Client \ {c} : lease'[d] = lease[d]
        /\ terminal' = terminal
    BY <1>3 DEF readInstalls, Safe, TypeOK, NoLease
  <2>4. /\ get'[c][r] = NoGet
        /\ \A q \in Reader \ {r} :
             /\ get'[c][q].busy = get[c][q].busy /\ get'[c][q].asked = get[c][q].asked
             /\ get'[c][q].found = get[c][q].found /\ ~get'[c][q].same
        /\ \A d \in Client \ {c} : get'[d] = get[d]
    BY <1>3 DEF readInstalls, outdateReads, Safe, TypeOK
  <2>5. SnapshotOK(c) /\ SinceOK(c) /\ ReadOK(c) /\ Past(0, NoRecord)
    BY EmptyIsPast DEF Safe, Local
  <2>6. Past(observed[c].version, observed[c].record)'
    BY <2>2, <2>5 DEF SnapshotOK, Past
  <2>7. \A q \in Reader : Past(get[c][q].found.version, get[c][q].found.record)'
    BY <2>4, <2>5 DEF SnapshotOK, Past, NoGet, NoObject
  <2>8. SinceOK(c)'
    <3>1. o.version = object.version => object.record.at <= unchangedSince(c, o, readAt)
      <4>1. /\ object.record.at \in Nat /\ get[c][r].asked \in Nat /\ readAt \in Nat
            /\ get[c][r].asked <= readAt
        BY <2>1, ObjectFields DEF Safe, TypeOK, Get
      <4> QED  BY <2>5, <4>1 DEF SinceOK, unchangedSince
    <3> QED  BY <2>2, <2>4, <2>5, <3>1 DEF SinceOK, NoGet
  <2>9. ReadOK(c)'
    BY <2>3, <2>4, <2>5 DEF ReadOK, NoGet
  <2> QED  BY <2>2, <2>3, <2>4, <2>6, <2>7, <2>8, <2>9
<1> QED  BY <1>1, <1>2, <1>3

\* Frozen proposals of the grant stay in order through a quiet step.
LEMMA KeepsProposals ==
  ASSUME Safe, NEW c \in Client, Quiet(c),
         pending'[c] = pending[c] \/ pending'[c] = NoProposal,
         prop'[c] = prop[c] \/ prop'[c] = NoProposal \/ prop'[c] = pending[c],
         prop'[c].kind = "acquire" => prop'[c] = prop[c],
         prop'[c].kind = "acquire" /\ put'[c].state # "none" => put[c].state # "none"
  PROVE  ProposalOK(c)'
<1>1. ProposalOK(c)
  BY DEF Safe, Local
<1>2. GrantProposal(c, pending[c])' /\ GrantProposal(c, prop[c])'
  <2>1. /\ GrantProposal(c, pending[c]) /\ GrantProposal(c, prop[c])
        /\ GrantProposal(c, NoProposal)
    BY <1>1, NoProposalOK DEF ProposalOK, NoProposal
  <2>2. GrantProposal(c, pending'[c])
    BY <2>1
  <2>3. GrantProposal(c, prop'[c])
    BY <2>1
  <2>4. ASSUME NEW p, GrantProposal(c, p) PROVE GrantProposal(c, p)'
    BY <2>4, GrantProposalQuiet
  <2> QED  BY <2>2, <2>3, <2>4
<1> QED  BY <1>1, <1>2 DEF ProposalOK, NextGrant, Quiet

\* A call that returns leaves its process at rest.
LEMMA ReturnFacts ==
  ASSUME TypeOK, NEW c \in Client, return(c)
  PROVE  /\ pc'[c] = "idle" /\ prop'[c] = NoProposal /\ cur'[c] = NotObserved
         /\ put'[c] = NoPut
         /\ \A d \in Client \ {c} : /\ pc'[d] = pc[d] /\ prop'[d] = prop[d]
                                    /\ cur'[d] = cur[d] /\ put'[d] = put[d]
BY DEF return, TypeOK

LEMMA SendFacts ==
  ASSUME TypeOK, NEW c \in Client, NEW p, send(c, p)
  PROVE  /\ pc'[c] = "put" /\ prop'[c] = p /\ cur'[c] = NotObserved
         /\ put'[c].state = "sent"
         /\ \A d \in Client \ {c} : /\ pc'[d] = pc[d] /\ prop'[d] = prop[d]
                                    /\ cur'[d] = cur[d] /\ put'[d] = put[d]
BY DEF send, TypeOK

LEMMA CallReadFacts ==
  ASSUME TypeOK, NEW c \in Client, NEW p, NEW step, callRead(c, step, p)
  PROVE  /\ pc'[c] = step /\ prop'[c] = p /\ cur'[c] = NotObserved
         /\ put'[c] = NoPut /\ startRead(c, "mutation")
         /\ \A d \in Client \ {c} : /\ pc'[d] = pc[d] /\ prop'[d] = prop[d]
                                    /\ cur'[d] = cur[d] /\ put'[d] = put[d]
BY DEF callRead, TypeOK

LEMMA AtRest ==
  ASSUME Safe, NEW c \in Client, Quiet(c), return(c),
         Past(observed[c].version, observed[c].record)',
         \A q \in Reader : Past(get[c][q].found.version, get[c][q].found.record)',
         SinceOK(c)', ReadOK(c)',
         pending'[c] = pending[c] \/ pending'[c] = NoProposal
  PROVE  Local(c)'
<1>1. /\ pc'[c] = "idle" /\ prop'[c] = NoProposal /\ cur'[c] = NotObserved
      /\ put'[c] = NoPut
  BY ReturnFacts DEF Safe
<1>2. CallOK(c)'
  BY <1>1 DEF CallOK, NoProposal, NoPut
<1>3. SnapshotOK(c)'
  <2>1. Past(cur[c].version, cur[c].record)'
    BY <1>1, EmptyIsPast DEF Safe, NotObserved, Past, Quiet
  <2> QED  BY <1>1, <2>1 DEF SnapshotOK, NoPut
<1>4. ProposalOK(c)'
  BY <1>1, KeepsProposals DEF NoProposal
<1> QED  BY <1>2, <1>3, <1>4 DEF Local

\* A call that goes on to a read carries at most a proposal it already had.
LEMMA AtRead ==
  ASSUME Safe, NEW c \in Client, Quiet(c), NEW step, NEW p, callRead(c, step, p),
         UNCHANGED <<observed, terminal>>,
         \/ step = "requireRead" /\ p = NoProposal /\ ~lease'[c].held
         \/ /\ step \in {"reconcileRead", "conflictRead"}
            /\ p.kind \in {"renew", "release"} /\ (p = pending[c] \/ p = prop[c]),
         pending'[c] = pending[c] \/ pending'[c] = NoProposal
  PROVE  Local(c)'
<1>1. /\ pc'[c] = step /\ prop'[c] = p /\ cur'[c] = NotObserved
      /\ put'[c] = NoPut /\ startRead(c, "mutation")
  BY CallReadFacts DEF Safe
<1>2. /\ \A q \in Reader : Past(get[c][q].found.version, get[c][q].found.record)'
      /\ SinceOK(c)' /\ ReadOK(c)' /\ get'[c]["mutation"].busy
  BY <1>1, StartReadOK DEF Quiet, Reader
<1>3. CallOK(c)'
  BY <1>1, <1>2 DEF CallOK, NoProposal, NoPut
<1>4. SnapshotOK(c)'
  <2>1. Past(cur[c].version, cur[c].record)'
    BY <1>1, EmptyIsPast DEF Safe, NotObserved, Past, Quiet
  <2>2. Past(observed[c].version, observed[c].record)'
    BY DEF Safe, Local, SnapshotOK, Past, Quiet
  <2> QED  BY <1>1, <1>2, <2>1, <2>2 DEF SnapshotOK, NoPut
<1>5. ProposalOK(c)'
  BY <1>1, KeepsProposals DEF NoProposal
<1> QED  BY <1>2, <1>3, <1>4, <1>5 DEF Local

\* A call that sends a proposal of its grant.
LEMMA AtSend ==
  ASSUME Safe, NEW c \in Client, Quiet(c), NEW p, send(c, p),
         UNCHANGED <<observed, terminal, get>>,
         p.kind \in {"renew", "release"}, GrantProposal(c, p)',
         pending'[c] = p
  PROVE  Local(c)'
<1>1. /\ pc'[c] = "put" /\ prop'[c] = p /\ cur'[c] = NotObserved
      /\ put'[c].state = "sent"
  BY SendFacts DEF Safe
<1>2. CallOK(c)'
  BY <1>1 DEF CallOK
<1>3. SnapshotOK(c)'
  <2>1. Past(cur[c].version, cur[c].record)'
    BY <1>1, EmptyIsPast DEF Safe, NotObserved, Past, Quiet
  <2> QED  BY <1>1, <2>1 DEF Safe, Local, SnapshotOK, Past, Quiet
<1>4. SinceOK(c)' /\ ReadOK(c)'
  BY DEF Safe, Local, SinceOK, ReadOK, Quiet
<1>5. ProposalOK(c)'
  BY <1>1 DEF ProposalOK
<1> QED  BY <1>2, <1>3, <1>4, <1>5 DEF Local

\* What a process gives up on can only do what it was allowed to do before.
LEMMA AbandonOK ==
  ASSUME Safe, NEW c \in Client, abandonWrite(c)
  PROVE  \A r \in late' : r \in late \/ Harmless(r)
<1>1. CASE put[c].state = "sent" /\ matches(prop[c].expected)
  <2>1. prop[c].expected = object.version /\ prop[c].kind \in {"acquire", "renew", "release"}
    BY <1>1 DEF matches, Safe, Local, CallOK, TypeOK, Proposal
  <2>2. Harmless(prop[c].record)
    BY <1>1, <2>1 DEF Safe, Local, ProposalOK, GrantProposal, Harmless
  <2> QED  BY <1>1, <2>2 DEF abandonWrite
<1>2. CASE ~(put[c].state = "sent" /\ matches(prop[c].expected))
  BY <1>2 DEF abandonWrite
<1> QED  BY <1>1, <1>2

================================================================================
