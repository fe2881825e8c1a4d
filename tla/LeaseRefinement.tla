---------------------------- MODULE LeaseRefinement ----------------------------
(***************************************************************************)
(* LeaseCore implements Leadership: what the application sees of a lease,  *)
(* through Check and the epoch of its grants, is exclusive, monotone and   *)
(* never comes back once it is gone.                                       *)
(***************************************************************************)
EXTENDS LeaseSafetyProofs

\* A step that gives authority to nobody.
NoNewAuthority ==
  /\ granted' = granted
  /\ now' = now \/ now' = now + 1
  /\ \A d \in Client : lease'[d] = lease[d] \/ ~lease'[d].held

\* The renewal of c is confirmed while its lease still runs.
Extends(c) ==
  /\ granted' = granted /\ now' = now
  /\ Valid(c) /\ Valid(c)'
  /\ \A d \in Client \ {c} : lease'[d] = lease[d]

\* The acquisition of c is confirmed before its deadline.
Grants(c) ==
  /\ grantInFlight(c) /\ granted' = prop[c].record.epoch
  /\ object.record = prop[c].record /\ now' = now /\ Valid(c)' /\ ~grantInFlight(c)'
  /\ \A d \in Client \ {c} : lease'[d] = lease[d]

LEMMA ReadKeeps ==
  ASSUME TypeOK, NEW c \in Client, NEW r \in Reader,
         \/ readFails(c, r) \/ readViolates(c, r) \/ readNotFound(c, r)
         \/ readSuperseded(c, r) \/ readInstalls(c, r)
  PROVE  \A d \in Client : lease'[d] = lease[d] \/ ~lease'[d].held
BY DEF readFails, readViolates, readNotFound, readSuperseded, readInstalls, retire,
       TypeOK, NoLease

LEMMA DropKeeps ==
  ASSUME TypeOK, NEW c \in Client, NEW p, dropPending(c, p)
  PROVE  \A d \in Client : lease'[d] = lease[d] \/ ~lease'[d].held
BY DropFacts

LEMMA ConfirmSteps ==
  ASSUME Safe, NEW c \in Client, NEW v \in Nat, confirm(c, v), now' = now,
         prop[c].kind = "acquire" => grantInFlight(c)
  PROVE  NoNewAuthority \/ Extends(c) \/ Grants(c)
<1>1. CASE prop[c].kind = "acquire" /\ confirmAcquisition(c, v)
  <2>1. CASE UNCHANGED <<lease, granted>>
    BY <2>1 DEF NoNewAuthority
  <2>2. CASE /\ acquisitionConfirmed(c, v) /\ granted' = prop[c].record.epoch
             /\ lease' = [lease EXCEPT ![c] =
                  [held |-> TRUE, uid |-> prop[c].record.uid,
                   epoch |-> prop[c].record.epoch, seq |-> prop[c].record.seq,
                   validUntil |-> proposalPhaseEnd(c, prop[c])]]
    <3>1. object.record = prop[c].record
      BY <1>1, <2>2 DEF Safe, GrantInv, acquisitionConfirmed, proposalPhaseEnd, proposalEnd
    <3>2. Valid(c)' /\ \A d \in Client \ {c} : lease'[d] = lease[d]
      BY <2>2 DEF Safe, TypeOK, Valid, acquisitionConfirmed
    <3>3. ~grantInFlight(c)'
      BY ReturnFacts DEF confirm, grantInFlight, NoPut, Safe
    <3> QED  BY <1>1, <2>2, <3>1, <3>2, <3>3 DEF Grants
  <2> QED  BY <1>1, <2>1, <2>2 DEF confirmAcquisition
<1>2. CASE prop[c].kind = "renew" /\ confirmRenewal(c, v) /\ UNCHANGED granted
  <2>1. CASE dropPending(c, prop[c])
    BY <1>2, <2>1, DropKeeps DEF NoNewAuthority, Safe
  <2>2. CASE /\ renewalConfirmed(c)
             /\ lease' = [lease EXCEPT ![c] =
                  [held |-> TRUE, uid |-> lease[c].uid, epoch |-> lease[c].epoch,
                   seq |-> prop[c].record.seq, validUntil |-> proposalEnd(c, prop[c])]]
    <3>1. prop[c].ends = lease[c].validUntil
      BY <1>2, <2>2 DEF renewalConfirmed, Safe, Local, ProposalOK, GrantProposal
    <3>2. Valid(c)
      BY <2>2, <3>1 DEF renewalConfirmed, heldBy, Valid
    <3>3. Valid(c)' /\ \A d \in Client \ {c} : lease'[d] = lease[d]
      BY <2>2 DEF Safe, TypeOK, Valid, renewalConfirmed
    <3> QED  BY <1>2, <3>2, <3>3 DEF Extends
  <2> QED  BY <1>2, <2>1, <2>2 DEF confirmRenewal
<1>3. CASE prop[c].kind = "release" /\ confirmRelease(c, v) /\ UNCHANGED granted
  BY <1>3 DEF confirmRelease, NoNewAuthority
<1> QED  BY <1>1, <1>2, <1>3 DEF confirm

\* Authority changes in three ways only.
LEMMA AuthoritySteps ==
  ASSUME Safe, [Next]_vars
  PROVE  NoNewAuthority \/ \E c \in Client : Extends(c) \/ Grants(c)
<1>1. Tick \/ UNCHANGED vars => NoNewAuthority
  BY DEF Tick, vars, authority, NoNewAuthority
<1>2. ASSUME NEW record \in late, LateWriteArrives(record) PROVE NoNewAuthority
  BY <1>2 DEF LateWriteArrives, authority, NoNewAuthority
<1>3. ASSUME NEW c \in Client, Crash(c) \/ Expire(c) PROVE NoNewAuthority
  BY <1>3, RetireFacts DEF Crash, Expire, NoNewAuthority, Safe
<1>4. ASSUME NEW c \in Client, NEW r \in ObserveCalls, Observe(c, r) \/ ObserveReturns(c, r)
      PROVE  NoNewAuthority
  BY <1>4, ReadKeeps DEF Observe, ObserveReturns, authority, NoNewAuthority, Safe, Reader
<1>5. ASSUME NEW c \in Client, Require(c) PROVE NoNewAuthority
  BY <1>5 DEF Require, NoNewAuthority, Safe, TypeOK, NoLease
<1>6. ASSUME NEW c \in Client, NEW kind, reconcilePending(c, kind)
      PROVE  \A d \in Client : lease'[d] = lease[d] \/ ~lease'[d].held
  BY <1>6, DropKeeps DEF reconcilePending, Safe
<1>7. ASSUME NEW c \in Client, Renew(c) \/ Release(c) PROVE NoNewAuthority
  BY <1>6, <1>7, RetireFacts DEF Renew, Release, NoNewAuthority, Safe
<1>8. ASSUME NEW c \in Client, NEW p, sendPending(c, p)
      PROVE  \A d \in Client : lease'[d] = lease[d] \/ ~lease'[d].held
  BY <1>8, DropKeeps DEF sendPending, Safe
<1>9. ASSUME NEW c \in Client, RequireDecides(c) \/ ReadbackReturns(c)
      PROVE  NoNewAuthority
  BY <1>9, ReadKeeps DEF RequireDecides, ReadbackReturns, NoNewAuthority, Safe, Reader
<1>10. ASSUME NEW c \in Client, RenewFreezes(c) PROVE NoNewAuthority
  BY <1>8, <1>10 DEF RenewFreezes, NoNewAuthority, Safe, TypeOK, NoLease
<1>11. ASSUME NEW c \in Client,
              \/ StoreCommits(c) \/ PutUnknown(c) \/ PutRefused(c)
              \/ PutConflicts(c) \/ AttemptRepeated(c)
       PROVE  NoNewAuthority
  BY <1>11, DropKeeps
     DEF StoreCommits, PutUnknown, PutRefused, PutConflicts, AttemptRepeated, authority,
         NoNewAuthority, Safe
<1>12. ASSUME NEW c \in Client, PutSucceeds(c)
       PROVE  NoNewAuthority \/ Extends(c) \/ Grants(c)
  <2>1. put[c].version \in Nat
    BY DEF Safe, TypeOK, Put
  <2> QED  BY <1>12, <2>1, ConfirmSteps DEF PutSucceeds, grantInFlight
<1>13. ASSUME NEW c \in Client, ReadbackDecides(c)
       PROVE  NoNewAuthority \/ Extends(c) \/ Grants(c)
  <2>1. prop[c].kind # "acquire" /\ cur[c].version \in Nat /\ now' = now
    BY <1>13 DEF ReadbackDecides, Safe, Local, CallOK, TypeOK, Observed
  <2>2. CASE confirm(c, cur[c].version)
    BY <2>1, <2>2, ConfirmSteps
  <2>3. CASE (dropPending(c, prop[c]) \/ unresolved(c)) /\ UNCHANGED granted
    BY <1>8, <2>1, <2>3, DropKeeps DEF unresolved, NoNewAuthority, Safe
  <2> QED  BY <1>13, <2>2, <2>3 DEF ReadbackDecides
<1> QED
  BY <1>1, <1>2, <1>3, <1>4, <1>5, <1>7, <1>9, <1>10, <1>11, <1>12, <1>13
     DEF Next, CallStep

\* A grant comes into flight only when the store commits it, in a new epoch.
LEMMA FlightSteps ==
  ASSUME Safe, [Next]_vars, NEW d \in Client, grantInFlight(d)'
  PROVE  \/ grantInFlight(d) /\ prop'[d] = prop[d]
         \/ /\ StoreCommits(d) /\ NextGrant(prop[d].record)
            /\ object'.record = prop[d].record /\ prop'[d] = prop[d]
<1> DEFINE Kept == prop'[d] = prop[d] /\ put'[d] = put[d]
<1>1. ASSUME NEW c \in Client, return(c) PROVE Kept
  BY <1>1, ReturnFacts DEF Safe, NoPut, grantInFlight
<1>2. ASSUME NEW c \in Client, NEW p, send(c, p) PROVE Kept
  BY <1>2, SendFacts DEF Safe, grantInFlight
<1>3. ASSUME NEW c \in Client, NEW step, NEW p, callRead(c, step, p) PROVE Kept
  BY <1>3, CallReadFacts DEF Safe, NoPut, grantInFlight
<1>4. Tick \/ UNCHANGED vars => Kept
  BY DEF Tick, vars, callVars
<1>5. ASSUME NEW record \in late, LateWriteArrives(record) PROVE Kept
  BY <1>5 DEF LateWriteArrives, callVars
<1>6. ASSUME NEW c \in Client,
             \/ \E r \in ObserveCalls : Observe(c, r) \/ ObserveReturns(c, r)
             \/ Crash(c) \/ Expire(c) \/ Require(c)
      PROVE  Kept
  BY <1>1, <1>3, <1>6 DEF Crash, Expire, Observe, ObserveReturns, Require, callVars
<1>7. ASSUME NEW c \in Client, NEW kind, reconcilePending(c, kind) PROVE Kept
  BY <1>3, <1>7 DEF reconcilePending, callVars
<1>8. ASSUME NEW c \in Client, Renew(c) PROVE Kept
  <2>1. CASE prop' = [prop EXCEPT ![c] = renewal(c)] /\ UNCHANGED put
    <3>1. d # c
      BY <2>1 DEF grantInFlight, renewal, Safe, TypeOK
    <3> QED  BY <2>1, <3>1 DEF Safe, TypeOK
  <2> QED  BY <1>7, <1>8, <2>1 DEF Renew, callVars
<1>9. ASSUME NEW c \in Client, Release(c) PROVE Kept
  BY <1>1, <1>2, <1>7, <1>9 DEF Release, callVars
<1>10. ASSUME NEW c \in Client, NEW p, sendPending(c, p) PROVE Kept
  BY <1>1, <1>2, <1>10 DEF sendPending
<1>15. ASSUME NEW c \in Client, AttemptRepeated(c) PROVE Kept
  BY <1>15 DEF AttemptRepeated, grantInFlight, Safe, TypeOK
<1>11. ASSUME NEW c \in Client, CallStep(c), ~StoreCommits(c) PROVE Kept
  BY <1>1, <1>2, <1>3, <1>10, <1>11, <1>15
     DEF CallStep, RequireDecides, RenewFreezes, ReadbackReturns, PutSucceeds, confirm,
         PutUnknown, PutConflicts, PutRefused, ReadbackDecides, unresolved
<1>12. ASSUME NEW c \in Client, StoreCommits(c)
       PROVE  \/ Kept
              \/ /\ StoreCommits(d) /\ NextGrant(prop[d].record)
                 /\ object'.record = prop[d].record /\ prop'[d] = prop[d]
  <2>1. CASE c = d
    BY <1>12, <2>1, SentIsHarmless DEF StoreCommits, commit, grantInFlight
  <2>2. CASE c # d
    BY <1>12, <2>2 DEF StoreCommits, Safe, TypeOK
  <2> QED  BY <2>1, <2>2
<1>13. Kept => grantInFlight(d) /\ prop'[d] = prop[d]
  BY DEF grantInFlight
<1> HIDE DEF Kept
<1>14. \/ Kept
       \/ /\ StoreCommits(d) /\ NextGrant(prop[d].record)
          /\ object'.record = prop[d].record /\ prop'[d] = prop[d]
  BY <1>4, <1>5, <1>6, <1>8, <1>9, <1>11, <1>12 DEF Next
<1> QED  BY <1>13, <1>14

LEMMA GrantedStep == Safe /\ GrantedInv /\ [Next]_vars => GrantedInv'
<1> SUFFICES ASSUME Safe, GrantedInv, [Next]_vars PROVE GrantedInv'
  OBVIOUS
<1>1. granted \in Nat /\ object.record.epoch \in Nat
  BY ObjectFields DEF Safe, TypeOK
<1>2. object'.record.epoch \in Nat /\ object.record.epoch <= object'.record.epoch
  <2>1. CASE object' = object
    BY <1>1, <2>1
  <2>2. CASE \E record \in Record : Harmless(record) /\ object'.record = record
    BY <1>1, <2>2 DEF Harmless, NextGrant, NextInGrant
  <2> QED  BY <2>1, <2>2, ObjectSteps
<1>3. granted' <= object'.record.epoch
  BY <1>1, <1>2, AuthoritySteps DEF NoNewAuthority, Extends, Grants, GrantedInv
<1>4. ASSUME NEW d \in Client, grantInFlight(d)' PROVE granted' # prop'[d].record.epoch
  <2>1. CASE grantInFlight(d) /\ prop'[d] = prop[d]
    BY <1>4, <2>1, AuthoritySteps
       DEF NoNewAuthority, Extends, Grants, GrantedInv, Safe, EpochInv
  <2>2. CASE StoreCommits(d) /\ NextGrant(prop[d].record) /\ prop'[d] = prop[d]
    <3>1. granted' = granted
      BY <2>2 DEF StoreCommits
    <3>2. prop[d].record.epoch = object.record.epoch + 1
      BY <2>2 DEF NextGrant
    <3> QED  BY <1>1, <2>2, <3>1, <3>2 DEF GrantedInv
  <2> QED  BY <1>4, <2>1, <2>2, FlightSteps
<1> QED  BY <1>3, <1>4 DEF GrantedInv

\* Every step of the protocol is a step of the promise, or changes nothing in it.
LEMMA StepRefines ==
  Safe /\ GrantedInv /\ [Next]_vars =>
    [Promise!Next]_<<{c \in Client : Valid(c)}, granted>>
<1> SUFFICES ASSUME Safe, GrantedInv, [Next]_vars
             PROVE  [Promise!Next]_<<{c \in Client : Valid(c)}, granted>>
  OBVIOUS
<1> DEFINE H == {c \in Client : Valid(c)}
<1>1. AtMostOneAuthority /\ granted \in Nat /\ object.record.epoch \in Nat /\ now \in Nat
      /\ \A c \in Client : lease[c].validUntil \in Nat
  BY AuthorityUnique, ObjectFields DEF Safe, TypeOK, Lease
<1>2. CASE NoNewAuthority
  <2>1. \A c \in Client : Valid(c)' => Valid(c)
    BY <1>1, <1>2 DEF NoNewAuthority, Valid
  <2>2. CASE \E c \in Client : Valid(c)'
    <3>1. H' = H
      BY <1>1, <2>1, <2>2 DEF AtMostOneAuthority
    <3> QED  BY <1>2, <3>1 DEF NoNewAuthority
  <2>3. CASE H = {}
    <3>1. H' = {}
      BY <2>1, <2>3
    <3> QED  BY <1>2, <2>3, <3>1 DEF NoNewAuthority
  <2>4. CASE H # {} /\ ~\E c \in Client : Valid(c)'
    <3>1. H' = {} /\ granted' = granted
      BY <1>2, <2>4 DEF NoNewAuthority
    <3>2. Promise!Lapse
      BY <2>4, <3>1 DEF Promise!Lapse
    <3> QED  BY <3>2 DEF Promise!Next
  <2> QED  BY <2>2, <2>3, <2>4
<1>3. ASSUME NEW c \in Client, Extends(c)
      PROVE  [Promise!Next]_<<{x \in Client : Valid(x)}, granted>>
  <2>1. \A d \in Client : Valid(d)' <=> Valid(d)
    BY <1>3 DEF Extends, Valid
  <2>2. H' = H
    BY <2>1
  <2> QED  BY <1>3, <2>2 DEF Extends
<1>4. ASSUME NEW c \in Client, Grants(c)
      PROVE  [Promise!Next]_<<{x \in Client : Valid(x)}, granted>>
  <2>1. \A d \in Client \ {c} : ~Valid(d) /\ ~Valid(d)'
    <3>1. \A d \in Client \ {c} : lease[d].held => lease[d].epoch # object.record.epoch
      BY <1>4 DEF Grants, Safe, EpochInv
    <3>2. \A d \in Client \ {c} : ~Valid(d)
      BY <3>1 DEF Safe, AuthorityInv, AuthorityBacked, Valid
    <3> QED  BY <1>4, <3>2 DEF Grants, Valid
  <2>2. ~Valid(c)
    BY <1>4 DEF Grants, Valid, grantInFlight, Safe, Local, CallOK
  <2>3. H = {} /\ H' = {c}
    BY <1>4, <2>1, <2>2 DEF Grants
  <2>4. granted' \in Nat /\ granted' > granted
    BY <1>1, <1>4 DEF Grants, GrantedInv
  <2>5. Promise!Grant(c)
    BY <2>3, <2>4 DEF Promise!Grant
  <2> QED  BY <2>5 DEF Promise!Next
<1> QED  BY <1>2, <1>3, <1>4, AuthoritySteps

\* The protocol keeps the promise of Leadership: authority is exclusive, each
\* grant carries an epoch above all earlier ones (granted by confirmAcquisition),
\* and authority that has expired or was retired never comes back.
THEOREM Refinement == Spec => KeepsPromise
<1>1. Init => GrantedInv /\ Promise!Init
  <2> SUFFICES ASSUME Init PROVE GrantedInv /\ Promise!Init
    OBVIOUS
  <2>1. granted = 0 /\ object.record.epoch = 0 /\ \A c \in Client : put[c] = NoPut
    BY DEF Init, NoObject, NoRecord
  <2>2. \A c \in Client : ~lease[c].held
    BY DEF Init, NoLease
  <2>3. {c \in Client : Valid(c)} = {}
    BY <2>2 DEF Valid
  <2> QED  BY <2>1, <2>3 DEF GrantedInv, grantInFlight, NoPut, Promise!Init
<1> QED  BY <1>1, GrantedStep, StepRefines, Invariance, PTL DEF Spec, KeepsPromise, Promise!Spec

================================================================================
