------------------------------- MODULE FaultProofs -------------------------------
(***************************************************************************)
(* What the core promises when somebody interferes with the object, for    *)
(* every number of interferences, processes and losses.  Safe does not     *)
(* hold here: the proofs rest on types and on what a process does locally. *)
(***************************************************************************)
EXTENDS LeaseFaults, LeaseSafetyProofs

\* A process that has failed closed holds nothing, and what it freezes of a grant
\* replaces a version it has seen.
Closed(c) ==
  /\ terminal[c] => ~lease[c].held
  /\ \A p \in {pending[c], prop[c]} : p.kind \in {"renew", "release"} => p.expected # 0
  /\ pc[c] \in {"frozen", "reconcileRead", "reconcileDecide", "conflictRead", "conflictDecide"}
       => prop[c].kind \in {"renew", "release"}
  /\ pc[c] = "put" => prop[c].kind # "none"

\* seen forgets with the observation.
SeenInv == \A c \in Client : seen[c] # 0 => observed[c].version # 0

FaultInv ==
  /\ TypeOK /\ creations \subseteq Record
  /\ SeenInv
  /\ \A c \in Client : Closed(c)

\* Nothing but c has changed.
Apart(c) ==
  \A d \in Client \ {c} :
    /\ terminal'[d] = terminal[d] /\ lease'[d] = lease[d] /\ pending'[d] = pending[d]
    /\ pc'[d] = pc[d] /\ prop'[d] = prop[d] /\ put'[d] = put[d]

\* c proposes to create the object.
Creates(c) == put[c].state = "none" /\ put'[c].state = "sent" /\ prop'[c].expected = 0

ClosedStep(c) == Closed(c)' /\ Apart(c) /\ (Creates(c) => observed[c].version = 0)

--------------------------------------------------------------------------------
\* The call of c carries what it had, or ends; it grants nothing.
LEMMA CarriesOn ==
  ASSUME NEW c \in Client, Closed(c), terminal'[c] = terminal[c],
         lease'[c] = lease[c] \/ ~lease'[c].held,
         pending'[c] \in {pending[c], prop[c], NoProposal},
         prop'[c] \in {pending[c], prop[c], NoProposal},
         pc'[c] \in {"idle", "requireRead"} \/ prop'[c].kind \in {"renew", "release"}
           \/ (pc'[c] = pc[c] /\ prop'[c] = prop[c])
  PROVE  Closed(c)'
BY DEF Closed, NoProposal

\* A step that sends nothing.
LEMMA SendsNothing ==
  ASSUME NEW c \in Client, put'[c] = NoPut \/ put'[c] = put[c] \/ put[c].state # "none"
  PROVE  ~Creates(c)
BY DEF Creates, NoPut

LEMMA SentPending ==
  ASSUME TypeOK, NEW c \in Client, Closed(c), terminal' = terminal,
         prop[c].kind \in {"renew", "release"}, sendPending(c, prop[c])
  PROVE  ClosedStep(c)
<1>1. CASE /\ send(c, prop[c]) /\ UNCHANGED lease
           /\ pending' = [pending EXCEPT ![c] = prop[c]]
  <2>1. pending'[c] = prop[c] /\ \A d \in Client \ {c} : pending'[d] = pending[d]
    BY <1>1 DEF TypeOK
  <2>2. Closed(c)' BY <1>1, <2>1, SendFacts, CarriesOn
  <2>3. prop'[c].expected # 0 BY <1>1, SendFacts DEF Closed
  <2> QED BY <1>1, <2>1, <2>2, <2>3, SendFacts DEF ClosedStep, Apart, Creates
<1>2. CASE return(c) /\ clearPending(c, prop[c]) /\ UNCHANGED lease
  BY <1>2, ReturnFacts, ClearFacts, CarriesOn, SendsNothing DEF ClosedStep, Apart
<1>3. CASE return(c) /\ dropPending(c, prop[c])
  BY <1>3, ReturnFacts, DropFacts, CarriesOn, SendsNothing DEF ClosedStep, Apart
<1> QED BY <1>1, <1>2, <1>3 DEF sendPending

\* The end of a read leaves no lease to a process that it makes terminal.
LEMMA ReadCloses ==
  ASSUME TypeOK, NEW c \in Client, Closed(c), NEW r \in Reader,
         \/ readFails(c, r) \/ readViolates(c, r) \/ readNotFound(c, r)
         \/ readSuperseded(c, r) \/ readInstalls(c, r)
  PROVE  /\ terminal'[c] => ~lease'[c].held
         /\ \A d \in Client \ {c} : terminal'[d] = terminal[d] /\ lease'[d] = lease[d]
         /\ observed'[c].version = 0 => observed[c].version = 0
<1>1. CASE readFails(c, r) \/ readNotFound(c, r) \/ readSuperseded(c, r)
  BY <1>1 DEF readFails, readNotFound, readSuperseded, Closed
<1>2. CASE readViolates(c, r)
  <2>1. /\ terminal' = [terminal EXCEPT ![c] = TRUE] /\ retire(c) /\ UNCHANGED observed
    BY <1>2 DEF readViolates
  <2> QED BY <2>1, RetireFacts DEF TypeOK
<1>3. CASE readInstalls(c, r)
  <2>1. /\ ~terminal[c] /\ UNCHANGED terminal /\ get[c][r].found.version # 0
        /\ \A d \in Client \ {c} : lease'[d] = lease[d]
    BY <1>3 DEF readInstalls, TypeOK
  <2>2. observed'[c].version = get[c][r].found.version
    BY <1>3 DEF readInstalls, replaceObserved, TypeOK
  <2> QED BY <2>1, <2>2
<1> QED BY <1>1, <1>2, <1>3

LEMMA ReadsClosed ==
  ASSUME TypeOK, NEW c \in Client, Closed(c),
         \/ \E r \in ObserveCalls : ObserveReturns(c, r)
         \/ RequireDecides(c) \/ ReadbackReturns(c)
  PROVE  ClosedStep(c)
<1>1. /\ terminal'[c] => ~lease'[c].held
      /\ \A d \in Client \ {c} : terminal'[d] = terminal[d] /\ lease'[d] = lease[d]
      /\ observed'[c].version = 0 => observed[c].version = 0
  BY ReadCloses DEF ObserveReturns, RequireDecides, ReadbackReturns, Reader
<1>2. UNCHANGED pending BY DEF ObserveReturns, RequireDecides, ReadbackReturns
<1>3. CASE UNCHANGED callVars
  BY <1>1, <1>2, <1>3, SendsNothing DEF callVars, Closed, ClosedStep, Apart
<1>4. CASE return(c)
  BY <1>1, <1>2, <1>4, ReturnFacts, SendsNothing DEF Closed, ClosedStep, Apart, NoProposal
<1>5. ASSUME NEW x, send(c, acquisition(c, x)), x.version = 0 => observed[c].version = 0
      PROVE  ClosedStep(c)
  <2>1. acquisition(c, x).kind = "acquire" /\ acquisition(c, x).expected = x.version
    BY DEF acquisition
  <2>2. Closed(c)' BY <1>1, <1>2, <1>5, <2>1, SendFacts DEF Closed
  <2> QED BY <1>1, <1>2, <1>5, <2>1, <2>2, SendFacts DEF ClosedStep, Apart, Creates
<1>6. CASE RequireDecides(c)
  <2>1. CASE readNotFound(c, "mutation") /\ send(c, acquisition(c, NotObserved))
    BY <1>5, <2>1 DEF readNotFound
  <2>2. CASE send(c, acquisition(c, observed'[c])) BY <1>1, <1>5, <2>2
  <2> QED BY <1>4, <1>6, <2>1, <2>2 DEF RequireDecides
<1>7. CASE /\ ReadbackReturns(c) /\ UNCHANGED <<prop, put>>
           /\ pc' = [pc EXCEPT ![c] =
                       IF @ = "reconcileRead" THEN "reconcileDecide" ELSE "conflictDecide"]
  <2>1. /\ pc[c] \in {"reconcileRead", "conflictRead"}
        /\ pc'[c] \in {"reconcileDecide", "conflictDecide"}
        /\ \A d \in Client \ {c} : pc'[d] = pc[d]
    BY <1>7 DEF ReadbackReturns, TypeOK
  <2> QED BY <1>1, <1>2, <1>7, <2>1, SendsNothing DEF Closed, ClosedStep, Apart
<1> QED BY <1>3, <1>4, <1>6, <1>7 DEF ObserveReturns, ReadbackReturns

\* What Renew and Release propose replaces the version the lease was observed under.
LEMMA ProposalsClosed ==
  ASSUME TypeOK, NEW c \in Client, Closed(c), Renew(c) \/ Release(c) \/ RenewFreezes(c)
  PROVE  ClosedStep(c)
<1>1. UNCHANGED terminal BY DEF Renew, Release, RenewFreezes
<1>2. CASE reconcilePending(c, "renew") \/ reconcilePending(c, "release")
  <2>1. CASE dropPending(c, pending[c]) /\ UNCHANGED callVars
    BY <1>1, <2>1, DropFacts, CarriesOn, SendsNothing DEF callVars, ClosedStep, Apart
  <2>2. CASE callRead(c, "reconcileRead", pending[c]) /\ UNCHANGED <<lease, pending>>
    <3>1. pending[c].kind \in {"renew", "release"} BY <1>2 DEF reconcilePending
    <3> QED BY <1>1, <2>2, <3>1, CallReadFacts, CarriesOn, SendsNothing DEF ClosedStep, Apart
  <2> QED BY <1>2, <2>1, <2>2 DEF reconcilePending
<1>3. CASE retire(c) /\ UNCHANGED <<pending, callVars>>
  BY <1>1, <1>3, RetireFacts, CarriesOn, SendsNothing DEF callVars, ClosedStep, Apart
<1>4. CASE retire(c) /\ return(c) /\ UNCHANGED pending
  BY <1>1, <1>4, RetireFacts, ReturnFacts, CarriesOn, SendsNothing DEF ClosedStep, Apart
<1>5. ASSUME validateActive(c) PROVE observed[c].version # 0
  BY <1>5 DEF validateActive, observedIsLease
<1>6. CASE /\ validateActive(c) /\ UNCHANGED <<lease, pending, put>>
           /\ pc' = [pc EXCEPT ![c] = "frozen"] /\ prop' = [prop EXCEPT ![c] = renewal(c)]
  <2>1. /\ pc'[c] = "frozen" /\ prop'[c] = renewal(c)
        /\ \A d \in Client \ {c} : pc'[d] = pc[d] /\ prop'[d] = prop[d]
    BY <1>6 DEF TypeOK
  <2>2. renewal(c).kind = "renew" /\ renewal(c).expected # 0
    BY <1>5, <1>6 DEF renewal
  <2> QED BY <1>1, <1>6, <2>1, <2>2, SendsNothing DEF Closed, ClosedStep, Apart
<1>7. CASE /\ validateActive(c) /\ retire(c) /\ send(c, release(c))
           /\ pending' = [pending EXCEPT ![c] = release(c)]
  <2>1. pending'[c] = release(c) /\ \A d \in Client \ {c} : pending'[d] = pending[d]
    BY <1>7 DEF TypeOK
  <2>2. release(c).kind = "release" /\ release(c).expected # 0
    BY <1>5, <1>7 DEF release
  <2> QED BY <1>1, <1>7, <2>1, <2>2, RetireFacts, SendFacts DEF Closed, ClosedStep, Apart, Creates
<1>8. CASE RenewFreezes(c)
  <2>1. CASE sendPending(c, prop[c])
    BY <1>1, <1>8, <2>1, SentPending DEF RenewFreezes, Closed
  <2>2. CASE /\ return(c) /\ UNCHANGED pending
             /\ lease' = [lease EXCEPT ![c] = IF retiredByValidate(c) THEN NoLease ELSE @]
    <3>1. /\ lease'[c] = lease[c] \/ ~lease'[c].held
          /\ \A d \in Client \ {c} : lease'[d] = lease[d]
      BY <2>2 DEF TypeOK, NoLease
    <3> QED BY <1>1, <2>2, <3>1, ReturnFacts, CarriesOn, SendsNothing DEF ClosedStep, Apart
  <2> QED BY <1>8, <2>1, <2>2 DEF RenewFreezes
<1> QED BY <1>2, <1>3, <1>4, <1>6, <1>7, <1>8 DEF Renew, Release, callVars

\* An answer grants nothing to a process that has failed closed.
LEMMA ConfirmCloses ==
  ASSUME TypeOK, NEW c \in Client, Closed(c), NEW v, confirm(c, v), terminal' = terminal
  PROVE  ClosedStep(c)
<1>1. /\ pc'[c] = "idle" /\ prop'[c] = NoProposal /\ put'[c] = NoPut
      /\ \A d \in Client \ {c} : pc'[d] = pc[d] /\ prop'[d] = prop[d] /\ put'[d] = put[d]
  BY ReturnFacts DEF confirm
<1>2. CASE UNCHANGED <<lease, pending>>
  BY <1>1, <1>2, CarriesOn, SendsNothing DEF ClosedStep, Apart
<1>3. CASE UNCHANGED lease /\ clearPending(c, prop[c])
  BY <1>1, <1>3, ClearFacts, CarriesOn, SendsNothing DEF ClosedStep, Apart
<1>4. CASE dropPending(c, prop[c])
  BY <1>1, <1>4, DropFacts, CarriesOn, SendsNothing DEF ClosedStep, Apart
<1>5. ASSUME NEW l, lease' = [lease EXCEPT ![c] = l], ~terminal[c],
             UNCHANGED pending \/ clearPending(c, prop[c])
      PROVE  ClosedStep(c)
  <2>1. /\ \A d \in Client \ {c} : lease'[d] = lease[d] /\ pending'[d] = pending[d]
        /\ pending'[c] \in {pending[c], NoProposal}
    BY <1>5, ClearFacts DEF TypeOK
  <2>2. Closed(c)' BY <1>1, <1>5, <2>1 DEF Closed, NoProposal
  <2> QED BY <1>1, <2>1, <2>2, SendsNothing DEF ClosedStep, Apart
<1>6. CASE confirmAcquisition(c, v)
  BY <1>2, <1>5, <1>6 DEF confirmAcquisition, acquisitionConfirmed
<1>7. CASE confirmRenewal(c, v)
  BY <1>4, <1>5, <1>7 DEF confirmRenewal, renewalConfirmed, heldBy, Closed
<1>8. CASE confirmRelease(c, v) BY <1>3, <1>8 DEF confirmRelease
<1> QED BY <1>6, <1>7, <1>8 DEF confirm

LEMMA OthersClosed ==
  ASSUME TypeOK, NEW c \in Client, Closed(c),
         \/ Crash(c) \/ Expire(c) \/ Require(c) \/ StoreCommits(c)
         \/ \E r \in ObserveCalls : Observe(c, r)
         \/ PutSucceeds(c) \/ PutUnknown(c) \/ PutConflicts(c) \/ PutRefused(c)
         \/ AttemptRepeated(c) \/ ReadbackDecides(c)
  PROVE  ClosedStep(c)
<1>1. CASE Crash(c)
  <2>1. /\ pending'[c] = NoProposal /\ ~terminal'[c]
        /\ \A d \in Client \ {c} : pending'[d] = pending[d] /\ terminal'[d] = terminal[d]
    BY <1>1 DEF Crash, TypeOK
  <2> QED BY <1>1, <2>1, RetireFacts, ReturnFacts, SendsNothing
        DEF Crash, Closed, ClosedStep, Apart, NoProposal
<1>2. CASE Expire(c)
  BY <1>2, RetireFacts, CarriesOn, SendsNothing DEF Expire, callVars, ClosedStep, Apart
<1>3. CASE \E r \in ObserveCalls : Observe(c, r)
  BY <1>3, CarriesOn, SendsNothing DEF Observe, authority, callVars, ClosedStep, Apart
<1>4. CASE StoreCommits(c) \/ AttemptRepeated(c)
  <2>1. /\ put[c].state # "none" /\ UNCHANGED <<authority, pc, prop>>
        /\ \A d \in Client \ {c} : put'[d] = put[d]
    BY <1>4 DEF StoreCommits, AttemptRepeated, TypeOK
  <2> QED BY <2>1, CarriesOn, SendsNothing DEF authority, ClosedStep, Apart
<1>5. CASE Require(c)
  <2>1. /\ lease'[c] = lease[c] \/ ~lease'[c].held
        /\ pending'[c] = pending[c] \/ pending'[c] = NoProposal
        /\ \A d \in Client \ {c} : pending'[d] = pending[d] /\ lease'[d] = lease[d]
        /\ UNCHANGED terminal
    BY <1>5 DEF Require, TypeOK, NoLease
  <2>2. CASE UNCHANGED callVars
    BY <2>1, <2>2, CarriesOn, SendsNothing DEF callVars, ClosedStep, Apart
  <2>3. CASE callRead(c, "requireRead", NoProposal)
    BY <2>1, <2>3, CallReadFacts, CarriesOn, SendsNothing DEF ClosedStep, Apart
  <2> QED BY <1>5, <2>2, <2>3 DEF Require
<1>6. CASE PutSucceeds(c) BY <1>6, ConfirmCloses DEF PutSucceeds
<1>7. CASE PutUnknown(c) \/ PutRefused(c)
  BY <1>7, ReturnFacts, ClearFacts, CarriesOn, SendsNothing
     DEF PutUnknown, PutRefused, authority, ClosedStep, Apart
<1>8. CASE PutConflicts(c)
  <2>1. UNCHANGED terminal BY <1>8 DEF PutConflicts
  <2>2. CASE return(c) /\ (UNCHANGED <<lease, pending>> \/ dropPending(c, prop[c]))
    BY <2>1, <2>2, ReturnFacts, DropFacts, CarriesOn, SendsNothing DEF ClosedStep, Apart
  <2>3. CASE /\ prop[c].kind # "acquire" /\ callRead(c, "conflictRead", prop[c])
             /\ UNCHANGED <<lease, pending>>
    <3>1. prop[c].kind \in {"renew", "release"}
      BY <1>8, <2>3 DEF PutConflicts, Closed, TypeOK, Proposal
    <3> QED BY <2>1, <2>3, <3>1, CallReadFacts, CarriesOn, SendsNothing DEF ClosedStep, Apart
  <2> QED BY <1>8, <2>2, <2>3 DEF PutConflicts
<1>9. CASE ReadbackDecides(c)
  <2>1. UNCHANGED terminal /\ prop[c].kind \in {"renew", "release"}
    BY <1>9 DEF ReadbackDecides, Closed
  <2>2. CASE confirm(c, cur[c].version) BY <2>1, <2>2, ConfirmCloses
  <2>3. CASE return(c) /\ (UNCHANGED <<lease, pending>> \/ dropPending(c, prop[c]))
    BY <2>1, <2>3, ReturnFacts, DropFacts, CarriesOn, SendsNothing DEF ClosedStep, Apart
  <2>4. CASE sendPending(c, prop[c]) BY <2>1, <2>4, SentPending
  <2> QED BY <1>9, <2>2, <2>3, <2>4 DEF ReadbackDecides, unresolved
<1> QED BY <1>1, <1>2, <1>3, <1>4, <1>5, <1>6, <1>7, <1>8, <1>9

--------------------------------------------------------------------------------
\* Every step of the protocol is one process's, or leaves all of them alone.
LEMMA ProtocolStep ==
  ASSUME TypeOK, \A c \in Client : Closed(c), Next
  PROVE  \/ UNCHANGED <<authority, callVars>>
         \/ \E c \in Client : ClosedStep(c)
<1>1. CASE Tick \/ \E record \in late : LateWriteArrives(record)
  BY <1>1 DEF Tick, LateWriteArrives
<1>2. ASSUME NEW c \in Client, CallStep(c) PROVE ClosedStep(c)
  BY <1>2, ReadsClosed, ProposalsClosed, OthersClosed DEF CallStep
<1>3. ASSUME NEW c \in Client,
             \/ Crash(c) \/ Expire(c)
             \/ \E r \in ObserveCalls : Observe(c, r) \/ ObserveReturns(c, r)
             \/ Require(c) \/ Renew(c) \/ Release(c)
      PROVE  ClosedStep(c)
  BY <1>3, ReadsClosed, ProposalsClosed, OthersClosed
<1> QED BY <1>1, <1>2, <1>3 DEF Next

LEMMA ClosedNext ==
  ASSUME TypeOK, \A c \in Client : Closed(c), Next \/ UNCHANGED <<authority, callVars>>
  PROVE  /\ \A d \in Client : Closed(d)'
         /\ \A d \in Client : Creates(d) => observed[d].version = 0
<1>1. CASE UNCHANGED <<authority, callVars>>
  BY <1>1 DEF authority, callVars, Closed, Creates
<1>2. ASSUME NEW c \in Client, ClosedStep(c), NEW d \in Client
      PROVE  Closed(d)' /\ (Creates(d) => observed[d].version = 0)
  <2>1. CASE d = c BY <1>2, <2>1 DEF ClosedStep
  <2>2. CASE d # c BY <1>2, <2>2 DEF ClosedStep, Apart, Closed, Creates
  <2> QED BY <2>1, <2>2
<1> QED BY <1>1, <1>2, ProtocolStep

\* Whoever interferes puts a record of the right type there.
LEMMA InterferenceTypes ==
  ASSUME TypeOK, creations \subseteq Record,
         \/ Delete \/ Corrupt \/ ReuseVersion \/ \E c \in Client : Restore(c)
  PROVE  TypeOK' /\ UNCHANGED <<authority, callVars, creations, seen>>
<1>1. UNCHANGED <<now, lost, granted, authority, callVars, get, creations, seen>>
  BY DEF Delete, Corrupt, ReuseVersion, Restore, Interfere
<1>2. object' \in Object /\ issued' \in Nat /\ late' \subseteq Record
  <2>1. ASSUME NEW record \in Record, replaceObject(record)
        PROVE  object' \in Object /\ issued' \in Nat /\ late' \subseteq Record
    BY <2>1 DEF replaceObject, TypeOK, Object
  <2>2. CASE Delete BY <2>2, EmptyTypes DEF Delete, TypeOK
  <2>3. CASE Corrupt BY <2>1, <2>3, EmptyTypes DEF Corrupt
  <2>4. ASSUME NEW c \in Client, Restore(c)
        PROVE  object' \in Object /\ issued' \in Nat /\ late' \subseteq Record
    BY <2>1, <2>4 DEF Restore, TypeOK, Observed
  <2>5. CASE ReuseVersion
    <3>1. object'.record \in Record /\ object' = [object EXCEPT !.record = object'.record]
      BY <2>5, CounterAssumption DEF ReuseVersion, canAdvance, TypeOK, Object, Record
    <3>2. object' \in Object BY <3>1 DEF TypeOK, Object
    <3> QED BY <2>5, <3>2 DEF ReuseVersion, TypeOK
  <2> QED BY <2>2, <2>3, <2>4, <2>5
<1> QED BY <1>1, <1>2 DEF authority, callVars, TypeOK

LEMMA FaultStart == FaultInit => FaultInv
<1> SUFFICES ASSUME FaultInit PROVE FaultInv OBVIOUS
<1>1. TypeOK /\ creations \subseteq Record BY InitTypes DEF FaultInit
<1>2. SeenInv BY DEF FaultInit, SeenInv
<1>3. ASSUME NEW c \in Client PROVE Closed(c)
  <2>1. ~terminal[c] /\ pending[c] = NoProposal /\ prop[c] = NoProposal /\ pc[c] = "idle"
    BY DEF FaultInit, Init
  <2> QED BY <2>1 DEF Closed, NoProposal
<1> QED BY <1>1, <1>2, <1>3 DEF FaultInv

LEMMA FaultStep ==
  ASSUME FaultInv, [FaultNext]_faultVars
  PROVE  /\ FaultInv'
         /\ \A d \in Client : Creates(d) => observed[d].version = 0
<1>1. /\ TypeOK /\ SeenInv /\ creations \subseteq Record
      /\ \A c \in Client : Closed(c)
  BY DEF FaultInv
<1>2. CASE /\ Next
           /\ creations' = creations \cup
                {prop[c].record : c \in {d \in Client : givesUpCreation(d)}}
           /\ seen' = [c \in Client |->
                IF observed'[c].version = 0 THEN 0
                ELSE IF observed'[c].record.epoch > seen[c] THEN observed'[c].record.epoch
                ELSE seen[c]]
  <2>1. TypeOK' /\ creations' \subseteq Record
    BY <1>1, <1>2, NextTypes DEF TypeOK, Proposal
  <2>2. SeenInv' BY <1>2 DEF SeenInv
  <2> QED BY <1>1, <1>2, <2>1, <2>2, ClosedNext DEF FaultInv
<1>3. CASE \/ Delete \/ Corrupt \/ ReuseVersion \/ \E c \in Client : Restore(c)
  <2>1. TypeOK' /\ UNCHANGED <<authority, callVars, creations, seen>>
    BY <1>1, <1>3, InterferenceTypes
  <2>2. SeenInv' BY <1>1, <2>1 DEF SeenInv, authority
  <2> QED BY <1>1, <2>1, <2>2, ClosedNext DEF FaultInv
<1>4. CASE UNCHANGED faultVars
  <2>1. UNCHANGED <<vars, creations, seen>> BY <1>4 DEF faultVars
  <2>2. TypeOK' BY <1>1, <2>1, NextTypes
  <2>3. UNCHANGED <<authority, callVars>> BY <2>1 DEF vars, authority, callVars
  <2>4. SeenInv' BY <1>1, <2>1, <2>3 DEF SeenInv, authority
  <2> QED BY <1>1, <2>1, <2>2, <2>3, <2>4, ClosedNext DEF FaultInv
<1> QED BY <1>2, <1>3, <1>4 DEF FaultNext

LEMMA FaultInvariance == FaultSpec => []FaultInv
<1>1. FaultInv /\ [FaultNext]_faultVars => FaultInv' BY FaultStep
<1> QED BY <1>1, FaultStart, PTL DEF FaultSpec

\* Whatever is done to the object, a process that has reported a protocol violation has
\* no lease and gets none from an answer that is still on its way (setTerminalLocked,
\* confirmAcquisition).
THEOREM FailsClosed == FaultSpec => []TerminalFailsClosed
<1>1. FaultInv => TerminalFailsClosed BY DEF FaultInv, Closed, TerminalFailsClosed
<1> QED BY <1>1, FaultInvariance, PTL

\* Whatever is done to the object, a process that has observed it never proposes to
\* create it anew (readCurrent).
THEOREM NeverStartsOver == FaultSpec => NeverReinitialises
<1>1. FaultInv /\ [FaultNext]_faultVars =>
        [\A c \in Client :
           put[c].state = "none" /\ put'[c].state = "sent" /\ seen[c] # 0
             => prop'[c].expected # 0]_faultVars
  BY FaultStep DEF FaultInv, SeenInv, Creates
<1> QED BY <1>1, FaultInvariance, PTL DEF FaultSpec, NeverReinitialises

--------------------------------------------------------------------------------
\* What c proposes about a grant belongs to the object c observes, and an answer on its
\* way to c names a version.
Follows(c) ==
  /\ \A p \in {pending[c], prop[c]} : p.kind \in {"renew", "release"} =>
       observed[c].version # 0 /\ p.record.uid = observed[c].record.uid
  /\ put[c].state = "committed" => put[c].version # 0
  /\ pc[c] \in {"reconcileDecide", "conflictDecide"} => cur[c].version # 0

SameUid(c) ==
  observed[c].version # 0 /\ observed'[c].version # 0
    => observed'[c].record.uid = observed[c].record.uid

\* The observation of c stays, or is replaced by another one of the same object.
KeepsUid(c) == observed'[c] = observed[c] \/ (observed'[c].version # 0 /\ SameUid(c))

\* Of a grant c has no new proposal, and nothing new is on its way to c.
NothingNew(c) ==
  /\ pending'[c] \in {pending[c], prop[c], NoProposal}
  /\ prop'[c] \in {pending[c], prop[c], NoProposal} \/ prop'[c].kind = "acquire"
  /\ put'[c].state = "committed" => put'[c] = put[c]
  /\ pc'[c] \in {"reconcileDecide", "conflictDecide"} => pc'[c] = pc[c] /\ cur'[c] = cur[c]

OthersStay(c) ==
  \A d \in Client \ {c} :
    /\ observed'[d] = observed[d] /\ pending'[d] = pending[d] /\ pc'[d] = pc[d]
    /\ prop'[d] = prop[d] /\ cur'[d] = cur[d] /\ put'[d] = put[d]

FollowStep(c) == Follows(c)' /\ SameUid(c) /\ OthersStay(c)

LEMMA FollowsOn ==
  ASSUME NEW c \in Client, Follows(c), KeepsUid(c), NothingNew(c), OthersStay(c)
  PROVE  FollowStep(c)
BY DEF Follows, KeepsUid, SameUid, NothingNew, NoProposal, FollowStep

\* The call of c returns, or stays as it is.
LEMMA FollowsToEnd ==
  ASSUME TypeOK, NEW c \in Client, Follows(c), KeepsUid(c), return(c) \/ UNCHANGED callVars,
         pending'[c] \in {pending[c], NoProposal},
         \A d \in Client \ {c} : observed'[d] = observed[d] /\ pending'[d] = pending[d]
  PROVE  FollowStep(c)
<1>1. NothingNew(c) /\ OthersStay(c)
  BY ReturnFacts DEF callVars, NothingNew, OthersStay, NoPut
<1> QED BY <1>1, FollowsOn

LEMMA FollowsRead ==
  ASSUME TypeOK, NEW c \in Client, Follows(c), NEW p, NEW step, callRead(c, step, p),
         step \in {"requireRead", "reconcileRead", "conflictRead"},
         p \in {pending[c], prop[c], NoProposal}, UNCHANGED observed,
         pending'[c] \in {pending[c], NoProposal},
         \A d \in Client \ {c} : pending'[d] = pending[d]
  PROVE  FollowStep(c)
<1>1. NothingNew(c) /\ OthersStay(c) /\ KeepsUid(c)
  BY CallReadFacts DEF NothingNew, OthersStay, KeepsUid, NoPut
<1> QED BY <1>1, FollowsOn

LEMMA FollowsSendPending ==
  ASSUME TypeOK, NEW c \in Client, Follows(c), UNCHANGED observed, sendPending(c, prop[c])
  PROVE  FollowStep(c)
<1>1. KeepsUid(c) BY DEF KeepsUid
<1>2. CASE send(c, prop[c]) /\ pending' = [pending EXCEPT ![c] = prop[c]]
  <2>1. pending'[c] = prop[c] /\ \A d \in Client \ {c} : pending'[d] = pending[d]
    BY <1>2 DEF TypeOK
  <2>2. NothingNew(c) /\ OthersStay(c) BY <1>2, <2>1, SendFacts DEF NothingNew, OthersStay
  <2> QED BY <1>1, <2>2, FollowsOn
<1>3. CASE return(c) /\ (clearPending(c, prop[c]) \/ dropPending(c, prop[c]))
  BY <1>1, <1>3, ClearFacts, DropFacts, FollowsToEnd
<1> QED BY <1>2, <1>3 DEF sendPending

\* A read installs only what is compatible with the observation.
LEMMA ReadFollows ==
  ASSUME TypeOK, NEW c \in Client, NEW r \in Reader,
         \/ readFails(c, r) \/ readViolates(c, r) \/ readNotFound(c, r)
         \/ readSuperseded(c, r) \/ readInstalls(c, r)
  PROVE  KeepsUid(c) /\ \A d \in Client \ {c} : observed'[d] = observed[d]
<1>1. CASE UNCHANGED observed BY <1>1 DEF KeepsUid
<1>2. CASE readInstalls(c, r)
  <2>1. /\ observed'[c].version = get[c][r].found.version
        /\ observed'[c].record = get[c][r].found.record
        /\ \A d \in Client \ {c} : observed'[d] = observed[d]
    BY <1>2 DEF readInstalls, replaceObserved, TypeOK
  <2>2. /\ get[c][r].found.version # 0
        /\ observed[c].version # 0 => observed[c].record.uid = get[c][r].found.record.uid
    BY <1>2 DEF readInstalls, violation, incompatible, recordsCompatible
  <2> QED BY <2>1, <2>2 DEF KeepsUid, SameUid
<1> QED BY <1>1, <1>2 DEF readFails, readViolates, readNotFound, readSuperseded

LEMMA ReadsFollow ==
  ASSUME TypeOK, NEW c \in Client, Closed(c), Follows(c),
         \/ \E r \in ObserveCalls : ObserveReturns(c, r)
         \/ RequireDecides(c) \/ ReadbackReturns(c)
  PROVE  FollowStep(c)
<1>1. KeepsUid(c) /\ \A d \in Client \ {c} : observed'[d] = observed[d]
  BY ReadFollows DEF ObserveReturns, RequireDecides, ReadbackReturns, Reader
<1>2. UNCHANGED pending BY DEF ObserveReturns, RequireDecides, ReadbackReturns
<1>3. CASE return(c) \/ UNCHANGED callVars BY <1>1, <1>2, <1>3, FollowsToEnd
<1>4. ASSUME NEW x, send(c, acquisition(c, x)) PROVE FollowStep(c)
  <2>1. acquisition(c, x).kind = "acquire" BY DEF acquisition
  <2>2. NothingNew(c) /\ OthersStay(c)
    BY <1>1, <1>2, <1>4, <2>1, SendFacts DEF NothingNew, OthersStay
  <2> QED BY <1>1, <2>2, FollowsOn
<1>5. CASE RequireDecides(c) BY <1>3, <1>4, <1>5 DEF RequireDecides
<1>6. CASE /\ ReadbackReturns(c) /\ UNCHANGED <<prop, put>>
           /\ cur' = [cur EXCEPT ![c] = observed'[c]]
           /\ pc' = [pc EXCEPT ![c] =
                       IF @ = "reconcileRead" THEN "reconcileDecide" ELSE "conflictDecide"]
  <2>1. /\ cur'[c] = observed'[c]
        /\ \A d \in Client \ {c} : pc'[d] = pc[d] /\ cur'[d] = cur[d]
    BY <1>6 DEF TypeOK
  <2>2. prop[c].kind \in {"renew", "release"} BY <1>6 DEF ReadbackReturns, Closed
  <2>3. observed'[c].version # 0 BY <1>1, <2>2 DEF KeepsUid, Follows
  <2>4. Follows(c)' BY <1>1, <1>2, <1>6, <2>1, <2>3 DEF Follows, KeepsUid, SameUid
  <2> QED BY <1>1, <1>2, <1>6, <2>1, <2>4 DEF FollowStep, OthersStay, KeepsUid, SameUid
<1> QED BY <1>3, <1>5, <1>6 DEF ObserveReturns, ReadbackReturns

\* What Renew and Release propose is the next record of the object observed.
LEMMA ProposalsFollow ==
  ASSUME TypeOK, NEW c \in Client, Follows(c), Renew(c) \/ Release(c) \/ RenewFreezes(c)
  PROVE  FollowStep(c)
<1>1. UNCHANGED observed /\ KeepsUid(c) BY DEF Renew, Release, RenewFreezes, KeepsUid
<1>2. CASE reconcilePending(c, "renew") \/ reconcilePending(c, "release")
  <2>1. CASE dropPending(c, pending[c]) /\ UNCHANGED callVars
    BY <1>1, <2>1, DropFacts, FollowsToEnd
  <2>2. CASE callRead(c, "reconcileRead", pending[c]) /\ UNCHANGED pending
    BY <1>1, <2>2, FollowsRead
  <2> QED BY <1>2, <2>1, <2>2 DEF reconcilePending
<1>3. CASE (return(c) \/ UNCHANGED callVars) /\ UNCHANGED pending
  BY <1>1, <1>3, FollowsToEnd
<1>4. ASSUME validateActive(c)
      PROVE  /\ observed[c].version # 0
             /\ renewal(c).record.uid = observed[c].record.uid
             /\ release(c).record.uid = observed[c].record.uid
  BY <1>4 DEF validateActive, observedIsLease, renewal, release, renewalRecord,
              releaseRecord, nextRecord
<1>5. CASE /\ validateActive(c) /\ UNCHANGED <<pending, cur, put>>
           /\ pc' = [pc EXCEPT ![c] = "frozen"] /\ prop' = [prop EXCEPT ![c] = renewal(c)]
  <2>1. /\ pc'[c] = "frozen" /\ prop'[c] = renewal(c)
        /\ \A d \in Client \ {c} : pc'[d] = pc[d] /\ prop'[d] = prop[d]
    BY <1>5 DEF TypeOK
  <2> QED BY <1>1, <1>4, <1>5, <2>1 DEF Follows, FollowStep, SameUid, OthersStay
<1>6. CASE /\ validateActive(c) /\ send(c, release(c))
           /\ pending' = [pending EXCEPT ![c] = release(c)]
  <2>1. pending'[c] = release(c) /\ \A d \in Client \ {c} : pending'[d] = pending[d]
    BY <1>6 DEF TypeOK
  <2> QED BY <1>1, <1>4, <1>6, <2>1, SendFacts DEF Follows, FollowStep, SameUid, OthersStay
<1>7. CASE RenewFreezes(c) BY <1>1, <1>3, <1>7, FollowsSendPending DEF RenewFreezes
<1> QED BY <1>2, <1>3, <1>5, <1>6, <1>7 DEF Renew, Release

\* A confirmed write belongs to the object observed, whenever its answer arrives.
LEMMA ConfirmFollows ==
  ASSUME TypeOK, NEW c \in Client, Follows(c), NEW v \in Nat \ {0}, confirm(c, v)
  PROVE  FollowStep(c)
<1>1. return(c) BY DEF confirm
<1>2. CASE UNCHANGED observed /\ (UNCHANGED pending \/ dropPending(c, prop[c]))
  BY <1>1, <1>2, DropFacts, FollowsToEnd DEF KeepsUid
<1>3. ASSUME replaceObserved(c, v, prop[c].record, prop[c].record.at),
             UNCHANGED pending \/ clearPending(c, prop[c]),
             observed[c].version # 0 => prop[c].record.uid = observed[c].record.uid
      PROVE  FollowStep(c)
  <2>1. /\ observed'[c].version = v /\ observed'[c].record = prop[c].record
        /\ \A d \in Client \ {c} : observed'[d] = observed[d]
    BY <1>3 DEF replaceObserved, TypeOK
  <2>2. KeepsUid(c) BY <1>3, <2>1 DEF KeepsUid, SameUid
  <2> QED BY <1>1, <1>3, <2>1, <2>2, ClearFacts, FollowsToEnd
<1>4. CASE confirmAcquisition(c, v)
  BY <1>2, <1>3, <1>4 DEF confirmAcquisition, acquisitionConfirmed, notOvertaken
<1>5. CASE prop[c].kind = "renew" /\ confirmRenewal(c, v)
  BY <1>2, <1>3, <1>5 DEF confirmRenewal, Follows
<1>6. CASE prop[c].kind = "release" /\ confirmRelease(c, v)
  BY <1>3, <1>6 DEF confirmRelease, Follows
<1> QED BY <1>4, <1>5, <1>6 DEF confirm

LEMMA OthersFollow ==
  ASSUME TypeOK, NEW c \in Client, Closed(c), Follows(c),
         \/ Crash(c) \/ Expire(c) \/ Require(c) \/ StoreCommits(c)
         \/ \E r \in ObserveCalls : Observe(c, r)
         \/ PutSucceeds(c) \/ PutUnknown(c) \/ PutConflicts(c) \/ PutRefused(c)
         \/ AttemptRepeated(c) \/ ReadbackDecides(c)
  PROVE  FollowStep(c)
<1>1. CASE Crash(c)
  <2>1. /\ pending'[c] = NoProposal /\ observed'[c].version = 0
        /\ \A d \in Client \ {c} : pending'[d] = pending[d] /\ observed'[d] = observed[d]
    BY <1>1 DEF Crash, TypeOK, NotObserved
  <2>2. return(c) BY <1>1 DEF Crash
  <2> QED BY <2>1, <2>2, ReturnFacts
        DEF Follows, FollowStep, SameUid, OthersStay, NoProposal, NoPut
<1>2. ASSUME UNCHANGED observed PROVE KeepsUid(c) BY <1>2 DEF KeepsUid
<1>3. CASE Expire(c) \/ \E r \in ObserveCalls : Observe(c, r)
  BY <1>2, <1>3, FollowsToEnd DEF Expire, Observe, authority
<1>4. CASE StoreCommits(c)
  <2>1. /\ UNCHANGED <<observed, pending, pc, prop, cur>> /\ put'[c].version = issued + 1
        /\ \A d \in Client \ {c} : put'[d] = put[d]
    BY <1>4 DEF StoreCommits, authority, TypeOK
  <2>2. put'[c].version # 0 BY <2>1 DEF TypeOK
  <2> QED BY <2>1, <2>2 DEF Follows, FollowStep, SameUid, OthersStay
<1>5. CASE AttemptRepeated(c)
  <2>1. /\ UNCHANGED <<observed, pending, pc, prop, cur>> /\ put'[c].state = "sent"
        /\ \A d \in Client \ {c} : put'[d] = put[d]
    BY <1>5 DEF AttemptRepeated, authority, TypeOK
  <2> QED BY <2>1 DEF Follows, FollowStep, SameUid, OthersStay
<1>6. CASE Require(c)
  <2>1. /\ pending'[c] \in {pending[c], NoProposal} /\ UNCHANGED observed
        /\ \A d \in Client \ {c} : pending'[d] = pending[d]
    BY <1>6 DEF Require, TypeOK
  <2>2. CASE UNCHANGED callVars BY <1>2, <2>1, <2>2, FollowsToEnd
  <2>3. CASE callRead(c, "requireRead", NoProposal) BY <2>1, <2>3, FollowsRead
  <2> QED BY <1>6, <2>2, <2>3 DEF Require
<1>7. CASE PutUnknown(c) \/ PutRefused(c)
  BY <1>2, <1>7, ClearFacts, FollowsToEnd DEF PutUnknown, PutRefused, authority
<1>8. CASE PutConflicts(c)
  <2>1. UNCHANGED observed BY <1>8 DEF PutConflicts
  <2>2. CASE return(c) /\ (UNCHANGED pending \/ dropPending(c, prop[c]))
    BY <1>2, <2>1, <2>2, DropFacts, FollowsToEnd
  <2>3. CASE callRead(c, "conflictRead", prop[c]) /\ UNCHANGED pending
    BY <2>1, <2>3, FollowsRead
  <2> QED BY <1>8, <2>2, <2>3 DEF PutConflicts
<1>9. CASE PutSucceeds(c)
  <2>1. put[c].version \in Nat \ {0} BY <1>9 DEF PutSucceeds, Follows, TypeOK, Put
  <2> QED BY <1>9, <2>1, ConfirmFollows DEF PutSucceeds
<1>10. CASE ReadbackDecides(c)
  <2>1. cur[c].version \in Nat \ {0} BY <1>10 DEF ReadbackDecides, Follows, TypeOK, Observed
  <2>2. CASE confirm(c, cur[c].version) BY <2>1, <2>2, ConfirmFollows
  <2>3. CASE UNCHANGED observed /\ return(c) /\ (UNCHANGED pending \/ dropPending(c, prop[c]))
    BY <1>2, <2>3, DropFacts, FollowsToEnd
  <2>4. CASE UNCHANGED observed /\ sendPending(c, prop[c]) BY <2>4, FollowsSendPending
  <2> QED BY <1>10, <2>2, <2>3, <2>4 DEF ReadbackDecides, unresolved
<1> QED BY <1>1, <1>3, <1>4, <1>5, <1>6, <1>7, <1>8, <1>9, <1>10

LEMMA FollowsNext ==
  ASSUME FaultInv, \A c \in Client : Follows(c), [FaultNext]_faultVars
  PROVE  \A d \in Client : Follows(d)' /\ SameUid(d)
<1>1. TypeOK /\ creations \subseteq Record /\ \A c \in Client : Closed(c) BY DEF FaultInv
<1>2. CASE UNCHANGED <<observed, pending, callVars>>
  BY <1>2 DEF callVars, Follows, SameUid
<1>3. CASE \/ Delete \/ Corrupt \/ ReuseVersion \/ \E c \in Client : Restore(c)
  BY <1>1, <1>2, <1>3, InterferenceTypes DEF authority
<1>4. CASE \/ UNCHANGED faultVars \/ Tick \/ \E record \in late : LateWriteArrives(record)
  BY <1>2, <1>4 DEF faultVars, vars, callVars, authority, Tick, LateWriteArrives
<1>5. ASSUME NEW c \in Client, FollowStep(c), NEW d \in Client PROVE Follows(d)' /\ SameUid(d)
  <2>1. CASE d = c BY <1>5, <2>1 DEF FollowStep
  <2>2. CASE d # c BY <1>5, <2>2 DEF FollowStep, OthersStay, Follows, SameUid
  <2> QED BY <2>1, <2>2
<1>6. ASSUME NEW c \in Client, CallStep(c) PROVE FollowStep(c)
  BY <1>1, <1>6, ReadsFollow, ProposalsFollow, OthersFollow DEF CallStep
<1>7. ASSUME NEW c \in Client,
             \/ Crash(c) \/ Expire(c)
             \/ \E r \in ObserveCalls : Observe(c, r) \/ ObserveReturns(c, r)
             \/ Require(c) \/ Renew(c) \/ Release(c)
      PROVE  FollowStep(c)
  BY <1>1, <1>7, ReadsFollow, ProposalsFollow, OthersFollow
<1>8. CASE Next BY <1>4, <1>5, <1>6, <1>7, <1>8 DEF Next
<1> QED BY <1>3, <1>4, <1>8 DEF FaultNext

\* Whatever is done to the object, and however late a creation arrives, a process never
\* adopts an object of another uid (recordsCompatible, confirmAcquisition).
THEOREM NeverAdoptsAnother == FaultSpec => FollowsOneObject
<1>1. FaultInit => \A c \in Client : Follows(c)
  <2> SUFFICES ASSUME FaultInit, NEW c \in Client PROVE Follows(c) OBVIOUS
  <2>1. pending[c] = NoProposal /\ prop[c] = NoProposal /\ pc[c] = "idle" /\ put[c] = NoPut
    BY DEF FaultInit, Init
  <2> QED BY <2>1 DEF Follows, NoProposal, NoPut
<1>2. FaultInv /\ (\A c \in Client : Follows(c)) /\ [FaultNext]_faultVars
        => (\A c \in Client : Follows(c))'
  BY FollowsNext
<1>3. FaultInv /\ (\A c \in Client : Follows(c)) /\ [FaultNext]_faultVars
        => [\A c \in Client :
              observed[c].version # 0 /\ observed'[c].version # 0
                => observed'[c].record.uid = observed[c].record.uid]_faultVars
  BY FollowsNext DEF SameUid
<1>4. FaultSpec => []FaultInv BY FaultInvariance
<1> QED BY <1>1, <1>2, <1>3, <1>4, PTL DEF FaultSpec, FollowsOneObject

================================================================================
