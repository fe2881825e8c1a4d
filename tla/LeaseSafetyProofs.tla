--------------------------- MODULE LeaseSafetyProofs ---------------------------
(***************************************************************************)
(* Every action of LeaseCore preserves the invariant Safe, one lemma per   *)
(* action, and what follows: exclusive authority, backed by the object,    *)
(* for every set of processes, every valid configuration and every bound.  *)
(***************************************************************************)
EXTENDS LeaseProofs

LEMMA ExpireSafe ==
  ASSUME Safe, TypeOK', NEW c \in Client, Expire(c)
  PROVE  Safe'
<1>1. Quiet(c)
  BY DEF Expire, retire, Quiet, Others, Safe, TypeOK, storeVars, callVars, grantInFlight,
         NoLease
<1>2. UNCHANGED <<observed, pending, terminal, pc, prop, cur, put, get, late, now, object>>
  BY DEF Expire, storeVars, callVars
<1>3. CallOK(c)' /\ SnapshotOK(c)' /\ SinceOK(c)' /\ ReadOK(c)'
  <2>1. ~lease'[c].held
    BY DEF Expire, retire, Safe, TypeOK, NoLease
  <2> QED  BY <1>2, <2>1 DEF Safe, Local, CallOK, SnapshotOK, Past, SinceOK, ReadOK
<1>4. ProposalOK(c)'
  BY <1>1, <1>2, KeepsProposals
<1> QED  BY <1>1, <1>2, <1>3, <1>4, QuietStep DEF Local

LEMMA CrashSafe ==
  ASSUME Safe, TypeOK', NEW c \in Client, Crash(c)
  PROVE  Safe'
<1>1. /\ pc'[c] = "idle" /\ prop'[c] = NoProposal /\ cur'[c] = NotObserved
      /\ put'[c] = NoPut
      /\ \A d \in Client \ {c} : /\ pc'[d] = pc[d] /\ prop'[d] = prop[d]
                                 /\ cur'[d] = cur[d] /\ put'[d] = put[d]
  BY ReturnFacts DEF Crash, Safe
<1>2. Quiet(c)
  BY <1>1 DEF Crash, retire, Quiet, Others, Safe, TypeOK, grantInFlight, NoLease, NoPut
<1>3. /\ observed'[c] = NotObserved /\ pending'[c] = NoProposal /\ ~terminal'[c]
      /\ \A r \in Reader : get'[c][r] = NoGet
  BY DEF Crash, Safe, TypeOK
<1>4. Past(0, NoRecord)'
  BY <1>2, EmptyIsPast DEF Safe, Past, Quiet
<1>5. Past(observed[c].version, observed[c].record)'
      /\ \A q \in Reader : Past(get[c][q].found.version, get[c][q].found.record)'
  BY <1>3, <1>4 DEF NotObserved, NoGet, NoObject
<1>6. SinceOK(c)' /\ ReadOK(c)'
  <2>1. object.version = 0 => object.record.at = 0
    BY DEF Safe, StoreInv, NoObject, NoRecord
  <2> QED  BY <1>2, <1>3, <2>1 DEF SinceOK, ReadOK, NotObserved, NoGet, Quiet
<1>7. Local(c)'
  BY <1>2, <1>3, <1>5, <1>6, AtRest DEF Crash
<1> QED  BY <1>2, <1>7, AbandonOK, QuietStep DEF Crash

LEMMA ObserveSafe ==
  ASSUME Safe, TypeOK', NEW c \in Client, NEW r \in ObserveCalls, Observe(c, r)
  PROVE  Safe'
<1>1. /\ UNCHANGED <<now, object, issued, late, observed, lease, pending, terminal>>
      /\ UNCHANGED <<pc, prop, cur, put>> /\ startRead(c, r)
  BY DEF Observe, storeVars, authority, callVars
<1>2. /\ \A q \in Reader : Past(get[c][q].found.version, get[c][q].found.record)'
      /\ SinceOK(c)' /\ ReadOK(c)'
      /\ \A d \in Client \ {c} : get'[d] = get[d]
  BY <1>1, StartReadOK DEF Reader
<1>3. Quiet(c)
  BY <1>1, <1>2 DEF Quiet, Others, grantInFlight
<1>4. get'[c]["mutation"] = get[c]["mutation"]
  BY <1>1, CallAssumption DEF startRead, Safe, TypeOK, Reader
<1>5. CallOK(c)' /\ SnapshotOK(c)'
  BY <1>1, <1>2, <1>4 DEF Safe, Local, CallOK, SnapshotOK, Past
<1>6. ProposalOK(c)'
  BY <1>1, <1>3, KeepsProposals
<1> QED  BY <1>1, <1>2, <1>3, <1>5, <1>6, QuietStep DEF Local

LEMMA ObserveReturnsSafe ==
  ASSUME Safe, TypeOK', NEW c \in Client, NEW r \in ObserveCalls, ObserveReturns(c, r)
  PROVE  Safe'
<1>1. /\ UNCHANGED <<now, object, issued, late, pending, pc, prop, cur, put>>
      /\ get[c][r].busy
  BY DEF ObserveReturns, storeVars, callVars
<1>2. /\ Past(observed[c].version, observed[c].record)'
      /\ \A q \in Reader : Past(get[c][q].found.version, get[c][q].found.record)'
      /\ SinceOK(c)' /\ ReadOK(c)'
      /\ lease'[c] = lease[c] \/ ~lease'[c].held
      /\ \A d \in Client \ {c} :
           /\ observed'[d] = observed[d] /\ lease'[d] = lease[d]
           /\ terminal'[d] = terminal[d] /\ get'[d] = get[d]
      /\ \A q \in Reader \ {r} : get'[c][q].busy = get[c][q].busy
  <2>1. r \in Reader
    BY DEF Reader
  <2> QED  BY <1>1, <2>1, ReadStep DEF ObserveReturns
<1>3. Quiet(c)
  BY <1>1, <1>2 DEF Quiet, Others, grantInFlight
<1>4. get'[c]["mutation"].busy = get[c]["mutation"].busy
  BY <1>2, CallAssumption DEF Reader
<1>5. CallOK(c)' /\ SnapshotOK(c)'
  BY <1>1, <1>2, <1>4 DEF Safe, Local, CallOK, SnapshotOK, Past
<1>6. ProposalOK(c)'
  BY <1>1, <1>3, KeepsProposals
<1> QED  BY <1>1, <1>2, <1>3, <1>5, <1>6, QuietStep DEF Local

LEMMA RequireSafe ==
  ASSUME Safe, TypeOK', NEW c \in Client, Require(c)
  PROVE  Safe'
<1>1. /\ UNCHANGED <<now, object, issued, late, observed, terminal>>
      /\ lease'[c] = lease[c] \/ ~lease'[c].held
      /\ pending'[c] = pending[c] \/ pending'[c] = NoProposal
      /\ \A d \in Client \ {c} : lease'[d] = lease[d] /\ pending'[d] = pending[d]
  BY DEF Require, storeVars, Safe, TypeOK, NoLease
<1>2. CASE UNCHANGED <<callVars, get>>
  <2>1. UNCHANGED <<pc, prop, cur, put, get>>
    BY <1>2 DEF callVars
  <2>2. Quiet(c)
    BY <1>1, <2>1 DEF Quiet, Others, grantInFlight
  <2>3. CallOK(c)' /\ SnapshotOK(c)' /\ SinceOK(c)' /\ ReadOK(c)'
    BY <1>1, <2>1 DEF Safe, Local, CallOK, SnapshotOK, Past, SinceOK, ReadOK
  <2>4. ProposalOK(c)'
    BY <1>1, <2>1, <2>2, KeepsProposals
  <2> QED  BY <1>1, <2>2, <2>3, <2>4, QuietStep DEF Local
<1>3. CASE ~lease'[c].held /\ callRead(c, "requireRead", NoProposal)
  <2>1. /\ prop'[c] = NoProposal /\ put'[c] = NoPut /\ startRead(c, "mutation")
        /\ \A d \in Client \ {c} : /\ pc'[d] = pc[d] /\ prop'[d] = prop[d]
                                   /\ cur'[d] = cur[d] /\ put'[d] = put[d]
    BY <1>3, CallReadFacts DEF Safe
  <2>2. \A d \in Client \ {c} : get'[d] = get[d]
    BY <2>1 DEF startRead, Safe, TypeOK
  <2>3. Quiet(c)
    BY <1>1, <2>1, <2>2 DEF Quiet, Others, grantInFlight, NoPut
  <2> QED  BY <1>1, <1>3, <2>3, AtRead, QuietStep
<1> QED  BY <1>2, <1>3 DEF Require

\* What Require proposes after its read is a grant that has waited long enough,
\* or one that expects a version the store no longer has.
LEMMA AcquisitionWaits ==
  ASSUME TypeOK, StoreInv, NEW c \in Client, NEW x \in Observed,
         Past(x.version, x.record),
         x.version = object.version => object.record.at <= x.since,
         x.version # 0 => mayAcquire(x)
  PROVE  LET p == acquisition(c, x) IN
         /\ p.kind = "acquire" /\ p.record.owner = ClientID[c]
         /\ p.record.dur = LeaseDuration[c] /\ p.expected <= object.version
         /\ p.expected = object.version => NextGrant(p.record)
<1> DEFINE p == acquisition(c, x)
<1>1. /\ object.version \in Nat /\ x.version \in Nat /\ x.since \in Nat /\ now \in Nat
      /\ object.record.at \in Nat /\ object.record.dur \in Nat
      /\ object.record.epoch \in Nat
  BY ObjectFields, ObservedFields DEF TypeOK
<1>2. LeaseDuration[c] # 0
  BY ConfigAssumption DEF ValidConfig
<1>3. /\ p.kind = "acquire" /\ p.record.owner = ClientID[c]
      /\ p.record.dur = LeaseDuration[c] /\ p.expected = x.version
      /\ p.record.at = now /\ p.record.seq = 1
  BY DEF acquisition, newInitialRecord, acquisitionRecord
<1>4. x.version <= object.version
  BY DEF Past
<1>5. ASSUME x.version = object.version PROVE NextGrant(p.record)
  <2>1. CASE x.version = 0
    <3>1. object.record = NoRecord
      BY <1>5, <2>1 DEF StoreInv, NoObject
    <3>2. p.record.uid = <<c, now>> /\ p.record.epoch = 1
      BY <2>1 DEF acquisition, newInitialRecord
    <3>3. p.record.uid # NoUid
      BY <3>2 DEF NoUid
    <3> QED  BY <1>1, <1>2, <1>3, <1>5, <2>1, <3>1, <3>2, <3>3 DEF NextGrant, NoRecord
  <2>2. CASE x.version # 0
    <3>1. x.record = object.record /\ validRecord(object.record)
      BY <1>5, <2>2 DEF Past, StoreInv
    <3>2. p.record.uid = object.record.uid /\ p.record.epoch = object.record.epoch + 1
      BY <2>2, <3>1 DEF acquisition, acquisitionRecord
    <3>3. object.record.owner # Nobody => object.record.at + object.record.dur <= now
      BY <1>1, <1>5, <2>2, <3>1 DEF mayAcquire, eligible
    <3> QED  BY <1>1, <1>2, <1>3, <3>1, <3>2, <3>3 DEF NextGrant, validRecord
  <2> QED  BY <2>1, <2>2
<1> QED  BY <1>3, <1>4, <1>5

LEMMA RequireDecidesSafe ==
  ASSUME Safe, TypeOK', NEW c \in Client, RequireDecides(c)
  PROVE  Safe'
<1>1. /\ UNCHANGED <<now, object, issued, late, pending>> /\ pc[c] = "requireRead"
      /\ get[c]["mutation"].busy /\ ~lease[c].held /\ "mutation" \in Reader
  BY DEF RequireDecides, storeVars, Safe, Local, CallOK, Reader
<1>2. /\ Past(observed[c].version, observed[c].record)'
      /\ \A q \in Reader : Past(get[c][q].found.version, get[c][q].found.record)'
      /\ SinceOK(c)' /\ ReadOK(c)'
      /\ lease'[c] = lease[c] \/ ~lease'[c].held
      /\ \A d \in Client \ {c} :
           /\ observed'[d] = observed[d] /\ lease'[d] = lease[d]
           /\ terminal'[d] = terminal[d] /\ get'[d] = get[d]
  BY <1>1, ReadStep DEF RequireDecides
<1>3. CASE return(c)
  <2>1. put'[c] = NoPut
        /\ \A d \in Client \ {c} : /\ pc'[d] = pc[d] /\ prop'[d] = prop[d]
                                   /\ cur'[d] = cur[d] /\ put'[d] = put[d]
    BY <1>3, ReturnFacts DEF Safe
  <2>2. Quiet(c)
    BY <1>1, <1>2, <2>1 DEF Quiet, Others, grantInFlight, NoPut
  <2> QED  BY <1>1, <1>2, <1>3, <2>2, AtRest, QuietStep
<1>4. ASSUME NEW x \in Observed, send(c, acquisition(c, x)),
             Past(x.version, x.record),
             x.version = object.version => object.record.at <= x.since,
             x.version # 0 => mayAcquire(x)
      PROVE  Safe'
  <2> DEFINE p == acquisition(c, x)
  <2>1. /\ p.kind = "acquire" /\ p.record.owner = ClientID[c]
        /\ p.record.dur = LeaseDuration[c] /\ p.expected <= object.version
        /\ p.expected = object.version => NextGrant(p.record)
    BY <1>4, AcquisitionWaits DEF Safe
  <2> HIDE DEF p
  <2>2. /\ pc'[c] = "put" /\ prop'[c] = p /\ cur'[c] = NotObserved
        /\ put'[c].state = "sent"
        /\ \A d \in Client \ {c} : /\ pc'[d] = pc[d] /\ prop'[d] = prop[d]
                                   /\ cur'[d] = cur[d] /\ put'[d] = put[d]
    BY <1>4, SendFacts DEF Safe, p
  <2>3. Quiet(c)
    BY <1>1, <1>2, <2>2 DEF Quiet, Others, grantInFlight
  <2>4. CallOK(c)'
    BY <1>1, <1>2, <2>1, <2>2 DEF CallOK
  <2>5. SnapshotOK(c)'
    <3>1. Past(cur[c].version, cur[c].record)'
      BY <2>2, <2>3, EmptyIsPast DEF Safe, NotObserved, Past, Quiet
    <3> QED  BY <1>2, <2>2, <3>1 DEF SnapshotOK
  <2>6. ProposalOK(c)'
    <3>1. GrantProposal(c, pending[c])'
      BY <1>1, <2>3, GrantProposalQuiet DEF Safe, Local, ProposalOK
    <3>2. GrantProposal(c, prop[c])'
      BY <2>1, <2>2 DEF GrantProposal
    <3>3. NextGrant(p.record) => NextGrant(prop[c].record)'
      BY <1>1, <2>2 DEF NextGrant
    <3> QED  BY <1>1, <2>1, <2>2, <3>1, <3>2, <3>3 DEF ProposalOK
  <2> QED  BY <1>1, <1>2, <2>3, <2>4, <2>5, <2>6, QuietStep DEF Local
<1>5. CASE send(c, acquisition(c, NotObserved))
  <2>1. NotObserved \in Observed /\ NotObserved.version = 0 /\ NotObserved.record = NoRecord
    BY EmptyTypes DEF NotObserved
  <2>2. Past(0, NoRecord) /\ (object.version = 0 => object.record.at <= NotObserved.since)
    BY EmptyIsPast DEF Safe, StoreInv, NoObject, NoRecord, NotObserved
  <2> QED  BY <1>4, <1>5, <2>1, <2>2
<1>6. CASE mayAcquire(observed'[c]) /\ send(c, acquisition(c, observed'[c]))
  <2>1. observed'[c] \in Observed
    BY DEF TypeOK
  <2>2. /\ Past(observed'[c].version, observed'[c].record)
        /\ observed'[c].version = object.version => object.record.at <= observed'[c].since
    BY <1>1, <1>2 DEF Past, SinceOK
  <2> QED  BY <1>4, <1>6, <2>1, <2>2
<1> QED  BY <1>3, <1>5, <1>6 DEF RequireDecides

\* A pending proposal is dropped; the lease may go with it.
LEMMA DropFacts ==
  ASSUME TypeOK, NEW c \in Client, NEW p, dropPending(c, p)
  PROVE  /\ pending'[c] = pending[c] \/ pending'[c] = NoProposal
         /\ lease'[c] = lease[c] \/ ~lease'[c].held
         /\ \A d \in Client \ {c} : pending'[d] = pending[d] /\ lease'[d] = lease[d]
BY DEF dropPending, TypeOK, NoLease

LEMMA ClearFacts ==
  ASSUME TypeOK, NEW c \in Client, NEW p, clearPending(c, p)
  PROVE  /\ pending'[c] = pending[c] \/ pending'[c] = NoProposal
         /\ \A d \in Client \ {c} : pending'[d] = pending[d]
BY DEF clearPending, TypeOK

LEMMA RetireFacts ==
  ASSUME TypeOK, NEW c \in Client, retire(c)
  PROVE  ~lease'[c].held /\ \A d \in Client \ {c} : lease'[d] = lease[d]
BY DEF retire, TypeOK, NoLease

\* A step that only drops authority or a pending proposal, and ends the call or
\* leaves it where it is.
LEMMA GiveUpSafe ==
  ASSUME Safe, TypeOK', NEW c \in Client,
         UNCHANGED <<now, object, issued, observed, terminal, get>>,
         pending'[c] = pending[c] \/ pending'[c] = NoProposal,
         lease'[c] = lease[c] \/ ~lease'[c].held,
         \A d \in Client \ {c} : pending'[d] = pending[d] /\ lease'[d] = lease[d],
         return(c) \/ UNCHANGED <<pc, prop, cur, put>>,
         \A r \in late' : r \in late \/ Harmless(r)
  PROVE  Safe'
<1>1. Past(observed[c].version, observed[c].record)'
      /\ \A q \in Reader : Past(get[c][q].found.version, get[c][q].found.record)'
  BY DEF Safe, Local, SnapshotOK, Past
<1>2. SinceOK(c)' /\ ReadOK(c)'
  BY DEF Safe, Local, SinceOK, ReadOK
<1>3. CASE return(c)
  <2>1. put'[c] = NoPut
        /\ \A d \in Client \ {c} : /\ pc'[d] = pc[d] /\ prop'[d] = prop[d]
                                   /\ cur'[d] = cur[d] /\ put'[d] = put[d]
    BY <1>3, ReturnFacts DEF Safe
  <2>2. Quiet(c)
    BY <2>1 DEF Quiet, Others, grantInFlight, NoPut
  <2> QED  BY <1>1, <1>2, <1>3, <2>2, AtRest, QuietStep
<1>4. CASE UNCHANGED <<pc, prop, cur, put>>
  <2>1. Quiet(c)
    BY <1>4 DEF Quiet, Others, grantInFlight
  <2>2. CallOK(c)' /\ SnapshotOK(c)'
    BY <1>4 DEF Safe, Local, CallOK, SnapshotOK, Past
  <2>3. ProposalOK(c)'
    BY <1>4, <2>1, KeepsProposals
  <2> QED  BY <1>2, <2>1, <2>2, <2>3, QuietStep DEF Local
<1> QED  BY <1>3, <1>4

\* A call goes on to read back the proposal it carries.
LEMMA ReadbackSafe ==
  ASSUME Safe, TypeOK', NEW c \in Client, NEW p, NEW step,
         UNCHANGED <<now, object, issued, late, observed, terminal, lease, pending>>,
         callRead(c, step, p), step \in {"reconcileRead", "conflictRead"},
         p.kind \in {"renew", "release"}, p = pending[c] \/ p = prop[c]
  PROVE  Safe'
<1>1. /\ put'[c] = NoPut /\ startRead(c, "mutation")
      /\ \A d \in Client \ {c} : /\ pc'[d] = pc[d] /\ prop'[d] = prop[d]
                                 /\ cur'[d] = cur[d] /\ put'[d] = put[d]
  BY CallReadFacts DEF Safe
<1>2. \A d \in Client \ {c} : get'[d] = get[d]
  BY <1>1 DEF startRead, Safe, TypeOK
<1>3. Quiet(c)
  BY <1>1, <1>2 DEF Quiet, Others, grantInFlight, NoPut
<1> QED  BY <1>3, AtRead, QuietStep

LEMMA ReconcileSafe ==
  ASSUME Safe, TypeOK', NEW c \in Client, NEW kind \in {"renew", "release"},
         reconcilePending(c, kind),
         UNCHANGED <<now, storeVars, lost, granted, observed, terminal>>
  PROVE  Safe'
<1>1. UNCHANGED <<now, object, issued, late, observed, terminal>>
  BY DEF storeVars
<1>2. CASE dropPending(c, pending[c]) /\ UNCHANGED <<callVars, get>>
  BY <1>1, <1>2, DropFacts, GiveUpSafe DEF callVars, Safe
<1>3. CASE callRead(c, "reconcileRead", pending[c]) /\ UNCHANGED <<lease, pending>>
  BY <1>1, <1>3, ReadbackSafe DEF reconcilePending
<1> QED  BY <1>2, <1>3 DEF reconcilePending

\* What Renew and Release freeze while the lease is valid is the next step of
\* the grant they hold.
LEMMA FrozenInGrant ==
  ASSUME Safe, NEW c \in Client, validateActive(c), canAdvance(observed[c].record.seq),
         NEW p \in {renewal(c), release(c)}
  PROVE  /\ p.expected <= object.version
         /\ p.expected = object.version => NextInGrant(p.record)
         /\ p.record.epoch = lease[c].epoch /\ p.record.seq = lease[c].seq + 1
         /\ p.record.epoch <= object.record.epoch
         /\ \A d \in Client \ {c} : lease[d].held => lease[d].epoch # p.record.epoch
         /\ \A d \in Client : grantInFlight(d) => prop[d].record.epoch # p.record.epoch
<1>1. /\ observed[c] \in Observed /\ object \in Object /\ now \in Nat
      /\ lease[c].held /\ observedIsLease(c)
  BY DEF Safe, TypeOK, validateActive, Valid
<1>2. /\ observed[c].version \in Nat /\ observed[c].record.seq \in Nat
      /\ observed[c].record.at \in Nat
  BY <1>1, ObservedFields
<1>3. /\ p.expected = observed[c].version
      /\ p.record.uid = observed[c].record.uid /\ p.record.dur = observed[c].record.dur
      /\ p.record.owner \in {observed[c].record.owner, Nobody}
      /\ p.record.epoch = observed[c].record.epoch
      /\ p.record.seq = observed[c].record.seq + 1 /\ p.record.at = now
  BY DEF renewal, release, renewalRecord, releaseRecord, nextRecord
<1>4. p.record.epoch = lease[c].epoch /\ p.record.seq = lease[c].seq + 1
  BY <1>1, <1>3 DEF observedIsLease
<1>5. Past(observed[c].version, observed[c].record)
  BY DEF Safe, Local, SnapshotOK
<1>6. p.expected <= object.version
  BY <1>3, <1>5 DEF Past
<1>7. ASSUME p.expected = object.version PROVE NextInGrant(p.record)
  <2>1. object.record = observed[c].record
    BY <1>3, <1>5, <1>7 DEF Past
  <2>2. object.record.owner # Nobody
    BY <1>1, <2>1, ConfigAssumption DEF observedIsLease, ValidConfig
  <2>3. object.record.at <= now
    BY DEF Safe, StoreInv
  <2> QED  BY <1>1, <1>3, <2>1, <2>2, <2>3 DEF NextInGrant
<1>8. /\ p.record.epoch <= object.record.epoch
      /\ \A d \in Client \ {c} : lease[d].held => lease[d].epoch # p.record.epoch
  BY <1>1, <1>4 DEF Safe, EpochInv
<1>9. \A d \in Client : grantInFlight(d) => prop[d].record.epoch # p.record.epoch
  <2>1. ~grantInFlight(c)
    BY <1>1 DEF Safe, Local, CallOK, grantInFlight
  <2> QED  BY <1>1, <1>4, <2>1 DEF Safe, EpochInv
<1> QED  BY <1>4, <1>6, <1>7, <1>8, <1>9

LEMMA RenewSafe ==
  ASSUME Safe, TypeOK', NEW c \in Client, Renew(c)
  PROVE  Safe'
<1>1. UNCHANGED <<now, object, issued, late, observed, terminal>> /\ pc[c] = "idle"
  BY DEF Renew, storeVars
<1>2. CASE reconcilePending(c, "renew")
  BY <1>2, ReconcileSafe DEF Renew
<1>3. CASE retire(c) /\ UNCHANGED <<pending, callVars, get>>
  BY <1>1, <1>3, RetireFacts, GiveUpSafe DEF callVars, Safe
<1>4. CASE /\ validateActive(c) /\ canAdvance(observed[c].record.seq)
           /\ pc' = [pc EXCEPT ![c] = "frozen"]
           /\ prop' = [prop EXCEPT ![c] = renewal(c)]
           /\ UNCHANGED <<lease, pending, cur, put, get>>
  <2> DEFINE p == renewal(c)
  <2>1. /\ p.expected <= object.version
        /\ p.expected = object.version => NextInGrant(p.record)
        /\ p.record.epoch = lease[c].epoch /\ p.record.seq = lease[c].seq + 1
        /\ p.record.epoch <= object.record.epoch
        /\ \A d \in Client \ {c} : lease[d].held => lease[d].epoch # p.record.epoch
        /\ \A d \in Client : grantInFlight(d) => prop[d].record.epoch # p.record.epoch
    BY <1>4, FrozenInGrant
  <2>2. p.kind = "renew" /\ p.ends = lease[c].validUntil /\ p.record.owner # Nobody
    BY <1>4, ConfigAssumption
       DEF renewal, renewalRecord, nextRecord, validateActive, observedIsLease, ValidConfig
  <2> HIDE DEF p
  <2>3. /\ pc'[c] = "frozen" /\ prop'[c] = p /\ put[c].state = "none"
        /\ \A d \in Client \ {c} : pc'[d] = pc[d] /\ prop'[d] = prop[d]
    BY <1>1, <1>4 DEF Safe, TypeOK, Put, Local, CallOK, p
  <2>4. Quiet(c)
    BY <1>1, <1>4, <2>3 DEF Quiet, Others, grantInFlight
  <2>5. OfConfirmedGrant(p.record)
    <3>1. p.record.seq <= lease[c].seq + 1
      BY <2>1 DEF Safe, TypeOK, Lease
    <3> QED  BY <2>1, <2>2, <3>1 DEF OfConfirmedGrant
  <2>6. GrantProposal(c, p)
    BY <2>1, <2>2, <2>5 DEF GrantProposal
  <2>7. GrantProposal(c, prop[c])'
    <3>1. GrantProposal(c, prop'[c])
      BY <2>3, <2>6
    <3>2. ASSUME NEW q, GrantProposal(c, q) PROVE GrantProposal(c, q)'
      BY <2>4, <3>2, GrantProposalQuiet
    <3> QED  BY <3>1, <3>2
  <2>8. GrantProposal(c, pending[c])'
    BY <1>4, <2>4, GrantProposalQuiet DEF Safe, Local, ProposalOK
  <2>9. CallOK(c)' /\ SnapshotOK(c)' /\ SinceOK(c)' /\ ReadOK(c)'
    BY <1>1, <1>4, <2>2, <2>3
       DEF Safe, Local, CallOK, SnapshotOK, Past, SinceOK, ReadOK
  <2>10. ProposalOK(c)'
    BY <2>2, <2>3, <2>7, <2>8 DEF ProposalOK
  <2> QED  BY <1>1, <2>4, <2>9, <2>10, QuietStep DEF Local
<1> QED  BY <1>2, <1>3, <1>4 DEF Renew

LEMMA ReleaseSafe ==
  ASSUME Safe, TypeOK', NEW c \in Client, Release(c)
  PROVE  Safe'
<1>1. UNCHANGED <<now, object, issued, late, observed, terminal>> /\ pc[c] = "idle"
  BY DEF Release, storeVars
<1>2. CASE reconcilePending(c, "release")
  BY <1>2, ReconcileSafe DEF Release
<1>3. CASE retire(c) /\ UNCHANGED <<pending, callVars, get>>
  BY <1>1, <1>3, RetireFacts, GiveUpSafe DEF callVars, Safe
<1>4. CASE retire(c) /\ return(c) /\ UNCHANGED <<pending, get>>
  BY <1>1, <1>4, RetireFacts, GiveUpSafe DEF Safe
<1>5. CASE /\ validateActive(c) /\ canAdvance(observed[c].record.seq) /\ retire(c)
           /\ send(c, release(c)) /\ pending' = [pending EXCEPT ![c] = release(c)]
           /\ UNCHANGED get
  <2> DEFINE p == release(c)
  <2>1. /\ p.expected <= object.version
        /\ p.expected = object.version => NextInGrant(p.record)
        /\ p.record.epoch <= object.record.epoch
        /\ \A d \in Client \ {c} : lease[d].held => lease[d].epoch # p.record.epoch
        /\ \A d \in Client : grantInFlight(d) => prop[d].record.epoch # p.record.epoch
    BY <1>5, FrozenInGrant
  <2>2. p.kind = "release"
    BY DEF release
  <2>3. ~lease'[c].held /\ \A d \in Client \ {c} : lease'[d] = lease[d]
    BY <1>5, RetireFacts DEF Safe
  <2> HIDE DEF p
  <2>4. /\ prop'[c] = p /\ put'[c].state = "sent"
        /\ \A d \in Client \ {c} : /\ pc'[d] = pc[d] /\ prop'[d] = prop[d]
                                   /\ cur'[d] = cur[d] /\ put'[d] = put[d]
    BY <1>5, SendFacts DEF Safe, p
  <2>5. pending'[c] = p /\ \A d \in Client \ {c} : pending'[d] = pending[d]
    BY <1>5 DEF Safe, TypeOK, p
  <2>6. Quiet(c)
    BY <1>1, <1>5, <2>3, <2>4, <2>5 DEF Quiet, Others, grantInFlight
  <2>7. ASSUME NEW q, q = p PROVE GrantProposal(c, q)'
    <3>1. OfConfirmedGrant(q.record)'
      BY <1>1, <2>1, <2>3, <2>4, <2>7 DEF OfConfirmedGrant, grantInFlight
    <3>2. (q.expected = object.version)' => NextInGrant(q.record)'
      BY <1>1, <2>1, <2>7 DEF NextInGrant
    <3> QED  BY <1>1, <2>1, <2>2, <2>7, <3>1, <3>2 DEF GrantProposal
  <2>8. send(c, p)
    BY <1>5 DEF p
  <2>9. PICK q : q = p
    OBVIOUS
  <2> QED  BY <1>1, <1>5, <2>2, <2>5, <2>6, <2>7, <2>8, <2>9, AtSend, QuietStep
<1> QED  BY <1>2, <1>3, <1>4, <1>5 DEF Release

\* sendPending resends, forgets or drops a proposal the call carries.
LEMMA SendPendingSafe ==
  ASSUME Safe, TypeOK', NEW c \in Client, sendPending(c, prop[c]),
         UNCHANGED <<now, object, issued, late, observed, terminal, get>>,
         prop[c].kind \in {"renew", "release"}
  PROVE  Safe'
<1>1. CASE return(c) /\ clearPending(c, prop[c]) /\ UNCHANGED lease
  BY <1>1, ClearFacts, GiveUpSafe DEF Safe
<1>2. CASE return(c) /\ dropPending(c, prop[c])
  BY <1>2, DropFacts, GiveUpSafe DEF Safe
<1>3. CASE send(c, prop[c]) /\ pending' = [pending EXCEPT ![c] = prop[c]] /\ UNCHANGED lease
  <2>1. /\ prop'[c] = prop[c] /\ put'[c].state = "sent" /\ pending'[c] = prop[c]
        /\ \A d \in Client \ {c} : /\ pc'[d] = pc[d] /\ prop'[d] = prop[d]
                                   /\ cur'[d] = cur[d] /\ put'[d] = put[d]
    BY <1>3, SendFacts DEF Safe, TypeOK
  <2>2. \A d \in Client \ {c} : pending'[d] = pending[d]
    BY <1>3 DEF Safe, TypeOK
  <2>3. Quiet(c)
    BY <1>3, <2>1, <2>2 DEF Quiet, Others, grantInFlight
  <2>4. PICK q : q = prop[c]
    OBVIOUS
  <2>5. GrantProposal(c, q)'
    BY <2>3, <2>4, GrantProposalQuiet DEF Safe, Local, ProposalOK
  <2> QED  BY <1>3, <2>1, <2>3, <2>4, <2>5, AtSend, QuietStep
<1> QED  BY <1>1, <1>2, <1>3 DEF sendPending

LEMMA RenewFreezesSafe ==
  ASSUME Safe, TypeOK', NEW c \in Client, RenewFreezes(c)
  PROVE  Safe'
<1>1. UNCHANGED <<now, object, issued, late, observed, terminal, get>>
      /\ prop[c].kind = "renew"
  BY DEF RenewFreezes, storeVars, Safe, Local, CallOK
<1>2. CASE sendPending(c, prop[c])
  BY <1>1, <1>2, SendPendingSafe
<1>3. CASE /\ return(c) /\ UNCHANGED pending
           /\ lease' = [lease EXCEPT ![c] = IF retiredByValidate(c) THEN NoLease ELSE @]
  <2>1. /\ lease'[c] = lease[c] \/ ~lease'[c].held
        /\ \A d \in Client \ {c} : lease'[d] = lease[d]
    BY <1>3 DEF Safe, TypeOK, NoLease
  <2> QED  BY <1>1, <1>3, <2>1, GiveUpSafe
<1> QED  BY <1>2, <1>3 DEF RenewFreezes

LEMMA ReadbackReturnsSafe ==
  ASSUME Safe, TypeOK', NEW c \in Client, ReadbackReturns(c)
  PROVE  Safe'
<1>1. /\ UNCHANGED <<now, object, issued, late, pending>>
      /\ pc[c] \in {"reconcileRead", "conflictRead"} /\ "mutation" \in Reader
      /\ get[c]["mutation"].busy /\ prop[c].kind \in {"renew", "release"}
  BY DEF ReadbackReturns, storeVars, Safe, Local, CallOK, Reader
<1>2. /\ Past(observed[c].version, observed[c].record)'
      /\ \A q \in Reader : Past(get[c][q].found.version, get[c][q].found.record)'
      /\ SinceOK(c)' /\ ReadOK(c)'
      /\ lease'[c] = lease[c] \/ ~lease'[c].held
      /\ \A d \in Client \ {c} :
           /\ observed'[d] = observed[d] /\ lease'[d] = lease[d]
           /\ terminal'[d] = terminal[d] /\ get'[d] = get[d]
  BY <1>1, ReadStep DEF ReadbackReturns
<1>3. CASE return(c)
  <2>1. put'[c] = NoPut
        /\ \A d \in Client \ {c} : /\ pc'[d] = pc[d] /\ prop'[d] = prop[d]
                                   /\ cur'[d] = cur[d] /\ put'[d] = put[d]
    BY <1>3, ReturnFacts DEF Safe
  <2>2. Quiet(c)
    BY <1>1, <1>2, <2>1 DEF Quiet, Others, grantInFlight, NoPut
  <2> QED  BY <1>1, <1>2, <1>3, <2>2, AtRest, QuietStep
<1>4. CASE /\ pc' = [pc EXCEPT ![c] =
                       IF @ = "reconcileRead" THEN "reconcileDecide" ELSE "conflictDecide"]
           /\ cur' = [cur EXCEPT ![c] = observed'[c]]
           /\ UNCHANGED <<prop, put>>
  <2>1. /\ pc'[c] \in {"reconcileDecide", "conflictDecide"} /\ cur'[c] = observed'[c]
        /\ \A d \in Client \ {c} : pc'[d] = pc[d] /\ cur'[d] = cur[d]
    BY <1>4 DEF Safe, TypeOK
  <2>2. Quiet(c)
    BY <1>1, <1>2, <1>4, <2>1 DEF Quiet, Others, grantInFlight
  <2>3. put[c].state = "none"
    BY <1>1 DEF Safe, Local, CallOK
  <2>4. CallOK(c)'
    BY <1>1, <1>4, <2>1, <2>3 DEF CallOK
  <2>5. SnapshotOK(c)'
    BY <1>2, <1>4, <2>1, <2>3 DEF SnapshotOK
  <2>6. ProposalOK(c)'
    BY <1>1, <1>4, <2>2, KeepsProposals
  <2> QED  BY <1>1, <1>2, <2>2, <2>4, <2>5, <2>6, QuietStep DEF Local
<1> QED  BY <1>3, <1>4 DEF ReadbackReturns

LEMMA PutUnknownSafe ==
  ASSUME Safe, TypeOK', NEW c \in Client, PutUnknown(c)
  PROVE  Safe'
BY AbandonOK, GiveUpSafe DEF PutUnknown, authority

LEMMA PutRefusedSafe ==
  ASSUME Safe, TypeOK', NEW c \in Client, PutRefused(c)
  PROVE  Safe'
BY ClearFacts, GiveUpSafe DEF PutRefused, storeVars, Safe

LEMMA AttemptRepeatedSafe ==
  ASSUME Safe, TypeOK', NEW c \in Client, AttemptRepeated(c)
  PROVE  Safe'
<1>1. /\ UNCHANGED <<now, object, issued, observed, lease, pending, terminal>>
      /\ UNCHANGED <<pc, prop, cur, get>> /\ put[c].state # "none" /\ put'[c].state = "sent"
      /\ \A d \in Client \ {c} : put'[d] = put[d]
  BY DEF AttemptRepeated, authority, Safe, TypeOK
<1>2. Quiet(c)
  BY <1>1 DEF Quiet, Others, grantInFlight
<1>3. CallOK(c)' /\ SnapshotOK(c)' /\ SinceOK(c)' /\ ReadOK(c)'
  BY <1>1 DEF Safe, Local, CallOK, SnapshotOK, Past, SinceOK, ReadOK
<1>4. ProposalOK(c)'
  BY <1>1, <1>2, KeepsProposals DEF AttemptRepeated
<1> QED  BY <1>2, <1>3, <1>4, AbandonOK, QuietStep DEF AttemptRepeated, Local

LEMMA PutConflictsSafe ==
  ASSUME Safe, TypeOK', NEW c \in Client, PutConflicts(c)
  PROVE  Safe'
<1>1. UNCHANGED <<now, object, issued, late, observed, terminal>> /\ pc[c] = "put"
  BY DEF PutConflicts, storeVars
<1>2. CASE return(c) /\ UNCHANGED <<lease, pending, get>>
  BY <1>1, <1>2, GiveUpSafe
<1>3. CASE dropPending(c, prop[c]) /\ return(c) /\ UNCHANGED get
  BY <1>1, <1>3, DropFacts, GiveUpSafe DEF Safe
<1>4. CASE /\ prop[c].kind # "acquire" /\ callRead(c, "conflictRead", prop[c])
           /\ UNCHANGED <<lease, pending>>
  <2>1. prop[c].kind \in {"renew", "release"}
    BY <1>1, <1>4 DEF Safe, Local, CallOK, TypeOK, Proposal
  <2> QED  BY <1>1, <1>4, <2>1, ReadbackSafe
<1> QED  BY <1>2, <1>3, <1>4 DEF PutConflicts

--------------------------------------------------------------------------------
(***************************************************************************)
(* Confirmation: the answer, or a readback, shows that the write succeeded. *)
(***************************************************************************)

\* A confirmed proposal becomes the observation; reads under way are outdated.
LEMMA ConfirmedObservation ==
  ASSUME Safe, NEW c \in Client, NEW v \in Nat, Past(v, prop[c].record),
         replaceObserved(c, v, prop[c].record, prop[c].record.at),
         get' = [get EXCEPT ![c] = outdateReads(c)],
         UNCHANGED <<now, object, terminal>>
  PROVE  /\ Past(observed[c].version, observed[c].record)'
         /\ \A q \in Reader : Past(get[c][q].found.version, get[c][q].found.record)'
         /\ SinceOK(c)' /\ ReadOK(c)'
         /\ \A d \in Client \ {c} : observed'[d] = observed[d] /\ get'[d] = get[d]
<1>1. /\ observed'[c] = [version |-> v, record |-> prop[c].record,
                         since |-> prop[c].record.at]
      /\ \A d \in Client \ {c} : observed'[d] = observed[d]
  BY DEF replaceObserved, Safe, TypeOK
<1>2. /\ \A q \in Reader :
           /\ get'[c][q].busy = get[c][q].busy /\ get'[c][q].asked = get[c][q].asked
           /\ get'[c][q].found = get[c][q].found /\ ~get'[c][q].same
      /\ \A d \in Client \ {c} : get'[d] = get[d]
  BY DEF outdateReads, Safe, TypeOK
<1>3. SnapshotOK(c) /\ SinceOK(c) /\ ReadOK(c)
  BY DEF Safe, Local
<1>4. Past(observed[c].version, observed[c].record)'
  BY <1>1 DEF Past
<1>5. \A q \in Reader : Past(get[c][q].found.version, get[c][q].found.record)'
  BY <1>2, <1>3 DEF SnapshotOK, Past
<1>6. SinceOK(c)'
  <2>1. v = object.version => object.record.at <= prop[c].record.at
    BY ObjectFields DEF Past, Safe, TypeOK
  <2> QED  BY <1>1, <1>2, <1>3, <2>1 DEF SinceOK
<1>7. ReadOK(c)'
  BY <1>2, <1>3 DEF ReadOK
<1> QED  BY <1>1, <1>2, <1>4, <1>5, <1>6, <1>7

\* A step that grants or extends the lease of c, by what the store committed.
LEMMA GrantStep ==
  ASSUME Safe, TypeOK', NEW c \in Client, UNCHANGED <<now, object, issued, late>>,
         Others(c), ~grantInFlight(c)', Local(c)', EpochInv', AuthorityInv',
         \A r \in Record : OfConfirmedGrant(r) => OfConfirmedGrant(r)'
  PROVE  Safe'
<1>1. StoreInv'
  BY DEF Safe, StoreInv
<1>2. LateInv'
  BY DEF Safe, LateInv, Harmless, NextGrant, NextInGrant, TypeOK
<1>3. GrantInv'
  BY DEF Safe, GrantInv, Others, grantInFlight
<1>4. ASSUME NEW d \in Client \ {c} PROVE Local(d)'
  <2>1. Local(d)
    BY DEF Safe
  <2>2. CallOK(d)'
    BY <2>1 DEF Local, CallOK, Others
  <2>3. SnapshotOK(d)'
    BY <2>1 DEF Local, SnapshotOK, Past, Others
  <2>4. SinceOK(d)'
    BY <2>1 DEF Local, SinceOK, Others
  <2>5. ReadOK(d)'
    BY <2>1 DEF Local, ReadOK, Others
  <2>6. ASSUME NEW p \in Proposal, GrantProposal(d, p) PROVE GrantProposal(d, p)'
    BY <2>6, ProposalFields DEF GrantProposal, NextInGrant, heldBy, Others
  <2>7. ProposalOK(d)'
    <3>1. GrantProposal(d, pending'[d]) /\ GrantProposal(d, prop'[d])
      BY <2>1 DEF Local, ProposalOK, Others
    <3>2. GrantProposal(d, pending[d])' /\ GrantProposal(d, prop[d])'
      BY <2>6, <3>1 DEF TypeOK
    <3> QED  BY <2>1, <3>2 DEF Local, ProposalOK, NextGrant, Others
  <2> QED  BY <2>2, <2>3, <2>4, <2>5, <2>7 DEF Local
<1> QED  BY <1>1, <1>2, <1>3, <1>4 DEF Safe

LEMMA ConfirmReleaseSafe ==
  ASSUME Safe, TypeOK', NEW c \in Client, NEW v \in Nat, Past(v, prop[c].record),
         confirmRelease(c, v), return(c), UNCHANGED <<now, object, issued, late, terminal>>
  PROVE  Safe'
<1>1. /\ Past(observed[c].version, observed[c].record)'
      /\ \A q \in Reader : Past(get[c][q].found.version, get[c][q].found.record)'
      /\ SinceOK(c)' /\ ReadOK(c)'
      /\ \A d \in Client \ {c} : observed'[d] = observed[d] /\ get'[d] = get[d]
  BY ConfirmedObservation DEF confirmRelease
<1>2. /\ put'[c] = NoPut
      /\ \A d \in Client \ {c} : /\ pc'[d] = pc[d] /\ prop'[d] = prop[d]
                                 /\ cur'[d] = cur[d] /\ put'[d] = put[d]
  BY ReturnFacts DEF Safe
<1>3. /\ pending'[c] = pending[c] \/ pending'[c] = NoProposal
      /\ \A d \in Client \ {c} : pending'[d] = pending[d]
      /\ lease' = lease
  BY ClearFacts DEF confirmRelease, Safe
<1>4. Quiet(c)
  BY <1>1, <1>2, <1>3 DEF Quiet, Others, grantInFlight, NoPut
<1> QED  BY <1>1, <1>3, <1>4, AtRest, QuietStep

\* A call that returns, with its observation and what is pending in order.
LEMMA Returned ==
  ASSUME Safe, NEW c \in Client, return(c), UNCHANGED <<now, object>>,
         Past(observed[c].version, observed[c].record)',
         \A q \in Reader : Past(get[c][q].found.version, get[c][q].found.record)',
         SinceOK(c)', ReadOK(c)', GrantProposal(c, pending[c])'
  PROVE  Local(c)'
<1>1. /\ pc'[c] = "idle" /\ prop'[c] = NoProposal /\ cur'[c] = NotObserved
      /\ put'[c] = NoPut
  BY ReturnFacts DEF Safe
<1>2. CallOK(c)'
  BY <1>1 DEF CallOK, NoProposal, NoPut
<1>3. SnapshotOK(c)'
  <2>1. Past(cur[c].version, cur[c].record)'
    BY <1>1, EmptyIsPast DEF Safe, NotObserved, Past
  <2> QED  BY <1>1, <2>1 DEF SnapshotOK, NoPut
<1>4. ProposalOK(c)'
  BY <1>1 DEF ProposalOK, GrantProposal, NoProposal
<1> QED  BY <1>2, <1>3, <1>4 DEF Local

LEMMA ConfirmAcquisitionSafe ==
  ASSUME Safe, TypeOK', NEW c \in Client, NEW v \in Nat, Past(v, prop[c].record),
         grantInFlight(c), confirmAcquisition(c, v), return(c),
         UNCHANGED <<now, object, issued, late, terminal>>
  PROVE  Safe'
<1>1. CASE UNCHANGED <<observed, lease, pending, get>>
  BY <1>1, GiveUpSafe
<1>2. CASE /\ acquisitionConfirmed(c, v)
           /\ replaceObserved(c, v, prop[c].record, prop[c].record.at)
           /\ get' = [get EXCEPT ![c] = outdateReads(c)]
           /\ lease' = [lease EXCEPT ![c] =
                [held |-> TRUE, uid |-> prop[c].record.uid, epoch |-> prop[c].record.epoch,
                 seq |-> prop[c].record.seq, validUntil |-> proposalPhaseEnd(c, prop[c])]]
           /\ UNCHANGED pending
  <2> DEFINE mine == prop[c].record
  <2>1. /\ Past(observed[c].version, observed[c].record)'
        /\ \A q \in Reader : Past(get[c][q].found.version, get[c][q].found.record)'
        /\ SinceOK(c)' /\ ReadOK(c)'
        /\ \A d \in Client \ {c} : observed'[d] = observed[d] /\ get'[d] = get[d]
    BY <1>2, ConfirmedObservation
  <2>2. /\ put'[c] = NoPut
        /\ \A d \in Client \ {c} : /\ pc'[d] = pc[d] /\ prop'[d] = prop[d]
                                   /\ cur'[d] = cur[d] /\ put'[d] = put[d]
    BY ReturnFacts DEF Safe
  <2>3. /\ lease'[c].held /\ lease'[c].uid = mine.uid /\ lease'[c].epoch = mine.epoch
        /\ lease'[c].seq = mine.seq /\ lease'[c].validUntil = mine.at + RenewDeadline[c]
        /\ \A d \in Client \ {c} : lease'[d] = lease[d]
    BY <1>2 DEF Safe, TypeOK, grantInFlight, proposalPhaseEnd, proposalEnd
  <2>4. Others(c) /\ ~grantInFlight(c)'
    BY <1>2, <2>1, <2>2, <2>3 DEF Others, grantInFlight, NoPut
  <2>5. object.record = mine
    BY <1>2 DEF Safe, GrantInv, acquisitionConfirmed, grantInFlight, proposalPhaseEnd,
                proposalEnd
  <2>6. \A r \in Record : OfConfirmedGrant(r) => OfConfirmedGrant(r)'
    BY <2>2, <2>3, <2>4 DEF OfConfirmedGrant, grantInFlight
  <2>7. EpochInv'
    <3>1. object.record.epoch \in Nat
      BY ObjectFields DEF Safe, TypeOK
    <3> QED  BY <2>2, <2>3, <2>4, <2>5, <3>1 DEF Safe, EpochInv, grantInFlight
  <2>8. AuthorityInv'
    <3>1. /\ mine.owner = ClientID[c] /\ mine.dur = LeaseDuration[c]
      BY DEF Safe, Local, ProposalOK, grantInFlight
    <3>2. /\ mine.at \in Nat /\ mine.seq \in Nat /\ RenewDeadline[c] \in Nat
          /\ LeaseDuration[c] \in Nat /\ RenewDeadline[c] < LeaseDuration[c]
      BY <2>5, ObjectFields, ConfigAssumption DEF Safe, TypeOK, ValidConfig
    <3>3. mine.at + RenewDeadline[c] < mine.at + mine.dur
      BY <3>1, <3>2
    <3> QED  BY <2>3, <2>5, <3>1, <3>3 DEF Safe, AuthorityInv, AuthorityBacked, Valid
  <2>9. GrantProposal(c, pending[c])'
    <3>1. GrantProposal(c, pending[c]) /\ pending[c].record \in Record
      BY ProposalFields DEF Safe, TypeOK, Local, ProposalOK
    <3> QED  BY <1>2, <2>3, <2>6, <3>1
                DEF GrantProposal, OfConfirmedGrant, NextInGrant, heldBy
  <2>10. Local(c)'
    BY <2>1, <2>9, Returned
  <2> QED  BY <2>4, <2>6, <2>7, <2>8, <2>10, GrantStep
<1> QED  BY <1>1, <1>2 DEF confirmAcquisition

\* A renewal confirmed before the lease runs out is what the object holds:
\* nobody has had the time to take it over.
LEMMA ConfirmRenewalSafe ==
  ASSUME Safe, TypeOK', NEW c \in Client, NEW v \in Nat, Past(v, prop[c].record),
         prop[c].kind = "renew", confirmRenewal(c, v), return(c),
         UNCHANGED <<now, object, issued, late, terminal>>
  PROVE  Safe'
<1>1. CASE dropPending(c, prop[c]) /\ UNCHANGED <<observed, get>>
  BY <1>1, DropFacts, GiveUpSafe DEF Safe
<1>2. CASE /\ renewalConfirmed(c)
           /\ replaceObserved(c, v, prop[c].record, prop[c].record.at)
           /\ get' = [get EXCEPT ![c] = outdateReads(c)]
           /\ lease' = [lease EXCEPT ![c] =
                [held |-> TRUE, uid |-> lease[c].uid, epoch |-> lease[c].epoch,
                 seq |-> prop[c].record.seq, validUntil |-> proposalEnd(c, prop[c])]]
           /\ clearPending(c, prop[c])
  <2> DEFINE mine == prop[c].record
  <2>1. /\ Past(observed[c].version, observed[c].record)'
        /\ \A q \in Reader : Past(get[c][q].found.version, get[c][q].found.record)'
        /\ SinceOK(c)' /\ ReadOK(c)'
        /\ \A d \in Client \ {c} : observed'[d] = observed[d] /\ get'[d] = get[d]
    BY <1>2, ConfirmedObservation
  <2>2. /\ put'[c] = NoPut
        /\ \A d \in Client \ {c} : /\ pc'[d] = pc[d] /\ prop'[d] = prop[d]
                                   /\ cur'[d] = cur[d] /\ put'[d] = put[d]
    BY ReturnFacts DEF Safe
  <2>3. /\ lease'[c].held /\ lease'[c].uid = lease[c].uid
        /\ lease'[c].epoch = lease[c].epoch /\ lease'[c].seq = mine.seq
        /\ lease'[c].validUntil = mine.at + RenewDeadline[c]
        /\ \A d \in Client \ {c} : lease'[d] = lease[d]
    BY <1>2 DEF Safe, TypeOK, proposalEnd
  <2>4. /\ pending'[c] = NoProposal
        /\ \A d \in Client \ {c} : pending'[d] = pending[d]
    BY <1>2 DEF clearPending, renewalConfirmed, Safe, TypeOK
  <2>5. Others(c) /\ ~grantInFlight(c)'
    BY <2>1, <2>2, <2>3, <2>4 DEF Others, grantInFlight, NoPut
  <2>6. /\ heldBy(c, prop[c]) /\ mine.seq = lease[c].seq + 1 /\ Valid(c)
        /\ mine.epoch = lease[c].epoch
    BY <1>2 DEF renewalConfirmed, Safe, Local, ProposalOK, GrantProposal, heldBy, Valid
  <2>7. /\ object.record.uid = lease[c].uid /\ object.record.owner = ClientID[c]
        /\ object.record.epoch = lease[c].epoch /\ object.record.dur = LeaseDuration[c]
        /\ object.record.seq \in {lease[c].seq, lease[c].seq + 1}
    BY <2>6 DEF Safe, AuthorityInv, AuthorityBacked
  <2>8. object.record = mine
    <3>1. lease[c].seq \in Nat /\ object.record.epoch \in Nat /\ object.record.seq \in Nat
      BY ObjectFields DEF Safe, TypeOK, Lease
    <3> QED  BY <2>6, <2>7, <3>1 DEF Past, AtOrAfter
  <2>9. \A r \in Record : OfConfirmedGrant(r) => OfConfirmedGrant(r)'
    <3> SUFFICES ASSUME NEW r \in Record, OfConfirmedGrant(r) PROVE OfConfirmedGrant(r)'
      OBVIOUS
    <3>1. (r.epoch <= object.record.epoch)'
          /\ (\A d \in Client : grantInFlight(d) => prop[d].record.epoch # r.epoch)'
      BY <2>2, <2>5 DEF OfConfirmedGrant, grantInFlight
    <3>2. \A d \in Client \ {c} : lease'[d].held /\ lease'[d].epoch = r.epoch =>
            r.owner # Nobody /\ r.seq <= lease'[d].seq + 1
      BY <2>3 DEF OfConfirmedGrant
    <3>3. ASSUME lease'[c].epoch = r.epoch
          PROVE  r.owner # Nobody /\ r.seq <= lease'[c].seq + 1
      <4>1. r.owner # Nobody /\ r.seq <= lease[c].seq + 1 /\ r.epoch = mine.epoch
        BY <2>3, <2>6, <3>3 DEF OfConfirmedGrant, heldBy
      <4>2. r.seq \in Nat /\ lease[c].seq \in Nat
        BY CounterAssumption DEF Safe, TypeOK, Lease, Record
      <4> QED  BY <2>3, <2>6, <4>1, <4>2
    <3> QED  BY <3>1, <3>2, <3>3 DEF OfConfirmedGrant
  <2>10. EpochInv'
    BY <2>2, <2>3, <2>5, <2>6 DEF Safe, EpochInv, grantInFlight, heldBy
  <2>11. AuthorityInv'
    <3>1. /\ mine.at \in Nat /\ mine.seq \in Nat /\ RenewDeadline[c] \in Nat
          /\ LeaseDuration[c] \in Nat /\ RenewDeadline[c] < LeaseDuration[c]
      BY <2>8, ObjectFields, ConfigAssumption DEF Safe, TypeOK, ValidConfig
    <3>2. mine.at + RenewDeadline[c] < mine.at + mine.dur
      BY <2>7, <2>8, <3>1
    <3> QED  BY <2>3, <2>7, <2>8, <3>2 DEF Safe, AuthorityInv, AuthorityBacked, Valid
  <2>12. Local(c)'
    <3>1. GrantProposal(c, pending[c])'
      BY <2>4 DEF GrantProposal, NoProposal
    <3> QED  BY <2>1, <3>1, Returned
  <2> QED  BY <2>5, <2>9, <2>10, <2>11, <2>12, GrantStep
<1> QED  BY <1>1, <1>2 DEF confirmRenewal

LEMMA ConfirmSafe ==
  ASSUME Safe, TypeOK', NEW c \in Client, NEW v \in Nat, Past(v, prop[c].record),
         prop[c].kind = "acquire" => grantInFlight(c), confirm(c, v),
         UNCHANGED <<now, object, issued, late, terminal>>
  PROVE  Safe'
BY ConfirmAcquisitionSafe, ConfirmRenewalSafe, ConfirmReleaseSafe DEF confirm

LEMMA PutSucceedsSafe ==
  ASSUME Safe, TypeOK', NEW c \in Client, PutSucceeds(c)
  PROVE  Safe'
<1>1. put[c].version \in Nat /\ Past(put[c].version, prop[c].record)
  BY DEF PutSucceeds, Safe, TypeOK, Put, Local, SnapshotOK
<1> QED  BY <1>1, ConfirmSafe DEF PutSucceeds, storeVars, grantInFlight

LEMMA ReadbackDecidesSafe ==
  ASSUME Safe, TypeOK', NEW c \in Client, ReadbackDecides(c)
  PROVE  Safe'
<1>1. /\ UNCHANGED <<now, object, issued, late, terminal>>
      /\ prop[c].kind \in {"renew", "release"}
  BY DEF ReadbackDecides, storeVars, Safe, Local, CallOK
<1>2. CASE cur[c].record = prop[c].record /\ confirm(c, cur[c].version)
  <2>1. cur[c].version \in Nat /\ Past(cur[c].version, prop[c].record)
    BY <1>2 DEF Safe, TypeOK, Observed, Local, SnapshotOK
  <2> QED  BY <1>1, <1>2, <2>1, ConfirmSafe
<1>3. CASE dropPending(c, prop[c]) /\ return(c) /\ UNCHANGED <<observed, get>>
  BY <1>1, <1>3, DropFacts, GiveUpSafe DEF Safe
<1>4. CASE unresolved(c) /\ UNCHANGED <<observed, get>>
  <2>1. CASE return(c) /\ UNCHANGED <<lease, pending>>
    BY <1>1, <1>4, <2>1, GiveUpSafe
  <2>2. CASE sendPending(c, prop[c])
    BY <1>1, <1>4, <2>2, SendPendingSafe
  <2> QED  BY <1>4, <2>1, <2>2 DEF unresolved
<1> QED  BY <1>2, <1>3, <1>4 DEF ReadbackDecides

--------------------------------------------------------------------------------
(***************************************************************************)
(* Time and the store.                                                     *)
(***************************************************************************)

LEMMA TickSafe ==
  ASSUME Safe, TypeOK', Tick
  PROVE  Safe'
<1>1. /\ now \in Nat /\ now' = now + 1
      /\ UNCHANGED <<object, issued, late, observed, lease, pending, terminal>>
      /\ UNCHANGED <<pc, prop, cur, put, get>>
  BY DEF Tick, storeVars, authority, callVars, Safe, TypeOK
<1>2. ASSUME NEW r \in Record
      PROVE  /\ NextGrant(r) => NextGrant(r)'
             /\ NextInGrant(r) => NextInGrant(r)'
             /\ OfConfirmedGrant(r) => OfConfirmedGrant(r)'
  <2>1. r.at \in Nat
    BY DEF Record
  <2> QED  BY <1>1, <2>1 DEF NextGrant, NextInGrant, OfConfirmedGrant, grantInFlight
<1>3. StoreInv'
  <2>1. object.record.at \in Nat
    BY ObjectFields DEF Safe, TypeOK
  <2> QED  BY <1>1, <2>1 DEF Safe, StoreInv
<1>4. LateInv'
  BY <1>1, <1>2 DEF Safe, TypeOK, LateInv, Harmless
<1>5. EpochInv'
  BY <1>1 DEF Safe, EpochInv, grantInFlight
<1>6. GrantInv'
  <2> SUFFICES ASSUME NEW c \in Client, grantInFlight(c)',
                      now' < prop'[c].record.at + RenewDeadline[c]
               PROVE  object'.record = prop'[c].record
    BY DEF GrantInv
  <2>1. prop[c].record.at + RenewDeadline[c] \in Nat
    BY ProposalFields, ConfigAssumption DEF Safe, TypeOK, ValidConfig
  <2>2. now < prop[c].record.at + RenewDeadline[c]
    BY <1>1, <2>1
  <2> QED  BY <1>1, <2>2 DEF Safe, GrantInv, grantInFlight
<1>7. AuthorityInv'
  <2>1. \A c \in Client : Valid(c)' => Valid(c)
    BY <1>1 DEF Valid, Safe, TypeOK, Lease
  <2> QED  BY <1>1, <2>1 DEF Safe, AuthorityInv, AuthorityBacked
<1>8. ASSUME NEW c \in Client PROVE Local(c)'
  <2>1. CallOK(c)' /\ SnapshotOK(c)' /\ SinceOK(c)' /\ ReadOK(c)'
    BY <1>1 DEF Safe, Local, CallOK, SnapshotOK, Past, SinceOK, ReadOK
  <2>2. pending[c].record \in Record /\ prop[c].record \in Record
    BY ProposalFields DEF Safe, TypeOK
  <2>3. GrantProposal(c, pending[c])' /\ GrantProposal(c, prop[c])'
    BY <1>1, <1>2, <2>2 DEF Safe, Local, ProposalOK, GrantProposal, heldBy
  <2>4. ProposalOK(c)'
    BY <1>1, <1>2, <2>2, <2>3 DEF Safe, Local, ProposalOK
  <2> QED  BY <2>1, <2>4 DEF Local
<1> QED  BY <1>3, <1>4, <1>5, <1>6, <1>7, <1>8 DEF Safe

\* The write of d is the one the store commits.
Answers(d, record) ==
  /\ put[d].state = "sent" /\ prop[d].record = record
  /\ put'[d].state = "committed" /\ put'[d].version = object.version + 1
  /\ prop[d].kind = "acquire" => NextGrant(record)

\* What can still reach the store advances the record.
LEMMA HarmlessAdvances ==
  ASSUME TypeOK, StoreInv, NEW record \in Record, Harmless(record)
  PROVE  /\ validRecord(record) /\ record.at <= now
         /\ object.version # 0 => record.uid = object.record.uid
         /\ \/ record.epoch = object.record.epoch + 1
            \/ record.epoch = object.record.epoch /\ record.seq = object.record.seq + 1
<1>1. /\ object.version \in Nat /\ object.record.epoch \in Nat
      /\ object.record.seq \in Nat
  BY ObjectFields DEF TypeOK
<1>2. CASE NextGrant(record)
  BY <1>1, <1>2 DEF NextGrant, validRecord
<1>3. CASE NextInGrant(record)
  <2>1. object.version # 0
    BY <1>3 DEF NextInGrant, StoreInv, NoObject, NoRecord
  <2> QED  BY <1>1, <1>3, <2>1 DEF NextInGrant, StoreInv, validRecord
<1> QED  BY <1>2, <1>3 DEF Harmless

\* A commit replaces the current record and leaves no promise unkept.
LEMMA CommitSafe ==
  ASSUME Safe, TypeOK', NEW record \in Record, Harmless(record), commit(record),
         UNCHANGED <<now, observed, lease, pending, terminal, pc, prop, cur, get>>,
         \A d \in Client : put'[d] = put[d] \/ Answers(d, record),
         \A d, e \in Client : d # e => put'[d] = put[d] \/ put'[e] = put[e]
  PROVE  Safe'
<1> DEFINE o == object.record
<1>1. /\ object.version \in Nat /\ o.epoch \in Nat /\ o.seq \in Nat /\ o.at \in Nat
      /\ o.dur \in Nat /\ now \in Nat
  BY ObjectFields DEF Safe, TypeOK
<1>2. /\ record.epoch \in Nat /\ record.seq \in Nat /\ record.at \in Nat
      /\ record.dur \in Nat
  BY CounterAssumption DEF Record
<1>3. /\ object'.version = object.version + 1 /\ object'.record = record
      /\ issued' = object'.version /\ late' = {}
  BY DEF commit, Safe, StoreInv
<1>4. /\ validRecord(record) /\ record.at <= now
      /\ object.version # 0 => record.uid = o.uid
      /\ \/ record.epoch = o.epoch + 1
         \/ record.epoch = o.epoch /\ record.seq = o.seq + 1
  BY HarmlessAdvances DEF Safe
<1>5. ASSUME NEW v \in Nat, NEW r \in Record, Past(v, r) PROVE Past(v, r)'
  <2>1. r.epoch \in Nat /\ r.seq \in Nat
    BY CounterAssumption DEF Record
  <2>2. /\ v <= object'.version /\ v # object'.version
        /\ v = 0 => r = NoRecord
        /\ v # 0 => r.uid = object'.record.uid /\ validRecord(r)
    BY <1>1, <1>3, <1>4, <1>5 DEF Past
  <2>3. AtOrAfter(record, r) /\ ~(r.epoch = record.epoch /\ r.seq = record.seq)
    BY <1>1, <1>2, <1>4, <1>5, <2>1 DEF Past, AtOrAfter
  <2> QED  BY <1>3, <2>2, <2>3 DEF Past
<1>6. Past(object.version, object.record)'
  BY <1>1, <1>2, <1>3, <1>4 DEF Past, AtOrAfter
<1>7. StoreInv'
  BY <1>1, <1>3, <1>4 DEF StoreInv
<1>8. LateInv'
  BY <1>3 DEF LateInv
<1>9. \A d \in Client : grantInFlight(d)' =>
        \/ grantInFlight(d) /\ put'[d] = put[d]
        \/ /\ Answers(d, record) /\ put'[d] # put[d] /\ prop[d].record = record
           /\ record.epoch = o.epoch + 1
  BY DEF grantInFlight, Answers, NextGrant
<1>10. \A d \in Client : grantInFlight(d) => prop[d].record.epoch <= o.epoch
  <2> SUFFICES ASSUME NEW d \in Client, grantInFlight(d)
               PROVE  prop[d].record.epoch <= o.epoch
    OBVIOUS
  <2>1. AtOrAfter(object.record, prop[d].record)
    BY DEF Safe, Local, SnapshotOK, grantInFlight, Past
  <2>2. prop[d].record.epoch \in Nat
    BY ProposalFields DEF Safe, TypeOK
  <2> QED  BY <1>1, <2>1, <2>2 DEF AtOrAfter
<1>11. EpochInv'
  <2>1. \A d \in Client : lease[d].held => lease[d].epoch <= o.epoch
    BY DEF Safe, EpochInv
  <2>2. \A d \in Client : lease[d].epoch \in Nat /\ prop[d].record.epoch \in Nat
    BY ProposalFields DEF Safe, TypeOK, Lease
  <2>3. \A d \in Client : lease'[d].held => lease'[d].epoch <= object'.record.epoch
    BY <1>1, <1>2, <1>3, <1>4, <2>1, <2>2
  <2>4. \A d, e \in Client : d # e /\ lease'[d].held /\ grantInFlight(e)' =>
          lease'[d].epoch # prop'[e].record.epoch
    BY <1>1, <1>9, <2>1, <2>2 DEF Safe, EpochInv
  <2>5. \A d, e \in Client : d # e /\ grantInFlight(d)' /\ grantInFlight(e)' =>
          prop'[d].record.epoch # prop'[e].record.epoch
    BY <1>1, <1>9, <1>10, <2>2 DEF Safe, EpochInv
  <2> QED  BY <2>3, <2>4, <2>5 DEF Safe, EpochInv
<1>12. GrantInv'
  <2> SUFFICES ASSUME NEW d \in Client, grantInFlight(d),
                      now < prop[d].record.at + RenewDeadline[d]
               PROVE  FALSE
    BY <1>3, <1>9 DEF GrantInv
  <2>1. o = prop[d].record
    BY DEF Safe, GrantInv
  <2>2. o.owner = ClientID[d] /\ o.dur = LeaseDuration[d]
    BY <2>1 DEF Safe, Local, ProposalOK, grantInFlight
  <2>3. /\ ClientID[d] # Nobody /\ RenewDeadline[d] \in Nat /\ LeaseDuration[d] \in Nat
        /\ RenewDeadline[d] < LeaseDuration[d]
    BY ConfigAssumption DEF ValidConfig
  <2>4. CASE NextGrant(record)
    <3>1. o.at + o.dur <= record.at /\ record.at <= now
      BY <2>2, <2>3, <2>4 DEF NextGrant
    <3> QED  BY <1>1, <1>2, <2>1, <2>2, <2>3, <3>1
  <2>5. CASE NextInGrant(record) /\ OfConfirmedGrant(record)
    BY <2>1, <2>5 DEF NextInGrant, OfConfirmedGrant
  <2> QED  BY <2>4, <2>5 DEF Harmless
<1>13. AuthorityInv'
  <2> SUFFICES ASSUME NEW c \in Client, Valid(c)
               PROVE  /\ record.uid = lease[c].uid /\ record.owner = ClientID[c]
                      /\ record.epoch = lease[c].epoch
                      /\ record.seq \in {lease[c].seq, lease[c].seq + 1}
                      /\ lease[c].validUntil < record.at + record.dur
                      /\ record.dur = LeaseDuration[c]
    BY <1>3 DEF AuthorityInv, AuthorityBacked, Valid
  <2>1. /\ o.uid = lease[c].uid /\ o.owner = ClientID[c] /\ o.epoch = lease[c].epoch
        /\ o.seq \in {lease[c].seq, lease[c].seq + 1}
        /\ lease[c].validUntil < o.at + o.dur /\ o.dur = LeaseDuration[c]
    BY DEF Safe, AuthorityInv, AuthorityBacked
  <2>2. /\ lease[c].held /\ now < lease[c].validUntil /\ lease[c].validUntil \in Nat
        /\ lease[c].seq \in Nat /\ ClientID[c] # Nobody
    BY ConfigAssumption DEF Valid, Safe, TypeOK, Lease, ValidConfig
  <2>3. CASE NextGrant(record)
    <3>1. o.at + o.dur <= record.at /\ record.at <= now
      BY <2>1, <2>2, <2>3 DEF NextGrant
    <3> QED  BY <1>1, <1>2, <2>1, <2>2, <3>1
  <2>4. CASE NextInGrant(record) /\ OfConfirmedGrant(record)
    <3>1. /\ record.uid = o.uid /\ record.dur = o.dur /\ record.epoch = o.epoch
          /\ record.owner \in {o.owner, Nobody} /\ record.seq = o.seq + 1
          /\ o.at <= record.at
      BY <2>4 DEF NextInGrant
    <3>2. record.owner # Nobody /\ record.seq <= lease[c].seq + 1
      BY <2>1, <2>2, <2>4, <3>1 DEF OfConfirmedGrant
    <3>3. record.seq = lease[c].seq + 1
      BY <1>1, <2>1, <2>2, <3>1, <3>2
    <3>4. lease[c].validUntil < record.at + record.dur
      BY <1>1, <1>2, <2>1, <2>2, <3>1
    <3> QED  BY <2>1, <3>1, <3>2, <3>3, <3>4
  <2> QED  BY <2>3, <2>4 DEF Harmless
<1>14. ASSUME NEW c \in Client PROVE Local(c)'
  <2>1. Local(c)
    BY DEF Safe
  <2>2. CallOK(c)'
    BY <2>1 DEF Local, CallOK, Answers
  <2>3. SnapshotOK(c)'
    <3>1. /\ observed[c].version \in Nat /\ observed[c].record \in Record
          /\ cur[c].version \in Nat /\ cur[c].record \in Record
          /\ put[c].version \in Nat /\ prop[c].record \in Record
          /\ \A r \in Reader : /\ get[c][r].found.version \in Nat
                               /\ get[c][r].found.record \in Record
      BY DEF Safe, TypeOK, Observed, Put, Proposal, Get, Object
    <3>2. Past(observed[c].version, observed[c].record)'
          /\ Past(cur[c].version, cur[c].record)'
          /\ \A r \in Reader : Past(get[c][r].found.version, get[c][r].found.record)'
      <4>1. Past(observed[c].version, observed[c].record)
            /\ Past(cur[c].version, cur[c].record)
            /\ \A r \in Reader : Past(get[c][r].found.version, get[c][r].found.record)
        BY <2>1 DEF Local, SnapshotOK
      <4> QED  BY <1>5, <3>1, <4>1
    <3>3. (put[c].state = "committed")' =>
            (put[c].version # 0 /\ Past(put[c].version, prop[c].record))'
      <4>1. CASE put'[c] = put[c]
        <5>1. put[c].state = "committed" =>
                put[c].version # 0 /\ Past(put[c].version, prop[c].record)
          BY <2>1 DEF Local, SnapshotOK
        <5> QED  BY <1>5, <3>1, <4>1, <5>1
      <4>2. CASE Answers(c, record)
        BY <1>1, <1>3, <1>6, <4>2 DEF Answers
      <4> QED  BY <4>1, <4>2
    <3> QED  BY <3>2, <3>3 DEF SnapshotOK
  <2>4. SinceOK(c)'
    <3>1. observed[c].version \in Nat /\ observed[c].version <= object.version
      BY <2>1 DEF Local, SnapshotOK, Past, Safe, TypeOK, Observed
    <3>2. \A r \in Reader : /\ get[c][r].found.version \in Nat
                            /\ get[c][r].found.version <= object.version
      BY <2>1 DEF Local, SnapshotOK, Past, Safe, TypeOK, Get, Object
    <3> QED  BY <1>1, <1>3, <3>1, <3>2 DEF SinceOK
  <2>5. ReadOK(c)'
    BY <2>1 DEF Local, ReadOK
  <2>6. ASSUME NEW p \in Proposal, GrantProposal(c, p) PROVE GrantProposal(c, p)'
    <3> SUFFICES ASSUME p.kind \in {"renew", "release"} PROVE GrantProposal(c, p)'
      BY DEF GrantProposal
    <3>1. OfConfirmedGrant(p.record) /\ p.expected <= object.version
          /\ p.record.epoch \in Nat /\ p.expected \in Nat
      BY <2>6, ProposalFields DEF GrantProposal
    <3>2. OfConfirmedGrant(p.record)'
      <4>1. p.record.epoch <= record.epoch
        BY <1>1, <1>2, <1>4, <3>1 DEF OfConfirmedGrant
      <4>2. \A d \in Client : grantInFlight(d)' => prop[d].record.epoch # p.record.epoch
        BY <1>1, <1>9, <3>1 DEF OfConfirmedGrant
      <4> QED  BY <1>3, <3>1, <4>1, <4>2 DEF OfConfirmedGrant
    <3>3. p.expected <= object'.version /\ p.expected # object'.version
      BY <1>1, <1>3, <3>1
    <3> QED  BY <2>6, <3>2, <3>3 DEF GrantProposal, heldBy
  <2>7. ProposalOK(c)'
    <3>1. prop[c].expected \in Nat /\ prop[c] \in Proposal /\ pending[c] \in Proposal
      BY ProposalFields DEF Safe, TypeOK
    <3>2. GrantProposal(c, pending[c])' /\ GrantProposal(c, prop[c])'
      BY <2>1, <2>6, <3>1 DEF Local, ProposalOK
    <3> QED  BY <1>1, <1>3, <2>1, <3>1, <3>2 DEF Local, ProposalOK
  <2> QED  BY <2>2, <2>3, <2>4, <2>5, <2>7 DEF Local
<1> QED  BY <1>7, <1>8, <1>11, <1>12, <1>13, <1>14 DEF Safe

\* What the store has not yet turned down can be committed without harm.
LEMMA SentIsHarmless ==
  ASSUME Safe, NEW c \in Client, put[c].state = "sent", matches(prop[c].expected)
  PROVE  /\ prop[c].record \in Record /\ Harmless(prop[c].record)
         /\ prop[c].kind = "acquire" => NextGrant(prop[c].record)
<1>1. /\ prop[c].kind \in {"acquire", "renew", "release"} /\ prop[c].record \in Record
      /\ prop[c].expected = object.version
  BY DEF Safe, Local, CallOK, TypeOK, Proposal, matches
<1> QED  BY <1>1 DEF Safe, Local, ProposalOK, GrantProposal, Harmless

LEMMA StoreCommitsSafe ==
  ASSUME Safe, TypeOK', NEW c \in Client, StoreCommits(c)
  PROVE  Safe'
<1>1. PICK record : record = prop[c].record
  OBVIOUS
<1>2. record \in Record /\ Harmless(record) /\ commit(record)
  BY <1>1, SentIsHarmless DEF StoreCommits
<1>3. Answers(c, record) /\ \A d \in Client \ {c} : put'[d] = put[d]
  BY <1>1, SentIsHarmless DEF StoreCommits, Answers, Safe, StoreInv, TypeOK
<1>4. UNCHANGED <<now, observed, lease, pending, terminal, pc, prop, cur, get>>
  BY DEF StoreCommits, authority
<1> QED  BY <1>2, <1>3, <1>4, CommitSafe

LEMMA LateWriteArrivesSafe ==
  ASSUME Safe, TypeOK', NEW record \in late, LateWriteArrives(record)
  PROVE  Safe'
<1>1. record \in Record /\ Harmless(record)
  BY DEF Safe, TypeOK, LateInv
<1>2. commit(record)
      /\ UNCHANGED <<now, observed, lease, pending, terminal, pc, prop, cur, put, get>>
  BY DEF LateWriteArrives, authority, callVars
<1> QED  BY <1>1, <1>2, CommitSafe

--------------------------------------------------------------------------------
(***************************************************************************)
(* The theorems.                                                           *)
(***************************************************************************)

LEMMA InitSafe == Init => Safe
<1> SUFFICES ASSUME Init PROVE Safe
  OBVIOUS
<1>1. TypeOK /\ StoreInv
  BY InitTypes DEF Init, StoreInv, NoObject, NoRecord
<1>2. LateInv /\ EpochInv /\ GrantInv /\ AuthorityInv
  BY DEF Init, LateInv, EpochInv, GrantInv, AuthorityInv, AuthorityBacked, Valid,
         grantInFlight, NoLease, NoPut
<1>3. ASSUME NEW c \in Client PROVE Local(c)
  <2>1. /\ observed[c] = NotObserved /\ lease[c] = NoLease /\ pending[c] = NoProposal
        /\ ~terminal[c] /\ pc[c] = "idle" /\ prop[c] = NoProposal
        /\ cur[c] = NotObserved /\ put[c] = NoPut
        /\ \A r \in Reader : get[c][r] = NoGet
    BY DEF Init
  <2>2. CallOK(c)
    BY <2>1 DEF CallOK, NoProposal, NoPut
  <2>3. SnapshotOK(c)
    BY <1>1, <2>1, EmptyIsPast DEF SnapshotOK, NotObserved, NoGet, NoObject, NoPut
  <2>4. SinceOK(c)
    BY <2>1 DEF Init, SinceOK, NoObject, NoRecord, NotObserved, NoGet
  <2>5. ProposalOK(c)
    BY <2>1 DEF ProposalOK, GrantProposal, NoProposal
  <2>6. ReadOK(c)
    BY <2>1 DEF ReadOK, NoGet
  <2> QED  BY <2>2, <2>3, <2>4, <2>5, <2>6 DEF Local
<1> QED  BY <1>1, <1>2, <1>3 DEF Safe

LEMMA StutterSafe ==
  ASSUME Safe, UNCHANGED vars
  PROVE  Safe'
<1>1. TypeOK' /\ StoreInv' /\ LateInv'
  BY DEF vars, Safe, TypeOK, StoreInv, LateInv, Harmless, NextGrant, NextInGrant,
         OfConfirmedGrant, grantInFlight
<1>2. EpochInv' /\ GrantInv' /\ AuthorityInv'
  BY DEF vars, Safe, EpochInv, GrantInv, AuthorityInv, AuthorityBacked, Valid,
         grantInFlight
<1>3. ASSUME NEW c \in Client PROVE Local(c)'
  <2>1. CallOK(c)' /\ SnapshotOK(c)' /\ SinceOK(c)' /\ ReadOK(c)'
    BY DEF vars, Safe, Local, CallOK, SnapshotOK, Past, SinceOK, ReadOK
  <2>2. ProposalOK(c)'
    BY DEF vars, Safe, Local, ProposalOK, GrantProposal, OfConfirmedGrant, NextInGrant,
           NextGrant, grantInFlight, heldBy
  <2> QED  BY <2>1, <2>2 DEF Local
<1> QED  BY <1>1, <1>2, <1>3 DEF Safe

LEMMA NextSafe == Safe /\ [Next]_vars => Safe'
<1> SUFFICES ASSUME Safe, [Next]_vars PROVE Safe'
  OBVIOUS
<1>1. TypeOK'
  BY NextTypes DEF Safe
<1>2. ASSUME NEW c \in Client, CallStep(c) PROVE Safe'
  BY <1>1, <1>2, RequireDecidesSafe, RenewFreezesSafe, ReadbackReturnsSafe,
     StoreCommitsSafe, PutSucceedsSafe, PutUnknownSafe, PutConflictsSafe,
     PutRefusedSafe, AttemptRepeatedSafe, ReadbackDecidesSafe DEF CallStep
<1> QED
  BY <1>1, <1>2, TickSafe, LateWriteArrivesSafe, CrashSafe, ExpireSafe, ObserveSafe,
     ObserveReturnsSafe, RequireSafe, RenewSafe, ReleaseSafe, StutterSafe DEF Next

\* The inductive invariant holds throughout: every read was once the object and
\* every proposal, frozen, sent or given up on, fits the object it expects.
THEOREM Invariance == Spec => []Safe
BY InitSafe, NextSafe, PTL DEF Spec

\* The epoch of the object names the one process that can have authority.
LEMMA AuthorityUnique == Safe => AtMostOneAuthority
<1> SUFFICES ASSUME Safe, NEW c \in Client, NEW d \in Client, Valid(c), Valid(d), c # d
             PROVE  FALSE
  BY DEF AtMostOneAuthority
<1>1. lease[c].epoch = object.record.epoch /\ lease[d].epoch = object.record.epoch
  BY DEF Safe, AuthorityInv, AuthorityBacked
<1> QED  BY <1>1 DEF Safe, EpochInv, Valid

\* No two processes hold local authority at once, whatever requests are lost,
\* delayed, retried or turned down and whichever processes restart (the
\* guarantee of Lease.Check).
THEOREM Exclusion == Spec => []AtMostOneAuthority
BY AuthorityUnique, Invariance, PTL

\* A process with authority is the owner the object records, and its deadline
\* precedes the instant from which another may take over (confirmAcquisition,
\* confirmRenewal against eligible).
THEOREM Backing == Spec => []AuthorityBacked
<1>1. Safe => AuthorityBacked
  BY DEF Safe, AuthorityInv
<1> QED  BY <1>1, Invariance, PTL

\* Without interference with the object no process ever reports a protocol
\* violation (readCurrent, setTerminalLocked).
THEOREM NoFalseAlarm == Spec => []NoFalseViolation
<1>1. Safe => NoFalseViolation
  BY DEF Safe, Local, ReadOK, NoFalseViolation
<1> QED  BY <1>1, Invariance, PTL

\* Only a commit of a harmless record changes the object.
LEMMA ObjectSteps ==
  ASSUME Safe, [Next]_vars
  PROVE  \/ object' = object
         \/ \E record \in Record : Harmless(record) /\ object'.record = record
<1>1. ASSUME NEW record \in late, LateWriteArrives(record)
      PROVE  \E r \in Record : Harmless(r) /\ object'.record = r
  BY <1>1 DEF LateWriteArrives, commit, Safe, TypeOK, LateInv
<1>2. ASSUME NEW c \in Client, StoreCommits(c)
      PROVE  \E r \in Record : Harmless(r) /\ object'.record = r
  BY <1>2, SentIsHarmless DEF StoreCommits, commit
<1>3. ASSUME NEW c \in Client, CallStep(c) PROVE StoreCommits(c) \/ object' = object
  BY <1>3 DEF CallStep, RequireDecides, RenewFreezes, ReadbackReturns, PutSucceeds,
       PutUnknown, PutConflicts, PutRefused, AttemptRepeated, ReadbackDecides, storeVars
<1>4. ASSUME NEW c \in Client,
             \/ Crash(c) \/ Expire(c)
             \/ \E r \in ObserveCalls : Observe(c, r) \/ ObserveReturns(c, r)
             \/ Require(c) \/ Renew(c) \/ Release(c)
      PROVE  object' = object
  BY <1>4 DEF Crash, Expire, Observe, ObserveReturns, Require, Renew, Release, storeVars
<1>5. Tick \/ UNCHANGED vars => object' = object
  BY DEF Tick, vars, storeVars
<1> QED  BY <1>1, <1>2, <1>3, <1>4, <1>5 DEF Next

\* An occupied record is taken over only when it has stood for its whole
\* advertised duration (eligible), even by a write that arrives late.
THEOREM Waiting == Spec => TakeoverWaits
<1>1. Safe /\ [Next]_vars =>
        [object'.record.epoch # object.record.epoch /\ object.record.owner # Nobody
           => now >= object.record.at + object.record.dur]_vars
  <2> SUFFICES ASSUME Safe, [Next]_vars, object'.record.epoch # object.record.epoch,
                      object.record.owner # Nobody
               PROVE  now >= object.record.at + object.record.dur
    OBVIOUS
  <2>1. PICK record \in Record : Harmless(record) /\ object'.record = record
    BY ObjectSteps
  <2>2. NextGrant(record)
    BY <2>1 DEF Harmless, NextInGrant
  <2>3. /\ now \in Nat /\ object.record.at \in Nat /\ object.record.dur \in Nat
        /\ record.at \in Nat
    BY ObjectFields DEF Safe, TypeOK, Record
  <2> QED  BY <2>2, <2>3 DEF NextGrant
<1> QED  BY <1>1, Invariance, PTL DEF Spec, TakeoverWaits

\* The object goes through one history: the uid stays, the epoch or the
\* sequence advances by one, and only the owner's grant is renewed or released.
THEOREM History == Spec => HistoryAdvances
<1>1. Safe /\ [Next]_vars =>
        [LET old == object.record  new == object'.record IN
         object' # object /\ object.version # 0 =>
           /\ new.uid = old.uid
           /\ \/ new.epoch = old.epoch + 1 /\ new.seq = 1
              \/ /\ old.owner # Nobody
                 /\ new.epoch = old.epoch /\ new.seq = old.seq + 1
                 /\ new.owner \in {old.owner, Nobody}]_vars
  BY ObjectSteps DEF Harmless, NextGrant, NextInGrant
<1> QED  BY <1>1, Invariance, PTL DEF Spec, HistoryAdvances

--------------------------------------------------------------------------------
(***************************************************************************)
(* What a read can cost.                                                   *)
(***************************************************************************)

OwnCall(c) == HeldObserved(c) /\ OwnProposals(c)

\* A process that does nothing keeps what it has.
LEMMA OtherCalls ==
  ASSUME NEW d \in Client, OwnCall(d), observed'[d] = observed[d], lease'[d] = lease[d],
         pending'[d] = pending[d], pc'[d] = pc[d], prop'[d] = prop[d]
  PROVE  OwnCall(d)'
BY DEF OwnCall, HeldObserved, OwnProposals

\* Nothing is proposed that was not proposed before, and no lease is granted.
LEMMA NothingProposed ==
  ASSUME NEW c \in Client, OwnProposals(c), lease'[c].held => lease[c].held,
         pending'[c] \in {pending[c], prop[c], NoProposal},
         prop'[c] \in {pending[c], prop[c], NoProposal},
         pc'[c] = "requireRead" \/ prop'[c].kind = "acquire" => pending'[c].kind = "none"
  PROVE  OwnProposals(c)'
BY DEF OwnProposals, NoProposal

\* A call goes on with what it carries, or ends.
LEMMA CallGoesOn ==
  ASSUME NEW c \in Client, OwnCall(c), observed'[c] = observed[c],
         lease'[c] = lease[c] \/ ~lease'[c].held,
         pending'[c] \in {pending[c], prop[c], NoProposal},
         prop'[c] \in {pending[c], prop[c], NoProposal},
         pc'[c] = "requireRead" \/ prop'[c].kind = "acquire" => pending'[c].kind = "none"
  PROVE  OwnCall(c)'
<1>1. OwnProposals(c)' BY NothingProposed DEF OwnCall
<1>2. HeldObserved(c)' BY DEF OwnCall, HeldObserved
<1> QED BY <1>1, <1>2 DEF OwnCall

\* A read that is installed shows the lease that is held, or something newer.
LEMMA ReadObserves ==
  ASSUME Safe, NEW c \in Client, OwnCall(c), NEW r \in Reader, get[c][r].busy,
         \/ readFails(c, r) \/ readViolates(c, r) \/ readNotFound(c, r)
         \/ readSuperseded(c, r) \/ readInstalls(c, r)
  PROVE  /\ HeldObserved(c)'
         /\ lease'[c] = lease[c] \/ ~lease'[c].held
         /\ \A d \in Client \ {c} : observed'[d] = observed[d] /\ lease'[d] = lease[d]
<1>1. CASE readFails(c, r) \/ readNotFound(c, r) \/ readSuperseded(c, r)
  BY <1>1 DEF readFails, readNotFound, readSuperseded, OwnCall, HeldObserved
<1>2. CASE readViolates(c, r)
  <2>1. UNCHANGED observed /\ retire(c) BY <1>2 DEF readViolates
  <2> QED BY <2>1, RetireFacts DEF Safe, HeldObserved
<1>3. CASE readInstalls(c, r)
  <2> DEFINE o == get[c][r].found
  <2>1. PICK readAt \in get[c][r].asked .. now :
          replaceObserved(c, o.version, o.record, unchangedSince(c, o, readAt))
    BY <1>3 DEF readInstalls
  <2>2. /\ observed'[c].version = o.version /\ observed'[c].record = o.record
        /\ \A d \in Client \ {c} : observed'[d] = observed[d]
    BY <2>1 DEF replaceObserved, Safe, TypeOK
  <2>3. /\ lease'[c] = lease[c] \/ ~lease'[c].held
        /\ \A d \in Client \ {c} : lease'[d] = lease[d]
    BY <1>3 DEF readInstalls, Safe, TypeOK, NoLease
  <2>4. ASSUME lease[c].held
        PROVE  /\ o.version # 0 /\ AtOrAfter(o.record, lease[c])
               /\ o.record.epoch = lease[c].epoch /\ o.record.seq = lease[c].seq
                    => o.record.owner = ClientID[c]
    <3>1. /\ observed[c].version # 0 /\ AtOrAfter(observed[c].record, lease[c])
          /\ observed[c].record.epoch = lease[c].epoch /\ observed[c].record.seq = lease[c].seq
               => observed[c].record.owner = ClientID[c]
      BY <2>4 DEF OwnCall, HeldObserved
    <3>2. o.version # 0 /\ recordsCompatible(observed[c].record, o.record)
      BY <1>3, <3>1 DEF readInstalls, superseded, Safe, Local, ReadOK
    <3>3. /\ observed[c] \in Observed /\ o \in Object
          /\ lease[c].epoch \in Nat /\ lease[c].seq \in Nat
      BY DEF Safe, TypeOK, Get, Lease
    <3> QED BY <3>1, <3>2, <3>3, ObservedFields, ObjectFields DEF recordsCompatible, AtOrAfter
  <2> QED BY <2>2, <2>3, <2>4 DEF HeldObserved
<1> QED BY <1>1, <1>2, <1>3

\* An answer installs the record that the lease is then held under.
LEMMA ConfirmObserves ==
  ASSUME Safe, NEW c \in Client, OwnCall(c), NEW v \in Nat, confirm(c, v),
         prop[c].kind = "acquire" \/ heldBy(c, prop[c]) => v # 0
  PROVE  /\ OwnCall(c)'
         /\ \A d \in Client \ {c} : /\ observed'[d] = observed[d] /\ lease'[d] = lease[d]
                                    /\ pending'[d] = pending[d] /\ pc'[d] = pc[d]
                                    /\ prop'[d] = prop[d]
<1>0. /\ TypeOK /\ pc'[c] = "idle" /\ prop'[c] = NoProposal
      /\ \A d \in Client \ {c} : pc'[d] = pc[d] /\ prop'[d] = prop[d]
  BY ReturnFacts DEF confirm, Safe
<1>1. prop[c] \in Proposal /\ prop[c].record.seq \in Nat /\ prop[c].record.epoch \in Nat
  BY <1>0, ProposalFields DEF TypeOK
<1>2. ASSUME replaceObserved(c, v, prop[c].record, prop[c].record.at)
      PROVE  /\ observed'[c].version = v /\ observed'[c].record = prop[c].record
             /\ \A d \in Client \ {c} : observed'[d] = observed[d]
  BY <1>0, <1>2 DEF replaceObserved, TypeOK
<1>3. CASE UNCHANGED <<observed, lease, pending>>
  BY <1>0, <1>3, CallGoesOn DEF NoProposal
<1>4. CASE /\ prop[c].kind = "acquire" /\ UNCHANGED pending
           /\ replaceObserved(c, v, prop[c].record, prop[c].record.at)
           /\ lease' = [lease EXCEPT ![c] =
                [held |-> TRUE, uid |-> prop[c].record.uid, epoch |-> prop[c].record.epoch,
                 seq |-> prop[c].record.seq, validUntil |-> proposalPhaseEnd(c, prop[c])]]
  <2>1. /\ lease'[c].epoch = prop[c].record.epoch /\ lease'[c].seq = prop[c].record.seq
        /\ \A d \in Client \ {c} : lease'[d] = lease[d]
    BY <1>0, <1>4 DEF TypeOK
  <2>2. HeldObserved(c)'
    BY <1>1, <1>2, <1>4, <2>1 DEF HeldObserved, AtOrAfter, Safe, Local, ProposalOK
  <2>3. OwnProposals(c)' BY <1>0, <1>4 DEF OwnCall, OwnProposals, NoProposal
  <2> QED BY <1>0, <1>2, <1>4, <2>1, <2>2, <2>3 DEF OwnCall
<1>5. CASE /\ prop[c].kind = "renew" /\ renewalConfirmed(c) /\ clearPending(c, prop[c])
           /\ replaceObserved(c, v, prop[c].record, prop[c].record.at)
           /\ lease' = [lease EXCEPT ![c] =
                [held |-> TRUE, uid |-> lease[c].uid, epoch |-> lease[c].epoch,
                 seq |-> prop[c].record.seq, validUntil |-> proposalEnd(c, prop[c])]]
  <2>1. /\ lease'[c].epoch = prop[c].record.epoch /\ lease'[c].seq = prop[c].record.seq
        /\ \A d \in Client \ {c} : lease'[d] = lease[d]
    BY <1>0, <1>5 DEF TypeOK, renewalConfirmed, heldBy
  <2>2. HeldObserved(c)'
    BY <1>1, <1>2, <1>5, <2>1 DEF HeldObserved, AtOrAfter, OwnCall, OwnProposals,
                                  renewalConfirmed
  <2>3. /\ pending'[c] = NoProposal /\ \A d \in Client \ {c} : pending'[d] = pending[d]
    BY <1>0, <1>5 DEF clearPending, renewalConfirmed, TypeOK
  <2>4. OwnProposals(c)' BY <1>0, <2>3 DEF OwnProposals, NoProposal
  <2> QED BY <1>0, <1>2, <1>5, <2>1, <2>2, <2>3, <2>4 DEF OwnCall
<1>6. CASE /\ prop[c].kind = "renew" /\ dropPending(c, prop[c]) /\ UNCHANGED observed
  BY <1>0, <1>6, DropFacts, CallGoesOn DEF NoProposal
<1>7. CASE prop[c].kind = "release" /\ confirmRelease(c, v)
  <2>1. ~lease'[c].held /\ UNCHANGED lease
    BY <1>7 DEF confirmRelease, OwnCall, OwnProposals
  <2>2. /\ pending'[c] = NoProposal /\ \A d \in Client \ {c} : pending'[d] = pending[d]
    BY <1>0, <1>7 DEF confirmRelease, clearPending, TypeOK
  <2>3. OwnProposals(c)' /\ HeldObserved(c)'
    BY <1>0, <2>1, <2>2 DEF OwnProposals, HeldObserved, NoProposal
  <2> QED BY <1>0, <1>2, <1>7, <2>1, <2>2, <2>3 DEF OwnCall, confirmRelease
<1> QED BY <1>3, <1>4, <1>5, <1>6, <1>7 DEF confirm, confirmAcquisition, confirmRenewal

\* An unresolved proposal is sent again, or given up.
LEMMA ResentProposal ==
  ASSUME Safe, NEW c \in Client, OwnCall(c), UNCHANGED observed,
         prop[c].kind \in {"renew", "release"}, sendPending(c, prop[c])
  PROVE  /\ OwnCall(c)'
         /\ \A d \in Client \ {c} : /\ lease'[d] = lease[d] /\ pending'[d] = pending[d]
                                    /\ pc'[d] = pc[d] /\ prop'[d] = prop[d]
<1>1. TypeOK BY DEF Safe
<1>2. CASE /\ send(c, prop[c]) /\ UNCHANGED lease
           /\ pending' = [pending EXCEPT ![c] = prop[c]]
  <2>1. pending'[c] = prop[c] /\ \A d \in Client \ {c} : pending'[d] = pending[d]
    BY <1>1, <1>2 DEF TypeOK
  <2> QED BY <1>1, <1>2, <2>1, SendFacts, CallGoesOn
<1>3. CASE return(c) /\ clearPending(c, prop[c]) /\ UNCHANGED lease
  BY <1>1, <1>3, ReturnFacts, ClearFacts, CallGoesOn DEF NoProposal
<1>4. CASE return(c) /\ dropPending(c, prop[c])
  BY <1>1, <1>4, ReturnFacts, DropFacts, CallGoesOn DEF NoProposal
<1> QED BY <1>2, <1>3, <1>4 DEF sendPending

\* The end of a read, for the mutating call or for Observe.
LEMMA ReadEnds ==
  ASSUME Safe, NEW c \in Client, NEW r \in Reader,
         \/ r \in ObserveCalls /\ ObserveReturns(c, r)
         \/ (RequireDecides(c) \/ ReadbackReturns(c)) /\ r = "mutation"
  PROVE  /\ get[c][r].busy
         /\ \/ readFails(c, r) \/ readViolates(c, r) \/ readNotFound(c, r)
            \/ readSuperseded(c, r) \/ readInstalls(c, r)
<1>1. CallOK(c) BY DEF Safe, Local
<1> QED BY <1>1 DEF ObserveReturns, RequireDecides, ReadbackReturns, CallOK

\* A step that ends a read proposes at most an acquisition.
LEMMA ReadSteps ==
  ASSUME Safe, NEW c \in Client, OwnCall(c),
         \/ \E r \in ObserveCalls : ObserveReturns(c, r)
         \/ RequireDecides(c) \/ ReadbackReturns(c)
  PROVE  /\ OwnCall(c)'
         /\ \A d \in Client \ {c} : /\ observed'[d] = observed[d] /\ lease'[d] = lease[d]
                                    /\ pending'[d] = pending[d] /\ pc'[d] = pc[d]
                                    /\ prop'[d] = prop[d]
<1>1. /\ HeldObserved(c)' /\ (lease'[c] = lease[c] \/ ~lease'[c].held)
      /\ \A d \in Client \ {c} : observed'[d] = observed[d] /\ lease'[d] = lease[d]
  BY ReadEnds, ReadObserves DEF Reader
<1>2. UNCHANGED pending BY DEF ObserveReturns, RequireDecides, ReadbackReturns
<1>3. TypeOK /\ OwnProposals(c) BY DEF Safe, OwnCall
<1>4. CASE UNCHANGED <<pc, prop>>
  BY <1>1, <1>2, <1>3, <1>4, NothingProposed DEF OwnCall, OwnProposals
<1>5. CASE return(c)
  BY <1>1, <1>2, <1>3, <1>5, ReturnFacts, NothingProposed DEF OwnCall, NoProposal
<1>6. ASSUME RequireDecides(c), NEW x, send(c, acquisition(c, x))
      PROVE  OwnProposals(c)' /\ \A d \in Client \ {c} : pc'[d] = pc[d] /\ prop'[d] = prop[d]
  <2>1. prop'[c].kind = "acquire" BY <1>3, <1>6, SendFacts DEF acquisition
  <2>2. pending[c].kind = "none" BY <1>3, <1>6 DEF RequireDecides, OwnProposals
  <2> QED BY <1>2, <1>3, <1>6, <2>1, <2>2, SendFacts DEF OwnProposals
<1>7. CASE RequireDecides(c)
  BY <1>1, <1>2, <1>5, <1>6, <1>7 DEF RequireDecides, OwnCall
<1>8. CASE /\ ReadbackReturns(c) /\ UNCHANGED prop
           /\ pc' = [pc EXCEPT ![c] =
                       IF @ = "reconcileRead" THEN "reconcileDecide" ELSE "conflictDecide"]
  <2>1. pc'[c] # "requireRead" /\ \A d \in Client \ {c} : pc'[d] = pc[d]
    BY <1>3, <1>8 DEF TypeOK
  <2> QED BY <1>1, <1>2, <1>3, <1>8, <2>1, NothingProposed DEF OwnCall, OwnProposals
<1> QED BY <1>4, <1>5, <1>7, <1>8 DEF ObserveReturns, ReadbackReturns, callVars

\* Renew and Release propose the next record of the lease that the process holds.
LEMMA ProposalSteps ==
  ASSUME Safe, NEW c \in Client, OwnCall(c), Renew(c) \/ Release(c) \/ RenewFreezes(c)
  PROVE  /\ OwnCall(c)'
         /\ \A d \in Client \ {c} : /\ observed'[d] = observed[d] /\ lease'[d] = lease[d]
                                    /\ pending'[d] = pending[d] /\ pc'[d] = pc[d]
                                    /\ prop'[d] = prop[d]
<1>1. TypeOK /\ HeldObserved(c) /\ OwnProposals(c) /\ CallOK(c) BY DEF Safe, Local, OwnCall
<1>2. UNCHANGED observed BY DEF Renew, Release, RenewFreezes
<1>3. CASE reconcilePending(c, "renew") \/ reconcilePending(c, "release")
  <2>1. CASE dropPending(c, pending[c]) /\ UNCHANGED callVars
    BY <1>1, <1>2, <2>1, DropFacts, CallGoesOn DEF callVars, OwnProposals, NoProposal
  <2>2. CASE callRead(c, "reconcileRead", pending[c]) /\ UNCHANGED <<lease, pending>>
    <3>1. pending[c].kind # "acquire" BY <1>3 DEF reconcilePending
    <3> QED BY <1>1, <1>2, <2>2, <3>1, CallReadFacts, CallGoesOn
  <2> QED BY <1>3, <2>1, <2>2 DEF reconcilePending
<1>4. CASE retire(c) /\ UNCHANGED <<pending, callVars>>
  BY <1>1, <1>2, <1>4, RetireFacts, CallGoesOn DEF callVars, OwnProposals
<1>5. CASE retire(c) /\ return(c) /\ UNCHANGED pending
  BY <1>1, <1>2, <1>5, RetireFacts, ReturnFacts, CallGoesOn DEF NoProposal
<1>6. CASE /\ validateActive(c) /\ UNCHANGED <<lease, pending>>
           /\ pc' = [pc EXCEPT ![c] = "frozen"] /\ prop' = [prop EXCEPT ![c] = renewal(c)]
  <2>1. /\ pc'[c] = "frozen" /\ prop'[c] = renewal(c)
        /\ \A d \in Client \ {c} : pc'[d] = pc[d] /\ prop'[d] = prop[d]
    BY <1>1, <1>6 DEF TypeOK
  <2>2. renewal(c).kind = "renew" /\ renewal(c).record.owner = ClientID[c]
    BY <1>6 DEF renewal, renewalRecord, nextRecord, validateActive, observedIsLease
  <2>3. OwnProposals(c)' BY <1>1, <1>6, <2>1, <2>2 DEF OwnProposals
  <2> QED BY <1>1, <1>2, <1>6, <2>1, <2>3 DEF OwnCall, HeldObserved
<1>7. CASE /\ retire(c) /\ send(c, release(c))
           /\ pending' = [pending EXCEPT ![c] = release(c)]
  <2>1. /\ pending'[c] = release(c) /\ release(c).kind = "release"
        /\ \A d \in Client \ {c} : pending'[d] = pending[d]
    BY <1>1, <1>7 DEF TypeOK, release
  <2> QED BY <1>1, <1>2, <1>7, <2>1, RetireFacts, SendFacts
        DEF OwnCall, OwnProposals, HeldObserved
<1>8. CASE RenewFreezes(c)
  <2>1. CASE sendPending(c, prop[c])
    BY <1>1, <1>2, <1>8, <2>1, ResentProposal DEF RenewFreezes, CallOK
  <2>2. CASE /\ return(c) /\ UNCHANGED pending
             /\ lease' = [lease EXCEPT ![c] = IF retiredByValidate(c) THEN NoLease ELSE @]
    <3>1. /\ lease'[c] = lease[c] \/ ~lease'[c].held
          /\ \A d \in Client \ {c} : lease'[d] = lease[d]
      BY <1>1, <2>2 DEF TypeOK, NoLease
    <3> QED BY <1>1, <1>2, <2>2, <3>1, ReturnFacts, CallGoesOn DEF NoProposal
  <2> QED BY <1>8, <2>1, <2>2 DEF RenewFreezes
<1> QED BY <1>3, <1>4, <1>5, <1>6, <1>7, <1>8 DEF Renew, Release

\* The other steps of a call, and the end of a process.
LEMMA OtherSteps ==
  ASSUME Safe, NEW c \in Client, OwnCall(c),
         \/ Crash(c) \/ Expire(c) \/ Require(c) \/ StoreCommits(c)
         \/ \E r \in ObserveCalls : Observe(c, r)
         \/ PutSucceeds(c) \/ PutUnknown(c) \/ PutConflicts(c) \/ PutRefused(c)
         \/ AttemptRepeated(c) \/ ReadbackDecides(c)
  PROVE  /\ OwnCall(c)'
         /\ \A d \in Client \ {c} : /\ observed'[d] = observed[d] /\ lease'[d] = lease[d]
                                    /\ pending'[d] = pending[d] /\ pc'[d] = pc[d]
                                    /\ prop'[d] = prop[d]
<1>1. /\ TypeOK /\ HeldObserved(c) /\ OwnProposals(c) /\ CallOK(c) /\ SnapshotOK(c)
      /\ ProposalOK(c)
  BY DEF Safe, Local, OwnCall
<1>2. CASE Crash(c)
  <2>1. /\ pending'[c] = NoProposal
        /\ \A d \in Client \ {c} : pending'[d] = pending[d] /\ observed'[d] = observed[d]
    BY <1>1, <1>2 DEF Crash, TypeOK
  <2> QED BY <1>1, <1>2, <2>1, RetireFacts, ReturnFacts
        DEF Crash, OwnCall, OwnProposals, HeldObserved, NoProposal
<1>3. CASE Expire(c)
  BY <1>1, <1>3, RetireFacts, CallGoesOn DEF Expire, callVars, OwnProposals
<1>4. CASE (\E r \in ObserveCalls : Observe(c, r)) \/ StoreCommits(c) \/ AttemptRepeated(c)
  BY <1>4, OtherCalls DEF Observe, StoreCommits, AttemptRepeated, authority, callVars
<1>5. CASE Require(c)
  <2>1. /\ lease'[c] = lease[c] \/ ~lease'[c].held
        /\ pending'[c] = pending[c] \/ pending'[c] = NoProposal
        /\ \A d \in Client \ {c} : pending'[d] = pending[d] /\ lease'[d] = lease[d]
        /\ UNCHANGED observed
    BY <1>1, <1>5 DEF Require, TypeOK, NoLease
  <2>2. CASE UNCHANGED callVars
    BY <1>1, <2>1, <2>2, CallGoesOn DEF callVars, OwnProposals, NoProposal
  <2>3. CASE pending'[c].kind = "none" /\ callRead(c, "requireRead", NoProposal)
    BY <1>1, <2>1, <2>3, CallReadFacts, CallGoesOn
  <2> QED BY <1>5, <2>2, <2>3 DEF Require
<1>6. CASE PutSucceeds(c)
  <2>1. put[c].version \in Nat /\ put[c].version # 0
    BY <1>1, <1>6 DEF PutSucceeds, SnapshotOK, TypeOK, Put
  <2> QED BY <1>6, <2>1, ConfirmObserves DEF PutSucceeds
<1>7. CASE PutUnknown(c) \/ PutRefused(c)
  BY <1>1, <1>7, ReturnFacts, ClearFacts, CallGoesOn
     DEF PutUnknown, PutRefused, authority, NoProposal
<1>8. CASE PutConflicts(c)
  <2>1. CASE return(c) /\ UNCHANGED <<lease, pending>>
    BY <1>1, <1>8, <2>1, ReturnFacts, CallGoesOn DEF PutConflicts, NoProposal
  <2>2. CASE return(c) /\ dropPending(c, prop[c])
    BY <1>1, <1>8, <2>2, ReturnFacts, DropFacts, CallGoesOn DEF PutConflicts, NoProposal
  <2>3. CASE /\ prop[c].kind # "acquire" /\ callRead(c, "conflictRead", prop[c])
             /\ UNCHANGED <<lease, pending>>
    BY <1>1, <1>8, <2>3, CallReadFacts, CallGoesOn DEF PutConflicts
  <2> QED BY <1>8, <2>1, <2>2, <2>3 DEF PutConflicts
<1>9. CASE ReadbackDecides(c)
  <2>0. prop[c].kind \in {"renew", "release"} BY <1>1, <1>9 DEF ReadbackDecides, CallOK
  <2>1. CASE cur[c].record = prop[c].record /\ confirm(c, cur[c].version)
    <3>1. cur[c].version \in Nat BY <1>1 DEF TypeOK, Observed
    <3>2. heldBy(c, prop[c]) => cur[c].version # 0
      <4> SUFFICES ASSUME heldBy(c, prop[c]), cur[c].version = 0 PROVE FALSE OBVIOUS
      <4>1. prop[c].kind = "renew" BY <1>1, <2>0 DEF heldBy, OwnProposals
      <4>2. prop[c].record.seq = lease[c].seq + 1 BY <1>1, <4>1 DEF ProposalOK, GrantProposal
      <4>3. prop[c].record.seq = 0 BY <1>1, <2>1 DEF SnapshotOK, Past, NoRecord
      <4> QED BY <1>1, <4>2, <4>3 DEF TypeOK, Lease
    <3> QED BY <2>0, <2>1, <3>1, <3>2, ConfirmObserves
  <2>2. CASE return(c) /\ dropPending(c, prop[c]) /\ UNCHANGED observed
    BY <1>1, <2>2, ReturnFacts, DropFacts, CallGoesOn DEF NoProposal
  <2>3. CASE return(c) /\ UNCHANGED <<observed, lease, pending>>
    BY <1>1, <2>3, ReturnFacts, CallGoesOn DEF NoProposal
  <2>4. CASE sendPending(c, prop[c]) /\ UNCHANGED observed
    BY <1>1, <2>0, <2>4, ResentProposal
  <2> QED BY <1>9, <2>1, <2>2, <2>3, <2>4 DEF ReadbackDecides, unresolved
<1> QED BY <1>2, <1>3, <1>4, <1>5, <1>6, <1>7, <1>8, <1>9

LEMMA ObservedInit == Init => ObservedInv
<1> SUFFICES ASSUME Init, NEW c \in Client PROVE HeldObserved(c) /\ OwnProposals(c)
  BY Zenon DEF ObservedInv
<1>1. ~lease[c].held /\ pending[c].kind = "none" /\ prop[c].kind = "none"
  BY DEF Init, NoLease, NoProposal
<1> QED BY <1>1 DEF HeldObserved, OwnProposals

LEMMA ObservedStep == Safe /\ ObservedInv /\ [Next]_vars => ObservedInv'
<1> SUFFICES ASSUME Safe, ObservedInv, [Next]_vars PROVE ObservedInv' OBVIOUS
<1>1. \A d \in Client : OwnCall(d) BY DEF ObservedInv, OwnCall
<1>2. CASE UNCHANGED <<observed, lease, pending, pc, prop>>
  BY <1>1, <1>2, OtherCalls DEF ObservedInv, OwnCall
<1>3. ASSUME NEW c \in Client, OwnCall(c)',
             \A d \in Client \ {c} : /\ observed'[d] = observed[d] /\ lease'[d] = lease[d]
                                     /\ pending'[d] = pending[d] /\ pc'[d] = pc[d]
                                     /\ prop'[d] = prop[d]
      PROVE  ObservedInv'
  <2>1. \A d \in Client \ {c} : OwnCall(d)' BY <1>1, <1>3, OtherCalls
  <2> QED BY <1>3, <2>1 DEF ObservedInv, OwnCall
<1>4. CASE Tick \/ UNCHANGED vars \/ \E record \in late : LateWriteArrives(record)
  BY <1>2, <1>4 DEF Tick, LateWriteArrives, vars, authority, callVars
<1>5. ASSUME NEW c \in Client, CallStep(c) PROVE ObservedInv'
  BY <1>1, <1>3, <1>5, ReadSteps, ProposalSteps, OtherSteps DEF CallStep
<1>6. ASSUME NEW c \in Client,
             \/ Crash(c) \/ Expire(c)
             \/ \E r \in ObserveCalls : Observe(c, r) \/ ObserveReturns(c, r)
             \/ Require(c) \/ Renew(c) \/ Release(c)
      PROVE  ObservedInv'
  BY <1>1, <1>3, <1>6, ReadSteps, ProposalSteps, OtherSteps
<1> QED BY <1>4, <1>5, <1>6 DEF Next

\* A read that ends the lease of a process found the next record of that lease, under
\* another renewal than the one the process is waiting for.
LEMMA LostToOwnRenewal ==
  ASSUME Safe, ObservedInv, NEW c \in Client, NEW r \in Reader, get[c][r].busy, Valid(c),
         readInstalls(c, r), ~lease'[c].held
  PROVE  LET found == get[c][r].found.record IN
         /\ found.uid = lease[c].uid /\ found.owner = ClientID[c]
         /\ found.epoch = lease[c].epoch /\ found.seq = lease[c].seq + 1
         /\ ~(pending[c].kind = "renew" /\ pending[c].record = found)
<1> DEFINE o == get[c][r].found
           found == o.record
<1>1. /\ lease[c].held /\ lease[c].epoch \in Nat /\ lease[c].seq \in Nat
      /\ observed[c] \in Observed /\ o \in Object /\ object \in Object
  BY DEF Valid, Safe, TypeOK, Lease, Get
<1>2. observationLost(c, found)
  BY <1>1 DEF readInstalls, Safe, TypeOK
<1>3. /\ object.record.uid = lease[c].uid /\ object.record.owner = ClientID[c]
      /\ object.record.epoch = lease[c].epoch
      /\ object.record.seq \in {lease[c].seq, lease[c].seq + 1}
  BY DEF Safe, AuthorityInv, AuthorityBacked
<1>4. /\ o.version # 0 /\ observed[c].version # 0 /\ AtOrAfter(observed[c].record, lease[c])
      /\ recordsCompatible(observed[c].record, found)
      /\ observed[c].record.epoch = lease[c].epoch /\ observed[c].record.seq = lease[c].seq
           => observed[c].record.owner = ClientID[c]
  BY <1>1 DEF ObservedInv, HeldObserved, readInstalls, superseded, Safe, Local, ReadOK
<1>5. /\ found.uid = object.record.uid /\ AtOrAfter(object.record, found)
      /\ found.epoch = object.record.epoch /\ found.seq = object.record.seq
           => found = object.record
  BY <1>4 DEF Safe, Local, SnapshotOK, Past
<1>6. found.epoch = lease[c].epoch /\ found.seq \in {lease[c].seq, lease[c].seq + 1}
  BY <1>1, <1>3, <1>4, <1>5, ObservedFields, ObjectFields DEF recordsCompatible, AtOrAfter
<1>7. CASE found.seq = lease[c].seq
  <2>1. found = observed[c].record
    BY <1>1, <1>4, <1>6, <1>7, ObservedFields, ObjectFields DEF recordsCompatible, AtOrAfter
  <2> QED BY <1>2, <1>3, <1>4, <1>5, <1>6, <1>7, <2>1 DEF observationLost
<1>8. CASE found.seq = lease[c].seq + 1
  <2>1. object.record.seq = lease[c].seq + 1
    BY <1>1, <1>3, <1>5, <1>6, <1>8, ObjectFields DEF AtOrAfter
  <2> QED BY <1>2, <1>3, <1>5, <1>6, <1>8, <2>1 DEF observationLost
<1> QED BY <1>6, <1>7, <1>8

\* Which steps end a read, apart from the end of the process.
LEMMA WhoEndsReads ==
  ASSUME Safe, [Next]_vars, NEW c \in Client, NEW r \in Reader,
         get[c][r].busy, ~get'[c][r].busy, lost' = lost
  PROVE  \/ r \in ObserveCalls /\ ObserveReturns(c, r)
         \/ (RequireDecides(c) \/ ReadbackReturns(c)) /\ r = "mutation"
<1>0. TypeOK /\ lost \in Nat BY DEF Safe, TypeOK
<1>1. CASE UNCHANGED get BY <1>1
<1>2. CASE Tick \/ UNCHANGED vars \/ \E record \in late : LateWriteArrives(record)
  BY <1>1, <1>2 DEF Tick, LateWriteArrives, vars
<1>3. ASSUME NEW d \in Client, NEW q \in Reader, startRead(d, q) PROVE FALSE
  BY <1>0, <1>3 DEF startRead, TypeOK
<1>4. ASSUME NEW d \in Client, get' = [get EXCEPT ![d] = outdateReads(d)] PROVE FALSE
  BY <1>0, <1>4 DEF outdateReads, TypeOK
<1>5. ASSUME NEW d \in Client, NEW q \in Reader,
             \/ readFails(d, q) \/ readViolates(d, q) \/ readNotFound(d, q)
             \/ readSuperseded(d, q) \/ readInstalls(d, q)
      PROVE  d = c /\ q = r
  <2>1. CASE finishRead(d, q) BY <1>0, <2>1 DEF finishRead, TypeOK
  <2>2. CASE readInstalls(d, q) BY <1>0, <2>2 DEF readInstalls, outdateReads, TypeOK
  <2> QED BY <1>5, <2>1, <2>2 DEF readFails, readViolates, readNotFound, readSuperseded
<1>6. ASSUME NEW d \in Client, NEW v, confirm(d, v) PROVE FALSE
  BY <1>1, <1>4, <1>6 DEF confirm, confirmAcquisition, confirmRenewal, confirmRelease
<1>7. ASSUME NEW d \in Client,
             \/ \E q \in ObserveCalls : ObserveReturns(d, q)
             \/ RequireDecides(d) \/ ReadbackReturns(d)
      PROVE  \/ r \in ObserveCalls /\ ObserveReturns(c, r)
             \/ (RequireDecides(c) \/ ReadbackReturns(c)) /\ r = "mutation"
  <2>1. ASSUME NEW q \in ObserveCalls, ObserveReturns(d, q) PROVE d = c /\ q = r
    <3>1. /\ q \in Reader
          /\ \/ readFails(d, q) \/ readViolates(d, q)
             \/ readSuperseded(d, q) \/ readInstalls(d, q)
      BY <2>1 DEF ObserveReturns, Reader
    <3> QED BY <1>5, <3>1
  <2>2. ASSUME RequireDecides(d) \/ ReadbackReturns(d) PROVE d = c /\ "mutation" = r
    BY <1>5, <2>2 DEF RequireDecides, ReadbackReturns, Reader
  <2> QED BY <1>7, <2>1, <2>2
<1>8. ASSUME NEW d \in Client, Crash(d) \/ PutUnknown(d) \/ AttemptRepeated(d) PROVE FALSE
  BY <1>0, <1>8 DEF Crash, PutUnknown, AttemptRepeated
<1>9. ASSUME NEW d \in Client,
             \/ \E q \in ObserveCalls : Observe(d, q)
             \/ Require(d) \/ Renew(d) \/ Release(d) \/ PutConflicts(d)
      PROVE  FALSE
  BY <1>1, <1>3, <1>9 DEF Observe, Require, Renew, Release, PutConflicts, reconcilePending,
                          callRead, Reader
<1>10. ASSUME NEW d \in Client,
              \/ Expire(d) \/ RenewFreezes(d) \/ StoreCommits(d) \/ PutSucceeds(d)
              \/ PutRefused(d) \/ ReadbackDecides(d)
       PROVE  FALSE
  BY <1>1, <1>6, <1>10 DEF Expire, RenewFreezes, StoreCommits, PutSucceeds, PutRefused,
                           ReadbackDecides
<1> QED BY <1>2, <1>7, <1>8, <1>9, <1>10 DEF Next, CallStep

\* A completed read ends an unexpired lease only when it found a renewal of that lease
\* which the process has forgotten, never for its pending renewal
\* (retireIfObservationLostLocked).
THEOREM ReadsCostNothing == Spec => ReadsKeepAuthority
<1>1. Safe /\ ObservedInv /\ [Next]_vars =>
        [\A c \in Client : \A r \in Reader : LET found == get[c][r].found.record IN
           /\ get[c][r].busy /\ ~get'[c][r].busy /\ lost' = lost
           /\ Valid(c) /\ ~lease'[c].held
           => /\ found.uid = lease[c].uid /\ found.owner = ClientID[c]
              /\ found.epoch = lease[c].epoch /\ found.seq = lease[c].seq + 1
              /\ ~(pending[c].kind = "renew" /\ pending[c].record = found)]_vars
  <2> SUFFICES ASSUME Safe, ObservedInv, [Next]_vars, NEW c \in Client, NEW r \in Reader,
                      get[c][r].busy, ~get'[c][r].busy, lost' = lost,
                      Valid(c), ~lease'[c].held
               PROVE  LET found == get[c][r].found.record IN
                      /\ found.uid = lease[c].uid /\ found.owner = ClientID[c]
                      /\ found.epoch = lease[c].epoch /\ found.seq = lease[c].seq + 1
                      /\ ~(pending[c].kind = "renew" /\ pending[c].record = found)
    OBVIOUS
  <2>1. \/ readFails(c, r) \/ readViolates(c, r) \/ readNotFound(c, r)
        \/ readSuperseded(c, r) \/ readInstalls(c, r)
    BY WhoEndsReads, ReadEnds
  <2>2. readInstalls(c, r)
    BY <2>1, NoViolation DEF readFails, readViolates, readNotFound, readSuperseded, superseded,
                             Valid
  <2> QED BY <2>2, LostToOwnRenewal
<1>2. Spec => []ObservedInv
  BY ObservedInit, ObservedStep, Invariance, PTL DEF Spec
<1> QED BY <1>1, <1>2, Invariance, PTL DEF Spec, ReadsKeepAuthority

================================================================================
