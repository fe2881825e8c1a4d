------------------------------- MODULE LeaseCore -------------------------------
(***************************************************************************)
(* The lease protocol of lease/core.go and lease/operations.go: processes, *)
(* each with one core, that coordinate through one conditionally written   *)
(* S3 object.                                                              *)
(*                                                                         *)
(* A process runs one mutating call at a time (Require, Renew, Release:    *)
(* mutationMu.TryLock rejects overlap), concurrently with Observe, with    *)
(* Check and with the expiry timer of its lease.  A step is one critical   *)
(* section of stateMu, one arrival of a request at the store, or one       *)
(* response; a call can be delayed, and time can pass, between any two.    *)
(*                                                                         *)
(* now is elapsed time.  The code compares only intervals measured on one  *)
(* local monotonic clock, so one clock stands for all of them: clocks that *)
(* run at different rates are outside the model, as they are outside the   *)
(* protocol's assumptions.                                                 *)
(***************************************************************************)
EXTENDS LeaseRecord

CONSTANTS
  MaxTime,    \* bound: the last instant considered
  MaxLosses,  \* bound: requests whose answer never arrives, and crashes
  Observers,  \* bound: the processes that call Observe
  ObserveCalls  \* bound: the Observe calls that one process can have under way

ASSUME BoundAssumption ==
  MaxTime \in Nat /\ MaxLosses \in Nat /\ Observers \subseteq Client

ASSUME CallAssumption == "mutation" \notin ObserveCalls

VARIABLES
  now,       \* elapsed time
  object,    \* the S3 object: its version token and record; version 0 is absence
  issued,    \* the last version token the store has handed out
  late,      \* writes given up on by their caller that can still succeed
  lost,      \* counts losses against MaxLosses
  granted,   \* history: the highest epoch any process was granted
  observed,  \* core.observed; version 0 is nil
  lease,     \* core.active
  pending,   \* core.pending
  terminal,  \* core.terminal # nil
  pc,        \* where the mutating call of each process is
  prop,      \* the proposal local to that call
  cur,       \* the clone of observed that readCurrent returned to it
  put,       \* its conditional write and the answer on the way back
  get        \* reads in flight: the mutating call's and those of Observe

storeVars  == <<object, issued, late>>
authority  == <<observed, lease, pending, terminal>>
callVars   == <<pc, prop, cur, put>>
vars == <<now, object, issued, late, lost, granted, observed, lease, pending,
          terminal, pc, prop, cur, put, get>>

Reader == {"mutation"} \cup ObserveCalls
Location == {"idle", "frozen", "requireRead", "reconcileRead",
             "reconcileDecide", "conflictRead", "conflictDecide", "put"}

Object == [version : Nat, record : Record]
\* record.at is firstSendAt; acquired is the lease of epoch record.epoch.
Proposal == [kind : {"none", "acquire", "renew", "release"},
             record : Record, expected : Nat, ends : Nat]
Observed == [version : Nat, record : Record, since : Nat]
Lease == [held : BOOLEAN, uid : Uid, epoch : Nat, seq : Nat, validUntil : Nat]
\* same: c.observed is still the pointer the read started from.
Get == [busy : BOOLEAN, asked : Nat, found : Object, same : BOOLEAN]
Put == [state : {"none", "sent", "committed"}, version : Nat]

NoObject == [version |-> 0, record |-> NoRecord]
NoProposal == [kind |-> "none", record |-> NoRecord, expected |-> 0, ends |-> 0]
NotObserved == [version |-> 0, record |-> NoRecord, since |-> 0]
NoLease == [held |-> FALSE, uid |-> NoUid, epoch |-> 0, seq |-> 0, validUntil |-> 0]
NoGet == [busy |-> FALSE, asked |-> 0, found |-> NoObject, same |-> FALSE]
NoPut == [state |-> "none", version |-> 0]

Init ==
  /\ now = 0
  /\ object = NoObject
  /\ issued = 0
  /\ late = {}
  /\ lost = 0
  /\ granted = 0
  /\ observed = [c \in Client |-> NotObserved]
  /\ lease = [c \in Client |-> NoLease]
  /\ pending = [c \in Client |-> NoProposal]
  /\ terminal = [c \in Client |-> FALSE]
  /\ pc = [c \in Client |-> "idle"]
  /\ prop = [c \in Client |-> NoProposal]
  /\ cur = [c \in Client |-> NotObserved]
  /\ put = [c \in Client |-> NoPut]
  /\ get = [c \in Client |-> [r \in Reader |-> NoGet]]

--------------------------------------------------------------------------------
(***************************************************************************)
(* The conditions of the code.                                             *)
(***************************************************************************)

\* Local authority, as Check reports it.
Valid(c) == lease[c].held /\ now < lease[c].validUntil

expired(c) == lease[c].held /\ now >= lease[c].validUntil

\* The acquired lease of proposal p is active and not retired.
heldBy(c, p) == lease[c].held /\ lease[c].epoch = p.record.epoch

\* Mutation of proposalEnd: the deadline counts from the response, not from the
\* first send.
proposalEnd_fromResponse(c, p) == now + RenewDeadline[c]

proposalEnd(c, p) == p.record.at + RenewDeadline[c]

proposalPhaseEnd(c, p) ==
  IF p.kind = "acquire" \/ proposalEnd(c, p) < p.ends
  THEN proposalEnd(c, p) ELSE p.ends

\* Mutation of phaseOver: only an unresolved renewal ends with its phase.
phaseOver_renewOnly(c) ==
  pending[c].kind = "renew" /\ now >= proposalPhaseEnd(c, pending[c])

\* The unresolved proposal can no longer be confirmed.
phaseOver(c) ==
  pending[c].kind # "none" /\ now >= proposalPhaseEnd(c, pending[c])

\* The observed record is the one the lease was last confirmed with.
observedIsLease(c) ==
  /\ observed[c].version # 0
  /\ observed[c].record.uid = lease[c].uid
  /\ observed[c].record.owner = ClientID[c]
  /\ observed[c].record.epoch = lease[c].epoch
  /\ observed[c].record.seq = lease[c].seq

validateActive(c) == ~terminal[c] /\ Valid(c) /\ observedIsLease(c)

\* validateActive retires a lease it finds expired or replaced.
retiredByValidate(c) == ~terminal[c] /\ lease[c].held /\ ~validateActive(c)

\* Mutation of superseded: no generation check.
superseded_never(c, r) == FALSE

\* A read must not be installed over the observation it did not start from.
superseded(c, r) == ~get[c][r].same

\* What a read finds cannot follow what this process has seen.
incompatible(c, o) ==
  /\ observed[c].version # 0
  /\ \/ o.version = 0
     \/ ~recordsCompatible(observed[c].record, o.record)
     \/ o.version = observed[c].version /\ o.record # observed[c].record

violation(c, o) ==
  incompatible(c, o) \/ (o.version # 0 /\ ~validRecord(o.record))

\* Mutation of observationLost: forgets that a pending renewal may show up early.
observationLost_ignoresPending(c, record) ==
  /\ lease[c].held
  /\ \/ record.uid # lease[c].uid
     \/ record.owner # ClientID[c]
     \/ record.epoch # lease[c].epoch
     \/ record.seq # lease[c].seq

\* An observation that is neither the lease's record nor its pending renewal.
observationLost(c, record) ==
  /\ lease[c].held
  /\ \/ record.uid # lease[c].uid
     \/ record.owner # ClientID[c]
     \/ record.epoch # lease[c].epoch
     \/ /\ record.seq # lease[c].seq
        /\ ~(pending[c].kind = "renew" /\ pending[c].record = record)

\* Mutation of eligible: any observed interval will do.
eligible_atOnce(state) == TRUE

\* Mutation of eligible: the duration of whoever asks counts, not the record's.
eligible_configured(state) ==
  \/ state.record.owner = Nobody
  \/ \E c \in Client : now >= state.since + LeaseDuration[c]

\* Only a record unchanged for its whole advertised duration can be taken over.
eligible(state) ==
  \/ state.record.owner = Nobody
  \/ now >= state.since + state.record.dur

unchangedSince(c, o, readAt) ==
  IF observed[c].version # 0 /\ o.version = observed[c].version
  THEN observed[c].since ELSE readAt

\* Nothing newer than the acquisition was observed while it was in flight.
notOvertaken(c, version) ==
  LET seen == observed[c].record  mine == prop[c].record IN
  observed[c].version # 0 =>
    /\ seen.uid = mine.uid
    /\ AtOrAfter(mine, seen)
    /\ seen.epoch = mine.epoch /\ seen.seq = mine.seq =>
         seen = mine /\ observed[c].version = version

\* Mutation of acquisitionConfirmed: a late answer ignores a reported violation.
acquisitionConfirmed_ignoresTerminal(c, version) ==
  /\ now < proposalPhaseEnd(c, prop[c])
  /\ notOvertaken(c, version)

\* Mutation of acquisitionConfirmed: what was observed meanwhile is not compared.
acquisitionConfirmed_ignoresObserved(c, version) ==
  ~terminal[c] /\ now < proposalPhaseEnd(c, prop[c])

acquisitionConfirmed(c, version) ==
  /\ ~terminal[c]
  /\ now < proposalPhaseEnd(c, prop[c])
  /\ notOvertaken(c, version)

\* Mutation of renewalConfirmed: a late answer revives an expired lease.
renewalConfirmed_revives(c) ==
  /\ pending[c] = prop[c]
  /\ heldBy(c, prop[c])
  /\ now < proposalEnd(c, prop[c])

renewalConfirmed(c) ==
  /\ pending[c] = prop[c]
  /\ heldBy(c, prop[c])
  /\ now < prop[c].ends
  /\ now < proposalEnd(c, prop[c])

--------------------------------------------------------------------------------
(***************************************************************************)
(* Effects shared by the operations.                                       *)
(***************************************************************************)

retire(c) == lease' = [lease EXCEPT ![c] = NoLease]

\* A new observedState: every read in flight has started from an older one.
replaceObserved(c, version, record, since) ==
  observed' = [observed EXCEPT ![c] =
                 [version |-> version, record |-> record, since |-> since]]

outdateReads(c) ==
  [r \in Reader |-> [busy |-> get[c][r].busy, asked |-> get[c][r].asked,
                     found |-> get[c][r].found, same |-> FALSE]]

return(c) ==
  /\ pc' = [pc EXCEPT ![c] = "idle"]
  /\ prop' = [prop EXCEPT ![c] = NoProposal]
  /\ cur' = [cur EXCEPT ![c] = NotObserved]
  /\ put' = [put EXCEPT ![c] = NoPut]

\* readCurrent up to its GET, which reads the store atomically.
startRead(c, r) ==
  get' = [get EXCEPT ![c] = [get[c] EXCEPT ![r] =
            [busy |-> TRUE, asked |-> now, found |-> object, same |-> TRUE]]]

finishRead(c, r) == get' = [get EXCEPT ![c] = [get[c] EXCEPT ![r] = NoGet]]

\* The mutating call of c continues with a read, then with the step that follows.
callRead(c, step, proposal) ==
  /\ startRead(c, "mutation")
  /\ pc' = [pc EXCEPT ![c] = step]
  /\ prop' = [prop EXCEPT ![c] = proposal]
  /\ cur' = [cur EXCEPT ![c] = NotObserved]
  /\ put' = [put EXCEPT ![c] = NoPut]

send(c, proposal) ==
  /\ pc' = [pc EXCEPT ![c] = "put"]
  /\ prop' = [prop EXCEPT ![c] = proposal]
  /\ cur' = [cur EXCEPT ![c] = NotObserved]
  /\ put' = [put EXCEPT ![c] = [state |-> "sent", version |-> 0]]

\* If-Match, and If-None-Match: * when no version is expected.
matches(expected) == object.version = expected

\* The store commits a conditional write under a fresh version.  Delayed writes
\* expected the old one: they are turned down whenever they arrive.
commit(record) ==
  /\ issued' = issued + 1
  /\ object' = [version |-> issued + 1, record |-> record]
  /\ late' = {}

\* pending := nil; a renewal takes its lease with it (abandonExpiredPending
\* and losePending differ only in the error they report).
dropPending(c, p) ==
  /\ pending' = [pending EXCEPT ![c] = IF @ = p THEN NoProposal ELSE @]
  /\ lease' = [lease EXCEPT ![c] =
                 IF p.kind = "renew" /\ heldBy(c, p) THEN NoLease ELSE @]

clearPending(c, p) ==
  pending' = [pending EXCEPT ![c] = IF @ = p THEN NoProposal ELSE @]

\* The ways readCurrent ends: with an error of the store (a missing object is
\* one, for every caller but Require), with a protocol violation, with the
\* newer observation of a concurrent operation, or with what the GET found.
readFails(c, r) ==
  /\ terminal[c] \/ ~superseded(c, r)
  /\ finishRead(c, r)
  /\ UNCHANGED <<observed, lease, terminal>>

readViolates(c, r) ==
  /\ ~terminal[c] /\ ~superseded(c, r)
  /\ violation(c, get[c][r].found)
  /\ terminal' = [terminal EXCEPT ![c] = TRUE]
  /\ retire(c)
  /\ finishRead(c, r)
  /\ UNCHANGED observed

\* Mutation of readNotFound: a deleted object looks like one never created.
readNotFound_recreates(c, r) ==
  /\ ~terminal[c] /\ ~superseded(c, r)
  /\ get[c][r].found.version = 0
  /\ finishRead(c, r)
  /\ UNCHANGED <<observed, lease, terminal>>

readNotFound(c, r) ==
  /\ ~terminal[c] /\ ~superseded(c, r)
  /\ get[c][r].found.version = 0 /\ observed[c].version = 0
  /\ finishRead(c, r)
  /\ UNCHANGED <<observed, lease, terminal>>

readSuperseded(c, r) ==
  /\ ~terminal[c] /\ superseded(c, r)
  /\ finishRead(c, r)
  /\ UNCHANGED <<observed, lease, terminal>>

readInstalls(c, r) ==
  LET o == get[c][r].found IN
  /\ ~terminal[c] /\ ~superseded(c, r)
  /\ o.version # 0 /\ ~violation(c, o)
  /\ \E readAt \in get[c][r].asked .. now :
       replaceObserved(c, o.version, o.record, unchangedSince(c, o, readAt))
  /\ lease' = [lease EXCEPT ![c] = IF observationLost(c, o.record) THEN NoLease ELSE @]
  /\ get' = [get EXCEPT ![c] = [outdateReads(c) EXCEPT ![r] = NoGet]]
  /\ UNCHANGED terminal

--------------------------------------------------------------------------------
(***************************************************************************)
(* Time, and what ends a lease without a call.                             *)
(***************************************************************************)

Tick ==
  /\ now < MaxTime
  /\ now' = now + 1
  /\ UNCHANGED <<storeVars, lost, granted, authority, callVars, get>>

\* The expiry timer's callback, and Check, retire a lease past its deadline.
Expire(c) ==
  /\ expired(c)
  /\ retire(c)
  /\ UNCHANGED <<now, storeVars, lost, granted, observed, pending, terminal,
                 callVars, get>>

\* A write that is on its way when its caller stops waiting can still arrive;
\* one whose expected version is gone can only be turned down.
abandonWrite(c) ==
  late' = IF put[c].state = "sent" /\ matches(prop[c].expected)
          THEN late \cup {prop[c].record} ELSE late

\* The process dies and restarts with a new core: nothing local is persisted.
Crash(c) ==
  /\ lost < MaxLosses
  /\ lost' = lost + 1
  /\ abandonWrite(c)
  /\ observed' = [observed EXCEPT ![c] = NotObserved]
  /\ retire(c)
  /\ pending' = [pending EXCEPT ![c] = NoProposal]
  /\ terminal' = [terminal EXCEPT ![c] = FALSE]
  /\ return(c)
  /\ get' = [get EXCEPT ![c] = [r \in Reader |-> NoGet]]
  /\ UNCHANGED <<now, object, issued, granted>>

--------------------------------------------------------------------------------
(***************************************************************************)
(* Reads.                                                                  *)
(***************************************************************************)

\* Observe takes no mutationMu: any number of calls run beside each other.
Observe(c, r) ==
  /\ c \in Observers
  /\ ~get[c][r].busy /\ ~terminal[c]
  /\ startRead(c, r)
  /\ UNCHANGED <<now, storeVars, lost, granted, authority, callVars>>

ObserveReturns(c, r) ==
  /\ get[c][r].busy
  /\ \/ readFails(c, r)
     \/ readViolates(c, r)
     \/ readSuperseded(c, r)
     \/ readInstalls(c, r)
  /\ UNCHANGED <<now, storeVars, lost, granted, pending, callVars>>

\* The read of a reconciliation: an error ends the call, with pending kept.
ReadbackReturns(c) ==
  /\ pc[c] \in {"reconcileRead", "conflictRead"}
  /\ \/ /\ readFails(c, "mutation") \/ readViolates(c, "mutation")
        /\ return(c)
     \/ /\ readSuperseded(c, "mutation") \/ readInstalls(c, "mutation")
        /\ pc' = [pc EXCEPT ![c] =
                    IF @ = "reconcileRead" THEN "reconcileDecide" ELSE "conflictDecide"]
        /\ cur' = [cur EXCEPT ![c] = observed'[c]]
        /\ UNCHANGED <<prop, put>>
  /\ UNCHANGED <<now, storeVars, lost, granted, pending>>

--------------------------------------------------------------------------------
(***************************************************************************)
(* Require, Renew and Release up to the conditional write.                 *)
(***************************************************************************)

\* prepareRequire: retire what has run out, then refuse if anything is left.
Require(c) ==
  LET p == pending[c] IN
  /\ pc[c] = "idle" /\ ~terminal[c]
  /\ lease' = [lease EXCEPT ![c] =
                 IF expired(c) \/ (phaseOver(c) /\ p.kind = "renew" /\ heldBy(c, p))
                 THEN NoLease ELSE @]
  /\ pending' = [pending EXCEPT ![c] = IF phaseOver(c) THEN NoProposal ELSE @]
  /\ \/ /\ lease'[c].held \/ pending'[c].kind # "none"
        /\ UNCHANGED <<callVars, get>>
     \/ /\ ~lease'[c].held /\ pending'[c].kind = "none"
        /\ callRead(c, "requireRead", NoProposal)
  /\ UNCHANGED <<now, storeVars, lost, granted, observed, terminal>>

\* The proposal Require makes from what it read, and the version it replaces.
acquisition(c, current) ==
  [kind |-> "acquire", expected |-> current.version, ends |-> 0,
   record |-> IF current.version = 0
              THEN newInitialRecord(c, now)
              ELSE acquisitionRecord(current.record, c, now)]

mayAcquire(current) == eligible(current) /\ canAdvance(current.record.epoch)

\* Require's read returns; then the call ends with an error (of the read,
\* ErrNotEligible, ErrCounterOverflow, or a cancelled context) or it freezes
\* the acquisition and sends it.  It decides on its own copy of the
\* observation and on the clock, so the decision is one step with the read.
RequireDecides(c) ==
  /\ pc[c] = "requireRead"
  /\ \/ /\ \/ readFails(c, "mutation")
           \/ readViolates(c, "mutation")
           \/ readSuperseded(c, "mutation")
           \/ readInstalls(c, "mutation")
        /\ return(c)
     \/ /\ readNotFound(c, "mutation")
        /\ send(c, acquisition(c, NotObserved))
     \/ /\ readSuperseded(c, "mutation") \/ readInstalls(c, "mutation")
        /\ mayAcquire(observed'[c])
        /\ send(c, acquisition(c, observed'[c]))
  /\ UNCHANGED <<now, storeVars, lost, granted, pending>>

\* sendPending: request p, unless its phase is over or the caller has gone.
sendPending(c, p) ==
  \/ /\ now < proposalPhaseEnd(c, p)
     /\ send(c, p)
     /\ pending' = [pending EXCEPT ![c] = p]
     /\ UNCHANGED lease
  \/ /\ now < proposalPhaseEnd(c, p)
     /\ return(c)
     /\ clearPending(c, p)
     /\ UNCHANGED lease
  \/ /\ now >= proposalPhaseEnd(c, p)
     /\ return(c)
     /\ dropPending(c, p)

\* Renew or Release finds its own unresolved proposal: read before anything else.
reconcilePending(c, kind) ==
  LET p == pending[c] IN
  /\ p.kind = kind
  /\ \/ /\ now >= proposalPhaseEnd(c, p)
        /\ dropPending(c, p)
        /\ UNCHANGED <<callVars, get>>
     \/ /\ now < proposalPhaseEnd(c, p)
        /\ callRead(c, "reconcileRead", p)
        /\ UNCHANGED <<lease, pending>>

renewal(c) ==
  [kind |-> "renew", expected |-> observed[c].version,
   ends |-> lease[c].validUntil, record |-> renewalRecord(observed[c].record, now)]

release(c) ==
  [kind |-> "release", expected |-> observed[c].version,
   ends |-> lease[c].validUntil, record |-> releaseRecord(observed[c].record, now)]

\* Renew up to the first unlock of stateMu: the renewal is built from the
\* observation outside the lock.
Renew(c) ==
  /\ pc[c] = "idle" /\ ~terminal[c]
  /\ \/ reconcilePending(c, "renew")
     \/ /\ pending[c].kind = "none"
        /\ retiredByValidate(c)
        /\ retire(c)
        /\ UNCHANGED <<pending, callVars, get>>
     \/ /\ pending[c].kind = "none"
        /\ validateActive(c)
        /\ canAdvance(observed[c].record.seq)
        /\ pc' = [pc EXCEPT ![c] = "frozen"]
        /\ prop' = [prop EXCEPT ![c] = renewal(c)]
        /\ UNCHANGED <<lease, pending, cur, put, get>>
  /\ UNCHANGED <<now, storeVars, lost, granted, observed, terminal>>

\* Renew validates again under stateMu before it records the proposal.
RenewFreezes(c) ==
  /\ pc[c] = "frozen"
  /\ \/ /\ validateActive(c)
        /\ sendPending(c, prop[c])
     \/ /\ ~validateActive(c)
        /\ return(c)
        /\ lease' = [lease EXCEPT ![c] = IF retiredByValidate(c) THEN NoLease ELSE @]
        /\ UNCHANGED pending
  /\ UNCHANGED <<now, storeVars, lost, granted, observed, terminal, get>>

\* Release retires the lease before it freezes and sends the empty record;
\* at the last sequence it retires and writes nothing (ErrCounterOverflow).
Release(c) ==
  /\ pc[c] = "idle" /\ ~terminal[c]
  /\ \/ reconcilePending(c, "release")
     \/ /\ pending[c].kind = "none"
        /\ \/ retiredByValidate(c)
           \/ validateActive(c) /\ ~canAdvance(observed[c].record.seq)
        /\ retire(c)
        /\ UNCHANGED <<pending, callVars, get>>
     \/ /\ pending[c].kind = "none"
        /\ validateActive(c)
        /\ canAdvance(observed[c].record.seq)
        /\ retire(c)
        /\ \/ /\ send(c, release(c))
              /\ pending' = [pending EXCEPT ![c] = release(c)]
           \/ return(c) /\ UNCHANGED pending
        /\ UNCHANGED get
  /\ UNCHANGED <<now, storeVars, lost, granted, observed, terminal>>

--------------------------------------------------------------------------------
(***************************************************************************)
(* The store: one linearizable object with conditional writes.             *)
(***************************************************************************)

\* A request that has not matched stays "sent" until PutConflicts, PutRefused or
\* PutUnknown answers it: turning it down changes nothing in the store.
StoreCommits(c) ==
  /\ put[c].state = "sent"
  /\ matches(prop[c].expected)
  /\ commit(prop[c].record)
  /\ put' = [put EXCEPT ![c] = [state |-> "committed", version |-> issued + 1]]
  /\ UNCHANGED <<now, lost, granted, authority, pc, prop, cur, get>>

LateWriteArrives(record) ==
  /\ commit(record)
  /\ UNCHANGED <<now, lost, granted, authority, callVars, get>>

--------------------------------------------------------------------------------
(***************************************************************************)
(* What a mutating call does with the answer to its write.                 *)
(***************************************************************************)

confirmAcquisition(c, version) ==
  \/ /\ acquisitionConfirmed(c, version)
     /\ replaceObserved(c, version, prop[c].record, prop[c].record.at)
     /\ get' = [get EXCEPT ![c] = outdateReads(c)]
     /\ lease' = [lease EXCEPT ![c] =
          [held |-> TRUE, uid |-> prop[c].record.uid, epoch |-> prop[c].record.epoch,
           seq |-> prop[c].record.seq,
           validUntil |-> proposalPhaseEnd(c, prop[c])]]
     /\ granted' = prop[c].record.epoch
     /\ UNCHANGED pending
  \/ UNCHANGED <<observed, lease, pending, granted, get>>  \* or the caller has gone

confirmRenewal(c, version) ==
  \/ /\ renewalConfirmed(c)
     /\ replaceObserved(c, version, prop[c].record, prop[c].record.at)
     /\ get' = [get EXCEPT ![c] = outdateReads(c)]
     /\ lease' = [lease EXCEPT ![c] =
          [held |-> TRUE, uid |-> lease[c].uid, epoch |-> lease[c].epoch,
           seq |-> prop[c].record.seq, validUntil |-> proposalEnd(c, prop[c])]]
     /\ clearPending(c, prop[c])
  \/ /\ ~renewalConfirmed(c)
     /\ dropPending(c, prop[c])
     /\ UNCHANGED <<observed, get>>

confirmRelease(c, version) ==
  /\ pending[c] = prop[c]
  /\ replaceObserved(c, version, prop[c].record, prop[c].record.at)
  /\ get' = [get EXCEPT ![c] = outdateReads(c)]
  /\ clearPending(c, prop[c])
  /\ UNCHANGED lease

confirm(c, version) ==
  /\ \/ prop[c].kind = "acquire" /\ confirmAcquisition(c, version)
     \/ prop[c].kind = "renew" /\ confirmRenewal(c, version) /\ UNCHANGED granted
     \/ prop[c].kind = "release" /\ confirmRelease(c, version) /\ UNCHANGED granted
  /\ return(c)

PutSucceeds(c) ==
  /\ put[c].state = "committed"
  /\ confirm(c, put[c].version)
  /\ UNCHANGED <<now, storeVars, lost, terminal>>

\* The outcome stays unknown: timeout, lost connection, 5xx, cancelled context,
\* or a response without ETag.  A renewal or a release remains pending.
PutUnknown(c) ==
  /\ pc[c] = "put"
  /\ lost < MaxLosses
  /\ lost' = lost + 1
  /\ abandonWrite(c)
  /\ return(c)
  /\ UNCHANGED <<now, object, issued, granted, authority, get>>

\* 412 or 409: the store turned the write down, or turned down the SDK's retry
\* of a write that it had committed.
PutConflicts(c) ==
  /\ pc[c] = "put"
  /\ \/ /\ prop[c].kind = "acquire"
        /\ return(c)
        /\ UNCHANGED <<lease, pending, get>>
     \/ /\ prop[c].kind # "acquire"
        /\ now >= proposalPhaseEnd(c, prop[c])
        /\ dropPending(c, prop[c])
        /\ return(c)
        /\ UNCHANGED get
     \/ /\ prop[c].kind # "acquire"
        /\ now < proposalPhaseEnd(c, prop[c])
        /\ callRead(c, "conflictRead", prop[c])
        /\ UNCHANGED <<lease, pending>>
  /\ UNCHANGED <<now, storeVars, lost, granted, observed, terminal>>

\* Any other definite error: unauthorized, no such object, invalid request.
PutRefused(c) ==
  /\ put[c].state = "sent"
  /\ clearPending(c, prop[c])
  /\ return(c)
  /\ UNCHANGED <<now, storeVars, lost, granted, observed, lease, terminal, get>>

\* The SDK repeats an attempt by itself, whether the first was committed, is still
\* on its way or lost; the answer to the last one is all that the core sees.
AttemptRepeated(c) ==
  /\ put[c].state # "none"
  /\ lost < MaxLosses
  /\ lost' = lost + 1
  /\ abandonWrite(c)
  /\ put' = [put EXCEPT ![c] = [state |-> "sent", version |-> 0]]
  /\ UNCHANGED <<now, object, issued, granted, authority, pc, prop, cur, get>>

\* Mutation of unresolved: a conflict is answered by sending again.
unresolved_resends(c) == sendPending(c, prop[c])

\* After a conflict whose readback is still the predecessor the call ends with
\* ErrUnknownOutcome; a reconciliation sends the same bytes again.
unresolved(c) ==
  \/ /\ pc[c] = "conflictDecide"
     /\ return(c)
     /\ UNCHANGED <<lease, pending>>
  \/ /\ pc[c] = "reconcileDecide"
     /\ sendPending(c, prop[c])

\* applyPendingReadback and what follows it.
ReadbackDecides(c) ==
  /\ pc[c] \in {"reconcileDecide", "conflictDecide"}
  /\ \/ /\ cur[c].record = prop[c].record
        /\ confirm(c, cur[c].version)
     \/ /\ cur[c].record # prop[c].record
        /\ cur[c].version # prop[c].expected
        /\ dropPending(c, prop[c])
        /\ return(c)
        /\ UNCHANGED <<observed, get, granted>>
     \/ /\ cur[c].record # prop[c].record
        /\ cur[c].version = prop[c].expected
        /\ unresolved(c)
        /\ UNCHANGED <<observed, get, granted>>
  /\ UNCHANGED <<now, storeVars, lost, terminal>>

--------------------------------------------------------------------------------
\* The steps that continue a mutating call: each request has a timeout.
CallStep(c) ==
  \/ RequireDecides(c)
  \/ RenewFreezes(c)
  \/ ReadbackReturns(c)
  \/ StoreCommits(c)
  \/ PutSucceeds(c)
  \/ PutUnknown(c)
  \/ PutConflicts(c)
  \/ PutRefused(c)
  \/ AttemptRepeated(c)
  \/ ReadbackDecides(c)

Next ==
  \/ Tick
  \/ \E record \in late : LateWriteArrives(record)
  \/ \E c \in Client :
       \/ Crash(c)
       \/ Expire(c)
       \/ \E r \in ObserveCalls : Observe(c, r) \/ ObserveReturns(c, r)
       \/ Require(c)
       \/ Renew(c)
       \/ Release(c)
       \/ CallStep(c)

Spec == Init /\ [][Next]_vars

\* A call runs to its end: its requests have timeouts (requestContext).
FairCalls == \A c \in Client : WF_vars(CallStep(c))

\* Time passes and a process that wants the lease keeps asking for it
\* (acquire.Run retries Require every RetryPeriod).
FairRetry == WF_vars(Tick) /\ \A c \in Client : WF_vars(Require(c))

LiveSpec == Spec /\ FairCalls /\ FairRetry

--------------------------------------------------------------------------------
(***************************************************************************)
(* Properties.                                                             *)
(***************************************************************************)

\* Every variable keeps its type (core.go, types core, proposal, Lease).
TypeOK ==
  /\ now \in Nat /\ issued \in Nat /\ lost \in Nat /\ granted \in Nat
  /\ object \in Object
  /\ late \subseteq Record
  /\ observed \in [Client -> Observed]
  /\ lease \in [Client -> Lease]
  /\ pending \in [Client -> Proposal]
  /\ terminal \in [Client -> BOOLEAN]
  /\ pc \in [Client -> Location]
  /\ prop \in [Client -> Proposal]
  /\ cur \in [Client -> Observed]
  /\ put \in [Client -> Put]
  /\ get \in [Client -> [Reader -> Get]]

\* No two processes hold local authority at once, whatever was lost, delayed,
\* retried or restarted: the interval a grant promises (confirmAcquisition,
\* confirmRenewal) never overlaps a takeover (eligible).
AtMostOneAuthority ==
  \A c, d \in Client : Valid(c) /\ Valid(d) => c = d

\* A process with authority is the owner the object records, in its epoch, at
\* its sequence or at the one its own unresolved renewal wrote, and its
\* deadline precedes the earliest takeover.
AuthorityBacked ==
  \A c \in Client : Valid(c) =>
    /\ object.record.uid = lease[c].uid
    /\ object.record.owner = ClientID[c]
    /\ object.record.epoch = lease[c].epoch
    /\ object.record.seq \in {lease[c].seq, lease[c].seq + 1}
    /\ lease[c].validUntil < object.record.at + object.record.dur

\* Without interference with the object, no process ever reports a protocol
\* violation: a delayed read is discarded, not mistaken for a rollback
\* (readCurrent's generation check).
NoFalseViolation == \A c \in Client : ~terminal[c]

\* A completed read ends an unexpired lease only when it found a renewal of that
\* lease which the process has forgotten: its own pending renewal, seen before the
\* response, costs it nothing (retireIfObservationLostLocked).
ReadsKeepAuthority ==
  [][\A c \in Client : \A r \in Reader : LET found == get[c][r].found.record IN
       /\ get[c][r].busy /\ ~get'[c][r].busy /\ lost' = lost
       /\ Valid(c) /\ ~lease'[c].held
       => /\ found.uid = lease[c].uid /\ found.owner = ClientID[c]
          /\ found.epoch = lease[c].epoch /\ found.seq = lease[c].seq + 1
          /\ ~(pending[c].kind = "renew" /\ pending[c].record = found)]_vars

\* An occupied record is taken over only when it has stood for its whole
\* advertised duration; nothing else moves the epoch (eligible,
\* acquisitionRecord).
TakeoverWaits ==
  [][object'.record.epoch # object.record.epoch /\ object.record.owner # Nobody
       => now >= object.record.at + object.record.dur]_vars

\* Each commit is the next step of one history: the uid stays, the counters
\* advance by one, and only the owner of an occupied record renews or releases
\* it; a delayed renewal never lands on a released or newer record.
HistoryAdvances ==
  [][LET old == object.record  new == object'.record IN
     object' # object /\ object.version # 0 =>
       /\ new.uid = old.uid
       /\ \/ new.epoch = old.epoch + 1 /\ new.seq = 1
          \/ /\ old.owner # Nobody
             /\ new.epoch = old.epoch /\ new.seq = old.seq + 1
             /\ new.owner \in {old.owner, Nobody}]_vars

\* Authority over the object refines the promise of Leadership: grants are
\* exclusive and increasing, and retired or expired authority never returns.
Promise == INSTANCE Leadership
             WITH holders <- {c \in Client : Valid(c)}, epoch <- granted
KeepsPromise == Promise!Spec

\* Every mutating call returns: a conflict is reread once, never retried in a
\* loop (reconcileConflict).
CallReturns == \A c \in Client : pc[c] # "idle" ~> pc[c] = "idle"

\* An unresolved renewal or release stops blocking its process when its phase
\* ends, even if it is never reconciled (prepareRequire).
PendingEnds ==
  \A c \in Client :
    pending[c].kind # "none" /\ proposalPhaseEnd(c, pending[c]) <= MaxTime
      ~> pending[c].kind = "none"

\* The design says that an unresolved proposal blocks every different one until
\* its outcome is known or authority is retired.  The code forgets it when a
\* later attempt ends with a definite error or a cancelled context (sendPending
\* calls clearPending), so this does not hold.
DifferentProposalBlocked ==
  \A c \in Client : \A record \in late :
    Valid(c) /\ record.epoch = lease[c].epoch /\ put[c].state = "sent"
      => prop[c].record = record

================================================================================
