----------------------------- MODULE LeaseInvariant ----------------------------
(***************************************************************************)
(* The inductive invariant behind the safety of LeaseCore.  Exclusive      *)
(* authority is not inductive as it stands: it rests on what every read,   *)
(* proposal and delayed write in the system can still do to the object.    *)
(***************************************************************************)
EXTENDS LeaseCore

\* The grant of c has been committed and its answer is on the way back.
grantInFlight(c) == put[c].state = "committed" /\ prop[c].kind = "acquire"

--------------------------------------------------------------------------------
(***************************************************************************)
(* What a record can be, relative to the current object.                   *)
(***************************************************************************)

\* r was the object's record under version v.
Past(v, r) ==
  /\ v <= object.version
  /\ v = object.version => r = object.record
  /\ v = 0 => r = NoRecord
  /\ v # 0 => r.uid = object.record.uid /\ validRecord(r)
  /\ AtOrAfter(object.record, r)
  /\ r.epoch = object.record.epoch /\ r.seq = object.record.seq => r = object.record

\* r can replace the current record as the next step of the same grant.
NextInGrant(r) ==
  LET o == object.record IN
  /\ o.owner # Nobody
  /\ r.uid = o.uid /\ r.dur = o.dur /\ r.owner \in {o.owner, Nobody}
  /\ r.epoch = o.epoch /\ r.seq = o.seq + 1
  /\ o.at <= r.at /\ r.at <= now

\* r can replace the current record as a new grant: it has waited long enough.
NextGrant(r) ==
  LET o == object.record IN
  /\ object.version # 0 => r.uid = o.uid
  /\ r.uid # NoUid /\ r.dur # 0
  /\ r.epoch = o.epoch + 1 /\ r.seq = 1
  /\ o.owner # Nobody => o.at + o.dur <= r.at
  /\ r.at <= now

\* r belongs to a grant that was confirmed: whoever still holds it is at most
\* one sequence behind r and has not released it.
OfConfirmedGrant(r) ==
  /\ r.epoch <= object.record.epoch
  /\ \A d \in Client : lease[d].held /\ lease[d].epoch = r.epoch =>
       r.owner # Nobody /\ r.seq <= lease[d].seq + 1
  /\ \A d \in Client : grantInFlight(d) => prop[d].record.epoch # r.epoch

\* r can still reach the store without harm.
Harmless(r) == NextGrant(r) \/ (NextInGrant(r) /\ OfConfirmedGrant(r))

\* A proposal of the grant c holds or held.
GrantProposal(c, p) ==
  p.kind \in {"renew", "release"} =>
    /\ OfConfirmedGrant(p.record)
    /\ p.expected <= object.version
    /\ p.expected = object.version => NextInGrant(p.record)
    /\ p.kind = "renew" /\ heldBy(c, p) =>
         p.record.seq = lease[c].seq + 1 /\ p.ends = lease[c].validUntil

--------------------------------------------------------------------------------
(***************************************************************************)
(* The invariant, one part per piece of state.                             *)
(***************************************************************************)

StoreInv ==
  /\ issued = object.version
  /\ object.version = 0 => object = NoObject
  /\ object.version # 0 => validRecord(object.record)
  /\ object.record.at <= now

\* The call of c: where it is, what it carries.
CallOK(c) ==
  /\ pc[c] \in {"idle", "requireRead"} => prop[c].kind = "none"
  /\ pc[c] = "frozen" => prop[c].kind = "renew"
  /\ pc[c] \in {"reconcileRead", "reconcileDecide", "conflictRead", "conflictDecide"}
       => prop[c].kind \in {"renew", "release"}
  /\ pc[c] \in {"requireRead", "reconcileRead", "conflictRead"} => get[c]["mutation"].busy
  /\ pc[c] = "put" => prop[c].kind # "none"
  /\ put[c].state # "none" => pc[c] = "put"
  /\ pc[c] = "requireRead" \/ prop[c].kind = "acquire" => ~lease[c].held

\* Everything c has read was once the object.
SnapshotOK(c) ==
  /\ Past(observed[c].version, observed[c].record)
  /\ Past(cur[c].version, cur[c].record)
  /\ \A r \in Reader : Past(get[c][r].found.version, get[c][r].found.record)
  /\ put[c].state = "committed" =>
       put[c].version # 0 /\ Past(put[c].version, prop[c].record)

\* The waiting time of c does not reach back before the current record was
\* proposed.
SinceOK(c) ==
  /\ observed[c].version = object.version => object.record.at <= observed[c].since
  /\ \A r \in Reader :
       get[c][r].busy /\ get[c][r].found.version = object.version
         => object.record.at <= get[c][r].asked

\* What c has frozen or sent fits the object, or has been overtaken.
ProposalOK(c) ==
  /\ GrantProposal(c, pending[c])
  /\ GrantProposal(c, prop[c])
  /\ prop[c].kind = "acquire" =>
       /\ prop[c].record.owner = ClientID[c]
       /\ prop[c].record.dur = LeaseDuration[c]
       /\ prop[c].expected <= object.version
       /\ put[c].state # "none" /\ prop[c].expected = object.version
            => NextGrant(prop[c].record)

\* A read of c that will be installed finds nothing older than what it replaces.
ReadOK(c) ==
  /\ ~terminal[c]
  /\ \A r \in Reader : LET o == get[c][r].found IN
       get[c][r].busy /\ get[c][r].same =>
         /\ observed[c].version # 0 =>
              o.version # 0 /\ recordsCompatible(observed[c].record, o.record)
         /\ o.version = observed[c].version => o.record = observed[c].record

Local(c) == CallOK(c) /\ SnapshotOK(c) /\ SinceOK(c) /\ ProposalOK(c) /\ ReadOK(c)

LateInv == \A r \in late : Harmless(r)

\* One grant per epoch, confirmed or about to be.
EpochInv ==
  /\ \A c \in Client : lease[c].held => lease[c].epoch <= object.record.epoch
  /\ \A c, d \in Client :
       c # d =>
         /\ lease[c].held /\ lease[d].held => lease[c].epoch # lease[d].epoch
         /\ lease[c].held /\ grantInFlight(d) => lease[c].epoch # prop[d].record.epoch
         /\ grantInFlight(c) /\ grantInFlight(d) =>
              prop[c].record.epoch # prop[d].record.epoch

\* Until its deadline nobody replaces a committed grant.
GrantInv ==
  \A c \in Client :
    grantInFlight(c) /\ now < prop[c].record.at + RenewDeadline[c]
      => object.record = prop[c].record

AuthorityInv ==
  /\ AuthorityBacked
  /\ \A c \in Client : Valid(c) => object.record.dur = LeaseDuration[c]

Safe ==
  /\ TypeOK /\ StoreInv /\ LateInv /\ EpochInv /\ GrantInv /\ AuthorityInv
  /\ \A c \in Client : Local(c)

\* Each grant is announced once, with an epoch above all earlier ones.
GrantedInv ==
  /\ granted <= object.record.epoch
  /\ \A c \in Client : grantInFlight(c) => granted # prop[c].record.epoch

\* Why a read costs a process its lease only for a renewal of its own: it has observed
\* what it holds, or something newer, and nothing it proposes can take that back.
HeldObserved(c) ==
  lease[c].held =>
    /\ observed[c].version # 0
    /\ AtOrAfter(observed[c].record, lease[c])
    /\ observed[c].record.epoch = lease[c].epoch /\ observed[c].record.seq = lease[c].seq
         => observed[c].record.owner = ClientID[c]

OwnProposals(c) ==
  /\ \A p \in {pending[c], prop[c]} :
       /\ p.kind = "release" => ~lease[c].held
       /\ p.kind = "renew" => p.record.owner = ClientID[c]
  /\ pc[c] = "requireRead" \/ prop[c].kind = "acquire" => pending[c].kind = "none"

ObservedInv == \A c \in Client : HeldObserved(c) /\ OwnProposals(c)

================================================================================
