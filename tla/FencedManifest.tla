----------------------------- MODULE FencedManifest ----------------------------
(***************************************************************************)
(* The fenced manifest of examples/fencedmanifest/manifest.go: a resource  *)
(* in one S3 object that leaders protect with the epochs of their leases.  *)
(* A leader activates its epoch, then publishes under it; a deposed leader *)
(* may go on, and its writes may arrive late, but they are fenced off.     *)
(*                                                                         *)
(* A Writer runs one call at a time (TryLock) and its GETs are             *)
(* linearizable, so a read and what follows from it locally are one step.  *)
(* The digest of a request identifies it: a history entry is the request.  *)
(***************************************************************************)
EXTENDS Naturals, Sequences, FiniteSets, StoreErrors

CONSTANTS
  Writer,
  Request,      \* [op, epoch, id, payload]: the operation, its mutationID, ...
  Asked,        \* the requests the application makes of each writer
  MaxHistory,   \* maxHistoryEntries
  MaxAttempts,  \* maxMutationAttempts
  MaxRevision,  \* math.MaxUint64
  MaxLosses     \* bound: requests whose answer never arrives

ASSUME RequestAssumption ==
  /\ \A r \in Request : r.op \in {"activate", "publish"} /\ r.epoch \in Nat \ {0}
  /\ Asked \in [Writer -> SUBSET Request]
ASSUME LimitAssumption ==
  /\ MaxHistory \in Nat \ {0} /\ MaxAttempts \in Nat \ {0}
  /\ MaxRevision \in Nat \ {0} /\ MaxLosses \in Nat

VARIABLES
  object,   \* the S3 object: version token and manifest; version 0 is absence
  late,     \* writes given up on by their caller that can still succeed
  lost,     \* counts losses against MaxLosses
  known,    \* the manifest each writer has last read or written
  pending,  \* Writer.pending
  call,     \* the running call of each writer
  log,      \* history: the requests committed, in order
  acked,    \* history: the requests reported as successful
  risked    \* history: the requests that only the bounded history protects

vars == <<object, late, lost, known, pending, call, log, acked, risked>>

Null == "null"  \* the initial payload
Uid == Writer   \* a random UID; a writer never has two creations under way
Manifest ==
  [uid : Uid, epoch : Nat \ {0}, revision : 1 .. MaxRevision,
   payload : {r.payload : r \in Request} \cup {Null}, history : Seq(Request)]

NoManifest == [uid |-> "", epoch |-> 0, revision |-> 0, payload |-> Null, history |-> <<>>]
NoObject == [version |-> 0, body |-> NoManifest]
NoRequest == [op |-> "none", epoch |-> 0, id |-> "", payload |-> Null]
NoPending == [request |-> NoRequest, expected |-> 0, body |-> NoManifest, ambiguous |-> FALSE]
NoCall == [at |-> "idle", request |-> NoRequest, tries |-> 0, put |-> "none"]

Init ==
  /\ object = NoObject
  /\ late = {}
  /\ lost = 0
  /\ known = [w \in Writer |-> NoManifest]
  /\ pending = [w \in Writer |-> NoPending]
  /\ call = [w \in Writer |-> NoCall]
  /\ log = <<>>
  /\ acked = {} /\ risked = {}

--------------------------------------------------------------------------------
(***************************************************************************)
(* Manifests.                                                              *)
(***************************************************************************)

entries(m) == {m.history[i] : i \in DOMAIN m.history}

\* Mutation of matched: the mutation ID alone identifies a request.
matched_byId(m, r) == \E e \in entries(m) : e.id = r.id

matched(m, r) == r \in entries(m)

\* Mutation of conflict: an ID can be used again for something else.
conflict_never(m, r) == FALSE

conflict(m, r) == ~matched(m, r) /\ \E e \in entries(m) : e.id = r.id

initialRecord(w, r) ==
  [uid |-> w, epoch |-> r.epoch, revision |-> 1, payload |-> Null, history |-> <<r>>]

\* The request changes nothing: it has been applied, or its epoch is active.
done(m, r) ==
  /\ r.epoch >= m.epoch
  /\ \/ matched(m, r)
     \/ ~conflict(m, r) /\ r.op = "activate" /\ r.epoch = m.epoch

\* Mutation of admissible: a publication brings its epoch along.
admissible_anyEpoch(m, r) ==
  /\ r.epoch >= m.epoch
  /\ ~done(m, r) /\ ~conflict(m, r)
  /\ m.revision < MaxRevision

\* Mutation of admissible: the revision passes its last value.
admissible_overflows(m, r) ==
  /\ r.epoch >= m.epoch
  /\ ~done(m, r) /\ ~conflict(m, r)
  /\ r.op = "publish" => r.epoch = m.epoch

\* prepareExisting lets the request through.
admissible(m, r) ==
  /\ r.epoch >= m.epoch
  /\ ~done(m, r) /\ ~conflict(m, r)
  /\ r.op = "publish" => r.epoch = m.epoch
  /\ m.revision < MaxRevision

lastEntries(s) ==
  IF Len(s) > MaxHistory THEN SubSeq(s, Len(s) - MaxHistory + 1, Len(s)) ELSE s

\* Mutation of resultRecord: only a publication is a new revision.
resultRecord_keepsRevision(m, r) ==
  [uid |-> m.uid, epoch |-> IF r.epoch > m.epoch THEN r.epoch ELSE m.epoch,
   revision |-> IF r.op = "publish" THEN m.revision + 1 ELSE m.revision,
   payload |-> IF r.op = "publish" THEN r.payload ELSE m.payload,
   history |-> lastEntries(Append(m.history, r))]

resultRecord(m, r) ==
  [uid |-> m.uid, epoch |-> IF r.epoch > m.epoch THEN r.epoch ELSE m.epoch,
   revision |-> m.revision + 1,
   payload |-> IF r.op = "publish" THEN r.payload ELSE m.payload,
   history |-> lastEntries(Append(m.history, r))]

\* What decode demands of the history of a manifest.
validHistory(m) ==
  LET h == m.history IN
  /\ Len(h) = IF m.revision < MaxHistory THEN m.revision ELSE MaxHistory
  /\ \A i, j \in DOMAIN h : h[i].id = h[j].id => i = j
  /\ m.revision <= MaxHistory => h[1].op = "activate"
  /\ \A i \in DOMAIN h \ {1} :
       /\ h[i].epoch >= h[i - 1].epoch
       /\ h[i].op = "activate" <=> h[i].epoch > h[i - 1].epoch
  /\ h[Len(h)].epoch = m.epoch

\* read refuses a manifest that cannot follow the last one it has seen.
refused(w, m) ==
  /\ known[w].revision # 0
  /\ \/ m.uid # known[w].uid
     \/ m.epoch < known[w].epoch
     \/ m.revision < known[w].revision
     \/ m.revision = known[w].revision /\ m # known[w]

--------------------------------------------------------------------------------
(***************************************************************************)
(* A call of Activate or Publish: mutate's loop.                           *)
(***************************************************************************)

remember(w, m) == known' = [known EXCEPT ![w] = m]

clearPending(w) == pending' = [pending EXCEPT ![w] = NoPending]

\* An error drops a proposal unless a write of it may have been applied.
dropUnlessAmbiguous(w) ==
  pending' = [pending EXCEPT ![w] = IF @.ambiguous THEN @ ELSE NoPending]

return(w) == call' = [call EXCEPT ![w] = NoCall]

succeed(w) == return(w) /\ acked' = acked \cup {call[w].request}

fail(w) == return(w) /\ UNCHANGED acked

\* The loop goes round with its proposal unresolved.
again(w) ==
  /\ call' = [call EXCEPT ![w].at = "loop", ![w].tries = @ + 1, ![w].put = "none"]
  /\ UNCHANGED acked

\* sendPending; at is the place its answer returns to.
send(w, at) ==
  /\ call' = [call EXCEPT ![w].at = at, ![w].put = "sent"]
  /\ UNCHANGED acked

propose(w, expected, body) ==
  /\ pending' = [pending EXCEPT ![w] =
       [request |-> call[w].request, expected |-> expected, body |-> body,
        ambiguous |-> FALSE]]
  /\ send(w, "mutate")

\* Activate and Publish; a different unresolved proposal turns them down.  The
\* application may repeat a request that has succeeded, or make it of two writers.
Ask(w, r) ==
  /\ call[w].at = "idle"
  /\ r \in Asked[w]
  /\ risked' = risked \cup ({r} \cap (acked \cup UNION {Asked[v] : v \in Writer \ {w}}))
  /\ pending[w] # NoPending => pending[w].request = r
  /\ call' = [call EXCEPT ![w] = [NoCall EXCEPT !.at = "loop", !.request = r]]
  /\ UNCHANGED <<object, late, lost, known, pending, log, acked>>

\* The context of the call is done: checked at the head of the loop.
Cancel(w) ==
  /\ call[w].at = "loop" /\ call[w].tries < MaxAttempts
  /\ fail(w)
  /\ UNCHANGED <<object, late, lost, known, pending, log, risked>>

GiveUp(w) ==
  /\ call[w].at = "loop" /\ call[w].tries = MaxAttempts
  /\ dropUnlessAmbiguous(w)
  /\ fail(w)
  /\ UNCHANGED <<object, late, lost, known, log, risked>>

\* A GET fails otherwise than by ErrNotFound, or read refuses what it returns.
ReadFails(w) ==
  /\ call[w].at \in {"loop", "rebase"} /\ call[w].tries < MaxAttempts
  /\ \/ \E a \in getAnswers(object.version # 0) \ {"ok"} : ~is(getError(a), "ErrNotFound")
     \/ refused(w, object.body)
  /\ dropUnlessAmbiguous(w)
  /\ fail(w)
  /\ UNCHANGED <<object, late, lost, known, log, risked>>

\* Mutation of lostInHistory: a proposal that is not found was not applied.
lostInHistory_rebases(w) ==
  /\ call' = [call EXCEPT ![w].at = "rebase"]
  /\ clearPending(w)
  /\ UNCHANGED acked

\* The proposal is not in the history, and its version has been replaced.
lostInHistory(w) ==
  \/ /\ pending[w].ambiguous
     /\ fail(w)
     /\ UNCHANGED pending
  \/ /\ ~pending[w].ambiguous
     /\ call' = [call EXCEPT ![w].at = "rebase"]
     /\ clearPending(w)
     /\ UNCHANGED acked

\* resolvePending: what has become of the unresolved proposal?
ResolvePending(w) ==
  LET p == pending[w]  m == object.body IN
  /\ call[w].at = "loop" /\ call[w].tries < MaxAttempts /\ p # NoPending
  /\ ~refused(w, m)
  /\ \/ /\ matched(m, p.request)
        /\ clearPending(w)
        /\ succeed(w)
     \/ /\ conflict(m, p.request) \/ (~matched(m, p.request) /\ m.epoch > p.request.epoch)
        /\ dropUnlessAmbiguous(w)
        /\ fail(w)
     \/ /\ ~matched(m, p.request) /\ ~conflict(m, p.request) /\ m.epoch <= p.request.epoch
        /\ \/ object.version = p.expected /\ send(w, "resolve") /\ UNCHANGED pending
           \/ object.version # p.expected /\ lostInHistory(w)
  /\ IF object.version = 0 THEN UNCHANGED known ELSE remember(w, m)
  /\ UNCHANGED <<object, late, lost, log, risked>>

\* A new proposal, made from what the manifest is now.
Propose(w) ==
  LET r == call[w].request  m == object.body IN
  /\ call[w].at \in {"loop", "rebase"} /\ call[w].tries < MaxAttempts
  /\ pending[w] = NoPending
  /\ ~refused(w, m)
  /\ \/ /\ object.version = 0
        /\ \/ r.op = "publish" /\ fail(w) /\ UNCHANGED pending
           \/ r.op = "activate" /\ propose(w, 0, initialRecord(w, r))
        /\ UNCHANGED known
     \/ /\ object.version # 0
        /\ \/ done(m, r) /\ succeed(w) /\ UNCHANGED pending
           \/ ~done(m, r) /\ ~admissible(m, r) /\ fail(w) /\ UNCHANGED pending
           \/ admissible(m, r) /\ propose(w, object.version, resultRecord(m, r))
        /\ remember(w, m)
  /\ UNCHANGED <<object, late, lost, log, risked>>

\* Read, outside any other call.
Read(w) ==
  /\ call[w].at = "idle"
  /\ object.version # 0 /\ ~refused(w, object.body)
  /\ remember(w, object.body)
  /\ UNCHANGED <<object, late, lost, pending, call, log, acked, risked>>

--------------------------------------------------------------------------------
(***************************************************************************)
(* The store, and what a call does with its answer.                        *)
(***************************************************************************)

\* A conditional write succeeds; delayed ones have expected the old version.
commit(p) ==
  /\ object.version = p.expected
  /\ object' = [version |-> object.version + 1, body |-> p.body]
  /\ late' = {}
  /\ log' = Append(log, p.request)

StoreCommits(w) ==
  /\ call[w].put = "sent"
  /\ commit(pending[w])
  /\ call' = [call EXCEPT ![w].put = "committed"]
  /\ UNCHANGED <<lost, known, pending, acked, risked>>

LateWriteArrives(p) ==
  /\ commit(p)
  /\ UNCHANGED <<lost, known, pending, call, acked, risked>>

\* The errors with which CreateIfAbsent or CompareAndSwap can return now.
putErrors(w) ==
  LET p == pending[w]
      op == IF p.expected = 0 THEN "create_if_absent" ELSE "compare_and_swap"
      answers == putAnswers(call[w].put = "committed", object.version = p.expected)
  IN {putError(op, a) : a \in IF call[w].put = "none" THEN {} ELSE answers}

unknownWrite(err) == is(err, "ErrUnknownOutcome")

ambiguousOrConflict(err) == unknownWrite(err) \/ is(err, "ErrConflict")

PutSucceeds(w) ==
  /\ "nil" \in putErrors(w)
  /\ remember(w, pending[w].body)
  /\ clearPending(w)
  /\ succeed(w)
  /\ UNCHANGED <<object, late, lost, log, risked>>

\* An unknown outcome or a conflict: mutate goes round, resolvePending's error
\* ends the call.
afterError(w) ==
  \/ call[w].at = "mutate" /\ again(w)
  \/ call[w].at = "resolve" /\ fail(w)

\* A request without an answer may arrive later, if its condition still holds.
givenUp(w) ==
  /\ lost < MaxLosses
  /\ lost' = lost + 1
  /\ late' = IF call[w].put = "sent" /\ object.version = pending[w].expected
             THEN late \cup {[pending[w] EXCEPT !.ambiguous = FALSE]} ELSE late

PutUnknown(w) ==
  /\ \E err \in putErrors(w) : unknownWrite(err)
  /\ givenUp(w)
  /\ pending' = [pending EXCEPT ![w].ambiguous = TRUE]
  /\ afterError(w)
  /\ UNCHANGED <<object, known, log, risked>>

PutConflicts(w) ==
  /\ \E err \in putErrors(w) : is(err, "ErrConflict")
  /\ afterError(w)
  /\ UNCHANGED <<object, late, lost, known, pending, log, risked>>

\* Any other error; resolvePending leaves the proposal as it is.
PutRefused(w) ==
  /\ \E err \in putErrors(w) \ {"nil"} : ~ambiguousOrConflict(err)
  /\ \/ call[w].at = "mutate" /\ clearPending(w)
     \/ call[w].at = "resolve" /\ UNCHANGED pending
  /\ fail(w)
  /\ UNCHANGED <<object, late, lost, known, log, risked>>

\* The SDK repeats an attempt by itself: the caller sees only the last answer.
AttemptRepeated(w) ==
  /\ call[w].put # "none"
  /\ givenUp(w)
  /\ call' = [call EXCEPT ![w].put = "sent"]
  /\ risked' = risked \cup {pending[w].request}
  /\ UNCHANGED <<object, known, pending, log, acked>>

Next ==
  \/ \E p \in late : LateWriteArrives(p)
  \/ \E w \in Writer :
       \/ \E r \in Request : Ask(w, r)
       \/ Cancel(w)
       \/ GiveUp(w)
       \/ ReadFails(w)
       \/ ResolvePending(w)
       \/ Propose(w)
       \/ Read(w)
       \/ StoreCommits(w)
       \/ PutSucceeds(w)
       \/ PutUnknown(w)
       \/ PutConflicts(w)
       \/ PutRefused(w)
       \/ AttemptRepeated(w)

Spec == Init /\ [][Next]_vars

--------------------------------------------------------------------------------
(***************************************************************************)
(* Properties.                                                             *)
(***************************************************************************)

\* Every variable keeps its type (types manifestRecord, proposal, Writer).
TypeOK ==
  LET Body == Manifest \cup {NoManifest}
      Pending == [request : Request \cup {NoRequest}, expected : Nat, body : Body,
                  ambiguous : BOOLEAN]
  IN
  /\ object \in [version : Nat, body : Body]
  /\ late \subseteq Pending /\ lost \in Nat
  /\ known \in [Writer -> Body]
  /\ pending \in [Writer -> Pending]
  /\ call \in [Writer -> [at : {"idle", "loop", "rebase", "mutate", "resolve"},
                          request : Request \cup {NoRequest}, tries : 0 .. MaxAttempts,
                          put : {"none", "sent", "committed"}]]
  /\ log \in Seq(Request) /\ acked \subseteq Request /\ risked \subseteq Request

\* Every commit respects the fence: the accepted epoch never falls, and a
\* publication takes effect only while its own epoch is the accepted one, however
\* late it arrives (prepareExisting, conditional writes).
Fencing ==
  [][object' # object /\ object.version # 0 =>
       LET r == log'[Len(log')]  old == object.body  new == object'.body IN
       /\ new.uid = old.uid /\ new.revision = old.revision + 1
       /\ r.op = "publish" => r.epoch = old.epoch /\ new.epoch = old.epoch
       /\ r.op = "activate" => new.epoch > old.epoch /\ new.payload = old.payload]_vars

\* Writers never commit a manifest that decode refuses: in the retained history
\* mutation IDs are unique and epochs advance by activation only (validHistory).
HistoryValid == object.version # 0 => validHistory(object.body)

\* Without interference no writer reports that the manifest was replaced, rolled
\* back or deleted (read, ErrResourceChanged, ErrResourceRolledBack,
\* ErrResourceDisappeared).
NoFalseAlarm ==
  \A w \in Writer : known[w].revision # 0 => object.version # 0 /\ ~refused(w, object.body)

\* A publication reported as successful has been applied with its own payload
\* (historyStatus compares digests).
SuccessApplied ==
  \A r \in acked : r.op = "publish" => \E i \in DOMAIN log : log[i] = r

\* A mutation takes effect at most once, even when its answer was lost and the
\* bounded history no longer holds it (resolvePending keeps an ambiguous proposal
\* that it cannot find).  A conflict and a definite error are believed, though, and
\* when the SDK has repeated the attempt they hide an earlier success: then, as for
\* a request that is made again or of two writers, only the history protects it, as
\* long as it lasts.
AppliedOnce ==
  \A i, j \in DOMAIN log :
    i < j /\ log[i] = log[j] => log[i] \in risked /\ j - i > MaxHistory

================================================================================
