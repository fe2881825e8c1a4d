# s3-lease in TLA+

This directory models s3-lease, a library of leases, leader election and mutexes
over one S3 object and its conditional writes. TLC checks the modules on small
instances; TLAPS proves the safety properties of every component for all values of the
constants: the lease core for every number of processes and every admissible
configuration, also under interference with its object, leader election and its abstract
specification, the dispatcher, the mutex and the fenced manifest.

## 1. Inventory

| Component | State | Operations | Interacts through |
|---|---|---|---|
| lease record (`lease/record.go`) | none; JSON body of the object | validate, compare, build the next record | called by the core |
| lease core (`lease/core.go`, `operations.go`) | observation, active lease, frozen proposal, terminal error, two mutexes, a timer | `Require`, `Renew`, `Release`, `Observe`, `Check`, expiry | GET and conditional PUT on the object; timer callback |
| S3 adapter (`lease/s3store`) | none | get, create-if-absent, replace-if-match, classification of errors | AWS SDK, which repeats attempts by itself |
| acquisition loop (`recipes/internal/acquire`) | timers | `Run` | `Require` and `Observe` of a client |
| holder (`recipes/internal/holder`) | select loop, one renewal goroutine, one work goroutine | `Run` | `Renew`, `Release`, the lease's `Done` |
| leader election (`recipes/leaderelection`) | one run: its context, the elected observer's goroutine | `Run` | acquisition loop, holder, dispatcher |
| observer dispatcher (`leaderelection/observer.go`) | last, pending, running, stopped | `Submit`, `deliver`, `Stop` | callback of the application |
| mutex (`recipes/mutex`) | busy, manual, releasing; per `Lock` a renewal goroutine and its published result | `WithLock`, `TryLock`, `Release`, `Lock.Check/Done` | a lease client; cleanup goroutines |
| fenced manifest (`examples/fencedmanifest`) | a pending proposal per writer; history in the object | `Activate`, `Publish`, `Read` | a second object, fenced by the lease's epoch |
| metrics, logging, end-to-end harness | – | – | not modelled |

What is hard, and what makes each part correct:

* **Core.** Requests time out while they may still commit; the SDK retries; reads return
  late; the expiry timer, `Check`, `Observe` and a response compete for `stateMu`;
  processes crash and forget. Correct means: at most one process believes it has
  authority, its belief is backed by the object, epochs only grow, delayed reads cause
  no false alarm, an object that was tampered with ends in a refusal, calls return.
* **Manifest.** A deposed leader's write arrives after its successor's; an answer is
  lost and the bounded history forgets; IDs are reused. Correct means: stale epochs never
  follow newer ones, a reported success was applied, a mutation is not applied twice.
* **Mutex.** `Release`, the renewal goroutine and cleanup goroutines of this and of an
  earlier `Lock` run concurrently, each with its own critical sections. Correct means: an
  old `Lock` neither frees nor blocks a new one, `Release` reaches the client alone, the
  mutex becomes available again, loss is signalled.
* **Observer.** Callbacks run without the lock while submissions and `Stop` go on.
  Correct means: one callback at a time, in order, the newest transition is not lost.
* **Holder and election.** Work, renewal, loss, cancellation, fatal errors of the observer
  and shutdown timeouts in any order; what the core keeps of a failed renewal and what the
  loop believes about it can differ. Correct means: work is admitted once and under a held
  lease, is told to stop before the lease is given up and has returned before `Release`;
  shutdown calls the client alone, and only to resolve or to release; `Run` returns and
  leaves no goroutine and no lease behind.

`PROJECT.json` lists the hazards with the line where each bites.

## 2. Modules

| Module | Role |
|---|---|
| `LeaseRecord` | record, validation, compatibility, successors, counters with their limit |
| `LeaseCore` | all processes, the store and the network; the safety and liveness properties |
| `Leadership` | abstract specification: exclusive grants with increasing epochs |
| `LeaseFaults` | `LeaseCore` with interference: deletion, restoration, corruption, reused version tokens |
| `LeaseInvariant` | the inductive invariant `Safe`; `GrantedInv` for the refinement, `ObservedInv` for what reads cost |
| `LeaseProofs`, `LeaseSafetyProofs`, `LeaseRefinement` | the theorems about the core |
| `FaultProofs` | the theorems about the core under interference |
| `ElectionProofs`, `DispatcherProofs` | the theorems about the election with its holder, and about the dispatcher |
| `MutexProofs`, `ManifestProofs` | the theorems about the mutex and about the manifest |
| `StoreErrors` | answers of S3, the error kinds the adapter makes of them, what `errors.Is` says |
| `FencedManifest` | the writers of the manifest and its object, over `StoreErrors` |
| `LeaseClient` | what `Renew` and `Release` may return to a recipe, and leave behind in the core |
| `Tenure` | abstract specification: tracked work under a lease |
| `Holder` | `holder.Run` over `LeaseClient` |
| `ObserverDispatcher` | the dispatcher of observations |
| `Election` | `Elector.Run`: the acquisition loop, `Holder`, the elected observer and `ObserverDispatcher` composed |
| `ManualMutex` | the mutex and its goroutines over `LeaseClient` |
| `MC*` | constants for TLC |

### LeaseCore and LeaseRecord

State per process: `observed`, `lease`, `pending` and `terminal` are the fields of `core`
under `stateMu`; `pc`, `prop`, `cur` and `put` are the program counter, proposal and
request of the one mutating call that `mutationMu` admits; `get` holds the reads in
flight, one of the mutating call and one of each `Observe` under way (`ObserveCalls`; the proofs
are for any number of them). The store is `object` with a
version token, `issued` tokens and `late`, the writes whose callers have stopped waiting.
`granted` is a history variable: the epoch of the latest confirmed grant.

A step is one critical section of `stateMu`, or one event at the store. The names follow
the source: `Require`, `RequireDecides`, `Renew`, `RenewFreezes`, `Release`,
`PutSucceeds`, `PutUnknown`, `PutConflicts`, `PutRefused`, `ReadbackReturns`,
`ReadbackDecides`, `confirmAcquisition`, `confirmRenewal`, `confirmRelease`. Choices
worth knowing:

* A `Get` fixes what it will return (`found`) when it starts and remembers whether the
  process has installed anything since (`same`, the generation check of `readCurrent`).
  A read that found the object later is one that started later: reads with
  outdated generations are discarded anyway. The time the reader notes lies anywhere
  between the start of the read and its return.
* `Require`'s decision is taken in the step in which its read returns; `Release` retires,
  freezes and sends in one step. Nothing another thread can change lies in between, except
  reads, which act alike before and after.
* Time is one global clock, `now`. Every process measures durations with it; clocks that
  run at different rates are outside the model, and the configuration's margin between
  `RenewDeadline` and `LeaseDuration` is what the code offers against them.
* A PUT stays `sent` until it commits or its caller learns of a rejection, an error or a
  timeout. `abandonWrite` moves a write that can still commit to `late`. `late` keeps only
  records whose expected version is still current: any other can never match again,
  because version tokens are fresh. The one exception, a creation after the object was
  deleted, is in `LeaseFaults`: `LeaseCore` has no deletion.
* The SDK repeats attempts behind the adapter's back (`AttemptRepeated`): the first may
  have committed, or stays on its way in `late`, while the answer the core gets is that of
  the second. So `PutConflicts` is possible for a committed write (`operations.go:522`),
  and so is a definite error.
* Cancelling a caller's context is a choice in every step that waits.
* The adapter turns a successful PUT without a version token into an unknown outcome
  (`PutUnknown`) and a GET without one into an invalid response (`readFails`).

### LeaseFaults

Interference is a step of its own beside those of `LeaseCore`: `Delete`, `Restore` of a record
that some process has observed, `Corrupt` and `ReuseVersion`. `creations` collects the
creations that their callers have given up (`givesUpCreation`): with `If-None-Match: *`
such a write fails while there is an object and can succeed again after `Delete`, so they become
`late` writes then. A creation that has arrived stays in the set, since the SDK may have
sent it more than once; with one lost request that is more than can happen, never less. `seen` is a
history variable: the highest epoch a process has observed.

### FencedManifest

`pending`, the attempt counter and the request in progress per writer; the object with
epoch, revision, payload and bounded history. Read and decision of a writer are one step:
a writer is sequential (`mu`), the read is linearizable, and what it decides depends on
nothing else. A history entry is the request itself, which its digest stands for, so an
equal ID with a different request is told apart as in `historyStatus`. Writers have their
own `uid`; size limits and JSON are left out, deletion is not modelled here. A PUT gets any
answer that `StoreErrors` allows for what became of it, and its error follows from
`classifyError` and `StoreError.Is`. `AttemptRepeated` is a repeated attempt of the SDK;
`risked` collects the requests of which an attempt was applied or may still be while the
writer was told of a definite rejection, and those that are asked for again after a success
or of more than one writer. Any leader may publish at any time, in any order of
epochs, so no assumption about the lease is built in.

### LeaseClient

The lease as a recipe sees it: held or not, with a renewal whose outcome is open, and
extended or not since shutdown read its deadline. An open renewal is `reported` if the
caller was told `ErrUnknownOutcome`, and `silent` if it got another error: a first renewal
that is answered 412 and cannot be read back stays pending in the core, and its caller is
told of the failed read (`operations.go:514`). `afterRenew` gives for every error the
states in which the core may be left; a reconciliation that ends with `ErrUnavailable` drops
the renewal only if its caller's context has ended (`operations.go:485, 497`).

### Holder, Tenure and Election

A step of `Holder` is a case of a select, a call of the client or an event outside. `run`
holds the place in `Run` and its local variables, `renewal` the goroutine of one `Renew`
with its result, `past` whether the deadline that shutdown has read is over. `Cleanup`,
`Reconcile` and `Release` follow `shutdown` with its three attempts of `Release`.
`Policy.ReleaseOnCancel` is chosen at the start; `ReleaseOnWorkReturn` is set by both
recipes.

`Election` extends `Holder` by `acquire.Run` (`acq`), `Elector.Run` (`life`), the goroutine
of `startElectedObserver` (`observer`) and an instance of `ObserverDispatcher`. `cancelRun` and
`dispatcher.Stop` are always called together, so `runCtx` has ended when the caller has
cancelled or the dispatcher has stopped. `holder.Run` calls `OnStopped` when it stops the
work, and that is where both are called (`onStopped`). Timers may fire at any time.

`Tenure` says what all this machinery promises about the work and its lease, in four
variables. `LeadsOnce` is the refinement: `Election` implements `Tenure` with the place of
`Run` mapped to a phase, and the first call of `Release` to the release being asked for.

### ManualMutex

`busy`, `manual`, `releasing` are the fields under `Mutex.mu`; `lock` those under
`Lock.mu`; `loop` the goroutine `maintain`, whose select is split into noticing that it must
stop and renewing; `rel` the calls of `Release`; `cleanup` the goroutines waiting for a lease
to end. The lease client is `LeaseClient`. `abandonManual` and `finishRelease`, two critical
sections each, are one step. `WithLock` is reduced to entering, working and `finish`; what
`holder.Run` does in between is `Holder`.

### ObserverDispatcher

Accepted observations are numbered; `pending` and each `deliver` goroutine hold a number.
Goroutines are a set, so nothing in the model forbids two of them. `last` and `seen` are the
end of `accepted`.

## 3. Runs

| Run | Shows | Instance |
|---|---|---|
| `core_safety` | exclusive, backed authority; takeover waits; one history; refinement of `Leadership` | 2 processes under one identity, lease 2 and 3, renew 1 and 2, time to 2, counters to 2, 1 loss or crash |
| `core_observe` | no false alarm; reads do not cost the lease | 2 processes, one with 2 `Observe` calls beside its mutating call, 1 loss or crash, time stands still |
| `core_live` | calls return; unresolved proposals stop blocking | time to 1, 1 loss |
| `core_forgets` | *violation*, finding 2 | time to 1 |
| `faults_closed` | violations fail closed, nobody starts over or goes over to an object of another identity | 1 process and its restarts, 1 `Observe` beside its mutating call, 1 interference at any point, 2 losses or crashes, time to 1 |
| `faults_rollback` | *violation*, finding 1 | 2 processes, 1 interference |
| `manifest` | fencing, valid histories, truthful successes; a mutation applied twice only where the history was outrun | 2 writers, 6 requests, history of 2, 5 revisions, 1 lost answer or repeated attempt |
| `mutex_manual` | no interference between successive Locks; Release alone at the client; the mutex becomes free, loss closes `Done` | 2 callers, 2 acquisitions |
| `mutex_nil` | *violation*, finding 3 | 2 callers, 2 acquisitions |
| `observer_serial` | serial, ordered delivery; newest not lost; Stop discards | 6 transitions |
| `election` | refinement of `Tenure`; shutdown alone at the client and only to resolve or release; `Run` ends, nothing is left | 1 run of an elector, 1 transition observed, any number of renewals and of rounds of acquisition |
| `holder_unresolved` | *violation*, finding 4 | 1 run of the holder |

**Bounds.** In `core_safety` time passes the duration of the shorter lease, so a takeover
from a silent holder happens, with a late write of the deposed holder still on its way,
while the longer lease must not be taken over yet by the process with the shorter one, and
can be renewed at the last moment, with the answer arriving after it has expired. The two
share an identity, because the code must not rely on identities; counters reach their
limit, so `canAdvance` is exercised. Where time is bounded by 1
(`core_live`) no takeover fits, but release and acquisition by the other process do, and with
`RenewDeadline` 1 leases expire. What `faults_closed` checks is about one
process: what others write reaches it as a replaced object, and what it remembers must
survive its own lost writes. It restarts with a creation of its earlier self on its way, whose
uid, of another instant, differs from that of its next creation. Two processes with losses and
`Observe` take TLC too long; the theorems of `FaultProofs` are for any number.
`faults_rollback` has two processes and stops time at 0: successors arise by release. In
`core_safety` nobody calls `Observe`: there an observation is replaced under a call only by
the call's own reads. `core_observe` has it replaced by an `Observe`, for properties of its
own, and the theorems cover every combination. In `core_observe` the order of
reads and writes matters and time does not: two `Observe` calls and the reads of the mutating
call overtake each other, and a renewal that was forgotten and read later, the exception in
`ReadsKeepAuthority`, needs one loss and no time. Two acquisitions in the mutex runs are a `Lock`
and its successor; more of them add no new pair. In `manifest` five revisions with a
history of two let a mutation be forgotten before it is asked for again, which is the case
that `AppliedOnce` has to allow for, and the second writer repeats requests of the first, one
with an ID that was used before. `election` needs no bound except on observed transitions: the
order in which the dispatcher delivers them is the subject of `observer_serial`, and what matters
here is that a delivery may be under way when `Run` ends.

**Deadlock** is checked except in `LeaseFaults` (all processes may have failed closed),
`ManualMutex` (work that does not stop makes the mutex permanently busy, by design),
`ObserverDispatcher` (it ends after `Stop`), `Holder` and `Election` (`Run` returns).

**Fairness.** `FairCalls`: a call in progress takes its next step, since every request has
a timeout (`requestContext`). `FairRetry`: time passes and a process keeps calling
`Require`, as `acquire.Run` does. Nothing is assumed of the outcome of a request. In the
mutex, goroutines run, each `Release` ends because its context or the loop does, and a
lease that nobody renews runs out. In the dispatcher the goroutine runs and callbacks
return, which only the application can guarantee. In the election, goroutines run and calls of
the client return; the work need not return, because `ShutdownTimeout` bounds the wait for
it (`Join`). Where a Go select has several ready cases it chooses at random, so a case that
is ready again and again is taken: strong fairness of leaving `AcquireSelects` and
`ObserverSelects`, whose other cases are timers, and weak fairness of `SelectWork` and
`SelectStop`, which stay ready. Nobody has to cancel, and the lease need not be granted.

Every property of a passing run has a mutant in `PROJECT.json`: a plausible change of the
code under which TLC finds it violated. The mutated forms stand before the definitions they
replace, under the comment "Mutation of".

## 4. Proofs

Assumptions: `ConfigAssumption` (what `validateConfig` accepts: positive intervals,
`RenewDeadline < LeaseDuration`), `CounterAssumption` (counters have a limit of at least
1), `CallAssumption` (the names of `Observe` calls are not that of the mutating call), and for
the other components that bounds are numbers, that the mutex can be acquired
at least once (`LocksAssumption`), and what a request to the manifest is
(`RequestAssumption`, `LimitAssumption`). `Client`, `ObserveCalls`, `Caller`, `Writer`, the requests and the
bounds on time, losses, interference and counters are arbitrary.

* `LeaseProofs!TypeCorrect`: `Spec => []TypeOK`.
* `LeaseSafetyProofs!Invariance`: `Spec => []Safe`. From it `Exclusion`
  (`AtMostOneAuthority`), `Backing` (`AuthorityBacked`), `NoFalseAlarm`
  (`NoFalseViolation`), `Waiting` (`TakeoverWaits`), `History` (`HistoryAdvances`) and
  `ReadsCostNothing` (`ReadsKeepAuthority`).
* `LeaseRefinement!Refinement`: `Spec => KeepsPromise`, that is, `LeaseCore` implements
  `Leadership`.

Why `Safe` is needed: that no two processes have authority says nothing of the writes that
are still on their way. `Safe` adds, beside types,

* `StoreInv`: the shape of the object;
* `LateInv`: every delayed write is harmless: either the next record of a confirmed grant,
  or a new grant that has waited for the advertised duration;
* `EpochInv`, `GrantInv`, `AuthorityInv`: one grant per epoch, at most one being confirmed,
  and who has authority is the owner recorded in the object, with a deadline before the
  earliest takeover;
* `Local(c)` for each process: `CallOK` (program counter, proposal and request fit),
  `SnapshotOK` and `ReadOK` (what it has read was once the object's content), `SinceOK` (a
  record was not first seen before it was written), `ProposalOK` (what it proposes, if it
  can still match, is harmless).

Exclusion follows: two processes with authority would both be the recorded owner, in the
object's current epoch, and an epoch is granted once. The proof has a lemma per action;
most actions change one process and leave the store alone, and are covered by
`QuietStep`. Commits (`CommitSafe`) and confirmations (`ConfirmSafe`) carry the argument.
For the refinement, `GrantedInv` says that a grant whose answer is still on its way has an
epoch not announced before.

`Safe` also covers attempts repeated by the SDK: `ProposalOK` speaks of every request that
was sent, answered or not.

`ReadsKeepAuthority` needs one more fact, `ObservedInv`: a process that holds a lease has
observed its record or a newer one, its renewals carry its own identity, and while a release is
proposed or unresolved nothing is held. A read that is installed then lies between what the
process holds and the object, which is at most one renewal ahead, so whatever ends the lease is the
next record of that lease.

**Faults.** Under interference `Safe` does not hold. `FaultProofs` proves
`TerminalFailsClosed` (`FailsClosed`) and `NeverReinitialises` (`NeverStartsOver`) from types
and from `Closed`, which speaks of one process only: a terminal process holds nothing, what it has
frozen of a grant expects a version it has seen, and the history variable `seen` is set only
while there is an observation. `NeverReinitialises` is about proposals: an attempt of the first
creation may still arrive after the object was seen and deleted, and then the store holds a
record of epoch 1 again. What that cannot do is `FollowsOneObject` (`NeverAdoptsAnother`): no process
takes it for the object it knows. Its invariant `Follows` says that what a process proposes of a
grant has the uid it observes, and that an answer under way names a version; a read
installs only what is compatible, and an acquisition is confirmed only over its own uid.

**Election.** `ElectionProofs!TenureRefinement`: `ElectionSpec => LeadsOnce`, for every set of
owners an elector may observe and any number of transitions. The invariant `Tracks` ties
together where `Elector.Run` and `holder.Run` are and what has become of the work and the lease:
nothing is held while acquiring, the work has ended from `draining` on, `Release` is
counted only for work that has ended. Every step then is a step of `Tenure` or none; the steps of
shutdown share the lemmas `StopStep`, `LocalStep` and `ReturnStep`. `ShutdownAlone`,
`ShutdownReconciles` and `ShutdownReleases` prove `ReleaseAlone`, `ReconcilesOnly` and
`ReleaseAccepted`, which are not inductive: they hold in the last two steps of a shutdown
because of what `Run` has known since its first renewal. `Knows` says what that is: between
two renewals `renewalPending` is true exactly if the core keeps a renewal of whose unknown outcome
`Run` was told, during a renewal `resolving` is, and a result tells what it has left
behind; it holds as long as a release can still follow.
`ElectionTypes` and `ElectorDelivers` compose: every step of an election is a step of its
dispatcher or leaves it alone, so `ElectionSpec` implies the dispatcher's specification, and
what `DispatcherProofs` proves of that holds for the dispatcher of an elector.

**Dispatcher.** `DispatcherProofs`: `DispatcherTypes`, `Serial` and `StopIsEffective` prove
`TypeOK`, `SerialDelivery` and `StopDiscards` from `AcceptedAssumption`. The invariant adds that
there is one goroutine exactly while `running` is set (`OneDeliverer`), that its snapshot is
older than the one that waits and not older than what the callback has had (`HandsOn`), and
that after `Stop` nothing waits (`Discarded`).

**Mutex.** `MutexProofs!MutexInvariant` proves the invariant `MutexInv` for any number of
acquisitions and of callers of `Release`; from it follow the six invariants of the run
(`OpenLockKeepsMutex`, `RefusalAccounted`, `ReleaseCallsAlone`, `ReleaseNotRefused`,
`HeldLeaseKeepsBusy`, `MutexTypeCorrect`). Beside types it says

* `Latest`, `Occupied`, `HeldBy`: only the latest acquisition can have a lease, the mutex belongs
  to it or to a call inside `WithLock`, and a held lease belongs to whoever has the mutex,
  or to a `Lock` given up at its first deadline;
* `OneRelease`, `Accounted`: one `Release` per `Lock`, and `releasing` is set only while somebody
  is left who resets it;
* `Results`, `LoopKnows`, `ReleaseKnows`: the chain along which knowledge of an open renewal
  travels, from the client to the loop, to its result, to `Lock.result`, to `Release`. The two
  properties about `Release` and the client are its last link, and not inductive without the others.

**Manifest.** `ManifestProofs!ManifestInvariant` proves `ManifestInv` for any writers, requests and
length of the history; from it follow `HistoryValid`, `NoFalseAlarm`, `SuccessApplied`, `AppliedOnce`
(`CommittedHistoryValid`, `ReadersNotAlarmed`, `PublishMeansApplied`, `MutationsAppliedOnce`),
types, and the action property `Fencing` (`CommitsFenced`). Its parts:

* `ObjectOfLog`, `LogOrdered`: the object is determined by the log of commits, its history is the
  log's last entries, epochs grow by activation only and an ID does not recur within the reach of
  the history;
* `ProposalsSound`: a proposal, pending or late, whose version is current was made from the current
  manifest. That is what fences a deposed leader, and with `past` and `PastsKnown` what keeps
  readers from alarms;
* `CallsTracked`, `AllSettled`, `CallsApart`: a request that was applied or may still be is
  reported, risked, or kept as an ambiguous proposal by its writer, and no second call of it
  is running. `AppliedOnce` rests on that: who proposes again has either found nothing in a log
  that still reaches back, or is risked.

Only model-checked: liveness and fairness (`CallReturns`, `PendingEnds`, `FreeAgain`,
`LossNoticed`, `NewestDelivered`, `EndsRun`, `NothingLeft`), which are out of the prover's reach.
Every other property of a passing run is proved.

## 5. Findings

1. `operations.go:594`: `confirmRelease` installs the release record even when a concurrent
   `Observe` has seen its successor. The newer epoch is forgotten, and a rollback of the
   object below it goes unreported. (`faults_rollback`)
2. `operations.go:485, 497`: an unresolved renewal is dropped when a later attempt ends
   with a definite error or a cancelled context. The attempts may be those of two calls, the
   second a reconciliation, or, as in TLC's trace, of one first send that the SDK repeats
   (line 497). The design says that it blocks every
   different proposal. Safety is not affected: `Safe` covers such writes. A process can
   lose its lease to its own forgotten renewal, which is the exception in
   `ReadsKeepAuthority`. (`core_forgets`)
3. `manual.go:107`: `Release` can return nil although nothing was released. (`mutex_nil`)
4. `holder.go:150`: after a first renewal that met a conflict and could not be read back,
   `Run` takes the renewal for one that never happened, while the core keeps it. A shutdown
   then calls `Release` without reconciling, the core refuses it, and the lease stays until
   it runs out. The manual mutex does the same (`manual.go:233`), which is why
   `ReleaseAccepted` speaks of reported renewals only. (`holder_unresolved`)

`Release` of a manual lock can free the mutex at the deadline it read first although a renewal
has extended the lease meanwhile (`manual.go:112`). A test of the repository,
`TestManualReleaseSnapshotsDeadlineBeforeStoppingRenewal`, asks for that, so it is an exception in
`AuthorityKeepsBusy` and no finding.

Two weaknesses of the manifest: a 412 or a definite error that hides a success
(`manifest.go:250`) lets a mutation be applied twice if more commits than the history holds
come in between, which is exactly the exception `AppliedOnce` makes (`risked`): the property
bounds this hazard, by the length of the history, and does not exclude it, and nothing in the
repository promises more than the bounded history; and a proposal left
pending without being ambiguous (`manifest.go:199`) turns every other request down until the
first is repeated, which is a hazard without a property.

## 6. Not modelled

JSON encoding, logging, metrics, random UUIDs (the creator and the instant stand for one, so
two creations of one process in one instant are alike), validation of
configurations and of nil arguments, the jitter of timers (`schedule.go`; a timer may fire at
any time), an elector without `OnLeaderObserved` (which has neither observer nor dispatcher),
and the end-to-end harness: test tooling whose injected faults are behaviours of the store in
`LeaseCore`.

## 7. Plan

The safety properties are proved. What could be added is a proof that `ManualMutex` and
`FencedManifest` implement abstract specifications of their own, as the core implements
`Leadership` and the election `Tenure`: a lock that is held by one acquisition at a time, and a
register that only grows in epoch and revision.
