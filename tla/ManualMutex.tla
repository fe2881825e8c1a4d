------------------------------ MODULE ManualMutex ------------------------------
(***************************************************************************)
(* The reusable mutex of recipes/mutex: TryLock and Release with the       *)
(* renewal goroutine of each Lock (manual.go), beside WithLock (mutex.go), *)
(* reduced to entering, working and finishing.  A step is one critical     *)
(* section of Mutex.mu or Lock.mu, or one return of the lease client.      *)
(*                                                                         *)
(* The lease client is that of LeaseClient, one state per acquisition.     *)
(***************************************************************************)
EXTENDS Naturals, FiniteSets, LeaseClient

CONSTANTS
  Caller,   \* goroutines that call Mutex.Release, on any Lock they have seen
  MaxLocks  \* bound: acquisitions, manual or scoped

ASSUME LocksAssumption == MaxLocks \in Nat \ {0}

VARIABLES
  busy,       \* Mutex.busy
  manual,     \* Mutex.manual; 0 is nil
  releasing,  \* Mutex.releasing
  entry,      \* the TryLock or WithLock call that has entered the mutex
  acquired,   \* how many leases have been acquired; the last is the latest
  lease,      \* of each acquisition: what the client knows of it
  lock,       \* the Lock of each acquisition
  loop,       \* the goroutine of each Lock: maintain and its renewLoop
  rel,        \* the calls of Mutex.Release
  cleanup,    \* goroutines that wait for a lease to end: abandonManual, finish
  released    \* history: the acquisitions whose Release returned nil

vars == <<busy, manual, releasing, entry, acquired, lease, lock, loop, rel, cleanup,
          released>>

K == 1 .. MaxLocks
Err == {"nil", "lost", "error"}
\* manualRenewalResult
Result == [pending : BOOLEAN, suppressRelease : BOOLEAN, err : Err]
LockState == [cancelled : BOOLEAN, stopped : BOOLEAN, result : Result,
              terminal : Err, closed : BOOLEAN]
LoopState == [at : {"none", "select", "renewing", "returned", "stopped", "done"},
              pending : BOOLEAN, result : Result]
RelState == [at : {"idle", "stop", "wait", "cleanup", "reconcile", "release"},
             k : 0 .. MaxLocks, result : Result]

NoResult == [pending |-> FALSE, suppressRelease |-> FALSE, err |-> "nil"]
NewLock == [cancelled |-> FALSE, stopped |-> FALSE, result |-> NoResult,
            terminal |-> "nil", closed |-> FALSE]
NoLoop == [at |-> "none", pending |-> FALSE, result |-> NoResult]
NoRel == [at |-> "idle", k |-> 0, result |-> NoResult]

Init ==
  /\ busy = FALSE /\ manual = 0 /\ releasing = FALSE
  /\ entry = "none" /\ acquired = 0
  /\ lease = [k \in K |-> NoLease]
  /\ lock = [k \in K |-> NewLock]
  /\ loop = [k \in K |-> NoLoop]
  /\ rel = [c \in Caller |-> NoRel]
  /\ cleanup = {} /\ released = {}

mutexVars == <<busy, manual, releasing>>

--------------------------------------------------------------------------------
(***************************************************************************)
(* Mutex.mu and Lock.mu.                                                   *)
(***************************************************************************)

clearBusy == busy' = FALSE /\ manual' = 0 /\ releasing' = FALSE

\* Mutation of clearManual: a lock clears the mutex whoever holds it.
clearManual_any(k) == clearBusy

clearManual(k) ==
  \/ manual = k /\ clearBusy
  \/ manual # k /\ UNCHANGED mutexVars

retire(k, err) ==
  lock' = [lock EXCEPT ![k].terminal = IF @ = "nil" THEN err ELSE @, ![k].closed = TRUE]

\* Mutation of abandonManual: nobody waits for the lease to end.
abandonManual_forgets(k, err) ==
  /\ retire(k, err)
  /\ releasing' = (releasing \/ manual = k)
  /\ UNCHANGED <<busy, manual, cleanup>>

\* Mutation of abandonManual: it blocks the mutex whoever holds it.
abandonManual_any(k, err) ==
  /\ retire(k, err)
  /\ releasing' = TRUE
  /\ cleanup' = cleanup \cup {k}
  /\ UNCHANGED <<busy, manual>>

\* The mutex stays unavailable until the lease has ended.
abandonManual(k, err) ==
  /\ retire(k, err)
  /\ releasing' = (releasing \/ manual = k)
  /\ cleanup' = cleanup \cup {k}
  /\ UNCHANGED <<busy, manual>>

finishRelease(k, err) == retire(k, err) /\ clearManual(k) /\ UNCHANGED cleanup

--------------------------------------------------------------------------------
(***************************************************************************)
(* The lease client, as far as one acquisition can tell.                   *)
(***************************************************************************)

\* A lease ends by its timer, a read of Observe, or a violation.
LeaseEnds(k) ==
  /\ lease[k].held
  /\ lease' = [lease EXCEPT ![k] = NoLease]
  /\ UNCHANGED <<mutexVars, entry, acquired, lock, loop, rel, cleanup, released>>

\* Renew returns o to a caller whose context has ended, or not.
renewReturns(k, o, done) ==
  \E l \in afterRenew(lease[k], o, done) : lease' = [lease EXCEPT ![k] = l]

--------------------------------------------------------------------------------
(***************************************************************************)
(* Entering the mutex.                                                     *)
(***************************************************************************)

Enter(how) ==
  /\ ~busy
  /\ busy' = TRUE
  /\ entry' = how
  /\ UNCHANGED <<manual, releasing, acquired, lease, lock, loop, rel, cleanup, released>>

\* Require fails, or the lease is gone by the time it is checked.
AcquireFails ==
  /\ entry \in {"try", "with"}
  /\ clearBusy
  /\ entry' = "none"
  /\ UNCHANGED <<acquired, lease, lock, loop, rel, cleanup, released>>

\* The client has at most one lease (ErrAlreadyHeld).
canAcquire == acquired < MaxLocks /\ \A k \in K : ~lease[k].held

TryLockReturns ==
  /\ entry = "try" /\ canAcquire
  /\ entry' = "none"
  /\ acquired' = acquired + 1
  /\ lease' = [lease EXCEPT ![acquired + 1] = NewLease]
  /\ manual' = acquired + 1
  /\ loop' = [loop EXCEPT ![acquired + 1].at = "select"]
  /\ UNCHANGED <<busy, releasing, lock, rel, cleanup, released>>

\* Mutation of WithLockStarts: a scoped acquisition is stored as a manual one.
WithLockStarts_manual ==
  /\ entry = "with" /\ canAcquire
  /\ entry' = "working"
  /\ acquired' = acquired + 1
  /\ lease' = [lease EXCEPT ![acquired + 1] = NewLease]
  /\ manual' = acquired + 1
  /\ UNCHANGED <<busy, releasing, lock, loop, rel, cleanup, released>>

WithLockStarts ==
  /\ entry = "with" /\ canAcquire
  /\ entry' = "working"
  /\ acquired' = acquired + 1
  /\ lease' = [lease EXCEPT ![acquired + 1] = NewLease]
  /\ UNCHANGED <<mutexVars, lock, loop, rel, cleanup, released>>

\* finish, after holder.Run has returned: without a release the mutex waits
\* for the lease to end, and work that did not stop keeps it for ever.
WithLockFinishes ==
  /\ entry = "working"
  /\ \/ /\ lease[acquired].held
        /\ cleanup' = cleanup \cup {acquired}
        /\ entry' = "waiting"
        /\ UNCHANGED mutexVars
     \/ /\ ~lease[acquired].held
        /\ clearBusy
        /\ entry' = "none"
        /\ UNCHANGED cleanup
     \/ entry' = "stuck" /\ UNCHANGED <<mutexVars, cleanup>>
  /\ UNCHANGED <<acquired, lease, lock, loop, rel, released>>

\* Mutation of CleanupEnds: nobody waits for the lease.
CleanupEnds_atOnce(k) ==
  /\ k \in cleanup
  /\ cleanup' = cleanup \ {k}
  /\ \/ loop[k].at # "none" /\ clearManual(k) /\ UNCHANGED entry
     \/ loop[k].at = "none" /\ clearBusy /\ entry' = "none"
  /\ UNCHANGED <<acquired, lease, lock, loop, rel, released>>

\* The goroutines of abandonManual and of finish: the lease has ended.
CleanupEnds(k) ==
  /\ k \in cleanup /\ ~lease[k].held
  /\ cleanup' = cleanup \ {k}
  /\ \/ loop[k].at # "none" /\ clearManual(k) /\ UNCHANGED entry
     \/ loop[k].at = "none" /\ clearBusy /\ entry' = "none"
  /\ UNCHANGED <<acquired, lease, lock, loop, rel, released>>

--------------------------------------------------------------------------------
(***************************************************************************)
(* The goroutine of a Lock.                                                *)
(***************************************************************************)

loopReturns(k, result) ==
  loop' = [loop EXCEPT ![k].at = "returned", ![k].result = result]

goRound(k, pending) ==
  loop' = [loop EXCEPT ![k].at = "select", ![k].pending = pending]

LostResult == [NoResult EXCEPT !.err = "lost"]
SuppressedResult == [NoResult EXCEPT !.suppressRelease = TRUE, !.err = "error"]

\* The select of renewLoop: cancelled or the lease has ended, or the timer.
LoopNotices(k) ==
  /\ loop[k].at = "select"
  /\ \/ lock[k].cancelled /\ loopReturns(k, [NoResult EXCEPT !.pending = loop[k].pending])
     \/ ~lease[k].held /\ loopReturns(k, LostResult)
  /\ UNCHANGED <<mutexVars, entry, acquired, lease, lock, rel, cleanup, released>>

LoopRenews(k) ==
  /\ loop[k].at = "select"
  /\ loop' = [loop EXCEPT ![k].at = "renewing"]
  /\ UNCHANGED <<mutexVars, entry, acquired, lease, lock, rel, cleanup, released>>

\* Mutation of stoppedRenewalState: an unknown outcome counts as settled.
stoppedRenewalState_forgets(k, o) ==
  IF o = "loss" THEN LostResult
  ELSE IF o # "ok" /\ loop[k].pending THEN SuppressedResult
  ELSE NoResult

\* stoppedManualRenewalState: Renew returns o to a loop that was cancelled.
stoppedRenewalState(k, o) ==
  IF o = "unknown" THEN [NoResult EXCEPT !.pending = TRUE]
  ELSE IF o = "loss" THEN LostResult
  ELSE IF o # "ok" /\ loop[k].pending THEN SuppressedResult
  ELSE NoResult

\* loop[k].pending is resolving while Renew runs.
LoopRenewed(k) ==
  /\ loop[k].at = "renewing"
  /\ \E o \in Outcome :
       /\ renewReturns(k, o, lock[k].cancelled)
       /\ \/ lock[k].cancelled /\ loopReturns(k, stoppedRenewalState(k, o))
          \/ /\ ~lock[k].cancelled
             /\ \/ o = "ok" /\ goRound(k, FALSE)
                \/ o = "unknown" /\ goRound(k, TRUE)
                \/ o = "loss" /\ loopReturns(k, LostResult)
                \/ /\ o \in {"unavailable", "other"} /\ loop[k].pending
                   /\ loopReturns(k, SuppressedResult)
                \/ o = "unavailable" /\ ~loop[k].pending /\ goRound(k, FALSE)
                \/ /\ o = "other" /\ ~loop[k].pending
                   /\ loopReturns(k, [NoResult EXCEPT !.err = "error"])
  /\ UNCHANGED <<mutexVars, entry, acquired, lock, rel, cleanup, released>>

\* maintain publishes the result under Lock.mu.
LoopStops(k) ==
  /\ loop[k].at = "returned"
  /\ loop' = [loop EXCEPT ![k].at = "stopped"]
  /\ lock' = [lock EXCEPT ![k].stopped = TRUE, ![k].result = loop[k].result]
  /\ UNCHANGED <<mutexVars, entry, acquired, lease, rel, cleanup, released>>

\* Mutation of LoopEnds: after a loss the mutex is cleared and Done stays open.
LoopEnds_noRetire(k) ==
  /\ loop[k].at = "stopped"
  /\ \/ loop[k].result.err = "nil" /\ UNCHANGED <<mutexVars, lock, cleanup>>
     \/ loop[k].result.err = "lost" /\ clearManual(k) /\ UNCHANGED <<lock, cleanup>>
     \/ loop[k].result.err = "error" /\ abandonManual(k, "error")
  /\ loop' = [loop EXCEPT ![k].at = "done"]
  /\ UNCHANGED <<entry, acquired, lease, rel, released>>

\* Then it clears or abandons the mutex and posts the result to renewDone.
LoopEnds(k) ==
  /\ loop[k].at = "stopped"
  /\ \/ loop[k].result.err = "nil" /\ UNCHANGED <<mutexVars, lock, cleanup>>
     \/ loop[k].result.err = "lost" /\ finishRelease(k, "lost")
     \/ loop[k].result.err = "error" /\ abandonManual(k, "error")
  /\ loop' = [loop EXCEPT ![k].at = "done"]
  /\ UNCHANGED <<entry, acquired, lease, rel, released>>

--------------------------------------------------------------------------------
(***************************************************************************)
(* Mutex.Release.                                                          *)
(***************************************************************************)

\* Release of k returns err.
relReturns(c, err) ==
  /\ rel' = [rel EXCEPT ![c] = NoRel]
  /\ released' = IF err = "nil" THEN released \cup {rel[c].k} ELSE released

relAt(c, at) == rel' = [rel EXCEPT ![c].at = at] /\ UNCHANGED released

\* beginRelease, and the deadline Release will respect.
BeginRelease(c, k) ==
  /\ rel[c].at = "idle" /\ loop[k].at # "none"
  /\ busy /\ manual = k /\ ~releasing
  /\ releasing' = TRUE
  /\ lease' = [lease EXCEPT ![k].extended = FALSE]
  /\ rel' = [rel EXCEPT ![c] = [NoRel EXCEPT !.at = "stop", !.k = k]]
  /\ UNCHANGED <<busy, manual, entry, acquired, lock, loop, cleanup, released>>

\* Mutation of StopRenewal: Release does not wait for the loop to end.
StopRenewal_noWait(c) ==
  LET k == rel[c].k IN
  /\ rel[c].at = "stop"
  /\ lock' = [lock EXCEPT ![k].cancelled = TRUE]
  /\ relAt(c, "cleanup")
  /\ UNCHANGED <<mutexVars, entry, acquired, lease, loop, cleanup>>

\* stopRenewal reads what maintain has published, or cancels the loop.
StopRenewal(c) ==
  LET k == rel[c].k IN
  /\ rel[c].at = "stop"
  /\ \/ /\ lock[k].stopped
        /\ rel' = [rel EXCEPT ![c].at = "cleanup",
                              ![c].result = [lock[k].result EXCEPT !.err = lock[k].terminal]]
        /\ UNCHANGED <<lock, released>>
     \/ /\ ~lock[k].stopped
        /\ lock' = [lock EXCEPT ![k].cancelled = TRUE]
        /\ relAt(c, "wait")
  /\ UNCHANGED <<mutexVars, entry, acquired, lease, loop, cleanup>>

\* The result arrives on renewDone, or the caller's context ends first.
AwaitRenewal(c) ==
  LET k == rel[c].k IN
  /\ rel[c].at = "wait"
  /\ \/ /\ loop[k].at = "done"
        /\ rel' = [rel EXCEPT ![c].at = "cleanup", ![c].result = loop[k].result]
        /\ UNCHANGED <<mutexVars, lock, cleanup, released>>
     \/ abandonManual(k, "error") /\ relReturns(c, "error")
  /\ UNCHANGED <<entry, acquired, lease, loop>>

\* The deadline read at the beginning has passed.
pastDeadline(k) == ~lease[k].held \/ lease[k].extended

\* Release after its loop has stopped: suppressed, too late, or on to the client.
Cleanup(c) ==
  LET k == rel[c].k  result == rel[c].result IN
  /\ rel[c].at = "cleanup"
  /\ \/ /\ result.suppressRelease
        /\ relReturns(c, result.err)
        /\ UNCHANGED <<mutexVars, lock, cleanup>>
     \/ /\ ~result.suppressRelease /\ pastDeadline(k)
        /\ finishRelease(k, "lost")
        /\ relReturns(c, "lost")
     \/ /\ ~result.suppressRelease
        /\ relAt(c, IF result.pending THEN "reconcile" ELSE "release")
        /\ UNCHANGED <<mutexVars, lock, cleanup>>
  /\ UNCHANGED <<entry, acquired, lease, loop>>

\* Renew resolves the pending renewal.
Reconcile(c) ==
  LET k == rel[c].k IN
  /\ rel[c].at = "reconcile"
  /\ \E o \in Outcome :
       /\ renewReturns(k, o, TRUE)
       /\ \/ /\ o = "ok"
             /\ rel' = [rel EXCEPT ![c].at = "release", ![c].result = NoResult]
             /\ UNCHANGED <<mutexVars, lock, cleanup, released>>
          \/ /\ o # "ok"
             /\ abandonManual(k, "error")
             /\ relReturns(c, "error")
  /\ UNCHANGED <<entry, acquired, loop>>

\* Check and the client's Release: if that refuses, the lease stays; otherwise
\* err is that of the client's conditional write.
ClientRelease(c) ==
  LET k == rel[c].k  l == afterRelease(lease[k]) IN
  /\ rel[c].at = "release"
  /\ \/ /\ ~lease[k].held
        /\ finishRelease(k, "lost")
        /\ relReturns(c, "lost")
        /\ UNCHANGED lease
     \/ /\ lease[k].held
        /\ lease' = [lease EXCEPT ![k] = l]
        /\ \/ l.held /\ abandonManual(k, "error") /\ relReturns(c, "error")
           \/ /\ ~l.held
              /\ finishRelease(k, "error")
              /\ \E err \in {rel[c].result.err, "error"} : relReturns(c, err)
  /\ UNCHANGED <<entry, acquired, loop>>

--------------------------------------------------------------------------------
RelStep(c) ==
  StopRenewal(c) \/ AwaitRenewal(c) \/ Cleanup(c) \/ Reconcile(c) \/ ClientRelease(c)

LoopStep(k) ==
  LoopNotices(k) \/ LoopRenews(k) \/ LoopRenewed(k) \/ LoopStops(k) \/ LoopEnds(k)

Next ==
  \/ Enter("try") \/ Enter("with")
  \/ AcquireFails \/ TryLockReturns
  \/ WithLockStarts \/ WithLockFinishes
  \/ \E k \in K : LeaseEnds(k) \/ CleanupEnds(k) \/ LoopStep(k)
  \/ \E c \in Caller : RelStep(c) \/ \E k \in K : BeginRelease(c, k)

Spec == Init /\ [][Next]_vars

\* A lease that nobody renews any more runs out.
RunsOut(k) == loop[k].at \in {"none", "done"} /\ LeaseEnds(k)

\* A select that goes round does not pass over a ready case for ever.
LiveSpec ==
  /\ Spec
  /\ \A k \in K : WF_vars(LoopStep(k)) /\ SF_vars(LoopNotices(k))
  /\ \A k \in K : WF_vars(CleanupEnds(k)) /\ WF_vars(RunsOut(k))
  /\ \A c \in Caller : WF_vars(RelStep(c))

--------------------------------------------------------------------------------
(***************************************************************************)
(* Properties.                                                             *)
(***************************************************************************)

\* Every variable keeps its type, and manual is nil or a Lock that TryLock has
\* made (types Mutex, Lock, manualRenewalResult).
TypeOK ==
  /\ busy \in BOOLEAN /\ releasing \in BOOLEAN
  /\ manual \in {0} \cup {k \in K : loop[k].at # "none"}
  /\ entry \in {"none", "try", "with", "working", "waiting", "stuck"}
  /\ acquired \in 0 .. MaxLocks
  /\ lease \in [K -> LeaseState]
  /\ lock \in [K -> LockState]
  /\ loop \in [K -> LoopState]
  /\ rel \in [Caller -> RelState]
  /\ cleanup \subseteq K /\ released \subseteq K

\* While a Lock is open and its lease is held, the mutex is busy with exactly
\* that Lock: no cleanup of an earlier one gives it away (clearManual,
\* abandonManual compare the Lock).
HeldKeepsBusy ==
  \A k \in K : loop[k].at # "none" /\ lease[k].held /\ ~lock[k].closed
    => busy /\ manual = k

\* The mutex refuses Release (ErrRecipeBusy) only for the Lock it holds, and only
\* while a Release of that Lock is running, its renewal loop is about to abandon
\* it, or a goroutine waits for its lease to end: no Lock is blocked on account
\* of its predecessor (abandonManual, clearBusy).
ReleasingAccounted ==
  releasing =>
    /\ busy /\ manual # 0
    /\ \/ \E c \in Caller : rel[c].at # "idle" /\ rel[c].k = manual
       \/ loop[manual].at = "stopped"
       \/ manual \in cleanup

\* Release talks to the client only after the renewal goroutine has made its last
\* call, so neither fails with ErrConcurrentMutation (stopRenewal).
ReleaseAlone ==
  \A c \in Caller : rel[c].at \in {"reconcile", "release"}
    => loop[rel[c].k].at \in {"stopped", "done"}

\* The client does not refuse to release a held lease (ErrInvalidLease) for a
\* renewal it has reported as unknown: the loop's pending, which it hands to
\* Release through renewDone or the Lock, does not miss one the client still keeps.
ReleaseAccepted ==
  \A c \in Caller :
    rel[c].at = "release" /\ lease[rel[c].k].held => lease[rel[c].k].unresolved # "reported"

\* A mutex that has begun to release a Lock becomes available again, also where
\* Release returns without clearing it (suppressRelease, abandonManual).
FreeAgain == releasing ~> ~busy

\* The holder of a Lock whose lease has ended learns of it: Done closes.
LossNoticed ==
  \A k \in K : loop[k].at # "none" /\ ~lease[k].held ~> lock[k].closed

\* Release says that it releases the acquisition.  It returns nil without having
\* done so when it reads the published result of the renewal loop before the
\* loop has set the Lock's terminal error, so this does not hold.
NilMeansReleased == \A k \in released : ~lease[k].held

\* The mutex stays unavailable while the lease of a Lock or of WithLock is held
\* (abandonManual, finish), with one exception: Release gives it up when the
\* deadline it read before it stopped the loop has passed.  A renewal may have
\* extended the lease meanwhile, but then the Lock's Done is closed.
AuthorityKeepsBusy ==
  \A k \in K : lease[k].held => busy \/ (lock[k].closed /\ lease[k].extended)

================================================================================
