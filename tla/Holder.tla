--------------------------------- MODULE Holder ---------------------------------
(***************************************************************************)
(* holder.Run of recipes/internal/holder: one acquired lease, one tracked  *)
(* invocation of the application's work, a select loop, a renewal          *)
(* goroutine, and the shutdown that joins the work and releases the lease. *)
(* Mutex.WithLock and Elector.Run end in it.                               *)
(*                                                                         *)
(* A step is one case of a select, one call of the lease client, or an     *)
(* event outside Run.  What Run does between two of them is part of the    *)
(* step before.                                                            *)
(***************************************************************************)
EXTENDS Naturals, LeaseClient

VARIABLES
  releaseOnCancel,  \* Policy.ReleaseOnCancel; ReleaseOnWorkReturn is always set
  cancelled,        \* the caller's context has ended
  lease,            \* the acquired lease, see LeaseClient
  past,             \* stopDeadline, which shutdown reads, has passed
  work,             \* the work goroutine
  renewal,          \* the renewal goroutine and its result
  fatal,            \* an error waits in FatalErrors
  run               \* where Run is, and its local variables

vars == <<releaseOnCancel, cancelled, lease, past, work, renewal, fatal, run>>

MaxAttempts == 3  \* calls of Release in one shutdown

\* renewing: at is not "none".
Renewal == [at : {"none", "calling", "result"}, o : Outcome, resolving : BOOLEAN]
Run ==
  [at : {"start", "running", "joining", "draining", "cleanup", "reconcile", "release",
         "returned"},
   cause : {"none", "workReturned", "callerCanceled", "leaseLost", "fatal"},
   renewalPending : BOOLEAN, releaseSuppressed : BOOLEAN,
   attempt : 0 .. MaxAttempts]

NoRenewal == [at |-> "none", o |-> "ok", resolving |-> FALSE]
NewRun == [at |-> "start", cause |-> "none", renewalPending |-> FALSE,
           releaseSuppressed |-> FALSE, attempt |-> 0]

InitWith(l) ==
  /\ releaseOnCancel \in BOOLEAN
  /\ cancelled = FALSE
  /\ lease = l /\ past = FALSE
  /\ work = "none" /\ renewal = NoRenewal /\ fatal = FALSE
  /\ run = NewRun

Init == InitWith(NewLease)

--------------------------------------------------------------------------------
(***************************************************************************)
(* Outside Run: the caller, the application, the lease and its client.     *)
(***************************************************************************)

Cancel ==
  /\ ~cancelled
  /\ cancelled' = TRUE
  /\ UNCHANGED <<releaseOnCancel, lease, past, work, renewal, fatal, run>>

\* The application's work returns, told to or not.
WorkReturns ==
  /\ work = "active"
  /\ work' = "ended"
  /\ UNCHANGED <<releaseOnCancel, cancelled, lease, past, renewal, fatal, run>>

\* Auxiliary activity of the recipe fails: at most one error.
FatalReported ==
  /\ ~fatal /\ run.cause # "fatal"
  /\ fatal' = TRUE
  /\ UNCHANGED <<releaseOnCancel, cancelled, lease, past, work, renewal, run>>

stopping == run.at \notin {"start", "running"}

\* The lease expires, not before the deadline that shutdown has read, or is lost.
LeaseEnds ==
  /\ lease.held
  /\ lease' = NoLease
  /\ past' \in {past, stopping}
  /\ UNCHANGED <<releaseOnCancel, cancelled, work, renewal, fatal, run>>

\* The deadline passes under a lease that was extended or is gone.
DeadlinePasses ==
  /\ stopping /\ ~past
  /\ lease.held => lease.extended
  /\ past' = TRUE
  /\ UNCHANGED <<releaseOnCancel, cancelled, lease, work, renewal, fatal, run>>

\* cancelRenew was called, or the context that renewCtx derives from has ended.
renewCancelled ==
  cancelled \/ run.at = "returned" \/ (stopping /\ run.cause # "workReturned")

\* Renew returns in the renewal goroutine.
RenewReturns ==
  /\ renewal.at = "calling"
  /\ \E o \in Outcome :
       /\ lease' \in afterRenew(lease, o, renewCancelled)
       /\ renewal' = [renewal EXCEPT !.at = "result", !.o = o]
  /\ UNCHANGED <<releaseOnCancel, cancelled, past, work, fatal, run>>

--------------------------------------------------------------------------------
(***************************************************************************)
(* The select loop.                                                        *)
(***************************************************************************)

\* The first Check; then OnStarted and the work goroutine.
Start ==
  /\ run.at = "start"
  /\ \/ lease.held /\ run' = [run EXCEPT !.at = "running"] /\ work' = "active"
     \/ ~lease.held /\ run' = [run EXCEPT !.at = "returned"] /\ UNCHANGED work
  /\ UNCHANGED <<releaseOnCancel, cancelled, lease, past, renewal, fatal>>

\* Shutdown begins: reads stopDeadline, cancels the work (and the renewal, unless
\* the work returned by itself) and calls OnStopped.
stop(r) ==
  /\ run' = r
  /\ lease' = [lease EXCEPT !.extended = FALSE]
  /\ past' \in {FALSE, ~lease.held}

SelectWork ==
  /\ run.at = "running" /\ work = "ended"
  /\ stop([run EXCEPT !.at = "draining",
                      !.cause = IF cancelled THEN "callerCanceled" ELSE "workReturned"])
  /\ UNCHANGED <<releaseOnCancel, cancelled, work, renewal, fatal>>

breakRunning(why) == stop([run EXCEPT !.at = "joining", !.cause = why])

\* Mutation of SelectStop: FatalErrors is left out of the select.
SelectStop_noFatal ==
  /\ run.at = "running"
  /\ \/ cancelled /\ breakRunning("callerCanceled") /\ UNCHANGED fatal
     \/ ~lease.held /\ breakRunning("leaseLost") /\ UNCHANGED fatal
  /\ UNCHANGED <<releaseOnCancel, cancelled, work, renewal>>

\* ctx.Done, acquired.Done, FatalErrors.
SelectStop ==
  /\ run.at = "running"
  /\ \/ cancelled /\ breakRunning("callerCanceled") /\ UNCHANGED fatal
     \/ ~lease.held /\ breakRunning("leaseLost") /\ UNCHANGED fatal
     \/ fatal /\ breakRunning("fatal") /\ fatal' = FALSE
  /\ UNCHANGED <<releaseOnCancel, cancelled, work, renewal>>

RenewTimer ==
  /\ run.at = "running" /\ renewal.at = "none"
  /\ renewal' = [at |-> "calling", o |-> "ok", resolving |-> run.renewalPending]
  /\ UNCHANGED <<releaseOnCancel, cancelled, lease, past, work, fatal, run>>

\* Mutation of stoppedRenewalState: an unknown outcome counts as settled.
stoppedRenewalState_forgets(r) ==
  [r EXCEPT !.renewalPending = FALSE,
            !.releaseSuppressed = renewal.o \notin {"ok", "unknown"} /\ renewal.resolving]

\* Mutation of stoppedRenewalState: a reconciliation that failed is tried again.
stoppedRenewalState_retries(r) ==
  [r EXCEPT !.renewalPending = renewal.o = "unknown" \/ (renewal.o # "ok" /\ renewal.resolving),
            !.releaseSuppressed = FALSE]

\* What a result tells a Run that is being stopped.
stoppedRenewalState(r) ==
  [r EXCEPT !.renewalPending = renewal.o = "unknown",
            !.releaseSuppressed = renewal.o \notin {"ok", "unknown"} /\ renewal.resolving]

goOn(pending) ==
  /\ run' = [run EXCEPT !.renewalPending = pending]
  /\ UNCHANGED <<lease, past>>

SelectResult ==
  LET o == renewal.o  resolving == renewal.resolving IN
  /\ run.at = "running" /\ renewal.at = "result"
  /\ renewal' = NoRenewal
  /\ \/ o = "ok" /\ goOn(FALSE)
     \/ /\ o # "ok" /\ cancelled
        /\ stop(stoppedRenewalState([run EXCEPT !.at = "joining", !.cause = "callerCanceled"]))
     \/ o = "unknown" /\ ~cancelled /\ goOn(TRUE)
     \/ o = "unavailable" /\ ~cancelled /\ goOn(resolving)
     \/ o = "loss" /\ ~cancelled /\ ~resolving /\ breakRunning("leaseLost")
     \/ o = "loss" /\ ~cancelled /\ resolving /\ breakRunning("fatal")
     \/ o = "other" /\ ~cancelled /\ breakRunning("fatal")
  /\ UNCHANGED <<releaseOnCancel, cancelled, work, fatal>>

--------------------------------------------------------------------------------
(***************************************************************************)
(* Shutdown.                                                               *)
(***************************************************************************)

\* Mutation of Join: after ShutdownTimeout the shutdown goes on.
Join_goesOn ==
  /\ run.at = "joining"
  /\ run' = [run EXCEPT !.at = "draining"]
  /\ UNCHANGED <<releaseOnCancel, cancelled, lease, past, work, renewal, fatal>>

\* The work returns, or ShutdownTimeout passes first (WorkNotStoppedError).
Join ==
  /\ run.at = "joining"
  /\ \/ work = "ended" /\ run' = [run EXCEPT !.at = "draining"]
     \/ work = "active" /\ run' = [run EXCEPT !.at = "returned"]
  /\ UNCHANGED <<releaseOnCancel, cancelled, lease, past, work, renewal, fatal>>

releaseWanted ==
  \/ run.cause = "workReturned"
  \/ run.cause = "callerCanceled" /\ releaseOnCancel

\* Run goes on to cleanup if a release is wanted and not suppressed.
drained(r) ==
  run' = [r EXCEPT !.at = IF releaseWanted /\ ~r.releaseSuppressed
                          THEN "cleanup" ELSE "returned"]

\* Mutation of Drain: the renewal goroutine is cancelled and not waited for.
Drain_noWait ==
  /\ run.at = "draining"
  /\ drained(run)
  /\ UNCHANGED <<releaseOnCancel, cancelled, lease, past, work, renewal, fatal>>

\* waitRenewal: no renewal, its result, or the deadline, which leaves the
\* goroutine behind.
Drain ==
  /\ run.at = "draining"
  /\ \/ renewal.at = "none" /\ drained(run) /\ UNCHANGED renewal
     \/ renewal.at = "result" /\ drained(stoppedRenewalState(run)) /\ renewal' = NoRenewal
     \/ renewal.at # "none" /\ past /\ drained(run) /\ UNCHANGED renewal
  /\ UNCHANGED <<releaseOnCancel, cancelled, lease, past, work, fatal>>

Cleanup ==
  /\ run.at = "cleanup"
  /\ run' = [run EXCEPT !.at = IF past THEN "returned"
                               ELSE IF run.renewalPending THEN "reconcile" ELSE "release"]
  /\ UNCHANGED <<releaseOnCancel, cancelled, lease, past, work, renewal, fatal>>

\* Renew under cleanupCtx resolves the renewal that is pending.
Reconcile ==
  /\ run.at = "reconcile"
  /\ \E o \in Outcome :
       /\ lease' \in afterRenew(lease, o, TRUE)
       /\ run' = [run EXCEPT !.at = IF o = "ok" THEN "release" ELSE "returned"]
  /\ UNCHANGED <<releaseOnCancel, cancelled, past, work, renewal, fatal>>

\* Mutation of Release: attempts are not counted.
Release_unbounded ==
  /\ run.at = "release"
  /\ \/ /\ run.attempt = 0 /\ ~lease.held
        /\ run' = [run EXCEPT !.at = "returned"]
        /\ UNCHANGED lease
     \/ /\ run.attempt = 0 => lease.held
        /\ lease' = afterRelease(lease)
        /\ \/ run' = [run EXCEPT !.at = "returned", !.attempt = @ + 1]
           \/ ~lease'.held /\ ~past /\ run' = [run EXCEPT !.attempt = @ + 1]
  /\ UNCHANGED <<releaseOnCancel, cancelled, past, work, renewal, fatal>>

\* Check and the first Release; an unknown outcome is reconciled by further ones.
Release ==
  /\ run.at = "release"
  /\ \/ /\ run.attempt = 0 /\ ~lease.held
        /\ run' = [run EXCEPT !.at = "returned"]
        /\ UNCHANGED lease
     \/ /\ run.attempt = 0 => lease.held
        /\ lease' = afterRelease(lease)
        /\ \/ run' = [run EXCEPT !.at = "returned", !.attempt = @ + 1]
           \/ /\ ~lease'.held /\ run.attempt + 1 < MaxAttempts /\ ~past
              /\ run' = [run EXCEPT !.attempt = @ + 1]
  /\ UNCHANGED <<releaseOnCancel, cancelled, past, work, renewal, fatal>>

RunStep ==
  \/ Start \/ SelectWork \/ SelectStop \/ RenewTimer \/ SelectResult
  \/ Join \/ Drain \/ Cleanup \/ Reconcile \/ Release

Environment == Cancel \/ WorkReturns \/ LeaseEnds \/ DeadlinePasses \/ RenewReturns

Next == RunStep \/ Environment \/ FatalReported

Spec == Init /\ [][Next]_vars

\* A lease that nobody renews any more runs out.
RunsOut == run.at = "returned" /\ renewal.at # "calling" /\ LeaseEnds

--------------------------------------------------------------------------------
(***************************************************************************)
(* Properties.                                                             *)
(***************************************************************************)

\* Every variable keeps its type (the local variables of Run).
TypeOK ==
  /\ releaseOnCancel \in BOOLEAN /\ cancelled \in BOOLEAN
  /\ lease \in LeaseState /\ past \in BOOLEAN
  /\ work \in {"none", "active", "ended"}
  /\ renewal \in Renewal /\ fatal \in BOOLEAN
  /\ run \in Run

\* Shutdown calls the client only when no Renew of the renewal goroutine is under
\* way, although it waits for that goroutine no longer than stopDeadline
\* (waitRenewal, then cleanupContext).
ReleaseAlone == run.at \in {"reconcile", "release"} => renewal.at # "calling"

\* The Renew of shutdown resolves a renewal that the core still keeps: it never
\* starts a fresh one for work that has ended (the comment of stoppedRenewalState).
ReconcilesOnly == run.at = "reconcile" /\ lease.held => lease.unresolved = "reported"

\* Run calls Release only when every renewal whose outcome it was told is unknown
\* has been resolved, so that no such renewal makes the core refuse it.
ReleaseAccepted ==
  run.at = "release" /\ lease.held => lease.unresolved # "reported"

\* While the core keeps an unresolved renewal, Run knows it and its next Renew is a
\* reconciliation: "Keep reconciling it until authority ends; never create a fresh
\* renewal while its outcome is unknown" (holder.go:147).  The code does not keep it:
\* a first renewal that meets a conflict it cannot read back stays in the core, but
\* result.resolving, and with it renewalPending, is false.
KeepsReconciling ==
  run.at \in {"running", "release"} /\ renewal.at = "none" /\ lease.unresolved # "no"
    => run.renewalPending

================================================================================
