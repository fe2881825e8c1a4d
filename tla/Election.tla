-------------------------------- MODULE Election --------------------------------
(***************************************************************************)
(* Elector.Run of recipes/leaderelection, with what it is made of: the     *)
(* acquisition loop acquire.Run, holder.Run (Holder), the goroutine that   *)
(* observes the object while leading, and the dispatcher of observations   *)
(* (ObserverDispatcher).  The application has an OnLeaderObserved          *)
(* callback; without one there is neither observer nor dispatcher.         *)
(*                                                                         *)
(* runCtx has ended when the caller's context has or cancelRun was called, *)
(* and cancelRun is always called together with the dispatcher's Stop.     *)
(***************************************************************************)
EXTENDS Holder

CONSTANTS Ownership, MaxAccepted  \* see ObserverDispatcher

ASSUME ObservationAssumption == MaxAccepted \in Nat

VARIABLES
  life,      \* where Elector.Run is
  acq,       \* where acquire.Run is
  observer,  \* the goroutine of startElectedObserver
  pending, running, stopped, accepted, deliverers, calls, lateCalls  \* the dispatcher's

Dispatcher == INSTANCE ObserverDispatcher

dispatcherVars == <<pending, running, stopped, accepted, deliverers, calls, lateCalls>>
holderVars == vars
electorVars == <<life, acq, observer>>
allVars == <<dispatcherVars, holderVars, electorVars>>

ElectionInit ==
  /\ Dispatcher!Init
  /\ InitWith(NoLease)
  /\ life = "acquiring" /\ acq = "require" /\ observer = "none"

runDone == cancelled \/ stopped

\* The errors of Require and of Observe that the recipe tells apart.
RequireError ==
  {"notEligible", "conflict", "unknownOutcome", "unavailable", "deadlineExceeded", "other"}
ObserveError == {"notFound", "unavailable", "deadlineExceeded", "other"}

Retryable(err) ==
  /\ ~runDone
  /\ err \in {"notEligible", "conflict", "unknownOutcome", "unavailable", "deadlineExceeded"}

ObservationRetryable(err) == Retryable(err) \/ err = "notFound"

--------------------------------------------------------------------------------
(***************************************************************************)
(* acquire.Run.                                                            *)
(***************************************************************************)

\* OnObservation: the dispatcher takes the observation or ignores it.
submitted ==
  \/ \E o \in Ownership : Dispatcher!Submit(o)
  \/ \E o \in Ownership : (stopped \/ Dispatcher!seenLast(o)) /\ UNCHANGED dispatcherVars

acquiring(here) == life = "acquiring" /\ acq = here

\* After an error acquire.Run goes round, or leaves if it must not be retried.
afterError(retry) == acq' = IF retry THEN "select" ELSE "leave"

RequireReturns ==
  /\ acquiring("require")
  /\ \/ /\ life' = "acquired" /\ lease' = NewLease
        /\ UNCHANGED acq
     \/ /\ \E err \in RequireError : afterError(Retryable(err))
        /\ UNCHANGED <<life, lease>>
  /\ UNCHANGED <<dispatcherVars, releaseOnCancel, cancelled, past, work, renewal, fatal,
                 run, observer>>

AcquireSelects ==
  /\ acquiring("select")
  /\ \/ runDone /\ acq' = "leave"
     \/ acq' \in {"require", "observe"}
  /\ UNCHANGED <<dispatcherVars, holderVars, life, observer>>

ObserveReturns ==
  /\ acquiring("observe")
  /\ \/ submitted /\ afterError(~runDone)
     \/ /\ \E err \in ObserveError : afterError(~runDone /\ ObservationRetryable(err))
        /\ UNCHANGED dispatcherVars
  /\ UNCHANGED <<holderVars, life, observer>>

--------------------------------------------------------------------------------
(***************************************************************************)
(* Elector.Run around it.                                                  *)
(***************************************************************************)

\* cancelRun and the dispatcher's Stop, which may have been called before.
stopAll == Dispatcher!Stop \/ (stopped /\ UNCHANGED dispatcherVars)

ElectorReturns ==
  /\ \/ acquiring("leave")
     \/ life = "acquired" /\ ~lease.held
     \/ life = "leading" /\ run.at = "returned"
  /\ life' = "done"
  /\ stopAll
  /\ UNCHANGED <<holderVars, acq, observer>>

\* The lease is still valid: startElectedObserver, then holder.Run.
Lead ==
  /\ life = "acquired" /\ lease.held
  /\ life' = "leading"
  /\ observer' = "waiting"
  /\ UNCHANGED <<dispatcherVars, holderVars, acq>>

\* OnStopped runs when the holder stops the work.
onStopped == run.at = "running" /\ run'.at # "running"

whileLeading ==
  /\ life = "leading"
  /\ \/ onStopped /\ stopAll
     \/ ~onStopped /\ UNCHANGED dispatcherVars
  /\ UNCHANGED electorVars

HolderStep == RunStep /\ whileLeading

--------------------------------------------------------------------------------
(***************************************************************************)
(* The elected observer.                                                   *)
(***************************************************************************)

\* Mutation of ObserverSelects: its context is not the one that is cancelled.
ObserverSelects_never ==
  /\ observer = "waiting"
  /\ observer' = "observing"
  /\ UNCHANGED <<dispatcherVars, holderVars, life, acq>>

ObserverSelects ==
  /\ observer = "waiting"
  /\ \/ runDone /\ observer' = "ended"
     \/ observer' = "observing"
  /\ UNCHANGED <<dispatcherVars, holderVars, life, acq>>

\* FatalErrors has room for the one error it is sent.
ElectedObserves ==
  /\ observer = "observing"
  /\ \/ submitted /\ observer' = "waiting" /\ UNCHANGED holderVars
     \/ /\ \E err \in ObserveError :
             IF ~runDone /\ ~ObservationRetryable(err)
             THEN FatalReported /\ observer' = "ended"
             ELSE observer' = "waiting" /\ UNCHANGED holderVars
        /\ UNCHANGED dispatcherVars
  /\ UNCHANGED <<life, acq>>

--------------------------------------------------------------------------------
ObserverStep == ObserverSelects \/ ElectedObserves
AcquireStep == RequireReturns \/ AcquireSelects \/ ObserveReturns

ElectionNext ==
  \/ AcquireStep \/ ElectorReturns \/ Lead \/ HolderStep \/ ObserverStep
  \/ Dispatcher!DeliverStep /\ UNCHANGED <<holderVars, electorVars>>
  \/ Environment /\ UNCHANGED <<dispatcherVars, electorVars>>

ElectionSpec == ElectionInit /\ [][ElectionNext]_allVars

ElectionFairness ==
  /\ WF_allVars(AcquireStep) /\ SF_allVars(AcquireSelects /\ acq' = "leave")
  /\ WF_allVars(ElectorReturns) /\ WF_allVars(Lead)
  /\ WF_allVars(HolderStep)
  /\ WF_allVars(SelectWork /\ whileLeading) /\ WF_allVars(SelectStop /\ whileLeading)
  /\ WF_allVars(RenewReturns /\ UNCHANGED <<dispatcherVars, electorVars>>)
  /\ WF_allVars(RunsOut /\ UNCHANGED <<dispatcherVars, electorVars>>)
  /\ WF_allVars(ObserverStep) /\ SF_allVars(ObserverSelects /\ observer' = "ended")
  /\ WF_allVars(Dispatcher!DeliverStep /\ UNCHANGED <<holderVars, electorVars>>)

LiveElection == ElectionSpec /\ ElectionFairness

--------------------------------------------------------------------------------
(***************************************************************************)
(* Properties.                                                             *)
(***************************************************************************)

\* Every variable keeps its type (Elector.Run, acquire.Run, the elected observer).
ElectionTypeOK ==
  /\ TypeOK /\ Dispatcher!TypeOK
  /\ life \in {"acquiring", "acquired", "leading", "done"}
  /\ acq \in {"require", "select", "observe", "leave"}
  /\ observer \in {"none", "waiting", "observing", "ended"}

\* The phase of Tenure when Elector.Run is at l and holder.Run at h.
phaseOf(l, h) ==
  IF l = "done" \/ h = "returned" THEN "over"
  ELSE IF l # "leading" \/ h = "start" THEN "waiting"
  ELSE IF h = "running" THEN "working" ELSE "stopping"

Candidate == INSTANCE Tenure WITH
  phase <- phaseOf(life, run.at),
  held <- lease.held,
  asked <- run.attempt > 0

\* An elector implements Tenure: its work is admitted at most once and under a lease
\* that is held, is stopped before the lease is given up, and has returned before
\* Release is called; work that outlives ShutdownTimeout never has its lease
\* released under it; and nothing is acquired again (the comment of Elector.Run).
LeadsOnce == Candidate!Spec

\* Run returns once its caller cancels it, its work returns, its lease ends or its
\* observer fails, wherever it is then: waiting for the lease, leading, or already
\* stopping for another reason (the selects of acquire.Run and holder.Run).
EndsRun ==
  \/ cancelled \/ fatal
  \/ life = "leading" /\ (work = "ended" \/ ~lease.held)
  ~> life = "done"

\* What Run starts ends with it: the observer's goroutine, the dispatcher's, and the
\* lease, which is released or runs out because no goroutine goes on renewing it
\* (cancelRun, dispatcher.Stop and cancelRenew on every path).
NothingLeft ==
  life = "done" ~> observer \in {"none", "ended"} /\ deliverers = {} /\ ~lease.held

================================================================================
