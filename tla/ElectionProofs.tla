----------------------------- MODULE ElectionProofs -----------------------------
(***************************************************************************)
(* An elector implements Tenure, whatever the application observes and     *)
(* however often: work, renewal, observation, cancellation and shutdown in *)
(* any order amount to one tenure.                                         *)
(***************************************************************************)
EXTENDS Election, TLAPS

Shutdown == {"joining", "draining", "cleanup", "reconcile", "release"}

\* Where Elector.Run is, where holder.Run is, and what has become of the work and of
\* the lease fit together.
Tracks ==
  /\ TypeOK
  /\ life \in {"acquiring", "acquired", "leading", "done"}
  /\ life = "acquiring" => ~lease.held
  /\ run.at # "start" => life \in {"leading", "done"}
  /\ run.at = "start" => work = "none"
  /\ run.at \in Shutdown \ {"joining"} => work = "ended"
  /\ run.at \notin {"release", "returned"} => run.attempt = 0
  /\ run.at = "release" => run.attempt < MaxAttempts
  /\ run.attempt > 0 => work = "ended"

\* A step of Tenure, or none.
TenureStep == [Candidate!Next]_(Candidate!vars)

--------------------------------------------------------------------------------
(***************************************************************************)
(* The lease client and the initial state.                                 *)
(***************************************************************************)

\* A Renew never brings a lease back, and succeeds only for one that is held.
LEMMA RenewKeeps ==
  ASSUME NEW l \in LeaseState, NEW o \in Outcome, NEW d, NEW m \in afterRenew(l, o, d)
  PROVE  m \in LeaseState /\ (m.held => l.held) /\ (o = "ok" => m.held /\ l.held)
<1>1. NoLease \in LeaseState /\ ~NoLease.held BY DEF NoLease, LeaseState
<1>2. dropped(l) \in LeaseState /\ dropped(l).held = l.held BY DEF dropped, LeaseState
<1>3. kept(l) \in LeaseState /\ kept(l).held = l.held BY DEF kept, LeaseState
<1>4. CASE ~l.held BY <1>1, <1>4 DEF afterRenew
<1>5. CASE l.held
  <2>1. CASE o = "ok"
    <3>1. m = [dropped(l) EXCEPT !.extended = TRUE] BY <1>5, <2>1 DEF afterRenew
    <3> QED BY <1>2, <1>5, <3>1 DEF LeaseState
  <2>2. CASE o = "unknown"
    <3>1. m = [l EXCEPT !.unresolved = "reported"] BY <1>5, <2>2 DEF afterRenew
    <3> QED BY <1>5, <2>2, <3>1 DEF LeaseState
  <2>3. CASE o \in {"loss", "unavailable", "other"}
    <3>1. m \in {kept(l), dropped(l), NoLease} BY <1>5, <2>3 DEF afterRenew
    <3> QED BY <1>1, <1>2, <1>3, <1>5, <2>3, <3>1
  <2> QED BY <2>1, <2>2, <2>3 DEF Outcome
<1> QED BY <1>4, <1>5

LEMMA ReleaseKeeps ==
  ASSUME NEW l \in LeaseState
  PROVE  afterRelease(l) \in LeaseState /\ (afterRelease(l).held => l.held)
BY DEF afterRelease, LeaseState, NoLease

LEMMA StoppedState ==
  ASSUME NEW r \in Run
  PROVE  /\ stoppedRenewalState(r) \in Run
         /\ stoppedRenewalState(r).at = r.at
         /\ stoppedRenewalState(r).attempt = r.attempt
BY DEF stoppedRenewalState, Run

LEMMA NoRenewalType == NoRenewal \in Renewal
BY DEF NoRenewal, Renewal, Outcome

LEMMA InitTracks == ElectionInit => Tracks /\ Candidate!Init
<1> SUFFICES ASSUME ElectionInit PROVE Tracks /\ Candidate!Init OBVIOUS
<1>1. lease \in LeaseState /\ ~lease.held
  BY DEF ElectionInit, InitWith, NoLease, LeaseState
<1>2. renewal \in Renewal BY NoRenewalType DEF ElectionInit, InitWith
<1>3. run \in Run /\ run.at = "start" /\ run.attempt = 0
  BY DEF ElectionInit, InitWith, NewRun, Run, MaxAttempts
<1>4. /\ work = "none" /\ life = "acquiring"
      /\ releaseOnCancel \in BOOLEAN /\ cancelled = FALSE /\ past = FALSE /\ fatal = FALSE
  BY DEF ElectionInit, InitWith
<1>5. Tracks
  <2>1. TypeOK BY <1>1, <1>2, <1>3, <1>4, Zenon DEF TypeOK
  <2> QED BY <1>1, <1>3, <1>4, <2>1 DEF Tracks, Shutdown
<1>6. phaseOf(life, run.at) = "waiting" /\ ~(run.attempt > 0) /\ lease.held \in BOOLEAN
  BY <1>1, <1>3, <1>4 DEF phaseOf, LeaseState
<1>7. Candidate!Init BY <1>4, <1>6 DEF Candidate!Init
<1> QED BY <1>5, <1>7

--------------------------------------------------------------------------------
(***************************************************************************)
(* Steps that leave Run where it is.                                       *)
(***************************************************************************)

LEMMA EnvironmentStep ==
  ASSUME Tracks, Environment, UNCHANGED electorVars
  PROVE  Tracks' /\ TenureStep
<1> USE DEF electorVars
<1>1. CASE Cancel
  BY <1>1 DEF Cancel, Tracks, TypeOK, TenureStep, Candidate!vars
<1>2. CASE WorkReturns
  BY <1>2 DEF WorkReturns, Tracks, TypeOK, TenureStep, Candidate!Next, Candidate!WorkReturns
<1>3. CASE LeaseEnds
  BY <1>3 DEF LeaseEnds, stopping, NoLease, LeaseState, Tracks, TypeOK, TenureStep,
              Candidate!Next, Candidate!Lapse
<1>4. CASE DeadlinePasses
  BY <1>4 DEF DeadlinePasses, Tracks, TypeOK, TenureStep, Candidate!vars
<1>5. CASE RenewReturns
  <2>1. PICK o \in Outcome :
          /\ lease' \in afterRenew(lease, o, renewCancelled)
          /\ renewal' = [renewal EXCEPT !.at = "result", !.o = o]
    BY <1>5 DEF RenewReturns
  <2>2. lease' \in LeaseState /\ (lease'.held => lease.held)
    BY <2>1, RenewKeeps DEF Tracks, TypeOK
  <2>3. renewal' \in Renewal BY <2>1 DEF Tracks, TypeOK, Renewal
  <2>4. Tracks' BY <1>5, <2>2, <2>3 DEF RenewReturns, Tracks, TypeOK
  <2>5. TenureStep
    BY <1>5, <2>2 DEF RenewReturns, Tracks, TypeOK, LeaseState, TenureStep, Candidate!vars,
                      Candidate!Next, Candidate!Lapse
  <2> QED BY <2>4, <2>5
<1> QED BY <1>1, <1>2, <1>3, <1>4, <1>5 DEF Environment

\* The steps of observer and dispatcher, which may report a fatal error.
LEMMA ObserverQuiet ==
  ASSUME Tracks, UNCHANGED <<releaseOnCancel, cancelled, lease, past, work, renewal, run, life>>,
         fatal' \in BOOLEAN
  PROVE  Tracks' /\ TenureStep
BY DEF Tracks, TypeOK, TenureStep, Candidate!vars

LEMMA ElectorStep ==
  ASSUME Tracks, AcquireStep \/ ElectorReturns \/ Lead
  PROVE  Tracks' /\ TenureStep
<1>1. CASE RequireReturns
  <2>1. CASE life' = "acquired" /\ lease' = NewLease
    BY <1>1, <2>1 DEF RequireReturns, acquiring, Tracks, TypeOK, NewLease, NoLease, LeaseState,
        TenureStep, Candidate!Next, Candidate!Acquire, phaseOf
  <2>2. CASE UNCHANGED <<life, lease>>
    BY <1>1, <2>2, ObserverQuiet DEF RequireReturns, Tracks, TypeOK
  <2> QED BY <1>1, <2>1, <2>2 DEF RequireReturns
<1>2. CASE AcquireSelects \/ ObserveReturns
  BY <1>2, ObserverQuiet DEF AcquireSelects, ObserveReturns, holderVars, vars, Tracks, TypeOK
<1>3. CASE ElectorReturns
  BY <1>3 DEF ElectorReturns, acquiring, holderVars, vars, Tracks, TypeOK, TenureStep,
              Candidate!Next, Candidate!End, Candidate!vars, phaseOf
<1>4. CASE Lead
  BY <1>4 DEF Lead, holderVars, vars, Tracks, TypeOK, TenureStep, Candidate!vars, phaseOf
<1> QED BY <1>1, <1>2, <1>3, <1>4 DEF AcquireStep

--------------------------------------------------------------------------------
(***************************************************************************)
(* Steps of holder.Run.                                                    *)
(***************************************************************************)

\* Shutdown begins.
LEMMA StopStep ==
  ASSUME Tracks, life = "leading", life' = life, run.at = "running", NEW r \in Run,
         r.at \in {"joining", "draining"}, r.attempt = 0, r.at = "draining" => work = "ended",
         stop(r), UNCHANGED <<releaseOnCancel, cancelled, work>>,
         renewal' \in Renewal, fatal' \in BOOLEAN
  PROVE  Tracks' /\ TenureStep
<1>1. lease' \in LeaseState /\ lease'.held = lease.held /\ past' \in BOOLEAN /\ run' = r
  BY DEF stop, Tracks, TypeOK, LeaseState
<1>2. Tracks' BY <1>1 DEF Tracks, TypeOK, Shutdown
<1>3. run.attempt = 0 BY DEF Tracks
<1>4. TenureStep
  BY <1>1, <1>3 DEF TenureStep, Candidate!Next, Candidate!Stop, phaseOf
<1> QED BY <1>2, <1>4

\* Run goes on without a change that Tenure sees.
LEMMA LocalStep ==
  ASSUME Tracks, life = "leading", life' = life, run' \in Run,
         UNCHANGED <<releaseOnCancel, cancelled, lease, past, work>>,
         renewal' \in Renewal, fatal' \in BOOLEAN,
         run'.attempt = run.attempt,
         \/ run'.at = run.at
         \/ run.at \in Shutdown /\ run'.at \in Shutdown \ {"joining"} /\ work = "ended"
            /\ run.at # "release"
  PROVE  Tracks' /\ TenureStep
<1>1. Tracks' BY DEF Tracks, TypeOK, Shutdown, MaxAttempts
<1>2. TenureStep BY DEF TenureStep, Candidate!vars, phaseOf, Shutdown
<1> QED BY <1>1, <1>2

\* Run returns from its shutdown.
LEMMA ReturnStep ==
  ASSUME Tracks, life = "leading", life' = life, run.at \in Shutdown,
         run' \in Run, run'.at = "returned", run'.attempt = run.attempt,
         UNCHANGED <<releaseOnCancel, cancelled, past, work, fatal>>,
         renewal' \in Renewal, lease' \in LeaseState, lease'.held => lease.held
  PROVE  Tracks' /\ TenureStep
<1>1. Tracks' BY DEF Tracks, TypeOK, Shutdown
<1>2. lease'.held \in {FALSE, lease.held} BY DEF Tracks, TypeOK, LeaseState
<1>3. TenureStep
  BY <1>2 DEF TenureStep, Tracks, TypeOK, Run, Candidate!Next, Candidate!End, phaseOf, Shutdown
<1> QED BY <1>1, <1>3

LEMMA SelectStep ==
  ASSUME Tracks, life = "leading", life' = life,
         Start \/ SelectWork \/ SelectStop \/ RenewTimer \/ SelectResult
  PROVE  Tracks' /\ TenureStep
<1>1. CASE Start
  <2>1. Tracks' BY <1>1 DEF Start, Tracks, TypeOK, Run, Shutdown
  <2>2. TenureStep
    BY <1>1 DEF Start, Tracks, TypeOK, Run, TenureStep, Candidate!Next, Candidate!Admit,
                Candidate!End, phaseOf
  <2> QED BY <2>1, <2>2
<1>2. CASE SelectWork
  <2> DEFINE r == [run EXCEPT !.at = "draining",
                       !.cause = IF cancelled THEN "callerCanceled" ELSE "workReturned"]
  <2>1. r \in Run /\ r.at = "draining" /\ r.attempt = 0
    BY <1>2 DEF SelectWork, Tracks, TypeOK, Run
  <2>2. stop(r) /\ work = "ended" /\ run.at = "running"
        /\ UNCHANGED <<releaseOnCancel, cancelled, work, renewal, fatal>>
    BY <1>2 DEF SelectWork
  <2>3. renewal' \in Renewal /\ fatal' \in BOOLEAN BY <2>2 DEF Tracks, TypeOK
  <2> QED BY <2>1, <2>2, <2>3, StopStep
<1>3. ASSUME NEW why \in {"callerCanceled", "leaseLost", "fatal"}, breakRunning(why),
             run.at = "running", UNCHANGED <<releaseOnCancel, cancelled, work>>,
             renewal' \in Renewal, fatal' \in BOOLEAN
      PROVE  Tracks' /\ TenureStep
  <2> DEFINE r == [run EXCEPT !.at = "joining", !.cause = why]
  <2>1. r \in Run /\ r.at = "joining" /\ r.attempt = 0
    BY <1>3 DEF Tracks, TypeOK, Run
  <2> QED BY <1>3, <2>1, StopStep DEF breakRunning
<1>4. CASE SelectStop
  <2>1. renewal' \in Renewal /\ fatal' \in BOOLEAN BY <1>4 DEF SelectStop, Tracks, TypeOK
  <2> QED BY <1>3, <1>4, <2>1 DEF SelectStop
<1>5. CASE RenewTimer
  <2>1. renewal' \in Renewal BY <1>5 DEF RenewTimer, Renewal, Outcome, Tracks, TypeOK, Run
  <2> QED BY <1>5, <2>1, LocalStep DEF RenewTimer, Tracks, TypeOK
<1>6. CASE SelectResult
  <2>1. /\ renewal' \in Renewal /\ fatal' \in BOOLEAN /\ run.at = "running"
        /\ UNCHANGED <<releaseOnCancel, cancelled, work, fatal>>
    BY <1>6 DEF SelectResult, NoRenewal, Renewal, Outcome, Tracks, TypeOK
  <2>2. ASSUME NEW known \in BOOLEAN, goOn(known) PROVE Tracks' /\ TenureStep
    <3>1. run' \in Run /\ run'.at = run.at /\ run'.attempt = run.attempt
      BY <2>2 DEF goOn, Tracks, TypeOK, Run
    <3> QED BY <2>1, <2>2, <3>1, LocalStep DEF goOn
  <2>3. CASE stop(stoppedRenewalState([run EXCEPT !.at = "joining", !.cause = "callerCanceled"]))
    <3> DEFINE r == [run EXCEPT !.at = "joining", !.cause = "callerCanceled"]
    <3>1. r \in Run /\ r.at = "joining" /\ r.attempt = 0
      BY <2>1 DEF Tracks, TypeOK, Run
    <3> QED BY <2>1, <2>3, <3>1, StoppedState, StopStep
  <2>4. renewal.resolving \in BOOLEAN BY DEF Tracks, TypeOK, Renewal
  <2> QED BY <1>3, <1>6, <2>1, <2>2, <2>3, <2>4 DEF SelectResult
<1> QED BY <1>1, <1>2, <1>4, <1>5, <1>6

LEMMA ShutdownStep ==
  ASSUME Tracks, life = "leading", life' = life,
         Join \/ Drain \/ Cleanup \/ Reconcile \/ Release
  PROVE  Tracks' /\ TenureStep
<1>1. CASE Join
  <2>1. /\ renewal' \in Renewal /\ fatal' \in BOOLEAN /\ lease' \in LeaseState
        /\ run' \in Run /\ run'.attempt = run.attempt /\ run.at = "joining"
    BY <1>1 DEF Join, Tracks, TypeOK, Run
  <2>2. CASE work = "ended" /\ run'.at = "draining"
    BY <1>1, <2>1, <2>2, LocalStep DEF Join, Shutdown
  <2>3. CASE work = "active" /\ run'.at = "returned"
    BY <1>1, <2>1, <2>3, ReturnStep DEF Join, Shutdown
  <2> QED BY <1>1, <2>1, <2>2, <2>3 DEF Join, Tracks, TypeOK, Run
<1>2. CASE Drain
  <2>1. renewal' \in Renewal /\ fatal' \in BOOLEAN /\ run.at = "draining" /\ work = "ended"
        /\ lease' \in LeaseState
    BY <1>2, NoRenewalType DEF Drain, Tracks, TypeOK, Shutdown
  <2>2. ASSUME NEW r \in Run, r.attempt = run.attempt, drained(r) PROVE Tracks' /\ TenureStep
    <3>1. run' \in Run /\ run'.attempt = run.attempt /\ run'.at \in {"cleanup", "returned"}
      BY <2>2 DEF drained, Run
    <3>2. CASE run'.at = "cleanup"
      BY <1>2, <2>1, <3>1, <3>2, LocalStep DEF Drain, Shutdown
    <3>3. CASE run'.at = "returned"
      BY <1>2, <2>1, <3>1, <3>3, ReturnStep DEF Drain, Shutdown
    <3> QED BY <3>1, <3>2, <3>3
  <2>3. run \in Run BY DEF Tracks, TypeOK
  <2> QED BY <1>2, <2>2, <2>3, StoppedState DEF Drain
<1>3. CASE Cleanup
  <2>1. /\ renewal' \in Renewal /\ fatal' \in BOOLEAN /\ run.at = "cleanup" /\ work = "ended"
        /\ lease' \in LeaseState /\ run' \in Run /\ run'.attempt = run.attempt
        /\ run'.at \in {"returned", "reconcile", "release"}
    BY <1>3 DEF Cleanup, Tracks, TypeOK, Shutdown, Run
  <2>2. CASE run'.at = "returned"
    BY <1>3, <2>1, <2>2, ReturnStep DEF Cleanup, Shutdown
  <2>3. CASE run'.at # "returned"
    BY <1>3, <2>1, <2>3, LocalStep DEF Cleanup, Shutdown
  <2> QED BY <2>2, <2>3
<1>4. CASE Reconcile
  <2>1. PICK o \in Outcome :
          /\ lease' \in afterRenew(lease, o, TRUE)
          /\ run' = [run EXCEPT !.at = IF o = "ok" THEN "release" ELSE "returned"]
    BY <1>4 DEF Reconcile
  <2>2. /\ lease' \in LeaseState /\ (lease'.held => lease.held)
        /\ o = "ok" => lease'.held /\ lease.held
    BY <2>1, RenewKeeps DEF Tracks, TypeOK
  <2>3. /\ renewal' \in Renewal /\ run.at = "reconcile" /\ work = "ended"
        /\ run' \in Run /\ run'.attempt = run.attempt
        /\ UNCHANGED <<releaseOnCancel, cancelled, past, work, renewal, fatal>>
    BY <1>4, <2>1 DEF Reconcile, Tracks, TypeOK, Shutdown, Run
  <2>4. CASE o = "ok"
    <3>1. run'.at = "release" BY <2>1, <2>4 DEF Tracks, TypeOK, Run
    <3>2. Tracks' BY <2>2, <2>3, <3>1 DEF Tracks, TypeOK, Shutdown, MaxAttempts
    <3>3. lease'.held = lease.held BY <2>2, <2>4 DEF Tracks, TypeOK, LeaseState
    <3>4. TenureStep BY <2>3, <3>1, <3>3 DEF TenureStep, Candidate!vars, phaseOf
    <3> QED BY <3>2, <3>4
  <2>5. CASE o # "ok"
    <3>1. run'.at = "returned" BY <2>1, <2>5 DEF Tracks, TypeOK, Run
    <3> QED BY <2>2, <2>3, <3>1, ReturnStep DEF Shutdown
  <2> QED BY <2>4, <2>5
<1>5. CASE Release
  <2>1. /\ renewal' \in Renewal /\ run.at = "release" /\ work = "ended"
        /\ UNCHANGED <<releaseOnCancel, cancelled, past, work, renewal, fatal>>
        /\ run.attempt \in 0 .. 2 /\ lease \in LeaseState /\ run \in Run
    BY <1>5 DEF Release, Tracks, TypeOK, Shutdown, Run, MaxAttempts
  <2>2. CASE /\ run.attempt = 0 /\ ~lease.held
             /\ run' = [run EXCEPT !.at = "returned"] /\ UNCHANGED lease
    <3>1. run' \in Run /\ run'.at = "returned" /\ run'.attempt = run.attempt
      BY <2>1, <2>2 DEF Run
    <3> QED BY <2>1, <2>2, <3>1, ReturnStep DEF Shutdown
  <2>3. CASE /\ run.attempt = 0 => lease.held
             /\ lease' = afterRelease(lease)
             /\ \/ run' = [run EXCEPT !.at = "returned", !.attempt = @ + 1]
                \/ /\ ~lease'.held /\ run.attempt + 1 < MaxAttempts
                   /\ run' = [run EXCEPT !.attempt = @ + 1]
    <3>1. lease' \in LeaseState /\ (lease'.held => lease.held)
      BY <2>1, <2>3, ReleaseKeeps
    <3>2. /\ run' \in Run /\ run'.attempt = run.attempt + 1
          /\ \/ run'.at = "returned"
             \/ run'.at = "release" /\ run'.attempt < MaxAttempts /\ ~lease'.held
      <4>1. run.attempt + 1 \in 0 .. 3 BY <2>1
      <4>2. CASE run' = [run EXCEPT !.at = "returned", !.attempt = @ + 1]
        BY <2>1, <4>1, <4>2 DEF Run, MaxAttempts
      <4>3. CASE /\ ~lease'.held /\ run.attempt + 1 < MaxAttempts
                 /\ run' = [run EXCEPT !.attempt = @ + 1]
        BY <2>1, <4>1, <4>3 DEF Run, MaxAttempts
      <4> QED BY <2>3, <4>2, <4>3
    <3>3. Tracks' BY <2>1, <3>1, <3>2 DEF Tracks, TypeOK, Shutdown
    <3>4. lease.held \in BOOLEAN /\ lease'.held \in BOOLEAN BY <2>1, <3>1 DEF LeaseState
    <3>5. CASE run.attempt = 0
      BY <2>1, <2>3, <3>2, <3>3, <3>4, <3>5
         DEF TenureStep, Candidate!Next, Candidate!AskRelease, phaseOf
    <3>6. CASE run.attempt # 0 /\ run'.at = "returned"
      <4>1. /\ phaseOf(life, run.at) = "stopping" /\ phaseOf(life, run.at)' = "over"
            /\ run.attempt > 0 /\ run'.attempt > 0
        BY <2>1, <3>2, <3>6 DEF phaseOf
      <4>2. lease'.held \in {FALSE, lease.held} BY <3>1, <3>4
      <4> QED BY <2>1, <3>3, <4>1, <4>2 DEF TenureStep, Candidate!Next, Candidate!End
    <3>7. CASE run.attempt # 0 /\ run'.at = "release"
      <4>1. /\ phaseOf(life, run.at)' = phaseOf(life, run.at)
            /\ run.attempt > 0 /\ run'.attempt > 0 /\ lease'.held = FALSE
        BY <2>1, <3>2, <3>4, <3>7
      <4>2. CASE lease.held = FALSE
        BY <2>1, <3>3, <4>1, <4>2 DEF TenureStep, Candidate!vars
      <4>3. CASE lease.held = TRUE
        BY <2>1, <3>3, <4>1, <4>3 DEF TenureStep, Candidate!Next, Candidate!Lapse
      <4> QED BY <3>4, <4>2, <4>3
    <3> QED BY <3>2, <3>5, <3>6, <3>7
  <2> QED BY <1>5, <2>2, <2>3 DEF Release
<1> QED BY <1>1, <1>2, <1>3, <1>4, <1>5

--------------------------------------------------------------------------------
LEMMA ElectionStep == Tracks /\ [ElectionNext]_allVars => Tracks' /\ TenureStep
<1> SUFFICES ASSUME Tracks, [ElectionNext]_allVars PROVE Tracks' /\ TenureStep OBVIOUS
<1>1. CASE AcquireStep \/ ElectorReturns \/ Lead BY <1>1, ElectorStep
<1>2. CASE HolderStep
  <2>1. life = "leading" /\ life' = life BY <1>2 DEF HolderStep, whileLeading, electorVars
  <2> QED BY <1>2, <2>1, SelectStep, ShutdownStep DEF HolderStep, RunStep
<1>3. CASE ObserverStep
  <2>1. /\ UNCHANGED <<releaseOnCancel, cancelled, lease, past, work, renewal, run, life>>
        /\ fatal' \in BOOLEAN
    BY <1>3 DEF ObserverStep, ObserverSelects, ElectedObserves, FatalReported, holderVars,
                vars, Tracks, TypeOK
  <2> QED BY <2>1, ObserverQuiet
<1>4. CASE UNCHANGED <<holderVars, electorVars>>
  BY <1>4, ObserverQuiet DEF holderVars, vars, electorVars, Tracks, TypeOK
<1>5. CASE Environment /\ UNCHANGED electorVars BY <1>5, EnvironmentStep
<1> QED BY <1>1, <1>2, <1>3, <1>4, <1>5 DEF ElectionNext, allVars

\* Elector.Run implements Tenure for every set of owners it may observe and any number
\* of transitions: work is admitted once and under a held lease, told to stop before
\* anything else, and joined before Release (Elector.Run, holder.Run).
THEOREM TenureRefinement == ElectionSpec => LeadsOnce
<1>1. ElectionInit => Tracks /\ Candidate!Init BY InitTracks
<1>2. Tracks /\ [ElectionNext]_allVars => Tracks' /\ [Candidate!Next]_(Candidate!vars)
  BY ElectionStep DEF TenureStep
<1> QED BY <1>1, <1>2, PTL DEF ElectionSpec, LeadsOnce, Candidate!Spec

--------------------------------------------------------------------------------
(***************************************************************************)
(* What shutdown does with the client.                                     *)
(***************************************************************************)

\* Run has not started: it knows of no renewal.
Fresh ==
  run.at = "start" =>
    /\ renewal.at = "none" /\ ~run.renewalPending /\ ~run.releaseSuppressed
    /\ lease.held => lease.unresolved = "no"

\* Shutdown comes to its cleanup only to release, and a renewal goroutine that it has
\* left behind has outlived the deadline.
Joined ==
  /\ run.at = "cleanup" => releaseWanted /\ ~run.releaseSuppressed
  /\ run.at = "cleanup" /\ renewal.at # "none" => past
  /\ run.at \in {"reconcile", "release"} => renewal.at # "calling"

\* Run goes on renewing, or may still come to a release.
live ==
  \/ run.at = "running"
  \/ run.at \in {"joining", "draining", "cleanup"} /\ releaseWanted /\ ~run.releaseSuppressed

\* Between two renewals Run knows whether it was told of an unknown outcome ...
KnowsPending ==
  lease.held /\ live /\ renewal.at = "none" =>
    (run.renewalPending <=> lease.unresolved = "reported")

\* ... a renewal knows whether it resolves an earlier one ...
KnowsResolving ==
  lease.held /\ renewal.at = "calling" /\ run.at \in {"running", "joining", "draining"} =>
    (renewal.resolving <=> lease.unresolved = "reported")

\* ... and its result tells what it has left.
KnowsResult ==
  lease.held /\ renewal.at = "result" /\ run.at \in {"running", "joining", "draining"} =>
    /\ renewal.o = "ok" => lease.unresolved = "no"
    /\ renewal.o = "unknown" => lease.unresolved = "reported"
    /\ renewal.o # "loss"
    /\ renewal.o \in {"unavailable", "other"} /\ ~renewal.resolving
         => lease.unresolved # "reported"
    /\ renewal.o = "unavailable" /\ renewal.resolving /\ run.at = "running" /\ ~cancelled
         => lease.unresolved = "reported"

Knows ==
  /\ Fresh /\ Joined /\ KnowsPending /\ KnowsResolving /\ KnowsResult
  /\ ReconcilesOnly /\ ReleaseAccepted

\* What Knows speaks of stays the same, or the lease has ended.
LEMMA KnowsQuiet ==
  ASSUME Knows, UNCHANGED <<releaseOnCancel, renewal, run>>,
         cancelled => cancelled', run.at = "cleanup" /\ past => past',
         lease' = lease \/ ~lease'.held
  PROVE  Knows'
BY DEF Knows, Fresh, Joined, live, releaseWanted, KnowsPending, KnowsResolving,
       KnowsResult, ReconcilesOnly, ReleaseAccepted

LEMMA KnowsEnvironment == ASSUME Tracks, Knows, Environment PROVE Knows'
<1>1. CASE Cancel BY <1>1, KnowsQuiet DEF Cancel
<1>2. CASE WorkReturns BY <1>2, KnowsQuiet DEF WorkReturns
<1>3. CASE LeaseEnds
  <2>1. run.at = "cleanup" /\ past => past' BY <1>3 DEF LeaseEnds, stopping
  <2> QED BY <1>3, <2>1, KnowsQuiet DEF LeaseEnds, NoLease
<1>4. CASE DeadlinePasses BY <1>4, KnowsQuiet DEF DeadlinePasses
<1>5. CASE RenewReturns
  <2>1. PICK o \in Outcome :
          /\ lease' \in afterRenew(lease, o, renewCancelled)
          /\ renewal' = [renewal EXCEPT !.at = "result", !.o = o]
    BY <1>5 DEF RenewReturns
  <2>2. /\ renewal.at = "calling" /\ UNCHANGED <<releaseOnCancel, cancelled, past, run>>
        /\ renewal'.at = "result" /\ renewal'.o = o /\ renewal'.resolving = renewal.resolving
    BY <1>5, <2>1 DEF RenewReturns, Tracks, TypeOK, Renewal
  <2>3. /\ ~(run.at \in {"start", "reconcile", "release"})
        /\ run.at = "cleanup" => past
    BY <2>2 DEF Knows, Fresh, Joined
  <2>4. KnowsResult'
    <3> SUFFICES ASSUME lease'.held, run.at \in {"running", "joining", "draining"}
                 PROVE  KnowsResult'
      BY <2>2 DEF KnowsResult
    <3>1. lease.held /\ lease \in LeaseState BY <2>1, RenewKeeps DEF Tracks, TypeOK
    <3>2. renewal.resolving <=> lease.unresolved = "reported"
      BY <2>2, <3>1 DEF Knows, KnowsResolving
    <3>3. CASE o = "ok"
      BY <2>1, <2>2, <3>1, <3>3 DEF afterRenew, dropped, LeaseState, KnowsResult
    <3>4. CASE o = "unknown"
      BY <2>1, <2>2, <3>1, <3>4 DEF afterRenew, LeaseState, KnowsResult
    <3>5. CASE o = "loss"
      BY <2>1, <3>1, <3>5 DEF afterRenew, NoLease
    <3>6. CASE o = "unavailable"
      <4>1. run.at = "running" => (renewCancelled <=> cancelled)
        BY DEF renewCancelled, stopping
      <4>2. lease' \in {kept(lease), dropped(lease)}
        BY <2>1, <3>1, <3>6 DEF afterRenew
      <4>3. ~renewCancelled /\ lease.unresolved = "reported" => lease' = kept(lease)
        BY <2>1, <3>1, <3>6 DEF afterRenew
      <4>4. /\ kept(lease).unresolved = "reported" <=> lease.unresolved = "reported"
            /\ dropped(lease).unresolved = "no"
        BY <3>1 DEF kept, dropped, LeaseState
      <4> QED BY <2>2, <3>2, <3>6, <4>1, <4>2, <4>3, <4>4 DEF KnowsResult
    <3>7. CASE o = "other"
      <4>1. lease' \in {kept(lease), dropped(lease), NoLease}
        BY <2>1, <3>1, <3>7 DEF afterRenew
      <4>2. /\ kept(lease).unresolved = "reported" <=> lease.unresolved = "reported"
            /\ dropped(lease).unresolved = "no" /\ NoLease.unresolved = "no"
        BY <3>1 DEF kept, dropped, LeaseState, NoLease
      <4> QED BY <2>2, <3>2, <3>7, <4>1, <4>2 DEF KnowsResult
    <3> QED BY <3>3, <3>4, <3>5, <3>6, <3>7 DEF Outcome
  <2>5. /\ Fresh' /\ Joined' /\ KnowsPending' /\ KnowsResolving'
        /\ ReconcilesOnly' /\ ReleaseAccepted'
    BY <2>2, <2>3 DEF Knows, Fresh, Joined, releaseWanted, KnowsPending, KnowsResolving,
                      ReconcilesOnly, ReleaseAccepted
  <2> QED BY <2>4, <2>5 DEF Knows
<1> QED BY <1>1, <1>2, <1>3, <1>4, <1>5 DEF Environment

\* Shutdown begins, with a renewal under way, with its result, or without either.
LEMMA KnowsStop ==
  ASSUME Tracks, Knows, run.at = "running", NEW r, r \in Run, r.at \in {"joining", "draining"},
         stop(r), UNCHANGED <<releaseOnCancel, cancelled, renewal>>,
         r.renewalPending = run.renewalPending
  PROVE  Knows'
<1>1. /\ lease'.held = lease.held /\ lease'.unresolved = lease.unresolved /\ run' = r
      /\ UNCHANGED renewal
  BY DEF stop, Tracks, TypeOK, LeaseState
<1> QED BY <1>1
    DEF Knows, Fresh, Joined, live, releaseWanted, KnowsPending,
        KnowsResolving, KnowsResult, ReconcilesOnly, ReleaseAccepted

\* Run takes a result, and what it then knows is true.
LEMMA KnowsTaken ==
  ASSUME Tracks, Knows, run' \in Run, run'.at \in {"running", "joining", "draining", "cleanup"},
         renewal' = NoRenewal,
         lease'.held = lease.held, lease'.unresolved = lease.unresolved,
         run'.at = "cleanup" => releaseWanted' /\ ~run'.releaseSuppressed,
         lease.held /\ live' => (run'.renewalPending <=> lease.unresolved = "reported")
  PROVE  Knows'
BY DEF Knows, Fresh, Joined, KnowsPending, KnowsResolving, KnowsResult, ReconcilesOnly,
       ReleaseAccepted, NoRenewal

\* stoppedRenewalState leaves the truth, or suppresses the release.
LEMMA KnowsStopped ==
  ASSUME Tracks, Knows, NEW r \in Run, renewal.at = "result", lease.held,
         run.at \in {"running", "joining", "draining"},
         ~stoppedRenewalState(r).releaseSuppressed
  PROVE  stoppedRenewalState(r).renewalPending <=> lease.unresolved = "reported"
<1>1. /\ stoppedRenewalState(r).renewalPending <=> renewal.o = "unknown"
      /\ renewal.o \in {"ok", "unknown"} \/ ~renewal.resolving
  BY DEF stoppedRenewalState, Run
<1>2. renewal.o \in Outcome BY DEF Tracks, TypeOK, Renewal
<1> QED BY <1>1, <1>2 DEF Knows, KnowsResult, Outcome

LEMMA KnowsSelect ==
  ASSUME Tracks, Knows, Start \/ SelectWork \/ SelectStop \/ RenewTimer \/ SelectResult
  PROVE  Knows'
<1>0. run \in Run /\ lease \in LeaseState BY DEF Tracks, TypeOK
<1>1. CASE Start
  <2>1. /\ renewal.at = "none" /\ ~run.renewalPending
        /\ lease.held => lease.unresolved = "no"
        /\ UNCHANGED <<releaseOnCancel, cancelled, lease, past, renewal>>
    BY <1>1 DEF Start, Knows, Fresh
  <2>2. /\ run'.at \in {"running", "returned"} /\ run'.renewalPending = run.renewalPending
    BY <1>0, <1>1 DEF Start, Run
  <2> QED BY <2>1, <2>2
      DEF Knows, Fresh, Joined, live, releaseWanted, KnowsPending,
          KnowsResolving, KnowsResult, ReconcilesOnly, ReleaseAccepted
<1>2. CASE SelectWork
  <2> DEFINE r == [run EXCEPT !.at = "draining",
                       !.cause = IF cancelled THEN "callerCanceled" ELSE "workReturned"]
  <2>1. r \in Run /\ r.at = "draining" /\ r.renewalPending = run.renewalPending
    BY <1>0 DEF Run
  <2> QED BY <1>2, <2>1, KnowsStop DEF SelectWork
<1>3. ASSUME NEW why \in {"callerCanceled", "leaseLost", "fatal"}, breakRunning(why),
             run.at = "running", UNCHANGED <<releaseOnCancel, cancelled, renewal>>
      PROVE  Knows'
  <2> DEFINE r == [run EXCEPT !.at = "joining", !.cause = why]
  <2>1. r \in Run /\ r.at = "joining" /\ r.renewalPending = run.renewalPending
    BY <1>0 DEF Run
  <2> QED BY <1>3, <2>1, KnowsStop DEF breakRunning
<1>4. CASE SelectStop BY <1>3, <1>4 DEF SelectStop
<1>5. CASE RenewTimer
  <2>1. /\ run.at = "running" /\ renewal.at = "none" /\ renewal'.at = "calling"
        /\ renewal'.resolving = run.renewalPending
        /\ UNCHANGED <<releaseOnCancel, cancelled, lease, past, run>>
    BY <1>5 DEF RenewTimer
  <2> QED BY <2>1
      DEF Knows, Fresh, Joined, live, releaseWanted, KnowsPending,
          KnowsResolving, KnowsResult, ReconcilesOnly, ReleaseAccepted
<1>6. CASE SelectResult
  <2>1. /\ run.at = "running" /\ renewal.at = "result" /\ renewal' = NoRenewal
        /\ UNCHANGED <<releaseOnCancel, cancelled>>
        /\ renewal.o \in Outcome /\ renewal.resolving \in BOOLEAN
    BY <1>6 DEF SelectResult, Tracks, TypeOK, Renewal
  <2>2. ASSUME NEW known \in BOOLEAN, goOn(known),
               lease.held => (known <=> lease.unresolved = "reported")
        PROVE  Knows'
    <3>1. run' \in Run /\ run'.at = "running" /\ run'.renewalPending = known /\ lease' = lease
      BY <1>0, <2>1, <2>2 DEF goOn, Run
    <3> QED BY <2>1, <2>2, <3>1, KnowsTaken
  <2>3. ASSUME NEW why \in {"leaseLost", "fatal"}, breakRunning(why) PROVE Knows'
    <3>1. /\ run' = [run EXCEPT !.at = "joining", !.cause = why]
          /\ lease' = [lease EXCEPT !.extended = FALSE]
      BY <2>3 DEF breakRunning, stop
    <3>2. /\ run' \in Run /\ run'.at = "joining" /\ run'.cause = why
          /\ lease'.held = lease.held /\ lease'.unresolved = lease.unresolved
      BY <1>0, <3>1 DEF Run, LeaseState
    <3>3. ~live' BY <3>2 DEF live, releaseWanted
    <3> QED BY <2>1, <3>2, <3>3, KnowsTaken
  <2>4. CASE stop(stoppedRenewalState([run EXCEPT !.at = "joining", !.cause = "callerCanceled"]))
    <3> DEFINE r == [run EXCEPT !.at = "joining", !.cause = "callerCanceled"]
    <3>1. r \in Run /\ r.at = "joining" BY <1>0 DEF Run
    <3>2. /\ run' = stoppedRenewalState(r) /\ run' \in Run /\ run'.at = "joining"
          /\ lease' = [lease EXCEPT !.extended = FALSE]
      BY <2>4, <3>1, StoppedState DEF stop
    <3>3. lease'.held = lease.held /\ lease'.unresolved = lease.unresolved
      BY <1>0, <3>2 DEF LeaseState
    <3>4. lease.held /\ live' => (run'.renewalPending <=> lease.unresolved = "reported")
      BY <2>1, <3>1, <3>2, KnowsStopped DEF live
    <3> QED BY <2>1, <3>2, <3>3, <3>4, KnowsTaken
  <2>5. CASE renewal.o = "ok" /\ goOn(FALSE)
    BY <2>1, <2>2, <2>5 DEF Knows, KnowsResult
  <2>6. CASE renewal.o = "unknown" /\ goOn(TRUE)
    BY <2>1, <2>2, <2>6 DEF Knows, KnowsResult
  <2>7. CASE renewal.o = "unavailable" /\ ~cancelled /\ goOn(renewal.resolving)
    BY <2>1, <2>2, <2>7 DEF Knows, KnowsResult
  <2> QED BY <1>6, <2>3, <2>4, <2>5, <2>6, <2>7 DEF SelectResult
<1> QED BY <1>1, <1>2, <1>4, <1>5, <1>6

LEMMA KnowsShutdown ==
  ASSUME Tracks, Knows, Join \/ Drain \/ Cleanup \/ Reconcile \/ Release
  PROVE  Knows'
<1>0. run \in Run /\ lease \in LeaseState BY DEF Tracks, TypeOK
<1>1. ASSUME run'.at = "returned" PROVE Knows'
  BY <1>1
      DEF Knows, Fresh, Joined, live, releaseWanted, KnowsPending,
          KnowsResolving, KnowsResult, ReconcilesOnly, ReleaseAccepted
<1>2. CASE Join
  <2>1. /\ run.at = "joining" /\ run'.at \in {"draining", "returned"}
        /\ run'.renewalPending = run.renewalPending /\ run'.cause = run.cause
        /\ run'.releaseSuppressed = run.releaseSuppressed
        /\ UNCHANGED <<releaseOnCancel, cancelled, lease, past, renewal>>
    BY <1>0, <1>2 DEF Join, Run
  <2> QED BY <2>1
      DEF Knows, Fresh, Joined, live, releaseWanted, KnowsPending,
          KnowsResolving, KnowsResult, ReconcilesOnly, ReleaseAccepted
<1>3. CASE Drain
  <2>1. run.at = "draining" /\ UNCHANGED <<releaseOnCancel, cancelled, lease, past>>
    BY <1>3 DEF Drain
  <2>2. ASSUME NEW r \in Run, drained(r)
        PROVE  /\ run' \in Run /\ run'.at \in {"cleanup", "returned"} /\ run'.cause = r.cause
               /\ run'.renewalPending = r.renewalPending
               /\ run'.releaseSuppressed = r.releaseSuppressed
               /\ run'.at = "cleanup" => releaseWanted /\ ~r.releaseSuppressed
    BY <2>2 DEF drained, Run
  <2>3. CASE renewal.at = "result" /\ drained(stoppedRenewalState(run)) /\ renewal' = NoRenewal
    <3>1. lease.held /\ live' => (run'.renewalPending <=> lease.unresolved = "reported")
      BY <1>0, <2>1, <2>2, <2>3, StoppedState, KnowsStopped DEF live
    <3>2. run' \in Run /\ run'.at \in {"cleanup", "returned"}
      BY <1>0, <2>2, <2>3, StoppedState
    <3>3. run'.at = "cleanup" => releaseWanted' /\ ~run'.releaseSuppressed
      <4>1. stoppedRenewalState(run) \in Run /\ stoppedRenewalState(run).cause = run.cause
        BY <1>0, StoppedState DEF stoppedRenewalState, Run
      <4> QED BY <2>1, <2>2, <2>3, <4>1 DEF releaseWanted
    <3> QED BY <1>1, <2>1, <2>3, <3>1, <3>2, <3>3, KnowsTaken
  <2>4. CASE drained(run) /\ UNCHANGED renewal /\ (renewal.at = "none" \/ past)
    BY <1>0, <1>1, <2>1, <2>2, <2>4
        DEF Knows, Fresh, Joined, live, releaseWanted, KnowsPending,
            KnowsResolving, KnowsResult, ReconcilesOnly, ReleaseAccepted
  <2> QED BY <1>3, <2>3, <2>4 DEF Drain
<1>4. CASE Cleanup
  <2>1. /\ run.at = "cleanup" /\ UNCHANGED <<releaseOnCancel, cancelled, lease, past, renewal>>
        /\ \/ run'.at = "returned"
           \/ ~past /\ run'.at = IF run.renewalPending THEN "reconcile" ELSE "release"
        /\ run'.cause = run.cause
    BY <1>0, <1>4 DEF Cleanup, Run
  <2> QED BY <1>1, <2>1
      DEF Knows, Fresh, Joined, live, releaseWanted, KnowsPending,
          KnowsResolving, KnowsResult, ReconcilesOnly, ReleaseAccepted
<1>5. CASE Reconcile
  <2>1. PICK o \in Outcome :
          /\ lease' \in afterRenew(lease, o, TRUE)
          /\ run' = [run EXCEPT !.at = IF o = "ok" THEN "release" ELSE "returned"]
    BY <1>5 DEF Reconcile
  <2>2. CASE o = "ok"
    <3>1. lease.held BY <1>0, <2>1, <2>2, RenewKeeps
    <3>2. lease'.unresolved = "no"
      BY <1>0, <2>1, <2>2, <3>1 DEF afterRenew, dropped, LeaseState
    <3>3. run'.at = "release" /\ UNCHANGED renewal /\ renewal.at # "calling"
      BY <1>0, <1>5, <2>1, <2>2 DEF Run, Reconcile, Knows, Joined
    <3> QED BY <3>2, <3>3
        DEF Knows, Fresh, Joined, live, releaseWanted, KnowsPending,
            KnowsResolving, KnowsResult, ReconcilesOnly, ReleaseAccepted
  <2>3. CASE o # "ok"
    <3>1. run'.at = "returned" BY <1>0, <2>1, <2>3 DEF Run
    <3> QED BY <1>1, <3>1
  <2> QED BY <2>2, <2>3
<1>6. CASE Release
  <2>1. CASE run'.at = "returned" BY <1>1, <2>1
  <2>2. CASE run'.at = "release"
    <3>1. UNCHANGED renewal /\ renewal.at # "calling"
      BY <1>6 DEF Release, Knows, Joined
    <3>2. ~lease'.held
      <4>1. run' # [run EXCEPT !.at = "returned"]
            /\ run' # [run EXCEPT !.at = "returned", !.attempt = @ + 1]
        BY <1>0, <2>2 DEF Run
      <4> QED BY <1>6, <4>1 DEF Release
    <3> QED BY <2>2, <3>1, <3>2
        DEF Knows, Fresh, Joined, live, releaseWanted, KnowsPending,
            KnowsResolving, KnowsResult, ReconcilesOnly, ReleaseAccepted
  <2>3. run'.at \in {"returned", "release"} BY <1>0, <1>6 DEF Release, Run
  <2> QED BY <2>1, <2>2, <2>3
<1> QED BY <1>2, <1>3, <1>4, <1>5, <1>6

LEMMA KnowsInit == ElectionInit => Knows
<1> SUFFICES ASSUME ElectionInit PROVE Knows OBVIOUS
<1>1. run.at = "start" /\ ~run.renewalPending /\ ~run.releaseSuppressed /\ ~lease.held
      /\ renewal.at = "none"
  BY DEF ElectionInit, InitWith, NewRun, NoLease, NoRenewal
<1> QED BY <1>1
    DEF Knows, Fresh, Joined, live, releaseWanted, KnowsPending,
        KnowsResolving, KnowsResult, ReconcilesOnly, ReleaseAccepted

LEMMA KnowsStep == Tracks /\ Knows /\ [ElectionNext]_allVars => Knows'
<1> SUFFICES ASSUME Tracks, Knows, [ElectionNext]_allVars PROVE Knows' OBVIOUS
<1>1. CASE RequireReturns /\ lease' = NewLease
  <2>1. run.at = "start" BY <1>1 DEF RequireReturns, acquiring, Tracks
  <2> QED BY <1>1, <2>1 DEF RequireReturns, NewLease, NoLease, Knows, Fresh, Joined, live,
        KnowsPending, KnowsResolving, KnowsResult, ReconcilesOnly, ReleaseAccepted
<1>2. CASE UNCHANGED <<releaseOnCancel, cancelled, lease, past, renewal, run>>
  BY <1>2, KnowsQuiet
<1>3. CASE HolderStep BY <1>3, KnowsSelect, KnowsShutdown DEF HolderStep, RunStep
<1>4. CASE Environment BY <1>4, KnowsEnvironment
<1>5. CASE ObserverStep
  BY <1>2, <1>5 DEF ObserverStep, ObserverSelects, ElectedObserves, FatalReported, holderVars, vars
<1>6. CASE AcquireStep \/ ElectorReturns \/ Lead
  BY <1>1, <1>2, <1>6 DEF AcquireStep, RequireReturns, AcquireSelects, ObserveReturns,
                          ElectorReturns, Lead, holderVars, vars
<1>7. CASE UNCHANGED holderVars BY <1>2, <1>7 DEF holderVars, vars
<1> QED BY <1>3, <1>4, <1>5, <1>6, <1>7 DEF ElectionNext, allVars

LEMMA KnowsInvariance == ElectionSpec => []Knows
<1>1. ElectionInit => Tracks /\ Knows BY InitTracks, KnowsInit
<1>2. Tracks /\ Knows /\ [ElectionNext]_allVars => (Tracks /\ Knows)'
  BY ElectionStep, KnowsStep
<1> QED BY <1>1, <1>2, PTL DEF ElectionSpec

\* The shutdown of an elector never calls the client while its renewal goroutine does
\* (waitRenewal and cleanupContext of holder.go).
THEOREM ShutdownAlone == ElectionSpec => []ReleaseAlone
<1>1. Knows => ReleaseAlone BY DEF Knows, Joined, ReleaseAlone
<1> QED BY <1>1, KnowsInvariance, PTL

\* The Renew of shutdown always resolves a renewal the core keeps, and never starts one
\* for work that has ended (stoppedRenewalState and shutdown of holder.go).
THEOREM ShutdownReconciles == ElectionSpec => []ReconcilesOnly
<1>1. Knows => ReconcilesOnly BY DEF Knows
<1> QED BY <1>1, KnowsInvariance, PTL

\* Release is never called while a renewal is open that Run was told of (shutdown of
\* holder.go).
THEOREM ShutdownReleases == ElectionSpec => []ReleaseAccepted
<1>1. Knows => ReleaseAccepted BY DEF Knows
<1> QED BY <1>1, KnowsInvariance, PTL

--------------------------------------------------------------------------------
(***************************************************************************)
(* The dispatcher inside the election.                                     *)
(***************************************************************************)

Delivery == INSTANCE DispatcherProofs

\* A step of the dispatcher, as DispatcherProofs reasons about it.
LEMMA SubmitDelivers == ASSUME NEW o \in Ownership, Dispatcher!Submit(o) PROVE Delivery!Next
<1>1. Delivery!Submit(o)
  BY DEF Dispatcher!Submit, Dispatcher!seenLast, Dispatcher!accept, Dispatcher!enqueue,
         Dispatcher!spawn, Delivery!Submit, Delivery!seenLast, Delivery!accept,
         Delivery!enqueue, Delivery!spawn
<1> QED BY <1>1 DEF Delivery!Next

LEMMA StopDelivers == Dispatcher!Stop => Delivery!Next
BY DEF Dispatcher!Stop, Delivery!Stop, Delivery!Next

LEMMA DeliverDelivers == Dispatcher!DeliverStep => Delivery!Next
<1> SUFFICES ASSUME NEW d \in deliverers,
                    Dispatcher!CallbackStarts(d) \/ Dispatcher!CallbackReturns(d)
             PROVE  Delivery!CallbackStarts(d) \/ Delivery!CallbackReturns(d)
  BY DEF Dispatcher!DeliverStep, Delivery!DeliverStep, Delivery!Next
<1> QED BY DEF Dispatcher!CallbackStarts, Dispatcher!CallbackReturns, Dispatcher!takePending,
               Delivery!CallbackStarts, Delivery!CallbackReturns, Delivery!takePending

\* Whatever the elector does, its dispatcher is only submitted to, stopped or left alone.
LEMMA DispatcherStep == [ElectionNext]_allVars => [Delivery!Next]_(Delivery!vars)
<1> SUFFICES ASSUME [ElectionNext]_allVars, ~Delivery!Next PROVE UNCHANGED Delivery!vars
  OBVIOUS
<1>1. dispatcherVars = Delivery!vars /\ dispatcherVars' = Delivery!vars'
  BY DEF dispatcherVars, Delivery!vars
<1>2. submitted => UNCHANGED dispatcherVars BY SubmitDelivers DEF submitted
<1>3. stopAll => UNCHANGED dispatcherVars BY StopDelivers DEF stopAll
<1>4. AcquireStep => UNCHANGED dispatcherVars
  BY <1>2 DEF AcquireStep, RequireReturns, AcquireSelects, ObserveReturns
<1>5. ElectorReturns \/ Lead \/ HolderStep => UNCHANGED dispatcherVars
  BY <1>3 DEF ElectorReturns, Lead, HolderStep, whileLeading
<1>6. ObserverStep => UNCHANGED dispatcherVars
  BY <1>2 DEF ObserverStep, ObserverSelects, ElectedObserves
<1>7. UNCHANGED dispatcherVars
  BY <1>4, <1>5, <1>6, DeliverDelivers DEF ElectionNext, allVars
<1> QED BY <1>1, <1>7

LEMMA ElectionDelivers == ElectionSpec => Delivery!Spec
<1>1. ElectionInit => Delivery!Init BY DEF ElectionInit, Dispatcher!Init, Delivery!Init
<1> QED BY <1>1, DispatcherStep, PTL DEF ElectionSpec, Delivery!Spec

\* In an election, too, one callback executes at a time, transitions reach it in order,
\* and at most one starts after Run has stopped the dispatcher (OnObservation, onObserved
\* and dispatcher.Stop of leaderelection.go).
THEOREM ElectorDelivers ==
  ElectionSpec => [](Dispatcher!SerialDelivery /\ Dispatcher!StopDiscards)
<1>1. Delivery!SerialDelivery /\ Delivery!StopDiscards
        => Dispatcher!SerialDelivery /\ Dispatcher!StopDiscards
  BY DEF Dispatcher!SerialDelivery, Dispatcher!StopDiscards, Delivery!SerialDelivery,
         Delivery!StopDiscards
<1> QED BY <1>1, ElectionDelivers, Delivery!Serial, Delivery!StopIsEffective,
           ObservationAssumption, PTL

ElectorTypes ==
  /\ acq \in {"require", "select", "observe", "leave"}
  /\ observer \in {"none", "waiting", "observing", "ended"}

LEMMA ElectorTypesStep == ElectorTypes /\ [ElectionNext]_allVars => ElectorTypes'
<1> SUFFICES ASSUME ElectorTypes, [ElectionNext]_allVars PROVE ElectorTypes' OBVIOUS
<1>1. CASE UNCHANGED electorVars BY <1>1 DEF electorVars, ElectorTypes
<1>2. CASE AcquireStep
  BY <1>2 DEF AcquireStep, RequireReturns, AcquireSelects, ObserveReturns, afterError,
              ElectorTypes
<1>3. CASE ElectorReturns \/ Lead \/ ObserverStep
  BY <1>3 DEF ElectorReturns, Lead, ObserverStep, ObserverSelects, ElectedObserves, ElectorTypes
<1> QED BY <1>1, <1>2, <1>3 DEF ElectionNext, HolderStep, whileLeading, allVars

\* Every variable of the election keeps its type, those of the holder and of the
\* dispatcher included (Elector.Run, acquire.Run, the elected observer).
THEOREM ElectionTypes == ElectionSpec => []ElectionTypeOK
<1>1. ElectionInit => ElectorTypes BY DEF ElectionInit, ElectorTypes
<1>2. ElectionSpec => []ElectorTypes BY <1>1, ElectorTypesStep, PTL DEF ElectionSpec
<1>3. ElectionSpec => []Tracks BY InitTracks, ElectionStep, PTL DEF ElectionSpec
<1>4. Delivery!TypeOK => Dispatcher!TypeOK
  BY DEF Delivery!TypeOK, Dispatcher!TypeOK, Delivery!Deliverer, Dispatcher!Deliverer
<1>5. Tracks /\ ElectorTypes /\ Dispatcher!TypeOK => ElectionTypeOK
  BY DEF Tracks, ElectorTypes, ElectionTypeOK
<1> QED BY <1>2, <1>3, <1>4, <1>5, ElectionDelivers, Delivery!DispatcherTypes,
           ObservationAssumption, PTL
================================================================================
