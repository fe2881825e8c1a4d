------------------------------ MODULE MutexProofs ------------------------------
(***************************************************************************)
(* The reusable mutex is safe for every number of callers of Release and   *)
(* of acquisitions.                                                        *)
(***************************************************************************)
EXTENDS ManualMutex, TLAPS

Ended == {"stopped", "done"}
Over == {"returned", "stopped", "done"}
Inside == {"working", "waiting", "stuck"}

\* A Lock gets its goroutine when it is acquired, and only the latest acquisition
\* can have a lease.
Latest ==
  /\ \A k \in K : k > acquired => loop[k].at = "none"
  /\ \A k \in K : lease[k].held => k = acquired

\* The mutex belongs to one call that has entered, or to the latest Lock.
Occupied ==
  /\ manual # 0 => busy /\ entry = "none" /\ manual = acquired
  /\ entry # "none" => busy
  /\ entry \in Inside => acquired # 0 /\ loop[acquired].at = "none"
  /\ \A k \in cleanup : loop[k].at = "none" => entry = "waiting" /\ k = acquired

\* A lease that is held belongs to the Lock in the mutex, to a scoped acquisition,
\* or to a Lock that was given up when its first deadline had passed.
HeldBy ==
  \A k \in K : lease[k].held =>
    \/ manual = k
    \/ loop[k].at = "none" /\ entry \in Inside
    \/ lock[k].closed /\ lease[k].extended

\* A Release keeps its Lock releasing, and is the only one of its Lock.
OneRelease ==
  /\ \A c \in Caller : rel[c].at # "idle" =>
       /\ rel[c].k \in K /\ loop[rel[c].k].at # "none"
       /\ rel[c].k = manual => releasing
  /\ \A c, d \in Caller :
       rel[c].at # "idle" /\ rel[d].at # "idle" /\ rel[c].k = rel[d].k => c = d

\* ReleasingAccounted, with the reason for which the loop is about to abandon.
Accounted ==
  releasing =>
    /\ busy /\ manual # 0
    /\ \/ \E c \in Caller : rel[c].at # "idle" /\ rel[c].k = manual
       \/ loop[manual].at = "stopped" /\ loop[manual].result.err = "error"
       \/ manual \in cleanup

\* What the loop has returned, and what it publishes and does about it.
Results ==
  \A k \in K :
    /\ lock[k].stopped => loop[k].at \in Ended /\ lock[k].result = loop[k].result
    /\ loop[k].at \in Over =>
         /\ loop[k].result.err = "lost" => ~lease[k].held
         /\ loop[k].result.suppressRelease => loop[k].result.err = "error"
    /\ loop[k].at = "done" /\ loop[k].result.err = "error" /\ manual = k => k \in cleanup

\* The loop knows of a renewal that the client has reported as unknown.
LoopKnows ==
  \A k \in K : lease[k].held /\ lease[k].unresolved = "reported" =>
    /\ loop[k].at \in {"select", "renewing"} => loop[k].pending
    /\ loop[k].at \in Over => loop[k].result.pending \/ loop[k].result.suppressRelease

\* Release knows it from the loop, which has ended by then.
ReleaseKnows ==
  \A c \in Caller :
    /\ rel[c].at \in {"cleanup", "reconcile", "release"} => loop[rel[c].k].at \in Ended
    /\ rel[c].at = "cleanup" =>
         /\ rel[c].result.pending = loop[rel[c].k].result.pending
         /\ rel[c].result.suppressRelease = loop[rel[c].k].result.suppressRelease
    /\ rel[c].at = "reconcile" => loop[rel[c].k].result.pending
    /\ rel[c].at = "release" /\ lease[rel[c].k].held => lease[rel[c].k].unresolved # "reported"

MutexInv ==
  /\ TypeOK /\ Latest /\ Occupied /\ HeldBy /\ OneRelease
  /\ Accounted /\ Results /\ LoopKnows /\ ReleaseKnows

--------------------------------------------------------------------------------
(***************************************************************************)
(* What the invariant says, and the initial state.                         *)
(***************************************************************************)

LEMMA InvariantImplies ==
  ASSUME MutexInv
  PROVE  /\ TypeOK /\ HeldKeepsBusy /\ ReleasingAccounted
         /\ ReleaseAlone /\ ReleaseAccepted /\ AuthorityKeepsBusy
<1>1. TypeOK BY DEF MutexInv
<1>2. HeldKeepsBusy BY DEF MutexInv, Occupied, HeldBy, HeldKeepsBusy, K
<1>3. ReleasingAccounted BY DEF MutexInv, Accounted, ReleasingAccounted
<1>4. ReleaseAlone BY DEF MutexInv, ReleaseKnows, ReleaseAlone, Ended
<1>5. ReleaseAccepted BY DEF MutexInv, ReleaseKnows, ReleaseAccepted
<1>6. AuthorityKeepsBusy
  BY LocksAssumption DEF MutexInv, Occupied, HeldBy, AuthorityKeepsBusy, Inside, K
<1> QED BY <1>1, <1>2, <1>3, <1>4, <1>5, <1>6

LEMMA NoResultType == NoResult \in Result
BY DEF NoResult, Result, Err

LEMMA NewTypes ==
  /\ NoLease \in LeaseState /\ ~NoLease.held
  /\ NewLease \in LeaseState /\ NewLease.held /\ NewLease.unresolved = "no"
  /\ NewLock \in LockState /\ ~NewLock.stopped
  /\ NoLoop \in LoopState /\ NoLoop.at = "none"
  /\ NoRel \in RelState /\ NoRel.at = "idle"
<1>1. NoLease \in LeaseState /\ ~NoLease.held BY DEF NoLease, LeaseState
<1>2. NewLease \in LeaseState /\ NewLease.held /\ NewLease.unresolved = "no"
  BY DEF NewLease, NoLease, LeaseState
<1>3. NewLock \in LockState /\ ~NewLock.stopped
  BY NoResultType DEF NewLock, LockState, Err
<1>4. NoLoop \in LoopState /\ NoLoop.at = "none"
  BY NoResultType DEF NoLoop, LoopState
<1>5. NoRel \in RelState /\ NoRel.at = "idle"
  BY NoResultType, LocksAssumption DEF NoRel, RelState
<1> QED BY <1>1, <1>2, <1>3, <1>4, <1>5

LEMMA InitMutex == Init => MutexInv
<1> SUFFICES ASSUME Init PROVE MutexInv OBVIOUS
<1>1. TypeOK
  <2>1. /\ lease \in [K -> LeaseState] /\ lock \in [K -> LockState] /\ loop \in [K -> LoopState]
        /\ rel \in [Caller -> RelState]
    BY NewTypes DEF Init
  <2>2. busy \in BOOLEAN /\ releasing \in BOOLEAN BY Zenon DEF Init
  <2>3. acquired \in 0 .. MaxLocks BY LocksAssumption DEF Init
  <2> QED BY <2>1, <2>2, <2>3 DEF Init, TypeOK
<1>2. \A k \in K : ~lease[k].held /\ loop[k].at = "none" /\ ~lock[k].stopped
  BY NewTypes DEF Init
<1>3. \A c \in Caller : rel[c].at = "idle"
  BY NewTypes DEF Init
<1>4. Latest /\ Occupied /\ HeldBy BY <1>2 DEF Init, Latest, Occupied, HeldBy, Inside
<1>5. OneRelease /\ Accounted /\ Results /\ LoopKnows /\ ReleaseKnows
  BY <1>2, <1>3 DEF Init, OneRelease, Accounted, Results, LoopKnows, ReleaseKnows, Over
<1> QED BY <1>1, <1>4, <1>5 DEF MutexInv

--------------------------------------------------------------------------------
(***************************************************************************)
(* Entering the mutex, and the end of a lease.                             *)
(***************************************************************************)

LEMMA EnterStep ==
  ASSUME MutexInv, NEW how \in {"try", "with"}, Enter(how)
  PROVE  MutexInv'
<1>1. TypeOK' BY DEF MutexInv, TypeOK, Enter
<1>2. Latest' BY DEF MutexInv, Latest, Enter
<1>3. Occupied' BY DEF MutexInv, Occupied, Enter, Inside
<1>4. HeldBy' BY DEF MutexInv, HeldBy, Occupied, Enter, Inside
<1>5. OneRelease' BY DEF MutexInv, OneRelease, Enter
<1>6. Accounted' BY DEF MutexInv, Accounted, Enter
<1>7. Results' /\ LoopKnows' /\ ReleaseKnows'
  BY DEF MutexInv, Results, LoopKnows, ReleaseKnows, Enter
<1> QED BY <1>1, <1>2, <1>3, <1>4, <1>5, <1>6, <1>7 DEF MutexInv

LEMMA AcquireFailsStep ==
  ASSUME MutexInv, AcquireFails
  PROVE  MutexInv'
<1>0. manual = 0 /\ manual' = 0 /\ ~releasing' BY DEF MutexInv, Occupied, AcquireFails, clearBusy
<1>1. TypeOK' BY DEF MutexInv, TypeOK, AcquireFails, clearBusy
<1>2. Latest' BY DEF MutexInv, Latest, AcquireFails
<1>3. Occupied' BY <1>0 DEF MutexInv, Occupied, AcquireFails, Inside
<1>4. HeldBy' BY <1>0 DEF MutexInv, HeldBy, AcquireFails, Inside
<1>5. OneRelease' BY <1>0, LocksAssumption DEF MutexInv, OneRelease, AcquireFails, K
<1>6. Accounted' BY <1>0 DEF MutexInv, Accounted
<1>7. Results' /\ LoopKnows' /\ ReleaseKnows'
  BY <1>0 DEF MutexInv, Results, LoopKnows, ReleaseKnows, AcquireFails
<1> QED BY <1>1, <1>2, <1>3, <1>4, <1>5, <1>6, <1>7 DEF MutexInv

LEMMA LeaseEndsStep ==
  ASSUME MutexInv, NEW k \in K, LeaseEnds(k)
  PROVE  MutexInv'
<1>0. /\ lease' \in [K -> LeaseState]
      /\ \A j \in K : lease'[j] = lease[j] \/ ~lease'[j].held
  BY NewTypes DEF MutexInv, TypeOK, LeaseEnds
<1> USE DEF LeaseEnds, mutexVars
<1>1. TypeOK' BY <1>0 DEF MutexInv, TypeOK
<1>2. Latest' BY <1>0 DEF MutexInv, Latest
<1>3. Occupied' BY DEF MutexInv, Occupied
<1>4. HeldBy' BY <1>0 DEF MutexInv, HeldBy
<1>5. OneRelease' BY DEF MutexInv, OneRelease
<1>6. Accounted' BY DEF MutexInv, Accounted
<1>7. Results' /\ LoopKnows' BY <1>0 DEF MutexInv, Results, LoopKnows
<1>8. ReleaseKnows' BY <1>0 DEF MutexInv, ReleaseKnows, OneRelease
<1> QED BY <1>1, <1>2, <1>3, <1>4, <1>5, <1>6, <1>7, <1>8 DEF MutexInv

\* The next acquisition is a Lock or a lease that nobody knows yet.
LEMMA Acquisition ==
  ASSUME MutexInv, canAcquire, lease' = [lease EXCEPT ![acquired + 1] = NewLease],
         acquired' = acquired + 1
  PROVE  /\ acquired + 1 \in K /\ acquired' \in 0 .. MaxLocks
         /\ lease' \in [K -> LeaseState]
         /\ \A k \in K : lease'[k].held => k = acquired + 1
         /\ \A k \in K : lease'[k].held => lease'[k].unresolved = "no"
         /\ loop[acquired + 1].at = "none" /\ ~lock[acquired + 1].stopped
         /\ \A c \in Caller : rel[c].at # "idle" => rel[c].k # acquired + 1
         /\ \A k \in K : lease'[k] = lease[k] \/ k = acquired + 1
<1>1. acquired \in 0 .. MaxLocks /\ lease \in [K -> LeaseState] /\ acquired < MaxLocks
      /\ \A k \in K : ~lease[k].held
  BY DEF MutexInv, TypeOK, canAcquire
<1>2. acquired + 1 \in K /\ acquired' \in 0 .. MaxLocks BY <1>1, LocksAssumption DEF K
<1>3. lease' \in [K -> LeaseState] /\ \A k \in K : lease'[k] = IF k = acquired + 1 THEN NewLease ELSE lease[k]
  BY <1>1, <1>2, NewTypes
<1>4. loop[acquired + 1].at = "none" BY <1>1, <1>2 DEF MutexInv, Latest
<1> QED BY <1>1, <1>2, <1>3, <1>4, NewTypes DEF MutexInv, OneRelease, Results, Ended

LEMMA TryLockStep ==
  ASSUME MutexInv, TryLockReturns
  PROVE  MutexInv'
<1> DEFINE n == acquired + 1
<1> USE DEF TryLockReturns
<1>0. /\ n \in K /\ acquired' \in 0 .. MaxLocks /\ acquired' = n /\ manual' = n /\ n # 0
      /\ lease' \in [K -> LeaseState] /\ \A k \in K : lease'[k].held => k = n
      /\ \A k \in K : lease'[k].held => lease'[k].unresolved = "no"
      /\ loop[n].at = "none" /\ ~lock[n].stopped
      /\ \A c \in Caller : rel[c].at # "idle" => rel[c].k # n
      /\ \A k \in K : lease'[k] = lease[k] \/ k = n
  BY Acquisition DEF K
<1>a. /\ loop' \in [K -> LoopState] /\ loop'[n].at = "select"
      /\ \A k \in K : k # n => loop'[k] = loop[k]
  BY <1>0 DEF MutexInv, TypeOK, LoopState
<1> HIDE DEF n
<1>b. busy /\ manual = 0 /\ ~releasing BY DEF MutexInv, Occupied, Accounted
<1>1. TypeOK' BY <1>0, <1>a DEF MutexInv, TypeOK
<1>2. Latest' BY <1>0, <1>a DEF MutexInv, Latest, n, K, TypeOK
<1>3. Occupied' BY <1>0, <1>a, <1>b DEF MutexInv, Occupied, Inside, TypeOK
<1>4. HeldBy' BY <1>0 DEF HeldBy
<1>5. OneRelease' BY <1>0, <1>a DEF MutexInv, OneRelease
<1>6. Accounted' BY <1>b DEF Accounted
<1>7. Results' BY <1>0, <1>a DEF MutexInv, Results, Over, Ended
<1>8. LoopKnows' BY <1>0 DEF LoopKnows
<1>9. ReleaseKnows' BY <1>0, <1>a DEF MutexInv, ReleaseKnows, OneRelease
<1> QED BY <1>1, <1>2, <1>3, <1>4, <1>5, <1>6, <1>7, <1>8, <1>9 DEF MutexInv

LEMMA WithLockStep ==
  ASSUME MutexInv, WithLockStarts
  PROVE  MutexInv'
<1> DEFINE n == acquired + 1
<1> USE DEF WithLockStarts, mutexVars
<1>0. /\ n \in K /\ acquired' \in 0 .. MaxLocks /\ acquired' = n /\ n # 0
      /\ lease' \in [K -> LeaseState] /\ \A k \in K : lease'[k].held => k = n
      /\ \A k \in K : lease'[k].held => lease'[k].unresolved = "no"
      /\ loop[n].at = "none"
      /\ \A c \in Caller : rel[c].at # "idle" => rel[c].k # n
      /\ \A k \in K : lease'[k] = lease[k] \/ k = n
  BY Acquisition DEF K
<1> HIDE DEF n
<1>b. busy /\ manual = 0 /\ ~releasing BY DEF MutexInv, Occupied, Accounted
<1>1. TypeOK' BY <1>0 DEF MutexInv, TypeOK
<1>2. Latest' BY <1>0 DEF MutexInv, Latest, n, K, TypeOK
<1>3. Occupied' BY <1>0, <1>b DEF MutexInv, Occupied, Inside, TypeOK
<1>4. HeldBy' BY <1>0 DEF HeldBy, Inside
<1>5. OneRelease' BY DEF MutexInv, OneRelease
<1>6. Accounted' BY <1>b DEF Accounted
<1>7. Results' BY <1>0 DEF MutexInv, Results, Over, Ended
<1>8. LoopKnows' BY <1>0 DEF LoopKnows
<1>9. ReleaseKnows' BY <1>0 DEF MutexInv, ReleaseKnows, OneRelease
<1> QED BY <1>1, <1>2, <1>3, <1>4, <1>5, <1>6, <1>7, <1>8, <1>9 DEF MutexInv

--------------------------------------------------------------------------------
(***************************************************************************)
(* Giving a Lock up: finishRelease and abandonManual.                      *)
(***************************************************************************)

LEMMA RetireKeeps ==
  ASSUME MutexInv, NEW k \in K, NEW err \in Err, retire(k, err)
  PROVE  /\ lock' \in [K -> LockState] /\ lock'[k].closed
         /\ \A j \in K : /\ lock'[j].stopped = lock[j].stopped
                         /\ lock'[j].result = lock[j].result
                         /\ lock[j].closed => lock'[j].closed
BY DEF MutexInv, TypeOK, retire, LockState

\* The goroutine of k may end with this step, and Releases of k with it.
endsWith(k, err) ==
  /\ loop' \in [K -> LoopState] /\ rel' \in [Caller -> RelState] /\ released' \subseteq K
  /\ \A j \in K : j # k => loop'[j] = loop[j]
  /\ \/ loop'[k] = loop[k]
     \/ /\ loop[k].at = "stopped" /\ loop'[k].at = "done"
        /\ loop'[k].result = loop[k].result /\ loop[k].result.err = err
  /\ \A c \in Caller : rel'[c] = rel[c] \/ (rel[c].k = k /\ rel'[c].at = "idle")

LEMMA FinishStep ==
  ASSUME MutexInv, NEW k \in K, NEW err \in Err, finishRelease(k, err), endsWith(k, "lost"),
         loop[k].at # "none", UNCHANGED <<entry, acquired>>,
         lease' \in [K -> LeaseState],
         \A j \in K : lease'[j] = lease[j] \/ ~lease'[j].held,
         lease'[k].held => lease'[k].extended
  PROVE  MutexInv'
<1>0. /\ lock' \in [K -> LockState] /\ lock'[k].closed
      /\ \A j \in K : /\ lock'[j].stopped = lock[j].stopped
                      /\ lock'[j].result = lock[j].result
                      /\ lock[j].closed => lock'[j].closed
  BY RetireKeeps DEF finishRelease
<1>a. /\ cleanup' = cleanup
      /\ \/ manual = k /\ busy' = FALSE /\ manual' = 0 /\ releasing' = FALSE
         \/ manual # k /\ UNCHANGED <<busy, manual, releasing>>
  BY DEF finishRelease, clearManual, clearBusy, mutexVars
<1>b. \A j \in K : j # 0 BY DEF K
<1>c. \A j \in K : /\ loop'[j].at = "none" <=> loop[j].at = "none"
                   /\ loop'[j].result = loop[j].result
                   /\ loop[j].at \in Ended => loop'[j].at \in Ended
                   /\ loop'[j].at \in Over <=> loop[j].at \in Over
                   /\ loop'[j].at \notin Over => loop'[j] = loop[j]
  BY DEF endsWith, Ended, Over
<1> USE DEF endsWith
<1>1. TypeOK'
  <2>1. busy' \in BOOLEAN /\ releasing' \in BOOLEAN BY <1>a DEF MutexInv, TypeOK
  <2> QED BY <1>0, <1>a, <1>c, <2>1 DEF MutexInv, TypeOK
<1>2. Latest' BY <1>c DEF MutexInv, Latest
<1>3. Occupied'
  <2>1. entry \in Inside => acquired \in K
    BY LocksAssumption DEF MutexInv, Occupied, TypeOK, K
  <2> QED BY <1>a, <1>b, <1>c, <2>1 DEF MutexInv, Occupied, TypeOK, Inside
<1>4. HeldBy' BY <1>0, <1>a, <1>c DEF MutexInv, HeldBy, Latest
<1>5. OneRelease' BY <1>a, <1>c, <1>b DEF MutexInv, OneRelease, K
<1>6. Accounted'
  <2>1. CASE manual = k BY <1>a, <2>1 DEF Accounted
  <2>2. CASE manual # k
    <3>1. manual # 0 => loop'[manual] = loop[manual] BY <2>2 DEF MutexInv, TypeOK
    <3> QED BY <1>a, <2>2, <3>1 DEF MutexInv, Accounted
  <2> QED BY <2>1, <2>2
<1>7. Results' BY <1>0, <1>a, <1>b, <1>c DEF MutexInv, Results, Over, Ended
<1>8. LoopKnows' BY <1>c DEF MutexInv, LoopKnows, Over
<1>9. ReleaseKnows' BY <1>c DEF MutexInv, ReleaseKnows, OneRelease
<1> QED BY <1>1, <1>2, <1>3, <1>4, <1>5, <1>6, <1>7, <1>8, <1>9 DEF MutexInv

LEMMA AbandonStep ==
  ASSUME MutexInv, NEW k \in K, NEW err \in Err, abandonManual(k, err), endsWith(k, "error"),
         loop[k].at # "none", UNCHANGED <<entry, acquired>>,
         lease' \in [K -> LeaseState],
         \A j \in K : j # k => lease'[j] = lease[j],
         lease'[k].held => lease[k].held /\ (lease[k].extended => lease'[k].extended),
         lease'[k] = lease[k] \/ (loop[k].at \in Over /\ loop[k].result.pending),
         \A c \in Caller : lease'[k] # lease[k] /\ rel[c].k = k => rel'[c].at = "idle"
  PROVE  MutexInv'
<1>0. /\ lock' \in [K -> LockState] /\ lock'[k].closed
      /\ \A j \in K : /\ lock'[j].stopped = lock[j].stopped
                      /\ lock'[j].result = lock[j].result
                      /\ lock[j].closed => lock'[j].closed
  BY RetireKeeps DEF abandonManual
<1>a. /\ cleanup' = cleanup \cup {k} /\ UNCHANGED <<busy, manual>>
      /\ releasing' = (releasing \/ manual = k) 
  BY DEF abandonManual
<1>b. \A j \in K : j # 0 BY DEF K
<1>c. \A j \in K : /\ loop'[j].at = "none" <=> loop[j].at = "none"
                   /\ loop'[j].result = loop[j].result
                   /\ loop[j].at \in Ended => loop'[j].at \in Ended
                   /\ loop'[j].at \in Over <=> loop[j].at \in Over
                   /\ loop'[j].at \notin Over => loop'[j] = loop[j]
  BY DEF endsWith, Ended, Over
<1> USE DEF endsWith
<1>1. TypeOK'
  <2>1. releasing' \in BOOLEAN BY <1>a
  <2> QED BY <1>0, <1>a, <1>c, <2>1 DEF MutexInv, TypeOK
<1>2. Latest' BY <1>c DEF MutexInv, Latest
<1>3. Occupied'
  <2>1. entry \in Inside => acquired \in K
    BY LocksAssumption DEF MutexInv, Occupied, TypeOK, K
  <2> QED BY <1>a, <1>b, <1>c, <2>1 DEF MutexInv, Occupied, TypeOK, Inside
<1>4. HeldBy' BY <1>0, <1>a, <1>c DEF MutexInv, HeldBy, Latest
<1>5. OneRelease'
  <2>1. releasing => releasing' BY <1>a, Zenon
  <2> QED BY <1>a, <1>c, <2>1 DEF MutexInv, OneRelease
<1>6. Accounted' BY <1>a, <1>b DEF MutexInv, Accounted, OneRelease, TypeOK, Occupied
<1>7. Results' BY <1>0, <1>a, <1>b, <1>c DEF MutexInv, Results, Over, Ended
<1>8. LoopKnows' BY <1>c DEF MutexInv, LoopKnows, Over
<1>9. ReleaseKnows' BY <1>c DEF MutexInv, ReleaseKnows, OneRelease
<1> QED BY <1>1, <1>2, <1>3, <1>4, <1>5, <1>6, <1>7, <1>8, <1>9 DEF MutexInv

--------------------------------------------------------------------------------
(***************************************************************************)
(* WithLock's end, and the goroutines that wait for a lease to end.        *)
(***************************************************************************)

LEMMA WithLockFinishesStep ==
  ASSUME MutexInv, WithLockFinishes
  PROVE  MutexInv'
<1> USE DEF WithLockFinishes, mutexVars
<1>0. manual = 0 /\ ~releasing /\ acquired \in K /\ loop[acquired].at = "none" /\ busy
  BY LocksAssumption DEF MutexInv, Occupied, Accounted, Inside, TypeOK, K
<1>a. \/ /\ entry' = "waiting" /\ cleanup' = cleanup \cup {acquired}
         /\ busy' = busy /\ manual' = manual /\ releasing' = releasing
      \/ /\ entry' = "stuck" /\ cleanup' = cleanup
         /\ busy' = busy /\ manual' = manual /\ releasing' = releasing
      \/ /\ entry' = "none" /\ cleanup' = cleanup /\ ~lease[acquired].held
         /\ busy' = FALSE /\ manual' = 0 /\ releasing' = FALSE
  BY DEF clearBusy
<1>b. manual' = 0 /\ ~releasing'
  <2> HIDE DEF WithLockFinishes
  <2>1. manual' = 0 BY <1>0, <1>a
  <2>2. ~releasing
    BY <1>0
  <2>3. releasing' = releasing \/ releasing' = FALSE
    BY <1>a
  <2>4. ~releasing'
    BY <2>2, <2>3, Zenon
  <2> QED BY <2>1, <2>4
<1>d. cleanup \subseteq K /\ \A k \in cleanup : loop[k].at # "none"
  BY DEF MutexInv, Occupied, TypeOK
<1>1. TypeOK'
  <2>1. busy' \in BOOLEAN /\ releasing' \in BOOLEAN
    BY <1>0, Zenon DEF MutexInv, TypeOK, clearBusy
  <2> QED BY <1>0, <1>a, <1>b, <1>d, <2>1 DEF MutexInv, TypeOK
<1>2. Latest' BY DEF MutexInv, Latest
<1>3. Occupied'
  <2>1. entry' # "none" => busy' BY <1>0, <1>a, Zenon
  <2>2. acquired # 0 BY <1>0 DEF K
  <2> QED BY <1>0, <1>a, <1>b, <1>d, <2>1, <2>2 DEF Occupied, Inside
<1>4. HeldBy' BY <1>0, <1>a DEF MutexInv, HeldBy, Latest, Inside
<1>5. OneRelease' BY <1>b, LocksAssumption DEF MutexInv, OneRelease, K
<1>6. Accounted' BY <1>b DEF Accounted
<1>7. Results' BY <1>b DEF MutexInv, Results, K
<1>8. LoopKnows' /\ ReleaseKnows' BY DEF MutexInv, LoopKnows, ReleaseKnows
<1> QED BY <1>1, <1>2, <1>3, <1>4, <1>5, <1>6, <1>7, <1>8 DEF MutexInv

LEMMA CleanupEndsStep ==
  ASSUME MutexInv, NEW k \in K, CleanupEnds(k)
  PROVE  MutexInv'
<1> USE DEF CleanupEnds
<1>b. \A j \in K : j # 0 BY DEF K
<1>d. cleanup \subseteq K BY DEF MutexInv, TypeOK
<1>0. CASE loop[k].at = "none"
  <2>0. manual = 0 /\ ~releasing /\ k = acquired /\ entry = "waiting"
    BY <1>0 DEF MutexInv, Occupied, Accounted
  <2>a. manual' = 0 /\ releasing' = FALSE /\ busy' = FALSE /\ entry' = "none"
        /\ cleanup' = cleanup \ {k}
    BY <1>0 DEF clearBusy
  <2>1. TypeOK'
    <3>1. busy' \in BOOLEAN /\ releasing' \in BOOLEAN BY <2>a, Zenon
    <3> QED BY <2>a, <1>d, <3>1 DEF MutexInv, TypeOK
  <2>2. Latest' BY DEF MutexInv, Latest
  <2>3. Occupied' BY <2>0, <2>a, <1>d DEF MutexInv, Occupied, Inside
  <2>4. HeldBy' BY <2>0 DEF MutexInv, HeldBy, Latest
  <2>5. OneRelease' BY <2>a, <1>b DEF MutexInv, OneRelease
  <2>6. Accounted' BY <2>a DEF Accounted
  <2>7. Results' BY <2>a, <1>b DEF MutexInv, Results
  <2>8. LoopKnows' /\ ReleaseKnows' BY DEF MutexInv, LoopKnows, ReleaseKnows
  <2> QED BY <2>1, <2>2, <2>3, <2>4, <2>5, <2>6, <2>7, <2>8 DEF MutexInv
<1>1. CASE loop[k].at # "none"
  <2>a. /\ cleanup' = cleanup \ {k} /\ entry' = entry
        /\ \/ manual = k /\ busy' = FALSE /\ manual' = 0 /\ releasing' = FALSE
           \/ manual # k /\ UNCHANGED <<busy, manual, releasing>>
    BY <1>1 DEF clearManual, clearBusy, mutexVars
  <2>1. TypeOK'
    <3>1. busy' \in BOOLEAN /\ releasing' \in BOOLEAN BY <2>a, Zenon DEF MutexInv, TypeOK
    <3> QED BY <2>a, <1>d, <3>1 DEF MutexInv, TypeOK
  <2>2. Latest' BY DEF MutexInv, Latest
  <2>3. Occupied' BY <2>a, <1>b, <1>d DEF MutexInv, Occupied, Inside
  <2>4. HeldBy' BY <2>a DEF MutexInv, HeldBy, Latest
  <2>5. OneRelease' BY <2>a, <1>b DEF MutexInv, OneRelease
  <2>6. Accounted' BY <2>a DEF MutexInv, Accounted
  <2>7. Results' BY <2>a, <1>b DEF MutexInv, Results
  <2>8. LoopKnows' /\ ReleaseKnows' BY DEF MutexInv, LoopKnows, ReleaseKnows
  <2> QED BY <2>1, <2>2, <2>3, <2>4, <2>5, <2>6, <2>7, <2>8 DEF MutexInv
<1> QED BY <1>0, <1>1

--------------------------------------------------------------------------------
(***************************************************************************)
(* The goroutine of a Lock.                                                *)
(***************************************************************************)

\* A Renew brings no lease back, and leaves a renewal reported only if it reports it
\* or fails while one is reported.
LEMMA RenewLeaves ==
  ASSUME NEW l \in LeaseState, NEW o \in Outcome, NEW done, NEW m \in afterRenew(l, o, done)
  PROVE  /\ m \in LeaseState
         /\ m.held => l.held /\ (l.extended => m.extended)
         /\ m.held => o # "loss"
         /\ m.held /\ m.unresolved = "reported" =>
              o = "unknown" \/ (o # "ok" /\ l.unresolved = "reported")
         /\ m.held /\ o = "ok" => m.unresolved = "no"
<1>1. NoLease \in LeaseState /\ ~NoLease.held BY NewTypes
<1>2. dropped(l) \in LeaseState /\ dropped(l).extended = l.extended /\ dropped(l).unresolved = "no"
      /\ dropped(l).held = l.held
  BY DEF dropped, LeaseState
<1>3. kept(l) \in LeaseState /\ kept(l).extended = l.extended /\ kept(l).held = l.held
      /\ (kept(l).unresolved = "reported" => l.unresolved = "reported")
  BY DEF kept, LeaseState
<1>4. CASE ~l.held BY <1>1, <1>4 DEF afterRenew
<1>5. CASE l.held
  <2>1. CASE o = "ok"
    <3>1. m = [dropped(l) EXCEPT !.extended = TRUE] BY <1>5, <2>1 DEF afterRenew
    <3> QED BY <1>2, <1>5, <2>1, <3>1 DEF LeaseState
  <2>2. CASE o = "unknown"
    <3>1. m = [l EXCEPT !.unresolved = "reported"] BY <1>5, <2>2 DEF afterRenew
    <3> QED BY <1>5, <2>2, <3>1 DEF LeaseState
  <2>3. CASE o = "loss" BY <1>1, <1>5, <2>3 DEF afterRenew
  <2>4. CASE o \in {"unavailable", "other"}
    <3>1. m \in {kept(l), dropped(l), NoLease} BY <1>5, <2>4 DEF afterRenew
    <3> QED BY <1>1, <1>2, <1>3, <1>5, <2>4, <3>1
  <2> QED BY <2>1, <2>2, <2>3, <2>4 DEF Outcome
<1> QED BY <1>4, <1>5

\* The loop goes round or returns, knowing what the client reported.
LEMMA LoopLocal ==
  ASSUME MutexInv, NEW k \in K, loop[k].at \in {"select", "renewing"},
         loop' \in [K -> LoopState], \A j \in K : j # k => loop'[j] = loop[j],
         loop'[k].at \in {"select", "renewing", "returned"},
         lease' \in [K -> LeaseState], \A j \in K : j # k => lease'[j] = lease[j],
         lease'[k].held => lease[k].held /\ (lease[k].extended => lease'[k].extended),
         loop'[k].at = "returned" =>
           /\ loop'[k].result.err = "lost" => ~lease'[k].held
           /\ loop'[k].result.suppressRelease => loop'[k].result.err = "error",
         lease'[k].held /\ lease'[k].unresolved = "reported" =>
           IF loop'[k].at = "returned"
           THEN loop'[k].result.pending \/ loop'[k].result.suppressRelease
           ELSE loop'[k].pending,
         UNCHANGED <<mutexVars, entry, acquired, lock, rel, cleanup, released>>
  PROVE  MutexInv'
<1> USE DEF mutexVars
<1>b. \A j \in K : loop'[j].at = "none" <=> loop[j].at = "none" OBVIOUS
<1>c. loop[k].at \notin Ended /\ loop[k].at # "none" BY DEF Ended
<1>1. TypeOK' BY <1>b DEF MutexInv, TypeOK
<1>2. Latest' BY <1>b DEF MutexInv, Latest
<1>3. Occupied'
  <2>1. entry \in Inside => acquired \in K
    BY LocksAssumption DEF MutexInv, Occupied, TypeOK, K
  <2> QED BY <1>b, <2>1 DEF MutexInv, Occupied, TypeOK
<1>4. HeldBy' BY <1>b DEF MutexInv, HeldBy
<1>5. OneRelease' BY <1>b DEF MutexInv, OneRelease
<1>6. Accounted' BY <1>c DEF MutexInv, Accounted, TypeOK, Ended
<1>7. Results' BY <1>c DEF MutexInv, Results, Over
<1>8. LoopKnows' BY DEF MutexInv, LoopKnows, Over
<1>9. ReleaseKnows' BY <1>c DEF MutexInv, ReleaseKnows, OneRelease
<1> QED BY <1>1, <1>2, <1>3, <1>4, <1>5, <1>6, <1>7, <1>8, <1>9 DEF MutexInv

LEMMA LoopNoticesStep ==
  ASSUME MutexInv, NEW k \in K, LoopNotices(k)
  PROVE  MutexInv'
<1> DEFINE r == loop'[k].result
<1>0. loop \in [K -> LoopState] /\ loop[k] \in LoopState /\ loop[k].pending \in BOOLEAN
  BY DEF MutexInv, TypeOK, LoopState
<1>1. /\ loop' \in [K -> LoopState] /\ \A j \in K : j # k => loop'[j] = loop[j]
      /\ loop'[k].at = "returned" /\ ~r.suppressRelease
      /\ \/ r.err = "nil" /\ r.pending = loop[k].pending
         \/ r.err = "lost" /\ ~lease[k].held
  <2>1. CASE lock[k].cancelled /\ loopReturns(k, [NoResult EXCEPT !.pending = loop[k].pending])
    BY <1>0, <2>1 DEF loopReturns, NoResult, LoopState, Result, Err
  <2>2. CASE ~lease[k].held /\ loopReturns(k, LostResult)
    BY <1>0, <2>2 DEF loopReturns, LostResult, NoResult, LoopState, Result, Err
  <2> QED BY <2>1, <2>2 DEF LoopNotices
<1>2. lease[k].held /\ lease[k].unresolved = "reported" => loop[k].pending
  BY DEF MutexInv, LoopKnows, LoopNotices
<1> HIDE DEF r
<1>3. lease' = lease /\ lease \in [K -> LeaseState] BY DEF LoopNotices, MutexInv, TypeOK
<1>4. r.err = "lost" => ~lease'[k].held BY <1>1, <1>3
<1>5. lease'[k].held /\ lease'[k].unresolved = "reported" => r.pending
  BY <1>1, <1>2, <1>3
<1> QED BY <1>1, <1>3, <1>4, <1>5, LoopLocal DEF LoopNotices, r

LEMMA LoopRenewsStep ==
  ASSUME MutexInv, NEW k \in K, LoopRenews(k)
  PROVE  MutexInv'
<1>1. /\ loop' \in [K -> LoopState] /\ \A j \in K : j # k => loop'[j] = loop[j]
      /\ loop'[k].at = "renewing" /\ loop'[k].pending = loop[k].pending
  BY DEF LoopRenews, MutexInv, TypeOK, LoopState
<1>2. lease[k].held /\ lease[k].unresolved = "reported" => loop[k].pending
  BY DEF MutexInv, LoopKnows, LoopRenews
<1>3. lease' = lease /\ lease \in [K -> LeaseState] BY DEF LoopRenews, MutexInv, TypeOK
<1> QED BY <1>1, <1>2, <1>3, LoopLocal DEF LoopRenews

LEMMA LoopRenewedStep ==
  ASSUME MutexInv, NEW k \in K, LoopRenewed(k)
  PROVE  MutexInv'
<1> DEFINE r == loop'[k].result
<1>0. /\ loop \in [K -> LoopState] /\ loop[k] \in LoopState /\ loop[k].pending \in BOOLEAN
      /\ lease \in [K -> LeaseState] /\ lease[k] \in LeaseState
  BY DEF MutexInv, TypeOK, LoopState
<1>1. PICK o \in Outcome :
        /\ renewReturns(k, o, lock[k].cancelled)
        /\ \/ lock[k].cancelled /\ loopReturns(k, stoppedRenewalState(k, o))
           \/ /\ ~lock[k].cancelled
              /\ \/ o = "ok" /\ goRound(k, FALSE)
                 \/ o = "unknown" /\ goRound(k, TRUE)
                 \/ o = "loss" /\ loopReturns(k, LostResult)
                 \/ /\ o \in {"unavailable", "other"} /\ loop[k].pending
                    /\ loopReturns(k, SuppressedResult)
                 \/ o = "unavailable" /\ ~loop[k].pending /\ goRound(k, FALSE)
                 \/ /\ o = "other" /\ ~loop[k].pending
                    /\ loopReturns(k, [NoResult EXCEPT !.err = "error"])
  BY DEF LoopRenewed
<1>2. PICK l \in afterRenew(lease[k], o, lock[k].cancelled) : lease' = [lease EXCEPT ![k] = l]
  BY <1>1 DEF renewReturns
<1>3. /\ l \in LeaseState
      /\ l.held => lease[k].held /\ (lease[k].extended => l.extended)
      /\ l.held => o # "loss"
      /\ l.held /\ l.unresolved = "reported" =>
           o = "unknown" \/ (o # "ok" /\ lease[k].unresolved = "reported")
  BY <1>0, RenewLeaves
<1>4. /\ lease' \in [K -> LeaseState] /\ \A j \in K : j # k => lease'[j] = lease[j]
      /\ lease'[k] = l
  BY <1>0, <1>2, <1>3
<1>5. lease[k].held /\ lease[k].unresolved = "reported" => loop[k].pending
  BY DEF MutexInv, LoopKnows, LoopRenewed
<1>6. l.held /\ l.unresolved = "reported" => o = "unknown" \/ (o # "ok" /\ loop[k].pending)
  BY <1>3, <1>5
<1>7. /\ loop' \in [K -> LoopState] /\ \A j \in K : j # k => loop'[j] = loop[j]
      /\ \/ loop'[k].at = "select" /\ (o = "unknown" => loop'[k].pending)
                                  /\ (o # "ok" => (loop[k].pending => loop'[k].pending))
         \/ /\ loop'[k].at = "returned"
            /\ r.err = "lost" => o = "loss"
            /\ r.suppressRelease => r.err = "error"
            /\ o = "unknown" => r.pending
            /\ o \notin {"ok", "loss", "unknown"} /\ loop[k].pending => r.suppressRelease
  <2>1. NoResult \in Result /\ LostResult \in Result /\ SuppressedResult \in Result
        /\ [NoResult EXCEPT !.err = "error"] \in Result /\ [NoResult EXCEPT !.pending = TRUE] \in Result
    BY DEF NoResult, LostResult, SuppressedResult, Result, Err
  <2>a. ASSUME NEW p \in BOOLEAN, goRound(k, p)
        PROVE  /\ loop' \in [K -> LoopState] /\ \A j \in K : j # k => loop'[j] = loop[j]
               /\ loop'[k].at = "select" /\ loop'[k].pending = p
    BY <1>0, <2>a DEF goRound, LoopState
  <2>b. ASSUME NEW x \in Result, loopReturns(k, x)
        PROVE  /\ loop' \in [K -> LoopState] /\ \A j \in K : j # k => loop'[j] = loop[j]
               /\ loop'[k].at = "returned" /\ r = x
    BY <1>0, <2>b DEF loopReturns, LoopState
  <2> HIDE DEF r
  <2>2. CASE lock[k].cancelled /\ loopReturns(k, stoppedRenewalState(k, o))
    <3>1. stoppedRenewalState(k, o) \in Result BY <2>1 DEF stoppedRenewalState
    <3>2. r = stoppedRenewalState(k, o) BY <2>2, <2>b, <3>1
    <3>3. /\ r.err = "lost" => o = "loss"
          /\ r.suppressRelease => r.err = "error"
          /\ o = "unknown" => r.pending
          /\ o \notin {"ok", "loss", "unknown"} /\ loop[k].pending => r.suppressRelease
      BY <3>2 DEF stoppedRenewalState, NoResult, LostResult, SuppressedResult
    <3> QED BY <2>2, <2>b, <3>1, <3>3
  <2>3. CASE o = "ok" /\ goRound(k, FALSE) BY <2>3, <2>a
  <2>4. CASE o = "unknown" /\ goRound(k, TRUE) BY <2>4, <2>a
  <2>5. CASE o = "loss" /\ loopReturns(k, LostResult)
    BY <2>1, <2>5, <2>b DEF LostResult, NoResult
  <2>6. CASE o \in {"unavailable", "other"} /\ loop[k].pending /\ loopReturns(k, SuppressedResult)
    BY <2>1, <2>6, <2>b DEF SuppressedResult, NoResult
  <2>7. CASE o = "unavailable" /\ ~loop[k].pending /\ goRound(k, FALSE) BY <2>7, <2>a
  <2>8. CASE o = "other" /\ ~loop[k].pending /\ loopReturns(k, [NoResult EXCEPT !.err = "error"])
    BY <2>1, <2>8, <2>b DEF NoResult
  <2> QED BY <1>1, <2>2, <2>3, <2>4, <2>5, <2>6, <2>7, <2>8
<1> HIDE DEF r
<1>8. loop'[k].at = "returned" =>
        /\ r.err = "lost" => ~lease'[k].held
        /\ r.suppressRelease => r.err = "error"
  BY <1>3, <1>4, <1>7
<1>9. lease'[k].held /\ lease'[k].unresolved = "reported" =>
        IF loop'[k].at = "returned" THEN r.pending \/ r.suppressRelease ELSE loop'[k].pending
  BY <1>3, <1>4, <1>6, <1>7
<1>10. /\ lease'[k].held => lease[k].held /\ (lease[k].extended => lease'[k].extended)
       /\ loop[k].at \in {"select", "renewing"}
       /\ loop'[k].at \in {"select", "renewing", "returned"}
       /\ UNCHANGED <<mutexVars, entry, acquired, lock, rel, cleanup, released>>
  BY <1>3, <1>4, <1>7 DEF LoopRenewed
<1> QED BY <1>4, <1>7, <1>8, <1>9, <1>10, LoopLocal DEF r

LEMMA LoopStopsStep ==
  ASSUME MutexInv, NEW k \in K, LoopStops(k)
  PROVE  MutexInv'
<1> USE DEF LoopStops, mutexVars
<1>0. /\ loop' \in [K -> LoopState] /\ loop[k].at = "returned" /\ loop'[k].at = "stopped"
      /\ loop'[k].result = loop[k].result /\ loop'[k].pending = loop[k].pending
      /\ \A j \in K : j # k => loop'[j] = loop[j]
  BY DEF MutexInv, TypeOK, LoopState
<1>a. /\ lock' \in [K -> LockState] /\ lock'[k].stopped /\ lock'[k].result = loop[k].result
      /\ lock'[k].closed = lock[k].closed
      /\ \A j \in K : j # k => lock'[j] = lock[j]
  BY DEF MutexInv, TypeOK, LoopState, LockState
<1>b. \A j \in K : loop'[j].at = "none" <=> loop[j].at = "none" BY <1>0
<1>1. TypeOK' BY <1>0, <1>a, <1>b DEF MutexInv, TypeOK
<1>2. Latest' BY <1>b DEF MutexInv, Latest
<1>3. Occupied'
  <2>1. entry \in Inside => acquired \in K
    BY LocksAssumption DEF MutexInv, Occupied, TypeOK, K
  <2> QED BY <1>b, <2>1 DEF MutexInv, Occupied, TypeOK
<1>4. HeldBy' BY <1>a, <1>b DEF MutexInv, HeldBy
<1>5. OneRelease' BY <1>b DEF MutexInv, OneRelease
<1>6. Accounted' BY <1>0 DEF MutexInv, Accounted, TypeOK
<1>7. Results' BY <1>0, <1>a DEF MutexInv, Results, Over, Ended
<1>8. LoopKnows' BY <1>0 DEF MutexInv, LoopKnows, Over
<1>9. ReleaseKnows' BY <1>0 DEF MutexInv, ReleaseKnows, OneRelease, Ended
<1> QED BY <1>1, <1>2, <1>3, <1>4, <1>5, <1>6, <1>7, <1>8, <1>9 DEF MutexInv

LEMMA LoopEndsStep ==
  ASSUME MutexInv, NEW k \in K, LoopEnds(k)
  PROVE  MutexInv'
<1>0. /\ loop' \in [K -> LoopState] /\ loop[k].at = "stopped" /\ loop'[k].at = "done"
      /\ loop'[k].result = loop[k].result
      /\ \A j \in K : j # k => loop'[j] = loop[j]
  BY DEF LoopEnds, MutexInv, TypeOK, LoopState
<1>a. /\ lease \in [K -> LeaseState] /\ rel \in [Caller -> RelState] /\ released \subseteq K
      /\ loop[k].result.err = "lost" => ~lease[k].held
  BY <1>0 DEF MutexInv, TypeOK, Results, Over
<1>1. UNCHANGED <<entry, acquired, lease, rel, released>> BY DEF LoopEnds
<1>2. CASE loop[k].result.err = "lost" /\ finishRelease(k, "lost")
  <2>1. endsWith(k, "lost") BY <1>0, <1>1, <1>2, <1>a DEF endsWith
  <2> QED BY <1>0, <1>1, <1>2, <1>a, <2>1, FinishStep DEF Err
<1>3. CASE loop[k].result.err = "error" /\ abandonManual(k, "error")
  <2>1. endsWith(k, "error") BY <1>0, <1>1, <1>3, <1>a DEF endsWith
  <2> QED BY <1>0, <1>1, <1>3, <1>a, <2>1, AbandonStep DEF Err
<1>4. CASE loop[k].result.err = "nil" /\ UNCHANGED <<mutexVars, lock, cleanup>>
  <2> USE <1>1, <1>4 DEF mutexVars
  <2>b. \A j \in K : loop'[j].at = "none" <=> loop[j].at = "none" BY <1>0
  <2>1. TypeOK' BY <1>0, <2>b DEF MutexInv, TypeOK
  <2>2. Latest' BY <2>b DEF MutexInv, Latest
  <2>3. Occupied'
    <3>1. entry \in Inside => acquired \in K
      BY LocksAssumption DEF MutexInv, Occupied, TypeOK, K
    <3> QED BY <2>b, <3>1 DEF MutexInv, Occupied, TypeOK
  <2>4. HeldBy' BY <2>b DEF MutexInv, HeldBy
  <2>5. OneRelease' BY <2>b DEF MutexInv, OneRelease
  <2>6. Accounted' BY <1>0 DEF MutexInv, Accounted, TypeOK
  <2>7. Results' BY <1>0 DEF MutexInv, Results, Over, Ended
  <2>8. LoopKnows' BY <1>0 DEF MutexInv, LoopKnows, Over
  <2>9. ReleaseKnows' BY <1>0 DEF MutexInv, ReleaseKnows, OneRelease, Ended
  <2> QED BY <2>1, <2>2, <2>3, <2>4, <2>5, <2>6, <2>7, <2>8, <2>9 DEF MutexInv
<1> QED BY <1>2, <1>3, <1>4 DEF LoopEnds

--------------------------------------------------------------------------------
(***************************************************************************)
(* Mutex.Release.                                                          *)
(***************************************************************************)

LEMMA BeginReleaseStep ==
  ASSUME MutexInv, NEW c \in Caller, NEW k \in K, BeginRelease(c, k)
  PROVE  MutexInv'
<1> USE DEF BeginRelease
<1>0. /\ lease' \in [K -> LeaseState] /\ \A j \in K : j # k => lease'[j] = lease[j]
      /\ lease'[k].held = lease[k].held /\ lease'[k].unresolved = lease[k].unresolved
  BY DEF MutexInv, TypeOK, LeaseState
<1>a. /\ rel' \in [Caller -> RelState] /\ rel'[c].at = "stop" /\ rel'[c].k = k
      /\ \A d \in Caller : d # c => rel'[d] = rel[d]
  <2>0. k \in 0 .. MaxLocks BY LocksAssumption DEF K
  <2>1. [NoRel EXCEPT !.at = "stop", !.k = k] \in RelState
    BY <2>0, NoResultType DEF NoRel, RelState
  <2>2. /\ [NoRel EXCEPT !.at = "stop", !.k = k].at = "stop"
        /\ [NoRel EXCEPT !.at = "stop", !.k = k].k = k
    BY DEF NoRel
  <2> QED BY <2>1, <2>2 DEF MutexInv, TypeOK
<1>b. \A d \in Caller : rel[d].at # "idle" => rel[d].k # k
  BY DEF MutexInv, OneRelease
<1>c. manual = k /\ manual' = manual /\ busy /\ busy' = busy /\ releasing' = TRUE OBVIOUS
<1>1. TypeOK'
  <2>1. releasing' \in BOOLEAN BY <1>c
  <2> QED BY <1>0, <1>a, <2>1 DEF MutexInv, TypeOK
<1>2. Latest' BY <1>0 DEF MutexInv, Latest
<1>3. Occupied' BY DEF MutexInv, Occupied
<1>4. HeldBy' BY <1>0, <1>c DEF MutexInv, HeldBy, Latest
<1>5. OneRelease' BY <1>a, <1>b DEF MutexInv, OneRelease
<1>6. Accounted' BY <1>a, <1>c DEF Accounted, K
<1>7. Results' BY <1>0 DEF MutexInv, Results
<1>8. LoopKnows' BY <1>0 DEF MutexInv, LoopKnows
<1>9. ReleaseKnows' BY <1>0, <1>a DEF MutexInv, ReleaseKnows, OneRelease
<1> QED BY <1>1, <1>2, <1>3, <1>4, <1>5, <1>6, <1>7, <1>8, <1>9 DEF MutexInv

\* Release goes on with what it knows.
LEMMA ReleaseLocal ==
  ASSUME MutexInv, NEW c \in Caller, rel[c].at # "idle",
         NEW k, k = rel[c].k,
         rel' \in [Caller -> RelState], \A d \in Caller : d # c => rel'[d] = rel[d],
         rel'[c].at # "idle", rel'[c].k = k,
         lock' \in [K -> LockState],
         \A j \in K : /\ lock'[j].stopped = lock[j].stopped
                      /\ lock'[j].result = lock[j].result
                      /\ lock'[j].closed = lock[j].closed,
         lease' \in [K -> LeaseState], \A j \in K : j # k => lease'[j] = lease[j],
         lease'[k].held => lease[k].held /\ (lease[k].extended => lease'[k].extended),
         \/ lease'[k] = lease[k]
         \/ lease'[k].held => lease'[k].unresolved = "no",
         /\ rel'[c].at \in {"cleanup", "reconcile", "release"} => loop[k].at \in Ended
         /\ rel'[c].at = "cleanup" =>
              /\ rel'[c].result.pending = loop[k].result.pending
              /\ rel'[c].result.suppressRelease = loop[k].result.suppressRelease
         /\ rel'[c].at = "reconcile" => loop[k].result.pending
         /\ rel'[c].at = "release" /\ lease'[k].held => lease'[k].unresolved # "reported",
         UNCHANGED <<mutexVars, entry, acquired, loop, cleanup, released>>
  PROVE  MutexInv'
<1> USE DEF mutexVars
<1>0. k \in K BY DEF MutexInv, OneRelease
<1>1. TypeOK' BY DEF MutexInv, TypeOK
<1>2. Latest' BY <1>0 DEF MutexInv, Latest
<1>3. Occupied' BY DEF MutexInv, Occupied
<1>4. HeldBy' BY <1>0 DEF MutexInv, HeldBy
<1>5. OneRelease' BY DEF MutexInv, OneRelease
<1>6. Accounted' BY DEF MutexInv, Accounted
<1>7. Results' BY <1>0 DEF MutexInv, Results
<1>8. LoopKnows' BY <1>0 DEF MutexInv, LoopKnows
<1>9. ReleaseKnows' BY <1>0 DEF MutexInv, ReleaseKnows, OneRelease
<1> QED BY <1>1, <1>2, <1>3, <1>4, <1>5, <1>6, <1>7, <1>8, <1>9 DEF MutexInv

\* A call of Release that returns.
LEMMA ReturnKeeps ==
  ASSUME MutexInv, NEW c \in Caller, rel[c].at # "idle", NEW err, relReturns(c, err)
  PROVE  /\ rel' \in [Caller -> RelState] /\ rel'[c].at = "idle" /\ released' \subseteq K
         /\ \A d \in Caller : d # c => rel'[d] = rel[d]
BY NewTypes DEF relReturns, MutexInv, TypeOK, OneRelease

LEMMA ReturnEnds ==
  ASSUME MutexInv, NEW c \in Caller, rel[c].at # "idle", NEW err, relReturns(c, err),
         loop' = loop, NEW e
  PROVE  endsWith(rel[c].k, e)
BY ReturnKeeps DEF endsWith, MutexInv, TypeOK

LEMMA StopRenewalStep ==
  ASSUME MutexInv, NEW c \in Caller, StopRenewal(c)
  PROVE  MutexInv'
<1> DEFINE k == rel[c].k
<1>0. /\ k \in K /\ rel \in [Caller -> RelState] /\ rel[c] \in RelState
      /\ lock \in [K -> LockState] /\ lock[k] \in LockState /\ lease \in [K -> LeaseState]
      /\ rel[c].at = "stop"
  BY DEF StopRenewal, MutexInv, OneRelease, TypeOK
<1>a. UNCHANGED <<mutexVars, entry, acquired, lease, loop, cleanup, released>>
  BY DEF StopRenewal, relAt
<1>1. CASE /\ lock[k].stopped /\ UNCHANGED lock
           /\ rel' = [rel EXCEPT ![c].at = "cleanup",
                                 ![c].result = [lock[k].result EXCEPT !.err = lock[k].terminal]]
  <2>1. /\ [lock[k].result EXCEPT !.err = lock[k].terminal] \in Result
        /\ [lock[k].result EXCEPT !.err = lock[k].terminal].pending = lock[k].result.pending
        /\ [lock[k].result EXCEPT !.err = lock[k].terminal].suppressRelease
             = lock[k].result.suppressRelease
    BY <1>0 DEF LockState, Result
  <2>2. /\ rel' \in [Caller -> RelState] /\ rel'[c].at = "cleanup" /\ rel'[c].k = k
        /\ rel'[c].result = [lock[k].result EXCEPT !.err = lock[k].terminal]
        /\ \A d \in Caller : d # c => rel'[d] = rel[d]
    BY <1>0, <1>1, <2>1 DEF RelState
  <2>3. loop[k].at \in Ended /\ lock[k].result = loop[k].result
    BY <1>0, <1>1 DEF MutexInv, Results
  <2> HIDE DEF k
  <2> QED BY <1>0, <1>1, <1>a, <2>1, <2>2, <2>3, ReleaseLocal DEF k
<1>2. CASE ~lock[k].stopped /\ lock' = [lock EXCEPT ![k].cancelled = TRUE] /\ relAt(c, "wait")
  <2>1. /\ rel' \in [Caller -> RelState] /\ rel'[c].at = "wait" /\ rel'[c].k = k
        /\ \A d \in Caller : d # c => rel'[d] = rel[d]
    BY <1>0, <1>2 DEF RelState, relAt
  <2>2. /\ lock' \in [K -> LockState]
        /\ \A j \in K : /\ lock'[j].stopped = lock[j].stopped
                        /\ lock'[j].result = lock[j].result
                        /\ lock'[j].closed = lock[j].closed
    BY <1>0, <1>2 DEF LockState
  <2> HIDE DEF k
  <2> QED BY <1>0, <1>a, <2>1, <2>2, ReleaseLocal DEF k
<1> QED BY <1>1, <1>2 DEF StopRenewal

LEMMA AwaitRenewalStep ==
  ASSUME MutexInv, NEW c \in Caller, AwaitRenewal(c)
  PROVE  MutexInv'
<1> DEFINE k == rel[c].k
<1>0. /\ k \in K /\ rel \in [Caller -> RelState] /\ rel[c] \in RelState /\ loop[k].at # "none"
      /\ lock \in [K -> LockState] /\ lease \in [K -> LeaseState]
      /\ loop \in [K -> LoopState] /\ loop[k].result \in Result /\ rel[c].at = "wait"
  BY DEF AwaitRenewal, MutexInv, OneRelease, TypeOK, LoopState
<1>a. UNCHANGED <<entry, acquired, lease, loop>> BY DEF AwaitRenewal
<1>1. CASE /\ loop[k].at = "done" /\ UNCHANGED <<mutexVars, lock, cleanup, released>>
           /\ rel' = [rel EXCEPT ![c].at = "cleanup", ![c].result = loop[k].result]
  <2>1. /\ rel' \in [Caller -> RelState] /\ rel'[c].at = "cleanup" /\ rel'[c].k = k
        /\ rel'[c].result = loop[k].result
        /\ \A d \in Caller : d # c => rel'[d] = rel[d]
    BY <1>0, <1>1 DEF RelState
  <2>2. loop[k].at \in Ended BY <1>1 DEF Ended
  <2> HIDE DEF k
  <2> QED BY <1>0, <1>1, <1>a, <2>1, <2>2, ReleaseLocal DEF k
<1>2. CASE abandonManual(k, "error") /\ relReturns(c, "error")
  <2>1. endsWith(k, "error") BY <1>0, <1>2, <1>a, ReturnEnds
  <2> HIDE DEF k
  <2> QED BY <1>0, <1>2, <1>a, <2>1, AbandonStep DEF Err
<1> QED BY <1>1, <1>2 DEF AwaitRenewal

\* A suppressed Release returns while its Lock is abandoned by the loop.
LEMMA SuppressedStep ==
  ASSUME MutexInv, NEW c \in Caller, rel[c].at = "cleanup", rel[c].result.suppressRelease,
         relReturns(c, rel[c].result.err),
         UNCHANGED <<mutexVars, lock, cleanup, entry, acquired, lease, loop>>
  PROVE  MutexInv'
<1> USE DEF mutexVars
<1>0. /\ rel' \in [Caller -> RelState] /\ rel'[c].at = "idle" /\ released' \subseteq K
      /\ \A d \in Caller : d # c => rel'[d] = rel[d]
  BY ReturnKeeps
<1>1. TypeOK' BY <1>0 DEF MutexInv, TypeOK
<1>2. Latest' BY DEF MutexInv, Latest
<1>3. Occupied' BY DEF MutexInv, Occupied
<1>4. HeldBy' BY DEF MutexInv, HeldBy
<1>5. OneRelease' BY <1>0 DEF MutexInv, OneRelease
<1>6. Accounted'
  <2> DEFINE k == rel[c].k
  <2>1. k \in K /\ loop[k].at \in Ended /\ loop[k].result.suppressRelease
    BY DEF MutexInv, OneRelease, ReleaseKnows
  <2>2. loop[k].result.err = "error" BY <2>1 DEF MutexInv, Results, Over, Ended
  <2>3. manual = k => loop[k].at = "stopped" \/ k \in cleanup
    BY <2>1, <2>2 DEF MutexInv, Results, Ended
  <2> QED BY <1>0, <2>2, <2>3 DEF MutexInv, Accounted
<1>7. Results' BY DEF MutexInv, Results
<1>8. LoopKnows' BY DEF MutexInv, LoopKnows
<1>9. ReleaseKnows' BY <1>0 DEF MutexInv, ReleaseKnows
<1> QED BY <1>1, <1>2, <1>3, <1>4, <1>5, <1>6, <1>7, <1>8, <1>9 DEF MutexInv

LEMMA CleanupStep ==
  ASSUME MutexInv, NEW c \in Caller, Cleanup(c)
  PROVE  MutexInv'
<1> DEFINE k == rel[c].k  result == rel[c].result
<1>0. /\ k \in K /\ rel \in [Caller -> RelState] /\ rel[c] \in RelState /\ loop[k].at # "none"
      /\ lock \in [K -> LockState] /\ lease \in [K -> LeaseState] /\ rel[c].at = "cleanup"
  BY DEF Cleanup, MutexInv, OneRelease, TypeOK
<1>a. UNCHANGED <<entry, acquired, lease, loop>> BY DEF Cleanup
<1>1. CASE /\ result.suppressRelease /\ relReturns(c, result.err)
           /\ UNCHANGED <<mutexVars, lock, cleanup>>
  BY <1>0, <1>1, <1>a, SuppressedStep
<1>2. CASE pastDeadline(k) /\ finishRelease(k, "lost") /\ relReturns(c, "lost")
  <2>1. endsWith(k, "lost") BY <1>0, <1>2, <1>a, ReturnEnds
  <2>2. lease'[k].held => lease'[k].extended BY <1>2, <1>a DEF pastDeadline
  <2> HIDE DEF k
  <2> QED BY <1>0, <1>2, <1>a, <2>1, <2>2, FinishStep DEF Err
<1>3. CASE /\ ~result.suppressRelease /\ UNCHANGED <<mutexVars, lock, cleanup>>
           /\ relAt(c, IF result.pending THEN "reconcile" ELSE "release")
  <2>1. /\ rel' \in [Caller -> RelState] /\ rel'[c].k = k /\ released' = released
        /\ rel'[c].at = IF result.pending THEN "reconcile" ELSE "release"
        /\ \A d \in Caller : d # c => rel'[d] = rel[d]
    BY <1>0, <1>3 DEF RelState, relAt
  <2>2. /\ loop[k].at \in Ended /\ result.pending = loop[k].result.pending
        /\ result.suppressRelease = loop[k].result.suppressRelease
    BY <1>0 DEF MutexInv, ReleaseKnows
  <2>3. lease[k].held /\ lease[k].unresolved = "reported" => loop[k].result.pending
    BY <1>0, <1>3, <2>2 DEF MutexInv, LoopKnows, Ended, Over
  <2> HIDE DEF k, result
  <2>4. /\ rel'[c].at \in {"reconcile", "release"}
        /\ rel'[c].at = "reconcile" => loop[k].result.pending
        /\ rel'[c].at = "release" /\ lease[k].held => lease[k].unresolved # "reported"
    BY <2>1, <2>2, <2>3
  <2> QED BY <1>0, <1>3, <1>a, <2>1, <2>2, <2>4, ReleaseLocal DEF k
<1> QED BY <1>1, <1>2, <1>3 DEF Cleanup

LEMMA ReconcileStep ==
  ASSUME MutexInv, NEW c \in Caller, Reconcile(c)
  PROVE  MutexInv'
<1> DEFINE k == rel[c].k
<1>0. /\ k \in K /\ rel \in [Caller -> RelState] /\ rel[c] \in RelState /\ loop[k].at # "none"
      /\ lock \in [K -> LockState] /\ lease \in [K -> LeaseState] /\ lease[k] \in LeaseState
      /\ rel[c].at = "reconcile"
  BY DEF Reconcile, MutexInv, OneRelease, TypeOK
<1>a. UNCHANGED <<entry, acquired, loop>> BY DEF Reconcile
<1>b. loop[k].at \in Ended /\ loop[k].at \in Over /\ loop[k].result.pending
  BY <1>0 DEF MutexInv, ReleaseKnows, Ended, Over
<1>1. PICK o \in Outcome :
        /\ renewReturns(k, o, TRUE)
        /\ \/ /\ o = "ok"
              /\ rel' = [rel EXCEPT ![c].at = "release", ![c].result = NoResult]
              /\ UNCHANGED <<mutexVars, lock, cleanup, released>>
           \/ /\ o # "ok"
              /\ abandonManual(k, "error")
              /\ relReturns(c, "error")
  BY DEF Reconcile
<1>2. PICK l \in afterRenew(lease[k], o, TRUE) : lease' = [lease EXCEPT ![k] = l]
  BY <1>1 DEF renewReturns
<1>3. /\ l \in LeaseState
      /\ l.held => lease[k].held /\ (lease[k].extended => l.extended)
      /\ l.held /\ o = "ok" => l.unresolved = "no"
  BY <1>0, RenewLeaves
<1>4. /\ lease' \in [K -> LeaseState] /\ \A j \in K : j # k => lease'[j] = lease[j]
      /\ lease'[k] = l
  BY <1>0, <1>2, <1>3
<1>5. CASE /\ o = "ok" /\ UNCHANGED <<mutexVars, lock, cleanup, released>>
           /\ rel' = [rel EXCEPT ![c].at = "release", ![c].result = NoResult]
  <2>1. /\ rel' \in [Caller -> RelState] /\ rel'[c].k = k /\ rel'[c].at = "release"
        /\ \A d \in Caller : d # c => rel'[d] = rel[d]
    BY <1>0, <1>5, NoResultType DEF RelState
  <2>2. lease'[k].held => lease'[k].unresolved = "no" BY <1>3, <1>4, <1>5
  <2> HIDE DEF k
  <2> QED BY <1>0, <1>3, <1>4, <1>5, <1>a, <1>b, <2>1, <2>2, ReleaseLocal DEF k
<1>6. CASE abandonManual(k, "error") /\ relReturns(c, "error")
  <2>1. endsWith(k, "error") BY <1>0, <1>6, <1>a, ReturnEnds
  <2>2. \A d \in Caller : rel[d].k = k => rel'[d].at = "idle"
    BY <1>0, <1>6, ReturnKeeps DEF MutexInv, OneRelease
  <2> HIDE DEF k
  <2> QED BY <1>0, <1>3, <1>4, <1>6, <1>a, <1>b, <2>1, <2>2, AbandonStep DEF Err
<1> QED BY <1>1, <1>5, <1>6

LEMMA ClientReleaseStep ==
  ASSUME MutexInv, NEW c \in Caller, ClientRelease(c)
  PROVE  MutexInv'
<1> DEFINE k == rel[c].k  l == afterRelease(lease[k])
<1>0. /\ k \in K /\ loop[k].at # "none" /\ lease \in [K -> LeaseState] /\ lease[k] \in LeaseState
      /\ rel[c].at = "release"
  BY DEF ClientRelease, MutexInv, OneRelease, TypeOK
<1>a. UNCHANGED <<entry, acquired, loop>> BY DEF ClientRelease
<1>b. l \in LeaseState /\ (l.held => l = lease[k]) BY <1>0, NewTypes DEF afterRelease
<1>c. ASSUME NEW err, relReturns(c, err)
      PROVE  endsWith(k, "lost") /\ endsWith(k, "error")
  BY <1>0, <1>a, <1>c, ReturnEnds
<1>1. CASE ~lease[k].held /\ finishRelease(k, "lost") /\ relReturns(c, "lost") /\ UNCHANGED lease
  <2>1. endsWith(k, "lost") BY <1>1, <1>c
  <2> HIDE DEF k
  <2> QED BY <1>0, <1>1, <1>a, <2>1, FinishStep DEF Err
<1>2. CASE lease' = [lease EXCEPT ![k] = l] /\ l.held /\ abandonManual(k, "error")
           /\ relReturns(c, "error")
  <2>1. lease' = lease BY <1>0, <1>2, <1>b
  <2>2. endsWith(k, "error") BY <1>2, <1>c
  <2> HIDE DEF k, l
  <2> QED BY <1>0, <1>2, <1>a, <2>1, <2>2, AbandonStep DEF Err
<1>3. CASE /\ lease' = [lease EXCEPT ![k] = l] /\ ~l.held /\ finishRelease(k, "error")
           /\ \E err \in {rel[c].result.err, "error"} : relReturns(c, err)
  <2>1. endsWith(k, "lost") BY <1>3, <1>c
  <2> HIDE DEF l
  <2>2. /\ lease' \in [K -> LeaseState] /\ ~lease'[k].held
        /\ \A j \in K : lease'[j] = lease[j] \/ ~lease'[j].held
    BY <1>0, <1>3, <1>b
  <2> HIDE DEF k
  <2> QED BY <1>0, <1>3, <1>a, <2>1, <2>2, FinishStep DEF Err
<1> QED BY <1>1, <1>2, <1>3 DEF ClientRelease

--------------------------------------------------------------------------------
(***************************************************************************)
(* The theorems.                                                           *)
(***************************************************************************)

LEMMA StutterMutex ==
  ASSUME MutexInv, UNCHANGED vars
  PROVE  MutexInv'
BY DEF vars, MutexInv, TypeOK, Latest, Occupied, HeldBy, OneRelease, Accounted, Results, LoopKnows,
       ReleaseKnows

LEMMA NextMutex == MutexInv /\ [Next]_vars => MutexInv'
<1> SUFFICES ASSUME MutexInv, [Next]_vars PROVE MutexInv' OBVIOUS
<1>1. CASE Enter("try") \/ Enter("with") BY <1>1, EnterStep
<1>2. CASE AcquireFails BY <1>2, AcquireFailsStep
<1>3. CASE TryLockReturns BY <1>3, TryLockStep
<1>4. CASE WithLockStarts BY <1>4, WithLockStep
<1>5. CASE WithLockFinishes BY <1>5, WithLockFinishesStep
<1>6. ASSUME NEW k \in K, LeaseEnds(k) \/ CleanupEnds(k) \/ LoopStep(k) PROVE MutexInv'
  BY <1>6, LeaseEndsStep, CleanupEndsStep, LoopNoticesStep, LoopRenewsStep, LoopRenewedStep,
     LoopStopsStep, LoopEndsStep DEF LoopStep
<1>7. ASSUME NEW c \in Caller, RelStep(c) PROVE MutexInv'
  BY <1>7, StopRenewalStep, AwaitRenewalStep, CleanupStep, ReconcileStep, ClientReleaseStep
     DEF RelStep
<1>8. ASSUME NEW c \in Caller, NEW k \in K, BeginRelease(c, k) PROVE MutexInv'
  BY <1>8, BeginReleaseStep
<1>9. CASE UNCHANGED vars BY <1>9, StutterMutex
<1> QED BY <1>1, <1>2, <1>3, <1>4, <1>5, <1>6, <1>7, <1>8, <1>9 DEF Next

\* What Mutex.mu and Lock.mu protect, what the renewal goroutine knows and how far
\* Release has come fit together in every reachable state.
THEOREM MutexInvariant == Spec => []MutexInv
<1>1. Init => MutexInv BY InitMutex
<1>2. MutexInv /\ [Next]_vars => MutexInv' BY NextMutex
<1> QED BY <1>1, <1>2, PTL DEF Spec

\* Every variable keeps its type, and Mutex.manual is nil or a Lock of TryLock.
THEOREM MutexTypeCorrect == Spec => []TypeOK
<1>1. MutexInv => TypeOK BY InvariantImplies
<1> QED BY <1>1, MutexInvariant, PTL

\* No cleanup of an earlier Lock gives away an open one whose lease is held
\* (clearManual and abandonManual compare the Lock).
THEOREM OpenLockKeepsMutex == Spec => []HeldKeepsBusy
<1>1. MutexInv => HeldKeepsBusy BY InvariantImplies
<1> QED BY <1>1, MutexInvariant, PTL

\* A Lock that Release refuses with ErrRecipeBusy is one that somebody is about to
\* give up (beginRelease, abandonManual).
THEOREM RefusalAccounted == Spec => []ReleasingAccounted
<1>1. MutexInv => ReleasingAccounted BY InvariantImplies
<1> QED BY <1>1, MutexInvariant, PTL

\* Release and the renewal goroutine never call the client at once (stopRenewal).
THEOREM ReleaseCallsAlone == Spec => []ReleaseAlone
<1>1. MutexInv => ReleaseAlone BY InvariantImplies
<1> QED BY <1>1, MutexInvariant, PTL

\* Release learns through renewDone or the Lock of every renewal that the client
\* keeps and has reported as unknown (manualRenewalResult.pending).
THEOREM ReleaseNotRefused == Spec => []ReleaseAccepted
<1>1. MutexInv => ReleaseAccepted BY InvariantImplies
<1> QED BY <1>1, MutexInvariant, PTL

\* The mutex is not free while the lease of an acquisition is held, unless Release
\* has closed the Lock after its deadline (finish, abandonManual, Release).
THEOREM HeldLeaseKeepsBusy == Spec => []AuthorityKeepsBusy
<1>1. MutexInv => AuthorityKeepsBusy BY InvariantImplies
<1> QED BY <1>1, MutexInvariant, PTL

================================================================================
