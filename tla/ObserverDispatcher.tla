--------------------------- MODULE ObserverDispatcher ---------------------------
(***************************************************************************)
(* observerDispatcher of recipes/leaderelection/observer.go: the elector's *)
(* polling submits observations, a goroutine of the dispatcher hands them  *)
(* to the application's callback, and Stop ends it when Run returns.  A    *)
(* step is one critical section of mu or the start of a callback.          *)
(*                                                                         *)
(* Submit ignores an observation with the owner and epoch of the last one, *)
(* so an observation is reduced to that pair.  Accepted observations are   *)
(* numbered, and pending, deliver and the history name them by number.     *)
(***************************************************************************)
EXTENDS Naturals, Sequences

CONSTANTS
  Ownership,   \* pairs of ClientID and EpochID
  MaxAccepted  \* bound: observations that pass the filter

ASSUME AcceptedAssumption == MaxAccepted \in Nat

VARIABLES
  pending,    \* number of the snapshot that waits for the callback; 0 is nil
  running,    \* a goroutine of deliver has been started and has not ended
  stopped,    \* Stop was called
  accepted,   \* history: the observations that passed the filter, last at the end
  deliverers, \* the goroutines of deliver: each with its snapshot
  calls,      \* history: numbers of the snapshots the callback was started with
  lateCalls   \* history: how many callbacks were started after Stop

vars == <<pending, running, stopped, accepted, deliverers, calls, lateCalls>>

Deliverer == [n : 1 .. MaxAccepted, calling : BOOLEAN]

Init ==
  /\ pending = 0 /\ running = FALSE /\ stopped = FALSE
  /\ accepted = <<>> /\ deliverers = {}
  /\ calls = <<>> /\ lateCalls = 0

--------------------------------------------------------------------------------
\* last and seen: o is the observation of a renewal, not of a transition.
seenLast(o) == accepted # <<>> /\ accepted[Len(accepted)] = o

accept(o) ==
  /\ Len(accepted) < MaxAccepted
  /\ accepted' = Append(accepted, o)

\* go d.deliver(observation)
spawn(n) ==
  /\ running' = TRUE
  /\ deliverers' = deliverers \cup {[n |-> n, calling |-> FALSE]}

\* Mutation of enqueue: every transition gets a goroutine of its own.
enqueue_spawns(n) == spawn(n) /\ UNCHANGED pending

\* Mutation of enqueue: a snapshot that is already waiting is kept.
enqueue_keepsOldest(n) ==
  \/ running /\ pending' = (IF pending = 0 THEN n ELSE pending)
             /\ UNCHANGED <<running, deliverers>>
  \/ ~running /\ spawn(n) /\ UNCHANGED pending

\* The newest snapshot replaces the one that waits.
enqueue(n) ==
  \/ running /\ pending' = n /\ UNCHANGED <<running, deliverers>>
  \/ ~running /\ spawn(n) /\ UNCHANGED pending

\* Mutation of Submit: it goes on after Stop.
Submit_afterStop(o) ==
  /\ ~seenLast(o)
  /\ accept(o)
  /\ enqueue(Len(accepted) + 1)
  /\ UNCHANGED <<stopped, calls, lateCalls>>

Submit(o) ==
  /\ ~stopped /\ ~seenLast(o)
  /\ accept(o)
  /\ enqueue(Len(accepted) + 1)
  /\ UNCHANGED <<stopped, calls, lateCalls>>

\* deliver starts the callback: mu is not held, and Stop is not looked at.
CallbackStarts(d) ==
  /\ ~d.calling
  /\ deliverers' = (deliverers \ {d}) \cup {[d EXCEPT !.calling = TRUE]}
  /\ calls' = Append(calls, d.n)
  /\ lateCalls' = IF stopped THEN lateCalls + 1 ELSE lateCalls
  /\ UNCHANGED <<pending, running, stopped, accepted>>

\* Mutation of takePending: the snapshot that was taken stays pending.
takePending_keeps(d) ==
  /\ deliverers' = (deliverers \ {d}) \cup {[n |-> pending, calling |-> FALSE]}
  /\ UNCHANGED <<pending, running>>

takePending(d) ==
  /\ deliverers' = (deliverers \ {d}) \cup {[n |-> pending, calling |-> FALSE]}
  /\ pending' = 0
  /\ UNCHANGED running

\* The callback has returned: deliver takes the snapshot that waits, or ends.
CallbackReturns(d) ==
  /\ d.calling
  /\ \/ /\ stopped \/ pending = 0
        /\ deliverers' = deliverers \ {d}
        /\ running' = FALSE
        /\ UNCHANGED pending
     \/ ~stopped /\ pending # 0 /\ takePending(d)
  /\ UNCHANGED <<stopped, accepted, calls, lateCalls>>

Stop ==
  /\ ~stopped
  /\ stopped' = TRUE
  /\ pending' = 0
  /\ UNCHANGED <<running, accepted, deliverers, calls, lateCalls>>

DeliverStep == \E d \in deliverers : CallbackStarts(d) \/ CallbackReturns(d)

Next == Stop \/ DeliverStep \/ \E o \in Ownership : Submit(o)

Spec == Init /\ [][Next]_vars

\* The goroutine runs, and the application's callback returns.
LiveSpec == Spec /\ WF_vars(DeliverStep)

--------------------------------------------------------------------------------
(***************************************************************************)
(* Properties.                                                             *)
(***************************************************************************)

\* Every variable keeps its type, and callbacks never outnumber the transitions that
\* passed the filter (type observerDispatcher).
TypeOK ==
  /\ running \in BOOLEAN /\ stopped \in BOOLEAN
  /\ Len(accepted) <= MaxAccepted /\ \A i \in DOMAIN accepted : accepted[i] \in Ownership
  /\ pending \in 0 .. Len(accepted)
  /\ deliverers \subseteq Deliverer
  /\ Len(calls) <= Len(accepted) /\ \A i \in DOMAIN calls : calls[i] \in 1 .. Len(accepted)
  /\ lateCalls \in Nat

\* One callback executes at a time, and callbacks are given the transitions in
\* the order of their Submit, although deliver calls without mu (running).
SerialDelivery ==
  /\ \A d, e \in deliverers : d = e
  /\ running <=> deliverers # {}
  /\ \A i, j \in DOMAIN calls : i < j => calls[i] < calls[j]

\* At most one callback starts after Stop: the one whose snapshot deliver already
\* had in its hands.  What was pending is discarded and nothing new is accepted.
StopDiscards == lateCalls <= 1

\* The newest ownership transition reaches the callback, unless the dispatcher
\* is stopped or a newer one replaces it, however slow the callback is.
NewestDelivered ==
  \A n \in 1 .. MaxAccepted :
    Len(accepted) = n ~> \/ stopped \/ Len(accepted) > n
                         \/ \E i \in DOMAIN calls : calls[i] = n

================================================================================
