---------------------------- MODULE DispatcherProofs ----------------------------
(***************************************************************************)
(* The dispatcher is serial, ordered, and starts at most one callback      *)
(* after Stop, for every set of owners and any number of transitions.      *)
(***************************************************************************)
EXTENDS ObserverDispatcher, SequenceTheorems, TLAPS

newest == Len(accepted)

Types ==
  /\ running \in BOOLEAN /\ stopped \in BOOLEAN
  /\ accepted \in Seq(Ownership) /\ newest <= MaxAccepted
  /\ pending \in 0 .. newest
  /\ calls \in Seq(1 .. MaxAccepted)
  /\ lateCalls \in Nat

\* There is one goroutine of deliver exactly while running is set.
OneDeliverer ==
  \/ ~running /\ deliverers = {}
  \/ running /\ \E d \in Deliverer : deliverers = {d}

\* What the callback was given is increasing, so the i-th snapshot has a number
\* of at least i.
CallsInOrder ==
  /\ \A i, j \in 1 .. Len(calls) : i < j => calls[i] < calls[j]
  /\ \A i \in 1 .. Len(calls) : i <= calls[i] /\ calls[i] <= newest

\* The goroutine holds the last snapshot the callback was given, or a newer one;
\* what waits is newer still, and waits for a goroutine.
HandsOn ==
  /\ \A d \in deliverers :
       /\ d.n <= newest
       /\ pending # 0 => d.n < pending
       /\ \A i \in 1 .. Len(calls) : IF d.calling THEN calls[i] <= d.n ELSE calls[i] < d.n
  /\ pending # 0 => running

\* After Stop nothing waits, and the callback that is still to start is the first.
Discarded ==
  /\ ~stopped => lateCalls = 0
  /\ stopped => pending = 0
  /\ lateCalls <= 1
  /\ lateCalls = 1 => \A d \in deliverers : d.calling

DispatcherInv == Types /\ OneDeliverer /\ CallsInOrder /\ HandsOn /\ Discarded

--------------------------------------------------------------------------------
\* What the callback was given are numbers.
LEMMA CallNumbers == ASSUME DispatcherInv
                     PROVE  /\ Len(calls) \in Nat /\ newest \in Nat
                            /\ DOMAIN calls = 1 .. Len(calls)
                            /\ \A i \in 1 .. Len(calls) : calls[i] \in 1 .. MaxAccepted
                            /\ \A i \in 1 .. Len(calls) : calls[i] \in Nat
<1>1. calls \in Seq(1 .. MaxAccepted) /\ accepted \in Seq(Ownership)
  BY DEF DispatcherInv, Types
<1>2. Len(calls) \in Nat /\ newest \in Nat BY <1>1, LenProperties DEF newest
<1>3. DOMAIN calls = 1 .. Len(calls) BY <1>1, LenProperties
<1>4. \A i \in 1 .. Len(calls) : calls[i] \in 1 .. MaxAccepted
  BY <1>1, ElementOfSeq
<1>5. 1 .. MaxAccepted \subseteq Nat BY AcceptedAssumption
<1> QED BY <1>2, <1>3, <1>4, <1>5

LEMMA InitInv == Init => DispatcherInv
<1> SUFFICES ASSUME Init PROVE DispatcherInv OBVIOUS
<1>1. newest = 0 /\ Len(calls) = 0
  <2>1. Len(<<>>) = 0 BY EmptySeq, Zenon
  <2> QED BY <2>1, Zenon DEF Init, newest
<1>2. accepted \in Seq(Ownership) /\ calls \in Seq(1 .. MaxAccepted) BY EmptySeq DEF Init
<1>3. Types
  <2>1. running \in BOOLEAN /\ stopped \in BOOLEAN BY Zenon DEF Init
  <2>2. pending \in 0 .. newest /\ newest <= MaxAccepted /\ lateCalls \in Nat
    BY <1>1, AcceptedAssumption DEF Init
  <2> QED BY <1>2, <2>1, <2>2, Zenon DEF Types
<1>4. OneDeliverer /\ HandsOn /\ Discarded BY DEF Init, OneDeliverer, HandsOn, Discarded
<1>5. CallsInOrder BY <1>1 DEF CallsInOrder
<1> QED BY <1>3, <1>4, <1>5 DEF DispatcherInv

LEMMA SubmitInv == ASSUME DispatcherInv, NEW o \in Ownership, Submit(o)
                   PROVE  DispatcherInv'
<1>1. /\ accepted' = Append(accepted, o) /\ newest < MaxAccepted
      /\ ~stopped /\ UNCHANGED <<stopped, calls, lateCalls>>
  BY DEF Submit, accept, newest
<1>2. accepted' \in Seq(Ownership) /\ newest' = newest + 1 /\ newest \in Nat
  BY <1>1 DEF DispatcherInv, Types, newest
<1>3. CallsInOrder'
  BY <1>1, <1>2, CallNumbers DEF DispatcherInv, CallsInOrder
<1>4. CASE running /\ pending' = newest + 1 /\ UNCHANGED <<running, deliverers>>
  <2>1. Types' BY <1>1, <1>2, <1>4, AcceptedAssumption DEF DispatcherInv, Types
  <2>2. OneDeliverer' BY <1>4 DEF DispatcherInv, OneDeliverer
  <2>3. HandsOn'
    BY <1>1, <1>2, <1>4 DEF DispatcherInv, Types, OneDeliverer, Deliverer, HandsOn
  <2>4. Discarded' BY <1>1, <1>4 DEF DispatcherInv, Discarded
  <2> QED BY <1>3, <2>1, <2>2, <2>3, <2>4 DEF DispatcherInv
<1>5. CASE ~running /\ spawn(newest + 1) /\ UNCHANGED pending
  <2> DEFINE e == [n |-> newest + 1, calling |-> FALSE]
  <2>1. deliverers' = {e} /\ running' = TRUE /\ pending = 0 /\ pending' = 0
    BY <1>5 DEF DispatcherInv, OneDeliverer, spawn, HandsOn
  <2>2. e \in Deliverer BY <1>1, <1>2, AcceptedAssumption DEF Deliverer
  <2>3. Types' BY <1>1, <1>2, <2>1, AcceptedAssumption DEF DispatcherInv, Types
  <2>4. OneDeliverer' BY <2>1, <2>2 DEF OneDeliverer
  <2>5. \A i \in 1 .. Len(calls) : calls[i] < newest + 1
    BY <1>2, CallNumbers DEF DispatcherInv, CallsInOrder
  <2>6. HandsOn' BY <1>1, <1>2, <2>1, <2>5 DEF HandsOn
  <2>7. Discarded' BY <1>1, <2>1 DEF DispatcherInv, Discarded
  <2> QED BY <1>3, <2>3, <2>4, <2>6, <2>7 DEF DispatcherInv
<1> QED BY <1>4, <1>5 DEF Submit, enqueue, newest

LEMMA CallbackStartsInv == ASSUME DispatcherInv, NEW d \in deliverers, CallbackStarts(d)
                           PROVE  DispatcherInv'
<1> DEFINE e == [d EXCEPT !.calling = TRUE]
<1>1. /\ d \in Deliverer /\ deliverers = {d} /\ running
  BY DEF DispatcherInv, OneDeliverer
<1>2. /\ ~d.calling /\ deliverers' = {e} /\ calls' = Append(calls, d.n)
      /\ UNCHANGED <<pending, running, stopped, accepted>>
      /\ lateCalls' = IF stopped THEN lateCalls + 1 ELSE lateCalls
  BY <1>1 DEF CallbackStarts
<1>3. /\ d.n \in 1 .. MaxAccepted /\ e \in Deliverer /\ e.n = d.n /\ e.calling
  BY <1>1 DEF Deliverer
<1>4. newest' = newest /\ newest \in Nat BY <1>2 DEF newest, DispatcherInv, Types
<1>5. /\ calls \in Seq(1 .. MaxAccepted) /\ calls' \in Seq(1 .. MaxAccepted)
      /\ Len(calls') = Len(calls) + 1 /\ Len(calls) \in Nat
      /\ calls'[Len(calls) + 1] = d.n
      /\ \A i \in 1 .. Len(calls) : calls'[i] = calls[i] /\ calls[i] \in Nat
  <2>1. calls \in Seq(1 .. MaxAccepted) BY DEF DispatcherInv, Types
  <2> QED BY <1>2, <1>3, <2>1, CallNumbers
<1>6. /\ d.n <= newest /\ \A i \in 1 .. Len(calls) : calls[i] < d.n
      /\ pending # 0 => d.n < pending
  BY <1>2 DEF DispatcherInv, HandsOn
<1>7. Len(calls) < d.n
  BY <1>3, <1>5, <1>6 DEF DispatcherInv, CallsInOrder
<1>8. Types' BY <1>2, <1>4, <1>5 DEF DispatcherInv, Types
<1>9. OneDeliverer' BY <1>1, <1>2, <1>3 DEF OneDeliverer
<1>10. CallsInOrder'
  <2>1. ASSUME NEW i \in 1 .. Len(calls'), NEW j \in 1 .. Len(calls'), i < j
        PROVE  calls'[i] < calls'[j]
    BY <1>3, <1>5, <1>6, <2>1 DEF DispatcherInv, CallsInOrder
  <2>2. ASSUME NEW i \in 1 .. Len(calls')
        PROVE  i <= calls'[i] /\ calls'[i] <= newest'
    BY <1>3, <1>4, <1>5, <1>6, <1>7 DEF DispatcherInv, CallsInOrder
  <2> QED BY <2>1, <2>2 DEF CallsInOrder
<1>11. HandsOn'
  BY <1>1, <1>2, <1>3, <1>4, <1>5, <1>6 DEF HandsOn
<1>12. Discarded'
  BY <1>1, <1>2, <1>3 DEF DispatcherInv, Types, Discarded
<1> QED BY <1>8, <1>9, <1>10, <1>11, <1>12 DEF DispatcherInv

LEMMA CallbackReturnsInv == ASSUME DispatcherInv, NEW d \in deliverers, CallbackReturns(d)
                            PROVE  DispatcherInv'
<1>1. d \in Deliverer /\ deliverers = {d} /\ running
  BY DEF DispatcherInv, OneDeliverer
<1>2. d.calling /\ UNCHANGED <<stopped, accepted, calls, lateCalls>> /\ newest' = newest
  BY DEF CallbackReturns, newest
<1>3. CallsInOrder' BY <1>2 DEF DispatcherInv, CallsInOrder
<1>4. CASE /\ stopped \/ pending = 0
           /\ deliverers' = deliverers \ {d} /\ running' = FALSE /\ UNCHANGED pending
  <2>1. deliverers' = {} /\ pending = 0
    BY <1>1, <1>4 DEF DispatcherInv, Discarded
  <2> QED BY <1>2, <1>3, <1>4, <2>1
          DEF DispatcherInv, Types, OneDeliverer, HandsOn, Discarded
<1>5. CASE ~stopped /\ pending # 0 /\ takePending(d)
  <2> DEFINE e == [n |-> pending, calling |-> FALSE]
  <2>1. deliverers' = {e} /\ pending' = 0 /\ running' = running
    BY <1>1, <1>5 DEF takePending
  <2>2. pending \in 1 .. MaxAccepted /\ pending <= newest /\ newest \in Nat
    BY <1>5, AcceptedAssumption DEF DispatcherInv, Types, newest
  <2>3. e \in Deliverer /\ e.n = pending /\ ~e.calling BY <2>2 DEF Deliverer
  <2>4. \A i \in 1 .. Len(calls) : calls[i] < pending
    <3>1. d.n \in Nat /\ d.n < pending /\ \A i \in 1 .. Len(calls) : calls[i] <= d.n
      BY <1>1, <1>2, <1>5 DEF DispatcherInv, HandsOn, Deliverer
    <3> QED BY <2>2, <3>1, CallNumbers
  <2>5. Types' BY <1>2, <2>1, <2>2 DEF DispatcherInv, Types
  <2>6. OneDeliverer' BY <1>1, <2>1, <2>3 DEF OneDeliverer
  <2>7. HandsOn' BY <1>1, <1>2, <2>1, <2>2, <2>3, <2>4 DEF HandsOn
  <2>8. Discarded' BY <1>2, <1>5, <2>1 DEF DispatcherInv, Discarded
  <2> QED BY <1>3, <2>5, <2>6, <2>7, <2>8 DEF DispatcherInv
<1> QED BY <1>4, <1>5 DEF CallbackReturns

LEMMA StopInv == ASSUME DispatcherInv, Stop PROVE DispatcherInv'
<1>1. newest' = newest /\ newest \in Nat BY DEF Stop, newest, DispatcherInv, Types
<1> QED BY <1>1 DEF DispatcherInv, Types, OneDeliverer, CallsInOrder, HandsOn, Discarded, Stop

LEMMA NextInv == DispatcherInv /\ [Next]_vars => DispatcherInv'
<1> SUFFICES ASSUME DispatcherInv, [Next]_vars PROVE DispatcherInv' OBVIOUS
<1>1. CASE Stop BY <1>1, StopInv
<1>2. CASE DeliverStep BY <1>2, CallbackStartsInv, CallbackReturnsInv DEF DeliverStep
<1>3. CASE \E o \in Ownership : Submit(o) BY <1>3, SubmitInv
<1>4. CASE UNCHANGED vars
  BY <1>4 DEF vars, DispatcherInv, Types, newest, OneDeliverer, CallsInOrder, HandsOn, Discarded
<1> QED BY <1>1, <1>2, <1>3, <1>4 DEF Next

--------------------------------------------------------------------------------
\* The dispatcher always has at most one goroutine, which holds a snapshot older
\* than the one that waits and no older than those it has handed over.
THEOREM DispatcherInvariance == Spec => []DispatcherInv
  BY InitInv, NextInv, PTL DEF Spec

LEMMA InvTypes == DispatcherInv => TypeOK
<1> SUFFICES ASSUME DispatcherInv PROVE TypeOK OBVIOUS
<1>1. newest \in Nat /\ Len(calls) \in Nat /\ Len(calls) <= newest
  <2>1. Len(calls) # 0 => Len(calls) \in 1 .. Len(calls) BY CallNumbers
  <2> QED BY <2>1, CallNumbers DEF DispatcherInv, CallsInOrder
<1>2. \A i \in DOMAIN calls : calls[i] \in 1 .. newest
  BY <1>1, CallNumbers DEF DispatcherInv, CallsInOrder
<1>3. deliverers \subseteq Deliverer BY DEF DispatcherInv, OneDeliverer
<1>4. \A i \in DOMAIN accepted : accepted[i] \in Ownership BY DEF DispatcherInv, Types
<1> QED BY <1>1, <1>2, <1>3, <1>4 DEF DispatcherInv, Types, TypeOK, newest

\* Types are kept, and the callback is never started more often than there were
\* transitions (observerDispatcher).
THEOREM DispatcherTypes == Spec => []TypeOK
  BY DispatcherInvariance, InvTypes, PTL

LEMMA InvSerial == DispatcherInv => SerialDelivery
<1> SUFFICES ASSUME DispatcherInv PROVE SerialDelivery OBVIOUS
<1>1. \A d, e \in deliverers : d = e
  BY DEF DispatcherInv, OneDeliverer
<1>2. running <=> deliverers # {} BY DEF DispatcherInv, OneDeliverer
<1>3. DOMAIN calls = 1 .. Len(calls) BY CallNumbers
<1> QED BY <1>1, <1>2, <1>3 DEF DispatcherInv, CallsInOrder, SerialDelivery

\* Callbacks run one at a time and in the order of Submit, for every number of
\* transitions (running, pending and deliver of observerDispatcher).
THEOREM Serial == Spec => []SerialDelivery
  BY DispatcherInvariance, InvSerial, PTL

LEMMA InvStop == DispatcherInv => StopDiscards
  BY DEF DispatcherInv, Discarded, StopDiscards

\* At most one callback starts after Stop, for every number of transitions (Stop
\* and deliver of observerDispatcher).
THEOREM StopIsEffective == Spec => []StopDiscards
  BY DispatcherInvariance, InvStop, PTL
================================================================================
