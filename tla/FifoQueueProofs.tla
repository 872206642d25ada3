-------------------------- MODULE FifoQueueProofs --------------------------
(***************************************************************************)
(* Theorems about FifoQueue for every set of producers and consumers and   *)
(* every capacity.                                                         *)
(***************************************************************************)
EXTENDS FifoQueue, TLAPS

\* notify_one and the two outcomes of polling notified() keep a Notify's type.
LEMMA NotifyKeepsType ==
    ASSUME NEW tasks, NEW n \in NotifyType(tasks)
    PROVE  /\ notify_one(n) \in NotifyType(tasks)
           /\ TakePermit(n) \in NotifyType(tasks)
           /\ \A t \in tasks : JoinWaiters(n, t) \in NotifyType(tasks)
<1>1. n.waiters \in Seq(tasks) /\ n.permit \in BOOLEAN
  BY DEF NotifyType
<1>2. [n EXCEPT !.permit = TRUE] \in NotifyType(tasks) /\ TakePermit(n) \in NotifyType(tasks)
  BY DEF NotifyType, TakePermit
<1>3. ASSUME NEW t \in tasks PROVE JoinWaiters(n, t) \in NotifyType(tasks)
  <2>1. Append(n.waiters, t) \in Seq(tasks)
    BY <1>1
  <2> QED BY <2>1 DEF NotifyType, JoinWaiters
<1>4. CASE n.waiters = <<>>
  BY <1>2, <1>3, <1>4 DEF notify_one
<1>5. CASE n.waiters # <<>>
  <2>1. Tail(n.waiters) \in Seq(tasks)
    BY <1>1, <1>5
  <2>2. [n EXCEPT !.waiters = Tail(n.waiters)] \in NotifyType(tasks)
    BY <2>1 DEF NotifyType
  <2> QED BY <1>2, <1>3, <1>5, <2>2 DEF notify_one
<1> QED BY <1>4, <1>5

\* A push at the back by enqueue or try_enqueue keeps types, order and capacity.
LEMMA PushKeepsOrder ==
    ASSUME TypeOK, InOrderWithinCapacity, has_room(Len(items)),
           items' = Append(items, sent + 1), sent' = sent + 1, UNCHANGED received
    PROVE  /\ items' \in Seq(Nat) /\ received' \in Seq(Nat) /\ sent' \in Nat
           /\ InOrderWithinCapacity'
<1>1. items \in Seq(Nat) /\ received \in Seq(Nat) /\ sent \in Nat
  BY DEF TypeOK
<1>2. /\ items' \in Seq(Nat) /\ Len(items') = Len(items) + 1
      /\ \A i \in DOMAIN items' :
           items'[i] = IF i = Len(items) + 1 THEN sent + 1 ELSE items[i]
      /\ \A i \in DOMAIN items' : i # Len(items) + 1 => i \in DOMAIN items
  BY <1>1
<1>3. Capacity # None => Len(items') <= Capacity
  BY <1>1, <1>2, CapacityAssumption DEF has_room
<1> QED BY <1>1, <1>2, <1>3 DEF InOrderWithinCapacity

\* So does a pop at the front by dequeue or try_dequeue.
LEMMA PopKeepsOrder ==
    ASSUME TypeOK, InOrderWithinCapacity, Pop, UNCHANGED sent
    PROVE  /\ items' \in Seq(Nat) /\ received' \in Seq(Nat) /\ sent' \in Nat
           /\ InOrderWithinCapacity'
<1>1. items \in Seq(Nat) /\ received \in Seq(Nat) /\ sent \in Nat
  BY DEF TypeOK
<1>2. items # <<>> /\ items' = Tail(items) /\ received' = Append(received, Head(items))
  BY DEF Pop
<1>3. /\ items' \in Seq(Nat) /\ Len(items') = Len(items) - 1 /\ Len(items) \in Nat
      /\ \A i \in DOMAIN items' : i + 1 \in DOMAIN items /\ items'[i] = items[i + 1]
  BY <1>1, <1>2
<1>4. Head(items) = Len(received) + 1 /\ Head(items) \in Nat
  BY <1>1, <1>2 DEF InOrderWithinCapacity
<1>5. /\ received' \in Seq(Nat) /\ Len(received') = Len(received) + 1
      /\ \A i \in DOMAIN received' : received'[i] = i
  <2>1. /\ received' \in Seq(Nat) /\ Len(received') = Len(received) + 1
        /\ DOMAIN received' = 1..(Len(received) + 1)
        /\ received'[Len(received) + 1] = Head(items)
        /\ \A i \in 1..Len(received) : received'[i] = received[i]
    BY <1>1, <1>2, <1>4
  <2>2. \A i \in 1..Len(received) : received[i] = i
    BY <1>1 DEF InOrderWithinCapacity
  <2>3. Len(received) \in Nat
    BY <1>1
  <2>4. ASSUME NEW i \in DOMAIN received' PROVE received'[i] = i
    <3>1. i \in 1..Len(received) \/ i = Len(received) + 1
      BY <2>1, <2>3
    <3> QED BY <1>4, <2>1, <2>2, <3>1
  <2> QED BY <2>1, <2>4
<1>6. Capacity # None => Len(items') <= Capacity
  BY <1>1, <1>3, CapacityAssumption DEF InOrderWithinCapacity
<1>7. ASSUME NEW i \in DOMAIN items' PROVE items'[i] = Len(received') + i
  <2>1. items'[i] = Len(received) + (i + 1)
    BY <1>3 DEF InOrderWithinCapacity
  <2>2. Len(received) \in Nat /\ i \in Nat
    BY <1>1, <1>3
  <2> QED BY <1>5, <2>1, <2>2
<1> QED BY <1>1, <1>3, <1>5, <1>6, <1>7 DEF InOrderWithinCapacity

\* Every step of every task keeps types, order and capacity.
LEMMA QueueStep ==
    TypeOK /\ InOrderWithinCapacity /\ [Next]_vars => TypeOK' /\ InOrderWithinCapacity'
<1> SUFFICES ASSUME TypeOK, InOrderWithinCapacity, [Next]_vars
             PROVE  TypeOK' /\ InOrderWithinCapacity'
  OBVIOUS
<1>1. CASE UNCHANGED vars
  BY <1>1 DEF vars, TypeOK, InOrderWithinCapacity
<1>2. ASSUME UNCHANGED <<items, sent, received>> PROVE InOrderWithinCapacity'
  BY <1>2 DEF InOrderWithinCapacity
<1>3. ASSUME NEW t \in Tasks, NEW step \in Steps, Goto(t, step) PROVE pc' \in [Tasks -> Steps]
  BY <1>3 DEF Goto, TypeOK
<1>4. ASSUME NEW p \in Producers, EnqueueCall(p) \/ TryEnqueue(p) \/ Produce(p)
      PROVE  TypeOK' /\ InOrderWithinCapacity'
  <2>1. p \in Tasks
    BY DEF Tasks
  <2>2. CASE EnqueueCheck(p) \/ TryEnqueue(p)
    <3>1. \/ /\ has_room(Len(items)) /\ items' = Append(items, sent + 1) /\ sent' = sent + 1
             /\ UNCHANGED received
          \/ UNCHANGED <<items, sent, received>>
      BY <2>2 DEF EnqueueCheck, TryEnqueue
    <3>2. items' \in Seq(Nat) /\ received' \in Seq(Nat) /\ sent' \in Nat
          /\ InOrderWithinCapacity'
      BY <1>2, <3>1, PushKeepsOrder DEF TypeOK
    <3>3. UNCHANGED <<not_empty, not_full>> /\ pc' \in [Tasks -> Steps]
      BY <1>3, <2>1, <2>2 DEF EnqueueCheck, TryEnqueue, Steps
    <3> QED BY <3>2, <3>3 DEF TypeOK
  <2>3. CASE EnqueueCall(p) \/ NotifyNotEmpty(p) \/ AwaitNotFull(p) \/ Wake(p)
    <3>1. UNCHANGED <<items, sent, received>> /\ pc' \in [Tasks -> Steps]
      BY <1>3, <2>1, <2>3 DEF EnqueueCall, NotifyNotEmpty, AwaitNotFull, Await, Wake, Steps
    <3>2. not_full' \in NotifyType(Producers)
      BY <2>3, NotifyKeepsType DEF TypeOK, EnqueueCall, NotifyNotEmpty, AwaitNotFull,
         Await, Wake
    <3>3. not_empty' = not_empty \/ not_empty' = notify_one(not_empty)
      BY <2>3 DEF EnqueueCall, NotifyNotEmpty, AwaitNotFull, Await, Wake
    <3>4. not_empty' \in NotifyType(Consumers)
      BY <3>3, NotifyKeepsType DEF TypeOK
    <3> QED BY <1>2, <3>1, <3>2, <3>4 DEF TypeOK
  <2> QED BY <1>4, <2>2, <2>3 DEF Produce
<1>5. ASSUME NEW c \in Consumers, DequeueCall(c) \/ TryDequeue(c) \/ Consume(c)
      PROVE  TypeOK' /\ InOrderWithinCapacity'
  <2>1. c \in Tasks
    BY DEF Tasks
  <2>2. CASE DequeueCheck(c) \/ TryDequeue(c)
    <3>1. (Pop /\ UNCHANGED sent) \/ UNCHANGED <<items, sent, received>>
      BY <2>2 DEF DequeueCheck, TryDequeue
    <3>2. items' \in Seq(Nat) /\ received' \in Seq(Nat) /\ sent' \in Nat
          /\ InOrderWithinCapacity'
      BY <1>2, <3>1, PopKeepsOrder DEF TypeOK
    <3>3. UNCHANGED <<not_empty, not_full>> /\ pc' \in [Tasks -> Steps]
      BY <1>3, <2>1, <2>2 DEF DequeueCheck, TryDequeue, Steps
    <3> QED BY <3>2, <3>3 DEF TypeOK
  <2>3. CASE DequeueCall(c) \/ NotifyNotFull(c) \/ AwaitNotEmpty(c) \/ Wake(c)
    <3>1. UNCHANGED <<items, sent, received>> /\ pc' \in [Tasks -> Steps]
      BY <1>3, <2>1, <2>3 DEF DequeueCall, NotifyNotFull, AwaitNotEmpty, Await, Wake, Steps
    <3>2. not_empty' \in NotifyType(Consumers)
      BY <2>3, NotifyKeepsType DEF TypeOK, DequeueCall, NotifyNotFull, AwaitNotEmpty,
         Await, Wake
    <3>3. not_full' = not_full \/ not_full' = notify_one(not_full)
      BY <2>3 DEF DequeueCall, NotifyNotFull, AwaitNotEmpty, Await, Wake
    <3>4. not_full' \in NotifyType(Producers)
      BY <3>3, NotifyKeepsType DEF TypeOK
    <3> QED BY <1>2, <3>1, <3>2, <3>4 DEF TypeOK
  <2> QED BY <1>5, <2>2, <2>3 DEF Consume
<1> QED BY <1>1, <1>4, <1>5 DEF Next, Rest

\* A new queue satisfies both parts of the inductive invariant.
LEMMA QueueInit == Init => TypeOK /\ InOrderWithinCapacity
BY CapacityAssumption DEF Init, TypeOK, InOrderWithinCapacity, NewNotify, NotifyType, Steps

\* The queue's fields keep their types: among others only producers ever wait on
\* not_full and only consumers on not_empty, so that no wake-up meant for one
\* kind of task can be received by the other.
THEOREM TypeCorrect == Spec => []TypeOK
BY QueueInit, QueueStep, PTL DEF Spec

\* FifoQueue's docs: "strictly first-in-first-out", and a bounded queue "waits for
\* room once the queue is full, instead of growing past it".  However many
\* producers and consumers compete, every item leaves once and in the order
\* it was pushed, and the capacity is never exceeded.
THEOREM FifoOrder == Spec => []InOrderWithinCapacity
BY QueueInit, QueueStep, PTL DEF Spec

=============================================================================
