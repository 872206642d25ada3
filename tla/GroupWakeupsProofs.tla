------------------------- MODULE GroupWakeupsProofs -------------------------
(***************************************************************************)
(* Theorems about GroupWakeups for every set of messages, consumers and    *)
(* watchers, every retry limit and every workload.                         *)
(***************************************************************************)
EXTENDS GroupWakeups, SubsequenceLemmas, SequenceTheorems

Queued == Range(pending) \cup Range(delayed)
Left == acked \cup dead \cup stranded

\* No message is twice in one place or in two places.
Places ==
    /\ IsInjective(pending) /\ IsInjective(delayed)
    /\ Range(pending) \cap Range(delayed) = {}
    /\ Queued \cap leased = {} /\ Queued \cap Left = {} /\ leased \cap Left = {}
    /\ acked \cap dead = {} /\ (acked \cup dead) \cap stranded = {}
    /\ \A t \in Tasks : taken[t] \cap (Queued \cup leased \cup Left) = {}
    /\ \A t, u \in Tasks : t # u => taken[t] \cap taken[u] = {}

\* A task has messages in its hands only while it resolves them, a nack exactly
\* one; a consumer that works on a delivery has one.
Hands ==
    /\ \A t \in Tasks : pc[t] \notin {"resolve", "nack_resolve"} => taken[t] = {}
    /\ \A t \in Tasks : pc[t] = "nack_resolve" => \E m \in Messages : taken[t] = {m}
    /\ \A c \in Claimers : pc[c] \in {"notify", "holding", "publish_notify"} => held[c] \in Delivery

\* A message that waits for a delivery has one left; streams keep to their bound.
Counts ==
    /\ workload \in Workloads
    /\ \A m \in Queued : delivery_count[m] < MaxAttempts
    /\ \A m \in Messages : Len(stream[m]) <= MaxChunks

IInv == TypeOK /\ Places /\ Hands /\ Counts

-----------------------------------------------------------------------------
(* The operators                                                            *)

\* Whatever a task does to the Notify, only tasks wait on it.
LEMMA NotifyType_Kept ==
    ASSUME NEW tasks, NEW n \in NotifyType(tasks)
    PROVE  /\ notify_one(n) \in NotifyType(tasks)
           /\ notify_waiters(n) \in NotifyType(tasks)
           /\ TakePermit(n) \in NotifyType(tasks)
           /\ \A t \in tasks : JoinWaiters(n, t) \in NotifyType(tasks)
           /\ \A t : WaitsOn(n, t) => LeaveWaiters(n, t) \in NotifyType(tasks)
<1>1. n.waiters \in Seq(tasks) /\ n.permit \in BOOLEAN
  BY DEF NotifyType
<1>2. \A w \in Seq(tasks) : [n EXCEPT !.waiters = w] \in NotifyType(tasks)
  BY DEF NotifyType
<1>3. /\ [n EXCEPT !.permit = TRUE] \in NotifyType(tasks)
      /\ TakePermit(n) \in NotifyType(tasks)
  BY DEF NotifyType, TakePermit
<1>4. notify_one(n) \in NotifyType(tasks)
  <2>1. CASE n.waiters = <<>>
    BY <1>3, <2>1 DEF notify_one
  <2>2. CASE n.waiters # <<>>
    <3>1. Tail(n.waiters) \in Seq(tasks)
      BY <1>1, <2>2
    <3> QED BY <1>2, <2>2, <3>1 DEF notify_one
  <2> QED BY <2>1, <2>2
<1>5. notify_waiters(n) \in NotifyType(tasks)
  <2>1. <<>> \in Seq(tasks)
    OBVIOUS
  <2> QED BY <1>2, <2>1 DEF notify_waiters
<1>6. ASSUME NEW t \in tasks PROVE JoinWaiters(n, t) \in NotifyType(tasks)
  <2>1. Append(n.waiters, t) \in Seq(tasks)
    BY <1>1
  <2> QED BY <1>2, <2>1 DEF JoinWaiters
<1>7. ASSUME NEW t, WaitsOn(n, t) PROVE LeaveWaiters(n, t) \in NotifyType(tasks)
  <2> DEFINE i == CHOOSE k \in DOMAIN n.waiters : n.waiters[k] = t
  <2>1. i \in DOMAIN n.waiters
    BY <1>7 DEF WaitsOn, Range
  <2>2. RemoveAt(n.waiters, i) \in Seq(tasks)
    BY <1>1, <2>1, RemoveAtType
  <2> QED BY <1>2, <2>2 DEF LeaveWaiters
<1> QED BY <1>3, <1>4, <1>5, <1>6, <1>7

\* promote_ready_delayed splits the backoff list: the due part joins the queue, no
\* message is lost and none is doubled.
LEMMA PromoteFacts ==
    ASSUME TypeOK, Places,
           NEW ready \in Ascending(ReadyPositions),
           NEW waiting \in Ascending(DOMAIN delayed \ ReadyPositions)
    PROVE  /\ Promoted(ready) \in Seq(Messages) /\ StillDelayed(waiting) \in Seq(Messages)
           /\ IsInjective(Promoted(ready)) /\ IsInjective(StillDelayed(waiting))
           /\ Range(Promoted(ready)) \cap Range(StillDelayed(waiting)) = {}
           /\ Range(Promoted(ready)) \cup Range(StillDelayed(waiting)) = Queued
           /\ Range(StillDelayed(waiting)) \subseteq Range(delayed) \ due
<1> DEFINE R == {delayed[i] : i \in ReadyPositions}
           W == {delayed[i] : i \in DOMAIN delayed \ ReadyPositions}
<1>1. /\ pending \in Seq(Messages) /\ delayed \in Seq(Messages)
      /\ ReadyPositions \in SUBSET DOMAIN delayed
      /\ IsInjective(pending) /\ IsInjective(delayed) /\ Range(pending) \cap Range(delayed) = {}
  BY DEF TypeOK, Places, ReadyPositions
<1>2. /\ Pick(delayed, ready) \in Seq(Messages) /\ IsInjective(Pick(delayed, ready))
      /\ Range(Pick(delayed, ready)) = R
  BY <1>1, PickFacts
<1>3. /\ StillDelayed(waiting) \in Seq(Messages) /\ IsInjective(StillDelayed(waiting))
      /\ Range(StillDelayed(waiting)) = W
  BY <1>1, PickFacts DEF StillDelayed
<1>4. R \cap W = {} /\ R \cup W = Range(delayed) /\ W \cap due = {}
  BY <1>1 DEF IsInjective, Range, ReadyPositions
<1> HIDE DEF R, W
<1>5. /\ Promoted(ready) \in Seq(Messages) /\ IsInjective(Promoted(ready))
      /\ Range(Promoted(ready)) = Range(pending) \cup R
  BY <1>1, <1>2, <1>4, ConcatFacts DEF Promoted
<1> QED BY <1>1, <1>3, <1>4, <1>5 DEF Queued

-----------------------------------------------------------------------------
(* What each step keeps                                                     *)

\* The steps that only wait, wake or move on: messages and deliveries stay put.
LEMMA QuietStep ==
    ASSUME IInv, NEW t \in Tasks, NEW step \in Steps \ {"resolve", "nack_resolve"},
           pc[t] \notin {"resolve", "nack_resolve"},
           step \in {"notify", "holding", "publish_notify"} => pc[t] \in {"notify", "publish_notify"},
           Goto(t, step), changed' \in NotifyType(Tasks), after' \in [Watchers -> 0..MaxChunks],
           UNCHANGED <<stateVars, notifying, taken, held, gone>>
    PROVE  IInv'
<1> USE DEF IInv, stateVars, gone, Goto
<1>1. pc' \in [Tasks -> Steps]
  BY DEF TypeOK
<1>2. TypeOK'
  BY <1>1 DEF TypeOK
<1>3. Places' /\ Counts'
  BY DEF Places, Counts, Queued, Left
<1>4. Hands'
  BY DEF Hands, TypeOK, Tasks
<1> QED BY <1>2, <1>3, <1>4

LEMMA EnqueueKeeps ==
    ASSUME IInv, NEW m \in Messages, Enqueue(m)
    PROVE  IInv' /\ Queued' = Queued \cup {m} /\ m \notin Queued
<1> USE DEF IInv, gone, Enqueue
<1>1. /\ m \notin Range(pending) /\ m \notin Range(delayed) /\ m \notin leased /\ m \notin Left
      /\ \A t \in Tasks : m \notin taken[t]
      /\ delivery_count[m] = 0
  BY DEF IsNew, Left
<1>2. /\ pending' \in Seq(Messages) /\ Range(pending') = Range(pending) \cup {m}
      /\ IsInjective(pending')
  BY <1>1, AppendFacts DEF TypeOK, Places
<1>3. notifying' \in Nat
  BY DEF TypeOK
<1>4. TypeOK'
  BY <1>2, <1>3 DEF TypeOK
<1>5. Queued' = Queued \cup {m} /\ m \notin Queued
  BY <1>1, <1>2 DEF Queued
<1>6. Places'
  BY <1>1, <1>2, <1>5 DEF Places, Left, Queued
<1>7. Hands' /\ Counts'
  BY <1>1, <1>5, BoundsAssumption DEF Hands, Counts
<1> QED BY <1>4, <1>5, <1>6, <1>7

LEMMA ElapseKeeps ==
    ASSUME IInv, NEW m \in Messages, Elapse(m)
    PROVE  IInv'
<1> USE DEF IInv, gone, Elapse
<1>1. TypeOK'
  BY DEF TypeOK
<1>2. Places' /\ Hands' /\ Counts'
  BY DEF Places, Hands, Counts, Queued, Left
<1> QED BY <1>1, <1>2

\* The expired leases go from the lease map to the hands of the task.
LEMMA TakeExpiredKeeps ==
    ASSUME IInv, NEW c \in Claimers, TakeExpired(c)
    PROVE  IInv' /\ taken[c] = {} /\ taken'[c] = leased \ leased' /\ leased' \subseteq leased
<1> USE DEF IInv, gone, TakeExpired, Goto
<1>1. c \in Tasks
  BY DEF Tasks
<1>2. /\ taken[c] = {} /\ Expired \subseteq leased /\ leased' = leased \ Expired
      /\ taken \in [Tasks -> SUBSET Messages] /\ leased \subseteq Messages
      /\ taken' = [taken EXCEPT ![c] = Expired]
  BY <1>1 DEF Hands, Expired, TypeOK
<1>3. taken' \in [Tasks -> SUBSET Messages] /\ leased' \subseteq Messages
  BY <1>1, <1>2
<1>4. pc' \in [Tasks -> Steps]
  BY <1>1 DEF TypeOK, Steps
<1>5. due' \subseteq leased' \cup Range(delayed') \cup UNION {taken'[t] : t \in Tasks}
  <2> SUFFICES ASSUME NEW m \in due, m \notin leased', m \notin Range(delayed)
               PROVE  \E t \in Tasks : m \in taken'[t]
    OBVIOUS
  <2>1. m \in leased \/ \E t \in Tasks : m \in taken[t]
    BY DEF TypeOK
  <2>2. CASE m \in leased
    BY <1>1, <1>2, <2>2
  <2>3. CASE \E t \in Tasks : m \in taken[t]
    BY <1>1, <1>2, <2>3
  <2> QED BY <2>1, <2>2, <2>3
<1>6. TypeOK'
  BY <1>3, <1>4, <1>5 DEF TypeOK
<1>7. \A t \in Tasks : taken'[t] = IF t = c THEN Expired ELSE taken[t]
  BY <1>1, <1>2
<1>8. Places'
  BY <1>1, <1>2, <1>7 DEF Places, Queued, Left
<1>9. Hands'
  <2>1. \A t \in Tasks : pc'[t] = IF t = c THEN IF Expired = {} THEN "check" ELSE "resolve"
                                           ELSE pc[t]
    BY <1>1 DEF TypeOK
  <2> QED BY <1>1, <1>7, <2>1 DEF Hands, Tasks
<1>10. Counts'
  BY DEF Counts, Queued
<1> QED BY <1>1, <1>2, <1>6, <1>7, <1>8, <1>9, <1>10

\* One message leaves the hands of a task for the backoff list or for good.
LEMMA ResolveFailedFacts ==
    ASSUME IInv, NEW c \in Tasks, NEW m \in taken[c], ResolveFailedDelivery(m),
           taken' = [taken EXCEPT ![c] = @ \ {m}]
    PROVE  /\ m \in Messages /\ Places'
           /\ delayed' \in Seq(Messages) /\ dead' \subseteq Messages
           /\ due' \subseteq leased' \cup Range(delayed') \cup UNION {taken'[t] : t \in Tasks}
           /\ taken' \in [Tasks -> SUBSET Messages]
           /\ \A t \in Tasks : taken'[t] = taken[t] \ {m}
           /\ \/ /\ delivery_count[m] = MaxAttempts
                 /\ dead' = dead \cup {m} /\ Queued' = Queued
              \/ /\ delivery_count[m] < MaxAttempts
                 /\ dead' = dead /\ Queued' = Queued \cup {m}
<1> USE DEF IInv, ResolveFailedDelivery
<1>1. taken \in [Tasks -> SUBSET Messages] /\ m \in Messages /\ delivery_count[m] \in 0..MaxAttempts
  BY DEF TypeOK
<1>2. taken' \in [Tasks -> SUBSET Messages]
  BY <1>1
<1>3. \A t \in Tasks : taken'[t] = taken[t] \ {m}
  BY <1>1 DEF Places
<1>4. m \notin Queued /\ m \notin leased /\ m \notin Left
  BY DEF Places
<1>5. /\ Append(delayed, m) \in Seq(Messages)
      /\ Range(Append(delayed, m)) = Range(delayed) \cup {m}
      /\ IsInjective(Append(delayed, m))
  BY <1>1, <1>4, AppendFacts DEF TypeOK, Places, Queued
<1>6. CASE is_exhausted(delivery_count[m])
  <2>1. delivery_count[m] = MaxAttempts
    BY <1>1, <1>6, BoundsAssumption DEF is_exhausted
  <2>2. /\ dead' = dead \cup {m} /\ due' = due \ {m}
        /\ UNCHANGED <<pending, delayed, leased, acked, stranded>>
    BY <1>6
  <2>3. Places'
    BY <1>3, <1>4, <2>2 DEF Places, Queued, Left
  <2>4. due' \subseteq leased' \cup Range(delayed') \cup UNION {taken'[t] : t \in Tasks}
    BY <1>3, <2>2 DEF TypeOK
  <2> QED BY <1>1, <1>2, <1>3, <2>1, <2>2, <2>3, <2>4 DEF TypeOK, Queued
<1>7. CASE ~is_exhausted(delivery_count[m])
  <2>1. delivery_count[m] < MaxAttempts
    BY <1>1, <1>7, BoundsAssumption DEF is_exhausted
  <2>2. /\ delayed' = Append(delayed, m) /\ due' = due \ {m}
        /\ UNCHANGED <<pending, dead, leased, acked, stranded>>
    BY <1>7
  <2>3. Queued' = Queued \cup {m}
    BY <1>5, <2>2 DEF Queued
  <2>4. Places'
    BY <1>3, <1>4, <1>5, <2>2, <2>3 DEF Places, Queued, Left
  <2>5. due' \subseteq leased' \cup Range(delayed') \cup UNION {taken'[t] : t \in Tasks}
    BY <1>3, <1>5, <2>2 DEF TypeOK
  <2> QED BY <1>1, <1>2, <1>3, <1>5, <2>1, <2>2, <2>3, <2>4, <2>5 DEF TypeOK
<1> QED BY <1>6, <1>7

LEMMA ResolveKeeps ==
    ASSUME IInv, NEW c \in Claimers, Resolve(c)
    PROVE  IInv'
<1> USE DEF IInv, Goto
<1>1. c \in Tasks
  BY DEF Tasks
<1>2. PICK m \in taken[c] : /\ ResolveFailedDelivery(m)
                            /\ taken' = [taken EXCEPT ![c] = @ \ {m}]
                            /\ Goto(c, IF taken[c] = {m} THEN "wake_all" ELSE "resolve")
  BY DEF Resolve
<1>3. /\ UNCHANGED <<pending, leased, delivery_count, stream, acked, stranded, workload>>
      /\ UNCHANGED <<changed, notifying, held, after>>
  BY <1>2 DEF Resolve, ResolveFailedDelivery
<1>4. pc' \in [Tasks -> Steps]
  BY <1>1, <1>2 DEF TypeOK, Steps
<1>5. TypeOK' /\ Places' /\ \A t \in Tasks : taken'[t] = taken[t] \ {m}
  BY <1>1, <1>2, <1>3, <1>4, ResolveFailedFacts DEF TypeOK
<1>6. Hands'
  <2>1. \A t \in Tasks : pc'[t] = IF t = c THEN IF taken[c] = {m} THEN "wake_all" ELSE "resolve"
                                           ELSE pc[t]
    BY <1>1, <1>2 DEF TypeOK
  <2>2. \A t \in Tasks : t # c => taken'[t] = taken[t]
    BY <1>2, <1>1 DEF TypeOK
  <2> QED BY <1>1, <1>2, <1>3, <1>5, <2>1, <2>2 DEF Hands, Tasks
<1>7. Counts'
  <2>1. Queued' = Queued \/ (delivery_count[m] < MaxAttempts /\ Queued' = Queued \cup {m})
    BY <1>1, <1>2, ResolveFailedFacts
  <2> QED BY <1>3, <2>1 DEF Counts
<1> QED BY <1>5, <1>6, <1>7

LEMMA NackResolveKeeps ==
    ASSUME IInv, NEW c \in Claimers, NackResolve(c)
    PROVE  IInv' /\ \E m \in taken[c] : /\ ResolveFailedDelivery(m)
                                        /\ taken' = [taken EXCEPT ![c] = @ \ {m}]
<1> USE DEF IInv, Goto
<1>1. c \in Tasks
  BY DEF Tasks
<1>2. PICK m \in taken[c] : ResolveFailedDelivery(m)
  BY DEF NackResolve
<1>3. taken[c] = {m}
  BY <1>1, <1>2 DEF NackResolve, Hands
<1>4. taken' = [taken EXCEPT ![c] = @ \ {m}]
  BY <1>3 DEF NackResolve
<1>5. /\ UNCHANGED <<pending, leased, delivery_count, stream, acked, stranded, workload>>
      /\ UNCHANGED <<changed, notifying, held, after>>
      /\ pc' = [pc EXCEPT ![c] = "nack_notify"]
  BY <1>2 DEF NackResolve, ResolveFailedDelivery
<1>6. pc' \in [Tasks -> Steps]
  BY <1>5 DEF TypeOK, Steps
<1>7. TypeOK' /\ Places' /\ \A t \in Tasks : taken'[t] = taken[t] \ {m}
  BY <1>1, <1>2, <1>4, <1>5, <1>6, ResolveFailedFacts DEF TypeOK
<1>8. Hands'
  <2>1. \A t \in Tasks : pc'[t] = IF t = c THEN "nack_notify" ELSE pc[t]
    BY <1>1, <1>5 DEF TypeOK
  <2>2. \A t \in Tasks : t # c => taken'[t] = taken[t]
    BY <1>4, <1>1 DEF TypeOK
  <2> QED BY <1>1, <1>3, <1>5, <1>7, <2>1, <2>2 DEF Hands, Tasks
<1>9. Counts'
  <2>1. Queued' = Queued \/ (delivery_count[m] < MaxAttempts /\ Queued' = Queued \cup {m})
    BY <1>1, <1>2, <1>4, ResolveFailedFacts
  <2> QED BY <1>5, <2>1 DEF Counts
<1> QED BY <1>2, <1>4, <1>7, <1>8, <1>9

\* The locked part of claim: whatever was waiting still is, apart from the front
\* of the queue, which is now leased to c.
LEMMA CheckKeeps ==
    ASSUME IInv, NEW c \in Claimers, Check(c)
    PROVE  /\ IInv'
           /\ \/ UNCHANGED <<Queued, leased, delivery_count>>
              \/ \E m \in Queued : /\ Queued' = Queued \ {m}
                                   /\ leased' = leased \cup {m}
                                   /\ delivery_count[m] < MaxAttempts
                                   /\ delivery_count' = [delivery_count EXCEPT ![m] = @ + 1]
<1> USE DEF IInv, Goto
<1>1. c \in Tasks /\ pc[c] = "check" /\ taken[c] = {}
  BY DEF Tasks, Check, Hands
<1>2. PICK ready \in Ascending(ReadyPositions),
           waiting \in Ascending(DOMAIN delayed \ ReadyPositions) :
        /\ delayed' = StillDelayed(waiting)
        /\ due' = due \ Range(delayed)
        /\ \/ /\ Promoted(ready) = <<>>
              /\ Goto(c, IF HasWake(leased, delayed') THEN "await_until" ELSE "await")
              /\ UNCHANGED <<pending, leased, delivery_count, stream, held>>
           \/ /\ Promoted(ready) # <<>>
              /\ pending' = Tail(Promoted(ready))
              /\ Lease(c, Head(Promoted(ready)))
              /\ Goto(c, "notify")
  BY DEF Check
<1>3. UNCHANGED <<changed, notifying, taken, after, acked, dead, stranded, workload>>
  BY DEF Check, gone
<1> DEFINE queue == Promoted(ready)
<1>4. /\ queue \in Seq(Messages) /\ delayed' \in Seq(Messages)
      /\ IsInjective(queue) /\ IsInjective(delayed')
      /\ Range(queue) \cap Range(delayed') = {}
      /\ Range(queue) \cup Range(delayed') = Queued
      /\ Range(delayed') \cap due = {}
  BY <1>2, PromoteFacts
<1> HIDE DEF queue
<1>5. due' \subseteq leased \cup UNION {taken[t] : t \in Tasks}
  BY <1>2 DEF TypeOK
<1>6. CASE queue = <<>>
  <2>1. Range(queue) = {}
    BY <1>6 DEF Range
  <2>2. /\ pc' = [pc EXCEPT ![c] = IF HasWake(leased, delayed') THEN "await_until" ELSE "await"]
        /\ UNCHANGED <<pending, leased, delivery_count, stream, held>>
    BY <1>2, <1>6 DEF queue
  <2>3. Range(pending) = {}
    <3>1. Range(queue) = Range(pending) \cup Range(Pick(delayed, ready))
      <4>1. Pick(delayed, ready) \in Seq(Messages) /\ pending \in Seq(Messages)
        BY PickFacts DEF TypeOK, ReadyPositions
      <4> QED BY <4>1, ConcatFacts DEF queue, Promoted
    <3> QED BY <2>1, <3>1
  <2>4. Queued' = Queued
    BY <1>4, <2>1, <2>2, <2>3 DEF Queued
  <2>5. pc' \in [Tasks -> Steps]
    BY <2>2 DEF TypeOK, Steps
  <2>6. TypeOK'
    BY <1>3, <1>4, <1>5, <2>2, <2>5 DEF TypeOK
  <2>7. Places'
    BY <1>3, <1>4, <2>2, <2>3, <2>4 DEF Places, Left
  <2>8. Counts'
    BY <1>3, <2>2, <2>4 DEF Counts
  <2>9. Hands'
    <3>1. /\ \A t \in Tasks : t # c => pc'[t] = pc[t]
          /\ pc'[c] \in {"await_until", "await"}
      BY <1>1, <2>2 DEF TypeOK
    <3> QED BY <1>1, <1>3, <2>2, <3>1 DEF Hands, Tasks
  <2> QED BY <2>2, <2>4, <2>6, <2>7, <2>8, <2>9
<1>7. CASE queue # <<>>
  <2> DEFINE m == Head(queue)
  <2>1. /\ m \in Messages /\ m \in Range(queue)
        /\ pending' \in Seq(Messages) /\ IsInjective(pending') /\ m \notin Range(pending')
        /\ Range(queue) = Range(pending') \cup {m}
    <3>1. pending' = Tail(queue)
      BY <1>2, <1>7 DEF queue
    <3> QED BY <1>4, <1>7, <3>1, TailFacts
  <2>2. /\ leased' = leased \cup {m}
        /\ delivery_count' = [delivery_count EXCEPT ![m] = @ + 1]
        /\ stream' = [stream EXCEPT ![m] = <<>>]
        /\ held' = [held EXCEPT ![c] = [id |-> m, token |-> delivery_count[m] + 1]]
        /\ pc' = [pc EXCEPT ![c] = "notify"]
    BY <1>2, <1>7 DEF queue, Lease
  <2> HIDE DEF m
  <2>3. m \in Queued /\ Queued' = Queued \ {m}
    <3>1. m \in Queued /\ m \notin Range(delayed') /\ m \notin Range(pending')
      BY <1>4, <2>1
    <3>2. Queued' = Range(pending') \cup Range(delayed')
      BY DEF Queued
    <3> QED BY <1>4, <2>1, <3>1, <3>2
  <2>4. delivery_count[m] < MaxAttempts /\ delivery_count[m] \in Nat /\ MaxAttempts \in Nat
    BY <2>1, <2>3, BoundsAssumption DEF Counts, TypeOK
  <2>5. delivery_count[m] + 1 \in 1..MaxAttempts /\ delivery_count[m] + 1 \in 0..MaxAttempts
    BY <2>4
  <2>6. delivery_count' \in [Messages -> 0..MaxAttempts]
    BY <2>2, <2>5 DEF TypeOK
  <2>7. held' \in [Claimers -> Delivery \cup {NoDelivery}] /\ held'[c] \in Delivery
    <3>1. [id |-> m, token |-> delivery_count[m] + 1] \in Delivery
      BY <2>1, <2>5 DEF Delivery
    <3> QED BY <2>2, <3>1 DEF TypeOK
  <2>8. stream' \in [Messages -> Seq(1..MaxAttempts)]
    <3>1. <<>> \in Seq(1..MaxAttempts)
      OBVIOUS
    <3> QED BY <2>2, <3>1 DEF TypeOK
  <2>9. pc' \in [Tasks -> Steps]
    BY <2>2 DEF TypeOK, Steps
  <2>10. TypeOK'
    BY <1>3, <1>4, <1>5, <2>1, <2>2, <2>6, <2>7, <2>8, <2>9 DEF TypeOK
  <2>11. Places'
    <3>1. m \notin leased /\ m \notin Left /\ \A t \in Tasks : m \notin taken[t]
      BY <2>3 DEF Places
    <3>2. Range(pending') \cap Range(delayed') = {}
      BY <1>4, <2>1
    <3> QED BY <1>3, <1>4, <2>1, <2>2, <2>3, <3>1, <3>2 DEF Places, Left
  <2>12. Counts'
    <3>1. \A q \in Queued' : delivery_count'[q] = delivery_count[q]
      <4>1. Queued \subseteq Messages
        BY RangeOfSeq DEF TypeOK, Queued
      <4> QED BY <2>2, <2>3, <4>1 DEF TypeOK
    <3>2. \A q \in Messages : Len(stream'[q]) <= MaxChunks
      <4>1. ASSUME NEW q \in Messages PROVE stream'[q] = IF q = m THEN <<>> ELSE stream[q]
        BY <2>2 DEF TypeOK
      <4>2. Len(<<>>) = 0
        OBVIOUS
      <4> QED BY <4>1, <4>2, BoundsAssumption DEF Counts
    <3> QED BY <1>3, <2>3, <3>1, <3>2 DEF Counts
  <2>13. Hands'
    <3>1. \A t \in Tasks : pc'[t] = IF t = c THEN "notify" ELSE pc[t]
      BY <1>1, <2>2 DEF TypeOK
    <3>2. \A d \in Claimers : d # c => held'[d] = held[d]
      BY <2>2 DEF TypeOK
    <3> QED BY <1>1, <1>3, <2>7, <3>1, <3>2 DEF Hands, Tasks
  <2> QED BY <2>2, <2>3, <2>4, <2>10, <2>11, <2>12, <2>13
<1> QED BY <1>6, <1>7

\* A cancelled clean-up strands what it had in its hands.
LEMMA CancelReclaimKeeps ==
    ASSUME IInv, NEW c \in Claimers, CancelReclaim(c)
    PROVE  IInv'
<1> USE DEF IInv, Goto
<1>1. /\ c \in Tasks
      /\ stranded' = stranded \cup taken[c] /\ due' = due \ taken[c]
      /\ taken' = [taken EXCEPT ![c] = {}] /\ pc' = [pc EXCEPT ![c] = "idle"]
      /\ UNCHANGED <<pending, leased, delayed, delivery_count, stream, changed, notifying, held,
                     after, acked, dead, workload>>
  BY DEF Tasks, CancelReclaim
<1>2. /\ \A t \in Tasks : taken'[t] = IF t = c THEN {} ELSE taken[t]
      /\ taken' \in [Tasks -> SUBSET Messages]
      /\ \A t \in Tasks : pc'[t] = IF t = c THEN "idle" ELSE pc[t]
      /\ pc' \in [Tasks -> Steps]
  BY <1>1 DEF TypeOK, Steps
<1>3. due' \subseteq leased' \cup Range(delayed') \cup UNION {taken'[t] : t \in Tasks}
  BY <1>1, <1>2 DEF TypeOK
<1>4. acked' \cup dead' \cup stranded' \subseteq Messages
  BY <1>1 DEF TypeOK
<1>5. TypeOK'
  BY <1>1, <1>2, <1>3, <1>4 DEF TypeOK
<1>6. Places'
  <2>1. /\ \A m \in taken[c] : m \notin Queued /\ m \notin leased /\ m \notin acked /\ m \notin dead
        /\ \A t \in Tasks : t # c => taken[t] \cap taken[c] = {}
    BY <1>1 DEF Places, Left
  <2> QED BY <1>1, <1>2, <2>1 DEF Places, Queued, Left
<1>7. Hands'
  BY <1>1, <1>2 DEF Hands, Tasks
<1>8. Counts'
  BY <1>1 DEF Counts, Queued
<1> QED BY <1>5, <1>6, <1>7, <1>8

\* A consumer publishes under the token of its delivery.
LEMMA PublishKeeps ==
    ASSUME IInv, NEW c \in Claimers, PublishPartialResult(c)
    PROVE  /\ IInv' /\ held[c] \in Delivery
           /\ stream' = [stream EXCEPT ![held[c].id] = Append(@, held[c].token)]
           /\ held[c].token = delivery_count[held[c].id]
<1> USE DEF IInv, Goto
<1> DEFINE d == held[c]
<1>1. /\ c \in Tasks /\ pc[c] = "holding" /\ d \in Delivery /\ Holds(d)
      /\ Len(stream[d.id]) < workload.chunks
      /\ stream' = [stream EXCEPT ![d.id] = Append(@, d.token)]
      /\ pc' = [pc EXCEPT ![c] = "publish_notify"]
      /\ UNCHANGED <<pending, leased, delayed, due, delivery_count, changed, notifying, taken,
                     held, after, gone>>
  BY DEF Tasks, PublishPartialResult, Hands
<1>2. d.id \in Messages /\ d.token \in 1..MaxAttempts /\ d.token = delivery_count[d.id]
  BY <1>1 DEF Delivery, Holds
<1> HIDE DEF d
<1> DEFINE old == stream[d.id]
           new == Append(old, d.token)
<1>3. old \in Seq(1..MaxAttempts) /\ Len(old) \in Nat
  BY <1>2 DEF TypeOK
<1>4. new \in Seq(1..MaxAttempts) /\ Len(new) = Len(old) + 1
  BY <1>2, <1>3
<1>5. Len(new) <= MaxChunks
  <2>1. workload.chunks \in 0..MaxChunks
    BY BoundsAssumption DEF Counts
  <2> QED BY <1>1, <1>3, <1>4, <2>1, BoundsAssumption
<1>6. stream' = [stream EXCEPT ![d.id] = new]
  BY <1>1
<1> HIDE DEF old, new
<1>7. stream' \in [Messages -> Seq(1..MaxAttempts)]
  BY <1>2, <1>4, <1>6 DEF TypeOK
<1>8. \A m \in Messages : Len(stream'[m]) <= MaxChunks
  BY <1>2, <1>5, <1>6 DEF TypeOK, Counts
<1>9. pc' \in [Tasks -> Steps] /\ \A t \in Tasks : pc'[t] = IF t = c THEN "publish_notify" ELSE pc[t]
  BY <1>1 DEF TypeOK, Steps
<1>10. TypeOK'
  BY <1>1, <1>7, <1>9 DEF TypeOK, gone
<1>11. Places' /\ Counts'
  BY <1>1, <1>8 DEF Places, Counts, Queued, Left, gone
<1>12. Hands'
  BY <1>1, <1>9 DEF Hands, Tasks, d
<1> QED BY <1>1, <1>2, <1>10, <1>11, <1>12 DEF d

\* A delivery is forgotten by its consumer.
LEMMA ForgetFacts ==
    ASSUME IInv, NEW c \in Claimers, Forget(c)
    PROVE  /\ held' \in [Claimers -> Delivery \cup {NoDelivery}]
           /\ \A d \in Claimers : d # c => held'[d] = held[d]
BY DEF IInv, TypeOK, Forget

\* An ack that holds the lease ends the message, any other one changes nothing.
LEMMA AckKeeps ==
    ASSUME IInv, NEW c \in Claimers, Ack(c)
    PROVE  /\ IInv'
           /\ \/ UNCHANGED <<leased, acked>>
              \/ \E m \in leased : leased' = leased \ {m} /\ acked' = acked \cup {m}
<1> USE DEF IInv, Goto
<1>1. /\ c \in Tasks /\ pc[c] = "holding" /\ held[c] \in Delivery
      /\ pc' = [pc EXCEPT ![c] = "idle"] /\ Forget(c)
      /\ UNCHANGED <<pending, delayed, delivery_count, stream, changed, notifying, taken,
                     after, dead, stranded, workload>>
  BY DEF Tasks, Ack, Hands
<1>2. pc' \in [Tasks -> Steps] /\ \A t \in Tasks : pc'[t] = IF t = c THEN "idle" ELSE pc[t]
  BY <1>1 DEF TypeOK, Steps
<1>3. Counts'
  BY <1>1 DEF Counts, Queued
<1>4. Hands'
  BY <1>1, <1>2, ForgetFacts DEF Hands, Tasks
<1>5. CASE Holds(held[c])
  <2> DEFINE m == held[c].id
  <2>1. /\ m \in leased /\ leased' = leased \ {m} /\ due' = due \ {m} /\ acked' = acked \cup {m}
    BY <1>5 DEF Ack, Holds
  <2> HIDE DEF m
  <2>2. TypeOK'
    BY <1>1, <1>2, <2>1, ForgetFacts DEF TypeOK
  <2>3. Places'
    BY <1>1, <2>1 DEF Places, Queued, Left
  <2> QED BY <1>3, <1>4, <2>1, <2>2, <2>3
<1>6. CASE ~Holds(held[c])
  <2>1. UNCHANGED <<leased, due, acked>>
    BY <1>6 DEF Ack
  <2>2. TypeOK'
    BY <1>1, <1>2, <2>1, ForgetFacts DEF TypeOK
  <2>3. Places'
    BY <1>1, <2>1 DEF Places, Queued, Left
  <2> QED BY <1>3, <1>4, <2>1, <2>2, <2>3
<1> QED BY <1>5, <1>6

\* A nack that holds the lease takes the message in hand.
LEMMA NackKeeps ==
    ASSUME IInv, NEW c \in Claimers, Nack(c)
    PROVE  /\ IInv'
           /\ \/ UNCHANGED <<leased, taken>>
              \/ \E m \in leased : /\ leased' = leased \ {m} /\ taken[c] = {}
                                   /\ taken' = [taken EXCEPT ![c] = {m}]
<1> USE DEF IInv, Goto
<1>1. /\ c \in Tasks /\ pc[c] = "holding" /\ held[c] \in Delivery /\ taken[c] = {} /\ Forget(c)
      /\ UNCHANGED <<pending, delayed, due, delivery_count, stream, changed, notifying,
                     after, acked, dead, stranded, workload>>
  BY DEF Tasks, Nack, Hands, gone
<1>2. Counts'
  BY <1>1 DEF Counts, Queued
<1>3. CASE Holds(held[c])
  <2> DEFINE m == held[c].id
  <2>1. /\ m \in leased /\ leased' = leased \ {m} /\ taken' = [taken EXCEPT ![c] = {m}]
        /\ pc' = [pc EXCEPT ![c] = "nack_resolve"]
    BY <1>3 DEF Nack, Holds
  <2> HIDE DEF m
  <2>2. /\ pc' \in [Tasks -> Steps]
        /\ \A t \in Tasks : pc'[t] = IF t = c THEN "nack_resolve" ELSE pc[t]
    BY <1>1, <2>1 DEF TypeOK, Steps
  <2>3. /\ m \in Messages /\ taken' \in [Tasks -> SUBSET Messages]
        /\ \A t \in Tasks : taken'[t] = IF t = c THEN {m} ELSE taken[t]
    BY <1>1, <2>1 DEF TypeOK
  <2>4. due' \subseteq leased' \cup Range(delayed') \cup UNION {taken'[t] : t \in Tasks}
    BY <1>1, <2>1, <2>3 DEF TypeOK
  <2>5. TypeOK'
    BY <1>1, <2>1, <2>2, <2>3, <2>4, ForgetFacts DEF TypeOK
  <2>6. Places'
    BY <1>1, <2>1, <2>3 DEF Places, Queued, Left
  <2>7. Hands'
    BY <1>1, <2>2, <2>3, ForgetFacts DEF Hands, Tasks
  <2> QED BY <1>1, <1>2, <2>1, <2>5, <2>6, <2>7
<1>4. CASE ~Holds(held[c])
  <2>1. UNCHANGED <<leased, taken>> /\ pc' = [pc EXCEPT ![c] = "idle"]
    BY <1>4 DEF Nack
  <2>2. pc' \in [Tasks -> Steps] /\ \A t \in Tasks : pc'[t] = IF t = c THEN "idle" ELSE pc[t]
    BY <1>1, <2>1 DEF TypeOK, Steps
  <2>3. TypeOK'
    BY <1>1, <2>1, <2>2, ForgetFacts DEF TypeOK
  <2>4. Places' /\ Hands'
    BY <1>1, <2>1, <2>2, ForgetFacts DEF Places, Queued, Left, Hands, Tasks
  <2> QED BY <1>2, <2>1, <2>3, <2>4
<1> QED BY <1>3, <1>4

LEMMA AbandonKeeps ==
    ASSUME IInv, NEW c \in Claimers, Abandon(c)
    PROVE  IInv'
<1> USE DEF IInv, Goto
<1>1. /\ c \in Tasks /\ pc[c] = "holding" /\ Forget(c) /\ pc' = [pc EXCEPT ![c] = "idle"]
      /\ UNCHANGED <<stateVars, changed, notifying, taken, after, gone>>
  BY DEF Tasks, Abandon
<1>2. pc' \in [Tasks -> Steps] /\ \A t \in Tasks : pc'[t] = IF t = c THEN "idle" ELSE pc[t]
  BY <1>1 DEF TypeOK, Steps
<1>3. TypeOK'
  BY <1>1, <1>2, ForgetFacts DEF TypeOK, stateVars, gone
<1>4. Places' /\ Counts'
  BY <1>1 DEF Places, Counts, Queued, Left, stateVars, gone
<1>5. Hands'
  BY <1>1, <1>2, ForgetFacts DEF Hands, Tasks
<1> QED BY <1>3, <1>4, <1>5

\* The steps that wait, wake, notify or look, taken together.
Quiet ==
    \/ EnqueueNotify
    \/ \E c \in Claimers : \/ ClaimCall(c) \/ WakeAll(c) \/ ClaimNotify(c) \/ TimerFires(c)
                           \/ PublishNotify(c) \/ NackNotify(c)
    \/ \E w \in Watchers : WatchCall(w) \/ PartialResultsSince(w)
    \/ \E t \in Tasks : Await(t) \/ Wake(t) \/ GiveUp(t)

LEMMA QuietKeeps ==
    ASSUME IInv, Quiet
    PROVE  IInv' /\ UNCHANGED <<stateVars, taken, gone>>
<1>1. changed \in NotifyType(Tasks) /\ after \in [Watchers -> 0..MaxChunks] /\ notifying \in Nat
  BY DEF IInv, TypeOK
<1>2. CASE EnqueueNotify
  <2>1. changed' \in NotifyType(Tasks) /\ notifying' \in Nat
    BY <1>1, <1>2, NotifyType_Kept DEF EnqueueNotify
  <2>2. UNCHANGED <<stateVars, pc, taken, held, after, gone>>
    BY <1>2 DEF EnqueueNotify
  <2>3. TypeOK'
    BY <2>1, <2>2 DEF IInv, TypeOK, stateVars, gone
  <2>4. Places' /\ Hands' /\ Counts'
    BY <2>2 DEF IInv, Places, Hands, Counts, Queued, Left, stateVars, gone
  <2> QED BY <2>2, <2>3, <2>4 DEF IInv
<1>3. ASSUME NEW c \in Claimers, \/ ClaimCall(c) \/ WakeAll(c) \/ ClaimNotify(c) \/ TimerFires(c)
                                 \/ PublishNotify(c) \/ NackNotify(c)
      PROVE  IInv' /\ UNCHANGED <<stateVars, taken, gone>>
  <2>1. c \in Tasks
    BY DEF Tasks
  <2>2. UNCHANGED <<stateVars, notifying, taken, held, after, gone>>
    BY <1>3 DEF ClaimCall, WakeAll, ClaimNotify, TimerFires, PublishNotify, NackNotify
  <2>3. changed' \in NotifyType(Tasks)
    BY <1>1, <1>3, NotifyType_Kept
       DEF ClaimCall, WakeAll, ClaimNotify, TimerFires, PublishNotify, NackNotify
  <2>4. \E step \in Steps \ {"resolve", "nack_resolve"} :
          /\ Goto(c, step) /\ pc[c] \notin {"resolve", "nack_resolve"}
          /\ step \in {"notify", "holding", "publish_notify"} => pc[c] \in {"notify", "publish_notify"}
    BY <1>3 DEF Steps, ClaimCall, WakeAll, ClaimNotify, TimerFires, PublishNotify, NackNotify
  <2> QED BY <1>1, <2>1, <2>2, <2>3, <2>4, QuietStep
<1>4. ASSUME NEW w \in Watchers, WatchCall(w) \/ PartialResultsSince(w)
      PROVE  IInv' /\ UNCHANGED <<stateVars, taken, gone>>
  <2>1. w \in Tasks
    BY DEF Tasks
  <2>2. UNCHANGED <<stateVars, notifying, taken, held, gone, changed>>
    BY <1>4 DEF WatchCall, PartialResultsSince
  <2>3. after' \in [Watchers -> 0..MaxChunks]
    <3>1. CASE WatchCall(w)
      BY <1>1, <3>1 DEF WatchCall
    <3>2. CASE PartialResultsSince(w)
      <4> DEFINE m == workload.watching[w]
      <4>1. m \in Messages
        BY BoundsAssumption DEF IInv, Counts
      <4>2. Len(stream[m]) \in 0..MaxChunks
        <5>1. stream[m] \in Seq(1..MaxAttempts) /\ Len(stream[m]) <= MaxChunks
          BY <4>1 DEF IInv, TypeOK, Counts
        <5> QED BY <5>1, BoundsAssumption
      <4> HIDE DEF m
      <4>3. after' = after \/ \E k \in 0..MaxChunks : after' = [after EXCEPT ![w] = k]
        <5>1. \/ after' = after
              \/ after' = [after EXCEPT ![w] = IF m \in leased THEN Len(stream[m]) ELSE @]
          BY <3>2 DEF PartialResultsSince, m
        <5>2. after[w] \in 0..MaxChunks
          BY <1>1
        <5> QED BY <4>2, <5>1, <5>2
      <4> QED BY <1>1, <4>3
    <3> QED BY <1>4, <3>1, <3>2
  <2>4. \E step \in {"check", "idle", "await"} : Goto(w, step) /\ pc[w] \in {"idle", "check"}
    BY <1>4 DEF WatchCall, PartialResultsSince
  <2> QED BY <1>1, <2>1, <2>2, <2>3, <2>4, QuietStep DEF Steps
<1>5. ASSUME NEW t \in Tasks, Await(t) \/ Wake(t) \/ GiveUp(t)
      PROVE  IInv' /\ UNCHANGED <<stateVars, taken, gone>>
  <2>1. UNCHANGED <<stateVars, notifying, taken, held, after, gone>>
    BY <1>5 DEF Await, Wake, GiveUp
  <2>2. changed' \in NotifyType(Tasks)
    BY <1>1, <1>5, NotifyType_Kept DEF Await, Wake, GiveUp
  <2>3. \E step \in {"reclaim", "check", "asleep", "asleep_until", "idle"} :
          Goto(t, step) /\ pc[t] \in {"await", "await_until", "asleep", "asleep_until"}
    BY <1>5 DEF Await, Wake, GiveUp, LoopTop, Asleep
  <2> QED BY <1>1, <2>1, <2>2, <2>3, QuietStep DEF Steps
<1> QED BY <1>2, <1>3, <1>4, <1>5 DEF Quiet

\* Every step is quiet or one of those that move a message.
LEMMA StepKinds ==
    ASSUME [Next]_vars
    PROVE  \/ UNCHANGED vars \/ Quiet
           \/ \E m \in Messages : Enqueue(m) \/ Elapse(m)
           \/ \E c \in Claimers : \/ TakeExpired(c) \/ Resolve(c) \/ Check(c) \/ CancelReclaim(c)
                                  \/ PublishPartialResult(c) \/ Ack(c) \/ Nack(c) \/ Abandon(c)
                                  \/ NackResolve(c)
<1>1. ASSUME NEW c \in Claimers, Await(c) \/ Wake(c) \/ GiveUp(c) PROVE Quiet
  BY <1>1 DEF Quiet, Tasks
<1>2. ASSUME NEW w \in Watchers, Await(w) \/ Wake(w) \/ GiveUp(w) PROVE Quiet
  BY <1>2 DEF Quiet, Tasks
<1> QED BY <1>1, <1>2 DEF Next, Claim, Settle, Unlocked, Watch, Quiet

LEMMA InvStep == IInv /\ [Next]_vars => IInv'
<1> SUFFICES ASSUME IInv, [Next]_vars PROVE IInv'
  OBVIOUS
<1>1. ASSUME UNCHANGED vars PROVE IInv'
  BY <1>1 DEF IInv, TypeOK, Places, Hands, Counts, Queued, Left, vars, stateVars, gone
<1> QED
  BY <1>1, StepKinds, QuietKeeps, EnqueueKeeps, ElapseKeeps, TakeExpiredKeeps, ResolveKeeps,
     CheckKeeps, CancelReclaimKeeps, PublishKeeps, AckKeeps, NackKeeps, AbandonKeeps,
     NackResolveKeeps

LEMMA InvInit == Init => IInv
<1> SUFFICES ASSUME Init PROVE IInv
  OBVIOUS
<1>1. TypeOK
  BY BoundsAssumption DEF Init, TypeOK, Steps, NewNotify, NotifyType, Tasks, Range
<1>2. Places /\ Hands
  BY DEF Init, Places, Hands, Queued, Left, Tasks, Range, IsInjective
<1>3. Counts
  BY BoundsAssumption DEF Init, Counts, Queued, Range
<1> QED BY <1>1, <1>2, <1>3 DEF IInv

LEMMA InvAlways == Spec => []IInv
BY InvInit, InvStep, PTL DEF Spec

\* Every variable keeps its type; in particular the retry policy's limit holds: no
\* message is delivered more than max_attempts times, whichever of nack and
\* lease expiry ends its deliveries.
THEOREM TypeCorrect == Spec => []TypeOK
<1>1. IInv => TypeOK
  BY DEF IInv
<1> QED BY <1>1, InvAlways, PTL

-----------------------------------------------------------------------------
(* Streams and places                                                       *)

\* A step that leaves the streams and counts of the messages still leased alone.
LEMMA StreamsKept ==
    ASSUME StreamOfThisDelivery, leased' \subseteq leased, UNCHANGED <<stream, delivery_count>>
    PROVE  StreamOfThisDelivery'
BY DEF StreamOfThisDelivery

\* publish_partial_result accepts a chunk only under the token of the lease in
\* force, and the next claim starts the stream anew.
LEMMA StreamStep == IInv /\ StreamOfThisDelivery /\ [Next]_vars => StreamOfThisDelivery'
<1> SUFFICES ASSUME IInv, StreamOfThisDelivery, [Next]_vars PROVE StreamOfThisDelivery'
  OBVIOUS
<1>1. CASE UNCHANGED vars \/ Quiet
  BY <1>1, QuietKeeps, StreamsKept DEF vars, stateVars
<1>2. ASSUME NEW m \in Messages, Enqueue(m) \/ Elapse(m) PROVE StreamOfThisDelivery'
  BY <1>2, StreamsKept DEF Enqueue, Elapse
<1>3. ASSUME NEW c \in Claimers, \/ TakeExpired(c) \/ Resolve(c) \/ CancelReclaim(c) \/ Ack(c)
                                 \/ Nack(c) \/ Abandon(c) \/ NackResolve(c)
      PROVE  StreamOfThisDelivery'
  <2>1. leased' \subseteq leased /\ UNCHANGED <<stream, delivery_count>>
    BY <1>3 DEF TakeExpired, Resolve, ResolveFailedDelivery, CancelReclaim, Ack, Nack, Abandon,
                NackResolve, stateVars
  <2> QED BY <2>1, StreamsKept
<1>4. ASSUME NEW c \in Claimers, Check(c) PROVE StreamOfThisDelivery'
  <2>1. \/ UNCHANGED <<leased, stream, delivery_count>>
        \/ \E m : /\ leased' = leased \cup {m}
                  /\ delivery_count' = [delivery_count EXCEPT ![m] = @ + 1]
                  /\ stream' = [stream EXCEPT ![m] = <<>>]
    BY <1>4 DEF Check, Lease
  <2>2. CASE UNCHANGED <<leased, stream, delivery_count>>
    BY <2>2, StreamsKept
  <2>3. ASSUME NEW m, leased' = leased \cup {m},
               delivery_count' = [delivery_count EXCEPT ![m] = @ + 1],
               stream' = [stream EXCEPT ![m] = <<>>]
        PROVE  StreamOfThisDelivery'
    <3> SUFFICES ASSUME NEW q \in leased', NEW i \in DOMAIN stream'[q]
                 PROVE  stream'[q][i] = delivery_count'[q]
      BY DEF StreamOfThisDelivery
    <3>0. q \in Messages
      BY <1>4, CheckKeeps DEF IInv, TypeOK
    <3>1. CASE q = m
      <4>1. stream'[q] = <<>>
        BY <2>3, <3>0, <3>1 DEF IInv, TypeOK
      <4> QED BY <4>1
    <3>2. CASE q # m
      BY <2>3, <3>2, <3>0 DEF StreamOfThisDelivery, IInv, TypeOK
    <3> QED BY <3>1, <3>2
  <2> QED BY <2>1, <2>2, <2>3
<1>5. ASSUME NEW c \in Claimers, PublishPartialResult(c) PROVE StreamOfThisDelivery'
  <2> DEFINE d == held[c]
  <2>1. /\ d \in Delivery /\ d.id \in Messages /\ d.token = delivery_count[d.id]
        /\ stream' = [stream EXCEPT ![d.id] = Append(@, d.token)]
        /\ UNCHANGED <<leased, delivery_count>>
    BY <1>5, PublishKeeps DEF PublishPartialResult, Delivery
  <2> HIDE DEF d
  <2> SUFFICES ASSUME NEW q \in leased, NEW i \in DOMAIN stream'[q]
               PROVE  stream'[q][i] = delivery_count[q]
    BY <2>1 DEF StreamOfThisDelivery
  <2>2. q \in Messages /\ stream[q] \in Seq(1..MaxAttempts)
    BY DEF IInv, TypeOK
  <2>3. CASE q = d.id
    <3>1. stream'[q] = Append(stream[q], delivery_count[q])
      BY <2>1, <2>2, <2>3 DEF IInv, TypeOK
    <3>2. \A k \in DOMAIN stream[q] : stream[q][k] = delivery_count[q]
      BY DEF StreamOfThisDelivery
    <3>3. CASE i = Len(stream[q]) + 1
      BY <2>2, <3>1, <3>3
    <3>4. CASE i # Len(stream[q]) + 1
      <4>1. i \in DOMAIN stream[q] /\ stream'[q][i] = stream[q][i]
        BY <2>2, <3>1, <3>4
      <4> QED BY <3>2, <4>1
    <3> QED BY <3>3, <3>4
  <2>4. CASE q # d.id
    <3>1. stream'[q] = stream[q]
      BY <2>1, <2>2, <2>4 DEF IInv, TypeOK
    <3> QED BY <3>1 DEF StreamOfThisDelivery
  <2> QED BY <2>3, <2>4
<1> QED BY <1>1, <1>2, <1>3, <1>4, <1>5, StepKinds

\* The stream a watcher reads is the work of one delivery, for any number of
\* consumers: one whose lease expired cannot write into its successor's stream.
THEOREM StreamIsOfOneDelivery == Spec => []StreamOfThisDelivery
<1>1. Init => StreamOfThisDelivery
  BY DEF Init, StreamOfThisDelivery
<1> QED BY <1>1, InvAlways, StreamStep, PTL DEF Spec

\* A message that is nowhere twice occurs at most once over all places.
LEMMA PlacesCount == IInv => OnePlace
<1> SUFFICES ASSUME IInv, NEW m \in Messages
             PROVE  Cardinality({t \in Tasks : m \in taken[t]})
                    + Cardinality({i \in DOMAIN pending : pending[i] = m})
                    + Cardinality({i \in DOMAIN delayed : delayed[i] = m})
                    + Cardinality({S \in {<<1, leased>>, <<2, acked>>, <<3, dead>>, <<4, stranded>>} :
                                     m \in S[2]}) <= 1
  BY DEF OnePlace
<1> DEFINE A == {t \in Tasks : m \in taken[t]}
           B == {i \in DOMAIN pending : pending[i] = m}
           C == {i \in DOMAIN delayed : delayed[i] = m}
           D == {S \in {<<1, leased>>, <<2, acked>>, <<3, dead>>, <<4, stranded>>} : m \in S[2]}
<1>1. \A x, y \in A : x = y
  BY DEF IInv, Places
<1>2. (\A x, y \in B : x = y) /\ (\A x, y \in C : x = y)
  BY DEF IInv, Places, IsInjective
<1>3. \A x, y \in D : x = y
  BY DEF IInv, Places, Left
<1>4. A # {} => m \notin Queued /\ m \notin leased /\ m \notin Left
  BY DEF IInv, Places
<1>5. (B # {} => m \in Range(pending)) /\ (C # {} => m \in Range(delayed))
  BY DEF Range
<1>6. D # {} => m \in leased \/ m \in Left
  BY DEF Left
<1>7. /\ m \in Queued => m \notin leased /\ m \notin Left
      /\ m \in Range(pending) => m \in Queued /\ m \notin Range(delayed)
      /\ m \in Range(delayed) => m \in Queued
  BY DEF IInv, Places, Queued
<1>8. /\ Cardinality(A) = IF A = {} THEN 0 ELSE 1
      /\ Cardinality(B) = IF B = {} THEN 0 ELSE 1
      /\ Cardinality(C) = IF C = {} THEN 0 ELSE 1
      /\ Cardinality(D) = IF D = {} THEN 0 ELSE 1
  <2> HIDE DEF A, B, C, D
  <2> QED BY <1>1, <1>2, <1>3, AtMostOne
<1> HIDE DEF A, B, C, D
<1>9. Cardinality(A) + Cardinality(B) + Cardinality(C) + Cardinality(D) <= 1
  BY <1>4, <1>5, <1>6, <1>7, <1>8
<1> QED BY <1>9 DEF A, B, C, D

\* No interleaving of claims, expiries, nacks and cancellations doubles a message:
\* it is in the queue, the backoff list, a lease, one task's hands or gone.
THEOREM MessageInOnePlace == Spec => []OnePlace
BY InvAlways, PlacesCount, PTL

-----------------------------------------------------------------------------
(* The refinement of AtLeastOnce                                            *)

Out == leased \cup UNION {taken[t] : t \in Tasks}
stage == [m \in Messages |-> Stage(m)]

\* The places are disjoint, so the order of Stage's cases does not matter.
StageFacts ==
    \A m \in Messages :
      /\ m \in Queued => stage[m] = "ready"
      /\ m \in Out => stage[m] = "out"
      /\ m \in acked => stage[m] = "done"
      /\ m \in dead => stage[m] = "dead"
      /\ m \in stranded => stage[m] = "stranded"
      /\ m \notin Queued \cup Out \cup Left => stage[m] = "new"

LEMMA StageOf == IInv => StageFacts
<1> SUFFICES ASSUME IInv PROVE StageFacts
  OBVIOUS
<1>1. ASSUME NEW m \in Messages
      PROVE  /\ m \in Queued => m \notin Out /\ m \notin acked /\ m \notin dead /\ m \notin stranded
             /\ m \in Out => m \notin acked /\ m \notin dead /\ m \notin stranded
             /\ m \in acked => m \notin dead /\ m \notin stranded
             /\ m \in dead => m \notin stranded
  BY DEF IInv, Places, Left, Out
<1>2. ASSUME NEW m \in Messages
      PROVE  stage[m] = CASE m \in Queued -> "ready"
                          [] m \in Out -> "out"
                          [] m \in acked -> "done"
                          [] m \in dead -> "dead"
                          [] m \in stranded -> "stranded"
                          [] OTHER -> "new"
  BY DEF stage, Stage, Queued, Out
<1> QED BY <1>1, <1>2 DEF Left, StageFacts

LEMMA StageOfNext == IInv' => StageFacts'
BY StageOf, PTL

\* A step that leaves every place as it was is a stuttering step of the promise.
LEMMA SamePlaces ==
    ASSUME UNCHANGED <<Queued, Out, acked, dead, stranded, delivery_count>>
    PROVE  UNCHANGED <<stage, delivery_count>>
BY DEF stage, Stage, Queued, Out

\* A step that moves one message from one stage to another.
LEMMA OneMoves ==
    ASSUME NEW m \in Messages, NEW to, stage'[m] = to,
           \A q \in Messages \ {m} : /\ (q \in Queued') = (q \in Queued) /\ (q \in Out') = (q \in Out)
                                     /\ (q \in acked') = (q \in acked) /\ (q \in dead') = (q \in dead)
                                     /\ (q \in stranded') = (q \in stranded)
    PROVE  stage' = [stage EXCEPT ![m] = to]
<1>1. ASSUME NEW q \in Messages, q # m PROVE stage'[q] = stage[q]
  BY <1>1 DEF stage, Stage, Queued, Out
<1>2. stage' = [q \in Messages |-> stage'[q]] /\ stage = [q \in Messages |-> stage[q]]
  BY DEF stage
<1> QED BY <1>1, <1>2

\* A failed delivery is a retry or the end of the message.
LEMMA ResolveRefines ==
    ASSUME IInv, IInv', NEW c \in Tasks, NEW m \in taken[c], ResolveFailedDelivery(m),
           taken' = [taken EXCEPT ![c] = @ \ {m}]
    PROVE  Queue!Retry(m) \/ Queue!Bury(m)
<1>1. /\ m \in Messages /\ m \in Out /\ Out' = Out \ {m}
      /\ UNCHANGED <<leased, acked, stranded, delivery_count>>
  <2>1. m \in Messages /\ \A t \in Tasks : taken'[t] = taken[t] \ {m}
    BY ResolveFailedFacts
  <2>2. m \notin leased /\ UNCHANGED <<leased, acked, stranded, delivery_count>>
    BY DEF IInv, Places, ResolveFailedDelivery
  <2> QED BY <2>1, <2>2 DEF Out
<1>2. stage[m] = "out"
  BY <1>1, StageOf DEF StageFacts
<1>3. CASE delivery_count[m] = MaxAttempts /\ dead' = dead \cup {m} /\ Queued' = Queued
  <2>1. stage'[m] = "dead"
    BY <1>1, <1>3, StageOfNext DEF StageFacts
  <2>2. stage' = [stage EXCEPT ![m] = "dead"]
    BY <1>1, <1>3, <2>1, OneMoves
  <2> QED BY <1>1, <1>2, <1>3, <2>2 DEF Queue!Bury, Queue!Move, stage
<1>4. CASE delivery_count[m] < MaxAttempts /\ dead' = dead /\ Queued' = Queued \cup {m}
  <2>1. stage'[m] = "ready"
    BY <1>1, <1>4, StageOfNext DEF StageFacts
  <2>2. stage' = [stage EXCEPT ![m] = "ready"]
    BY <1>1, <1>4, <2>1, OneMoves
  <2> QED BY <1>1, <1>2, <1>4, <2>2 DEF Queue!Retry, Queue!Move, stage
<1> QED BY <1>3, <1>4, ResolveFailedFacts

\* Every step of the group is a step the promise allows, or none.
LEMMA RefinementStep == IInv /\ IInv' /\ [Next]_vars => [Queue!Next]_(Queue!vars)
<1> SUFFICES ASSUME IInv, IInv', [Next]_vars PROVE [Queue!Next]_(Queue!vars)
  OBVIOUS
<1>1. ASSUME UNCHANGED <<Queued, Out, acked, dead, stranded, delivery_count>>
      PROVE  [Queue!Next]_(Queue!vars)
  BY <1>1, SamePlaces DEF Queue!vars, stage
<1>2. CASE UNCHANGED vars \/ Quiet
  <2>1. UNCHANGED <<stateVars, taken, gone>>
    BY <1>2, QuietKeeps DEF vars
  <2> QED BY <1>1, <2>1 DEF stateVars, gone, Queued, Out
<1>3. ASSUME NEW m \in Messages, Enqueue(m) PROVE Queue!Next
  <2>1. /\ Queued' = Queued \cup {m} /\ Out' = Out
        /\ m \notin Queued \cup Out \cup Left
        /\ UNCHANGED <<acked, dead, stranded, delivery_count>>
    BY <1>3, EnqueueKeeps DEF Enqueue, IsNew, Out, Left, Queued, gone
  <2>2. stage[m] = "new" /\ stage'[m] = "ready"
    BY <2>1, StageOf, StageOfNext DEF StageFacts
  <2>3. stage' = [stage EXCEPT ![m] = "ready"]
    BY <2>1, <2>2, OneMoves
  <2>4. Queue!Submit(m)
    BY <2>1, <2>2, <2>3 DEF Queue!Submit, Queue!Move, stage
  <2> QED BY <2>4 DEF Queue!Next
<1>4. ASSUME NEW m \in Messages, Elapse(m) PROVE [Queue!Next]_(Queue!vars)
  BY <1>1, <1>4 DEF Elapse, Queued, Out, gone
<1>5. ASSUME NEW c \in Claimers, TakeExpired(c) PROVE [Queue!Next]_(Queue!vars)
  <2>1. /\ c \in Tasks /\ taken[c] = {} /\ taken'[c] = leased \ leased' /\ leased' \subseteq leased
        /\ taken' = [taken EXCEPT ![c] = Expired] /\ taken \in [Tasks -> SUBSET Messages]
        /\ UNCHANGED <<pending, delayed, delivery_count, gone>>
    BY <1>5, TakeExpiredKeeps DEF TakeExpired, Tasks, IInv, TypeOK
  <2>2. \A t \in Tasks : t # c => taken'[t] = taken[t]
    BY <2>1
  <2>3. Out' = Out
    BY <2>1, <2>2 DEF Out
  <2> QED BY <1>1, <2>1, <2>3 DEF Queued, gone
<1>6. ASSUME NEW c \in Claimers, Resolve(c) \/ NackResolve(c) PROVE Queue!Next
  <2>1. PICK m \in taken[c] : ResolveFailedDelivery(m) /\ taken' = [taken EXCEPT ![c] = @ \ {m}]
    BY <1>6, NackResolveKeeps DEF Resolve
  <2>2. c \in Tasks /\ m \in Messages
    BY <2>1 DEF Tasks, IInv, TypeOK
  <2> QED BY <2>1, <2>2, ResolveRefines DEF Queue!Next
<1>7. ASSUME NEW c \in Claimers, Check(c) PROVE [Queue!Next]_(Queue!vars)
  <2>1. UNCHANGED <<taken, acked, dead, stranded>>
    BY <1>7 DEF Check, gone
  <2>2. CASE UNCHANGED <<Queued, leased, delivery_count>>
    BY <1>1, <2>1, <2>2 DEF Out
  <2>3. ASSUME NEW m \in Queued, Queued' = Queued \ {m}, leased' = leased \cup {m},
               delivery_count[m] < MaxAttempts,
               delivery_count' = [delivery_count EXCEPT ![m] = @ + 1]
        PROVE  Queue!Next
    <3>1. m \in Messages /\ m \in Out' /\ Out' = Out \cup {m}
      BY <2>1, <2>3 DEF Out, IInv, TypeOK
    <3>2. stage[m] = "ready" /\ stage'[m] = "out"
      BY <3>1, StageOf, StageOfNext DEF StageFacts
    <3>3. stage' = [stage EXCEPT ![m] = "out"]
      BY <2>1, <2>3, <3>1, <3>2, OneMoves
    <3>4. Queue!Deliver(m)
      BY <2>3, <3>2, <3>3, <3>1 DEF Queue!Deliver, Queue!Move, stage
    <3> QED BY <3>1, <3>4 DEF Queue!Next
  <2> QED BY <1>7, <2>2, <2>3, CheckKeeps
<1>8. ASSUME NEW c \in Claimers, CancelReclaim(c) PROVE Queue!Next
  <2> DEFINE M == taken[c]
  <2>1. /\ c \in Tasks /\ M \in SUBSET Messages /\ stranded' = stranded \cup M
        /\ taken' = [taken EXCEPT ![c] = {}] /\ taken \in [Tasks -> SUBSET Messages]
        /\ UNCHANGED <<pending, leased, delayed, delivery_count, acked, dead>>
    BY <1>8 DEF CancelReclaim, Tasks, IInv, TypeOK
  <2>2. Queued' = Queued /\ Out' = Out \ M /\ M \subseteq Out
    <3>1. /\ \A t \in Tasks : taken'[t] = IF t = c THEN {} ELSE taken[t]
          /\ M \cap leased = {} /\ \A t \in Tasks : t # c => taken[t] \cap M = {}
      BY <2>1 DEF IInv, Places
    <3> QED BY <2>1, <3>1 DEF Out, Queued
  <2> HIDE DEF M
  <2>3. \A m \in M : stage[m] = "out" /\ stage'[m] = "stranded"
    BY <2>1, <2>2, StageOf, StageOfNext DEF StageFacts
  <2>4. \A m \in Messages \ M : stage'[m] = stage[m]
    BY <2>1, <2>2 DEF stage, Stage, Queued, Out
  <2>5. stage' = [m \in Messages |-> IF m \in M THEN "stranded" ELSE stage[m]]
    <3>1. stage' = [m \in Messages |-> stage'[m]]
      BY DEF stage
    <3> QED BY <2>3, <2>4, <3>1
  <2>6. Queue!Strand(M)
    BY <2>1, <2>3, <2>5 DEF Queue!Strand, stage
  <2> QED BY <2>1, <2>6 DEF Queue!Next
<1>9. ASSUME NEW c \in Claimers, PublishPartialResult(c) \/ Abandon(c)
      PROVE  [Queue!Next]_(Queue!vars)
  BY <1>1, <1>9 DEF PublishPartialResult, Abandon, stateVars, gone, Queued, Out
<1>10. ASSUME NEW c \in Claimers, Ack(c) PROVE [Queue!Next]_(Queue!vars)
  <2>1. UNCHANGED <<pending, delayed, taken, dead, stranded, delivery_count>>
    BY <1>10 DEF Ack
  <2>2. CASE UNCHANGED <<leased, acked>>
    BY <1>1, <2>1, <2>2 DEF Queued, Out
  <2>3. ASSUME NEW m \in leased, leased' = leased \ {m}, acked' = acked \cup {m} PROVE Queue!Next
    <3>1. m \in Messages /\ m \in Out /\ Out' = Out \ {m} /\ Queued' = Queued
      <4>1. \A t \in Tasks : m \notin taken[t]
        BY DEF IInv, Places
      <4> QED BY <2>1, <2>3, <4>1 DEF Out, Queued, IInv, TypeOK
    <3>2. stage[m] = "out" /\ stage'[m] = "done"
      BY <2>3, <3>1, StageOf, StageOfNext DEF StageFacts
    <3>3. stage' = [stage EXCEPT ![m] = "done"]
      BY <2>1, <2>3, <3>1, <3>2, OneMoves
    <3>4. Queue!Finish(m)
      BY <2>1, <3>2, <3>3 DEF Queue!Finish, Queue!Move, stage
    <3> QED BY <3>1, <3>4 DEF Queue!Next
  <2> QED BY <1>10, <2>2, <2>3, AckKeeps
<1>11. ASSUME NEW c \in Claimers, Nack(c) PROVE [Queue!Next]_(Queue!vars)
  <2>1. /\ c \in Tasks /\ taken \in [Tasks -> SUBSET Messages]
        /\ UNCHANGED <<pending, delayed, acked, dead, stranded, delivery_count>>
    BY <1>11 DEF Nack, gone, Tasks, IInv, TypeOK
  <2>2. Out' = Out
    <3>1. CASE UNCHANGED <<leased, taken>>
      BY <3>1 DEF Out
    <3>2. ASSUME NEW m \in leased, leased' = leased \ {m}, taken[c] = {},
                 taken' = [taken EXCEPT ![c] = {m}]
          PROVE  Out' = Out
      <4>1. \A t \in Tasks : taken'[t] = IF t = c THEN {m} ELSE taken[t]
        BY <2>1, <3>2
      <4> QED BY <2>1, <3>2, <4>1 DEF Out
    <3> QED BY <1>11, <3>1, <3>2, NackKeeps
  <2> QED BY <1>1, <2>1, <2>2 DEF Queued
<1> QED BY <1>2, <1>3, <1>4, <1>5, <1>6, <1>7, <1>8, <1>9, <1>10, <1>11, StepKinds

\* Whatever tasks do and in whatever order they wait and are woken, the group does
\* to a message only what AtLeastOnce allows: it is delivered while an attempt
\* is left, retried, finished once, buried when its attempts are used up, or
\* stranded by a cancelled clean-up, and never comes back from any of these
\* ends.  (That every ready message is delivered in the end is for TLC.)
THEOREM SafelyAtLeastOnce == Spec => Queue!Safety
<1>1. Init => Queue!Init
  <2> SUFFICES ASSUME Init PROVE Queue!Init
    OBVIOUS
  <2>1. Queued = {} /\ Out = {} /\ Left = {} /\ delivery_count = [m \in Messages |-> 0]
    BY DEF Init, Queued, Out, Left, Range, Tasks
  <2>2. \A m \in Messages : stage[m] = "new"
    BY <2>1, InvInit, StageOf DEF StageFacts
  <2>3. stage = [m \in Messages |-> "new"]
    BY <2>2 DEF stage
  <2> QED BY <2>1, <2>3 DEF Queue!Init, stage
<1> QED BY <1>1, InvAlways, RefinementStep, PTL DEF Spec, Queue!Safety

=============================================================================
