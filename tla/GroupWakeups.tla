---------------------------- MODULE GroupWakeups ----------------------------
(***************************************************************************)
(* The waiting side of qaas-core's ConsumerGroup (consumer_group.rs): every*)
(* task that waits for anything, a consumer for a message or a watcher for *)
(* chunks of a partial result, waits on the one Notify `changed`, which    *)
(* some calls signal with notify_one, some with notify_waiters and ack not *)
(* at all.  qaas-server's tools put a time limit around both waits         *)
(* (mcp.rs), and their clients call again.  Module ConsumerGroup has the   *)
(* logs, keys, checkpoints and crashes that are left out here.             *)
(***************************************************************************)
EXTENDS Naturals, FiniteSets, Notify, Subsequences

CONSTANTS
    Messages,     \* bound: the messages enqueued
    Claimers,     \* tasks running the claim tool, then working on what they got
    Watchers,     \* tasks running the stream_partial_results tool
    MaxAttempts,  \* RetryPolicy::max_attempts
    MaxChunks,    \* bound: chunks published per delivery
    Workloads     \* bound: in one behaviour, the messages enqueued, the tasks that
                  \*   call, the chunks per delivery and what is watched

ASSUME TasksAssumption == Claimers \cap Watchers = {}
ASSUME BoundsAssumption ==
    /\ MaxAttempts \in Nat \ {0} /\ MaxChunks \in Nat
    /\ Workloads \subseteq [messages : SUBSET Messages, callers : SUBSET (Claimers \cup Watchers),
                            chunks : 0..MaxChunks, watching : [Watchers -> Messages]]

Tasks == Claimers \cup Watchers

VARIABLES
    pending, leased, delayed,    \* State's queue, lease map and backoff list
    due,                         \* leases and backoffs whose instant has passed
    delivery_count, stream,      \* of each message; a stream is of one lease
    changed,                     \* the Notify
    notifying,                   \* enqueues that pushed and have yet to notify
    pc, taken, held,             \* each task: its step, the expired leases it took
                                 \*   out, the delivery it holds
    after,                       \* each watcher: the last sequence it has seen
    acked, dead, stranded,       \* messages that left
    workload                     \* the client side of this behaviour

stateVars == <<pending, leased, delayed, due, delivery_count, stream>>
gone == <<acked, dead, stranded, workload>>
vars == <<stateVars, changed, notifying, pc, taken, held, after, gone>>

Steps == {"idle", "reclaim", "resolve", "wake_all", "check", "notify", "await", "await_until",
          "asleep", "asleep_until",
          "holding", "publish_notify", "nack_resolve", "nack_notify"}

\* A delivery, as named by message id and lease token; within one process a
\* token is as good as the delivery's number.
Delivery == [id : Messages, token : 1..MaxAttempts]
NoDelivery == [token |-> 0]

Goto(t, step) == pc' = [pc EXCEPT ![t] = step]

is_exhausted_Late(count) == count > MaxAttempts
is_exhausted(count) == count >= MaxAttempts

-----------------------------------------------------------------------------
(* Enqueue                                                                  *)

IsNew(m) == /\ m \notin Range(pending) \cup leased \cup Range(delayed) \cup acked \cup dead \cup stranded
            /\ \A t \in Tasks : m \notin taken[t]
            /\ delivery_count[m] = 0

\* write_enqueue_record, past its log append: push under the lock, then notify.
Enqueue(m) ==
    /\ m \in workload.messages /\ IsNew(m)
    /\ pending' = Append(pending, m)
    /\ notifying' = notifying + 1
    /\ UNCHANGED <<leased, delayed, due, delivery_count, stream, changed, pc, taken, held,
                   after, gone>>

EnqueueNotify ==
    /\ notifying > 0
    /\ notifying' = notifying - 1
    /\ changed' = notify_one(changed)
    /\ UNCHANGED <<stateVars, pc, taken, held, after, gone>>

-----------------------------------------------------------------------------
(* Claim                                                                    *)

\* claim_impl: the time limit starts and claim's loop begins.
ClaimCall(c) ==
    /\ c \in workload.callers /\ pc[c] = "idle"
    /\ Goto(c, "reclaim")
    /\ UNCHANGED <<stateVars, changed, notifying, taken, held, after, gone>>

Expired == leased \cap due

\* The locked part of reclaim_expired_leases; with nothing expired it returns.
TakeExpired(c) ==
    /\ pc[c] = "reclaim"
    /\ leased' = leased \ Expired
    /\ taken' = [taken EXCEPT ![c] = Expired]
    /\ Goto(c, IF Expired = {} THEN "check" ELSE "resolve")
    /\ UNCHANGED <<pending, delayed, due, delivery_count, stream, changed, notifying, held,
                   after, gone>>

\* resolve_failed_delivery: dead-letter the message or put it in the backoff list.
ResolveFailedDelivery(m) ==
    /\ IF is_exhausted(delivery_count[m])
       THEN dead' = dead \cup {m} /\ UNCHANGED delayed
       ELSE delayed' = Append(delayed, m) /\ UNCHANGED dead
    /\ due' = due \ {m}
    /\ UNCHANGED <<pending, leased, delivery_count, stream, acked, stranded, workload>>

\* One turn of reclaim_expired_leases' loop; the map has no order.
Resolve(c) ==
    /\ pc[c] = "resolve"
    /\ \E m \in taken[c] :
         /\ ResolveFailedDelivery(m)
         /\ taken' = [taken EXCEPT ![c] = @ \ {m}]
         /\ Goto(c, IF taken[c] = {m} THEN "wake_all" ELSE "resolve")
    /\ UNCHANGED <<changed, notifying, held, after>>

\* The end of reclaim_expired_leases.
WakeAll(c) ==
    /\ pc[c] = "wake_all"
    /\ changed' = notify_waiters(changed)
    /\ Goto(c, "check")
    /\ UNCHANGED <<stateVars, notifying, taken, held, after, gone>>

\* promote_ready_delayed: the due part of the backoff list, in its order, joins
\* the back of the queue, and the rest stays.
ReadyPositions == {i \in DOMAIN delayed : delayed[i] \in due}
Promoted(ready) == pending \o Pick(delayed, ready)
StillDelayed_NotDrained(waiting) == delayed
StillDelayed(waiting) == Pick(delayed, waiting)

\* earliest_wake has an instant to offer.
HasWake(leases, backoffs) == leases # {} \/ backoffs # <<>>

\* Lease m to c: one more delivery, with a token and a stream of its own.
Lease(c, m) ==
    /\ leased' = leased \cup {m}
    /\ delivery_count' = [delivery_count EXCEPT ![m] = @ + 1]
    /\ stream' = [stream EXCEPT ![m] = <<>>]
    /\ held' = [held EXCEPT ![c] = [id |-> m, token |-> delivery_count[m] + 1]]

\* The locked part of claim: promote, then lease the front message or go and
\* wait, until the earliest deadline if there is one.
Check(c) ==
    /\ pc[c] = "check"
    /\ \E ready \in Ascending(ReadyPositions),
          waiting \in Ascending(DOMAIN delayed \ ReadyPositions) :
         LET queue == Promoted(ready) IN
         /\ delayed' = StillDelayed(waiting)
         /\ due' = due \ Range(delayed)
         /\ \/ /\ queue = <<>>
               /\ Goto(c, IF HasWake(leased, delayed') THEN "await_until" ELSE "await")
               /\ UNCHANGED <<pending, leased, delivery_count, stream, held>>
            \/ /\ queue # <<>>
               /\ pending' = Tail(queue)
               /\ Lease(c, Head(queue))
               /\ Goto(c, "notify")
    /\ UNCHANGED <<changed, notifying, taken, after, gone>>

\* A new lease may expire sooner than another waiter's timer: tell one.
ClaimNotify(c) ==
    /\ pc[c] = "notify"
    /\ changed' = notify_one(changed)
    /\ Goto(c, "holding")
    /\ UNCHANGED <<stateVars, notifying, taken, held, after, gone>>

-----------------------------------------------------------------------------
(* Waiting on `changed`                                                     *)

\* Where a woken task starts over.  Its deadline is computed anew.
LoopTop(t) == IF t \in Claimers THEN "reclaim" ELSE "check"

\* In notified(), with a deadline of its own or without.
Asleep(t) == pc[t] \in {"asleep", "asleep_until"}

\* The first poll of notified().
Await(t) ==
    /\ pc[t] \in {"await", "await_until"}
    /\ IF changed.permit
       THEN changed' = TakePermit(changed) /\ Goto(t, LoopTop(t))
       ELSE /\ changed' = JoinWaiters(changed, t)
            /\ Goto(t, IF pc[t] = "await" THEN "asleep" ELSE "asleep_until")
    /\ UNCHANGED <<stateVars, notifying, taken, held, after, gone>>

\* A notified task runs again.
Wake(t) ==
    /\ Asleep(t)
    /\ ~WaitsOn(changed, t)
    /\ Goto(t, LoopTop(t))
    /\ UNCHANGED <<stateVars, changed, notifying, taken, held, after, gone>>

\* timeout_at in claim: the deadline computed before going to sleep passes.  It
\* may be long gone from the state by then, so nothing else is required.
TimerFires(c) ==
    /\ pc[c] = "asleep_until" /\ WaitsOn(changed, c)
    /\ changed' = LeaveWaiters(changed, c)
    /\ Goto(c, "reclaim")
    /\ UNCHANGED <<stateVars, notifying, taken, held, after, gone>>

\* The tool's time limit ends the wait: nothing available, or nothing new yet.
\* A notification already received is acted on first.
GiveUp_Never(t) == FALSE /\ UNCHANGED vars
GiveUp(t) ==
    /\ Asleep(t) /\ WaitsOn(changed, t)
    /\ changed' = LeaveWaiters(changed, t)
    /\ Goto(t, "idle")
    /\ UNCHANGED <<stateVars, notifying, taken, held, after, gone>>

\* The time limit drops claim while it waits, for the lock of the state or for the
\* dead-letter log, to resolve another message: whatever it had taken out is in no
\* map any more.
CancelReclaim(c) ==
    /\ pc[c] = "resolve"
    /\ stranded' = stranded \cup taken[c]
    /\ due' = due \ taken[c]
    /\ taken' = [taken EXCEPT ![c] = {}]
    /\ Goto(c, "idle")
    /\ UNCHANGED <<pending, leased, delayed, delivery_count, stream, changed, notifying, held,
                   after, acked, dead, workload>>

-----------------------------------------------------------------------------
(* Working on a delivery                                                    *)

Holds_AnyToken(d) == d.id \in leased
Holds(d) == d.id \in leased /\ delivery_count[d.id] = d.token

\* Publish a chunk, recorded by the token that sent it, then wake everyone.
PublishPartialResult(c) ==
    /\ pc[c] = "holding"
    /\ Holds(held[c])
    /\ Len(stream[held[c].id]) < workload.chunks
    /\ stream' = [stream EXCEPT ![held[c].id] = Append(@, held[c].token)]
    /\ Goto(c, "publish_notify")
    /\ UNCHANGED <<pending, leased, delayed, due, delivery_count, changed, notifying, taken,
                   held, after, gone>>

PublishNotify(c) ==
    /\ pc[c] = "publish_notify"
    /\ changed' = notify_waiters(changed)
    /\ Goto(c, "holding")
    /\ UNCHANGED <<stateVars, notifying, taken, held, after, gone>>

Forget(c) == held' = [held EXCEPT ![c] = NoDelivery]

\* ack tells nobody; with a stale token it changes nothing.
Ack(c) ==
    /\ pc[c] = "holding"
    /\ IF Holds(held[c])
       THEN /\ leased' = leased \ {held[c].id}
            /\ due' = due \ {held[c].id}
            /\ acked' = acked \cup {held[c].id}
       ELSE UNCHANGED <<leased, due, acked>>
    /\ Forget(c) /\ Goto(c, "idle")
    /\ UNCHANGED <<pending, delayed, delivery_count, stream, changed, notifying, taken,
                   after, dead, stranded, workload>>

\* nack takes the lease out under the lock, resolves it, and notifies one.
Nack(c) ==
    /\ pc[c] = "holding"
    /\ IF Holds(held[c])
       THEN /\ leased' = leased \ {held[c].id}
            /\ taken' = [taken EXCEPT ![c] = {held[c].id}]
            /\ Goto(c, "nack_resolve")
       ELSE Goto(c, "idle") /\ UNCHANGED <<leased, taken>>
    /\ Forget(c)
    /\ UNCHANGED <<pending, delayed, due, delivery_count, stream, changed, notifying,
                   after, gone>>

NackResolve(c) ==
    /\ pc[c] = "nack_resolve"
    /\ \E m \in taken[c] : ResolveFailedDelivery(m)
    /\ taken' = [taken EXCEPT ![c] = {}]
    /\ Goto(c, "nack_notify")
    /\ UNCHANGED <<changed, notifying, held, after>>

NackNotify(c) ==
    /\ pc[c] = "nack_notify"
    /\ changed' = notify_one(changed)
    /\ Goto(c, "idle")
    /\ UNCHANGED <<stateVars, notifying, taken, held, after, gone>>

\* The consumer crashes or forgets; its lease is left to expire.
Abandon(c) ==
    /\ pc[c] = "holding"
    /\ Forget(c) /\ Goto(c, "idle")
    /\ UNCHANGED <<stateVars, changed, notifying, taken, after, gone>>

\* A visibility timeout or a backoff passes.
Elapse(m) ==
    /\ m \in (leased \cup Range(delayed)) \ due
    /\ due' = due \cup {m}
    /\ UNCHANGED <<pending, leased, delayed, delivery_count, stream, changed, notifying, pc,
                   taken, held, after, gone>>

-----------------------------------------------------------------------------
(* Watching a stream                                                        *)

WatchCall(w) ==
    /\ w \in workload.callers /\ pc[w] = "idle"
    /\ Goto(w, "check")
    /\ UNCHANGED <<stateVars, changed, notifying, taken, held, after, gone>>

\* The locked part of partial_results_since: not active, the chunks past `after`,
\* or wait.
PartialResultsSince(w) ==
    LET m == workload.watching[w] IN
    /\ pc[w] = "check"
    /\ IF m \in leased /\ Len(stream[m]) <= after[w]
       THEN Goto(w, "await") /\ UNCHANGED after
       ELSE /\ Goto(w, "idle")
            /\ after' = [after EXCEPT ![w] = IF m \in leased THEN Len(stream[m]) ELSE @]
    /\ UNCHANGED <<stateVars, changed, notifying, taken, held, gone>>

-----------------------------------------------------------------------------
Init ==
    /\ workload \in Workloads
    /\ pending = <<>> /\ leased = {} /\ delayed = <<>> /\ due = {}
    /\ delivery_count = [m \in Messages |-> 0]
    /\ stream = [m \in Messages |-> <<>>]
    /\ changed = NewNotify /\ notifying = 0
    /\ pc = [t \in Tasks |-> "idle"]
    /\ taken = [t \in Tasks |-> {}]
    /\ held = [c \in Claimers |-> NoDelivery]
    /\ after = [w \in Watchers |-> 0]
    /\ acked = {} /\ dead = {} /\ stranded = {}

\* A claim between its call and its return, apart from the time limit.
Claim(c) == \/ TakeExpired(c) \/ Resolve(c) \/ WakeAll(c) \/ Check(c) \/ ClaimNotify(c)
            \/ Await(c) \/ Wake(c) \/ TimerFires(c)
Settle(c) == Ack(c) \/ Nack(c) \/ Abandon(c)
Unlocked(c) == PublishNotify(c) \/ NackResolve(c) \/ NackNotify(c)
Watch(w) == PartialResultsSince(w) \/ Await(w) \/ Wake(w)

Next ==
    \/ \E m \in Messages : Enqueue(m) \/ Elapse(m)
    \/ EnqueueNotify
    \/ \E c \in Claimers : \/ ClaimCall(c) \/ Claim(c) \/ GiveUp(c) \/ CancelReclaim(c)
                           \/ PublishPartialResult(c) \/ Settle(c) \/ Unlocked(c)
    \/ \E w \in Watchers : WatchCall(w) \/ Watch(w) \/ GiveUp(w)

Spec == Init /\ [][Next]_vars

\* Every task that can run does; instants pass; both tools limit their wait;
\* consumers do not hold a delivery for ever and ask again afterwards.  Neither
\* watchers nor producers need to come back.
Fairness ==
    /\ WF_vars(EnqueueNotify)
    /\ \A m \in Messages : WF_vars(Elapse(m))
    /\ \A c \in Claimers : /\ WF_vars(Claim(c)) /\ WF_vars(GiveUp(c)) /\ WF_vars(ClaimCall(c))
                           /\ WF_vars(Settle(c)) /\ WF_vars(Unlocked(c))
    /\ \A w \in Watchers : WF_vars(Watch(w)) /\ WF_vars(GiveUp(w))

FairSpec == Spec /\ Fairness

-----------------------------------------------------------------------------
(* Properties                                                               *)

\* Every variable has its type; in particular no message is delivered more often
\* than max_attempts.
TypeOK ==
    /\ pending \in Seq(Messages) /\ delayed \in Seq(Messages)
    /\ leased \subseteq Messages /\ due \subseteq leased \cup Range(delayed) \cup UNION {taken[t] : t \in Tasks}
    /\ delivery_count \in [Messages -> 0..MaxAttempts]
    /\ stream \in [Messages -> Seq(1..MaxAttempts)]
    /\ changed \in NotifyType(Tasks) /\ notifying \in Nat
    /\ pc \in [Tasks -> Steps] /\ taken \in [Tasks -> SUBSET Messages]
    /\ held \in [Claimers -> Delivery \cup {NoDelivery}]
    /\ after \in [Watchers -> 0..MaxChunks]
    /\ acked \cup dead \cup stranded \subseteq Messages

\* The stream a watcher reads is the work of the one delivery in progress: a
\* consumer whose lease expired, and whose message was delivered again, publishes
\* nothing into its successor's stream.
StreamOfThisDelivery ==
    \A m \in leased : \A i \in DOMAIN stream[m] : stream[m][i] = delivery_count[m]

\* A message is nowhere, or in one place: its lease, the queue, the backoff list,
\* the hands of one task, or gone for good.
OnePlace ==
    \A m \in Messages :
      Cardinality({t \in Tasks : m \in taken[t]})
      + Cardinality({i \in DOMAIN pending : pending[i] = m})
      + Cardinality({i \in DOMAIN delayed : delayed[i] = m})
      + Cardinality({S \in {<<1, leased>>, <<2, acked>>, <<3, dead>>, <<4, stranded>>} : m \in S[2]}) <= 1

\* stream_partial_results always answers, although the ack that ends the delivery
\* it watches wakes nobody and a chunk published between its check and its wait
\* goes unnoticed.
WatchReturns == \A w \in Watchers : (pc[w] # "idle") ~> (pc[w] = "idle")

Stage(m) ==
    CASE m \in Range(pending) \cup Range(delayed) -> "ready"
      [] m \in leased \cup UNION {taken[t] : t \in Tasks} -> "out"
      [] m \in acked -> "done"
      [] m \in dead -> "dead"
      [] m \in stranded -> "stranded"
      [] OTHER -> "new"

Queue == INSTANCE AtLeastOnce WITH stage <- [m \in Messages |-> Stage(m)],
                                   deliveries <- delivery_count

\* The group keeps the promise of AtLeastOnce: whatever the order in which tasks
\* check, wait and are woken, and although a wake-up meant for a consumer can go
\* to a watcher, every message that is ready is delivered in the end.
ImplementsAtLeastOnce == Queue!Spec

=============================================================================
