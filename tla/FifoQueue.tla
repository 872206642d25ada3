----------------------------- MODULE FifoQueue -----------------------------
(***************************************************************************)
(* qaas-core's in-memory queue (crates/qaas-core/src/queue/fifo.rs): a     *)
(* VecDeque behind a mutex, and two Notify on which enqueue waits for room *)
(* and dequeue for an item.  Each call is cut where its task can be        *)
(* interleaved with others: the locked check, the notify_one after it, and *)
(* the notified().await that a failed check leads to.                      *)
(***************************************************************************)
EXTENDS Naturals, FiniteSets, Notify

CONSTANTS
    Producers, Consumers,  \* the tasks calling enqueue and dequeue
    Capacity,              \* Option<NonZeroUsize>
    None,                  \* Option::None: an unbounded queue
    MaxItems               \* bound: items enqueued

Tasks == Producers \cup Consumers

ASSUME CapacityAssumption == None \notin Nat /\ Capacity \in (Nat \ {0}) \cup {None}
ASSUME TasksAssumption == Producers \cap Consumers = {}
ASSUME BoundsAssumption == MaxItems \in Nat

VARIABLES
    items, not_empty, not_full,  \* FifoQueue's fields
    pc,                          \* where each task is in its call
    sent, received               \* auxiliary: items are numbered as they are pushed

vars == <<items, not_empty, not_full, pc, sent, received>>

Steps == {"idle", "check", "notify", "await", "asleep"}

Goto(t, step) == pc' = [pc EXCEPT ![t] = step]

has_room(len) == Capacity # None => len < Capacity

-----------------------------------------------------------------------------
\* The bound, counting the calls that have yet to push their item.
MayEnqueue ==
    sent + Cardinality({p \in Producers : pc[p] \in {"check", "await", "asleep"}}) < MaxItems

\* A producer calls enqueue.
EnqueueCall(p) ==
    /\ pc[p] = "idle"
    /\ MayEnqueue
    /\ Goto(p, "check")
    /\ UNCHANGED <<items, not_empty, not_full, sent, received>>

\* The locked part of enqueue: push, or go and wait for room.
EnqueueCheck(p) ==
    /\ pc[p] = "check"
    /\ IF has_room(Len(items))
       THEN /\ items' = Append(items, sent + 1)
            /\ sent' = sent + 1
            /\ Goto(p, "notify")
       ELSE Goto(p, "await") /\ UNCHANGED <<items, sent>>
    /\ UNCHANGED <<not_empty, not_full, received>>

\* try_enqueue: push at once, or hand the item back and change nothing.
TryEnqueue(p) ==
    /\ pc[p] = "idle"
    /\ MayEnqueue
    /\ has_room(Len(items))
    /\ items' = Append(items, sent + 1)
    /\ sent' = sent + 1
    /\ Goto(p, "notify")
    /\ UNCHANGED <<not_empty, not_full, received>>

NotifyNotEmpty_Skipped(p) == pc[p] = "notify" /\ Goto(p, "idle")
    /\ UNCHANGED <<items, not_empty, not_full, sent, received>>
NotifyNotEmpty(p) ==
    /\ pc[p] = "notify"
    /\ not_empty' = notify_one(not_empty)
    /\ Goto(p, "idle")
    /\ UNCHANGED <<items, not_full, sent, received>>

-----------------------------------------------------------------------------
\* A consumer calls dequeue.
DequeueCall(c) ==
    /\ pc[c] = "idle"
    /\ Goto(c, "check")
    /\ UNCHANGED <<items, not_empty, not_full, sent, received>>

\* The front of the queue leaves it.
Pop_Back == /\ items # <<>>
            /\ items' = Front(items)
            /\ received' = Append(received, Last(items))
Pop == /\ items # <<>>
       /\ items' = Tail(items)
       /\ received' = Append(received, Head(items))

\* The locked part of dequeue: pop, or go and wait for an item.
DequeueCheck(c) ==
    /\ pc[c] = "check"
    /\ \/ Pop /\ Goto(c, "notify")
       \/ items = <<>> /\ Goto(c, "await") /\ UNCHANGED <<items, received>>
    /\ UNCHANGED <<not_empty, not_full, sent>>

\* try_dequeue: pop at once, or return None and change nothing.
TryDequeue(c) ==
    /\ pc[c] = "idle"
    /\ Pop
    /\ Goto(c, "notify")
    /\ UNCHANGED <<not_empty, not_full, sent>>

NotifyNotFull_Skipped(c) == pc[c] = "notify" /\ Goto(c, "idle")
    /\ UNCHANGED <<items, not_empty, not_full, sent, received>>
NotifyNotFull(c) ==
    /\ pc[c] = "notify"
    /\ not_full' = notify_one(not_full)
    /\ Goto(c, "idle")
    /\ UNCHANGED <<items, not_empty, sent, received>>

-----------------------------------------------------------------------------
\* notified().await on n, by a task whose check failed: back to the check with
\* the permit, or to sleep.
Await(n, next, t) ==
    /\ pc[t] = "await"
    /\ IF n.permit THEN next = TakePermit(n) /\ Goto(t, "check")
                   ELSE next = JoinWaiters(n, t) /\ Goto(t, "asleep")
    /\ UNCHANGED <<items, sent, received>>

AwaitNotFull(p) == Await(not_full, not_full', p) /\ UNCHANGED not_empty
AwaitNotEmpty_WrongNotify(c) == Await(not_full, not_full', c) /\ UNCHANGED not_empty
AwaitNotEmpty(c) == Await(not_empty, not_empty', c) /\ UNCHANGED not_full

Sleeping(t) == pc[t] = "asleep" /\ (WaitsOn(not_empty, t) \/ WaitsOn(not_full, t))

\* A notified task runs again and re-checks the condition.
Wake(t) ==
    /\ pc[t] = "asleep"
    /\ ~Sleeping(t)
    /\ Goto(t, "check")
    /\ UNCHANGED <<items, not_empty, not_full, sent, received>>

\* Every task is outside a call or asleep, and no caller comes.
Rest == (\A t \in Tasks : pc[t] = "idle" \/ Sleeping(t)) /\ UNCHANGED vars

-----------------------------------------------------------------------------
Init ==
    /\ items = <<>> /\ received = <<>> /\ sent = 0
    /\ not_empty = NewNotify /\ not_full = NewNotify
    /\ pc = [t \in Tasks |-> "idle"]

\* The steps of a call that has begun.
Produce(p) == EnqueueCheck(p) \/ NotifyNotEmpty(p) \/ AwaitNotFull(p) \/ Wake(p)
Consume(c) == DequeueCheck(c) \/ NotifyNotFull(c) \/ AwaitNotEmpty(c) \/ Wake(c)

Next ==
    \/ \E p \in Producers : EnqueueCall(p) \/ TryEnqueue(p) \/ Produce(p)
    \/ \E c \in Consumers : DequeueCall(c) \/ TryDequeue(c) \/ Consume(c)
    \/ Rest

Spec == Init /\ [][Next]_vars

\* The runtime runs every task that can run (tokio's mutex is first-come-
\* first-served, so a locked part is a finite wait), and consumers loop:
\* one that got an item asks for the next.
Fairness == /\ \A p \in Producers : WF_vars(Produce(p))
            /\ \A c \in Consumers : WF_vars(Consume(c)) /\ WF_vars(DequeueCall(c))

FairSpec == Spec /\ Fairness

-----------------------------------------------------------------------------
(* Properties                                                               *)

\* Every field has its type.
TypeOK ==
    /\ items \in Seq(Nat) /\ received \in Seq(Nat) /\ sent \in Nat
    /\ not_empty \in NotifyType(Consumers) /\ not_full \in NotifyType(Producers)
    /\ pc \in [Tasks -> Steps]

\* Across any number of competing producers and consumers every item is handed
\* out once, in the order it was pushed, and the queue never holds more than
\* its capacity.
InOrderWithinCapacity ==
    /\ sent = Len(received) + Len(items)
    /\ \A i \in DOMAIN received : received[i] = i
    /\ \A i \in DOMAIN items : items[i] = Len(received) + i
    /\ Capacity # None => Len(items) <= Capacity

\* Backpressure is temporary: while consumers keep asking, every enqueue that had
\* to wait for room returns, even when several producers wait at once and their
\* wake-ups coalesce.
EnqueueReturns == \A p \in Producers : (pc[p] # "idle") ~> (pc[p] = "idle")

\* Consumers that keep asking receive every item, although a wake-up between two
\* of them can be lost.
EveryItemReceived ==
    \A i \in 1..MaxItems : (sent >= i) ~> (Len(received) >= i)

\* enqueue's docs: the check-then-wait loop makes the wait level-triggered, "so a
\* spurious or coalesced wakeup just re-checks the condition instead of being
\* lost".  Then no task is left asleep, with nobody about to wake it, while
\* the condition it waits for holds.
CoalescedWakeupNotLost ==
    (\A t \in Tasks : pc[t] = "idle" \/ Sleeping(t)) =>
      \A t \in Tasks : Sleeping(t) => IF t \in Consumers THEN items = <<>>
                                                         ELSE ~has_room(Len(items))

=============================================================================
