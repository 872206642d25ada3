-------------------------- MODULE PersistentQueue --------------------------
(***************************************************************************)
(* qaas-core's durable queues (queue/persistent_fifo.rs and                *)
(* queue/persistent_priority.rs in crates/qaas-core/src): an in-memory     *)
(* queue and a WAL of Enqueue and payload-less Dequeue records.  enqueue   *)
(* logs and then pushes, dequeue pops and then logs, with no lock held     *)
(* across the two, and `open` replays the log.                             *)
(*                                                                         *)
(* The FIFO queue is the priority queue with a single priority.  How a     *)
(* dequeue waits for an item is FifoQueue's subject; here it takes one when*)
(* there is one.  As in ConsumerGroup, the log is represented by what its  *)
(* replay would rebuild now.                                               *)
(***************************************************************************)
EXTENDS Naturals, SequencesExt

CONSTANTS
    Producers, Consumers,  \* the tasks calling enqueue and dequeue
    Priorities,            \* the priorities in use; {0} for the FIFO queue
    None,
    MaxItems,              \* bound: items enqueued
    MaxCrashes,            \* bound: crashes, each followed by a restart
    MaxFaults              \* bound: failed WAL appends

ASSUME PrioritiesAssumption == Priorities \subseteq Nat
ASSUME TasksAssumption == Producers \cap Consumers = {}
ASSUME BoundsAssumption == {MaxItems, MaxCrashes, MaxFaults} \subseteq Nat

VARIABLES
    queue,        \* the in-memory queue, in the order of its sequence numbers
    wal_queue,    \* what replaying the WAL would rebuild now
    wal_torn,     \* is there a torn frame in the log, where replay stops?
    hand,         \* the item each task holds between its two steps
    \* auxiliary
    sent,         \* items are numbered as their enqueue is called
    accepted,     \* items whose enqueue returned Ok
    received,     \* items returned by dequeue, in order
    failed,       \* items whose dequeue returned an error in this process
    superseded,   \* those that a Dequeue record written since can stand for
    behind,       \* items whose Enqueue record was written behind a torn frame
    reordered,    \* have calls overlapped that the log cannot tell apart?
    crashes, faults

walVars == <<wal_queue, wal_torn>>
lostVars == <<failed, superseded, behind>>
vars == <<queue, walVars, hand, sent, accepted, received, lostVars, reordered, crashes, faults>>

Item == [id : Nat, priority : Priorities]

ASSUME NoneAssumption == None \notin Item

\* Wal::append succeeds, or fails with the whole record in the file (fsync), or
\* with part of its frame (write_all), or with nothing of it.
AppendResult == {r \in [ok : BOOLEAN, durable : BOOLEAN, tears : BOOLEAN] :
                   (r.ok => r.durable) /\ (r.tears => ~r.durable)}

Append1(r) == /\ r \in AppendResult
              /\ r.ok \/ faults < MaxFaults
              /\ faults' = IF r.ok THEN faults ELSE faults + 1
              /\ wal_torn' = (wal_torn \/ r.tears)

\* Is the record one that replay reaches?
Replayed(r) == r.durable /\ ~wal_torn

\* BinaryHeap::pop under Entry's ordering: the highest priority, and the lowest
\* sequence number among its equals.
IsNext_LastOfEquals(q, i) ==
    /\ i \in DOMAIN q
    /\ \A j \in DOMAIN q : /\ q[j].priority <= q[i].priority
                           /\ j > i => q[j].priority < q[i].priority
IsNext(q, i) ==
    /\ i \in DOMAIN q
    /\ \A j \in DOMAIN q : /\ q[j].priority <= q[i].priority
                           /\ j < i => q[j].priority < q[i].priority

\* Replaying a Dequeue record: try_dequeue on the queue rebuilt so far.
ReplayDequeue_Ignored == UNCHANGED wal_queue
ReplayDequeue_Front == wal_queue' = IF wal_queue = <<>> THEN wal_queue ELSE Tail(wal_queue)
ReplayDequeue ==
    \/ \E i \in DOMAIN wal_queue : IsNext(wal_queue, i) /\ wal_queue' = RemoveAt(wal_queue, i)
    \/ wal_queue = <<>> /\ UNCHANGED wal_queue

InHand(tasks) == {hand[t] : t \in tasks} \ {None}

-----------------------------------------------------------------------------
\* enqueue: the durable Enqueue record.
EnqueueAppend(p) ==
    /\ hand[p] = None
    /\ sent < MaxItems
    /\ sent' = sent + 1
    /\ \E prio \in Priorities, r \in AppendResult :
         LET item == [id |-> sent + 1, priority |-> prio]
         IN /\ Append1(r)
            /\ wal_queue' = IF Replayed(r) THEN Append(wal_queue, item) ELSE wal_queue
            /\ behind' = IF wal_torn THEN behind \cup {item.id} ELSE behind
            /\ hand' = [hand EXCEPT ![p] = IF r.ok THEN item ELSE None]
            /\ reordered' = \/ reordered
                            \/ \E x \in InHand(Producers) : x.priority = prio
                            \/ \E y \in InHand(Consumers) : prio > y.priority
    /\ UNCHANGED <<queue, accepted, received, failed, superseded, crashes>>

\* Then the in-memory push, and Ok.
EnqueuePush(p) ==
    /\ hand[p] # None
    /\ queue' = Append(queue, hand[p])
    /\ accepted' = accepted \cup {hand[p].id}
    /\ hand' = [hand EXCEPT ![p] = None]
    /\ UNCHANGED <<walVars, sent, received, lostVars, reordered, crashes, faults>>

\* dequeue: the in-memory pop.
DequeuePop(c) ==
    /\ hand[c] = None
    /\ \E i \in DOMAIN queue :
         /\ IsNext(queue, i)
         /\ queue' = RemoveAt(queue, i)
         /\ hand' = [hand EXCEPT ![c] = queue[i]]
         /\ reordered' = \/ reordered
                         \/ \E x \in InHand(Producers) : x.priority > queue[i].priority
                         \/ InHand(Consumers) # {}
    /\ UNCHANGED <<walVars, sent, accepted, received, lostVars, crashes, faults>>

\* Then the durable Dequeue record.  On an error the item is not put back.
DequeueAppend(c) ==
    /\ hand[c] # None
    /\ \E r \in AppendResult :
         /\ Append1(r)
         /\ IF Replayed(r) THEN ReplayDequeue ELSE UNCHANGED wal_queue
         /\ received' = IF r.ok THEN Append(received, hand[c].id) ELSE received
         /\ failed' = IF r.ok THEN failed ELSE failed \cup {hand[c].id}
         /\ superseded' = IF Replayed(r) THEN superseded \cup failed' ELSE superseded
    /\ hand' = [hand EXCEPT ![c] = None]
    /\ UNCHANGED <<queue, sent, accepted, behind, reordered, crashes>>

\* The process dies and `open` replays the log, cutting off what it did not reach.
CrashAndOpen ==
    /\ crashes < MaxCrashes
    /\ crashes' = crashes + 1
    /\ queue' = wal_queue
    /\ hand' = [t \in Producers \cup Consumers |-> None]
    /\ wal_torn' = FALSE
    /\ failed' = {}
    /\ UNCHANGED <<wal_queue, sent, accepted, received, superseded, behind, reordered, faults>>

Quiet == \A t \in Producers \cup Consumers : hand[t] = None

\* No call is in progress and none arrives.
Rest == Quiet /\ UNCHANGED vars

-----------------------------------------------------------------------------
Init ==
    /\ queue = <<>> /\ wal_queue = <<>> /\ received = <<>>
    /\ hand = [t \in Producers \cup Consumers |-> None]
    /\ accepted = {} /\ failed = {} /\ superseded = {} /\ behind = {}
    /\ wal_torn = FALSE /\ reordered = FALSE
    /\ sent = 0 /\ crashes = 0 /\ faults = 0

Next ==
    \/ \E p \in Producers : EnqueueAppend(p) \/ EnqueuePush(p)
    \/ \E c \in Consumers : DequeuePop(c) \/ DequeueAppend(c)
    \/ CrashAndOpen
    \/ Rest

Spec == Init /\ [][Next]_vars

-----------------------------------------------------------------------------
(* Properties.  `reordered` holds once two enqueues of one priority, two    *)
(* dequeues, or an enqueue and a dequeue of something less urgent have      *)
(* overlapped: the cases in which log order and memory order can differ.    *)

Logged == {wal_queue[i].id : i \in DOMAIN wal_queue}

\* Two queues hold the same items, those of one priority in the same order, and so
\* will deliver them in the same order.
DeliverAlike(q, r) ==
    \E f \in Bijection(DOMAIN q, DOMAIN r) :
        \A i \in DOMAIN q :
            /\ r[f[i]] = q[i]
            /\ \A j \in DOMAIN q : i < j /\ q[i].priority = q[j].priority => f[i] < f[j]

\* WalRecord's docs: replay "reconstructs exactly the state the queue was in".  It
\* rebuilds the same items in the same order of delivery, as long as no append
\* failed and no such calls overlapped.
ReplayRebuilds == Quiet /\ faults = 0 /\ ~reordered => DeliverAlike(queue, wal_queue)

\* An item whose enqueue returned Ok is delivered or would be rebuilt by a
\* restart, through crashes and failed appends.  What dequeue's docs say of an item
\* whose dequeue failed ("still recoverable on the next restart") holds until some
\* Dequeue record follows, which replay takes for its own; and an item enqueued
\* behind a torn frame is left out, whatever enqueue returned.
OkMeansKept ==
    ~reordered =>
      \A id \in accepted \ (superseded \cup behind) : id \in Logged \cup Range(received)

\* A delivered item is not delivered again, crashes included, as long as no append
\* failed: the Dequeue record is durable before the item is returned.
DeliveredOnce == faults = 0 /\ ~reordered => IsInjective(received)

\* PersistentFifoQueue::enqueue's docs: "on Ok, item will still be here after a
\* crash, even one that happens immediately after this call returns".  An
\* accepted item that no dequeue has taken would be rebuilt by a restart.
OkSurvivesCrash ==
    \A i \in DOMAIN queue : queue[i].id \in accepted => queue[i].id \in Logged

=============================================================================
