----------------------- MODULE PersistentQueueProofs -----------------------
(***************************************************************************)
(* Proofs about PersistentQueue: what a restart rebuilds is what was there,*)
(* nothing that was accepted in front of a torn frame is lost and nothing  *)
(* is delivered twice, for any number of producers, consumers, priorities, *)
(* items, crashes and failed appends, as long as no calls overlapped that  *)
(* the log cannot tell apart.                                              *)
(***************************************************************************)
EXTENDS PersistentQueue, SubsequenceLemmas

Tasks == Producers \cup Consumers

TypeInv ==
    /\ queue \in Seq(Item) /\ wal_queue \in Seq(Item)
    /\ hand \in [Tasks -> Item \cup {None}]
    /\ sent \in Nat /\ faults \in Nat /\ crashes \in Nat
    /\ accepted \subseteq Nat /\ failed \subseteq Nat /\ received \in Seq(Nat)
    /\ superseded \subseteq Nat /\ behind \subseteq Nat
    /\ reordered \in BOOLEAN /\ wal_torn \in BOOLEAN

\* x leaves a queue that holds both before y does.
Before(x, y) ==
    \/ x.priority > y.priority
    \/ x.priority = y.priority /\ x.id < y.id

\* The log has the items in the order of their numbers, none from the future.
LogOrdered ==
    /\ \A i, j \in DOMAIN wal_queue : i < j => wal_queue[i].id < wal_queue[j].id
    /\ \A i \in DOMAIN wal_queue : wal_queue[i].id <= sent

\* Memory has the items of one priority in that order, and a push to come keeps it.
QueueOrdered ==
    \A i, j \in DOMAIN queue :
        i < j /\ queue[i].priority = queue[j].priority => queue[i].id < queue[j].id

HandsOrdered ==
    /\ \A p \in Producers : hand[p] # None =>
        /\ \A i \in DOMAIN queue :
             queue[i].priority = hand[p].priority => queue[i].id < hand[p].id
        /\ \A o \in Producers : hand[o] # None /\ hand[o].priority = hand[p].priority => o = p
    /\ \A c \in Consumers : hand[c] # None =>
        /\ \A i \in DOMAIN queue : Before(hand[c], queue[i])
        /\ \A p \in Producers : hand[p] # None => Before(hand[c], hand[p])
        /\ \A d \in Consumers : hand[d] # None => d = c

\* What is in memory is in the log, where replay finds it or behind its torn frame.
InLog(x) == \E i \in DOMAIN wal_queue : wal_queue[i] = x
Behind(x) == wal_torn /\ x.id \in behind

MemoryLogged ==
    /\ \A i \in DOMAIN queue : InLog(queue[i]) \/ Behind(queue[i])
    /\ \A t \in Tasks : hand[t] # None => InLog(hand[t]) \/ Behind(hand[t])
    /\ \A id \in behind : id <= sent

\* What was accepted is on its way, where it is in the log, or delivered.
OnItsWay(id) ==
    \/ \E i \in DOMAIN queue : queue[i].id = id
    \/ \E c \in Consumers : hand[c] # None /\ hand[c].id = id

AcceptedKept ==
    \A id \in accepted \ (failed \cup superseded \cup behind) :
        id \in Range(received) \/ OnItsWay(id)

\* What a failed dequeue took out of memory is in the log until a Dequeue record
\* follows.
FailedKept ==
    \A id \in failed \ (superseded \cup behind) :
        \E i \in DOMAIN wal_queue : wal_queue[i].id = id

\* Without failed appends the log has nothing else, and nothing already received.
InMemory(x) ==
    \/ \E i \in DOMAIN queue : queue[i] = x
    \/ \E t \in Tasks : hand[t] # None /\ hand[t] = x

LogExact ==
    /\ ~wal_torn
    /\ \A i \in DOMAIN wal_queue : InMemory(wal_queue[i])
    /\ \A i \in DOMAIN wal_queue : wal_queue[i].id \notin Range(received)
    /\ \A id \in Range(received) : id <= sent
    /\ IsInjective(received)

QueueInv ==
    /\ LogOrdered
    /\ QueueOrdered
    /\ HandsOrdered
    /\ MemoryLogged
    /\ AcceptedKept
    /\ FailedKept
    /\ faults = 0 => LogExact

Inv == TypeInv /\ (~reordered => QueueInv)

-----------------------------------------------------------------------------
(* Types                                                                    *)

\* Where the j-th element of RemoveAt(s, i) was.
Shift(i, j) == IF j < i THEN j ELSE j + 1

\* RemoveAt drops one position and keeps the others in order.
LEMMA Removed ==
    ASSUME NEW s \in Seq(Item), NEW i \in DOMAIN s
    PROVE  /\ RemoveAt(s, i) \in Seq(Item)
           /\ \A j \in DOMAIN RemoveAt(s, i) :
                /\ j \in Nat /\ Shift(i, j) \in DOMAIN s \ {i}
                /\ RemoveAt(s, i)[j] = s[Shift(i, j)]
           /\ \A j, k \in DOMAIN RemoveAt(s, i) : j < k => Shift(i, j) < Shift(i, k)
           /\ \A k \in DOMAIN s \ {i} : \E j \in DOMAIN RemoveAt(s, i) : RemoveAt(s, i)[j] = s[k]
<1> DEFINE r == RemoveAt(s, i)
<1>1. /\ r \in Seq(Item) /\ Len(s) \in Nat /\ i \in 1..Len(s) /\ DOMAIN r = 1..(Len(s) - 1)
      /\ \A j \in 1..(Len(s) - 1) : r[j] = s[IF j < i THEN j ELSE j + 1]
  BY RemoveAtFacts
<1>2. DOMAIN s = 1..Len(s)
  OBVIOUS
<1> HIDE DEF r
<1>3. \A j \in DOMAIN r : /\ j \in Nat /\ Shift(i, j) \in DOMAIN s \ {i}
                          /\ r[j] = s[Shift(i, j)]
  BY <1>1, <1>2 DEF Shift
<1>4. \A j, k \in DOMAIN r : j < k => Shift(i, j) < Shift(i, k)
  BY <1>1 DEF Shift
<1>5. ASSUME NEW k \in DOMAIN s \ {i} PROVE \E j \in DOMAIN r : r[j] = s[k]
  <2>1. CASE k < i
    <3>1. k \in DOMAIN r /\ r[k] = s[k]
      BY <1>1, <1>2, <2>1
    <3> QED BY <3>1
  <2>2. CASE k > i
    <3>1. k - 1 \in DOMAIN r /\ r[k - 1] = s[k]
      BY <1>1, <1>2, <2>2
    <3> QED BY <3>1
  <2> QED BY <2>1, <2>2, <1>1, <1>2
<1> QED BY <1>1, <1>3, <1>4, <1>5 DEF r

\* Append adds one position at the end.
LEMMA Appended ==
    ASSUME NEW S, NEW s \in Seq(S), NEW x \in S
    PROVE  /\ Append(s, x) \in Seq(S) /\ Len(s) \in Nat /\ DOMAIN s = 1..Len(s)
           /\ DOMAIN Append(s, x) = DOMAIN s \cup {Len(s) + 1}
           /\ \A i \in DOMAIN s : Append(s, x)[i] = s[i] /\ i < Len(s) + 1
           /\ Append(s, x)[Len(s) + 1] = x
<1>1. /\ Append(s, x) \in Seq(S) /\ Len(s) \in Nat /\ DOMAIN s = 1..Len(s)
      /\ DOMAIN Append(s, x) = 1..(Len(s) + 1)
  OBVIOUS
<1>2. DOMAIN Append(s, x) = DOMAIN s \cup {Len(s) + 1}
  BY <1>1
<1> QED BY <1>1, <1>2

LEMMA TypeStep ==
    ASSUME TypeInv, [Next]_vars
    PROVE  TypeInv'
<1> USE DEF TypeInv
<1>1. ASSUME NEW p \in Producers, EnqueueAppend(p) PROVE TypeInv'
  <2>1. PICK prio \in Priorities, r \in AppendResult :
          /\ Append1(r)
          /\ wal_queue' = IF Replayed(r) THEN Append(wal_queue, [id |-> sent + 1, priority |-> prio])
                          ELSE wal_queue
          /\ behind' = IF wal_torn THEN behind \cup {sent + 1} ELSE behind
          /\ hand' = [hand EXCEPT ![p] = IF r.ok THEN [id |-> sent + 1, priority |-> prio] ELSE None]
          /\ reordered' = \/ reordered
                          \/ \E x \in InHand(Producers) : x.priority = prio
                          \/ \E y \in InHand(Consumers) : prio > y.priority
    <3>1. \A prio : [id |-> sent + 1, priority |-> prio].id = sent + 1
      OBVIOUS
    <3> QED BY <1>1, <3>1 DEF EnqueueAppend
  <2>2. [id |-> sent + 1, priority |-> prio] \in Item
    BY DEF Item
  <2>3. wal_queue' \in Seq(Item) /\ hand' \in [Tasks -> Item \cup {None}]
    BY <2>1, <2>2 DEF Tasks
  <2>4. behind' \subseteq Nat /\ wal_torn' \in BOOLEAN /\ faults' \in Nat
    BY <2>1 DEF Append1, AppendResult
  <2> QED BY <1>1, <2>1, <2>3, <2>4 DEF EnqueueAppend
<1>2. ASSUME NEW p \in Producers, EnqueuePush(p) PROVE TypeInv'
  <2>1. hand[p] \in Item /\ hand[p].id \in Nat
    BY <1>2 DEF EnqueuePush, Tasks, Item
  <2>2. queue' \in Seq(Item)
    BY <1>2, <2>1 DEF EnqueuePush
  <2>3. hand' \in [Tasks -> Item \cup {None}]
    BY <1>2 DEF EnqueuePush
  <2>4. accepted' \subseteq Nat
    BY <1>2, <2>1 DEF EnqueuePush
  <2> QED BY <1>2, <2>2, <2>3, <2>4 DEF EnqueuePush, walVars, lostVars
<1>3. ASSUME NEW c \in Consumers, DequeuePop(c) PROVE TypeInv'
  <2>1. PICK i \in DOMAIN queue :
          /\ queue' = RemoveAt(queue, i)
          /\ hand' = [hand EXCEPT ![c] = queue[i]]
          /\ reordered' = \/ reordered
                          \/ \E x \in InHand(Producers) : x.priority > queue[i].priority
                          \/ InHand(Consumers) # {}
    BY <1>3 DEF DequeuePop
  <2>2. queue' \in Seq(Item) /\ queue[i] \in Item
    BY <2>1, Removed
  <2> QED BY <1>3, <2>1, <2>2 DEF DequeuePop, Tasks, walVars, lostVars
<1>4. ASSUME NEW c \in Consumers, DequeueAppend(c) PROVE TypeInv'
  <2>1. hand[c] \in Item /\ hand[c].id \in Nat
    BY <1>4 DEF DequeueAppend, Tasks, Item
  <2>2. PICK r \in AppendResult :
          /\ Append1(r)
          /\ IF Replayed(r) THEN ReplayDequeue ELSE UNCHANGED wal_queue
          /\ received' = IF r.ok THEN Append(received, hand[c].id) ELSE received
          /\ failed' = IF r.ok THEN failed ELSE failed \cup {hand[c].id}
          /\ superseded' = IF Replayed(r) THEN superseded \cup failed' ELSE superseded
    BY <1>4 DEF DequeueAppend
  <2>3. wal_queue' \in Seq(Item)
    BY <2>2, Removed DEF ReplayDequeue
  <2>4. received' \in Seq(Nat) /\ failed' \subseteq Nat /\ superseded' \subseteq Nat
    <3>1. Append(received, hand[c].id) \in Seq(Nat)
      BY <2>1
    <3> QED BY <2>1, <2>2, <3>1
  <2>5. hand' \in [Tasks -> Item \cup {None}]
    BY <1>4 DEF DequeueAppend
  <2>6. faults' \in Nat /\ wal_torn' \in BOOLEAN
    BY <2>2 DEF Append1, AppendResult
  <2> QED BY <1>4, <2>3, <2>4, <2>5, <2>6 DEF DequeueAppend
<1>5. CASE CrashAndOpen
  <2>1. /\ queue' \in Seq(Item) /\ wal_queue' \in Seq(Item) /\ crashes' \in Nat
        /\ hand' \in [Tasks -> Item \cup {None}] /\ failed' = {} /\ wal_torn' = FALSE
    BY <1>5 DEF CrashAndOpen, Tasks
  <2> QED BY <1>5, <2>1 DEF CrashAndOpen
<1>6. CASE UNCHANGED vars
  BY <1>6 DEF vars, walVars, lostVars
<1>7. CASE Rest
  BY <1>6, <1>7 DEF Rest
<1> QED BY <1>1, <1>2, <1>3, <1>4, <1>5, <1>6, <1>7 DEF Next

-----------------------------------------------------------------------------
(* The steps                                                                *)

\* The numbers of all items in memory have been given out.
LEMMA MemoryNumbered ==
    ASSUME TypeInv, QueueInv
    PROVE  /\ \A i \in DOMAIN queue : queue[i] \in Item /\ queue[i].id \in Nat
                                      /\ queue[i].priority \in Nat /\ queue[i].id <= sent
           /\ \A t \in Tasks : hand[t] # None =>
                hand[t] \in Item /\ hand[t].id \in Nat /\ hand[t].priority \in Nat
                /\ hand[t].id <= sent
           /\ \A i \in DOMAIN wal_queue :
                wal_queue[i] \in Item /\ wal_queue[i].id \in Nat /\ wal_queue[i].priority \in Nat
                /\ wal_queue[i].id <= sent
<1>1. \A x \in Item : x.id \in Nat /\ x.priority \in Nat
  BY PrioritiesAssumption DEF Item
<1>2. /\ \A i \in DOMAIN queue : queue[i] \in Item
      /\ \A i \in DOMAIN wal_queue : wal_queue[i] \in Item
      /\ \A t \in Tasks : hand[t] # None => hand[t] \in Item
  BY DEF TypeInv
<1>3. /\ \A i \in DOMAIN wal_queue : wal_queue[i].id <= sent
      /\ \A i \in DOMAIN queue : InLog(queue[i]) \/ Behind(queue[i])
      /\ \A t \in Tasks : hand[t] # None => InLog(hand[t]) \/ Behind(hand[t])
      /\ \A id \in behind : id <= sent
  BY DEF QueueInv, LogOrdered, MemoryLogged
<1>4. \A x : InLog(x) \/ Behind(x) => x.id <= sent
  BY <1>3 DEF InLog, Behind
<1> QED BY <1>1, <1>2, <1>3, <1>4

\* The log names items by their numbers.
LEMMA NumberNamesItem ==
    ASSUME TypeInv, QueueInv, NEW i \in DOMAIN wal_queue, NEW j \in DOMAIN wal_queue,
           wal_queue[i].id = wal_queue[j].id
    PROVE  i = j
<1>1. i \in Nat /\ j \in Nat
  BY DEF TypeInv
<1>2. wal_queue[i].id \in Nat
  BY MemoryNumbered
<1> QED BY <1>1, <1>2 DEF QueueInv, LogOrdered

\* enqueue's append: overlapping neither an enqueue of its priority nor the dequeue
\* of something less urgent, it may be last in both orders.
LEMMA EnqueueAppendStep ==
    ASSUME TypeInv, QueueInv, TypeInv', ~reordered', NEW p \in Producers, EnqueueAppend(p)
    PROVE  QueueInv'
<1>1. PICK prio \in Priorities, r \in AppendResult :
        /\ Append1(r)
        /\ wal_queue' = IF Replayed(r) THEN Append(wal_queue, [id |-> sent + 1, priority |-> prio])
                        ELSE wal_queue
        /\ behind' = IF wal_torn THEN behind \cup {sent + 1} ELSE behind
        /\ hand' = [hand EXCEPT ![p] = IF r.ok THEN [id |-> sent + 1, priority |-> prio] ELSE None]
        /\ reordered' = \/ reordered
                        \/ \E x \in InHand(Producers) : x.priority = prio
                        \/ \E y \in InHand(Consumers) : prio > y.priority
  <2>1. \A prio : [id |-> sent + 1, priority |-> prio].id = sent + 1
    OBVIOUS
  <2> QED BY <2>1 DEF EnqueueAppend
<1>2. PICK item \in Item : item = [id |-> sent + 1, priority |-> prio]
  <2>1. sent + 1 \in Nat
    BY DEF TypeInv
  <2>2. [id |-> sent + 1, priority |-> prio] \in Item
    BY <2>1 DEF Item
  <2> QED BY <2>2
<1>3. /\ item.id = sent + 1 /\ item.priority = prio /\ prio \in Nat /\ sent \in Nat /\ item # None
  BY <1>2, PrioritiesAssumption, NoneAssumption DEF TypeInv
<1>4. /\ \A o \in Producers : hand[o] # None => hand[o].priority # prio
      /\ \A c \in Consumers : hand[c] # None => ~(prio > hand[c].priority)
  BY <1>1 DEF InHand
<1>5. /\ hand[p] = None /\ sent' = sent + 1
      /\ UNCHANGED <<queue, accepted, received, failed, superseded>>
  BY DEF EnqueueAppend
<1>6. /\ \A t \in Tasks \ {p} : hand'[t] = hand[t]
      /\ hand'[p] = IF r.ok THEN item ELSE None
      /\ p \in Tasks /\ p \notin Consumers
  BY <1>1, <1>2, TasksAssumption DEF TypeInv, Tasks
<1>7. /\ r.ok \in BOOLEAN /\ Replayed(r) \in BOOLEAN
      /\ (r.ok /\ ~wal_torn => Replayed(r))
      /\ (wal_torn => wal_torn')
      /\ (faults' = 0 => r.ok /\ faults = 0 /\ wal_torn' = wal_torn)
  BY <1>1 DEF AppendResult, Append1, TypeInv, Replayed
<1>8. /\ ~Replayed(r) => wal_queue' = wal_queue
      /\ Replayed(r) => wal_queue' = Append(wal_queue, item)
  BY <1>1, <1>2, <1>7
<1>9. /\ Append(wal_queue, item) \in Seq(Item) /\ Len(wal_queue) \in Nat
      /\ DOMAIN wal_queue = 1..Len(wal_queue)
      /\ DOMAIN Append(wal_queue, item) = DOMAIN wal_queue \cup {Len(wal_queue) + 1}
      /\ \A i \in DOMAIN wal_queue :
            Append(wal_queue, item)[i] = wal_queue[i] /\ i < Len(wal_queue) + 1
      /\ Append(wal_queue, item)[Len(wal_queue) + 1] = item
  BY Appended DEF TypeInv
<1>10. /\ \A i \in DOMAIN wal_queue : i \in DOMAIN wal_queue' /\ wal_queue'[i] = wal_queue[i]
       /\ \A i \in DOMAIN wal_queue' :
            i \in DOMAIN wal_queue \/ (Replayed(r) /\ i = Len(wal_queue) + 1 /\ wal_queue'[i] = item)
       /\ Replayed(r) => \E i \in DOMAIN wal_queue' : wal_queue'[i] = item
  BY <1>7, <1>8, <1>9
<1>11. /\ \A i \in DOMAIN queue : queue[i].id \in Nat /\ queue[i].priority \in Nat
                                  /\ queue[i].id <= sent
       /\ \A t \in Tasks : hand[t] # None => hand[t].id \in Nat /\ hand[t].priority \in Nat
                                             /\ hand[t].id <= sent
       /\ \A i \in DOMAIN wal_queue : wal_queue[i].id \in Nat /\ wal_queue[i].id <= sent
  BY MemoryNumbered
<1>12. LogOrdered'
  <2>1. \A i, j \in DOMAIN wal_queue' : i < j => wal_queue'[i].id < wal_queue'[j].id
    <3>1. \A i, j \in DOMAIN wal_queue : i < j => wal_queue[i].id < wal_queue[j].id
      BY DEF QueueInv, LogOrdered
    <3>2. ASSUME NEW i \in DOMAIN wal_queue', NEW j \in DOMAIN wal_queue', i < j
          PROVE  i \in DOMAIN wal_queue
      BY <1>9, <1>10, <3>2
    <3> QED BY <1>3, <1>10, <1>11, <3>1, <3>2
  <2>2. \A i \in DOMAIN wal_queue' : wal_queue'[i].id <= sent'
    BY <1>3, <1>5, <1>10, <1>11
  <2> QED BY <2>1, <2>2 DEF LogOrdered
<1>13. QueueOrdered'
  BY <1>5 DEF QueueInv, QueueOrdered
<1>14. HandsOrdered'
  <2>1. HandsOrdered
    BY DEF QueueInv
  <2>2. ASSUME NEW o \in Producers, hand'[o] # None
        PROVE  /\ \A i \in DOMAIN queue' :
                    queue'[i].priority = hand'[o].priority => queue'[i].id < hand'[o].id
               /\ \A q \in Producers : hand'[q] # None /\ hand'[q].priority = hand'[o].priority => q = o
    <3>1. CASE o = p
      BY <1>3, <1>4, <1>5, <1>6, <1>11, <2>2, <3>1 DEF Tasks
    <3>2. CASE o # p
      BY <1>3, <1>4, <1>5, <1>6, <2>1, <2>2, <3>2 DEF Tasks, HandsOrdered
    <3> QED BY <3>1, <3>2
  <2>3. ASSUME NEW c \in Consumers, hand'[c] # None
        PROVE  /\ \A i \in DOMAIN queue' : Before(hand'[c], queue'[i])
               /\ \A q \in Producers : hand'[q] # None => Before(hand'[c], hand'[q])
               /\ \A d \in Consumers : hand'[d] # None => d = c
    <3>1. hand'[c] = hand[c] /\ \A d \in Consumers : hand'[d] = hand[d]
      BY <1>6 DEF Tasks
    <3>2. Before(hand[c], item)
      BY <1>3, <1>4, <1>11, <2>3, <3>1 DEF Before, Tasks
    <3> QED BY <1>5, <1>6, <2>1, <2>3, <3>1, <3>2 DEF Tasks, HandsOrdered
  <2> QED BY <2>2, <2>3 DEF HandsOrdered, Before
<1>15. MemoryLogged'
  <2>1. \A x : InLog(x) => \E i \in DOMAIN wal_queue' : wal_queue'[i] = x
    BY <1>10 DEF InLog
  <2>2. \A x : Behind(x) => Behind(x)'
    BY <1>1, <1>7 DEF Behind
  <2>3. r.ok => (\E i \in DOMAIN wal_queue' : wal_queue'[i] = item) \/ Behind(item)'
    BY <1>1, <1>3, <1>7, <1>10 DEF Behind
  <2>4. \A i \in DOMAIN queue' : InLog(queue[i]) \/ Behind(queue[i])
    BY <1>5 DEF QueueInv, MemoryLogged
  <2>5. \A t \in Tasks : hand'[t] # None =>
          InLog(hand'[t]) \/ Behind(hand'[t]) \/ (hand'[t] = item /\ r.ok)
    BY <1>6 DEF QueueInv, MemoryLogged
  <2>6. \A id \in behind' : id <= sent'
    <3>1. \A id \in behind : id \in Nat /\ id <= sent
      BY DEF TypeInv, QueueInv, MemoryLogged
    <3> QED BY <1>1, <1>3, <1>5, <3>1
  <2>7. \A i \in DOMAIN queue' : (InLog(queue[i]) \/ Behind(queue[i]))'
    BY <1>5, <2>1, <2>2, <2>4 DEF InLog, Behind
  <2>8. \A t \in Tasks : (hand[t] # None => InLog(hand[t]) \/ Behind(hand[t]))'
    BY <2>1, <2>2, <2>3, <2>5 DEF InLog, Behind
  <2> QED BY <2>6, <2>7, <2>8 DEF MemoryLogged
<1>16. AcceptedKept'
  <2>1. \A id : OnItsWay(id) => OnItsWay(id)'
    BY <1>5, <1>6 DEF OnItsWay, Tasks
  <2>2. AcceptedKept /\ behind \subseteq behind'
    BY <1>1 DEF QueueInv
  <2> QED BY <1>5, <2>1, <2>2 DEF AcceptedKept
<1>17. FailedKept'
  BY <1>1, <1>5, <1>10 DEF QueueInv, FailedKept
<1>18. ASSUME faults' = 0 PROVE LogExact'
  <2>1. r.ok /\ LogExact
    BY <1>7, <1>18 DEF QueueInv
  <2>2. \A x : InMemory(x) => InMemory(x)'
    BY <1>5, <1>6 DEF InMemory
  <2>3. InMemory(item)'
    BY <1>3, <1>6, <2>1 DEF InMemory
  <2>4. \A i \in DOMAIN wal_queue' :
          \/ \E k \in DOMAIN queue' : queue'[k] = wal_queue'[i]
          \/ \E t \in Tasks : hand'[t] # None /\ hand'[t] = wal_queue'[i]
    <3> SUFFICES ASSUME NEW i \in DOMAIN wal_queue'
                 PROVE  \/ \E k \in DOMAIN queue' : queue'[k] = wal_queue'[i]
                        \/ \E t \in Tasks : hand'[t] # None /\ hand'[t] = wal_queue'[i]
      OBVIOUS
    <3>1. PICK x : x = wal_queue'[i]
      OBVIOUS
    <3>2. InMemory(x) \/ x = item
      BY <1>10, <2>1, <3>1 DEF LogExact
    <3>3. InMemory(x)'
      BY <2>2, <2>3, <3>2
    <3> QED BY <3>1, <3>3 DEF InMemory
  <2>5. \A i \in DOMAIN wal_queue' : wal_queue'[i].id \notin Range(received')
    BY <1>3, <1>5, <1>10, <2>1 DEF LogExact
  <2>6. \A id \in Range(received') : id <= sent'
    <3>1. \A id \in Range(received) : id \in Nat /\ id <= sent
      BY <2>1 DEF LogExact, TypeInv, Range
    <3> QED BY <1>3, <1>5, <3>1
  <2> QED BY <1>5, <1>7, <1>18, <2>1, <2>4, <2>5, <2>6 DEF LogExact, InMemory
<1> QED BY <1>12, <1>13, <1>14, <1>15, <1>16, <1>18, <1>17 DEF QueueInv

\* enqueue's push: the item goes last, and it is the last of its priority.
LEMMA EnqueuePushStep ==
    ASSUME TypeInv, QueueInv, TypeInv', NEW p \in Producers, EnqueuePush(p)
    PROVE  QueueInv'
<1>1. PICK x \in Item : x = hand[p]
  BY DEF EnqueuePush, TypeInv, Tasks
<1>2. /\ x # None /\ queue' = Append(queue, x) /\ accepted' = accepted \cup {x.id}
      /\ UNCHANGED <<wal_queue, wal_torn, sent, received, failed, superseded, behind, faults>>
  BY <1>1 DEF EnqueuePush, walVars, lostVars
<1>3. /\ \A t \in Tasks \ {p} : hand'[t] = hand[t]
      /\ hand'[p] = None /\ p \in Tasks /\ p \notin Consumers
  BY TasksAssumption DEF EnqueuePush, TypeInv, Tasks
<1>4. /\ Len(queue) \in Nat /\ DOMAIN queue = 1..Len(queue)
      /\ DOMAIN queue' = DOMAIN queue \cup {Len(queue) + 1}
      /\ \A i \in DOMAIN queue : queue'[i] = queue[i] /\ i < Len(queue) + 1
      /\ queue'[Len(queue) + 1] = x
  BY <1>2, Appended DEF TypeInv
<1>5. HandsOrdered /\ MemoryLogged /\ QueueOrdered
  BY DEF QueueInv
<1>6. /\ \A i \in DOMAIN queue : queue[i].priority = x.priority => queue[i].id < x.id
      /\ \A o \in Producers : hand[o] # None /\ hand[o].priority = x.priority => o = p
      /\ \A c \in Consumers : hand[c] # None => Before(hand[c], x)
  BY <1>1, <1>2, <1>5 DEF HandsOrdered
<1>7. LogOrdered'
  BY <1>2 DEF QueueInv, LogOrdered
<1>8. QueueOrdered'
  <2> SUFFICES ASSUME NEW i \in DOMAIN queue', NEW j \in DOMAIN queue', i < j,
                      queue'[i].priority = queue'[j].priority
               PROVE  queue'[i].id < queue'[j].id
    BY DEF QueueOrdered
  <2>1. i \in DOMAIN queue
    BY <1>4
  <2>2. CASE j \in DOMAIN queue
    BY <1>4, <1>5, <2>1, <2>2 DEF QueueOrdered
  <2>3. CASE j = Len(queue) + 1
    BY <1>4, <1>6, <2>1, <2>3
  <2> QED BY <1>4, <2>2, <2>3
<1>9. HandsOrdered'
  <2>1. ASSUME NEW o \in Producers, hand'[o] # None
        PROVE  /\ \A i \in DOMAIN queue' :
                    queue'[i].priority = hand'[o].priority => queue'[i].id < hand'[o].id
               /\ \A q \in Producers : hand'[q] # None /\ hand'[q].priority = hand'[o].priority => q = o
    <3>1. o # p /\ hand'[o] = hand[o] /\ hand[o].priority # x.priority
      BY <1>3, <1>6, <2>1 DEF Tasks
    <3> QED BY <1>3, <1>4, <1>5, <2>1, <3>1 DEF Tasks, HandsOrdered
  <2>2. ASSUME NEW c \in Consumers, hand'[c] # None
        PROVE  /\ \A i \in DOMAIN queue' : Before(hand'[c], queue'[i])
               /\ \A q \in Producers : hand'[q] # None => Before(hand'[c], hand'[q])
               /\ \A d \in Consumers : hand'[d] # None => d = c
    BY <1>3, <1>4, <1>5, <1>6, <2>2 DEF Tasks, HandsOrdered
  <2> QED BY <2>1, <2>2 DEF HandsOrdered, Before
<1>10. MemoryLogged'
  <2>1. InLog(x) \/ Behind(x)
    BY <1>1, <1>2, <1>3, <1>5 DEF MemoryLogged
  <2> QED BY <1>2, <1>3, <1>4, <1>5, <2>1 DEF MemoryLogged, InLog, Behind
<1>11. FailedKept'
  BY <1>2 DEF QueueInv, FailedKept
<1>12. AcceptedKept'
  <2>1. \A id : OnItsWay(id) => OnItsWay(id)'
    BY <1>3, <1>4 DEF OnItsWay, Tasks
  <2>2. OnItsWay(x.id)'
    BY <1>4 DEF OnItsWay
  <2>3. AcceptedKept
    BY DEF QueueInv
  <2> QED BY <1>2, <2>1, <2>2, <2>3 DEF AcceptedKept
<1>13. ASSUME faults' = 0 PROVE LogExact'
  <2>1. LogExact
    BY <1>2, <1>13 DEF QueueInv
  <2>2. ASSUME NEW y, InMemory(y) PROVE InMemory(y)'
    <3>1. CASE y = x
      BY <1>4, <3>1 DEF InMemory
    <3>2. CASE y # x
      BY <1>1, <1>3, <1>4, <2>2, <3>2 DEF InMemory
    <3> QED BY <3>1, <3>2
  <2>3. \A i \in DOMAIN wal_queue' :
          \/ \E k \in DOMAIN queue' : queue'[k] = wal_queue'[i]
          \/ \E t \in Tasks : hand'[t] # None /\ hand'[t] = wal_queue'[i]
    <3> SUFFICES ASSUME NEW i \in DOMAIN wal_queue'
                 PROVE  \/ \E k \in DOMAIN queue' : queue'[k] = wal_queue'[i]
                        \/ \E t \in Tasks : hand'[t] # None /\ hand'[t] = wal_queue'[i]
      OBVIOUS
    <3>1. PICK y : y = wal_queue'[i]
      OBVIOUS
    <3>2. InMemory(y)'
      BY <1>2, <2>1, <2>2, <3>1 DEF LogExact
    <3> QED BY <3>1, <3>2 DEF InMemory
  <2> QED BY <1>2, <2>1, <2>3 DEF LogExact, InMemory
<1> QED BY <1>7, <1>8, <1>9, <1>10, <1>12, <1>13, <1>11 DEF QueueInv

\* dequeue's pop: what it takes is the most urgent of all, since it overlaps with no
\* other dequeue and no enqueue of something more urgent.
LEMMA DequeuePopStep ==
    ASSUME TypeInv, QueueInv, TypeInv', ~reordered', NEW c \in Consumers, DequeuePop(c)
    PROVE  QueueInv'
<1>1. PICK n \in DOMAIN queue :
        /\ IsNext(queue, n)
        /\ queue' = RemoveAt(queue, n)
        /\ hand' = [hand EXCEPT ![c] = queue[n]]
        /\ reordered' = \/ reordered
                        \/ \E x \in InHand(Producers) : x.priority > queue[n].priority
                        \/ InHand(Consumers) # {}
  BY DEF DequeuePop
<1>2. PICK y \in Item : y = queue[n]
  BY DEF TypeInv
<1>3. /\ y # None /\ y.id \in Nat /\ y.priority \in Nat
  BY <1>2, NoneAssumption, PrioritiesAssumption DEF Item
<1>4. /\ \A p \in Producers : hand[p] # None => ~(hand[p].priority > y.priority)
      /\ \A d \in Consumers : hand[d] = None
  BY <1>1, <1>2 DEF InHand
<1>5. UNCHANGED <<wal_queue, wal_torn, sent, accepted, received, failed, superseded, behind,
                  faults>>
  BY DEF DequeuePop, walVars, lostVars
<1>6. /\ \A t \in Tasks \ {c} : hand'[t] = hand[t]
      /\ hand'[c] = y /\ c \in Tasks /\ c \notin Producers
  BY <1>1, <1>2, TasksAssumption DEF TypeInv, Tasks
<1>7. /\ \A j \in DOMAIN queue' : /\ j \in Nat /\ Shift(n, j) \in DOMAIN queue \ {n}
                                  /\ queue'[j] = queue[Shift(n, j)]
      /\ \A j, k \in DOMAIN queue' : j < k => Shift(n, j) < Shift(n, k)
      /\ \A k \in DOMAIN queue \ {n} : \E j \in DOMAIN queue' : queue'[j] = queue[k]
  BY <1>1, Removed DEF TypeInv
<1>8. /\ \A i \in DOMAIN queue : i \in Nat /\ queue[i].id \in Nat /\ queue[i].priority \in Nat
      /\ \A t \in Tasks : hand[t] # None => hand[t].id \in Nat /\ hand[t].priority \in Nat
  BY MemoryNumbered, SMTT(30) DEF TypeInv
<1>9. HandsOrdered /\ MemoryLogged /\ QueueOrdered
  BY DEF QueueInv
<1>10. \A i \in DOMAIN queue \ {n} : Before(y, queue[i])
  <2> SUFFICES ASSUME NEW i \in DOMAIN queue \ {n} PROVE Before(y, queue[i])
    OBVIOUS
  <2>1. queue[i].priority <= y.priority /\ (i < n => queue[i].priority < y.priority)
    BY <1>1, <1>2 DEF IsNext
  <2>2. i > n /\ queue[i].priority = y.priority => y.id < queue[i].id
    BY <1>2, <1>9 DEF QueueOrdered
  <2> QED BY <1>3, <1>8, <2>1, <2>2 DEF Before
<1>11. LogOrdered'
  BY <1>5 DEF QueueInv, LogOrdered
<1>12. QueueOrdered'
  BY <1>7, <1>9 DEF QueueOrdered
<1>13. HandsOrdered'
  <2>1. \A p \in Producers : hand'[p] = hand[p] /\ p \in Tasks
    BY <1>6 DEF Tasks
  <2>2. ASSUME NEW p \in Producers, hand'[p] # None
        PROVE  /\ \A i \in DOMAIN queue' :
                    queue'[i].priority = hand'[p].priority => queue'[i].id < hand'[p].id
               /\ \A o \in Producers : hand'[o] # None /\ hand'[o].priority = hand'[p].priority => o = p
    BY <1>7, <1>9, <2>1, <2>2 DEF HandsOrdered
  <2>3. ASSUME NEW d \in Consumers, hand'[d] # None
        PROVE  /\ d = c
               /\ \A i \in DOMAIN queue' : Before(hand'[d], queue'[i])
               /\ \A p \in Producers : hand'[p] # None => Before(hand'[d], hand'[p])
    <3>1. d = c /\ hand'[d] = y
      BY <1>4, <1>6, <2>3 DEF Tasks
    <3>2. \A i \in DOMAIN queue' : Before(y, queue'[i])
      BY <1>7, <1>10
    <3>3. ASSUME NEW p \in Producers, hand[p] # None PROVE Before(y, hand[p])
      <4>1. hand[p].priority = y.priority => y.id < hand[p].id
        BY <1>2, <1>9, <3>3 DEF HandsOrdered
      <4> QED BY <1>3, <1>4, <1>8, <2>1, <3>3, <4>1 DEF Before
    <3> QED BY <2>1, <3>1, <3>2, <3>3
  <2> QED BY <2>2, <2>3 DEF HandsOrdered, Before
<1>14. MemoryLogged'
  <2>1. InLog(y) \/ Behind(y)
    BY <1>2, <1>9 DEF MemoryLogged
  <2> QED BY <1>5, <1>6, <1>7, <1>9, <2>1 DEF MemoryLogged, InLog, Behind
<1>15. FailedKept'
  BY <1>5 DEF QueueInv, FailedKept
<1>16. AcceptedKept'
  <2>1. ASSUME NEW id, OnItsWay(id) PROVE OnItsWay(id)'
    <3>1. PICK k \in DOMAIN queue : queue[k].id = id
      BY <1>4, <2>1 DEF OnItsWay
    <3>2. CASE k = n
      BY <1>2, <1>3, <1>6, <3>1, <3>2 DEF OnItsWay
    <3>3. CASE k # n
      BY <1>7, <3>1, <3>3 DEF OnItsWay
    <3> QED BY <3>2, <3>3
  <2> QED BY <1>5, <2>1 DEF AcceptedKept, QueueInv
<1>17. ASSUME faults' = 0 PROVE LogExact'
  <2>1. LogExact
    BY <1>5, <1>17 DEF QueueInv
  <2>2. ASSUME NEW x, InMemory(x) PROVE InMemory(x)'
    <3>1. CASE x = y
      BY <1>3, <1>6, <3>1 DEF InMemory
    <3>2. CASE \E k \in DOMAIN queue : queue[k] = x /\ x # y
      BY <1>2, <1>7, <3>2 DEF InMemory
    <3>3. CASE \E t \in Tasks : hand[t] # None /\ hand[t] = x
      <4>1. PICK t \in Tasks : hand[t] # None /\ hand[t] = x
        BY <3>3
      <4>2. t # c
        BY <1>4, <4>1
      <4> QED BY <1>6, <4>1, <4>2 DEF InMemory
    <3> QED BY <2>2, <3>1, <3>2, <3>3 DEF InMemory
  <2>3. \A i \in DOMAIN wal_queue' :
          \/ \E k \in DOMAIN queue' : queue'[k] = wal_queue'[i]
          \/ \E t \in Tasks : hand'[t] # None /\ hand'[t] = wal_queue'[i]
    <3> SUFFICES ASSUME NEW i \in DOMAIN wal_queue'
                 PROVE  \/ \E k \in DOMAIN queue' : queue'[k] = wal_queue'[i]
                        \/ \E t \in Tasks : hand'[t] # None /\ hand'[t] = wal_queue'[i]
      OBVIOUS
    <3>1. PICK x : x = wal_queue'[i]
      OBVIOUS
    <3>2. InMemory(x)'
      BY <1>5, <2>1, <2>2, <3>1 DEF LogExact
    <3> QED BY <3>1, <3>2 DEF InMemory
  <2> QED BY <1>5, <2>1, <2>3 DEF LogExact, InMemory
<1> QED BY <1>11, <1>12, <1>13, <1>14, <1>16, <1>17, <1>15 DEF QueueInv

\* Settling a dequeue leaves no item in the hands of a consumer.
LEMMA HandsAfterDequeue ==
    ASSUME TypeInv, HandsOrdered, NEW c \in Consumers, DequeueAppend(c)
    PROVE  /\ UNCHANGED <<queue, sent, accepted>>
           /\ \A p \in Producers : hand'[p] = hand[p]
           /\ \A d \in Consumers : hand'[d] = None
<1>1. hand[c] # None /\ UNCHANGED <<queue, sent, accepted>> /\ c \in Tasks /\ c \notin Producers
  BY TasksAssumption DEF DequeueAppend, Tasks
<1>2. hand'[c] = None /\ \A t \in Tasks \ {c} : hand'[t] = hand[t]
  BY DEF DequeueAppend, TypeInv, Tasks
<1>3. \A d \in Consumers \ {c} : hand[d] = None
  BY <1>1 DEF HandsOrdered
<1> QED BY <1>1, <1>2, <1>3 DEF Tasks

\* dequeue's append: replay would remove the item itself, or one that a failed
\* dequeue left in the log, and in either case nothing that is still in memory.
LEMMA DequeueAppendStep ==
    ASSUME TypeInv, QueueInv, TypeInv', NEW c \in Consumers, DequeueAppend(c)
    PROVE  QueueInv'
<1>1. PICK y \in Item : y = hand[c]
  BY DEF DequeueAppend, TypeInv, Tasks
<1>2. PICK r \in AppendResult :
        /\ Append1(r)
        /\ IF Replayed(r) THEN ReplayDequeue ELSE UNCHANGED wal_queue
        /\ received' = IF r.ok THEN Append(received, y.id) ELSE received
        /\ failed' = IF r.ok THEN failed ELSE failed \cup {y.id}
        /\ superseded' = IF Replayed(r) THEN superseded \cup failed' ELSE superseded
  BY <1>1 DEF DequeueAppend
<1>3. /\ r.ok \in BOOLEAN /\ Replayed(r) \in BOOLEAN
      /\ (r.ok /\ ~wal_torn => Replayed(r)) /\ (Replayed(r) => ~wal_torn)
      /\ (wal_torn => wal_torn') /\ UNCHANGED behind
      /\ (faults' = 0 => r.ok /\ faults = 0 /\ wal_torn' = wal_torn)
  BY <1>2 DEF AppendResult, Append1, TypeInv, Replayed, DequeueAppend
<1>4. HandsOrdered /\ MemoryLogged /\ QueueOrdered /\ LogOrdered
  BY DEF QueueInv
<1>5. /\ UNCHANGED <<queue, sent, accepted>>
      /\ \A p \in Producers : hand'[p] = hand[p]
      /\ \A d \in Consumers : hand'[d] = None
  BY <1>4, HandsAfterDequeue
<1>6. /\ y # None /\ c \in Tasks /\ (InLog(y) \/ Behind(y))
      /\ \A i \in DOMAIN queue : Before(y, queue[i])
      /\ \A p \in Producers : hand[p] # None => Before(y, hand[p])
      /\ \A d \in Consumers : hand[d] # None => d = c
  <2>1. hand[c] # None /\ c \in Tasks
    BY DEF DequeueAppend, Tasks
  <2> QED BY <1>1, <1>4, <2>1 DEF HandsOrdered, MemoryLogged
<1>7. /\ \A i \in DOMAIN queue : queue[i].id \in Nat /\ queue[i].priority \in Nat
      /\ \A t \in Tasks : hand[t] # None => hand[t].id \in Nat /\ hand[t].priority \in Nat
      /\ \A i \in DOMAIN wal_queue : i \in Nat /\ wal_queue[i].id \in Nat
                                     /\ wal_queue[i].priority \in Nat /\ wal_queue[i].id <= sent
  BY MemoryNumbered DEF TypeInv
<1>8. y.id \in Nat /\ y.priority \in Nat /\ y.id <= sent
  BY <1>6, <1>7, MemoryNumbered, <1>1
<1>9. QueueOrdered' /\ HandsOrdered'
  <2>1. QueueOrdered'
    BY <1>4, <1>5 DEF QueueOrdered
  <2>2. HandsOrdered'
    BY <1>4, <1>5 DEF HandsOrdered
  <2> QED BY <2>1, <2>2
<1>10. AcceptedKept'
  <2> SUFFICES ASSUME NEW id \in accepted' \ (failed' \cup superseded' \cup behind')
               PROVE  id \in Range(received') \/ \E i \in DOMAIN queue' : queue'[i].id = id
    BY DEF AcceptedKept, OnItsWay
  <2>1. /\ id \in accepted \ (failed \cup superseded \cup behind)
        /\ r.ok \/ id # y.id
    BY <1>2, <1>3, <1>5
  <2>2. received \in Seq(Nat)
    BY DEF TypeInv
  <2>3. r.ok => Range(received') = Range(received) \cup {y.id}
    BY <1>2, <1>8, <2>2, AppendFacts
  <2>4. ~r.ok => received' = received
    BY <1>2
  <2>5. id \in Range(received) \/ OnItsWay(id)
    BY <2>1 DEF QueueInv, AcceptedKept
  <2>6. id \in Range(received) \/ (\E i \in DOMAIN queue : queue[i].id = id) \/ id = y.id
    BY <1>1, <1>6, <2>5 DEF OnItsWay
  <2> QED BY <1>3, <1>5, <2>1, <2>3, <2>4, <2>6
<1>11. CASE ~Replayed(r)
  <2>1. wal_queue' = wal_queue /\ superseded' = superseded
    BY <1>2, <1>3, <1>11
  <2>4. faults' # 0
    BY <1>3, <1>11 DEF QueueInv, LogExact
  <2>5. FailedKept'
    <3> SUFFICES ASSUME NEW id \in failed' \ (superseded \cup behind)
                 PROVE  \E i \in DOMAIN wal_queue : wal_queue[i].id = id
      BY <1>3, <2>1 DEF FailedKept
    <3>1. CASE id \in failed
      BY <3>1 DEF QueueInv, FailedKept
    <3>2. CASE id = y.id
      BY <1>6, <3>2 DEF InLog, Behind
    <3> QED BY <1>2, <3>1, <3>2
  <2>2. LogOrdered'
    BY <1>4, <1>5, <2>1 DEF LogOrdered
  <2>3. MemoryLogged'
    BY <1>3, <1>4, <1>5, <2>1 DEF MemoryLogged, InLog, Behind, Tasks
  <2> QED BY <1>9, <1>10, <2>2, <2>3, <2>4, <2>5 DEF QueueInv
<1>12. CASE Replayed(r)
  <2>0. /\ InLog(y)
        /\ \A i \in DOMAIN queue : InLog(queue[i])
        /\ \A t \in Tasks : hand[t] # None => InLog(hand[t])
    BY <1>3, <1>4, <1>6, <1>12 DEF MemoryLogged, Behind
  <2>1. PICK k \in DOMAIN wal_queue : IsNext(wal_queue, k) /\ wal_queue' = RemoveAt(wal_queue, k)
    <3>1. wal_queue # <<>>
      BY <2>0 DEF InLog
    <3> QED BY <1>2, <1>12, <3>1 DEF ReplayDequeue
  <2>2. PICK z \in Item : z = wal_queue[k]
    BY DEF TypeInv
  <2>3. z.id \in Nat /\ z.priority \in Nat
    BY <1>7, <2>2
  <2>4. PICK m \in DOMAIN wal_queue : wal_queue[m] = y
    BY <2>0 DEF InLog
  <2>5. z = y \/ Before(z, y)
    <3>1. y.priority <= z.priority /\ (m < k => y.priority < z.priority)
      BY <2>1, <2>2, <2>4 DEF IsNext
    <3>2. m > k => z.id < y.id
      BY <1>4, <2>2, <2>4 DEF LogOrdered
    <3> QED BY <1>7, <1>8, <2>2, <2>3, <2>4, <3>1, <3>2 DEF Before
  <2>6. /\ \A i \in DOMAIN queue : queue[i] # z
        /\ \A p \in Producers : hand[p] # None => hand[p] # z
    <3>1. \A i \in DOMAIN queue : queue[i] # z
      BY <1>6, <1>7, <1>8, <2>3, <2>5 DEF Before
    <3>2. \A p \in Producers : hand[p] # None => hand[p] # z
      BY <1>6, <1>7, <1>8, <2>3, <2>5 DEF Before, Tasks
    <3> QED BY <3>1, <3>2
  <2>7. /\ \A j \in DOMAIN wal_queue' : /\ j \in Nat /\ Shift(k, j) \in DOMAIN wal_queue \ {k}
                                        /\ wal_queue'[j] = wal_queue[Shift(k, j)]
        /\ \A i, j \in DOMAIN wal_queue' : i < j => Shift(k, i) < Shift(k, j)
        /\ \A i \in DOMAIN wal_queue \ {k} : \E j \in DOMAIN wal_queue' : wal_queue'[j] = wal_queue[i]
    BY <2>1, Removed DEF TypeInv
  <2>8. LogOrdered'
    BY <1>4, <1>5, <2>7 DEF LogOrdered
  <2>9. MemoryLogged'
    <3>1. \A x : InLog(x) /\ x # z => \E j \in DOMAIN wal_queue' : wal_queue'[j] = x
      BY <2>2, <2>7 DEF InLog
    <3>2. \A i \in DOMAIN queue' : InLog(queue'[i]) /\ queue'[i] # z
      BY <1>5, <2>0, <2>6
    <3>3. \A t \in Tasks : hand'[t] # None => InLog(hand'[t]) /\ hand'[t] # z
      BY <1>5, <2>0, <2>6 DEF Tasks
    <3>4. \A id \in behind' : id <= sent'
      BY <1>3, <1>4, <1>5 DEF MemoryLogged
    <3> QED BY <3>1, <3>2, <3>3, <3>4 DEF MemoryLogged, InLog
  <2>11. FailedKept'
    BY <1>2, <1>12 DEF FailedKept
  <2>10. ASSUME faults' = 0 PROVE LogExact'
    <3>1. r.ok /\ LogExact
      BY <1>3, <2>10 DEF QueueInv
    <3>2. z = y
      <4>1. InMemory(z)
        BY <2>2, <3>1 DEF LogExact
      <4>2. PICK t \in Tasks : hand[t] # None /\ hand[t] = z
        BY <2>6, <4>1 DEF InMemory
      <4>3. t \in Consumers
        BY <2>6, <4>2 DEF Tasks
      <4> QED BY <1>1, <1>6, <4>2, <4>3
    <3>3. \A i \in DOMAIN wal_queue \ {k} : wal_queue[i].id # y.id
      BY <2>2, <3>2, NumberNamesItem
    <3>4. \A j \in DOMAIN wal_queue' :
            \/ \E i \in DOMAIN queue' : queue'[i] = wal_queue'[j]
            \/ \E t \in Tasks : hand'[t] # None /\ hand'[t] = wal_queue'[j]
      <4> SUFFICES ASSUME NEW j \in DOMAIN wal_queue'
                   PROVE  \/ \E i \in DOMAIN queue' : queue'[i] = wal_queue'[j]
                          \/ \E t \in Tasks : hand'[t] # None /\ hand'[t] = wal_queue'[j]
        OBVIOUS
      <4>1. PICK x : x = wal_queue'[j]
        OBVIOUS
      <4>2. InMemory(x) /\ x # y
        BY <2>7, <3>1, <3>3, <4>1 DEF LogExact
      <4>3. ASSUME NEW t \in Tasks, hand[t] # None, hand[t] = x
            PROVE  hand'[t] # None /\ hand'[t] = x
        <5>1. t \notin Consumers
          BY <1>1, <1>6, <4>2, <4>3
        <5> QED BY <1>5, <4>3, <5>1 DEF Tasks
      <4> QED BY <1>5, <4>1, <4>2, <4>3 DEF InMemory
    <3>5. /\ received' \in Seq(Nat) /\ Range(received') = Range(received) \cup {y.id}
          /\ IsInjective(received')
      <4>1. y.id \notin Range(received) /\ IsInjective(received)
        BY <2>2, <3>1, <3>2 DEF LogExact
      <4>2. received \in Seq(Nat) /\ received' = Append(received, y.id)
        BY <1>2, <3>1 DEF TypeInv
      <4> QED BY <1>8, <4>1, <4>2, AppendFacts
    <3>6. \A j \in DOMAIN wal_queue' : wal_queue'[j].id \notin Range(received')
      BY <2>7, <3>1, <3>3, <3>5 DEF LogExact
    <3>7. \A id \in Range(received') : id <= sent'
      BY <1>5, <1>8, <3>1, <3>5 DEF LogExact
    <3>8. ~wal_torn'
      BY <1>3, <1>12, <2>10
    <3> QED BY <3>4, <3>5, <3>6, <3>7, <3>8 DEF LogExact, InMemory
  <2> QED BY <1>9, <1>10, <2>8, <2>9, <2>10, <2>11 DEF QueueInv
<1> QED BY <1>3, <1>11, <1>12

\* Where an accepted item is found by a restart.
LEMMA KeptThroughRestart ==
    ASSUME TypeInv, QueueInv, NEW id \in accepted \ (superseded \cup behind)
    PROVE  id \in Range(received) \/ \E i \in DOMAIN wal_queue : wal_queue[i].id = id
<1>1. CASE id \in failed
  BY <1>1 DEF QueueInv, FailedKept
<1>2. CASE id \notin failed
  <2>1. OnItsWay(id) => \E i \in DOMAIN wal_queue : wal_queue[i].id = id
    BY DEF OnItsWay, QueueInv, MemoryLogged, InLog, Behind, Tasks
  <2> QED BY <1>2, <2>1 DEF QueueInv, AcceptedKept
<1> QED BY <1>1, <1>2

\* A restart: memory becomes what the log says.
LEMMA CrashStep ==
    ASSUME TypeInv, QueueInv, CrashAndOpen
    PROVE  QueueInv'
<1>1. /\ queue' = wal_queue /\ \A t \in Tasks : hand'[t] = None
      /\ wal_torn' = FALSE /\ failed' = {}
      /\ UNCHANGED <<wal_queue, sent, accepted, received, superseded, behind, faults>>
  BY DEF CrashAndOpen, Tasks
<1>2. LogOrdered'
  BY <1>1 DEF QueueInv, LogOrdered
<1>3. QueueOrdered'
  BY <1>1 DEF QueueInv, LogOrdered, QueueOrdered
<1>4. HandsOrdered'
  BY <1>1 DEF HandsOrdered, Tasks
<1>5. MemoryLogged'
  BY <1>1 DEF QueueInv, MemoryLogged, InLog
<1>6. AcceptedKept'
  <2> SUFFICES ASSUME NEW id \in accepted \ (superseded \cup behind)
               PROVE  id \in Range(received) \/ \E i \in DOMAIN wal_queue : wal_queue[i].id = id
    BY <1>1 DEF AcceptedKept, OnItsWay
  <2> QED BY KeptThroughRestart
<1>7. FailedKept'
  BY <1>1 DEF FailedKept
<1>8. ASSUME faults' = 0 PROVE LogExact'
  <2>1. LogExact
    BY <1>1, <1>8 DEF QueueInv
  <2> QED BY <1>1, <2>1 DEF LogExact, InMemory
<1> QED BY <1>2, <1>3, <1>4, <1>5, <1>6, <1>8, <1>7 DEF QueueInv

-----------------------------------------------------------------------------
(* Theorems                                                                 *)

LEMMA InvHolds == Spec => []Inv
<1>1. Init => Inv
  <2> SUFFICES ASSUME Init PROVE Inv
    OBVIOUS
  <2>1. TypeInv
    <3>1. <<>> \in Seq(Item) /\ <<>> \in Seq(Nat)
      OBVIOUS
    <3>2. hand \in [Tasks -> Item \cup {None}]
      BY DEF Init, Tasks
    <3>3. reordered \in BOOLEAN
      BY DEF Init
    <3> QED BY <3>1, <3>2, <3>3 DEF Init, TypeInv
  <2>2. \A t \in Tasks : hand[t] = None
    BY DEF Init, Tasks
  <2>3. LogOrdered /\ QueueOrdered /\ HandsOrdered /\ MemoryLogged
    BY <2>2 DEF Init, LogOrdered, QueueOrdered, HandsOrdered, MemoryLogged, Tasks
  <2>4. AcceptedKept /\ FailedKept
    BY DEF Init, AcceptedKept, FailedKept
  <2>5. LogExact
    BY DEF Init, LogExact, IsInjective, Range
  <2> QED BY <2>1, <2>3, <2>4, <2>5 DEF Inv, QueueInv
<1>2. Inv /\ [Next]_vars => Inv'
  <2> SUFFICES ASSUME Inv, [Next]_vars PROVE Inv'
    OBVIOUS
  <2>1. TypeInv /\ TypeInv'
    BY TypeStep DEF Inv
  <2> SUFFICES ASSUME ~reordered' PROVE QueueInv'
    BY <2>1 DEF Inv
  <2>2. ~reordered
    BY DEF Next, EnqueueAppend, EnqueuePush, DequeuePop, DequeueAppend, CrashAndOpen, Rest, vars
  <2>3. QueueInv
    BY <2>2 DEF Inv
  <2>4. ASSUME UNCHANGED vars PROVE QueueInv'
    BY <2>3, <2>4 DEF vars, walVars, lostVars, QueueInv, LogOrdered, QueueOrdered,
       HandsOrdered, Before, MemoryLogged, InLog, Behind, AcceptedKept, FailedKept, OnItsWay,
       LogExact, InMemory
  <2>5. CASE Rest
    BY <2>4, <2>5 DEF Rest
  <2> QED BY <2>1, <2>3, <2>4, <2>5, EnqueueAppendStep, EnqueuePushStep, DequeuePopStep,
             DequeueAppendStep, CrashStep DEF Next
<1> QED BY <1>1, <1>2, PTL DEF Spec

\* PersistentFifoQueue::enqueue, PersistentPriorityQueue::enqueue: what they said Ok to
\* is delivered or would be rebuilt by a restart, through crashes and failed appends,
\* unless its record lay behind a torn frame or, once its dequeue has failed, a later
\* Dequeue record can stand for it.
THEOREM OkIsKept == Spec => []OkMeansKept
<1>1. Inv => OkMeansKept
  <2> SUFFICES ASSUME Inv, ~reordered, NEW id \in accepted \ (superseded \cup behind)
               PROVE  id \in Logged \cup Range(received)
    BY DEF OkMeansKept
  <2> QED BY KeptThroughRestart DEF Inv, Logged
<1> QED BY <1>1, InvHolds, PTL

\* dequeue: without failed appends no item is returned twice, crashes included.
THEOREM NeverDeliveredTwice == Spec => []DeliveredOnce
<1>1. Inv => DeliveredOnce
  BY DEF Inv, QueueInv, LogExact, DeliveredOnce
<1> QED BY <1>1, InvHolds, PTL

\* `open`: with no call in progress and no failed append, replaying the log gives the
\* queue in memory, its items of each priority in the order they have there.
THEOREM ReplayIsExact == Spec => []ReplayRebuilds
<1>1. Inv => ReplayRebuilds
  <2> SUFFICES ASSUME Inv, Quiet, faults = 0, ~reordered PROVE DeliverAlike(queue, wal_queue)
    BY DEF ReplayRebuilds
  <2>1. TypeInv /\ QueueInv /\ LogExact
    BY DEF Inv, QueueInv
  <2>2. \A t \in Tasks : hand[t] = None
    BY DEF Quiet, Tasks
  <2>3. /\ \A i \in DOMAIN queue : \E k \in DOMAIN wal_queue : wal_queue[k] = queue[i]
        /\ \A k \in DOMAIN wal_queue : \E i \in DOMAIN queue : queue[i] = wal_queue[k]
    BY <2>1, <2>2 DEF QueueInv, MemoryLogged, InLog, Behind, LogExact, InMemory
  <2>4. \A k, l \in DOMAIN wal_queue : wal_queue[k].id = wal_queue[l].id => k = l
    BY <2>1, NumberNamesItem
  <2>5. /\ \A i \in DOMAIN queue : i \in Nat /\ queue[i].id \in Nat
        /\ \A k \in DOMAIN wal_queue : k \in Nat /\ wal_queue[k].id \in Nat
    BY <2>1, MemoryNumbered DEF TypeInv
  <2>6. \A i, j \in DOMAIN queue : queue[i] = queue[j] => i = j
    BY <2>1, <2>5 DEF QueueInv, QueueOrdered
  <2> DEFINE f == [i \in DOMAIN queue |-> CHOOSE k \in DOMAIN wal_queue : wal_queue[k] = queue[i]]
  <2>7. \A i \in DOMAIN queue : f[i] \in DOMAIN wal_queue /\ wal_queue[f[i]] = queue[i]
    BY <2>3
  <2>8. f \in [DOMAIN queue -> DOMAIN wal_queue]
    BY <2>7
  <2> HIDE DEF f
  <2>9. f \in Bijection(DOMAIN queue, DOMAIN wal_queue)
    <3>1. IsInjective(f)
      BY <2>6, <2>7, <2>8 DEF IsInjective
    <3>2. \A k \in DOMAIN wal_queue : \E i \in DOMAIN queue : f[i] = k
      BY <2>3, <2>4, <2>7
    <3> QED BY <2>8, <3>1, <3>2 DEF Bijection, Injection, Surjection
  <2>10. ASSUME NEW i \in DOMAIN queue, NEW j \in DOMAIN queue, i < j,
                queue[i].priority = queue[j].priority
         PROVE  f[i] < f[j]
    <3>1. queue[i].id < queue[j].id
      BY <2>1, <2>10 DEF QueueInv, QueueOrdered
    <3>2. ~(f[j] < f[i]) /\ f[i] # f[j]
      BY <2>1, <2>5, <2>7, <3>1 DEF QueueInv, LogOrdered
    <3> QED BY <2>5, <2>7, <3>2
  <2> QED BY <2>7, <2>9, <2>10 DEF DeliverAlike
<1> QED BY <1>1, InvHolds, PTL

=============================================================================
