------------------------ MODULE ConsumerGroupProofs ------------------------
(***************************************************************************)
(* Theorems about ConsumerGroup for every set of ids, keys and tasks and   *)
(* every bound.                                                            *)
(***************************************************************************)
EXTENDS ConsumerGroup, SubsequenceLemmas

\* The default call record is a Call.
LEMMA IdleType == Idle \in Call
BY DEF Idle, Call, Locals, Steps, EntrySteps, GrantSteps, AllOps

\* Binding or releasing a key keeps a dedup map well typed.
LEMMA BindType ==
    ASSUME NEW map \in [Keys -> Ids \cup {None}], NEW key, NEW id \in Ids \cup {None}
    PROVE  Bind(map, key, id) \in [Keys -> Ids \cup {None}]
BY DEF Bind

\* Picking the elements of a sequence at a set of positions, in their old
\* order, yields a sequence over the same set.
LEMMA AscendingType ==
    ASSUME NEW S, NEW s \in Seq(S), NEW I \in SUBSET DOMAIN s, NEW f \in Ascending(I)
    PROVE  /\ Cardinality(I) \in Nat
           /\ f \in [1..Cardinality(I) -> I]
           /\ DOMAIN f = 1..Cardinality(I)
           /\ \A k \in DOMAIN f : s[f[k]] \in S
<1>1. Positions(I)
  BY PositionsIn
<1>2. Cardinality(I) \in Nat /\ f \in [1..Cardinality(I) -> I]
  BY <1>1, AscendingLists
<1>3. \A k \in DOMAIN f : s[f[k]] \in S
  BY <1>2
<1> QED BY <1>2, <1>3

\* promote_ready_delayed keeps its two halves well typed.
LEMMA PromoteType ==
    ASSUME delayed \in Seq(Delayed),
           NEW I \in SUBSET DOMAIN delayed, NEW f \in Ascending(I)
    PROVE  Promoted(f) \in Seq(Entry) /\ StillDelayed(f) \in Seq(Delayed)
<1> DEFINE n == Cardinality(I)
<1>1. n \in Nat /\ DOMAIN f = 1..n /\ \A k \in 1..n : delayed[f[k]] \in Delayed
  BY AscendingType
<1>2. Promoted(f) \in [1..n -> Entry]
  BY <1>1 DEF Promoted, Delayed
<1>3. StillDelayed(f) \in [1..n -> Delayed]
  BY <1>1 DEF StillDelayed, Pick
<1>4. \A T : \A g \in [1..n -> T] : g \in Seq(T)
  BY <1>1
<1> HIDE DEF n
<1> QED BY <1>2, <1>3, <1>4

\* The first position of an id, dropped: the shape of replaying Ack and DeadLettered.
LEMMA ApplyRemoveType ==
    ASSUME wal_pending \in Seq(WalEnqueue), wal_dedup \in [Keys -> Ids \cup {None}],
           NEW id
    PROVE  /\ ApplyAck(id) => /\ wal_pending' \in Seq(WalEnqueue)
                              /\ wal_dedup' \in [Keys -> Ids \cup {None}]
           /\ ApplyDeadLettered(id) => wal_pending' \in Seq(WalEnqueue)
<1>1. \A i \in DOMAIN wal_pending : RemoveAt(wal_pending, i) \in Seq(WalEnqueue)
  BY RemoveAtType
<1>2. \A key : Release(wal_dedup, key) \in [Keys -> Ids \cup {None}]
  BY BindType DEF Release
<1>3. ApplyDeadLettered(id) => wal_pending' \in Seq(WalEnqueue)
  BY <1>1 DEF ApplyDeadLettered
<1>4. ApplyAck(id) => /\ wal_pending' \in Seq(WalEnqueue)
                      /\ wal_dedup' \in [Keys -> Ids \cup {None}]
  BY <1>1, <1>2 DEF ApplyAck
<1> QED BY <1>3, <1>4

\* A call that returns, or moves to a step for which it has the locals, keeps
\* the type of call.
LEMMA CallType ==
    ASSUME TypeOK, NEW t \in Tasks
    PROVE  /\ call[t] \in Call
           /\ call[t].pc \in EntrySteps => call[t].entry \in Entry
           /\ call[t].pc \in GrantSteps => call[t].grant \in Grant
           /\ call[t].batch \in SUBSET Entry
           /\ Return(t) => call' \in [Tasks -> Call]
           /\ \A pc \in Steps : /\ pc \in EntrySteps => call[t].entry \in Entry
                                /\ pc \in GrantSteps => call[t].grant \in Grant
                                /\ Goto(t, pc)
                                => call' \in [Tasks -> Call]
           /\ \A rest \in SUBSET Entry : Resolved(t, rest) => call' \in [Tasks -> Call]
<1>1. call \in [Tasks -> Call] /\ call[t] \in Call
  BY DEF TypeOK
<1>2. Return(t) => call' \in [Tasks -> Call]
  BY <1>1, IdleType DEF Return
<1>3. ASSUME NEW pc \in Steps, Goto(t, pc),
             pc \in EntrySteps => call[t].entry \in Entry,
             pc \in GrantSteps => call[t].grant \in Grant
      PROVE  call' \in [Tasks -> Call]
  <2>1. [call[t] EXCEPT !.pc = pc] \in Call
    BY <1>1, <1>3 DEF Call, Locals
  <2> QED BY <1>1, <1>3, <2>1 DEF Goto
<1>4. ASSUME NEW rest \in SUBSET Entry, Resolved(t, rest) PROVE call' \in [Tasks -> Call]
  <2>1. [call[t] EXCEPT !.pc = "resolve", !.entry = None, !.batch = rest] \in Call
    BY <1>1 DEF Call, Locals, Steps, EntrySteps, GrantSteps
  <2>2. [Idle EXCEPT !.op = "claim", !.pc = "pop"] \in Call
    BY IdleType DEF Call, Locals, Steps, EntrySteps, GrantSteps, AllOps
  <2> QED BY <1>1, <1>4, <2>1, <2>2, IdleType DEF Resolved
<1>5. /\ call[t].pc \in EntrySteps => call[t].entry \in Entry
      /\ call[t].pc \in GrantSteps => call[t].grant \in Grant
      /\ call[t].batch \in SUBSET Entry
  BY <1>1 DEF Call, Locals
<1> QED BY <1>1, <1>2, <1>3, <1>4, <1>5

\* An append leaves a well-typed fault count.
LEMMA AppendType ==
    ASSUME faults \in Nat, NEW r, WalAppend(r) \/ DlqAppend(r)
    PROVE  faults' \in Nat /\ r.ok \in BOOLEAN /\ r.durable \in BOOLEAN
BY DEF WalAppend, DlqAppend, Append1, AppendResult

\* What a replay rebuilds is well typed.
LEMMA ReplayedType ==
    ASSUME TypeOK PROVE ReplayedWal \in WalState /\ ReplayedDlq \in DlqState
<1>1. CurrentWal \in WalState /\ dlq_wal \in DlqState
  BY DEF TypeOK, CurrentWal, WalState, DlqState
<1>2. wal_tear \in WalState \cup {None} /\ dlq_tear \in DlqState \cup {None}
  BY DEF TypeOK, TornLogsOK
<1> QED BY <1>1, <1>2 DEF ReplayedWal, ReplayedDlq

\* So is the queue that open builds from it.
LEMMA ReopenedType ==
    ASSUME NEW queue \in Seq(WalEnqueue), NEW checkpoints \in [Ids -> Nat]
    PROVE  /\ Reopened(queue, checkpoints) \in Seq(Entry)
           /\ DOMAIN Reopened(queue, checkpoints) = DOMAIN queue
           /\ \A i \in DOMAIN queue : /\ Reopened(queue, checkpoints)[i].id = queue[i].id
                                      /\ Reopened(queue, checkpoints)[i].key = queue[i].key
                                      /\ Reopened(queue, checkpoints)[i].delivery_count = 0
                                      /\ Reopened(queue, checkpoints)[i].checkpoint
                                           \in {0, checkpoints[queue[i].id]}
<1> DEFINE r == Reopened(queue, checkpoints)
<1>1. \A i \in DOMAIN queue : queue[i].id \in Ids /\ queue[i].key \in Keys \cup {None}
  <2>1. \A i \in DOMAIN queue : queue[i] \in WalEnqueue
    OBVIOUS
  <2> QED BY <2>1 DEF WalEnqueue
<1>2. DOMAIN r = DOMAIN queue
  BY DEF Reopened
<1>3. ASSUME NEW i \in DOMAIN queue
      PROVE  /\ r[i] \in Entry /\ r[i].id = queue[i].id /\ r[i].key = queue[i].key
             /\ r[i].delivery_count = 0 /\ r[i].checkpoint \in {0, checkpoints[queue[i].id]}
  <2>1. checkpoints[queue[i].id] \in Nat
    BY <1>1
  <2> QED BY <1>1, <2>1 DEF Reopened, Entry
<1>4. Len(queue) \in Nat /\ DOMAIN queue = 1..Len(queue)
  OBVIOUS
<1>5. r \in [1..Len(queue) -> Entry]
  BY <1>3, <1>4 DEF Reopened
<1> HIDE DEF r
<1>6. r \in Seq(Entry)
  BY <1>4, <1>5
<1> QED BY <1>2, <1>3, <1>6 DEF r

\* What a step does to the torn logs: a failed append can leave a torn frame in
\* one of them, and only a restart cuts them off.
TearMoves == /\ wal_tear' \in {None, wal_tear, ReplayedWal}
             /\ dlq_tear' \in {None, dlq_tear, ReplayedDlq}
             /\ CrashAndOpen \/ UNCHANGED truncated
             /\ UNCHANGED workload

LEMMA TearStep == [Next]_vars => TearMoves
<1> SUFFICES ASSUME [Next]_vars PROVE TearMoves
  OBVIOUS
<1> USE DEF auxVars, tearVars, TearMoves
<1>1. CASE UNCHANGED vars
  BY <1>1 DEF vars
<1>2. ASSUME NEW t \in Tasks, Enqueue(t) PROVE TearMoves
  BY <1>2 DEF Enqueue, EnqueueReserve, EnqueueDuplicate, WriteEnqueueRecord, EnqueueUndo,
     PushPending, WalAppend, Append1
<1>3. ASSUME NEW t \in Tasks, Claim(t) PROVE TearMoves
  BY <1>3 DEF Claim, ReclaimExpired, PopPending, CancelClaim
<1>4. ASSUME NEW t \in Tasks, Settle(t) PROVE TearMoves
  BY <1>4 DEF Settle, AckRelease, AckAppend, NackRelease, WalAppend, Append1
<1>5. ASSUME NEW t \in Tasks, Resolve(t) PROVE TearMoves
  BY <1>5 DEF Resolve, RetryLater, RecordDeadLetter, InsertDeadLetter, AppendDeadLettered,
     WalAppend, DlqAppend, Append1
<1>6. ASSUME NEW t \in Tasks, Checkpoint(t) PROVE TearMoves
  BY <1>6 DEF Checkpoint, CheckpointStart, CheckpointAppend, CheckpointSet, WalAppend, Append1
<1>7. ASSUME NEW t \in Tasks, Triage(t) PROVE TearMoves
  BY <1>7 DEF Triage, AnnotateStart, AnnotateAppend, AnnotateSet, TakeDeadLetter, TakeAppend,
     PurgeRelease, DlqAppend, Append1
<1>8. ASSUME NEW id \in Ids, VisibilityTimeout(id) PROVE TearMoves
  BY <1>8 DEF VisibilityTimeout
<1>9. CASE BackoffElapses
  BY <1>9 DEF BackoffElapses
<1>10. CASE CrashAndOpen
  BY <1>10 DEF CrashAndOpen
<1>11. CASE Rest
  BY <1>11 DEF Rest, vars
<1> QED BY <1>1, <1>2, <1>3, <1>4, <1>5, <1>6, <1>7, <1>8, <1>9, <1>10, <1>11 DEF Next

\* What is remembered of a torn log keeps its type.
LEMMA TearType == ASSUME TypeOK, [Next]_vars PROVE TornLogsOK' /\ UNCHANGED workload
<1>1. TearMoves
  BY TearStep
<1>2. ReplayedWal \in WalState /\ ReplayedDlq \in DlqState
  BY ReplayedType
<1>3. truncated' \subseteq Ids
  BY <1>1 DEF TypeOK, TornLogsOK, TearMoves, CrashAndOpen, Unreplayed
<1> QED BY <1>1, <1>2, <1>3 DEF TypeOK, TornLogsOK, TearMoves

\* Each step of enqueue keeps the types.
LEMMA EnqueueType ==
    ASSUME TypeOK, TornLogsOK', UNCHANGED workload, NEW t \in Tasks, Enqueue(t) PROVE TypeOK'
<1> USE DEF TypeOK, vars, memVars, walVars, cpVars, auxVars
<1>1. CASE EnqueueReserve(t)
  <2>1. PICK id \in Ids, key \in Keys \cup {None} :
          /\ dedup' = Bind(dedup, key, id)
          /\ fate' = [fate EXCEPT ![id] = "inflight"]
          /\ call' = [call EXCEPT ![t] = [Idle EXCEPT !.op = "enqueue",
                                                      !.pc = "enqueue_wal",
                                                      !.entry = NewEntry(id, key)]]
    BY <1>1 DEF EnqueueReserve
  <2>2. NewEntry(id, key) \in Entry
    BY DEF NewEntry, Entry
  <2>3. call' \in [Tasks -> Call]
    <3>1. [Idle EXCEPT !.op = "enqueue", !.pc = "enqueue_wal", !.entry = NewEntry(id, key)]
            \in Call
      BY <2>2, IdleType DEF Idle, Call, Locals, Steps, EntrySteps, GrantSteps, AllOps
    <3> QED BY <2>1, <3>1
  <2>4. dedup' \in [Keys -> Ids \cup {None}] /\ fate' \in [Ids -> Fates]
    BY <2>1, BindType DEF Fates
  <2> QED BY <1>1, <2>3, <2>4 DEF EnqueueReserve
<1>2. CASE EnqueueDuplicate(t)
  <2>1. promised' \subseteq Ids
    BY <1>2 DEF EnqueueDuplicate
  <2> QED BY <1>2, <2>1 DEF EnqueueDuplicate
<1>3. CASE WriteEnqueueRecord(t)
  <2> DEFINE e == call[t].entry
  <2>1. e \in Entry /\ e.id \in Ids /\ e.key \in Keys \cup {None}
    BY <1>3, CallType DEF WriteEnqueueRecord, At, EntrySteps, Entry
  <2>2. PICK r \in AppendResult :
          /\ WalAppend(r)
          /\ IF r.durable THEN ApplyEnqueue(e) ELSE UNCHANGED <<wal_pending, wal_dedup>>
          /\ Goto(t, IF r.ok THEN "enqueue_push" ELSE "enqueue_undo")
          /\ stranded' = IF r.durable /\ ~r.ok THEN stranded \cup {e.id} ELSE stranded
    BY <1>3 DEF WriteEnqueueRecord
  <2>3. wal_pending' \in Seq(WalEnqueue) /\ wal_dedup' \in [Keys -> Ids \cup {None}]
    <3>1. [id |-> e.id, key |-> e.key] \in WalEnqueue
      BY <2>1 DEF WalEnqueue
    <3>2. Bind(wal_dedup, e.key, e.id) \in [Keys -> Ids \cup {None}]
      BY <2>1, BindType
    <3>3. CASE r.durable
      <4>1. ApplyEnqueue(e)
        BY <2>2, <3>3
      <4>2. wal_pending' = Append(wal_pending, [id |-> e.id, key |-> e.key])
        BY <4>1 DEF ApplyEnqueue
      <4>3. wal_dedup' = Bind(wal_dedup, e.key, e.id)
        BY <4>1 DEF ApplyEnqueue
      <4> QED BY <3>1, <3>2, <4>2, <4>3
    <3>4. CASE ~r.durable
      BY <2>2, <3>4
    <3> QED BY <3>3, <3>4
  <2>4. call' \in [Tasks -> Call]
    BY <2>1, <2>2, CallType DEF Steps, EntrySteps, GrantSteps
  <2>5. fate' \in [Ids -> Fates]
    BY <1>3, <2>1 DEF WriteEnqueueRecord, Fates
  <2>6. stranded' \subseteq Ids /\ faults' \in Nat
    BY <2>1, <2>2, AppendType
  <2> QED BY <1>3, <2>3, <2>4, <2>5, <2>6 DEF WriteEnqueueRecord
<1>4. CASE EnqueueUndo(t)
  <2>1. dedup' \in [Keys -> Ids \cup {None}]
    BY <1>4, BindType DEF EnqueueUndo, Release
  <2>2. call' \in [Tasks -> Call]
    BY <1>4, CallType DEF EnqueueUndo
  <2> QED BY <1>4, <2>1, <2>2 DEF EnqueueUndo
<1>5. CASE PushPending(t)
  <2>1. call[t].entry \in Entry
    BY <1>5, CallType DEF PushPending, At, EntrySteps
  <2>2. pending' \in Seq(Entry)
    BY <1>5, <2>1 DEF PushPending
  <2>3. fate' \in [Ids -> Fates]
    BY <1>5, <2>1 DEF PushPending, Entry, Fates
  <2>4. call' \in [Tasks -> Call]
    BY <1>5, CallType DEF PushPending
  <2> QED BY <1>5, <2>2, <2>3, <2>4 DEF PushPending
<1> QED BY <1>1, <1>2, <1>3, <1>4, <1>5 DEF Enqueue

\* One more delivery of a message.
LEMMA DeliverType ==
    ASSUME NEW e \in Entry
    PROVE  LET d == [e EXCEPT !.delivery_count = @ + 1]
           IN d \in Entry /\ d.id = e.id /\ d.id \in Ids
BY DEF Entry

\* Each step of claim keeps the types.
LEMMA ClaimType ==
    ASSUME TypeOK, TornLogsOK', UNCHANGED workload, NEW t \in Tasks, Claim(t) PROVE TypeOK'
<1> USE DEF TypeOK, vars, memVars, walVars, cpVars, auxVars
<1>1. CASE ReclaimExpired(t)
  <2>1. \A id \in Expired : leased[id] \in Lease /\ leased[id].entry \in Entry
    BY DEF Expired, Lease
  <2>2. {leased[id].entry : id \in Expired} \in SUBSET Entry
    BY <2>1
  <2>3. leased' \in [Ids -> Lease \cup {None}]
    BY <1>1 DEF ReclaimExpired, Without
  <2>4. call' \in [Tasks -> Call]
    <3>1. \A pc \in {"pop", "resolve"}, b \in SUBSET Entry :
            [Idle EXCEPT !.op = "claim", !.pc = pc, !.batch = b] \in Call
      BY IdleType, ZenonT(40) DEF Idle, Call, Locals, Steps, EntrySteps, GrantSteps, AllOps
    <3>2. PICK c \in Call : call' = [call EXCEPT ![t] = c]
      BY <1>1, <2>2, <3>1 DEF ReclaimExpired
    <3> QED BY <3>2
  <2> QED BY <1>1, <2>3, <2>4 DEF ReclaimExpired
<1>2. CASE PopPending(t)
  <2>1. PICK ready \in Ascending(ReadyPositions),
             waiting \in Ascending(DOMAIN delayed \ ReadyPositions) :
          LET queue == pending \o Promoted(ready)
              entry == [Head(queue) EXCEPT !.delivery_count = @ + 1]
          IN /\ delayed' = StillDelayed(waiting)
             /\ \/ /\ queue = <<>>
                   /\ pending' = queue
                   /\ Goto(t, "blocked")
                   /\ UNCHANGED <<leased, next_lease_token, grants>>
                \/ /\ queue # <<>>
                   /\ pending' = Tail(queue)
                   /\ leased' = [leased EXCEPT ![entry.id] = NewLease(entry)]
                   /\ next_lease_token' = next_lease_token + 1
                   /\ grants' = grants \cup {[id |-> entry.id,
                                              token |-> NewLease(entry).token,
                                              epoch |-> epoch]}
                   /\ Return(t)
    BY <1>2 DEF PopPending
  <2> DEFINE queue == pending \o Promoted(ready)
             entry == [Head(queue) EXCEPT !.delivery_count = @ + 1]
  <2>2. ReadyPositions \subseteq DOMAIN delayed
    BY DEF ReadyPositions
  <2>3. Promoted(ready) \in Seq(Entry) /\ delayed' \in Seq(Delayed)
    BY <2>1, <2>2, PromoteType
  <2>4. queue \in Seq(Entry)
    BY <2>3
  <2>5. CASE queue = <<>>
    <3>1. call' \in [Tasks -> Call]
      BY <2>1, <2>5, CallType DEF Steps, EntrySteps, GrantSteps
    <3> QED BY <1>2, <2>1, <2>3, <2>4, <2>5, <3>1 DEF PopPending
  <2>6. CASE queue # <<>>
    <3>1. Head(queue) \in Entry /\ Tail(queue) \in Seq(Entry)
      BY <2>4, <2>6
    <3>2. entry \in Entry /\ entry.id \in Ids
      BY <3>1, DeliverType
    <3>3. NewLease(entry) \in Lease /\ NewLease(entry).token = next_lease_token
      BY <3>2 DEF NewLease, Lease
    <3> DEFINE g == [id |-> entry.id, token |-> NewLease(entry).token, epoch |-> epoch]
    <3>a. /\ pending' = Tail(queue)
          /\ leased' = [leased EXCEPT ![entry.id] = NewLease(entry)]
          /\ next_lease_token' = next_lease_token + 1
          /\ grants' = grants \cup {g}
          /\ Return(t)
      BY <2>1, <2>6
    <3>b. g \in Grant
      BY <3>2, <3>3 DEF Grant
    <3> HIDE DEF entry, queue, g
    <3>4. pending' \in Seq(Entry) /\ next_lease_token' \in Nat
      BY <3>1, <3>a
    <3>5. leased' \in [Ids -> Lease \cup {None}] /\ grants' \subseteq Grant
      BY <3>2, <3>3, <3>a, <3>b
    <3>6. call' \in [Tasks -> Call]
      BY <3>a, CallType
    <3> QED BY <1>2, <2>3, <3>4, <3>5, <3>6 DEF PopPending
  <2> QED BY <2>5, <2>6
<1>3. CASE CancelClaim(t)
  <2>1. call' \in [Tasks -> Call]
    BY <1>3, CallType DEF CancelClaim
  <2>2. {e.id : e \in call[t].batch} \subseteq Ids
    BY CallType DEF Entry
  <2>3. call[t].pc \in {"dlq_insert", "dead_lettered"} => call[t].entry.id \in Ids
    BY CallType DEF EntrySteps, Entry
  <2>4. stranded' \subseteq Ids /\ torn' \subseteq Ids /\ cancels' \in Nat
    BY <1>3, <2>2, <2>3 DEF CancelClaim, At
  <2> QED BY <1>3, <2>1, <2>4 DEF CancelClaim
<1> QED BY <1>1, <1>2, <1>3 DEF Claim

\* Each step of ack and nack keeps the types.
LEMMA SettleType ==
    ASSUME TypeOK, TornLogsOK', UNCHANGED workload, NEW t \in Tasks, Settle(t) PROVE TypeOK'
<1> USE DEF TypeOK, vars, memVars, walVars, cpVars, auxVars
<1>1. CASE AckRelease(t)
  <2>1. PICK g \in grants :
          /\ Holds(g)
          /\ leased' = [leased EXCEPT ![g.id] = None]
          /\ dedup' = Release(dedup, leased[g.id].entry.key)
          /\ call' = [call EXCEPT ![t] = [Idle EXCEPT !.op = "ack", !.pc = "ack_wal",
                                                      !.grant = g]]
    BY <1>1 DEF AckRelease
  <2>2. g \in Grant
    OBVIOUS
  <2>3. call' \in [Tasks -> Call]
    <3>1. [Idle EXCEPT !.op = "ack", !.pc = "ack_wal", !.grant = g] \in Call
      BY <2>2, IdleType DEF Idle, Call, Locals, Steps, EntrySteps, GrantSteps, AllOps
    <3> QED BY <2>1, <3>1
  <2>4. leased' \in [Ids -> Lease \cup {None}]
    BY <2>1
  <2>5. dedup' \in [Keys -> Ids \cup {None}]
    BY <2>1, BindType DEF Release
  <2> QED BY <1>1, <2>3, <2>4, <2>5 DEF AckRelease
<1>2. CASE AckAppend(t)
  <2> DEFINE id == call[t].grant.id
  <2>1. id \in Ids
    BY <1>2, CallType DEF AckAppend, At, GrantSteps, Grant
  <2>2. PICK r \in AppendResult :
          /\ WalAppend(r)
          /\ IF r.durable THEN ApplyAck(id) ELSE UNCHANGED <<wal_pending, wal_dedup>>
          /\ fate' = [fate EXCEPT ![id] = IF r.durable THEN "done" ELSE @]
          /\ stranded' = IF r.durable THEN stranded ELSE stranded \cup {id}
    BY <1>2 DEF AckAppend
  <2> HIDE DEF id
  <2>3. wal_pending' \in Seq(WalEnqueue) /\ wal_dedup' \in [Keys -> Ids \cup {None}]
    <3>1. CASE r.durable
      BY <2>2, <3>1, ApplyRemoveType
    <3>2. CASE ~r.durable
      BY <2>2, <3>2
    <3> QED BY <3>1, <3>2
  <2>4. call' \in [Tasks -> Call]
    BY <1>2, CallType DEF AckAppend
  <2>5. fate' \in [Ids -> Fates] /\ stranded' \subseteq Ids /\ faults' \in Nat
    BY <2>1, <2>2, AppendType DEF Fates
  <2> QED BY <1>2, <2>3, <2>4, <2>5 DEF AckAppend
<1>3. CASE NackRelease(t)
  <2>1. PICK g \in grants :
          /\ Holds(g)
          /\ leased' = [leased EXCEPT ![g.id] = None]
          /\ call' = [call EXCEPT ![t] = [Idle EXCEPT !.op = "nack", !.pc = "resolve",
                                                      !.grant = g,
                                                      !.batch = {leased[g.id].entry}]]
    BY <1>3 DEF NackRelease
  <2>2. g \in Grant /\ g.id \in Ids
    BY DEF Grant
  <2>3. {leased[g.id].entry} \in SUBSET Entry
    BY <2>1, <2>2 DEF Holds, Lease
  <2>4. call' \in [Tasks -> Call]
    <3>1. [Idle EXCEPT !.op = "nack", !.pc = "resolve", !.grant = g,
                       !.batch = {leased[g.id].entry}] \in Call
      BY <2>2, <2>3, IdleType DEF Idle, Call, Locals, Steps, EntrySteps, GrantSteps, AllOps
    <3> QED BY <2>1, <3>1
  <2>5. leased' \in [Ids -> Lease \cup {None}]
    BY <2>1
  <2> QED BY <1>3, <2>4, <2>5 DEF NackRelease
<1> QED BY <1>1, <1>2, <1>3 DEF Settle

\* Each step of resolve_failed_delivery keeps the types.
LEMMA ResolveType ==
    ASSUME TypeOK, TornLogsOK', UNCHANGED workload, NEW t \in Tasks, Resolve(t) PROVE TypeOK'
<1> USE DEF TypeOK, vars, memVars, walVars, cpVars, auxVars
<1>1. CASE RetryLater(t)
  <2>1. PICK e \in call[t].batch :
          /\ delayed' = Append(delayed, [entry |-> e, ready |-> FALSE])
          /\ Resolved(t, call[t].batch \ {e})
    BY <1>1 DEF RetryLater
  <2>2. e \in Entry /\ call[t].batch \ {e} \in SUBSET Entry
    BY CallType
  <2>3. [entry |-> e, ready |-> FALSE] \in Delayed
    BY <2>2 DEF Delayed
  <2>4. delayed' \in Seq(Delayed)
    BY <2>1, <2>3
  <2>5. call' \in [Tasks -> Call]
    BY <2>1, <2>2, CallType
  <2> QED BY <1>1, <2>4, <2>5 DEF RetryLater
<1>2. CASE RecordDeadLetter(t)
  <2>1. PICK e \in call[t].batch, r \in AppendResult :
          /\ DlqAppend(r)
          /\ dlq_wal' = IF r.durable
                        THEN [dlq_wal EXCEPT ![e.id] = [entry |-> e, triage |-> None]]
                        ELSE dlq_wal
          /\ IF r.ok
             THEN /\ call' = [call EXCEPT ![t].pc = "dlq_insert", ![t].entry = e,
                                          ![t].batch = @ \ {e}]
                  /\ UNCHANGED <<stranded, torn>>
             ELSE /\ Resolved(t, call[t].batch \ {e})
                  /\ stranded' = stranded \cup {e.id}
                  /\ torn' = IF r.durable THEN torn \cup {e.id} ELSE torn
    BY <1>2 DEF RecordDeadLetter
  <2>2. e \in Entry /\ e.id \in Ids /\ call[t].batch \ {e} \in SUBSET Entry
    BY CallType DEF Entry
  <2>3. [entry |-> e, triage |-> None] \in DeadLetter
    BY <2>2 DEF DeadLetter
  <2>4. dlq_wal' \in [Ids -> DeadLetter \cup {None}]
    BY <2>1, <2>2, <2>3
  <2>5. call' \in [Tasks -> Call]
    <3>1. CASE r.ok
      <4>1. call[t] \in Call
        BY CallType
      <4>2. [call[t] EXCEPT !.pc = "dlq_insert", !.entry = e, !.batch = @ \ {e}] \in Call
        BY <2>2, <4>1 DEF Call, Locals, Steps, EntrySteps, GrantSteps
      <4>3. call' = [call EXCEPT ![t] = [call[t] EXCEPT !.pc = "dlq_insert", !.entry = e,
                                                        !.batch = @ \ {e}]]
        BY <2>1, <3>1, <4>1 DEF Call, Locals
      <4> QED BY <4>2, <4>3
    <3>2. CASE ~r.ok
      BY <2>1, <2>2, <3>2, CallType
    <3> QED BY <3>1, <3>2
  <2>6. stranded' \subseteq Ids /\ torn' \subseteq Ids
    BY <2>1, <2>2
  <2>7. faults' \in Nat
    BY <2>1, AppendType
  <2> QED BY <1>2, <2>4, <2>5, <2>6, <2>7 DEF RecordDeadLetter
<1>3. CASE InsertDeadLetter(t)
  <2>1. call[t].entry \in Entry /\ call[t].entry.id \in Ids
    BY <1>3, CallType DEF InsertDeadLetter, At, EntrySteps, Entry
  <2>2. [entry |-> call[t].entry, triage |-> None] \in DeadLetter
    BY <2>1 DEF DeadLetter
  <2>3. dlq' \in [Ids -> DeadLetter \cup {None}]
    BY <1>3, <2>1, <2>2 DEF InsertDeadLetter
  <2>4. call' \in [Tasks -> Call]
    BY <1>3, <2>1, CallType DEF InsertDeadLetter, Steps, EntrySteps, GrantSteps
  <2> QED BY <1>3, <2>3, <2>4 DEF InsertDeadLetter
<1>4. CASE AppendDeadLettered(t)
  <2> DEFINE id == call[t].entry.id
  <2>1. id \in Ids
    BY <1>4, CallType DEF AppendDeadLettered, At, EntrySteps, Entry
  <2>2. PICK r \in AppendResult :
          /\ WalAppend(r)
          /\ IF r.durable THEN ApplyDeadLettered(id) ELSE UNCHANGED wal_pending
          /\ torn' = IF r.durable THEN torn ELSE torn \cup {id}
    BY <1>4 DEF AppendDeadLettered
  <2> HIDE DEF id
  <2>3. wal_pending' \in Seq(WalEnqueue)
    BY <2>2, ApplyRemoveType
  <2>4. torn' \subseteq Ids /\ faults' \in Nat
    BY <2>1, <2>2, AppendType
  <2>5. call' \in [Tasks -> Call]
    BY <1>4, CallType DEF AppendDeadLettered
  <2> QED BY <1>4, <2>3, <2>4, <2>5 DEF AppendDeadLettered
<1> QED BY <1>1, <1>2, <1>3, <1>4 DEF Resolve

\* Storing a checkpoint in an entry keeps it an entry.
LEMMA CheckpointedType ==
    ASSUME NEW e \in Entry, NEW v \in Nat PROVE [e EXCEPT !.checkpoint = v] \in Entry
BY DEF Entry

\* Each step of checkpoint keeps the types.
LEMMA CheckpointType ==
    ASSUME TypeOK, TornLogsOK', UNCHANGED workload, NEW t \in Tasks, Checkpoint(t) PROVE TypeOK'
<1> USE DEF TypeOK, vars, memVars, walVars, cpVars, auxVars
<1>1. CASE CheckpointStart(t)
  <2>1. PICK g \in grants :
          /\ Holds(g)
          /\ call' = [call EXCEPT ![t] =
                        [Idle EXCEPT !.op = "checkpoint", !.pc = "checkpoint_wal",
                                     !.grant = g,
                                     !.entry = [leased[g.id].entry EXCEPT
                                                  !.checkpoint = saves + 1]]]
    BY <1>1 DEF CheckpointStart
  <2>2. g \in Grant /\ g.id \in Ids
    BY DEF Grant
  <2>3. leased[g.id].entry \in Entry
    BY <2>1, <2>2 DEF Holds, Lease
  <2>4. [leased[g.id].entry EXCEPT !.checkpoint = saves + 1] \in Entry
    <3>1. saves + 1 \in Nat
      OBVIOUS
    <3> QED BY <2>3, <3>1, CheckpointedType
  <2>5. call' \in [Tasks -> Call]
    BY <2>1, <2>2, <2>4, IdleType DEF Call, Locals, Steps, EntrySteps, GrantSteps, AllOps
  <2> QED BY <1>1, <2>5 DEF CheckpointStart
<1>2. CASE CheckpointAppend(t)
  <2>1. call[t].entry.checkpoint \in Nat /\ call[t].grant.id \in Ids
    BY <1>2, CallType DEF CheckpointAppend, At, EntrySteps, GrantSteps, Entry, Grant
  <2>2. PICK r \in AppendResult :
          /\ WalAppend(r)
          /\ wal_checkpoints' =
               IF r.durable
               THEN [wal_checkpoints EXCEPT ![call[t].grant.id] = call[t].entry.checkpoint]
               ELSE wal_checkpoints
          /\ IF r.ok THEN Goto(t, "checkpoint_set") ELSE Return(t)
    BY <1>2 DEF CheckpointAppend
  <2>3. wal_checkpoints' \in [Ids -> Nat] /\ faults' \in Nat
    BY <2>1, <2>2, AppendType
  <2>4. call' \in [Tasks -> Call]
    <3>1. call[t].entry \in Entry /\ call[t].grant \in Grant
      BY <1>2, CallType DEF CheckpointAppend, At, EntrySteps, GrantSteps
    <3> QED BY <2>2, <3>1, CallType DEF Steps
  <2>5. raced' \subseteq Ids
    BY <1>2, <2>1 DEF CheckpointAppend
  <2> QED BY <1>2, <2>3, <2>4, <2>5 DEF CheckpointAppend
<1>3. CASE CheckpointSet(t)
  <2> DEFINE id == call[t].grant.id
             v == call[t].entry.checkpoint
  <2>1. v \in Nat /\ id \in Ids
    BY <1>3, CallType DEF CheckpointSet, At, EntrySteps, GrantSteps, Entry, Grant
  <2>2. call' \in [Tasks -> Call]
    BY <1>3, CallType DEF CheckpointSet
  <2>3. leased' \in [Ids -> Lease \cup {None}] /\ saved' \in [Ids -> Nat]
    <3>1. CASE Holds(call[t].grant)
      <4>1. leased[id] \in Lease
        BY <2>1, <3>1 DEF Holds
      <4>2. [leased[id].entry EXCEPT !.checkpoint = v] \in Entry
        BY <2>1, <4>1 DEF Lease, Entry
      <4>3. [leased[id] EXCEPT !.entry.checkpoint = v] \in Lease
        BY <2>1, <4>1, <4>2 DEF Lease
      <4>4. /\ leased' = [leased EXCEPT ![id] = [leased[id] EXCEPT !.entry.checkpoint = v]]
            /\ saved' = [saved EXCEPT ![id] = v]
        BY <1>3, <3>1 DEF CheckpointSet
      <4> HIDE DEF id, v
      <4> QED BY <2>1, <4>3, <4>4
    <3>2. CASE ~Holds(call[t].grant)
      BY <1>3, <3>2 DEF CheckpointSet
    <3> QED BY <3>1, <3>2
  <2> QED BY <1>3, <2>2, <2>3 DEF CheckpointSet
<1> QED BY <1>1, <1>2, <1>3 DEF Checkpoint

\* Attaching a verdict keeps a map of dead letters well typed.
LEMMA AnnotatedType ==
    ASSUME NEW map \in [Ids -> DeadLetter \cup {None}], NEW id \in Ids,
           NEW v \in Verdicts \cup {None}
    PROVE  Annotated(map, id, v) \in [Ids -> DeadLetter \cup {None}]
<1>1. CASE map[id] = None
  BY <1>1 DEF Annotated
<1>2. CASE map[id] # None
  <2>1. [map[id] EXCEPT !.triage = v] \in DeadLetter
    BY <1>2 DEF DeadLetter
  <2> QED BY <1>2, <2>1 DEF Annotated
<1> QED BY <1>1, <1>2

\* Each step of annotate, reprocess and purge keeps the types.
LEMMA TriageType ==
    ASSUME TypeOK, TornLogsOK', UNCHANGED workload, NEW t \in Tasks, Triage(t) PROVE TypeOK'
<1> USE DEF TypeOK, vars, memVars, walVars, cpVars, auxVars
<1>1. CASE AnnotateStart(t)
  <2>1. PICK id \in Ids, v \in Verdicts :
          /\ dlq[id] # None
          /\ call' = [call EXCEPT ![t] =
                        [Idle EXCEPT !.op = "annotate", !.pc = "annotate_wal",
                                     !.entry = dlq[id].entry, !.verdict = v]]
    BY <1>1 DEF AnnotateStart
  <2>2. dlq[id].entry \in Entry
    BY <2>1 DEF DeadLetter
  <2>3. [Idle EXCEPT !.op = "annotate", !.pc = "annotate_wal",
                     !.entry = dlq[id].entry, !.verdict = v] \in Call
    BY <2>2, IdleType DEF Idle, Call, Locals, Steps, EntrySteps, GrantSteps, AllOps
  <2>4. call' \in [Tasks -> Call]
    BY <2>1, <2>3
  <2> QED BY <1>1, <2>4 DEF AnnotateStart
<1>2. CASE AnnotateAppend(t)
  <2>1. /\ call[t].entry \in Entry /\ call[t].entry.id \in Ids
        /\ call[t].verdict \in Verdicts \cup {None}
    BY <1>2, CallType DEF AnnotateAppend, At, EntrySteps, Entry, Call, Locals
  <2>2. PICK r \in AppendResult :
          /\ DlqAppend(r)
          /\ dlq_wal' = IF r.durable
                        THEN Annotated(dlq_wal, call[t].entry.id, call[t].verdict)
                        ELSE dlq_wal
          /\ IF r.ok THEN Goto(t, "annotate_set") ELSE Return(t)
    BY <1>2 DEF AnnotateAppend
  <2>3. dlq_wal' \in [Ids -> DeadLetter \cup {None}] /\ faults' \in Nat
    BY <2>1, <2>2, AnnotatedType, AppendType
  <2>4. call' \in [Tasks -> Call]
    BY <2>1, <2>2, CallType DEF Steps, GrantSteps
  <2> QED BY <1>2, <2>3, <2>4 DEF AnnotateAppend
<1>3. CASE AnnotateSet(t)
  <2>1. call[t].entry.id \in Ids /\ call[t].verdict \in Verdicts \cup {None}
    BY <1>3, CallType DEF AnnotateSet, At, EntrySteps, Entry, Call, Locals
  <2>2. dlq' \in [Ids -> DeadLetter \cup {None}]
    BY <1>3, <2>1, AnnotatedType DEF AnnotateSet
  <2>3. call' \in [Tasks -> Call]
    BY <1>3, CallType DEF AnnotateSet
  <2> QED BY <1>3, <2>2, <2>3 DEF AnnotateSet
<1>4. CASE TakeDeadLetter(t)
  <2>1. PICK id \in Ids, o \in {"reprocess", "purge"} :
          /\ dlq[id] # None
          /\ dlq' = [dlq EXCEPT ![id] = None]
          /\ call' = [call EXCEPT ![t] = [Idle EXCEPT !.op = o, !.pc = "take_wal",
                                                      !.entry = dlq[id].entry]]
    BY <1>4 DEF TakeDeadLetter
  <2>2. dlq[id].entry \in Entry
    BY <2>1 DEF DeadLetter
  <2>3. call' \in [Tasks -> Call]
    <3>1. [Idle EXCEPT !.op = o, !.pc = "take_wal", !.entry = dlq[id].entry] \in Call
      BY <2>1, <2>2, IdleType DEF Idle, Call, Locals, Steps, EntrySteps, GrantSteps, AllOps
    <3> QED BY <2>1, <3>1
  <2>4. dlq' \in [Ids -> DeadLetter \cup {None}]
    BY <2>1
  <2> QED BY <1>4, <2>3, <2>4 DEF TakeDeadLetter
<1>5. CASE TakeAppend(t)
  <2> DEFINE id == call[t].entry.id
             key == call[t].entry.key
             c == IF call[t].op = "purge" THEN [call[t] EXCEPT !.pc = "purge_release"]
                  ELSE [call[t] EXCEPT !.pc = "enqueue_wal", !.entry = NewEntry(id, key)]
  <2>1. call[t] \in Call /\ call[t].entry \in Entry /\ id \in Ids /\ key \in Keys \cup {None}
    BY <1>5, CallType DEF TakeAppend, At, EntrySteps, Entry
  <2>2. PICK r \in AppendResult :
          /\ DlqAppend(r)
          /\ dlq_wal' = IF r.durable THEN [dlq_wal EXCEPT ![id] = None] ELSE dlq_wal
          /\ IF ~r.ok \/ (call[t].op = "purge" /\ key = None)
             THEN Return(t) ELSE call' = [call EXCEPT ![t] = c]
          /\ fate' = [fate EXCEPT ![id] =
                        IF r.durable /\ call[t].op = "purge" THEN "done"
                        ELSE IF r.durable /\ ~r.ok THEN "dropped" ELSE @]
          /\ stranded' = IF r.ok THEN stranded ELSE stranded \cup {id}
          /\ saved' = IF r.ok /\ call[t].op = "reprocess" THEN [saved EXCEPT ![id] = 0]
                                                           ELSE saved
    BY <1>5 DEF TakeAppend
  <2>3. NewEntry(id, key) \in Entry
    BY <2>1 DEF NewEntry, Entry
  <2>4. c \in Call
    BY <2>1, <2>3 DEF Call, Locals, Steps, EntrySteps, GrantSteps
  <2> HIDE DEF c, id, key
  <2>5. call' \in [Tasks -> Call]
    BY <2>2, <2>4, CallType
  <2>6. dlq_wal' \in [Ids -> DeadLetter \cup {None}]
    BY <2>1, <2>2
  <2>7. fate' \in [Ids -> Fates] /\ stranded' \subseteq Ids /\ faults' \in Nat
    BY <2>1, <2>2, AppendType DEF Fates
  <2>8. saved' \in [Ids -> Nat]
    BY <2>1, <2>2
  <2>9. UNCHANGED <<memVars, dlq, walVars, grants, promised, torn, raced, saves, epoch,
                    cancels, workload>>
    BY <1>5 DEF TakeAppend
  <2> QED BY <2>5, <2>6, <2>7, <2>8, <2>9
<1>6. CASE PurgeRelease(t)
  <2>1. call[t].entry.id \in Ids
    BY <1>6, CallType DEF PurgeRelease, At, EntrySteps, Entry
  <2>2. dedup' \in [Keys -> Ids \cup {None}]
    BY <1>6, BindType DEF PurgeRelease, Release
  <2>3. call' \in [Tasks -> Call]
    BY <1>6, CallType DEF PurgeRelease
  <2>4. fate' \in [Ids -> Fates]
    BY <1>6, <2>1 DEF PurgeRelease, Fates
  <2> QED BY <1>6, <2>2, <2>3, <2>4 DEF PurgeRelease
<1> QED BY <1>1, <1>2, <1>3, <1>4, <1>5, <1>6 DEF Triage

\* The passage of time and a restart keep the types.
LEMMA EnvironmentType ==
    ASSUME TypeOK, TornLogsOK', UNCHANGED workload
    PROVE  /\ \A id \in Ids : VisibilityTimeout(id) => TypeOK'
           /\ BackoffElapses => TypeOK'
           /\ CrashAndOpen => TypeOK'
<1> USE DEF TypeOK, vars, memVars, walVars, cpVars, auxVars
<1>1. ASSUME NEW id \in Ids, VisibilityTimeout(id) PROVE TypeOK'
  <2>1. leased[id] \in Lease /\ leased' = [leased EXCEPT ![id].expired = TRUE]
    BY <1>1 DEF VisibilityTimeout
  <2>2. [leased[id] EXCEPT !.expired = TRUE] \in Lease
    BY <2>1 DEF Lease
  <2>3. leased' \in [Ids -> Lease \cup {None}]
    BY <1>1, <2>1, <2>2
  <2> QED BY <1>1, <2>3 DEF VisibilityTimeout
<1>2. ASSUME BackoffElapses PROVE TypeOK'
  <2>1. PICK i \in DOMAIN delayed : delayed' = [delayed EXCEPT ![i].ready = TRUE]
    BY <1>2 DEF BackoffElapses
  <2>2. delayed[i] \in Delayed
    BY <1>2
  <2>a. \A d \in Delayed : [d EXCEPT !.ready = TRUE] \in Delayed
    BY DEF Delayed
  <2>3. delayed' \in Seq(Delayed)
    BY <1>2, <2>a, <2>1, <2>2
  <2> QED BY <1>2, <2>3 DEF BackoffElapses
<1>3. ASSUME CrashAndOpen PROVE TypeOK'
  <2>1. /\ ReplayedWal.pending \in Seq(WalEnqueue)
        /\ ReplayedWal.dedup \in [Keys -> Ids \cup {None}]
        /\ ReplayedWal.checkpoints \in [Ids -> Nat]
        /\ ReplayedDlq \in [Ids -> DeadLetter \cup {None}]
    BY ReplayedType DEF WalState, DlqState
  <2>2. pending' \in Seq(Entry)
    BY <1>3, <2>1, ReopenedType DEF CrashAndOpen
  <2>3. /\ leased' \in [Ids -> Lease \cup {None}] /\ delayed' \in Seq(Delayed)
        /\ dlq' \in [Ids -> DeadLetter \cup {None}] /\ next_lease_token' \in Nat
        /\ dedup' \in [Keys -> Ids \cup {None}] /\ grants' \subseteq Grant
        /\ epoch' \in Nat
    BY <1>3, <2>1 DEF CrashAndOpen
  <2>a. /\ wal_pending' \in Seq(WalEnqueue) /\ wal_dedup' \in [Keys -> Ids \cup {None}]
        /\ wal_checkpoints' \in [Ids -> Nat] /\ dlq_wal' \in [Ids -> DeadLetter \cup {None}]
    BY <1>3, <2>1 DEF CrashAndOpen
  <2>4. call' \in [Tasks -> Call]
    BY <1>3, IdleType DEF CrashAndOpen
  <2>5. fate' \in [Ids -> Fates]
    BY <1>3 DEF CrashAndOpen, Fates
  <2>6. \A t \in Tasks : call[t].pc \in {"dlq_insert", "dead_lettered"}
                           => call[t].entry.id \in Ids
    BY <1>3, CallType DEF EntrySteps, Entry
  <2>7. torn' \subseteq Ids /\ stranded' \subseteq Ids
    BY <1>3, <2>6 DEF CrashAndOpen, Unreplayed
  <2> QED BY <1>3, <2>2, <2>3, <2>a, <2>4, <2>5, <2>7 DEF CrashAndOpen
<1> QED BY <1>1, <1>2, <1>3

\* Every step keeps the types.
LEMMA TypeStep == TypeOK /\ [Next]_vars => TypeOK'
<1> SUFFICES ASSUME TypeOK, [Next]_vars PROVE TypeOK'
  OBVIOUS
<1>1. TornLogsOK' /\ UNCHANGED workload
  BY TearType
<1>2. CASE UNCHANGED vars
  BY <1>1, <1>2 DEF TypeOK, vars, memVars, walVars, cpVars, auxVars
<1>3. CASE Next
  BY <1>1, <1>2, <1>3, EnqueueType, ClaimType, SettleType, ResolveType, CheckpointType,
     TriageType, EnvironmentType DEF Next, Rest
<1> QED BY <1>2, <1>3

\* consumer_group.rs State, dead_letter.rs entries and the locals of every call in
\* progress: each variable keeps its type, and every call holds, at each of its
\* awaits, the message or grant its next step needs.
THEOREM TypeCorrect == Spec => []TypeOK
<1>1. Init => TypeOK
  BY IdleType DEF Init, TypeOK, TornLogsOK, Fates
<1> QED BY <1>1, TypeStep, PTL DEF Spec

-----------------------------------------------------------------------------
(* Lease tokens.  That two grants of one process never share a token is not *)
(* inductive: it also takes that every token granted so far is below the    *)
(* counter, and no grant is from a later process.                           *)

TokensBelowCounter ==
    \A g \in grants : g.epoch <= epoch /\ (g.epoch = epoch => g.token < next_lease_token)

TokenInv == TypeOK /\ TokensBelowCounter /\ TokensNameDeliveries

\* What every step but a claim's and a restart does to the leases.
LeasesKept ==
    /\ UNCHANGED <<grants, epoch, next_lease_token>>
    /\ \A id \in Ids : leased'[id] # None =>
         leased[id] # None /\ leased'[id].token = leased[id].token

\* Leases that end, expire or change their checkpoint keep the invariant.
LEMMA KeepTokens ==
    TokenInv /\ LeasesKept /\ TypeOK' => TokenInv'
BY DEF TokenInv, LeasesKept, TokensBelowCounter, TokensNameDeliveries

\* A delivery takes the next token.
LEMMA PopTokens ==
    ASSUME TokenInv, TypeOK', NEW t \in Tasks, PopPending(t) PROVE TokenInv'
<1>1. /\ epoch' = epoch /\ epoch \in Nat /\ next_lease_token \in Nat
      /\ leased \in [Ids -> Lease \cup {None}] /\ grants \subseteq Grant
  BY DEF PopPending, TokenInv, TypeOK
<1>2. \/ UNCHANGED <<leased, next_lease_token, grants>>
      \/ \E entry :
           /\ leased' = [leased EXCEPT ![entry.id] = NewLease(entry)]
           /\ next_lease_token' = next_lease_token + 1
           /\ grants' = grants \cup {[id |-> entry.id, token |-> NewLease(entry).token,
                                      epoch |-> epoch]}
  BY DEF PopPending
<1>3. CASE UNCHANGED <<leased, next_lease_token, grants>>
  BY <1>1, <1>3, KeepTokens DEF LeasesKept
<1>4. ASSUME NEW entry,
             leased' = [leased EXCEPT ![entry.id] = NewLease(entry)],
             next_lease_token' = next_lease_token + 1,
             grants' = grants \cup {[id |-> entry.id, token |-> NewLease(entry).token,
                                     epoch |-> epoch]}
      PROVE  TokenInv'
  <2> DEFINE new == [id |-> entry.id, token |-> next_lease_token, epoch |-> epoch]
  <2>1. grants' = grants \cup {new}
    BY <1>4 DEF NewLease
  <2>2. \A g \in grants : g.epoch \in Nat /\ g.token \in Nat
    BY <1>1 DEF Grant
  <2>3. TokensBelowCounter'
    BY <1>1, <1>4, <2>1, <2>2 DEF TokensBelowCounter, TokenInv
  <2>4. \A g, h \in grants' : g.epoch = h.epoch /\ g.token = h.token => g = h
    BY <1>1, <2>1, <2>2 DEF TokensBelowCounter, TokenInv, TokensNameDeliveries
  <2>5. ASSUME NEW id \in Ids, leased'[id] # None
        PROVE  [id |-> id, token |-> leased'[id].token, epoch |-> epoch'] \in grants'
    <3>1. CASE id = entry.id
      BY <1>1, <1>4, <2>1, <3>1 DEF NewLease
    <3>2. CASE id # entry.id
      BY <1>1, <1>4, <2>1, <2>5, <3>2 DEF TokenInv, TokensNameDeliveries
    <3> QED BY <3>1, <3>2
  <2> QED BY <2>3, <2>4, <2>5 DEF TokenInv, TokensNameDeliveries
<1> QED BY <1>2, <1>3, <1>4

\* A restart starts the counter over, in a new epoch with no leases.
LEMMA CrashTokens ==
    ASSUME TokenInv, TypeOK', CrashAndOpen PROVE TokenInv'
<1>1. /\ epoch' = epoch + 1 /\ next_lease_token' = 0 /\ grants' \subseteq grants
      /\ \A id \in Ids : leased'[id] = None
  BY DEF CrashAndOpen
<1>2. epoch \in Nat /\ \A g \in grants : g.epoch \in Nat
  BY DEF TokenInv, TypeOK, Grant
<1>3. TokensBelowCounter'
  BY <1>1, <1>2 DEF TokensBelowCounter, TokenInv
<1>4. TokensNameDeliveries'
  BY <1>1 DEF TokensNameDeliveries, TokenInv
<1> QED BY <1>3, <1>4 DEF TokenInv

\* Every step keeps the token invariant.
LEMMA TokenStep == TokenInv /\ [Next]_vars => TokenInv'
<1> SUFFICES ASSUME TokenInv, [Next]_vars PROVE TokenInv'
  OBVIOUS
<1> USE DEF vars, memVars, walVars, cpVars, auxVars
<1>1. TypeOK /\ TypeOK'
  BY TypeStep DEF TokenInv
<1>2. leased \in [Ids -> Lease \cup {None}] /\ grants \subseteq Grant
      /\ call \in [Tasks -> Call]
  BY <1>1 DEF TypeOK
<1>3. CASE UNCHANGED vars
  BY <1>1, <1>3, KeepTokens DEF LeasesKept
<1>4. ASSUME NEW t \in Tasks, Enqueue(t) PROVE TokenInv'
  <2>1. LeasesKept
    BY <1>4 DEF Enqueue, EnqueueReserve, EnqueueDuplicate, WriteEnqueueRecord,
       EnqueueUndo, PushPending, LeasesKept
  <2> QED BY <1>1, <2>1, KeepTokens
<1>5. ASSUME NEW t \in Tasks, Claim(t) PROVE TokenInv'
  <2>1. CASE ReclaimExpired(t)
    <3>1. LeasesKept
      BY <2>1 DEF ReclaimExpired, Without, LeasesKept
    <3> QED BY <1>1, <3>1, KeepTokens
  <2>2. CASE CancelClaim(t)
    <3>1. LeasesKept
      BY <2>2 DEF CancelClaim, LeasesKept
    <3> QED BY <1>1, <3>1, KeepTokens
  <2> QED BY <1>1, <1>5, <2>1, <2>2, PopTokens DEF Claim
<1>6. ASSUME NEW t \in Tasks, Settle(t) PROVE TokenInv'
  <2>1. UNCHANGED <<grants, epoch, next_lease_token>>
    BY <1>6 DEF Settle, AckRelease, AckAppend, NackRelease
  <2>2. \/ leased' = leased
        \/ \E id \in Ids : leased' = [leased EXCEPT ![id] = None]
    BY <1>2, <1>6 DEF Settle, AckRelease, AckAppend, NackRelease, Grant
  <2>3. LeasesKept
    BY <1>2, <2>1, <2>2 DEF LeasesKept
  <2> QED BY <1>1, <2>3, KeepTokens
<1>7. ASSUME NEW t \in Tasks, Resolve(t) PROVE TokenInv'
  <2>1. LeasesKept
    BY <1>7 DEF Resolve, RetryLater, RecordDeadLetter, InsertDeadLetter,
       AppendDeadLettered, LeasesKept
  <2> QED BY <1>1, <2>1, KeepTokens
<1>8. ASSUME NEW t \in Tasks, Checkpoint(t) PROVE TokenInv'
  <2>1. CASE CheckpointStart(t) \/ CheckpointAppend(t)
    <3>1. LeasesKept
      BY <2>1 DEF CheckpointStart, CheckpointAppend, LeasesKept
    <3> QED BY <1>1, <3>1, KeepTokens
  <2>2. CASE CheckpointSet(t)
    <3> DEFINE g == call[t].grant
    <3>1. g.id \in Ids
      BY <1>1, <2>2, CallType DEF CheckpointSet, At, GrantSteps, Grant
    <3>2. UNCHANGED <<grants, epoch, next_lease_token>>
      BY <2>2 DEF CheckpointSet
    <3> DEFINE new == [leased[g.id] EXCEPT !.entry.checkpoint = call[t].entry.checkpoint]
    <3>3. \/ leased' = leased
          \/ /\ leased[g.id] \in Lease /\ leased[g.id] # None
             /\ leased' = [leased EXCEPT ![g.id] = new]
      BY <1>2, <2>2, <3>1 DEF CheckpointSet, Holds
    <3>4. leased[g.id] \in Lease => new.token = leased[g.id].token
      BY DEF Lease
    <3> HIDE DEF g, new
    <3>5. LeasesKept
      BY <1>2, <3>1, <3>2, <3>3, <3>4 DEF LeasesKept
    <3> QED BY <1>1, <3>5, KeepTokens
  <2> QED BY <1>8, <2>1, <2>2 DEF Checkpoint
<1>9. ASSUME NEW t \in Tasks, Triage(t) PROVE TokenInv'
  <2>1. LeasesKept
    BY <1>9 DEF Triage, AnnotateStart, AnnotateAppend, AnnotateSet, TakeDeadLetter,
       TakeAppend, PurgeRelease, LeasesKept
  <2> QED BY <1>1, <2>1, KeepTokens
<1>10. ASSUME NEW id \in Ids, VisibilityTimeout(id) PROVE TokenInv'
  <2>1. UNCHANGED <<grants, epoch, next_lease_token>>
    BY <1>10 DEF VisibilityTimeout
  <2>2. /\ leased[id] \in Lease /\ leased[id] # None
        /\ leased' = [leased EXCEPT ![id].expired = TRUE]
    BY <1>2, <1>10 DEF VisibilityTimeout
  <2>3. \A l \in Lease : [l EXCEPT !.expired = TRUE].token = l.token
    BY DEF Lease
  <2>4. LeasesKept
    BY <1>2, <2>1, <2>2, <2>3 DEF LeasesKept
  <2> QED BY <1>1, <2>4, KeepTokens
<1>11. CASE BackoffElapses \/ Rest
  <2>1. LeasesKept
    BY <1>11 DEF BackoffElapses, Rest, LeasesKept
  <2> QED BY <1>1, <2>1, KeepTokens
<1> QED BY <1>1, <1>3, <1>4, <1>5, <1>6, <1>7, <1>8, <1>9, <1>10, <1>11, CrashTokens
        DEF Next

\* LeaseToken's docs: a token is "minted fresh on every claim, not reused across
\* redeliveries", "within the process that issued it".  No two claims of one
\* process return the same token and every active lease is one a claim
\* returned, for any number of tasks, claims, faults and restarts.
THEOREM TokensUnique == Spec => []TokensNameDeliveries
<1>1. Init => TokenInv
  <2>1. Init => TypeOK
    BY IdleType DEF Init, TypeOK, TornLogsOK, Fates
  <2> QED BY <2>1 DEF Init, TokenInv, TokensBelowCounter, TokensNameDeliveries
<1>2. TokenInv => TokensNameDeliveries
  BY DEF TokenInv
<1> QED BY <1>1, <1>2, TokenStep, PTL DEF Spec

-----------------------------------------------------------------------------
(* The retry limit.  A dead letter's delivery count is right because every  *)
(* copy of a message, wherever it is, carries a count that fits its place.  *)

Waiting(e) == MaxAttempts # None => e.delivery_count < Allowed
Delivered(e) == MaxAttempts # None => e.delivery_count \in 1..Allowed
Dead(e) == MaxAttempts # None /\ e.delivery_count = Allowed

\* What a call in progress holds.
CallCounts(c) == /\ \A e \in c.batch : Delivered(e)
                 /\ c.pc \in {"enqueue_wal", "enqueue_push"} => Waiting(c.entry)
                 /\ c.pc = "dlq_insert" => Dead(c.entry)

QueueCounts == /\ \A i \in DOMAIN pending : Waiting(pending[i])
               /\ \A i \in DOMAIN delayed : Waiting(delayed[i].entry)
LeaseCounts == \A id \in Ids : leased[id] # None => Delivered(leased[id].entry)
DlqCounts == \A id \in Ids : \A d \in {dlq[id], dlq_wal[id]} \ {None} : Dead(d.entry)
TearCounts == dlq_tear # None => \A id \in Ids : dlq_tear[id] # None => Dead(dlq_tear[id].entry)
RetryInv == /\ QueueCounts /\ LeaseCounts /\ DlqCounts
            /\ \A t \in Tasks : CallCounts(call[t])

\* The limit allows at least one delivery.
LEMMA AllowedType == MaxAttempts # None => Allowed \in Nat /\ Allowed >= 1
BY MaxAttemptsAssumption DEF Allowed

\* One failed delivery either waits for the next or is the last one allowed.
LEMMA FailedDelivery ==
    ASSUME NEW e \in Entry, Delivered(e)
    PROVE  /\ is_exhausted(e.delivery_count) => Dead(e)
           /\ ~is_exhausted(e.delivery_count) => Waiting(e)
<1>1. e.delivery_count \in Nat
  BY DEF Entry
<1>2. CASE MaxAttempts = None
  BY <1>2 DEF is_exhausted, Waiting
<1>3. CASE MaxAttempts # None
  <2>1. MaxAttempts \in Nat
    BY <1>3, MaxAttemptsAssumption
  <2> QED BY <1>1, <1>3, <2>1 DEF is_exhausted, Waiting, Dead, Delivered, Allowed
<1> QED BY <1>2, <1>3

\* A message that was never delivered may wait.
LEMMA NewWaits == \A id, key : Waiting(NewEntry(id, key))
BY AllowedType DEF Waiting, NewEntry

\* Changing the locals of one call, or its step, keeps the counts of the calls.
LEMMA CallCountsKept ==
    ASSUME call \in [Tasks -> Call], \A u \in Tasks : CallCounts(call[u]),
           NEW t \in Tasks
    PROVE  /\ \A c : call' = [call EXCEPT ![t] = c] /\ CallCounts(c)
                       => (\A u \in Tasks : CallCounts(call[u]))'
           /\ Return(t) => (\A u \in Tasks : CallCounts(call[u]))'
           /\ \A pc : /\ pc \in {"enqueue_wal", "enqueue_push"} => Waiting(call[t].entry)
                      /\ pc = "dlq_insert" => Dead(call[t].entry)
                      /\ Goto(t, pc)
                      => (\A u \in Tasks : CallCounts(call[u]))'
           /\ \A rest \in SUBSET call[t].batch :
                Resolved(t, rest) => (\A u \in Tasks : CallCounts(call[u]))'
           /\ call' = call => (\A u \in Tasks : CallCounts(call[u]))'
<1>1. ASSUME NEW c, call' = [call EXCEPT ![t] = c], CallCounts(c)
      PROVE  (\A u \in Tasks : CallCounts(call[u]))'
  <2>1. \A u \in Tasks : call'[u] = IF u = t THEN c ELSE call[u]
    BY <1>1
  <2>2. \A u \in Tasks : CallCounts(call'[u])
    BY <1>1, <2>1
  <2> QED BY <2>2
<1>2. CallCounts(Idle)
  BY DEF CallCounts, Idle
<1>3. Return(t) => (\A u \in Tasks : CallCounts(call[u]))'
  BY <1>1, <1>2 DEF Return
<1>4. call[t] \in Call
  OBVIOUS
<1>5. ASSUME NEW pc, pc \in {"enqueue_wal", "enqueue_push"} => Waiting(call[t].entry),
             pc = "dlq_insert" => Dead(call[t].entry), Goto(t, pc)
      PROVE  (\A u \in Tasks : CallCounts(call[u]))'
  <2> DEFINE c == [call[t] EXCEPT !.pc = pc]
  <2>1. call' = [call EXCEPT ![t] = c]
    BY <1>5 DEF Goto
  <2>2. c.pc = pc /\ c.entry = call[t].entry /\ c.batch = call[t].batch
    BY <1>4 DEF Call, Locals
  <2> HIDE DEF c
  <2>3. CallCounts(c)
    BY <1>5, <2>2 DEF CallCounts
  <2> QED BY <1>1, <2>1, <2>3
<1>6. ASSUME NEW rest \in SUBSET call[t].batch, Resolved(t, rest)
      PROVE  (\A u \in Tasks : CallCounts(call[u]))'
  <2> DEFINE c == [call[t] EXCEPT !.pc = "resolve", !.entry = None, !.batch = rest]
             d == [Idle EXCEPT !.op = "claim", !.pc = "pop"]
  <2>1. \/ call' = [call EXCEPT ![t] = c] \/ call' = [call EXCEPT ![t] = d]
        \/ call' = [call EXCEPT ![t] = Idle]
    BY <1>6 DEF Resolved
  <2>2. c.pc = "resolve" /\ c.batch = rest /\ d.pc = "pop" /\ d.batch = {}
    BY <1>4 DEF Call, Locals, Idle
  <2> HIDE DEF c, d
  <2>3. CallCounts(c) /\ CallCounts(d)
    BY <2>2 DEF CallCounts
  <2> QED BY <1>1, <1>2, <2>1, <2>3
<1> QED BY <1>1, <1>3, <1>5, <1>6

\* Each step of enqueue, and of a claim, keeps the counts.
LEMMA EnqueueCounts ==
    ASSUME TypeOK, RetryInv, NEW t \in Tasks, Enqueue(t) PROVE RetryInv'
<1> USE DEF vars, memVars, walVars, cpVars, auxVars
<1>1. /\ call \in [Tasks -> Call] /\ \A u \in Tasks : CallCounts(call[u])
      /\ pending \in Seq(Entry)
  BY DEF TypeOK, RetryInv
<1>2. LeaseCounts' /\ DlqCounts'
  <2>1. UNCHANGED <<leased, dlq, dlq_wal>>
    BY DEF Enqueue, EnqueueReserve, EnqueueDuplicate, WriteEnqueueRecord, EnqueueUndo,
       PushPending
  <2> QED BY <2>1 DEF RetryInv, LeaseCounts, DlqCounts
<1>3. QueueCounts'
  <2>1. UNCHANGED delayed
    BY DEF Enqueue, EnqueueReserve, EnqueueDuplicate, WriteEnqueueRecord, EnqueueUndo,
       PushPending
  <2>2. CASE PushPending(t)
    <3>1. pending' = Append(pending, call[t].entry) /\ Waiting(call[t].entry)
      BY <1>1, <2>2 DEF PushPending, At, CallCounts
    <3>2. call[t].entry \in Entry
      BY <2>2, CallType DEF PushPending, At, EntrySteps
    <3>3. \A i \in DOMAIN pending' :
            pending'[i] = call[t].entry \/ (i \in DOMAIN pending /\ pending'[i] = pending[i])
      BY <1>1, <3>1, <3>2
    <3> QED BY <2>1, <3>1, <3>3 DEF RetryInv, QueueCounts
  <2>3. CASE ~PushPending(t)
    <3>1. UNCHANGED pending
      BY <2>3 DEF Enqueue, EnqueueReserve, EnqueueDuplicate, WriteEnqueueRecord,
         EnqueueUndo
    <3> QED BY <2>1, <3>1 DEF RetryInv, QueueCounts
  <2> QED BY <2>2, <2>3
<1>4. (\A u \in Tasks : CallCounts(call[u]))'
  <2>1. CASE EnqueueReserve(t)
    <3>1. PICK id \in Ids, key \in Keys \cup {None} :
            call' = [call EXCEPT ![t] = [Idle EXCEPT !.op = "enqueue",
                                                     !.pc = "enqueue_wal",
                                                     !.entry = NewEntry(id, key)]]
      BY <2>1 DEF EnqueueReserve
    <3>2. CallCounts([Idle EXCEPT !.op = "enqueue", !.pc = "enqueue_wal",
                                  !.entry = NewEntry(id, key)])
      BY NewWaits DEF CallCounts, Idle
    <3> QED BY <1>1, <3>1, <3>2, CallCountsKept
  <2>2. CASE WriteEnqueueRecord(t)
    <3>1. Waiting(call[t].entry) /\ \E pc \in {"enqueue_push", "enqueue_undo"} : Goto(t, pc)
      BY <1>1, <2>2 DEF WriteEnqueueRecord, At, CallCounts
    <3> QED BY <1>1, <3>1, CallCountsKept
  <2>3. CASE EnqueueDuplicate(t) \/ EnqueueUndo(t) \/ PushPending(t)
    BY <1>1, <2>3, CallCountsKept DEF EnqueueDuplicate, EnqueueUndo, PushPending
  <2> QED BY <2>1, <2>2, <2>3 DEF Enqueue
<1> QED BY <1>2, <1>3, <1>4 DEF RetryInv

\* Positions f of delayed carry their counts over into the promoted half and the
\* half that stays.
LEMMA PromoteCounts ==
    ASSUME delayed \in Seq(Delayed), QueueCounts,
           NEW I \in SUBSET DOMAIN delayed, NEW f \in Ascending(I)
    PROVE  /\ \A k \in DOMAIN Promoted(f) : Waiting(Promoted(f)[k])
           /\ \A k \in DOMAIN StillDelayed(f) : Waiting(StillDelayed(f)[k].entry)
<1>1. \A k \in DOMAIN f : f[k] \in DOMAIN delayed
  <2>1. f \in [1..Cardinality(I) -> I]
    BY AscendingType
  <2> QED BY <2>1
<1> QED BY <1>1 DEF Promoted, StillDelayed, Pick, QueueCounts

\* One more delivery of a message that may wait.
LEMMA DeliverCounts ==
    ASSUME NEW e \in Entry, Waiting(e)
    PROVE  Delivered([e EXCEPT !.delivery_count = @ + 1])
<1>1. e.delivery_count \in Nat
  BY DEF Entry
<1>2. [e EXCEPT !.delivery_count = @ + 1].delivery_count = e.delivery_count + 1
  BY DEF Entry
<1> QED BY <1>1, <1>2, AllowedType DEF Waiting, Delivered

\* Each step of claim keeps the counts.
LEMMA ClaimCounts ==
    ASSUME TypeOK, RetryInv, NEW t \in Tasks, Claim(t) PROVE RetryInv'
<1> USE DEF vars, memVars, walVars, cpVars, auxVars
<1>1. /\ call \in [Tasks -> Call] /\ \A u \in Tasks : CallCounts(call[u])
      /\ pending \in Seq(Entry) /\ delayed \in Seq(Delayed)
      /\ leased \in [Ids -> Lease \cup {None}]
      /\ QueueCounts /\ LeaseCounts /\ DlqCounts
  BY DEF TypeOK, RetryInv
<1>2. UNCHANGED <<dlq, dlq_wal>>
  BY DEF Claim, ReclaimExpired, PopPending, CancelClaim
<1>3. DlqCounts'
  BY <1>1, <1>2 DEF DlqCounts
<1>4. CASE ReclaimExpired(t)
  <2> DEFINE b == {leased[id].entry : id \in Expired}
  <2>1. UNCHANGED <<pending, delayed>> /\ leased' = Without(Expired)
    BY <1>4 DEF ReclaimExpired
  <2>2. QueueCounts' /\ LeaseCounts'
    BY <1>1, <2>1 DEF QueueCounts, LeaseCounts, Without
  <2>3. \A e \in b : Delivered(e)
    BY <1>1 DEF LeaseCounts, Expired
  <2>4. PICK pc \in {"pop", "resolve"} :
          call' = [call EXCEPT ![t] = [Idle EXCEPT !.op = "claim", !.pc = pc, !.batch = b]]
    BY <1>4 DEF ReclaimExpired
  <2>5. CallCounts([Idle EXCEPT !.op = "claim", !.pc = pc, !.batch = b])
    BY <2>3 DEF CallCounts, Idle
  <2>6. (\A u \in Tasks : CallCounts(call[u]))'
    BY <1>1, <2>4, <2>5, CallCountsKept
  <2> QED BY <1>3, <2>2, <2>6 DEF RetryInv
<1>5. CASE PopPending(t)
  <2>1. PICK ready \in Ascending(ReadyPositions),
             waiting \in Ascending(DOMAIN delayed \ ReadyPositions) :
          LET queue == pending \o Promoted(ready)
              entry == [Head(queue) EXCEPT !.delivery_count = @ + 1]
          IN /\ delayed' = StillDelayed(waiting)
             /\ \/ /\ queue = <<>>
                   /\ pending' = queue
                   /\ Goto(t, "blocked")
                   /\ UNCHANGED leased
                \/ /\ queue # <<>>
                   /\ pending' = Tail(queue)
                   /\ leased' = [leased EXCEPT ![entry.id] = NewLease(entry)]
                   /\ Return(t)
    BY <1>5 DEF PopPending
  <2> DEFINE queue == pending \o Promoted(ready)
             entry == [Head(queue) EXCEPT !.delivery_count = @ + 1]
  <2>2. ReadyPositions \subseteq DOMAIN delayed
    BY DEF ReadyPositions
  <2>3. /\ Promoted(ready) \in Seq(Entry)
        /\ \A k \in DOMAIN Promoted(ready) : Waiting(Promoted(ready)[k])
        /\ \A k \in DOMAIN delayed' : Waiting(delayed'[k].entry)
    BY <1>1, <2>1, <2>2, PromoteType, PromoteCounts
  <2>4. queue \in Seq(Entry)
    BY <1>1, <2>3
  <2>5. \A k \in DOMAIN queue : Waiting(queue[k])
    <3>1. \A k \in DOMAIN queue :
            \/ k \in DOMAIN pending /\ queue[k] = pending[k]
            \/ /\ k - Len(pending) \in DOMAIN Promoted(ready)
               /\ queue[k] = Promoted(ready)[k - Len(pending)]
      BY <1>1, <2>3
    <3> HIDE DEF queue
    <3> QED BY <1>1, <2>3, <3>1 DEF QueueCounts
  <2>6. (\A u \in Tasks : CallCounts(call[u]))'
    BY <1>1, <2>1, CallCountsKept
  <2>7. CASE queue = <<>>
    <3>1. pending' = queue /\ UNCHANGED leased
      BY <2>1, <2>7
    <3>2. QueueCounts'
      BY <2>3, <2>5, <3>1 DEF QueueCounts
    <3>3. LeaseCounts'
      BY <1>1, <3>1 DEF LeaseCounts
    <3> QED BY <1>3, <2>6, <3>2, <3>3 DEF RetryInv
  <2>8. CASE queue # <<>>
    <3>1. /\ pending' = Tail(queue)
          /\ leased' = [leased EXCEPT ![entry.id] = NewLease(entry)]
      BY <2>1, <2>8
    <3>2. Head(queue) \in Entry /\ Waiting(Head(queue))
      BY <2>4, <2>5, <2>8
    <3>3. Delivered(entry) /\ entry.id \in Ids
      BY <3>2, DeliverCounts, DeliverType
    <3>4. \A k \in DOMAIN Tail(queue) : k+1 \in DOMAIN queue /\ Tail(queue)[k] = queue[k+1]
      BY <2>4, <2>8
    <3> HIDE DEF queue, entry
    <3>5. QueueCounts'
      BY <2>3, <2>5, <3>1, <3>4 DEF QueueCounts
    <3>6. LeaseCounts'
      <4>1. NewLease(entry).entry = entry
        BY DEF NewLease
      <4>2. \A id \in Ids : leased'[id] = IF id = entry.id THEN NewLease(entry) ELSE leased[id]
        BY <1>1, <3>1
      <4>3. \A id \in Ids : leased'[id] # None => Delivered(leased'[id].entry)
        BY <1>1, <3>3, <4>1, <4>2 DEF LeaseCounts
      <4> QED BY <4>3 DEF LeaseCounts
    <3> QED BY <1>3, <2>6, <3>5, <3>6 DEF RetryInv
  <2> QED BY <2>7, <2>8
<1>6. CASE CancelClaim(t)
  <2>1. QueueCounts' /\ LeaseCounts'
    BY <1>1, <1>6 DEF QueueCounts, LeaseCounts, CancelClaim
  <2>2. (\A u \in Tasks : CallCounts(call[u]))'
    BY <1>1, <1>6, CallCountsKept DEF CancelClaim
  <2> QED BY <1>3, <2>1, <2>2 DEF RetryInv
<1> QED BY <1>4, <1>5, <1>6 DEF Claim

\* Each step of ack and nack keeps the counts.
LEMMA SettleCounts ==
    ASSUME TypeOK, RetryInv, NEW t \in Tasks, Settle(t) PROVE RetryInv'
<1> USE DEF vars, memVars, walVars, cpVars, auxVars
<1>1. /\ call \in [Tasks -> Call] /\ \A u \in Tasks : CallCounts(call[u])
      /\ leased \in [Ids -> Lease \cup {None}] /\ grants \subseteq Grant
      /\ QueueCounts /\ LeaseCounts /\ DlqCounts
  BY DEF TypeOK, RetryInv
<1>2. UNCHANGED <<pending, delayed, dlq, dlq_wal>>
  BY DEF Settle, AckRelease, AckAppend, NackRelease
<1>3. QueueCounts' /\ DlqCounts'
  BY <1>1, <1>2 DEF QueueCounts, DlqCounts
<1>4. LeaseCounts'
  <2>1. \/ leased' = leased
        \/ \E id \in Ids : leased' = [leased EXCEPT ![id] = None]
    BY <1>1 DEF Settle, AckRelease, AckAppend, NackRelease, Grant
  <2> QED BY <1>1, <2>1 DEF LeaseCounts
<1>5. (\A u \in Tasks : CallCounts(call[u]))'
  <2>1. CASE AckRelease(t)
    <3>1. PICK g \in grants :
            call' = [call EXCEPT ![t] = [Idle EXCEPT !.op = "ack", !.pc = "ack_wal",
                                                     !.grant = g]]
      BY <2>1 DEF AckRelease
    <3>2. CallCounts([Idle EXCEPT !.op = "ack", !.pc = "ack_wal", !.grant = g])
      BY DEF CallCounts, Idle
    <3> QED BY <1>1, <3>1, <3>2, CallCountsKept
  <2>2. CASE AckAppend(t)
    BY <1>1, <2>2, CallCountsKept DEF AckAppend
  <2>3. CASE NackRelease(t)
    <3>1. PICK g \in grants :
            /\ Holds(g)
            /\ call' = [call EXCEPT ![t] = [Idle EXCEPT !.op = "nack", !.pc = "resolve",
                                                        !.grant = g,
                                                        !.batch = {leased[g.id].entry}]]
      BY <2>3 DEF NackRelease
    <3>2. Delivered(leased[g.id].entry)
      BY <1>1, <3>1 DEF LeaseCounts, Holds, Grant
    <3>3. CallCounts([Idle EXCEPT !.op = "nack", !.pc = "resolve", !.grant = g,
                                  !.batch = {leased[g.id].entry}])
      BY <3>2 DEF CallCounts, Idle
    <3> QED BY <1>1, <3>1, <3>3, CallCountsKept
  <2> QED BY <2>1, <2>2, <2>3 DEF Settle
<1> QED BY <1>3, <1>4, <1>5 DEF RetryInv

\* Each step of resolve_failed_delivery keeps the counts.
LEMMA ResolveCounts ==
    ASSUME TypeOK, RetryInv, NEW t \in Tasks, Resolve(t) PROVE RetryInv'
<1> USE DEF vars, memVars, walVars, cpVars, auxVars
<1>1. /\ call \in [Tasks -> Call] /\ \A u \in Tasks : CallCounts(call[u])
      /\ delayed \in Seq(Delayed)
      /\ dlq \in [Ids -> DeadLetter \cup {None}]
      /\ dlq_wal \in [Ids -> DeadLetter \cup {None}]
      /\ QueueCounts /\ LeaseCounts /\ DlqCounts
  BY DEF TypeOK, RetryInv
<1>2. UNCHANGED <<pending, leased>>
  BY DEF Resolve, RetryLater, RecordDeadLetter, InsertDeadLetter, AppendDeadLettered
<1>3. LeaseCounts'
  BY <1>1, <1>2 DEF LeaseCounts
<1>4. \A e \in call[t].batch : e \in Entry /\ Delivered(e)
  BY <1>1, CallType DEF CallCounts
<1>5. CASE RetryLater(t)
  <2>1. PICK e \in call[t].batch :
          /\ ~is_exhausted(e.delivery_count)
          /\ delayed' = Append(delayed, [entry |-> e, ready |-> FALSE])
          /\ Resolved(t, call[t].batch \ {e})
    BY <1>5 DEF RetryLater
  <2>2. Waiting(e)
    BY <1>4, <2>1, FailedDelivery
  <2>3. [entry |-> e, ready |-> FALSE] \in Delayed
    BY <1>4 DEF Delayed
  <2>4. \A i \in DOMAIN delayed' :
          \/ delayed'[i] = [entry |-> e, ready |-> FALSE]
          \/ i \in DOMAIN delayed /\ delayed'[i] = delayed[i]
    BY <1>1, <2>1, <2>3
  <2>5. QueueCounts'
    BY <1>1, <1>2, <2>2, <2>4 DEF QueueCounts
  <2>6. DlqCounts'
    BY <1>1, <1>5 DEF RetryLater, DlqCounts
  <2>7. (\A u \in Tasks : CallCounts(call[u]))'
    BY <1>1, <2>1, CallCountsKept
  <2> QED BY <1>3, <2>5, <2>6, <2>7 DEF RetryInv
<1>6. CASE RecordDeadLetter(t)
  <2>1. PICK e \in call[t].batch, r \in AppendResult :
          /\ is_exhausted(e.delivery_count)
          /\ dlq_wal' = IF r.durable
                        THEN [dlq_wal EXCEPT ![e.id] = [entry |-> e, triage |-> None]]
                        ELSE dlq_wal
          /\ IF r.ok
             THEN call' = [call EXCEPT ![t].pc = "dlq_insert", ![t].entry = e,
                                       ![t].batch = @ \ {e}]
             ELSE Resolved(t, call[t].batch \ {e})
    BY <1>6 DEF RecordDeadLetter
  <2>2. Dead(e) /\ e.id \in Ids
    BY <1>4, <2>1, FailedDelivery DEF Entry
  <2>3. QueueCounts'
    BY <1>1, <1>2, <1>6 DEF RecordDeadLetter, QueueCounts
  <2>4. DlqCounts'
    <3>1. UNCHANGED dlq
      BY <1>6 DEF RecordDeadLetter
    <3>2. \A id \in Ids : \/ dlq_wal'[id] = dlq_wal[id]
                          \/ dlq_wal'[id] = [entry |-> e, triage |-> None]
      BY <1>1, <2>1
    <3> QED BY <1>1, <2>2, <3>1, <3>2 DEF DlqCounts
  <2>5. (\A u \in Tasks : CallCounts(call[u]))'
    <3>1. CASE r.ok
      <4> DEFINE c == [call[t] EXCEPT !.pc = "dlq_insert", !.entry = e, !.batch = @ \ {e}]
      <4>1. call' = [call EXCEPT ![t] = c]
        BY <1>1, <2>1, <3>1
      <4>2. call[t] \in Locals
        BY <1>1 DEF Call
      <4>3. c.pc = "dlq_insert" /\ c.entry = e /\ c.batch = call[t].batch \ {e}
        BY <4>2 DEF Locals
      <4> HIDE DEF c
      <4>4. CallCounts(c)
        BY <1>4, <2>2, <4>3 DEF CallCounts
      <4> QED BY <1>1, <4>1, <4>4, CallCountsKept
    <3>2. CASE ~r.ok
      BY <1>1, <2>1, <3>2, CallCountsKept
    <3> QED BY <3>1, <3>2
  <2> QED BY <1>3, <2>3, <2>4, <2>5 DEF RetryInv
<1>7. CASE InsertDeadLetter(t)
  <2>1. call[t].entry.id \in Ids /\ Dead(call[t].entry)
    BY <1>1, <1>7, CallType DEF InsertDeadLetter, At, EntrySteps, Entry, CallCounts
  <2>2. QueueCounts'
    BY <1>1, <1>7 DEF InsertDeadLetter, QueueCounts
  <2>3. DlqCounts'
    <3>1. UNCHANGED dlq_wal
      BY <1>7 DEF InsertDeadLetter
    <3>2. \A id \in Ids : \/ dlq'[id] = dlq[id]
                          \/ dlq'[id] = [entry |-> call[t].entry, triage |-> None]
      BY <1>1, <1>7 DEF InsertDeadLetter
    <3> QED BY <1>1, <2>1, <3>1, <3>2 DEF DlqCounts
  <2>4. (\A u \in Tasks : CallCounts(call[u]))'
    BY <1>1, <1>7, CallCountsKept DEF InsertDeadLetter
  <2> QED BY <1>3, <2>2, <2>3, <2>4 DEF RetryInv
<1>8. CASE AppendDeadLettered(t)
  <2>1. QueueCounts' /\ DlqCounts'
    BY <1>1, <1>8 DEF AppendDeadLettered, QueueCounts, DlqCounts
  <2>2. (\A u \in Tasks : CallCounts(call[u]))'
    BY <1>1, <1>8, CallCountsKept DEF AppendDeadLettered
  <2> QED BY <1>3, <2>1, <2>2 DEF RetryInv
<1> QED BY <1>5, <1>6, <1>7, <1>8 DEF Resolve

\* Each step of checkpoint keeps the counts.
LEMMA CheckpointCounts ==
    ASSUME TypeOK, RetryInv, NEW t \in Tasks, Checkpoint(t) PROVE RetryInv'
<1> USE DEF vars, memVars, walVars, cpVars, auxVars
<1>1. /\ call \in [Tasks -> Call] /\ \A u \in Tasks : CallCounts(call[u])
      /\ leased \in [Ids -> Lease \cup {None}]
      /\ QueueCounts /\ LeaseCounts /\ DlqCounts
  BY DEF TypeOK, RetryInv
<1>2. UNCHANGED <<pending, delayed, dlq, dlq_wal>>
  BY DEF Checkpoint, CheckpointStart, CheckpointAppend, CheckpointSet
<1>3. QueueCounts' /\ DlqCounts'
  BY <1>1, <1>2 DEF QueueCounts, DlqCounts
<1>4. CASE CheckpointStart(t)
  <2>1. PICK g, e :
          call' = [call EXCEPT ![t] =
                     [Idle EXCEPT !.op = "checkpoint", !.pc = "checkpoint_wal",
                                  !.grant = g, !.entry = e]]
    BY <1>4 DEF CheckpointStart
  <2>2. CallCounts([Idle EXCEPT !.op = "checkpoint", !.pc = "checkpoint_wal",
                                !.grant = g, !.entry = e])
    BY DEF CallCounts, Idle
  <2>3. (\A u \in Tasks : CallCounts(call[u]))'
    BY <1>1, <2>1, <2>2, CallCountsKept
  <2>4. LeaseCounts'
    BY <1>1, <1>4 DEF CheckpointStart, LeaseCounts
  <2> QED BY <1>3, <2>3, <2>4 DEF RetryInv
<1>5. CASE CheckpointAppend(t)
  <2>1. Goto(t, "checkpoint_set") \/ Return(t)
    BY <1>5 DEF CheckpointAppend
  <2>2. (\A u \in Tasks : CallCounts(call[u]))'
    BY <1>1, <2>1, CallCountsKept
  <2>3. LeaseCounts'
    BY <1>1, <1>5 DEF CheckpointAppend, LeaseCounts
  <2> QED BY <1>3, <2>2, <2>3 DEF RetryInv
<1>6. CASE CheckpointSet(t)
  <2>1. (\A u \in Tasks : CallCounts(call[u]))'
    BY <1>1, <1>6, CallCountsKept DEF CheckpointSet
  <2> DEFINE g == call[t].grant
             new == [leased[g.id] EXCEPT !.entry.checkpoint = call[t].entry.checkpoint]
  <2>2. g.id \in Ids
    BY <1>6, CallType DEF CheckpointSet, At, GrantSteps, Grant
  <2>3. \/ leased' = leased
        \/ /\ leased[g.id] \in Lease /\ leased[g.id] # None
           /\ leased' = [leased EXCEPT ![g.id] = new]
    BY <1>1, <1>6, <2>2 DEF CheckpointSet, Holds
  <2>4. leased[g.id] \in Lease
          => new.entry.delivery_count = leased[g.id].entry.delivery_count
    BY DEF Lease, Entry
  <2> HIDE DEF g, new
  <2>5. \A id \in Ids : leased'[id] # None =>
          /\ leased[id] # None
          /\ leased'[id].entry.delivery_count = leased[id].entry.delivery_count
    BY <1>1, <2>2, <2>3, <2>4
  <2>6. LeaseCounts'
    BY <1>1, <2>5 DEF LeaseCounts, Delivered
  <2> QED BY <1>3, <2>1, <2>6 DEF RetryInv
<1> QED BY <1>4, <1>5, <1>6 DEF Checkpoint

\* Each step of annotate, reprocess and purge keeps the counts.
LEMMA TriageCounts ==
    ASSUME TypeOK, RetryInv, NEW t \in Tasks, Triage(t) PROVE RetryInv'
<1> USE DEF vars, memVars, walVars, cpVars, auxVars
<1>1. /\ call \in [Tasks -> Call] /\ \A u \in Tasks : CallCounts(call[u])
      /\ dlq \in [Ids -> DeadLetter \cup {None}]
      /\ dlq_wal \in [Ids -> DeadLetter \cup {None}]
      /\ QueueCounts /\ LeaseCounts /\ DlqCounts
  BY DEF TypeOK, RetryInv
<1>2. UNCHANGED <<pending, delayed, leased>>
  BY DEF Triage, AnnotateStart, AnnotateAppend, AnnotateSet, TakeDeadLetter, TakeAppend,
     PurgeRelease
<1>3. QueueCounts' /\ LeaseCounts'
  BY <1>1, <1>2 DEF QueueCounts, LeaseCounts
<1>4. ASSUME NEW map \in [Ids -> DeadLetter \cup {None}], NEW id, NEW v, NEW i \in Ids,
             Annotated(map, id, v)[i] # None
      PROVE  map[i] # None /\ Annotated(map, id, v)[i].entry = map[i].entry
  <2>1. \A d \in DeadLetter : [d EXCEPT !.triage = v].entry = d.entry
    BY DEF DeadLetter
  <2>2. CASE i = id /\ map[id] # None
    <3>1. Annotated(map, id, v)[i] = [map[id] EXCEPT !.triage = v]
      BY <2>2 DEF Annotated
    <3> QED BY <2>1, <2>2, <3>1
  <2>3. CASE ~(i = id /\ map[id] # None)
    <3>1. Annotated(map, id, v)[i] = map[i]
      BY <2>3 DEF Annotated
    <3> QED BY <1>4, <3>1
  <2> QED BY <2>2, <2>3
<1>5. CASE AnnotateStart(t)
  <2>1. PICK e, v :
          call' = [call EXCEPT ![t] =
                     [Idle EXCEPT !.op = "annotate", !.pc = "annotate_wal",
                                  !.entry = e, !.verdict = v]]
    BY <1>5 DEF AnnotateStart
  <2>2. CallCounts([Idle EXCEPT !.op = "annotate", !.pc = "annotate_wal",
                                !.entry = e, !.verdict = v])
    BY DEF CallCounts, Idle
  <2>3. (\A u \in Tasks : CallCounts(call[u]))'
    BY <1>1, <2>1, <2>2, CallCountsKept
  <2>4. DlqCounts'
    BY <1>1, <1>5 DEF AnnotateStart, DlqCounts
  <2> QED BY <1>3, <2>3, <2>4 DEF RetryInv
<1>6. CASE AnnotateAppend(t)
  <2>1. /\ Goto(t, "annotate_set") \/ Return(t)
        /\ UNCHANGED dlq
        /\ \/ UNCHANGED dlq_wal
           \/ dlq_wal' = Annotated(dlq_wal, call[t].entry.id, call[t].verdict)
    BY <1>6 DEF AnnotateAppend
  <2>2. (\A u \in Tasks : CallCounts(call[u]))'
    BY <1>1, <2>1, CallCountsKept
  <2>3. DlqCounts'
    BY <1>1, <1>4, <2>1 DEF DlqCounts
  <2> QED BY <1>3, <2>2, <2>3 DEF RetryInv
<1>7. CASE AnnotateSet(t)
  <2>1. /\ UNCHANGED dlq_wal
        /\ dlq' = Annotated(dlq, call[t].entry.id, call[t].verdict)
    BY <1>7 DEF AnnotateSet
  <2>2. (\A u \in Tasks : CallCounts(call[u]))'
    BY <1>1, <1>7, CallCountsKept DEF AnnotateSet
  <2>3. DlqCounts'
    BY <1>1, <1>4, <2>1 DEF DlqCounts
  <2> QED BY <1>3, <2>2, <2>3 DEF RetryInv
<1>8. CASE TakeDeadLetter(t)
  <2>1. PICK id \in Ids, o \in {"reprocess", "purge"} :
          /\ dlq' = [dlq EXCEPT ![id] = None]
          /\ call' = [call EXCEPT ![t] = [Idle EXCEPT !.op = o, !.pc = "take_wal",
                                                      !.entry = dlq[id].entry]]
    BY <1>8 DEF TakeDeadLetter
  <2>2. CallCounts([Idle EXCEPT !.op = o, !.pc = "take_wal", !.entry = dlq[id].entry])
    BY DEF CallCounts, Idle
  <2>3. (\A u \in Tasks : CallCounts(call[u]))'
    BY <1>1, <2>1, <2>2, CallCountsKept
  <2>4. DlqCounts'
    BY <1>1, <1>8, <2>1 DEF TakeDeadLetter, DlqCounts
  <2> QED BY <1>3, <2>3, <2>4 DEF RetryInv
<1>9. CASE TakeAppend(t)
  <2> DEFINE p == [call[t] EXCEPT !.pc = "purge_release"]
             n == NewEntry(call[t].entry.id, call[t].entry.key)
             q == [call[t] EXCEPT !.pc = "enqueue_wal", !.entry = n]
  <2>1. Return(t) \/ \E c \in {p, q} : call' = [call EXCEPT ![t] = c]
    BY <1>1, <1>9 DEF TakeAppend
  <2>2. call[t] \in Locals
    BY <1>1 DEF Call
  <2>3. /\ p.pc = "purge_release" /\ p.batch = call[t].batch
        /\ q.pc = "enqueue_wal" /\ q.batch = call[t].batch /\ q.entry = n
    BY <2>2 DEF Locals
  <2>4. Waiting(n)
    BY NewWaits
  <2> HIDE DEF p, q, n
  <2>5. CallCounts(p) /\ CallCounts(q)
    BY <1>1, <2>3, <2>4 DEF CallCounts
  <2>6. (\A u \in Tasks : CallCounts(call[u]))'
    BY <1>1, <2>1, <2>5, CallCountsKept
  <2>7. /\ UNCHANGED dlq
        /\ \/ UNCHANGED dlq_wal
           \/ dlq_wal' = [dlq_wal EXCEPT ![call[t].entry.id] = None]
    BY <1>9 DEF TakeAppend
  <2>8. \A id \in Ids : dlq_wal'[id] \in {dlq_wal[id], None}
    BY <1>1, <2>7
  <2>9. DlqCounts'
    BY <1>1, <2>7, <2>8 DEF DlqCounts
  <2> QED BY <1>3, <2>6, <2>9 DEF RetryInv
<1>10. CASE PurgeRelease(t)
  <2>1. (\A u \in Tasks : CallCounts(call[u]))'
    BY <1>1, <1>10, CallCountsKept DEF PurgeRelease
  <2>2. DlqCounts'
    BY <1>1, <1>10 DEF PurgeRelease, DlqCounts
  <2> QED BY <1>3, <2>1, <2>2 DEF RetryInv
<1> QED BY <1>5, <1>6, <1>7, <1>8, <1>9, <1>10 DEF Triage

\* The passage of time and a restart keep the counts.
LEMMA EnvironmentCounts ==
    /\ \A id \in Ids : TypeOK /\ RetryInv /\ VisibilityTimeout(id) => RetryInv'
    /\ TypeOK /\ RetryInv /\ BackoffElapses => RetryInv'
    /\ TypeOK /\ RetryInv /\ TearCounts /\ CrashAndOpen => RetryInv'
<1> USE DEF vars, memVars, walVars, cpVars, auxVars
<1>1. ASSUME TypeOK, RetryInv, NEW id \in Ids, VisibilityTimeout(id) PROVE RetryInv'
  <2>1. leased[id] # None /\ leased[id] \in Lease /\ leased \in [Ids -> Lease \cup {None}]
    BY <1>1 DEF TypeOK, VisibilityTimeout
  <2>2. [leased[id] EXCEPT !.expired = TRUE].entry = leased[id].entry
    BY <2>1 DEF Lease
  <2>3. \A i \in Ids : leased'[i] # None =>
          leased[i] # None /\ leased'[i].entry = leased[i].entry
    BY <1>1, <2>1, <2>2 DEF VisibilityTimeout
  <2>4. LeaseCounts'
    BY <1>1, <2>3 DEF LeaseCounts, RetryInv
  <2> QED BY <1>1, <2>4 DEF VisibilityTimeout, RetryInv, QueueCounts, DlqCounts
<1>2. ASSUME TypeOK, RetryInv, BackoffElapses PROVE RetryInv'
  <2>1. PICK i \in DOMAIN delayed : delayed' = [delayed EXCEPT ![i].ready = TRUE]
    BY <1>2 DEF BackoffElapses
  <2>2. delayed \in Seq(Delayed) /\ delayed[i] \in Delayed
    BY <1>2 DEF TypeOK
  <2>3. [delayed[i] EXCEPT !.ready = TRUE].entry = delayed[i].entry
    BY <2>2 DEF Delayed
  <2>4. \A k \in DOMAIN delayed' :
          k \in DOMAIN delayed /\ delayed'[k].entry = delayed[k].entry
    BY <2>1, <2>2, <2>3
  <2>5. QueueCounts'
    BY <1>2, <2>4 DEF QueueCounts, RetryInv, BackoffElapses
  <2> QED BY <1>2, <2>5 DEF BackoffElapses, RetryInv, LeaseCounts, DlqCounts
<1>3. ASSUME TypeOK, RetryInv, TearCounts, CrashAndOpen PROVE RetryInv'
  <2>0. ReplayedWal.pending \in Seq(WalEnqueue) /\ ReplayedWal.checkpoints \in [Ids -> Nat]
    BY <1>3, ReplayedType DEF WalState
  <2>1. /\ delayed' = <<>> /\ dlq' = ReplayedDlq /\ dlq_wal' = ReplayedDlq
        /\ \A id \in Ids : leased'[id] = None
        /\ \A t \in Tasks : call'[t] = Idle
        /\ \A i \in DOMAIN pending' : pending'[i].delivery_count = 0
    BY <1>3, <2>0, ReopenedType DEF CrashAndOpen
  <2>2. QueueCounts'
    BY <2>1, AllowedType DEF QueueCounts, Waiting
  <2>a. \A id \in Ids : ReplayedDlq[id] # None => Dead(ReplayedDlq[id].entry)
    BY <1>3 DEF ReplayedDlq, RetryInv, DlqCounts, TearCounts
  <2>3. LeaseCounts' /\ DlqCounts'
    BY <2>1, <2>a DEF LeaseCounts, DlqCounts
  <2>4. \A t \in Tasks : CallCounts(call'[t])
    BY <2>1 DEF CallCounts, Idle
  <2> QED BY <2>2, <2>3, <2>4 DEF RetryInv
<1> QED BY <1>1, <1>2, <1>3

\* Every step keeps the counts.
LEMMA RetryStep ==
    TypeOK /\ RetryInv /\ TearCounts /\ [Next]_vars => RetryInv' /\ TearCounts'
<1> SUFFICES ASSUME TypeOK, RetryInv, TearCounts, [Next]_vars PROVE RetryInv' /\ TearCounts'
  OBVIOUS
<1>1. TearCounts'
  <2>1. \A id \in Ids : ReplayedDlq[id] # None => Dead(ReplayedDlq[id].entry)
    BY DEF ReplayedDlq, RetryInv, DlqCounts, TearCounts
  <2> QED BY <2>1, TearStep DEF TearMoves, TearCounts
<1>2. CASE UNCHANGED vars
  BY <1>1, <1>2 DEF RetryInv, QueueCounts, LeaseCounts, DlqCounts, CallCounts, vars, memVars
<1>3. CASE Next
  BY <1>1, <1>2, <1>3, EnqueueCounts, ClaimCounts, SettleCounts, ResolveCounts,
     CheckpointCounts, TriageCounts, EnvironmentCounts DEF Next, Rest
<1> QED BY <1>1, <1>2, <1>3

\* RetryPolicy::is_exhausted and resolve_failed_delivery: however calls, expiries,
\* failures, cancellations, reprocessing and restarts interleave, no lease is
\* granted beyond max_attempts, a dead letter failed exactly that often since
\* it was last enqueued or replayed, and without max_attempts nothing is
\* dead-lettered.
THEOREM RetryLimit == Spec => []DeadLettersExhausted
<1>1. Init => TypeOK /\ RetryInv /\ TearCounts
  <2>1. Init => TypeOK
    BY IdleType DEF Init, TypeOK, TornLogsOK, Fates
  <2>2. Init => RetryInv /\ TearCounts
    BY DEF Init, RetryInv, TearCounts, QueueCounts, LeaseCounts, DlqCounts, CallCounts, Idle
  <2> QED BY <2>1, <2>2
<1>2. TypeOK /\ RetryInv => DeadLettersExhausted
  <2> SUFFICES ASSUME TypeOK, RetryInv, NEW id \in Ids
               PROVE  /\ leased[id] # None /\ MaxAttempts # None
                           => leased[id].entry.delivery_count <= Allowed
                      /\ \A d \in {dlq[id], dlq_wal[id]} \ {None} :
                           MaxAttempts # None /\ d.entry.delivery_count = Allowed
    BY DEF DeadLettersExhausted
  <2>1. leased[id] # None /\ MaxAttempts # None
          => leased[id].entry.delivery_count <= Allowed
    BY AllowedType DEF RetryInv, LeaseCounts, Delivered
  <2>2. \A d \in {dlq[id], dlq_wal[id]} \ {None} :
          MaxAttempts # None /\ d.entry.delivery_count = Allowed
    BY DEF RetryInv, DlqCounts, Dead
  <2> QED BY <2>1, <2>2
<1> QED BY <1>1, <1>2, TypeStep, RetryStep, PTL DEF Spec

=============================================================================
