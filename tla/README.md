# A TLA+ verification of queue-as-a-service

queue-as-a-service (QaaS) is a message queue for agents, written in Rust on
tokio.  This directory models its engine, `crates/qaas-core`, and its server,
`crates/qaas-server`, from the source; model-checks the models with TLC; and proves
the most important invariants with TLAPS.

## 1. Inventory

| Component | State | Operations | What makes it correct |
|---|---|---|---|
| Consumer group `consumer_group.rs` | `pending`, `leased`, `delayed`, `dedup` behind one async mutex; token counter; a WAL; a DLQ; a `Notify` | enqueue (with key), claim, ack, nack, checkpoint, partial results, reprocess, purge, open | at-least-once delivery; one consumer per message; late calls are harmless; keys deduplicate; checkpoints survive; replay rebuilds the group |
| Dead-letter queue `dead_letter.rs` | `entries` behind its own mutex; its own WAL | record, annotate, take, list, open | a message leaves the group for the DLQ and back without loss or duplication |
| Retry policy `retry.rs` | none | is_exhausted, delay_for | dead-letter after exactly `max_attempts` deliveries |
| FIFO and priority queue `queue/fifo.rs`, `queue/priority.rs` | a deque or heap behind a mutex; two `Notify` | enqueue, try_enqueue, dequeue, try_dequeue | order, capacity, no task asleep beside its condition |
| Persistent queues `queue/persistent_*.rs` | one of the above and a WAL | enqueue, dequeue, open | replay rebuilds the queue |
| Write-ahead log `wal.rs` | an append-only file of framed records | open (replay and truncate), append | Ok means durable; replay yields a prefix |
| Circuit breaker, cache, guard `circuit_breaker.rs` | state, counters, opened_at; TTL map | call, record_success/failure; get/set | trips at the threshold, recovers through trials |
| Admission, quota `admission.rs`, `quota.rs` | sliding windows of usage | try_admit, has_headroom, try_acquire, set_config | the window's sum never exceeds the ceiling |
| Embedding index `semantic.rs` | map of embeddings with TTL | insert, remove, nearest | nearest live entry |
| Audit logger `audit.rs` | bounded channel, workers, a WAL, two counters | log | the counters account for every event |
| API keys `auth.rs`, `http_auth.rs` | hash-to-tenant map and a WAL | mint, revoke, authenticate | a revoked key stays revoked |
| Raft `raft/` | in-memory log store, key-value state machine, membership controller | the openraft traits; reconcile | voters converge on the discovered members |
| MCP server `mcp.rs` | registry of groups, controllers, semantic index per tenant | the tools: enqueue, claim, ack, nack, ... | tools compose the parts without breaking them |
| Dashboard, telemetry, main, wire types, client stub | - | I/O and values | - |

Interaction: the server's tools call a tenant's consumer group; the group owns a
WAL and a dead-letter queue with a second WAL; the persistent queues own a WAL
and an in-memory queue; everything waits through tokio's `Mutex` and `Notify`.
Locks are never held across a WAL append, so every operation of the group is a
sequence of short locked sections and durable writes that other calls
interleave with.  That, together with crashes between the writes of two logs,
failed appends, futures dropped by timeouts, and visibility timeouts racing late
acks, is the hard part, and `PROJECT.json` lists each such place under `hazards`.

## 2. Modules

| Module | Models |
|---|---|
| `ConsumerGroup` | the consumer group with its dead-letter queue, retry limit and both logs |
| `MCConsumerGroup` | workloads and symmetry for TLC |
| `ConsumerGroupProofs` | theorems about `ConsumerGroup`: types, lease tokens, retry limit |
| `ConsumerGroupHomes` | the same: where a message is, what the logs say of it, and that nothing is lost |
| `Subsequences`, `SubsequenceLemmas` | splitting a sequence in two with the order kept, as `promote_ready_delayed` does, and the facts about sequences and sizes that the proofs share |
| `Notify` | tokio's `Notify`, external, as the code uses it |
| `FifoQueue` | the in-memory FIFO queue and its waiting protocol |
| `FifoQueueProofs` | theorems about `FifoQueue` |
| `PersistentQueue` | the two durable queues, with the priority queue's order |
| `PersistentQueueProofs` | theorems about `PersistentQueue` |
| `AtLeastOnce` | what a group promises about a message: the abstract specification |
| `GroupWakeups`, `MCGroupWakeups` | everything in the group that waits on `changed`: claims and stream watchers; implements `AtLeastOnce` |
| `GroupWakeupsProofs` | theorems about `GroupWakeups`, and that its steps are steps of `AtLeastOnce` |
| `Wal` | the log file as frames, whole or torn |
| `AdmissionController`, `TenantQuota`, `EmbeddingIndex`, `AuditLogger`, `ApiKeyStore` | one component of the server each, as a value and the operators its methods compute |
| `SlidingWindow` | what the two windows of usage share: dropping from the front until an entry is young enough, which keeps a later entry that has expired behind an earlier one that has not, and the sum of what is left |
| `McpServer`, `MCMcpServer` | the tools, the registry and the credential check, composed of the six above |
| `McpServerProofs` | theorems about `McpServer` |
| `CircuitBreaker`, `FallbackCache` | the two halves of the guard, as values and operators |
| `HybridGuard` | callers that share a breaker and a cache, or a breaker alone |
| `LogStore`, `StateMachineStore` | the two Raft stores, as values and operators |
| `RaftCluster` | nodes with those stores and the calls openraft makes on them |
| `MembershipWatcher` | the reconciliation loop over a cluster |
| `GuardedCluster`, `MCGuardedCluster` | producers behind the guard, a cluster and its watcher, composed |
| `GuardedClusterProofs` | theorems about the guard, the logs and the memberships in `GuardedCluster` |

The composition follows the code.  A component that lives behind one lock is a value
with operators (an instance of its module), because each of its methods is atomic; what
calls it across awaits is a module with actions.  In `PROJECT.json`, the lines of a
definition are those of the whole Rust item it stands for, its doc comment and
attributes included, or the part of the item it translates.

### ConsumerGroup

State.  `pending`, `leased`, `delayed`, `dedup`, `next_lease_token` are the
fields of `State` and the token counter; `dlq` is the DLQ's `entries`.  The two
logs are represented by what replaying them would rebuild (`wal_pending`,
`wal_dedup`, `wal_checkpoints`; `dlq_wal`): `open` is a left fold over the
records, so folding in each record when it becomes durable loses nothing and
keeps the state small.  A failed `write_all` can leave part of a frame in the file; replay
stops there, and `open` cuts off everything behind it.  `wal_tear` and `dlq_tear`
remember what the fold was at the first such frame: that is what a restart rebuilds
(`ReplayedWal`, `ReplayedDlq`), while the records behind it go on being folded in, as
their callers believe.  `call[t]` holds the locals of the call in progress in
task `t` and where it is between two awaits.  The remaining variables are
auxiliary: `grants` (what consumers hold), `fate` (what a message's producer and
consumers were told), `torn`, `truncated`, `stranded` and `raced` (which messages met
which failure), `saved` (confirmed checkpoints) and the bounds' counters.

Actions.  A method is cut at its awaits; a locked section, an append, or a
locked section after it is one action.

| Code | Actions |
|---|---|
| `enqueue*`, `write_enqueue_record` | `EnqueueReserve`, `EnqueueDuplicate`, `WriteEnqueueRecord`, `PushPending`, `EnqueueUndo` |
| `claim`, `reclaim_expired_leases`, `promote_ready_delayed` | `ReclaimExpired`, `PopPending`; the server's timeout is `CancelClaim` |
| `ack`, `nack` | `AckRelease`, `AckAppend`, `NackRelease` |
| `resolve_failed_delivery`, `DeadLetterQueue::record` | `RetryLater`, `RecordDeadLetter`, `InsertDeadLetter`, `AppendDeadLettered` |
| `checkpoint` | `CheckpointStart`, `CheckpointAppend`, `CheckpointSet` |
| `annotate`, `take`, reprocess, purge | `AnnotateStart/Append/Set`, `TakeDeadLetter`, `TakeAppend`, `PurgeRelease` |
| clocks | `VisibilityTimeout`, `BackoffElapses` |
| process death and `open` | `CrashAndOpen` |

Abstractions.  Payloads, error texts and timestamps are left out.  Instants are
Booleans (`expired`, `ready`) that time sets at any moment, so a backoff has no
length; `delay_for`'s arithmetic is not modelled.  A call that returns without
changing anything (a wrong token, an unknown id) is not a step.  A failed append is
absent from the log, present when only the fsync failed, or torn.  A claim's
wait on `changed` may end at any time, so wake-ups are over-approximated here and exact in
`GroupWakeups`.  A claim future
dropped during an append is taken as dropped just before or just after it.  Clients
outlive a restart with the grants they have, so a late call of an earlier process can
present any (id, token) pair that it handed out.

### FifoQueue

State: the three fields, `pc` per task, and the numbers of items `sent` and the
sequence `received`.  A push, a pop, the `notify_one` after the unlock, and the
first poll of `notified()` are separate actions, because tasks of a multi-threaded
runtime interleave between them.  `Notify` keeps at most one permit and a
first-come-first-served list, which is tokio's documented behaviour.

### PersistentQueue

State: the in-memory `queue` in push order, `wal_queue` (what replay would rebuild),
`wal_torn` (a torn frame is in the file: replay reaches no record written since),
`hand` (the item a task holds between its two steps), and auxiliary history.  The
FIFO queue is the instance with one priority.  `EnqueueAppend`/`EnqueuePush` and
`DequeuePop`/`DequeueAppend` are the halves of the two methods; `CrashAndOpen` is
`open`.  `reordered` records that two calls overlapped whose order in the log can
differ from their order in memory: two enqueues of one priority, two dequeues, or
an enqueue and the dequeue of something less urgent.  The run shows that these are
the only cases in which replay goes wrong, but for two that `OkMeansKept` names: an
item whose record was written behind a torn frame (`behind`), and one whose dequeue failed
once a later `Dequeue` record has been written, which replay takes for its own
(`superseded`).  Leaving out any one of them makes TLC find a violation.

### GroupWakeups and AtLeastOnce

State: `pending`, `leased`, `delayed`, each message's `delivery_count` and the `stream`
of its lease, the one `Notify` `changed`, and for each task where it is (`pc`), the
expired leases it has taken out (`taken`) and the delivery it works on (`held`).  `due`
has the leases and backoffs whose instant has passed.

| Code | Actions |
|---|---|
| `write_enqueue_record`'s push and notify | `Enqueue`, `EnqueueNotify` |
| `claim_impl`, `claim`, `reclaim_expired_leases`, `promote_ready_delayed`, `earliest_wake` | `ClaimCall`, `TakeExpired`, `Resolve`, `WakeAll`, `Check`, `ClaimNotify` |
| `notified().await`, with or without `timeout_at` | `Await`, `Wake`, `TimerFires` |
| the tools' time limit, while waiting and while resolving | `GiveUp`, `CancelReclaim` |
| `publish_partial_result`, `ack`, `nack` | `PublishPartialResult`, `PublishNotify`, `Ack`, `Nack`, `NackResolve`, `NackNotify` |
| a consumer that dies, and clocks | `Abandon`, `Elapse` |
| `partial_results_since` | `WatchCall`, `PartialResultsSince` |

`AtLeastOnce` knows, for each message, only its stage and its number of deliveries.
`ImplementsAtLeastOnce` maps queue and backoff list to "ready", a lease or a lease in a
task's hands to "out", and so on; TLC checks that every step is a step or a stutter of the
abstract specification and that its fairness (a ready message is delivered) follows from
that of the tasks.

### McpServer

State: what the registry holds for each tenant and queue (`groups`, `admission`, `dedup`,
`routes`, `quota`), the API keys, the audit log, the messages of each group in memory and
on disk, and for each client the call it is in and the locals it carries across awaits
(`task`).  `ghost` keeps what the properties need to remember: calls allowed, budget
spent, embeddings indexed, keys revoked.

| Code | Actions |
|---|---|
| `require_tenant`, `authorize_impl` | `StdioCall`, `RequireTenant`, `Authorize` |
| `registry.get`, name, id and key validation | `Get`, `RejectName`, `RejectId`, `RejectKey`, `RefuseTenant`, `RejectTenantId` |
| `enqueue_impl`, `tenant_pending_total` | `ResolveTargetQueue`, `Dedup`, `ReadPendingLimit`, `SumOne`, `ComparePending`, `Admit`, `Put`, `IndexAndReturn` |
| `claim_impl`, `ack_impl`, `nack_impl` | `Headroom`, `Claim`, `Ack`, `AckUnindex`, `Nack`, `LeaseCallFails` |
| `nack`, `reclaim_expired_leases`, `resolve_failed_delivery`, claim's time limit | `TakeOut` in `Nack` and `Reclaim`; `ResolveNacked`, `ResolveReclaimed` |
| checkpoint, streams, `list_dead_letters_impl` | `LookAtGroup` |
| dead-letter tools | `Triage`, `Reprocess`, `Purge`, `DeadLetterCallFails` |
| configuration and status tools, dashboard | `ConfigureAdmission`, `ConfigureRoute`, `ConfigureTenantQuota`, `AdmissionStatus`, `TenantQuotaStatus`, `TenantQuotaReport`, `DashboardQueues`, `DashboardTenants` |
| `ApiKeyStore::mint`, `revoke` | `MintLog`, `MintInsert`, `RevokeLook`, `RevokeLog`, `RevokeRemove` |
| the audit workers | `AuditReceive`, `AuditWrite` |
| time, restart | `Tick`, `Restart` |

Abstractions.  One call on a group is one step, with its effect on memory and on the logs;
its interleaving inside is `ConsumerGroup`'s subject.  A failing delivery is the exception:
`nack` and `reclaim_expired_leases` take messages out of `leased` under one lock and put
each where it belongs under another, and `len`, which the tenant's ceiling is compared
with, counts in between (`InHand`).  A group's append that fails leaves
no record here, and the other outcomes are in `ConsumerGroup`; the API keys' and the audit
log's appends have all of them, torn frames included.  Instants are ages that `Tick`
raises, capped at `MaxAge`, which is not below any window, so that no age that matters is
lost.  Payloads, checkpoints' data, chunks, metrics and tracing are left out, a retried
message is ready at once, and a cost is a whole number.

### GuardedCluster

State: the breaker, the cache and each caller's call (`HybridGuard`); each node's log
store, state machine store, vote, commit index and place in the network hub, with the
committed log as the history of the whole cluster (`RaftCluster`); the source of desired
members and the watcher's progress (`MembershipWatcher`).

`Begin`, `RecordSuccess`, `RecordFailure`, `SetCache` and `fall_back` are the locked
sections of `CircuitBreaker::call` and `HybridGuard::call`; `ClientWrite` and
`WriteReturns` are the guarded operation, as the repository's own test of the pair sets it
up.  `append_entries`, `install_snapshot`, `KeepInstalled`, `Apply`, `BuildSnapshot`,
`KeepBuilt` and `Purge` are calls on the stores, with the awaits of `build_snapshot` and
`install_snapshot` as places where other calls come in.  `Unreadable`, `Compare`,
`add_learner`, `LearnerAdded`, `change_membership`, `LeaveJoint`, `ChangeDone`, `Refused`
and `EmptyMembership` are `reconcile_once`, `Stop` and `Fails` are `run`.  `add_learner`
returns while the learner may still lag by openraft's threshold, which is far above the
bound on logs, so a learner with an empty log can be promoted at once.

openraft decides who leads, what is committed and how a membership changes; these actions
are external and keep only what determines the arguments of the storage calls.  A node
that is installing a snapshot already counts the snapshot's last entry as its last
(`Installing`): openraft keeps its log ids in memory and moves them on before the store
has purged anything.  A leader commits what it has (`Commit`'s guard on
`Len(committed) + 1 .. i`); TLC finds no state of the run in which that guard is what
keeps a leader from committing.  Stores are in memory, as in the code, so a node does not
come back after `shutdown`.

## 3. Runs

| Run | Bounds | Shows |
|---|---|---|
| `group` | nine workloads of at most 2 ids, 1 key, 3 calls at once, 4 claims per process, 2 checkpoints, 2 attempts, 2 crashes, 1 failed append or 1 cancelled claim | `OneHome`, `SomeHome`, `NoSilentLoss`, `FinishedStaysGone`, `MemoryMatchesWal`, `KeysNameMessages`, `TokensNameDeliveries`, `LeaseRespected`, `DeadLettersExhausted`, `CheckpointSurvives` |
| `group_purged_key` | 1 id, 1 key, 1 crash | `PurgedKeyReleased` is violated |
| `group_reprocess_crash` | 1 id, 1 crash | `CrashLosesNothing` is violated |
| `torn_frame` | 2 ids, 1 failed append | `OkSurvivesReopen` is violated |
| `fifo_queue` | 2 producers, 2 consumers, capacity 2, 5 items, fair | order, capacity, `EnqueueReturns`, `EveryItemReceived` |
| `fifo_lost_wakeup` | 1 producer, 2 consumers, unbounded, 2 items | `CoalescedWakeupNotLost` is violated |
| `persistent_queue` | 2 producers, 2 consumers, 2 priorities, 4 items, 1 crash, 1 failed append | `ReplayRebuilds`, `OkMeansKept`, `DeliveredOnce` |
| `group_wakeups` | four workloads of at most 2 messages, 2 consumers, 1 watcher, 2 attempts, 1 chunk per delivery; fair | `StreamOfThisDelivery`, `OnePlace`, `WatchReturns`, `ImplementsAtLeastOnce` |
| `mcp_server` | 3 clients, 2 tenants and stdio, 2 queues, 2 keys, 4 embeddings, 2 attempts; thirteen workloads | `BudgetHeld`, `RequestsHeld`, `PendingOvershootBounded`, `TenantIsolation`, `CollapsesOntoRecent`, `RevokedStaysRevoked` |
| `audit_sum` | the workload of the audit channel, with failed appends | `AuditSumKept` is violated |
| `guarded_cluster` | 3 nodes, 2 producers, 2 terms, threshold 2, 2 trial successes; ten workloads; fair | `CooldownHonoured`, `FallbackIsRecentCommit`, `AppliedMatchesCommitted`, `SnapshotMatchesCommitted`, `StableMembersStay`, `Settles` |
| `persistent_two_producers` | 2 producers, 1 consumer, FIFO, 2 items | `OkSurvivesCrash` is violated |

Why the bounds are enough for the question asked.  Two messages let one be late
while the other takes its token or its key; three calls let a late ack, a claim that
reclaims, and an enqueue of the released key overlap; two attempts give one retry
and one dead-lettering; four claims cover delivery, redelivery, dead-lettering,
and a delivery after a reprocess.  One crash suffices for most because a
crash forgets everything but the logs; a second one follows a log that was cut off.  The
nine workloads are: three calls of every kind but checkpoints in one process; two calls
with one crash, on two messages and on one that has a key; checkpoints and verdicts on one
message with a crash (each of these with one failed append, and with one cancelled claim
instead); and one call at a time with two crashes and a failed append.  Ids, keys, tasks
and verdicts are interchangeable, so symmetry is sound for the safety runs; the FIFO run
checks liveness and uses none.  `Rest` is the one step of a system whose calls have all
returned or wait for work.

The three composed runs and `group` choose a workload in the initial state: what each
client calls and which faults may happen.  That keeps questions that have nothing to do
with each other from multiplying, and each workload has its actors overlap freely.  In
`mcp_server` they are a ceiling of one pending message under two producers, and under one
while deliveries fail; a ceiling that is lowered; a budget and a rate filled exactly,
while time passes and status calls evict; both reconfigured under way; near-duplicates
with acks in between; one queue name used by two tenants and stdio; keys minted and
revoked over a failing log with restarts; a message that dies while two operators
reprocess, triage and purge it; leases that run out; the audit channel at its capacity;
and calls that are refused.  In `guarded_cluster` they are an operation that fails for a
while, behind the guard and behind the breaker alone; two producers and a change of
leader; a leader and a follower that compact their logs, then lag or vote; members that
join, replace each other, vanish from the source and come back; and a cluster that loses a
node, or its leader, in the middle of a change.  Deadlock is checked in every run but
`mcp_server` and `audit_sum`, whose clients end when they have made their calls.

Exceptions in the properties are single failures, each confined to the messages
it struck: `torn` is a dead-lettering cut between its two records
(`resolve_failed_delivery` accepts that duplicate), `stranded` is a message a failed
append or a dropped claim future took out of memory (`claim`'s and `ack`'s docs),
`raced` is a checkpoint that overlapped another or outlived its lease.  `Unreplayed` are
the messages of which some record lies behind a torn frame, and `truncated` (a part of
`torn`) those of which an open has cut one off: the code does lose such records, against
its documentation, which `torn_frame` shows; the other properties say that nothing else
is lost with them, no matter which messages' records the frame hides.  `NumberReused` is
a lease whose token a client of an earlier process holds for the same message.  `damaged`
in `RevokedStaysRevoked` is a log with a torn frame in it.  `exempt` in
`PendingOvershootBounded` has the messages that no sum counted: reprocessed, already there
when the quota was set, or in the hands of a nack or a reclaim when an enqueue read the
length of their queue.  `PendingOvershootBounded` states how far the check-then-act on the
ceiling can be off, which is by one message for each client that enqueues but the last.
A ceiling of zero counts as one: a call that was compared with a ceiling of one can put
its message after the ceiling has been lowered to zero, which `LoweredWorkload` has.

### What the violations show

* After a purge and a restart the purged message's key is bound again: the
  main WAL's `DeadLettered` record keeps the key, and the DLQ's `Remove` record
  does not release it (`consumer_group.rs:432-442, 1250`).
* A crash between the two records of `reprocess_dead_letter` loses the message:
  `take` removes it durably before the enqueue record exists
  (`consumer_group.rs:1226-1232`).
* Two pushes can coalesce into one permit while two consumers are between their
  check and their wait, and one of them sleeps beside an item (`fifo.rs:131-132`)
  until the next enqueue or the next call of another consumer.  `EveryItemReceived`
  shows the item itself is not lost as long as some consumer keeps asking.
* Two overlapping enqueues on a durable queue can be logged in one order and pushed
  in the other.  The payload-less `Dequeue` record of the first one taken then removes
  the other on replay: an item whose `enqueue` returned Ok is lost by a crash
  although nobody received it (`persistent_fifo.rs:95-104`).
* After an append that failed with part of its frame in the file, the next one returns Ok
  behind it and is not replayed (`wal.rs:189`), although "on `Ok`, `record` is durable"
  (`wal.rs:164-166`).  Every log of the system shares this: an acked message comes back, a
  dequeued item too, and a revoked key.
* An audit event whose append failed is counted neither as written nor as dropped
  (`audit.rs:176-181`), although the two are documented to add up to the events logged.

### Where the code and its comments disagree without a run of its own

Met while modelling; the runs check the weaker statement that does hold.

* `ack` does not wake stream watchers, and a watcher can absorb the `notify_one` meant
  for a consumer; only the server's time limits make both return (`WatchReturns`,
  `ImplementsAtLeastOnce`).  A watcher that carries its `after` over to a redelivery skips
  the new stream's first chunks.
* Messages between `leased` and `delayed` are in no count, so `enqueue` can push a tenant's
  total past the ceiling (`consumer_group.rs:606`) that `quota.rs:70-73` documents, and so
  can two enqueues that are compared with the same sum.
* After a failed `dequeue` the item is "still recoverable on the next restart" only until
  another `Dequeue` record is written.
* `has_headroom` is false also when a budget is filled exactly; `reprocess_dead_letter`
  adds to the pending messages without being compared with the tenant's ceiling; an
  enqueue that its key makes a repetition is charged to the budget.
* An older value can overwrite a newer one in the fallback cache.
* A success of a call admitted before the circuit opened counts in a later half-open
  trial.
* `dedup.insert` after the enqueue can index a message that has been acked already.
* A node that cannot be added as a learner blocks the removals of the same poll; a
  watcher whose own node has been removed can no longer reconcile; learners that a failed
  poll left behind are never removed; a change that failed in its joint phase can look
  finished.
* A snapshot that took long to build can replace a newer installed one, and be older
  than what the log has purged.

### Fairness

Weak fairness of a call's own steps is what the tokio runtime gives a ready task (its
mutex is first-come-first-served, so a locked section is a finite wait).

* `fifo_queue`: `DequeueCall` is fair, which says consumers loop; without it nobody needs
  to receive anything.  Producers are never forced to call.
* `group_wakeups`: besides, instants pass, the tools' time limit ends a wait (`mcp.rs`
  wraps both in a timeout), consumers do not hold a delivery for ever, and consumers ask
  again.  Watchers and producers need not come back.
* `guarded_cluster`: only where `Settles` says something.  In the outage workloads callers
  call again and time passes.  In the steady ones openraft keeps replicating, nodes that
  were started register, the watcher polls (`run` loops for ever), and the source changes
  as the workload says; the watcher's node leads until a change removes it.

## 4. Proofs

TLAPS proves the following for every value of the constants: every set of ids, keys,
tasks, producers, consumers, messages, callers, tenants, queues and nodes, every retry
limit, capacity, duration and bound, every number of crashes and faults.  Each inductive
invariant was checked with TLC, on an instance of the runs, before it was proved.  Every
invariant the passing runs check is a theorem but `AppliedMatchesCommitted` and
`SnapshotMatchesCommitted` of `GuardedCluster`.

### ConsumerGroup

* `TypeCorrect`: `Spec => []TypeOK`.  `TypeOK` is inductive because the call record's type
  says at which steps a call has an entry or a grant in hand.
* `TokensUnique`: `Spec => []TokensNameDeliveries`.  Uniqueness alone is not inductive: a
  claim could repeat an old token.  `TokenInv` adds that every grant of this process is
  below the counter and no grant is from the future, so the proof splits into the claim
  (which takes the counter), the restart (whose grants belong to a new epoch) and
  everything else (`LeasesKept`).
* `RetryLimit`: `Spec => []DeadLettersExhausted`.  What leases and dead letters hold came
  from elsewhere: `RetryInv` bounds the delivery count of every copy of a message by its
  place (waiting: below the limit; delivered or being resolved: between 1 and the limit;
  dead: at the limit), including the copies in the hands of calls.
* `MessageHasOneHome`, `FinishedNeverReturns`, `LogsMatchMemory`: `Spec => []OneHome`,
  `[]FinishedStaysGone`, `[]MemoryMatchesWal`.  The three need each other.  That a message
  is in one place in memory is destroyed by a restart unless the logs agree with memory;
  the logs agree only if no two calls hold the message at once; and what is over stays
  over only if no call still carries it to a log.  `HomeInv` says all of it for each
  message whose dead-lettering was not cut and none of whose records an open cut off: at
  most one place, list position or hand (`Sole`), what each of the two logs may hold given
  where the message is (`LogAgrees`, `DlqLogAgrees`), and what its fate excludes
  (`FateAgrees`).  Most steps leave every message but one alone, so one lemma (`SameRoles`
  and what follows from it) serves them; the claim's promotion of the backoff list rests
  on `SubsequenceLemmas`. A torn frame adds a second pair of logs, the one a replay would
  find.  Nothing is proved of a message whose records differ in the two: `Unreplayed`
  compares them, and an open puts those messages into `torn`; for the others the two pairs
  agree.
* `LeasesAreRespected`: `Spec => LeaseRespected`, an action property, from `TokensUnique`:
  a call that ends a lease has its token, so it has its grant, of this process or of an
  earlier one.  Tokens start again after a restart, so in the latter case a client of a
  previous process holds the lease's number (`NumberReused`).
* `NothingSilentlyLost`, `MessageHasSomeHome`: `Spec => []NoSilentLoss` and `[]SomeHome`.
  They hold for messages cut between two records as well (though not for `truncated`
  ones), which may be in several places, so `HomeInv` says nothing of them.  `LossInv`
  counts instead: every copy in memory and in a call's hands that an ack or a
  `DeadLettered` record may yet strike out of the log has a record of its own there
  (`Backed`), and an accepted message is a dead letter in its log, or is being
  reprocessed, or has more records than `DeadLettered` records are due (`Durable`).
* `CheckpointsSurvive`: `Spec => []CheckpointSurvives`.  `reprocess_dead_letter` enqueues
  the payload anew, without its checkpoint, so it starts what was confirmed over.  A
  lease's checkpoint is written twice, to the log and then to memory, and between the two
  the lease may expire and the message be claimed again.  `CheckpointInv` says that every
  copy that is neither `raced` nor `torn` is at least as new as what was confirmed, in
  memory, in the hands of calls and in both logs, and that a call between its steps
  carries something no older than the log has.  That a leased message has no other copy
  that would miss a new checkpoint is `HomeInv`.
* `KeysStandForMessages`: `Spec => []KeysNameMessages`, which speaks of states before the
  first restart: after one the binding does not hold (`group_purged_key`).  The
  invariant runs both ways: wherever a message of the process is, in a queue, a lease, the
  dead letters or the hands of a call, it carries the key that stands for it (`Tagged`);
  and a key stands for a message that is accepted or being enqueued, is stranded, or is
  about to be released by exactly one call (`KeyOf`).

### FifoQueue and PersistentQueue

* `FifoOrder`: `Spec => []InOrderWithinCapacity`, with `TypeOK` inductive; and
  `TypeCorrect`.
* `OkIsKept`, `NeverDeliveredTwice`, `ReplayIsExact`: `Spec => []OkMeansKept`,
  `[]DeliveredOnce`, `[]ReplayRebuilds`.  A `Dequeue` record has no payload: on replay it
  removes whatever is first.  It removes the right item if the first of the log is the
  item the consumer has in its hand, which is a fact about two orders.  `QueueInv` says
  that the log is in the order of the items' numbers, that memory is so within a priority,
  that an item in a producer's hand comes after those in memory and one in a consumer's
  hand before everything, that all of them that were not written behind a torn frame are
  in the log, with the items whose dequeue failed as long as no `Dequeue` record stands
  for them, and, without failed appends, that nothing else is.  It is required only while
  `~reordered`, and `reordered` is set exactly by the overlaps that break it.

### GroupWakeups

* `TypeCorrect`, `StreamIsOfOneDelivery`, `MessageInOnePlace`: `Spec => []TypeOK`,
  `[]StreamOfThisDelivery`, `[]OnePlace`.
* `SafelyAtLeastOnce`: every behaviour of `Spec` satisfies the abstract initial condition
  and every step is a step of `AtLeastOnce` or a stutter, under the mapping of
  `ImplementsAtLeastOnce`.  The mapping reads a message's stage off the first place it is
  found in, so a step is an abstract step only when there is no second place (`Places`),
  and a delivery is within the limit only when what is queued has a delivery left
  (`Counts`).  The abstract fairness stays with TLC.

### McpServer

* `TenantsIsolated`: `Spec => []TenantIsolation`.  The property is about answers; what
  makes it inductive is where answers come from.  `TenantInv` says that every id in a
  scope's group, in memory and on disk (ready, leased, dead, and bound to an idempotency
  key), and every key of its embedding index, is of a message enqueued into that scope
  (`Holds`, `Indexes`); that a call past the check of its queue's name has a queue, so
  that its scope is its tenant's (`Placed`); that routes lead to queues; and that keys
  authenticate tenants only, also as the log would rebuild them (`KeysOfTenants`).  A
  message never changes scopes (`Grows`), so what holds for one client survives the steps
  of the others.
* `CollapsesAreSound`: `Spec => CollapsesOntoRecent`, an action property.  `AgedInv` says
  that an index entry younger than the TTL has, in `ghost`, an embedding of the same
  message and age.  Entries and memory age together but are capped and forgotten
  differently, which is why the TTL must not exceed `MaxAge`; and an insertion overwrites
  what is remembered of one message only, which no other scope's index has, by
  `TenantInv`.
* `RevocationsHold`: `Spec => []RevokedStaysRevoked`.  `mint` writes its record and inserts
  the key later, and `revoke` removes it after its own record, so the danger is an insert,
  or a replay, that comes after the removal.  `RevokedInv` says, of a log without a torn
  frame, that a key still to be drawn is nowhere but in the record of the one mint that
  draws it (`Unused`, `DrawnOnce`), and that a key whose `Revoke` record is written is not
  live in the log; a revoked key can then be minted by nobody and replayed by nobody.
* `OvershootIsBounded`: `Spec => []PendingOvershootBounded`.  A sum that is taken queue by
  queue is of no one moment.  The proof numbers messages in the order they were put and
  keeps, for each tenant, three histories that exist although the model does not record
  them (`OvershootInv`): the last message each client put (`last`), how many there were
  when its call looked at the ceiling (`since`), and a point (`base`) below which fewer
  than the ceiling are left.  Every message is below the base or is some client's last,
  and what a call has summed is at least the messages from before it looked that are left
  in the queues it has passed (`Checked`): queues only lose messages of that age, and
  one that comes back from a call's hands was exempt when its queue was passed.  So the
  next message put moves the base to its caller's `since`.  `OpenInv` has the messages in
  queues that the sum visits, `SumInv` the sum at queues that exist.
* `CallsAreMetered`: `Spec => []RequestsHeld`.  The calls allowed since the quota was set
  that are still in the window are, counted from the last, the calls on record
  (`OnRecord`), whoever evicted what; and a call is only allowed while the record is
  shorter than the limit (`Rated`).
* `SpendingIsMetered`: `Spec => []BudgetHeld`.  The same alignment for what was spent
  (`Charged`); besides, the sum of the last entries of a record is at most the sum of all
  of it, and appending adds what is appended.  `Total` is a recursive function, so those
  facts need induction; `SetInduction` states induction over the naturals for sets in
  place of predicates, which needs no operator parameter.
* `TypeCorrect`: `Spec => []TypeOK`.  Most of `TypeOK` is part of `TenantInv`, `SumInv`,
  `RateInv` and `BudgetInv`.  `RoomInv` adds that the audit channel never exceeds its
  capacity, since `log` looks for room before it sends; `RepliesInv`, that a wait a
  throttled client is told is of one tick at least and `MaxAge` at most.  It is never zero
  because the oldest request or charge is younger than the window whenever a client is
  told to wait for it to leave.

### GuardedCluster

* `TypeCorrect`: `Spec => []TypeOK`: with the exact counts of the breaker, each below its
  threshold, and every log's entries at their indexes.  The parts about the stores need
  `MembersInv`: a follower's log stays within its bounds because what it is sent is an
  entry of another node's log.
* `CooldownIsHonoured`: `Spec => []CooldownHonoured`, inductive with the types of the
  breaker's fields.
* `FallbackServesFresh`: what a fallback serves was put in the cache less than a TTL ago.
  This is the first conjunct of `FallbackIsRecentCommit`.  `CacheInv` says of each cached
  value that it is the trace of a recent success, however the cache is overwritten,
  expires or is read meanwhile.  The second conjunct, that the value was committed, is a
  statement about Raft.
* `StableMembersNeverLeave`: `Spec => []StableMembersStay`.  The watcher reads the source
  once and then makes up to four changes, each of them on the membership its node goes by
  at that moment, which may come from another leader, from an entry that is never
  committed, or from a snapshot.  No agreement is needed: with K the stable voters, no
  membership that leaves out one of K is ever made.  `ClusterInv(K)` says so of every
  membership anywhere, in logs, state machines, snapshots kept, built or under
  installation, and the committed log, whose last configuration contains K
  (`Memberships(K)`); `WatcherInv(K)` says that no version of the source, and nothing the
  watcher is about to remove, touches K.  A node with no membership at all would propose
  one without K, so the invariant adds that the first entry of every log is a membership,
  that a state machine which has applied anything, or has a snapshot, has one, and that a
  leader goes by one (`Knows`).

### Assumptions

They are named in the modules and TLC evaluates them in the runs: `None` is no other value
(`OptionAssumption`, `NoneAssumption`, ...), a capacity is positive, producers and
consumers are different tasks, bounds and durations are naturals, there is a key and a
value (`KeysAssumption`), and workloads have the shape their module reads
(`WorkloadsAssumption`).  For the server: what clients call are well-formed calls of the
tools (`CallsAssumption`), the keys on disk at the start were minted for tenants, a signed
token names a tenant or nobody, and stdio is no tenant (`TenantsAssumption`); no key is
drawn twice, nor one that is in the log already (`KeysAssumption`: `generate_raw_key` has
256 random bits); what a workload configures is a budget and a quota, as is the default,
an hour or a minute (`LimitsAssumption`); there are finitely many audit workers and calls
in progress, and the channel's capacity is a natural (`WorkersAssumption`); and the bound
on ages is not below the TTL (`AgesAssumption`).  For the cluster: nodes are naturals
(`NodesAssumption`, as `NodeId` is), the bounds leave room for the two entries of an
initialized log (`BoundsAssumption`), the watcher's handle is a node's
(`HandleAssumption`) and a voter's at the start, thresholds are naturals
(`ThresholdsAssumption`), zero included.

No theorem of a specification has a hypothesis of its own: what a failure may take away is
said in the property, and the run and the theorem state the same one.

### Only model-checked

* Liveness under fairness, and ENABLED, are outside the prover's reach:
  `EnqueueReturns`, `EveryItemReceived`, `WatchReturns`, `Settles`, the fairness of
  `AtLeastOnce`.
* `AppliedMatchesCommitted`, `SnapshotMatchesCommitted` and the second half of
  `FallbackIsRecentCommit` say that nodes agree, which is the safety of Raft with joint
  memberships: that two quorums of successive configurations meet, and that a leader has
  every committed entry.  openraft is external here, and its model keeps only what decides
  the arguments of the storage calls, so that proof would be about another program.

## 5. Not modelled, and the plan

What the plan had is done: every component the inventory calls modelled has its module, its
run and its theorems.  No module that is proved about uses a RECURSIVE operator.

Left out for good: floating-point similarity, hashing and the verification of JWTs, the
inside of openraft, HTTP, metrics and tracing, process start-up, the wire types (immutable
values), the empty client crate, and the backoff's arithmetic in real time.  The priority
queue's waiting protocol is the FIFO queue's line by line and is not modelled twice.  A
restart of a Raft node is not modelled because its stores do not persist anything.
