--------------------------- MODULE ConsumerGroup ---------------------------
(***************************************************************************)
(* qaas-core's consumer group (crates/qaas-core/src/consumer_group.rs)     *)
(* with its dead-letter queue (dead_letter.rs) and retry policy (retry.rs):*)
(* a work queue with leases, at-least-once delivery, producer-side         *)
(* idempotency keys, workflow checkpoints, and two write-ahead logs.       *)
(*                                                                         *)
(* Every async method is cut at its awaits: what the code does while it    *)
(* holds the state lock is one step, each WAL append is one step, and the  *)
(* steps of concurrent calls interleave freely.  Between steps a call      *)
(* remembers its locals in call[t].                                        *)
(*                                                                         *)
(* A WAL is represented by the accumulator of the replay loop: `open` is a *)
(* left fold over the records, so folding each record in as it reaches the *)
(* file yields what a restart at that moment would rebuild.  An append     *)
(* that fails half-way leaves a torn frame in the file: what the fold was  *)
(* there is remembered too, because replay stops there and `open` cuts off *)
(* everything behind it, records whose append returned Ok included.        *)
(***************************************************************************)
EXTENDS Naturals, FiniteSets, SequencesExt, Subsequences

CONSTANTS
    Ids,             \* message ids; MessageId::new() takes an unused one
    Keys,            \* producer-supplied idempotency keys
    Tasks,           \* the calls that can be in progress at once
    Verdicts,        \* triage verdicts
    None,            \* Rust's Option::None
    MaxAttempts,     \* RetryPolicy::max_attempts; None retries forever
    Workloads        \* bound: what clients and failures do in one behaviour

AllOps == {"enqueue", "enqueue_with_key", "duplicate", "claim", "ack", "nack", "checkpoint",
           "annotate", "reprocess", "purge"}

\* The operations called, and at most how many messages, calls in progress, claims
\* per process lifetime, calls of checkpoint, crashes (each followed by a restart),
\* failed WAL appends, and claim futures dropped by a caller's timeout.
WorkloadType == [ops : SUBSET AllOps, messages : Nat, callers : Nat, claims : Nat,
                 saves : Nat, crashes : Nat, faults : Nat, cancels : Nat]

ASSUME NoneAssumption == None \notin Ids \cup Keys \cup Verdicts \cup Nat
ASSUME MaxAttemptsAssumption == MaxAttempts \in Nat \cup {None}
ASSUME WorkloadsAssumption == Workloads \subseteq WorkloadType

VARIABLES
    \* State<T>, behind the state lock
    pending,           \* VecDeque<Pending<T>>
    leased,            \* HashMap<MessageId, Leased<T>>
    delayed,           \* Vec<Delayed<T>>
    dedup,             \* HashMap<IdempotencyKey, MessageId>
    next_lease_token,
    \* DeadLetterQueue<T>::entries, behind its own lock
    dlq,
    \* what the records in the main WAL's file add up to
    wal_pending, wal_dedup, wal_checkpoints,
    \* what the records in the DLQ's WAL add up to
    dlq_wal,
    \* what the records before a file's first torn frame add up to, if it has one
    wal_tear, dlq_tear,
    \* the calls in progress and their locals
    call,
    \* auxiliary: what clients hold and were told, and what went wrong
    grants,            \* every (id, token) handed out by a claim
    fate,              \* each message's history as its producer and consumers see it
    promised,          \* ids returned to an enqueue recognised as a duplicate
    torn,              \* ids whose dead-lettering was cut between its two records,
                       \* or one of whose records an open has cut off
    truncated,         \* the latter
    stranded,          \* durable ids this process dropped: failed append or cancelled claim
    saved, raced,      \* confirmed checkpoints; ids whose checkpoint calls raced
    saves, epoch, faults, cancels,
    workload           \* the clients and the failures of this behaviour

memVars == <<pending, leased, delayed, dedup, next_lease_token>>
walVars == <<wal_pending, wal_dedup, wal_checkpoints>>
tearVars == <<wal_tear, dlq_tear, truncated>>
cpVars  == <<saved, raced, saves>>
auxVars == <<grants, fate, promised, torn, stranded, cpVars, epoch, faults, tearVars,
             cancels, workload>>
vars == <<memVars, dlq, walVars, dlq_wal, call, auxVars>>

-----------------------------------------------------------------------------
(* Types.  The payload `item` travels with the id and never changes.        *)

\* Pending<T>: a message waiting to be claimed.  Checkpoint values are
\* numbered by the checkpoint call that wrote them; 0 stands for None.
Entry == [id : Ids, key : Keys \cup {None}, delivery_count : Nat, checkpoint : Nat]

\* Leased<T>; `expired` abstracts expires_at <= now.
Lease == [entry : Entry, token : Nat, expired : BOOLEAN]

\* Delayed<T>; `ready` abstracts available_at <= now.
Delayed == [entry : Entry, ready : BOOLEAN]

\* DeadLetter<T>, without its timestamps and error text.
DeadLetter == [entry : Entry, triage : Verdicts \cup {None}]

\* WalRecord::Enqueue, as replay keeps it.
WalEnqueue == [id : Ids, key : Keys \cup {None}]

\* The accumulators of the two replay loops.
WalState == [pending : Seq(WalEnqueue), dedup : [Keys -> Ids \cup {None}],
             checkpoints : [Ids -> Nat]]
DlqState == [Ids -> DeadLetter \cup {None}]

\* An Option holding one of these is not None.
ASSUME OptionAssumption == None \notin Lease \cup DeadLetter \cup WalState \cup DlqState

\* What a consumer carries away from a claim; epoch is auxiliary.
Grant == [id : Ids, token : Nat, epoch : Nat]

\* Not yet minted; being enqueued; enqueued with Ok; refused with an error;
\* durably acked or removed by a purge; that purge returned; lost by a reprocess.
Fates == {"unused", "inflight", "accepted", "failed", "done", "purged", "dropped"}

Steps == {"idle", "enqueue_wal", "enqueue_undo", "enqueue_push", "pop", "blocked",
          "ack_wal", "resolve", "dlq_insert", "dead_lettered", "checkpoint_wal",
          "checkpoint_set", "take_wal", "purge_release", "annotate_wal",
          "annotate_set"}

\* The steps at which a call has a message, or a consumer's grant, in hand.
EntrySteps == {"enqueue_wal", "enqueue_undo", "enqueue_push", "dlq_insert",
               "dead_lettered", "checkpoint_wal", "checkpoint_set", "take_wal",
               "purge_release", "annotate_wal", "annotate_set"}
GrantSteps == {"ack_wal", "checkpoint_wal", "checkpoint_set"}

\* The locals a call keeps across its awaits.
Locals == [op : AllOps \cup {None}, pc : Steps, entry : Entry \cup {None},
           grant : Grant \cup {None}, batch : SUBSET Entry,
           verdict : Verdicts \cup {None}]
Call == {c \in Locals : /\ c.pc \in EntrySteps => c.entry \in Entry
                        /\ c.pc \in GrantSteps => c.grant \in Grant}

Idle == [op |-> None, pc |-> "idle", entry |-> None, grant |-> None,
         batch |-> {}, verdict |-> None]

\* A message as write_enqueue_record pushes it: never delivered, no checkpoint.
NewEntry(id, key) == [id |-> id, key |-> key, delivery_count |-> 0, checkpoint |-> 0]

-----------------------------------------------------------------------------
(* Helpers                                                                  *)

\* HashMap::insert and HashMap::remove on a dedup map; a message without a
\* key (key = None) leaves it alone.
Bind_KeyForId(map, key, id) == [k \in Keys |-> IF k = key THEN key ELSE map[k]]
Bind(map, key, id) == [k \in Keys |-> IF k = key THEN id ELSE map[k]]
Release_Forgotten(map, key) == map
Release(map, key) == Bind(map, key, None)

\* RetryPolicy::is_exhausted.
is_exhausted_Late(delivery_count) == MaxAttempts # None /\ delivery_count > MaxAttempts
is_exhausted(delivery_count) == MaxAttempts # None /\ delivery_count >= MaxAttempts

\* iter().position(|entry| entry.id == id)
IsPosition(s, id, i) == /\ i \in DOMAIN s
                        /\ s[i].id = id
                        /\ \A j \in 1..(i-1) : s[j].id # id

\* What replaying the main WAL would rebuild if no frame in it were torn.
CurrentWal == [pending |-> wal_pending, dedup |-> wal_dedup,
               checkpoints |-> wal_checkpoints]

\* replay stops at the first torn frame.
ReplayedWal == IF wal_tear = None THEN CurrentWal ELSE wal_tear
ReplayedDlq == IF dlq_tear = None THEN dlq_wal ELSE dlq_tear

\* Wal::append succeeds, or fails with the whole record in the file (fsync), or
\* with part of its frame (write_all), or with nothing of it.
AppendResult == {r \in [ok : BOOLEAN, durable : BOOLEAN, tears : BOOLEAN] :
                   (r.ok => r.durable) /\ (r.tears => ~r.durable)}

Append1(r) == /\ r \in AppendResult
              /\ r.ok \/ faults < workload.faults
              /\ faults' = IF r.ok THEN faults ELSE faults + 1
              /\ UNCHANGED truncated

\* An append to the main WAL, and one to the DLQ's.
WalAppend(r) == /\ Append1(r)
                /\ wal_tear' = IF r.tears THEN ReplayedWal ELSE wal_tear
                /\ UNCHANGED dlq_tear
DlqAppend(r) == /\ Append1(r)
                /\ dlq_tear' = IF r.tears THEN ReplayedDlq ELSE dlq_tear
                /\ UNCHANGED wal_tear

\* Replaying one record on top of the state the log already stands for.
ApplyEnqueue(e) ==
    /\ wal_pending' = Append(wal_pending, [id |-> e.id, key |-> e.key])
    /\ wal_dedup' = Bind(wal_dedup, e.key, e.id)

ApplyAck_Ignored(id) == UNCHANGED <<wal_pending, wal_dedup>>
ApplyAck(id) ==
    \/ \E i \in DOMAIN wal_pending :
         /\ IsPosition(wal_pending, id, i)
         /\ wal_pending' = RemoveAt(wal_pending, i)
         /\ wal_dedup' = Release(wal_dedup, wal_pending[i].key)
    \/ /\ \A i \in DOMAIN wal_pending : wal_pending[i].id # id
       /\ UNCHANGED <<wal_pending, wal_dedup>>

\* The behaviour before the record existed: a dead letter resurrects as pending.
ApplyDeadLettered_Ignored(id) == UNCHANGED wal_pending
\* Taking the front of the queue for the message.
ApplyDeadLettered_Front(id) == wal_pending # <<>> /\ wal_pending' = Tail(wal_pending)
ApplyDeadLettered(id) ==
    \/ \E i \in DOMAIN wal_pending :
         /\ IsPosition(wal_pending, id, i)
         /\ wal_pending' = RemoveAt(wal_pending, i)
    \/ /\ \A i \in DOMAIN wal_pending : wal_pending[i].id # id
       /\ UNCHANGED wal_pending

-----------------------------------------------------------------------------
(* Calls                                                                    *)

Busy == {t \in Tasks : call[t].pc # "idle"}
Starts(t, op) == /\ op \in workload.ops
                 /\ call[t].pc = "idle"
                 /\ Cardinality(Busy) < workload.callers
At(t, pc) == call[t].pc = pc
Goto(t, pc) == call' = [call EXCEPT ![t].pc = pc]
Return(t) == call' = [call EXCEPT ![t] = Idle]

\* Does the (id, token) pair a client presents match an active lease?
Holds_AnyToken(g) == leased[g.id] # None
Holds(g) == leased[g.id] # None /\ leased[g.id].token = g.token

-----------------------------------------------------------------------------
(* enqueue, enqueue_with_key                                                *)

\* The dedup check and the reservation of the key, under one lock.
EnqueueReserve(t) ==
    /\ Cardinality({id \in Ids : fate[id] # "unused"}) < workload.messages
    /\ \E id \in Ids, key \in Keys \cup {None} :
         /\ Starts(t, IF key = None THEN "enqueue" ELSE "enqueue_with_key")
         /\ fate[id] = "unused"
         /\ key # None => dedup[key] = None
         /\ dedup' = Bind(dedup, key, id)
         /\ fate' = [fate EXCEPT ![id] = "inflight"]
         /\ call' = [call EXCEPT ![t] = [Idle EXCEPT !.op = "enqueue",
                                                     !.pc = "enqueue_wal",
                                                     !.entry = NewEntry(id, key)]]
    /\ UNCHANGED <<pending, leased, delayed, next_lease_token, dlq, walVars, dlq_wal,
                   grants, promised, torn, stranded, cpVars, epoch, faults, tearVars, cancels,
                   workload>>

\* A key already in the map: Ok(existing id), without touching anything.
EnqueueDuplicate(t) ==
    /\ Starts(t, "duplicate")
    /\ \E key \in Keys : /\ dedup[key] # None
                         /\ promised' = promised \cup {dedup[key]}
    /\ UNCHANGED <<memVars, dlq, walVars, dlq_wal, call, grants, fate, torn,
                   stranded, cpVars, epoch, faults, tearVars, cancels,
                   workload>>

\* write_enqueue_record's append, on behalf of an enqueue or of a reprocess.
WriteEnqueueRecord(t) ==
    /\ At(t, "enqueue_wal")
    /\ \E r \in AppendResult :
         /\ WalAppend(r)
         /\ IF r.durable THEN ApplyEnqueue(call[t].entry)
                         ELSE UNCHANGED <<wal_pending, wal_dedup>>
         /\ Goto(t, IF r.ok THEN "enqueue_push" ELSE "enqueue_undo")
         /\ fate' = [fate EXCEPT ![call[t].entry.id] =
                        IF r.ok THEN @
                        ELSE IF call[t].op = "enqueue" THEN "failed"
                        ELSE IF r.durable THEN @ ELSE "dropped"]
         /\ stranded' = IF r.durable /\ ~r.ok THEN stranded \cup {call[t].entry.id}
                                              ELSE stranded
    /\ UNCHANGED <<memVars, dlq, wal_checkpoints, dlq_wal, grants, promised, torn,
                   cpVars, epoch, cancels, workload>>

\* The append failed: give the key back and report the error.
EnqueueUndo(t) ==
    /\ At(t, "enqueue_undo")
    /\ dedup' = Release(dedup, call[t].entry.key)
    /\ Return(t)
    /\ UNCHANGED <<pending, leased, delayed, next_lease_token, dlq, walVars, dlq_wal,
                   auxVars>>

PushPending(t) ==
    /\ At(t, "enqueue_push")
    /\ pending' = Append(pending, call[t].entry)
    /\ fate' = [fate EXCEPT ![call[t].entry.id] = IF @ = "inflight" THEN "accepted" ELSE @]
    /\ Return(t)
    /\ UNCHANGED <<leased, delayed, dedup, next_lease_token, dlq, walVars, dlq_wal,
                   grants, promised, torn, stranded, cpVars, epoch, faults, tearVars, cancels,
                   workload>>

-----------------------------------------------------------------------------
(* claim                                                                    *)

Expired == {id \in Ids : leased[id] # None /\ leased[id].expired}

\* The lease map after removing the given ids.
Without_Kept(ids) == leased
Without(ids) == [id \in Ids |-> IF id \in ids THEN None ELSE leased[id]]

\* The bound on claims, counting the ones still looking for a message.
MayClaim ==
    next_lease_token + Cardinality({u \in Tasks : call[u].op = "claim"}) < workload.claims

\* reclaim_expired_leases' locked part, at the top of claim's loop: every
\* expired lease leaves the map and becomes a local of this call.
ReclaimExpired(t) ==
    /\ \/ Starts(t, "claim") /\ MayClaim
       \/ At(t, "blocked")
    /\ leased' = Without(Expired)
    /\ call' = [call EXCEPT ![t] =
                  [Idle EXCEPT !.op = "claim",
                               !.pc = IF Expired = {} THEN "pop" ELSE "resolve",
                               !.batch = {leased[id].entry : id \in Expired}]]
    /\ UNCHANGED <<pending, delayed, dedup, next_lease_token, dlq, walVars, dlq_wal,
                   auxVars>>

ReadyPositions == {i \in DOMAIN delayed : delayed[i].ready}

\* promote_ready_delayed: the two halves of `delayed`, each in its old order.
\* A promoted entry keeps its delivery count, its key and its checkpoint.
Promoted_Restarted(f) == [k \in DOMAIN f |-> [delayed[f[k]].entry EXCEPT !.checkpoint = 0]]
Promoted(f) == [k \in DOMAIN f |-> delayed[f[k]].entry]
StillDelayed_Drained(f) == <<>>
StillDelayed(f) == Pick(delayed, f)

\* The lease a claim grants, under a token from the process-local counter.
NewLease_SameToken(entry) == [entry |-> entry, token |-> 0, expired |-> FALSE]
NewLease(entry) == [entry |-> entry, token |-> next_lease_token, expired |-> FALSE]

\* The second locked part: promote_ready_delayed, then either lease the front of
\* the queue or go to sleep on `changed`.
PopPending(t) ==
    /\ At(t, "pop")
    /\ \E ready \in Ascending(ReadyPositions),
          waiting \in Ascending(DOMAIN delayed \ ReadyPositions) :
         LET queue == pending \o Promoted(ready)
             entry == [Head(queue) EXCEPT !.delivery_count = @ + 1]
         IN /\ delayed' = StillDelayed(waiting)
            /\ \/ /\ queue = <<>>
                  /\ pending' = queue
                  /\ Goto(t, "blocked")
                  /\ UNCHANGED <<leased, next_lease_token, grants>>
               \/ /\ queue # <<>>
                  /\ pending' = Tail(queue)
                  /\ leased' = [leased EXCEPT ![entry.id] = NewLease(entry)]
                  /\ next_lease_token' = next_lease_token + 1
                  /\ grants' = grants \cup {[id |-> entry.id, token |-> NewLease(entry).token,
                                             epoch |-> epoch]}
                  /\ Return(t)
    /\ UNCHANGED <<dedup, dlq, walVars, dlq_wal, fate, promised, torn, stranded, cpVars,
                   epoch, faults, tearVars, cancels,
                   workload>>

\* The caller's timeout drops the claim future at one of its awaits, and the
\* call's locals with it.
CancelClaim(t) ==
    /\ call[t].op = "claim"
    /\ cancels < workload.cancels
    /\ cancels' = cancels + 1
    /\ stranded' = stranded \cup {e.id : e \in call[t].batch}
                            \cup (IF At(t, "dlq_insert") THEN {call[t].entry.id} ELSE {})
    /\ torn' = torn \cup (IF call[t].pc \in {"dlq_insert", "dead_lettered"}
                          THEN {call[t].entry.id} ELSE {})
    /\ Return(t)
    /\ UNCHANGED <<memVars, dlq, walVars, dlq_wal, grants, fate, promised, cpVars,
                   epoch, faults, tearVars, workload>>

-----------------------------------------------------------------------------
(* ack, nack                                                                *)

\* A pair that matches no active lease returns Ok(false) and changes nothing.
AckRelease(t) ==
    /\ Starts(t, "ack")
    /\ \E g \in grants :
         /\ Holds(g)
         /\ leased' = [leased EXCEPT ![g.id] = None]
         /\ dedup' = Release(dedup, leased[g.id].entry.key)
         /\ call' = [call EXCEPT ![t] = [Idle EXCEPT !.op = "ack", !.pc = "ack_wal",
                                                     !.grant = g]]
    /\ UNCHANGED <<pending, delayed, next_lease_token, dlq, walVars, dlq_wal, auxVars>>

AckAppend(t) ==
    /\ At(t, "ack_wal")
    /\ \E r \in AppendResult :
         /\ WalAppend(r)
         /\ IF r.durable THEN ApplyAck(call[t].grant.id)
                         ELSE UNCHANGED <<wal_pending, wal_dedup>>
         /\ fate' = [fate EXCEPT ![call[t].grant.id] = IF r.durable THEN "done" ELSE @]
         /\ stranded' = IF r.durable THEN stranded ELSE stranded \cup {call[t].grant.id}
    /\ Return(t)
    /\ UNCHANGED <<memVars, dlq, wal_checkpoints, dlq_wal, grants, promised, torn,
                   cpVars, epoch, cancels, workload>>

NackRelease(t) ==
    /\ Starts(t, "nack")
    /\ \E g \in grants :
         /\ Holds(g)
         /\ leased' = [leased EXCEPT ![g.id] = None]
         /\ call' = [call EXCEPT ![t] = [Idle EXCEPT !.op = "nack", !.pc = "resolve",
                                                     !.grant = g,
                                                     !.batch = {leased[g.id].entry}]]
    /\ UNCHANGED <<pending, delayed, dedup, next_lease_token, dlq, walVars, dlq_wal,
                   auxVars>>

-----------------------------------------------------------------------------
(* resolve_failed_delivery, called by nack for its one message and by      *)
(* reclaim_expired_leases for each of its batch.                            *)

\* One delivery is resolved: on to the next, or back to the caller.
Resolved(t, rest) ==
    call' = [call EXCEPT ![t] =
        IF rest # {} THEN [@ EXCEPT !.pc = "resolve", !.entry = None, !.batch = rest]
        ELSE IF @.op = "claim" THEN [Idle EXCEPT !.op = "claim", !.pc = "pop"]
        ELSE Idle]

\* Attempts left: wait out the backoff.
RetryLater(t) ==
    /\ At(t, "resolve")
    /\ \E e \in call[t].batch :
         /\ ~is_exhausted(e.delivery_count)
         /\ delayed' = Append(delayed, [entry |-> e, ready |-> FALSE])
         /\ Resolved(t, call[t].batch \ {e})
    /\ UNCHANGED <<pending, leased, dedup, next_lease_token, dlq, walVars, dlq_wal,
                   auxVars>>

\* Attempts exhausted: DeadLetterQueue::record's append.  If it fails the
\* message is in nobody's hands until a restart.
RecordDeadLetter(t) ==
    /\ At(t, "resolve")
    /\ \E e \in call[t].batch, r \in AppendResult :
         /\ is_exhausted(e.delivery_count)
         /\ DlqAppend(r)
         /\ dlq_wal' = IF r.durable
                       THEN [dlq_wal EXCEPT ![e.id] = [entry |-> e, triage |-> None]]
                       ELSE dlq_wal
         /\ IF r.ok
            THEN /\ call' = [call EXCEPT ![t].pc = "dlq_insert", ![t].entry = e,
                                         ![t].batch = @ \ {e}]
                 /\ UNCHANGED <<stranded, torn>>
            ELSE /\ Resolved(t, call[t].batch \ {e})
                 /\ stranded' = stranded \cup {e.id}
                 /\ torn' = IF r.durable THEN torn \cup {e.id} ELSE torn
    /\ UNCHANGED <<memVars, dlq, walVars, grants, fate, promised, cpVars, epoch, cancels,
                   workload>>

\* DeadLetterQueue::record's insertion into `entries`.
InsertDeadLetter(t) ==
    /\ At(t, "dlq_insert")
    /\ dlq' = [dlq EXCEPT ![call[t].entry.id] = [entry |-> call[t].entry, triage |-> None]]
    /\ Goto(t, "dead_lettered")
    /\ UNCHANGED <<memVars, walVars, dlq_wal, auxVars>>

\* The main WAL's DeadLettered record.
AppendDeadLettered(t) ==
    /\ At(t, "dead_lettered")
    /\ \E r \in AppendResult :
         /\ WalAppend(r)
         /\ IF r.durable THEN ApplyDeadLettered(call[t].entry.id)
                         ELSE UNCHANGED wal_pending
         /\ torn' = IF r.durable THEN torn ELSE torn \cup {call[t].entry.id}
    /\ Resolved(t, call[t].batch)
    /\ UNCHANGED <<memVars, dlq, wal_dedup, wal_checkpoints, dlq_wal, grants, fate,
                   promised, stranded, cpVars, epoch, cancels, workload>>

-----------------------------------------------------------------------------
(* checkpoint                                                               *)

CheckpointStart(t) ==
    /\ Starts(t, "checkpoint")
    /\ saves < workload.saves
    /\ saves' = saves + 1
    /\ \E g \in grants :
         /\ Holds(g)
         /\ call' = [call EXCEPT ![t] =
                       [Idle EXCEPT !.op = "checkpoint", !.pc = "checkpoint_wal",
                                    !.grant = g,
                                    !.entry = [leased[g.id].entry EXCEPT
                                                 !.checkpoint = saves + 1]]]
    /\ UNCHANGED <<memVars, dlq, walVars, dlq_wal, grants, fate, promised, torn,
                   stranded, saved, raced, epoch, faults, tearVars, cancels,
                   workload>>

\* Another call of checkpoint is under way for the same message.
Overlaps(t) == \E u \in Tasks \ {t} : /\ call[u].op = "checkpoint"
                                      /\ call[u].grant.id = call[t].grant.id

CheckpointAppend(t) ==
    /\ At(t, "checkpoint_wal")
    /\ \E r \in AppendResult :
         /\ WalAppend(r)
         /\ wal_checkpoints' =
              IF r.durable
              THEN [wal_checkpoints EXCEPT ![call[t].grant.id] = call[t].entry.checkpoint]
              ELSE wal_checkpoints
         /\ IF r.ok THEN Goto(t, "checkpoint_set") ELSE Return(t)
    /\ raced' = IF Holds(call[t].grant) /\ ~Overlaps(t)
                THEN raced ELSE raced \cup {call[t].grant.id}
    /\ UNCHANGED <<memVars, dlq, wal_pending, wal_dedup, dlq_wal, grants, fate, promised,
                   torn, stranded, saved, saves, epoch, cancels, workload>>

\* The second check: the lease may have ended while the record was written.
CheckpointSet(t) ==
    /\ At(t, "checkpoint_set")
    /\ IF Holds(call[t].grant)
       THEN /\ leased' = [leased EXCEPT ![call[t].grant.id].entry.checkpoint =
                                            call[t].entry.checkpoint]
            /\ saved' = [saved EXCEPT ![call[t].grant.id] = call[t].entry.checkpoint]
       ELSE UNCHANGED <<leased, saved>>
    /\ Return(t)
    /\ UNCHANGED <<pending, delayed, dedup, next_lease_token, dlq, walVars, dlq_wal,
                   grants, fate, promised, torn, stranded, raced, saves, epoch, faults,
                   tearVars, cancels, workload>>

-----------------------------------------------------------------------------
(* annotate_dead_letter, reprocess_dead_letter, purge_dead_letter           *)

AnnotateStart(t) ==
    /\ Starts(t, "annotate")
    /\ \E id \in Ids, v \in Verdicts :
         /\ dlq[id] # None
         /\ call' = [call EXCEPT ![t] =
                       [Idle EXCEPT !.op = "annotate", !.pc = "annotate_wal",
                                    !.entry = dlq[id].entry, !.verdict = v]]
    /\ UNCHANGED <<memVars, dlq, walVars, dlq_wal, auxVars>>

\* Attaching a verdict to an entry of the map, if the id is still in it.
Annotated(map, id, v) ==
    IF map[id] = None THEN map ELSE [map EXCEPT ![id].triage = v]

AnnotateAppend(t) ==
    /\ At(t, "annotate_wal")
    /\ \E r \in AppendResult :
         /\ DlqAppend(r)
         /\ dlq_wal' = IF r.durable
                       THEN Annotated(dlq_wal, call[t].entry.id, call[t].verdict)
                       ELSE dlq_wal
         /\ IF r.ok THEN Goto(t, "annotate_set") ELSE Return(t)
    /\ UNCHANGED <<memVars, dlq, walVars, grants, fate, promised, torn, stranded, cpVars,
                   epoch, cancels, workload>>

AnnotateSet(t) ==
    /\ At(t, "annotate_set")
    /\ dlq' = Annotated(dlq, call[t].entry.id, call[t].verdict)
    /\ Return(t)
    /\ UNCHANGED <<memVars, walVars, dlq_wal, auxVars>>

\* DeadLetterQueue::take, first half: out of the in-memory map.
TakeDeadLetter(t) ==
    /\ \E id \in Ids, o \in {"reprocess", "purge"} :
         /\ Starts(t, o)
         /\ dlq[id] # None
         /\ dlq' = [dlq EXCEPT ![id] = None]
         /\ call' = [call EXCEPT ![t] = [Idle EXCEPT !.op = o, !.pc = "take_wal",
                                                     !.entry = dlq[id].entry]]
    /\ UNCHANGED <<memVars, walVars, dlq_wal, auxVars>>

\* Second half: the durable Remove record.  After it, reprocess re-enqueues the
\* message under its old id and key, to start over without its checkpoint; purge
\* releases its key, if it has one.
TakeAppend(t) ==
    /\ At(t, "take_wal")
    /\ \E r \in AppendResult :
         LET id == call[t].entry.id
             key == call[t].entry.key
         IN /\ DlqAppend(r)
            /\ dlq_wal' = IF r.durable THEN [dlq_wal EXCEPT ![id] = None] ELSE dlq_wal
            /\ IF ~r.ok \/ (call[t].op = "purge" /\ key = None)
               THEN Return(t)
               ELSE call' = [call EXCEPT ![t] =
                      IF @.op = "purge" THEN [@ EXCEPT !.pc = "purge_release"]
                      ELSE [@ EXCEPT !.pc = "enqueue_wal", !.entry = NewEntry(id, key)]]
            /\ fate' = [fate EXCEPT ![id] =
                          IF r.durable /\ call[t].op = "purge" THEN "done"
                          ELSE IF r.durable /\ ~r.ok THEN "dropped" ELSE @]
            /\ stranded' = IF r.ok THEN stranded ELSE stranded \cup {id}
            /\ saved' = IF r.ok /\ call[t].op = "reprocess" THEN [saved EXCEPT ![id] = 0]
                                                             ELSE saved
    /\ UNCHANGED <<memVars, dlq, walVars, grants, promised, torn, raced, saves, epoch,
                   cancels, workload>>

PurgeRelease(t) ==
    /\ At(t, "purge_release")
    /\ dedup' = Release(dedup, call[t].entry.key)
    /\ fate' = [fate EXCEPT ![call[t].entry.id] = "purged"]
    /\ Return(t)
    /\ UNCHANGED <<pending, leased, delayed, next_lease_token, dlq, walVars, dlq_wal,
                   grants, promised, torn, stranded, cpVars, epoch, faults, tearVars, cancels,
                   workload>>

-----------------------------------------------------------------------------
(* Time, crashes, and clients that stay away                                *)

VisibilityTimeout(id) ==
    /\ leased[id] # None
    /\ ~leased[id].expired
    /\ leased' = [leased EXCEPT ![id].expired = TRUE]
    /\ UNCHANGED <<pending, delayed, dedup, next_lease_token, dlq, walVars, dlq_wal, call,
                   auxVars>>

BackoffElapses ==
    /\ \E i \in DOMAIN delayed : /\ ~delayed[i].ready
                                 /\ delayed' = [delayed EXCEPT ![i].ready = TRUE]
    /\ UNCHANGED <<pending, leased, dedup, next_lease_token, dlq, walVars, dlq_wal, call,
                   auxVars>>

\* The dead letters replay found under a key: ids_and_keys yields them in no
\* particular order and the last one inserted wins.
DeadUnder(key) == {id \in Ids : ReplayedDlq[id] # None /\ ReplayedDlq[id].entry.key = key}

RecordsOf(queue, id) == {i \in DOMAIN queue : queue[i].id = id}

\* The ids about which some record lies behind a torn frame: replay does not find
\* what all the records in the files add up to.
Unreplayed ==
    {id \in Ids :
       \/ Cardinality(RecordsOf(ReplayedWal.pending, id)) # Cardinality(RecordsOf(wal_pending, id))
       \/ ReplayedWal.checkpoints[id] # wal_checkpoints[id]
       \/ ReplayedDlq[id] # dlq_wal[id]}

\* The pending queue `open` builds: the checkpoint of an id goes to its first
\* entry only (HashMap::remove), and delivery counts start over.
Reopened(queue, checkpoints) ==
    [i \in DOMAIN queue |->
       [id |-> queue[i].id, key |-> queue[i].key, delivery_count |-> 0,
        checkpoint |-> IF \E j \in 1..(i-1) : queue[j].id = queue[i].id
                       THEN 0 ELSE checkpoints[queue[i].id]]]

\* The process dies and `open` rebuilds the group from what it replays of the two
\* logs, cutting off the rest.  Lease tokens start over, the DLQ's keys are put
\* back in dedup, and clients of the server keep the grants they were given.
CrashAndOpen ==
    /\ epoch < workload.crashes
    /\ epoch' = epoch + 1
    /\ pending' = Reopened(ReplayedWal.pending, ReplayedWal.checkpoints)
    /\ leased' = [id \in Ids |-> None]
    /\ delayed' = <<>>
    /\ dlq' = ReplayedDlq
    /\ \E winner \in [Keys -> Ids \cup {None}] :
         /\ \A key \in Keys : IF DeadUnder(key) = {} THEN winner[key] = ReplayedWal.dedup[key]
                                                     ELSE winner[key] \in DeadUnder(key)
         /\ dedup' = winner
    /\ next_lease_token' = 0
    /\ wal_pending' = ReplayedWal.pending
    /\ wal_dedup' = ReplayedWal.dedup
    /\ wal_checkpoints' = ReplayedWal.checkpoints
    /\ dlq_wal' = ReplayedDlq
    /\ wal_tear' = None /\ dlq_tear' = None
    /\ truncated' = truncated \cup Unreplayed
    /\ call' = [t \in Tasks |-> Idle]
    /\ fate' = [id \in Ids |->
                  IF \E t \in Tasks : /\ call[t].op = "reprocess"
                                      /\ call[t].pc = "enqueue_wal"
                                      /\ call[t].entry.id = id
                  THEN "dropped" ELSE fate[id]]
    /\ torn' = torn \cup Unreplayed
                    \cup {call[t].entry.id : t \in
                            {u \in Tasks : call[u].pc \in {"dlq_insert", "dead_lettered"}}}
    /\ stranded' = {}
    /\ UNCHANGED <<grants, promised, cpVars, faults, cancels, workload>>

\* No call is in progress (or only claims waiting for work) and none arrives.
Rest ==
    /\ \A t \in Tasks : call[t].pc \in {"idle", "blocked"}
    /\ UNCHANGED vars

-----------------------------------------------------------------------------
Init ==
    /\ pending = <<>> /\ delayed = <<>>
    /\ leased = [id \in Ids |-> None]
    /\ dedup = [k \in Keys |-> None]
    /\ next_lease_token = 0
    /\ dlq = [id \in Ids |-> None]
    /\ wal_pending = <<>>
    /\ wal_dedup = [k \in Keys |-> None]
    /\ wal_checkpoints = [id \in Ids |-> 0]
    /\ dlq_wal = [id \in Ids |-> None]
    /\ wal_tear = None /\ dlq_tear = None /\ truncated = {}
    /\ call = [t \in Tasks |-> Idle]
    /\ grants = {} /\ promised = {} /\ torn = {} /\ stranded = {} /\ raced = {}
    /\ fate = [id \in Ids |-> "unused"]
    /\ saved = [id \in Ids |-> 0]
    /\ saves = 0 /\ epoch = 0 /\ faults = 0 /\ cancels = 0
    /\ workload \in Workloads

Enqueue(t) == \/ EnqueueReserve(t) \/ EnqueueDuplicate(t) \/ WriteEnqueueRecord(t)
              \/ EnqueueUndo(t) \/ PushPending(t)
Claim(t) == ReclaimExpired(t) \/ PopPending(t) \/ CancelClaim(t)
Settle(t) == AckRelease(t) \/ AckAppend(t) \/ NackRelease(t)
Resolve(t) == \/ RetryLater(t) \/ RecordDeadLetter(t) \/ InsertDeadLetter(t)
              \/ AppendDeadLettered(t)
Checkpoint(t) == CheckpointStart(t) \/ CheckpointAppend(t) \/ CheckpointSet(t)
Triage(t) == \/ AnnotateStart(t) \/ AnnotateAppend(t) \/ AnnotateSet(t)
             \/ TakeDeadLetter(t) \/ TakeAppend(t) \/ PurgeRelease(t)

Next ==
    \/ \E t \in Tasks : \/ Enqueue(t) \/ Claim(t) \/ Settle(t) \/ Resolve(t)
                        \/ Checkpoint(t) \/ Triage(t)
    \/ \E id \in Ids : VisibilityTimeout(id)
    \/ BackoffElapses
    \/ CrashAndOpen
    \/ Rest

Spec == Init /\ [][Next]_vars

-----------------------------------------------------------------------------
(* Where a message is.                                                      *)

\* What a call holds of a message between two awaits, when nothing else does.
InHand(t) ==
    {e \in {call[t].entry} : call[t].pc \in {"enqueue_wal", "enqueue_push", "take_wal",
                                             "dlq_insert"}}
    \cup call[t].batch

\* Every copy of message id that this process holds, by place.
Copies(id) ==
    {<<"pending", i>> : i \in {j \in DOMAIN pending : pending[j].id = id}}
    \cup {<<"delayed", i>> : i \in {j \in DOMAIN delayed : delayed[j].entry.id = id}}
    \cup {<<"leased", 0>> : l \in {leased[id]} \ {None}}
    \cup {<<"dlq", 0>> : d \in {dlq[id]} \ {None}}
    \cup {<<"call", t>> : t \in {u \in Tasks : \E e \in InHand(u) : e.id = id}}

\* The same copies as entries.
HeldEntries ==
    {pending[i] : i \in DOMAIN pending}
    \cup {delayed[i].entry : i \in DOMAIN delayed}
    \cup {leased[id].entry : id \in {j \in Ids : leased[j] # None}}
    \cup {dlq[id].entry : id \in {j \in Ids : dlq[j] # None}}
    \cup UNION {InHand(t) : t \in Tasks}

Live(id) == \/ \E i \in DOMAIN pending : pending[i].id = id
            \/ \E i \in DOMAIN delayed : delayed[i].entry.id = id
            \/ leased[id] # None

\* What a restart would find of the message in the two logs.
InWal(id) == \E i \in DOMAIN ReplayedWal.pending : ReplayedWal.pending[i].id = id
InDlqWal(id) == ReplayedDlq[id] # None

\* reprocess_dead_letter between its two durable records.
BeingReprocessed(id) == \E t \in Tasks : /\ call[t].op = "reprocess"
                                         /\ call[t].pc = "enqueue_wal"
                                         /\ call[t].entry.id = id

BeingAcked(id) == \E t \in Tasks : call[t].pc = "ack_wal" /\ call[t].grant.id = id

\* The deliveries a limited policy allows.
Allowed == IF MaxAttempts = 0 THEN 1 ELSE MaxAttempts

Quiet == \A t \in Tasks : call[t].pc \in {"idle", "blocked"}

-----------------------------------------------------------------------------
(* Properties                                                               *)

TornLogsOK == /\ wal_tear \in WalState \cup {None}
              /\ dlq_tear \in DlqState \cup {None}
              /\ truncated \subseteq Ids

\* Every variable has the type its Rust counterpart has.
TypeOK ==
    /\ pending \in Seq(Entry)
    /\ leased \in [Ids -> Lease \cup {None}]
    /\ delayed \in Seq(Delayed)
    /\ dedup \in [Keys -> Ids \cup {None}]
    /\ next_lease_token \in Nat
    /\ dlq \in [Ids -> DeadLetter \cup {None}]
    /\ wal_pending \in Seq(WalEnqueue)
    /\ wal_dedup \in [Keys -> Ids \cup {None}]
    /\ wal_checkpoints \in [Ids -> Nat]
    /\ dlq_wal \in [Ids -> DeadLetter \cup {None}]
    /\ TornLogsOK
    /\ call \in [Tasks -> Call]
    /\ grants \subseteq Grant
    /\ fate \in [Ids -> Fates]
    /\ promised \subseteq Ids /\ torn \subseteq Ids /\ stranded \subseteq Ids
    /\ raced \subseteq Ids /\ saved \in [Ids -> Nat]
    /\ saves \in Nat /\ epoch \in Nat /\ faults \in Nat /\ cancels \in Nat
    /\ workload \in Workloads

\* Competing consumers: a message is in at most one place at a time (pending,
\* delayed, one lease, the DLQ, or one call's hands), through any interleaving
\* of expiries, late acks, nacks, dead-lettering and reprocessing.  Excused are
\* the messages whose dead-lettering a crash, failure or cancellation cut
\* between the DLQ's record and the main WAL's (the duplicate that
\* resolve_failed_delivery accepts), and those one of whose records lay behind
\* a torn frame when a restart cut the file there.
OneHome == \A id \in Ids \ torn : Cardinality(Copies(id)) <= 1

\* No message slips between the collections: an accepted message that is not
\* finished is somewhere in this process, unless a failed append or a cancelled
\* claim dropped it until the next restart, or a restart cut off a record of it.
SomeHome ==
    \A id \in Ids \ truncated : fate[id] = "accepted" /\ id \notin stranded
                                  => Copies(id) # {} \/ BeingAcked(id)

\* At-least-once delivery, as far as the logs give it: at every instant, an
\* accepted message that was neither acked nor purged would be rebuilt by a
\* restart, from the main WAL or from the DLQ's, unless reprocess_dead_letter
\* is between its two records, or a record of this very message, Ok or not, lies
\* or lay behind a torn frame (OkSurvivesReopen below says what the docs say).
NoSilentLoss ==
    \A id \in Ids \ (truncated \cup Unreplayed) :
       fate[id] = "accepted" => InWal(id) \/ InDlqWal(id) \/ BeingReprocessed(id)

\* What was durably acked or purged never comes back, not even after a
\* restart, unless its dead-lettering was cut between its two records or one of
\* its records (the Ack, say) was cut off behind a torn frame.
FinishedStaysGone ==
    \A id \in Ids \ torn : fate[id] \in {"done", "purged"} => Copies(id) = {}

\* Producer-side deduplication until the first restart: every message in the
\* group is covered by the dedup entry of its key, and every dedup entry stands
\* for a message that is still in the group (or for a purge about to release it).
KeysNameMessages ==
    epoch = 0 =>
      /\ \A e \in HeldEntries : e.key # None /\ e.id \notin torn \cup stranded
                                  => dedup[e.key] = e.id
      /\ \A key \in Keys : dedup[key] # None =>
           \/ Copies(dedup[key]) # {}
           \/ dedup[key] \in stranded \cup torn
           \/ \E t \in Tasks : /\ call[t].pc \in {"purge_release", "enqueue_undo"}
                               /\ call[t].entry.id = dedup[key]

\* When no call is in progress, the process knows exactly the messages a restart
\* would rebuild, in the main queue and in the DLQ, except those with a record
\* that a failure or a cancellation cut or a torn frame hides.
MemoryMatchesWal ==
    Quiet => \A id \in Ids \ (torn \cup stranded \cup Unreplayed) :
               /\ Live(id) <=> InWal(id)
               /\ (dlq[id] # None) <=> InDlqWal(id)

\* Tokens start over with the process: a client of an earlier one may hold the
\* very pair that names this lease.
NumberReused(id) == \E g \in grants : /\ g.id = id /\ g.token = leased[id].token
                                      /\ g.epoch < epoch

\* A lease ends only through its own holder's ack or nack, its visibility
\* timeout, or a crash: a late call from the holder of an earlier delivery of
\* the same message never ends it, unless that delivery was made before a
\* restart and had the same number.
LeaseRespected ==
    [][\A id \in Ids :
         (leased[id] # None /\ (leased'[id] = None \/ leased'[id].token # leased[id].token))
           => \/ leased[id].expired
              \/ epoch' # epoch
              \/ id \in torn
              \/ NumberReused(id)
              \/ \E t \in Tasks : /\ call[t].pc = "idle"
                                  /\ call'[t].op \in {"ack", "nack"}
                                  /\ call'[t].grant = [id |-> id, token |-> leased[id].token,
                                                       epoch |-> epoch]]_vars

\* Within one process, a token names one delivery: no two claims return the
\* same token, and every active lease is one that some claim returned.
TokensNameDeliveries ==
    /\ \A g, h \in grants : g.epoch = h.epoch /\ g.token = h.token => g = h
    /\ \A id \in Ids : leased[id] # None =>
         [id |-> id, token |-> leased[id].token, epoch |-> epoch] \in grants

\* A message is dead-lettered on the failure of its max_attempts-th delivery,
\* never earlier and never later (Some(0) grants the first delivery all the
\* same), and a policy without max_attempts never dead-letters.
DeadLettersExhausted ==
    \A id \in Ids :
      /\ leased[id] # None /\ MaxAttempts # None
           => leased[id].entry.delivery_count <= Allowed
      /\ \A d \in {dlq[id], dlq_wal[id]} \ {None} :
           MaxAttempts # None /\ d.entry.delivery_count = Allowed

\* A checkpoint that returned Ok(true) is what every later delivery sees, or a
\* newer one, through nacks, expiries and restarts (until a reprocess makes it
\* start over), unless calls of checkpoint
\* for the same message overlapped or one outlived its lease, or a record of the
\* message (the checkpoint's, say) was cut off behind a torn frame.
CheckpointSurvives ==
    \A e \in HeldEntries : e.id \notin raced \cup torn => e.checkpoint >= saved[e.id]

-----------------------------------------------------------------------------
(* What the documentation promises and the code does not keep.              *)

\* purge_dead_letter's docs: "Its idempotency key (if any) is released, so a
\* future enqueue reusing it is treated as a new message".  After a purge has
\* returned, no key stands for the purged message.
PurgedKeyReleased ==
    \A key \in Keys : dedup[key] \in Ids \ torn => fate[dedup[key]] # "purged"

\* DeadLetterQueue::take's docs: every WAL-backed type "favors 'a message can
\* resurrect after a crash' over 'a message can be silently lost'".  A message
\* nobody acked or purged is still in one of the logs after a crash.
CrashLosesNothing ==
    \A id \in Ids : fate[id] = "dropped" => InWal(id) \/ InDlqWal(id)

\* Wal::append's docs: "On `Ok`, `record` is durable: a crash immediately after
\* this call returns will still see it on the next open".  A message whose
\* enqueue returned Ok is in one of the logs a restart would replay.
OkSurvivesReopen ==
    \A id \in Ids : fate[id] = "accepted" => InWal(id) \/ InDlqWal(id) \/ BeingReprocessed(id)

=============================================================================
