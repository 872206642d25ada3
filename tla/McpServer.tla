----------------------------- MODULE McpServer -----------------------------
(***************************************************************************)
(* qaas-server: the MCP tools (mcp.rs) behind the HTTP credential check    *)
(* (http_auth.rs), over the registry of queues, budgets, quotas and        *)
(* embedding indexes, the API keys and the audit log.  A task runs one     *)
(* tool call at a time; a call is cut wherever it lets go of a lock, so    *)
(* that other calls come in between.  What a consumer group does inside    *)
(* one of its calls is in modules ConsumerGroup and GroupWakeups: here     *)
(* each of its calls is one step, with its effect on where messages are in *)
(* memory and in its logs; a failed append leaves no record here.          *)
(***************************************************************************)
EXTENDS Naturals, FiniteSets, SequencesExt, SlidingWindow

CONSTANTS
    Tasks,             \* clients, each with one call in progress
    Tenants, Stdio,    \* TenantIds; Stdio is the trusted local connection (None)
    Queues, BadName,   \* queue names; BadName is one validate_queue_name rejects
    Keys,              \* API keys that may be minted
    Jwt,               \* Jwt[credential]: the tenant of a signed token, an Option
    Embeddings, Malformed, Score,
    SIMILARITY_THRESHOLD, DEDUP_TTL,
    MAX_ATTEMPTS,      \* RetryPolicy::DEFAULT's max_attempts
    Hour, Minute,      \* default windows of AdmissionConfig and QuotaConfig
    Workers, channel_capacity,
    MaxAge,            \* bound: ages are not told apart beyond it
    MaxDemand,         \* bound: tokens or cost of one task
    Workloads          \* bound: what the clients call in one behaviour, and what may happen

Admission == INSTANCE AdmissionController
Quota == INSTANCE TenantQuota
Index == INSTANCE EmbeddingIndex
Audit == INSTANCE AuditLogger
ApiKeys == INSTANCE ApiKeyStore

VARIABLES
    keystore,     \* ApiKeyStore
    quota,        \* tenant_quotas, and admission, dedup, routes below: what the
    admission,    \*   registry holds for a key, the default if it holds nothing
    dedup, routes,
    groups,       \* the scopes that are open
    group,        \* each scope's consumer group, open or on disk
    messages,     \* every message enqueued, by number
    audit,        \* AuditLogger
    task,         \* each client's calls still to make, and its call in progress
    ghost,        \* what the properties remember
    workload

registry == <<quota, admission, dedup, routes, groups>>
vars == <<keystore, registry, group, messages, audit, task, ghost, workload>>

Callers == Tenants \cup {Stdio}
Scopes == Callers \X Queues

\* The keys of the registry's maps.
scope_key_Unscoped(tenant, name) == <<Stdio, name>>
scope_key(tenant, name) == <<tenant, name>>
tenant_key(tenant) == tenant

\* count_matching: the open queues under a tenant's prefix.
Matching(tenant) == {s \in groups : s[1] = tenant}

-----------------------------------------------------------------------------
(* A consumer group, by the effect of its calls.                            *)

\* In memory: the ready queue, leases, dead letters and keys in use.  On disk, as a
\* replay would have it: the queue, the dead letters and the keys.
NewGroup == [ready |-> <<>>, leased |-> {}, dead |-> {}, keys |-> {}, token |-> 0,
             logged |-> <<>>, buried |-> {}, bound |-> {}]

GroupLen(g) == Len(g.ready) + Cardinality(g.leased)

\* enqueue and enqueue_with_key: a key in use names its message, and nothing is added.
Existing(g, key) == {k.id : k \in {k \in g.keys : k.key \in key}}
Pushed(g, id, key) ==
    LET bindings == {[key |-> k, id |-> id] : k \in key}
    IN [g EXCEPT !.ready = Append(@, id), !.keys = @ \cup bindings,
                 !.logged = Append(@, id), !.bound = {k \in @ : k.key \notin key} \cup bindings]

\* The front message gets a lease, named by a token this process has not used before.
NewLease(g) == [id |-> Head(g.ready), token |-> g.token + 1]
Claimed(g) == [g EXCEPT !.ready = Tail(@), !.token = @ + 1,
                        !.leased = {l \in @ : l.id # Head(g.ready)} \cup {NewLease(g)}]

\* ack: first in memory, then in the log.
Without(keys, id) == {k \in keys : k.id # id}
Released(g, lease) == [g EXCEPT !.leased = @ \ {lease}, !.keys = Without(@, lease.id)]
Finished(g, lease) == [Released(g, lease) EXCEPT !.logged = RemoveFirst(@, lease.id),
                                                 !.bound = Without(@, lease.id)]

\* Deliveries failed: their leases are taken out, and each is then resolved on its own:
\* try again, or dead-letter, in the one log and then the other.
Dropped(g, leases) == [g EXCEPT !.leased = @ \ leases]
IsLast(lease) == messages[lease.id].tries >= MAX_ATTEMPTS
Recorded(g, lease) == [g EXCEPT !.dead = @ \cup {lease.id}, !.buried = @ \cup {lease.id}]
Failed(g, lease) ==
    IF IsLast(lease)
    THEN [Recorded(g, lease) EXCEPT !.logged = RemoveFirst(@, lease.id)]
    ELSE [g EXCEPT !.ready = Append(@, lease.id)]

\* What a resolution that fails in one of the logs leaves.
HalfFailed(g, lease) == IF IsLast(lease) /\ workload.faults THEN {g, Recorded(g, lease)} ELSE {}

\* take, in memory and then in the log, and what reprocess and purge do next.
Taken(g, id) == [g EXCEPT !.dead = @ \ {id}]
Removed(g, id) == [Taken(g, id) EXCEPT !.buried = @ \ {id}]
Revived(g, id) == [Removed(g, id) EXCEPT !.ready = Append(@, id), !.logged = Append(@, id)]
Purged(g, id) == [Removed(g, id) EXCEPT !.keys = Without(@, id)]

\* A restart leaves what the logs have.
Reopened(g) == [g EXCEPT !.ready = g.logged, !.leased = {}, !.dead = g.buried, !.keys = g.bound,
                         !.token = 0]

-----------------------------------------------------------------------------
(* Calls                                                                    *)

Some(S) == {{x} : x \in S}
Option(S) == {{}} \cup Some(S)
Names == Queues \cup {BadName}
Credentials == DOMAIN Jwt \cup {Stdio}
Demands == 0..MaxDemand
Limits == Option(0..4)
Windows == 1..MaxAge

\* A client names no lease, or a message, before it has claimed one: number 0 stands
\* for an id that parse_message_id rejects.  A tenant id that is absent, or that
\* TenantId::new rejects, is an empty Option.
Ids == DOMAIN messages
NoLease == [id |-> 0, token |-> 0]

\* The tools' parameters.  ack, nack, checkpoint and publish_partial_result name the
\* lease the client holds; their payloads are left out.
EnqueueParams == [tool : {"enqueue"}, credential : Credentials, queue : Option(Names),
                  key : Option({"key", ""}), tokens : Demands, cost : Demands,
                  embedding : Option(Embeddings)]
ClaimParams == [tool : {"claim"}, credential : Credentials, queue : Some(Names)]
AckParams == [tool : {"ack"}, credential : Credentials, queue : Some(Names)]
NackParams == [tool : {"nack"}, credential : Credentials, queue : Some(Names)]
CheckpointParams == [tool : {"checkpoint"}, credential : Credentials, queue : Some(Names)]
PublishPartialResultParams ==
    [tool : {"publish_partial_result"}, credential : Credentials, queue : Some(Names)]
StreamPartialResultsParams ==
    [tool : {"stream_partial_results"}, credential : Credentials, queue : Some(Names)]
ConfigureAdmissionParams ==
    [tool : {"configure_admission"}, credential : Credentials, queue : Some(Names),
     config : Admission!AdmissionConfig(Limits, Windows)]
AdmissionStatusParams == [tool : {"admission_status"}, credential : Credentials, queue : Some(Names)]
ConfigureRouteParams == [tool : {"configure_route"}, credential : Credentials,
                         queue : Some(Names), embedding : Some(Embeddings)]
ListDeadLettersParams == [tool : {"list_dead_letters"}, credential : Credentials, queue : Some(Names)]
TriageDeadLetterParams == [tool : {"triage_dead_letter"}, credential : Credentials,
                           queue : Some(Names), message : Nat, transient : BOOLEAN]
DeadLetterActionParams == [tool : {"reprocess_dead_letter", "purge_dead_letter"},
                           credential : Credentials, queue : Some(Names), message : Nat]
CreateApiKeyParams == [tool : {"create_api_key"}, credential : Credentials, tenant : Option(Tenants),
                       api_key : Keys]
RevokeApiKeyParams == [tool : {"revoke_api_key"}, credential : Credentials, api_key : Keys]
ConfigureTenantQuotaParams ==
    [tool : {"configure_tenant_quota"}, credential : Credentials, tenant : Option(Tenants),
     config : Quota!QuotaConfig(Limits, Windows)]
TenantQuotaStatusParams == [tool : {"tenant_quota_status"}, credential : Credentials,
                            tenant : Option(Tenants)]
DashboardRequest == [tool : {"dashboard_snapshot"}, credential : {Stdio}]

IsCall(c) ==
    \/ c \in EnqueueParams \/ c \in ClaimParams \/ c \in AckParams \/ c \in NackParams
    \/ c \in CheckpointParams \/ c \in PublishPartialResultParams \/ c \in StreamPartialResultsParams
    \/ c \in ConfigureAdmissionParams \/ c \in AdmissionStatusParams \/ c \in ConfigureRouteParams
    \/ c \in ListDeadLettersParams \/ c \in TriageDeadLetterParams \/ c \in DeadLetterActionParams
    \/ c \in CreateApiKeyParams \/ c \in RevokeApiKeyParams \/ c \in ConfigureTenantQuotaParams
    \/ c \in TenantQuotaStatusParams \/ c \in DashboardRequest

ASSUME CallsAssumption ==
    \A w \in Workloads : \A t \in Tasks : /\ w.calls[t] \in Seq(Range(w.calls[t]))
                                          /\ \A call \in Range(w.calls[t]) : IsCall(call)
ASSUME TenantsAssumption ==
    /\ Stdio \notin Tenants
    /\ \A w \in Workloads : w.keys \in Seq(ApiKeys!WalRecord(Keys, Tenants))
    /\ \A credential \in DOMAIN Jwt : Jwt[credential] \in Option(Tenants)
ASSUME LimitsAssumption ==
    /\ {Hour, Minute} \subseteq Windows
    /\ \A w \in Workloads : /\ w.budget \in Admission!AdmissionConfig(Limits, Windows)
                            /\ w.quota \in Quota!QuotaConfig(Limits, Windows)
ASSUME WorkersAssumption == IsFiniteSet(Workers) /\ IsFiniteSet(Tasks) /\ channel_capacity \in Nat
ASSUME AgesAssumption == DEDUP_TTL \in Nat /\ MaxAge \in Nat /\ DEDUP_TTL <= MaxAge

\* generate_raw_key never repeats a key: no two calls draw the same, and none draws one
\* that is in the log already.
Drawing(calls) == {i \in DOMAIN calls : calls[i].tool = "create_api_key"}
ASSUME KeysAssumption ==
    \A w \in Workloads : \A t \in Tasks : \A i \in Drawing(w.calls[t]) :
      /\ \A record \in Range(w.keys) : record.kind = "Mint" => record.key # w.calls[t][i].api_key
      /\ \A u \in Tasks : \A j \in Drawing(w.calls[u]) :
           w.calls[u][j].api_key = w.calls[t][i].api_key => u = t /\ j = i

\* Their results, of which only what the properties compare is kept: which of its
\* outcomes a call had, the message it is about, and the wait a throttled one is told.
EnqueueResult == {"enqueued", "duplicate"}
ClaimResult == {"claimed", "unavailable", "no_headroom"}
AckResult == {"acked", "stale"}
NackResult == {"nacked", "stale"}
CheckpointResult == {"checkpointed", "stale"}
PublishPartialResultResult == {"published", "stale"}
StreamPartialResultsResult == {"active", "stale"}
TriageDeadLetterResult == {"annotated", "reprocessed", "not_found"}
ReprocessDeadLetterResult == {"reprocessed", "not_found"}
PurgeDeadLetterResult == {"purged", "not_found"}
RevokeApiKeyResult == {"ok", "not_found"}
ErrorData == {"unauthorized", "invalid", "throttled", "over_pending", "error"}

Kinds == {"none", "ok"} \cup EnqueueResult \cup ClaimResult \cup AckResult \cup NackResult
         \cup CheckpointResult \cup PublishPartialResultResult \cup StreamPartialResultsResult
         \cup TriageDeadLetterResult \cup ReprocessDeadLetterResult \cup PurgeDeadLetterResult
         \cup RevokeApiKeyResult \cup ErrorData

NoAnswer == [kind |-> "none", id |-> 0, retry |-> {}]
Answer(kind) == [NoAnswer EXCEPT !.kind = kind]

NewTask(calls) ==
    [todo |-> calls, pc |-> "idle", tenant |-> Stdio, queue |-> {}, left |-> {}, total |-> 0,
     limit |-> 0, id |-> 0, batch |-> {}, held |-> NoLease, answer |-> NoAnswer]

Call(t) == Head(task[t].todo)
Named(call) == IF "queue" \in DOMAIN call THEN call.queue ELSE {}
The(option) == CHOOSE x \in option : TRUE
At(t, pc) == task[t].pc = pc
Running(t, pc, tool) == At(t, pc) /\ Call(t).tool = tool
Tenant(t) == task[t].tenant
Queue(t) == The(task[t].queue)
Scope(t) == scope_key(Tenant(t), Queue(t))

Goto(t, pc) == task' = [task EXCEPT ![t].pc = pc]

\* The call returns: its locals are gone, the answer and any lease stay with the client.
Done(t, answer, held) ==
    task' = [task EXCEPT ![t] = [NewTask(Tail(@.todo)) EXCEPT !.tenant = task[t].tenant,
                                                              !.held = held, !.answer = answer]]
Return(t, answer) == Done(t, answer, task[t].held)

Event(t, kind, id) == [kind |-> kind, tenant |-> Tenant(t), id |-> id]

-----------------------------------------------------------------------------
(* Before a tool runs                                                       *)

\* Over stdio there is nothing to check.
StdioCall(t) ==
    /\ At(t, "idle") /\ task[t].todo # <<>>
    /\ Call(t).credential = Stdio
    /\ task' = [task EXCEPT ![t].pc = "tool", ![t].tenant = Stdio, ![t].answer = NoAnswer,
                            ![t].queue = Named(Call(t))]
    /\ UNCHANGED <<keystore, registry, group, messages, audit, ghost, workload>>

\* The tenant a bearer credential stands for, an Option: an API key's, or else a token's.
CredentialTenant(credential) ==
    IF ApiKeys!authenticate(keystore, credential) # {} THEN ApiKeys!authenticate(keystore, credential)
                                                       ELSE Jwt[credential]

\* require_tenant: the credential decides the tenant, or the request goes no further.
RequireTenant(t) ==
    /\ At(t, "idle") /\ task[t].todo # <<>>
    /\ Call(t).credential # Stdio
    /\ LET found == CredentialTenant(Call(t).credential) IN
       IF found = {}
       THEN Return(t, Answer("unauthorized"))
       ELSE task' = [task EXCEPT ![t].pc = "authorize", ![t].tenant = The(found),
                                 ![t].answer = NoAnswer, ![t].queue = Named(Call(t))]
    /\ UNCHANGED <<keystore, registry, group, messages, audit, ghost, workload>>

\* authorize_impl: count the call against the tenant's rate.
Authorize(t) ==
    LET d == Quota!try_acquire(quota[Tenant(t)]) IN
    /\ At(t, "authorize")
    /\ quota' = [quota EXCEPT ![Tenant(t)] = d.quota]
    /\ IF d.allowed
       THEN /\ Goto(t, "tool")
            /\ ghost' = [ghost EXCEPT !.allowed[Tenant(t)] = Append(@, 0)]
       ELSE /\ Return(t, [Answer("throttled") EXCEPT !.retry = d.retry])
            /\ UNCHANGED ghost
    /\ UNCHANGED <<keystore, admission, dedup, routes, groups, group, messages, audit, workload>>

-----------------------------------------------------------------------------
(* registry.get                                                             *)

\* The tools that begin by opening their queue, and the step that follows.
AfterGet == [enqueue |-> "dedup", claim |-> "headroom", ack |-> "group", nack |-> "group",
             checkpoint |-> "group", publish_partial_result |-> "group",
             stream_partial_results |-> "group", list_dead_letters |-> "group",
             triage_dead_letter |-> "group", reprocess_dead_letter |-> "group",
             purge_dead_letter |-> "group"]

\* With the groups locked: the open queue, or open it if the tenant may have one more.
MayOpen(t) ==
    \/ Scope(t) \in groups
    \/ Tenant(t) = Stdio
    \/ \A max_queues \in quota[Tenant(t)].config.max_queues : Cardinality(Matching(Tenant(t))) < max_queues

WantsQueue(t) == \/ At(t, "tool") /\ Call(t).tool \in DOMAIN AfterGet \ {"enqueue"}
                 \/ At(t, "get")

Get(t) ==
    /\ WantsQueue(t) /\ Queue(t) # BadName
    /\ IF MayOpen(t)
       THEN \/ groups' = groups \cup {Scope(t)} /\ Goto(t, AfterGet[Call(t).tool])
            \/ /\ workload.faults /\ Scope(t) \notin groups    \* its files cannot be opened
               /\ Return(t, Answer("error")) /\ UNCHANGED groups
       ELSE Return(t, Answer("invalid")) /\ UNCHANGED groups
    /\ UNCHANGED <<keystore, quota, admission, dedup, routes, group, messages, audit, ghost, workload>>

\* validate_queue_name comes first wherever a name is looked up.
RejectName(t) ==
    /\ \/ WantsQueue(t)
       \/ At(t, "tool") /\ Call(t).tool \in {"configure_admission", "admission_status", "configure_route"}
    /\ Queue(t) = BadName
    /\ Return(t, Answer("invalid"))
    /\ UNCHANGED <<keystore, registry, group, messages, audit, ghost, workload>>

\* parse_message_id, once the queue is open.
RejectId(t) ==
    /\ At(t, "group")
    /\ \/ Call(t).tool \in {"ack", "nack", "checkpoint", "publish_partial_result",
                            "stream_partial_results"} /\ task[t].held.id = 0
       \/ Call(t).tool \in {"triage_dead_letter", "reprocess_dead_letter", "purge_dead_letter"}
            /\ Call(t).message = 0
    /\ Return(t, Answer("invalid"))
    /\ UNCHANGED <<keystore, registry, group, messages, audit, ghost, workload>>

-----------------------------------------------------------------------------
(* enqueue                                                                  *)

\* enqueue_impl up to the queue it is for: named, or found by the closest route.
ResolveTargetQueue(t) ==
    LET embedding == Call(t).embedding
        hits == UNION {Index!nearest(routes[tenant_key(Tenant(t))], e) : e \in embedding}
    IN
    /\ Running(t, "tool", "enqueue")
    /\ CASE \E e \in embedding : ~Index!IsValid(e) -> Return(t, Answer("invalid"))
         [] (\A e \in embedding : Index!IsValid(e)) /\ Call(t).queue # {} -> Goto(t, "get")
         [] OTHER -> \/ hits = {} /\ Return(t, Answer("invalid"))
                     \/ \E h \in hits : task' = [task EXCEPT ![t].pc = "get", ![t].queue = {h.key}]
    /\ UNCHANGED <<keystore, registry, group, messages, audit, ghost, workload>>

\* An idempotency key must not be empty.
RejectKey(t) ==
    /\ At(t, "dedup") /\ Call(t).key = {""}
    /\ Return(t, Answer("invalid"))
    /\ UNCHANGED <<keystore, registry, group, messages, audit, ghost, workload>>

\* A task close enough to one that is indexed collapses into it.
Dedup(t) ==
    LET x == Index!evict_expired(dedup[Scope(t)])
        hits == UNION {Index!nearest(x, e) : e \in Call(t).embedding}
    IN
    /\ At(t, "dedup") /\ Call(t).key # {""}
    /\ dedup' = IF Call(t).embedding = {} THEN dedup ELSE [dedup EXCEPT ![Scope(t)] = x]
    /\ \/ \E h \in hits : /\ h.score >= SIMILARITY_THRESHOLD
                          /\ Return(t, [Answer("duplicate") EXCEPT !.id = h.key])
                          /\ audit' = Audit!log(audit, Event(t, "Enqueue", h.key))
       \/ /\ \A h \in hits : h.score < SIMILARITY_THRESHOLD
          /\ Goto(t, "pending")
          /\ UNCHANGED audit
    /\ UNCHANGED <<keystore, quota, admission, routes, groups, group, messages, ghost, workload>>

\* With a ceiling on pending messages: note it and the queues to sum, unlocked.
ReadPendingLimit(t) ==
    /\ At(t, "pending")
    /\ LET max == IF Tenant(t) = Stdio THEN {} ELSE quota[Tenant(t)].config.max_pending_messages IN
       IF max = {}
       THEN Goto(t, "admit")
       ELSE task' = [task EXCEPT ![t].pc = "sum", ![t].limit = The(max),
                                 ![t].left = Matching(Tenant(t)), ![t].total = 0]
    /\ UNCHANGED <<keystore, registry, group, messages, audit, ghost, workload>>

\* tenant_pending_total's loop: one queue's len at a time, which misses the messages
\* that some call is between failing and resolving.
InHand(s) ==
    UNION {{lease.id : lease \in task[t].batch} : t \in {t \in Tasks : At(t, "resolve") /\ Scope(t) = s}}

SumOne(t) ==
    /\ At(t, "sum")
    /\ \E s \in task[t].left :
         /\ task' = [task EXCEPT ![t].left = @ \ {s}, ![t].total = @ + GroupLen(group[s])]
         /\ ghost' = IF Call(t).tool = "enqueue" THEN [ghost EXCEPT !.exempt = @ \cup InHand(s)] ELSE ghost
    /\ UNCHANGED <<keystore, registry, group, messages, audit, workload>>

WithinLimit_Unchecked(t) == TRUE
WithinLimit(t) == task[t].total < task[t].limit

ComparePending(t) ==
    /\ Running(t, "sum", "enqueue") /\ task[t].left = {}
    /\ IF WithinLimit(t)
       THEN Goto(t, "admit") /\ UNCHANGED audit
       ELSE Return(t, Answer("over_pending")) /\ audit' = Audit!log(audit, Event(t, "Enqueue", 0))
    /\ UNCHANGED <<keystore, registry, group, messages, ghost, workload>>

\* try_admit, charging the queue's budget before the message exists.
Admit(t) ==
    LET d == Admission!try_admit(admission[Scope(t)], Call(t).tokens, Call(t).cost) IN
    /\ At(t, "admit")
    /\ admission' = [admission EXCEPT ![Scope(t)] = d.controller]
    /\ IF d.admitted
       THEN /\ Goto(t, "put")
            /\ ghost' = [ghost EXCEPT !.spent[Scope(t)] =
                           Append(@, [age |-> 0, tokens |-> Call(t).tokens, cost |-> Call(t).cost])]
            /\ UNCHANGED audit
       ELSE /\ Return(t, [Answer("throttled") EXCEPT !.retry = d.retry])
            /\ audit' = Audit!log(audit, Event(t, "Enqueue", 0))
            /\ UNCHANGED ghost
    /\ UNCHANGED <<keystore, quota, dedup, routes, groups, group, messages, workload>>

\* group.enqueue, which may fail in its log.
Put(t) ==
    LET id == Len(messages) + 1
        same == Existing(group[Scope(t)], Call(t).key)
    IN
    /\ At(t, "put")
    /\ \/ /\ same # {}
          /\ task' = [task EXCEPT ![t].pc = "index", ![t].id = The(same)]
          /\ UNCHANGED <<group, messages>>
       \/ /\ same = {}
          /\ group' = [group EXCEPT ![Scope(t)] = Pushed(@, id, Call(t).key)]
          /\ messages' = Append(messages, [tenant |-> Tenant(t), queue |-> Queue(t), tries |-> 0])
          /\ task' = [task EXCEPT ![t].pc = "index", ![t].id = id]
       \/ workload.faults /\ Return(t, Answer("error")) /\ UNCHANGED <<group, messages>>
    /\ UNCHANGED <<keystore, registry, audit, ghost, workload>>

\* The embedding goes into the index once the message is in the queue, and by then
\* possibly out of it again.
IndexAndReturn(t) ==
    /\ At(t, "index")
    /\ LET x == dedup[Scope(t)] IN
       /\ dedup' = IF Call(t).embedding = {} THEN dedup
                   ELSE [dedup EXCEPT ![Scope(t)] = Index!insert(x, task[t].id, The(Call(t).embedding))]
       /\ ghost' = IF Call(t).embedding = {} THEN ghost
                   ELSE [ghost EXCEPT !.indexed = {g \in @ : g.id # task[t].id} \cup {[id |-> task[t].id, age |-> 0]}]
    /\ audit' = Audit!log(audit, Event(t, "Enqueue", task[t].id))
    /\ Return(t, [Answer("enqueued") EXCEPT !.id = task[t].id])
    /\ UNCHANGED <<keystore, quota, admission, routes, groups, group, messages, workload>>

-----------------------------------------------------------------------------
(* claim, ack, nack and the calls that need a lease                         *)

\* claim_impl: a queue that is over its budget hands out nothing.
Headroom(t) ==
    LET a == Admission!evict_expired(admission[Scope(t)]) IN
    /\ At(t, "headroom")
    /\ admission' = [admission EXCEPT ![Scope(t)] = a]
    /\ IF Admission!has_headroom(a) THEN Goto(t, "group") ELSE Return(t, Answer("no_headroom"))
    /\ UNCHANGED <<keystore, quota, dedup, routes, groups, group, messages, audit, ghost, workload>>

\* group.claim, or the time limit: with a wait of zero it may win over a ready message.
Claim(t) ==
    LET g == group[Scope(t)] IN
    /\ Running(t, "group", "claim")
    /\ \/ Return(t, Answer("unavailable")) /\ UNCHANGED <<group, messages>>
       \/ /\ g.ready # <<>>
          /\ group' = [group EXCEPT ![Scope(t)] = Claimed(g)]
          /\ messages' = [messages EXCEPT ![Head(g.ready)].tries = @ + 1]
          /\ Done(t, [Answer("claimed") EXCEPT !.id = Head(g.ready)], NewLease(g))
    /\ UNCHANGED <<keystore, registry, audit, ghost, workload>>

HoldsLease(t) == task[t].held \in group[Scope(t)].leased

\* ack_impl up to group.ack; what was acked is then taken out of the index.
Ack(t) ==
    /\ Running(t, "group", "ack") /\ task[t].held.id # 0
    /\ IF HoldsLease(t)
       THEN /\ group' = [group EXCEPT ![Scope(t)] = Finished(@, task[t].held)]
            /\ Goto(t, "unindex")
            /\ UNCHANGED audit
       ELSE /\ audit' = Audit!log(audit, Event(t, "AckStale", task[t].held.id))
            /\ Return(t, Answer("stale"))
            /\ UNCHANGED group
    /\ UNCHANGED <<keystore, registry, messages, ghost, workload>>

AckUnindex(t) ==
    /\ At(t, "unindex")
    /\ dedup' = [dedup EXCEPT ![Scope(t)] = Index!remove(@, task[t].held.id)]
    /\ audit' = Audit!log(audit, Event(t, "Ack", task[t].held.id))
    /\ Return(t, Answer("acked"))
    /\ UNCHANGED <<keystore, quota, admission, routes, groups, group, messages, ghost, workload>>

\* nack and reclaim_expired_leases: the leases are out of the group, and their messages
\* in the call's hands alone until it has resolved them.
TakeOut(t, leases) ==
    /\ group' = [group EXCEPT ![Scope(t)] = Dropped(@, leases)]
    /\ task' = [task EXCEPT ![t].pc = "resolve", ![t].batch = leases]
    /\ UNCHANGED audit

Nack(t) ==
    /\ Running(t, "group", "nack") /\ task[t].held.id # 0
    /\ IF HoldsLease(t)
       THEN TakeOut(t, {task[t].held})
       ELSE /\ audit' = Audit!log(audit, Event(t, "NackStale", task[t].held.id))
            /\ Return(t, Answer("stale"))
            /\ UNCHANGED group
    /\ UNCHANGED <<keystore, registry, messages, ghost, workload>>

\* resolve_failed_delivery for a nack, which is told of an error; the audit log is not.
ResolveNacked(t) ==
    LET g == group[Scope(t)] IN
    /\ Running(t, "resolve", "nack")
    /\ \E lease \in task[t].batch :
         \/ /\ group' = [group EXCEPT ![Scope(t)] = Failed(g, lease)]
            /\ audit' = Audit!log(audit, Event(t, "Nack", lease.id))
            /\ Return(t, Answer("nacked"))
         \/ /\ \E h \in HalfFailed(g, lease) : group' = [group EXCEPT ![Scope(t)] = h]
            /\ Return(t, Answer("error"))
            /\ UNCHANGED audit
    /\ UNCHANGED <<keystore, registry, messages, ghost, workload>>

\* A claim finds leases that ran out.
Reclaim(t) ==
    /\ workload.faults /\ Running(t, "group", "claim")
    /\ \E leases \in SUBSET group[Scope(t)].leased : leases # {} /\ TakeOut(t, leases)
    /\ UNCHANGED <<keystore, registry, messages, ghost, workload>>

\* It resolves them one by one and passes over an error, or its time limit ends it and
\* drops those that are left.
ResolveReclaimed(t) ==
    LET g == group[Scope(t)] batch == task[t].batch IN
    /\ Running(t, "resolve", "claim")
    /\ \/ \E lease \in batch : \E h \in {Failed(g, lease)} \cup HalfFailed(g, lease) :
            /\ group' = [group EXCEPT ![Scope(t)] = h]
            /\ task' = [task EXCEPT ![t].pc = IF batch = {lease} THEN "group" ELSE "resolve",
                                    ![t].batch = @ \ {lease}]
       \/ Return(t, Answer("unavailable")) /\ UNCHANGED group
    /\ UNCHANGED <<keystore, registry, messages, audit, ghost, workload>>

\* checkpoint_impl, publish_partial_result_impl, stream_partial_results_impl and
\* list_dead_letters_impl leave every message where it is.
Looks == [checkpoint |-> "checkpointed", publish_partial_result |-> "published",
          stream_partial_results |-> "active", list_dead_letters |-> "ok"]

LookAtGroup(t) ==
    /\ At(t, "group") /\ Call(t).tool \in DOMAIN Looks
    /\ Call(t).tool = "list_dead_letters" \/ task[t].held.id # 0
    /\ LET found == CASE Call(t).tool = "list_dead_letters" -> TRUE
                     [] Call(t).tool = "stream_partial_results" ->
                          \E lease \in group[Scope(t)].leased : lease.id = task[t].held.id
                     [] OTHER -> HoldsLease(t)
       IN Return(t, Answer(IF found THEN Looks[Call(t).tool] ELSE "stale"))
    /\ UNCHANGED <<keystore, registry, group, messages, audit, ghost, workload>>

-----------------------------------------------------------------------------
(* Dead letters                                                             *)

IsDead(t) == Call(t).message \in group[Scope(t)].dead

\* triage_dead_letter_impl: annotate; a transient one is then reprocessed, in a
\* second call on the group.
Triage(t) ==
    /\ Running(t, "group", "triage_dead_letter") /\ Call(t).message # 0
    /\ IF IsDead(t) /\ Call(t).transient
       THEN Goto(t, "reprocess")
       ELSE Return(t, Answer(IF IsDead(t) THEN "annotated" ELSE "not_found"))
    /\ UNCHANGED <<keystore, registry, group, messages, audit, ghost, workload>>

\* reprocess_dead_letter, called as a tool or by triage: back to the queue with a
\* fresh count, whatever the tenant's ceilings say.
Reprocess(t) ==
    /\ At(t, "reprocess") \/ Running(t, "group", "reprocess_dead_letter")
    /\ Call(t).message # 0
    /\ IF IsDead(t)
       THEN /\ group' = [group EXCEPT ![Scope(t)] = Revived(@, Call(t).message)]
            /\ messages' = [messages EXCEPT ![Call(t).message].tries = 0]
            /\ ghost' = [ghost EXCEPT !.exempt = @ \cup {Call(t).message}]
            /\ Return(t, Answer("reprocessed"))
       ELSE /\ Return(t, Answer(IF At(t, "reprocess") THEN "annotated" ELSE "not_found"))
            /\ UNCHANGED <<group, messages, ghost>>
    /\ UNCHANGED <<keystore, registry, audit, workload>>

Purge(t) ==
    /\ Running(t, "group", "purge_dead_letter") /\ Call(t).message # 0
    /\ IF IsDead(t)
       THEN group' = [group EXCEPT ![Scope(t)] = Purged(@, Call(t).message)] /\ Return(t, Answer("purged"))
       ELSE Return(t, Answer("not_found")) /\ UNCHANGED group
    /\ UNCHANGED <<keystore, registry, messages, audit, ghost, workload>>

\* A call on the group that fails in one of its logs: what was done before stays done,
\* the caller is told of the error and the audit log of nothing.
BecomesAndFails(t, g) ==
    /\ workload.faults
    /\ group' = [group EXCEPT ![Scope(t)] = g]
    /\ Return(t, Answer("error"))
    /\ UNCHANGED <<keystore, registry, messages, audit, ghost, workload>>

LeaseCallFails(t) ==
    LET g == group[Scope(t)] lease == task[t].held IN
    /\ At(t, "group") /\ Call(t).tool \in {"ack", "checkpoint"} /\ HoldsLease(t)
    /\ \/ Call(t).tool = "ack" /\ BecomesAndFails(t, Released(g, lease))
       \/ Call(t).tool = "checkpoint" /\ BecomesAndFails(t, g)

DeadLetterCallFails(t) ==
    LET g == group[Scope(t)] id == Call(t).message
        reprocesses == At(t, "reprocess") \/ Call(t).tool = "reprocess_dead_letter"
    IN
    /\ At(t, "group") \/ At(t, "reprocess")
    /\ Call(t).tool \in {"triage_dead_letter", "reprocess_dead_letter", "purge_dead_letter"} /\ IsDead(t)
    /\ \/ Running(t, "group", "triage_dead_letter") /\ BecomesAndFails(t, g)
       \/ (reprocesses \/ Call(t).tool = "purge_dead_letter") /\ BecomesAndFails(t, Taken(g, id))
       \/ reprocesses /\ BecomesAndFails(t, Purged(g, id))

-----------------------------------------------------------------------------
(* Configuration and status                                                 *)

\* What was used before counts against the new limits too; the ghost starts anew.
ConfigureAdmission(t) ==
    /\ Running(t, "tool", "configure_admission") /\ Queue(t) # BadName
    /\ admission' = [admission EXCEPT ![Scope(t)] = Admission!set_config(@, Call(t).config)]
    /\ ghost' = [ghost EXCEPT !.spent[Scope(t)] = <<>>]
    /\ Return(t, Answer("ok"))
    /\ UNCHANGED <<keystore, quota, dedup, routes, groups, group, messages, audit, workload>>

\* admission_status_impl reads the config, which changes nothing, and then the usage.
AdmissionStatus(t) ==
    /\ Running(t, "tool", "admission_status") /\ Queue(t) # BadName
    /\ admission' = [admission EXCEPT ![Scope(t)] = Admission!evict_expired(@)]
    /\ Return(t, Answer("ok"))
    /\ UNCHANGED <<keystore, quota, dedup, routes, groups, group, messages, audit, ghost, workload>>

\* A route needs a name and an embedding that are well-formed, not a queue that exists.
ConfigureRoute(t) ==
    LET e == The(Call(t).embedding) IN
    /\ Running(t, "tool", "configure_route") /\ Queue(t) # BadName
    /\ IF Index!IsValid(e)
       THEN /\ routes' = [routes EXCEPT ![tenant_key(Tenant(t))] = Index!insert(@, Queue(t), e)]
            /\ Return(t, Answer("ok"))
       ELSE Return(t, Answer("invalid")) /\ UNCHANGED routes
    /\ UNCHANGED <<keystore, quota, admission, dedup, groups, group, messages, audit, ghost, workload>>

\* Three tools are for the trusted connection only.
StdioOnly == {"create_api_key", "revoke_api_key", "configure_tenant_quota"}

RefuseTenant(t) ==
    /\ At(t, "tool") /\ Call(t).tool \in StdioOnly
    /\ Tenant(t) # Stdio
    /\ Return(t, Answer("invalid"))
    /\ UNCHANGED <<keystore, registry, group, messages, audit, ghost, workload>>

\* Over stdio these need a tenant id, and a well-formed one.
RejectTenantId(t) ==
    /\ At(t, "tool") /\ Tenant(t) = Stdio
    /\ Call(t).tool \in {"create_api_key", "configure_tenant_quota", "tenant_quota_status"}
    /\ Call(t).tenant = {}
    /\ Return(t, Answer("invalid"))
    /\ UNCHANGED <<keystore, registry, group, messages, audit, ghost, workload>>

MessagesOf(tenant) == {m \in DOMAIN messages : messages[m].tenant = tenant}

ConfigureTenantQuota(t) ==
    /\ Running(t, "tool", "configure_tenant_quota") /\ Tenant(t) = Stdio
    /\ \E tenant \in Call(t).tenant :
         /\ quota' = [quota EXCEPT ![tenant] = Quota!set_config(@, Call(t).config)]
         /\ ghost' = [ghost EXCEPT !.allowed[tenant] = <<>>, !.exempt = @ \cup MessagesOf(tenant)]
    /\ Return(t, Answer("ok"))
    /\ UNCHANGED <<keystore, admission, dedup, routes, groups, group, messages, audit, workload>>

\* tenant_quota_status_impl: a tenant is always told of itself.  The request window
\* is brought up to date, then the queues are summed.
StatusTenant(t) == IF Tenant(t) # Stdio THEN {Tenant(t)} ELSE Call(t).tenant

TenantQuotaStatus(t) ==
    /\ Running(t, "tool", "tenant_quota_status")
    /\ \E tenant \in StatusTenant(t) :
         /\ quota' = [quota EXCEPT ![tenant] = Quota!evict_expired(@)]
         /\ task' = [task EXCEPT ![t].pc = "sum", ![t].left = Matching(tenant), ![t].total = 0]
    /\ UNCHANGED <<keystore, admission, dedup, routes, groups, group, messages, audit, ghost, workload>>

TenantQuotaReport(t) ==
    /\ Running(t, "sum", "tenant_quota_status") /\ task[t].left = {}
    /\ Return(t, Answer("ok"))
    /\ UNCHANGED <<keystore, registry, group, messages, audit, ghost, workload>>

\* dashboard_snapshot needs no credential and counts against no quota.  It lists the
\* open queues, and brings the budget of each and then each tenant's request window
\* up to date.
DashboardQueues(t) ==
    /\ Running(t, "tool", "dashboard_snapshot")
    /\ admission' = [s \in Scopes |-> IF s \in groups THEN Admission!evict_expired(admission[s]) ELSE admission[s]]
    /\ Goto(t, "tenants")
    /\ UNCHANGED <<keystore, quota, dedup, routes, groups, group, messages, audit, ghost, workload>>

DashboardTenants(t) ==
    /\ At(t, "tenants")
    /\ quota' = [a \in Tenants |-> IF Matching(a) # {} THEN Quota!evict_expired(quota[a]) ELSE quota[a]]
    /\ Return(t, Answer("ok"))
    /\ UNCHANGED <<keystore, admission, dedup, routes, groups, group, messages, audit, ghost, workload>>

-----------------------------------------------------------------------------
(* API keys                                                                 *)

\* One append to the keys' log.  Without faults it succeeds.
KeysLogged(t, record, next) ==
    \E r \in ApiKeys!Logged(keystore, record) :
      /\ r.ok \/ workload.faults
      /\ keystore' = r.store
      /\ IF r.ok THEN Goto(t, next) ELSE Return(t, Answer("error"))
      /\ ghost' = [ghost EXCEPT !.damaged = @ \/ \E i \in DOMAIN r.store.file : ApiKeys!W!IsTorn(r.store.file[i])]

\* mint: log, then the map.
MintLog(t) ==
    /\ Running(t, "tool", "create_api_key") /\ Tenant(t) = Stdio
    /\ \E tenant \in Call(t).tenant : KeysLogged(t, ApiKeys!Mint(Call(t).api_key, tenant), "mint")
    /\ UNCHANGED <<registry, group, messages, audit, workload>>

MintInsert(t) ==
    /\ At(t, "mint")
    /\ keystore' = ApiKeys!Minted(keystore, Call(t).api_key, The(Call(t).tenant))
    /\ Return(t, Answer("ok"))
    /\ UNCHANGED <<registry, group, messages, audit, ghost, workload>>

\* revoke: look, log, then the map, each on its own.
RevokeLook(t) ==
    /\ Running(t, "tool", "revoke_api_key") /\ Tenant(t) = Stdio
    /\ IF Call(t).api_key \in DOMAIN keystore.keys THEN Goto(t, "revoke_log") ELSE Return(t, Answer("not_found"))
    /\ UNCHANGED <<keystore, registry, group, messages, audit, ghost, workload>>

RevokeLog(t) ==
    /\ At(t, "revoke_log")
    /\ KeysLogged(t, ApiKeys!Revoke(Call(t).api_key), "revoke")
    /\ UNCHANGED <<registry, group, messages, audit, workload>>

RevokeRemove(t) ==
    /\ At(t, "revoke")
    /\ keystore' = ApiKeys!Revoked(keystore, Call(t).api_key)
    /\ Return(t, Answer(IF Call(t).api_key \in DOMAIN keystore.keys THEN "ok" ELSE "not_found"))
    /\ ghost' = [ghost EXCEPT !.revoked = @ \cup {Call(t).api_key}]
    /\ UNCHANGED <<registry, group, messages, audit, workload>>

-----------------------------------------------------------------------------
(* Audit workers, time and restarts                                         *)

AuditReceive(w) ==
    /\ workload.audited /\ Audit!CanReceive(audit, w)
    /\ audit' = Audit!Receive(audit, w)
    /\ UNCHANGED <<keystore, registry, group, messages, task, ghost, workload>>

AuditWrite(w) ==
    /\ Audit!CanWrite(audit, w)
    /\ audit' \in Audit!Writes(audit, w)
    /\ UNCHANGED <<keystore, registry, group, messages, task, ghost, workload>>

\* What the properties remember ages as well, and is forgotten at MaxAge.
Older(ages) ==
    LET now == [i \in DOMAIN ages |-> ages[i] + 1]
    IN FromFirst(now, {i \in DOMAIN now : now[i] < MaxAge})
OlderEntries(entries) ==
    LET now == [i \in DOMAIN entries |-> [entries[i] EXCEPT !.age = @ + 1]]
    IN FromFirst(now, {i \in DOMAIN now : now[i].age < MaxAge})

Tick ==
    /\ workload.clock
    /\ quota' = [a \in Tenants |-> Quota!Age(quota[a], MaxAge)]
    /\ admission' = [s \in Scopes |-> Admission!Age(admission[s], MaxAge)]
    /\ dedup' = [s \in Scopes |-> Index!Age(dedup[s], MaxAge)]
    /\ ghost' = [ghost EXCEPT
         !.allowed = [a \in Tenants |-> Older(@[a])],
         !.spent = [s \in Scopes |-> OlderEntries(@[s])],
         !.indexed = {g \in {[g EXCEPT !.age = @ + 1] : g \in @} : g.age <= MaxAge}]
    /\ UNCHANGED <<keystore, routes, groups, group, messages, audit, task, workload>>

\* What a process starts with: QaasMcpServer::new on the files that are there.
Fresh(files) ==
    [keystore |-> ApiKeys!open(files.keys), audit |-> Audit!open(files.audit)]

Restart ==
    LET process == Fresh([keys |-> keystore.file, audit |-> audit.file]) IN
    /\ workload.restarts
    /\ keystore' = process.keystore /\ audit' = process.audit
    /\ quota' = [a \in Tenants |-> Quota!new(Quota!UNLIMITED(Minute))]
    /\ admission' = [s \in Scopes |-> Admission!new(Admission!UNLIMITED(Hour))]
    /\ dedup' = [s \in Scopes |-> Index!new({DEDUP_TTL})]
    /\ routes' = [c \in Callers |-> Index!new({})]
    /\ groups' = {}
    /\ group' = [s \in Scopes |-> Reopened(group[s])]
    /\ messages' = [m \in Ids |-> [messages[m] EXCEPT !.tries = 0]]
    /\ task' = [t \in Tasks |-> IF At(t, "idle") THEN task[t]
                                ELSE [NewTask(Tail(task[t].todo)) EXCEPT !.held = task[t].held]]
    /\ ghost' = [ghost EXCEPT !.allowed = [a \in Tenants |-> <<>>], !.spent = [s \in Scopes |-> <<>>],
                              !.indexed = {}]
    /\ UNCHANGED workload

-----------------------------------------------------------------------------
NewGhost == [allowed |-> [a \in Tenants |-> <<>>], spent |-> [s \in Scopes |-> <<>>],
             indexed |-> {}, exempt |-> {}, revoked |-> {}, damaged |-> FALSE]

\* A server that has been told the keys, quotas and budgets of the workload.
Init ==
    /\ workload \in Workloads
    /\ LET process == Fresh([keys |-> workload.keys, audit |-> <<>>]) IN
       keystore = process.keystore /\ audit = process.audit
    /\ quota = [a \in Tenants |-> Quota!new(workload.quota)]
    /\ admission = [s \in Scopes |-> Admission!new(workload.budget)]
    /\ dedup = [s \in Scopes |-> Index!new({DEDUP_TTL})]
    /\ routes = [c \in Callers |-> Index!new({})]
    /\ groups = {}
    /\ group = [s \in Scopes |-> NewGroup]
    /\ messages = <<>>
    /\ task = [t \in Tasks |-> NewTask(workload.calls[t])]
    /\ ghost = NewGhost

Enqueue(t) == \/ ResolveTargetQueue(t) \/ Dedup(t) \/ ReadPendingLimit(t) \/ ComparePending(t)
              \/ Admit(t) \/ Put(t) \/ IndexAndReturn(t)
Resolve(t) == ResolveNacked(t) \/ ResolveReclaimed(t)
Consume(t) == \/ Headroom(t) \/ Claim(t) \/ Ack(t) \/ AckUnindex(t) \/ Nack(t) \/ Reclaim(t) \/ Resolve(t)
              \/ LookAtGroup(t) \/ LeaseCallFails(t)
DeadLetters(t) == Triage(t) \/ Reprocess(t) \/ Purge(t) \/ DeadLetterCallFails(t)
Configure(t) == ConfigureAdmission(t) \/ ConfigureRoute(t) \/ ConfigureTenantQuota(t)
Refuse(t) == RejectName(t) \/ RejectId(t) \/ RejectKey(t) \/ RefuseTenant(t) \/ RejectTenantId(t)
Status(t) == \/ AdmissionStatus(t) \/ TenantQuotaStatus(t) \/ TenantQuotaReport(t)
             \/ DashboardQueues(t) \/ DashboardTenants(t)
KeyCalls(t) == MintLog(t) \/ MintInsert(t) \/ RevokeLook(t) \/ RevokeLog(t) \/ RevokeRemove(t)

Next ==
    \/ \E t \in Tasks : \/ StdioCall(t) \/ RequireTenant(t) \/ Authorize(t) \/ Refuse(t) \/ Get(t) \/ SumOne(t)
                        \/ Enqueue(t) \/ Consume(t) \/ DeadLetters(t) \/ Configure(t) \/ Status(t)
                        \/ KeyCalls(t)
    \/ \E w \in Workers : AuditReceive(w) \/ AuditWrite(w)
    \/ Tick
    \/ Restart

Spec == Init /\ [][Next]_vars

-----------------------------------------------------------------------------
(* Properties                                                               *)

\* Every variable has its type, the audit channel never holds more than its
\* capacity, and a throttled caller is never told to come back at once.
TypeOK ==
    /\ groups \subseteq Scopes
    /\ \A a \in Tenants : quota[a].requests \in Seq(0..MaxAge)
    /\ \A s \in Scopes : /\ \A i \in DOMAIN admission[s].entries : admission[s].entries[i].age \in 0..MaxAge
                         /\ group[s].dead \subseteq Ids /\ group[s].ready \in Seq(Ids)
                         /\ \A lease \in group[s].leased : lease.id \in Ids
    /\ DOMAIN keystore.keys \subseteq Keys
    /\ Len(audit.channel) <= channel_capacity
    /\ \A t \in Tasks : /\ task[t].answer.kind \in Kinds
                        /\ task[t].answer.id \in Ids \cup {0}
                        /\ task[t].answer.retry \in Option(Windows)

Within(entries, window) == FromFirst(entries, {i \in DOMAIN entries : entries[i].age < window})

\* try_admit under concurrent enqueues, status calls and claims that all evict: what
\* a queue admitted in any one window since its budget was set is within the budget.
BudgetHeld ==
    \A s \in Scopes :
      LET config == admission[s].config
          used == Admission!sum(Within(ghost.spent[s], config.window))
      IN /\ \A limit \in config.tokens_per_window : used.tokens <= limit
         /\ \A limit \in config.cost_ceiling_per_window : used.cost <= limit

\* try_acquire: the tool calls a tenant was allowed in any one window, since its quota
\* was set, are within the quota.
RequestsHeld ==
    \A a \in Tenants : \A limit \in quota[a].config.requests_per_window :
      LET allowed == ghost.allowed[a]
      IN Len(FromFirst(allowed, {i \in DOMAIN allowed : allowed[i] < quota[a].config.window})) <= limit

\* A tenant's messages that are not acknowledged, those in a call's hands included.
Pending(tenant) ==
    UNION {InHand(s) \cup Range(group[s].ready) \cup {l.id : l \in group[s].leased} :
             s \in {s \in Scopes : s[1] = tenant}}

Enqueuers == {t \in Tasks : \E i \in DOMAIN workload.calls[t] : workload.calls[t][i].tool = "enqueue"}

\* The ceiling on pending messages is compared with a sum taken queue by queue before
\* the message is put: callers that run together overshoot it, by one message each
\* but the last, and one may have been compared with a ceiling that is now zero.  Not
\* counted in this bound, because no sum counted them: messages reprocessed from the
\* dead-letter queue, those that were there when the quota was set, and those that a nack
\* or a reclaim had in its hands, in no queue, when an enqueue read their queue's length.
PendingOvershootBounded ==
    \A a \in Tenants : \A max \in quota[a].config.max_pending_messages :
      Cardinality(Pending(a) \ ghost.exempt) + 1 <= (IF max = 0 THEN 1 ELSE max) + Cardinality(Enqueuers)

\* A message a call is answered with, claimed or collapsed into, was enqueued by the
\* caller's own tenant, even if two tenants and stdio use one queue name.
TenantIsolation ==
    \A t \in Tasks : task[t].answer.id # 0 => messages[task[t].answer.id].tenant = task[t].tenant

\* A collapse is onto a message of the same tenant and queue whose embedding went into
\* the index less than DEDUP_TTL ago, although entries are evicted only when somebody
\* looks and may outlive their message.
CollapsesOntoRecent ==
    [][\A t \in Tasks : At(t, "dedup") /\ task'[t].answer.kind = "duplicate" =>
         LET id == task'[t].answer.id IN
         /\ \E g \in ghost.indexed : g.id = id /\ g.age < DEDUP_TTL
         /\ messages[id].tenant = Tenant(t) /\ messages[id].queue = Queue(t)]_vars

\* What `written` is documented to promise: once the workers have caught up, written()
\* and dropped() add up to the events that were logged.  An event whose append failed
\* is in neither.
AuditSumKept ==
    audit.channel = <<>> /\ (\A w \in Workers : ~Audit!CanWrite(audit, w)) =>
      audit.written + audit.dropped = audit.calls

\* A key whose revocation was confirmed authenticates nobody, in this process and,
\* unless a failed append left half a frame in the log, in those after it.
RevokedStaysRevoked == ghost.damaged \/ ghost.revoked \cap DOMAIN keystore.keys = {}

=============================================================================
