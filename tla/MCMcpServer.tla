---------------------------- MODULE MCMcpServer ----------------------------
(* McpServer on small sets: one workload for each thing that several calls can
   get wrong together. *)
EXTENDS McpServer

CONSTANTS t1, t2, t3, ten_a, ten_b, stdio, q1, q2, bad, k1, k2, j1, e1, e2, e3, junk, w1

MCTasks == {t1, t2, t3}
MCKeys == {k1, k2}
MCJwt == [c \in {k1, k2, j1} |-> IF c = j1 THEN {ten_b} ELSE {}]
MCEmbeddings == {e1, e2, e3, junk}
\* e1 and e2 are near-duplicates; e3 has another dimension.
MCScore == [x \in MCEmbeddings |-> [y \in MCEmbeddings |->
             CASE x = y /\ x # junk -> {100}
               [] {x, y} = {e1, e2} -> {96}
               [] OTHER -> {}]]

KeyOfA == <<ApiKeys!Mint(k1, ten_a)>>
NoQuota == Quota!UNLIMITED(Minute)
NoBudget == Admission!UNLIMITED(Hour)

\* A workload in which nothing but the calls happens.
Plain(calls) ==
    [calls |-> [t \in MCTasks |-> calls[CASE t = t1 -> 1 [] t = t2 -> 2 [] t = t3 -> 3]],
     keys |-> KeyOfA, quota |-> NoQuota, budget |-> NoBudget,
     clock |-> FALSE, faults |-> FALSE, restarts |-> FALSE, audited |-> FALSE]

Put0(c, q) == [tool |-> "enqueue", credential |-> c, queue |-> {q}, key |-> {}, tokens |-> 0,
               cost |-> 0, embedding |-> {}]
Plainly(tool, c, q) == [tool |-> tool, credential |-> c, queue |-> {q}]
About(tool, c, q, m) == [tool |-> tool, credential |-> c, queue |-> {q}, message |-> m]

\* Two producers and a consumer at a ceiling of one pending message, over two queues.
CeilingWorkload ==
    [Plain(<<<<Put0(k1, q1), Put0(k1, q2)>>, <<Put0(k1, q1), Put0(k1, q1)>>,
             <<Plainly("claim", k1, q1), Plainly("ack", k1, q1)>>>>)
       EXCEPT !.quota = [NoQuota EXCEPT !.max_pending_messages = {1}, !.max_queues = {2}]]

\* A message fails while another is put: a nack, and a claim that finds a lease run out.
FailingWorkload ==
    [Plain(<<<<Put0(k1, q1), Put0(k1, q1)>>, <<Plainly("claim", k1, q1)>>,
             <<Plainly("claim", k1, q1), Plainly("nack", k1, q1)>>>>)
       EXCEPT !.quota = [NoQuota EXCEPT !.max_pending_messages = {1}], !.faults = TRUE]

\* The ceiling is lowered under a producer.
LoweredWorkload ==
    [Plain(<<<<Put0(k1, q1), Put0(k1, q1)>>, <<>>,
             <<[tool |-> "configure_tenant_quota", credential |-> stdio, tenant |-> {ten_a},
                config |-> [NoQuota EXCEPT !.max_pending_messages = {0}]]>>>>)
       EXCEPT !.quota = [NoQuota EXCEPT !.max_pending_messages = {1}]]

\* A window of two ticks with room for three tokens and one unit of cost.
Spend(tokens, cost) == [Put0(stdio, q1) EXCEPT !.tokens = tokens, !.cost = cost]
BudgetWorkload ==
    [Plain(<<<<Spend(2, 1), Spend(2, 0)>>, <<Spend(1, 1), Spend(4, 0)>>,
             <<Plainly("claim", stdio, q1), Plainly("admission_status", stdio, q1)>>>>)
       EXCEPT !.budget = [tokens_per_window |-> {3}, cost_ceiling_per_window |-> {1}, window |-> 2],
              !.clock = TRUE]

\* Budget and quota are changed under the calls.
Reconfigure ==
    [Plain(<<<<Spend(2, 0), Spend(2, 0)>>,
             <<[tool |-> "configure_admission", credential |-> stdio, queue |-> {q1},
                config |-> [tokens_per_window |-> {2}, cost_ceiling_per_window |-> {}, window |-> 3]]>>,
             <<[tool |-> "dashboard_snapshot", credential |-> stdio]>>>>)
       EXCEPT !.budget = [tokens_per_window |-> {4}, cost_ceiling_per_window |-> {}, window |-> 1],
              !.clock = TRUE]

\* Two requests per window of two ticks.
Ask(c) == [tool |-> "tenant_quota_status", credential |-> c, tenant |-> {}]
RateWorkload ==
    [Plain(<<<<Ask(k1), Put0(k1, q1), Ask(k1)>>, <<Ask(k1), Ask(k1)>>,
             <<[tool |-> "configure_tenant_quota", credential |-> stdio, tenant |-> {ten_a},
                config |-> [NoQuota EXCEPT !.requests_per_window = {1}, !.max_pending_messages = {2}]]>>>>)
       EXCEPT !.quota = [NoQuota EXCEPT !.requests_per_window = {2}, !.window = 2], !.clock = TRUE]

\* Near-duplicates, keys, acks and time.
Task(c, q, e) == [Put0(c, q) EXCEPT !.embedding = {e}]
DedupWorkload ==
    [Plain(<<<<Task(stdio, q1, e1), [Task(stdio, q1, e2) EXCEPT !.key = {"key"}]>>,
             <<[Task(stdio, q1, e3) EXCEPT !.key = {"key"}]>>,
             <<Plainly("claim", stdio, q1), Plainly("ack", stdio, q1)>>>>)
       EXCEPT !.clock = TRUE]

\* One queue name, two tenants and stdio; tasks routed by their embedding.
Route(c, q, e) == [tool |-> "configure_route", credential |-> c, queue |-> {q}, embedding |-> {e}]
TenantsWorkload ==
    Plain(<<<<Route(k1, q1, e1), Route(k1, q2, e3), [Task(k1, q1, e2) EXCEPT !.queue = {}]>>,
            <<[Task(j1, q1, e1) EXCEPT !.queue = {}], Task(j1, q1, e1), Plainly("claim", j1, q1)>>,
            <<Plainly("claim", stdio, q1), Plainly("ack", stdio, q1), Task(stdio, q1, e1)>>>>)

\* Keys minted, used and revoked twice, over a log that fails, with restarts.
KeysWorkload ==
    [Plain(<<<<[tool |-> "create_api_key", credential |-> stdio, tenant |-> {ten_b}, api_key |-> k2],
               [tool |-> "revoke_api_key", credential |-> stdio, api_key |-> k1]>>,
             <<[tool |-> "revoke_api_key", credential |-> stdio, api_key |-> k1]>>,
             <<Ask(k2), Ask(k1)>>>>)
       EXCEPT !.faults = TRUE, !.restarts = TRUE]

\* A message that fails, and two operators who deal with it.
DeadWorkload ==
    [Plain(<<<<Put0(k1, q1), Plainly("claim", k1, q1), Plainly("nack", k1, q1), Plainly("claim", k1, q1)>>,
             <<About("triage_dead_letter", k1, q1, 1) @@ [transient |-> TRUE],
               About("purge_dead_letter", k1, q1, 1)>>,
             <<About("reprocess_dead_letter", k1, q1, 1), Plainly("list_dead_letters", k1, q1)>>>>)
       EXCEPT !.faults = TRUE,
              !.quota = [NoQuota EXCEPT !.max_pending_messages = {1}]]

\* Everything a consumer may do with a lease that may have run out.
LeaseWorkload ==
    [Plain(<<<<Put0(stdio, q1), Plainly("claim", stdio, q1), Plainly("checkpoint", stdio, q1),
               Plainly("publish_partial_result", stdio, q1), Plainly("stream_partial_results", stdio, q1),
               Plainly("ack", stdio, q1)>>,
             <<Plainly("claim", stdio, q1), Plainly("nack", stdio, q1)>>,
             <<[About("triage_dead_letter", stdio, q1, 1) EXCEPT !.message = 1] @@ [transient |-> FALSE]>>>>)
       EXCEPT !.faults = TRUE, !.restarts = TRUE]

\* The audit log's workers, and requests that are turned away.
AuditWorkload ==
    [Plain(<<<<Put0(stdio, q1), Put0(stdio, q1)>>, <<Put0(stdio, q2)>>,
             <<Plainly("claim", stdio, q1), Plainly("ack", stdio, q1)>>>>)
       EXCEPT !.audited = TRUE]

RefusedWorkload ==
    [Plain(<<<<[tool |-> "revoke_api_key", credential |-> k1, api_key |-> k1], Ask(k2),
               Put0(stdio, bad), [Put0(stdio, q1) EXCEPT !.embedding = {junk}]>>,
             <<Route(stdio, bad, e1), Route(stdio, q1, junk), [Put0(stdio, q1) EXCEPT !.key = {""}],
               [Put0(stdio, q1) EXCEPT !.queue = {}], Plainly("claim", k1, q2)>>,
             <<About("purge_dead_letter", stdio, q1, 0), Ask(stdio), Plainly("ack", k1, q1)>>>>)
       EXCEPT !.quota = [NoQuota EXCEPT !.max_queues = {1}]]

MCWorkloads == {CeilingWorkload, FailingWorkload, LoweredWorkload, BudgetWorkload, Reconfigure,
                RateWorkload, DedupWorkload, TenantsWorkload, KeysWorkload, DeadWorkload,
                LeaseWorkload, AuditWorkload, RefusedWorkload}

\* For what the audit log's counters promise.
AuditWorkloads == {AuditWorkload}

=============================================================================
