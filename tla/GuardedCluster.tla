--------------------------- MODULE GuardedCluster ---------------------------
(***************************************************************************)
(* A Raft cluster (RaftCluster), the watcher that keeps its membership     *)
(* (MembershipWatcher) and producers that write to it behind a circuit     *)
(* breaker and a fallback cache (HybridGuard), put together as             *)
(* raft/circuit_breaker_tests.rs does: the guarded operation is            *)
(* client_write on the Raft handle of some node, the value written is the  *)
(* value cached.  Where a workload has no writes the guarded operation is  *)
(* an abstract one that succeeds while `healthy`.                          *)
(***************************************************************************)
EXTENDS HybridGuard, MembershipWatcher

CONSTANTS Workloads     \* bound: what happens in one behaviour

ASSUME WorkloadsAssumption ==
    \A w \in Workloads :
        /\ w.cached \in BOOLEAN
        /\ w.writes \in [Callers -> Seq([key : Keys, value : Values, handle : Nodes])]
        /\ Handle \in w.voters /\ w.voters \subseteq Nodes
        /\ w.source \in Seq(SUBSET Nodes) \ {<<>>}
        /\ w.candidates \cup w.shutdowns \cup w.snapshots \subseteq Nodes

VARIABLES
    healthy,      \* the abstract operation's answer, then the answers to come
    pending,      \* each caller's writes still to make; the one it waits for
    fresh,        \* ghost: the values put in the cache less than a TTL ago, and when
    workload

callVars == <<healthy, pending, fresh>>
vars == <<guardVars, clusterVars, watcherVars, callVars, workload>>

SomeKey == CHOOSE k \in Keys : TRUE
SomeValue == CHOOSE v \in Values : TRUE
NoWrite == [handle |-> Handle, term |-> 0, index |-> 0]

Init ==
    /\ workload \in Workloads
    /\ cached = workload.cached
    /\ GuardInit(SomeKey, SomeValue)
    /\ ClusterInit(workload.voters, Handle, workload.registered)
    /\ WatcherInit(workload.source, workload.unread)
    /\ healthy = workload.healthy
    /\ pending = [c \in Callers |-> [writes |-> workload.writes[c], write |-> NoWrite]]
    /\ fresh = {}

-----------------------------------------------------------------------------
(* The guarded operation                                                    *)

\* A producer's next call, with the value it writes and the node it writes to.
BeginWrite(c) ==
    /\ workload.healthy = <<>> /\ pending[c].writes # <<>>
    /\ LET w == Head(pending[c].writes)
       IN /\ Begin(c, w.key, w.value)
          /\ pending' = [pending EXCEPT ![c] = [writes |-> Tail(@.writes),
                                                write |-> [NoWrite EXCEPT !.handle = w.handle]]]
    /\ UNCHANGED <<clusterVars, watcherVars, healthy, fresh, workload>>

\* client_write: only the leader takes it.
ClientWrite(c) ==
    LET h == pending[c].write.handle
    IN /\ call[c].at = "primary" /\ workload.healthy = <<>>
       /\ \/ /\ leading[h] # {}
             /\ LeaderAppends(h, Set(call[c].key, call[c].value))
             /\ pending' = [pending EXCEPT ![c].write =
                    [@ EXCEPT !.term = Elements(leading[h], 0), !.index = LastLog(h).index + 1]]
             /\ Goto(c, "waiting")
          \/ /\ leading[h] = {}
             /\ Goto(c, "err")
             /\ UNCHANGED <<clusterVars, pending>>
       /\ UNCHANGED <<breaker, cache, cached, watcherVars, healthy, fresh, workload>>

\* The entry has been applied on the node that took it, or that node has lost its lead,
\* in which case the entry may or may not be committed later.
WriteReturns(c) ==
    LET w == pending[c].write
    IN /\ call[c].at = "waiting"
       /\ \/ leading[w.handle] = {w.term} /\ LastApplied(w.handle) >= w.index /\ Goto(c, "ok")
          \/ leading[w.handle] # {w.term} /\ Goto(c, "err")
       /\ UNCHANGED <<breaker, cache, cached, clusterVars, watcherVars, callVars, workload>>

\* The abstract operation, over and over.
BeginOperation(c) ==
    /\ workload.healthy # <<>>
    /\ \E w \in Range(pending[c].writes) : Begin(c, w.key, w.value)
    /\ UNCHANGED <<clusterVars, watcherVars, callVars, workload>>

Operation(c) ==
    /\ call[c].at = "primary" /\ workload.healthy # <<>>
    /\ Goto(c, IF Head(healthy) THEN "ok" ELSE "err")
    /\ UNCHANGED <<breaker, cache, cached, clusterVars, watcherVars, callVars, workload>>

\* The dependency fails, or recovers.
Turn ==
    /\ Len(healthy) > 1
    /\ healthy' = Tail(healthy)
    /\ UNCHANGED <<guardVars, clusterVars, watcherVars, pending, fresh, workload>>

-----------------------------------------------------------------------------

Guarded(c) ==
    /\ GuardStep(c)
    /\ fresh' = IF call[c].at # "set" THEN fresh
                ELSE {f \in fresh : f.key # call[c].key \/ f.value # call[c].value}
                        \cup {[key |-> call[c].key, value |-> call[c].value, age |-> 0]}
    /\ UNCHANGED <<clusterVars, watcherVars, healthy, pending, workload>>

HealthCheck == breaker_state /\ UNCHANGED <<clusterVars, watcherVars, callVars, workload>>

Time ==
    /\ Tick
    /\ fresh' = {[f EXCEPT !.age = @ + 1] : f \in {f \in fresh : f.age + 1 < ttl}}
    /\ UNCHANGED <<clusterVars, watcherVars, healthy, pending, workload>>

\* What openraft does on its own, on the nodes of the cluster.
Replication ==
    \/ \E l, m \in Nodes : append_entries(l, m) \/ install_snapshot(l, m)
    \/ \E n \in Nodes : Commit(n) \/ StepDown(n) \/ Apply(n) \/ KeepInstalled(n) \/ KeepBuilt(n)

\* What happens only where a workload has it.
Events ==
    \/ \E n \in Nodes \ workload.registered : register(n)
    \/ \E n \in workload.shutdowns : shutdown(n)
    \/ \E n \in workload.candidates : \E Q \in SUBSET Nodes : Elect(n, Q)
    \/ \E n \in workload.snapshots : BuildSnapshot(n) \/ Purge(n)

Cluster == UNCHANGED <<guardVars, watcherVars, callVars, workload>> /\ (Replication \/ Events)

Watch == UNCHANGED <<guardVars, callVars, workload>> /\ (Reconcile \/ Edit \/ (workload.stops /\ Stop))

CallStep(c) ==
    BeginWrite(c) \/ BeginOperation(c) \/ ClientWrite(c) \/ WriteReturns(c) \/ Operation(c) \/ Guarded(c)

Next == (\E c \in Callers : CallStep(c)) \/ HealthCheck \/ Turn \/ Time \/ Cluster \/ Watch

Spec == Init /\ [][Next]_vars

\* The runtime schedules every task that is ready and time passes.  Producers of the
\* abstract operation call again, and it changes as the workload says.  In a steady
\* cluster openraft keeps replicating, nodes that were started register, and the
\* source changes as the workload says.
Fairness ==
    /\ \A c \in Callers : WF_vars(workload.healthy # <<>> /\ CallStep(c))
    /\ WF_vars(Turn) /\ WF_vars(workload.healthy # <<>> /\ Time)
    /\ WF_vars(/\ workload.steady
               /\ UNCHANGED <<guardVars, watcherVars, callVars, workload>>
               /\ Replication \/ \E n \in Nodes : register(n))
    /\ WF_vars(/\ workload.steady
               /\ UNCHANGED <<guardVars, callVars, workload>>
               /\ Reconcile \/ Edit)

FairSpec == Spec /\ Fairness

-----------------------------------------------------------------------------
(* Properties                                                               *)

Option(S) == {{}} \cup {{x} : x \in S}
LogIds == [term : 0..MaxTerm, index : 1..MaxLog]

\* Types of the breaker, the cache, the calls, the stores and the watcher.
TypeOK ==
    /\ GuardTypeOK
    /\ \A n \in Nodes :
        /\ hub[n] \in {"new", "registered", "shut_down"}
        /\ leading[n] \in Option(1..MaxTerm) /\ store[n].vote \in Option(1..MaxTerm)
        /\ DOMAIN store[n].log \subseteq 1..MaxLog
        /\ \A i \in DOMAIN store[n].log : store[n].log[i].log_id \in LogIds /\ store[n].log[i].log_id.index = i
        /\ store[n].last_purged \in Option(LogIds)
        /\ machine[n].data.last_applied_log \in Option(LogIds)
        /\ commit[n] \in 0..MaxLog
    /\ Len(committed) <= MaxLog
    /\ watcher \in Watcher

\* A circuit that opened is closed to calls for the whole cooldown, whatever results
\* of calls admitted before it opened arrive in the meantime (record_success).
CooldownHonoured ==
    breaker.state # "Open" => \A age \in breaker.opened_at : age >= open_duration

\* What a fallback serves was put in the cache less than a TTL ago, after the cluster
\* had committed it (HybridGuard::call, FallbackCache::get).
FallbackIsRecentCommit ==
    [][\A c \in Callers :
        call[c].at = "fall_back" /\ call'[c].at = "idle" /\ call'[c].outcome.is = "Cached" =>
            /\ \E f \in fresh : f.key = call[c].key /\ f.value = call'[c].outcome.value
            /\ workload.healthy = <<>> => \E i \in 1..Len(committed) :
                    committed[i].payload = Set(call[c].key, call'[c].outcome.value)]_vars

\* The committed log up to an index, read off it: the last write of each key, and the
\* last membership.
Upto(i, is) == {j \in 1..i : committed[j].payload.is = is}
WritesUpto(i, key) == {j \in Upto(i, "Set") : committed[j].payload.key = key}
KvAt(i) == [k \in {committed[j].payload.key : j \in Upto(i, "Set")} |->
              committed[Max(WritesUpto(i, k))].payload.value]
MembershipAt(i) == IF Upto(i, "Membership") = {} THEN {} ELSE {committed[Max(Upto(i, "Membership"))].payload}

\* `id`, a membership and a map are those of one point of the committed log.
Reflects(id, membership, kv) ==
    LET i == Elements(id, Origin).index
    IN /\ i <= Len(committed)
       /\ id = IF i = 0 THEN {} ELSE {committed[i].log_id}
       /\ membership = MembershipAt(i)
       /\ kv = KvAt(i)

\* Every node's state machine is the committed log, applied as far as it says, through
\* elections, truncation, purges and snapshots (get_log_state, truncate, purge,
\* apply, install_snapshot).
AppliedMatchesCommitted ==
    \A n \in Nodes : LET d == machine[n].data IN Reflects(d.last_applied_log, d.last_membership, d.kv)

\* The snapshot a node keeps holds what its metadata says, though entries are applied
\* while it is built (build_snapshot, install_snapshot).
SnapshotMatchesCommitted ==
    \A n \in Nodes : \A s \in machine[n].snapshot :
        Reflects(s.meta.last_log_id, s.meta.last_membership, s.data)

\* A voter that every version of the source names is never voted out, whichever version
\* a reconciliation read and wherever it failed (reconcile_once).
StableMembersStay ==
    \A n \in workload.voters \cap {m \in Nodes : \A d \in Range(workload.source) : m \in d} :
        \A i \in Upto(Len(committed), "Membership") : n \in UNION Range(committed[i].payload.configs)

\* The voters are what the source, once it has settled, says.
Reconciled == voter_ids(Handle) = Last(workload.source)

\* Things settle.  Where the watcher's node keeps the lead, the voters become what the
\* source says and stay so: reads that fail are retried, and nodes join before others
\* leave (run, reconcile_once).  Where the guarded operation works again for good, the
\* circuit closes for good, if calls keep coming (resolve_open_timeout, record_success).
Settles ==
    <>[](/\ workload.steady => Reconciled
         /\ workload.healthy # <<>> => breaker.state = "Closed")

=============================================================================
