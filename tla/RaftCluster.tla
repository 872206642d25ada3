----------------------------- MODULE RaftCluster -----------------------------
(***************************************************************************)
(* raft/: nodes, each with a LogStore and a StateMachineStore, that reach  *)
(* each other through an InProcessNetworkHub.  The consensus algorithm is  *)
(* openraft's: its elections, replication and commit rule are modelled     *)
(* only as far as they decide which storage calls are made, and with which *)
(* arguments.  A node's state machine calls run one at a time, except      *)
(* build_snapshot, which is a task of its own.                             *)
(***************************************************************************)
EXTENDS Naturals, FiniteSetsExt, SequencesExt

CONSTANTS
    Nodes,            \* a set of naturals, as NodeId is
    MaxTerm,          \* bound: terms
    MaxLog            \* bound: entries proposed to the cluster

ASSUME NodesAssumption == Nodes \subseteq Nat
ASSUME BoundsAssumption == MaxTerm \in Nat \ {0} /\ MaxLog \in Nat \ {0, 1}

VARIABLES
    hub,          \* each node: "new", "registered" or "shut_down"
    store,        \* LogStores
    machine,      \* StateMachineStores, with the snapshot call under way
    leading,      \* the term a node believes it leads, an Option
    commit,       \* the index up to which a node knows the log to be committed
    committed     \* what the cluster has agreed on, over its whole life

clusterVars == <<hub, store, machine, leading, commit, committed>>

Log == INSTANCE LogStore
Machine == INSTANCE StateMachineStore

Elements(option, otherwise) == IF option = {} THEN otherwise ELSE CHOOSE x \in option : TRUE
Origin == [term |-> 0, index |-> 0]

\* Payloads.  `configs` is one set of voters or, in a joint configuration, two.
Blank == [is |-> "Blank"]
Set(key, value) == [is |-> "Set", key |-> key, value |-> value]
Membership(configs, learners) == [is |-> "Membership", configs |-> configs, learners |-> learners]
Entry(term, index, payload) == [log_id |-> [term |-> term, index |-> index], payload |-> payload]

\* target_raft: an RPC reaches a node that is registered and running.
target_raft(n) == hub[n] = "registered"

\* A snapshot that is being installed counts as purged log from the start.
Installing(n) == UNION {s.meta.last_log_id : s \in machine[n].installing}
LastLog(n) ==
    LET last == Elements(Log!last_log_id(store[n]), Origin)
    IN Elements({id \in Installing(n) : last.index < id.index}, last)
LastPurged(n) == Elements(Installing(n), Elements(store[n].last_purged, Origin))
LastApplied(n) == Elements(machine[n].data.last_applied_log, Origin).index
Vote(n) == Elements(store[n].vote, 0)

\* The membership a node goes by: the last in its log, committed or not, or applied.
membership_config(n) ==
    LET indexes == {i \in DOMAIN store[n].log : store[n].log[i].payload.is = "Membership"}
    IN IF indexes # {} THEN store[n].log[Max(indexes)].payload
       ELSE Elements(machine[n].data.last_membership, Membership(<<{}>>, {}))
voter_ids(n) == UNION Range(membership_config(n).configs)
Members(n) == voter_ids(n) \cup membership_config(n).learners

IsQuorum(configs, Q) == \A voters \in Range(configs) : 2 * Cardinality(Q \cap voters) > Cardinality(voters)

\* The term of the entry a node holds, or last purged, at an index.
TermAt(n, i) ==
    CASE i \in DOMAIN store[n].log -> store[n].log[i].log_id.term
      [] i \notin DOMAIN store[n].log /\ i = LastPurged(n).index -> LastPurged(n).term
      [] OTHER -> MaxTerm + 1

-----------------------------------------------------------------------------
(* Nodes start and stop.                                                    *)

register(n) ==
    /\ hub[n] = "new"
    /\ hub' = [hub EXCEPT ![n] = "registered"]
    /\ UNCHANGED <<store, machine, leading, commit, committed>>

shutdown(n) ==
    /\ hub[n] = "registered"
    /\ hub' = [hub EXCEPT ![n] = "shut_down"]
    /\ leading' = [leading EXCEPT ![n] = {}]
    /\ UNCHANGED <<store, machine, commit, committed>>

-----------------------------------------------------------------------------
(* openraft: which calls the storage gets.                                  *)

Propose(s, term, index, payload) == Log!append(s, {Entry(term, index, payload)})

\* A node asks for votes, which the others give if their logs are not ahead of its own.
Elect(n, Q) ==
    LET term == Vote(n) + 1
    IN /\ term <= MaxTerm /\ LastLog(n).index < MaxLog
       /\ leading[n] = {}
       /\ n \in Q /\ n \in voter_ids(n) /\ IsQuorum(membership_config(n).configs, Q)
       /\ \A m \in Q : /\ target_raft(m)
                       /\ Vote(m) < term
                       /\ ~Log!Precedes(LastLog(n), LastLog(m))
       /\ store' = [m \in Nodes |->
            CASE m = n -> Propose(Log!save_vote(store[m], term), term, LastLog(n).index + 1, Blank)
              [] m \in Q \ {n} -> Log!save_vote(store[m], term)
              [] OTHER -> store[m]]
       /\ leading' = [m \in Nodes |-> CASE m = n -> {term} [] m \in Q \ {n} -> {} [] OTHER -> leading[m]]
       /\ UNCHANGED <<hub, machine, commit, committed>>

\* A leader's append to its own log.
LeaderAppends(n, payload) ==
    /\ LastLog(n).index < MaxLog
    /\ \E term \in leading[n] :
         store' = [store EXCEPT ![n] = Propose(@, term, LastLog(n).index + 1, payload)]
    /\ UNCHANGED <<hub, machine, leading, commit, committed>>

\* The index from which `m` has not got what the leader has.
NextIndex(l, m) ==
    1 + Max({0} \cup {i \in DOMAIN store[l].log \cup {LastPurged(l).index} : TermAt(l, i) = TermAt(m, i)})

\* The leader's request reaches a node it counts as a member, and is not outdated.
Heard(l, m) ==
    /\ leading[l] # {} /\ m # l /\ m \in Members(l)
    /\ target_raft(l) /\ target_raft(m)
    /\ \E term \in leading[l] : Vote(m) <= term

Follows(l, m) == leading' = [leading EXCEPT ![m] = {}]

\* append_entries: what conflicts is truncated, then the next entry appended.
append_entries(l, m) ==
    /\ Heard(l, m)
    /\ \E next \in {NextIndex(l, m)} : \E entries \in {Log!try_get_log_entries(store[l], {next})} :
        /\ next > LastPurged(l).index
        /\ store' = [store EXCEPT ![m] = Log!append(
             Log!save_vote(IF entries = {} THEN @ ELSE Log!truncate(@, next), Elements(leading[l], 0)), entries)]
        /\ commit' = [commit EXCEPT ![m] = Max({@, Min({commit[l], next - 1 + Cardinality(entries)})})]
    /\ Follows(l, m)
    /\ UNCHANGED <<hub, machine, committed>>

\* install_snapshot, to a node that needs entries the leader has purged: first the
\* data; then the snapshot is kept, and the log purged up to it.
install_snapshot(l, m) ==
    /\ Heard(l, m)
    /\ NextIndex(l, m) <= LastPurged(l).index
    /\ machine[m].installing = {}
    /\ \E s \in machine[l].snapshot :
        LET last == Elements(s.meta.last_log_id, Origin)
        IN /\ last.index > commit[m]
           /\ machine' = [machine EXCEPT ![m].data = Machine!Installed(@, s), ![m].installing = {s}]
           /\ store' = [store EXCEPT ![m] = Log!save_vote(
                IF TermAt(m, last.index) = last.term THEN @ ELSE Log!truncate(@, commit[m] + 1),
                Elements(leading[l], 0))]
           /\ commit' = [commit EXCEPT ![m] = last.index]
    /\ Follows(l, m)
    /\ UNCHANGED <<hub, committed>>

KeepInstalled(m) ==
    /\ \E s \in machine[m].installing :
        /\ machine' = [machine EXCEPT ![m].snapshot = {s}, ![m].installing = {}]
        /\ store' = [store EXCEPT ![m] = Log!purge(@, Elements(s.meta.last_log_id, Origin))]
    /\ UNCHANGED <<hub, leading, commit, committed>>

\* An entry of the leader's term that a quorum has is committed, and all before it,
\* which the leader has.
Commit(l) ==
    /\ target_raft(l)
    /\ \E term \in leading[l] : \E i \in DOMAIN store[l].log :
        /\ i > commit[l] /\ TermAt(l, i) = term
        /\ Len(committed) + 1 .. i \subseteq DOMAIN store[l].log
        /\ IsQuorum(membership_config(l).configs, {m \in Nodes : TermAt(m, i) = term})
        /\ commit' = [commit EXCEPT ![l] = i]
        /\ committed' = committed \o [j \in 1..(IF i > Len(committed) THEN i - Len(committed) ELSE 0) |->
                                        store[l].log[Len(committed) + j]]
    /\ UNCHANGED <<hub, store, machine, leading>>

\* A leader whose committed membership leaves it out stops leading.
StepDown(l) ==
    /\ leading[l] # {} /\ l \notin voter_ids(l)
    /\ machine[l].data.last_membership = {membership_config(l)}
    /\ leading' = [leading EXCEPT ![l] = {}]
    /\ UNCHANGED <<hub, store, machine, commit, committed>>

\* The next committed entry is applied.
Apply(n) ==
    /\ hub[n] # "shut_down" /\ machine[n].installing = {}
    /\ LastApplied(n) < commit[n]
    /\ \E e \in Log!try_get_log_entries(store[n], {LastApplied(n) + 1}) :
         machine' = [machine EXCEPT ![n].data = Machine!apply(@, e)]
    /\ UNCHANGED <<hub, store, leading, commit, committed>>

\* build_snapshot reads the data, and writes the snapshot later.
BuildSnapshot(n) ==
    /\ hub[n] # "shut_down" /\ machine[n].building = {}
    /\ machine[n].data.last_applied_log # {}
    /\ \A s \in machine[n].snapshot : s.meta.last_log_id # machine[n].data.last_applied_log
    /\ machine' = [machine EXCEPT ![n].building = {Machine!Snapshot(machine[n].data)}]
    /\ UNCHANGED <<hub, store, leading, commit, committed>>

KeepBuilt_RereadsMeta(n) ==
    /\ \E s \in machine[n].building :
         machine' = [machine EXCEPT ![n].building = {}, ![n].snapshot =
                        {[s EXCEPT !.meta.last_log_id = machine[n].data.last_applied_log]}]
    /\ UNCHANGED <<hub, store, leading, commit, committed>>
KeepBuilt(n) ==
    /\ \E s \in machine[n].building :
         machine' = [machine EXCEPT ![n].snapshot = {s}, ![n].building = {}]
    /\ UNCHANGED <<hub, store, leading, commit, committed>>

\* openraft purges what the snapshot covers.
Purge(n) ==
    /\ hub[n] # "shut_down" /\ machine[n].installing = {}
    /\ \E s \in machine[n].snapshot :
         /\ store' = [store EXCEPT ![n] = Log!purge(@, Elements(s.meta.last_log_id, Origin))]
         /\ store' # store
    /\ UNCHANGED <<hub, machine, leading, commit, committed>>

-----------------------------------------------------------------------------
(* A cluster that has been initialized with `voters`, has elected `first`   *)
(* and has nothing under way.  The other nodes have just been started.      *)

Initialized(voters) == <<Entry(0, 1, Membership(<<voters>>, {})), Entry(1, 2, Blank)>>

ClusterInit(voters, first, registered) ==
    LET log == Initialized(voters)
        caught_up == Machine!apply(Machine!apply(Machine!default, log[1]), log[2])
    IN /\ hub = [n \in Nodes |-> IF n \in registered THEN "registered" ELSE "new"]
       /\ store = [n \in Nodes |-> IF n \in voters
                     THEN [log |-> log, vote |-> {1}, last_purged |-> {}] ELSE Log!default]
       /\ machine = [n \in Nodes |-> [data |-> IF n \in voters THEN caught_up ELSE Machine!default,
                                      snapshot |-> {}, building |-> {}, installing |-> {}]]
       /\ leading = [n \in Nodes |-> IF n = first THEN {1} ELSE {}]
       /\ commit = [n \in Nodes |-> IF n \in voters THEN 2 ELSE 0]
       /\ committed = log

=============================================================================
