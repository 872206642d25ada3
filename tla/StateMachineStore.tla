-------------------------- MODULE StateMachineStore --------------------------
(***************************************************************************)
(* raft/state_machine.rs: one node's replicated map.  `data` is what is    *)
(* under the data lock; a snapshot is a SnapshotMeta and the map that      *)
(* serde_json wrote out, which from_slice reads back as the same map.      *)
(***************************************************************************)
EXTENDS Naturals

\* StateMachineData::default.
default == [last_applied_log |-> {}, last_membership |-> {}, kv |-> <<>>]

\* apply, one entry.
apply(data, entry) ==
    LET p == entry.payload
        applied == [data EXCEPT !.last_applied_log = {entry.log_id}]
    IN CASE p.is = "Blank" -> applied
         [] p.is = "Set" -> [applied EXCEPT !.kv = [k \in DOMAIN @ \cup {p.key} |-> IF k = p.key THEN p.value ELSE @[k]]]
         [] p.is = "Membership" -> [applied EXCEPT !.last_membership = {p}]

\* The snapshot build_snapshot makes of the data it read.
Snapshot(data) ==
    [meta |-> [last_log_id |-> data.last_applied_log, last_membership |-> data.last_membership],
     data |-> data.kv]

\* The data lock's part of install_snapshot.
Installed(data, s) ==
    [last_applied_log |-> s.meta.last_log_id, last_membership |-> s.meta.last_membership, kv |-> s.data]

=============================================================================
