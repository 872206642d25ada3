------------------------------ MODULE LogStore ------------------------------
(***************************************************************************)
(* raft/log_store.rs: one node's in-memory Raft log.  A log maps indexes   *)
(* to entries, a log id is [term, index], and an Option is a set of at     *)
(* most one element.  Each operator is one call.  purge writes last_purged *)
(* and the log under two locks, but what runs between them is a log reader *)
(* (try_get_log_entries), which sees the log alone.                        *)
(***************************************************************************)
EXTENDS Naturals, FiniteSetsExt, Functions

default == [log |-> <<>>, vote |-> {}, last_purged |-> {}]

\* The order of log ids.
Precedes(a, b) == a.term < b.term \/ (a.term = b.term /\ a.index < b.index)

try_get_log_entries(s, range) == {s.log[i] : i \in DOMAIN s.log \cap range}

\* get_log_state's last_log_id: of the last entry or, if there is none, the last one purged.
last_log_id_LogOnly(s) == IF s.log = <<>> THEN {} ELSE {s.log[Max(DOMAIN s.log)].log_id}
last_log_id(s) == IF s.log = <<>> THEN s.last_purged ELSE {s.log[Max(DOMAIN s.log)].log_id}

save_vote(s, term) == [s EXCEPT !.vote = {term}]

append(s, entries) ==
    LET index(e) == e.log_id.index
        at == {index(e) : e \in entries}
    IN [s EXCEPT !.log = [i \in DOMAIN @ \cup at |->
                            IF i \in at THEN CHOOSE e \in entries : index(e) = i ELSE @[i]]]

\* The entry at `index` goes as well.
truncate(s, index) == [s EXCEPT !.log = Restrict(@, {i \in DOMAIN @ : i < index})]

purge(s, log_id) ==
    [s EXCEPT !.last_purged = IF \E p \in @ : ~Precedes(p, log_id) THEN @ ELSE {log_id},
              !.log = Restrict(@, {i \in DOMAIN @ : i > log_id.index})]

=============================================================================
