--------------------------- MODULE MCGroupWakeups ---------------------------
(* GroupWakeups on small sets, as four workloads: two messages, a consumer
   and a watcher for the wake-ups that miss their task; one message, a
   consumer and a watcher with a stream of chunks; two consumers of one
   message that publish in overlapping deliveries; and the same two with a
   watcher between them.  The watcher always watches m1. *)
EXTENDS GroupWakeups

CONSTANTS m1, m2, c1, c2, w1

MCMessages == {m1, m2}
MCClaimers == {c1, c2}
MCWatchers == {w1}

MCWorkload(messages, callers, chunks) ==
    [messages |-> messages, callers |-> callers, chunks |-> chunks, watching |-> [w \in {w1} |-> m1]]

MCWorkloads == {MCWorkload({m1, m2}, {c1, w1}, 0), MCWorkload({m1}, {c1, w1}, 1),
                MCWorkload({m1}, {c1, c2}, 1), MCWorkload({m1}, {c1, c2, w1}, 0)}

=============================================================================
