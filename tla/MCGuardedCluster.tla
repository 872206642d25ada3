-------------------------- MODULE MCGuardedCluster --------------------------
(* GuardedCluster on up to three nodes, with two producers.                  *)
EXTENDS GuardedCluster, TLC

CONSTANTS c1, c2, k, v1, v2

\* Nothing but a cluster of node 1.
Quiet == [cached |-> TRUE, voters |-> {1}, registered |-> {1}, source |-> <<{1}>>, unread |-> 0,
          healthy |-> <<>>, writes |-> [c \in Callers |-> <<>>], candidates |-> {},
          shutdowns |-> {}, snapshots |-> {}, stops |-> FALSE, steady |-> FALSE]

Write(value, handle) == [key |-> k, value |-> value, handle |-> handle]
Three == [Quiet EXCEPT !.voters = {1, 2, 3}, !.registered = {1, 2, 3}, !.source = <<{1, 2, 3}>>]

\* An operation that fails for a while, behind the guard and behind the breaker alone.
Outage == [Quiet EXCEPT !.healthy = <<TRUE, FALSE, TRUE>>,
                        !.writes = (c1 :> <<Write(v1, 1)>>) @@ (c2 :> <<Write(v2, 1)>>)]
BareOutage == [Outage EXCEPT !.cached = FALSE]

\* Two producers, one of them at a follower that is then elected.
NewLeader == [Three EXCEPT !.writes = (c1 :> <<Write(v1, 1)>>) @@ (c2 :> <<Write(v2, 2)>>),
                           !.candidates = {2}]

\* A leader purges its log, so that a follower that lags is sent a snapshot, while it
\* may be building its own; a follower purges its log, and is asked for its vote.
Compaction == [Three EXCEPT !.cached = FALSE, !.writes = (c1 :> <<Write(v1, 1)>>) @@ (c2 :> <<>>),
                            !.snapshots = {1, 3}]
PurgedVoter == [Compaction EXCEPT !.snapshots = {2}, !.candidates = {3}]

\* Node 2 joins when it has started, and replaces node 1; it replaces it at once; the
\* source is empty for a while; a cluster loses one of its nodes, or its leader.
Scaling == [Quiet EXCEPT !.source = <<{1, 2}, {2}>>, !.unread = 1, !.steady = TRUE]
Replacing == [Quiet EXCEPT !.source = <<{2}>>, !.registered = {1, 2}, !.steady = TRUE]
Emptied == [Quiet EXCEPT !.source = <<{1}, {}, {1}>>, !.steady = TRUE]
Shrinking == [Three EXCEPT !.source = <<{1, 3}>>, !.voters = {1, 2}, !.shutdowns = {2}, !.stops = TRUE]
Deposing == [Shrinking EXCEPT !.shutdowns = {}, !.candidates = {2}]

MCWorkloads == {Outage, BareOutage, NewLeader, Compaction, PurgedVoter, Scaling, Replacing,
                Emptied, Shrinking, Deposing}
=============================================================================
