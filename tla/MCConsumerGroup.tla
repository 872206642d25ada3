-------------------------- MODULE MCConsumerGroup --------------------------
(***************************************************************************)
(* Small instances of ConsumerGroup for TLC, as workloads: three calls on  *)
(* two messages in one process lifetime; a restart over logs with a failed *)
(* append or a cancelled claim behind it; and checkpoints.                 *)
(***************************************************************************)
EXTENDS ConsumerGroup

\* Ids, keys, tasks and verdicts are interchangeable.
Symmetry == Permutations(Ids) \cup Permutations(Keys) \cup Permutations(Tasks)
              \cup Permutations(Verdicts)

Deliver == {"enqueue", "claim", "ack", "nack"}
Faulty(w) == {[w EXCEPT !.faults = 1], [w EXCEPT !.cancels = 1]}

Calls == [ops |-> AllOps \ {"checkpoint", "annotate"}, messages |-> 2, callers |-> 3,
          claims |-> 4, saves |-> 0, crashes |-> 0, faults |-> 0, cancels |-> 0]
Restart == [Calls EXCEPT !.ops = Deliver \cup {"reprocess", "purge"}, !.callers = 2,
                         !.claims = 2, !.crashes = 1]
Checkpoints == [Calls EXCEPT !.ops = Deliver \cup {"checkpoint", "annotate"}, !.messages = 1,
                             !.callers = 2, !.claims = 3, !.saves = 2, !.crashes = 1]

Keyed == [Restart EXCEPT !.ops = (@ \ {"enqueue"}) \cup {"enqueue_with_key"}, !.messages = 1]
Twice == [Restart EXCEPT !.ops = Deliver, !.crashes = 2, !.callers = 1]

MCWorkloads == UNION {Faulty(w) : w \in {Calls, Restart, Keyed, Checkpoints}}
                 \cup {[Twice EXCEPT !.faults = 1]}

\* One workload each for what the documentation promises and the code does not keep.
Once == [Restart EXCEPT !.ops = {"enqueue", "enqueue_with_key", "claim", "nack"}, !.messages = 1]
PurgedKey == {[Once EXCEPT !.ops = @ \cup {"purge"}]}
ReprocessCrash == {[Once EXCEPT !.ops = @ \cup {"reprocess"}]}
TornFrame == {[Restart EXCEPT !.ops = {"enqueue"}, !.faults = 1]}
=============================================================================
