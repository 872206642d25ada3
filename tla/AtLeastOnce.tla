---------------------------- MODULE AtLeastOnce ----------------------------
(***************************************************************************)
(* What a consumer group promises about one message, whoever waits on it   *)
(* and however wake-ups go astray: a ready message is delivered sooner or  *)
(* later, a delivery ends in an ack, another try or the dead-letter queue, *)
(* and no message is delivered more often than the retry policy allows.    *)
(* A delivery whose clean-up is cancelled half-way leaves the message      *)
(* stranded until the process is restarted.                                *)
(***************************************************************************)
EXTENDS Naturals

CONSTANTS Messages, MaxAttempts

VARIABLES stage, deliveries

vars == <<stage, deliveries>>

Stages == {"new", "ready", "out", "done", "dead", "stranded"}

Move(m, from, to) == stage[m] = from /\ stage' = [stage EXCEPT ![m] = to]

Submit(m) == Move(m, "new", "ready") /\ UNCHANGED deliveries

Deliver(m) ==
    /\ deliveries[m] < MaxAttempts
    /\ Move(m, "ready", "out")
    /\ deliveries' = [deliveries EXCEPT ![m] = @ + 1]

Finish(m) == Move(m, "out", "done") /\ UNCHANGED deliveries

Retry(m) ==
    /\ deliveries[m] < MaxAttempts
    /\ Move(m, "out", "ready")
    /\ UNCHANGED deliveries

Bury(m) ==
    /\ deliveries[m] = MaxAttempts
    /\ Move(m, "out", "dead")
    /\ UNCHANGED deliveries

\* Cancelling one clean-up strands every message that was in its hands.
Strand(M) ==
    /\ \A m \in M : stage[m] = "out"
    /\ stage' = [m \in Messages |-> IF m \in M THEN "stranded" ELSE stage[m]]
    /\ UNCHANGED deliveries

Init == stage = [m \in Messages |-> "new"] /\ deliveries = [m \in Messages |-> 0]

Next ==
    \/ \E m \in Messages : \/ Submit(m) \/ Deliver(m) \/ Finish(m)
                           \/ Retry(m) \/ Bury(m)
    \/ \E M \in SUBSET Messages : Strand(M)

\* What may happen, and what must.
Safety == Init /\ [][Next]_vars

Spec == Safety /\ \A m \in Messages : WF_vars(Deliver(m))

=============================================================================
