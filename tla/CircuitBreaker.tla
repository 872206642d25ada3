--------------------------- MODULE CircuitBreaker ---------------------------
(***************************************************************************)
(* circuit_breaker.rs: the breaker behind its lock.  Each operator is what *)
(* one critical section does to the Inner record; opened_at is an Option   *)
(* (a set of at most one element) of the time since the circuit opened.    *)
(***************************************************************************)
EXTENDS Integers

CONSTANTS failure_threshold, half_open_success_threshold, open_duration

CircuitState == {"Closed", "Open", "HalfOpen"}

Inner == [state : CircuitState, consecutive_failures : {0} \cup 0..(failure_threshold - 1),
          consecutive_successes : {0} \cup 0..(half_open_success_threshold - 1),
          opened_at : {{}} \cup {{age} : age \in 0..open_duration}]

new == [state |-> "Closed", consecutive_failures |-> 0, consecutive_successes |-> 0, opened_at |-> {}]

\* A breaker that changes state starts both counts again.
Turned(b, state) == [b EXCEPT !.state = state, !.consecutive_failures = 0, !.consecutive_successes = 0]

resolve_open_timeout_EveryTime(b) ==
    IF b.state # "Closed" /\ \E age \in b.opened_at : age >= open_duration THEN Turned(b, "HalfOpen") ELSE b
resolve_open_timeout(b) ==
    IF b.state = "Open" /\ \E age \in b.opened_at : age >= open_duration THEN Turned(b, "HalfOpen") ELSE b

open(b) == [Turned(b, "Open") EXCEPT !.opened_at = {0}]

\* A trial that succeeds; enough of them close the circuit.
TrialSucceeded(b) ==
    IF b.consecutive_successes + 1 >= half_open_success_threshold
    THEN Turned(b, "Closed") ELSE [b EXCEPT !.consecutive_successes = @ + 1]

record_success_ClosesOpen(b) ==
    CASE b.state = "Closed" -> [b EXCEPT !.consecutive_failures = 0]
      [] b.state = "HalfOpen" -> TrialSucceeded(b)
      [] b.state = "Open" -> Turned(b, "Closed")
record_success(b) ==
    CASE b.state = "Closed" -> [b EXCEPT !.consecutive_failures = 0]
      [] b.state = "HalfOpen" -> TrialSucceeded(b)
      [] b.state = "Open" -> b

record_failure_Late(b) ==
    CASE b.state = "Closed" -> IF b.consecutive_failures + 1 > failure_threshold
                               THEN open(b) ELSE [b EXCEPT !.consecutive_failures = @ + 1]
      [] b.state = "HalfOpen" -> open(b)
      [] b.state = "Open" -> b
record_failure(b) ==
    CASE b.state = "Closed" -> IF b.consecutive_failures + 1 >= failure_threshold
                               THEN open(b) ELSE [b EXCEPT !.consecutive_failures = @ + 1]
      [] b.state = "HalfOpen" -> open(b)
      [] b.state = "Open" -> b

\* A tick of the clock; times are not told apart beyond open_duration.
Age(b) == [b EXCEPT !.opened_at = {IF age < open_duration THEN age + 1 ELSE age : age \in @}]

=============================================================================
