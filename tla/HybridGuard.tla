----------------------------- MODULE HybridGuard -----------------------------
(***************************************************************************)
(* circuit_breaker.rs: callers that share a HybridGuard (a breaker and a   *)
(* fallback cache), or, where `cached` is false, a bare CircuitBreaker.    *)
(* The breaker's and the cache's locks are taken and released one after    *)
(* the other around the guarded operation, so each critical section is a   *)
(* step and a call's result is recorded after any number of other calls'   *)
(* steps.  The operation itself (between "primary" and "ok" or "err") is   *)
(* whatever closure the caller brings.                                     *)
(***************************************************************************)
EXTENDS Naturals

CONSTANTS Callers, Keys, Values, failure_threshold, half_open_success_threshold, open_duration, ttl

ASSUME KeysAssumption == Keys # {} /\ Values # {}
ASSUME ThresholdsAssumption == failure_threshold \in Nat /\ half_open_success_threshold \in Nat
ASSUME DurationsAssumption == open_duration \in Nat /\ ttl \in Nat

VARIABLES
    breaker, cache,
    call,       \* each caller's call in progress and the last outcome it was given
    cached      \* whether the callers use the guard, with its cache, or the breaker alone

guardVars == <<breaker, cache, call, cached>>

Breaker == INSTANCE CircuitBreaker
Cache == INSTANCE FallbackCache

\* An error is an Option: there is none if the operation was never attempted.
HybridOutcome ==
    [is : {"Fresh", "Cached"}, value : Values] \cup [is : {"Unavailable"}, error : BOOLEAN]

NoOutcome == [is |-> "Unavailable", error |-> FALSE]

Call == [at : {"idle", "primary", "waiting", "ok", "set", "err", "fall_back"},
         key : Keys, value : Values, error : BOOLEAN, outcome : HybridOutcome]

GuardTypeOK ==
    /\ breaker \in Breaker!Inner
    /\ DOMAIN cache = Keys
    /\ \A k \in Keys : cache[k] \in {{}} \cup {{e} : e \in Cache!CacheEntry(Values)}
    /\ \A c \in Callers : call[c] \in Call
    /\ cached \in BOOLEAN

GuardInit(someKey, someValue) ==
    /\ breaker = Breaker!new
    /\ cache = Cache!new(Keys)
    /\ call = [c \in Callers |-> [at |-> "idle", key |-> someKey, value |-> someValue,
                                  error |-> FALSE, outcome |-> NoOutcome]]

Goto(c, step) == call' = [call EXCEPT ![c].at = step]

\* The call returns.
Returns(c, outcome) == call' = [call EXCEPT ![c].at = "idle", ![c].outcome = outcome]

\* The first lines of both calls: an open circuit, whose cooldown has not elapsed,
\* skips the operation.
Begin(c, key, value) ==
    /\ call[c].at = "idle"
    /\ breaker' = Breaker!resolve_open_timeout(breaker)
    /\ call' = [call EXCEPT ![c] = [@ EXCEPT !.key = key, !.value = value, !.error = FALSE,
            !.at = CASE breaker'.state # "Open" -> "primary"
                     [] breaker'.state = "Open" /\ cached -> "fall_back"
                     [] OTHER -> "idle",
            !.outcome = NoOutcome]]
    /\ UNCHANGED <<cache, cached>>

\* The operation came back.  With the breaker alone, its result is the call's.
RecordSuccess(c) ==
    /\ call[c].at = "ok"
    /\ breaker' = Breaker!record_success(breaker)
    /\ IF cached THEN Goto(c, "set") ELSE Returns(c, [is |-> "Fresh", value |-> call[c].value])
    /\ UNCHANGED <<cache, cached>>

RecordFailure(c) ==
    /\ call[c].at = "err"
    /\ breaker' = Breaker!record_failure(breaker)
    /\ IF cached THEN call' = [call EXCEPT ![c].at = "fall_back", ![c].error = TRUE]
       ELSE Returns(c, [is |-> "Unavailable", error |-> TRUE])
    /\ UNCHANGED <<cache, cached>>

SetCache(c) ==
    /\ call[c].at = "set"
    /\ cache' = Cache!set(cache, call[c].key, call[c].value)
    /\ Returns(c, [is |-> "Fresh", value |-> call[c].value])
    /\ UNCHANGED <<breaker, cached>>

fall_back(c) ==
    /\ call[c].at = "fall_back"
    /\ LET found == Cache!get(cache, call[c].key)
       IN /\ cache' = found.cache
          /\ \/ /\ found.value = {}
                /\ Returns(c, [is |-> "Unavailable", error |-> call[c].error])
             \/ \E v \in found.value : Returns(c, [is |-> "Cached", value |-> v])
    /\ UNCHANGED <<breaker, cached>>

\* A health check reads the state, and so ends an elapsed cooldown.
breaker_state ==
    /\ breaker' = Breaker!resolve_open_timeout(breaker)
    /\ UNCHANGED <<cache, call, cached>>

\* What the breaker and the cache do around the operation.
GuardStep(c) == RecordSuccess(c) \/ RecordFailure(c) \/ SetCache(c) \/ fall_back(c)

Tick ==
    /\ breaker' = Breaker!Age(breaker)
    /\ cache' = Cache!Age(cache)
    /\ UNCHANGED <<call, cached>>

=============================================================================
