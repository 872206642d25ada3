---------------------------- MODULE FallbackCache ----------------------------
(***************************************************************************)
(* circuit_breaker.rs: the last value seen for each key, until its TTL.    *)
(* A cache maps every key to an Option of a CacheEntry; an entry's age is  *)
(* the time since inserted_at.                                             *)
(***************************************************************************)
EXTENDS Naturals

CONSTANT ttl

CacheEntry(values) == [value : values, age : 0..ttl]

new(keys) == [k \in keys |-> {}]

\* get: the value found, an Option; an entry that has expired is removed.
Live(entries) == {e \in entries : e.age < ttl}
get_NoExpiry(cache, key) == [value |-> {e.value : e \in cache[key]}, cache |-> cache]
get(cache, key) == [value |-> {e.value : e \in Live(cache[key])}, cache |-> [cache EXCEPT ![key] = Live(@)]]

set(cache, key, value) == [cache EXCEPT ![key] = {[value |-> value, age |-> 0]}]

\* A tick of the clock; ages are not told apart beyond the TTL.
Age(cache) == [k \in DOMAIN cache |-> {[e EXCEPT !.age = IF @ < ttl THEN @ + 1 ELSE @] : e \in cache[k]}]

=============================================================================
