---------------------------- MODULE Subsequences ----------------------------
(***************************************************************************)
(* Splitting a sequence in two, each half in the old order: what           *)
(* promote_ready_delayed (consumer_group.rs) does to the backoff list.     *)
(***************************************************************************)
EXTENDS Naturals, FiniteSets

\* The increasing enumeration of a set of positions (there is exactly one).
Ascending(I) == {f \in [1..Cardinality(I) -> I] :
                    \A a, b \in DOMAIN f : a < b => f[a] < f[b]}

\* The elements of a sequence at the enumerated positions.
Pick(s, f) == [k \in DOMAIN f |-> s[f[k]]]

=============================================================================
