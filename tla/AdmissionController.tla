------------------------ MODULE AdmissionController ------------------------
(***************************************************************************)
(* admission.rs: one queue's token and cost budget over a sliding window.  *)
(* A controller is its config and the entries admitted, oldest first; an   *)
(* entry's age stands for Instant::now() minus its `at`.  An Option is a   *)
(* set of at most one element, and cost is counted in whole units.  Each   *)
(* operator is one call, which holds the controller's lock throughout.     *)
(***************************************************************************)
EXTENDS Naturals, Sequences, SlidingWindow

AdmissionConfig(limits, windows) ==
    [tokens_per_window : limits, cost_ceiling_per_window : limits, window : windows]

UNLIMITED(hour) == [tokens_per_window |-> {}, cost_ceiling_per_window |-> {}, window |-> hour]

new(config) == [config |-> config, entries |-> <<>>]

set_config(a, config) == [a EXCEPT !.config = config]

\* Entries are in the order they were admitted: the first that is young enough ends it.
evict_expired_Early(a) ==
    [a EXCEPT !.entries = FromFirst(@, {i \in DOMAIN @ : @[i].age + 1 < a.config.window})]
evict_expired(a) ==
    [a EXCEPT !.entries = FromFirst(@, {i \in DOMAIN @ : @[i].age < a.config.window})]

sum(entries) == [tokens |-> Total([i \in DOMAIN entries |-> entries[i].tokens]),
                 cost   |-> Total([i \in DOMAIN entries |-> entries[i].cost])]

\* The time until the oldest entry leaves the window.
retry_after(a) == IF a.entries = <<>> THEN 0 ELSE a.config.window - Head(a.entries).age

\* usage, on a controller that evict_expired has been applied to.
usage(a) == sum(a.entries)

has_headroom(a) ==
    /\ \A limit \in a.config.tokens_per_window : usage(a).tokens < limit
    /\ \A ceiling \in a.config.cost_ceiling_per_window : usage(a).cost < ceiling

\* The limit that `demand` on top of `used` would break, an Option.
Exceeded(used, demand, limits) == {limit \in limits : used + demand > limit}

\* A denial tells the wait, unless the demand alone is more than the limit.
Denied(a, demand, limits) ==
    [controller |-> a, admitted |-> FALSE,
     retry |-> IF \E limit \in limits : demand <= limit THEN {retry_after(a)} ELSE {}]

\* try_admit: the controller afterwards and the decision.  Tokens are looked at
\* before cost; only what is admitted is recorded.
try_admit(controller, tokens, cost) ==
    LET a == evict_expired(controller)
        tokens_over == Exceeded(usage(a).tokens, tokens, a.config.tokens_per_window)
        cost_over == Exceeded(usage(a).cost, cost, a.config.cost_ceiling_per_window)
    IN CASE tokens_over # {} -> Denied(a, tokens, tokens_over)
         [] tokens_over = {} /\ cost_over # {} -> Denied(a, cost, cost_over)
         [] OTHER -> [controller |-> [a EXCEPT !.entries = Append(@, [age |-> 0, tokens |-> tokens, cost |-> cost])],
                      admitted |-> TRUE, retry |-> {}]

\* A tick of the clock; ages are not told apart beyond `cap`.
Aged(entry, cap) == [entry EXCEPT !.age = IF @ < cap THEN @ + 1 ELSE @]
Age(a, cap) == [a EXCEPT !.entries = [i \in DOMAIN @ |-> Aged(@[i], cap)]]

=============================================================================
