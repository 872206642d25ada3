---------------------------- MODULE TenantQuota ----------------------------
(***************************************************************************)
(* quota.rs: one tenant's ceilings, and the sliding window of its tool     *)
(* calls.  A quota is its config and the ages of the requests counted,     *)
(* oldest first.  An Option is a set of at most one element.               *)
(***************************************************************************)
EXTENDS Naturals, Sequences, SlidingWindow

QuotaConfig(limits, windows) ==
    [max_queues : limits, max_pending_messages : limits, requests_per_window : limits,
     window : windows]

UNLIMITED(minute) == [max_queues |-> {}, max_pending_messages |-> {}, requests_per_window |-> {},
                      window |-> minute]

new(config) == [config |-> config, requests |-> <<>>]

set_config(q, config) == [q EXCEPT !.config = config]

evict_expired_Early(q) ==
    [q EXCEPT !.requests = FromFirst(@, {i \in DOMAIN @ : @[i] + 1 < q.config.window})]
evict_expired(q) ==
    [q EXCEPT !.requests = FromFirst(@, {i \in DOMAIN @ : @[i] < q.config.window})]

\* requests_in_window, on a quota that evict_expired has been applied to.
requests_in_window(q) == Len(q.requests)

\* The time until the oldest request leaves the window.
retry_after(q) == IF q.requests = <<>> THEN 0 ELSE q.config.window - Head(q.requests)

\* try_acquire: without a limit nothing is counted; at the limit the wait is told,
\* unless no wait can help.
try_acquire(quota) ==
    LET q == evict_expired(quota)
        full == {limit \in q.config.requests_per_window : Len(q.requests) >= limit}
    IN CASE q.config.requests_per_window = {} -> [quota |-> q, allowed |-> TRUE, retry |-> {}]
         [] full # {} -> [quota |-> q, allowed |-> FALSE,
                          retry |-> IF full = {0} THEN {} ELSE {retry_after(q)}]
         [] OTHER -> [quota |-> [q EXCEPT !.requests = Append(@, 0)], allowed |-> TRUE, retry |-> {}]

Age(q, cap) == [q EXCEPT !.requests = [i \in DOMAIN @ |-> IF @[i] < cap THEN @[i] + 1 ELSE @[i]]]

=============================================================================
