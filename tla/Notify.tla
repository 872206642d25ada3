------------------------------- MODULE Notify -------------------------------
(***************************************************************************)
(* tokio::sync::Notify, as qaas-core uses it: at most one stored permit and*)
(* a first-come-first-served list of waiting tasks.  The code is not part  *)
(* of this repository; these operators state what `notify_one`,            *)
(* `notify_waiters` and `notified().await` do to the pair.  A task waits   *)
(* once at most; one that went to sleep and is no longer in the list has   *)
(* been notified.                                                          *)
(***************************************************************************)
EXTENDS SequencesExt

NotifyType(tasks) == [permit : BOOLEAN, waiters : Seq(tasks)]

NewNotify == [permit |-> FALSE, waiters |-> <<>>]

\* Wake the task that has waited longest; with none waiting, store a permit,
\* of which there is never more than one.
notify_one(n) ==
    IF n.waiters = <<>> THEN [n EXCEPT !.permit = TRUE]
                        ELSE [n EXCEPT !.waiters = Tail(@)]

\* The first poll of notified(): take the permit, or join the list and sleep.
TakePermit(n) == [n EXCEPT !.permit = FALSE]
JoinWaiters(n, t) == [n EXCEPT !.waiters = Append(@, t)]

\* Wake every task that is waiting; nothing is stored for one that is not.
notify_waiters(n) == [n EXCEPT !.waiters = <<>>]

\* A waiting task drops its notified() future.
LeaveWaiters(n, t) == [n EXCEPT !.waiters = RemoveAt(@, CHOOSE i \in DOMAIN @ : @[i] = t)]

WaitsOn(n, t) == t \in Range(n.waiters)

=============================================================================
