---------------------------- MODULE AuditLogger ----------------------------
(***************************************************************************)
(* audit.rs: a bounded channel of events, and workers that take one at a   *)
(* time off it and append it to a log of their own.  `log` never waits: a  *)
(* full channel drops the event.  `calls` is no counter of the code: it is *)
(* what `written` and `dropped` are compared with.                         *)
(***************************************************************************)
EXTENDS Naturals, Sequences

CONSTANTS Workers, channel_capacity

W == INSTANCE Wal

Idle == [kind |-> "idle"]

\* A running logger, over a log file that was opened.
open(file) == [channel |-> <<>>, hand |-> [w \in Workers |-> Idle], file |-> W!open(file),
               dropped |-> 0, written |-> 0, calls |-> 0]

\* log: try_send, and count the event if there is no room.
log_Unbounded(a, event) == [a EXCEPT !.calls = @ + 1, !.channel = Append(@, event)]
log(a, event) ==
    IF Len(a.channel) < channel_capacity
    THEN [a EXCEPT !.calls = @ + 1, !.channel = Append(@, event)]
    ELSE [a EXCEPT !.calls = @ + 1, !.dropped = @ + 1]

\* A worker takes the next event, under the receiver's lock.
CanReceive(a, w) == a.hand[w] = Idle /\ a.channel # <<>>
Receive(a, w) == [a EXCEPT !.hand[w] = Head(a.channel), !.channel = Tail(@)]

\* It appends the event outside that lock; a failure is traced and the event gone.
CanWrite(a, w) == a.hand[w] # Idle
Writes(a, w) ==
    {[a EXCEPT !.hand[w] = Idle, !.file = r.file, !.written = IF r.ok THEN @ + 1 ELSE @] :
       r \in W!append(a.file, a.hand[w])}

=============================================================================
