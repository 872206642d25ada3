-------------------------- MODULE McpServerProofs --------------------------
(***************************************************************************)
(* Theorems about McpServer for every set of tenants, queues, clients, API *)
(* keys and audit workers, every limit and every workload.                 *)
(***************************************************************************)
EXTENDS McpServer, SubsequenceLemmas, WellFoundedInduction

-----------------------------------------------------------------------------
(* The audit log                                                            *)

\* What may be in the channel and in a worker's hands: an event is never taken for an
\* idle worker.
Carries(a, events) ==
    /\ a.channel \in Seq(events) /\ Audit!Idle \notin events
    /\ a.hand \in [Workers -> events \cup {Audit!Idle}]

Logger(a) ==
    /\ DOMAIN a = {"channel", "hand", "file", "dropped", "written", "calls"}
    /\ \E events : Carries(a, events)

AuditInv == Logger(audit)

\* open: a new logger carries nothing.
LEMMA OpenLogs ==
    ASSUME NEW file
    PROVE  Logger(Audit!open(file))
<1> DEFINE a == Audit!open(file)
<1>1. /\ DOMAIN a = {"channel", "hand", "file", "dropped", "written", "calls"}
      /\ a.channel = <<>> /\ a.hand = [w \in Workers |-> Audit!Idle]
  BY DEF Audit!open
<1> HIDE DEF a
<1>2. <<>> \in Seq({}) /\ a.hand \in [Workers -> {} \cup {Audit!Idle}]
  BY <1>1
<1>3. Carries(a, {})
  BY <1>1, <1>2 DEF Carries
<1>4. Logger(a)
  BY <1>1, <1>3 DEF Logger
<1> QED BY <1>4 DEF a

\* log: an event goes into the channel or is dropped.
LEMMA LogCarries ==
    ASSUME NEW a, Logger(a), NEW e, e # Audit!Idle
    PROVE  Logger(Audit!log(a, e))
<1> DEFINE b == Audit!log(a, e)
<1>1. PICK E : Carries(a, E)
  BY DEF Logger
<1>2. /\ a.channel \in Seq(E) /\ Audit!Idle \notin E
      /\ a.hand \in [Workers -> E \cup {Audit!Idle}]
  BY <1>1 DEF Carries
<1>3. a.channel \in Seq(E \cup {e}) /\ Append(a.channel, e) \in Seq(E \cup {e})
  BY <1>2
<1>4. a.hand \in [Workers -> (E \cup {e}) \cup {Audit!Idle}] /\ Audit!Idle \notin E \cup {e}
  BY <1>2
<1>5. /\ DOMAIN b = DOMAIN a /\ b.hand = a.hand
      /\ b.channel = Append(a.channel, e) \/ b.channel = a.channel
  BY DEF Logger, Audit!log
<1> HIDE DEF b
<1>6. Carries(b, E \cup {e})
  BY <1>3, <1>4, <1>5 DEF Carries
<1>7. Logger(b)
  BY <1>5, <1>6 DEF Logger
<1> QED BY <1>7 DEF b

\* A worker takes an event from the channel.
LEMMA ReceiveCarries ==
    ASSUME NEW a, Logger(a), NEW w \in Workers, Audit!CanReceive(a, w)
    PROVE  Logger(Audit!Receive(a, w))
<1> DEFINE b == Audit!Receive(a, w)
<1>1. PICK E : Carries(a, E)
  BY DEF Logger
<1>2. /\ a.channel \in Seq(E) /\ Audit!Idle \notin E
      /\ a.hand \in [Workers -> E \cup {Audit!Idle}]
  BY <1>1 DEF Carries
<1>3. a.channel # <<>>
  BY DEF Audit!CanReceive
<1>4. Head(a.channel) \in E /\ Tail(a.channel) \in Seq(E)
  BY <1>2, <1>3
<1>5. /\ DOMAIN b = DOMAIN a /\ b.hand = [a.hand EXCEPT ![w] = Head(a.channel)]
      /\ b.channel = Tail(a.channel)
  BY DEF Logger, Audit!Receive
<1> HIDE DEF b
<1>6. b.hand \in [Workers -> E \cup {Audit!Idle}]
  BY <1>2, <1>4, <1>5
<1>7. Carries(b, E)
  BY <1>2, <1>4, <1>5, <1>6 DEF Carries
<1>8. Logger(b)
  BY <1>5, <1>7 DEF Logger
<1> QED BY <1>8 DEF b

\* A worker is done with an event, whatever the append left in the file.
LEMMA WriteCarries ==
    ASSUME NEW a, Logger(a), NEW w \in Workers, NEW b \in Audit!Writes(a, w)
    PROVE  Logger(b)
<1>1. PICK E : Carries(a, E)
  BY DEF Logger
<1>2. /\ a.channel \in Seq(E) /\ Audit!Idle \notin E
      /\ a.hand \in [Workers -> E \cup {Audit!Idle}]
  BY <1>1 DEF Carries
<1>3. PICK r \in Audit!W!append(a.file, a.hand[w]) :
        b = [a EXCEPT !.hand[w] = Audit!Idle, !.file = r.file,
                      !.written = IF r.ok THEN @ + 1 ELSE @]
  BY DEF Audit!Writes
<1>4. DOMAIN b = DOMAIN a /\ b.hand = [a.hand EXCEPT ![w] = Audit!Idle] /\ b.channel = a.channel
  BY <1>3 DEF Logger
<1>5. b.hand \in [Workers -> E \cup {Audit!Idle}]
  BY <1>2, <1>4
<1>6. Carries(b, E)
  BY <1>2, <1>4, <1>5 DEF Carries
<1> QED BY <1>4, <1>6 DEF Logger

\* What the tools log is an event.
LEMMA EventsAreEvents ==
    ASSUME NEW t, NEW id, NEW kind \in {"Enqueue", "Ack", "AckStale", "Nack", "NackStale"}
    PROVE  Event(t, kind, id) # Audit!Idle
BY DEF Event, Audit!Idle

\* What the tools and the rest of the server do to the logger.
LEMMA AuditSteps ==
    ASSUME [Next]_vars
    PROVE  \/ audit' = audit
           \/ \E e : e # Audit!Idle /\ audit' = Audit!log(audit, e)
           \/ \E w \in Workers : Audit!CanReceive(audit, w) /\ audit' = Audit!Receive(audit, w)
           \/ \E w \in Workers : Audit!CanWrite(audit, w) /\ audit' \in Audit!Writes(audit, w)
           \/ \E file : audit' = Audit!open(file)
<1> DEFINE Logs == \/ audit' = audit
                   \/ \E e : e # Audit!Idle /\ audit' = Audit!log(audit, e)
<1>1. ASSUME NEW t \in Tasks, Enqueue(t) PROVE Logs
  <2>1. CASE Dedup(t)
    BY <2>1, EventsAreEvents DEF Dedup
  <2>2. CASE ComparePending(t)
    BY <2>2, EventsAreEvents DEF ComparePending
  <2>3. CASE Admit(t)
    BY <2>3, EventsAreEvents DEF Admit
  <2>4. CASE IndexAndReturn(t)
    BY <2>4, EventsAreEvents DEF IndexAndReturn
  <2>5. CASE ResolveTargetQueue(t) \/ ReadPendingLimit(t) \/ Put(t)
    BY <2>5 DEF ResolveTargetQueue, ReadPendingLimit, Put
  <2> QED BY <1>1, <2>1, <2>2, <2>3, <2>4, <2>5 DEF Enqueue
<1>2. ASSUME NEW t \in Tasks, Consume(t) PROVE Logs
  <2>1. CASE Ack(t)
    BY <2>1, EventsAreEvents DEF Ack
  <2>2. CASE AckUnindex(t)
    BY <2>2, EventsAreEvents DEF AckUnindex
  <2>3. CASE Nack(t)
    BY <2>3, EventsAreEvents DEF Nack, TakeOut
  <2>4. CASE Headroom(t) \/ Claim(t) \/ Reclaim(t) \/ ResolveReclaimed(t) \/ LookAtGroup(t) \/ LeaseCallFails(t)
    BY <2>4 DEF Headroom, Claim, Reclaim, TakeOut, ResolveReclaimed, LookAtGroup, LeaseCallFails,
                BecomesAndFails
  <2>5. CASE ResolveNacked(t)
    BY <2>5, EventsAreEvents DEF ResolveNacked
  <2> QED BY <1>2, <2>1, <2>2, <2>3, <2>4, <2>5 DEF Consume, Resolve
<1>3. ASSUME NEW t \in Tasks, DeadLetters(t) \/ Configure(t) \/ Refuse(t) \/ Status(t) \/ KeyCalls(t)
      PROVE  audit' = audit
  <2>1. CASE DeadLetters(t)
    BY <2>1 DEF DeadLetters, Triage, Reprocess, Purge, DeadLetterCallFails, BecomesAndFails
  <2>2. CASE Configure(t)
    BY <2>2 DEF Configure, ConfigureAdmission, ConfigureRoute, ConfigureTenantQuota
  <2>3. CASE Refuse(t)
    BY <2>3 DEF Refuse, RejectName, RejectId, RejectKey, RefuseTenant, RejectTenantId
  <2>4. CASE Status(t)
    BY <2>4 DEF Status, AdmissionStatus, TenantQuotaStatus, TenantQuotaReport, DashboardQueues,
                DashboardTenants
  <2>5. CASE KeyCalls(t)
    BY <2>5 DEF KeyCalls, MintLog, MintInsert, RevokeLook, RevokeLog, RevokeRemove
  <2> QED BY <1>3, <2>1, <2>2, <2>3, <2>4, <2>5
<1>4. ASSUME NEW t \in Tasks,
             StdioCall(t) \/ RequireTenant(t) \/ Authorize(t) \/ Get(t) \/ SumOne(t)
      PROVE  audit' = audit
  BY <1>4 DEF StdioCall, RequireTenant, Authorize, Get, SumOne
<1>5. ASSUME NEW w \in Workers, AuditReceive(w) \/ AuditWrite(w)
      PROVE  \/ Audit!CanReceive(audit, w) /\ audit' = Audit!Receive(audit, w)
             \/ Audit!CanWrite(audit, w) /\ audit' \in Audit!Writes(audit, w)
  BY <1>5 DEF AuditReceive, AuditWrite
<1>6. ASSUME Tick \/ UNCHANGED vars PROVE audit' = audit
  BY <1>6 DEF Tick, vars
<1>7. ASSUME Restart PROVE \E file : audit' = Audit!open(file)
  BY <1>7 DEF Restart, Fresh
<1> HIDE DEF Logs
<1>8. Next \/ UNCHANGED vars
  OBVIOUS
<1>9. (\E t \in Tasks : Logs \/ audit' = audit)
      \/ (\E w \in Workers : AuditReceive(w) \/ AuditWrite(w)) \/ Restart \/ audit' = audit
  BY <1>1, <1>2, <1>3, <1>4, <1>6, <1>8 DEF Next
<1> QED BY <1>5, <1>7, <1>9 DEF Logs

LEMMA AuditInit == Init => AuditInv
BY OpenLogs DEF Init, Fresh, AuditInv

LEMMA AuditNext == AuditInv /\ [Next]_vars => AuditInv'
BY AuditSteps, LogCarries, ReceiveCarries, WriteCarries, OpenLogs DEF AuditInv

-----------------------------------------------------------------------------
(* Tenants.  Whatever a call can come upon by way of its tenant and queue   *)
(* belongs to that tenant: messages in the group, ids in the index.         *)

\* The messages that were enqueued into each scope.
Owns == [s \in Scopes |-> {id \in Ids : <<messages[id].tenant, messages[id].queue>> = s}]

\* A group whose messages, in memory and on disk, are all among `owned`.
Holds(g, owned) ==
    /\ DOMAIN g = {"ready", "leased", "dead", "keys", "token", "logged", "buried", "bound"}
    /\ g.ready \in Seq(owned) /\ g.logged \in Seq(owned)
    /\ g.dead \subseteq owned /\ g.buried \subseteq owned
    /\ \A lease \in g.leased : lease.id \in owned
    /\ \A k \in g.keys \cup g.bound : k.id \in owned

\* An index whose keys are all among `keys`.
Indexes(x, keys) ==
    /\ DOMAIN x = {"ttl", "entries"}
    /\ \A e \in x.entries : DOMAIN e = {"key", "embedding", "age"} /\ e.key \in keys

\* A log of keys that were minted for tenants.
MintsForTenants(file) ==
    \E frames : /\ file \in Seq(frames)
                /\ \A f \in frames : f.kind = "Mint" => f.tenant \in Tenants /\ f.key \in Keys

KeysOfTenants(store) ==
    /\ DOMAIN store = {"keys", "file"} /\ MintsForTenants(store.file)
    /\ \A key \in DOMAIN store.keys : key \in Keys /\ store.keys[key] \in Tenants

\* Calls still to make.
AllCalls(todo) == \E calls : todo \in Seq(calls) /\ \A call \in calls : IsCall(call)

\* Where a call is past the check of its queue's name.
InQueue == {"dedup", "pending", "admit", "put", "index", "headroom", "group", "resolve", "unindex", "reprocess"}

Formed(r) ==
    /\ DOMAIN r = {"todo", "pc", "tenant", "queue", "left", "total", "limit", "id", "batch", "held", "answer"}
    /\ r.tenant \in Callers
    /\ AllCalls(r.todo) /\ (r.pc # "idle" => r.todo # <<>>)

Placed(r, owns) ==
    LET call == Head(r.todo) IN
    /\ r.pc \in {"authorize", "tool"} => r.queue = Named(call)
    /\ r.pc = "get" => r.queue \in Some(Names) /\ call.tool = "enqueue"
    /\ r.pc \in InQueue \/ (r.pc = "sum" /\ call.tool = "enqueue") => r.queue \in Some(Queues)
    /\ r.pc = "index" => r.id \in owns[<<r.tenant, The(r.queue)>>]
    /\ r.pc = "resolve" => \A lease \in r.batch : lease.id \in owns[<<r.tenant, The(r.queue)>>]
    /\ r.pc = "mint" => call.tool = "create_api_key" /\ call.tenant # {}

\* An answer names a message of a scope of the caller's, and there is none while a call runs.
Answered(r, owns) ==
    /\ r.answer.id = 0 \/ \E s \in Scopes : s[1] = r.tenant /\ r.answer.id \in owns[s]
    /\ r.pc # "idle" => r.answer = NoAnswer

Sound(r, owns) == Formed(r) /\ Placed(r, owns) /\ Answered(r, owns)

MessagesInv == /\ \E all : messages \in Seq(all)
               /\ \A id \in Ids : DOMAIN messages[id] = {"tenant", "queue", "tries"}
KeysInv == KeysOfTenants(keystore)
GroupInv == DOMAIN group = Scopes /\ \A s \in Scopes : Holds(group[s], Owns[s])
DedupInv == DOMAIN dedup = Scopes /\ \A s \in Scopes : Indexes(dedup[s], Owns[s])
RoutesInv == DOMAIN routes = Callers /\ \A c \in Callers : Indexes(routes[c], Queues)
TaskInv == DOMAIN task = Tasks /\ \A t \in Tasks : Sound(task[t], Owns)

TenantInv == MessagesInv /\ KeysInv /\ GroupInv /\ DedupInv /\ RoutesInv /\ TaskInv

-----------------------------------------------------------------------------
(* Groups                                                                   *)

LEMMA HoldsMore ==
    ASSUME NEW A, NEW B, A \subseteq B, NEW g, Holds(g, A)
    PROVE  Holds(g, B)
<1>1. Seq(A) \subseteq Seq(B)
  OBVIOUS
<1> QED BY <1>1 DEF Holds

LEMMA NewGroupHolds == ASSUME NEW owned PROVE Holds(NewGroup, owned)
BY DEF Holds, NewGroup

LEMMA PushedHolds ==
    ASSUME NEW owned, NEW g, Holds(g, owned), NEW id \in owned, NEW key
    PROVE  Holds(Pushed(g, id, key), owned)
<1> DEFINE b == {[key |-> k, id |-> id] : k \in key}
           h == Pushed(g, id, key)
<1>1. \A k \in b : k.id = id
  OBVIOUS
<1>2. Append(g.ready, id) \in Seq(owned) /\ Append(g.logged, id) \in Seq(owned)
  BY DEF Holds
<1>3. /\ DOMAIN h = DOMAIN g /\ h.ready = Append(g.ready, id) /\ h.logged = Append(g.logged, id)
      /\ h.dead = g.dead /\ h.buried = g.buried /\ h.leased = g.leased
      /\ h.keys = g.keys \cup b /\ h.bound = {k \in g.bound : k.key \notin key} \cup b
  BY DEF Pushed, Holds
<1> HIDE DEF b, h
<1>4. \A k \in h.keys \cup h.bound : k.id \in owned
  BY <1>1, <1>3 DEF Holds
<1>5. Holds(h, owned)
  BY <1>2, <1>3, <1>4 DEF Holds
<1> QED BY <1>5 DEF h

LEMMA ClaimedHolds ==
    ASSUME NEW owned, NEW g, Holds(g, owned), g.ready # <<>>
    PROVE  Holds(Claimed(g), owned) /\ Head(g.ready) \in owned
<1> DEFINE h == Claimed(g)
<1>1. Head(g.ready) \in owned /\ Tail(g.ready) \in Seq(owned)
  BY DEF Holds
<1>2. NewLease(g).id = Head(g.ready)
  BY DEF NewLease
<1>3. /\ DOMAIN h = DOMAIN g /\ h.ready = Tail(g.ready) /\ h.logged = g.logged
      /\ h.dead = g.dead /\ h.buried = g.buried
      /\ h.leased = {l \in g.leased : l.id # Head(g.ready)} \cup {NewLease(g)}
      /\ h.keys = g.keys /\ h.bound = g.bound
  BY DEF Claimed, Holds
<1> HIDE DEF h
<1>4. \A lease \in h.leased : lease.id \in owned
  BY <1>1, <1>2, <1>3 DEF Holds
<1>5. Holds(h, owned)
  BY <1>1, <1>3, <1>4 DEF Holds
<1> QED BY <1>1, <1>5 DEF h

\* A set of numbers has a least one.
LEMMA MinFacts ==
    ASSUME NEW S \in SUBSET Nat, S # {}
    PROVE  Min(S) \in S /\ \A x \in S : Min(S) <= x
<1> DEFINE R == OpToRel(<, Nat)
<1>1. \A x, y \in Nat : x < y => <<x, y>> \in R
  BY DEF OpToRel
<1>2. IsWellFoundedOn(R, Nat)
  BY NatLessThanWellFounded
<1> HIDE DEF R
<1>3. PICK x \in S : \A y \in S : <<y, x>> \notin R
  BY <1>2, WFMin
<1>4. ASSUME NEW y \in S PROVE x <= y
  <2>1. x \in Nat /\ y \in Nat /\ ~(y < x)
    BY <1>1, <1>3
  <2> QED BY <2>1
<1> QED BY <1>4 DEF Min

\* RemoveFirst takes an element out, if there is one to take.
LEMMA RemoveFirstType ==
    ASSUME NEW S, NEW s \in Seq(S), NEW e
    PROVE  RemoveFirst(s, e) \in Seq(S)
<1> DEFINE I == {i \in 1..Len(s) : s[i] = e}
<1>1. I \in SUBSET Nat /\ I \subseteq DOMAIN s
  OBVIOUS
<1>2. CASE I # {}
  <2>1. Min(I) \in I
    BY <1>1, <1>2, MinFacts
  <2>2. RemoveAt(s, Min(I)) \in Seq(S)
    BY <1>1, <2>1, RemoveAtType
  <2>3. RemoveFirst(s, e) = RemoveAt(s, Min(I))
    BY <1>2 DEF RemoveFirst, SelectInSeq
  <2> QED BY <2>2, <2>3
<1>3. CASE I = {}
  <2>1. RemoveFirst(s, e) = s
    BY <1>3 DEF RemoveFirst
  <2> QED BY <2>1
<1> QED BY <1>2, <1>3

LEMMA WithoutKeeps ==
    ASSUME NEW keys, NEW id
    PROVE  Without(keys, id) \subseteq keys
BY DEF Without

\* ack.
LEMMA ReleasedHolds ==
    ASSUME NEW owned, NEW g, Holds(g, owned), NEW lease
    PROVE  Holds(Released(g, lease), owned) /\ Holds(Finished(g, lease), owned)
<1> DEFINE h == Released(g, lease)
           f == Finished(g, lease)
<1>1. /\ DOMAIN h = DOMAIN g /\ h.ready = g.ready /\ h.logged = g.logged
      /\ h.dead = g.dead /\ h.buried = g.buried /\ h.bound = g.bound
      /\ h.leased = g.leased \ {lease} /\ h.keys = Without(g.keys, lease.id)
  BY DEF Released, Holds
<1>2. f = [h EXCEPT !.logged = RemoveFirst(@, lease.id), !.bound = Without(@, lease.id)]
  BY DEF Finished
<1> HIDE DEF h, f
<1>3. Holds(h, owned)
  BY <1>1, WithoutKeeps DEF Holds
<1>4. /\ DOMAIN f = DOMAIN h /\ f.ready = h.ready /\ f.logged = RemoveFirst(h.logged, lease.id)
      /\ f.dead = h.dead /\ f.buried = h.buried /\ f.bound = Without(h.bound, lease.id)
      /\ f.leased = h.leased /\ f.keys = h.keys
  BY <1>2, <1>3 DEF Holds
<1>5. RemoveFirst(h.logged, lease.id) \in Seq(owned)
  BY <1>3, RemoveFirstType DEF Holds
<1>6. Holds(f, owned)
  BY <1>3, <1>4, <1>5, WithoutKeeps DEF Holds
<1> QED BY <1>3, <1>6 DEF h, f

\* nack and expiry.
LEMMA DroppedHolds ==
    ASSUME NEW owned, NEW g, Holds(g, owned), NEW leases
    PROVE  Holds(Dropped(g, leases), owned)
<1> DEFINE d == Dropped(g, leases)
<1>1. /\ DOMAIN d = DOMAIN g /\ d.ready = g.ready /\ d.logged = g.logged
      /\ d.dead = g.dead /\ d.buried = g.buried /\ d.bound = g.bound
      /\ d.leased = g.leased \ leases /\ d.keys = g.keys
  BY DEF Dropped, Holds
<1> HIDE DEF d
<1>2. Holds(d, owned)
  BY <1>1 DEF Holds
<1> QED BY <1>2 DEF d

LEMMA FailedHolds ==
    ASSUME NEW owned, NEW g, Holds(g, owned), NEW lease, lease.id \in owned,
           NEW h \in {Failed(g, lease)} \cup HalfFailed(g, lease)
    PROVE  Holds(h, owned)
<1> DEFINE r == Recorded(g, lease)
           last == [r EXCEPT !.logged = RemoveFirst(@, lease.id)]
           again == [g EXCEPT !.ready = Append(@, lease.id)]
<1>1. h = last \/ h = again \/ h = g \/ h = r
  BY DEF Failed, HalfFailed
<1>2. /\ DOMAIN r = DOMAIN g /\ r.ready = g.ready /\ r.logged = g.logged
      /\ r.dead = g.dead \cup {lease.id} /\ r.buried = g.buried \cup {lease.id}
      /\ r.bound = g.bound /\ r.leased = g.leased /\ r.keys = g.keys
  BY DEF Holds, Recorded
<1> HIDE DEF r
<1>3. Holds(r, owned)
  BY <1>2 DEF Holds
<1>4. Holds(last, owned)
  <2>1. /\ DOMAIN last = DOMAIN r /\ last.ready = r.ready
        /\ last.logged = RemoveFirst(r.logged, lease.id)
        /\ last.dead = r.dead /\ last.buried = r.buried /\ last.bound = r.bound
        /\ last.leased = r.leased /\ last.keys = r.keys
    BY <1>3 DEF Holds
  <2>2. RemoveFirst(r.logged, lease.id) \in Seq(owned)
    BY <1>3, RemoveFirstType DEF Holds
  <2> HIDE DEF last
  <2> QED BY <1>3, <2>1, <2>2 DEF Holds
<1>5. Holds(again, owned)
  <2>1. /\ DOMAIN again = DOMAIN g /\ again.ready = Append(g.ready, lease.id)
        /\ again.logged = g.logged /\ again.dead = g.dead /\ again.buried = g.buried
        /\ again.bound = g.bound /\ again.leased = g.leased /\ again.keys = g.keys
    BY DEF Holds
  <2>2. Append(g.ready, lease.id) \in Seq(owned)
    BY DEF Holds
  <2> HIDE DEF again
  <2> QED BY <2>1, <2>2 DEF Holds
<1> HIDE DEF last, again
<1> QED BY <1>1, <1>3, <1>4, <1>5

\* reprocess and purge.
LEMMA TakenHolds ==
    ASSUME NEW owned, NEW g, Holds(g, owned), NEW id \in g.dead
    PROVE  /\ Holds(Taken(g, id), owned) /\ Holds(Revived(g, id), owned)
           /\ Holds(Purged(g, id), owned)
<1> DEFINE a == Taken(g, id)
           b == Removed(g, id)
           c == Revived(g, id)
           d == Purged(g, id)
<1>1. /\ DOMAIN a = DOMAIN g /\ a.ready = g.ready /\ a.logged = g.logged
      /\ a.dead = g.dead \ {id} /\ a.buried = g.buried /\ a.bound = g.bound
      /\ a.leased = g.leased /\ a.keys = g.keys
  BY DEF Taken, Holds
<1>2. /\ b = [a EXCEPT !.buried = @ \ {id}]
      /\ c = [b EXCEPT !.ready = Append(@, id), !.logged = Append(@, id)]
      /\ d = [b EXCEPT !.keys = Without(@, id)]
  BY DEF Removed, Revived, Purged
<1> HIDE DEF a, b, c, d
<1>3. Holds(a, owned)
  BY <1>1 DEF Holds
<1>4. /\ DOMAIN b = DOMAIN a /\ b.ready = a.ready /\ b.logged = a.logged
      /\ b.dead = a.dead /\ b.buried = a.buried \ {id} /\ b.bound = a.bound
      /\ b.leased = a.leased /\ b.keys = a.keys
  BY <1>2, <1>3 DEF Holds
<1>5. Holds(b, owned)
  BY <1>3, <1>4 DEF Holds
<1>6. Holds(c, owned)
  <2>1. /\ DOMAIN c = DOMAIN b /\ c.ready = Append(b.ready, id) /\ c.logged = Append(b.logged, id)
        /\ c.dead = b.dead /\ c.buried = b.buried /\ c.bound = b.bound
        /\ c.leased = b.leased /\ c.keys = b.keys
    BY <1>2, <1>5 DEF Holds
  <2>2. Append(b.ready, id) \in Seq(owned) /\ Append(b.logged, id) \in Seq(owned)
    BY <1>5 DEF Holds
  <2> QED BY <1>5, <2>1, <2>2 DEF Holds
<1>7. Holds(d, owned)
  <2>1. /\ DOMAIN d = DOMAIN b /\ d.ready = b.ready /\ d.logged = b.logged
        /\ d.dead = b.dead /\ d.buried = b.buried /\ d.bound = b.bound
        /\ d.leased = b.leased /\ d.keys = Without(b.keys, id)
    BY <1>2, <1>5 DEF Holds
  <2> QED BY <1>5, <2>1, WithoutKeeps DEF Holds
<1> QED BY <1>3, <1>6, <1>7 DEF a, c, d

\* open.
LEMMA ReopenedHolds ==
    ASSUME NEW owned, NEW g, Holds(g, owned)
    PROVE  Holds(Reopened(g), owned)
<1> DEFINE h == Reopened(g)
<1>1. /\ DOMAIN h = DOMAIN g /\ h.ready = g.logged /\ h.logged = g.logged
      /\ h.dead = g.buried /\ h.buried = g.buried /\ h.bound = g.bound
      /\ h.leased = {} /\ h.keys = g.bound
  BY DEF Reopened, Holds
<1> HIDE DEF h
<1>2. Holds(h, owned)
  BY <1>1 DEF Holds
<1> QED BY <1>2 DEF h


-----------------------------------------------------------------------------
(* Indexes and API keys                                                     *)

LEMMA IndexesMore ==
    ASSUME NEW A, NEW B, A \subseteq B, NEW x, Indexes(x, A)
    PROVE  Indexes(x, B)
BY DEF Indexes

LEMMA NewIndexes == ASSUME NEW ttl, NEW keys PROVE Indexes(Index!new(ttl), keys)
BY DEF Indexes, Index!new

LEMMA RemoveIndexes ==
    ASSUME NEW x, NEW keys, Indexes(x, keys), NEW key
    PROVE  Indexes(Index!remove(x, key), keys)
BY DEF Indexes, Index!remove

LEMMA EvictIndexes ==
    ASSUME NEW x, NEW keys, Indexes(x, keys)
    PROVE  Indexes(Index!evict_expired(x), keys)
BY DEF Indexes, Index!evict_expired

LEMMA InsertIndexes ==
    ASSUME NEW x, NEW keys, Indexes(x, keys), NEW key \in keys, NEW embedding
    PROVE  Indexes(Index!insert(x, key, embedding), keys)
<1> DEFINE e == [key |-> key, embedding |-> embedding, age |-> 0]
           y == Index!remove(x, key)
           z == Index!insert(x, key, embedding)
<1>1. Indexes(y, keys)
  BY RemoveIndexes
<1>2. DOMAIN z = DOMAIN x /\ z.entries = y.entries \cup {e}
  BY DEF Indexes, Index!insert
<1>3. DOMAIN e = {"key", "embedding", "age"} /\ e.key = key
  OBVIOUS
<1> HIDE DEF e, y, z
<1>4. Indexes(z, keys)
  BY <1>1, <1>2, <1>3 DEF Indexes
<1> QED BY <1>4 DEF z

LEMMA AgeIndexes ==
    ASSUME NEW x, NEW keys, Indexes(x, keys), NEW cap
    PROVE  Indexes(Index!Age(x, cap), keys)
<1> DEFINE older(e) == [e EXCEPT !.age = IF @ < cap THEN @ + 1 ELSE @]
           y == Index!Age(x, cap)
<1>1. ASSUME NEW e \in x.entries
      PROVE  DOMAIN older(e) = {"key", "embedding", "age"} /\ older(e).key \in keys
  BY DEF Indexes
<1>2. DOMAIN y = DOMAIN x /\ y.entries = {older(e) : e \in x.entries}
  BY DEF Indexes, Index!Age
<1> HIDE DEF older, y
<1>3. Indexes(y, keys)
  BY <1>1, <1>2 DEF Indexes
<1> QED BY <1>3 DEF y

LEMMA NearestIndexed ==
    ASSUME NEW x, NEW keys, Indexes(x, keys), NEW embedding, NEW h \in Index!nearest(x, embedding)
    PROVE  h.key \in keys
<1>1. \E e \in x.entries :
        h \in {[key |-> e.key, score |-> s] : s \in Index!cosine_similarity(embedding, e.embedding)}
  BY DEF Index!nearest
<1> QED BY <1>1 DEF Indexes

LEMMA AppendForTenants ==
    ASSUME NEW file, MintsForTenants(file), NEW record,
           record.kind = "Mint" => record.tenant \in Tenants /\ record.key \in Keys,
           NEW r \in ApiKeys!W!append(file, record)
    PROVE  MintsForTenants(r.file)
<1>1. PICK frames : /\ file \in Seq(frames)
                    /\ \A f \in frames : f.kind = "Mint" => f.tenant \in Tenants /\ f.key \in Keys
  BY DEF MintsForTenants
<1> DEFINE more == frames \cup {record, ApiKeys!W!Torn}
<1>2. ApiKeys!W!Torn.kind # "Mint"
  BY DEF ApiKeys!W!Torn
<1>3. \A f \in more : f.kind = "Mint" => f.tenant \in Tenants /\ f.key \in Keys
  BY <1>1, <1>2
<1>4. file \in Seq(more) /\ record \in more /\ ApiKeys!W!Torn \in more
  BY <1>1
<1> HIDE DEF more
<1>5. Append(file, record) \in Seq(more) /\ Append(file, ApiKeys!W!Torn) \in Seq(more)
  BY <1>4
<1>6. r.file \in {file, Append(file, record), Append(file, ApiKeys!W!Torn)}
  BY DEF ApiKeys!W!append
<1>7. r.file \in Seq(more)
  BY <1>4, <1>5, <1>6
<1> QED BY <1>3, <1>7 DEF MintsForTenants

\* open keeps a part of the log, and takes its keys from there.
LEMMA OpenForTenants ==
    ASSUME NEW file, MintsForTenants(file)
    PROVE  KeysOfTenants(ApiKeys!open(file))
<1> DEFINE records == ApiKeys!W!open(file)
           store == ApiKeys!open(file)
<1>1. PICK frames : /\ file \in Seq(frames)
                    /\ \A f \in frames : f.kind = "Mint" => f.tenant \in Tenants /\ f.key \in Keys
  BY DEF MintsForTenants
<1>2. records \in Seq(frames)
  <2> DEFINE torn == {i \in DOMAIN file : ApiKeys!W!IsTorn(file[i])}
  <2>1. DOMAIN file = 1..Len(file) /\ Len(file) \in Nat
    BY <1>1
  <2>2. CASE torn = {}
    BY <1>1, <2>2 DEF ApiKeys!W!open, ApiKeys!W!replay
  <2>3. CASE torn # {}
    <3>1. torn \in SUBSET Nat
      BY <2>1
    <3>2. Min(torn) \in 1..Len(file)
      BY <2>1, <2>3, <3>1, MinFacts
    <3>3. records = SubSeq(file, 1, Min(torn) - 1)
      BY <2>3 DEF ApiKeys!W!open, ApiKeys!W!replay, ApiKeys!W!Min, Min
    <3> HIDE DEF torn, records
    <3>4. PICK n \in 1..Len(file) : n = Min(torn)
      BY <3>2
    <3>5. SubSeq(file, 1, n - 1) \in Seq(frames)
      BY <1>1, <2>1
    <3> QED BY <3>3, <3>4, <3>5
  <2> QED BY <2>2, <2>3
<1>3. DOMAIN store = {"keys", "file"} /\ store.keys = ApiKeys!Replayed(records) /\ store.file = records
  BY DEF ApiKeys!open
<1> HIDE DEF records, store
<1>4. MintsForTenants(records)
  BY <1>1, <1>2 DEF MintsForTenants
<1>5. ASSUME NEW key \in DOMAIN ApiKeys!Replayed(records)
      PROVE  key \in Keys /\ ApiKeys!Replayed(records)[key] \in Tenants
  <2> DEFINE live == ApiKeys!InForce(records)
             i == CHOOSE j \in live : records[j].key = key
  <2>1. \E j \in live : records[j].key = key
    BY <1>5 DEF ApiKeys!Replayed
  <2>2. i \in live
    BY <2>1
  <2>3. i \in DOMAIN records /\ records[i].kind = "Mint" /\ records[i].key = key
    BY <2>1, <2>2 DEF ApiKeys!InForce
  <2>4. records[i] \in frames
    BY <1>2, <2>3
  <2>5. ApiKeys!Replayed(records)[key] = records[i].tenant
    BY <1>5 DEF ApiKeys!Replayed
  <2> HIDE DEF live, i
  <2> QED BY <1>1, <2>3, <2>4, <2>5
<1>6. KeysOfTenants(store)
  BY <1>3, <1>4, <1>5 DEF KeysOfTenants
<1> QED BY <1>6 DEF store

LEMMA LoggedForTenants ==
    ASSUME NEW store, KeysOfTenants(store), NEW record,
           record.kind = "Mint" => record.tenant \in Tenants /\ record.key \in Keys,
           NEW r \in ApiKeys!Logged(store, record)
    PROVE  KeysOfTenants(r.store)
<1>1. PICK a \in ApiKeys!W!append(store.file, record) : r.store = [store EXCEPT !.file = a.file]
  BY DEF ApiKeys!Logged
<1>2. MintsForTenants(a.file)
  BY AppendForTenants DEF KeysOfTenants
<1>3. DOMAIN r.store = DOMAIN store /\ r.store.keys = store.keys /\ r.store.file = a.file
  BY <1>1 DEF KeysOfTenants
<1> QED BY <1>2, <1>3 DEF KeysOfTenants

LEMMA MintedForTenants ==
    ASSUME NEW store, KeysOfTenants(store), NEW key \in Keys, NEW tenant \in Tenants
    PROVE  KeysOfTenants(ApiKeys!Minted(store, key, tenant))
<1> DEFINE new == ApiKeys!Minted(store, key, tenant)
           keys == [k \in DOMAIN store.keys \cup {key} |-> IF k = key THEN tenant ELSE store.keys[k]]
<1>1. DOMAIN new = DOMAIN store /\ new.file = store.file /\ new.keys = keys
  BY DEF ApiKeys!Minted, KeysOfTenants
<1>2. \A k \in DOMAIN keys : \/ k = key /\ keys[k] = tenant
                             \/ k \in DOMAIN store.keys /\ keys[k] = store.keys[k]
  OBVIOUS
<1> HIDE DEF new, keys
<1>3. KeysOfTenants(new)
  BY <1>1, <1>2 DEF KeysOfTenants
<1> QED BY <1>3 DEF new

LEMMA RevokedForTenants ==
    ASSUME NEW store, KeysOfTenants(store), NEW key
    PROVE  KeysOfTenants(ApiKeys!Revoked(store, key))
<1> DEFINE new == ApiKeys!Revoked(store, key)
           keys == Restrict(store.keys, DOMAIN store.keys \ {key})
<1>1. DOMAIN new = DOMAIN store /\ new.file = store.file /\ new.keys = keys
  BY DEF ApiKeys!Revoked, KeysOfTenants, ApiKeys!Restrict, Restrict
<1>2. \A k \in DOMAIN keys : k \in DOMAIN store.keys /\ keys[k] = store.keys[k]
  BY DEF Restrict
<1> HIDE DEF new, keys
<1>3. KeysOfTenants(new)
  BY <1>1, <1>2 DEF KeysOfTenants
<1> QED BY <1>3 DEF new


-----------------------------------------------------------------------------
(* Calls and clients                                                        *)

\* The tools that look a queue up by the name they are given.
Naming == (DOMAIN AfterGet \ {"enqueue"}) \cup {"configure_admission", "admission_status", "configure_route"}

LEMMA NamingTools ==
    Naming = {"claim", "ack", "nack", "checkpoint", "publish_partial_result", "stream_partial_results",
              "list_dead_letters", "triage_dead_letter", "reprocess_dead_letter", "purge_dead_letter",
              "configure_admission", "admission_status", "configure_route"}
BY DEF Naming, AfterGet

LEMMA CallFacts ==
    ASSUME NEW c, IsCall(c)
    PROVE  /\ c.credential \in Credentials
           /\ c.tool \in Naming => Named(c) \in Some(Names)
           /\ c.tool = "enqueue" => Named(c) = c.queue /\ c.queue \in Option(Names)
           /\ c.tool = "create_api_key" => c.tenant \in Option(Tenants) /\ c.api_key \in Keys
<1>1. CASE c \in EnqueueParams
  BY <1>1, NamingTools DEF EnqueueParams, Named
<1>2. CASE c \in ClaimParams \/ c \in AckParams \/ c \in NackParams \/ c \in CheckpointParams
  BY <1>2, NamingTools DEF ClaimParams, AckParams, NackParams, CheckpointParams, Named
<1>3. CASE \/ c \in PublishPartialResultParams \/ c \in StreamPartialResultsParams
           \/ c \in AdmissionStatusParams \/ c \in ListDeadLettersParams
  BY <1>3, NamingTools DEF PublishPartialResultParams, StreamPartialResultsParams,
                           AdmissionStatusParams, ListDeadLettersParams, Named
<1>4. CASE c \in ConfigureAdmissionParams \/ c \in ConfigureRouteParams
  BY <1>4, NamingTools DEF ConfigureAdmissionParams, ConfigureRouteParams, Named
<1>5. CASE c \in TriageDeadLetterParams \/ c \in DeadLetterActionParams
  BY <1>5, NamingTools DEF TriageDeadLetterParams, DeadLetterActionParams, Named
<1>6. CASE c \in CreateApiKeyParams \/ c \in RevokeApiKeyParams
  BY <1>6, NamingTools DEF CreateApiKeyParams, RevokeApiKeyParams
<1>7. CASE c \in ConfigureTenantQuotaParams \/ c \in TenantQuotaStatusParams
  BY <1>7, NamingTools DEF ConfigureTenantQuotaParams, TenantQuotaStatusParams
<1>8. CASE c \in DashboardRequest
  BY <1>8, NamingTools DEF DashboardRequest, Credentials
<1> QED BY <1>1, <1>2, <1>3, <1>4, <1>5, <1>6, <1>7, <1>8 DEF IsCall

LEMMA CallsLeft ==
    ASSUME NEW todo, AllCalls(todo), todo # <<>>
    PROVE  IsCall(Head(todo)) /\ AllCalls(Tail(todo))
<1>1. PICK calls : todo \in Seq(calls) /\ \A call \in calls : IsCall(call)
  BY DEF AllCalls
<1>2. Head(todo) \in calls /\ Tail(todo) \in Seq(calls)
  BY <1>1
<1> QED BY <1>1, <1>2 DEF AllCalls

LEMMA TheChosen == ASSUME NEW S, S # {} PROVE The(S) \in S
BY DEF The

\* A queue that is named and is not the bad name.
LEMMA QueueChosen ==
    ASSUME NEW q \in Some(Names), The(q) # BadName
    PROVE  q \in Some(Queues)
BY DEF The, Some, Names

LEMMA QueueIn == ASSUME NEW q \in Some(Queues) PROVE The(q) \in Queues
BY DEF The, Some

\* No scope loses a message that was enqueued into it.
Grows == \A s \in Scopes : Owns[s] \subseteq Owns'[s]

LEMMA SoundMore ==
    ASSUME NEW r, NEW a, NEW b, \A s \in Scopes : a[s] \subseteq b[s], Sound(r, a)
    PROVE  Sound(r, b)
<1>1. Formed(r) /\ r.tenant \in Callers
  BY DEF Sound, Formed
<1>2. r.pc \in {"index", "resolve"} => <<r.tenant, The(r.queue)>> \in Scopes
  BY <1>1, QueueIn DEF Sound, Placed, InQueue, Scopes
<1>3. Placed(r, b)
  BY <1>2 DEF Sound, Placed
<1>4. Answered(r, b)
  BY DEF Sound, Answered
<1> QED BY <1>1, <1>3, <1>4 DEF Sound

LEMMA TaskStep ==
    ASSUME TaskInv, Grows, NEW t \in Tasks, NEW r, task' = [task EXCEPT ![t] = r], Sound(r, Owns')
    PROVE  TaskInv'
<1>1. DOMAIN task' = Tasks
  BY DEF TaskInv
<1>2. ASSUME NEW u \in Tasks PROVE Sound(task'[u], Owns')
  <2>1. CASE u = t
    BY <2>1 DEF TaskInv
  <2>2. CASE u # t
    BY <2>2, SoundMore DEF TaskInv, Grows
  <2> QED BY <2>1, <2>2
<1> QED BY <1>1, <1>2 DEF TaskInv

\* The call goes on.
LEMMA MoveStep ==
    ASSUME TaskInv, Grows, NEW t \in Tasks, NEW r, task' = [task EXCEPT ![t] = r],
           DOMAIN r = DOMAIN task[t], r.tenant = task[t].tenant, r.todo = task[t].todo,
           r.answer = task[t].answer, task[t].pc # "idle", Placed(r, Owns')
    PROVE  TaskInv'
<1>1. Sound(task[t], Owns')
  BY SoundMore DEF TaskInv, Grows
<1>2. Formed(r) /\ Answered(r, Owns')
  BY <1>1 DEF Sound, Formed, Answered
<1>3. Sound(r, Owns')
  BY <1>2 DEF Sound
<1> QED BY <1>3, TaskStep

LEMMA GotoStep ==
    ASSUME TaskInv, Grows, NEW t \in Tasks, NEW pc, Goto(t, pc), task[t].pc # "idle",
           Placed([task[t] EXCEPT !.pc = pc], Owns')
    PROVE  TaskInv'
<1> DEFINE r == [task[t] EXCEPT !.pc = pc]
<1>1. DOMAIN task = Tasks /\ DOMAIN task[t] = {"todo", "pc", "tenant", "queue", "left", "total", "limit",
                                               "id", "batch", "held", "answer"}
  BY DEF TaskInv, Sound, Formed
<1>2. task' = [task EXCEPT ![t] = r]
  BY DEF Goto
<1>3. /\ DOMAIN r = DOMAIN task[t] /\ r.tenant = task[t].tenant /\ r.todo = task[t].todo
      /\ r.answer = task[t].answer
  BY <1>1
<1> HIDE DEF r
<1>4. Placed(r, Owns')
  BY DEF r
<1> QED BY <1>2, <1>3, <1>4, MoveStep

\* The call goes on in its queue.
LEMMA GotoInQueue ==
    ASSUME TaskInv, Grows, NEW t \in Tasks, NEW pc \in InQueue \ {"index", "resolve"}, Goto(t, pc),
           task[t].pc # "idle", task[t].queue \in Some(Queues)
    PROVE  TaskInv'
<1> DEFINE r == [task[t] EXCEPT !.pc = pc]
<1>1. pc \notin {"authorize", "tool", "get", "index", "resolve", "mint"}
  BY DEF InQueue
<1>2. r.pc = pc /\ r.queue = task[t].queue
  BY DEF TaskInv, Sound, Formed
<1> HIDE DEF r
<1>3. Placed(r, Owns')
  BY <1>1, <1>2 DEF Placed
<1>4. Placed([task[t] EXCEPT !.pc = pc], Owns')
  BY <1>3 DEF r
<1> QED BY <1>4, GotoStep

\* The call returns.
LEMMA DoneStep ==
    ASSUME TaskInv, Grows, NEW t \in Tasks, NEW answer, NEW held, Done(t, answer, held),
           task[t].todo # <<>>,
           answer.id = 0 \/ (Scope(t) \in Scopes /\ answer.id \in Owns'[Scope(t)])
    PROVE  TaskInv'
<1> DEFINE n == NewTask(Tail(task[t].todo))
           r == [n EXCEPT !.tenant = task[t].tenant, !.held = held, !.answer = answer]
<1>1. task' = [task EXCEPT ![t] = r]
  BY DEF Done, TaskInv
<1>2. /\ DOMAIN n = {"todo", "pc", "tenant", "queue", "left", "total", "limit", "id", "batch", "held", "answer"}
      /\ n.todo = Tail(task[t].todo) /\ n.pc = "idle"
  BY DEF NewTask
<1> HIDE DEF n
<1>3. /\ DOMAIN r = {"todo", "pc", "tenant", "queue", "left", "total", "limit", "id", "batch", "held", "answer"}
      /\ r.todo = Tail(task[t].todo) /\ r.pc = "idle" /\ r.tenant = task[t].tenant /\ r.answer = answer
  BY <1>2
<1> HIDE DEF r
<1>4. AllCalls(Tail(task[t].todo)) /\ task[t].tenant \in Callers
  BY CallsLeft DEF TaskInv, Sound, Formed
<1>5. Formed(r)
  BY <1>3, <1>4 DEF Formed
<1>6. Placed(r, Owns')
  BY <1>3 DEF Placed, InQueue
<1>7. Answered(r, Owns')
  <2>1. Scope(t)[1] = task[t].tenant
    BY DEF Scope, scope_key, Tenant
  <2> QED BY <1>3, <2>1 DEF Answered
<1>8. Sound(r, Owns')
  BY <1>5, <1>6, <1>7 DEF Sound
<1> QED BY <1>1, <1>8, TaskStep

LEMMA AnswerFacts ==
    ASSUME NEW kind, NEW id, NEW retry
    PROVE  /\ Answer(kind).id = 0 /\ [Answer(kind) EXCEPT !.retry = retry].id = 0
           /\ [Answer(kind) EXCEPT !.id = id].id = id
BY DEF Answer, NoAnswer

\* The call returns without a message.
LEMMA ReturnStep ==
    ASSUME TaskInv, Grows, NEW t \in Tasks, NEW kind, Return(t, Answer(kind)), task[t].todo # <<>>
    PROVE  TaskInv'
BY DoneStep, AnswerFacts DEF Return

LEMMA ThrottledStep ==
    ASSUME TaskInv, Grows, NEW t \in Tasks, NEW retry, NEW kind, task[t].todo # <<>>,
           Return(t, [Answer(kind) EXCEPT !.retry = retry])
    PROVE  TaskInv'
<1> DEFINE answer == [Answer(kind) EXCEPT !.retry = retry]
<1>1. answer.id = 0 /\ Done(t, answer, task[t].held)
  BY AnswerFacts DEF Return
<1> HIDE DEF answer
<1> QED BY <1>1, DoneStep

\* A call in progress, or one that is about to start, is a call.
LEMMA CallHere ==
    ASSUME TaskInv, NEW t \in Tasks, task[t].todo # <<>> \/ task[t].pc # "idle"
    PROVE  task[t].todo # <<>> /\ IsCall(Call(t)) /\ AllCalls(task[t].todo)
BY CallsLeft DEF TaskInv, Sound, Formed, Call

LEMMA ScopeIn ==
    ASSUME TaskInv, NEW t \in Tasks, task[t].queue \in Some(Queues)
    PROVE  /\ Tenant(t) \in Callers /\ Queue(t) \in Queues
           /\ Scope(t) \in Scopes /\ Scope(t)[1] = Tenant(t)
<1>1. Tenant(t) \in Callers /\ Queue(t) \in Queues
  BY QueueIn DEF TaskInv, Sound, Formed, Tenant, Queue
<1> QED BY <1>1 DEF Scope, scope_key, Scopes

\* A call that is past the check of its queue's name has a queue.
LEMMA QueueHere ==
    ASSUME TaskInv, NEW t \in Tasks, task[t].pc \in InQueue
    PROVE  /\ task[t].queue \in Some(Queues) /\ task[t].todo # <<>> /\ IsCall(Call(t))
           /\ task[t].pc # "idle"
<1>1. task[t].pc # "idle"
  BY DEF InQueue
<1>2. task[t].queue \in Some(Queues)
  BY DEF TaskInv, Sound, Placed
<1> QED BY <1>1, <1>2, CallHere


-----------------------------------------------------------------------------
(* The rest of the server                                                   *)

LEMMA SameMessages ==
    ASSUME MessagesInv, UNCHANGED messages
    PROVE  MessagesInv' /\ Owns' = Owns /\ Grows
<1>1. MessagesInv'
  BY DEF MessagesInv, Ids
<1>2. Owns' = Owns
  BY DEF Owns, Ids
<1> QED BY <1>1, <1>2 DEF Grows

\* The count of a message's deliveries says nothing of whose it is.
LEMMA TriesChange ==
    ASSUME MessagesInv, NEW id \in Ids, NEW n, messages' = [messages EXCEPT ![id].tries = n]
    PROVE  MessagesInv' /\ Owns' = Owns /\ Grows
<1> DEFINE m == [messages[id] EXCEPT !.tries = n]
<1>1. PICK all : messages \in Seq(all)
  BY DEF MessagesInv
<1>2. DOMAIN m = {"tenant", "queue", "tries"} /\ m.tenant = messages[id].tenant
      /\ m.queue = messages[id].queue
  BY DEF MessagesInv
<1>3. messages' = [messages EXCEPT ![id] = m]
  OBVIOUS
<1> HIDE DEF m
<1>4. messages' \in Seq(all \cup {m}) /\ DOMAIN messages' = DOMAIN messages
  BY <1>1, <1>3 DEF Ids
<1>5. \A i \in Ids : /\ DOMAIN messages'[i] = {"tenant", "queue", "tries"}
                     /\ messages'[i].tenant = messages[i].tenant /\ messages'[i].queue = messages[i].queue
  BY <1>2, <1>3 DEF Ids, MessagesInv
<1>6. MessagesInv'
  BY <1>4, <1>5 DEF MessagesInv, Ids
<1>7. Owns' = Owns
  BY <1>4, <1>5 DEF Owns, Ids
<1> QED BY <1>6, <1>7 DEF Grows

LEMMA MessagesForgetTries ==
    ASSUME MessagesInv, messages' = [m \in Ids |-> [messages[m] EXCEPT !.tries = 0]]
    PROVE  MessagesInv' /\ Owns' = Owns /\ Grows
<1> DEFINE anew(m) == [messages[m] EXCEPT !.tries = 0]
           S == {anew(m) : m \in Ids}
<1>1. PICK all : messages \in Seq(all)
  BY DEF MessagesInv
<1>2. Ids = 1..Len(messages) /\ Len(messages) \in Nat
  BY <1>1 DEF Ids
<1>3. \A m \in Ids : DOMAIN anew(m) = {"tenant", "queue", "tries"} /\ anew(m).tenant = messages[m].tenant
                   /\ anew(m).queue = messages[m].queue
  BY DEF MessagesInv
<1>4. messages' = [m \in Ids |-> anew(m)]
  OBVIOUS
<1> HIDE DEF anew
<1>5. messages' \in [1..Len(messages) -> S]
  BY <1>2, <1>4
<1> HIDE DEF S
<1>6. messages' \in Seq(S)
  BY <1>2, <1>5
<1>7. DOMAIN messages' = Ids
  BY <1>4
<1>8. \A i \in Ids : /\ DOMAIN messages'[i] = {"tenant", "queue", "tries"}
                     /\ messages'[i].tenant = messages[i].tenant /\ messages'[i].queue = messages[i].queue
  BY <1>3, <1>4
<1>9. MessagesInv'
  BY <1>6, <1>7, <1>8 DEF MessagesInv, Ids
<1>10. Owns' = Owns
  BY <1>7, <1>8 DEF Owns, Ids
<1> QED BY <1>9, <1>10 DEF Grows

\* A new message is its caller's.
LEMMA MessageAdded ==
    ASSUME MessagesInv, NEW tenant \in Callers, NEW queue \in Queues,
           messages' = Append(messages, [tenant |-> tenant, queue |-> queue, tries |-> 0])
    PROVE  MessagesInv' /\ Grows /\ Len(messages) + 1 \in Owns'[<<tenant, queue>>]
<1> DEFINE m == [tenant |-> tenant, queue |-> queue, tries |-> 0]
<1>1. PICK all : messages \in Seq(all)
  BY DEF MessagesInv
<1>2. DOMAIN m = {"tenant", "queue", "tries"} /\ m.tenant = tenant /\ m.queue = queue
  OBVIOUS
<1>3. messages' = Append(messages, m)
  OBVIOUS
<1> HIDE DEF m
<1>4. messages \in Seq(all \cup {m}) /\ Len(messages) \in Nat /\ Ids = 1..Len(messages)
  BY <1>1 DEF Ids
<1>5. /\ messages' \in Seq(all \cup {m}) /\ DOMAIN messages' = Ids \cup {Len(messages) + 1}
      /\ messages'[Len(messages) + 1] = m /\ \A i \in Ids : messages'[i] = messages[i]
  BY <1>3, <1>4 DEF Ids
<1>6. MessagesInv'
  BY <1>2, <1>5 DEF MessagesInv, Ids
<1>7. Owns' = [s \in Scopes |-> {id \in Ids \cup {Len(messages) + 1} :
                                    <<messages'[id].tenant, messages'[id].queue>> = s}]
  BY <1>5 DEF Owns, Ids
<1>8. Len(messages) + 1 \in Owns'[<<tenant, queue>>]
  BY <1>2, <1>5, <1>7 DEF Scopes
<1>9. Grows
  BY <1>5, <1>7 DEF Grows, Owns
<1> QED BY <1>6, <1>8, <1>9

LEMMA ScopeCaller == ASSUME NEW s \in Scopes PROVE s[1] \in Callers
BY DEF Scopes

LEMMA GroupStep ==
    ASSUME GroupInv, Grows, NEW s \in Scopes, NEW g, group' = [group EXCEPT ![s] = g],
           Holds(g, Owns'[s])
    PROVE  GroupInv'
<1>1. ASSUME NEW u \in Scopes PROVE Holds(group'[u], Owns'[u])
  <2>1. CASE u = s
    BY <2>1 DEF GroupInv
  <2>2. CASE u # s
    <3>1. Holds(group[u], Owns[u]) /\ Owns[u] \subseteq Owns'[u]
      BY ScopeCaller DEF GroupInv, Grows
    <3>2. group'[u] = group[u]
      BY <2>2 DEF GroupInv
    <3> QED BY <3>1, <3>2, HoldsMore
  <2> QED BY <2>1, <2>2
<1> QED BY <1>1 DEF GroupInv

LEMMA GroupSame == ASSUME GroupInv, Grows, UNCHANGED group PROVE GroupInv'
<1>1. ASSUME NEW u \in Scopes PROVE Holds(group'[u], Owns'[u])
  <2>1. Holds(group[u], Owns[u]) /\ Owns[u] \subseteq Owns'[u]
    BY ScopeCaller DEF GroupInv, Grows
  <2> QED BY <2>1, HoldsMore
<1> QED BY <1>1 DEF GroupInv

LEMMA DedupStep ==
    ASSUME DedupInv, Grows, NEW s \in Scopes, NEW x, dedup' = [dedup EXCEPT ![s] = x],
           Indexes(x, Owns'[s])
    PROVE  DedupInv'
<1>1. ASSUME NEW u \in Scopes PROVE Indexes(dedup'[u], Owns'[u])
  <2>1. CASE u = s
    BY <2>1 DEF DedupInv
  <2>2. CASE u # s
    <3>1. Indexes(dedup[u], Owns[u]) /\ Owns[u] \subseteq Owns'[u]
      BY ScopeCaller DEF DedupInv, Grows
    <3>2. dedup'[u] = dedup[u]
      BY <2>2 DEF DedupInv
    <3> QED BY <3>1, <3>2, IndexesMore
  <2> QED BY <2>1, <2>2
<1> QED BY <1>1 DEF DedupInv

LEMMA DedupSame == ASSUME DedupInv, Grows, UNCHANGED dedup PROVE DedupInv'
<1>1. ASSUME NEW u \in Scopes PROVE Indexes(dedup'[u], Owns'[u])
  <2>1. Indexes(dedup[u], Owns[u]) /\ Owns[u] \subseteq Owns'[u]
    BY ScopeCaller DEF DedupInv, Grows
  <2> QED BY <2>1, IndexesMore
<1> QED BY <1>1 DEF DedupInv

\* What the tenants' keys and routes say is left alone, and messages at most grow.
LEMMA RestSame ==
    ASSUME KeysInv, RoutesInv, UNCHANGED <<keystore, routes>>
    PROVE  KeysInv' /\ RoutesInv'
BY DEF KeysInv, RoutesInv

\* A step of a call that touches nothing but the call.
LEMMA CallStep ==
    ASSUME TenantInv, UNCHANGED <<messages, keystore, group, dedup, routes>>, TaskInv'
    PROVE  TenantInv'
BY SameMessages, GroupSame, DedupSame, RestSame DEF TenantInv

LEMMA PlainReturn ==
    ASSUME TenantInv, NEW t \in Tasks, UNCHANGED <<messages, keystore, group, dedup, routes>>,
           task[t].pc # "idle", NEW kind, Return(t, Answer(kind))
    PROVE  TenantInv'
<1>1. TaskInv /\ Grows
  BY SameMessages DEF TenantInv
<1>2. TaskInv'
  BY <1>1, CallHere, ReturnStep
<1> QED BY <1>2, CallStep


-----------------------------------------------------------------------------
(* One step per action                                                      *)

LEMMA StartStep ==
    ASSUME TaskInv, Grows, NEW t \in Tasks, NEW pc \in {"tool", "authorize"}, NEW tenant \in Callers,
           task[t].todo # <<>>,
           task' = [task EXCEPT ![t].pc = pc, ![t].tenant = tenant, ![t].answer = NoAnswer,
                                ![t].queue = Named(Call(t))]
    PROVE  TaskInv'
<1> DEFINE r == [task[t] EXCEPT !.pc = pc, !.tenant = tenant, !.answer = NoAnswer, !.queue = Named(Call(t))]
<1>1. Formed(task[t]) /\ DOMAIN task = Tasks
  BY DEF TaskInv, Sound
<1>2. task' = [task EXCEPT ![t] = r]
  BY <1>1
<1>3. /\ DOMAIN r = DOMAIN task[t] /\ r.pc = pc /\ r.tenant = tenant /\ r.answer = NoAnswer
      /\ r.todo = task[t].todo /\ r.queue = Named(Head(r.todo))
  BY <1>1 DEF Formed, Call
<1> HIDE DEF r
<1>4. Formed(r) /\ Placed(r, Owns') /\ Answered(r, Owns')
  BY <1>1, <1>3 DEF Formed, Placed, Answered, InQueue, NoAnswer
<1>5. Sound(r, Owns')
  BY <1>4 DEF Sound
<1> QED BY <1>2, <1>5, TaskStep

\* A credential stands for a tenant or for nobody.
LEMMA CredentialFacts ==
    ASSUME KeysInv, NEW c \in DOMAIN Jwt
    PROVE  CredentialTenant(c) \subseteq Tenants
<1>1. ApiKeys!authenticate(keystore, c) \subseteq Tenants
  BY DEF KeysInv, KeysOfTenants, ApiKeys!authenticate
<1>2. Jwt[c] \subseteq Tenants
  BY TenantsAssumption DEF Option, Some
<1> QED BY <1>1, <1>2 DEF CredentialTenant

LEMMA FrontSteps ==
    ASSUME TenantInv, NEW t \in Tasks, StdioCall(t) \/ RequireTenant(t) \/ Authorize(t)
    PROVE  TenantInv'
<1>1. UNCHANGED <<messages, keystore, group, dedup, routes>>
  BY DEF StdioCall, RequireTenant, Authorize, registry
<1>2. TaskInv /\ KeysInv /\ Grows
  BY <1>1, SameMessages DEF TenantInv
<1>3. CASE StdioCall(t)
  <2>1. TaskInv'
    BY <1>2, <1>3, StartStep DEF StdioCall, Callers
  <2> QED BY <1>1, <2>1, CallStep
<1>4. CASE RequireTenant(t)
  <2> DEFINE found == CredentialTenant(Call(t).credential)
  <2>1. task[t].todo # <<>> /\ Call(t).credential # Stdio
    BY <1>4 DEF RequireTenant
  <2>2. Call(t).credential \in DOMAIN Jwt
    BY <1>2, <2>1, CallHere, CallFacts DEF Credentials
  <2>3. found \subseteq Tenants
    BY <1>2, <2>2, CredentialFacts
  <2>4. CASE found = {}
    <3>1. Return(t, Answer("unauthorized"))
      BY <1>4, <2>4 DEF RequireTenant
    <3> QED BY <1>1, <1>2, <2>1, <3>1, ReturnStep, CallStep
  <2>5. CASE found # {}
    <3>1. The(found) \in Callers
      BY <2>3, <2>5, TheChosen DEF Callers
    <3>2. task' = [task EXCEPT ![t].pc = "authorize", ![t].tenant = The(found),
                               ![t].answer = NoAnswer, ![t].queue = Named(Call(t))]
      BY <1>4, <2>5 DEF RequireTenant
    <3> HIDE DEF found
    <3>3. TaskInv'
      BY <1>2, <2>1, <3>1, <3>2, StartStep
    <3> QED BY <1>1, <3>3, CallStep
  <2> QED BY <2>4, <2>5
<1>5. CASE Authorize(t)
  <2> DEFINE d == Quota!try_acquire(quota[Tenant(t)])
             r == [task[t] EXCEPT !.pc = "tool"]
  <2>1. task[t].pc = "authorize" /\ task[t].pc # "idle"
    BY <1>5 DEF Authorize, At
  <2>2. Goto(t, "tool") \/ Return(t, [Answer("throttled") EXCEPT !.retry = d.retry])
    BY <1>5 DEF Authorize
  <2>3. r.pc = "tool" /\ r.queue = task[t].queue /\ r.todo = task[t].todo
    BY <1>2 DEF TaskInv, Sound, Formed
  <2>4. Placed(r, Owns')
    BY <1>2, <2>1, <2>3 DEF TaskInv, Sound, Placed, InQueue
  <2> HIDE DEF d
  <2>5. CASE Goto(t, "tool")
    BY <1>1, <1>2, <2>1, <2>4, <2>5, GotoStep, CallStep
  <2>6. CASE Return(t, [Answer("throttled") EXCEPT !.retry = d.retry])
    BY <1>1, <1>2, <2>1, <2>6, CallHere, ThrottledStep, CallStep
  <2> QED BY <2>2, <2>5, <2>6
<1> QED BY <1>3, <1>4, <1>5

LEMMA RefuseSteps ==
    ASSUME TenantInv, NEW t \in Tasks, Refuse(t)
    PROVE  TenantInv'
<1>1. UNCHANGED <<messages, keystore, group, dedup, routes>>
  BY DEF Refuse, RejectName, RejectId, RejectKey, RefuseTenant, RejectTenantId, registry
<1>2. Return(t, Answer("invalid"))
  BY DEF Refuse, RejectName, RejectId, RejectKey, RefuseTenant, RejectTenantId
<1>3. task[t].pc # "idle"
  BY DEF Refuse, RejectName, RejectId, RejectKey, RefuseTenant, RejectTenantId, WantsQueue, At
<1> QED BY <1>1, <1>2, <1>3, PlainReturn

\* registry.get: a call that wants a queue ends up with one of its tenant's.
LEMMA GetStep ==
    ASSUME TenantInv, NEW t \in Tasks, Get(t)
    PROVE  TenantInv'
<1>1. UNCHANGED <<messages, keystore, group, dedup, routes>>
  BY DEF Get
<1>2. TaskInv /\ Grows
  BY <1>1, SameMessages DEF TenantInv
<1>3. task[t].pc \in {"tool", "get"} /\ task[t].pc # "idle" /\ Queue(t) # BadName
  BY DEF Get, WantsQueue, At
<1>4. IsCall(Call(t)) /\ Placed(task[t], Owns)
  BY <1>2, <1>3, CallHere DEF TaskInv, Sound
<1>5. task[t].queue \in Some(Names) /\ Call(t).tool \in DOMAIN AfterGet
  <2>1. CASE task[t].pc = "get"
    BY <1>4, <2>1 DEF Placed, Call, AfterGet
  <2>2. CASE task[t].pc = "tool"
    <3>1. Call(t).tool \in DOMAIN AfterGet \ {"enqueue"}
      BY <2>2 DEF Get, WantsQueue, At
    <3>2. Call(t).tool \in Naming
      BY <3>1 DEF Naming
    <3> QED BY <1>4, <2>2, <3>1, <3>2, CallFacts DEF Placed, Call
  <2> QED BY <1>3, <2>1, <2>2
<1>6. task[t].queue \in Some(Queues)
  BY <1>3, <1>5, QueueChosen DEF Queue
<1>7. AfterGet[Call(t).tool] \in InQueue \ {"index", "resolve"}
  BY <1>5 DEF AfterGet, InQueue
<1>8. CASE Goto(t, AfterGet[Call(t).tool])
  BY <1>1, <1>2, <1>3, <1>6, <1>7, <1>8, GotoInQueue, CallStep
<1>9. CASE Return(t, Answer("error")) \/ Return(t, Answer("invalid"))
  BY <1>1, <1>3, <1>9, PlainReturn
<1> QED BY <1>8, <1>9 DEF Get

LEMMA SumOneStep ==
    ASSUME TenantInv, NEW t \in Tasks, SumOne(t)
    PROVE  TenantInv'
<1>1. UNCHANGED <<messages, keystore, group, dedup, routes>>
  BY DEF SumOne, registry
<1>2. TaskInv /\ Grows /\ Owns' = Owns
  BY <1>1, SameMessages DEF TenantInv
<1>3. PICK s \in task[t].left :
        task' = [task EXCEPT ![t].left = @ \ {s}, ![t].total = @ + GroupLen(group[s])]
  BY DEF SumOne
<1> DEFINE r == [task[t] EXCEPT !.left = @ \ {s}, !.total = @ + GroupLen(group[s])]
<1>4. task' = [task EXCEPT ![t] = r] /\ task[t].pc # "idle"
  BY <1>2, <1>3 DEF TaskInv, SumOne, At
<1>5. /\ DOMAIN r = DOMAIN task[t] /\ r.tenant = task[t].tenant /\ r.todo = task[t].todo
      /\ r.answer = task[t].answer /\ r.pc = task[t].pc /\ r.queue = task[t].queue /\ r.id = task[t].id
      /\ r.batch = task[t].batch
  BY <1>2 DEF TaskInv, Sound, Formed
<1> HIDE DEF r
<1>6. Placed(r, Owns')
  BY <1>2, <1>5 DEF TaskInv, Sound, Placed
<1> QED BY <1>1, <1>2, <1>4, <1>5, <1>6, MoveStep, CallStep


\* enqueue_impl: the queue a task goes to is named by the caller or by a route of its tenant.
LEMMA ResolveStep ==
    ASSUME TenantInv, NEW t \in Tasks, ResolveTargetQueue(t)
    PROVE  TenantInv'
<1> DEFINE embedding == Call(t).embedding
           hits == UNION {Index!nearest(routes[tenant_key(Tenant(t))], e) : e \in embedding}
<1>1. UNCHANGED <<messages, keystore, group, dedup, routes>>
  BY DEF ResolveTargetQueue, registry
<1>2. TaskInv /\ Grows /\ Owns' = Owns /\ RoutesInv
  BY <1>1, SameMessages DEF TenantInv
<1>3. task[t].pc = "tool" /\ task[t].pc # "idle" /\ Call(t).tool = "enqueue"
  BY DEF ResolveTargetQueue, Running, At
<1>4. IsCall(Call(t)) /\ Formed(task[t]) /\ Placed(task[t], Owns)
  BY <1>2, <1>3, CallHere DEF TaskInv, Sound
<1>5. task[t].queue = Call(t).queue /\ Call(t).queue \in Option(Names) /\ Tenant(t) \in Callers
  BY <1>3, <1>4, CallFacts DEF Placed, Call, Formed, Tenant
<1>6. ASSUME NEW h \in hits PROVE h.key \in Queues
  <2>1. PICK e \in embedding : h \in Index!nearest(routes[Tenant(t)], e)
    BY DEF tenant_key
  <2>2. Indexes(routes[Tenant(t)], Queues)
    BY <1>2, <1>5 DEF RoutesInv
  <2> QED BY <2>1, <2>2, NearestIndexed
<1>7. \/ Return(t, Answer("invalid"))
      \/ Call(t).queue # {} /\ Goto(t, "get")
      \/ \E h \in hits : task' = [task EXCEPT ![t].pc = "get", ![t].queue = {h.key}]
  BY DEF ResolveTargetQueue
<1> HIDE DEF hits
<1>8. CASE Call(t).queue # {} /\ Goto(t, "get")
  <2> DEFINE r == [task[t] EXCEPT !.pc = "get"]
  <2>1. task[t].queue \in Some(Names)
    BY <1>5, <1>8 DEF Option
  <2>2. r.pc = "get" /\ r.queue = task[t].queue /\ r.todo = task[t].todo
    BY <1>4 DEF Formed
  <2>3. Placed(r, Owns')
    BY <1>3, <2>1, <2>2 DEF Placed, InQueue, Call
  <2> QED BY <1>1, <1>2, <1>3, <1>8, <2>3, GotoStep, CallStep
<1>9. CASE \E h \in hits : task' = [task EXCEPT ![t].pc = "get", ![t].queue = {h.key}]
  <2>1. PICK h \in hits : task' = [task EXCEPT ![t].pc = "get", ![t].queue = {h.key}]
    BY <1>9
  <2> DEFINE r == [task[t] EXCEPT !.pc = "get", !.queue = {h.key}]
  <2>2. task' = [task EXCEPT ![t] = r]
    BY <1>2, <2>1 DEF TaskInv
  <2>3. /\ DOMAIN r = DOMAIN task[t] /\ r.tenant = task[t].tenant /\ r.todo = task[t].todo
        /\ r.answer = task[t].answer /\ r.pc = "get" /\ r.queue = {h.key}
    BY <1>4 DEF Formed
  <2> HIDE DEF r
  <2>4. {h.key} \in Some(Names)
    BY <1>6 DEF Some, Names
  <2>5. Placed(r, Owns')
    BY <1>3, <2>3, <2>4 DEF Placed, InQueue, Call
  <2> QED BY <1>1, <1>2, <1>3, <2>2, <2>3, <2>5, MoveStep, CallStep
<1> QED BY <1>1, <1>3, <1>7, <1>8, <1>9, PlainReturn

\* The index that is searched is the caller's own.
LEMMA DedupActionStep ==
    ASSUME TenantInv, NEW t \in Tasks, Dedup(t)
    PROVE  TenantInv'
<1> DEFINE x == Index!evict_expired(dedup[Scope(t)])
           hits == UNION {Index!nearest(x, e) : e \in Call(t).embedding}
<1>1. UNCHANGED <<messages, keystore, group, routes>>
  BY DEF Dedup
<1>2. /\ MessagesInv' /\ TaskInv /\ Grows /\ Owns' = Owns /\ DedupInv /\ GroupInv' /\ KeysInv' /\ RoutesInv'
  BY <1>1, SameMessages, GroupSame, RestSame DEF TenantInv
<1>3. task[t].pc \in InQueue
  BY DEF Dedup, At, InQueue
<1>4. /\ task[t].queue \in Some(Queues) /\ task[t].todo # <<>> /\ task[t].pc # "idle"
      /\ Scope(t) \in Scopes /\ Scope(t)[1] = Tenant(t)
  BY <1>2, <1>3, QueueHere, ScopeIn
<1>5. Indexes(x, Owns[Scope(t)])
  BY <1>2, <1>4, EvictIndexes DEF DedupInv
<1>6. ASSUME NEW h \in hits PROVE h.key \in Owns[Scope(t)]
  BY <1>5, NearestIndexed
<1>7. dedup' = dedup \/ dedup' = [dedup EXCEPT ![Scope(t)] = x]
  BY DEF Dedup
<1>8. \/ \E h \in hits : Return(t, [Answer("duplicate") EXCEPT !.id = h.key])
      \/ Goto(t, "pending")
  BY DEF Dedup
<1> HIDE DEF x, hits
<1>9. DedupInv'
  BY <1>2, <1>4, <1>5, <1>7, DedupStep, DedupSame
<1>10. TaskInv'
  <2>1. CASE Goto(t, "pending")
    BY <1>2, <1>4, <2>1, GotoInQueue DEF InQueue
  <2>2. ASSUME NEW h \in hits, Return(t, [Answer("duplicate") EXCEPT !.id = h.key]) PROVE TaskInv'
    <3> DEFINE answer == [Answer("duplicate") EXCEPT !.id = h.key]
    <3>1. answer.id \in Owns'[Scope(t)] /\ Done(t, answer, task[t].held)
      BY <1>2, <1>6, <2>2, AnswerFacts DEF Return
    <3> HIDE DEF answer
    <3> QED BY <1>2, <1>4, <3>1, DoneStep
  <2> QED BY <1>8, <2>1, <2>2
<1> QED BY <1>2, <1>9, <1>10 DEF TenantInv

LEMMA PendingSteps ==
    ASSUME TenantInv, NEW t \in Tasks, ReadPendingLimit(t) \/ ComparePending(t) \/ Admit(t)
    PROVE  TenantInv'
<1>1. UNCHANGED <<messages, keystore, group, dedup, routes>>
  BY DEF ReadPendingLimit, ComparePending, Admit, registry
<1>2. TaskInv /\ Grows /\ Owns' = Owns
  BY <1>1, SameMessages DEF TenantInv
<1>3. CASE ReadPendingLimit(t)
  <2>1. task[t].pc \in InQueue
    BY <1>3 DEF ReadPendingLimit, At, InQueue
  <2>2. task[t].queue \in Some(Queues) /\ task[t].pc # "idle"
    BY <1>2, <2>1, QueueHere
  <2>3. CASE Goto(t, "admit")
    BY <1>1, <1>2, <2>2, <2>3, GotoInQueue, CallStep DEF InQueue
  <2>4. CASE ~Goto(t, "admit")
    <3>1. PICK limit, left : task' = [task EXCEPT ![t].pc = "sum", ![t].limit = limit,
                                                  ![t].left = left, ![t].total = 0]
      BY <1>3, <2>4 DEF ReadPendingLimit
    <3> DEFINE r == [task[t] EXCEPT !.pc = "sum", !.limit = limit, !.left = left, !.total = 0]
    <3>2. task' = [task EXCEPT ![t] = r]
      BY <1>2, <3>1 DEF TaskInv
    <3>3. /\ DOMAIN r = DOMAIN task[t] /\ r.tenant = task[t].tenant /\ r.todo = task[t].todo
          /\ r.answer = task[t].answer /\ r.pc = "sum" /\ r.queue = task[t].queue
      BY <1>2 DEF TaskInv, Sound, Formed
    <3> HIDE DEF r
    <3>4. Placed(r, Owns')
      BY <2>2, <3>3 DEF Placed, InQueue
    <3> QED BY <1>1, <1>2, <2>2, <3>2, <3>3, <3>4, MoveStep, CallStep
  <2> QED BY <2>3, <2>4
<1>4. CASE ComparePending(t)
  <2>1. task[t].pc = "sum" /\ task[t].pc # "idle" /\ Call(t).tool = "enqueue"
    BY <1>4 DEF ComparePending, Running, At
  <2>2. task[t].queue \in Some(Queues)
    BY <1>2, <2>1 DEF TaskInv, Sound, Placed, Call
  <2>3. Goto(t, "admit") \/ Return(t, Answer("over_pending"))
    BY <1>4 DEF ComparePending
  <2>4. CASE Goto(t, "admit")
    BY <1>1, <1>2, <2>1, <2>2, <2>4, GotoInQueue, CallStep DEF InQueue
  <2> QED BY <1>1, <2>1, <2>3, <2>4, PlainReturn
<1>5. CASE Admit(t)
  <2> DEFINE d == Admission!try_admit(admission[Scope(t)], Call(t).tokens, Call(t).cost)
  <2>1. task[t].pc \in InQueue
    BY <1>5 DEF Admit, At, InQueue
  <2>2. task[t].queue \in Some(Queues) /\ task[t].pc # "idle" /\ task[t].todo # <<>>
    BY <1>2, <2>1, QueueHere
  <2>3. Goto(t, "put") \/ Return(t, [Answer("throttled") EXCEPT !.retry = d.retry])
    BY <1>5 DEF Admit
  <2> HIDE DEF d
  <2>4. CASE Goto(t, "put")
    BY <1>1, <1>2, <2>2, <2>4, GotoInQueue, CallStep DEF InQueue
  <2>5. CASE Return(t, [Answer("throttled") EXCEPT !.retry = d.retry])
    BY <1>1, <1>2, <2>2, <2>5, ThrottledStep, CallStep
  <2> QED BY <2>3, <2>4, <2>5
<1> QED BY <1>3, <1>4, <1>5

\* The message has been put, or is the one that has the same key.
LEMMA ToIndex ==
    ASSUME TaskInv, Grows, NEW t \in Tasks, task[t].queue \in Some(Queues), task[t].pc # "idle",
           NEW id \in Owns'[Scope(t)], task' = [task EXCEPT ![t].pc = "index", ![t].id = id]
    PROVE  TaskInv'
<1> DEFINE r == [task[t] EXCEPT !.pc = "index", !.id = id]
<1>1. task' = [task EXCEPT ![t] = r]
  BY DEF TaskInv
<1>2. /\ DOMAIN r = DOMAIN task[t] /\ r.tenant = task[t].tenant /\ r.todo = task[t].todo
      /\ r.answer = task[t].answer /\ r.pc = "index" /\ r.queue = task[t].queue /\ r.id = id
  BY DEF TaskInv, Sound, Formed
<1> HIDE DEF r
<1>3. Placed(r, Owns')
  BY <1>2 DEF Placed, InQueue, Scope, scope_key, Tenant, Queue
<1> QED BY <1>1, <1>2, <1>3, MoveStep

LEMMA PutStep ==
    ASSUME TenantInv, NEW t \in Tasks, Put(t)
    PROVE  TenantInv'
<1> DEFINE id == Len(messages) + 1
           g == group[Scope(t)]
           same == Existing(g, Call(t).key)
<1>1. UNCHANGED <<keystore, dedup, routes>> /\ KeysInv' /\ RoutesInv'
  BY RestSame DEF Put, registry, TenantInv
<1>2. MessagesInv /\ TaskInv /\ GroupInv /\ DedupInv
  BY DEF TenantInv
<1>3. task[t].pc \in InQueue
  BY DEF Put, At, InQueue
<1>4. /\ task[t].queue \in Some(Queues) /\ task[t].todo # <<>> /\ task[t].pc # "idle"
      /\ Scope(t) \in Scopes /\ Scope(t)[1] = Tenant(t) /\ Tenant(t) \in Callers
  BY <1>2, <1>3, QueueHere, ScopeIn
<1>5. Holds(g, Owns[Scope(t)])
  BY <1>2, <1>4 DEF GroupInv
<1>6. CASE /\ same # {} /\ UNCHANGED <<group, messages>>
           /\ task' = [task EXCEPT ![t].pc = "index", ![t].id = The(same)]
  <2>1. The(same) \in same
    BY <1>6, TheChosen
  <2>2. The(same) \in Owns[Scope(t)]
    BY <1>5, <2>1 DEF Existing, Holds
  <2> HIDE DEF same
  <2>3. Owns' = Owns /\ Grows
    BY <1>2, <1>6, SameMessages
  <2>4. TaskInv'
    BY <1>2, <1>4, <1>6, <2>2, <2>3, ToIndex
  <2> QED BY <1>1, <1>6, <2>4, CallStep
<1>7. CASE /\ group' = [group EXCEPT ![Scope(t)] = Pushed(@, id, Call(t).key)]
           /\ messages' = Append(messages, [tenant |-> Tenant(t), queue |-> Queue(t), tries |-> 0])
           /\ task' = [task EXCEPT ![t].pc = "index", ![t].id = id]
  <2>0. Queue(t) \in Queues /\ Scope(t) = <<Tenant(t), Queue(t)>>
    BY <1>2, <1>4, ScopeIn DEF Scope, scope_key
  <2>1. MessagesInv' /\ Grows /\ id \in Owns'[Scope(t)]
    BY <1>2, <1>4, <1>7, <2>0, MessageAdded
  <2>2. Holds(Pushed(g, id, Call(t).key), Owns'[Scope(t)])
    BY <1>4, <1>5, <2>1, HoldsMore, PushedHolds DEF Grows
  <2>3. group' = [group EXCEPT ![Scope(t)] = Pushed(g, id, Call(t).key)]
    BY <1>2, <1>4, <1>7 DEF GroupInv
  <2> HIDE DEF id, g
  <2>4. GroupInv' /\ DedupInv'
    BY <1>1, <1>2, <1>4, <2>1, <2>2, <2>3, GroupStep, DedupSame
  <2>5. TaskInv'
    BY <1>2, <1>4, <1>7, <2>1, ToIndex
  <2> QED BY <1>1, <2>1, <2>4, <2>5 DEF TenantInv
<1>8. CASE Return(t, Answer("error")) /\ UNCHANGED <<group, messages>>
  BY <1>1, <1>4, <1>8, PlainReturn
<1> QED BY <1>6, <1>7, <1>8 DEF Put

LEMMA IndexAndReturnStep ==
    ASSUME TenantInv, NEW t \in Tasks, IndexAndReturn(t)
    PROVE  TenantInv'
<1> DEFINE x == Index!insert(dedup[Scope(t)], task[t].id, The(Call(t).embedding))
<1>1. UNCHANGED <<messages, keystore, group, routes>>
  BY DEF IndexAndReturn
<1>2. /\ MessagesInv' /\ TaskInv /\ Grows /\ Owns' = Owns /\ DedupInv /\ GroupInv' /\ KeysInv' /\ RoutesInv'
  BY <1>1, SameMessages, GroupSame, RestSame DEF TenantInv
<1>3. task[t].pc = "index" /\ task[t].pc \in InQueue
  BY DEF IndexAndReturn, At, InQueue
<1>4. /\ task[t].todo # <<>> /\ Scope(t) \in Scopes /\ Scope(t)[1] = Tenant(t)
  BY <1>2, <1>3, QueueHere, ScopeIn
<1>5. task[t].id \in Owns[Scope(t)]
  BY <1>2, <1>3 DEF TaskInv, Sound, Placed, Scope, scope_key, Tenant, Queue
<1>6. Indexes(x, Owns[Scope(t)])
  BY <1>2, <1>4, <1>5, InsertIndexes DEF DedupInv
<1>7. dedup' = dedup \/ dedup' = [dedup EXCEPT ![Scope(t)] = x]
  BY DEF IndexAndReturn
<1>8. Return(t, [Answer("enqueued") EXCEPT !.id = task[t].id])
  BY DEF IndexAndReturn
<1> HIDE DEF x
<1>9. DedupInv'
  BY <1>2, <1>4, <1>6, <1>7, DedupStep, DedupSame
<1>10. TaskInv'
  <2> DEFINE answer == [Answer("enqueued") EXCEPT !.id = task[t].id]
  <2>1. answer.id \in Owns'[Scope(t)] /\ Done(t, answer, task[t].held)
    BY <1>2, <1>5, <1>8, AnswerFacts DEF Return
  <2> HIDE DEF answer
  <2> QED BY <1>2, <1>4, <2>1, DoneStep
<1> QED BY <1>2, <1>9, <1>10 DEF TenantInv


\* A call on the caller's group, and its answer if it has no message to give.
LEMMA GroupCall ==
    ASSUME TenantInv, NEW t \in Tasks, UNCHANGED <<messages, keystore, dedup, routes>>,
           task[t].pc \in InQueue, NEW g, group' = [group EXCEPT ![Scope(t)] = g],
           Holds(g, Owns[Scope(t)]), TaskInv'
    PROVE  TenantInv'
<1>1. MessagesInv' /\ Grows /\ Owns' = Owns /\ DedupInv' /\ KeysInv' /\ RoutesInv'
  BY SameMessages, DedupSame, RestSame DEF TenantInv
<1>2. Scope(t) \in Scopes /\ Scope(t)[1] = Tenant(t)
  BY QueueHere, ScopeIn DEF TenantInv
<1>3. GroupInv'
  BY <1>1, <1>2, GroupStep DEF TenantInv
<1> QED BY <1>1, <1>3 DEF TenantInv

\* What a call in its queue sees is its tenant's.
LEMMA OwnGroup ==
    ASSUME TenantInv, NEW t \in Tasks, task[t].pc \in InQueue
    PROVE  /\ Scope(t) \in Scopes /\ Scope(t)[1] = Tenant(t) /\ Tenant(t) \in Callers
           /\ Holds(group[Scope(t)], Owns[Scope(t)]) /\ Scope(t) \in DOMAIN group
           /\ task[t].queue \in Some(Queues) /\ task[t].todo # <<>> /\ task[t].pc # "idle"
<1>1. /\ Scope(t) \in Scopes /\ Scope(t)[1] = Tenant(t) /\ Tenant(t) \in Callers
      /\ task[t].queue \in Some(Queues) /\ task[t].todo # <<>> /\ task[t].pc # "idle"
  BY QueueHere, ScopeIn DEF TenantInv
<1> QED BY <1>1 DEF TenantInv, GroupInv

LEMMA BecomesStep ==
    ASSUME TenantInv, NEW t \in Tasks, task[t].pc \in InQueue, NEW g, BecomesAndFails(t, g),
           Holds(g, Owns[Scope(t)])
    PROVE  TenantInv'
<1>1. /\ UNCHANGED <<messages, keystore, dedup, routes>> /\ Return(t, Answer("error"))
      /\ group' = [group EXCEPT ![Scope(t)] = g]
  BY DEF BecomesAndFails, registry
<1>2. TaskInv'
  BY <1>1, OwnGroup, SameMessages, ReturnStep DEF TenantInv
<1> QED BY <1>1, <1>2, GroupCall

\* claim: what is handed out is of the caller's own queue.
LEMMA ClaimStep ==
    ASSUME TenantInv, NEW t \in Tasks, Claim(t)
    PROVE  TenantInv'
<1> DEFINE g == group[Scope(t)]
           id == Head(g.ready)
<1>1. UNCHANGED <<keystore, dedup, routes>> /\ KeysInv' /\ RoutesInv'
  BY RestSame DEF Claim, registry, TenantInv
<1>2. task[t].pc \in InQueue
  BY DEF Claim, Running, At, InQueue
<1>3. /\ Scope(t) \in Scopes /\ Scope(t)[1] = Tenant(t) /\ Tenant(t) \in Callers
      /\ Holds(g, Owns[Scope(t)]) /\ task[t].todo # <<>> /\ task[t].pc # "idle"
  BY <1>2, OwnGroup
<1>4. CASE Return(t, Answer("unavailable")) /\ UNCHANGED <<group, messages>>
  BY <1>1, <1>3, <1>4, PlainReturn
<1>5. CASE /\ g.ready # <<>> /\ group' = [group EXCEPT ![Scope(t)] = Claimed(g)]
           /\ messages' = [messages EXCEPT ![Head(g.ready)].tries = @ + 1]
           /\ Done(t, [Answer("claimed") EXCEPT !.id = Head(g.ready)], NewLease(g))
  <2>1. Holds(Claimed(g), Owns[Scope(t)]) /\ id \in Owns[Scope(t)]
    BY <1>3, <1>5, ClaimedHolds
  <2> HIDE DEF g
  <2>2. id \in Ids
    BY <1>3, <2>1 DEF Owns
  <2>3. PICK n : messages' = [messages EXCEPT ![id].tries = n]
    BY <1>5
  <2> HIDE DEF id
  <2>4. MessagesInv' /\ Owns' = Owns /\ Grows
    BY <2>2, <2>3, TriesChange DEF TenantInv
  <2>5. GroupInv' /\ DedupInv'
    BY <1>1, <1>3, <1>5, <2>1, <2>4, GroupStep, DedupSame DEF TenantInv
  <2>6. PICK answer, lease : Done(t, answer, lease) /\ answer.id = id
    BY <1>5, AnswerFacts DEF id
  <2>7. answer.id \in Owns'[Scope(t)]
    BY <2>1, <2>4, <2>6
  <2>8. TaskInv'
    BY <1>3, <2>4, <2>6, <2>7, DoneStep DEF TenantInv
  <2> QED BY <1>1, <2>4, <2>5, <2>8 DEF TenantInv
<1> QED BY <1>4, <1>5 DEF Claim

\* nack and reclaim_expired_leases, up to the unlock.
LEMMA TakeOutStep ==
    ASSUME TenantInv, NEW t \in Tasks, Nack(t) \/ Reclaim(t)
    PROVE  TenantInv'
<1> DEFINE g == group[Scope(t)]
<1>1. UNCHANGED <<messages, keystore, dedup, routes>>
  BY DEF Nack, Reclaim, registry
<1>2. task[t].pc \in InQueue
  BY DEF Nack, Reclaim, Running, At, InQueue
<1>3. /\ Holds(g, Owns[Scope(t)]) /\ Scope(t) \in Scopes /\ task[t].pc # "idle"
      /\ task[t].queue \in Some(Queues)
  BY <1>2, OwnGroup
<1>4. \/ \E leases \in SUBSET g.leased : TakeOut(t, leases)
      \/ UNCHANGED group /\ Return(t, Answer("stale"))
  BY DEF Nack, Reclaim, HoldsLease
<1>5. ASSUME NEW leases \in SUBSET g.leased, TakeOut(t, leases) PROVE TenantInv'
  <2> DEFINE r == [task[t] EXCEPT !.pc = "resolve", !.batch = leases]
  <2>1. TaskInv /\ Grows /\ Owns' = Owns
    BY <1>1, SameMessages DEF TenantInv
  <2>2. group' = [group EXCEPT ![Scope(t)] = Dropped(g, leases)]
    BY <1>3, <1>5 DEF TakeOut, TenantInv, GroupInv
  <2>3. task' = [task EXCEPT ![t] = r]
    BY <1>5, <2>1 DEF TakeOut, TaskInv
  <2>4. /\ DOMAIN r = DOMAIN task[t] /\ r.tenant = task[t].tenant /\ r.todo = task[t].todo
        /\ r.answer = task[t].answer /\ r.pc = "resolve" /\ r.queue = task[t].queue /\ r.batch = leases
    BY <2>1 DEF TaskInv, Sound, Formed
  <2> HIDE DEF r
  <2>5. Scope(t) = <<r.tenant, The(r.queue)>>
    BY <2>4 DEF Scope, scope_key, Tenant, Queue
  <2>6. \A lease \in leases : lease.id \in Owns[Scope(t)]
    BY <1>3, <1>5 DEF Holds
  <2>7. Placed(r, Owns')
    BY <1>3, <2>1, <2>4, <2>5, <2>6 DEF Placed
  <2>8. TaskInv'
    BY <1>3, <2>1, <2>3, <2>4, <2>7, MoveStep
  <2> HIDE DEF g
  <2>9. Holds(Dropped(g, leases), Owns[Scope(t)])
    BY <1>3, DroppedHolds
  <2> QED BY <1>1, <1>2, <2>2, <2>8, <2>9, GroupCall DEF g
<1>6. CASE UNCHANGED group /\ Return(t, Answer("stale"))
  BY <1>1, <1>3, <1>6, PlainReturn
<1> QED BY <1>4, <1>5, <1>6

\* resolve_failed_delivery, for each of the messages that were taken out.
LEMMA ResolveLeaseStep ==
    ASSUME TenantInv, NEW t \in Tasks, Resolve(t)
    PROVE  TenantInv'
<1> DEFINE g == group[Scope(t)]
           batch == task[t].batch
<1>1. UNCHANGED <<messages, keystore, dedup, routes>>
  BY DEF Resolve, ResolveNacked, ResolveReclaimed, registry
<1>2. task[t].pc = "resolve" /\ task[t].pc \in InQueue
  BY DEF Resolve, ResolveNacked, ResolveReclaimed, Running, At, InQueue
<1>3. /\ Holds(g, Owns[Scope(t)]) /\ Scope(t) \in Scopes /\ task[t].pc # "idle"
      /\ task[t].queue \in Some(Queues) /\ task[t].todo # <<>>
  BY <1>2, OwnGroup
<1>4. TaskInv /\ Grows /\ Owns' = Owns
  BY <1>1, SameMessages DEF TenantInv
<1>5. \A lease \in batch : lease.id \in Owns[Scope(t)]
  BY <1>2, <1>4 DEF TaskInv, Sound, Placed, Scope, scope_key, Tenant, Queue
<1>6. ASSUME NEW lease \in batch, NEW h \in {Failed(g, lease)} \cup HalfFailed(g, lease),
             group' = [group EXCEPT ![Scope(t)] = h], TaskInv'
      PROVE  TenantInv'
  <2> HIDE DEF g, batch
  <2>1. Holds(h, Owns[Scope(t)])
    BY <1>3, <1>5, <1>6, FailedHolds
  <2> QED BY <1>1, <1>2, <1>6, <2>1, GroupCall
<1>7. CASE ResolveNacked(t)
  <2>1. \E lease \in batch : \E h \in {Failed(g, lease)} \cup HalfFailed(g, lease) :
          group' = [group EXCEPT ![Scope(t)] = h]
    BY <1>7 DEF ResolveNacked
  <2>2. PICK kind : Return(t, Answer(kind))
    BY <1>7 DEF ResolveNacked
  <2>3. TaskInv'
    BY <1>3, <1>4, <2>2, ReturnStep
  <2> QED BY <1>6, <2>1, <2>3
<1>8. CASE ResolveReclaimed(t)
  <2>1. \/ \E lease \in batch : \E h \in {Failed(g, lease)} \cup HalfFailed(g, lease) :
             /\ group' = [group EXCEPT ![Scope(t)] = h]
             /\ task' = [task EXCEPT ![t].pc = IF batch = {lease} THEN "group" ELSE "resolve",
                                     ![t].batch = @ \ {lease}]
        \/ Return(t, Answer("unavailable")) /\ UNCHANGED group
    BY <1>8 DEF ResolveReclaimed
  <2>2. ASSUME NEW lease \in batch, NEW h \in {Failed(g, lease)} \cup HalfFailed(g, lease),
               group' = [group EXCEPT ![Scope(t)] = h],
               task' = [task EXCEPT ![t].pc = IF batch = {lease} THEN "group" ELSE "resolve",
                                    ![t].batch = @ \ {lease}]
        PROVE  TenantInv'
    <3> DEFINE pc == IF batch = {lease} THEN "group" ELSE "resolve"
               r == [task[t] EXCEPT !.pc = pc, !.batch = @ \ {lease}]
    <3>1. task' = [task EXCEPT ![t] = r]
      BY <1>4, <2>2 DEF TaskInv
    <3>2. /\ DOMAIN r = DOMAIN task[t] /\ r.tenant = task[t].tenant /\ r.todo = task[t].todo
          /\ r.answer = task[t].answer /\ r.pc \in {"group", "resolve"} /\ r.queue = task[t].queue
          /\ r.batch \subseteq batch
      BY <1>4 DEF TaskInv, Sound, Formed
    <3> HIDE DEF r, pc
    <3>3. Scope(t) = <<r.tenant, The(r.queue)>>
      BY <3>2 DEF Scope, scope_key, Tenant, Queue
    <3>4. Placed(r, Owns')
      BY <1>3, <1>4, <1>5, <3>2, <3>3 DEF Placed
    <3>5. TaskInv'
      BY <1>3, <1>4, <3>1, <3>2, <3>4, MoveStep
    <3> QED BY <1>6, <2>2, <3>5
  <2>3. CASE Return(t, Answer("unavailable")) /\ UNCHANGED group
    BY <1>1, <1>3, <2>3, PlainReturn
  <2> HIDE DEF g, batch
  <2> QED BY <2>1, <2>2, <2>3
<1> QED BY <1>7, <1>8 DEF Resolve

\* What these calls do to the client: it is answered, or has leases in its hands.
Handles(r, s) ==
    /\ s.todo = r.todo /\ s.tenant = r.tenant /\ s.queue = r.queue /\ s.answer = r.answer
    /\ s.left = r.left /\ s.held = r.held
    /\ s.pc = "resolve" \/ (s.pc = "group" /\ r.pc = "resolve")

LEMMA LeaseMoves ==
    ASSUME TaskInv, NEW t \in Tasks, Nack(t) \/ Reclaim(t) \/ Resolve(t)
    PROVE  /\ task[t].pc \in {"group", "resolve"}
           /\ \/ \E kind \in {"stale", "nacked", "error", "unavailable"} : Return(t, Answer(kind))
              \/ \E r : task' = [task EXCEPT ![t] = r] /\ Handles(task[t], r)
<1>1. DOMAIN task[t] = {"todo", "pc", "tenant", "queue", "left", "total", "limit", "id", "batch", "held", "answer"}
  BY DEF TaskInv, Sound, Formed
<1>2. ASSUME NEW pc, NEW batch, task' = [task EXCEPT ![t].pc = pc, ![t].batch = batch],
             pc = "resolve" \/ (pc = "group" /\ task[t].pc = "resolve")
      PROVE  \E r : task' = [task EXCEPT ![t] = r] /\ Handles(task[t], r)
  <2> DEFINE r == [task[t] EXCEPT !.pc = pc, !.batch = batch]
  <2>1. task' = [task EXCEPT ![t] = r]
    BY <1>2 DEF TaskInv
  <2>2. Handles(task[t], r)
    BY <1>1, <1>2 DEF Handles
  <2> QED BY <2>1, <2>2
<1>3. CASE Nack(t) \/ Reclaim(t)
  <2>1. task[t].pc = "group"
    BY <1>3 DEF Nack, Reclaim, Running, At
  <2>2. Return(t, Answer("stale")) \/ \E leases : task' = [task EXCEPT ![t].pc = "resolve", ![t].batch = leases]
    BY <1>3 DEF Nack, Reclaim, TakeOut
  <2> QED BY <1>2, <2>1, <2>2
<1>4. CASE ResolveNacked(t)
  BY <1>4 DEF ResolveNacked, Running, At
<1>5. CASE ResolveReclaimed(t)
  <2> DEFINE batch == task[t].batch
  <2>1. task[t].pc = "resolve"
    BY <1>5 DEF ResolveReclaimed, Running, At
  <2>2. \/ Return(t, Answer("unavailable"))
        \/ \E lease \in batch :
             task' = [task EXCEPT ![t].pc = IF batch = {lease} THEN "group" ELSE "resolve",
                                  ![t].batch = @ \ {lease}]
    BY <1>5 DEF ResolveReclaimed
  <2>3. ASSUME NEW lease \in batch,
               task' = [task EXCEPT ![t].pc = IF batch = {lease} THEN "group" ELSE "resolve",
                                    ![t].batch = @ \ {lease}]
        PROVE  \E r : task' = [task EXCEPT ![t] = r] /\ Handles(task[t], r)
    <3> DEFINE pc == IF batch = {lease} THEN "group" ELSE "resolve"
               left == batch \ {lease}
    <3>1. task' = [task EXCEPT ![t].pc = pc, ![t].batch = left] /\ pc \in {"group", "resolve"}
      BY <2>3 DEF TaskInv
    <3> HIDE DEF pc, left
    <3> QED BY <1>2, <2>1, <3>1
  <2> QED BY <2>1, <2>2, <2>3
<1> QED BY <1>3, <1>4, <1>5 DEF Resolve

LEMMA ConsumeSteps ==
    ASSUME TenantInv, NEW t \in Tasks, Consume(t)
    PROVE  TenantInv'
<1> DEFINE g == group[Scope(t)]
           lease == task[t].held
<1>1. CASE Headroom(t)
  <2>1. UNCHANGED <<messages, keystore, group, dedup, routes>>
    BY <1>1 DEF Headroom
  <2>2. task[t].pc \in InQueue
    BY <1>1 DEF Headroom, At, InQueue
  <2>3. Goto(t, "group") \/ Return(t, Answer("no_headroom"))
    BY <1>1 DEF Headroom
  <2>4. CASE Goto(t, "group")
    <3>1. TaskInv'
      BY <2>1, <2>2, <2>4, OwnGroup, SameMessages, GotoInQueue DEF InQueue, TenantInv
    <3> QED BY <2>1, <3>1, CallStep
  <2> QED BY <2>1, <2>2, <2>3, <2>4, OwnGroup, PlainReturn
<1>2. CASE Claim(t)
  BY <1>2, ClaimStep
<1>3. CASE Ack(t)
  <2>1. UNCHANGED <<messages, keystore, dedup, routes>>
    BY <1>3 DEF Ack, registry
  <2>2. task[t].pc \in InQueue
    BY <1>3 DEF Ack, Running, At, InQueue
  <2>3. \/ group' = [group EXCEPT ![Scope(t)] = Finished(@, lease)] /\ Goto(t, "unindex")
        \/ Return(t, Answer("stale")) /\ UNCHANGED group
    BY <1>3 DEF Ack
  <2>4. CASE group' = [group EXCEPT ![Scope(t)] = Finished(@, lease)] /\ Goto(t, "unindex")
    <3>1. Holds(Finished(g, lease), Owns[Scope(t)]) /\ group' = [group EXCEPT ![Scope(t)] = Finished(g, lease)]
      BY <2>2, <2>4, OwnGroup, ReleasedHolds
    <3>2. TaskInv'
      BY <2>1, <2>2, <2>4, OwnGroup, SameMessages, GotoInQueue DEF InQueue, TenantInv
    <3> QED BY <2>1, <2>2, <3>1, <3>2, GroupCall
  <2> QED BY <2>1, <2>2, <2>3, <2>4, OwnGroup, PlainReturn
<1>4. CASE AckUnindex(t)
  <2> DEFINE x == Index!remove(dedup[Scope(t)], task[t].held.id)
  <2>1. UNCHANGED <<messages, keystore, group, routes>>
    BY <1>4 DEF AckUnindex
  <2>2. task[t].pc \in InQueue
    BY <1>4 DEF AckUnindex, At, InQueue
  <2>3. /\ MessagesInv' /\ TaskInv /\ Grows /\ Owns' = Owns /\ DedupInv /\ GroupInv' /\ KeysInv' /\ RoutesInv'
    BY <2>1, SameMessages, GroupSame, RestSame DEF TenantInv
  <2>4. Scope(t) \in Scopes /\ Scope(t)[1] = Tenant(t) /\ task[t].todo # <<>>
    BY <2>2, OwnGroup
  <2>5. Indexes(x, Owns[Scope(t)]) /\ dedup' = [dedup EXCEPT ![Scope(t)] = x]
    BY <1>4, <2>3, <2>4, RemoveIndexes DEF DedupInv, AckUnindex
  <2> HIDE DEF x
  <2>6. DedupInv'
    BY <2>3, <2>4, <2>5, DedupStep
  <2>7. TaskInv'
    BY <1>4, <2>3, <2>4, ReturnStep DEF AckUnindex
  <2> QED BY <2>3, <2>6, <2>7 DEF TenantInv
<1>5. CASE Nack(t) \/ Reclaim(t)
  BY <1>5, TakeOutStep
<1>6. CASE Resolve(t)
  BY <1>6, ResolveLeaseStep
<1>7. CASE LookAtGroup(t)
  <2>1. UNCHANGED <<messages, keystore, group, dedup, routes>>
    BY <1>7 DEF LookAtGroup, registry
  <2>2. task[t].pc # "idle"
    BY <1>7 DEF LookAtGroup, At
  <2>3. PICK kind : Return(t, Answer(kind))
    BY <1>7 DEF LookAtGroup
  <2> QED BY <2>1, <2>2, <2>3, PlainReturn
<1>8. CASE LeaseCallFails(t)
  <2>1. task[t].pc \in InQueue /\ lease \in g.leased
    BY <1>8 DEF LeaseCallFails, At, InQueue, HoldsLease
  <2>2. Holds(g, Owns[Scope(t)])
    BY <2>1, OwnGroup
  <2>3. Holds(Released(g, lease), Owns[Scope(t)])
    BY <2>1, <2>2, ReleasedHolds
  <2>4. BecomesAndFails(t, Released(g, lease)) \/ BecomesAndFails(t, g)
    BY <1>8 DEF LeaseCallFails
  <2> HIDE DEF g, lease
  <2> QED BY <2>1, <2>2, <2>3, <2>4, BecomesStep
<1> QED BY <1>1, <1>2, <1>3, <1>4, <1>5, <1>7, <1>8, <1>6 DEF Consume

LEMMA DeadLetterSteps ==
    ASSUME TenantInv, NEW t \in Tasks, DeadLetters(t)
    PROVE  TenantInv'
<1> DEFINE g == group[Scope(t)]
           id == Call(t).message
<1>1. task[t].pc \in InQueue
  BY DEF DeadLetters, Triage, Reprocess, Purge, DeadLetterCallFails, Running, At, InQueue
<1>2. /\ Scope(t) \in Scopes /\ Scope(t)[1] = Tenant(t) /\ Tenant(t) \in Callers
      /\ Holds(g, Owns[Scope(t)]) /\ Scope(t) \in DOMAIN group
      /\ task[t].queue \in Some(Queues) /\ task[t].todo # <<>> /\ task[t].pc # "idle"
  BY <1>1, OwnGroup
<1>3. IsDead(t) => /\ id \in g.dead /\ id \in Owns[Scope(t)]
                   /\ Holds(Taken(g, id), Owns[Scope(t)]) /\ Holds(Revived(g, id), Owns[Scope(t)])
                   /\ Holds(Purged(g, id), Owns[Scope(t)])
  <2> SUFFICES ASSUME id \in g.dead
               PROVE  /\ id \in Owns[Scope(t)]
                      /\ Holds(Taken(g, id), Owns[Scope(t)]) /\ Holds(Revived(g, id), Owns[Scope(t)])
                      /\ Holds(Purged(g, id), Owns[Scope(t)])
    BY DEF IsDead
  <2>1. id \in Owns[Scope(t)]
    BY <1>2 DEF Holds
  <2> QED BY <1>2, <2>1, TakenHolds
<1>4. CASE Triage(t)
  <2>1. UNCHANGED <<messages, keystore, group, dedup, routes>>
    BY <1>4 DEF Triage, registry
  <2>2. Goto(t, "reprocess") \/ \E kind : Return(t, Answer(kind))
    BY <1>4 DEF Triage
  <2>3. CASE Goto(t, "reprocess")
    <3>1. TaskInv'
      BY <1>2, <2>1, <2>3, SameMessages, GotoInQueue DEF InQueue, TenantInv
    <3> QED BY <2>1, <3>1, CallStep
  <2> QED BY <1>2, <2>1, <2>2, <2>3, PlainReturn
<1>5. CASE Reprocess(t)
  <2>1. UNCHANGED <<keystore, dedup, routes>> /\ KeysInv' /\ RoutesInv'
    BY <1>5, RestSame DEF Reprocess, registry, TenantInv
  <2>2. CASE IsDead(t)
    <3>1. /\ group' = [group EXCEPT ![Scope(t)] = Revived(g, id)]
          /\ messages' = [messages EXCEPT ![id].tries = 0]
          /\ Return(t, Answer("reprocessed"))
      BY <1>2, <1>5, <2>2 DEF Reprocess
    <3>2. id \in Ids
      BY <1>2, <1>3, <2>2 DEF Owns
    <3> HIDE DEF g, id
    <3>3. MessagesInv' /\ Owns' = Owns /\ Grows
      BY <3>1, <3>2, TriesChange DEF TenantInv
    <3>4. GroupInv' /\ DedupInv'
      BY <1>2, <1>3, <2>1, <2>2, <3>1, <3>3, GroupStep, DedupSame DEF TenantInv
    <3>5. TaskInv'
      BY <1>2, <3>1, <3>3, ReturnStep DEF TenantInv
    <3> QED BY <2>1, <3>3, <3>4, <3>5 DEF TenantInv
  <2>3. CASE ~IsDead(t)
    <3>1. UNCHANGED <<group, messages>> /\ \E kind : Return(t, Answer(kind))
      BY <1>5, <2>3 DEF Reprocess
    <3> QED BY <1>2, <2>1, <3>1, PlainReturn
  <2> QED BY <2>2, <2>3
<1>6. CASE Purge(t)
  <2>1. UNCHANGED <<messages, keystore, dedup, routes>>
    BY <1>6 DEF Purge, registry
  <2>2. PICK kind : Return(t, Answer(kind))
    BY <1>6 DEF Purge
  <2>3. CASE IsDead(t)
    <3>1. group' = [group EXCEPT ![Scope(t)] = Purged(g, id)]
      BY <1>2, <1>6, <2>3 DEF Purge
    <3>2. TaskInv'
      BY <1>2, <2>1, <2>2, SameMessages, ReturnStep DEF TenantInv
    <3> QED BY <1>1, <1>3, <2>1, <2>3, <3>1, <3>2, GroupCall
  <2>4. CASE ~IsDead(t)
    <3>1. UNCHANGED group
      BY <1>6, <2>4 DEF Purge
    <3> QED BY <1>2, <2>1, <2>2, <3>1, PlainReturn
  <2> QED BY <2>3, <2>4
<1>7. CASE DeadLetterCallFails(t)
  <2>1. \/ BecomesAndFails(t, g) \/ BecomesAndFails(t, Taken(g, id))
        \/ BecomesAndFails(t, Purged(g, id))
    BY <1>7 DEF DeadLetterCallFails
  <2>2. IsDead(t)
    BY <1>7 DEF DeadLetterCallFails
  <2> HIDE DEF g, id
  <2> QED BY <1>1, <1>2, <1>3, <2>1, <2>2, BecomesStep
<1> QED BY <1>4, <1>5, <1>6, <1>7 DEF DeadLetters


LEMMA ConfigureSteps ==
    ASSUME TenantInv, NEW t \in Tasks, Configure(t)
    PROVE  TenantInv'
<1>1. CASE ConfigureAdmission(t) \/ ConfigureTenantQuota(t)
  <2>1. UNCHANGED <<messages, keystore, group, dedup, routes>> /\ Return(t, Answer("ok"))
    BY <1>1 DEF ConfigureAdmission, ConfigureTenantQuota
  <2>2. task[t].pc # "idle"
    BY <1>1 DEF ConfigureAdmission, ConfigureTenantQuota, Running, At
  <2> QED BY <2>1, <2>2, PlainReturn
<1>2. CASE ConfigureRoute(t)
  <2>1. UNCHANGED <<messages, keystore, group, dedup>>
    BY <1>2 DEF ConfigureRoute
  <2>2. task[t].pc = "tool" /\ task[t].pc # "idle" /\ Call(t).tool = "configure_route" /\ Queue(t) # BadName
    BY <1>2 DEF ConfigureRoute, Running, At
  <2>3. /\ MessagesInv' /\ TaskInv /\ Grows /\ RoutesInv /\ KeysInv' /\ GroupInv' /\ DedupInv'
    BY <2>1, SameMessages, GroupSame, DedupSame DEF TenantInv, KeysInv
  <2>4. task[t].queue \in Some(Names)
    BY <2>2, <2>3, CallHere, CallFacts, NamingTools DEF TaskInv, Sound, Placed, Call
  <2>5. task[t].queue \in Some(Queues)
    BY <2>2, <2>4, QueueChosen DEF Queue
  <2>6. Queue(t) \in Queues /\ Tenant(t) \in Callers
    BY <2>3, <2>5, ScopeIn
  <2>7. CASE UNCHANGED routes
    BY <1>2, <2>1, <2>2, <2>7, PlainReturn DEF ConfigureRoute
  <2>8. CASE ~UNCHANGED routes
    <3> DEFINE x == Index!insert(routes[Tenant(t)], Queue(t), The(Call(t).embedding))
    <3>1. routes' = [routes EXCEPT ![Tenant(t)] = x] /\ Return(t, Answer("ok"))
      BY <1>2, <2>3, <2>6, <2>8 DEF ConfigureRoute, tenant_key, RoutesInv
    <3>2. Indexes(x, Queues)
      BY <2>3, <2>6, InsertIndexes DEF RoutesInv
    <3> HIDE DEF x
    <3>3. RoutesInv'
      BY <2>3, <2>6, <3>1, <3>2 DEF RoutesInv
    <3>4. TaskInv'
      BY <2>2, <2>3, <3>1, CallHere, ReturnStep
    <3> QED BY <2>3, <3>3, <3>4 DEF TenantInv
  <2> QED BY <2>7, <2>8
<1> QED BY <1>1, <1>2 DEF Configure

LEMMA StatusSteps ==
    ASSUME TenantInv, NEW t \in Tasks, Status(t)
    PROVE  TenantInv'
<1>1. UNCHANGED <<messages, keystore, group, dedup, routes>>
  BY DEF Status, AdmissionStatus, TenantQuotaStatus, TenantQuotaReport, DashboardQueues,
         DashboardTenants,
         registry
<1>2. task[t].pc # "idle"
  BY DEF Status, AdmissionStatus, TenantQuotaStatus, TenantQuotaReport, DashboardQueues,
         DashboardTenants,
         Running, At
<1>3. TaskInv /\ Grows /\ Owns' = Owns
  BY <1>1, SameMessages DEF TenantInv
<1>4. CASE AdmissionStatus(t) \/ TenantQuotaReport(t) \/ DashboardTenants(t)
  BY <1>1, <1>2, <1>4, PlainReturn DEF AdmissionStatus, TenantQuotaReport, DashboardTenants
<1>5. CASE TenantQuotaStatus(t)
  <2>1. PICK left : task' = [task EXCEPT ![t].pc = "sum", ![t].left = left, ![t].total = 0]
    BY <1>5 DEF TenantQuotaStatus
  <2> DEFINE r == [task[t] EXCEPT !.pc = "sum", !.left = left, !.total = 0]
  <2>2. task' = [task EXCEPT ![t] = r]
    BY <1>3, <2>1 DEF TaskInv
  <2>3. /\ DOMAIN r = DOMAIN task[t] /\ r.tenant = task[t].tenant /\ r.todo = task[t].todo
        /\ r.answer = task[t].answer /\ r.pc = "sum"
    BY <1>3 DEF TaskInv, Sound, Formed
  <2> HIDE DEF r
  <2>4. Head(r.todo).tool # "enqueue"
    BY <1>5, <2>3 DEF TenantQuotaStatus, Running, Call
  <2>5. Placed(r, Owns')
    BY <2>3, <2>4 DEF Placed, InQueue
  <2> QED BY <1>1, <1>2, <1>3, <2>2, <2>3, <2>5, MoveStep, CallStep
<1>6. CASE DashboardQueues(t)
  <2> DEFINE r == [task[t] EXCEPT !.pc = "tenants"]
  <2>1. r.pc = "tenants"
    BY <1>3 DEF TaskInv, Sound, Formed
  <2>2. Placed(r, Owns')
    BY <2>1 DEF Placed, InQueue
  <2>3. TaskInv'
    BY <1>2, <1>3, <1>6, <2>2, GotoStep DEF DashboardQueues
  <2> QED BY <1>1, <2>3, CallStep
<1> QED BY <1>4, <1>5, <1>6 DEF Status

\* A key is minted for the tenant the trusted connection names.
LEMMA KeysLoggedStep ==
    ASSUME TenantInv, NEW t \in Tasks, NEW record, NEW next, KeysLogged(t, record, next),
           record.kind = "Mint" => record.tenant \in Tenants /\ record.key \in Keys, task[t].pc # "idle",
           UNCHANGED <<registry, group, messages>>, Placed([task[t] EXCEPT !.pc = next], Owns)
    PROVE  TenantInv'
<1>1. UNCHANGED <<messages, group, dedup, routes>>
  BY DEF registry
<1>2. /\ MessagesInv' /\ TaskInv /\ KeysInv /\ Grows /\ Owns' = Owns /\ GroupInv' /\ DedupInv' /\ RoutesInv'
  BY <1>1, SameMessages, GroupSame, DedupSame DEF TenantInv, RoutesInv
<1>3. PICK r \in ApiKeys!Logged(keystore, record) :
        keystore' = r.store /\ (Goto(t, next) \/ Return(t, Answer("error")))
  BY DEF KeysLogged
<1>4. KeysInv'
  BY <1>2, <1>3, LoggedForTenants DEF KeysInv
<1>5. CASE Goto(t, next)
  <2>1. TaskInv'
    BY <1>2, <1>5, GotoStep
  <2> QED BY <1>2, <1>4, <2>1 DEF TenantInv
<1>6. CASE Return(t, Answer("error"))
  <2>1. TaskInv'
    BY <1>2, <1>6, CallHere, ReturnStep
  <2> QED BY <1>2, <1>4, <2>1 DEF TenantInv
<1> QED BY <1>3, <1>5, <1>6

LEMMA KeySteps ==
    ASSUME TenantInv, NEW t \in Tasks, KeyCalls(t)
    PROVE  TenantInv'
<1>1. task[t].pc # "idle"
  BY DEF KeyCalls, MintLog, MintInsert, RevokeLook, RevokeLog, RevokeRemove, Running, At
<1>2. TaskInv /\ Formed(task[t]) /\ Placed(task[t], Owns) /\ IsCall(Call(t)) /\ task[t].todo # <<>>
  BY <1>1, CallHere DEF TenantInv, TaskInv, Sound
<1>3. CASE MintLog(t)
  <2> DEFINE r == [task[t] EXCEPT !.pc = "mint"]
  <2>1. PICK tenant \in Call(t).tenant : KeysLogged(t, ApiKeys!Mint(Call(t).api_key, tenant), "mint")
    BY <1>3 DEF MintLog
  <2>2. /\ Call(t).tool = "create_api_key" /\ Call(t).tenant \in Option(Tenants)
        /\ Call(t).api_key \in Keys
    BY <1>2, <1>3, CallFacts DEF MintLog, Running
  <2>3. /\ ApiKeys!Mint(Call(t).api_key, tenant).tenant \in Tenants
        /\ ApiKeys!Mint(Call(t).api_key, tenant).key \in Keys
    BY <2>1, <2>2 DEF Option, Some, ApiKeys!Mint
  <2>4. r.pc = "mint" /\ r.todo = task[t].todo
    BY <1>2 DEF Formed
  <2>5. Placed(r, Owns)
    BY <2>1, <2>2, <2>4 DEF Placed, InQueue, Call
  <2> QED BY <1>1, <1>3, <2>1, <2>3, <2>5, KeysLoggedStep DEF MintLog
<1>4. CASE MintInsert(t)
  <2>1. Call(t).tool = "create_api_key" /\ Call(t).tenant # {}
    BY <1>2, <1>4 DEF MintInsert, At, Placed, Call
  <2>2. The(Call(t).tenant) \in Tenants /\ Call(t).api_key \in Keys
    BY <1>2, <2>1, CallFacts, TheChosen DEF Option, Some
  <2>3. /\ UNCHANGED <<messages, group, dedup, routes>> /\ Return(t, Answer("ok"))
        /\ keystore' = ApiKeys!Minted(keystore, Call(t).api_key, The(Call(t).tenant))
    BY <1>4 DEF MintInsert, registry
  <2>4. KeysInv'
    BY <2>2, <2>3, MintedForTenants DEF TenantInv, KeysInv
  <2>5. /\ MessagesInv' /\ Grows /\ GroupInv' /\ DedupInv' /\ RoutesInv'
    BY <2>3, SameMessages, GroupSame, DedupSame DEF TenantInv, RoutesInv
  <2>6. TaskInv'
    BY <1>2, <2>3, <2>5, ReturnStep
  <2> QED BY <2>4, <2>5, <2>6 DEF TenantInv
<1>5. CASE RevokeLook(t)
  <2> DEFINE r == [task[t] EXCEPT !.pc = "revoke_log"]
  <2>1. UNCHANGED <<messages, keystore, group, dedup, routes>>
    BY <1>5 DEF RevokeLook, registry
  <2>2. Goto(t, "revoke_log") \/ Return(t, Answer("not_found"))
    BY <1>5 DEF RevokeLook
  <2>3. r.pc = "revoke_log"
    BY <1>2 DEF Formed
  <2>4. Placed(r, Owns')
    BY <2>3 DEF Placed, InQueue
  <2>5. CASE Goto(t, "revoke_log")
    <3>1. TaskInv'
      BY <1>1, <1>2, <2>1, <2>4, <2>5, SameMessages, GotoStep DEF TenantInv
    <3> QED BY <2>1, <3>1, CallStep
  <2> QED BY <1>1, <2>1, <2>2, <2>5, PlainReturn
<1>6. CASE RevokeLog(t)
  <2> DEFINE r == [task[t] EXCEPT !.pc = "revoke"]
  <2>1. r.pc = "revoke"
    BY <1>2 DEF Formed
  <2>2. Placed(r, Owns)
    BY <2>1 DEF Placed, InQueue
  <2>3. ApiKeys!Revoke(Call(t).api_key).kind # "Mint"
    BY DEF ApiKeys!Revoke
  <2> QED BY <1>1, <1>6, <2>2, <2>3, KeysLoggedStep DEF RevokeLog
<1>7. CASE RevokeRemove(t)
  <2>1. /\ UNCHANGED <<messages, group, dedup, routes>> /\ \E kind : Return(t, Answer(kind))
        /\ keystore' = ApiKeys!Revoked(keystore, Call(t).api_key)
    BY <1>7 DEF RevokeRemove, registry
  <2>2. KeysInv'
    BY <2>1, RevokedForTenants DEF TenantInv, KeysInv
  <2>3. /\ MessagesInv' /\ Grows /\ GroupInv' /\ DedupInv' /\ RoutesInv'
    BY <2>1, SameMessages, GroupSame, DedupSame DEF TenantInv, RoutesInv
  <2>4. TaskInv'
    BY <1>2, <2>1, <2>3, ReturnStep
  <2> QED BY <2>2, <2>3, <2>4 DEF TenantInv
<1> QED BY <1>3, <1>4, <1>5, <1>6, <1>7 DEF KeyCalls

LEMMA TaskSame == ASSUME TaskInv, Grows, UNCHANGED task PROVE TaskInv'
<1>1. ASSUME NEW t \in Tasks PROVE Sound(task'[t], Owns')
  BY SoundMore DEF TaskInv, Grows
<1> QED BY <1>1 DEF TaskInv

LEMMA TickStep ==
    ASSUME TenantInv, Tick
    PROVE  TenantInv'
<1>1. /\ UNCHANGED <<messages, keystore, routes, group, task>>
      /\ dedup' = [s \in Scopes |-> Index!Age(dedup[s], MaxAge)]
  BY DEF Tick
<1>2. /\ MessagesInv' /\ Grows /\ Owns' = Owns /\ GroupInv' /\ KeysInv' /\ RoutesInv' /\ TaskInv'
  BY <1>1, SameMessages, GroupSame, RestSame, TaskSame DEF TenantInv
<1>3. ASSUME NEW s \in Scopes PROVE Indexes(dedup'[s], Owns'[s])
  BY <1>1, <1>2, AgeIndexes DEF TenantInv, DedupInv
<1>4. DedupInv'
  BY <1>1, <1>3 DEF DedupInv
<1> QED BY <1>2, <1>4 DEF TenantInv

\* A client that is started, with its calls to make.
LEMMA NewTaskSound ==
    ASSUME NEW todo, AllCalls(todo), NEW held, NEW owns
    PROVE  Sound(NewTask(todo), owns) /\ Sound([NewTask(todo) EXCEPT !.held = held], owns)
<1> DEFINE n == NewTask(todo)
           r == [n EXCEPT !.held = held]
<1>1. /\ DOMAIN n = {"todo", "pc", "tenant", "queue", "left", "total", "limit", "id", "batch", "held", "answer"}
      /\ n.todo = todo /\ n.pc = "idle" /\ n.tenant = Stdio /\ n.answer = NoAnswer
  BY DEF NewTask
<1> HIDE DEF n
<1>2. /\ DOMAIN r = {"todo", "pc", "tenant", "queue", "left", "total", "limit", "id", "batch", "held", "answer"}
      /\ r.todo = todo /\ r.pc = "idle" /\ r.tenant = Stdio /\ r.answer = NoAnswer
  BY <1>1
<1> HIDE DEF r
<1>3. Sound(n, owns)
  BY <1>1 DEF Sound, Formed, Placed, Answered, InQueue, Callers, NoAnswer
<1>4. Sound(r, owns)
  BY <1>2 DEF Sound, Formed, Placed, Answered, InQueue, Callers, NoAnswer
<1> QED BY <1>3, <1>4 DEF n, r

LEMMA RestartStep ==
    ASSUME TenantInv, Restart
    PROVE  TenantInv'
<1>1. MessagesInv' /\ Owns' = Owns /\ Grows
  BY MessagesForgetTries DEF Restart, TenantInv
<1>2. KeysInv'
  <2>1. keystore' = ApiKeys!open(keystore.file)
    BY DEF Restart, Fresh
  <2>2. MintsForTenants(keystore.file)
    BY DEF TenantInv, KeysInv, KeysOfTenants
  <2> QED BY <2>1, <2>2, OpenForTenants DEF KeysInv
<1>3. GroupInv'
  <2>1. group' = [s \in Scopes |-> Reopened(group[s])]
    BY DEF Restart
  <2>2. ASSUME NEW s \in Scopes PROVE Holds(group'[s], Owns'[s])
    BY <1>1, <2>1, ReopenedHolds DEF TenantInv, GroupInv
  <2> QED BY <2>1, <2>2 DEF GroupInv
<1>4. DedupInv'
  BY NewIndexes DEF Restart, DedupInv
<1>5. RoutesInv'
  BY NewIndexes DEF Restart, RoutesInv
<1>6. TaskInv'
  <2>1. task' = [t \in Tasks |-> IF At(t, "idle") THEN task[t]
                                 ELSE [NewTask(Tail(task[t].todo)) EXCEPT !.held = task[t].held]]
    BY DEF Restart
  <2>2. ASSUME NEW t \in Tasks PROVE Sound(task'[t], Owns')
    <3>1. CASE At(t, "idle")
      BY <1>1, <2>1, <3>1 DEF TenantInv, TaskInv
    <3>2. CASE ~At(t, "idle")
      <4>1. AllCalls(Tail(task[t].todo))
        BY <3>2, CallHere, CallsLeft DEF TenantInv, At
      <4>2. task'[t] = [NewTask(Tail(task[t].todo)) EXCEPT !.held = task[t].held]
        BY <2>1, <3>2
      <4> QED BY <4>1, <4>2, NewTaskSound
    <3> QED BY <3>1, <3>2
  <2> QED BY <2>1, <2>2 DEF TaskInv
<1> QED BY <1>1, <1>2, <1>3, <1>4, <1>5, <1>6 DEF TenantInv

LEMMA TenantInit == Init => TenantInv
<1> SUFFICES ASSUME Init PROVE TenantInv
  OBVIOUS
<1>1. MessagesInv
  BY DEF Init, MessagesInv, Ids
<1>2. KeysInv
  <2>1. keystore = ApiKeys!open(workload.keys) /\ workload \in Workloads
    BY DEF Init, Fresh
  <2>2. \A f \in ApiKeys!WalRecord(Keys, Tenants) : f.kind = "Mint" => f.tenant \in Tenants /\ f.key \in Keys
    BY DEF ApiKeys!WalRecord, ApiKeys!Mint, ApiKeys!Revoke
  <2>3. MintsForTenants(workload.keys)
    BY <2>1, <2>2, TenantsAssumption DEF MintsForTenants
  <2> QED BY <2>1, <2>3, OpenForTenants DEF KeysInv
<1>3. GroupInv
  BY NewGroupHolds DEF Init, GroupInv
<1>4. DedupInv /\ RoutesInv
  BY NewIndexes DEF Init, DedupInv, RoutesInv
<1>5. TaskInv
  <2>1. task = [t \in Tasks |-> NewTask(workload.calls[t])] /\ workload \in Workloads
    BY DEF Init
  <2>2. ASSUME NEW t \in Tasks PROVE AllCalls(workload.calls[t])
    BY <2>1, CallsAssumption DEF AllCalls
  <2>3. ASSUME NEW t \in Tasks PROVE Sound(task[t], Owns)
    BY <2>1, <2>2, NewTaskSound
  <2> QED BY <2>1, <2>3 DEF TaskInv
<1> QED BY <1>1, <1>2, <1>3, <1>4, <1>5 DEF TenantInv

LEMMA TenantNext == TenantInv /\ [Next]_vars => TenantInv'
<1> SUFFICES ASSUME TenantInv, [Next]_vars PROVE TenantInv'
  OBVIOUS
<1>1. ASSUME NEW t \in Tasks, Enqueue(t) PROVE TenantInv'
  BY <1>1, ResolveStep, DedupActionStep, PendingSteps, PutStep, IndexAndReturnStep DEF Enqueue
<1>2. ASSUME NEW w \in Workers, AuditReceive(w) \/ AuditWrite(w) PROVE TenantInv'
  <2>1. UNCHANGED <<messages, keystore, group, dedup, routes, task>>
    BY <1>2 DEF AuditReceive, AuditWrite, registry
  <2> QED BY <2>1, SameMessages, TaskSame, CallStep DEF TenantInv
<1>3. ASSUME UNCHANGED vars PROVE TenantInv'
  <2>1. UNCHANGED <<messages, keystore, group, dedup, routes, task>>
    BY <1>3 DEF vars, registry
  <2> QED BY <2>1, SameMessages, TaskSame, CallStep DEF TenantInv
<1>4. CASE Next
  BY <1>1, <1>2, <1>4, FrontSteps, RefuseSteps, GetStep, SumOneStep, ConsumeSteps, DeadLetterSteps,
     ConfigureSteps, StatusSteps, KeySteps, TickStep, RestartStep DEF Next
<1> QED BY <1>3, <1>4

\* enqueue_impl, claim_impl and authenticate, with any number of tenants that use the same
\* queue names, of keys that are minted and revoked and of restarts: a call is answered
\* with a message of its caller's own tenant only.
THEOREM TenantsIsolated == Spec => []TenantIsolation
<1>1. TenantInv => TenantIsolation
  <2> SUFFICES ASSUME TenantInv, NEW t \in Tasks, task[t].answer.id # 0
               PROVE  messages[task[t].answer.id].tenant = task[t].tenant
    BY DEF TenantIsolation
  <2>1. PICK s \in Scopes : s[1] = task[t].tenant /\ task[t].answer.id \in Owns[s]
    BY DEF TenantInv, TaskInv, Sound, Answered
  <2> QED BY <2>1 DEF Owns
<1> QED BY <1>1, TenantInit, TenantNext, PTL DEF Spec


-----------------------------------------------------------------------------
(* Collapses.  An index entry that has not run out is the trace of an       *)
(* embedding that went in as long ago as the entry's age says.              *)

Traced(x, indexed) ==
    /\ x.ttl = {DEDUP_TTL}
    /\ \A e \in x.entries :
         /\ e.age \in Nat
         /\ e.age < DEDUP_TTL => \E g \in indexed : g.id = e.key /\ g.age = e.age

Remembers(gh) ==
    /\ DOMAIN gh = {"allowed", "spent", "indexed", "exempt", "revoked", "damaged"}
    /\ \A g \in gh.indexed : DOMAIN g = {"id", "age"} /\ g.age \in Nat

AgedInv == Remembers(ghost) /\ \A s \in Scopes : Traced(dedup[s], ghost.indexed)

\* Nothing that was indexed is forgotten.
Kept(gh, new) == DOMAIN new = DOMAIN gh /\ new.indexed = gh.indexed

Client(t) ==
    \/ StdioCall(t) \/ RequireTenant(t) \/ Authorize(t) \/ Refuse(t) \/ Get(t) \/ SumOne(t)
    \/ Enqueue(t) \/ Consume(t) \/ DeadLetters(t) \/ Configure(t) \/ Status(t) \/ KeyCalls(t)

LEMMA GhostKept ==
    ASSUME Remembers(ghost), NEW t \in Tasks, Client(t), ~IndexAndReturn(t)
    PROVE  Kept(ghost, ghost')
<1> USE DEF Kept
<1>1. CASE StdioCall(t) \/ RequireTenant(t) \/ Get(t) \/ Refuse(t)
  BY <1>1 DEF StdioCall, RequireTenant, Get, Refuse, RejectName, RejectId, RejectKey, RefuseTenant,
              RejectTenantId
<1>2. CASE Authorize(t) \/ SumOne(t)
  BY <1>2 DEF Authorize, SumOne, Remembers
<1>3. CASE Enqueue(t)
  <2>1. CASE Admit(t)
    BY <2>1 DEF Admit, Remembers
  <2> QED BY <1>3, <2>1 DEF Enqueue, ResolveTargetQueue, Dedup, ReadPendingLimit, ComparePending, Put
<1>4. CASE Consume(t)
  BY <1>4 DEF Consume, Headroom, Claim, Ack, AckUnindex, Nack, Reclaim, TakeOut, Resolve,
              ResolveNacked, ResolveReclaimed, LookAtGroup, LeaseCallFails, BecomesAndFails
<1>5. CASE DeadLetters(t)
  <2>1. CASE Reprocess(t)
    BY <2>1 DEF Reprocess, Remembers
  <2> QED BY <1>5, <2>1 DEF DeadLetters, Triage, Purge, DeadLetterCallFails, BecomesAndFails
<1>6. CASE Configure(t)
  <2>1. CASE ConfigureAdmission(t)
    BY <2>1 DEF ConfigureAdmission, Remembers
  <2>2. CASE ConfigureTenantQuota(t)
    BY <2>2 DEF ConfigureTenantQuota, Remembers
  <2> QED BY <1>6, <2>1, <2>2 DEF Configure, ConfigureRoute
<1>7. CASE Status(t)
  BY <1>7 DEF Status, AdmissionStatus, TenantQuotaStatus, TenantQuotaReport, DashboardQueues,
              DashboardTenants
<1>8. CASE KeyCalls(t)
  <2>1. CASE MintLog(t) \/ RevokeLog(t)
    BY <2>1 DEF MintLog, RevokeLog, KeysLogged, Remembers
  <2>2. CASE RevokeRemove(t)
    BY <2>2 DEF RevokeRemove, Remembers
  <2> QED BY <1>8, <2>1, <2>2 DEF KeyCalls, MintInsert, RevokeLook
<1> QED BY <1>1, <1>2, <1>3, <1>4, <1>5, <1>6, <1>7, <1>8 DEF Client

LEMMA DedupKept ==
    ASSUME NEW t \in Tasks, Client(t), ~IndexAndReturn(t), ~Dedup(t), ~AckUnindex(t)
    PROVE  dedup' = dedup
<1>1. CASE StdioCall(t) \/ RequireTenant(t) \/ Authorize(t) \/ Get(t) \/ SumOne(t) \/ Refuse(t)
  BY <1>1 DEF StdioCall, RequireTenant, Authorize, Get, SumOne, Refuse, RejectName, RejectId, RejectKey,
              RefuseTenant, RejectTenantId, registry
<1>2. CASE Enqueue(t)
  BY <1>2 DEF Enqueue, ResolveTargetQueue, ReadPendingLimit, ComparePending, Admit, Put, registry
<1>3. CASE Consume(t)
  BY <1>3 DEF Consume, Headroom, Claim, Ack, Nack, Reclaim, TakeOut, Resolve, ResolveNacked,
              ResolveReclaimed, LookAtGroup, LeaseCallFails, BecomesAndFails, registry
<1>4. CASE DeadLetters(t)
  BY <1>4 DEF DeadLetters, Triage, Reprocess, Purge, DeadLetterCallFails, BecomesAndFails, registry
<1>5. CASE Configure(t)
  BY <1>5 DEF Configure, ConfigureAdmission, ConfigureRoute, ConfigureTenantQuota
<1>6. CASE Status(t)
  BY <1>6 DEF Status, AdmissionStatus, TenantQuotaStatus, TenantQuotaReport, DashboardQueues,
              DashboardTenants, registry
<1>7. CASE KeyCalls(t)
  BY <1>7 DEF KeyCalls, MintLog, MintInsert, RevokeLook, RevokeLog, RevokeRemove, registry
<1> QED BY <1>1, <1>2, <1>3, <1>4, <1>5, <1>6, <1>7 DEF Client

\* Less in the index, nothing forgotten.
LEMMA TracedLess ==
    ASSUME NEW x, NEW y, NEW indexed, Traced(x, indexed), y.ttl = x.ttl, y.entries \subseteq x.entries
    PROVE  Traced(y, indexed)
BY DEF Traced

\* The new entry's message was in no other queue's index: what was remembered of it is
\* of this index, and the entry is replaced there.
LEMMA IndexedAged ==
    ASSUME TenantInv, AgedInv, NEW t \in Tasks, IndexAndReturn(t)
    PROVE  AgedInv'
<1> DEFINE x == dedup[Scope(t)]
           id == task[t].id
           embedding == The(Call(t).embedding)
<1>1. CASE Call(t).embedding = {}
  BY <1>1 DEF IndexAndReturn, AgedInv
<1>2. CASE Call(t).embedding # {}
  <2>1. task[t].pc \in InQueue /\ task[t].pc = "index"
    BY DEF IndexAndReturn, At, InQueue
  <2>2. Scope(t) \in Scopes
    BY <2>1, QueueHere, ScopeIn DEF TenantInv
  <2>3. id \in Owns[Scope(t)]
    BY <2>1 DEF TenantInv, TaskInv, Sound, Placed, Scope, scope_key, Tenant, Queue
  <2>4. DOMAIN dedup = Scopes /\ \A s \in Scopes : Indexes(dedup[s], Owns[s])
    BY DEF TenantInv, DedupInv
  <2>5. dedup' = [dedup EXCEPT ![Scope(t)] = Index!insert(x, id, embedding)]
    BY <1>2 DEF IndexAndReturn
  <2>6. ghost' = [ghost EXCEPT !.indexed = {g \in @ : g.id # id} \cup {[id |-> id, age |-> 0]}]
    BY <1>2 DEF IndexAndReturn
  <2> HIDE DEF id, embedding
  <2>7. /\ DOMAIN ghost' = DOMAIN ghost
        /\ ghost'.indexed = {g \in ghost.indexed : g.id # id} \cup {[id |-> id, age |-> 0]}
    BY <2>6 DEF AgedInv, Remembers
  <2>8. Remembers(ghost')
    BY <2>7 DEF AgedInv, Remembers
  <2>9. ASSUME NEW s \in Scopes PROVE Traced(dedup'[s], ghost'.indexed)
    <3>1. Traced(dedup[s], ghost.indexed) /\ Indexes(dedup[s], Owns[s])
      BY <2>4 DEF AgedInv
    <3>2. CASE s # Scope(t)
      <4>1. dedup'[s] = dedup[s]
        BY <2>4, <2>5, <3>2
      <4>2. id \notin Owns[s]
        BY <2>2, <2>3, <3>2 DEF Owns
      <4>3. \A e \in dedup[s].entries : e.key # id
        BY <3>1, <4>2 DEF Indexes
      <4>4. Traced(dedup[s], ghost'.indexed)
        BY <2>7, <3>1, <4>3 DEF Traced
      <4> QED BY <4>1, <4>4
    <3>3. CASE s = Scope(t)
      <4> DEFINE y == Index!insert(dedup[s], id, embedding)
                 new == [key |-> id, embedding |-> embedding, age |-> 0]
      <4>1. dedup'[s] = y
        BY <2>4, <2>5, <3>3
      <4>2. y.ttl = dedup[s].ttl /\ y.entries = {e \in dedup[s].entries : e.key # id} \cup {new}
        BY <3>1 DEF Indexes, Index!insert, Index!remove
      <4>3. new.key = id /\ new.age = 0
        OBVIOUS
      <4> HIDE DEF y, new
      <4>4. \E g \in ghost'.indexed : g.id = new.key /\ g.age = new.age
        <5> DEFINE g == [id |-> id, age |-> 0]
        <5>1. g.id = new.key /\ g.age = new.age /\ g \in ghost'.indexed
          BY <2>7, <4>3
        <5> HIDE DEF g
        <5> QED BY <5>1
      <4>5. ASSUME NEW e \in y.entries
            PROVE  e.age \in Nat /\ (e.age < DEDUP_TTL => \E g \in ghost'.indexed : g.id = e.key /\ g.age = e.age)
        <5>1. CASE e = new
          BY <4>3, <4>4, <5>1
        <5>2. CASE e \in dedup[s].entries /\ e.key # id
          BY <2>7, <3>1, <5>2 DEF Traced
        <5> QED BY <4>2, <5>1, <5>2
      <4>6. Traced(y, ghost'.indexed)
        BY <3>1, <4>2, <4>5 DEF Traced
      <4> QED BY <4>1, <4>6
    <3> QED BY <3>2, <3>3
  <2> QED BY <2>8, <2>9 DEF AgedInv
<1> QED BY <1>1, <1>2

\* Entries and memory age together; an entry that stops ageing has run out.
LEMMA TickAged ==
    ASSUME TenantInv, AgedInv, Tick
    PROVE  AgedInv'
<1> DEFINE older(g) == [g EXCEPT !.age = @ + 1]
           kept == {g \in {older(h) : h \in ghost.indexed} : g.age <= MaxAge}
<1>1. DOMAIN ghost' = DOMAIN ghost /\ ghost'.indexed = kept
  BY DEF Tick, AgedInv, Remembers
<1>2. dedup' = [s \in Scopes |-> Index!Age(dedup[s], MaxAge)]
  BY DEF Tick
<1>3. \A g \in ghost.indexed : /\ DOMAIN older(g) = {"id", "age"} /\ older(g).id = g.id
                               /\ older(g).age = g.age + 1 /\ g.age \in Nat
  BY DEF AgedInv, Remembers
<1> HIDE DEF older
<1>4. Remembers(ghost')
  BY <1>1, <1>3 DEF AgedInv, Remembers
<1>5. ASSUME NEW s \in Scopes PROVE Traced(dedup'[s], ghost'.indexed)
  <2> DEFINE y == Index!Age(dedup[s], MaxAge)
             aged(e) == [e EXCEPT !.age = IF @ < MaxAge THEN @ + 1 ELSE @]
  <2>1. Traced(dedup[s], ghost.indexed) /\ Indexes(dedup[s], Owns[s])
    BY DEF AgedInv, TenantInv, DedupInv
  <2>2. y.ttl = dedup[s].ttl /\ y.entries = {aged(e) : e \in dedup[s].entries} /\ dedup'[s] = y
    BY <1>2, <2>1 DEF Indexes, Index!Age
  <2>3. \A e \in dedup[s].entries : /\ aged(e).key = e.key /\ e.age \in Nat
                                    /\ aged(e).age = IF e.age < MaxAge THEN e.age + 1 ELSE e.age
    BY <2>1 DEF Indexes, Traced
  <2> HIDE DEF y, aged
  <2>4. ASSUME NEW e \in dedup[s].entries
        PROVE  /\ aged(e).age \in Nat
               /\ aged(e).age < DEDUP_TTL =>
                    \E g \in ghost'.indexed : g.id = aged(e).key /\ g.age = aged(e).age
    <3>1. PICK a \in Nat : e.age = a
      BY <2>3
    <3>2. aged(e).age = IF a < MaxAge THEN a + 1 ELSE a
      BY <2>3, <3>1
    <3>3. aged(e).age \in Nat
      BY <3>2
    <3>4. ASSUME aged(e).age < DEDUP_TTL
          PROVE  \E g \in ghost'.indexed : g.id = aged(e).key /\ g.age = aged(e).age
      <4>1. a < MaxAge /\ a < DEDUP_TTL /\ aged(e).age = a + 1 /\ a + 1 <= MaxAge
        BY <3>2, <3>4, AgesAssumption
      <4>2. PICK g \in ghost.indexed : g.id = e.key /\ g.age = a
        BY <2>1, <3>1, <4>1 DEF Traced
      <4>3. older(g).id = e.key /\ older(g).age = a + 1
        BY <1>3, <4>2
      <4>4. older(g) \in ghost'.indexed
        BY <1>1, <4>1, <4>3
      <4> QED BY <2>3, <4>1, <4>3, <4>4
    <3> QED BY <3>3, <3>4
  <2>5. Traced(y, ghost'.indexed)
    BY <2>1, <2>2, <2>4 DEF Traced
  <2> QED BY <2>2, <2>5
<1> QED BY <1>4, <1>5 DEF AgedInv

LEMMA NewTraced == ASSUME NEW indexed PROVE Traced(Index!new({DEDUP_TTL}), indexed)
BY DEF Traced, Index!new

LEMMA AgedInit == Init => AgedInv
<1> SUFFICES ASSUME Init PROVE AgedInv
  OBVIOUS
<1>1. /\ DOMAIN ghost = {"allowed", "spent", "indexed", "exempt", "revoked", "damaged"}
      /\ ghost.indexed = {}
  BY DEF Init, NewGhost
<1>2. Remembers(ghost)
  BY <1>1 DEF Remembers
<1>3. ASSUME NEW s \in Scopes PROVE Traced(dedup[s], ghost.indexed)
  BY NewTraced DEF Init
<1> QED BY <1>2, <1>3 DEF AgedInv

LEMMA AgedSame ==
    ASSUME AgedInv, Kept(ghost, ghost'), dedup' = dedup
    PROVE  AgedInv'
BY DEF AgedInv, Remembers, Kept

LEMMA AgedNext == TenantInv /\ AgedInv /\ [Next]_vars => AgedInv'
<1> SUFFICES ASSUME TenantInv, AgedInv, [Next]_vars PROVE AgedInv'
  OBVIOUS
<1>1. ASSUME NEW t \in Tasks, Client(t) PROVE AgedInv'
  <2>1. CASE IndexAndReturn(t)
    BY <2>1, IndexedAged
  <2>2. CASE ~IndexAndReturn(t) /\ (Dedup(t) \/ AckUnindex(t))
    <3>1. Kept(ghost, ghost') /\ DOMAIN dedup = Scopes
      BY <1>1, <2>2, GhostKept DEF AgedInv, TenantInv, DedupInv
    <3>2. PICK y : /\ dedup' = dedup \/ dedup' = [dedup EXCEPT ![Scope(t)] = y]
                   /\ \/ y = Index!evict_expired(dedup[Scope(t)])
                      \/ \E id : y = Index!remove(dedup[Scope(t)], id)
      BY <2>2, <3>1 DEF Dedup, AckUnindex
    <3>3. task[t].pc \in InQueue
      BY <2>2 DEF Dedup, AckUnindex, At, InQueue
    <3>4. Scope(t) \in Scopes
      BY <3>3, QueueHere, ScopeIn DEF TenantInv
    <3>5. Indexes(dedup[Scope(t)], Owns[Scope(t)]) /\ Traced(dedup[Scope(t)], ghost.indexed)
      BY <3>4 DEF AgedInv, TenantInv, DedupInv
    <3>6. y.ttl = dedup[Scope(t)].ttl /\ y.entries \subseteq dedup[Scope(t)].entries
      BY <3>2, <3>5 DEF Indexes, Index!evict_expired, Index!remove
    <3>7. Traced(y, ghost.indexed)
      BY <3>5, <3>6, TracedLess
    <3>8. \A s \in Scopes : dedup'[s] = dedup[s] \/ dedup'[s] = y
      BY <3>1, <3>2
    <3> QED BY <3>1, <3>7, <3>8 DEF AgedInv, Kept, Remembers
  <2>3. CASE ~IndexAndReturn(t) /\ ~Dedup(t) /\ ~AckUnindex(t)
    BY <1>1, <2>3, GhostKept, DedupKept, AgedSame DEF AgedInv
  <2> QED BY <2>1, <2>2, <2>3
<1>2. ASSUME UNCHANGED <<ghost, dedup>> PROVE AgedInv'
  BY <1>2, AgedSame DEF Kept
<1>3. ASSUME Restart PROVE AgedInv'
  <2>1. DOMAIN ghost' = DOMAIN ghost /\ ghost'.indexed = {}
    BY <1>3 DEF Restart, AgedInv, Remembers
  <2>2. Remembers(ghost')
    BY <2>1 DEF AgedInv, Remembers
  <2>3. \A s \in Scopes : Traced(dedup'[s], ghost'.indexed)
    BY <1>3, NewTraced DEF Restart
  <2> QED BY <2>2, <2>3 DEF AgedInv
<1>4. ASSUME NEW w \in Workers, AuditReceive(w) \/ AuditWrite(w) PROVE UNCHANGED <<ghost, dedup>>
  BY <1>4 DEF AuditReceive, AuditWrite, registry
<1>5. ASSUME UNCHANGED vars PROVE UNCHANGED <<ghost, dedup>>
  BY <1>5 DEF vars, registry
<1>6. Next => \/ \E t \in Tasks : Client(t)
              \/ \E w \in Workers : AuditReceive(w) \/ AuditWrite(w)
              \/ Tick \/ Restart
  BY DEF Next, Client
<1> QED BY <1>1, <1>2, <1>3, <1>4, <1>5, <1>6, TickAged


\* A client's step is no business of another client.
LEMMA OthersWait ==
    ASSUME NEW t \in Tasks, Client(t), NEW u \in Tasks, u # t, DOMAIN task = Tasks
    PROVE  task'[u] = task[u]
<1> USE DEF Goto, Return, Done
<1>1. CASE StdioCall(t) \/ RequireTenant(t) \/ Authorize(t)
  BY <1>1 DEF StdioCall, RequireTenant, Authorize
<1>2. CASE Get(t) \/ SumOne(t) \/ Refuse(t)
  BY <1>2 DEF Get, SumOne, Refuse, RejectName, RejectId, RejectKey, RefuseTenant, RejectTenantId
<1>3. CASE Enqueue(t)
  <2>1. CASE ResolveTargetQueue(t)
    BY <2>1 DEF ResolveTargetQueue
  <2>2. CASE Dedup(t) \/ ReadPendingLimit(t) \/ ComparePending(t)
    BY <2>2 DEF Dedup, ReadPendingLimit, ComparePending
  <2>3. CASE Admit(t) \/ Put(t) \/ IndexAndReturn(t)
    BY <2>3 DEF Admit, Put, IndexAndReturn
  <2> QED BY <1>3, <2>1, <2>2, <2>3 DEF Enqueue
<1>4. CASE Consume(t)
  <2>1. CASE Headroom(t) \/ Claim(t) \/ Ack(t) \/ AckUnindex(t)
    BY <2>1 DEF Headroom, Claim, Ack, AckUnindex
  <2>2. CASE Nack(t) \/ Reclaim(t) \/ LookAtGroup(t) \/ LeaseCallFails(t)
    BY <2>2 DEF Nack, Reclaim, TakeOut, LookAtGroup, LeaseCallFails, BecomesAndFails
  <2>3. CASE ResolveNacked(t) \/ ResolveReclaimed(t)
    BY <2>3 DEF ResolveNacked, ResolveReclaimed
  <2> QED BY <1>4, <2>1, <2>2, <2>3 DEF Consume, Resolve
<1>5. CASE DeadLetters(t)
  BY <1>5 DEF DeadLetters, Triage, Reprocess, Purge, DeadLetterCallFails, BecomesAndFails
<1>6. CASE Configure(t)
  BY <1>6 DEF Configure, ConfigureAdmission, ConfigureRoute, ConfigureTenantQuota
<1>7. CASE Status(t)
  BY <1>7 DEF Status, AdmissionStatus, TenantQuotaStatus, TenantQuotaReport, DashboardQueues,
              DashboardTenants
<1>8. CASE KeyCalls(t)
  BY <1>8 DEF KeyCalls, MintLog, MintInsert, RevokeLook, RevokeLog, RevokeRemove, KeysLogged
<1> QED BY <1>1, <1>2, <1>3, <1>4, <1>5, <1>6, <1>7, <1>8 DEF Client

\* What a client can do where its call looks for a task like its own.
LEMMA AtDedup ==
    ASSUME NEW t \in Tasks, Client(t), At(t, "dedup")
    PROVE  Dedup(t) \/ RejectKey(t)
<1> USE DEF At, Running
<1>1. CASE StdioCall(t) \/ RequireTenant(t) \/ Authorize(t) \/ Get(t) \/ SumOne(t) \/ Refuse(t)
  BY <1>1 DEF StdioCall, RequireTenant, Authorize, Get, SumOne, WantsQueue, Refuse, RejectName, RejectId,
              RefuseTenant, RejectTenantId
<1>2. CASE Enqueue(t)
  BY <1>2 DEF Enqueue, ResolveTargetQueue, ReadPendingLimit, ComparePending, Admit, Put, IndexAndReturn
<1>3. CASE Consume(t)
  BY <1>3 DEF Consume, Headroom, Claim, Ack, AckUnindex, Nack, Reclaim, TakeOut, Resolve,
              ResolveNacked, ResolveReclaimed, LookAtGroup, LeaseCallFails
<1>4. CASE DeadLetters(t)
  BY <1>4 DEF DeadLetters, Triage, Reprocess, Purge, DeadLetterCallFails
<1>5. CASE Configure(t) \/ Status(t)
  BY <1>5 DEF Configure, ConfigureAdmission, ConfigureRoute, ConfigureTenantQuota, Status,
              AdmissionStatus,
              TenantQuotaStatus, TenantQuotaReport, DashboardQueues, DashboardTenants
<1>6. CASE KeyCalls(t)
  BY <1>6 DEF KeyCalls, MintLog, MintInsert, RevokeLook, RevokeLog, RevokeRemove
<1> QED BY <1>1, <1>2, <1>3, <1>4, <1>5, <1>6 DEF Client

\* What a client has after its call returned.
LEMMA AnswerGiven ==
    ASSUME NEW t \in Tasks, NEW answer, NEW held, Done(t, answer, held), DOMAIN task = Tasks
    PROVE  task'[t].answer = answer
<1> DEFINE n == NewTask(Tail(task[t].todo))
<1>1. task'[t] = [n EXCEPT !.tenant = task[t].tenant, !.held = held, !.answer = answer]
  BY DEF Done
<1>2. "answer" \in DOMAIN n
  BY DEF NewTask
<1> HIDE DEF n
<1> QED BY <1>1, <1>2

Collapse(t) ==
    At(t, "dedup") /\ task'[t].answer.kind = "duplicate" =>
      LET id == task'[t].answer.id IN
      /\ \E g \in ghost.indexed : g.id = id /\ g.age < DEDUP_TTL
      /\ messages[id].tenant = Tenant(t) /\ messages[id].queue = Queue(t)

LEMMA NearestTraced ==
    ASSUME NEW x, NEW keys, NEW indexed, Indexes(x, keys), Traced(x, indexed), NEW embedding,
           NEW h \in Index!nearest(Index!evict_expired(x), embedding)
    PROVE  /\ h.key \in keys
           /\ \E g \in indexed : g.id = h.key /\ g.age < DEDUP_TTL
<1> DEFINE y == Index!evict_expired(x)
<1>1. y.entries = {e \in x.entries : \A ttl \in x.ttl : e.age < ttl}
  BY DEF Indexes, Index!evict_expired
<1>2. PICK e \in y.entries :
        h \in {[key |-> e.key, score |-> s] : s \in Index!cosine_similarity(embedding, e.embedding)}
  BY DEF Index!nearest
<1> HIDE DEF y
<1>3. h.key = e.key /\ e \in x.entries /\ e.age < DEDUP_TTL
  BY <1>1, <1>2 DEF Traced
<1> QED BY <1>3 DEF Indexes, Traced

LEMMA CollapseStep ==
    ASSUME TenantInv, AgedInv, [Next]_vars, NEW t \in Tasks
    PROVE  Collapse(t)
<1> SUFFICES ASSUME At(t, "dedup"), task'[t].answer.kind = "duplicate"
             PROVE  LET id == task'[t].answer.id IN
                    /\ \E g \in ghost.indexed : g.id = id /\ g.age < DEDUP_TTL
                    /\ messages[id].tenant = Tenant(t) /\ messages[id].queue = Queue(t)
  BY DEF Collapse
<1>1. /\ DOMAIN task = Tasks /\ task[t].answer = NoAnswer /\ Formed(task[t])
      /\ task[t].pc = "dedup" /\ task[t].pc \in InQueue
  BY DEF TenantInv, TaskInv, Sound, Answered, At, InQueue
<1>2. NoAnswer.kind = "none"
  BY DEF NoAnswer
<1>3. task'[t] # task[t]
  BY <1>1, <1>2
<1>4. Client(t)
  <2>1. \A u \in Tasks : Client(u) => u = t
    BY <1>1, <1>3, OthersWait
  <2>2. ~Restart
    <3>1. ASSUME Restart PROVE task'[t].answer = NoAnswer
      <4>1. task'[t] = [NewTask(Tail(task[t].todo)) EXCEPT !.held = task[t].held]
        BY <1>1, <3>1 DEF Restart, At
      <4> QED BY <4>1 DEF NewTask
    <3> QED BY <1>2, <3>1
  <2>3. \A w \in Workers : ~AuditReceive(w) /\ ~AuditWrite(w)
    BY <1>3 DEF AuditReceive, AuditWrite
  <2>4. ~Tick /\ ~UNCHANGED vars
    BY <1>3 DEF Tick, vars
  <2> QED BY <2>1, <2>2, <2>3, <2>4 DEF Next, Client
<1>5. Dedup(t)
  <2>1. ASSUME RejectKey(t) PROVE FALSE
    <3>1. task'[t].answer = Answer("invalid")
      BY <1>1, <2>1, AnswerGiven DEF RejectKey, Return
    <3>2. Answer("invalid").kind = "invalid"
      BY DEF Answer, NoAnswer
    <3> QED BY <3>1, <3>2
  <2> QED BY <1>4, <2>1, AtDedup
<1> DEFINE x == dedup[Scope(t)]
           hits == UNION {Index!nearest(Index!evict_expired(x), e) : e \in Call(t).embedding}
<1>6. ~Goto(t, "pending")
  <2>1. ASSUME Goto(t, "pending") PROVE task'[t].answer = NoAnswer
    BY <1>1, <2>1 DEF Goto, Formed
  <2> QED BY <1>2, <2>1
<1>7. PICK h \in hits : Return(t, [Answer("duplicate") EXCEPT !.id = h.key])
  BY <1>5, <1>6 DEF Dedup
<1>8. task'[t].answer.id = h.key
  <2> DEFINE answer == [Answer("duplicate") EXCEPT !.id = h.key]
  <2>1. answer.id = h.key /\ Done(t, answer, task[t].held)
    BY <1>7, AnswerFacts DEF Return
  <2> HIDE DEF answer, hits
  <2>2. task'[t].answer = answer
    BY <1>1, <2>1, AnswerGiven
  <2> QED BY <2>1, <2>2
<1>9. /\ Scope(t) \in Scopes /\ Scope(t) = <<Tenant(t), Queue(t)>>
  BY <1>1, QueueHere, ScopeIn DEF TenantInv, Scope, scope_key
<1>10. Indexes(x, Owns[Scope(t)]) /\ Traced(x, ghost.indexed)
  BY <1>9 DEF TenantInv, DedupInv, AgedInv
<1>11. h.key \in Owns[Scope(t)] /\ \E g \in ghost.indexed : g.id = h.key /\ g.age < DEDUP_TTL
  BY <1>7, <1>10, NearestTraced
<1>12. messages[h.key].tenant = Tenant(t) /\ messages[h.key].queue = Queue(t)
  BY <1>9, <1>11 DEF Owns
<1> QED BY <1>8, <1>11, <1>12

\* enqueue_impl's deduplication, with evictions only when somebody looks, embeddings that
\* outlive their messages, calls that interleave and restarts: a task collapses only onto
\* a message of the same tenant and queue that was indexed less than DEDUP_TTL ago.
THEOREM CollapsesAreSound == Spec => CollapsesOntoRecent
<1>1. TenantInv /\ AgedInv /\ [Next]_vars => [\A t \in Tasks : Collapse(t)]_vars
  BY CollapseStep
<1>2. [][\A t \in Tasks : Collapse(t)]_vars <=> CollapsesOntoRecent
  BY DEF CollapsesOntoRecent, Collapse
<1> QED BY <1>1, <1>2, TenantInit, TenantNext, AgedInit, AgedNext, PTL DEF Spec

-----------------------------------------------------------------------------
(* Revocations.  One call draws a key: once the key's revocation is in the  *)
(* log, no Mint record of it comes after.                                   *)

\* The keys a log has minted, and those that a replay finds.
MintedIn(file) == {file[i].key : i \in {i \in DOMAIN file : file[i].kind = "Mint"}}
LiveIn(file) == {file[i].key : i \in ApiKeys!InForce(file)}
Untorn(file) == \A i \in DOMAIN file : ~ApiKeys!W!IsTorn(file[i])

\* A call on its way to the log or past it, the revocations under way, and those that
\* are in the log.
KeyPlaces == {"mint", "revoke_log", "revoke"}
Revokes(r, key) == r.pc \in {"revoke_log", "revoke"} /\ Head(r.todo).api_key = key
RevokeLogged(r, key) == r.pc = "revoke" /\ Head(r.todo).api_key = key
RevocationLogged(key) == key \in ghost.revoked \/ \E t \in Tasks : RevokeLogged(task[t], key)

DrawnOnce ==
    \A t \in Tasks : \A i \in Drawing(task[t].todo) : \A u \in Tasks : \A j \in Drawing(task[u].todo) :
      task[u].todo[j].api_key = task[t].todo[i].api_key => u = t /\ j = i

\* A key that is still to be drawn is nowhere, but for the log of a mint under way.
Unheard(key) ==
    /\ key \notin DOMAIN keystore.keys /\ key \notin ghost.revoked
    /\ \A u \in Tasks : ~Revokes(task[u], key)
Unused(r) ==
    \A i \in Drawing(r.todo) : LET key == r.todo[i].api_key IN
      Unheard(key) /\ (key \in MintedIn(keystore.file) => i = 1 /\ r.pc = "mint")

RevokedInv ==
    /\ Untorn(keystore.file)
    /\ DrawnOnce
    /\ \A t \in Tasks : Unused(task[t])
    /\ \A key \in LiveIn(keystore.file) : ~RevocationLogged(key)
    /\ ghost.revoked \cap DOMAIN keystore.keys = {}

KeyLogInv == ghost.damaged \/ RevokedInv

LEMMA LogAppends ==
    ASSUME NEW frames, NEW file \in Seq(frames), NEW record
    PROVE  /\ \A key \in LiveIn(Append(file, record)) :
                \/ key \in LiveIn(file) /\ key # record.key
                \/ record.kind = "Mint" /\ key = record.key
           /\ \A key \in MintedIn(Append(file, record)) :
                key \in MintedIn(file) \/ (record.kind = "Mint" /\ key = record.key)
<1> DEFINE new == Append(file, record)
           n == Len(file)
<1>1. /\ n \in Nat /\ DOMAIN file = 1..n /\ DOMAIN new = 1..(n + 1)
      /\ new[n + 1] = record /\ \A i \in 1..n : new[i] = file[i]
  OBVIOUS
<1> HIDE DEF new, n
<1>2. ASSUME NEW i \in ApiKeys!InForce(new)
      PROVE  \/ new[i].key \in LiveIn(file) /\ new[i].key # record.key
             \/ record.kind = "Mint" /\ new[i].key = record.key
  <2>1. /\ i \in 1..(n + 1) /\ new[i].kind = "Mint"
        /\ \A j \in 1..(n + 1) : j > i => new[j].key # new[i].key
    BY <1>1, <1>2 DEF ApiKeys!InForce
  <2>2. CASE i = n + 1
    BY <1>1, <2>1, <2>2
  <2>3. CASE i # n + 1
    <3>1. i \in 1..n /\ n + 1 \in 1..(n + 1) /\ n + 1 > i
      BY <1>1, <2>1, <2>3
    <3>2. new[i].key # record.key /\ new[i] = file[i]
      BY <1>1, <2>1, <3>1
    <3>3. \A j \in 1..n : j > i => file[j].key # file[i].key
      BY <1>1, <2>1, <3>1
    <3>4. i \in ApiKeys!InForce(file)
      BY <1>1, <2>1, <3>1, <3>2, <3>3 DEF ApiKeys!InForce
    <3> QED BY <3>2, <3>4 DEF LiveIn
  <2> QED BY <2>2, <2>3
<1>3. ASSUME NEW i \in DOMAIN new, new[i].kind = "Mint"
      PROVE  new[i].key \in MintedIn(file) \/ (record.kind = "Mint" /\ new[i].key = record.key)
  <2>1. CASE i = n + 1
    BY <1>1, <1>3, <2>1
  <2>2. CASE i # n + 1
    <3>1. i \in DOMAIN file /\ new[i] = file[i]
      BY <1>1, <1>3, <2>2
    <3> QED BY <1>3, <3>1 DEF MintedIn
  <2> QED BY <2>1, <2>2
<1>4. \A key \in LiveIn(new) : \/ key \in LiveIn(file) /\ key # record.key
                               \/ record.kind = "Mint" /\ key = record.key
  BY <1>2 DEF LiveIn
<1>5. \A key \in MintedIn(new) : key \in MintedIn(file) \/ (record.kind = "Mint" /\ key = record.key)
  BY <1>3 DEF MintedIn
<1> QED BY <1>4, <1>5 DEF new

LEMMA LiveMinted == ASSUME NEW file PROVE LiveIn(file) \subseteq MintedIn(file)
BY DEF LiveIn, MintedIn, ApiKeys!InForce

LEMMA OpensWhole ==
    ASSUME NEW file, Untorn(file)
    PROVE  LET store == ApiKeys!open(file) IN store.file = file /\ DOMAIN store.keys = LiveIn(file)
<1>1. ApiKeys!W!open(file) = file
  BY DEF Untorn, ApiKeys!W!open, ApiKeys!W!replay
<1>2. DOMAIN ApiKeys!Replayed(file) = LiveIn(file)
  BY DEF ApiKeys!Replayed, LiveIn
<1> QED BY <1>1, <1>2 DEF ApiKeys!open

\* A call goes on, or is over.
Shorter(r, s) == \/ s.todo = r.todo
                 \/ r.todo # <<>> /\ s.todo = Tail(r.todo) /\ s.pc = "idle"

LEMMA DrawsLeft ==
    ASSUME TaskInv, NEW t \in Tasks, NEW s, Shorter(task[t], s), NEW i \in Drawing(s.todo)
    PROVE  \E j \in Drawing(task[t].todo) :
             /\ task[t].todo[j] = s.todo[i]
             /\ s.todo = task[t].todo => j = i
             /\ s.todo # task[t].todo => j = i + 1
             /\ j \in Nat \ {0} /\ i \in Nat \ {0}
<1>1. PICK calls : task[t].todo \in Seq(calls)
  BY DEF TaskInv, Sound, Formed, AllCalls
<1> DEFINE todo == task[t].todo
<1>2. DOMAIN todo = 1..Len(todo) /\ Len(todo) \in Nat
  BY <1>1
<1>3. CASE s.todo = todo
  BY <1>2, <1>3 DEF Drawing
<1>4. CASE s.todo # todo
  <2>1. todo # <<>> /\ s.todo = Tail(todo)
    BY <1>4 DEF Shorter
  <2>2. DOMAIN s.todo = 1..(Len(todo) - 1) /\ \A k \in 1..(Len(todo) - 1) : s.todo[k] = todo[k + 1]
    BY <1>1, <2>1
  <2>3. i \in 1..(Len(todo) - 1) /\ s.todo[i].tool = "create_api_key"
    BY <2>2 DEF Drawing
  <2>4. i + 1 \in DOMAIN todo /\ s.todo[i] = todo[i + 1]
    BY <1>2, <2>2, <2>3
  <2>5. i + 1 \in Drawing(todo) /\ i \in Nat \ {0} /\ i + 1 \in Nat \ {0}
    BY <2>3, <2>4 DEF Drawing
  <2> QED BY <1>4, <2>4, <2>5
<1> QED BY <1>3, <1>4

LEMMA DrawnOnceStep ==
    ASSUME TaskInv, DrawnOnce, \A t \in Tasks : Shorter(task[t], task'[t])
    PROVE  DrawnOnce'
<1> SUFFICES ASSUME NEW t \in Tasks, NEW i \in Drawing(task'[t].todo),
                    NEW u \in Tasks, NEW j \in Drawing(task'[u].todo),
                    task'[u].todo[j].api_key = task'[t].todo[i].api_key
             PROVE  u = t /\ j = i
  BY DEF DrawnOnce
<1>1. PICK a \in Drawing(task[t].todo) :
        /\ task[t].todo[a] = task'[t].todo[i]
        /\ task'[t].todo = task[t].todo => a = i
        /\ task'[t].todo # task[t].todo => a = i + 1
        /\ i \in Nat
  BY DrawsLeft
<1>2. PICK b \in Drawing(task[u].todo) :
        /\ task[u].todo[b] = task'[u].todo[j]
        /\ task'[u].todo = task[u].todo => b = j
        /\ task'[u].todo # task[u].todo => b = j + 1
        /\ j \in Nat
  BY DrawsLeft
<1>3. task[u].todo[b].api_key = task[t].todo[a].api_key
  BY <1>1, <1>2
<1>4. u = t /\ b = a
  BY <1>3 DEF DrawnOnce
<1> QED BY <1>1, <1>2, <1>4

\* What is known of a key that a call will draw, from before the step.
LEMMA DrawnLater ==
    ASSUME TaskInv, RevokedInv, NEW u \in Tasks, Shorter(task[u], task'[u]),
           NEW i \in Drawing(task'[u].todo), NEW key, key = task'[u].todo[i].api_key
    PROVE  /\ Unheard(key)
           /\ key \in MintedIn(keystore.file) =>
                i = 1 /\ task[u].pc = "mint" /\ task'[u].todo = task[u].todo
           /\ \A t \in Tasks : \A j \in Drawing(task[t].todo) :
                task[t].todo[j].api_key = key /\ j = 1 =>
                  t = u /\ i = 1 /\ task'[u].todo = task[u].todo
<1>1. PICK a \in Drawing(task[u].todo) :
        /\ task[u].todo[a] = task'[u].todo[i]
        /\ task'[u].todo = task[u].todo => a = i
        /\ task'[u].todo # task[u].todo => a = i + 1
        /\ i \in Nat \ {0}
  BY DrawsLeft
<1>2. Unheard(key) /\ (key \in MintedIn(keystore.file) => a = 1 /\ task[u].pc = "mint")
  BY <1>1 DEF RevokedInv, Unused
<1>3. \A t \in Tasks : \A j \in Drawing(task[t].todo) :
        task[t].todo[j].api_key = key => t = u /\ j = a
  BY <1>1 DEF RevokedInv, DrawnOnce
<1>4. a = 1 => i = 1 /\ task'[u].todo = task[u].todo
  BY <1>1
<1> QED BY <1>2, <1>3, <1>4

-----------------------------------------------------------------------------
(* Calls about something else                                               *)

LEMMA KeysUntouched ==
    ASSUME Remembers(ghost), NEW t \in Tasks, Client(t), ~KeyCalls(t)
    PROVE  keystore' = keystore /\ ghost'.revoked = ghost.revoked /\ ghost'.damaged = ghost.damaged
<1>1. CASE StdioCall(t) \/ RequireTenant(t) \/ Get(t) \/ Refuse(t)
  BY <1>1 DEF StdioCall, RequireTenant, Get, Refuse, RejectName, RejectId, RejectKey, RefuseTenant,
              RejectTenantId
<1>2. CASE Authorize(t) \/ SumOne(t)
  BY <1>2 DEF Authorize, SumOne, Remembers
<1>3. CASE Enqueue(t)
  <2>1. CASE Admit(t)
    BY <2>1 DEF Admit, Remembers
  <2>2. CASE IndexAndReturn(t)
    BY <2>2 DEF IndexAndReturn, Remembers
  <2> QED BY <1>3, <2>1, <2>2 DEF Enqueue, ResolveTargetQueue, Dedup, ReadPendingLimit,
                                  ComparePending, Put
<1>4. CASE Consume(t)
  BY <1>4 DEF Consume, Headroom, Claim, Ack, AckUnindex, Nack, Reclaim, TakeOut, Resolve,
              ResolveNacked, ResolveReclaimed, LookAtGroup, LeaseCallFails, BecomesAndFails
<1>5. CASE DeadLetters(t)
  <2>1. CASE Reprocess(t)
    BY <2>1 DEF Reprocess, Remembers
  <2> QED BY <1>5, <2>1 DEF DeadLetters, Triage, Purge, DeadLetterCallFails, BecomesAndFails
<1>6. CASE Configure(t)
  <2>1. CASE ConfigureAdmission(t)
    BY <2>1 DEF ConfigureAdmission, Remembers
  <2>2. CASE ConfigureTenantQuota(t)
    BY <2>2 DEF ConfigureTenantQuota, Remembers
  <2> QED BY <1>6, <2>1, <2>2 DEF Configure, ConfigureRoute
<1>7. CASE Status(t)
  BY <1>7 DEF Status, AdmissionStatus, TenantQuotaStatus, TenantQuotaReport, DashboardQueues,
              DashboardTenants
<1> QED BY <1>1, <1>2, <1>3, <1>4, <1>5, <1>6, <1>7 DEF Client

\* The call goes on, with no key in its hands, or is over.
Moves(r, s) == \/ s.todo = r.todo /\ r.pc \notin KeyPlaces /\ s.pc \notin KeyPlaces
               \/ r.todo # <<>> /\ s.todo = Tail(r.todo) /\ s.pc = "idle"

LEMMA DoneMoves ==
    ASSUME TaskInv, NEW t \in Tasks, NEW answer, NEW held, Done(t, answer, held), task[t].todo # <<>>
    PROVE  task'[t].todo = Tail(task[t].todo) /\ task'[t].pc = "idle" /\ Moves(task[t], task'[t])
<1> DEFINE n == NewTask(Tail(task[t].todo))
<1>1. task'[t] = [n EXCEPT !.tenant = task[t].tenant, !.held = held, !.answer = answer]
  BY DEF Done, TaskInv
<1>2. "todo" \in DOMAIN n /\ "pc" \in DOMAIN n /\ n.todo = Tail(task[t].todo) /\ n.pc = "idle"
  BY DEF NewTask
<1> HIDE DEF n
<1>3. task'[t].todo = Tail(task[t].todo) /\ task'[t].pc = "idle"
  BY <1>1, <1>2
<1> QED BY <1>3 DEF Moves

LEMMA ReturnMoves ==
    ASSUME TaskInv, NEW t \in Tasks, NEW answer, Return(t, answer), task[t].todo # <<>>
    PROVE  task'[t].todo = Tail(task[t].todo) /\ task'[t].pc = "idle" /\ Moves(task[t], task'[t])
BY DoneMoves DEF Return

LEMMA GotoMoves ==
    ASSUME TaskInv, NEW t \in Tasks, NEW pc, Goto(t, pc)
    PROVE  /\ task'[t].todo = task[t].todo /\ task'[t].pc = pc
           /\ task[t].pc \notin KeyPlaces /\ pc \notin KeyPlaces => Moves(task[t], task'[t])
BY DEF Goto, TaskInv, Sound, Formed, Moves

\* Several fields of the call's change, and its place is not one of the keys'.
LEMMA FieldsMove ==
    ASSUME TaskInv, NEW t \in Tasks, NEW r, task' = [task EXCEPT ![t] = r], r.todo = task[t].todo,
           r.pc \notin KeyPlaces, task[t].pc \notin KeyPlaces
    PROVE  Moves(task[t], task'[t]) /\ task'[t].pc = r.pc
BY DEF TaskInv, Moves

\* Messages come into a call's hands in three of its steps.
HandsOver(t) == Nack(t) \/ Reclaim(t) \/ Resolve(t)

LEMMA OthersMove ==
    ASSUME TaskInv, NEW t \in Tasks, Client(t), ~KeyCalls(t)
    PROVE  Moves(task[t], task'[t]) /\ (task'[t].pc = "resolve" => HandsOver(t))
<1> USE DEF At, Running, KeyPlaces
<1>1. /\ task[t].todo # <<>> \/ task[t].pc = "idle"
      /\ DOMAIN task[t] = {"todo", "pc", "tenant", "queue", "left", "total", "limit", "id", "batch", "held", "answer"}
  BY DEF TaskInv, Sound, Formed
<1>2. CASE StdioCall(t)
  <2> DEFINE r == [task[t] EXCEPT !.pc = "tool", !.tenant = Stdio, !.answer = NoAnswer, !.queue = Named(Call(t))]
  <2>1. task' = [task EXCEPT ![t] = r]
    BY <1>1, <1>2 DEF StdioCall, TaskInv
  <2>2. r.todo = task[t].todo /\ r.pc = "tool" /\ task[t].pc = "idle"
    BY <1>1, <1>2 DEF StdioCall
  <2> QED BY <2>1, <2>2, FieldsMove
<1>3. CASE RequireTenant(t)
  <2> DEFINE tenant == The(CredentialTenant(Call(t).credential))
             r == [task[t] EXCEPT !.pc = "authorize", !.tenant = tenant, !.answer = NoAnswer,
                                  !.queue = Named(Call(t))]
  <2>1. task[t].todo # <<>> /\ task[t].pc = "idle"
    BY <1>3 DEF RequireTenant
  <2>2. Return(t, Answer("unauthorized")) \/ task' = [task EXCEPT ![t] = r]
    BY <1>1, <1>3 DEF RequireTenant, TaskInv
  <2>3. r.todo = task[t].todo /\ r.pc = "authorize"
    BY <1>1
  <2> QED BY <2>1, <2>2, <2>3, FieldsMove, ReturnMoves
<1>4. CASE Authorize(t)
  BY <1>1, <1>4, GotoMoves, ReturnMoves DEF Authorize
<1>5. CASE Refuse(t)
  BY <1>1, <1>5, ReturnMoves DEF Refuse, RejectName, RejectId, RejectKey, RefuseTenant,
                                 RejectTenantId, WantsQueue
<1>6. CASE Get(t)
  <2>1. task[t].pc \in {"tool", "get"} /\ task[t].todo # <<>> /\ Call(t).tool \in DOMAIN AfterGet
    BY <1>1, <1>6 DEF Get, WantsQueue, TaskInv, Sound, Placed, AfterGet, Call
  <2>2. AfterGet[Call(t).tool] \notin KeyPlaces /\ AfterGet[Call(t).tool] # "resolve"
    BY <2>1 DEF AfterGet
  <2>3. Goto(t, AfterGet[Call(t).tool]) \/ (\E kind \in {"error", "invalid"} : Return(t, Answer(kind)))
    BY <1>6 DEF Get
  <2> QED BY <2>1, <2>2, <2>3, GotoMoves, ReturnMoves
<1>7. CASE SumOne(t)
  <2>1. PICK s \in task[t].left :
          task' = [task EXCEPT ![t].left = @ \ {s}, ![t].total = @ + GroupLen(group[s])]
    BY <1>7 DEF SumOne
  <2> DEFINE r == [task[t] EXCEPT !.left = @ \ {s}, !.total = @ + GroupLen(group[s])]
  <2>2. task' = [task EXCEPT ![t] = r] /\ r.todo = task[t].todo /\ r.pc = task[t].pc /\ task[t].pc = "sum"
    BY <1>1, <1>7, <2>1 DEF TaskInv, SumOne
  <2> HIDE DEF r
  <2> QED BY <2>2, FieldsMove
<1>8. CASE Enqueue(t)
  <2>1. CASE ResolveTargetQueue(t)
    <3>1. \/ Goto(t, "get") \/ Return(t, Answer("invalid"))
          \/ \E q : task' = [task EXCEPT ![t].pc = "get", ![t].queue = q]
      BY <2>1 DEF ResolveTargetQueue
    <3>2. task[t].pc = "tool" /\ task[t].todo # <<>>
      BY <1>1, <2>1 DEF ResolveTargetQueue
    <3>3. ASSUME NEW q, task' = [task EXCEPT ![t].pc = "get", ![t].queue = q]
          PROVE  Moves(task[t], task'[t]) /\ task'[t].pc # "resolve"
      <4> DEFINE r == [task[t] EXCEPT !.pc = "get", !.queue = q]
      <4>1. task' = [task EXCEPT ![t] = r] /\ r.todo = task[t].todo /\ r.pc = "get"
        BY <1>1, <3>3 DEF TaskInv
      <4> QED BY <3>2, <4>1, FieldsMove
    <3> QED BY <3>1, <3>2, <3>3, GotoMoves, ReturnMoves
  <2>2. CASE Dedup(t)
    <3>1. Goto(t, "pending") \/ \E answer : Return(t, answer)
      BY <2>2 DEF Dedup
    <3>2. task[t].pc = "dedup" /\ task[t].todo # <<>>
      BY <1>1, <2>2 DEF Dedup
    <3> QED BY <3>1, <3>2, GotoMoves, ReturnMoves
  <2>3. CASE ReadPendingLimit(t)
    <3>1. \/ Goto(t, "admit")
          \/ \E limit, left : task' = [task EXCEPT ![t].pc = "sum", ![t].limit = limit,
                                                   ![t].left = left, ![t].total = 0]
      BY <2>3 DEF ReadPendingLimit
    <3>2. task[t].pc = "pending"
      BY <2>3 DEF ReadPendingLimit
    <3>3. ASSUME NEW limit, NEW left,
                 task' = [task EXCEPT ![t].pc = "sum", ![t].limit = limit, ![t].left = left, ![t].total = 0]
          PROVE  Moves(task[t], task'[t]) /\ task'[t].pc # "resolve"
      <4> DEFINE r == [task[t] EXCEPT !.pc = "sum", !.limit = limit, !.left = left, !.total = 0]
      <4>1. task' = [task EXCEPT ![t] = r] /\ r.todo = task[t].todo /\ r.pc = "sum"
        BY <1>1, <3>3 DEF TaskInv
      <4> QED BY <3>2, <4>1, FieldsMove
    <3>4. CASE Goto(t, "admit")
      BY <3>2, <3>4, GotoMoves
    <3> QED BY <3>1, <3>3, <3>4
  <2>4. CASE ComparePending(t)
    BY <1>1, <2>4, GotoMoves, ReturnMoves DEF ComparePending
  <2>5. CASE Admit(t)
    BY <1>1, <2>5, GotoMoves, ReturnMoves DEF Admit
  <2>6. CASE Put(t)
    <3>1. \/ Return(t, Answer("error")) \/ \E id : task' = [task EXCEPT ![t].pc = "index", ![t].id = id]
      BY <2>6 DEF Put
    <3>2. task[t].pc = "put" /\ task[t].todo # <<>>
      BY <1>1, <2>6 DEF Put
    <3>3. ASSUME NEW id, task' = [task EXCEPT ![t].pc = "index", ![t].id = id]
          PROVE  Moves(task[t], task'[t]) /\ task'[t].pc # "resolve"
      <4> DEFINE r == [task[t] EXCEPT !.pc = "index", !.id = id]
      <4>1. task' = [task EXCEPT ![t] = r] /\ r.todo = task[t].todo /\ r.pc = "index"
        BY <1>1, <3>3 DEF TaskInv
      <4> QED BY <3>2, <4>1, FieldsMove
    <3> QED BY <3>1, <3>2, <3>3, ReturnMoves
  <2>7. CASE IndexAndReturn(t)
    BY <1>1, <2>7, ReturnMoves DEF IndexAndReturn
  <2> QED BY <1>8, <2>1, <2>2, <2>3, <2>4, <2>5, <2>6, <2>7 DEF Enqueue
<1>9. CASE Consume(t)
  <2>1. CASE Headroom(t)
    BY <1>1, <2>1, GotoMoves, ReturnMoves DEF Headroom
  <2>2. CASE Claim(t)
    BY <1>1, <2>2, DoneMoves, ReturnMoves DEF Claim
  <2>3. CASE Ack(t)
    BY <1>1, <2>3, GotoMoves, ReturnMoves DEF Ack
  <2>4. CASE AckUnindex(t) \/ LookAtGroup(t)
    BY <1>1, <2>4, ReturnMoves DEF AckUnindex, LookAtGroup
  <2>5. CASE LeaseCallFails(t)
    BY <1>1, <2>5, ReturnMoves DEF LeaseCallFails, BecomesAndFails
  <2>6. CASE Nack(t) \/ Reclaim(t) \/ Resolve(t)
    <3>1. task[t].pc \notin KeyPlaces /\ task[t].todo # <<>>
      BY <1>1, <2>6, LeaseMoves
    <3>2. \/ \E kind : Return(t, Answer(kind))
          \/ \E r : task' = [task EXCEPT ![t] = r] /\ Handles(task[t], r)
      BY <2>6, LeaseMoves
    <3> QED BY <2>6, <3>1, <3>2, FieldsMove, ReturnMoves DEF Handles, HandsOver
  <2> QED BY <1>9, <2>1, <2>2, <2>3, <2>4, <2>5, <2>6 DEF Consume
<1>10. CASE DeadLetters(t)
  <2>1. CASE Triage(t)
    BY <1>1, <2>1, GotoMoves, ReturnMoves DEF Triage
  <2>2. CASE Reprocess(t) \/ Purge(t)
    BY <1>1, <2>2, ReturnMoves DEF Reprocess, Purge
  <2>3. CASE DeadLetterCallFails(t)
    BY <1>1, <2>3, ReturnMoves DEF DeadLetterCallFails, BecomesAndFails
  <2> QED BY <1>10, <2>1, <2>2, <2>3 DEF DeadLetters
<1>11. CASE Configure(t)
  BY <1>1, <1>11, ReturnMoves DEF Configure, ConfigureAdmission, ConfigureRoute, ConfigureTenantQuota
<1>12. CASE Status(t)
  <2>1. CASE AdmissionStatus(t) \/ TenantQuotaReport(t) \/ DashboardTenants(t)
    BY <1>1, <2>1, ReturnMoves DEF AdmissionStatus, TenantQuotaReport, DashboardTenants
  <2>2. CASE TenantQuotaStatus(t)
    <3>1. PICK left : task' = [task EXCEPT ![t].pc = "sum", ![t].left = left, ![t].total = 0]
      BY <2>2 DEF TenantQuotaStatus
    <3> DEFINE r == [task[t] EXCEPT !.pc = "sum", !.left = left, !.total = 0]
    <3>2. task' = [task EXCEPT ![t] = r] /\ r.todo = task[t].todo /\ r.pc = "sum" /\ task[t].pc = "tool"
      BY <1>1, <2>2, <3>1 DEF TaskInv, TenantQuotaStatus
    <3> QED BY <3>2, FieldsMove
  <2>3. CASE DashboardQueues(t)
    BY <2>3, GotoMoves DEF DashboardQueues
  <2> QED BY <1>12, <2>1, <2>2, <2>3 DEF Status
<1> QED BY <1>2, <1>3, <1>4, <1>5, <1>6, <1>7, <1>8, <1>9, <1>10, <1>11, <1>12 DEF Client


-----------------------------------------------------------------------------
(* The calls that mint and revoke                                           *)

\* A key that some call will still draw.
Drawn(key) == \E u \in Tasks : \E i \in Drawing(task[u].todo) : task[u].todo[i].api_key = key

\* A call that neither starts a revocation nor logs one.
Calm(r, s) ==
    /\ Shorter(r, s)
    /\ \A key : /\ Revokes(s, key) => Revokes(r, key)
                /\ RevokeLogged(s, key) => RevokeLogged(r, key)
    /\ s.todo = r.todo /\ r.pc = "mint" => s.pc = "mint"

LEMMA TailDiffers ==
    ASSUME TaskInv, NEW t \in Tasks, task[t].todo # <<>>
    PROVE  Tail(task[t].todo) # task[t].todo
<1>1. PICK calls : task[t].todo \in Seq(calls)
  BY DEF TaskInv, Sound, Formed, AllCalls
<1>2. Len(Tail(task[t].todo)) = Len(task[t].todo) - 1 /\ Len(task[t].todo) \in Nat
  BY <1>1
<1>3. Len(Tail(task[t].todo)) # Len(task[t].todo)
  BY <1>2
<1> QED BY <1>3, Zenon

LEMMA MovesAreCalm ==
    ASSUME TaskInv, NEW t \in Tasks, NEW s, Moves(task[t], s) \/ s = task[t]
    PROVE  Calm(task[t], s)
BY TailDiffers DEF Moves, Calm, Shorter, KeyPlaces, Revokes, RevokeLogged

LEMMA DrawnBefore ==
    ASSUME TaskInv, RevokedInv, \A u \in Tasks : Shorter(task[u], task'[u])
    PROVE  \A key : Drawn(key)' => Unheard(key)
<1> SUFFICES ASSUME NEW key, Drawn(key)' PROVE Unheard(key)
  OBVIOUS
<1>1. PICK u \in Tasks : \E i \in Drawing(task'[u].todo) : task'[u].todo[i].api_key = key
  BY DEF Drawn
<1>2. PICK i \in Drawing(task'[u].todo) : task'[u].todo[i].api_key = key
  BY <1>1
<1> QED BY <1>2, DrawnLater

LEMMA UnusedStep ==
    ASSUME TaskInv, RevokedInv,
           \A u \in Tasks : /\ Shorter(task[u], task'[u])
                            /\ task'[u].todo = task[u].todo /\ task[u].pc = "mint" => task'[u].pc = "mint",
           \A u \in Tasks : \A i \in Drawing(task'[u].todo) :
             task'[u].todo[i].api_key \in MintedIn(keystore'.file) =>
               task'[u].todo[i].api_key \in MintedIn(keystore.file) \/ (i = 1 /\ task'[u].pc = "mint"),
           \A key : Drawn(key)' => Unheard(key)'
    PROVE  \A t \in Tasks : Unused(task[t])'
<1> SUFFICES ASSUME NEW u \in Tasks, NEW i \in Drawing(task'[u].todo),
                    NEW key, key = task'[u].todo[i].api_key
             PROVE  Unheard(key)' /\ (key \in MintedIn(keystore'.file) => i = 1 /\ task'[u].pc = "mint")
  BY DEF Unused
<1>1. key \in MintedIn(keystore.file) => i = 1 /\ task[u].pc = "mint" /\ task'[u].todo = task[u].todo
  BY DrawnLater
<1>2. Drawn(key)'
  BY DEF Drawn
<1>3. Unheard(key)'
  BY <1>2
<1> QED BY <1>1, <1>3

\* Calm calls, with the keys and the log as they were, or less.
LEMMA CalmStep ==
    ASSUME TaskInv, RevokedInv, \A u \in Tasks : Calm(task[u], task'[u]),
           keystore' = keystore, ghost'.revoked = ghost.revoked
    PROVE  RevokedInv'
<1>1. \A u \in Tasks : Shorter(task[u], task'[u])
  BY DEF Calm
<1>2. DrawnOnce'
  BY <1>1, DrawnOnceStep DEF RevokedInv
<1>3. \A key : Unheard(key) => Unheard(key)'
  BY DEF Unheard, Calm
<1>4. \A t \in Tasks : Unused(task[t])'
  BY <1>1, <1>3, DrawnBefore, UnusedStep DEF Calm
<1>5. \A key : RevocationLogged(key)' => RevocationLogged(key)
  BY DEF RevocationLogged, Calm
<1> QED BY <1>2, <1>4, <1>5 DEF RevokedInv

LEMMA OneCalls ==
    ASSUME TaskInv, NEW t \in Tasks, Client(t), Calm(task[t], task'[t])
    PROVE  \A u \in Tasks : Calm(task[u], task'[u])
<1> SUFFICES ASSUME NEW u \in Tasks, u # t PROVE Calm(task[u], task'[u])
  OBVIOUS
<1>1. task'[u] = task[u]
  BY OthersWait DEF TaskInv
<1> QED BY <1>1, MovesAreCalm

LEMMA LoggedFacts ==
    ASSUME KeysInv, Remembers(ghost), NEW t \in Tasks, NEW record, NEW next, KeysLogged(t, record, next),
           ~ghost'.damaged
    PROVE  /\ Untorn(keystore'.file) /\ keystore'.keys = keystore.keys /\ ghost'.revoked = ghost.revoked
           /\ \A key \in LiveIn(keystore'.file) :
                key \in LiveIn(keystore.file) \/ (record.kind = "Mint" /\ key = record.key)
           /\ \A key \in MintedIn(keystore'.file) :
                key \in MintedIn(keystore.file) \/ (record.kind = "Mint" /\ key = record.key)
           /\ \/ Return(t, Answer("error"))
              \/ /\ Goto(t, next)
                 /\ record.kind # "Mint" => record.key \notin LiveIn(keystore'.file)
<1>1. PICK r \in ApiKeys!Logged(keystore, record) :
        /\ keystore' = r.store
        /\ IF r.ok THEN Goto(t, next) ELSE Return(t, Answer("error"))
        /\ ghost' = [ghost EXCEPT !.damaged = @ \/ \E i \in DOMAIN r.store.file :
                                                     ApiKeys!W!IsTorn(r.store.file[i])]
  BY DEF KeysLogged
<1>r. r \in ApiKeys!Logged(keystore, record)
  BY <1>1
<1>s. PICK a \in ApiKeys!W!append(keystore.file, record) :
        r = [ok |-> a.ok, store |-> [keystore EXCEPT !.file = a.file]]
  BY <1>r, ZenonT(30) DEF ApiKeys!Logged
<1>2. r.ok = a.ok /\ r.store = [keystore EXCEPT !.file = a.file]
  BY <1>s
<1>3. r.store.file = a.file /\ r.store.keys = keystore.keys
  BY <1>2 DEF KeysInv, KeysOfTenants
<1>4. ghost'.revoked = ghost.revoked /\ Untorn(r.store.file)
  <2> DEFINE torn == \E i \in DOMAIN r.store.file : ApiKeys!W!IsTorn(r.store.file[i])
  <2>1. ghost' = [ghost EXCEPT !.damaged = @ \/ torn]
    BY <1>1
  <2> HIDE DEF torn
  <2>2. ghost'.revoked = ghost.revoked /\ ~torn
    BY <2>1 DEF Remembers
  <2> QED BY <2>2 DEF torn, Untorn
<1>5. PICK frames : keystore.file \in Seq(frames)
  BY DEF KeysInv, KeysOfTenants, MintsForTenants
<1>6. a.file # Append(keystore.file, ApiKeys!W!Torn)
  <2> DEFINE torn == Append(keystore.file, ApiKeys!W!Torn)
             n == Len(keystore.file) + 1
  <2>1. n \in DOMAIN torn /\ torn[n] = ApiKeys!W!Torn
    BY <1>5
  <2>2. ~Untorn(torn)
    BY <2>1 DEF Untorn, ApiKeys!W!IsTorn
  <2> QED BY <1>3, <1>4, <2>2
<1>7. /\ a.file = keystore.file \/ a.file = Append(keystore.file, record)
      /\ a.ok => a.file = Append(keystore.file, record)
  BY <1>6 DEF ApiKeys!W!append
<1>8. \A key \in LiveIn(Append(keystore.file, record)) :
        \/ key \in LiveIn(keystore.file) /\ key # record.key
        \/ record.kind = "Mint" /\ key = record.key
  BY <1>5, LogAppends
<1>9. \A key \in MintedIn(Append(keystore.file, record)) :
        key \in MintedIn(keystore.file) \/ (record.kind = "Mint" /\ key = record.key)
  BY <1>5, LogAppends
<1>10. /\ \A key \in LiveIn(a.file) :
            key \in LiveIn(keystore.file) \/ (record.kind = "Mint" /\ key = record.key)
       /\ \A key \in MintedIn(a.file) :
            key \in MintedIn(keystore.file) \/ (record.kind = "Mint" /\ key = record.key)
       /\ a.ok /\ record.kind # "Mint" => record.key \notin LiveIn(a.file)
  BY <1>7, <1>8, <1>9
<1> QED BY <1>1, <1>2, <1>3, <1>4, <1>10


LEMMA CallAtHead ==
    ASSUME TaskInv, NEW t \in Tasks, task[t].todo # <<>>
    PROVE  /\ Call(t) = task[t].todo[1]
           /\ Call(t).tool = "create_api_key" => 1 \in Drawing(task[t].todo)
<1>1. PICK calls : task[t].todo \in Seq(calls)
  BY DEF TaskInv, Sound, Formed, AllCalls
<1>2. 1 \in DOMAIN task[t].todo /\ Head(task[t].todo) = task[t].todo[1]
  BY <1>1
<1> QED BY <1>2 DEF Call, Drawing

LEMMA MintLogKeeps ==
    ASSUME TaskInv, KeysInv, Remembers(ghost), RevokedInv, NEW t \in Tasks, MintLog(t), ~ghost'.damaged
    PROVE  RevokedInv'
<1> DEFINE k == Call(t).api_key
<1>1. /\ Client(t) /\ task[t].pc = "tool" /\ task[t].todo # <<>> /\ Call(t) = task[t].todo[1]
      /\ 1 \in Drawing(task[t].todo)
  BY CallHere, CallAtHead DEF MintLog, Running, At, Client, KeyCalls
<1>2. PICK tenant \in Call(t).tenant : KeysLogged(t, ApiKeys!Mint(k, tenant), "mint")
  BY DEF MintLog
<1> DEFINE record == ApiKeys!Mint(k, tenant)
<1>3. record.kind = "Mint" /\ record.key = k
  BY DEF ApiKeys!Mint
<1> HIDE DEF record
<1>4. KeysLogged(t, record, "mint")
  BY <1>2 DEF record
<1>5. /\ Untorn(keystore'.file) /\ keystore'.keys = keystore.keys /\ ghost'.revoked = ghost.revoked
      /\ \A key \in LiveIn(keystore'.file) : key \in LiveIn(keystore.file) \/ key = k
      /\ \A key \in MintedIn(keystore'.file) : key \in MintedIn(keystore.file) \/ key = k
      /\ Return(t, Answer("error")) \/ Goto(t, "mint")
  BY <1>3, <1>4, LoggedFacts
<1>6. /\ Calm(task[t], task'[t])
      /\ task'[t].todo = task[t].todo => task'[t].pc = "mint"
  <2>1. CASE Return(t, Answer("error"))
    BY <1>1, <2>1, ReturnMoves, MovesAreCalm, TailDiffers
  <2>2. CASE Goto(t, "mint")
    <3>1. task'[t].todo = task[t].todo /\ task'[t].pc = "mint"
      BY <2>2, GotoMoves
    <3> QED BY <3>1 DEF Calm, Shorter, Revokes, RevokeLogged
  <2> QED BY <1>5, <2>1, <2>2
<1>7. \A u \in Tasks : Calm(task[u], task'[u])
  BY <1>1, <1>6, OneCalls
<1>8. \A u \in Tasks : Shorter(task[u], task'[u])
  BY <1>7 DEF Calm
<1>9. \A key : Drawn(key)' => Unheard(key)'
  BY <1>5, <1>7, <1>8, DrawnBefore DEF Unheard, Calm
<1>10. ASSUME NEW u \in Tasks, NEW i \in Drawing(task'[u].todo),
              task'[u].todo[i].api_key \in MintedIn(keystore'.file)
       PROVE  task'[u].todo[i].api_key \in MintedIn(keystore.file) \/ (i = 1 /\ task'[u].pc = "mint")
  <2>1. CASE task'[u].todo[i].api_key # k
    BY <1>5, <1>10, <2>1
  <2>2. CASE task'[u].todo[i].api_key = k
    <3>1. t = u /\ i = 1 /\ task'[u].todo = task[u].todo
      BY <1>1, <1>8, <2>2, DrawnLater
    <3> QED BY <1>6, <3>1
  <2> QED BY <2>1, <2>2
<1>11. \A u \in Tasks : Unused(task[u])'
  BY <1>7, <1>8, <1>9, <1>10, UnusedStep DEF Calm
<1>12. \A key : RevocationLogged(key)' => RevocationLogged(key)
  BY <1>5, <1>7 DEF RevocationLogged, Calm
<1>13. ~RevocationLogged(k)
  <2>1. Unheard(k)
    BY <1>1 DEF RevokedInv, Unused
  <2> QED BY <2>1 DEF Unheard, RevocationLogged, RevokeLogged, Revokes
<1>14. \A key \in LiveIn(keystore'.file) : ~RevocationLogged(key)'
  BY <1>5, <1>12, <1>13 DEF RevokedInv
<1>15. DrawnOnce' /\ ghost'.revoked \cap DOMAIN keystore'.keys = {}
  BY <1>5, <1>8, DrawnOnceStep DEF RevokedInv
<1> QED BY <1>5, <1>11, <1>14, <1>15 DEF RevokedInv

LEMMA MintInsertKeeps ==
    ASSUME TaskInv, KeysInv, RevokedInv, NEW t \in Tasks, MintInsert(t)
    PROVE  RevokedInv'
<1> DEFINE k == Call(t).api_key
<1>1. /\ Client(t) /\ task[t].pc = "mint" /\ task[t].todo # <<>> /\ Call(t) = task[t].todo[1]
      /\ 1 \in Drawing(task[t].todo)
  BY CallHere, CallAtHead DEF MintInsert, At, Client, KeyCalls, TaskInv, Sound, Placed, Call
<1>2. /\ Return(t, Answer("ok")) /\ ghost' = ghost
      /\ keystore' = ApiKeys!Minted(keystore, k, The(Call(t).tenant))
  BY DEF MintInsert
<1>3. keystore'.file = keystore.file /\ DOMAIN keystore'.keys = DOMAIN keystore.keys \cup {k}
  BY <1>2 DEF ApiKeys!Minted, KeysInv, KeysOfTenants
<1>4. task'[t].todo # task[t].todo /\ Calm(task[t], task'[t])
  BY <1>1, <1>2, ReturnMoves, MovesAreCalm, TailDiffers
<1>5. \A u \in Tasks : Calm(task[u], task'[u])
  BY <1>1, <1>4, OneCalls
<1>6. \A u \in Tasks : Shorter(task[u], task'[u])
  BY <1>5 DEF Calm
<1>7. \A key : Drawn(key)' => key # k
  <2> SUFFICES ASSUME NEW u \in Tasks, NEW i \in Drawing(task'[u].todo), task'[u].todo[i].api_key = k
               PROVE  FALSE
    BY DEF Drawn
  <2>1. t = u /\ task'[u].todo = task[u].todo
    BY <1>1, <1>6, DrawnLater
  <2> QED BY <1>4, <2>1
<1>8. \A key : Drawn(key)' => Unheard(key)'
  <2> SUFFICES ASSUME NEW key, Drawn(key)' PROVE Unheard(key)'
    OBVIOUS
  <2>1. Unheard(key) /\ key # k
    BY <1>6, <1>7, DrawnBefore
  <2> QED BY <1>2, <1>3, <1>5, <2>1 DEF Unheard, Calm
<1>9. \A u \in Tasks : Unused(task[u])'
  BY <1>3, <1>5, <1>6, <1>8, UnusedStep DEF Calm
<1>10. \A key : RevocationLogged(key)' => RevocationLogged(key)
  BY <1>2, <1>5 DEF RevocationLogged, Calm
<1>11. k \notin ghost.revoked
  BY <1>1 DEF RevokedInv, Unused, Unheard
<1>12. DrawnOnce' /\ ghost'.revoked \cap DOMAIN keystore'.keys = {}
  BY <1>2, <1>3, <1>6, <1>11, DrawnOnceStep DEF RevokedInv
<1> QED BY <1>3, <1>9, <1>10, <1>12 DEF RevokedInv

LEMMA RevokeLookKeeps ==
    ASSUME TaskInv, RevokedInv, NEW t \in Tasks, RevokeLook(t)
    PROVE  RevokedInv'
<1> DEFINE k == Call(t).api_key
<1>1. /\ Client(t) /\ task[t].pc = "tool" /\ task[t].todo # <<>> /\ keystore' = keystore /\ ghost' = ghost
  BY CallHere DEF RevokeLook, Running, At, Client, KeyCalls
<1>2. Return(t, Answer("not_found")) \/ (k \in DOMAIN keystore.keys /\ Goto(t, "revoke_log"))
  BY DEF RevokeLook
<1>3. CASE Return(t, Answer("not_found"))
  <2>1. Calm(task[t], task'[t])
    BY <1>1, <1>3, ReturnMoves, MovesAreCalm
  <2> QED BY <1>1, <2>1, OneCalls, CalmStep
<1>4. CASE k \in DOMAIN keystore.keys /\ Goto(t, "revoke_log")
  <2>1. task'[t].todo = task[t].todo /\ task'[t].pc = "revoke_log"
    BY <1>4, GotoMoves
  <2>2. \A u \in Tasks \ {t} : task'[u] = task[u]
    BY <1>1, OthersWait DEF TaskInv
  <2>3. \A u \in Tasks : /\ Shorter(task[u], task'[u])
                         /\ task'[u].todo = task[u].todo /\ task[u].pc = "mint" => task'[u].pc = "mint"
    BY <1>1, <2>1, <2>2 DEF Shorter
  <2>4. \A key : \A u \in Tasks : Revokes(task'[u], key) => key = k \/ Revokes(task[u], key)
    BY <2>1, <2>2 DEF Revokes, Call
  <2>5. \A key : Unheard(key) => Unheard(key)'
    BY <1>1, <1>4, <2>4 DEF Unheard
  <2>6. \A u \in Tasks : Unused(task[u])'
    BY <1>1, <2>3, <2>5, DrawnBefore, UnusedStep
  <2>7. \A key : RevocationLogged(key)' => RevocationLogged(key)
    BY <1>1, <2>1, <2>2 DEF RevocationLogged, RevokeLogged
  <2>8. DrawnOnce'
    BY <2>3, DrawnOnceStep DEF RevokedInv
  <2> QED BY <1>1, <2>6, <2>7, <2>8 DEF RevokedInv
<1> QED BY <1>2, <1>3, <1>4

LEMMA RevokeLogKeeps ==
    ASSUME TaskInv, KeysInv, Remembers(ghost), RevokedInv, NEW t \in Tasks, RevokeLog(t), ~ghost'.damaged
    PROVE  RevokedInv'
<1> DEFINE k == Call(t).api_key
           record == ApiKeys!Revoke(k)
<1>1. Client(t) /\ task[t].pc = "revoke_log" /\ task[t].todo # <<>>
  BY CallHere DEF RevokeLog, At, Client, KeyCalls
<1>2. record.kind # "Mint" /\ record.key = k
  BY DEF ApiKeys!Revoke
<1>3. KeysLogged(t, record, "revoke")
  BY DEF RevokeLog
<1> HIDE DEF record
<1>4. /\ Untorn(keystore'.file) /\ keystore'.keys = keystore.keys /\ ghost'.revoked = ghost.revoked
      /\ LiveIn(keystore'.file) \subseteq LiveIn(keystore.file)
      /\ MintedIn(keystore'.file) \subseteq MintedIn(keystore.file)
      /\ Return(t, Answer("error")) \/ (Goto(t, "revoke") /\ k \notin LiveIn(keystore'.file))
  BY <1>2, <1>3, LoggedFacts
<1>5. /\ Shorter(task[t], task'[t])
      /\ \A key : Revokes(task'[t], key) => Revokes(task[t], key)
      /\ \A key \in LiveIn(keystore'.file) : ~RevokeLogged(task'[t], key)
  <2>1. CASE Return(t, Answer("error"))
    <3>1. task'[t].todo = Tail(task[t].todo) /\ task'[t].pc = "idle"
      BY <1>1, <2>1, ReturnMoves
    <3> QED BY <1>1, <3>1 DEF Shorter, Revokes, RevokeLogged
  <2>2. CASE Goto(t, "revoke") /\ k \notin LiveIn(keystore'.file)
    <3>1. task'[t].todo = task[t].todo /\ task'[t].pc = "revoke"
      BY <2>2, GotoMoves
    <3> QED BY <1>1, <2>2, <3>1 DEF Shorter, Revokes, RevokeLogged, Call
  <2> QED BY <1>4, <2>1, <2>2
<1>6. \A u \in Tasks \ {t} : task'[u] = task[u]
  BY <1>1, OthersWait DEF TaskInv
<1>7. \A u \in Tasks : /\ Shorter(task[u], task'[u])
                       /\ task'[u].todo = task[u].todo /\ task[u].pc = "mint" => task'[u].pc = "mint"
                       /\ \A key : Revokes(task'[u], key) => Revokes(task[u], key)
  BY <1>1, <1>5, <1>6 DEF Shorter
<1>8. \A key : Unheard(key) => Unheard(key)'
  BY <1>4, <1>7 DEF Unheard
<1>9. \A u \in Tasks : Unused(task[u])'
  BY <1>4, <1>7, <1>8, DrawnBefore, UnusedStep
<1>10. \A key \in LiveIn(keystore'.file) : ~RevocationLogged(key)'
  BY <1>4, <1>5, <1>6 DEF RevokedInv, RevocationLogged
<1>11. DrawnOnce' /\ ghost'.revoked \cap DOMAIN keystore'.keys = {}
  BY <1>4, <1>7, DrawnOnceStep DEF RevokedInv
<1> QED BY <1>4, <1>9, <1>10, <1>11 DEF RevokedInv

LEMMA RevokeRemoveKeeps ==
    ASSUME TaskInv, KeysInv, Remembers(ghost), RevokedInv, NEW t \in Tasks, RevokeRemove(t)
    PROVE  RevokedInv'
<1> DEFINE k == Call(t).api_key
<1>1. Client(t) /\ task[t].pc = "revoke" /\ task[t].todo # <<>> /\ \E kind : Return(t, Answer(kind))
  BY CallHere DEF RevokeRemove, At, Client, KeyCalls
<1>2. Revokes(task[t], k) /\ RevokeLogged(task[t], k)
  BY <1>1 DEF Revokes, RevokeLogged, Call
<1>3. keystore'.file = keystore.file /\ DOMAIN keystore'.keys = DOMAIN keystore.keys \ {k}
  <2>1. keystore' = ApiKeys!Revoked(keystore, k)
    BY DEF RevokeRemove
  <2> QED BY <2>1 DEF ApiKeys!Revoked, ApiKeys!Restrict, Restrict, KeysInv, KeysOfTenants
<1>4. ghost'.revoked = ghost.revoked \cup {k}
  BY DEF RevokeRemove, Remembers
<1>5. \A u \in Tasks : Calm(task[u], task'[u])
  BY <1>1, ReturnMoves, MovesAreCalm, OneCalls
<1>6. \A u \in Tasks : Shorter(task[u], task'[u])
  BY <1>5 DEF Calm
<1>7. \A key : Unheard(key) => Unheard(key)'
  BY <1>2, <1>3, <1>4, <1>5 DEF Unheard, Calm
<1>8. \A u \in Tasks : Unused(task[u])'
  BY <1>3, <1>5, <1>6, <1>7, DrawnBefore, UnusedStep DEF Calm
<1>9. \A key : RevocationLogged(key)' => RevocationLogged(key)
  BY <1>2, <1>4, <1>5 DEF RevocationLogged, Calm
<1>10. DrawnOnce' /\ ghost'.revoked \cap DOMAIN keystore'.keys = {}
  BY <1>3, <1>4, <1>6, DrawnOnceStep DEF RevokedInv
<1> QED BY <1>3, <1>8, <1>9, <1>10 DEF RevokedInv

\* A restart takes the keys from the log and ends every call.
LEMMA RestartKeeps ==
    ASSUME TaskInv, Remembers(ghost), RevokedInv, Restart
    PROVE  RevokedInv'
<1>1. keystore' = ApiKeys!open(keystore.file) /\ ghost'.revoked = ghost.revoked
  BY DEF Restart, Fresh, Remembers
<1>2. keystore'.file = keystore.file /\ DOMAIN keystore'.keys = LiveIn(keystore.file)
  BY <1>1, OpensWhole DEF RevokedInv
<1>3. ASSUME NEW u \in Tasks
      PROVE  \/ task'[u] = task[u] /\ task[u].pc = "idle"
             \/ task[u].todo # <<>> /\ task'[u].todo = Tail(task[u].todo) /\ task'[u].pc = "idle"
  <2>1. task' = [t \in Tasks |-> IF At(t, "idle") THEN task[t]
                                 ELSE [NewTask(Tail(task[t].todo)) EXCEPT !.held = task[t].held]]
    BY DEF Restart
  <2>2. CASE At(u, "idle")
    BY <2>1, <2>2 DEF At
  <2>3. CASE ~At(u, "idle")
    <3>1. task[u].todo # <<>>
      BY <2>3, CallHere DEF At
    <3>2. task'[u] = [NewTask(Tail(task[u].todo)) EXCEPT !.held = task[u].held]
      BY <2>1, <2>3
    <3> QED BY <3>1, <3>2 DEF NewTask
  <2> QED BY <2>2, <2>3
<1>4. \A u \in Tasks : Calm(task[u], task'[u])
  BY <1>3, MovesAreCalm DEF Moves
<1>5. \A u \in Tasks : Shorter(task[u], task'[u])
  BY <1>4 DEF Calm
<1>6. \A key : Drawn(key)' => Unheard(key)'
  <2> SUFFICES ASSUME NEW u \in Tasks, NEW i \in Drawing(task'[u].todo), NEW key,
                      key = task'[u].todo[i].api_key
               PROVE  Unheard(key)'
    BY DEF Drawn
  <2>1. Unheard(key) /\ key \notin MintedIn(keystore.file)
    <3>1. ~(task[u].pc = "mint" /\ task'[u].todo = task[u].todo)
      BY <1>3, TailDiffers
    <3> QED BY <1>5, <3>1, DrawnLater
  <2>2. key \notin DOMAIN keystore'.keys
    BY <1>2, <2>1, LiveMinted
  <2> QED BY <1>1, <1>4, <2>1, <2>2 DEF Unheard, Calm
<1>7. \A u \in Tasks : Unused(task[u])'
  BY <1>2, <1>4, <1>5, <1>6, UnusedStep DEF Calm
<1>8. \A key : RevocationLogged(key)' => RevocationLogged(key)
  BY <1>1, <1>4 DEF RevocationLogged, Calm
<1>9. DrawnOnce' /\ ghost'.revoked \cap DOMAIN keystore'.keys = {}
  BY <1>1, <1>2, <1>5, DrawnOnceStep DEF RevokedInv, RevocationLogged
<1> QED BY <1>2, <1>7, <1>8, <1>9 DEF RevokedInv

LEMMA KeyLogInit == Init => KeyLogInv
<1> SUFFICES ASSUME Init PROVE RevokedInv
  BY DEF KeyLogInv
<1>1. /\ workload \in Workloads /\ keystore = ApiKeys!open(workload.keys) /\ ghost.revoked = {}
      /\ task = [t \in Tasks |-> NewTask(workload.calls[t])]
  BY DEF Init, Fresh, NewGhost
<1>2. workload.keys \in Seq(ApiKeys!WalRecord(Keys, Tenants))
  BY <1>1, TenantsAssumption
<1>3. Untorn(workload.keys)
  <2>1. \A f \in ApiKeys!WalRecord(Keys, Tenants) : f.kind \in {"Mint", "Revoke"}
    BY DEF ApiKeys!WalRecord, ApiKeys!Mint, ApiKeys!Revoke
  <2>2. ApiKeys!W!Torn.kind = "torn"
    BY DEF ApiKeys!W!Torn
  <2> QED BY <1>2, <2>1, <2>2 DEF Untorn, ApiKeys!W!IsTorn
<1>4. keystore.file = workload.keys /\ DOMAIN keystore.keys = LiveIn(workload.keys)
  BY <1>1, <1>3, OpensWhole
<1>5. \A t \in Tasks : task[t].todo = workload.calls[t] /\ task[t].pc = "idle"
  BY <1>1 DEF NewTask
<1>6. DrawnOnce
  BY <1>1, <1>5, KeysAssumption DEF DrawnOnce
<1>7. ASSUME NEW t \in Tasks, NEW i \in Drawing(task[t].todo)
      PROVE  task[t].todo[i].api_key \notin MintedIn(keystore.file)
  <2>1. \A record \in Range(workload.keys) : record.kind = "Mint" => record.key # task[t].todo[i].api_key
    BY <1>1, <1>5, <1>7, KeysAssumption
  <2>2. \A j \in DOMAIN workload.keys : workload.keys[j] \in Range(workload.keys)
    BY DEF Range
  <2> QED BY <1>4, <2>1, <2>2 DEF MintedIn
<1>8. \A t \in Tasks : Unused(task[t])
  BY <1>1, <1>4, <1>5, <1>7, LiveMinted DEF Unused, Unheard, Revokes
<1>9. \A key : ~RevocationLogged(key)
  BY <1>1, <1>5 DEF RevocationLogged, RevokeLogged
<1> QED BY <1>1, <1>3, <1>4, <1>6, <1>8, <1>9 DEF RevokedInv

\* A log that has half a frame keeps it from being looked at again.
LEMMA DamageStays ==
    ASSUME Remembers(ghost), ghost.damaged, [Next]_vars
    PROVE  ghost'.damaged
<1>1. ASSUME NEW t \in Tasks, KeyCalls(t) PROVE ghost'.damaged
  BY <1>1 DEF KeyCalls, MintLog, MintInsert, RevokeLook, RevokeLog, RevokeRemove, KeysLogged, Remembers
<1>2. ASSUME NEW t \in Tasks, Client(t) PROVE ghost'.damaged
  BY <1>1, <1>2, KeysUntouched
<1>3. CASE Tick \/ Restart
  BY <1>3 DEF Tick, Restart, Remembers
<1>4. ASSUME (\E w \in Workers : AuditReceive(w) \/ AuditWrite(w)) \/ UNCHANGED vars
      PROVE  ghost'.damaged
  BY <1>4 DEF AuditReceive, AuditWrite, vars
<1> QED BY <1>2, <1>3, <1>4 DEF Next, Client

LEMMA KeyLogNext == TenantInv /\ Remembers(ghost) /\ KeyLogInv /\ [Next]_vars => KeyLogInv'
<1> SUFFICES ASSUME TenantInv, Remembers(ghost), KeyLogInv, [Next]_vars, ~ghost'.damaged
             PROVE  RevokedInv'
  BY DEF KeyLogInv
<1>1. TaskInv /\ KeysInv /\ RevokedInv
  BY DamageStays DEF TenantInv, KeyLogInv
<1>2. ASSUME NEW t \in Tasks, KeyCalls(t) PROVE RevokedInv'
  BY <1>1, <1>2, MintLogKeeps, MintInsertKeeps, RevokeLookKeeps, RevokeLogKeeps, RevokeRemoveKeeps
     DEF KeyCalls
<1>3. ASSUME NEW t \in Tasks, Client(t), ~KeyCalls(t) PROVE RevokedInv'
  BY <1>1, <1>3, KeysUntouched, OthersMove, MovesAreCalm, OneCalls, CalmStep
<1>4. ASSUME UNCHANGED <<keystore, task>>, ghost'.revoked = ghost.revoked PROVE RevokedInv'
  <2>1. \A u \in Tasks : Calm(task[u], task'[u])
    BY <1>1, <1>4, MovesAreCalm
  <2> QED BY <1>1, <1>4, <2>1, CalmStep
<1>5. CASE Tick
  BY <1>4, <1>5 DEF Tick, Remembers
<1>6. ASSUME (\E w \in Workers : AuditReceive(w) \/ AuditWrite(w)) \/ UNCHANGED vars
      PROVE  RevokedInv'
  BY <1>4, <1>6 DEF AuditReceive, AuditWrite, vars
<1>7. CASE Restart
  BY <1>1, <1>7, RestartKeeps
<1> QED BY <1>2, <1>3, <1>5, <1>6, <1>7 DEF Next, Client

\* ApiKeyStore's mint, revoke and open, called by any number of operators at once and cut
\* at every lock and every write: a key whose revocation was confirmed authenticates
\* nobody, in this process or, from a log with no half frame in it, in a later one.
THEOREM RevocationsHold == Spec => []RevokedStaysRevoked
<1>1. KeyLogInv => RevokedStaysRevoked
  BY DEF KeyLogInv, RevokedInv, RevokedStaysRevoked
<1>2. AgedInv => Remembers(ghost)
  BY DEF AgedInv
<1> QED BY <1>1, <1>2, TenantInit, TenantNext, AgedInit, AgedNext, KeyLogInit, KeyLogNext, PTL DEF Spec

-----------------------------------------------------------------------------
(* The ceiling on pending messages                                          *)

\* Where a call is on its way to put a message.
Enqueuing == {"dedup", "pending", "admit", "put", "index"}
Underway(r) == r.pc \in Enqueuing \/ (r.pc = "sum" /\ Head(r.todo).tool = "enqueue")

\* Only an enqueue is there, its queue is open, and its client is an enqueuer.
CallerInv ==
    \A t \in Tasks :
      /\ Underway(task[t]) => Head(task[t].todo).tool = "enqueue" /\ Scope(t) \in groups
      /\ \A i \in DOMAIN task[t].todo : task[t].todo[i].tool = "enqueue" => t \in Enqueuers

\* A call that is not on its way to put a message, or is over.
LEMMA DoneStopsBefore ==
    ASSUME TaskInv, NEW t \in Tasks, NEW answer, NEW held, Done(t, answer, held), task[t].todo # <<>>
    PROVE  ~Underway(task'[t])
BY DoneMoves DEF Underway, Enqueuing

LEMMA ReturnStops ==
    ASSUME TaskInv, NEW t \in Tasks, NEW answer, Return(t, answer), task[t].todo # <<>>
    PROVE  ~Underway(task'[t])
BY DoneStopsBefore DEF Return

\* The actions by which a call comes to, or stays on, that way.
EnqueueStep(t) ==
    Get(t) \/ SumOne(t) \/ Dedup(t) \/ ReadPendingLimit(t) \/ ComparePending(t) \/ Admit(t) \/ Put(t)

LEMMA GotoStops ==
    ASSUME TaskInv, NEW t \in Tasks, NEW pc, pc \notin Enqueuing \cup {"sum"}, Goto(t, pc)
    PROVE  ~Underway(task'[t])
BY GotoMoves DEF Underway

LEMMA OthersKeepOff ==
    ASSUME TaskInv, NEW t \in Tasks, Client(t), ~EnqueueStep(t)
    PROVE  ~Underway(task'[t])
<1> USE DEF At, Running, EnqueueStep
<1>1. /\ task[t].todo # <<>> \/ task[t].pc = "idle"
      /\ DOMAIN task[t] = {"todo", "pc", "tenant", "queue", "left", "total", "limit", "id", "batch", "held", "answer"}
      /\ DOMAIN task = Tasks
  BY DEF TaskInv, Sound, Formed
<1>2. CASE StdioCall(t)
  <2> DEFINE r == [task[t] EXCEPT !.pc = "tool", !.tenant = Stdio, !.answer = NoAnswer,
                                  !.queue = Named(Call(t))]
  <2>1. task'[t] = r
    BY <1>1, <1>2 DEF StdioCall
  <2>2. r.pc = "tool"
    BY <1>1
  <2> QED BY <2>1, <2>2 DEF Underway, Enqueuing
<1>3. CASE RequireTenant(t)
  <2> DEFINE tenant == The(CredentialTenant(Call(t).credential))
             r == [task[t] EXCEPT !.pc = "authorize", !.tenant = tenant, !.answer = NoAnswer,
                                  !.queue = Named(Call(t))]
  <2>1. task[t].todo # <<>>
    BY <1>3 DEF RequireTenant
  <2>2. Return(t, Answer("unauthorized")) \/ task'[t] = r
    BY <1>1, <1>3 DEF RequireTenant
  <2>3. r.pc = "authorize"
    BY <1>1
  <2> QED BY <2>1, <2>2, <2>3, ReturnStops DEF Underway, Enqueuing
<1>4. CASE Authorize(t)
  BY <1>1, <1>4, GotoStops, ReturnStops DEF Authorize, Enqueuing
<1>5. CASE Refuse(t)
  BY <1>1, <1>5, ReturnStops
     DEF Refuse, RejectName, RejectId, RejectKey, RefuseTenant, RejectTenantId, WantsQueue
<1>6. CASE Enqueue(t)
  <2>1. CASE ResolveTargetQueue(t)
    <3>1. \/ Goto(t, "get") \/ Return(t, Answer("invalid"))
          \/ \E q : task' = [task EXCEPT ![t].pc = "get", ![t].queue = q]
      BY <2>1 DEF ResolveTargetQueue
    <3>2. task[t].pc = "tool" /\ task[t].todo # <<>>
      BY <1>1, <2>1 DEF ResolveTargetQueue
    <3>3. ASSUME NEW q, task' = [task EXCEPT ![t].pc = "get", ![t].queue = q]
          PROVE  ~Underway(task'[t])
      BY <1>1, <3>3 DEF Underway, Enqueuing
    <3> QED BY <3>1, <3>2, <3>3, GotoStops, ReturnStops DEF Enqueuing
  <2>2. CASE IndexAndReturn(t)
    BY <1>1, <2>2, ReturnStops DEF IndexAndReturn
  <2> QED BY <1>6, <2>1, <2>2 DEF Enqueue
<1>7. CASE Consume(t)
  <2>1. CASE Headroom(t)
    BY <1>1, <2>1, GotoStops, ReturnStops DEF Headroom, Enqueuing
  <2>2. CASE Claim(t)
    BY <1>1, <2>2, DoneStopsBefore, ReturnStops DEF Claim
  <2>3. CASE Ack(t)
    BY <1>1, <2>3, GotoStops, ReturnStops DEF Ack, Enqueuing
  <2>4. CASE AckUnindex(t) \/ LookAtGroup(t)
    BY <1>1, <2>4, ReturnStops DEF AckUnindex, LookAtGroup
  <2>5. CASE LeaseCallFails(t)
    BY <1>1, <2>5, ReturnStops DEF LeaseCallFails, BecomesAndFails
  <2>6. CASE Nack(t) \/ Reclaim(t) \/ Resolve(t)
    <3>1. /\ task[t].todo # <<>>
          /\ \/ \E kind : Return(t, Answer(kind))
             \/ \E r : task' = [task EXCEPT ![t] = r] /\ Handles(task[t], r)
      BY <1>1, <2>6, LeaseMoves
    <3> QED BY <1>1, <3>1, ReturnStops DEF Handles, Underway, Enqueuing
  <2> QED BY <1>7, <2>1, <2>2, <2>3, <2>4, <2>5, <2>6 DEF Consume
<1>8. CASE DeadLetters(t)
  <2>1. CASE Triage(t)
    BY <1>1, <2>1, GotoStops, ReturnStops DEF Triage, Enqueuing
  <2>2. CASE Reprocess(t) \/ Purge(t)
    BY <1>1, <2>2, ReturnStops DEF Reprocess, Purge
  <2>3. CASE DeadLetterCallFails(t)
    BY <1>1, <2>3, ReturnStops DEF DeadLetterCallFails, BecomesAndFails
  <2> QED BY <1>8, <2>1, <2>2, <2>3 DEF DeadLetters
<1>9. CASE Configure(t)
  BY <1>1, <1>9, ReturnStops DEF Configure, ConfigureAdmission, ConfigureRoute, ConfigureTenantQuota
<1>10. CASE Status(t)
  <2>1. CASE AdmissionStatus(t) \/ TenantQuotaReport(t) \/ DashboardTenants(t)
    BY <1>1, <2>1, ReturnStops DEF AdmissionStatus, TenantQuotaReport, DashboardTenants
  <2>2. CASE TenantQuotaStatus(t)
    <3>1. PICK left : task' = [task EXCEPT ![t].pc = "sum", ![t].left = left, ![t].total = 0]
      BY <2>2 DEF TenantQuotaStatus
    <3>2. task'[t].pc = "sum" /\ task'[t].todo = task[t].todo
      BY <1>1, <3>1
    <3>3. Head(task[t].todo).tool = "tenant_quota_status"
      BY <2>2 DEF TenantQuotaStatus, Call
    <3> QED BY <3>2, <3>3 DEF Underway, Enqueuing
  <2>3. CASE DashboardQueues(t)
    BY <2>3, GotoStops DEF DashboardQueues, Enqueuing
  <2> QED BY <1>10, <2>1, <2>2, <2>3 DEF Status
<1>11. CASE KeyCalls(t)
  BY <1>1, <1>11, GotoStops, ReturnStops
     DEF KeyCalls, MintLog, MintInsert, RevokeLook, RevokeLog, RevokeRemove, KeysLogged, Enqueuing
<1> QED BY <1>2, <1>3, <1>4, <1>5, <1>6, <1>7, <1>8, <1>9, <1>10, <1>11 DEF Client

\* What a call on its way to put a message does next.
LEMMA UnderwayStep ==
    ASSUME TaskInv, CallerInv, NEW t \in Tasks, EnqueueStep(t), Underway(task'[t])
    PROVE  /\ Head(task'[t].todo).tool = "enqueue" /\ Scope(t)' \in groups'
           /\ task'[t].todo = task[t].todo /\ task'[t].tenant = task[t].tenant
<1> USE DEF At, Running
<1>1. /\ task[t].todo # <<>> \/ task[t].pc = "idle"
      /\ DOMAIN task[t] = {"todo", "pc", "tenant", "queue", "left", "total", "limit", "id", "batch", "held", "answer"}
      /\ DOMAIN task = Tasks
  BY DEF TaskInv, Sound, Formed
<1>2. CASE Get(t)
  <2>1. task[t].todo # <<>>
    BY <1>1, <1>2 DEF Get, WantsQueue
  <2>2. groups' = groups \cup {Scope(t)} /\ Goto(t, AfterGet[Call(t).tool])
    BY <1>2, <2>1, ReturnStops DEF Get
  <2>3. Call(t).tool \in DOMAIN AfterGet
    BY <1>2 DEF Get, WantsQueue, TaskInv, Sound, Placed, AfterGet, Call
  <2>4. task'[t] = [task[t] EXCEPT !.pc = AfterGet[Call(t).tool]]
    BY <1>1, <2>2 DEF Goto
  <2>5. /\ task'[t].pc = AfterGet[Call(t).tool] /\ task'[t].todo = task[t].todo
        /\ task'[t].tenant = task[t].tenant /\ task'[t].queue = task[t].queue
    BY <1>1, <2>4
  <2>6. Call(t).tool = "enqueue"
    BY <2>3, <2>5 DEF Underway, Enqueuing, AfterGet
  <2>7. Scope(t)' = Scope(t)
    BY <2>5 DEF Scope, scope_key, Tenant, Queue
  <2> QED BY <2>2, <2>5, <2>6, <2>7 DEF Call
<1>3. CASE ~Get(t)
  <2>1. task[t].todo # <<>>
    BY <1>1, <1>3 DEF EnqueueStep, SumOne, Dedup, ReadPendingLimit, ComparePending, Admit, Put
  <2>2. /\ task'[t].todo = task[t].todo /\ task'[t].tenant = task[t].tenant
        /\ task'[t].queue = task[t].queue
    <3>1. CASE SumOne(t)
      BY <1>1, <3>1 DEF SumOne
    <3>2. CASE ReadPendingLimit(t)
      BY <1>1, <3>2 DEF ReadPendingLimit, Goto
    <3>3. CASE Dedup(t) \/ ComparePending(t) \/ Admit(t)
      <4>1. Goto(t, "pending") \/ Goto(t, "admit") \/ Goto(t, "put") \/ \E answer : Return(t, answer)
        BY <3>3 DEF Dedup, ComparePending, Admit
      <4>2. \A pc : Goto(t, pc) => /\ task'[t].todo = task[t].todo /\ task'[t].tenant = task[t].tenant
                                   /\ task'[t].queue = task[t].queue
        BY <1>1 DEF Goto
      <4> QED BY <2>1, <4>1, <4>2, ReturnStops
    <3>4. CASE Put(t)
      BY <1>1, <2>1, <3>4, ReturnStops DEF Put
    <3> QED BY <1>3, <3>1, <3>2, <3>3, <3>4 DEF EnqueueStep
  <2>3. Underway(task[t])
    <3>1. CASE SumOne(t)
      <4>1. task'[t].pc = "sum" /\ task[t].pc = "sum"
        BY <1>1, <3>1 DEF SumOne
      <4> QED BY <2>2, <4>1 DEF Underway
    <3> QED BY <1>3, <3>1
            DEF EnqueueStep, Dedup, ReadPendingLimit, ComparePending, Admit, Put, Underway, Enqueuing, Call
  <2>4. Scope(t)' = Scope(t) /\ groups' = groups
    BY <1>3, <2>2 DEF EnqueueStep, SumOne, Dedup, ReadPendingLimit, ComparePending, Admit, Put, registry,
                      Scope, scope_key, Tenant, Queue
  <2> QED BY <2>2, <2>3, <2>4 DEF CallerInv
<1> QED BY <1>2, <1>3

LEMMA GroupsGrow ==
    ASSUME NEW t \in Tasks, Client(t)
    PROVE  groups \subseteq groups' /\ workload' = workload
<1>1. CASE StdioCall(t) \/ RequireTenant(t) \/ Authorize(t) \/ Get(t) \/ SumOne(t) \/ Refuse(t)
  BY <1>1 DEF StdioCall, RequireTenant, Authorize, Get, SumOne, Refuse, RejectName, RejectId, RejectKey,
              RefuseTenant, RejectTenantId, registry
<1>2. CASE Enqueue(t)
  BY <1>2 DEF Enqueue, ResolveTargetQueue, Dedup, ReadPendingLimit, ComparePending, Admit, Put,
              IndexAndReturn, registry
<1>3. CASE Consume(t)
  BY <1>3 DEF Consume, Headroom, Claim, Ack, AckUnindex, Nack, Reclaim, TakeOut, Resolve,
              ResolveNacked, ResolveReclaimed, LookAtGroup, LeaseCallFails,
              BecomesAndFails, registry
<1>4. CASE DeadLetters(t)
  BY <1>4 DEF DeadLetters, Triage, Reprocess, Purge, DeadLetterCallFails, BecomesAndFails, registry
<1>5. CASE Configure(t)
  BY <1>5 DEF Configure, ConfigureAdmission, ConfigureRoute, ConfigureTenantQuota
<1>6. CASE Status(t)
  BY <1>6 DEF Status, AdmissionStatus, TenantQuotaStatus, TenantQuotaReport, DashboardQueues,
              DashboardTenants, registry
<1>7. CASE KeyCalls(t)
  BY <1>7 DEF KeyCalls, MintLog, MintInsert, RevokeLook, RevokeLog, RevokeRemove, registry
<1> QED BY <1>1, <1>2, <1>3, <1>4, <1>5, <1>6, <1>7 DEF Client

\* A client's calls still to make are among those of the workload.
LEMMA EnqueuersStay ==
    ASSUME TaskInv, CallerInv, NEW t \in Tasks, Shorter(task[t], task'[t]), workload' = workload
    PROVE  \A i \in DOMAIN task'[t].todo : task'[t].todo[i].tool = "enqueue" => t \in Enqueuers'
<1>1. PICK calls : task[t].todo \in Seq(calls)
  BY DEF TaskInv, Sound, Formed, AllCalls
<1>2. Enqueuers' = Enqueuers
  BY DEF Enqueuers
<1>3. ASSUME NEW i \in DOMAIN task'[t].todo, task'[t].todo[i].tool = "enqueue"
      PROVE  \E j \in DOMAIN task[t].todo : task[t].todo[j].tool = "enqueue"
  <2>1. CASE task'[t].todo = task[t].todo
    BY <1>3, <2>1
  <2>2. CASE task[t].todo # <<>> /\ task'[t].todo = Tail(task[t].todo)
    <3>1. i \in 1..(Len(task[t].todo) - 1) /\ task'[t].todo[i] = task[t].todo[i + 1]
      BY <1>1, <1>3, <2>2
    <3>2. i + 1 \in DOMAIN task[t].todo
      BY <1>1, <2>2, <3>1
    <3> QED BY <1>3, <3>1, <3>2
  <2> QED BY <2>1, <2>2 DEF Shorter
<1> QED BY <1>2, <1>3 DEF CallerInv

LEMMA ClientShorter ==
    ASSUME TaskInv, NEW t \in Tasks, Client(t), NEW u \in Tasks
    PROVE  Shorter(task[u], task'[u])
<1>1. CASE u # t
  BY <1>1, OthersWait DEF Shorter, TaskInv
<1>2. CASE u = t /\ ~KeyCalls(t)
  BY <1>2, OthersMove DEF Moves, Shorter
<1>3. CASE u = t /\ KeyCalls(t)
  <2>1. task[t].todo # <<>> \/ task[t].pc = "idle"
    BY DEF TaskInv, Sound, Formed
  <2> QED BY <1>3, <2>1, GotoMoves, ReturnMoves
          DEF KeyCalls, MintLog, MintInsert, RevokeLook, RevokeLog, RevokeRemove, KeysLogged, Shorter,
              At, Running
<1> QED BY <1>1, <1>2, <1>3

LEMMA CallerClient ==
    ASSUME TaskInv, CallerInv, NEW t \in Tasks, Client(t)
    PROVE  CallerInv'
<1>1. groups \subseteq groups' /\ workload' = workload
  BY GroupsGrow
<1>2. ASSUME NEW u \in Tasks, Underway(task'[u])
      PROVE  Head(task'[u].todo).tool = "enqueue" /\ Scope(u)' \in groups'
  <2>1. CASE u # t
    <3>1. task'[u] = task[u]
      BY <2>1, OthersWait DEF TaskInv
    <3>2. Scope(u)' = Scope(u)
      BY <3>1 DEF Scope, scope_key, Tenant, Queue
    <3> QED BY <1>1, <1>2, <3>1, <3>2 DEF CallerInv
  <2>2. CASE u = t
    BY <1>2, <2>2, OthersKeepOff, UnderwayStep
  <2> QED BY <2>1, <2>2
<1> QED BY <1>1, <1>2, ClientShorter, EnqueuersStay DEF CallerInv

LEMMA CallerInit == Init => CallerInv
<1> SUFFICES ASSUME Init PROVE CallerInv
  OBVIOUS
<1>1. ASSUME NEW t \in Tasks PROVE task[t].pc = "idle" /\ task[t].todo = workload.calls[t]
  BY DEF Init, NewTask
<1> QED BY <1>1 DEF CallerInv, Underway, Enqueuing, Enqueuers

LEMMA CallerNext == TenantInv /\ CallerInv /\ [Next]_vars => CallerInv'
<1> SUFFICES ASSUME TenantInv, CallerInv, [Next]_vars PROVE CallerInv'
  OBVIOUS
<1> USE DEF TenantInv
<1>1. ASSUME NEW t \in Tasks, Client(t) PROVE CallerInv'
  BY <1>1, CallerClient
<1>2. CASE UNCHANGED <<task, groups, workload>>
  <2>1. \A t \in Tasks : Scope(t)' = Scope(t)
    BY <1>2 DEF Scope, scope_key, Tenant, Queue
  <2> QED BY <1>2, <2>1 DEF CallerInv, Enqueuers
<1>3. CASE Restart
  <2>1. ASSUME NEW t \in Tasks PROVE task'[t].pc = "idle" /\ Shorter(task[t], task'[t])
    <3> DEFINE n == NewTask(Tail(task[t].todo))
    <3>1. task'[t] = IF At(t, "idle") THEN task[t] ELSE [n EXCEPT !.held = task[t].held]
      BY <1>3 DEF Restart
    <3>2. /\ DOMAIN n = {"todo", "pc", "tenant", "queue", "left", "total", "limit", "id", "batch", "held", "answer"}
          /\ n.todo = Tail(task[t].todo) /\ n.pc = "idle"
      BY DEF NewTask
    <3>3. task[t].pc = "idle" \/ task[t].todo # <<>>
      BY DEF TaskInv, Sound, Formed
    <3> HIDE DEF n
    <3> QED BY <3>1, <3>2, <3>3 DEF Shorter, At
  <2>2. workload' = workload
    BY <1>3 DEF Restart
  <2> QED BY <2>1, <2>2, EnqueuersStay DEF CallerInv, Underway, Enqueuing
<1> QED BY <1>1, <1>2, <1>3
        DEF Next, Client, vars, registry, AuditReceive, AuditWrite, Tick

-----------------------------------------------------------------------------
(* Quotas                                                                   *)

QuotaInv ==
    /\ DOMAIN quota = Tenants
    /\ \A a \in Tenants : /\ DOMAIN quota[a] = {"config", "requests"}
                          /\ quota[a].config \in Quota!QuotaConfig(Limits, Windows)

\* Only configure_tenant_quota changes a tenant's limits while the server runs.
LEMMA EvictKeepsConfig ==
    ASSUME NEW q, DOMAIN q = {"config", "requests"}
    PROVE  /\ Quota!evict_expired(q).config = q.config
           /\ DOMAIN Quota!evict_expired(q) = {"config", "requests"}
BY DEF Quota!evict_expired

LEMMA AcquireKeepsConfig ==
    ASSUME NEW q, DOMAIN q = {"config", "requests"}
    PROVE  /\ Quota!try_acquire(q).quota.config = q.config
           /\ DOMAIN Quota!try_acquire(q).quota = {"config", "requests"}
<1> DEFINE e == Quota!evict_expired(q)
           full == {limit \in e.config.requests_per_window : Len(e.requests) >= limit}
<1>1. e.config = q.config /\ DOMAIN e = {"config", "requests"}
  BY EvictKeepsConfig
<1>2. \/ Quota!try_acquire(q).quota = e
      \/ Quota!try_acquire(q).quota = [e EXCEPT !.requests = Append(@, 0)]
  <2> HIDE DEF e
  <2>1. Quota!try_acquire(q) =
          CASE e.config.requests_per_window = {} -> [quota |-> e, allowed |-> TRUE, retry |-> {}]
            [] full # {} -> [quota |-> e, allowed |-> FALSE,
                             retry |-> IF full = {0} THEN {} ELSE {Quota!retry_after(e)}]
            [] OTHER -> [quota |-> [e EXCEPT !.requests = Append(@, 0)], allowed |-> TRUE, retry |-> {}]
    BY DEF Quota!try_acquire, e
  <2> HIDE DEF full
  <2>2. CASE e.config.requests_per_window = {} /\ full = {}
    BY <2>1, <2>2
  <2>3. CASE full # {} /\ e.config.requests_per_window # {}
    BY <2>1, <2>3
  <2>4. CASE e.config.requests_per_window # {} /\ full = {}
    BY <2>1, <2>4
  <2>5. CASE full # {} /\ e.config.requests_per_window = {}
    BY <2>5 DEF full
  <2> QED BY <2>2, <2>3, <2>4, <2>5
<1> HIDE DEF e
<1> QED BY <1>1, <1>2

\* A client's step leaves tenant a's limits alone, or is the one that sets them.
SameLimits(a) ==
    DOMAIN quota'[a] = {"config", "requests"} /\ quota'[a].config = quota[a].config

LEMMA LimitsKept ==
    ASSUME QuotaInv, NEW t \in Tasks, Client(t), ~ConfigureTenantQuota(t)
    PROVE  DOMAIN quota' = Tenants /\ \A a \in Tenants : SameLimits(a)
<1> USE DEF QuotaInv, SameLimits
<1>1. CASE quota' = quota
  BY <1>1
<1>2. CASE Authorize(t)
  <2>1. quota' = [quota EXCEPT ![Tenant(t)] = Quota!try_acquire(quota[Tenant(t)]).quota]
    BY <1>2 DEF Authorize
  <2> QED BY <2>1, AcquireKeepsConfig
<1>3. CASE TenantQuotaStatus(t)
  <2>1. PICK b : quota' = [quota EXCEPT ![b] = Quota!evict_expired(@)]
    BY <1>3 DEF TenantQuotaStatus
  <2> QED BY <2>1, EvictKeepsConfig
<1>4. CASE DashboardTenants(t)
  <2>1. quota' = [b \in Tenants |-> IF Matching(b) # {} THEN Quota!evict_expired(quota[b]) ELSE quota[b]]
    BY <1>4 DEF DashboardTenants
  <2> QED BY <2>1, EvictKeepsConfig
<1>5. CASE StdioCall(t) \/ RequireTenant(t) \/ Get(t) \/ SumOne(t) \/ Refuse(t)
  BY <1>1, <1>5 DEF StdioCall, RequireTenant, Get, SumOne, Refuse, RejectName, RejectId, RejectKey,
                    RefuseTenant, RejectTenantId, registry
<1>6. CASE Enqueue(t)
  BY <1>1, <1>6 DEF Enqueue, ResolveTargetQueue, Dedup, ReadPendingLimit, ComparePending, Admit, Put,
                    IndexAndReturn, registry
<1>7. CASE Consume(t)
  BY <1>1, <1>7 DEF Consume, Headroom, Claim, Ack, AckUnindex, Nack, Reclaim, TakeOut, Resolve,
                    ResolveNacked, ResolveReclaimed, LookAtGroup, LeaseCallFails,
                    BecomesAndFails, registry
<1>8. CASE DeadLetters(t)
  BY <1>1, <1>8 DEF DeadLetters, Triage, Reprocess, Purge, DeadLetterCallFails, BecomesAndFails, registry
<1>9. CASE Configure(t)
  BY <1>1, <1>9 DEF Configure, ConfigureAdmission, ConfigureRoute
<1>10. CASE Status(t)
  BY <1>1, <1>3, <1>4, <1>10 DEF Status, AdmissionStatus, TenantQuotaReport, DashboardQueues, registry
<1>11. CASE KeyCalls(t)
  BY <1>1, <1>11 DEF KeyCalls, MintLog, MintInsert, RevokeLook, RevokeLog, RevokeRemove, registry
<1> QED BY <1>2, <1>5, <1>6, <1>7, <1>8, <1>9, <1>10, <1>11 DEF Client


LEMMA TheOnly == ASSUME NEW x PROVE The({x}) = x
BY DEF The

LEMMA QuotaCalls ==
    ASSUME NEW c, IsCall(c), c.tool = "configure_tenant_quota"
    PROVE  c.tenant \in Option(Tenants) /\ c.config \in Quota!QuotaConfig(Limits, Windows)
<1>1. CASE c \in ConfigureTenantQuotaParams
  BY <1>1 DEF ConfigureTenantQuotaParams
<1>2. CASE c \in EnqueueParams \/ c \in ClaimParams \/ c \in AckParams \/ c \in NackParams \/ c \in CheckpointParams
  BY <1>2 DEF EnqueueParams, ClaimParams, AckParams, NackParams, CheckpointParams
<1>3. CASE \/ c \in PublishPartialResultParams \/ c \in StreamPartialResultsParams
           \/ c \in AdmissionStatusParams \/ c \in ListDeadLettersParams
           \/ c \in ConfigureAdmissionParams \/ c \in ConfigureRouteParams
  BY <1>3 DEF PublishPartialResultParams, StreamPartialResultsParams, AdmissionStatusParams,
              ListDeadLettersParams, ConfigureAdmissionParams, ConfigureRouteParams
<1>4. CASE \/ c \in TriageDeadLetterParams \/ c \in DeadLetterActionParams \/ c \in CreateApiKeyParams
           \/ c \in RevokeApiKeyParams \/ c \in TenantQuotaStatusParams \/ c \in DashboardRequest
  BY <1>4 DEF TriageDeadLetterParams, DeadLetterActionParams, CreateApiKeyParams, RevokeApiKeyParams,
              TenantQuotaStatusParams, DashboardRequest
<1> QED BY <1>1, <1>2, <1>3, <1>4 DEF IsCall

\* What configure_tenant_quota sets.
LEMMA ConfigSet ==
    ASSUME TenantInv, QuotaInv, NEW t \in Tasks, ConfigureTenantQuota(t)
    PROVE  \E a \in Tenants :
             /\ quota' = [quota EXCEPT ![a] = Quota!set_config(@, Call(t).config)]
             /\ ghost' = [ghost EXCEPT !.allowed[a] = <<>>, !.exempt = @ \cup MessagesOf(a)]
             /\ DOMAIN quota'[a] = {"config", "requests"} /\ quota'[a].requests = quota[a].requests
             /\ quota'[a].config = Call(t).config
             /\ quota'[a].config \in Quota!QuotaConfig(Limits, Windows)
<1>1. /\ task[t].pc = "tool" /\ Call(t).tool = "configure_tenant_quota"
      /\ \E a \in Call(t).tenant :
           /\ quota' = [quota EXCEPT ![a] = Quota!set_config(@, Call(t).config)]
           /\ ghost' = [ghost EXCEPT !.allowed[a] = <<>>, !.exempt = @ \cup MessagesOf(a)]
  BY DEF ConfigureTenantQuota, Running, At
<1>2. IsCall(Call(t))
  BY <1>1, CallHere DEF TenantInv
<1>3. PICK a \in Call(t).tenant :
        /\ quota' = [quota EXCEPT ![a] = Quota!set_config(@, Call(t).config)]
        /\ ghost' = [ghost EXCEPT !.allowed[a] = <<>>, !.exempt = @ \cup MessagesOf(a)]
  BY <1>1
<1>4. Call(t).tenant \in Option(Tenants) /\ Call(t).config \in Quota!QuotaConfig(Limits, Windows)
  BY <1>1, <1>2, QuotaCalls
<1>5. a \in Tenants
  BY <1>3, <1>4 DEF Option, Some
<1>6. quota'[a] = [quota[a] EXCEPT !.config = Call(t).config]
  BY <1>3, <1>5 DEF QuotaInv, Quota!set_config
<1>7. /\ DOMAIN quota'[a] = {"config", "requests"} /\ quota'[a].requests = quota[a].requests
      /\ quota'[a].config = Call(t).config
  BY <1>5, <1>6 DEF QuotaInv
<1> QED BY <1>3, <1>4, <1>5, <1>7

LEMMA UnlimitedIsConfig ==
    ASSUME NEW minute \in Windows
    PROVE  Quota!UNLIMITED(minute) \in Quota!QuotaConfig(Limits, Windows)
BY DEF Quota!UNLIMITED, Quota!QuotaConfig, Limits, Option

LEMMA QuotaInit == Init => QuotaInv
<1> SUFFICES ASSUME Init PROVE QuotaInv
  OBVIOUS
<1>1. workload.quota \in Quota!QuotaConfig(Limits, Windows)
  BY LimitsAssumption DEF Init
<1>2. quota = [a \in Tenants |-> Quota!new(workload.quota)]
  BY DEF Init
<1> QED BY <1>1, <1>2 DEF QuotaInv, Quota!new

LEMMA QuotaSame == ASSUME QuotaInv, UNCHANGED quota PROVE QuotaInv'
BY DEF QuotaInv

LEMMA QuotaNext == TenantInv /\ QuotaInv /\ [Next]_vars => QuotaInv'
<1> SUFFICES ASSUME TenantInv, QuotaInv, [Next]_vars PROVE QuotaInv'
  OBVIOUS
<1>1. ASSUME NEW t \in Tasks, Client(t) PROVE QuotaInv'
  <2>1. CASE ConfigureTenantQuota(t)
    <3>1. PICK a \in Tenants :
             /\ quota' = [quota EXCEPT ![a] = Quota!set_config(@, Call(t).config)]
             /\ DOMAIN quota'[a] = {"config", "requests"}
             /\ quota'[a].config \in Quota!QuotaConfig(Limits, Windows)
      BY <2>1, ConfigSet
    <3>2. DOMAIN quota' = Tenants /\ \A b \in Tenants : b # a => quota'[b] = quota[b]
      BY <3>1 DEF QuotaInv
    <3> QED BY <3>1, <3>2 DEF QuotaInv
  <2>2. CASE ~ConfigureTenantQuota(t)
    BY <1>1, <2>2, LimitsKept DEF QuotaInv, SameLimits
  <2> QED BY <2>1, <2>2
<1>2. CASE Tick
  <2>1. quota' = [a \in Tenants |-> Quota!Age(quota[a], MaxAge)]
    BY <1>2 DEF Tick
  <2> QED BY <2>1 DEF QuotaInv, Quota!Age
<1>3. CASE Restart
  <2>1. quota' = [a \in Tenants |-> Quota!new(Quota!UNLIMITED(Minute))]
    BY <1>3 DEF Restart
  <2>2. Quota!UNLIMITED(Minute) \in Quota!QuotaConfig(Limits, Windows)
    BY LimitsAssumption, UnlimitedIsConfig
  <2> QED BY <2>1, <2>2 DEF QuotaInv, Quota!new
<1> QED BY <1>1, <1>2, <1>3, QuotaSame
        DEF Next, Client, vars, registry, AuditReceive, AuditWrite

-----------------------------------------------------------------------------
(* Groups, by the messages in them that count as pending                   *)

\* The messages of a group that count as pending.
InGroup(g) == Range(g.ready) \cup {l.id : l \in g.leased}
Fewer(g, h) == InGroup(h) \subseteq InGroup(g) /\ (IsFiniteSet(g.leased) => IsFiniteSet(h.leased))

\* What calls do to a group's record is seen in three of its fields.
LEMMA FewerHere ==
    ASSUME NEW g, NEW h, h.ready = g.ready, h.leased \subseteq g.leased
    PROVE  Fewer(g, h)
<1>1. InGroup(h) \subseteq InGroup(g)
  BY DEF InGroup
<1>2. IsFiniteSet(g.leased) => IsFiniteSet(h.leased)
  BY FS_Subset
<1> QED BY <1>1, <1>2 DEF Fewer

LEMMA RangeAppend ==
    ASSUME NEW S, NEW s \in Seq(S), NEW e \in S
    PROVE  Range(Append(s, e)) = Range(s) \cup {e}
<1>1. DOMAIN Append(s, e) = (DOMAIN s) \cup {Len(s) + 1} /\ Append(s, e)[Len(s) + 1] = e
  OBVIOUS
<1>2. \A i \in DOMAIN s : Append(s, e)[i] = s[i]
  OBVIOUS

<1> QED BY <1>1, <1>2 DEF Range

LEMMA RangeTail ==
    ASSUME NEW S, NEW s \in Seq(S), s # <<>>
    PROVE  Range(Tail(s)) \subseteq Range(s) /\ Head(s) \in Range(s)
<1>1. \A i \in DOMAIN Tail(s) : i + 1 \in DOMAIN s /\ Tail(s)[i] = s[i + 1]
  OBVIOUS
<1>2. Head(s) = s[1] /\ 1 \in DOMAIN s
  OBVIOUS
<1> QED BY <1>1, <1>2 DEF Range

LEMMA ClaimedFewer ==
    ASSUME NEW owned, NEW g, Holds(g, owned), g.ready # <<>>
    PROVE  Fewer(g, Claimed(g))
<1> DEFINE h == Claimed(g)
<1>1. NewLease(g).id = Head(g.ready)
  BY DEF NewLease
<1>2. /\ h.ready = Tail(g.ready)
      /\ h.leased = {l \in g.leased : l.id # Head(g.ready)} \cup {NewLease(g)}
  BY DEF Claimed, Holds
<1> HIDE DEF h
<1>3. Range(Tail(g.ready)) \subseteq Range(g.ready) /\ Head(g.ready) \in Range(g.ready)
  BY RangeTail DEF Holds
<1>4. InGroup(h) \subseteq InGroup(g)
  BY <1>1, <1>2, <1>3 DEF InGroup
<1>5. ASSUME IsFiniteSet(g.leased) PROVE IsFiniteSet(h.leased)
  <2>1. IsFiniteSet({l \in g.leased : l.id # Head(g.ready)})
    BY <1>5, FS_Subset
  <2> QED BY <1>2, <2>1, FS_AddElement
<1>6. Fewer(g, h)
  BY <1>4, <1>5 DEF Fewer
<1> QED BY <1>6 DEF h

LEMMA ReleasedFewer ==
    ASSUME NEW owned, NEW g, Holds(g, owned), NEW lease
    PROVE  Fewer(g, Released(g, lease)) /\ Fewer(g, Finished(g, lease))
<1> DEFINE h == Released(g, lease)
           f == Finished(g, lease)
<1>1. h.ready = g.ready /\ h.leased = g.leased \ {lease} /\ DOMAIN h = DOMAIN g
  BY DEF Released, Holds
<1>2. f = [h EXCEPT !.logged = RemoveFirst(@, lease.id), !.bound = Without(@, lease.id)]
  BY DEF Finished
<1> HIDE DEF h, f
<1>3. f.ready = h.ready /\ f.leased = h.leased
  BY <1>1, <1>2 DEF Holds
<1>4. Fewer(g, h) /\ Fewer(g, f)
  BY <1>1, <1>3, FewerHere
<1> QED BY <1>4 DEF h, f

\* A delivery that failed is out of the group, or back in it.
LEMMA DroppedFewer ==
    ASSUME NEW owned, NEW g, Holds(g, owned), NEW leases
    PROVE  Fewer(g, Dropped(g, leases))
<1> DEFINE h == Dropped(g, leases)
<1>1. h.ready = g.ready /\ h.leased \subseteq g.leased
  BY DEF Dropped, Holds
<1> HIDE DEF h
<1>2. Fewer(g, h)
  BY <1>1, FewerHere
<1> QED BY <1>2 DEF h

LEMMA FailedAdds ==
    ASSUME NEW owned, NEW g, Holds(g, owned), NEW lease, lease.id \in owned,
           NEW h \in {Failed(g, lease)} \cup HalfFailed(g, lease)
    PROVE  InGroup(h) \subseteq InGroup(g) \cup {lease.id} /\ h.leased = g.leased
<1> DEFINE r == Recorded(g, lease)
           last == [r EXCEPT !.logged = RemoveFirst(@, lease.id)]
           again == [g EXCEPT !.ready = Append(@, lease.id)]
<1>1. DOMAIN r = DOMAIN g /\ r.ready = g.ready /\ r.leased = g.leased
  BY DEF Recorded, Holds
<1>2. h = last \/ h = again \/ h = g \/ h = r
  BY DEF Failed, HalfFailed
<1> HIDE DEF r
<1>3. last.ready = g.ready /\ last.leased = g.leased
  BY <1>1 DEF Holds
<1>4. again.ready = Append(g.ready, lease.id) /\ again.leased = g.leased
  BY DEF Holds
<1> HIDE DEF last, again
<1>5. Range(again.ready) = Range(g.ready) \cup {lease.id}
  BY <1>4, RangeAppend DEF Holds
<1>6. InGroup(again) \subseteq InGroup(g) \cup {lease.id}
  BY <1>4, <1>5 DEF InGroup
<1> QED BY <1>1, <1>2, <1>3, <1>4, <1>6 DEF InGroup

LEMMA TakenFewer ==
    ASSUME NEW owned, NEW g, Holds(g, owned), NEW id \in owned
    PROVE  /\ Fewer(g, Taken(g, id)) /\ Fewer(g, Purged(g, id))
           /\ InGroup(Revived(g, id)) \subseteq InGroup(g) \cup {id}
           /\ IsFiniteSet(g.leased) => IsFiniteSet(Revived(g, id).leased)
<1> DEFINE a == Taken(g, id)
           b == Removed(g, id)
           c == Revived(g, id)
           d == Purged(g, id)
<1>1. DOMAIN a = DOMAIN g /\ a.ready = g.ready /\ a.leased = g.leased /\ a.logged = g.logged
  BY DEF Taken, Holds
<1>2. /\ b = [a EXCEPT !.buried = @ \ {id}]
      /\ c = [b EXCEPT !.ready = Append(@, id), !.logged = Append(@, id)]
      /\ d = [b EXCEPT !.keys = Without(@, id)]
  BY DEF Removed, Revived, Purged
<1> HIDE DEF a, b, c, d
<1>3. DOMAIN b = DOMAIN a /\ b.ready = a.ready /\ b.leased = a.leased
  BY <1>1, <1>2 DEF Holds
<1>4. c.ready = Append(b.ready, id) /\ c.leased = b.leased
  BY <1>1, <1>2, <1>3 DEF Holds
<1>5. d.ready = b.ready /\ d.leased = b.leased
  BY <1>1, <1>2, <1>3 DEF Holds
<1>6. Range(c.ready) = Range(g.ready) \cup {id}
  BY <1>1, <1>3, <1>4, RangeAppend DEF Holds
<1>7. InGroup(c) \subseteq InGroup(g) \cup {id}
  BY <1>1, <1>3, <1>4, <1>6 DEF InGroup
<1> QED BY <1>1, <1>3, <1>4, <1>5, <1>7, FewerHere DEF a, c, d

LEMMA PushedIn ==
    ASSUME NEW owned, NEW g, Holds(g, owned), NEW id, NEW key
    PROVE  /\ InGroup(Pushed(g, id, key)) \subseteq InGroup(g) \cup {id}
           /\ IsFiniteSet(g.leased) => IsFiniteSet(Pushed(g, id, key).leased)
<1> DEFINE h == Pushed(g, id, key)
<1>1. h.ready = Append(g.ready, id) /\ h.leased = g.leased
  BY DEF Pushed, Holds
<1> HIDE DEF h
<1>2. g.ready \in Seq(owned \cup {id})
  BY DEF Holds
<1>3. Range(h.ready) = Range(g.ready) \cup {id}
  BY <1>1, <1>2, RangeAppend
<1>4. InGroup(h) \subseteq InGroup(g) \cup {id}
  BY <1>1, <1>3 DEF InGroup
<1> QED BY <1>1, <1>4 DEF h

\* A group's len is no less than the number of its messages.
LEMMA GroupLenCounts ==
    ASSUME NEW owned, NEW g, Holds(g, owned), IsFiniteSet(g.leased)
    PROVE  /\ GroupLen(g) \in Nat /\ IsFiniteSet(InGroup(g))
           /\ Cardinality(InGroup(g)) <= GroupLen(g)
<1> DEFINE n == Len(g.ready)
           ids == {l.id : l \in g.leased}
<1>1. g.ready \in Seq(owned) /\ n \in Nat /\ DOMAIN g.ready = 1..n
  BY DEF Holds
<1>2. IsFiniteSet(1..n) /\ Cardinality(1..n) = n
  BY <1>1, FS_Interval
<1>3. {g.ready[i] : i \in 1..n} = Range(g.ready)
  BY <1>1 DEF Range
<1>4. IsFiniteSet(Range(g.ready)) /\ Cardinality(Range(g.ready)) <= n
  <2> DEFINE f == [i \in 1..n |-> g.ready[i]]
  <2>1. f \in Surjection(1..n, Range(g.ready))
    BY <1>3 DEF Surjection, Range
  <2> QED BY <1>2, <2>1, FS_Surjection
<1>5. IsFiniteSet(ids) /\ Cardinality(ids) <= Cardinality(g.leased)
  <2> DEFINE f == [l \in g.leased |-> l.id]
  <2>1. f \in Surjection(g.leased, ids)
    BY DEF Surjection, Range
  <2> QED BY <2>1, FS_Surjection
<1>6. /\ Cardinality(g.leased) \in Nat /\ Cardinality(ids) \in Nat /\ Cardinality(Range(g.ready)) \in Nat
  BY <1>4, <1>5, FS_CardinalityType
<1>7. IsFiniteSet(InGroup(g)) /\ Cardinality(InGroup(g)) <= Cardinality(Range(g.ready)) + Cardinality(ids)
  <2>1. /\ IsFiniteSet(Range(g.ready) \cup ids)
        /\ Cardinality(Range(g.ready) \cup ids)
             = Cardinality(Range(g.ready)) + Cardinality(ids) - Cardinality(Range(g.ready) \cap ids)
    BY <1>4, <1>5, FS_Union
  <2>2. Cardinality(Range(g.ready) \cap ids) \in Nat
    BY <1>4, FS_Intersection, FS_CardinalityType
  <2> HIDE DEF ids
  <2>3. Cardinality(Range(g.ready) \cup ids) <= Cardinality(Range(g.ready)) + Cardinality(ids)
    BY <1>6, <2>1, <2>2
  <2> QED BY <2>1, <2>3 DEF InGroup, ids
<1>8. Cardinality(InGroup(g)) \in Nat
  BY <1>7, FS_CardinalityType
<1> HIDE DEF ids
<1> QED BY <1>1, <1>4, <1>5, <1>6, <1>7, <1>8 DEF GroupLen

\* The messages a tenant's ceiling is about, and the queue each is in.
Waiting(a) == Pending(a) \ ghost.exempt
Home(m) == <<messages[m].tenant, messages[m].queue>>
LeasesInv == \A s \in Scopes : IsFiniteSet(group[s].leased)

\* The messages of a scope: its group's, and those in the hands of a nack or a reclaim.
Held(s) == InHand(s) \cup InGroup(group[s])

\* No scope gains a message that counts.
SameHomes == Len(messages') = Len(messages) /\ DOMAIN messages' = DOMAIN messages /\ \A m \in Ids : Home(m)' = Home(m)
Thins ==
    /\ SameHomes
    /\ ghost.exempt \subseteq ghost'.exempt
    /\ \A s \in Scopes : Held(s)' \subseteq Held(s) \cup ghost'.exempt

LEMMA WaitingIs ==
    ASSUME NEW a, NEW m
    PROVE  m \in Waiting(a) <=> m \notin ghost.exempt /\ \E s \in Scopes : s[1] = a /\ m \in Held(s)
<1>1. \A s : Held(s) = InHand(s) \cup Range(group[s].ready) \cup {l.id : l \in group[s].leased}
  BY DEF Held, InGroup
<1>2. Pending(a) = UNION {Held(s) : s \in {s \in Scopes : s[1] = a}}
  BY <1>1 DEF Pending
<1> QED BY <1>2 DEF Waiting

LEMMA WaitingWas ==
    ASSUME NEW a, NEW m
    PROVE  m \in Waiting(a)' <=> m \notin ghost'.exempt /\ \E s \in Scopes : s[1] = a /\ m \in Held(s)'
<1>1. \A s : Held(s)' = InHand(s)' \cup Range(group'[s].ready) \cup {l.id : l \in group'[s].leased}
  BY DEF Held, InGroup
<1>2. Pending(a)' = UNION {Held(s)' : s \in {s \in Scopes : s[1] = a}}
  BY <1>1 DEF Pending
<1> QED BY <1>2 DEF Waiting

LEMMA WaitingThins == ASSUME NEW a, Thins PROVE Waiting(a)' \subseteq Waiting(a)
<1> SUFFICES ASSUME NEW m \in Waiting(a)' PROVE m \in Waiting(a)
  OBVIOUS
<1>1. m \notin ghost'.exempt /\ \E s \in Scopes : s[1] = a /\ m \in Held(s)'
  BY WaitingWas
<1>2. m \notin ghost.exempt /\ \E s \in Scopes : s[1] = a /\ m \in Held(s)
  BY <1>1 DEF Thins
<1> QED BY <1>2, WaitingIs

\* A scope's messages are its own.
LEMMA HeldOwned ==
    ASSUME GroupInv, TaskInv, NEW s \in Scopes
    PROVE  Held(s) \subseteq Owns[s]
<1>1. Holds(group[s], Owns[s])
  BY DEF GroupInv
<1>2. InGroup(group[s]) \subseteq Owns[s]
  BY <1>1 DEF Holds, InGroup, Range
<1>3. ASSUME NEW m \in InHand(s) PROVE m \in Owns[s]
  <2>1. PICK t \in Tasks : At(t, "resolve") /\ Scope(t) = s /\ m \in {lease.id : lease \in task[t].batch}
    BY <1>3 DEF InHand
  <2>2. Placed(task[t], Owns)
    BY <2>1 DEF TaskInv, Sound
  <2> QED BY <2>1, <2>2 DEF Placed, At, Scope, scope_key, Tenant, Queue
<1> QED BY <1>2, <1>3 DEF Held

\* Whatever waits is a message, in its home.
LEMMA WaitingHome ==
    ASSUME GroupInv, TaskInv, NEW a, NEW m \in Waiting(a)
    PROVE  m \in Ids /\ Home(m) \in Scopes /\ Home(m)[1] = a /\ m \in Held(Home(m))
<1>1. PICK s \in Scopes : s[1] = a /\ m \in Held(s)
  BY WaitingIs
<1>2. m \in Owns[s]
  BY <1>1, HeldOwned
<1>3. m \in Ids /\ Home(m) = s
  BY <1>2 DEF Owns, Home
<1> QED BY <1>1, <1>3

\* What is in the calls' hands comes there by a nack or a reclaim.
LEMMA HandsSame ==
    ASSUME UNCHANGED task, NEW s
    PROVE  InHand(s)' = InHand(s)
BY DEF InHand, At, Scope, scope_key, Tenant, Queue

LEMMA HandsKept ==
    ASSUME TaskInv, NEW t \in Tasks, Client(t), task'[t].pc # "resolve", NEW s
    PROVE  InHand(s)' \subseteq InHand(s)
<1> SUFFICES ASSUME NEW m \in InHand(s)' PROVE m \in InHand(s)
  OBVIOUS
<1>1. PICK u \in Tasks : /\ task'[u].pc = "resolve" /\ Scope(u)' = s
                         /\ m \in {lease.id : lease \in task'[u].batch}
  BY DEF InHand, At
<1>2. u # t
  BY <1>1
<1>3. task'[u] = task[u]
  BY <1>2, OthersWait DEF TaskInv
<1>4. Scope(u)' = Scope(u)
  BY <1>3 DEF Scope, scope_key, Tenant, Queue
<1> QED BY <1>1, <1>3, <1>4 DEF InHand, At

LEMMA NothingTaken ==
    ASSUME TaskInv, NEW t \in Tasks, Client(t), ~HandsOver(t)
    PROVE  \A s : InHand(s)' \subseteq InHand(s)
<1>1. task[t].todo # <<>> \/ task[t].pc = "idle"
  BY DEF TaskInv, Sound, Formed
<1>2. task'[t].pc # "resolve"
  <2>1. CASE KeyCalls(t)
    BY <1>1, <2>1, GotoMoves, ReturnMoves
       DEF KeyCalls, MintLog, MintInsert, RevokeLook, RevokeLog, RevokeRemove, KeysLogged, At, Running
  <2> QED BY <2>1, OthersMove
<1> QED BY <1>2, HandsKept

LEMMA HomesSame == ASSUME UNCHANGED messages PROVE SameHomes
BY DEF Home, SameHomes, Ids

LEMMA TriesHomes ==
    ASSUME MessagesInv, NEW id \in Ids, NEW n, messages' = [messages EXCEPT ![id].tries = n]
    PROVE  SameHomes
<1> DEFINE m == [messages[id] EXCEPT !.tries = n]
<1>1. PICK all : messages \in Seq(all)
  BY DEF MessagesInv
<1>2. m.tenant = messages[id].tenant /\ m.queue = messages[id].queue
  BY DEF MessagesInv
<1>3. messages' = [messages EXCEPT ![id] = m]
  OBVIOUS
<1> HIDE DEF m
<1>4. DOMAIN messages' = DOMAIN messages /\ Len(messages') = Len(messages)
  BY <1>1, <1>3 DEF Ids
<1>5. \A i \in Ids : messages'[i].tenant = messages[i].tenant /\ messages'[i].queue = messages[i].queue
  BY <1>2, <1>3 DEF Ids
<1> QED BY <1>4, <1>5 DEF Home, SameHomes

\* One group changes, and gains at most what was in the hands of a call on it.
LEMMA GroupThins ==
    ASSUME GroupInv, LeasesInv, NEW s \in Scopes, NEW h, group' = [group EXCEPT ![s] = h],
           InGroup(h) \subseteq Held(s), IsFiniteSet(group[s].leased) => IsFiniteSet(h.leased),
           \A u \in Scopes : InHand(u)' \subseteq Held(u), SameHomes, UNCHANGED ghost
    PROVE  Thins /\ LeasesInv'
<1>1. ASSUME NEW u \in Scopes PROVE Held(u)' \subseteq Held(u) /\ IsFiniteSet(group'[u].leased)
  <2>1. group'[u] = IF u = s THEN h ELSE group[u]
    BY DEF GroupInv
  <2>2. InGroup(group'[u]) \subseteq Held(u)
    BY <2>1 DEF Held
  <2> QED BY <2>1, <2>2 DEF Held, LeasesInv
<1> QED BY <1>1 DEF Thins, LeasesInv

LEMMA FewerThins ==
    ASSUME GroupInv, LeasesInv, NEW s \in Scopes, NEW h, group' = [group EXCEPT ![s] = h],
           Fewer(group[s], h), \A u \in Scopes : InHand(u)' \subseteq InHand(u), SameHomes, UNCHANGED ghost
    PROVE  Thins /\ LeasesInv'
<1>1. InGroup(h) \subseteq Held(s) /\ \A u \in Scopes : InHand(u)' \subseteq Held(u)
  BY DEF Fewer, Held
<1> QED BY <1>1, GroupThins DEF Fewer

LEMMA SameThins ==
    ASSUME LeasesInv, UNCHANGED group, SameHomes, ghost.exempt \subseteq ghost'.exempt,
           \A u \in Scopes : InHand(u)' \subseteq InHand(u)
    PROVE  Thins /\ LeasesInv'
BY DEF Thins, LeasesInv, Held

\* The leases that are taken out of the group are in the call's hands.
LEMMA TakeOutThins ==
    ASSUME TenantInv, LeasesInv, NEW t \in Tasks, Nack(t) \/ Reclaim(t)
    PROVE  Thins /\ LeasesInv'
<1> DEFINE g == group[Scope(t)]
<1> USE DEF TenantInv
<1>1. UNCHANGED <<messages, ghost>> /\ SameHomes /\ Client(t) /\ task[t].pc \in InQueue /\ task[t].pc # "resolve"
  BY HomesSame DEF Nack, Reclaim, Client, Consume, Running, At, InQueue
<1>2. Scope(t) \in Scopes /\ Holds(g, Owns[Scope(t)]) /\ task[t].todo # <<>>
  BY <1>1, OwnGroup
<1>3. \/ UNCHANGED group /\ Return(t, Answer("stale"))
      \/ \E leases \in SUBSET g.leased : TakeOut(t, leases)
  BY DEF Nack, Reclaim, HoldsLease
<1>4. CASE UNCHANGED group /\ Return(t, Answer("stale"))
  <2>1. task'[t].pc = "idle"
    BY <1>2, <1>4, ReturnMoves
  <2>2. \A u : InHand(u)' \subseteq InHand(u)
    BY <1>1, <2>1, HandsKept
  <2> QED BY <1>1, <1>4, <2>2, SameThins
<1>5. ASSUME NEW leases \in SUBSET g.leased, TakeOut(t, leases) PROVE Thins /\ LeasesInv'
  <2>1. group' = [group EXCEPT ![Scope(t)] = Dropped(g, leases)]
    BY <1>2, <1>5 DEF TakeOut, GroupInv
  <2>2. /\ task'[t].batch = leases
        /\ task'[t].tenant = task[t].tenant /\ task'[t].queue = task[t].queue
    BY <1>5 DEF TakeOut, TaskInv, Sound, Formed
  <2>3. Scope(t)' = Scope(t)
    BY <2>2 DEF Scope, scope_key, Tenant, Queue
  <2> HIDE DEF g
  <2>4. Fewer(g, Dropped(g, leases))
    BY <1>2, DroppedFewer
  <2>5. {lease.id : lease \in leases} \subseteq InGroup(g)
    BY <1>5 DEF InGroup
  <2>6. ASSUME NEW u \in Scopes, NEW m \in InHand(u)' PROVE m \in Held(u)
    <3>1. PICK v \in Tasks : /\ task'[v].pc = "resolve" /\ Scope(v)' = u
                             /\ m \in {lease.id : lease \in task'[v].batch}
      BY <2>6 DEF InHand, At
    <3>2. CASE v = t
      BY <2>2, <2>3, <2>5, <3>1, <3>2 DEF Held, g
    <3>3. CASE v # t
      <4>1. task'[v] = task[v]
        BY <1>1, <3>3, OthersWait DEF TaskInv
      <4>2. Scope(v)' = Scope(v)
        BY <4>1 DEF Scope, scope_key, Tenant, Queue
      <4> QED BY <3>1, <4>1, <4>2 DEF InHand, At, Held
    <3> QED BY <3>2, <3>3
  <2>7. InGroup(Dropped(g, leases)) \subseteq Held(Scope(t))
    BY <2>4 DEF Fewer, Held, g
  <2> QED BY <1>1, <1>2, <2>1, <2>4, <2>6, <2>7, GroupThins DEF Fewer, g
<1> QED BY <1>3, <1>4, <1>5

\* A message that is resolved was in the call's hands.
LEMMA ResolveThins ==
    ASSUME TenantInv, LeasesInv, NEW t \in Tasks, Resolve(t)
    PROVE  Thins /\ LeasesInv'
<1> DEFINE g == group[Scope(t)]
           batch == task[t].batch
<1> USE DEF TenantInv
<1>1. /\ UNCHANGED <<messages, ghost>> /\ SameHomes /\ Client(t)
      /\ task[t].pc = "resolve" /\ task[t].pc \in InQueue
  BY HomesSame DEF Resolve, ResolveNacked, ResolveReclaimed, Client, Consume, Running, At, InQueue
<1>2. Scope(t) \in Scopes /\ Holds(g, Owns[Scope(t)]) /\ task[t].todo # <<>>
  BY <1>1, OwnGroup
<1>3. /\ \/ UNCHANGED group
         \/ \E lease \in batch : \E h \in {Failed(g, lease)} \cup HalfFailed(g, lease) :
              group' = [group EXCEPT ![Scope(t)] = h]
      /\ \/ \E kind : Return(t, Answer(kind))
         \/ \E lease, pc : task' = [task EXCEPT ![t].pc = pc, ![t].batch = @ \ {lease}]
  <2>1. CASE ResolveNacked(t)
    BY <2>1 DEF ResolveNacked
  <2>2. CASE ResolveReclaimed(t)
    BY <2>2 DEF ResolveReclaimed
  <2> QED BY <2>1, <2>2 DEF Resolve
<1>4. ASSUME NEW u \in Scopes PROVE InHand(u)' \subseteq InHand(u)
  <2>1. CASE \E kind : Return(t, Answer(kind))
    <3>1. task'[t].pc = "idle"
      BY <1>2, <2>1, ReturnMoves
    <3> QED BY <1>1, <3>1, HandsKept
  <2>2. CASE \E lease, pc : task' = [task EXCEPT ![t].pc = pc, ![t].batch = @ \ {lease}]
    <3>1. /\ task'[t].batch \subseteq batch
          /\ task'[t].tenant = task[t].tenant /\ task'[t].queue = task[t].queue
      BY <2>2 DEF TaskInv, Sound, Formed
    <3>2. \A v \in Tasks : v # t => task'[v] = task[v]
      BY <2>2 DEF TaskInv
    <3>3. \A v \in Tasks : Scope(v)' = Scope(v)
      BY <3>1, <3>2 DEF Scope, scope_key, Tenant, Queue
    <3>4. \A v \in Tasks : task'[v].batch \subseteq task[v].batch /\ (task'[v].pc = "resolve" => task[v].pc = "resolve")
      BY <1>1, <3>1, <3>2
    <3> QED BY <3>3, <3>4 DEF InHand, At
  <2> QED BY <1>3, <2>1, <2>2
<1>5. CASE UNCHANGED group
  BY <1>1, <1>4, <1>5, SameThins
<1>6. ASSUME NEW lease \in batch, NEW h \in {Failed(g, lease)} \cup HalfFailed(g, lease),
             group' = [group EXCEPT ![Scope(t)] = h]
      PROVE  Thins /\ LeasesInv'
  <2>1. lease.id \in InHand(Scope(t))
    BY <1>1, <1>6 DEF InHand, At
  <2>2. lease.id \in Owns[Scope(t)]
    BY <1>2, <2>1, HeldOwned DEF Held
  <2> HIDE DEF g
  <2>3. InGroup(h) \subseteq InGroup(g) \cup {lease.id} /\ h.leased = g.leased
    BY <1>2, <1>6, <2>2, FailedAdds
  <2>4. InGroup(h) \subseteq Held(Scope(t)) /\ \A u \in Scopes : InHand(u)' \subseteq Held(u)
    BY <1>4, <2>1, <2>3 DEF Held, g
  <2> QED BY <1>1, <1>2, <1>6, <2>3, <2>4, GroupThins DEF g
<1> QED BY <1>3, <1>5, <1>6

LEMMA ConsumeThins ==
    ASSUME TenantInv, LeasesInv, NEW t \in Tasks, Consume(t), ~HandsOver(t)
    PROVE  Thins /\ LeasesInv'
<1> DEFINE g == group[Scope(t)]
           lease == task[t].held
<1> USE DEF TenantInv
<1>1. UNCHANGED ghost /\ \A u : InHand(u)' \subseteq InHand(u)
  <2>1. Client(t)
    BY DEF Client
  <2>2. UNCHANGED ghost
    BY DEF Consume, HandsOver, Headroom, Claim, Ack, AckUnindex, LookAtGroup, LeaseCallFails,
           BecomesAndFails
  <2> QED BY <2>1, <2>2, NothingTaken
<1>2. CASE Headroom(t) \/ AckUnindex(t) \/ LookAtGroup(t)
  <2>1. UNCHANGED <<messages, group>>
    BY <1>2 DEF Headroom, AckUnindex, LookAtGroup
  <2> QED BY <1>1, <2>1, HomesSame, SameThins
<1>3. CASE Claim(t) \/ Ack(t) \/ LeaseCallFails(t)
  <2>1. task[t].pc \in InQueue
    BY <1>3 DEF Claim, Ack, LeaseCallFails, Running, At, InQueue
  <2>2. Scope(t) \in Scopes /\ Holds(g, Owns[Scope(t)])
    BY <2>1, OwnGroup
  <2>3. CASE Claim(t)
    <3>1. CASE UNCHANGED <<group, messages>>
      BY <1>1, <3>1, HomesSame, SameThins
    <3>2. CASE ~UNCHANGED <<group, messages>>
      <4>1. /\ g.ready # <<>> /\ group' = [group EXCEPT ![Scope(t)] = Claimed(g)]
            /\ \E n : messages' = [messages EXCEPT ![Head(g.ready)].tries = n]
        BY <2>3, <3>2 DEF Claim
      <4>2. Head(g.ready) \in Ids
        BY <2>2, <4>1, ClaimedHolds DEF Owns
      <4> HIDE DEF g
      <4>3. SameHomes
        BY <4>1, <4>2, TriesHomes
      <4>4. Fewer(g, Claimed(g))
        BY <2>2, <4>1, ClaimedFewer
      <4> QED BY <1>1, <2>2, <4>1, <4>3, <4>4, FewerThins DEF g
    <3> QED BY <3>1, <3>2
  <2>4. CASE ~Claim(t)
    <3>1. UNCHANGED messages /\ SameHomes
      BY <1>3, <2>4, HomesSame DEF Ack, LeaseCallFails, BecomesAndFails
    <3>2. \/ UNCHANGED group
          \/ group' = [group EXCEPT ![Scope(t)] = Finished(@, lease)]
          \/ \E h \in {Released(g, lease), g} : group' = [group EXCEPT ![Scope(t)] = h]
      BY <1>3, <2>4 DEF Ack, LeaseCallFails, BecomesAndFails
    <3>3. UNCHANGED group \/ \E h : Fewer(g, h) /\ group' = [group EXCEPT ![Scope(t)] = h]
      <4>1. CASE group' = [group EXCEPT ![Scope(t)] = Finished(@, lease)]
        <5>1. group' = [group EXCEPT ![Scope(t)] = Finished(g, lease)]
          BY <2>2, <4>1 DEF GroupInv
        <5> QED BY <2>2, <5>1, ReleasedFewer
      <4>2. CASE \E h \in {Released(g, lease), g} : group' = [group EXCEPT ![Scope(t)] = h]
        <5> HIDE DEF g
        <5>1. Fewer(g, g)
          BY FewerHere
        <5> QED BY <2>2, <4>2, <5>1, ReleasedFewer
      <4> QED BY <3>2, <4>1, <4>2
    <3> QED BY <1>1, <2>2, <3>1, <3>3, SameThins, FewerThins
  <2> QED BY <2>3, <2>4
<1> QED BY <1>2, <1>3 DEF Consume, HandsOver

LEMMA DeadLettersThin ==
    ASSUME TenantInv, LeasesInv, Remembers(ghost), NEW t \in Tasks, DeadLetters(t), ~HandsOver(t)
    PROVE  Thins /\ LeasesInv'
<1> DEFINE g == group[Scope(t)]
           id == Call(t).message
<1> USE DEF TenantInv
<1>1. task[t].pc \in InQueue
  BY DEF DeadLetters, Triage, Reprocess, Purge, DeadLetterCallFails, Running, At, InQueue
<1>hands. \A u : InHand(u)' \subseteq InHand(u)
  BY NothingTaken DEF Client
<1>2. Scope(t) \in Scopes /\ Holds(g, Owns[Scope(t)])
  BY <1>1, OwnGroup
<1>3. IsDead(t) => id \in Owns[Scope(t)] /\ id \in Ids
  BY <1>2 DEF IsDead, Holds, Owns
<1>4. CASE UNCHANGED <<group, messages, ghost>>
  BY <1>4, <1>hands, HomesSame, SameThins
<1>5. CASE Reprocess(t) /\ IsDead(t)
  <2>1. /\ group' = [group EXCEPT ![Scope(t)] = Revived(g, id)]
        /\ messages' = [messages EXCEPT ![id].tries = 0]
        /\ ghost' = [ghost EXCEPT !.exempt = @ \cup {id}]
    BY <1>2, <1>5 DEF Reprocess, GroupInv
  <2> HIDE DEF g, id
  <2>2. SameHomes
    BY <1>3, <1>5, <2>1, TriesHomes
  <2>3. ghost'.exempt = ghost.exempt \cup {id}
    BY <2>1 DEF Remembers
  <2>4. /\ InGroup(Revived(g, id)) \subseteq InGroup(g) \cup {id}
        /\ IsFiniteSet(g.leased) => IsFiniteSet(Revived(g, id).leased)
    BY <1>2, <1>3, <1>5, TakenFewer
  <2>5. ASSUME NEW u \in Scopes
        PROVE  /\ Held(u)' \subseteq Held(u) \cup {id}
               /\ IsFiniteSet(group[u].leased) => IsFiniteSet(group'[u].leased)
    <3>1. group'[u] = IF u = Scope(t) THEN Revived(g, id) ELSE group[u]
      BY <2>1 DEF GroupInv
    <3>2. InGroup(group'[u]) \subseteq InGroup(group[u]) \cup {id}
      BY <2>4, <3>1 DEF g
    <3> QED BY <1>hands, <2>4, <3>1, <3>2 DEF Held, g
  <2> QED BY <2>2, <2>3, <2>5 DEF Thins, LeasesInv
<1>6. CASE ~(Reprocess(t) /\ IsDead(t)) /\ ~UNCHANGED <<group, messages, ghost>>
  <2>1. UNCHANGED <<messages, ghost>> /\ SameHomes
    BY <1>6, HomesSame DEF DeadLetters, Triage, Reprocess, Purge, DeadLetterCallFails, BecomesAndFails
  <2>2. IsDead(t) /\ \E h \in {Taken(g, id), Purged(g, id), g} : group' = [group EXCEPT ![Scope(t)] = h]
    <3>1. CASE Purge(t)
      BY <1>2, <1>6, <2>1, <3>1 DEF Purge, GroupInv
    <3> QED BY <1>6, <2>1, <3>1 DEF DeadLetters, Triage, Reprocess, DeadLetterCallFails, BecomesAndFails
  <2> HIDE DEF g, id
  <2>3. Fewer(g, Taken(g, id)) /\ Fewer(g, Purged(g, id)) /\ Fewer(g, g)
    BY <1>2, <1>3, <2>2, TakenFewer, FewerHere
  <2>4. PICK h : Fewer(g, h) /\ group' = [group EXCEPT ![Scope(t)] = h]
    BY <2>2, <2>3
  <2> QED BY <1>2, <1>hands, <2>1, <2>4, FewerThins DEF g
<1> QED BY <1>4, <1>5, <1>6

LEMMA ClientThins ==
    ASSUME TenantInv, LeasesInv, Remembers(ghost), NEW t \in Tasks, Client(t), ~Put(t)
    PROVE  Thins /\ LeasesInv'
<1>1. CASE HandsOver(t)
  BY <1>1, TakeOutThins, ResolveThins DEF HandsOver
<1> SUFFICES ASSUME ~HandsOver(t) PROVE Thins /\ LeasesInv'
  BY <1>1
<1>2. CASE Consume(t)
  BY <1>2, ConsumeThins
<1>3. CASE DeadLetters(t)
  BY <1>3, DeadLettersThin
<1>4. ASSUME UNCHANGED <<group, messages>>, ghost.exempt \subseteq ghost'.exempt PROVE Thins /\ LeasesInv'
  <2>1. \A u : InHand(u)' \subseteq InHand(u)
    BY NothingTaken DEF TenantInv
  <2> QED BY <1>4, <2>1, HomesSame, SameThins
<1>5. CASE StdioCall(t) \/ RequireTenant(t) \/ Get(t) \/ Refuse(t)
  BY <1>4, <1>5 DEF StdioCall, RequireTenant, Get, Refuse, RejectName, RejectId, RejectKey,
                    RefuseTenant, RejectTenantId
<1>6. CASE Authorize(t) \/ SumOne(t)
  BY <1>4, <1>6 DEF Authorize, SumOne, Remembers
<1>7. CASE Enqueue(t)
  <2>1. CASE Admit(t)
    BY <1>4, <2>1 DEF Admit, Remembers
  <2>2. CASE IndexAndReturn(t)
    BY <1>4, <2>2 DEF IndexAndReturn, Remembers
  <2> QED BY <1>4, <1>7, <2>1, <2>2 DEF Enqueue, ResolveTargetQueue, Dedup, ReadPendingLimit,
                                        ComparePending
<1>8. CASE Configure(t)
  <2>1. CASE ConfigureAdmission(t)
    BY <1>4, <2>1 DEF ConfigureAdmission, Remembers
  <2>2. CASE ConfigureTenantQuota(t)
    <3>1. UNCHANGED <<group, messages>>
      BY <2>2 DEF ConfigureTenantQuota
    <3>2. PICK a : ghost' = [ghost EXCEPT !.allowed[a] = <<>>, !.exempt = @ \cup MessagesOf(a)]
      BY <2>2 DEF ConfigureTenantQuota
    <3> QED BY <1>4, <3>1, <3>2 DEF Remembers
  <2> QED BY <1>4, <1>8, <2>1, <2>2 DEF Configure, ConfigureRoute
<1>9. CASE Status(t)
  BY <1>4, <1>9 DEF Status, AdmissionStatus, TenantQuotaStatus, TenantQuotaReport, DashboardQueues,
                    DashboardTenants
<1>10. CASE KeyCalls(t)
  <2>1. CASE MintLog(t) \/ RevokeLog(t)
    BY <1>4, <2>1 DEF MintLog, RevokeLog, KeysLogged, Remembers
  <2>2. CASE RevokeRemove(t)
    BY <1>4, <2>2 DEF RevokeRemove, Remembers
  <2> QED BY <1>4, <1>10, <2>1, <2>2 DEF KeyCalls, MintInsert, RevokeLook
<1> QED BY <1>2, <1>3, <1>5, <1>6, <1>7, <1>8, <1>9, <1>10 DEF Client

\* A message is put.
LEMMA PutAdds ==
    ASSUME TenantInv, LeasesInv, NEW t \in Tasks, Put(t)
    PROVE  /\ UNCHANGED ghost /\ UNCHANGED <<quota, groups>>
           /\ LeasesInv'
           /\ \/ Thins
              \/ /\ Len(messages') = Len(messages) + 1
                 /\ Ids' = Ids \cup {Len(messages) + 1}
                 /\ \A m \in Ids' : Home(m)' = IF m \in Ids THEN Home(m) ELSE Scope(t)
                 /\ \A s \in Scopes : \A m \in Held(s)' : m \in Held(s) \/ (s = Scope(t) /\ m = Len(messages) + 1)
<1> DEFINE g == group[Scope(t)]
           id == Len(messages) + 1
           m == [tenant |-> Tenant(t), queue |-> Queue(t), tries |-> 0]
           h == Pushed(g, id, Call(t).key)
<1> USE DEF TenantInv
<1>1. UNCHANGED ghost /\ UNCHANGED <<quota, groups>>
  BY DEF Put, registry
<1>2. task[t].pc \in InQueue
  BY DEF Put, At, InQueue
<1>3. Scope(t) \in Scopes /\ Holds(g, Owns[Scope(t)])
  BY <1>2, OwnGroup
<1>hands. \A s : InHand(s)' \subseteq InHand(s)
  <2>1. Client(t)
    BY DEF Client, Enqueue
  <2>2. ~HandsOver(t)
    BY DEF HandsOver, Put, Nack, Reclaim, Resolve, ResolveNacked, ResolveReclaimed, Running, At
  <2> QED BY <2>1, <2>2, NothingTaken
<1>4. CASE UNCHANGED <<group, messages>>
  BY <1>1, <1>4, <1>hands, HomesSame, SameThins
<1>5. CASE ~UNCHANGED <<group, messages>>
  <2>1. group' = [group EXCEPT ![Scope(t)] = h] /\ messages' = Append(messages, m)
    BY <1>3, <1>5 DEF Put, GroupInv
  <2>2. m.tenant = Tenant(t) /\ m.queue = Queue(t)
    OBVIOUS
  <2>3. PICK all : messages \in Seq(all)
    BY DEF MessagesInv
  <2>4. /\ InGroup(h) \subseteq InGroup(g) \cup {id}
        /\ IsFiniteSet(g.leased) => IsFiniteSet(h.leased)
    BY <1>3, PushedIn
  <2> HIDE DEF m, h
  <2>5. /\ Len(messages') = id /\ Ids' = Ids \cup {id} /\ messages'[id] = m
        /\ \A i \in Ids : messages'[i] = messages[i]
    BY <2>1, <2>3 DEF Ids
  <2>6. id \notin Ids
    BY <2>3 DEF Ids
  <2>7. \A i \in Ids' : Home(i)' = IF i \in Ids THEN Home(i) ELSE Scope(t)
    BY <2>2, <2>5, <2>6 DEF Home, Scope, scope_key
  <2>8. \A s \in Scopes : s # Scope(t) => group'[s] = group[s]
    BY <2>1 DEF GroupInv
  <2>9. group'[Scope(t)] = h
    BY <1>3, <2>1 DEF GroupInv
  <2>10. LeasesInv'
    BY <2>4, <2>8, <2>9 DEF LeasesInv
  <2>11. ASSUME NEW s \in Scopes, NEW i \in Held(s)' PROVE i \in Held(s) \/ (s = Scope(t) /\ i = id)
    BY <1>hands, <2>4, <2>8, <2>9, <2>11 DEF Held
  <2> QED BY <1>1, <2>5, <2>7, <2>10, <2>11
<1> QED BY <1>4, <1>5

-----------------------------------------------------------------------------
\* While a tenant has a ceiling, its messages that count are in open queues.
OpenInv ==
    \A a \in Tenants : quota[a].config.max_pending_messages # {} =>
      \A m \in Waiting(a) : Home(m) \in groups

\* A call of the tenant's between the look at its ceiling and its message.
Checking(r, a) ==
    /\ r.tenant = a
    /\ r.pc \in {"admit", "put"} \/ (r.pc = "sum" /\ Head(r.todo).tool = "enqueue")

\* The messages that were there when the call numbered n was the last, and those of
\* them whose queues have been summed.
Below(a, n) == {m \in Waiting(a) : m <= n}
Summed(a, n, left) == {m \in Below(a, n) : Home(m) \notin left}

\* What a call in progress knows of them.
Checked(r, n, a, max) ==
    \/ Below(a, n) = {}
    \/ /\ r.limit = max
       /\ r.pc = "sum" => r.total \in Nat /\ Cardinality(Summed(a, n, r.left)) <= r.total
       /\ r.pc # "sum" => Cardinality(Below(a, n)) < max

Ceiling(max) == IF max = 0 THEN 1 ELSE max

\* last: each client's last message.  since: how many messages there were when its call
\* looked at the ceiling.  base: what was seen of them by the last to put one.
Bounded(a, max, last, since, base) ==
    /\ base <= Len(messages) /\ \A t \in Tasks : last[t] <= Len(messages)
    /\ \A m \in Waiting(a) : m <= base \/ \E t \in Enqueuers : last[t] = m
    /\ Cardinality(Below(a, base)) < Ceiling(max)
    /\ \A t \in Tasks : Checking(task[t], a) =>
         /\ since[t] <= Len(messages)
         /\ last[t] \in Waiting(a) => last[t] <= since[t]
         /\ Checked(task[t], since[t], a, max)

OvershootInv ==
    \A a \in Tenants : \A max \in quota[a].config.max_pending_messages :
      \E last, since \in [Tasks -> Nat], base \in Nat : Bounded(a, max, last, since, base)

LEMMA CheckingUnderway == ASSUME NEW r, NEW a, Checking(r, a) PROVE Underway(r)
BY DEF Checking, Underway, Enqueuing

LEMMA LenMessages == ASSUME MessagesInv PROVE Len(messages) \in Nat /\ Ids = 1..Len(messages)
BY DEF MessagesInv, Ids

LEMMA WaitingFinite ==
    ASSUME TenantInv, NEW a
    PROVE  Waiting(a) \subseteq Ids /\ IsFiniteSet(Waiting(a))
<1>1. Waiting(a) \subseteq Ids
  BY WaitingHome DEF TenantInv
<1>2. IsFiniteSet(Ids)
  BY LenMessages, FS_Interval DEF TenantInv
<1> QED BY <1>1, <1>2, FS_Subset

LEMMA BelowFinite ==
    ASSUME TenantInv, NEW a, NEW n, NEW S, S \subseteq Below(a, n)
    PROVE  /\ IsFiniteSet(S) /\ Cardinality(S) \in Nat
           /\ Cardinality(Below(a, n)) \in Nat /\ Cardinality(S) <= Cardinality(Below(a, n))
<1>1. IsFiniteSet(Below(a, n))
  BY WaitingFinite, FS_Subset DEF Below
<1> QED BY <1>1, FS_Subset, FS_CardinalityType

LEMMA BelowThins ==
    ASSUME TenantInv, Thins, NEW a, NEW n, NEW left
    PROVE  /\ Below(a, n)' \subseteq Below(a, n) /\ Summed(a, n, left)' \subseteq Summed(a, n, left)
           /\ Cardinality(Below(a, n)') \in Nat /\ Cardinality(Below(a, n)) \in Nat
           /\ Cardinality(Below(a, n)') <= Cardinality(Below(a, n))
           /\ Cardinality(Summed(a, n, left)') \in Nat /\ Cardinality(Summed(a, n, left)) \in Nat
           /\ Cardinality(Summed(a, n, left)') <= Cardinality(Summed(a, n, left))
<1>1. Below(a, n)' \subseteq Below(a, n)
  BY WaitingThins DEF Below
<1>2. Summed(a, n, left)' \subseteq Summed(a, n, left)
  BY <1>1, WaitingFinite DEF Summed, Below, Thins, SameHomes
<1>3. Summed(a, n, left) \subseteq Below(a, n)
  BY DEF Summed
<1>4. IsFiniteSet(Below(a, n)) /\ IsFiniteSet(Summed(a, n, left))
  BY <1>3, BelowFinite
<1> QED BY <1>1, <1>2, <1>4, FS_Subset, FS_CardinalityType

LEMMA CheckedThins ==
    ASSUME TenantInv, Thins, NEW a, NEW max \in Nat, NEW r, NEW n, Checked(r, n, a, max)
    PROVE  Checked(r, n, a, max)'
<1>1. CASE Below(a, n) = {}
  <2>1. Below(a, n)' = {}
    BY <1>1, BelowThins
  <2> QED BY <2>1 DEF Checked
<1>2. CASE Below(a, n) # {}
  <2>1. /\ Cardinality(Below(a, n)') \in Nat /\ Cardinality(Below(a, n)) \in Nat
        /\ Cardinality(Below(a, n)') <= Cardinality(Below(a, n))
    BY BelowThins
  <2>2. /\ Cardinality(Summed(a, n, r.left)') \in Nat /\ Cardinality(Summed(a, n, r.left)) \in Nat
        /\ Cardinality(Summed(a, n, r.left)') <= Cardinality(Summed(a, n, r.left))
    BY BelowThins
  <2> QED BY <1>2, <2>1, <2>2 DEF Checked
<1> QED BY <1>1, <1>2

LEMMA BoundedThins ==
    ASSUME TenantInv, Thins, UNCHANGED workload, NEW a, NEW max \in Nat, NEW last \in [Tasks -> Nat],
           NEW since \in [Tasks -> Nat], NEW new \in [Tasks -> Nat], NEW base \in Nat,
           Bounded(a, max, last, since, base),
           \A u \in Tasks : Checking(task[u], a)' =>
             /\ new[u] <= Len(messages)
             /\ last[u] \in Waiting(a) => last[u] <= new[u]
             /\ Checked(task[u], new[u], a, max)'
    PROVE  Bounded(a, max, last, new, base)'
<1>1. Len(messages') = Len(messages)
  BY DEF Thins, SameHomes
<1>2. Waiting(a)' \subseteq Waiting(a) /\ Enqueuers' = Enqueuers
  BY WaitingThins DEF Enqueuers
<1>3. Cardinality(Below(a, base)') < Ceiling(max)
  <2>1. /\ Cardinality(Below(a, base)') \in Nat /\ Cardinality(Below(a, base)) \in Nat
        /\ Cardinality(Below(a, base)') <= Cardinality(Below(a, base))
    BY BelowThins
  <2> QED BY <2>1 DEF Bounded, Ceiling
<1>4. \A m \in Waiting(a)' : m <= base \/ \E t \in Enqueuers' : last[t] = m
  BY <1>2 DEF Bounded
<1>5. base <= Len(messages') /\ \A t \in Tasks : last[t] <= Len(messages')
  BY <1>1 DEF Bounded
<1>6. \A u \in Tasks : Checking(task[u], a)' =>
             /\ new[u] <= Len(messages')
             /\ last[u] \in Waiting(a)' => last[u] <= new[u]
             /\ Checked(task[u], new[u], a, max)'
  BY <1>1, <1>2
<1> QED BY <1>3, <1>4, <1>5, <1>6 DEF Bounded

\* The calls that stay where they are.
LEMMA StaysChecked ==
    ASSUME TenantInv, Thins, NEW a, NEW max \in Nat, NEW last, NEW since, NEW base,
           Bounded(a, max, last, since, base), NEW u \in Tasks, task'[u] = task[u],
           Checking(task[u], a)'
    PROVE  /\ since[u] <= Len(messages)
           /\ last[u] \in Waiting(a) => last[u] <= since[u]
           /\ Checked(task[u], since[u], a, max)'
<1>1. Checking(task[u], a)
  BY DEF Checking
<1>2. /\ since[u] <= Len(messages)
      /\ last[u] \in Waiting(a) => last[u] <= since[u]
      /\ Checked(task[u], since[u], a, max)
  BY <1>1 DEF Bounded
<1>3. PICK r : r = task[u]
  OBVIOUS
<1>4. PICK n : n = since[u]
  OBVIOUS
<1>5. Checked(r, n, a, max)'
  BY <1>2, <1>3, <1>4, CheckedThins
<1>6. Checked(task[u], since[u], a, max)'
  BY <1>3, <1>4, <1>5 DEF Checked
<1> QED BY <1>2, <1>6

\* The queues still to sum are open.
Summing(r) == r.pc = "sum" /\ Head(r.todo).tool = "enqueue"
SumInv == groups \subseteq Scopes /\ \A t \in Tasks : Summing(task[t]) => task[t].left \subseteq groups

LEMMA ReadPendingLimitStep ==
    ASSUME TaskInv, QuotaInv, NEW t \in Tasks, ReadPendingLimit(t)
    PROVE  /\ task'[t].tenant = task[t].tenant /\ task'[t].todo = task[t].todo
           /\ \/ /\ task'[t].pc = "admit"
                 /\ Tenant(t) = Stdio \/ quota[Tenant(t)].config.max_pending_messages = {}
              \/ /\ task'[t].pc = "sum" /\ task'[t].left = Matching(Tenant(t)) /\ task'[t].total = 0
                 /\ quota[Tenant(t)].config.max_pending_messages = {task'[t].limit}
<1> DEFINE max == IF Tenant(t) = Stdio THEN {} ELSE quota[Tenant(t)].config.max_pending_messages
           r == [task[t] EXCEPT !.pc = "sum", !.limit = The(max), !.left = Matching(Tenant(t)), !.total = 0]
<1>1. DOMAIN task[t] = {"todo", "pc", "tenant", "queue", "left", "total", "limit", "id", "batch", "held", "answer"}
      /\ DOMAIN task = Tasks
  BY DEF TaskInv, Sound, Formed
<1>2. CASE max = {}
  <2>1. Goto(t, "admit")
    BY <1>2 DEF ReadPendingLimit
  <2> QED BY <1>1, <1>2, <2>1 DEF Goto
<1>3. CASE max # {}
  <2>1. task'[t] = r
    BY <1>1, <1>3 DEF ReadPendingLimit
  <2>2. /\ r.pc = "sum" /\ r.limit = The(max) /\ r.left = Matching(Tenant(t)) /\ r.total = 0
        /\ r.todo = task[t].todo /\ r.tenant = task[t].tenant
    BY <1>1
  <2>3. Tenant(t) # Stdio /\ Tenant(t) \in Tenants
    BY <1>3 DEF TaskInv, Sound, Formed, Callers, Tenant
  <2>4. max \in Option(0..4) /\ max = quota[Tenant(t)].config.max_pending_messages
    BY <2>3 DEF QuotaInv, Quota!QuotaConfig, Limits
  <2>5. \E x : max = {x}
    BY <1>3, <2>4 DEF Option, Some
  <2>6. max = {The(max)}
    BY <2>5, TheOnly
  <2> HIDE DEF r, max
  <2> QED BY <2>1, <2>2, <2>4, <2>6
<1> QED BY <1>2, <1>3

LEMMA SumOneFields ==
    ASSUME TaskInv, Remembers(ghost), NEW t \in Tasks, SumOne(t)
    PROVE  \E s \in task[t].left :
             /\ task'[t].left = task[t].left \ {s} /\ task'[t].total = task[t].total + GroupLen(group[s])
             /\ task'[t].pc = "sum" /\ task[t].pc = "sum" /\ task'[t].limit = task[t].limit
             /\ task'[t].todo = task[t].todo /\ task'[t].tenant = task[t].tenant
             /\ Call(t).tool = "enqueue" => InHand(s) \subseteq ghost'.exempt
<1>1. DOMAIN task[t] = {"todo", "pc", "tenant", "queue", "left", "total", "limit", "id", "batch", "held", "answer"}
      /\ DOMAIN task = Tasks
  BY DEF TaskInv, Sound, Formed
<1>2. PICK s \in task[t].left :
        /\ task' = [task EXCEPT ![t].left = @ \ {s}, ![t].total = @ + GroupLen(group[s])]
        /\ ghost' = IF Call(t).tool = "enqueue" THEN [ghost EXCEPT !.exempt = @ \cup InHand(s)] ELSE ghost
  BY DEF SumOne
<1>3. task'[t] = [task[t] EXCEPT !.left = @ \ {s}, !.total = @ + GroupLen(group[s])]
  BY <1>1, <1>2
<1>4. /\ task'[t].left = task[t].left \ {s} /\ task'[t].total = task[t].total + GroupLen(group[s])
      /\ task'[t].pc = task[t].pc /\ task'[t].limit = task[t].limit
      /\ task'[t].todo = task[t].todo /\ task'[t].tenant = task[t].tenant
  BY <1>1, <1>3
<1>5. Call(t).tool = "enqueue" => InHand(s) \subseteq ghost'.exempt
  BY <1>2 DEF Remembers
<1> QED BY <1>4, <1>5 DEF SumOne, At

\* Where the other steps on the way to a message lead.
LEMMA NextPlace ==
    ASSUME TaskInv, NEW t \in Tasks, Get(t) \/ Dedup(t) \/ ComparePending(t) \/ Admit(t) \/ Put(t),
           Underway(task'[t])
    PROVE  /\ task'[t].pc # "sum"
           /\ Get(t) \/ Dedup(t) \/ Put(t) => task'[t].pc \notin {"admit", "put"}
           /\ Admit(t) => Goto(t, "put")
           /\ ComparePending(t) => Goto(t, "admit") /\ WithinLimit(t)
<1>1. DOMAIN task[t] = {"todo", "pc", "tenant", "queue", "left", "total", "limit", "id", "batch", "held", "answer"}
      /\ DOMAIN task = Tasks /\ (task[t].todo # <<>> \/ task[t].pc = "idle")
  BY DEF TaskInv, Sound, Formed
<1>2. task[t].todo # <<>>
  BY <1>1 DEF Get, WantsQueue, Dedup, ComparePending, Admit, Put, Running, At
<1>3. \A answer : ~Return(t, answer)
  BY <1>2, ReturnStops
<1>4. CASE Get(t)
  <2>1. Goto(t, AfterGet[Call(t).tool])
    BY <1>3, <1>4 DEF Get
  <2>2. task'[t].pc = AfterGet[Call(t).tool]
    BY <1>1, <2>1 DEF Goto
  <2>3. Call(t).tool \in DOMAIN AfterGet
    BY <1>4 DEF Get, WantsQueue, TaskInv, Sound, Placed, AfterGet, Call, At
  <2>4. task'[t].pc \in {"dedup", "headroom", "group"}
    BY <2>2, <2>3 DEF AfterGet
  <2> QED BY <1>4, <2>4 DEF Get, WantsQueue, ComparePending, Admit, Running, At
<1>5. CASE Dedup(t)
  <2>1. Goto(t, "pending")
    BY <1>3, <1>5 DEF Dedup
  <2> QED BY <1>1, <1>5, <2>1 DEF Goto, Dedup, ComparePending, Admit, Running, At
<1>6. CASE ComparePending(t)
  <2>1. Goto(t, "admit") /\ WithinLimit(t)
    BY <1>3, <1>6 DEF ComparePending
  <2>2. task'[t].pc = "admit" /\ task[t].pc = "sum"
    BY <1>1, <1>6, <2>1 DEF Goto, ComparePending, Running, At
  <2> QED BY <2>1, <2>2 DEF Get, WantsQueue, Dedup, Admit, Put, At
<1>7. CASE Admit(t)
  <2>1. Goto(t, "put")
    BY <1>3, <1>7 DEF Admit
  <2>2. task'[t].pc = "put" /\ task[t].pc = "admit"
    BY <1>1, <1>7, <2>1 DEF Goto, Admit, At
  <2> QED BY <2>1, <2>2 DEF Get, WantsQueue, Dedup, ComparePending, Put, Running, At
<1>8. CASE Put(t)
  <2>1. task'[t].pc = "index" /\ task[t].pc = "put"
    BY <1>1, <1>3, <1>8 DEF Put, At
  <2> QED BY <2>1 DEF Get, WantsQueue, Dedup, ComparePending, Admit, Running, At
<1> QED BY <1>4, <1>5, <1>6, <1>7, <1>8

\* A queue is open only by its tenant and name.
LEMMA OpensScopes ==
    ASSUME TaskInv, groups \subseteq Scopes, NEW t \in Tasks, Client(t)
    PROVE  groups' \subseteq Scopes
<1>1. CASE UNCHANGED groups
  BY <1>1
<1>2. CASE ~UNCHANGED groups
  <2>1. Get(t)
    <3>1. CASE StdioCall(t) \/ RequireTenant(t) \/ Authorize(t) \/ SumOne(t) \/ Refuse(t)
      BY <1>2, <3>1 DEF StdioCall, RequireTenant, Authorize, SumOne, Refuse, RejectName, RejectId,
                        RejectKey, RefuseTenant, RejectTenantId, registry
    <3>2. CASE Enqueue(t)
      BY <1>2, <3>2 DEF Enqueue, ResolveTargetQueue, Dedup, ReadPendingLimit, ComparePending, Admit, Put,
                        IndexAndReturn, registry
    <3>3. CASE Consume(t)
      BY <1>2, <3>3 DEF Consume, Headroom, Claim, Ack, AckUnindex, Nack, Reclaim, TakeOut, Resolve,
                        ResolveNacked, ResolveReclaimed, LookAtGroup, LeaseCallFails,
                        BecomesAndFails, registry
    <3>4. CASE DeadLetters(t)
      BY <1>2, <3>4 DEF DeadLetters, Triage, Reprocess, Purge, DeadLetterCallFails, BecomesAndFails,
                        registry
    <3>5. CASE Configure(t) \/ Status(t)
      BY <1>2, <3>5 DEF Configure, ConfigureAdmission, ConfigureRoute, ConfigureTenantQuota, Status,
                        AdmissionStatus, TenantQuotaStatus, TenantQuotaReport, DashboardQueues,
                        DashboardTenants, registry
    <3>6. CASE KeyCalls(t)
      BY <1>2, <3>6 DEF KeyCalls, MintLog, MintInsert, RevokeLook, RevokeLog, RevokeRemove, registry
    <3> QED BY <3>1, <3>2, <3>3, <3>4, <3>5, <3>6 DEF Client
  <2>2. groups' = groups \cup {Scope(t)} /\ WantsQueue(t) /\ Queue(t) # BadName
    BY <1>2, <2>1 DEF Get
  <2>3. task[t].queue \in Some(Names)
    <3>1. CASE task[t].pc = "get"
      BY <3>1 DEF TaskInv, Sound, Placed
    <3>2. CASE task[t].pc # "get"
      <4>1. task[t].pc = "tool" /\ Call(t).tool \in Naming /\ task[t].pc # "idle"
        BY <2>2, <3>2 DEF WantsQueue, At, Naming
      <4> QED BY <4>1, CallHere, CallFacts DEF TaskInv, Sound, Placed, Call
    <3> QED BY <3>1, <3>2
  <2>4. Scope(t) \in Scopes
    BY <2>2, <2>3, QueueChosen, ScopeIn DEF Queue
  <2> QED BY <2>2, <2>4
<1> QED BY <1>1, <1>2

LEMMA SumInit == Init => SumInv
<1> SUFFICES ASSUME Init PROVE SumInv
  OBVIOUS
<1>1. ASSUME NEW t \in Tasks PROVE task[t].pc = "idle"
  BY DEF Init, NewTask
<1> QED BY <1>1 DEF SumInv, Summing, Init

LEMMA SumNext == TenantInv /\ Remembers(ghost) /\ QuotaInv /\ SumInv /\ [Next]_vars => SumInv'
<1> SUFFICES ASSUME TenantInv, Remembers(ghost), QuotaInv, SumInv, [Next]_vars PROVE SumInv'
  OBVIOUS
<1> USE DEF TenantInv
<1>1. ASSUME NEW t \in Tasks, Client(t) PROVE SumInv'
  <2>1. groups \subseteq groups' /\ groups' \subseteq Scopes
    BY <1>1, GroupsGrow, OpensScopes DEF SumInv
  <2>2. ASSUME NEW u \in Tasks, Summing(task'[u]) PROVE task'[u].left \subseteq groups'
    <3>1. CASE u # t
      BY <1>1, <2>1, <2>2, <3>1, OthersWait DEF SumInv, TaskInv
    <3>2. CASE u = t
      <4>1. Underway(task'[t]) /\ EnqueueStep(t)
        BY <1>1, <2>2, <3>2, OthersKeepOff DEF Underway, Summing
      <4>2. SumOne(t) \/ ReadPendingLimit(t)
        BY <2>2, <3>2, <4>1, NextPlace DEF EnqueueStep, Summing
      <4>3. CASE SumOne(t)
        <5>1. task'[t].left \subseteq task[t].left /\ Summing(task[t])
          BY <2>2, <3>2, <4>3, SumOneFields DEF Summing
        <5> QED BY <2>1, <3>2, <5>1 DEF SumInv
      <4>4. CASE ReadPendingLimit(t)
        <5>1. task'[t].left = Matching(Tenant(t))
          BY <2>2, <3>2, <4>4, ReadPendingLimitStep DEF Summing
        <5> QED BY <2>1, <3>2, <5>1 DEF Matching
      <4> QED BY <4>2, <4>3, <4>4
    <3> QED BY <3>1, <3>2
  <2> QED BY <2>1, <2>2 DEF SumInv
<1>2. CASE UNCHANGED <<task, groups>>
  BY <1>2 DEF SumInv
<1>3. CASE Restart
  <2>1. ASSUME NEW t \in Tasks PROVE task'[t].pc = "idle"
    <3> DEFINE n == NewTask(Tail(task[t].todo))
    <3>1. task'[t] = IF At(t, "idle") THEN task[t] ELSE [n EXCEPT !.held = task[t].held]
      BY <1>3 DEF Restart
    <3>2. /\ DOMAIN n = {"todo", "pc", "tenant", "queue", "left", "total", "limit", "id", "batch", "held", "answer"}
          /\ n.pc = "idle"
      BY DEF NewTask
    <3> HIDE DEF n
    <3> QED BY <3>1, <3>2 DEF At
  <2>2. groups' = {}
    BY <1>3 DEF Restart
  <2> QED BY <2>1, <2>2 DEF SumInv, Summing
<1> QED BY <1>1, <1>2, <1>3
        DEF Next, Client, vars, registry, AuditReceive, AuditWrite, Tick

\* A queue is added to the sum.
LEMMA SumOneChecked ==
    ASSUME TenantInv, Remembers(ghost), LeasesInv, SumInv, NEW t \in Tasks, SumOne(t), Thins, NEW a, NEW max \in Nat,
           NEW n, Checking(task[t], a)', Checked(task[t], n, a, max)
    PROVE  Checking(task[t], a) /\ Checked(task[t], n, a, max)'
<1>1. PICK s \in task[t].left :
        /\ task'[t].left = task[t].left \ {s} /\ task'[t].total = task[t].total + GroupLen(group[s])
        /\ task'[t].pc = "sum" /\ task[t].pc = "sum" /\ task'[t].limit = task[t].limit
        /\ task'[t].todo = task[t].todo /\ task'[t].tenant = task[t].tenant
        /\ Call(t).tool = "enqueue" => InHand(s) \subseteq ghost'.exempt
  BY SumOneFields DEF TenantInv
<1>2. Checking(task[t], a) /\ Summing(task[t]) /\ Call(t).tool = "enqueue"
  BY <1>1 DEF Checking, Summing, Call
<1>3. s \in Scopes
  BY <1>1, <1>2 DEF SumInv
<1>4. GroupLen(group[s]) \in Nat /\ IsFiniteSet(InGroup(group[s]))
      /\ Cardinality(InGroup(group[s])) <= GroupLen(group[s])
  BY <1>3, GroupLenCounts DEF TenantInv, GroupInv, LeasesInv
<1>5. CASE Below(a, n) = {}
  <2>1. Below(a, n)' = {}
    BY <1>5, BelowThins
  <2> QED BY <1>2, <2>1 DEF Checked
<1>6. CASE Below(a, n) # {}
  <2> DEFINE was == Summed(a, n, task[t].left)
             here == InGroup(group[s])
  <2>1. task[t].limit = max /\ task[t].total \in Nat /\ Cardinality(was) <= task[t].total
    BY <1>1, <1>6 DEF Checked
  <2>left. PICK left : left = task[t].left \ {s}
    OBVIOUS
  <2> DEFINE now == Summed(a, n, left)'
  \* What was in the hands of a call is not counted any more.
  <2>2. ASSUME NEW m \in now PROVE m \in was \cup here
    <3>1. Below(a, n)' \subseteq Below(a, n) /\ m \in Below(a, n)' /\ Home(m)' \notin left
      BY <2>2, BelowThins DEF Summed
    <3>2. m \in Below(a, n) /\ m \notin ghost'.exempt /\ Home(m)' = Home(m)
      BY <3>1, WaitingFinite DEF Below, Waiting, Thins, SameHomes
    <3>3. CASE Home(m) # s
      BY <2>left, <3>1, <3>2, <3>3 DEF Summed
    <3>4. CASE Home(m) = s
      <4>1. m \in Held(s)
        BY <3>2, <3>4, WaitingHome DEF Below, TenantInv
      <4>2. m \notin InHand(s)
        BY <1>1, <1>2, <3>2
      <4> QED BY <4>1, <4>2 DEF Held
    <3> QED BY <3>3, <3>4
  <2>3. IsFiniteSet(was) /\ Cardinality(was) \in Nat
    BY BelowFinite DEF Summed
  <2>4. Cardinality(here) \in Nat
    BY <1>4, FS_CardinalityType
  <2>5. /\ IsFiniteSet(was \cup here)
        /\ Cardinality(was \cup here) = Cardinality(was) + Cardinality(here) - Cardinality(was \cap here)
    BY <1>4, <2>3, FS_Union
  <2>6. Cardinality(was \cap here) \in Nat
    BY <2>3, FS_Intersection, FS_CardinalityType
  <2>7. Cardinality(now) \in Nat /\ Cardinality(now) <= Cardinality(was \cup here)
    BY <2>2, <2>5, FS_Subset, FS_CardinalityType
  <2> HIDE DEF was, here, now
  <2>8. Cardinality(now) <= task[t].total + GroupLen(group[s])
    BY <1>4, <2>1, <2>3, <2>4, <2>5, <2>6, <2>7 DEF here
  <2>9. task'[t].total \in Nat /\ Cardinality(Summed(a, n, left)') <= task'[t].total
    BY <1>1, <1>4, <2>1, <2>8 DEF now
  <2>10. Checked(task[t], n, a, max)'
    BY <1>1, <2>1, <2>left, <2>9 DEF Checked
  <2> QED BY <1>2, <2>10
<1> QED BY <1>5, <1>6

\* All the tenant's messages that count are still to sum.
LEMMA LookChecked ==
    ASSUME TenantInv, QuotaInv, OpenInv, NEW t \in Tasks, ReadPendingLimit(t), Thins, NEW a \in Tenants,
           NEW max \in quota[a].config.max_pending_messages, NEW n, Checking(task[t], a)'
    PROVE  Checked(task[t], n, a, max)'
<1>1. /\ task'[t].tenant = task[t].tenant /\ task'[t].todo = task[t].todo
      /\ \/ /\ task'[t].pc = "admit"
            /\ Tenant(t) = Stdio \/ quota[Tenant(t)].config.max_pending_messages = {}
         \/ /\ task'[t].pc = "sum" /\ task'[t].left = Matching(Tenant(t)) /\ task'[t].total = 0
            /\ quota[Tenant(t)].config.max_pending_messages = {task'[t].limit}
  BY ReadPendingLimitStep DEF TenantInv
<1>2. Tenant(t) = a /\ a # Stdio
  BY <1>1, TenantsAssumption DEF Checking, Tenant
<1>3. /\ task'[t].pc = "sum" /\ task'[t].left = Matching(a) /\ task'[t].total = 0
      /\ task'[t].limit = max
  BY <1>1, <1>2
<1>4. Summed(a, n, Matching(a)) = {}
  <2>1. \A m \in Below(a, n) : Home(m) \in groups /\ Home(m)[1] = a
    BY <1>2, WaitingHome DEF OpenInv, Below, TenantInv
  <2> QED BY <2>1 DEF Summed, Matching
<1>5. PICK left : left = Matching(a)
  OBVIOUS
<1>6. Summed(a, n, left)' = {}
  BY <1>4, <1>5, BelowThins
<1>7. Cardinality(Summed(a, n, left)') = 0
  BY <1>6, FS_EmptySet
<1> QED BY <1>3, <1>5, <1>7 DEF Checked

\* The sum is complete.
LEMMA CompareChecked ==
    ASSUME TenantInv, NEW t \in Tasks, ComparePending(t), Thins, NEW a, NEW max \in Nat, NEW n,
           Checking(task[t], a)', Checked(task[t], n, a, max)
    PROVE  Checking(task[t], a) /\ Checked(task[t], n, a, max)'
<1>1. DOMAIN task[t] = {"todo", "pc", "tenant", "queue", "left", "total", "limit", "id", "batch", "held", "answer"}
      /\ DOMAIN task = Tasks
  BY DEF TenantInv, TaskInv, Sound, Formed
<1>2. Goto(t, "admit") /\ WithinLimit(t)
  BY CheckingUnderway, NextPlace DEF TenantInv
<1>3. /\ task'[t].pc = "admit" /\ task'[t].limit = task[t].limit /\ task'[t].tenant = task[t].tenant
      /\ task'[t].todo = task[t].todo
  BY <1>1, <1>2 DEF Goto
<1>4. task[t].pc = "sum" /\ Head(task[t].todo).tool = "enqueue" /\ task[t].left = {}
  BY DEF ComparePending, Running, At, Call
<1>5. Checking(task[t], a)
  BY <1>3, <1>4 DEF Checking
<1>6. CASE Below(a, n) = {}
  <2>1. Below(a, n)' = {}
    BY <1>6, BelowThins
  <2> QED BY <1>5, <2>1 DEF Checked
<1>7. CASE Below(a, n) # {}
  <2>1. task[t].limit = max /\ task[t].total \in Nat /\ Cardinality(Summed(a, n, {})) <= task[t].total
    BY <1>4, <1>7 DEF Checked
  <2>2. Summed(a, n, {}) = Below(a, n)
    BY DEF Summed
  <2>3. task[t].total < max
    BY <1>2, <2>1 DEF WithinLimit
  <2>4. /\ Cardinality(Below(a, n)') \in Nat /\ Cardinality(Below(a, n)) \in Nat
        /\ Cardinality(Below(a, n)') <= Cardinality(Below(a, n))
    BY BelowThins
  <2>5. Cardinality(Below(a, n)') < max
    BY <2>1, <2>2, <2>3, <2>4
  <2> QED BY <1>3, <1>5, <2>1, <2>5 DEF Checked
<1> QED BY <1>6, <1>7

\* The message goes through admission control.
LEMMA AdmitChecked ==
    ASSUME TenantInv, NEW t \in Tasks, Admit(t), Thins, NEW a, NEW max \in Nat, NEW n,
           Checking(task[t], a)', Checking(task[t], a) => Checked(task[t], n, a, max)
    PROVE  Checking(task[t], a) /\ Checked(task[t], n, a, max)'
<1>1. DOMAIN task[t] = {"todo", "pc", "tenant", "queue", "left", "total", "limit", "id", "batch", "held", "answer"}
      /\ DOMAIN task = Tasks
  BY DEF TenantInv, TaskInv, Sound, Formed
<1>2. Goto(t, "put")
  BY CheckingUnderway, NextPlace DEF TenantInv
<1>3. /\ task'[t].pc = "put" /\ task'[t].limit = task[t].limit /\ task'[t].tenant = task[t].tenant
  BY <1>1, <1>2 DEF Goto
<1>4. task[t].pc = "admit" /\ Checking(task[t], a)
  BY <1>3 DEF Admit, At, Checking
<1>5. Checked(task[t], n, a, max)
  BY <1>4
<1>6. /\ Cardinality(Below(a, n)') \in Nat /\ Cardinality(Below(a, n)) \in Nat
      /\ Cardinality(Below(a, n)') <= Cardinality(Below(a, n)) /\ Below(a, n)' \subseteq Below(a, n)
  BY BelowThins
<1> QED BY <1>3, <1>4, <1>5, <1>6 DEF Checked

\* A step of a client that puts no message.
LEMMA ClientBounded ==
    ASSUME TenantInv, Remembers(ghost), CallerInv, LeasesInv, QuotaInv, SumInv, OpenInv, NEW t \in Tasks, Client(t),
           Thins, NEW a \in Tenants, NEW max \in quota[a].config.max_pending_messages, max \in Nat,
           NEW last \in [Tasks -> Nat], NEW since \in [Tasks -> Nat], NEW base \in Nat,
           Bounded(a, max, last, since, base)
    PROVE  \E new \in [Tasks -> Nat] : Bounded(a, max, last, new, base)'
<1> USE DEF TenantInv
<1>1. UNCHANGED workload /\ Len(messages) \in Nat
  BY GroupsGrow, LenMessages
<1>2. ASSUME NEW u \in Tasks, u # t, Checking(task[u], a)'
      PROVE  /\ since[u] <= Len(messages)
             /\ last[u] \in Waiting(a) => last[u] <= since[u]
             /\ Checked(task[u], since[u], a, max)'
  BY <1>2, OthersWait, StaysChecked DEF TaskInv
<1>3. CASE ReadPendingLimit(t)
  <2> DEFINE new == [since EXCEPT ![t] = Len(messages)]
  <2>1. PICK n \in Nat : n = Len(messages)
    BY <1>1
  <2>2. PICK new2 \in [Tasks -> Nat] : new2 = [since EXCEPT ![t] = n]
    OBVIOUS
  <2>3. ASSUME NEW u \in Tasks, Checking(task[u], a)'
        PROVE  /\ new2[u] <= Len(messages)
               /\ last[u] \in Waiting(a) => last[u] <= new2[u]
               /\ Checked(task[u], new2[u], a, max)'
    <3>1. CASE u # t
      <4>1. new2[u] = since[u]
        BY <2>2, <3>1
      <4> QED BY <1>2, <2>3, <3>1, <4>1 DEF Checked
    <3>2. CASE u = t
      <4>1. new2[u] = Len(messages)
        BY <2>1, <2>2, <3>2
      <4>2. last[u] \in Waiting(a) => last[u] <= Len(messages)
        BY WaitingFinite, LenMessages
      <4>3. PICK k : k = new2[u]
        OBVIOUS
      <4>4. Checked(task[t], k, a, max)'
        BY <1>3, <2>3, <3>2, LookChecked
      <4> QED BY <1>1, <3>2, <4>1, <4>2, <4>3, <4>4 DEF Checked
    <3> QED BY <3>1, <3>2
  <2>4. Bounded(a, max, last, new2, base)'
    BY <1>1, <2>3, BoundedThins
  <2> QED BY <2>4
<1>4. CASE ~ReadPendingLimit(t)
  <2>1. ASSUME Checking(task[t], a)'
        PROVE  Checking(task[t], a) /\ Checked(task[t], since[t], a, max)'
    <3>1. Underway(task'[t]) /\ EnqueueStep(t)
      <4>1. Underway(task'[t])
        BY <2>1, CheckingUnderway
      <4> QED BY <4>1, OthersKeepOff
    <3>2. SumOne(t) \/ ComparePending(t) \/ Admit(t)
      BY <1>4, <2>1, <3>1, NextPlace DEF EnqueueStep, Checking
    <3>3. Checking(task[t], a) => Checked(task[t], since[t], a, max)
      BY DEF Bounded
    <3>4. PICK n : n = since[t]
      OBVIOUS
    <3>5. CASE SumOne(t)
      <4>1. Checking(task[t], a)
        BY <2>1, <3>5, SumOneFields DEF Checking
      <4>2. Checked(task[t], n, a, max)'
        BY <2>1, <3>3, <3>4, <3>5, <4>1, SumOneChecked
      <4> QED BY <3>4, <4>1, <4>2
    <3>6. CASE ComparePending(t)
      <4>1. Checking(task[t], a)
        <5>1. Goto(t, "admit")
          BY <3>1, <3>6, NextPlace
        <5>2. task'[t].tenant = task[t].tenant
          BY <5>1 DEF Goto, TaskInv, Sound, Formed
        <5> QED BY <2>1, <3>6, <5>2 DEF Checking, ComparePending, Running, At, Call
      <4>2. Checked(task[t], n, a, max)'
        BY <2>1, <3>3, <3>4, <3>6, <4>1, CompareChecked
      <4> QED BY <3>4, <4>1, <4>2
    <3>7. CASE Admit(t)
      <4>1. Checking(task[t], a) /\ Checked(task[t], n, a, max)'
        BY <2>1, <3>3, <3>4, <3>7, AdmitChecked
      <4> QED BY <3>4, <4>1
    <3> QED BY <3>2, <3>5, <3>6, <3>7
  <2>2. ASSUME NEW u \in Tasks, Checking(task[u], a)'
        PROVE  /\ since[u] <= Len(messages)
               /\ last[u] \in Waiting(a) => last[u] <= since[u]
               /\ Checked(task[u], since[u], a, max)'
    BY <1>2, <2>1, <2>2 DEF Bounded
  <2>3. Bounded(a, max, last, since, base)'
    BY <1>1, <2>2, BoundedThins
  <2> QED BY <2>3
<1> QED BY <1>3, <1>4

\* A message is put: what its call had seen becomes the base.
LEMMA PutBounded ==
    ASSUME TenantInv, TenantInv', CallerInv, LeasesInv, QuotaInv, NEW t \in Tasks, Put(t), ~Thins,
           NEW a \in Tenants, NEW max \in Nat,
           NEW last \in [Tasks -> Nat], NEW since \in [Tasks -> Nat], NEW base \in Nat,
           Bounded(a, max, last, since, base)
    PROVE  \E l \in [Tasks -> Nat], b \in Nat : Bounded(a, max, l, since, b)'
<1> USE DEF TenantInv
<1>1. /\ UNCHANGED ghost
      /\ Len(messages') = Len(messages) + 1
      /\ Ids' = Ids \cup {Len(messages) + 1}
      /\ \A m \in Ids' : Home(m)' = IF m \in Ids THEN Home(m) ELSE Scope(t)
      /\ \A s \in Scopes : \A m \in Held(s)' : m \in Held(s) \/ (s = Scope(t) /\ m = Len(messages) + 1)
  BY PutAdds
<1>2. Len(messages) \in Nat /\ Ids = 1..Len(messages) /\ workload' = workload
  BY LenMessages DEF Put
<1>3. PICK id \in Nat : id = Len(messages) + 1
  BY <1>2
<1>4. task[t].pc = "put" /\ Client(t) /\ Scope(t) \in Scopes /\ Scope(t)[1] = Tenant(t)
  <2>1. task[t].pc = "put" /\ Client(t) /\ task[t].pc \in InQueue
    BY DEF Put, At, Client, Enqueue, InQueue
  <2> QED BY <2>1, OwnGroup
<1>5. \A m \in Waiting(a)' : m \in Waiting(a) \/ (m = id /\ Tenant(t) = a)
  <2>1. ASSUME NEW m \in Waiting(a)' PROVE m \in Waiting(a) \/ (m = id /\ Tenant(t) = a)
    <3>1. PICK s \in Scopes : s[1] = a /\ m \in Held(s)' /\ m \notin ghost'.exempt
      BY <2>1, WaitingWas
    <3>2. m \in Held(s) \/ (s = Scope(t) /\ m = id)
      BY <1>1, <1>3, <3>1
    <3> QED BY <1>1, <1>4, <3>1, <3>2, WaitingIs
  <2> QED BY <2>1
<1>6. Waiting(a) \subseteq 1..Len(messages) /\ Enqueuers' = Enqueuers
  BY <1>2, WaitingFinite DEF Enqueuers
<1>7. ~Checking(task'[t], a)
  <2>1. Checking(task'[t], a) => Underway(task'[t])
    BY CheckingUnderway
  <2> QED BY <2>1, NextPlace DEF Checking
  \* What was there before is no more than it was.
<1>8. ASSUME NEW n \in Nat, n <= Len(messages), NEW left
      PROVE  Below(a, n)' \subseteq Below(a, n) /\ Summed(a, n, left)' \subseteq Summed(a, n, left)
  <2>1. Below(a, n)' \subseteq Below(a, n)
    BY <1>2, <1>3, <1>5, <1>8 DEF Below
  <2>2. Below(a, n) \subseteq Ids
    BY WaitingFinite DEF Below
  <2> QED BY <1>1, <2>1, <2>2 DEF Summed
<1>9. ASSUME NEW n \in Nat, n <= Len(messages), NEW left
      PROVE  /\ Cardinality(Below(a, n)') \in Nat /\ Cardinality(Below(a, n)) \in Nat
             /\ Cardinality(Below(a, n)') <= Cardinality(Below(a, n))
             /\ Cardinality(Summed(a, n, left)') \in Nat /\ Cardinality(Summed(a, n, left)) \in Nat
             /\ Cardinality(Summed(a, n, left)') <= Cardinality(Summed(a, n, left))
  <2>1. Summed(a, n, left) \subseteq Below(a, n)
    BY DEF Summed
  <2>2. IsFiniteSet(Below(a, n)) /\ IsFiniteSet(Summed(a, n, left))
    BY <2>1, BelowFinite
  <2> QED BY <1>8, <1>9, <2>2, FS_Subset, FS_CardinalityType
<1>below. ASSUME NEW n \in Nat, n <= Len(messages)
      PROVE  /\ Cardinality(Below(a, n)') \in Nat /\ Cardinality(Below(a, n)) \in Nat
             /\ Cardinality(Below(a, n)') <= Cardinality(Below(a, n))
  BY <1>9, <1>below
<1>10. ASSUME NEW u \in Tasks, Checking(task[u], a)'
       PROVE  /\ u # t /\ since[u] <= Len(messages)
              /\ last[u] \in Waiting(a) => last[u] <= since[u]
              /\ Checked(task[u], since[u], a, max)'
  <2>1. u # t /\ task'[u] = task[u]
    BY <1>4, <1>7, <1>10, OthersWait DEF TaskInv
  <2>2. Checking(task[u], a)
    BY <1>10, <2>1 DEF Checking
  <2>3. /\ since[u] <= Len(messages) /\ (last[u] \in Waiting(a) => last[u] <= since[u])
        /\ Checked(task[u], since[u], a, max)
    BY <2>2 DEF Bounded
  <2>4. PICK n \in Nat : n = since[u]
    OBVIOUS
  <2>5. PICK left : left = task[u].left
    OBVIOUS
  <2>6. /\ Cardinality(Below(a, n)') \in Nat /\ Cardinality(Below(a, n)) \in Nat
        /\ Cardinality(Below(a, n)') <= Cardinality(Below(a, n))
        /\ Cardinality(Summed(a, n, left)') \in Nat /\ Cardinality(Summed(a, n, left)) \in Nat
        /\ Cardinality(Summed(a, n, left)') <= Cardinality(Summed(a, n, left))
        /\ Below(a, n)' \subseteq Below(a, n)
    BY <1>8, <1>9, <2>3, <2>4
  <2>7. Checked(task[u], since[u], a, max)'
    BY <2>1, <2>3, <2>4, <2>5, <2>6 DEF Checked
  <2> QED BY <2>1, <2>3, <2>7
<1>11. CASE Tenant(t) # a
  <2>1. Waiting(a)' \subseteq Waiting(a)
    BY <1>5, <1>11
  <2>2. Cardinality(Below(a, base)') < Ceiling(max)
    <3>1. base <= Len(messages) /\ Cardinality(Below(a, base)) < Ceiling(max)
      BY DEF Bounded
    <3> QED BY <1>below, <3>1 DEF Ceiling
  <2>3. Bounded(a, max, last, since, base)'
    BY <1>1, <1>2, <1>6, <1>10, <2>1, <2>2 DEF Bounded
  <2> QED BY <2>3
<1>12. CASE Tenant(t) = a
  <2>1. Checking(task[t], a)
    BY <1>4, <1>12 DEF Checking, Tenant
  <2>2. /\ since[t] <= Len(messages) /\ (last[t] \in Waiting(a) => last[t] <= since[t])
        /\ Checked(task[t], since[t], a, max)
    BY <2>1 DEF Bounded
  <2>3. Cardinality(Below(a, since[t])) < Ceiling(max)
    <3>1. Below(a, since[t]) = {} => Cardinality(Below(a, since[t])) = 0
      BY FS_EmptySet
    <3>2. Cardinality(Below(a, since[t])) < max => max # 0
      BY BelowFinite
    <3> QED BY <1>4, <2>2, <3>1, <3>2 DEF Checked, Ceiling
  <2>4. PICK b \in Nat : b = IF base < since[t] THEN since[t] ELSE base
    OBVIOUS
  <2>5. b <= Len(messages) /\ base <= b /\ since[t] <= b /\ (b = base \/ b = since[t])
    BY <1>2, <2>2, <2>4 DEF Bounded
  <2>6. Cardinality(Below(a, b)) < Ceiling(max)
    BY <2>3, <2>5 DEF Bounded
  <2>7. PICK l \in [Tasks -> Nat] : l = [last EXCEPT ![t] = id]
    OBVIOUS
  <2>8. t \in Enqueuers
    <3>1. task[t].todo # <<>> /\ Head(task[t].todo).tool = "enqueue"
      BY <1>4, OwnGroup DEF CallerInv, Underway, Enqueuing, InQueue
    <3>2. AllCalls(task[t].todo)
      BY DEF TaskInv, Sound, Formed
    <3>3. 1 \in DOMAIN task[t].todo /\ Head(task[t].todo) = task[t].todo[1]
      BY <3>1, <3>2 DEF AllCalls
    <3> QED BY <3>1, <3>3 DEF CallerInv
  <2>9. ASSUME NEW m \in Waiting(a)' PROVE m <= b \/ \E u \in Enqueuers : l[u] = m
    <3>1. CASE m = id
      BY <2>7, <2>8, <3>1
    <3>2. CASE m # id
      <4>1. m \in Waiting(a) /\ m \in Nat
        BY <1>2, <1>5, <1>6, <2>9, <3>2
      <4>2. CASE m <= base
        BY <1>2, <2>5, <4>1, <4>2
      <4>3. CASE ~(m <= base)
        <5>1. PICK u \in Enqueuers : last[u] = m
          BY <4>1, <4>3 DEF Bounded
        <5>2. CASE u = t
          BY <1>2, <2>2, <2>5, <4>1, <5>1, <5>2
        <5>3. CASE u # t
          BY <2>7, <5>1, <5>3 DEF Enqueuers
        <5> QED BY <5>2, <5>3
      <4> QED BY <4>2, <4>3
    <3> QED BY <3>1, <3>2
  <2>10. Cardinality(Below(a, b)') < Ceiling(max)
    BY <1>below, <2>5, <2>6 DEF Ceiling
  <2>11. ASSUME NEW u \in Tasks, Checking(task[u], a)'
         PROVE  /\ since[u] <= Len(messages')
                /\ l[u] \in Waiting(a)' => l[u] <= since[u]
                /\ Checked(task[u], since[u], a, max)'
    <3>1. u # t /\ l[u] = last[u] /\ since[u] <= Len(messages)
      BY <1>10, <2>7, <2>11
    <3>2. last[u] # id
      BY <1>2, <1>3 DEF Bounded
    <3>3. l[u] \in Waiting(a)' => last[u] \in Waiting(a)
      BY <1>5, <3>1, <3>2
    <3> QED BY <1>1, <1>2, <1>10, <2>11, <3>1, <3>3
  <2>12. \A u \in Tasks : l[u] <= Len(messages')
    BY <1>1, <1>2, <1>3, <2>7 DEF Bounded
  <2>13. Bounded(a, max, l, since, b)'
    BY <1>1, <1>2, <2>12, <1>6, <2>5, <2>9, <2>10, <2>11 DEF Bounded
  <2> QED BY <2>13
<1> QED BY <1>11, <1>12

PendingInv == CallerInv /\ QuotaInv /\ SumInv /\ LeasesInv /\ OpenInv /\ OvershootInv

LEMMA MaxIsNat ==
    ASSUME QuotaInv, NEW a \in Tenants, NEW max \in quota[a].config.max_pending_messages
    PROVE  max \in Nat
<1>1. quota[a].config.max_pending_messages \in Option(0..4)
  BY DEF QuotaInv, Quota!QuotaConfig, Limits
<1> QED BY <1>1 DEF Option, Some

LEMMA PendingInit == Init => PendingInv
<1> SUFFICES ASSUME Init PROVE PendingInv
  OBVIOUS
<1>1. ASSUME NEW s \in Scopes PROVE group[s].leased = {} /\ InGroup(group[s]) = {}
  BY DEF Init, NewGroup, InGroup, Range
<1>2. LeasesInv
  BY <1>1, FS_EmptySet DEF LeasesInv
<1>hands. \A s : InHand(s) = {}
  BY DEF Init, NewTask, InHand, At
<1>3. \A a \in Tenants : Waiting(a) = {}
  BY <1>1, <1>hands, WaitingIs DEF Held
<1>4. OpenInv
  BY <1>3 DEF OpenInv
<1>5. OvershootInv
  <2> SUFFICES ASSUME NEW a \in Tenants, NEW max \in quota[a].config.max_pending_messages
               PROVE  Bounded(a, max, [t \in Tasks |-> 0], [t \in Tasks |-> 0], 0)
    BY DEF OvershootInv
  <2>1. Len(messages) = 0
    BY DEF Init
  <2>2. max \in Nat
    BY QuotaInit, MaxIsNat
  <2>3. Cardinality(Below(a, 0)) = 0
    BY <1>3, FS_EmptySet DEF Below
  <2>4. \A t \in Tasks : ~Checking(task[t], a)
    BY DEF Init, NewTask, Checking
  <2> QED BY <1>3, <2>1, <2>2, <2>3, <2>4 DEF Bounded, Ceiling
<1> QED BY <1>2, <1>4, <1>5, CallerInit, QuotaInit, SumInit DEF PendingInv

\* A tenant whose limits stay, in a step that adds nothing to its queues.
LEMMA OpenThins ==
    ASSUME TenantInv, OpenInv, Thins, groups \subseteq groups', NEW a \in Tenants,
           quota'[a].config = quota[a].config
    PROVE  quota'[a].config.max_pending_messages # {} => \A m \in Waiting(a)' : Home(m)' \in groups'
<1>1. Waiting(a)' \subseteq Waiting(a) /\ Waiting(a) \subseteq Ids
  BY WaitingThins, WaitingFinite
<1>2. \A m \in Waiting(a) : Home(m)' = Home(m)
  BY <1>1 DEF Thins, SameHomes
<1> QED BY <1>1, <1>2 DEF OpenInv

\* configure_tenant_quota: nothing that was there counts any more.
LEMMA ConfigureClears ==
    ASSUME TenantInv, TenantInv', Remembers(ghost), NEW a \in Tenants, Thins,
           NEW allowed, ghost' = [ghost EXCEPT !.allowed[a] = allowed, !.exempt = @ \cup MessagesOf(a)],
           UNCHANGED messages
    PROVE  Waiting(a)' = {}
<1>1. ghost'.exempt = ghost.exempt \cup MessagesOf(a)
  BY DEF Remembers
<1>2. Waiting(a)' \subseteq Waiting(a)
  BY WaitingThins
<1>3. ASSUME NEW m \in Waiting(a) PROVE m \in MessagesOf(a)
  BY <1>3, WaitingHome DEF TenantInv, Home, MessagesOf, Ids
<1>4. \A m \in Waiting(a)' : m \notin ghost'.exempt
  BY DEF Waiting
<1> QED BY <1>1, <1>2, <1>3, <1>4

LEMMA ClearedBounded ==
    ASSUME TenantInv', NEW a \in Tenants, NEW max \in Nat, Waiting(a)' = {}
    PROVE  \E last, since \in [Tasks -> Nat], base \in Nat : Bounded(a, max, last, since, base)'
<1>1. PICK n \in Nat : n = Len(messages')
  BY LenMessages DEF TenantInv
<1>2. PICK zero \in [Tasks -> Nat] : zero = [t \in Tasks |-> 0]
  OBVIOUS
<1>3. \A k : Below(a, k)' = {}
  BY DEF Below
<1>4. Cardinality(Below(a, 0)') = 0
  BY <1>3, FS_EmptySet
<1>5. \A t \in Tasks : Checked(task[t], zero[t], a, max)'
  BY <1>3 DEF Checked
<1>6. Bounded(a, max, zero, zero, 0)'
  BY <1>1, <1>2, <1>4, <1>5 DEF Bounded, Ceiling
<1> QED BY <1>6

LEMMA OpenNext ==
    ASSUME TenantInv, TenantInv', Remembers(ghost), PendingInv, [Next]_vars
    PROVE  OpenInv' /\ LeasesInv'
<1> USE DEF PendingInv
<1>1. ASSUME Thins, groups \subseteq groups',
             \A a \in Tenants : quota'[a].config = quota[a].config
      PROVE  OpenInv'
  BY <1>1, OpenThins DEF OpenInv
<1>2. ASSUME NEW t \in Tasks, Client(t) PROVE OpenInv' /\ LeasesInv'
  <2>1. groups \subseteq groups' /\ (ConfigureTenantQuota(t) => ~Put(t))
    BY <1>2, GroupsGrow DEF ConfigureTenantQuota, Put, Running, At
  <2>2. CASE ConfigureTenantQuota(t)
    <3>1. Thins /\ LeasesInv' /\ UNCHANGED messages
      BY <1>2, <2>1, <2>2, ClientThins DEF ConfigureTenantQuota
    <3>2. PICK a \in Tenants :
             /\ quota' = [quota EXCEPT ![a] = Quota!set_config(@, Call(t).config)]
             /\ ghost' = [ghost EXCEPT !.allowed[a] = <<>>, !.exempt = @ \cup MessagesOf(a)]
      BY <2>2, ConfigSet
    <3>3. Waiting(a)' = {}
      BY <3>1, <3>2, ConfigureClears
    <3>4. \A b \in Tenants : b # a => quota'[b] = quota[b]
      BY <3>2 DEF QuotaInv
    <3>5. ASSUME NEW b \in Tenants
          PROVE  quota'[b].config.max_pending_messages # {} => \A m \in Waiting(b)' : Home(m)' \in groups'
      <4>1. CASE b = a
        BY <3>3, <4>1
      <4>2. CASE b # a
        BY <2>1, <3>1, <3>4, <4>2, OpenThins
      <4> QED BY <4>1, <4>2
    <3> QED BY <3>1, <3>5 DEF OpenInv
  <2>3. CASE ~ConfigureTenantQuota(t) /\ ~Put(t)
    <3>1. Thins /\ LeasesInv'
      BY <1>2, <2>3, ClientThins
    <3>2. \A a \in Tenants : quota'[a].config = quota[a].config
      BY <1>2, <2>3, LimitsKept DEF SameLimits
    <3> QED BY <1>1, <2>1, <3>1, <3>2
  <2>4. CASE Put(t)
    <3>1. UNCHANGED <<quota, groups>> /\ UNCHANGED ghost /\ LeasesInv'
      BY <2>4, PutAdds
    <3>2. CASE Thins
      BY <1>1, <3>1, <3>2
    <3>3. CASE ~Thins
      <4>1. /\ \A m \in Ids' : Home(m)' = IF m \in Ids THEN Home(m) ELSE Scope(t)
            /\ \A s \in Scopes : \A m \in Held(s)' : m \in Held(s) \/ (s = Scope(t) /\ m = Len(messages) + 1)
            /\ Ids' = Ids \cup {Len(messages) + 1}
        BY <2>4, <3>3, PutAdds
      <4>2. Len(messages) + 1 \notin Ids
        BY LenMessages DEF TenantInv
      <4>3. Scope(t) \in groups
        BY <2>4 DEF CallerInv, Underway, Enqueuing, Put, At
      <4>4. ASSUME NEW a \in Tenants, NEW m \in Waiting(a)',
                   quota'[a].config.max_pending_messages # {}
            PROVE  Home(m)' \in groups'
        <5>1. PICK s \in Scopes : s[1] = a /\ m \in Held(s)' /\ m \notin ghost'.exempt
          BY <4>4, WaitingWas
        <5>2. CASE m = Len(messages) + 1
          BY <3>1, <4>1, <4>2, <4>3, <5>2
        <5>3. CASE m # Len(messages) + 1
          <6>1. m \in Waiting(a)
            BY <3>1, <4>1, <5>1, <5>3, WaitingIs
          <6>2. m \in Ids /\ Home(m) \in groups
            BY <3>1, <4>4, <6>1, WaitingFinite DEF OpenInv
          <6> QED BY <3>1, <4>1, <6>2
        <5> QED BY <5>2, <5>3
      <4> QED BY <3>1, <4>4 DEF OpenInv
    <3> QED BY <3>2, <3>3
  <2> QED BY <2>2, <2>3, <2>4
<1>3. CASE Restart
  <2>1. \A a \in Tenants : quota'[a].config.max_pending_messages = {}
    BY <1>3 DEF Restart, Quota!new, Quota!UNLIMITED
  <2>2. ASSUME NEW s \in Scopes PROVE group'[s].leased = {}
    <3>1. group'[s] = Reopened(group[s])
      BY <1>3 DEF Restart
    <3>2. Holds(group[s], Owns[s])
      BY DEF TenantInv, GroupInv
    <3> QED BY <3>1, <3>2 DEF Reopened, Holds
  <2> QED BY <2>1, <2>2, FS_EmptySet DEF OpenInv, LeasesInv
<1>4. ASSUME UNCHANGED <<group, messages, groups, task>>, ghost'.exempt = ghost.exempt,
             \A a \in Tenants : quota'[a].config = quota[a].config
      PROVE  OpenInv' /\ LeasesInv'
  <2>1. Thins /\ LeasesInv'
    BY <1>4, HomesSame, HandsSame, SameThins
  <2> QED BY <1>1, <1>4, <2>1
<1>5. CASE Tick
  <2>1. quota' = [a \in Tenants |-> Quota!Age(quota[a], MaxAge)] /\ UNCHANGED <<group, messages, groups, task>>
    BY <1>5 DEF Tick
  <2>2. \A a \in Tenants : quota'[a].config = quota[a].config
    BY <2>1 DEF QuotaInv, Quota!Age
  <2>3. ghost'.exempt = ghost.exempt
    BY <1>5 DEF Tick, Remembers
  <2> QED BY <1>4, <2>1, <2>2, <2>3
<1>6. CASE (\E w \in Workers : AuditReceive(w) \/ AuditWrite(w)) \/ UNCHANGED vars
  BY <1>4, <1>6 DEF AuditReceive, AuditWrite, registry, vars
<1> QED BY <1>2, <1>3, <1>5, <1>6 DEF Next, Client

\* No task moves and nothing is added.
LEMMA IdleBounded ==
    ASSUME TenantInv, Thins, UNCHANGED <<task, workload>>, NEW a, NEW max \in Nat,
           NEW last \in [Tasks -> Nat], NEW since \in [Tasks -> Nat], NEW base \in Nat,
           Bounded(a, max, last, since, base)
    PROVE  Bounded(a, max, last, since, base)'
<1>1. \A u \in Tasks : Checking(task[u], a)' =>
             /\ since[u] <= Len(messages)
             /\ last[u] \in Waiting(a) => last[u] <= since[u]
             /\ Checked(task[u], since[u], a, max)'
  BY StaysChecked
<1> QED BY <1>1, BoundedThins

LEMMA OvershootNext ==
    ASSUME TenantInv, TenantInv', Remembers(ghost), PendingInv, QuotaInv', [Next]_vars
    PROVE  OvershootInv'
<1> USE DEF PendingInv
<1>1. SUFFICES ASSUME NEW a \in Tenants, NEW max \in quota'[a].config.max_pending_messages
               PROVE  \E last, since \in [Tasks -> Nat], base \in Nat : Bounded(a, max, last, since, base)'
  BY DEF OvershootInv
<1>2. max \in Nat
  <2>1. quota'[a].config.max_pending_messages \in Option(0..4)
    BY DEF QuotaInv, Quota!QuotaConfig, Limits
  <2> QED BY <1>1, <2>1 DEF Option, Some
<1>3. ASSUME max \in quota[a].config.max_pending_messages
      PROVE  \E last, since \in [Tasks -> Nat], base \in Nat : Bounded(a, max, last, since, base)
  BY <1>3 DEF OvershootInv
<1>4. ASSUME max \in quota[a].config.max_pending_messages, Thins, UNCHANGED <<task, workload>>
      PROVE  \E last, since \in [Tasks -> Nat], base \in Nat : Bounded(a, max, last, since, base)'
  BY <1>2, <1>3, <1>4, IdleBounded
<1>5. ASSUME NEW t \in Tasks, Client(t)
      PROVE  \E last, since \in [Tasks -> Nat], base \in Nat : Bounded(a, max, last, since, base)'
  <2>1. ASSUME max \in quota[a].config.max_pending_messages, Thins
        PROVE  \E last, since \in [Tasks -> Nat], base \in Nat : Bounded(a, max, last, since, base)'
    <3>1. PICK last \in [Tasks -> Nat], since \in [Tasks -> Nat], base \in Nat :
                 Bounded(a, max, last, since, base)
      BY <1>3, <2>1
    <3>2. PICK new \in [Tasks -> Nat] : Bounded(a, max, last, new, base)'
      BY <1>2, <1>5, <2>1, <3>1, ClientBounded
    <3> QED BY <3>2
  <2>2. CASE ConfigureTenantQuota(t)
    <3>1. Thins /\ UNCHANGED messages
      BY <1>5, <2>2, ClientThins DEF ConfigureTenantQuota, Put, Running, At
    <3>2. PICK b \in Tenants :
             /\ quota' = [quota EXCEPT ![b] = Quota!set_config(@, Call(t).config)]
             /\ ghost' = [ghost EXCEPT !.allowed[b] = <<>>, !.exempt = @ \cup MessagesOf(b)]
      BY <2>2, ConfigSet
    <3>3. CASE a = b
      BY <1>2, <3>1, <3>2, <3>3, ConfigureClears, ClearedBounded
    <3>4. CASE a # b
      <4>1. quota'[a] = quota[a]
        BY <3>2, <3>4 DEF QuotaInv
      <4> QED BY <2>1, <3>1, <4>1
    <3> QED BY <3>3, <3>4
  <2>3. CASE ~ConfigureTenantQuota(t)
    <3>1. max \in quota[a].config.max_pending_messages
      BY <1>5, <2>3, LimitsKept DEF SameLimits
    <3>2. CASE ~Put(t) \/ Thins
      <4>1. Thins
        BY <1>5, <3>2, ClientThins
      <4> QED BY <2>1, <3>1, <4>1
    <3>3. CASE Put(t) /\ ~Thins
      <4>1. PICK last \in [Tasks -> Nat], since \in [Tasks -> Nat], base \in Nat :
                   Bounded(a, max, last, since, base)
        BY <1>3, <3>1
      <4>2. PICK l \in [Tasks -> Nat], b \in Nat : Bounded(a, max, l, since, b)'
        BY <1>2, <3>3, <4>1, PutBounded
      <4> QED BY <4>2
    <3> QED BY <3>2, <3>3
  <2> QED BY <2>2, <2>3
<1>6. CASE Restart
  <2>1. quota'[a].config.max_pending_messages = {}
    BY <1>6 DEF Restart, Quota!new, Quota!UNLIMITED
  <2> QED BY <2>1
<1>7. CASE Tick
  <2>1. /\ quota' = [b \in Tenants |-> Quota!Age(quota[b], MaxAge)]
        /\ UNCHANGED <<group, messages, task, workload>>
    BY <1>7 DEF Tick
  <2>2. quota'[a].config = quota[a].config
    BY <2>1 DEF QuotaInv, Quota!Age
  <2>3. ghost'.exempt = ghost.exempt
    BY <1>7 DEF Tick, Remembers
  <2>4. Thins
    BY <2>1, <2>3, HomesSame, HandsSame, SameThins
  <2> QED BY <1>4, <2>1, <2>2, <2>4
<1>8. CASE (\E w \in Workers : AuditReceive(w) \/ AuditWrite(w)) \/ UNCHANGED vars
  <2>1. UNCHANGED <<group, messages, task, workload, quota, ghost>>
    BY <1>8 DEF AuditReceive, AuditWrite, registry, vars
  <2>2. Thins
    BY <2>1, HomesSame, HandsSame, SameThins
  <2> QED BY <1>4, <2>1, <2>2
<1> QED BY <1>5, <1>6, <1>7, <1>8 DEF Next, Client

LEMMA PendingNext == TenantInv /\ Remembers(ghost) /\ PendingInv /\ [Next]_vars => PendingInv'
<1> SUFFICES ASSUME TenantInv, Remembers(ghost), PendingInv, [Next]_vars PROVE PendingInv'
  OBVIOUS
<1>1. TenantInv' /\ CallerInv' /\ QuotaInv' /\ SumInv'
  BY TenantNext, CallerNext, QuotaNext, SumNext DEF PendingInv
<1> QED BY <1>1, OpenNext, OvershootNext DEF PendingInv

\* The messages that count are those below the base and each enqueuer's last.
LEMMA BoundHolds ==
    ASSUME TenantInv, NEW a, NEW max \in Nat, NEW last \in [Tasks -> Nat], NEW since, NEW base \in Nat,
           Bounded(a, max, last, since, base)
    PROVE  Cardinality(Waiting(a)) + 1 <= Ceiling(max) + Cardinality(Enqueuers)
<1> DEFINE latest == {last[t] : t \in Enqueuers}
           low == Below(a, base)
<1>1. IsFiniteSet(Enqueuers)
  BY WorkersAssumption, FS_Subset DEF Enqueuers
<1>2. IsFiniteSet(latest) /\ Cardinality(latest) <= Cardinality(Enqueuers)
  <2> DEFINE f == [t \in Enqueuers |-> last[t]]
  <2>1. f \in Surjection(Enqueuers, latest)
    BY DEF Surjection
  <2> QED BY <1>1, <2>1, FS_Surjection
<1>3. IsFiniteSet(low) /\ Cardinality(low) \in Nat /\ Cardinality(low) < Ceiling(max)
  BY BelowFinite DEF Bounded
<1>4. Cardinality(latest) \in Nat /\ Cardinality(Enqueuers) \in Nat
  BY <1>1, <1>2, FS_CardinalityType
<1>5. Waiting(a) \subseteq low \cup latest
  BY DEF Bounded, Below
<1> HIDE DEF latest, low
<1>6. /\ IsFiniteSet(low \cup latest)
      /\ Cardinality(low \cup latest) = Cardinality(low) + Cardinality(latest) - Cardinality(low \cap latest)
  BY <1>2, <1>3, FS_Union
<1>7. Cardinality(low \cap latest) \in Nat
  BY <1>3, FS_Intersection, FS_CardinalityType
<1>8. Cardinality(Waiting(a)) \in Nat /\ Cardinality(Waiting(a)) <= Cardinality(low \cup latest)
  BY <1>5, <1>6, FS_Subset, FS_CardinalityType
<1> QED BY <1>2, <1>3, <1>4, <1>6, <1>7, <1>8 DEF Ceiling

\* enqueue_impl's check of max_pending_messages, which reads the ceiling, sums the queues
\* one by one and puts the message, with other calls, status calls, expiries, new quotas and
\* restarts in between: of the messages that some sum could count, n clients that enqueue
\* take a tenant past its ceiling by n - 1 at most, whatever the ceiling and however many
\* clients and queues.  A message that a nack or a reclaim had taken out of its group when
\* an enqueue read the group's length was in no sum, and is not among them.
THEOREM OvershootIsBounded == Spec => []PendingOvershootBounded
<1>1. TenantInv /\ PendingInv => PendingOvershootBounded
  <2> SUFFICES ASSUME TenantInv, PendingInv, NEW a \in Tenants,
                      NEW max \in quota[a].config.max_pending_messages
               PROVE  Cardinality(Waiting(a)) + 1 <= Ceiling(max) + Cardinality(Enqueuers)
    BY DEF PendingOvershootBounded, Waiting, Ceiling
  <2>1. max \in Nat
    BY MaxIsNat DEF PendingInv
  <2>2. PICK last \in [Tasks -> Nat], since \in [Tasks -> Nat], base \in Nat :
               Bounded(a, max, last, since, base)
    BY DEF PendingInv, OvershootInv
  <2> QED BY <2>1, <2>2, BoundHolds
<1>2. AgedInv => Remembers(ghost)
  BY DEF AgedInv
<1> QED BY <1>1, <1>2, TenantInit, TenantNext, AgedInit, AgedNext, PendingInit, PendingNext, PTL DEF Spec

-----------------------------------------------------------------------------
(* The rate of tool calls                                                   *)

\* What is left of a window's entries: a suffix, from the first that is young.
LEMMA FromFirstSuffix ==
    ASSUME NEW S, NEW s \in Seq(S), NEW young \in SUBSET DOMAIN s
    PROVE  LET r == FromFirst(s, young) IN
           /\ r \in Seq(S) /\ Len(r) \in Nat /\ Len(r) <= Len(s)
           /\ \A j \in Nat : j < Len(r) => r[Len(r) - j] = s[Len(s) - j]
           /\ \A i \in young : Len(s) - i < Len(r)
           /\ Len(r) # 0 => Len(s) - Len(r) + 1 \in young
<1> DEFINE n == Len(s)
           m == Min(young \cup {n + 1})
           r == FromFirst(s, young)
<1>1. n \in Nat /\ DOMAIN s = 1..n
  OBVIOUS
<1>2. young \cup {n + 1} \in SUBSET Nat /\ young \cup {n + 1} # {}
  BY <1>1
<1>3. m \in young \cup {n + 1} /\ \A x \in young \cup {n + 1} : m <= x
  BY <1>2, MinFacts
<1>4. r = SubSeq(s, m, n)
  BY DEF FromFirst
<1> HIDE DEF r, m
<1>5. m \in 1..(n + 1)
  BY <1>1, <1>3
<1>6. r \in Seq(S) /\ Len(r) = n - m + 1 /\ \A i \in 1..(n - m + 1) : r[i] = s[m + i - 1]
  BY <1>1, <1>4, <1>5
<1>7. ASSUME NEW j \in Nat, j < Len(r) PROVE r[Len(r) - j] = s[n - j]
  <2>1. Len(r) - j \in 1..(n - m + 1) /\ m + (Len(r) - j) - 1 = n - j
    BY <1>1, <1>5, <1>6, <1>7
  <2> QED BY <1>6, <2>1
<1>8. \A i \in young : n - i < Len(r)
  BY <1>1, <1>3, <1>5, <1>6
<1>9. Len(r) # 0 => n - Len(r) + 1 \in young
  BY <1>1, <1>3, <1>5, <1>6
<1> QED BY <1>1, <1>5, <1>6, <1>7, <1>8, <1>9 DEF r

\* It is the same in every module that takes it.
LEMMA SameSuffix ==
    ASSUME NEW s, NEW young
    PROVE  Quota!FromFirst(s, young) = FromFirst(s, young) /\ Admission!FromFirst(s, young) = FromFirst(s, young)
BY DEF Quota!FromFirst, Admission!FromFirst, FromFirst, Quota!Min, Admission!Min, Min

\* The calls allowed since the quota was set that are in its window are on record, in
\* the order they came, and one that was allowed found room.
OnRecord(requests, allowed, window) ==
    \A j \in Nat : j < Len(allowed) /\ allowed[Len(allowed) - j] < window =>
      j < Len(requests) /\ requests[Len(requests) - j] = allowed[Len(allowed) - j]

Rated(q, allowed) ==
    /\ DOMAIN q = {"config", "requests"}
    /\ q.requests \in Seq(0..MaxAge) /\ allowed \in Seq(Nat)
    /\ \A limit \in q.config.requests_per_window :
         /\ allowed # <<>> => Len(q.requests) <= limit
         /\ OnRecord(q.requests, allowed, q.config.window)

LEMMA HeadOfSome == ASSUME NEW S, NEW s \in Seq(S), s # <<>> PROVE Head(s) \in S
OBVIOUS

LEMMA EvictedFacts ==
    ASSUME NEW q, DOMAIN q = {"config", "requests"}, q.requests \in Seq(0..MaxAge),
           q.config.window \in Windows
    PROVE  LET e == Quota!evict_expired(q) IN
           /\ DOMAIN e = DOMAIN q /\ e.config = q.config
           /\ e.requests \in Seq(0..MaxAge) /\ Len(e.requests) <= Len(q.requests)
           /\ e.requests # <<>> => Head(e.requests) < q.config.window
           /\ \A allowed \in Seq(Nat) : OnRecord(q.requests, allowed, q.config.window) =>
                                          OnRecord(e.requests, allowed, q.config.window)
<1> DEFINE s == q.requests
           w == q.config.window
           young == {i \in DOMAIN s : s[i] < w}
           e == Quota!evict_expired(q)
           r == FromFirst(s, young)
<1>1. /\ DOMAIN e = DOMAIN q /\ e.config = q.config
      /\ e.requests = Quota!FromFirst(q.requests, {i \in DOMAIN q.requests : q.requests[i] < q.config.window})
  BY DEF Quota!evict_expired
<1>2. DOMAIN e = DOMAIN q /\ e.config = q.config /\ e.requests = r
  BY <1>1, SameSuffix
<1>3. /\ r \in Seq(0..MaxAge) /\ Len(r) \in Nat /\ Len(r) <= Len(s)
      /\ \A j \in Nat : j < Len(r) => r[Len(r) - j] = s[Len(s) - j]
      /\ \A i \in young : Len(s) - i < Len(r)
      /\ Len(r) # 0 => Len(s) - Len(r) + 1 \in young
  BY FromFirstSuffix
<1>4. w \in Nat /\ MaxAge \in Nat
  BY AgesAssumption DEF Windows
<1> HIDE DEF e, r
<1>5. ASSUME r # <<>> PROVE Head(r) < w
  <2>1. Len(r) # 0 /\ Head(r) = r[1]
    BY <1>3, <1>5
  <2>2. Len(r) - 1 \in Nat /\ Len(r) - 1 < Len(r) /\ Len(r) - (Len(r) - 1) = 1
    BY <1>3, <2>1
  <2>3. r[1] = s[Len(s) - (Len(r) - 1)] /\ Len(s) - (Len(r) - 1) = Len(s) - Len(r) + 1
    BY <1>3, <2>2
  <2> QED BY <1>3, <2>1, <2>3
<1>6. ASSUME NEW allowed \in Seq(Nat), OnRecord(s, allowed, w),
             NEW j \in Nat, j < Len(allowed), allowed[Len(allowed) - j] < w
      PROVE  j < Len(r) /\ r[Len(r) - j] = allowed[Len(allowed) - j]
  <2>1. j < Len(s) /\ s[Len(s) - j] = allowed[Len(allowed) - j]
    BY <1>6 DEF OnRecord
  <2>2. Len(s) - j \in young
    BY <1>6, <2>1
  <2>3. j < Len(r)
    <3>1. Len(s) - (Len(s) - j) < Len(r)
      BY <1>3, <2>2
    <3> QED BY <1>3, <1>6, <3>1
  <2> QED BY <1>3, <2>1, <2>3
<1>7. \A allowed \in Seq(Nat) : OnRecord(s, allowed, w) => OnRecord(r, allowed, w)
  BY <1>6 DEF OnRecord
<1> QED BY <1>2, <1>3, <1>5, <1>7 DEF e

LEMMA RatedEvicts ==
    ASSUME NEW q, q.config \in Quota!QuotaConfig(Limits, Windows), NEW allowed, Rated(q, allowed)
    PROVE  Rated(Quota!evict_expired(q), allowed)
<1>1. q.config.window \in Windows /\ q.config.requests_per_window \in Option(0..4)
  BY DEF Quota!QuotaConfig, Limits
<1>2. PICK e : e = Quota!evict_expired(q)
  OBVIOUS
<1>3. /\ DOMAIN e = DOMAIN q /\ e.config = q.config
      /\ e.requests \in Seq(0..MaxAge) /\ Len(e.requests) <= Len(q.requests)
      /\ \A a \in Seq(Nat) : OnRecord(q.requests, a, q.config.window) =>
                                OnRecord(e.requests, a, q.config.window)
  BY <1>1, <1>2, EvictedFacts DEF Rated
<1>4. \A limit \in q.config.requests_per_window : limit \in Nat
  BY <1>1 DEF Option, Some
<1>5. ASSUME NEW limit \in q.config.requests_per_window, allowed # <<>> PROVE Len(e.requests) <= limit
  BY <1>3, <1>4, <1>5 DEF Rated
<1>6. Rated(e, allowed)
  BY <1>3, <1>5 DEF Rated
<1> QED BY <1>2, <1>6

\* One more call, of age 0, at the end of both.
LEMMA OnRecordAppends ==
    ASSUME NEW requests \in Seq(0..MaxAge), NEW allowed \in Seq(Nat), NEW window,
           OnRecord(requests, allowed, window)
    PROVE  OnRecord(Append(requests, 0), Append(allowed, 0), window)
<1> DEFINE r == Append(requests, 0)
           a == Append(allowed, 0)
<1>1. /\ Len(r) = Len(requests) + 1 /\ r[Len(r)] = 0 /\ \A i \in 1..Len(requests) : r[i] = requests[i]
      /\ Len(a) = Len(allowed) + 1 /\ a[Len(a)] = 0 /\ \A i \in 1..Len(allowed) : a[i] = allowed[i]
      /\ Len(requests) \in Nat /\ Len(allowed) \in Nat
  OBVIOUS
<1> HIDE DEF r, a
<1>2. ASSUME NEW j \in Nat, j < Len(a), a[Len(a) - j] < window
      PROVE  j < Len(r) /\ r[Len(r) - j] = a[Len(a) - j]
  <2>1. CASE j = 0
    BY <1>1, <2>1
  <2>2. CASE j # 0
    <3>1. /\ j - 1 \in Nat /\ j - 1 < Len(allowed) /\ Len(a) - j = Len(allowed) - (j - 1)
          /\ Len(r) - j = Len(requests) - (j - 1) /\ Len(allowed) - (j - 1) \in 1..Len(allowed)
      BY <1>1, <1>2, <2>2
    <3>2. allowed[Len(allowed) - (j - 1)] < window
      BY <1>1, <1>2, <3>1
    <3>3. j - 1 < Len(requests) /\ requests[Len(requests) - (j - 1)] = allowed[Len(allowed) - (j - 1)]
      BY <3>1, <3>2 DEF OnRecord
    <3>4. Len(requests) - (j - 1) \in 1..Len(requests)
      BY <1>1, <3>1, <3>3
    <3>5. j < Len(r)
      BY <1>1, <3>3
    <3>6. r[Len(r) - j] = requests[Len(requests) - (j - 1)]
      BY <1>1, <3>1, <3>4
    <3>7. a[Len(a) - j] = allowed[Len(allowed) - (j - 1)]
      BY <1>1, <3>1
    <3> QED BY <3>3, <3>5, <3>6, <3>7
  <2> QED BY <2>1, <2>2
<1>3. OnRecord(r, a, window)
  BY <1>2 DEF OnRecord
<1> QED BY <1>3 DEF r, a

\* What try_acquire decides.
LEMMA AcquireFacts ==
    ASSUME NEW q, DOMAIN q = {"config", "requests"}
    PROVE  LET e == Quota!evict_expired(q)
               d == Quota!try_acquire(q)
               full == {limit \in e.config.requests_per_window : Len(e.requests) >= limit}
           IN \/ /\ ~d.allowed /\ d.quota = e /\ full # {}
                 /\ d.retry = IF full = {0} THEN {} ELSE {Quota!retry_after(e)}
              \/ d.allowed /\ d.retry = {} /\ full = {} /\ e.config.requests_per_window = {} /\ d.quota = e
              \/ /\ d.allowed /\ d.retry = {} /\ full = {} /\ e.config.requests_per_window # {}
                 /\ d.quota = [e EXCEPT !.requests = Append(@, 0)]
<1> DEFINE e == Quota!evict_expired(q)
           d == Quota!try_acquire(q)
           full == {limit \in e.config.requests_per_window : Len(e.requests) >= limit}
<1>1. d = CASE e.config.requests_per_window = {} -> [quota |-> e, allowed |-> TRUE, retry |-> {}]
            [] full # {} -> [quota |-> e, allowed |-> FALSE,
                             retry |-> IF full = {0} THEN {} ELSE {Quota!retry_after(e)}]
            [] OTHER -> [quota |-> [e EXCEPT !.requests = Append(@, 0)], allowed |-> TRUE, retry |-> {}]
  BY DEF Quota!try_acquire
<1> HIDE DEF e, d
<1>2. e.config.requests_per_window = {} => full = {}
  OBVIOUS
<1> HIDE DEF full
<1>3. CASE e.config.requests_per_window = {}
  <2>1. d = [quota |-> e, allowed |-> TRUE, retry |-> {}]
    BY <1>1, <1>2, <1>3
  <2> QED BY <1>2, <1>3, <2>1 DEF e, d, full
<1>4. CASE e.config.requests_per_window # {} /\ full # {}
  <2>1. d = [quota |-> e, allowed |-> FALSE, retry |-> IF full = {0} THEN {} ELSE {Quota!retry_after(e)}]
    BY <1>1, <1>4
  <2> QED BY <1>4, <2>1 DEF e, d, full
<1>5. CASE e.config.requests_per_window # {} /\ full = {}
  <2>1. d = [quota |-> [e EXCEPT !.requests = Append(@, 0)], allowed |-> TRUE, retry |-> {}]
    BY <1>1, <1>5
  <2> QED BY <1>5, <2>1 DEF e, d, full
<1> QED BY <1>3, <1>4, <1>5

\* try_acquire keeps the record, and a caller that is to wait is told for how long.
LEMMA RatedAcquires ==
    ASSUME NEW q, q.config \in Quota!QuotaConfig(Limits, Windows), NEW allowed, Rated(q, allowed)
    PROVE  LET d == Quota!try_acquire(q) IN
           /\ d.allowed => Rated(d.quota, Append(allowed, 0))
           /\ ~d.allowed => Rated(d.quota, allowed)
           /\ d.retry \in Option(Windows)
<1> DEFINE d == Quota!try_acquire(q)
<1>1. PICK e : e = Quota!evict_expired(q)
  OBVIOUS
<1>2. Rated(e, allowed)
  BY <1>1, RatedEvicts
<1>3. q.config.window \in Windows /\ q.config.requests_per_window \in Option(0..4)
  BY DEF Quota!QuotaConfig, Limits
<1>4. /\ DOMAIN e = {"config", "requests"} /\ e.config = q.config /\ e.requests \in Seq(0..MaxAge)
      /\ e.requests # <<>> => Head(e.requests) < q.config.window
  BY <1>1, <1>3, EvictedFacts DEF Rated
<1> DEFINE full == {limit \in e.config.requests_per_window : Len(e.requests) >= limit}
<1>5. \/ /\ ~d.allowed /\ d.quota = e /\ full # {}
         /\ d.retry = IF full = {0} THEN {} ELSE {Quota!retry_after(e)}
      \/ d.allowed /\ d.retry = {} /\ full = {} /\ e.config.requests_per_window = {} /\ d.quota = e
      \/ /\ d.allowed /\ d.retry = {} /\ full = {} /\ e.config.requests_per_window # {}
         /\ d.quota = [e EXCEPT !.requests = Append(@, 0)]
  BY <1>1, AcquireFacts DEF Rated
<1>6. \A limit \in e.config.requests_per_window : limit \in Nat /\ e.config.requests_per_window = {limit}
  BY <1>3, <1>4 DEF Option, Some
<1>7. MaxAge \in Nat /\ allowed \in Seq(Nat)
  BY <1>2, AgesAssumption DEF Rated
<1>8. Append(allowed, 0) \in Seq(Nat)
  BY <1>7
<1> HIDE DEF d
<1>9. CASE ~d.allowed
  <2>1. d.quota = e /\ full # {} /\ d.retry = IF full = {0} THEN {} ELSE {Quota!retry_after(e)}
    BY <1>5, <1>9
  <2>2. CASE full = {0}
    BY <1>2, <1>9, <2>1, <2>2 DEF d, Option
  <2>3. CASE full # {0}
    <3>1. PICK limit \in e.config.requests_per_window : Len(e.requests) >= limit /\ limit # 0 /\ limit \in Nat
      BY <1>6, <2>1, <2>3
    <3>2. e.requests # <<>> /\ Head(e.requests) \in 0..MaxAge
      <4>1. Len(e.requests) \in Nat /\ Len(e.requests) # 0
        BY <1>4, <3>1
      <4>2. e.requests # <<>>
        BY <4>1
      <4>3. Head(e.requests) \in 0..MaxAge
        BY <1>4, <4>2, HeadOfSome
      <4> QED BY <4>2, <4>3
    <3>3. Quota!retry_after(e) = q.config.window - Head(e.requests)
      BY <1>4, <3>2 DEF Quota!retry_after
    <3>4. Quota!retry_after(e) \in Windows
      BY <1>3, <1>4, <1>7, <3>2, <3>3 DEF Windows
    <3> QED BY <1>2, <1>9, <2>1, <2>3, <3>4 DEF d, Option, Some
  <2> QED BY <2>2, <2>3
<1>10. CASE d.allowed
  <2>1. d.retry \in Option(Windows)
    BY <1>5, <1>10 DEF Option
  <2>2. CASE e.config.requests_per_window = {} /\ d.quota = e
    <3>1. Rated(d.quota, Append(allowed, 0))
      BY <1>4, <1>8, <2>2 DEF Rated
    <3> QED BY <1>10, <2>1, <3>1 DEF d
  <2>3. CASE full = {} /\ d.quota = [e EXCEPT !.requests = Append(@, 0)]
    <3>1. /\ DOMAIN d.quota = {"config", "requests"} /\ d.quota.config = e.config
          /\ d.quota.requests = Append(e.requests, 0)
      BY <1>4, <2>3
    <3>2. 0 \in 0..MaxAge
      BY <1>7
    <3>3. Append(e.requests, 0) \in Seq(0..MaxAge) /\ Len(Append(e.requests, 0)) = Len(e.requests) + 1
          /\ Len(e.requests) \in Nat
      BY <1>4, <3>2
    <3>4. ASSUME NEW limit \in e.config.requests_per_window
          PROVE  /\ Len(Append(e.requests, 0)) <= limit
                 /\ OnRecord(Append(e.requests, 0), Append(allowed, 0), e.config.window)
      <4>1. ~(Len(e.requests) >= limit) /\ limit \in Nat
        BY <1>6, <2>3, <3>4
      <4>2. OnRecord(e.requests, allowed, e.config.window)
        BY <1>2, <3>4 DEF Rated
      <4>3. OnRecord(Append(e.requests, 0), Append(allowed, 0), e.config.window)
        BY <1>4, <1>7, <4>2, OnRecordAppends
      <4> QED BY <3>3, <4>1, <4>3
    <3>5. Rated(d.quota, Append(allowed, 0))
      BY <1>8, <3>1, <3>3, <3>4 DEF Rated
    <3> QED BY <1>10, <2>1, <3>5 DEF d
  <2> QED BY <1>5, <1>10, <2>2, <2>3
<1> QED BY <1>9, <1>10 DEF d

LEMMA ElementsOf ==
    ASSUME NEW S, NEW s \in Seq(S)
    PROVE  Len(s) \in Nat /\ DOMAIN s = 1..Len(s) /\ \A i \in 1..Len(s) : s[i] \in S
OBVIOUS

LEMMA IsSequence ==
    ASSUME NEW S, NEW n \in Nat, NEW f \in [1..n -> S]
    PROVE  f \in Seq(S) /\ Len(f) = n
OBVIOUS

\* Both age together: a call on record that is in its window is not yet at MaxAge.
LEMMA OnRecordAges ==
    ASSUME NEW requests \in Seq(0..MaxAge), NEW allowed \in Seq(Nat), NEW window \in Windows,
           OnRecord(requests, allowed, window)
    PROVE  LET aged == [i \in DOMAIN requests |->
                          IF requests[i] < MaxAge THEN requests[i] + 1 ELSE requests[i]]
           IN /\ aged \in Seq(0..MaxAge) /\ Len(aged) = Len(requests)
              /\ Older(allowed) \in Seq(Nat) /\ (allowed = <<>> => Older(allowed) = <<>>)
              /\ OnRecord(aged, Older(allowed), window)
<1> DEFINE aged == [i \in DOMAIN requests |-> IF requests[i] < MaxAge THEN requests[i] + 1 ELSE requests[i]]
           now == [i \in DOMAIN allowed |-> allowed[i] + 1]
           young == {i \in DOMAIN now : now[i] < MaxAge}
           n == Len(allowed)
           k == Len(requests)
           r == Older(allowed)
<1>1. MaxAge \in Nat /\ window \in Nat /\ window <= MaxAge /\ n \in Nat /\ k \in Nat
  BY AgesAssumption DEF Windows
<1>2. DOMAIN requests = 1..k /\ \A i \in 1..k : requests[i] \in 0..MaxAge
  BY ElementsOf
<1>3. DOMAIN allowed = 1..n /\ \A i \in 1..n : allowed[i] \in Nat
  BY ElementsOf
<1>4. /\ DOMAIN aged = 1..k
      /\ \A i \in 1..k : aged[i] = IF requests[i] < MaxAge THEN requests[i] + 1 ELSE requests[i]
  BY <1>2
<1>5. \A i \in 1..k : aged[i] \in 0..MaxAge
  BY <1>1, <1>2, <1>4
<1>6. DOMAIN now = 1..n /\ \A i \in 1..n : now[i] = allowed[i] + 1 /\ now[i] \in Nat
  BY <1>3
<1>7. aged = [i \in 1..k |-> aged[i]] /\ now = [i \in 1..n |-> now[i]]
  BY <1>4, <1>6
<1> HIDE DEF aged, now, n, k
<1>8. aged \in Seq(0..MaxAge) /\ Len(aged) = k
  <2>1. aged \in [1..k -> 0..MaxAge]
    BY <1>5, <1>7
  <2> QED BY <1>1, <2>1, IsSequence
<1>9. now \in Seq(Nat) /\ Len(now) = n
  <2>1. now \in [1..n -> Nat]
    BY <1>6, <1>7
  <2> QED BY <1>1, <2>1, IsSequence
<1>10. r = FromFirst(now, young)
  BY DEF Older, now
<1> HIDE DEF r
<1>11. /\ r \in Seq(Nat) /\ Len(r) \in Nat /\ Len(r) <= Len(now)
       /\ \A j \in Nat : j < Len(r) => r[Len(r) - j] = now[Len(now) - j]
  <2>1. young \in SUBSET DOMAIN now
    OBVIOUS
  <2> QED BY <1>9, <1>10, <2>1, FromFirstSuffix
<1> HIDE DEF young
<1>12. ASSUME NEW j \in Nat, j < Len(r), r[Len(r) - j] < window
       PROVE  j < k /\ aged[k - j] = r[Len(r) - j]
  <2>1. r[Len(r) - j] = now[n - j] /\ n - j \in 1..n
    <3>1. r[Len(r) - j] = now[Len(now) - j]
      BY <1>11, <1>12
    <3>2. Len(r) <= n
      BY <1>9, <1>11
    <3>3. n - j \in 1..n
      BY <1>1, <1>11, <1>12, <3>2
    <3> QED BY <1>9, <3>1, <3>3
  <2>2. now[n - j] = allowed[n - j] + 1 /\ allowed[n - j] \in Nat
    BY <1>3, <1>6, <2>1
  <2>3. allowed[n - j] < window /\ allowed[n - j] < MaxAge
    <3>1. allowed[n - j] + 1 < window
      BY <1>12, <2>1, <2>2
    <3> QED BY <1>1, <2>2, <3>1
  <2>4. j < k /\ requests[k - j] = allowed[n - j]
    <3>1. j < n
      BY <1>1, <1>12, <2>1
    <3> QED BY <1>12, <2>3, <3>1 DEF OnRecord, n, k
  <2>5. k - j \in 1..k
    BY <1>1, <2>4
  <2>6. aged[k - j] = requests[k - j] + 1
    BY <1>4, <2>3, <2>4, <2>5
  <2> QED BY <2>1, <2>2, <2>4, <2>6
<1>13. OnRecord(aged, r, window)
  BY <1>8, <1>12 DEF OnRecord
<1>14. ASSUME allowed = <<>> PROVE r = <<>>
  <2>1. n = 0
    BY <1>14 DEF n
  <2> QED BY <1>9, <1>11, <2>1
<1> QED BY <1>8, <1>11, <1>13, <1>14 DEF aged, r, k

LEMMA AgedTypes ==
    ASSUME NEW requests \in Seq(0..MaxAge), NEW allowed \in Seq(Nat)
    PROVE  /\ [i \in DOMAIN requests |-> IF requests[i] < MaxAge THEN requests[i] + 1 ELSE requests[i]]
                 \in Seq(0..MaxAge)
           /\ Older(allowed) \in Seq(Nat)
<1> DEFINE now == [i \in DOMAIN allowed |-> allowed[i] + 1]
<1>1. MaxAge \in Nat
  BY AgesAssumption
<1>2. [i \in DOMAIN requests |-> IF requests[i] < MaxAge THEN requests[i] + 1 ELSE requests[i]]
        \in Seq(0..MaxAge)
  <2>1. DOMAIN requests = 1..Len(requests) /\ Len(requests) \in Nat
    BY ElementsOf
  <2>2. \A i \in DOMAIN requests : requests[i] \in 0..MaxAge
    BY <2>1, ElementsOf
  <2>3. \A i \in DOMAIN requests : (IF requests[i] < MaxAge THEN requests[i] + 1 ELSE requests[i]) \in 0..MaxAge
    BY <1>1, <2>2
  <2> QED BY <2>1, <2>3
<1>3. now \in Seq(Nat)
  OBVIOUS
<1>4. Older(allowed) = FromFirst(now, {i \in DOMAIN now : now[i] < MaxAge})
  BY DEF Older
<1> HIDE DEF now
<1>5. Older(allowed) \in Seq(Nat)
  BY <1>3, <1>4, FromFirstSuffix
<1> QED BY <1>2, <1>5

LEMMA RatedAges ==
    ASSUME NEW q, q.config \in Quota!QuotaConfig(Limits, Windows), NEW allowed, Rated(q, allowed)
    PROVE  Rated(Quota!Age(q, MaxAge), Older(allowed))
<1> DEFINE aged == [i \in DOMAIN q.requests |->
                      IF q.requests[i] < MaxAge THEN q.requests[i] + 1 ELSE q.requests[i]]
<1>1. q.config.window \in Windows
  BY DEF Quota!QuotaConfig
<1>2. PICK h : h = Quota!Age(q, MaxAge)
  OBVIOUS
<1>3. DOMAIN h = {"config", "requests"} /\ h.config = q.config /\ h.requests = aged
  BY <1>2 DEF Rated, Quota!Age
<1>4. q.requests \in Seq(0..MaxAge) /\ allowed \in Seq(Nat)
  BY DEF Rated
<1>5. ASSUME NEW limit \in q.config.requests_per_window
      PROVE  /\ aged \in Seq(0..MaxAge) /\ Len(aged) = Len(q.requests)
             /\ Older(allowed) \in Seq(Nat) /\ (allowed = <<>> => Older(allowed) = <<>>)
             /\ OnRecord(aged, Older(allowed), q.config.window)
             /\ allowed # <<>> => Len(q.requests) <= limit
  <2>1. OnRecord(q.requests, allowed, q.config.window) /\ (allowed # <<>> => Len(q.requests) <= limit)
    BY DEF Rated
  <2> QED BY <1>1, <1>4, <2>1, OnRecordAges
<1>6. aged \in Seq(0..MaxAge) /\ Older(allowed) \in Seq(Nat)
  BY <1>4, AgedTypes
<1> HIDE DEF aged
<1>7. Rated(h, Older(allowed))
  BY <1>3, <1>5, <1>6 DEF Rated
<1> QED BY <1>2, <1>7

\* The calls in the window are the last of those allowed, and each is on record.
LEMMA RatedHolds ==
    ASSUME NEW q, q.config \in Quota!QuotaConfig(Limits, Windows), NEW allowed, Rated(q, allowed),
           NEW limit \in q.config.requests_per_window
    PROVE  Len(FromFirst(allowed, {i \in DOMAIN allowed : allowed[i] < q.config.window})) <= limit
<1> DEFINE young == {i \in DOMAIN allowed : allowed[i] < q.config.window}
           r == FromFirst(allowed, young)
           n == Len(allowed)
<1>1. limit \in Nat
  BY DEF Quota!QuotaConfig, Limits, Option, Some
<1>2. /\ q.requests \in Seq(0..MaxAge) /\ allowed \in Seq(Nat)
      /\ allowed # <<>> => Len(q.requests) <= limit
      /\ OnRecord(q.requests, allowed, q.config.window)
  BY DEF Rated
<1>3. /\ Len(r) \in Nat /\ Len(r) <= n /\ n \in Nat /\ Len(q.requests) \in Nat
      /\ Len(r) # 0 => n - Len(r) + 1 \in young
  BY <1>2, FromFirstSuffix
<1> HIDE DEF r
<1>4. CASE Len(r) # 0
  <2> DEFINE j == Len(r) - 1
  <2>1. j \in Nat /\ j < n /\ n - j = n - Len(r) + 1 /\ allowed # <<>>
    BY <1>2, <1>3, <1>4
  <2>2. allowed[n - j] < q.config.window
    BY <1>3, <1>4, <2>1
  <2>3. j < Len(q.requests)
    BY <1>2, <2>1, <2>2 DEF OnRecord
  <2> QED BY <1>1, <1>2, <1>3, <2>1, <2>3 DEF r
<1>5. CASE Len(r) = 0
  BY <1>1, <1>5 DEF r
<1> QED BY <1>4, <1>5

\* What each tenant was allowed, beside its quota.
RateInv ==
    /\ DOMAIN ghost.allowed = Tenants
    /\ \A a \in Tenants : Rated(quota[a], ghost.allowed[a])

\* A quota that is new or newly set is beside no calls.
LEMMA RatedAnew ==
    ASSUME NEW q, DOMAIN q = {"config", "requests"}, q.requests \in Seq(0..MaxAge)
    PROVE  Rated(q, <<>>)
<1>1. <<>> \in Seq(Nat) /\ Len(<<>>) = 0
  OBVIOUS
<1> QED BY <1>1 DEF Rated, OnRecord

LEMMA RatedNew ==
    ASSUME NEW config
    PROVE  Rated(Quota!new(config), <<>>)
<1>1. DOMAIN Quota!new(config) = {"config", "requests"} /\ Quota!new(config).requests = <<>>
  BY DEF Quota!new
<1>2. <<>> \in Seq(0..MaxAge)
  OBVIOUS
<1> QED BY <1>1, <1>2, RatedAnew

\* Only these steps of a client touch a quota, or what was allowed.
LEMMA AllowedKept ==
    ASSUME Remembers(ghost), NEW t \in Tasks, Client(t), ~Authorize(t), ~ConfigureTenantQuota(t)
    PROVE  ghost'.allowed = ghost.allowed
<1>1. CASE StdioCall(t) \/ RequireTenant(t) \/ Get(t) \/ SumOne(t) \/ Refuse(t)
  <2>1. CASE SumOne(t)
    BY <2>1 DEF SumOne, Remembers
  <2> QED BY <1>1, <2>1 DEF StdioCall, RequireTenant, Get, Refuse, RejectName, RejectId, RejectKey,
                            RefuseTenant, RejectTenantId
<1>2. CASE Enqueue(t)
  <2>1. CASE Admit(t)
    BY <2>1 DEF Admit, Remembers
  <2>2. CASE IndexAndReturn(t)
    <3>1. ghost' = ghost \/ \E new : ghost' = [ghost EXCEPT !.indexed = new]
      BY <2>2 DEF IndexAndReturn
    <3> QED BY <3>1 DEF Remembers
  <2> QED BY <1>2, <2>1, <2>2 DEF Enqueue, ResolveTargetQueue, Dedup, ReadPendingLimit,
                                  ComparePending, Put
<1>3. CASE Consume(t)
  BY <1>3 DEF Consume, Headroom, Claim, Ack, AckUnindex, Nack, Reclaim, TakeOut, Resolve,
              ResolveNacked, ResolveReclaimed, LookAtGroup, LeaseCallFails, BecomesAndFails
<1>4. CASE DeadLetters(t)
  <2>1. CASE Reprocess(t)
    BY <2>1 DEF Reprocess, Remembers
  <2> QED BY <1>4, <2>1 DEF DeadLetters, Triage, Purge, DeadLetterCallFails, BecomesAndFails
<1>5. CASE Configure(t)
  <2>1. CASE ConfigureAdmission(t)
    BY <2>1 DEF ConfigureAdmission, Remembers
  <2> QED BY <1>5, <2>1 DEF Configure, ConfigureRoute
<1>6. CASE Status(t)
  BY <1>6 DEF Status, AdmissionStatus, TenantQuotaStatus, TenantQuotaReport, DashboardQueues,
              DashboardTenants
<1>7. CASE KeyCalls(t)
  <2>1. CASE MintLog(t) \/ RevokeLog(t)
    BY <2>1 DEF MintLog, RevokeLog, KeysLogged, Remembers
  <2>2. CASE RevokeRemove(t)
    BY <2>2 DEF RevokeRemove, Remembers
  <2> QED BY <1>7, <2>1, <2>2 DEF KeyCalls, MintInsert, RevokeLook
<1> QED BY <1>1, <1>2, <1>3, <1>4, <1>5, <1>6, <1>7 DEF Client

LEMMA QuotasKept ==
    ASSUME NEW t \in Tasks, Client(t), ~Authorize(t), ~ConfigureTenantQuota(t),
           ~TenantQuotaStatus(t), ~DashboardTenants(t)
    PROVE  quota' = quota
<1>1. CASE StdioCall(t) \/ RequireTenant(t) \/ Get(t) \/ SumOne(t) \/ Refuse(t)
  BY <1>1 DEF StdioCall, RequireTenant, Get, SumOne, Refuse, RejectName, RejectId, RejectKey,
              RefuseTenant, RejectTenantId, registry
<1>2. CASE Enqueue(t)
  BY <1>2 DEF Enqueue, ResolveTargetQueue, Dedup, ReadPendingLimit, ComparePending, Admit, Put,
              IndexAndReturn, registry
<1>3. CASE Consume(t)
  BY <1>3 DEF Consume, Headroom, Claim, Ack, AckUnindex, Nack, Reclaim, TakeOut, Resolve,
              ResolveNacked, ResolveReclaimed, LookAtGroup, LeaseCallFails,
              BecomesAndFails, registry
<1>4. CASE DeadLetters(t)
  BY <1>4 DEF DeadLetters, Triage, Reprocess, Purge, DeadLetterCallFails, BecomesAndFails, registry
<1>5. CASE Configure(t)
  BY <1>5 DEF Configure, ConfigureAdmission, ConfigureRoute
<1>6. CASE Status(t)
  BY <1>6 DEF Status, AdmissionStatus, TenantQuotaReport, DashboardQueues, registry
<1>7. CASE KeyCalls(t)
  BY <1>7 DEF KeyCalls, MintLog, MintInsert, RevokeLook, RevokeLog, RevokeRemove, registry
<1> QED BY <1>1, <1>2, <1>3, <1>4, <1>5, <1>6, <1>7 DEF Client

LEMMA RateAuthorize ==
    ASSUME Remembers(ghost), QuotaInv, RateInv, NEW t \in Tasks, Authorize(t)
    PROVE  RateInv'
<1> DEFINE d == Quota!try_acquire(quota[Tenant(t)])
<1>1. quota' = [quota EXCEPT ![Tenant(t)] = d.quota]
  BY DEF Authorize
<1>2. \/ d.allowed /\ ghost' = [ghost EXCEPT !.allowed[Tenant(t)] = Append(@, 0)]
      \/ ~d.allowed /\ ghost' = ghost
  BY DEF Authorize
<1>3. DOMAIN quota = Tenants /\ DOMAIN ghost.allowed = Tenants
  BY DEF QuotaInv, RateInv
<1>4. \A a \in Tenants : Rated(quota[a], ghost.allowed[a]) /\ quota[a].config \in Quota!QuotaConfig(Limits, Windows)
  BY DEF QuotaInv, RateInv
<1>5. Tenant(t) \in Tenants => /\ d.allowed => Rated(d.quota, Append(ghost.allowed[Tenant(t)], 0))
                               /\ ~d.allowed => Rated(d.quota, ghost.allowed[Tenant(t)])
  BY <1>4, RatedAcquires
<1> HIDE DEF d
<1>6. \A a \in Tenants : a # Tenant(t) => quota'[a] = quota[a]
  BY <1>1, <1>3
<1>7. Tenant(t) \in Tenants => quota'[Tenant(t)] = d.quota
  BY <1>1, <1>3
<1>8. CASE d.allowed
  <2>1. ghost'.allowed = [ghost.allowed EXCEPT ![Tenant(t)] = Append(@, 0)]
    BY <1>2, <1>8 DEF Remembers
  <2>2. DOMAIN ghost'.allowed = Tenants /\ \A a \in Tenants : a # Tenant(t) => ghost'.allowed[a] = ghost.allowed[a]
    BY <1>3, <2>1
  <2>3. Tenant(t) \in Tenants => ghost'.allowed[Tenant(t)] = Append(ghost.allowed[Tenant(t)], 0)
    BY <1>3, <2>1
  <2>4. ASSUME NEW a \in Tenants PROVE Rated(quota'[a], ghost'.allowed[a])
    BY <1>4, <1>5, <1>6, <1>7, <1>8, <2>2, <2>3
  <2> QED BY <2>2, <2>4 DEF RateInv
<1>9. CASE ~d.allowed
  <2>1. ghost' = ghost
    BY <1>2, <1>9
  <2>2. ASSUME NEW a \in Tenants PROVE Rated(quota'[a], ghost.allowed[a])
    BY <1>4, <1>5, <1>6, <1>7, <1>9
  <2> QED BY <1>3, <2>1, <2>2 DEF RateInv
<1> QED BY <1>8, <1>9

LEMMA RateConfigure ==
    ASSUME TenantInv, Remembers(ghost), QuotaInv, RateInv, NEW t \in Tasks, ConfigureTenantQuota(t)
    PROVE  RateInv'
<1>1. PICK a \in Tenants :
             /\ quota' = [quota EXCEPT ![a] = Quota!set_config(@, Call(t).config)]
             /\ ghost' = [ghost EXCEPT !.allowed[a] = <<>>, !.exempt = @ \cup MessagesOf(a)]
             /\ DOMAIN quota'[a] = {"config", "requests"} /\ quota'[a].requests = quota[a].requests
  BY ConfigSet
<1>2. ghost'.allowed = [ghost.allowed EXCEPT ![a] = <<>>]
  BY <1>1 DEF Remembers
<1>3. DOMAIN quota = Tenants /\ DOMAIN ghost.allowed = Tenants
  BY DEF QuotaInv, RateInv
<1>4. quota[a].requests \in Seq(0..MaxAge)
  BY DEF RateInv, Rated
<1>5. Rated(quota'[a], <<>>)
  BY <1>1, <1>4, RatedAnew
<1>6. \A b \in Tenants : b # a => quota'[b] = quota[b]
  BY <1>1, <1>3
<1>7. /\ DOMAIN ghost'.allowed = Tenants /\ ghost'.allowed[a] = <<>>
      /\ \A b \in Tenants : b # a => ghost'.allowed[b] = ghost.allowed[b]
  BY <1>2, <1>3
<1>8. ASSUME NEW b \in Tenants PROVE Rated(quota'[b], ghost'.allowed[b])
  BY <1>5, <1>6, <1>7 DEF RateInv
<1> QED BY <1>7, <1>8 DEF RateInv

LEMMA RateClient ==
    ASSUME TenantInv, Remembers(ghost), QuotaInv, RateInv, NEW t \in Tasks, Client(t)
    PROVE  RateInv'
<1>1. CASE Authorize(t)
  BY <1>1, RateAuthorize
<1>2. CASE ConfigureTenantQuota(t)
  BY <1>2, RateConfigure
<1>3. CASE ~Authorize(t) /\ ~ConfigureTenantQuota(t)
  <2>1. ghost'.allowed = ghost.allowed
    BY <1>3, AllowedKept
  <2>2. \A a \in Tenants : /\ Rated(quota[a], ghost.allowed[a])
                           /\ Rated(Quota!evict_expired(quota[a]), ghost.allowed[a])
    BY RatedEvicts DEF QuotaInv, RateInv
  <2>3. \A a \in Tenants : quota'[a] \in {quota[a], Quota!evict_expired(quota[a])}
    <3>1. CASE TenantQuotaStatus(t)
      <4>1. PICK b : quota' = [quota EXCEPT ![b] = Quota!evict_expired(@)]
        BY <3>1 DEF TenantQuotaStatus
      <4> QED BY <4>1 DEF QuotaInv
    <3>2. CASE DashboardTenants(t)
      <4>1. quota' = [b \in Tenants |-> IF Matching(b) # {} THEN Quota!evict_expired(quota[b]) ELSE quota[b]]
        BY <3>2 DEF DashboardTenants
      <4> QED BY <4>1
    <3>3. CASE ~TenantQuotaStatus(t) /\ ~DashboardTenants(t)
      BY <1>3, <3>3, QuotasKept
    <3> QED BY <3>1, <3>2, <3>3
  <2> QED BY <2>1, <2>2, <2>3 DEF RateInv
<1> QED BY <1>1, <1>2, <1>3

LEMMA RateInit == Init => RateInv
<1> SUFFICES ASSUME Init PROVE RateInv
  OBVIOUS
<1>1. quota = [a \in Tenants |-> Quota!new(workload.quota)] /\ ghost.allowed = [a \in Tenants |-> <<>>]
  BY DEF Init, NewGhost
<1> QED BY <1>1, RatedNew DEF RateInv

LEMMA RateSame == ASSUME RateInv, UNCHANGED <<quota, ghost>> PROVE RateInv'
BY DEF RateInv

LEMMA RateNext == TenantInv /\ Remembers(ghost) /\ QuotaInv /\ RateInv /\ [Next]_vars => RateInv'
<1> SUFFICES ASSUME TenantInv, Remembers(ghost), QuotaInv, RateInv, [Next]_vars PROVE RateInv'
  OBVIOUS
<1>1. ASSUME NEW t \in Tasks, Client(t) PROVE RateInv'
  BY <1>1, RateClient
<1>2. CASE Tick
  <2>1. quota' = [a \in Tenants |-> Quota!Age(quota[a], MaxAge)]
    BY <1>2 DEF Tick
  <2>2. ghost'.allowed = [a \in Tenants |-> Older(ghost.allowed[a])]
    BY <1>2 DEF Tick, Remembers
  <2>3. ASSUME NEW a \in Tenants PROVE Rated(Quota!Age(quota[a], MaxAge), Older(ghost.allowed[a]))
    BY RatedAges DEF QuotaInv, RateInv
  <2> QED BY <2>1, <2>2, <2>3 DEF RateInv
<1>3. CASE Restart
  <2>1. quota' = [a \in Tenants |-> Quota!new(Quota!UNLIMITED(Minute))]
    BY <1>3 DEF Restart
  <2>2. ghost'.allowed = [a \in Tenants |-> <<>>]
    BY <1>3 DEF Restart, Remembers
  <2> QED BY <2>1, <2>2, RatedNew DEF RateInv
<1> QED BY <1>1, <1>2, <1>3, RateSame
        DEF Next, Client, vars, registry, AuditReceive, AuditWrite

\* A tenant is never allowed more tool calls in one window than its quota says, counted
\* from when the quota was set: try_acquire under the lock of one map entry.
THEOREM CallsAreMetered == Spec => []RequestsHeld
<1>1. QuotaInv /\ RateInv => RequestsHeld
  <2> SUFFICES ASSUME QuotaInv, RateInv, NEW a \in Tenants,
                      NEW limit \in quota[a].config.requests_per_window
               PROVE  LET allowed == ghost.allowed[a]
                      IN Len(FromFirst(allowed, {i \in DOMAIN allowed : allowed[i] < quota[a].config.window})) <= limit
    BY DEF RequestsHeld
  <2>1. quota[a].config \in Quota!QuotaConfig(Limits, Windows) /\ Rated(quota[a], ghost.allowed[a])
    BY DEF QuotaInv, RateInv
  <2> QED BY <2>1, RatedHolds
<1>2. AgedInv => Remembers(ghost)
  BY DEF AgedInv
<1> QED BY <1>1, <1>2, TenantInit, TenantNext, AgedInit, AgedNext, QuotaInit, QuotaNext, RateInit, RateNext,
           PTL DEF Spec

-----------------------------------------------------------------------------
(* Sums                                                                     *)

\* Sums, by induction in the form of sets.
LEMMA LeastOf == ASSUME NEW T \in SUBSET Nat, T # {} PROVE \E x \in T : \A y \in T : x <= y
<1>1. PICK x \in T : \A y \in T : <<y, x>> \notin OpToRel(<, Nat)
  BY NatLessThanWellFounded, WFMin
<1>2. \A y \in T : ~(y < x)
  BY <1>1 DEF OpToRel
<1> QED BY <1>2

LEMMA SetInduction ==
    ASSUME NEW T, 0 \in T, \A n \in Nat : n \in T => n + 1 \in T
    PROVE  Nat \subseteq T
<1> DEFINE F == Nat \ T
<1> SUFFICES ASSUME F # {} PROVE FALSE
  OBVIOUS
<1>1. PICK x \in F : \A y \in F : x <= y
  BY LeastOf
<1>2. x # 0 /\ x - 1 \in Nat /\ x - 1 \in T
  BY <1>1
<1> QED BY <1>2

\* f is what the sums of the first entries of s are.
Sums(f, s) == f = [n \in 0..Len(s) |-> IF n = 0 THEN 0 ELSE f[n - 1] + s[n]]

LEMMA TotalIs ==
    ASSUME NEW s, \E f : Sums(f, s)
    PROVE  \E f : Sums(f, s) /\ Total(s) = f[Len(s)]
<1> DEFINE g == CHOOSE f : Sums(f, s)
<1>1. Sums(g, s)
  OBVIOUS
<1>2. Total(s) = g[Len(s)]
  BY DEF Total, Sums
<1> QED BY <1>1, <1>2

LEMMA SumsFacts ==
    ASSUME NEW s \in Seq(Nat), NEW f, Sums(f, s)
    PROVE  /\ Len(s) \in Nat
           /\ f[0] = 0 /\ \A n \in 1..Len(s) : f[n] = f[n - 1] + s[n] /\ s[n] \in Nat
<1>1. Len(s) \in Nat /\ \A n \in 1..Len(s) : s[n] \in Nat
  OBVIOUS
<1>2. \A n \in 0..Len(s) : f[n] = IF n = 0 THEN 0 ELSE f[n - 1] + s[n]
  BY DEF Sums
<1> QED BY <1>1, <1>2

LEMMA SumsExist ==
    ASSUME NEW s \in Seq(Nat)
    PROVE  \E f : Sums(f, s)
<1> DEFINE len == Len(s)
           Upto(k, f) == \A n \in 0..k : f[n] = IF n = 0 THEN 0 ELSE f[n - 1] + s[n]
           T == {k \in Nat : k <= len => \E f \in [0..k -> Nat] : Upto(k, f)}
<1>1. len \in Nat /\ \A n \in 1..len : s[n] \in Nat
  OBVIOUS
<1> HIDE DEF len
<1>2. 0 \in T
  <2> DEFINE f == [n \in 0..0 |-> 0]
  <2>1. f \in [0..0 -> Nat] /\ Upto(0, f)
    OBVIOUS
  <2> QED BY <2>1
<1>3. ASSUME NEW k \in Nat, k \in T PROVE k + 1 \in T
  <2> SUFFICES ASSUME k + 1 <= len PROVE \E f \in [0..(k + 1) -> Nat] : Upto(k + 1, f)
    OBVIOUS
  <2>1. PICK f \in [0..k -> Nat] : Upto(k, f)
    <3> HIDE DEF Upto
    <3> QED BY <1>1, <1>3
  <2> DEFINE g == [n \in 0..(k + 1) |-> IF n = k + 1 THEN f[k] + s[k + 1] ELSE f[n]]
  <2>2. s[k + 1] \in Nat /\ f[k] \in Nat /\ \A n \in 0..k : f[n] \in Nat
    BY <1>1, <2>1
  <2>3. g \in [0..(k + 1) -> Nat]
    BY <2>2
  <2>4. /\ g[k + 1] = f[k] + s[k + 1] /\ g[k] = f[k]
        /\ \A n \in 0..k : g[n] = f[n] /\ (n # 0 => g[n - 1] = f[n - 1])
    OBVIOUS
  <2> HIDE DEF g
  <2>5. Upto(k + 1, g)
    <3> SUFFICES ASSUME NEW n \in 0..(k + 1) PROVE g[n] = IF n = 0 THEN 0 ELSE g[n - 1] + s[n]
      OBVIOUS
    <3>1. CASE n = k + 1
      BY <2>4, <3>1
    <3>2. CASE n \in 0..k
      BY <2>1, <2>4, <3>2
    <3> QED BY <3>1, <3>2
  <2> QED BY <2>3, <2>5
<1>4. len \in T
  <2> HIDE DEF T
  <2>1. Nat \subseteq T
    BY <1>2, <1>3, SetInduction
  <2> QED BY <1>1, <2>1
<1>5. PICK f \in [0..len -> Nat] : Upto(len, f)
  <2> HIDE DEF Upto
  <2> QED BY <1>1, <1>4
<1>6. f = [n \in 0..len |-> f[n]]
  BY <1>5
<1>7. f = [n \in 0..len |-> IF n = 0 THEN 0 ELSE f[n - 1] + s[n]]
  BY <1>5, <1>6
<1> QED BY <1>7 DEF Sums, len

LEMMA TotalSums ==
    ASSUME NEW s \in Seq(Nat)
    PROVE  \E f : Sums(f, s) /\ Total(s) = f[Len(s)]
BY SumsExist, TotalIs

\* The sums along the end of a sequence are not more than those of the whole.
LEMMA SumsCompare ==
    ASSUME NEW s \in Seq(Nat), NEW r \in Seq(Nat), NEW m \in Nat, NEW len \in Nat,
           len <= Len(r), m + len <= Len(s), \A i \in 1..len : r[i] = s[m + i],
           NEW f, Sums(f, r), NEW g, Sums(g, s)
    PROVE  f[len] \in Nat /\ g[m + len] \in Nat /\ f[len] <= g[m + len]
<1>1. /\ Len(s) \in Nat /\ g[0] = 0
      /\ \A n \in 1..Len(s) : g[n] = g[n - 1] + s[n] /\ s[n] \in Nat
  BY SumsFacts
<1>2. /\ Len(r) \in Nat /\ f[0] = 0
      /\ \A n \in 1..Len(r) : f[n] = f[n - 1] + r[n] /\ r[n] \in Nat
  BY SumsFacts
<1> DEFINE G == {k \in Nat : k <= Len(s) => g[k] \in Nat}
<1>3. 0 \in G
  BY <1>1
<1>4. ASSUME NEW k \in Nat, k \in G PROVE k + 1 \in G
  <2> SUFFICES ASSUME k + 1 <= Len(s) PROVE g[k + 1] \in Nat
    OBVIOUS
  <2>1. k + 1 \in 1..Len(s) /\ (k + 1) - 1 = k /\ g[k] \in Nat
    BY <1>1, <1>4
  <2>2. g[k + 1] = g[k] + s[k + 1] /\ s[k + 1] \in Nat
    BY <1>1, <2>1
  <2> QED BY <2>1, <2>2
<1>5. \A k \in Nat : k <= Len(s) => g[k] \in Nat
  <2> HIDE DEF G
  <2>1. Nat \subseteq G
    BY <1>3, <1>4, SetInduction
  <2> QED BY <2>1 DEF G
<1> HIDE DEF G
<1> DEFINE T == {k \in Nat : k <= len => f[k] \in Nat /\ f[k] <= g[m + k]}
<1>6. 0 \in T
  BY <1>1, <1>2, <1>5
<1>7. ASSUME NEW k \in Nat, k \in T PROVE k + 1 \in T
  <2> SUFFICES ASSUME k + 1 <= len
               PROVE  f[k + 1] \in Nat /\ f[k + 1] <= g[m + (k + 1)]
    OBVIOUS
  <2>1. f[k] \in Nat /\ f[k] <= g[m + k]
    BY <1>7
  <2>2. k + 1 \in 1..Len(r) /\ k + 1 \in 1..len /\ m + (k + 1) \in 1..Len(s) /\ m + k \in Nat /\ m + k <= Len(s)
        /\ (k + 1) - 1 = k /\ (m + (k + 1)) - 1 = m + k
    BY <1>1, <1>2
  <2> HIDE DEF T
  <2>3. f[k + 1] = f[k] + r[k + 1] /\ r[k + 1] \in Nat
    BY <1>2, <2>2
  <2>4. g[m + (k + 1)] = g[m + k] + s[m + (k + 1)] /\ r[k + 1] = s[m + (k + 1)]
    BY <1>1, <2>2
  <2>5. g[m + k] \in Nat
    BY <1>5, <2>2
  <2>6. PICK p, q, x \in Nat : p = f[k] /\ q = g[m + k] /\ x = r[k + 1]
    BY <2>1, <2>3, <2>5
  <2>7. f[k + 1] = p + x /\ g[m + (k + 1)] = q + x /\ p <= q
    BY <2>1, <2>3, <2>4, <2>6
  <2> QED BY <2>7
<1>8. len \in T
  <2> HIDE DEF T
  <2>1. Nat \subseteq T
    BY <1>6, <1>7, SetInduction
  <2> QED BY <2>1
<1>9. m + len \in Nat
  OBVIOUS
<1> QED BY <1>5, <1>8, <1>9

LEMMA TotalSuffix ==
    ASSUME NEW s \in Seq(Nat), NEW r \in Seq(Nat), Len(r) <= Len(s),
           \A j \in Nat : j < Len(r) => r[Len(r) - j] = s[Len(s) - j]
    PROVE  Total(r) \in Nat /\ Total(s) \in Nat /\ Total(r) <= Total(s)
<1>1. PICK f : Sums(f, r) /\ Total(r) = f[Len(r)]
  BY TotalSums
<1>2. PICK g : Sums(g, s) /\ Total(s) = g[Len(s)]
  BY TotalSums
<1> DEFINE m == Len(s) - Len(r)
<1>3. Len(r) \in Nat /\ m \in Nat /\ m + Len(r) = Len(s) /\ Len(s) \in Nat
  OBVIOUS
<1>4. ASSUME NEW i \in 1..Len(r) PROVE r[i] = s[m + i]
  <2>1. Len(r) - i \in Nat /\ Len(r) - i < Len(r) /\ Len(r) - (Len(r) - i) = i /\ Len(s) - (Len(r) - i) = m + i
    BY <1>3
  <2> QED BY <2>1
<1> HIDE DEF m
<1>5. f[Len(r)] \in Nat /\ g[m + Len(r)] \in Nat /\ f[Len(r)] <= g[m + Len(r)]
  <2>1. \A i \in 1..Len(r) : r[i] = s[m + i]
    BY <1>4
  <2>2. Len(r) <= Len(r) /\ m + Len(r) <= Len(s)
    BY <1>3
  <2> QED BY <1>1, <1>2, <1>3, <2>1, <2>2, SumsCompare
<1> QED BY <1>1, <1>2, <1>3, <1>5

LEMMA SumsSame ==
    ASSUME NEW r \in Seq(Nat), NEW s \in Seq(Nat), Len(r) <= Len(s),
           \A i \in 1..Len(r) : s[i] = r[i],
           NEW f, Sums(f, r), NEW g, Sums(g, s)
    PROVE  f[Len(r)] = g[Len(r)]
<1>1. g[0] = 0 /\ Len(s) \in Nat /\ \A n \in 1..Len(s) : g[n] = g[n - 1] + s[n]
  BY SumsFacts
<1>2. f[0] = 0 /\ Len(r) \in Nat /\ \A n \in 1..Len(r) : f[n] = f[n - 1] + r[n]
  BY SumsFacts
<1> DEFINE T == {k \in Nat : k <= Len(r) => f[k] = g[k]}
<1>3. 0 \in T
  BY <1>1, <1>2
<1>4. ASSUME NEW k \in Nat, k \in T PROVE k + 1 \in T
  <2> SUFFICES ASSUME k + 1 <= Len(r) PROVE f[k + 1] = g[k + 1]
    OBVIOUS
  <2>1. /\ k + 1 \in 1..Len(s) /\ k + 1 \in 1..Len(r)
        /\ (k + 1) - 1 = k /\ f[k] = g[k]
    BY <1>1, <1>2, <1>4
  <2>2. f[k + 1] = f[k] + r[k + 1] /\ g[k + 1] = g[k] + s[k + 1] /\ r[k + 1] = s[k + 1]
    BY <1>1, <1>2, <2>1
  <2> QED BY <2>1, <2>2
<1>5. Len(r) \in T
  <2> HIDE DEF T
  <2>1. Nat \subseteq T
    BY <1>3, <1>4, SetInduction
  <2> QED BY <1>2, <2>1
<1> QED BY <1>5

LEMMA TotalOneMore ==
    ASSUME NEW s \in Seq(Nat), NEW x \in Nat, NEW a \in Seq(Nat), Len(a) = Len(s) + 1,
           a[Len(s) + 1] = x, \A i \in 1..Len(s) : a[i] = s[i]
    PROVE  Total(a) = Total(s) + x
<1>1. /\ Len(a) = Len(s) + 1 /\ a[Len(s) + 1] = x /\ Len(s) \in Nat
      /\ \A i \in 1..Len(s) : a[i] = s[i]
  OBVIOUS
<1>2. PICK f : Sums(f, s) /\ Total(s) = f[Len(s)]
  BY TotalSums
<1>3. PICK g : Sums(g, a) /\ Total(a) = g[Len(a)]
  BY <1>1, TotalSums
<1>4. f[Len(s)] = g[Len(s)]
  <2>1. Len(s) <= Len(a)
    BY <1>1
  <2> QED BY <1>2, <1>3, <2>1, SumsSame
<1>5. g[Len(a)] = g[Len(a) - 1] + a[Len(a)]
  <2>1. Len(a) \in 1..Len(a)
    BY <1>1
  <2> QED BY <1>1, <1>3, <2>1, SumsFacts
<1>6. Len(a) - 1 = Len(s)
  BY <1>1
<1> QED BY <1>1, <1>2, <1>3, <1>4, <1>5, <1>6

-----------------------------------------------------------------------------
(* Budgets                                                                  *)

LEMMA DemandsAreNat == ASSUME NEW x \in Demands PROVE x \in Nat
BY DEF Demands

\* What a sequence of entries adds up to.
Spending == [age : Nat, tokens : Nat, cost : Nat]
Entry == [age : 0..MaxAge, tokens : Nat, cost : Nat]

LEMMA SameTotal == ASSUME NEW s PROVE Admission!Total(s) = Total(s)
BY DEF Admission!Total, Total

LEMMA SumIs ==
    ASSUME NEW s
    PROVE  /\ Admission!sum(s).tokens = Total([i \in DOMAIN s |-> s[i].tokens])
           /\ Admission!sum(s).cost = Total([i \in DOMAIN s |-> s[i].cost])
<1>1. Admission!sum(s) = [tokens |-> Admission!Total([i \in DOMAIN s |-> s[i].tokens]),
                          cost |-> Admission!Total([i \in DOMAIN s |-> s[i].cost])]
  BY DEF Admission!sum
<1> QED BY <1>1, SameTotal

LEMMA AmountsOf ==
    ASSUME NEW s \in Seq(Spending)
    PROVE  /\ [i \in DOMAIN s |-> s[i].tokens] \in Seq(Nat) /\ Len([i \in DOMAIN s |-> s[i].tokens]) = Len(s)
           /\ [i \in DOMAIN s |-> s[i].cost] \in Seq(Nat) /\ Len([i \in DOMAIN s |-> s[i].cost]) = Len(s)
<1>1. Len(s) \in Nat /\ DOMAIN s = 1..Len(s) /\ \A i \in 1..Len(s) : s[i] \in Spending
  BY ElementsOf
<1>2. \A i \in 1..Len(s) : s[i].tokens \in Nat /\ s[i].cost \in Nat
  BY <1>1 DEF Spending
<1>3. [i \in 1..Len(s) |-> s[i].tokens] \in [1..Len(s) -> Nat] /\ [i \in 1..Len(s) |-> s[i].cost] \in [1..Len(s) -> Nat]
  BY <1>2
<1> QED BY <1>1, <1>3, IsSequence

\* The last of the entries do not add up to more than all of them.
LEMMA SumSuffix ==
    ASSUME NEW s \in Seq(Spending), NEW r \in Seq(Spending), Len(r) <= Len(s),
           \A j \in Nat : j < Len(r) => r[Len(r) - j] = s[Len(s) - j]
    PROVE  /\ Admission!sum(r).tokens \in Nat /\ Admission!sum(s).tokens \in Nat
           /\ Admission!sum(r).tokens <= Admission!sum(s).tokens
           /\ Admission!sum(r).cost \in Nat /\ Admission!sum(s).cost \in Nat
           /\ Admission!sum(r).cost <= Admission!sum(s).cost
<1>1. PICK rt, rc, st, sc : /\ rt = [i \in DOMAIN r |-> r[i].tokens] /\ rc = [i \in DOMAIN r |-> r[i].cost]
                            /\ st = [i \in DOMAIN s |-> s[i].tokens] /\ sc = [i \in DOMAIN s |-> s[i].cost]
  OBVIOUS
<1>2. /\ rt \in Seq(Nat) /\ rc \in Seq(Nat) /\ st \in Seq(Nat) /\ sc \in Seq(Nat)
      /\ Len(rt) = Len(r) /\ Len(rc) = Len(r) /\ Len(st) = Len(s) /\ Len(sc) = Len(s)
  BY <1>1, AmountsOf
<1>3. Len(r) \in Nat /\ Len(s) \in Nat /\ DOMAIN r = 1..Len(r) /\ DOMAIN s = 1..Len(s)
  BY ElementsOf
<1>4. ASSUME NEW j \in Nat, j < Len(r)
      PROVE  rt[Len(r) - j] = st[Len(s) - j] /\ rc[Len(r) - j] = sc[Len(s) - j]
  <2>1. Len(r) - j \in DOMAIN r /\ Len(s) - j \in DOMAIN s /\ r[Len(r) - j] = s[Len(s) - j]
    BY <1>3, <1>4
  <2> QED BY <1>1, <2>1
<1>5. Total(rt) \in Nat /\ Total(st) \in Nat /\ Total(rt) <= Total(st)
  <2>1. Len(rt) <= Len(st) /\ \A j \in Nat : j < Len(rt) => rt[Len(rt) - j] = st[Len(st) - j]
    BY <1>2, <1>4
  <2> QED BY <1>2, <2>1, TotalSuffix
<1>6. Total(rc) \in Nat /\ Total(sc) \in Nat /\ Total(rc) <= Total(sc)
  <2>1. Len(rc) <= Len(sc) /\ \A j \in Nat : j < Len(rc) => rc[Len(rc) - j] = sc[Len(sc) - j]
    BY <1>2, <1>4
  <2> QED BY <1>2, <2>1, TotalSuffix
<1> QED BY <1>1, <1>5, <1>6, SumIs

\* One more entry is its amounts more.
LEMMA SumAppend ==
    ASSUME NEW s \in Seq(Spending), NEW e \in Spending
    PROVE  /\ Admission!sum(Append(s, e)).tokens = Admission!sum(s).tokens + e.tokens
           /\ Admission!sum(Append(s, e)).cost = Admission!sum(s).cost + e.cost
<1> DEFINE a == Append(s, e)
<1>1. /\ a \in Seq(Spending) /\ Len(a) = Len(s) + 1 /\ a[Len(s) + 1] = e
      /\ \A i \in 1..Len(s) : a[i] = s[i]
  OBVIOUS
<1> HIDE DEF a
<1>2. PICK st, sc, at, ac : /\ st = [i \in DOMAIN s |-> s[i].tokens] /\ sc = [i \in DOMAIN s |-> s[i].cost]
                            /\ at = [i \in DOMAIN a |-> a[i].tokens] /\ ac = [i \in DOMAIN a |-> a[i].cost]
  OBVIOUS
<1>3. Len(s) \in Nat /\ DOMAIN s = 1..Len(s) /\ DOMAIN a = 1..(Len(s) + 1)
  BY <1>1, ElementsOf
<1>4. /\ at \in Seq(Nat) /\ ac \in Seq(Nat) /\ st \in Seq(Nat) /\ sc \in Seq(Nat)
      /\ Len(at) = Len(s) + 1 /\ Len(ac) = Len(s) + 1 /\ Len(st) = Len(s) /\ Len(sc) = Len(s)
  BY <1>1, <1>2, AmountsOf
<1>5. /\ \A i \in 1..Len(s) : at[i] = st[i] /\ ac[i] = sc[i]
      /\ at[Len(s) + 1] = e.tokens /\ ac[Len(s) + 1] = e.cost
  BY <1>1, <1>2, <1>3
<1>6. e.tokens \in Nat /\ e.cost \in Nat
  BY DEF Spending
<1>7. Total(at) = Total(st) + e.tokens
  <2>1. /\ Len(at) = Len(st) + 1 /\ at[Len(st) + 1] = e.tokens
        /\ \A i \in 1..Len(st) : at[i] = st[i]
    BY <1>4, <1>5
  <2> QED BY <1>4, <1>6, <2>1, TotalOneMore
<1>8. Total(ac) = Total(sc) + e.cost
  <2>1. /\ Len(ac) = Len(sc) + 1 /\ ac[Len(sc) + 1] = e.cost
        /\ \A i \in 1..Len(sc) : ac[i] = sc[i]
    BY <1>4, <1>5
  <2> QED BY <1>4, <1>6, <2>1, TotalOneMore
<1> QED BY <1>1, <1>2, <1>7, <1>8, SumIs DEF a

LEMMA EntriesSpend ==
    /\ \A e \in Entry : e \in Spending /\ e.age \in 0..MaxAge /\ e.age \in Nat
    /\ Seq(Entry) \subseteq Seq(Spending)
<1>1. \A e \in Entry : e \in Spending /\ e.age \in 0..MaxAge /\ e.age \in Nat
  BY AgesAssumption DEF Entry, Spending
<1>2. Entry \subseteq Spending
  BY <1>1
<1> HIDE DEF Entry, Spending
<1> QED BY <1>1, <1>2

\* What was admitted since the budget was set and is in its window is on record, in the
\* order it came, and what is on record is within the budget, once it has admitted.
Newest(spent) == \A i, j \in DOMAIN spent : i <= j => spent[j].age <= spent[i].age

Charged(entries, spent, window) ==
    \A j \in Nat : j < Len(spent) /\ spent[Len(spent) - j].age < window =>
      j < Len(entries) /\ entries[Len(entries) - j] = spent[Len(spent) - j]

Affords(config, used) ==
    /\ \A limit \in config.tokens_per_window : used.tokens <= limit
    /\ \A limit \in config.cost_ceiling_per_window : used.cost <= limit

Budgeted(a, spent) ==
    /\ DOMAIN a = {"config", "entries"} /\ a.config \in Admission!AdmissionConfig(Limits, Windows)
    /\ a.entries \in Seq(Entry) /\ spent \in Seq(Spending) /\ Newest(spent)
    /\ Charged(a.entries, spent, a.config.window)
    /\ spent # <<>> => Affords(a.config, Admission!sum(a.entries))

LEMMA BudgetLimits ==
    ASSUME NEW config \in Admission!AdmissionConfig(Limits, Windows)
    PROVE  /\ config.window \in Windows /\ config.window \in Nat
           /\ \A limit \in config.tokens_per_window : limit \in Nat
           /\ \A limit \in config.cost_ceiling_per_window : limit \in Nat
<1>1. /\ config.window \in Windows /\ config.tokens_per_window \in Option(0..4)
      /\ config.cost_ceiling_per_window \in Option(0..4)
  BY DEF Admission!AdmissionConfig, Limits
<1> QED BY <1>1, AgesAssumption DEF Windows, Option, Some

\* Less is as affordable.
LEMMA AffordsLess ==
    ASSUME NEW config \in Admission!AdmissionConfig(Limits, Windows),
           NEW used, NEW less, Affords(config, used), used.tokens \in Nat, used.cost \in Nat,
           less.tokens \in Nat, less.cost \in Nat, less.tokens <= used.tokens, less.cost <= used.cost
    PROVE  Affords(config, less)
BY BudgetLimits DEF Affords

LEMMA BudgetedEvicts ==
    ASSUME NEW a, NEW spent, Budgeted(a, spent)
    PROVE  Budgeted(Admission!evict_expired(a), spent)
<1> DEFINE s == a.entries
           w == a.config.window
           young == {i \in DOMAIN s : s[i].age < w}
           r == FromFirst(s, young)
<1>1. PICK e : e = Admission!evict_expired(a)
  OBVIOUS
<1>2. DOMAIN e = DOMAIN a /\ e.config = a.config /\ e.entries = r
  BY <1>1, SameSuffix DEF Admission!evict_expired, Budgeted
<1>3. s \in Seq(Entry) /\ s \in Seq(Spending) /\ spent \in Seq(Spending) /\ young \in SUBSET DOMAIN s
  BY EntriesSpend DEF Budgeted
<1>4. /\ r \in Seq(Entry) /\ Len(r) \in Nat /\ Len(r) <= Len(s) /\ Len(s) \in Nat
      /\ \A j \in Nat : j < Len(r) => r[Len(r) - j] = s[Len(s) - j]
      /\ \A i \in young : Len(s) - i < Len(r)
  <2> HIDE DEF s, young
  <2>1. Len(s) \in Nat
    BY <1>3
  <2> QED BY <1>3, <2>1, FromFirstSuffix
<1> HIDE DEF r
<1>5. r \in Seq(Spending)
  BY <1>4, EntriesSpend
<1>6. Charged(s, spent, w)
  BY DEF Budgeted
<1>7. ASSUME NEW j \in Nat, j < Len(spent), spent[Len(spent) - j].age < w
      PROVE  j < Len(r) /\ r[Len(r) - j] = spent[Len(spent) - j]
  <2>1. j < Len(s) /\ s[Len(s) - j] = spent[Len(spent) - j]
    BY <1>6, <1>7 DEF Charged
  <2>2. Len(s) - j \in DOMAIN s
    <3>1. DOMAIN s = 1..Len(s)
      BY <1>3, ElementsOf
    <3> QED BY <1>4, <2>1, <3>1
  <2>3. Len(s) - j \in young
    BY <1>7, <2>1, <2>2
  <2>4. Len(s) - (Len(s) - j) < Len(r)
    BY <1>4, <2>3
  <2>5. j < Len(r)
    BY <1>4, <2>4
  <2> QED BY <1>4, <2>1, <2>5
<1>8. Charged(r, spent, w)
  BY <1>7 DEF Charged
<1>9. spent # <<>> => Affords(a.config, Admission!sum(r))
  <2>1. PICK used, less : used = Admission!sum(s) /\ less = Admission!sum(r)
    OBVIOUS
  <2>2. /\ used.tokens \in Nat /\ used.cost \in Nat /\ less.tokens \in Nat /\ less.cost \in Nat
        /\ less.tokens <= used.tokens /\ less.cost <= used.cost
    BY <1>3, <1>4, <1>5, <2>1, SumSuffix
  <2>3. a.config \in Admission!AdmissionConfig(Limits, Windows)
        /\ (spent # <<>> => Affords(a.config, used))
    BY <2>1 DEF Budgeted
  <2> QED BY <2>1, <2>2, <2>3, AffordsLess
<1>10. Budgeted(e, spent)
  BY <1>2, <1>4, <1>8, <1>9 DEF Budgeted
<1> QED BY <1>1, <1>10

\* One more entry, of age 0, at the end of both.
LEMMA ChargedAppends ==
    ASSUME NEW entries \in Seq(Entry), NEW spent \in Seq(Spending), NEW window,
           Charged(entries, spent, window), NEW x
    PROVE  Charged(Append(entries, x), Append(spent, x), window)
<1> DEFINE r == Append(entries, x)
           a == Append(spent, x)
<1>1. /\ Len(r) = Len(entries) + 1 /\ r[Len(r)] = x /\ \A i \in 1..Len(entries) : r[i] = entries[i]
      /\ Len(a) = Len(spent) + 1 /\ a[Len(a)] = x /\ \A i \in 1..Len(spent) : a[i] = spent[i]
      /\ Len(entries) \in Nat /\ Len(spent) \in Nat
  OBVIOUS
<1> HIDE DEF r, a
<1>2. ASSUME NEW j \in Nat, j < Len(a), a[Len(a) - j].age < window
      PROVE  j < Len(r) /\ r[Len(r) - j] = a[Len(a) - j]
  <2>1. CASE j = 0
    BY <1>1, <2>1
  <2>2. CASE j # 0
    <3>1. /\ j - 1 \in Nat /\ j - 1 < Len(spent) /\ Len(a) - j = Len(spent) - (j - 1)
          /\ Len(r) - j = Len(entries) - (j - 1) /\ Len(spent) - (j - 1) \in 1..Len(spent)
      BY <1>1, <1>2, <2>2
    <3>2. spent[Len(spent) - (j - 1)].age < window
      BY <1>1, <1>2, <3>1
    <3>3. j - 1 < Len(entries) /\ entries[Len(entries) - (j - 1)] = spent[Len(spent) - (j - 1)]
      BY <3>1, <3>2 DEF Charged
    <3>4. Len(entries) - (j - 1) \in 1..Len(entries)
      BY <1>1, <3>1, <3>3
    <3>5. j < Len(r)
      BY <1>1, <3>3
    <3>6. r[Len(r) - j] = entries[Len(entries) - (j - 1)]
      BY <1>1, <3>1, <3>4
    <3>7. a[Len(a) - j] = spent[Len(spent) - (j - 1)]
      BY <1>1, <3>1
    <3> QED BY <3>3, <3>5, <3>6, <3>7
  <2> QED BY <2>1, <2>2
<1>3. Charged(r, a, window)
  BY <1>2 DEF Charged
<1> QED BY <1>3 DEF r, a

LEMMA NewestAppends ==
    ASSUME NEW spent \in Seq(Spending), Newest(spent), NEW x \in Spending, x.age = 0
    PROVE  Newest(Append(spent, x))
<1> DEFINE a == Append(spent, x)
<1>1. /\ DOMAIN a = 1..(Len(spent) + 1) /\ a[Len(spent) + 1] = x /\ Len(spent) \in Nat
      /\ \A i \in 1..Len(spent) : a[i] = spent[i] /\ spent[i] \in Spending /\ i \in DOMAIN spent
  BY ElementsOf
<1> HIDE DEF a
<1>2. ASSUME NEW i \in DOMAIN a, NEW j \in DOMAIN a, i <= j PROVE a[j].age <= a[i].age
  <2>1. a[i] \in Spending
    BY <1>1
  <2>2. CASE j = Len(spent) + 1
    BY <1>1, <2>1, <2>2 DEF Spending
  <2>3. CASE j # Len(spent) + 1
    BY <1>1, <1>2, <2>3 DEF Newest
  <2> QED BY <2>2, <2>3
<1> QED BY <1>2 DEF Newest, a

\* What try_admit decides.
LEMMA AdmitFacts ==
    ASSUME NEW a, NEW tokens, NEW cost, DOMAIN a = {"config", "entries"}
    PROVE  LET e == Admission!evict_expired(a)
               d == Admission!try_admit(a, tokens, cost)
               x == [age |-> 0, tokens |-> tokens, cost |-> cost]
           IN \/ /\ ~d.admitted /\ d.controller = e
                 /\ d.retry \in {{}, {Admission!retry_after(e)}}
              \/ /\ d.admitted /\ d.retry = {} /\ d.controller = [e EXCEPT !.entries = Append(@, x)]
                 /\ \A limit \in e.config.tokens_per_window :
                      ~(Admission!sum(e.entries).tokens + tokens > limit)
                 /\ \A limit \in e.config.cost_ceiling_per_window :
                      ~(Admission!sum(e.entries).cost + cost > limit)
<1> DEFINE e == Admission!evict_expired(a)
           d == Admission!try_admit(a, tokens, cost)
           x == [age |-> 0, tokens |-> tokens, cost |-> cost]
           tokens_over == Admission!Exceeded(Admission!usage(e).tokens, tokens, e.config.tokens_per_window)
           cost_over == Admission!Exceeded(Admission!usage(e).cost, cost, e.config.cost_ceiling_per_window)
<1>1. d = CASE tokens_over # {} -> Admission!Denied(e, tokens, tokens_over)
            [] tokens_over = {} /\ cost_over # {} -> Admission!Denied(e, cost, cost_over)
            [] OTHER -> [controller |-> [e EXCEPT !.entries = Append(@, x)], admitted |-> TRUE, retry |-> {}]
  BY DEF Admission!try_admit
<1>2. ASSUME NEW demand, NEW limits
      PROVE  /\ ~Admission!Denied(e, demand, limits).admitted
             /\ Admission!Denied(e, demand, limits).controller = e
             /\ Admission!Denied(e, demand, limits).retry \in {{}, {Admission!retry_after(e)}}
  <2> HIDE DEF e
  <2> QED BY DEF Admission!Denied
<1> HIDE DEF d
<1>3. CASE tokens_over # {}
  <2> HIDE DEF e, tokens_over, cost_over
  <2>1. d = Admission!Denied(e, tokens, tokens_over)
    BY <1>1, <1>3
  <2> QED BY <1>2, <2>1 DEF d, e
<1>4. CASE tokens_over = {} /\ cost_over # {}
  <2> HIDE DEF e, tokens_over, cost_over
  <2>1. d = Admission!Denied(e, cost, cost_over)
    BY <1>1, <1>4
  <2> QED BY <1>2, <2>1 DEF d, e
<1>5. CASE tokens_over = {} /\ cost_over = {}
  <2>1. d = [controller |-> [e EXCEPT !.entries = Append(@, x)], admitted |-> TRUE, retry |-> {}]
    <3> HIDE DEF e, tokens_over, cost_over, x
    <3> QED BY <1>1, <1>5
  <2>2. /\ \A limit \in e.config.tokens_per_window : ~(Admission!sum(e.entries).tokens + tokens > limit)
        /\ \A limit \in e.config.cost_ceiling_per_window : ~(Admission!sum(e.entries).cost + cost > limit)
    <3> HIDE DEF e
    <3> QED BY <1>5 DEF Admission!Exceeded, Admission!usage
  <2> HIDE DEF e, x
  <2>3. d.admitted /\ d.retry = {} /\ d.controller = [e EXCEPT !.entries = Append(@, x)]
    BY <2>1
  <2> QED BY <2>2, <2>3 DEF d, e, x
<1> QED BY <1>3, <1>4, <1>5

\* try_admit charges what it admits, and only that.
LEMMA BudgetedAdmits ==
    ASSUME NEW a, NEW spent, Budgeted(a, spent), NEW tokens \in Nat, NEW cost \in Nat
    PROVE  LET d == Admission!try_admit(a, tokens, cost)
               x == [age |-> 0, tokens |-> tokens, cost |-> cost]
           IN /\ d.admitted => Budgeted(d.controller, Append(spent, x))
              /\ ~d.admitted => Budgeted(d.controller, spent)
<1> DEFINE d == Admission!try_admit(a, tokens, cost)
           x == [age |-> 0, tokens |-> tokens, cost |-> cost]
           e == Admission!evict_expired(a)
<1>1. Budgeted(e, spent) /\ DOMAIN a = {"config", "entries"}
  BY BudgetedEvicts DEF Budgeted
<1>2. \/ ~d.admitted /\ d.controller = e
      \/ /\ d.admitted /\ d.controller = [e EXCEPT !.entries = Append(@, x)]
         /\ \A limit \in e.config.tokens_per_window : ~(Admission!sum(e.entries).tokens + tokens > limit)
         /\ \A limit \in e.config.cost_ceiling_per_window : ~(Admission!sum(e.entries).cost + cost > limit)
  <2>1. \/ /\ ~d.admitted /\ d.controller = e
           /\ d.retry \in {{}, {Admission!retry_after(e)}}
        \/ /\ d.admitted /\ d.retry = {} /\ d.controller = [e EXCEPT !.entries = Append(@, x)]
           /\ \A limit \in e.config.tokens_per_window : ~(Admission!sum(e.entries).tokens + tokens > limit)
           /\ \A limit \in e.config.cost_ceiling_per_window : ~(Admission!sum(e.entries).cost + cost > limit)
    <3>1. DOMAIN a = {"config", "entries"}
      BY <1>1
    <3> QED BY <3>1, AdmitFacts, Zenon
  <2> HIDE DEF d, e, x
  <2> QED BY <2>1
<1>3. x \in Entry /\ x \in Spending /\ x.age = 0 /\ x.tokens = tokens /\ x.cost = cost
  BY AgesAssumption DEF Entry, Spending
<1> HIDE DEF d, x, e
<1>4. CASE ~d.admitted
  BY <1>1, <1>2, <1>4 DEF d
<1>5. CASE d.admitted
  <2> DEFINE entries == Append(e.entries, x)
  <2>1. /\ DOMAIN e = {"config", "entries"} /\ e.entries \in Seq(Entry) /\ e.entries \in Seq(Spending)
        /\ e.config \in Admission!AdmissionConfig(Limits, Windows)
        /\ spent \in Seq(Spending) /\ Newest(spent) /\ Charged(e.entries, spent, e.config.window)
    BY <1>1, EntriesSpend DEF Budgeted
  <2>2. /\ DOMAIN d.controller = {"config", "entries"} /\ d.controller.config = e.config
        /\ d.controller.entries = entries
    BY <1>2, <1>5, <2>1
  <2>3. entries \in Seq(Entry) /\ Append(spent, x) \in Seq(Spending)
    BY <1>3, <2>1
  <2>4. Newest(Append(spent, x))
    BY <1>3, <2>1, NewestAppends
  <2>5. Charged(entries, Append(spent, x), e.config.window)
    BY <2>1, ChargedAppends
  <2>6. Affords(e.config, Admission!sum(entries))
    <3>1. /\ Admission!sum(entries).tokens = Admission!sum(e.entries).tokens + tokens
          /\ Admission!sum(entries).cost = Admission!sum(e.entries).cost + cost
      BY <1>3, <2>1, SumAppend
    <3>2. Admission!sum(e.entries).tokens \in Nat /\ Admission!sum(e.entries).cost \in Nat
      <4>1. PICK s \in Seq(Spending) : s = e.entries
        BY <2>1
      <4>2. Len(s) <= Len(s) /\ \A j \in Nat : j < Len(s) => s[Len(s) - j] = s[Len(s) - j]
        BY <4>1
      <4>3. Admission!sum(s).tokens \in Nat /\ Admission!sum(s).cost \in Nat
        BY <4>1, <4>2, SumSuffix
      <4> QED BY <4>1, <4>3
    <3> HIDE DEF entries
    <3>3. PICK t0, c0, t1, c1 \in Nat :
            /\ t0 = Admission!sum(e.entries).tokens /\ c0 = Admission!sum(e.entries).cost
            /\ t1 = Admission!sum(entries).tokens /\ c1 = Admission!sum(entries).cost
      BY <3>1, <3>2
    <3>4. t1 = t0 + tokens /\ c1 = c0 + cost
      BY <3>1, <3>3
    <3>5. ASSUME NEW limit \in e.config.tokens_per_window PROVE Admission!sum(entries).tokens <= limit
      <4>1. ~(t0 + tokens > limit)
        BY <1>2, <1>5, <3>3
      <4>2. limit \in Nat
        BY <2>1, BudgetLimits
      <4>3. t1 <= limit
        BY <3>3, <3>4, <4>1, <4>2
      <4> QED BY <3>3, <4>3
    <3>6. ASSUME NEW limit \in e.config.cost_ceiling_per_window PROVE Admission!sum(entries).cost <= limit
      <4>1. ~(c0 + cost > limit)
        BY <1>2, <1>5, <3>3
      <4>2. limit \in Nat
        BY <2>1, BudgetLimits
      <4>3. c1 <= limit
        BY <3>3, <3>4, <4>1, <4>2
      <4> QED BY <3>3, <4>3
    <3> QED BY <3>5, <3>6 DEF Affords
  <2> HIDE DEF entries
  <2>7. Budgeted(d.controller, Append(spent, x))
    BY <2>1, <2>2, <2>3, <2>4, <2>5, <2>6 DEF Budgeted
  <2> QED BY <1>5, <2>7 DEF d, x
<1> QED BY <1>4, <1>5

\* A tick, as the properties see it; the controller's entries do not age past MaxAge.
Elder(e) == [e EXCEPT !.age = @ + 1]

LEMMA ElderFacts ==
    ASSUME NEW e \in Spending
    PROVE  /\ Elder(e) \in Spending /\ Elder(e).age = e.age + 1 /\ e.age \in Nat
           /\ Elder(e).tokens = e.tokens /\ Elder(e).cost = e.cost
BY DEF Elder, Spending

LEMMA AgedFacts ==
    ASSUME NEW e \in Entry
    PROVE  /\ Admission!Aged(e, MaxAge) \in Entry /\ Admission!Aged(e, MaxAge).tokens = e.tokens /\ Admission!Aged(e, MaxAge).cost = e.cost
           /\ e.age < MaxAge => Admission!Aged(e, MaxAge) = Elder(e)
<1>1. MaxAge \in Nat
  BY AgesAssumption
<1>2. e.age \in 0..MaxAge /\ (IF e.age < MaxAge THEN e.age + 1 ELSE e.age) \in 0..MaxAge
  BY <1>1 DEF Entry
<1> QED BY <1>1, <1>2 DEF Admission!Aged, Elder, Entry

\* What ages stays as it is otherwise.
LEMMA AgedEntries ==
    ASSUME NEW s \in Seq(Entry)
    PROVE  LET aged == [i \in DOMAIN s |-> Admission!Aged(s[i], MaxAge)] IN
           /\ aged \in Seq(Entry) /\ Len(aged) = Len(s) /\ \A i \in 1..Len(s) : aged[i] = Admission!Aged(s[i], MaxAge)
           /\ Admission!sum(aged) = Admission!sum(s)
<1> DEFINE aged == [i \in DOMAIN s |-> Admission!Aged(s[i], MaxAge)]
<1>1. Len(s) \in Nat /\ DOMAIN s = 1..Len(s) /\ \A i \in 1..Len(s) : s[i] \in Entry
  BY ElementsOf
<1>2. DOMAIN aged = DOMAIN s /\ \A i \in 1..Len(s) : aged[i] = Admission!Aged(s[i], MaxAge)
  BY <1>1
<1>3. aged \in [1..Len(s) -> Entry]
  BY <1>1, AgedFacts
<1>4. aged \in Seq(Entry) /\ Len(aged) = Len(s)
  BY <1>1, <1>3, IsSequence
<1> HIDE DEF aged
<1>5. \A i \in DOMAIN s : aged[i].tokens = s[i].tokens /\ aged[i].cost = s[i].cost
  BY <1>1, <1>2, AgedFacts
<1>6. /\ [i \in DOMAIN aged |-> aged[i].tokens] = [i \in DOMAIN s |-> s[i].tokens]
      /\ [i \in DOMAIN aged |-> aged[i].cost] = [i \in DOMAIN s |-> s[i].cost]
  BY <1>2, <1>5
<1>7. Admission!sum(aged) = Admission!sum(s)
  BY <1>6 DEF Admission!sum
<1> QED BY <1>2, <1>4, <1>7 DEF aged

LEMMA OlderEntriesFacts ==
    ASSUME NEW spent \in Seq(Spending)
    PROVE  LET r == OlderEntries(spent) IN
           /\ r \in Seq(Spending) /\ Len(r) \in Nat /\ Len(r) <= Len(spent)
           /\ \A j \in Nat : j < Len(r) => r[Len(r) - j] = Elder(spent[Len(spent) - j])
<1> DEFINE now == [i \in DOMAIN spent |-> Elder(spent[i])]
           young == {i \in DOMAIN now : now[i].age < MaxAge}
           r == OlderEntries(spent)
<1>1. Len(spent) \in Nat /\ DOMAIN spent = 1..Len(spent) /\ \A i \in 1..Len(spent) : spent[i] \in Spending
  BY ElementsOf
<1>2. DOMAIN now = DOMAIN spent /\ \A i \in 1..Len(spent) : now[i] = Elder(spent[i])
  BY <1>1
<1>3. now \in [1..Len(spent) -> Spending]
  BY <1>1, ElderFacts
<1>4. now \in Seq(Spending) /\ Len(now) = Len(spent)
  BY <1>1, <1>3, IsSequence
<1>5. r = FromFirst(now, young)
  BY DEF OlderEntries, Elder
<1>6. young \in SUBSET DOMAIN now
  OBVIOUS
<1> HIDE DEF now, young, r
<1>7. /\ r \in Seq(Spending) /\ Len(r) \in Nat /\ Len(r) <= Len(now)
      /\ \A j \in Nat : j < Len(r) => r[Len(r) - j] = now[Len(now) - j]
  BY <1>4, <1>5, <1>6, FromFirstSuffix
<1>8. ASSUME NEW j \in Nat, j < Len(r) PROVE r[Len(r) - j] = Elder(spent[Len(spent) - j])
  <2>1. Len(spent) - j \in 1..Len(spent)
    BY <1>1, <1>4, <1>7, <1>8
  <2>2. r[Len(r) - j] = now[Len(spent) - j]
    BY <1>4, <1>7, <1>8
  <2> QED BY <1>2, <2>1, <2>2
<1> QED BY <1>4, <1>7, <1>8 DEF r

LEMMA BudgetedAges ==
    ASSUME NEW a, NEW spent, Budgeted(a, spent)
    PROVE  Budgeted(Admission!Age(a, MaxAge), OlderEntries(spent))
<1> DEFINE s == a.entries
           w == a.config.window
           aged == [i \in DOMAIN s |-> Admission!Aged(s[i], MaxAge)]
           r == OlderEntries(spent)
           n == Len(spent)
           k == Len(s)
<1>1. PICK h : h = Admission!Age(a, MaxAge)
  OBVIOUS
<1>2. DOMAIN h = {"config", "entries"} /\ h.config = a.config /\ h.entries = aged
  <2>1. DOMAIN a = {"config", "entries"}
    BY DEF Budgeted
  <2> QED BY <1>1, <2>1 DEF Admission!Age
<1>3. s \in Seq(Entry) /\ spent \in Seq(Spending) /\ a.config \in Admission!AdmissionConfig(Limits, Windows)
  BY DEF Budgeted
<1>4. /\ aged \in Seq(Entry) /\ Len(aged) = k /\ \A i \in 1..k : aged[i] = Admission!Aged(s[i], MaxAge)
      /\ Admission!sum(aged) = Admission!sum(s)
  BY <1>3, AgedEntries
<1>5. /\ r \in Seq(Spending) /\ Len(r) \in Nat /\ Len(r) <= n
      /\ \A j \in Nat : j < Len(r) => r[Len(r) - j] = Elder(spent[n - j])
  BY <1>3, OlderEntriesFacts
<1>6. k \in Nat /\ n \in Nat /\ DOMAIN s = 1..k /\ DOMAIN spent = 1..n /\ DOMAIN r = 1..Len(r)
  BY <1>3, <1>5, ElementsOf
<1>7. w \in Nat /\ MaxAge \in Nat /\ w <= MaxAge
  BY <1>3, BudgetLimits, AgesAssumption DEF Windows
<1>8. (\A i \in 1..n : spent[i] \in Spending) /\ \A i \in 1..k : s[i] \in Entry
  BY <1>3, ElementsOf
<1>9. Newest(spent) /\ Charged(s, spent, w) /\ (spent # <<>> => Affords(a.config, Admission!sum(s)))
  BY DEF Budgeted
<1> HIDE DEF aged, r
<1>10. Newest(r)
  <2> SUFFICES ASSUME NEW i \in DOMAIN r, NEW j \in DOMAIN r, i <= j PROVE r[j].age <= r[i].age
    BY DEF Newest
  <2>1. PICK p, q \in Nat : p = Len(r) - i /\ q = Len(r) - j
    BY <1>5, <1>6
  <2>2. p < Len(r) /\ q < Len(r) /\ q <= p /\ i = Len(r) - p /\ j = Len(r) - q
    BY <1>5, <1>6, <2>1
  <2>3. n - p \in 1..n /\ n - q \in 1..n /\ n - p <= n - q
    <3> HIDE DEF n
    <3>1. PICK len \in Nat : len = Len(r) /\ len <= n
      BY <1>5
    <3>2. p \in Nat /\ q \in Nat /\ p < len /\ q < len /\ q <= p
      BY <2>1, <2>2, <3>1
    <3> QED BY <1>6, <3>1, <3>2
  <2>4. r[i] = Elder(spent[n - p]) /\ r[j] = Elder(spent[n - q])
    BY <1>5, <2>1, <2>2
  <2>5. spent[n - q].age <= spent[n - p].age
    BY <1>6, <1>9, <2>3 DEF Newest
  <2>6. /\ r[i].age = spent[n - p].age + 1 /\ r[j].age = spent[n - q].age + 1
        /\ spent[n - p].age \in Nat /\ spent[n - q].age \in Nat
    BY <1>8, <2>3, <2>4, ElderFacts
  <2> QED BY <2>5, <2>6
<1>11. ASSUME NEW j \in Nat, j < Len(r), r[Len(r) - j].age < w
       PROVE  j < k /\ aged[k - j] = r[Len(r) - j]
  <2>1. r[Len(r) - j] = Elder(spent[n - j]) /\ n - j \in 1..n /\ j < n
    BY <1>5, <1>6, <1>11
  <2>2. r[Len(r) - j].age = spent[n - j].age + 1 /\ spent[n - j].age \in Nat
    BY <1>8, <2>1, ElderFacts
  <2>3. spent[n - j].age < w /\ spent[n - j].age < MaxAge
    BY <1>7, <1>11, <2>2
  <2>4. j < k /\ s[k - j] = spent[n - j]
    BY <1>9, <2>1, <2>3 DEF Charged
  <2>5. k - j \in 1..k
    BY <1>6, <2>4
  <2>6. Admission!Aged(s[k - j], MaxAge) = Elder(s[k - j])
    BY <1>8, <2>3, <2>4, <2>5, AgedFacts
  <2> QED BY <1>4, <2>1, <2>4, <2>5, <2>6
<1>12. Charged(aged, r, w)
  BY <1>4, <1>11 DEF Charged
<1>13. r # <<>> => Affords(a.config, Admission!sum(aged))
  <2> SUFFICES ASSUME r # <<>> PROVE spent # <<>>
    BY <1>4, <1>9
  <2>1. Len(r) # 0
    BY <1>5
  <2>2. n # 0
    BY <1>5, <1>6, <2>1
  <2> QED BY <2>2
<1>14. Budgeted(h, r)
  BY <1>2, <1>3, <1>4, <1>5, <1>10, <1>12, <1>13 DEF Budgeted
<1> QED BY <1>1, <1>14 DEF r

LEMMA NothingSpent == Admission!sum(<<>>).tokens = 0 /\ Admission!sum(<<>>).cost = 0
<1>1. <<>> \in Seq(Nat) /\ Len(<<>>) = 0
  OBVIOUS
<1>2. PICK f : Sums(f, <<>>) /\ Total(<<>>) = f[Len(<<>>)]
  BY <1>1, TotalSums
<1>3. f[0] = 0
  BY <1>1, <1>2, SumsFacts
<1>4. /\ [i \in DOMAIN <<>> |-> <<>>[i].tokens] = <<>>
      /\ [i \in DOMAIN <<>> |-> <<>>[i].cost] = <<>>
  OBVIOUS
<1> QED BY <1>1, <1>2, <1>3, <1>4, SumIs

\* What is in the window was admitted last, and is on record.
LEMMA BudgetedHolds ==
    ASSUME NEW a, NEW spent, Budgeted(a, spent)
    PROVE  Affords(a.config, Admission!sum(Within(spent, a.config.window)))
<1> DEFINE s == a.entries
           w == a.config.window
           young == {i \in DOMAIN spent : spent[i].age < w}
           r == Within(spent, w)
           n == Len(spent)
           k == Len(s)
<1>1. /\ s \in Seq(Entry) /\ s \in Seq(Spending) /\ spent \in Seq(Spending)
      /\ a.config \in Admission!AdmissionConfig(Limits, Windows)
  BY EntriesSpend DEF Budgeted
<1>2. Newest(spent) /\ Charged(s, spent, w) /\ (spent # <<>> => Affords(a.config, Admission!sum(s)))
  BY DEF Budgeted
<1>3. k \in Nat /\ n \in Nat /\ DOMAIN spent = 1..n /\ \A i \in 1..n : spent[i] \in Spending
  BY <1>1, ElementsOf
<1>4. r = FromFirst(spent, young) /\ young \in SUBSET DOMAIN spent
  BY DEF Within
<1>5. \A i \in young : i \in 1..n /\ spent[i].age < w
  BY <1>3
<1> HIDE DEF young, r
<1>6. /\ r \in Seq(Spending) /\ Len(r) \in Nat /\ Len(r) <= n
      /\ \A j \in Nat : j < Len(r) => r[Len(r) - j] = spent[n - j]
      /\ Len(r) # 0 => n - Len(r) + 1 \in young
  BY <1>1, <1>4, FromFirstSuffix
<1>7. w \in Nat
  BY <1>1, BudgetLimits
<1>8. ASSUME NEW j \in Nat, j < Len(r) PROVE j < k /\ r[Len(r) - j] = s[k - j]
  <2>1. PICK first \in young : first = n - Len(r) + 1
    BY <1>6, <1>8
  <2>2. first \in 1..n /\ spent[first].age < w
    BY <1>5
  <2>3. n - j \in 1..n /\ first <= n - j /\ j < n
    BY <1>3, <1>6, <1>8, <2>1
  <2>4. spent[n - j].age <= spent[first].age /\ spent[n - j].age \in Nat /\ spent[first].age \in Nat
    BY <1>2, <1>3, <2>2, <2>3 DEF Newest, Spending
  <2>5. spent[n - j].age < w
    BY <1>7, <2>2, <2>4
  <2>6. j < k /\ s[k - j] = spent[n - j]
    BY <1>2, <2>3, <2>5 DEF Charged
  <2> QED BY <1>6, <1>8, <2>6
<1>9. CASE spent = <<>>
  <2>1. Len(r) = 0
    BY <1>3, <1>6, <1>9
  <2>2. r = <<>>
    BY <1>6, <2>1
  <2> QED BY <1>1, <2>2, NothingSpent, BudgetLimits DEF Affords, r
<1>10. CASE spent # <<>>
  <2>1. Len(r) <= k
    <3>1. CASE Len(r) = 0
      BY <1>3, <3>1
    <3>2. CASE Len(r) # 0
      <4>1. Len(r) - 1 \in Nat /\ Len(r) - 1 < Len(r)
        BY <1>6, <3>2
      <4>2. Len(r) - 1 < k
        BY <1>8, <4>1
      <4> QED BY <1>3, <1>6, <4>2
    <3> QED BY <3>1, <3>2
  <2>2. PICK used, less : used = Admission!sum(s) /\ less = Admission!sum(r)
    OBVIOUS
  <2>3. /\ used.tokens \in Nat /\ used.cost \in Nat /\ less.tokens \in Nat /\ less.cost \in Nat
        /\ less.tokens <= used.tokens /\ less.cost <= used.cost
    BY <1>1, <1>6, <1>8, <2>1, <2>2, SumSuffix
  <2>4. Affords(a.config, used)
    BY <1>2, <1>10, <2>2
  <2> QED BY <1>1, <2>2, <2>3, <2>4, AffordsLess DEF r
<1> QED BY <1>9, <1>10

\* Each queue's budget, beside what the queue was charged.
BudgetInv ==
    /\ DOMAIN admission = Scopes /\ DOMAIN ghost.spent = Scopes
    /\ \A s \in Scopes : Budgeted(admission[s], ghost.spent[s])

LEMMA BudgetedAnew ==
    ASSUME NEW a, DOMAIN a = {"config", "entries"}, a.config \in Admission!AdmissionConfig(Limits, Windows),
           a.entries \in Seq(Entry)
    PROVE  Budgeted(a, <<>>)
<1>1. <<>> \in Seq(Spending) /\ Len(<<>>) = 0 /\ DOMAIN <<>> = {}
  OBVIOUS
<1>2. Newest(<<>>) /\ Charged(a.entries, <<>>, a.config.window)
  BY <1>1 DEF Newest, Charged
<1> QED BY <1>1, <1>2 DEF Budgeted

LEMMA BudgetedNew ==
    ASSUME NEW config \in Admission!AdmissionConfig(Limits, Windows)
    PROVE  Budgeted(Admission!new(config), <<>>)
<1>1. /\ DOMAIN Admission!new(config) = {"config", "entries"} /\ Admission!new(config).config = config
      /\ Admission!new(config).entries = <<>>
  BY DEF Admission!new
<1>2. <<>> \in Seq(Entry)
  OBVIOUS
<1> QED BY <1>1, <1>2, BudgetedAnew

LEMMA HourIsBudget == Admission!UNLIMITED(Hour) \in Admission!AdmissionConfig(Limits, Windows)
BY LimitsAssumption DEF Admission!UNLIMITED, Admission!AdmissionConfig, Limits, Option

LEMMA EnqueueCalls ==
    ASSUME NEW c, IsCall(c)
    PROVE  /\ c.tool = "enqueue" => c.tokens \in Demands /\ c.cost \in Demands
           /\ c.tool = "configure_admission" => c.config \in Admission!AdmissionConfig(Limits, Windows)
<1>1. CASE c \in EnqueueParams
  BY <1>1 DEF EnqueueParams
<1>2. CASE c \in ConfigureAdmissionParams
  BY <1>2 DEF ConfigureAdmissionParams
<1>3. CASE \/ c \in ClaimParams \/ c \in AckParams \/ c \in NackParams \/ c \in CheckpointParams
           \/ c \in PublishPartialResultParams \/ c \in StreamPartialResultsParams
  BY <1>3 DEF ClaimParams, AckParams, NackParams, CheckpointParams, PublishPartialResultParams,
              StreamPartialResultsParams
<1>4. CASE \/ c \in AdmissionStatusParams \/ c \in ListDeadLettersParams \/ c \in ConfigureRouteParams
           \/ c \in TriageDeadLetterParams \/ c \in DeadLetterActionParams \/ c \in CreateApiKeyParams
  BY <1>4 DEF AdmissionStatusParams, ListDeadLettersParams, ConfigureRouteParams, TriageDeadLetterParams,
              DeadLetterActionParams, CreateApiKeyParams
<1>5. CASE \/ c \in RevokeApiKeyParams \/ c \in ConfigureTenantQuotaParams \/ c \in TenantQuotaStatusParams
           \/ c \in DashboardRequest
  BY <1>5 DEF RevokeApiKeyParams, ConfigureTenantQuotaParams, TenantQuotaStatusParams, DashboardRequest
<1> QED BY <1>1, <1>2, <1>3, <1>4, <1>5 DEF IsCall

\* Only these steps of a client touch a budget, or what was charged to it.
LEMMA SpentKept ==
    ASSUME Remembers(ghost), NEW t \in Tasks, Client(t), ~Admit(t), ~ConfigureAdmission(t)
    PROVE  ghost'.spent = ghost.spent
<1>1. CASE StdioCall(t) \/ RequireTenant(t) \/ Get(t) \/ SumOne(t) \/ Refuse(t)
  <2>1. CASE SumOne(t)
    BY <2>1 DEF SumOne, Remembers
  <2> QED BY <1>1, <2>1 DEF StdioCall, RequireTenant, Get, Refuse, RejectName, RejectId, RejectKey,
                            RefuseTenant, RejectTenantId
<1>2. CASE Authorize(t)
  BY <1>2 DEF Authorize, Remembers
<1>3. CASE Enqueue(t)
  <2>1. CASE IndexAndReturn(t)
    <3>1. ghost' = ghost \/ \E new : ghost' = [ghost EXCEPT !.indexed = new]
      BY <2>1 DEF IndexAndReturn
    <3> QED BY <3>1 DEF Remembers
  <2> QED BY <1>3, <2>1 DEF Enqueue, ResolveTargetQueue, Dedup, ReadPendingLimit, ComparePending, Put
<1>4. CASE Consume(t)
  BY <1>4 DEF Consume, Headroom, Claim, Ack, AckUnindex, Nack, Reclaim, TakeOut, Resolve,
              ResolveNacked, ResolveReclaimed, LookAtGroup, LeaseCallFails, BecomesAndFails
<1>5. CASE DeadLetters(t)
  <2>1. CASE Reprocess(t)
    BY <2>1 DEF Reprocess, Remembers
  <2> QED BY <1>5, <2>1 DEF DeadLetters, Triage, Purge, DeadLetterCallFails, BecomesAndFails
<1>6. CASE Configure(t)
  <2>1. CASE ConfigureTenantQuota(t)
    BY <2>1 DEF ConfigureTenantQuota, Remembers
  <2> QED BY <1>6, <2>1 DEF Configure, ConfigureRoute
<1>7. CASE Status(t)
  BY <1>7 DEF Status, AdmissionStatus, TenantQuotaStatus, TenantQuotaReport, DashboardQueues,
              DashboardTenants
<1>8. CASE KeyCalls(t)
  <2>1. CASE MintLog(t) \/ RevokeLog(t)
    BY <2>1 DEF MintLog, RevokeLog, KeysLogged, Remembers
  <2>2. CASE RevokeRemove(t)
    BY <2>2 DEF RevokeRemove, Remembers
  <2> QED BY <1>8, <2>1, <2>2 DEF KeyCalls, MintInsert, RevokeLook
<1> QED BY <1>1, <1>2, <1>3, <1>4, <1>5, <1>6, <1>7, <1>8 DEF Client

LEMMA BudgetsKept ==
    ASSUME NEW t \in Tasks, Client(t), ~Admit(t), ~ConfigureAdmission(t), ~Headroom(t),
           ~AdmissionStatus(t), ~DashboardQueues(t)
    PROVE  admission' = admission
<1>1. CASE StdioCall(t) \/ RequireTenant(t) \/ Authorize(t) \/ Get(t) \/ SumOne(t) \/ Refuse(t)
  BY <1>1 DEF StdioCall, RequireTenant, Authorize, Get, SumOne, Refuse, RejectName, RejectId, RejectKey,
              RefuseTenant, RejectTenantId, registry
<1>2. CASE Enqueue(t)
  BY <1>2 DEF Enqueue, ResolveTargetQueue, Dedup, ReadPendingLimit, ComparePending, Put,
              IndexAndReturn, registry
<1>3. CASE Consume(t)
  BY <1>3 DEF Consume, Claim, Ack, AckUnindex, Nack, Reclaim, TakeOut, Resolve, ResolveNacked,
              ResolveReclaimed, LookAtGroup, LeaseCallFails, BecomesAndFails, registry
<1>4. CASE DeadLetters(t)
  BY <1>4 DEF DeadLetters, Triage, Reprocess, Purge, DeadLetterCallFails, BecomesAndFails, registry
<1>5. CASE Configure(t)
  BY <1>5 DEF Configure, ConfigureRoute, ConfigureTenantQuota
<1>6. CASE Status(t)
  BY <1>6 DEF Status, TenantQuotaStatus, TenantQuotaReport, DashboardTenants, registry
<1>7. CASE KeyCalls(t)
  BY <1>7 DEF KeyCalls, MintLog, MintInsert, RevokeLook, RevokeLog, RevokeRemove, registry
<1> QED BY <1>1, <1>2, <1>3, <1>4, <1>5, <1>6, <1>7 DEF Client

LEMMA BudgetAdmit ==
    ASSUME TenantInv, CallerInv, Remembers(ghost), BudgetInv, NEW t \in Tasks, Admit(t)
    PROVE  BudgetInv'
<1> DEFINE tokens == Call(t).tokens
           cost == Call(t).cost
           x == [age |-> 0, tokens |-> tokens, cost |-> cost]
           d == Admission!try_admit(admission[Scope(t)], tokens, cost)
           s == Scope(t)
<1>1. tokens \in Nat /\ cost \in Nat
  <2>1. task[t].pc = "admit" /\ Underway(task[t])
    BY DEF Admit, At, Underway, Enqueuing
  <2>2. Call(t).tool = "enqueue" /\ IsCall(Call(t))
    BY <2>1, CallHere DEF CallerInv, TenantInv, Call
  <2> QED BY <2>2, EnqueueCalls, DemandsAreNat
<1>2. admission' = [admission EXCEPT ![s] = d.controller]
  BY DEF Admit
<1>3. \/ d.admitted /\ ghost' = [ghost EXCEPT !.spent[s] = Append(@, x)]
      \/ ~d.admitted /\ ghost' = ghost
  BY DEF Admit
<1>4. /\ DOMAIN admission = Scopes /\ DOMAIN ghost.spent = Scopes
      /\ \A r \in Scopes : Budgeted(admission[r], ghost.spent[r])
  BY DEF BudgetInv
<1>5. s \in Scopes => /\ d.admitted => Budgeted(d.controller, Append(ghost.spent[s], x))
                      /\ ~d.admitted => Budgeted(d.controller, ghost.spent[s])
  BY <1>1, <1>4, BudgetedAdmits
<1> HIDE DEF d, x, s
<1>6. /\ \A r \in Scopes : r # s => admission'[r] = admission[r]
      /\ s \in Scopes => admission'[s] = d.controller
      /\ DOMAIN admission' = Scopes
  BY <1>2, <1>4
<1>7. CASE d.admitted
  <2>1. ghost'.spent = [ghost.spent EXCEPT ![s] = Append(@, x)]
    BY <1>3, <1>7 DEF Remembers
  <2>2. /\ DOMAIN ghost'.spent = Scopes /\ \A r \in Scopes : r # s => ghost'.spent[r] = ghost.spent[r]
        /\ s \in Scopes => ghost'.spent[s] = Append(ghost.spent[s], x)
    BY <1>4, <2>1
  <2>3. ASSUME NEW r \in Scopes PROVE Budgeted(admission'[r], ghost'.spent[r])
    BY <1>4, <1>5, <1>6, <1>7, <2>2
  <2> QED BY <1>6, <2>2, <2>3 DEF BudgetInv
<1>8. CASE ~d.admitted
  <2>1. ghost' = ghost
    BY <1>3, <1>8
  <2>2. ASSUME NEW r \in Scopes PROVE Budgeted(admission'[r], ghost.spent[r])
    BY <1>4, <1>5, <1>6, <1>8
  <2> QED BY <1>4, <1>6, <2>1, <2>2 DEF BudgetInv
<1> QED BY <1>7, <1>8

LEMMA BudgetConfigure ==
    ASSUME TenantInv, Remembers(ghost), BudgetInv, NEW t \in Tasks, ConfigureAdmission(t)
    PROVE  BudgetInv'
<1> DEFINE config == Call(t).config
           s == Scope(t)
           h == Admission!set_config(admission[s], config)
<1>1. config \in Admission!AdmissionConfig(Limits, Windows)
  <2>1. task[t].pc = "tool" /\ Call(t).tool = "configure_admission"
    BY DEF ConfigureAdmission, Running, At
  <2>2. IsCall(Call(t))
    BY <2>1, CallHere DEF TenantInv
  <2> QED BY <2>1, <2>2, EnqueueCalls
<1>2. admission' = [admission EXCEPT ![s] = h] /\ ghost' = [ghost EXCEPT !.spent[s] = <<>>]
  BY DEF ConfigureAdmission
<1>3. /\ DOMAIN admission = Scopes /\ DOMAIN ghost.spent = Scopes
      /\ \A r \in Scopes : Budgeted(admission[r], ghost.spent[r])
  BY DEF BudgetInv
<1>4. s \in Scopes => Budgeted(h, <<>>)
  <2> SUFFICES ASSUME s \in Scopes PROVE Budgeted(h, <<>>)
    OBVIOUS
  <2>1. PICK a : a = admission[s]
    OBVIOUS
  <2>2. DOMAIN a = {"config", "entries"} /\ a.entries \in Seq(Entry)
    BY <1>3, <2>1 DEF Budgeted
  <2>3. h = [a EXCEPT !.config = config]
    BY <2>1 DEF Admission!set_config
  <2> HIDE DEF h, config
  <2>4. DOMAIN h = {"config", "entries"} /\ h.config = config /\ h.entries = a.entries
    BY <2>2, <2>3
  <2> QED BY <1>1, <2>2, <2>4, BudgetedAnew
<1> HIDE DEF s, h, config
<1>5. /\ \A r \in Scopes : r # s => admission'[r] = admission[r]
      /\ s \in Scopes => admission'[s] = h
      /\ DOMAIN admission' = Scopes
  BY <1>2, <1>3
<1>6. ghost'.spent = [ghost.spent EXCEPT ![s] = <<>>]
  BY <1>2 DEF Remembers
<1>7. /\ DOMAIN ghost'.spent = Scopes /\ \A r \in Scopes : r # s => ghost'.spent[r] = ghost.spent[r]
      /\ s \in Scopes => ghost'.spent[s] = <<>>
  BY <1>3, <1>6
<1>8. ASSUME NEW r \in Scopes PROVE Budgeted(admission'[r], ghost'.spent[r])
  BY <1>3, <1>4, <1>5, <1>7
<1> QED BY <1>5, <1>7, <1>8 DEF BudgetInv

LEMMA BudgetClient ==
    ASSUME TenantInv, CallerInv, Remembers(ghost), BudgetInv, NEW t \in Tasks, Client(t)
    PROVE  BudgetInv'
<1>1. CASE Admit(t)
  BY <1>1, BudgetAdmit
<1>2. CASE ConfigureAdmission(t)
  BY <1>2, BudgetConfigure
<1>3. CASE ~Admit(t) /\ ~ConfigureAdmission(t)
  <2>1. ghost'.spent = ghost.spent
    BY <1>3, SpentKept
  <2>2. DOMAIN admission = Scopes /\ DOMAIN ghost.spent = Scopes
    BY DEF BudgetInv
  <2>3. \A s \in Scopes : /\ Budgeted(admission[s], ghost.spent[s])
                          /\ Budgeted(Admission!evict_expired(admission[s]), ghost.spent[s])
    BY BudgetedEvicts DEF BudgetInv
  <2>4. /\ DOMAIN admission' = Scopes
        /\ \A s \in Scopes : admission'[s] \in {admission[s], Admission!evict_expired(admission[s])}
    <3>1. CASE Headroom(t) \/ AdmissionStatus(t)
      <4>1. admission' = [admission EXCEPT ![Scope(t)] = Admission!evict_expired(admission[Scope(t)])]
        BY <3>1 DEF Headroom, AdmissionStatus
      <4> QED BY <2>2, <4>1
    <3>2. CASE DashboardQueues(t)
      <4>1. admission' = [s \in Scopes |-> IF s \in groups THEN Admission!evict_expired(admission[s])
                                                           ELSE admission[s]]
        BY <3>2 DEF DashboardQueues
      <4> QED BY <4>1
    <3>3. CASE ~Headroom(t) /\ ~AdmissionStatus(t) /\ ~DashboardQueues(t)
      BY <1>3, <2>2, <3>3, BudgetsKept
    <3> QED BY <3>1, <3>2, <3>3
  <2>5. ASSUME NEW s \in Scopes PROVE Budgeted(admission'[s], ghost'.spent[s])
    BY <2>1, <2>3, <2>4
  <2> QED BY <2>1, <2>2, <2>4, <2>5 DEF BudgetInv
<1> QED BY <1>1, <1>2, <1>3

LEMMA BudgetInit == Init => BudgetInv
<1> SUFFICES ASSUME Init PROVE BudgetInv
  OBVIOUS
<1>1. /\ admission = [s \in Scopes |-> Admission!new(workload.budget)]
      /\ ghost.spent = [s \in Scopes |-> <<>>]
  BY DEF Init, NewGhost
<1>2. workload.budget \in Admission!AdmissionConfig(Limits, Windows)
  BY LimitsAssumption DEF Init
<1>3. Budgeted(Admission!new(workload.budget), <<>>)
  BY <1>2, BudgetedNew
<1> QED BY <1>1, <1>3 DEF BudgetInv

LEMMA BudgetSame == ASSUME BudgetInv, UNCHANGED <<admission, ghost>> PROVE BudgetInv'
BY DEF BudgetInv

LEMMA BudgetNext == TenantInv /\ CallerInv /\ Remembers(ghost) /\ BudgetInv /\ [Next]_vars => BudgetInv'
<1> SUFFICES ASSUME TenantInv, CallerInv, Remembers(ghost), BudgetInv, [Next]_vars PROVE BudgetInv'
  OBVIOUS
<1>1. ASSUME NEW t \in Tasks, Client(t) PROVE BudgetInv'
  BY <1>1, BudgetClient
<1>2. CASE Tick
  <2>1. admission' = [s \in Scopes |-> Admission!Age(admission[s], MaxAge)]
    BY <1>2 DEF Tick
  <2>2. ghost'.spent = [s \in Scopes |-> OlderEntries(ghost.spent[s])]
    BY <1>2 DEF Tick, Remembers
  <2>3. ASSUME NEW s \in Scopes
        PROVE  Budgeted(Admission!Age(admission[s], MaxAge), OlderEntries(ghost.spent[s]))
    BY BudgetedAges DEF BudgetInv
  <2> QED BY <2>1, <2>2, <2>3 DEF BudgetInv
<1>3. CASE Restart
  <2>1. admission' = [s \in Scopes |-> Admission!new(Admission!UNLIMITED(Hour))]
    BY <1>3 DEF Restart
  <2>2. ghost'.spent = [s \in Scopes |-> <<>>]
    BY <1>3 DEF Restart, Remembers
  <2>3. Budgeted(Admission!new(Admission!UNLIMITED(Hour)), <<>>)
    BY HourIsBudget, BudgetedNew
  <2> QED BY <2>1, <2>2, <2>3 DEF BudgetInv
<1> QED BY <1>1, <1>2, <1>3, BudgetSame
        DEF Next, Client, vars, registry, AuditReceive, AuditWrite

\* A queue never admits more tokens, or more cost, in one window than its budget says,
\* counted from when the budget was set: try_admit looks and charges under one lock,
\* whatever else evicts what has expired in between.
THEOREM SpendingIsMetered == Spec => []BudgetHeld
<1>1. BudgetInv => BudgetHeld
  <2> SUFFICES ASSUME BudgetInv, NEW s \in Scopes
               PROVE  LET config == admission[s].config
                          used == Admission!sum(Within(ghost.spent[s], config.window))
                      IN /\ \A limit \in config.tokens_per_window : used.tokens <= limit
                         /\ \A limit \in config.cost_ceiling_per_window : used.cost <= limit
    BY DEF BudgetHeld
  <2>1. Budgeted(admission[s], ghost.spent[s])
    BY DEF BudgetInv
  <2>2. Affords(admission[s].config, Admission!sum(Within(ghost.spent[s], admission[s].config.window)))
    BY <2>1, BudgetedHolds
  <2> QED BY <2>2 DEF Affords
<1>2. AgedInv => Remembers(ghost)
  BY DEF AgedInv
<1> QED BY <1>1, <1>2, TenantInit, TenantNext, AgedInit, AgedNext, CallerInit, CallerNext,
           BudgetInit, BudgetNext, PTL DEF Spec

-----------------------------------------------------------------------------
(* Types.  Most are parts of the invariants above; what is left is how full *)
(* the audit channel is, and what a client is told.                         *)

RoomInv == Len(audit.channel) <= channel_capacity

\* log looks for room before it sends, a worker only takes, and a new channel is empty.
LEMMA RoomNext == AuditInv /\ RoomInv /\ [Next]_vars => RoomInv'
<1> SUFFICES ASSUME AuditInv, RoomInv, [Next]_vars PROVE RoomInv'
  OBVIOUS
<1>1. PICK E : Carries(audit, E)
  BY DEF AuditInv, Logger
<1>2. /\ DOMAIN audit = {"channel", "hand", "file", "dropped", "written", "calls"}
      /\ audit.channel \in Seq(E) /\ Len(audit.channel) \in Nat /\ Len(audit.channel) <= channel_capacity
      /\ channel_capacity \in Nat
  BY <1>1, WorkersAssumption DEF AuditInv, Logger, Carries, RoomInv
<1>3. ASSUME NEW e, audit' = Audit!log(audit, e) PROVE RoomInv'
  <2>1. CASE Len(audit.channel) < channel_capacity
    <3>1. audit'.channel = Append(audit.channel, e)
      BY <1>2, <1>3, <2>1 DEF Audit!log
    <3>2. Len(Append(audit.channel, e)) = Len(audit.channel) + 1
      BY <1>2
    <3> QED BY <1>2, <2>1, <3>1, <3>2 DEF RoomInv
  <2>2. CASE ~(Len(audit.channel) < channel_capacity)
    <3>1. audit'.channel = audit.channel
      BY <1>2, <1>3, <2>2 DEF Audit!log
    <3> QED BY <1>2, <3>1 DEF RoomInv
  <2> QED BY <2>1, <2>2
<1>4. ASSUME NEW w \in Workers, Audit!CanReceive(audit, w), audit' = Audit!Receive(audit, w)
      PROVE  RoomInv'
  <2>1. audit'.channel = Tail(audit.channel)
    BY <1>2, <1>4 DEF Audit!Receive
  <2>2. Len(Tail(audit.channel)) = Len(audit.channel) - 1
    BY <1>2, <1>4 DEF Audit!CanReceive
  <2> QED BY <1>2, <2>1, <2>2 DEF RoomInv
<1>5. ASSUME NEW w \in Workers, audit' \in Audit!Writes(audit, w) PROVE RoomInv'
  <2>1. audit'.channel = audit.channel
    BY <1>2, <1>5 DEF Audit!Writes
  <2> QED BY <1>2, <2>1 DEF RoomInv
<1>6. ASSUME NEW file, audit' = Audit!open(file) PROVE RoomInv'
  <2>1. audit'.channel = <<>> /\ Len(<<>>) = 0
    BY <1>6 DEF Audit!open
  <2> QED BY <1>2, <2>1 DEF RoomInv
<1>7. CASE audit' = audit
  BY <1>7 DEF RoomInv
<1> QED BY <1>3, <1>4, <1>5, <1>6, <1>7, AuditSteps

\* What a client may be told.
Replies(answer) == answer.kind \in Kinds /\ answer.retry \in Option(Windows)

\* A call that is about to be counted is a tenant's.
Told(r) == Replies(r.answer) /\ (r.pc = "authorize" => r.tenant \in Tenants)
RepliesInv == \A t \in Tasks : Told(task[t])

LEMMA KindsReply ==
    ASSUME NEW kind \in Kinds, NEW id
    PROVE  Replies(NoAnswer) /\ Replies(Answer(kind)) /\ Replies([Answer(kind) EXCEPT !.id = id])
<1>1. "none" \in Kinds /\ {} \in Option(Windows)
  BY DEF Kinds, Option
<1> QED BY <1>1 DEF Replies, Answer, NoAnswer

LEMMA RetryReplies ==
    ASSUME NEW retry \in Option(Windows)
    PROVE  Replies([Answer("throttled") EXCEPT !.retry = retry])
<1>1. "throttled" \in Kinds
  BY DEF Kinds, ErrorData
<1> QED BY <1>1 DEF Replies, Answer, NoAnswer

\* A call returns, or it goes on and its client has been told nothing else.
LEMMA DoneReplies ==
    ASSUME DOMAIN task = Tasks, RepliesInv, NEW t \in Tasks, NEW answer, NEW held, Done(t, answer, held),
           Replies(answer)
    PROVE  RepliesInv'
<1> DEFINE n == NewTask(Tail(task[t].todo))
           r == [n EXCEPT !.tenant = task[t].tenant, !.held = held, !.answer = answer]
<1>1. task' = [task EXCEPT ![t] = r]
  BY DEF Done
<1>2. "answer" \in DOMAIN n /\ n.pc = "idle"
  BY DEF NewTask
<1> HIDE DEF n
<1>3. r.answer = answer /\ r.pc = "idle"
  BY <1>2
<1> HIDE DEF r
<1> QED BY <1>1, <1>3 DEF RepliesInv, Told

LEMMA ReturnReplies ==
    ASSUME DOMAIN task = Tasks, RepliesInv, NEW t \in Tasks, NEW answer, Return(t, answer), Replies(answer)
    PROVE  RepliesInv'
BY DoneReplies DEF Return

LEMMA GoesOnReplies ==
    ASSUME DOMAIN task = Tasks, RepliesInv, NEW t \in Tasks, NEW r, task' = [task EXCEPT ![t] = r],
           r.answer = task[t].answer \/ r.answer = NoAnswer, r.pc = "authorize" => r.tenant \in Tenants
    PROVE  RepliesInv'
<1>1. Replies(NoAnswer)
  BY KindsReply DEF Kinds
<1>2. Told(r)
  BY <1>1 DEF RepliesInv, Told
<1> QED BY <1>2 DEF RepliesInv

LEMMA GotoReplies ==
    ASSUME TaskInv, RepliesInv, NEW t \in Tasks, NEW pc, Goto(t, pc), pc # "authorize"
    PROVE  RepliesInv'
<1> DEFINE r == [task[t] EXCEPT !.pc = pc]
<1>1. task' = [task EXCEPT ![t] = r] /\ DOMAIN task = Tasks
  BY DEF Goto, TaskInv
<1>2. r.answer = task[t].answer /\ r.pc = pc
  BY DEF TaskInv, Sound, Formed
<1> HIDE DEF r
<1> QED BY <1>1, <1>2, GoesOnReplies

\* What each call tells its client: nothing yet, or one of the outcomes it has.
LEMMA PlainReplies ==
    ASSUME TaskInv, RepliesInv, NEW t \in Tasks,
           \/ \E pc : Goto(t, pc) /\ pc # "authorize"
           \/ \E kind \in Kinds : Return(t, Answer(kind))
           \/ \E kind \in Kinds : \E id : Return(t, [Answer(kind) EXCEPT !.id = id])
           \/ \E kind \in Kinds : \E id, held : Done(t, [Answer(kind) EXCEPT !.id = id], held)
    PROVE  RepliesInv'
<1>1. DOMAIN task = Tasks
  BY DEF TaskInv
<1>2. ASSUME NEW pc, Goto(t, pc), pc # "authorize" PROVE RepliesInv'
  BY <1>2, GotoReplies
<1>3. ASSUME NEW kind \in Kinds, Return(t, Answer(kind)) PROVE RepliesInv'
  BY <1>1, <1>3, KindsReply, ReturnReplies
<1>4. ASSUME NEW kind \in Kinds, NEW id, NEW held, Done(t, [Answer(kind) EXCEPT !.id = id], held)
      PROVE  RepliesInv'
  <2>1. Replies([Answer(kind) EXCEPT !.id = id])
    BY KindsReply
  <2> QED BY <1>1, <1>4, <2>1, DoneReplies
<1> QED BY <1>2, <1>3, <1>4 DEF Return

LEMMA OutcomesAreKinds ==
    {"ok", "error", "invalid", "unauthorized", "over_pending", "duplicate", "enqueued", "claimed",
     "unavailable", "no_headroom", "acked", "nacked", "stale", "annotated", "reprocessed", "purged",
     "not_found"} \cup {Looks[tool] : tool \in DOMAIN Looks} \subseteq Kinds
BY DEF Looks, Kinds, EnqueueResult, ClaimResult, AckResult, NackResult, CheckpointResult,
       PublishPartialResultResult, StreamPartialResultsResult, TriageDeadLetterResult,
       ReprocessDeadLetterResult, PurgeDeadLetterResult, RevokeApiKeyResult, ErrorData

\* A queue that turns a task away says when to come back, unless it never will take it:
\* something is in the window, and the oldest of it is younger than the window.
LEMMA YoungHead ==
    ASSUME NEW a, NEW spent, Budgeted(a, spent), NEW e, e = Admission!evict_expired(a), e.entries # <<>>
    PROVE  e.config.window - Head(e.entries).age \in Windows
<1> DEFINE s == a.entries
           w == a.config.window
           young == {i \in DOMAIN s : s[i].age < w}
           r == FromFirst(s, young)
<1>1. e.config = a.config /\ e.entries = r
  BY SameSuffix DEF Admission!evict_expired, Budgeted
<1>2. s \in Seq(Entry) /\ young \in SUBSET DOMAIN s /\ w \in Windows /\ MaxAge \in Nat /\ Len(s) \in Nat
  BY BudgetLimits, AgesAssumption DEF Budgeted
<1>3. /\ r \in Seq(Entry) /\ Len(r) \in Nat /\ Len(r) <= Len(s)
      /\ \A j \in Nat : j < Len(r) => r[Len(r) - j] = s[Len(s) - j]
      /\ Len(r) # 0 => Len(s) - Len(r) + 1 \in young
  <2> HIDE DEF s, young
  <2> QED BY <1>2, FromFirstSuffix
<1>4. r # <<>> /\ e.config.window = w /\ Head(e.entries) = Head(r)
  BY <1>1
<1> HIDE DEF r
<1>5. Len(r) # 0 /\ Head(r) = r[1] /\ Head(r) \in Entry
  <2>1. Len(r) # 0 /\ Head(r) = r[1]
    BY <1>3, <1>4
  <2> QED BY <1>3, <1>4, <2>1, HeadOfSome
<1>6. r[1] = s[Len(s) - Len(r) + 1]
  <2>1. Len(r) - 1 \in Nat /\ Len(r) - 1 < Len(r) /\ Len(r) - (Len(r) - 1) = 1
    BY <1>3, <1>5
  <2>2. r[1] = s[Len(s) - (Len(r) - 1)] /\ Len(s) - (Len(r) - 1) = Len(s) - Len(r) + 1
    BY <1>2, <1>3, <2>1
  <2> QED BY <2>2
<1>7. Head(r).age < w /\ Head(r).age \in 0..MaxAge
  BY <1>3, <1>5, <1>6 DEF Entry
<1>8. w - Head(r).age \in Windows
  BY <1>2, <1>7 DEF Windows
<1> QED BY <1>4, <1>8

LEMMA AdmitReplies ==
    ASSUME NEW a, NEW spent, Budgeted(a, spent), NEW tokens \in Nat, NEW cost \in Nat
    PROVE  Admission!try_admit(a, tokens, cost).retry \in Option(Windows)
<1>1. PICK e : e = Admission!evict_expired(a)
  OBVIOUS
<1>2. Budgeted(e, spent)
  BY <1>1, BudgetedEvicts
<1>3. e.entries # <<>> => Admission!retry_after(e) \in Windows
  BY <1>1, YoungHead DEF Admission!retry_after
<1>4. e.entries = <<>> => Admission!usage(e).tokens = 0 /\ Admission!usage(e).cost = 0
  BY NothingSpent DEF Admission!usage
<1>5. ASSUME NEW demand \in Nat, NEW used, e.entries = <<>> => used = 0, NEW limits,
             \A limit \in limits : limit \in Nat
      PROVE  Admission!Denied(e, demand, Admission!Exceeded(used, demand, limits)).retry \in Option(Windows)
  <2> DEFINE over == Admission!Exceeded(used, demand, limits)
  <2>1. CASE \E limit \in over : demand <= limit
    <3>1. PICK limit \in limits : used + demand > limit /\ demand <= limit
      BY <2>1 DEF Admission!Exceeded
    <3>2. e.entries # <<>>
      BY <1>5, <3>1
    <3>3. Admission!Denied(e, demand, over).retry = {Admission!retry_after(e)}
      BY <2>1 DEF Admission!Denied
    <3> QED BY <1>3, <3>2, <3>3 DEF Option, Some
  <2>2. CASE ~(\E limit \in over : demand <= limit)
    <3>1. Admission!Denied(e, demand, over).retry = {}
      BY <2>2 DEF Admission!Denied
    <3> QED BY <3>1 DEF Option
  <2> QED BY <2>1, <2>2
<1>6. /\ \A limit \in e.config.tokens_per_window : limit \in Nat
      /\ \A limit \in e.config.cost_ceiling_per_window : limit \in Nat
  BY <1>2, BudgetLimits DEF Budgeted
<1> DEFINE d == Admission!try_admit(a, tokens, cost)
           tokens_over == Admission!Exceeded(Admission!usage(e).tokens, tokens, e.config.tokens_per_window)
           cost_over == Admission!Exceeded(Admission!usage(e).cost, cost, e.config.cost_ceiling_per_window)
           x == [age |-> 0, tokens |-> tokens, cost |-> cost]
<1>7. d = CASE tokens_over # {} -> Admission!Denied(e, tokens, tokens_over)
            [] tokens_over = {} /\ cost_over # {} -> Admission!Denied(e, cost, cost_over)
            [] OTHER -> [controller |-> [e EXCEPT !.entries = Append(@, x)], admitted |-> TRUE, retry |-> {}]
  BY <1>1 DEF Admission!try_admit
<1>8. /\ Admission!Denied(e, tokens, tokens_over).retry \in Option(Windows)
      /\ Admission!Denied(e, cost, cost_over).retry \in Option(Windows)
  BY <1>4, <1>5, <1>6
<1> HIDE DEF d, tokens_over, cost_over, x
<1>9. \/ d = Admission!Denied(e, tokens, tokens_over) \/ d = Admission!Denied(e, cost, cost_over)
      \/ d = [controller |-> [e EXCEPT !.entries = Append(@, x)], admitted |-> TRUE, retry |-> {}]
  BY <1>7
<1>10. ASSUME d = [controller |-> [e EXCEPT !.entries = Append(@, x)], admitted |-> TRUE, retry |-> {}]
       PROVE  d.retry \in Option(Windows)
  BY <1>10 DEF Option
<1>11. d.retry \in Option(Windows)
  BY <1>8, <1>9, <1>10
<1> QED BY <1>11 DEF d


LEMMA RepliesClient ==
    ASSUME TenantInv, CallerInv, QuotaInv, RateInv, BudgetInv, RepliesInv, NEW t \in Tasks, Client(t)
    PROVE  RepliesInv'
<1>1. /\ TaskInv /\ DOMAIN task = Tasks
      /\ DOMAIN task[t] = {"todo", "pc", "tenant", "queue", "left", "total", "limit", "id", "batch", "held", "answer"}
  BY DEF TenantInv, TaskInv, Sound, Formed
<1>2. CASE StdioCall(t)
  <2> DEFINE r == [task[t] EXCEPT !.pc = "tool", !.tenant = Stdio, !.answer = NoAnswer,
                                  !.queue = Named(Call(t))]
  <2>1. task' = [task EXCEPT ![t] = r]
    BY <1>1, <1>2 DEF StdioCall
  <2>2. r.answer = NoAnswer /\ r.pc = "tool"
    BY <1>1
  <2> QED BY <1>1, <2>1, <2>2, GoesOnReplies
<1>3. CASE RequireTenant(t)
  <2> DEFINE tenant == The(CredentialTenant(Call(t).credential))
             r == [task[t] EXCEPT !.pc = "authorize", !.tenant = tenant, !.answer = NoAnswer,
                                  !.queue = Named(Call(t))]
  <2>1. Return(t, Answer("unauthorized")) \/ (task' = [task EXCEPT ![t] = r] /\ tenant \in Tenants)
    <3>1. task[t].todo # <<>> /\ Call(t).credential # Stdio
      BY <1>3 DEF RequireTenant
    <3>2. Call(t).credential \in DOMAIN Jwt
      BY <1>1, <3>1, CallHere, CallFacts DEF Credentials
    <3>3. CredentialTenant(Call(t).credential) # {} => tenant \in Tenants
      BY <3>2, CredentialFacts, TheChosen DEF TenantInv
    <3> QED BY <1>1, <1>3, <3>3 DEF RequireTenant
  <2>2. r.answer = NoAnswer /\ r.tenant = tenant
    BY <1>1
  <2> HIDE DEF r
  <2> QED BY <1>1, <2>1, <2>2, GoesOnReplies, PlainReplies, OutcomesAreKinds
<1>4. CASE Authorize(t)
  <2> DEFINE d == Quota!try_acquire(quota[Tenant(t)])
  <2>1. Goto(t, "tool") \/ Return(t, [Answer("throttled") EXCEPT !.retry = d.retry])
    BY <1>4 DEF Authorize
  <2>2. Tenant(t) \in Tenants
    BY <1>4 DEF Authorize, At, RepliesInv, Told, Tenant
  <2>3. d.retry \in Option(Windows)
    BY <2>2, RatedAcquires DEF QuotaInv, RateInv
  <2>4. Replies([Answer("throttled") EXCEPT !.retry = d.retry])
    BY <2>3, RetryReplies
  <2> HIDE DEF d
  <2> QED BY <1>1, <2>1, <2>4, GotoReplies, ReturnReplies
<1>5. CASE Refuse(t)
  <2>1. Return(t, Answer("invalid"))
    BY <1>5 DEF Refuse, RejectName, RejectId, RejectKey, RefuseTenant, RejectTenantId
  <2> QED BY <1>1, <2>1, PlainReplies, OutcomesAreKinds
<1>6. CASE Get(t)
  <2>1. Goto(t, AfterGet[Call(t).tool]) \/ (\E kind \in {"error", "invalid"} : Return(t, Answer(kind)))
    BY <1>6 DEF Get
  <2>2. AfterGet[Call(t).tool] # "authorize"
    <3>1. Call(t).tool \in DOMAIN AfterGet
      BY <1>1, <1>6 DEF Get, WantsQueue, TaskInv, Sound, Placed, AfterGet, Call, At
    <3> QED BY <3>1 DEF AfterGet
  <2> QED BY <1>1, <2>1, <2>2, PlainReplies, OutcomesAreKinds
<1>7. CASE SumOne(t)
  <2>1. PICK left, total : task' = [task EXCEPT ![t].left = left, ![t].total = total]
    BY <1>7 DEF SumOne
  <2> DEFINE r == [task[t] EXCEPT !.left = left, !.total = total]
  <2>2. task' = [task EXCEPT ![t] = r] /\ r.answer = task[t].answer /\ r.pc = task[t].pc
    BY <1>1, <2>1
  <2>3. task[t].pc = "sum"
    BY <1>7 DEF SumOne, At
  <2> QED BY <1>1, <2>2, <2>3, GoesOnReplies
<1>8. CASE Admit(t)
  <2> DEFINE d == Admission!try_admit(admission[Scope(t)], Call(t).tokens, Call(t).cost)
  <2>1. Goto(t, "put") \/ Return(t, [Answer("throttled") EXCEPT !.retry = d.retry])
    BY <1>8 DEF Admit
  <2>2. task[t].pc = "admit" /\ Underway(task[t])
    BY <1>8 DEF Admit, At, Underway, Enqueuing
  <2>3. Call(t).tool = "enqueue" /\ IsCall(Call(t)) /\ Scope(t) \in Scopes
    BY <1>1, <2>2, QueueHere, ScopeIn DEF CallerInv, Call, InQueue
  <2>4. Call(t).tokens \in Nat /\ Call(t).cost \in Nat
    BY <2>3, EnqueueCalls, DemandsAreNat
  <2>5. Budgeted(admission[Scope(t)], ghost.spent[Scope(t)])
    BY <2>3 DEF BudgetInv
  <2>6. d.retry \in Option(Windows)
    BY <2>4, <2>5, AdmitReplies
  <2>7. Replies([Answer("throttled") EXCEPT !.retry = d.retry])
    BY <2>6, RetryReplies
  <2> HIDE DEF d
  <2> QED BY <1>1, <2>1, <2>7, GotoReplies, ReturnReplies
<1>9. CASE Enqueue(t) /\ ~Admit(t)
  <2>1. CASE ResolveTargetQueue(t)
    <3>1. \/ Goto(t, "get") \/ Return(t, Answer("invalid"))
          \/ \E q : task' = [task EXCEPT ![t].pc = "get", ![t].queue = q]
      BY <2>1 DEF ResolveTargetQueue
    <3>2. ASSUME NEW q, task' = [task EXCEPT ![t].pc = "get", ![t].queue = q]
          PROVE  RepliesInv'
      <4> DEFINE r == [task[t] EXCEPT !.pc = "get", !.queue = q]
      <4>1. task' = [task EXCEPT ![t] = r] /\ r.answer = task[t].answer /\ r.pc = "get"
        BY <1>1, <3>2
      <4> QED BY <1>1, <4>1, GoesOnReplies
    <3> QED BY <1>1, <3>1, <3>2, PlainReplies, OutcomesAreKinds
  <2>2. CASE Dedup(t)
    <3>1. Goto(t, "pending") \/ \E id : Return(t, [Answer("duplicate") EXCEPT !.id = id])
      BY <2>2 DEF Dedup
    <3>2. ASSUME NEW id, Return(t, [Answer("duplicate") EXCEPT !.id = id]) PROVE RepliesInv'
      <4>1. Replies([Answer("duplicate") EXCEPT !.id = id])
        BY KindsReply, OutcomesAreKinds
      <4> QED BY <1>1, <3>2, <4>1, ReturnReplies
    <3> QED BY <1>1, <3>1, <3>2, GotoReplies
  <2>3. CASE ReadPendingLimit(t)
    <3>1. Goto(t, "admit") \/ \E limit, left : task' = [task EXCEPT ![t].pc = "sum", ![t].limit = limit,
                                                                    ![t].left = left, ![t].total = 0]
      BY <2>3 DEF ReadPendingLimit
    <3>2. ASSUME NEW limit, NEW left,
                 task' = [task EXCEPT ![t].pc = "sum", ![t].limit = limit, ![t].left = left, ![t].total = 0]
          PROVE  RepliesInv'
      <4> DEFINE r == [task[t] EXCEPT !.pc = "sum", !.limit = limit, !.left = left, !.total = 0]
      <4>1. task' = [task EXCEPT ![t] = r] /\ r.answer = task[t].answer /\ r.pc = "sum"
        BY <1>1, <3>2
      <4> QED BY <1>1, <4>1, GoesOnReplies
    <3>3. Goto(t, "admit") => RepliesInv'
      BY <1>1, GotoReplies
    <3> QED BY <3>1, <3>2, <3>3
  <2>4. CASE ComparePending(t)
    <3>1. Goto(t, "admit") \/ Return(t, Answer("over_pending"))
      BY <2>4 DEF ComparePending
    <3> QED BY <1>1, <3>1, PlainReplies, OutcomesAreKinds
  <2>5. CASE Put(t)
    <3>1. \/ Return(t, Answer("error"))
          \/ \E id : task' = [task EXCEPT ![t].pc = "index", ![t].id = id]
      BY <2>5 DEF Put
    <3>2. ASSUME NEW id, task' = [task EXCEPT ![t].pc = "index", ![t].id = id]
          PROVE  RepliesInv'
      <4> DEFINE r == [task[t] EXCEPT !.pc = "index", !.id = id]
      <4>1. task' = [task EXCEPT ![t] = r] /\ r.answer = task[t].answer /\ r.pc = "index"
        BY <1>1, <3>2
      <4> QED BY <1>1, <4>1, GoesOnReplies
    <3> QED BY <1>1, <3>1, <3>2, PlainReplies, OutcomesAreKinds
  <2>6. CASE IndexAndReturn(t)
    <3>1. \E id : Return(t, [Answer("enqueued") EXCEPT !.id = id])
      BY <2>6 DEF IndexAndReturn
    <3> QED BY <1>1, <3>1, PlainReplies, OutcomesAreKinds
  <2> QED BY <1>9, <2>1, <2>2, <2>3, <2>4, <2>5, <2>6 DEF Enqueue
<1>10. CASE Consume(t)
  <2>1. CASE Headroom(t)
    <3>1. Goto(t, "group") \/ Return(t, Answer("no_headroom"))
      BY <2>1 DEF Headroom
    <3> QED BY <1>1, <3>1, PlainReplies, OutcomesAreKinds
  <2>2. CASE Claim(t)
    <3>1. \/ Return(t, Answer("unavailable"))
          \/ \E id, held : Done(t, [Answer("claimed") EXCEPT !.id = id], held)
      BY <2>2 DEF Claim
    <3> QED BY <1>1, <3>1, PlainReplies, OutcomesAreKinds
  <2>3. CASE Ack(t) \/ AckUnindex(t)
    <3>1. Goto(t, "unindex") \/ \E kind \in {"stale", "acked"} : Return(t, Answer(kind))
      BY <2>3 DEF Ack, AckUnindex
    <3> QED BY <1>1, <3>1, PlainReplies, OutcomesAreKinds
  <2>4. CASE LookAtGroup(t)
    <3>1. \E found \in BOOLEAN : Return(t, Answer(IF found THEN Looks[Call(t).tool] ELSE "stale"))
      BY <2>4 DEF LookAtGroup
    <3>2. Call(t).tool \in DOMAIN Looks
      BY <2>4 DEF LookAtGroup
    <3>3. Looks[Call(t).tool] \in Kinds /\ "stale" \in Kinds
      BY <3>2, OutcomesAreKinds
    <3>4. \E kind \in Kinds : Return(t, Answer(kind))
      BY <3>1, <3>3
    <3> QED BY <1>1, <3>4, PlainReplies
  <2>5. CASE LeaseCallFails(t)
    <3>1. Return(t, Answer("error"))
      BY <2>5 DEF LeaseCallFails, BecomesAndFails
    <3> QED BY <1>1, <3>1, PlainReplies, OutcomesAreKinds
  <2>6. CASE Nack(t) \/ Reclaim(t) \/ Resolve(t)
    <3>1. \/ \E kind \in {"stale", "nacked", "error", "unavailable"} : Return(t, Answer(kind))
          \/ \E r : task' = [task EXCEPT ![t] = r] /\ Handles(task[t], r)
      BY <1>1, <2>6, LeaseMoves
    <3>2. ASSUME NEW r, task' = [task EXCEPT ![t] = r], Handles(task[t], r) PROVE RepliesInv'
      BY <1>1, <3>2, GoesOnReplies DEF Handles
    <3> QED BY <1>1, <3>1, <3>2, PlainReplies, OutcomesAreKinds
  <2> QED BY <1>10, <2>1, <2>2, <2>3, <2>4, <2>5, <2>6 DEF Consume
<1>11. CASE DeadLetters(t)
  <2>1. Goto(t, "reprocess")
        \/ \E kind \in {"annotated", "reprocessed", "purged", "not_found", "error"} : Return(t, Answer(kind))
    <3>1. CASE Triage(t)
      BY <3>1 DEF Triage
    <3>2. CASE Reprocess(t)
      BY <3>2 DEF Reprocess
    <3>3. CASE Purge(t)
      BY <3>3 DEF Purge
    <3>4. CASE DeadLetterCallFails(t)
      BY <3>4 DEF DeadLetterCallFails, BecomesAndFails
    <3> QED BY <1>11, <3>1, <3>2, <3>3, <3>4 DEF DeadLetters
  <2> QED BY <1>1, <2>1, PlainReplies, OutcomesAreKinds
<1>12. CASE Configure(t)
  <2>1. \E kind \in {"ok", "invalid"} : Return(t, Answer(kind))
    BY <1>12 DEF Configure, ConfigureAdmission, ConfigureRoute, ConfigureTenantQuota
  <2> QED BY <1>1, <2>1, PlainReplies, OutcomesAreKinds
<1>13. CASE Status(t)
  <2>1. CASE TenantQuotaStatus(t)
    <3>1. PICK left : task' = [task EXCEPT ![t].pc = "sum", ![t].left = left, ![t].total = 0]
      BY <2>1 DEF TenantQuotaStatus
    <3> DEFINE r == [task[t] EXCEPT !.pc = "sum", !.left = left, !.total = 0]
    <3>2. task' = [task EXCEPT ![t] = r] /\ r.answer = task[t].answer /\ r.pc = "sum"
      BY <1>1, <3>1
    <3> QED BY <1>1, <3>2, GoesOnReplies
  <2>2. CASE ~TenantQuotaStatus(t)
    <3>1. Goto(t, "tenants") \/ Return(t, Answer("ok"))
      BY <1>13, <2>2 DEF Status, AdmissionStatus, TenantQuotaReport, DashboardQueues, DashboardTenants
    <3> QED BY <1>1, <3>1, PlainReplies, OutcomesAreKinds
  <2> QED BY <2>1, <2>2
<1>14. CASE KeyCalls(t)
  <2>1. \/ \E pc \in {"mint", "revoke_log", "revoke"} : Goto(t, pc)
        \/ \E kind \in {"ok", "error", "not_found"} : Return(t, Answer(kind))
    BY <1>14 DEF KeyCalls, MintLog, MintInsert, RevokeLook, RevokeLog, RevokeRemove, KeysLogged
  <2> QED BY <1>1, <2>1, PlainReplies, OutcomesAreKinds
<1> QED BY <1>2, <1>3, <1>4, <1>5, <1>6, <1>7, <1>8, <1>9, <1>10, <1>11, <1>12, <1>13, <1>14
        DEF Client


LEMMA NewTaskTold ==
    ASSUME NEW calls, NEW held
    PROVE  Told(NewTask(calls)) /\ Told([NewTask(calls) EXCEPT !.held = held])
<1> DEFINE n == NewTask(calls)
           r == [n EXCEPT !.held = held]
<1>1. "held" \in DOMAIN n /\ n.answer = NoAnswer /\ n.pc = "idle"
  BY DEF NewTask
<1> HIDE DEF n
<1>2. r.answer = NoAnswer /\ r.pc = "idle"
  BY <1>1
<1>3. Replies(NoAnswer)
  BY KindsReply DEF Kinds
<1> HIDE DEF r
<1>4. Told(n) /\ Told(r)
  BY <1>1, <1>2, <1>3 DEF Told
<1> QED BY <1>4 DEF n, r

LEMMA RepliesInit == Init => RepliesInv
<1> SUFFICES ASSUME Init, NEW t \in Tasks PROVE Told(task[t])
  BY DEF RepliesInv
<1>1. task[t] = NewTask(workload.calls[t])
  BY DEF Init
<1> QED BY <1>1, NewTaskTold

LEMMA RepliesNext ==
    TenantInv /\ CallerInv /\ QuotaInv /\ RateInv /\ BudgetInv /\ RepliesInv /\ [Next]_vars => RepliesInv'
<1> SUFFICES ASSUME TenantInv, CallerInv, QuotaInv, RateInv, BudgetInv, RepliesInv, [Next]_vars
             PROVE  RepliesInv'
  OBVIOUS
<1>1. ASSUME NEW t \in Tasks, Client(t) PROVE RepliesInv'
  BY <1>1, RepliesClient
<1>2. ASSUME task' = task PROVE RepliesInv'
  BY <1>2 DEF RepliesInv
<1>3. CASE Restart
  <2>1. \A t \in Tasks : task'[t] = task[t] \/ \E calls, held : task'[t] = [NewTask(calls) EXCEPT !.held = held]
    BY <1>3 DEF Restart
  <2>2. ASSUME NEW t \in Tasks PROVE Told(task'[t])
    <3>1. CASE task'[t] = task[t]
      BY <3>1 DEF RepliesInv
    <3>2. ASSUME NEW calls, NEW held, task'[t] = [NewTask(calls) EXCEPT !.held = held] PROVE Told(task'[t])
      BY <3>2, NewTaskTold
    <3> QED BY <2>1, <3>1, <3>2
  <2> QED BY <2>2 DEF RepliesInv
<1> QED BY <1>1, <1>2, <1>3 DEF Next, Client, vars, Tick, AuditReceive, AuditWrite

\* Every variable has its type, for every workload and any number of clients, restarts
\* included: log keeps the audit channel within its capacity, and try_acquire and
\* try_admit never tell a client they throttle to come back at once.
THEOREM TypeCorrect == Spec => []TypeOK
<1>1. Init => AuditInv /\ RoomInv
  <2> SUFFICES ASSUME Init PROVE AuditInv /\ RoomInv
    OBVIOUS
  <2>1. audit.channel = <<>> /\ Len(<<>>) = 0
    BY DEF Init, Fresh, Audit!open
  <2> QED BY <2>1, AuditInit, WorkersAssumption DEF RoomInv
<1>2. TenantInv /\ RoomInv /\ SumInv /\ QuotaInv /\ RateInv /\ BudgetInv /\ RepliesInv => TypeOK
  <2> SUFFICES ASSUME TenantInv, RoomInv, SumInv, QuotaInv, RateInv, BudgetInv, RepliesInv PROVE TypeOK
    OBVIOUS
  <2>1. groups \subseteq Scopes /\ Len(audit.channel) <= channel_capacity
    BY DEF SumInv, RoomInv
  <2>2. \A a \in Tenants : quota[a].requests \in Seq(0..MaxAge)
    BY DEF RateInv, Rated
  <2>3. ASSUME NEW s \in Scopes, NEW i \in DOMAIN admission[s].entries
        PROVE  admission[s].entries[i].age \in 0..MaxAge
    <3>1. admission[s].entries \in Seq(Entry)
      BY DEF BudgetInv, Budgeted
    <3>2. admission[s].entries[i] \in Entry
      BY <2>3, <3>1, ElementsOf
    <3> QED BY <3>2 DEF Entry
  <2>4. \A s \in Scopes : Owns[s] \subseteq Ids
    BY DEF Owns
  <2>5. ASSUME NEW s \in Scopes
        PROVE  /\ group[s].dead \subseteq Ids /\ group[s].ready \in Seq(Ids)
               /\ \A lease \in group[s].leased : lease.id \in Ids
    BY <2>4 DEF TenantInv, GroupInv, Holds
  <2>6. DOMAIN keystore.keys \subseteq Keys
    BY DEF TenantInv, KeysInv, KeysOfTenants
  <2>7. ASSUME NEW t \in Tasks
        PROVE  /\ task[t].answer.kind \in Kinds /\ task[t].answer.retry \in Option(Windows)
               /\ task[t].answer.id \in Ids \cup {0}
    BY <2>4 DEF RepliesInv, Told, Replies, TenantInv, TaskInv, Sound, Answered
  <2> QED BY <2>1, <2>2, <2>3, <2>5, <2>6, <2>7 DEF TypeOK
<1>3. AgedInv => Remembers(ghost)
  BY DEF AgedInv
<1> QED BY <1>1, <1>2, <1>3, AuditNext, RoomNext, TenantInit, TenantNext, AgedInit, AgedNext, CallerInit, CallerNext,
           QuotaInit, QuotaNext, SumInit, SumNext, RateInit, RateNext, BudgetInit, BudgetNext,
           RepliesInit, RepliesNext, PTL DEF Spec

=============================================================================
