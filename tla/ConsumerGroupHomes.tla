------------------------- MODULE ConsumerGroupHomes -------------------------
(***************************************************************************)
(* Theorems about ConsumerGroup: where a message is, in memory and in the  *)
(* two logs, for every set of ids, keys and tasks and every bound on       *)
(* crashes, failed appends and cancellations.                              *)
(***************************************************************************)
EXTENDS ConsumerGroupProofs

-----------------------------------------------------------------------------
(* The inductive invariant                                                  *)

\* The places of a message, one set for each.
AtPending(id) == {i \in DOMAIN pending : pending[i].id = id}
AtDelayed(id) == {i \in DOMAIN delayed : delayed[i].entry.id = id}
InBatch(id) == {t \in Tasks : \E e \in call[t].batch : e.id = id}
HandAt(pc, id) == {t \in Tasks : call[t].pc = pc /\ call[t].entry.id = id}
Acking(id) == {t \in Tasks : call[t].pc = "ack_wal" /\ call[t].grant.id = id}
InLog(id) == {i \in DOMAIN wal_pending : wal_pending[i].id = id}

\* The steps at which the message a call has in hand matters to its home.
HomeSteps == {"enqueue_wal", "enqueue_push", "take_wal", "dlq_insert", "dead_lettered",
              "purge_release"}

Holders(id) ==
    InBatch(id) \cup HandAt("enqueue_wal", id) \cup HandAt("enqueue_push", id)
    \cup HandAt("take_wal", id) \cup HandAt("dlq_insert", id) \cup Acking(id)

\* The messages that are over, or have yet to exist.
Over(id) == fate[id] \in {"done", "purged", "dropped"}

\* Maps are keyed by the id of what they hold, and a call has no message twice.
KeyedCall(c) ==
    /\ \A e, f \in c.batch : e.id = f.id => e = f
    /\ c.batch # {} => c.pc \in {"resolve", "dlq_insert", "dead_lettered"}
    /\ c.pc = "dlq_insert" => \A e \in c.batch : e.id # c.entry.id
    /\ c.op = "claim" => c.pc \in {"idle", "pop", "blocked", "resolve", "dlq_insert",
                                   "dead_lettered"}
    /\ c.pc = "take_wal" => c.op \in {"reprocess", "purge"}
Keyed ==
    /\ \A id \in Ids : /\ leased[id] # None => leased[id].entry.id = id
                       /\ dlq[id] # None => dlq[id].entry.id = id
                       /\ dlq_wal[id] # None => dlq_wal[id].entry.id = id
    /\ \A t \in Tasks : KeyedCall(call[t])

\* So is what a replay stopping at a torn frame finds.
TearKeyed == dlq_tear # None => \A id \in Ids : dlq_tear[id] # None => dlq_tear[id].entry.id = id

\* One home at most: no place holds the message twice and no two places hold it.
\* Being dropped by this process (stranded) counts as a place.
Sole(id) ==
    /\ \A i, j \in AtPending(id) : i = j
    /\ \A i, j \in AtDelayed(id) : i = j
    /\ \A t, u \in Holders(id) : t = u
    /\ AtPending(id) # {} => /\ AtDelayed(id) = {} /\ leased[id] = None /\ dlq[id] = None
                             /\ Holders(id) = {} /\ id \notin stranded
    /\ AtDelayed(id) # {} => /\ leased[id] = None /\ dlq[id] = None /\ Holders(id) = {}
                             /\ id \notin stranded
    /\ leased[id] # None => dlq[id] = None /\ Holders(id) = {} /\ id \notin stranded
    /\ dlq[id] # None => Holders(id) = {} /\ id \notin stranded
    /\ Holders(id) # {} => id \notin stranded

\* The homes whose message has its Enqueue record in the main WAL.
Logged(id) ==
    \/ AtPending(id) # {} \/ AtDelayed(id) # {} \/ leased[id] # None
    \/ InBatch(id) # {} \/ HandAt("enqueue_push", id) # {} \/ HandAt("dlq_insert", id) # {}
    \/ Acking(id) # {}
    \/ id \in stranded /\ dlq_wal[id] = None /\ ~Over(id)

\* The main WAL holds one record for a message with such a home, and one more for
\* each DeadLettered record still to be written, unless one of those failed.
LogAgrees(id) ==
    /\ IsFiniteSet(HandAt("dead_lettered", id))
    /\ id \notin torn =>
         Cardinality(InLog(id)) = Cardinality(HandAt("dead_lettered", id))
                                  + (IF Logged(id) THEN 1 ELSE 0)

\* The DLQ's WAL holds the messages that are dead letters or about to be.
DlqLogAgrees(id) ==
    /\ dlq_wal[id] # None => \/ dlq[id] # None \/ HandAt("take_wal", id) # {}
                             \/ HandAt("dlq_insert", id) # {} \/ id \in stranded
    /\ \/ dlq[id] # None \/ HandAt("take_wal", id) # {} \/ HandAt("dlq_insert", id) # {}
       => dlq_wal[id] # None

\* The messages with no home.  A refused one has none until a restart finds its
\* record in the log.
Gone(id) == \/ Over(id)
            \/ fate[id] = "unused"
            \/ fate[id] = "failed" /\ epoch = 0

FateAgrees(id) ==
    /\ Gone(id) =>
         /\ AtPending(id) = {} /\ AtDelayed(id) = {} /\ leased[id] = None /\ dlq[id] = None
         /\ Holders(id) = {} /\ dlq_wal[id] = None
    /\ fate[id] = "unused" => HandAt("dead_lettered", id) = {} /\ id \notin stranded
    /\ HandAt("purge_release", id) # {} => fate[id] \in {"done", "purged"}

HomeOf(id) == Sole(id) /\ LogAgrees(id) /\ DlqLogAgrees(id) /\ FateAgrees(id)

\* The messages that can have more than one home: those whose dead-lettering was
\* cut, once a restart has rebuilt them from both logs, and those of which a
\* restart has cut off a record behind a torn frame.
Cut == IF epoch = 0 THEN {} ELSE torn

HomeInv == TypeOK /\ Keyed /\ TearKeyed /\ \A id \in Ids \ Cut : HomeOf(id)

-----------------------------------------------------------------------------
(* What one step of one call does to the hands that hold a message          *)

\* What one call has of the message, by role.
BatchHas(c, id) == \E e \in c.batch : e.id = id
HandHas(c, pc, id) == c.pc = pc /\ c.entry.id = id
AckHas(c, id) == c.pc = "ack_wal" /\ c.grant.id = id

\* Two states of a call between which it neither takes the message up nor
\* lets it go.
SameRoles(c, d, id) ==
    /\ BatchHas(c, id) <=> BatchHas(d, id)
    /\ AckHas(c, id) <=> AckHas(d, id)
    /\ \A pc \in HomeSteps : HandHas(c, pc, id) <=> HandHas(d, pc, id)

\* A step of call t changes the sets of holders in t alone.
LEMMA RolesAfter ==
    ASSUME call \in [Tasks -> Call], NEW t \in Tasks, NEW c,
           call' = [call EXCEPT ![t] = c], NEW id
    PROVE  /\ InBatch(id)' = (InBatch(id) \ {t}) \cup (IF BatchHas(c, id) THEN {t} ELSE {})
           /\ Acking(id)' = (Acking(id) \ {t}) \cup (IF AckHas(c, id) THEN {t} ELSE {})
           /\ \A pc : HandAt(pc, id)' = (HandAt(pc, id) \ {t})
                                        \cup (IF HandHas(c, pc, id) THEN {t} ELSE {})
<1>1. call'[t] = c /\ \A u \in Tasks \ {t} : call'[u] = call[u]
  OBVIOUS
<1>2. InBatch(id)' = (InBatch(id) \ {t}) \cup (IF BatchHas(c, id) THEN {t} ELSE {})
  BY <1>1 DEF InBatch, BatchHas
<1>3. Acking(id)' = (Acking(id) \ {t}) \cup (IF AckHas(c, id) THEN {t} ELSE {})
  BY <1>1 DEF Acking, AckHas
<1>4. ASSUME NEW pc
      PROVE  HandAt(pc, id)' = (HandAt(pc, id) \ {t})
                                 \cup (IF HandHas(c, pc, id) THEN {t} ELSE {})
  BY <1>1 DEF HandAt, HandHas
<1> QED BY <1>2, <1>3, <1>4

\* A step in which call t keeps what it has of the message changes none of them.
LEMMA SameHands ==
    ASSUME call \in [Tasks -> Call], NEW t \in Tasks, NEW c,
           call' = [call EXCEPT ![t] = c], NEW id, SameRoles(call[t], c, id)
    PROVE  /\ InBatch(id)' = InBatch(id)
           /\ Acking(id)' = Acking(id)
           /\ \A pc \in HomeSteps : HandAt(pc, id)' = HandAt(pc, id)
<1>1. InBatch(id)' = InBatch(id)
  BY RolesAfter DEF SameRoles, BatchHas, InBatch
<1>2. Acking(id)' = Acking(id)
  BY RolesAfter DEF SameRoles, AckHas, Acking
<1>3. ASSUME NEW pc \in HomeSteps PROVE HandAt(pc, id)' = HandAt(pc, id)
  BY RolesAfter DEF SameRoles, HandHas, HandAt
<1> QED BY <1>1, <1>2, <1>3

\* A step that neither starts nor ends at one of these two leaves them alone.
LEMMA AsideKept ==
    ASSUME call \in [Tasks -> Call], NEW t \in Tasks, NEW c,
           call' = [call EXCEPT ![t] = c], NEW id,
           call[t].pc \notin {"dead_lettered", "purge_release"},
           c.pc \notin {"dead_lettered", "purge_release"}
    PROVE  /\ HandAt("dead_lettered", id)' = HandAt("dead_lettered", id)
           /\ HandAt("purge_release", id)' = HandAt("purge_release", id)
BY RolesAfter DEF HandHas, HandAt

\* The locals of call t decide who holds the message.
HandsTold(c, t, id) ==
    /\ InBatch(id) = IF BatchHas(c, id) THEN {t} ELSE {}
    /\ Acking(id) = IF AckHas(c, id) THEN {t} ELSE {}
    /\ HandAt("enqueue_wal", id) = IF HandHas(c, "enqueue_wal", id) THEN {t} ELSE {}
    /\ HandAt("enqueue_push", id) = IF HandHas(c, "enqueue_push", id) THEN {t} ELSE {}
    /\ HandAt("take_wal", id) = IF HandHas(c, "take_wal", id) THEN {t} ELSE {}
    /\ HandAt("dlq_insert", id) = IF HandHas(c, "dlq_insert", id) THEN {t} ELSE {}

\* They do when no other call has it, before t's step and after.
LEMMA OnlyHand ==
    ASSUME NEW t \in Tasks, NEW id, Holders(id) \subseteq {t}
    PROVE  HandsTold(call[t], t, id)
<1>1. InBatch(id) \subseteq {t} /\ Acking(id) \subseteq {t}
  BY DEF Holders
<1>2. \A pc \in {"enqueue_wal", "enqueue_push", "take_wal", "dlq_insert"} :
         HandAt(pc, id) \subseteq {t}
  BY DEF Holders
<1>3. InBatch(id) = IF BatchHas(call[t], id) THEN {t} ELSE {}
  BY <1>1 DEF BatchHas, InBatch
<1>4. Acking(id) = IF AckHas(call[t], id) THEN {t} ELSE {}
  BY <1>1 DEF AckHas, Acking
<1>5. ASSUME NEW pc \in {"enqueue_wal", "enqueue_push", "take_wal", "dlq_insert"}
      PROVE  HandAt(pc, id) = IF HandHas(call[t], pc, id) THEN {t} ELSE {}
  BY <1>2 DEF HandHas, HandAt
<1> QED BY <1>3, <1>4, <1>5 DEF HandsTold

LEMMA OnlyHandAfter ==
    ASSUME call \in [Tasks -> Call], NEW t \in Tasks, NEW c,
           call' = [call EXCEPT ![t] = c], NEW id, Holders(id) \subseteq {t}
    PROVE  HandsTold(c, t, id)'
<1>1. InBatch(id) \subseteq {t} /\ Acking(id) \subseteq {t}
  BY DEF Holders
<1>2. \A pc \in {"enqueue_wal", "enqueue_push", "take_wal", "dlq_insert"} :
         HandAt(pc, id) \subseteq {t}
  BY DEF Holders
<1>3. /\ InBatch(id)' = (InBatch(id) \ {t}) \cup (IF BatchHas(c, id) THEN {t} ELSE {})
      /\ Acking(id)' = (Acking(id) \ {t}) \cup (IF AckHas(c, id) THEN {t} ELSE {})
      /\ \A pc : HandAt(pc, id)' = (HandAt(pc, id) \ {t})
                                     \cup (IF HandHas(c, pc, id) THEN {t} ELSE {})
  BY RolesAfter, ZenonT(40)
<1>4. \A S, x : S \subseteq {t} => (S \ {t}) \cup x = x
  OBVIOUS
<1>5. \A pc \in {"enqueue_wal", "enqueue_push", "take_wal", "dlq_insert"} :
        HandAt(pc, id)' = IF HandHas(c, pc, id) THEN {t} ELSE {}
  BY <1>2, <1>3, <1>4
<1> QED BY <1>1, <1>3, <1>4, <1>5 DEF HandsTold, BatchHas, AckHas, HandHas

\* A message in a call's hands is nowhere else.
LEMMA HeldAlone ==
    ASSUME NEW id, Sole(id), NEW t \in Holders(id)
    PROVE  /\ Holders(id) \subseteq {t}
           /\ AtPending(id) = {} /\ AtDelayed(id) = {}
           /\ leased[id] = None /\ dlq[id] = None /\ id \notin stranded
BY DEF Sole

\* A message that nothing touches keeps its home.
LEMMA HomeKept ==
    ASSUME NEW id, HomeOf(id),
           AtPending(id)' = AtPending(id), AtDelayed(id)' = AtDelayed(id),
           (leased[id])' = None <=> leased[id] = None, (dlq[id])' = None <=> dlq[id] = None,
           (dlq_wal[id])' = None <=> dlq_wal[id] = None,
           InBatch(id)' = InBatch(id), Acking(id)' = Acking(id),
           \A pc \in HomeSteps : HandAt(pc, id)' = HandAt(pc, id),
           id \in stranded' <=> id \in stranded, (fate[id])' = fate[id],
           Cardinality(InLog(id))' = Cardinality(InLog(id)),
           torn \subseteq torn', epoch' = epoch
    PROVE  HomeOf(id)'
<1>1. /\ HandAt("enqueue_wal", id)' = HandAt("enqueue_wal", id)
      /\ HandAt("enqueue_push", id)' = HandAt("enqueue_push", id)
      /\ HandAt("take_wal", id)' = HandAt("take_wal", id)
      /\ HandAt("dlq_insert", id)' = HandAt("dlq_insert", id)
      /\ HandAt("dead_lettered", id)' = HandAt("dead_lettered", id)
      /\ HandAt("purge_release", id)' = HandAt("purge_release", id)
  BY DEF HomeSteps
<1>2. Holders(id)' = Holders(id)
  BY <1>1 DEF Holders
<1>3. Sole(id)'
  BY <1>2 DEF HomeOf, Sole
<1>4. Over(id)' = Over(id) /\ Gone(id)' = Gone(id)
  BY DEF Over, Gone
<1>5. Logged(id)' = Logged(id)
  BY <1>1, <1>4 DEF Logged
<1>6. LogAgrees(id)'
  BY <1>1, <1>5 DEF HomeOf, LogAgrees
<1>7. DlqLogAgrees(id)'
  BY <1>1 DEF HomeOf, DlqLogAgrees
<1>8. FateAgrees(id)'
  BY <1>1, <1>2, <1>4 DEF HomeOf, FateAgrees
<1> QED BY <1>3, <1>6, <1>7, <1>8 DEF HomeOf

LEMMA HomeUntouched ==
    ASSUME call \in [Tasks -> Call], NEW t \in Tasks, NEW c,
           call' = [call EXCEPT ![t] = c], NEW id, HomeOf(id), SameRoles(call[t], c, id),
           AtPending(id)' = AtPending(id), AtDelayed(id)' = AtDelayed(id),
           (leased[id])' = None <=> leased[id] = None, (dlq[id])' = None <=> dlq[id] = None,
           (dlq_wal[id])' = None <=> dlq_wal[id] = None,
           id \in stranded' <=> id \in stranded, (fate[id])' = fate[id],
           Cardinality(InLog(id))' = Cardinality(InLog(id)),
           torn \subseteq torn', epoch' = epoch
    PROVE  HomeOf(id)'
<1>1. /\ InBatch(id)' = InBatch(id) /\ Acking(id)' = Acking(id)
      /\ \A pc \in HomeSteps : HandAt(pc, id)' = HandAt(pc, id)
  BY SameHands
<1> QED BY <1>1, HomeKept

\* A step after which the maps still hold messages under their own ids and the
\* one call that moved still has no message twice.
LEMMA KeyedAfter ==
    ASSUME HomeInv, NEW t \in Tasks, NEW c, call' = [call EXCEPT ![t] = c], KeyedCall(c),
           \A id \in Ids : /\ leased'[id] # None => leased'[id].entry.id = id
                           /\ dlq'[id] # None => dlq'[id].entry.id = id
                           /\ dlq_wal'[id] # None => dlq_wal'[id].entry.id = id
    PROVE  Keyed'
<1>1. \A u \in Tasks : KeyedCall(call[u]) /\ call \in [Tasks -> Call]
  BY DEF HomeInv, TypeOK, Keyed
<1>2. ASSUME NEW u \in Tasks PROVE KeyedCall(call'[u])
  BY <1>1
<1>3. ASSUME NEW u \in Tasks PROVE KeyedCall(call[u])'
  BY <1>2 DEF KeyedCall
<1> QED BY <1>3 DEF Keyed

\* A step of call t in which it neither takes up nor lets go of a message and no
\* queue, map or log gains or loses one.
QuietStep(t) ==
    \E c :
      /\ call' = [call EXCEPT ![t] = c]
      /\ c.batch = {} /\ call[t].batch = {}
      /\ c.op # "claim" \/ c.pc = "idle"
      /\ c.pc \notin HomeSteps \cup {"ack_wal"} /\ call[t].pc \notin HomeSteps \cup {"ack_wal"}
      /\ UNCHANGED <<pending, delayed, wal_pending, stranded, torn, fate, epoch>>
      /\ \A id \in Ids : /\ leased'[id] = None <=> leased[id] = None
                         /\ dlq'[id] = None <=> dlq[id] = None
                         /\ dlq_wal'[id] = None <=> dlq_wal[id] = None
                         /\ leased'[id] # None => leased'[id].entry.id = id
                         /\ dlq'[id] # None => dlq'[id].entry.id = id
                         /\ dlq_wal'[id] # None => dlq_wal'[id].entry.id = id

LEMMA QuietHome ==
    ASSUME HomeInv, TypeOK', TearKeyed', NEW t \in Tasks, QuietStep(t)
    PROVE  HomeInv'
<1>1. PICK c :
        /\ call' = [call EXCEPT ![t] = c]
        /\ c.batch = {} /\ call[t].batch = {}
        /\ c.op # "claim" \/ c.pc = "idle"
        /\ c.pc \notin HomeSteps \cup {"ack_wal"} /\ call[t].pc \notin HomeSteps \cup {"ack_wal"}
        /\ UNCHANGED <<pending, delayed, wal_pending, stranded, torn, fate, epoch>>
        /\ \A id \in Ids : /\ leased'[id] = None <=> leased[id] = None
                           /\ dlq'[id] = None <=> dlq[id] = None
                           /\ dlq_wal'[id] = None <=> dlq_wal[id] = None
                           /\ leased'[id] # None => leased'[id].entry.id = id
                           /\ dlq'[id] # None => dlq'[id].entry.id = id
                           /\ dlq_wal'[id] # None => dlq_wal'[id].entry.id = id
  BY DEF QuietStep
<1>2. Keyed'
  <2>1. KeyedCall(c)
    BY <1>1 DEF KeyedCall, HomeSteps
  <2> QED BY <1>1, <2>1, KeyedAfter
<1>3. ASSUME NEW id \in Ids \ Cut' PROVE HomeOf(id)'
  <2>1. HomeOf(id) /\ call \in [Tasks -> Call]
    BY <1>1 DEF HomeInv, Cut, TypeOK
  <2>2. SameRoles(call[t], c, id)
    BY <1>1 DEF SameRoles, BatchHas, AckHas, HandHas
  <2>3. /\ AtPending(id)' = AtPending(id) /\ AtDelayed(id)' = AtDelayed(id)
        /\ Cardinality(InLog(id))' = Cardinality(InLog(id))
    BY <1>1 DEF AtPending, AtDelayed, InLog
  <2> QED BY <1>1, <2>1, <2>2, <2>3, HomeUntouched
<1> QED BY <1>2, <1>3 DEF HomeInv

\* A step of no call.
LEMMA StillHome ==
    ASSUME HomeInv, TypeOK', TearKeyed',
           UNCHANGED <<pending, call, dlq, dlq_wal, wal_pending, stranded, torn, fate, epoch>>,
           \A id \in Ids : /\ leased'[id] = None <=> leased[id] = None
                           /\ leased'[id] # None => leased'[id].entry.id = id
                           /\ AtDelayed(id)' = AtDelayed(id)
    PROVE  HomeInv'
<1>1. Keyed'
  BY DEF HomeInv, Keyed, KeyedCall
<1>2. ASSUME NEW id \in Ids \ Cut' PROVE HomeOf(id)'
  <2>1. HomeOf(id)
    BY DEF HomeInv, Cut
  <2>2. /\ AtPending(id)' = AtPending(id) /\ InBatch(id)' = InBatch(id)
        /\ Acking(id)' = Acking(id) /\ \A pc \in HomeSteps : HandAt(pc, id)' = HandAt(pc, id)
        /\ Cardinality(InLog(id))' = Cardinality(InLog(id))
    BY DEF AtPending, InBatch, Acking, HandAt, InLog
  <2> QED BY <2>1, <2>2, HomeKept
<1> QED BY <1>1, <1>2 DEF HomeInv

-----------------------------------------------------------------------------
(* What one record does to the messages in the main WAL                     *)

LEMMA LogWhere ==
    ASSUME wal_pending \in Seq(WalEnqueue), NEW id
    PROVE  /\ InLog(id) = Where(wal_pending, {w \in WalEnqueue : w.id = id})
           /\ IsFiniteSet(InLog(id)) /\ Cardinality(InLog(id)) \in Nat
<1>1. InLog(id) = Where(wal_pending, {w \in WalEnqueue : w.id = id})
  BY DEF InLog, Where
<1> QED BY <1>1, WhereFinite

\* An Enqueue record.
LEMMA LogGrows ==
    ASSUME wal_pending \in Seq(WalEnqueue), NEW e \in Entry, ApplyEnqueue(e), NEW id
    PROVE  /\ wal_pending' \in Seq(WalEnqueue)
           /\ Cardinality(InLog(id))' = IF e.id = id THEN Cardinality(InLog(id)) + 1
                                                     ELSE Cardinality(InLog(id))
<1> DEFINE w == [id |-> e.id, key |-> e.key]
           T == {x \in WalEnqueue : x.id = id}
<1>1. w \in WalEnqueue /\ w.id = e.id /\ wal_pending' = Append(wal_pending, w)
  BY DEF ApplyEnqueue, Entry, WalEnqueue
<1>2. w \in T <=> e.id = id
  BY <1>1
<1> HIDE DEF w
<1>3. wal_pending' \in Seq(WalEnqueue)
  BY <1>1
<1>4. InLog(id)' = Where(Append(wal_pending, w), T)
  BY <1>1, <1>3 DEF InLog, Where
<1>5. InLog(id) = Where(wal_pending, T)
  BY LogWhere
<1> HIDE DEF T
<1>6. Cardinality(Where(Append(wal_pending, w), T)) =
        IF w \in T THEN Cardinality(Where(wal_pending, T)) + 1
                   ELSE Cardinality(Where(wal_pending, T))
  BY <1>1, WhereAppend
<1> QED BY <1>2, <1>3, <1>4, <1>5, <1>6

\* An Ack or a DeadLettered record.
LEMMA LogShrinks ==
    ASSUME wal_pending \in Seq(WalEnqueue), NEW m, ApplyAck(m) \/ ApplyDeadLettered(m), NEW id
    PROVE  /\ wal_pending' \in Seq(WalEnqueue)
           /\ Cardinality(InLog(id))' = IF m = id /\ InLog(m) # {}
                                        THEN Cardinality(InLog(id)) - 1
                                        ELSE Cardinality(InLog(id))
<1> DEFINE T == {x \in WalEnqueue : x.id = id}
<1>1. CASE InLog(m) = {}
  <2>1. wal_pending' = wal_pending
    BY <1>1 DEF InLog, ApplyAck, ApplyDeadLettered, IsPosition
  <2> QED BY <1>1, <2>1 DEF InLog
<1>2. CASE InLog(m) # {}
  <2>1. PICK i \in DOMAIN wal_pending :
          wal_pending[i].id = m /\ wal_pending' = RemoveAt(wal_pending, i)
    BY <1>2 DEF InLog, ApplyAck, ApplyDeadLettered, IsPosition
  <2>2. wal_pending' \in Seq(WalEnqueue)
    BY <2>1, RemoveAtType
  <2>3. wal_pending[i] \in T <=> m = id
    BY <2>1
  <2>4. InLog(id)' = Where(RemoveAt(wal_pending, i), T)
    BY <2>1, <2>2 DEF InLog, Where
  <2>5. InLog(id) = Where(wal_pending, T)
    BY LogWhere
  <2> HIDE DEF T
  <2>6. Cardinality(Where(RemoveAt(wal_pending, i), T)) =
          IF wal_pending[i] \in T THEN Cardinality(Where(wal_pending, T)) - 1
                                  ELSE Cardinality(Where(wal_pending, T))
    BY WhereRemoveAt
  <2> QED BY <1>2, <2>2, <2>3, <2>4, <2>5, <2>6
<1> QED BY <1>1, <1>2

\* A message that has its Enqueue record, or a DeadLettered record to come, is
\* in the log.
LEMMA LogHas ==
    ASSUME wal_pending \in Seq(WalEnqueue), NEW id, LogAgrees(id), id \notin torn,
           Logged(id) \/ HandAt("dead_lettered", id) # {}
    PROVE  InLog(id) # {}
<1> DEFINE D == HandAt("dead_lettered", id)
<1>1. IsFiniteSet(D) /\ Cardinality(D) \in Nat /\ (D # {} => Cardinality(D) # 0)
  BY FS_CardinalityType, FS_EmptySet DEF LogAgrees
<1>2. Cardinality(InLog(id)) = Cardinality(D) + IF Logged(id) THEN 1 ELSE 0
  BY DEF LogAgrees
<1> HIDE DEF D
<1>3. Cardinality(InLog(id)) # 0
  BY <1>1, <1>2 DEF D
<1> QED BY <1>3, FS_EmptySet

\* A message pushed at the back of a queue.
LEMMA QueueGrows ==
    ASSUME TypeOK, NEW id
    PROVE  /\ \A e \in Entry : pending' = Append(pending, e) =>
                AtPending(id)' = IF e.id = id THEN AtPending(id) \cup {Len(pending) + 1}
                                              ELSE AtPending(id)
           /\ \A d \in Delayed : delayed' = Append(delayed, d) =>
                AtDelayed(id)' = IF d.entry.id = id THEN AtDelayed(id) \cup {Len(delayed) + 1}
                                                    ELSE AtDelayed(id)
<1>1. ASSUME NEW S, NEW s \in Seq(S), NEW x \in S
      PROVE  /\ DOMAIN Append(s, x) = DOMAIN s \cup {Len(s) + 1}
             /\ Append(s, x)[Len(s) + 1] = x
             /\ \A i \in DOMAIN s : Append(s, x)[i] = s[i]
  OBVIOUS
<1>2. pending \in Seq(Entry) /\ delayed \in Seq(Delayed)
  BY DEF TypeOK
<1>3. ASSUME NEW e \in Entry, pending' = Append(pending, e)
      PROVE  AtPending(id)' = IF e.id = id THEN AtPending(id) \cup {Len(pending) + 1}
                                           ELSE AtPending(id)
  <2>1. /\ DOMAIN pending' = DOMAIN pending \cup {Len(pending) + 1}
        /\ pending'[Len(pending) + 1] = e
        /\ \A i \in DOMAIN pending : pending'[i] = pending[i]
    BY <1>1, <1>2, <1>3
  <2> QED BY <2>1 DEF AtPending
<1>4. ASSUME NEW d \in Delayed, delayed' = Append(delayed, d)
      PROVE  AtDelayed(id)' = IF d.entry.id = id THEN AtDelayed(id) \cup {Len(delayed) + 1}
                                                 ELSE AtDelayed(id)
  <2>1. /\ DOMAIN delayed' = DOMAIN delayed \cup {Len(delayed) + 1}
        /\ delayed'[Len(delayed) + 1] = d
        /\ \A i \in DOMAIN delayed : delayed'[i] = delayed[i]
    BY <1>1, <1>2, <1>4
  <2> QED BY <2>1 DEF AtDelayed
<1> QED BY <1>3, <1>4

-----------------------------------------------------------------------------
(* The steps of enqueue                                                     *)

\* A new message passes into the hands of its enqueue.
LEMMA EnqueueReserveHome ==
    ASSUME HomeInv, TypeOK', TearKeyed', NEW t \in Tasks, EnqueueReserve(t)
    PROVE  HomeInv'
<1> USE DEF vars, memVars, walVars, cpVars, auxVars
<1>1. PICK m \in Ids, key \in Keys \cup {None} :
        /\ fate[m] = "unused"
        /\ fate' = [fate EXCEPT ![m] = "inflight"]
        /\ call' = [call EXCEPT ![t] = [Idle EXCEPT !.op = "enqueue", !.pc = "enqueue_wal",
                                                    !.entry = NewEntry(m, key)]]
  BY DEF EnqueueReserve
<1>2. PICK c :
        /\ fate[m] = "unused"
        /\ fate' = [fate EXCEPT ![m] = "inflight"]
        /\ c = [Idle EXCEPT !.op = "enqueue", !.pc = "enqueue_wal", !.entry = NewEntry(m, key)]
        /\ call' = [call EXCEPT ![t] = c]
  BY <1>1
<1>3. /\ call \in [Tasks -> Call] /\ fate \in [Ids -> Fates]
      /\ UNCHANGED <<pending, leased, delayed, dlq, dlq_wal, wal_pending, stranded, torn, epoch>>
      /\ call[t].pc = "idle" /\ call[t].batch = {}
  BY DEF EnqueueReserve, Starts, HomeInv, Keyed, KeyedCall, TypeOK
<1>4. c.op = "enqueue" /\ c.pc = "enqueue_wal" /\ c.entry.id = m /\ c.batch = {}
  BY <1>2 DEF Idle, NewEntry
<1>5. Keyed'
  <2>1. KeyedCall(c)
    BY <1>4 DEF KeyedCall
  <2> QED BY <1>2, <1>3, <2>1, KeyedAfter DEF HomeInv, Keyed
<1>6. ASSUME NEW id \in Ids \ Cut' PROVE HomeOf(id)'
  <2>1. HomeOf(id)
    BY <1>3 DEF HomeInv, Cut
  <2>2. /\ AtPending(id)' = AtPending(id) /\ AtDelayed(id)' = AtDelayed(id)
        /\ Cardinality(InLog(id))' = Cardinality(InLog(id))
    BY <1>3 DEF AtPending, AtDelayed, InLog
  <2>3. CASE id # m
    <3>1. SameRoles(call[t], c, id)
      BY <1>3, <1>4, <2>3 DEF SameRoles, BatchHas, AckHas, HandHas, HomeSteps
    <3>2. (fate[id])' = fate[id]
      BY <1>2, <1>3, <2>3
    <3> QED BY <1>2, <1>3, <2>1, <2>2, <3>1, <3>2, HomeUntouched
  <2>4. CASE id = m
    <3>1. Holders(id) = {} /\ Holders(id) \subseteq {t}
      BY <1>2, <2>1, <2>4 DEF HomeOf, FateAgrees, Gone
    <3>2. HandsTold(c, t, id)'
      BY <1>2, <1>3, <3>1, OnlyHandAfter
    <3>3. /\ HandAt("dead_lettered", id)' = HandAt("dead_lettered", id)
          /\ HandAt("purge_release", id)' = HandAt("purge_release", id)
      BY <1>2, <1>3, <1>4, AsideKept, ZenonT(40)
    <3>4. (fate[id])' = "inflight" /\ fate[id] = "unused"
      BY <1>2, <1>3, <2>4
    <3>5. ~BatchHas(c, id) /\ ~AckHas(c, id) /\ c.pc = "enqueue_wal" /\ c.entry.id = id
      BY <1>4, <2>4 DEF BatchHas, AckHas
    <3> QED BY <1>3, <2>1, <2>2, <3>1, <3>2, <3>3, <3>4, <3>5
            DEF HomeOf, Sole, LogAgrees, Logged, DlqLogAgrees, FateAgrees, Gone, Over, Holders,
                HandsTold, HandHas
  <2> QED BY <2>3, <2>4
<1> QED BY <1>5, <1>6 DEF HomeInv

\* The Enqueue record: the message stays in the call's hands, or the append
\* fails and the process drops it, with its record in the log or without.
LEMMA WriteEnqueueHome ==
    ASSUME HomeInv, TypeOK', TearKeyed', NEW t \in Tasks, WriteEnqueueRecord(t)
    PROVE  HomeInv'
<1> USE DEF vars, memVars, walVars, cpVars, auxVars
<1> DEFINE m == call[t].entry.id
<1>1. PICK r \in AppendResult :
        /\ IF r.durable THEN ApplyEnqueue(call[t].entry) ELSE UNCHANGED wal_pending
        /\ Goto(t, IF r.ok THEN "enqueue_push" ELSE "enqueue_undo")
        /\ fate' = [fate EXCEPT ![m] = IF r.ok THEN @
                                       ELSE IF call[t].op = "enqueue" THEN "failed"
                                       ELSE IF r.durable THEN @ ELSE "dropped"]
        /\ stranded' = IF r.durable /\ ~r.ok THEN stranded \cup {m} ELSE stranded
  BY DEF WriteEnqueueRecord
<1>2. PICK c :
        /\ IF r.durable THEN ApplyEnqueue(call[t].entry) ELSE UNCHANGED wal_pending
        /\ c = [call[t] EXCEPT !.pc = IF r.ok THEN "enqueue_push" ELSE "enqueue_undo"]
        /\ call' = [call EXCEPT ![t] = c]
        /\ fate' = [fate EXCEPT ![m] = IF r.ok THEN @
                                       ELSE IF call[t].op = "enqueue" THEN "failed"
                                       ELSE IF r.durable THEN @ ELSE "dropped"]
        /\ stranded' = IF r.durable /\ ~r.ok THEN stranded \cup {m} ELSE stranded
  BY <1>1 DEF Goto
<1>3. /\ call \in [Tasks -> Call] /\ fate \in [Ids -> Fates]
      /\ wal_pending \in Seq(WalEnqueue)
      /\ UNCHANGED <<pending, leased, delayed, dlq, dlq_wal, torn, epoch>>
      /\ call[t].pc = "enqueue_wal" /\ call[t].batch = {} /\ call[t].op # "claim"
  BY DEF WriteEnqueueRecord, At, HomeInv, Keyed, KeyedCall, TypeOK
<1>4. call[t].entry \in Entry /\ m \in Ids
  BY <1>3, CallType DEF HomeInv, EntrySteps, Entry
<1>5. /\ c.pc = IF r.ok THEN "enqueue_push" ELSE "enqueue_undo"
      /\ c.entry.id = m /\ c.batch = {} /\ c.op = call[t].op
  BY <1>2, <1>3 DEF Call, Locals
<1>6. Keyed'
  <2>1. KeyedCall(c)
    BY <1>3, <1>5 DEF KeyedCall
  <2> QED BY <1>2, <1>3, <2>1, KeyedAfter DEF HomeInv, Keyed
<1>7. ASSUME NEW id
      PROVE  Cardinality(InLog(id))' = IF r.durable /\ id = m THEN Cardinality(InLog(id)) + 1
                                                              ELSE Cardinality(InLog(id))
  <2>1. CASE r.durable
    BY <1>2, <1>3, <1>4, <2>1, LogGrows
  <2>2. CASE ~r.durable
    BY <1>2, <2>2 DEF InLog
  <2> QED BY <2>1, <2>2
<1> HIDE DEF m
<1>8. ASSUME NEW id \in Ids \ Cut' PROVE HomeOf(id)'
  <2>1. HomeOf(id)
    BY <1>3 DEF HomeInv, Cut
  <2>2. AtPending(id)' = AtPending(id) /\ AtDelayed(id)' = AtDelayed(id)
    BY <1>3 DEF AtPending, AtDelayed
  <2>3. CASE id # m
    <3>1. SameRoles(call[t], c, id)
      BY <1>3, <1>5, <2>3 DEF SameRoles, BatchHas, AckHas, HandHas, HomeSteps, m
    <3>2. (fate[id])' = fate[id] /\ (id \in stranded' <=> id \in stranded)
      BY <1>2, <1>3, <2>3
    <3>3. Cardinality(InLog(id))' = Cardinality(InLog(id))
      BY <1>7, <2>3
    <3> QED BY <1>2, <1>3, <2>1, <2>2, <3>1, <3>2, <3>3, HomeUntouched
  <2>4. CASE id = m
    <3>1. t \in HandAt("enqueue_wal", id) /\ t \in Holders(id)
      BY <1>3, <2>4 DEF HandAt, Holders, m
    <3>2. /\ Holders(id) \subseteq {t} /\ AtPending(id) = {} /\ AtDelayed(id) = {}
          /\ leased[id] = None /\ dlq[id] = None /\ id \notin stranded
      BY <2>1, <3>1, HeldAlone DEF HomeOf
    <3>3. HandsTold(c, t, id)' /\ HandsTold(call[t], t, id)
      BY <1>2, <1>3, <3>2, OnlyHandAfter, OnlyHand
    <3>4. /\ HandAt("dead_lettered", id)' = HandAt("dead_lettered", id)
          /\ HandAt("purge_release", id)' = HandAt("purge_release", id)
      <4>1. c.pc \notin {"dead_lettered", "purge_release"}
        BY <1>5
      <4> QED BY <1>2, <1>3, <4>1, AsideKept
    <3>5. /\ ~BatchHas(c, id) /\ ~AckHas(c, id)
          /\ ~BatchHas(call[t], id) /\ ~AckHas(call[t], id)
      BY <1>3, <1>5 DEF BatchHas, AckHas
    <3>6. /\ (fate[id])' = IF r.ok THEN fate[id]
                           ELSE IF call[t].op = "enqueue" THEN "failed"
                           ELSE IF r.durable THEN fate[id] ELSE "dropped"
          /\ id \in stranded' <=> r.durable /\ ~r.ok
          /\ r.ok => r.durable
      BY <1>2, <1>3, <2>4, <3>2 DEF AppendResult
    <3>7. ~Gone(id) /\ ~Over(id) /\ dlq_wal[id] = None /\ ~Logged(id)
      BY <1>3, <2>1, <3>1, <3>2, <3>3, <3>5
      DEF HomeOf, FateAgrees, Gone, DlqLogAgrees, HandsTold, HandHas, Logged
    <3>8. Logged(id)' <=> r.durable
      BY <1>3, <1>5, <2>2, <2>4, <3>2, <3>3, <3>5, <3>6, <3>7
      DEF HandsTold, HandHas, Logged, Over
    <3>9. LogAgrees(id)'
      BY <1>3, <1>7, <2>1, <2>4, <3>4, <3>7, <3>8, FS_CardinalityType DEF HomeOf, LogAgrees
    <3>10. Sole(id)' /\ DlqLogAgrees(id)' /\ FateAgrees(id)'
      BY <1>3, <1>5, <2>1, <2>2, <2>4, <3>2, <3>3, <3>4, <3>5, <3>6, <3>7
      DEF HomeOf, Sole, DlqLogAgrees, FateAgrees, Gone, Over, Holders, HandsTold, HandHas
    <3> QED BY <3>9, <3>10 DEF HomeOf
  <2> QED BY <2>3, <2>4
<1> QED BY <1>6, <1>8 DEF HomeInv

\* The message becomes pending.
LEMMA PushPendingHome ==
    ASSUME HomeInv, TypeOK', TearKeyed', NEW t \in Tasks, PushPending(t)
    PROVE  HomeInv'
<1> USE DEF vars, memVars, walVars, cpVars, auxVars
<1> DEFINE m == call[t].entry.id
<1>1. /\ call' = [call EXCEPT ![t] = Idle]
      /\ pending' = Append(pending, call[t].entry)
      /\ fate' = [fate EXCEPT ![m] = IF @ = "inflight" THEN "accepted" ELSE @]
  BY DEF PushPending, Return
<1>2. /\ call \in [Tasks -> Call] /\ fate \in [Ids -> Fates] /\ pending \in Seq(Entry)
      /\ UNCHANGED <<leased, delayed, dlq, dlq_wal, wal_pending, stranded, torn, epoch>>
      /\ call[t].pc = "enqueue_push" /\ call[t].batch = {}
      /\ Idle.pc = "idle" /\ Idle.batch = {}
  BY DEF PushPending, At, HomeInv, Keyed, KeyedCall, TypeOK, Idle
<1>3. call[t].entry \in Entry /\ m \in Ids
  BY <1>2, CallType DEF HomeInv, EntrySteps, Entry
<1>4. Keyed'
  <2>1. KeyedCall(Idle)
    BY <1>2 DEF KeyedCall
  <2> QED BY <1>1, <1>2, <2>1, KeyedAfter DEF HomeInv, Keyed
<1>5. \A id : AtPending(id)' = IF m = id THEN AtPending(id) \cup {Len(pending) + 1}
                                         ELSE AtPending(id)
  BY <1>1, <1>3, QueueGrows DEF HomeInv
<1> HIDE DEF m
<1>6. ASSUME NEW id \in Ids \ Cut' PROVE HomeOf(id)'
  <2>1. HomeOf(id)
    BY <1>2 DEF HomeInv, Cut
  <2>2. AtDelayed(id)' = AtDelayed(id) /\ Cardinality(InLog(id))' = Cardinality(InLog(id))
    BY <1>2 DEF AtDelayed, InLog
  <2>3. CASE id # m
    <3>1. SameRoles(call[t], Idle, id)
      BY <1>2, <2>3 DEF SameRoles, BatchHas, AckHas, HandHas, HomeSteps, m
    <3>2. (fate[id])' = fate[id] /\ AtPending(id)' = AtPending(id)
      BY <1>1, <1>2, <1>5, <2>3
    <3> QED BY <1>1, <1>2, <2>1, <2>2, <3>1, <3>2, HomeUntouched
  <2>4. CASE id = m
    <3>1. t \in HandAt("enqueue_push", id) /\ t \in Holders(id)
      BY <1>2, <2>4 DEF HandAt, Holders, m
    <3>2. /\ Holders(id) \subseteq {t} /\ AtPending(id) = {} /\ AtDelayed(id) = {}
          /\ leased[id] = None /\ dlq[id] = None /\ id \notin stranded
      BY <2>1, <3>1, HeldAlone DEF HomeOf
    <3>3. HandsTold(Idle, t, id)' /\ HandsTold(call[t], t, id)
      BY <1>1, <1>2, <3>2, OnlyHandAfter, OnlyHand
    <3>4. /\ HandAt("dead_lettered", id)' = HandAt("dead_lettered", id)
          /\ HandAt("purge_release", id)' = HandAt("purge_release", id)
      BY <1>1, <1>2, AsideKept
    <3>5. /\ ~BatchHas(Idle, id) /\ ~AckHas(Idle, id)
          /\ ~BatchHas(call[t], id) /\ ~AckHas(call[t], id)
      BY <1>2 DEF BatchHas, AckHas
    <3>6. /\ (fate[id])' = IF fate[id] = "inflight" THEN "accepted" ELSE fate[id]
          /\ AtPending(id)' = {Len(pending) + 1}
      BY <1>1, <1>2, <1>5, <2>4, <3>2
    <3> QED BY <1>2, <2>1, <2>2, <2>4, <3>1, <3>2, <3>3, <3>4, <3>5, <3>6
            DEF HomeOf, Sole, LogAgrees, Logged, DlqLogAgrees, FateAgrees, Gone, Over, Holders,
                HandsTold, HandHas
  <2> QED BY <2>3, <2>4
<1> QED BY <1>4, <1>6 DEF HomeInv

-----------------------------------------------------------------------------
(* The steps of ack and nack                                                *)

\* The message an ack releases passes into that call's hands.
LEMMA AckReleaseHome ==
    ASSUME HomeInv, TypeOK', TearKeyed', NEW t \in Tasks, AckRelease(t)
    PROVE  HomeInv'
<1> USE DEF vars, memVars, walVars, cpVars, auxVars
<1>1. PICK g \in grants :
        /\ Holds(g)
        /\ leased' = [leased EXCEPT ![g.id] = None]
        /\ call' = [call EXCEPT ![t] = [Idle EXCEPT !.op = "ack", !.pc = "ack_wal",
                                                    !.grant = g]]
  BY DEF AckRelease
<1>2. PICK c :
        /\ Holds(g)
        /\ leased' = [leased EXCEPT ![g.id] = None]
        /\ c = [Idle EXCEPT !.op = "ack", !.pc = "ack_wal", !.grant = g]
        /\ call' = [call EXCEPT ![t] = c]
  BY <1>1
<1> DEFINE m == g.id
<1>3. /\ call \in [Tasks -> Call] /\ leased \in [Ids -> Lease \cup {None}]
      /\ m \in Ids /\ leased[m] # None
      /\ UNCHANGED <<pending, delayed, dlq, dlq_wal, wal_pending, stranded, torn,
                     fate, epoch>>
      /\ call[t].pc = "idle" /\ call[t].batch = {}
  BY <1>2 DEF AckRelease, Starts, HomeInv, Keyed, KeyedCall, TypeOK, Grant, Holds
<1>4. c.op = "ack" /\ c.pc = "ack_wal" /\ c.grant.id = m /\ c.batch = {}
  BY <1>2 DEF Idle
<1>5. \A id \in Ids : leased'[id] = IF id = m THEN None ELSE leased[id]
  BY <1>2, <1>3
<1> HIDE DEF m
<1>6. Keyed'
  <2>1. KeyedCall(c)
    BY <1>4 DEF KeyedCall
  <2> QED BY <1>2, <1>3, <1>5, <2>1, KeyedAfter DEF HomeInv, Keyed
<1>7. ASSUME NEW id \in Ids \ Cut' PROVE HomeOf(id)'
  <2>1. HomeOf(id)
    BY <1>3 DEF HomeInv, Cut
  <2>2. /\ AtPending(id)' = AtPending(id) /\ AtDelayed(id)' = AtDelayed(id)
        /\ Cardinality(InLog(id))' = Cardinality(InLog(id))
    BY <1>3 DEF AtPending, AtDelayed, InLog
  <2>3. CASE id # m
    <3>1. SameRoles(call[t], c, id)
      BY <1>3, <1>4, <2>3 DEF SameRoles, BatchHas, AckHas, HandHas, HomeSteps
    <3> QED BY <1>2, <1>3, <1>5, <2>1, <2>2, <2>3, <3>1, HomeUntouched
  <2>4. CASE id = m
    <3>1. Holders(id) = {} /\ Holders(id) \subseteq {t}
      BY <1>3, <2>1, <2>4 DEF HomeOf, Sole
    <3>2. HandsTold(c, t, id)'
      BY <1>2, <1>3, <3>1, OnlyHandAfter
    <3>3. /\ HandAt("dead_lettered", id)' = HandAt("dead_lettered", id)
          /\ HandAt("purge_release", id)' = HandAt("purge_release", id)
      BY <1>2, <1>3, <1>4, AsideKept
    <3>4. ~BatchHas(c, id) /\ AckHas(c, id)
      BY <1>4, <2>4 DEF BatchHas, AckHas
    <3> QED BY <1>3, <1>4, <1>5, <2>1, <2>2, <2>4, <3>1, <3>2, <3>3, <3>4
            DEF HomeOf, Sole, LogAgrees, Logged, DlqLogAgrees, FateAgrees, Gone, Over, Holders,
                HandsTold, HandHas
  <2> QED BY <2>3, <2>4
<1> QED BY <1>6, <1>7 DEF HomeInv

\* The Ack record: the message is done, or the append fails and the process
\* drops it with its Enqueue record still in the log.
LEMMA AckAppendHome ==
    ASSUME HomeInv, TypeOK', TearKeyed', NEW t \in Tasks, AckAppend(t)
    PROVE  HomeInv'
<1> USE DEF vars, memVars, walVars, cpVars, auxVars
<1> DEFINE m == call[t].grant.id
<1>1. PICK r \in AppendResult :
        /\ IF r.durable THEN ApplyAck(m) ELSE UNCHANGED wal_pending
        /\ fate' = [fate EXCEPT ![m] = IF r.durable THEN "done" ELSE @]
        /\ stranded' = IF r.durable THEN stranded ELSE stranded \cup {m}
  BY DEF AckAppend
<1>2. /\ call \in [Tasks -> Call] /\ fate \in [Ids -> Fates]
      /\ wal_pending \in Seq(WalEnqueue)
      /\ UNCHANGED <<pending, leased, delayed, dlq, dlq_wal, torn, epoch>>
      /\ call[t].pc = "ack_wal" /\ call[t].batch = {}
      /\ call' = [call EXCEPT ![t] = Idle] /\ Idle.pc = "idle" /\ Idle.batch = {}
  BY DEF AckAppend, At, Return, HomeInv, Keyed, KeyedCall, TypeOK, Idle
<1>3. m \in Ids
  BY <1>2, CallType DEF HomeInv, GrantSteps, Grant
<1>4. Keyed'
  <2>1. KeyedCall(Idle)
    BY <1>2 DEF KeyedCall
  <2> QED BY <1>2, <2>1, KeyedAfter DEF HomeInv, Keyed
<1> HIDE DEF m
<1>5. ASSUME NEW id
      PROVE  Cardinality(InLog(id))' = IF r.durable /\ m = id /\ InLog(m) # {}
                                       THEN Cardinality(InLog(id)) - 1
                                       ELSE Cardinality(InLog(id))
  <2>1. CASE r.durable
    BY <1>1, <1>2, <2>1, LogShrinks
  <2>2. CASE ~r.durable
    BY <1>1, <2>2 DEF InLog
  <2> QED BY <2>1, <2>2
<1>6. ASSUME NEW id \in Ids \ Cut' PROVE HomeOf(id)'
  <2>1. HomeOf(id)
    BY <1>2 DEF HomeInv, Cut
  <2>2. AtPending(id)' = AtPending(id) /\ AtDelayed(id)' = AtDelayed(id)
    BY <1>2 DEF AtPending, AtDelayed
  <2>3. CASE id # m
    <3>1. SameRoles(call[t], Idle, id)
      BY <1>2, <2>3 DEF SameRoles, BatchHas, AckHas, HandHas, HomeSteps, m
    <3>2. (fate[id])' = fate[id] /\ (id \in stranded' <=> id \in stranded)
      BY <1>1, <1>2, <2>3
    <3>3. Cardinality(InLog(id))' = Cardinality(InLog(id))
      BY <1>5, <2>3
    <3> QED BY <1>2, <2>1, <2>2, <3>1, <3>2, <3>3, HomeUntouched
  <2>4. CASE id = m
    <3>1. t \in Acking(id) /\ t \in Holders(id)
      BY <1>2, <2>4 DEF Acking, Holders, m
    <3>2. /\ Holders(id) \subseteq {t} /\ AtPending(id) = {} /\ AtDelayed(id) = {}
          /\ leased[id] = None /\ dlq[id] = None /\ id \notin stranded
      BY <2>1, <3>1, HeldAlone DEF HomeOf
    <3>3. HandsTold(Idle, t, id)' /\ HandsTold(call[t], t, id)
      BY <1>2, <3>2, OnlyHandAfter, OnlyHand
    <3>4. /\ HandAt("dead_lettered", id)' = HandAt("dead_lettered", id)
          /\ HandAt("purge_release", id)' = HandAt("purge_release", id)
      BY <1>2, AsideKept
    <3>5. ~BatchHas(Idle, id) /\ ~AckHas(Idle, id) /\ ~BatchHas(call[t], id)
      BY <1>2 DEF BatchHas, AckHas
    <3>6. /\ (fate[id])' = IF r.durable THEN "done" ELSE fate[id]
          /\ id \in stranded' <=> ~r.durable
      BY <1>1, <1>2, <2>4, <3>2
    <3>7. ~Gone(id) /\ ~Over(id) /\ dlq_wal[id] = None /\ Logged(id)
      BY <1>2, <2>1, <3>1, <3>2, <3>3, <3>5
      DEF HomeOf, FateAgrees, Gone, DlqLogAgrees, HandsTold, HandHas, Logged
    <3>8. Logged(id)' <=> ~r.durable
      BY <1>2, <2>2, <3>2, <3>3, <3>5, <3>6, <3>7 DEF HandsTold, HandHas, Logged, Over
    <3>9. LogAgrees(id)'
      <4>1. id \notin torn => InLog(id) # {}
        BY <1>2, <2>1, <3>7, LogHas DEF HomeOf
      <4> QED BY <1>2, <1>5, <2>1, <2>4, <3>4, <3>7, <3>8, <4>1, FS_CardinalityType
              DEF HomeOf, LogAgrees
    <3>10. Sole(id)' /\ DlqLogAgrees(id)' /\ FateAgrees(id)'
      BY <1>2, <2>1, <2>2, <3>2, <3>3, <3>4, <3>5, <3>6, <3>7
      DEF HomeOf, Sole, DlqLogAgrees, FateAgrees, Gone, Over, Holders, HandsTold, HandHas
    <3> QED BY <3>9, <3>10 DEF HomeOf
  <2> QED BY <2>3, <2>4
<1> QED BY <1>4, <1>6 DEF HomeInv

\* The message a nack releases passes into that call's batch.
LEMMA NackReleaseHome ==
    ASSUME HomeInv, TypeOK', TearKeyed', NEW t \in Tasks, NackRelease(t)
    PROVE  HomeInv'
<1> USE DEF vars, memVars, walVars, cpVars, auxVars
<1>1. PICK g \in grants :
        /\ Holds(g)
        /\ leased' = [leased EXCEPT ![g.id] = None]
        /\ call' = [call EXCEPT ![t] = [Idle EXCEPT !.op = "nack", !.pc = "resolve",
                                                    !.grant = g,
                                                    !.batch = {leased[g.id].entry}]]
  BY DEF NackRelease
<1>2. PICK c :
        /\ Holds(g)
        /\ leased' = [leased EXCEPT ![g.id] = None]
        /\ c = [Idle EXCEPT !.op = "nack", !.pc = "resolve", !.grant = g,
                            !.batch = {leased[g.id].entry}]
        /\ call' = [call EXCEPT ![t] = c]
  BY <1>1
<1> DEFINE m == g.id
<1>3. /\ call \in [Tasks -> Call] /\ leased \in [Ids -> Lease \cup {None}]
      /\ m \in Ids /\ leased[m] # None /\ leased[m].entry.id = m
      /\ UNCHANGED <<pending, delayed, dlq, dlq_wal, wal_pending, stranded, torn,
                     fate, epoch>>
      /\ call[t].pc = "idle" /\ call[t].batch = {}
  BY <1>2 DEF NackRelease, Starts, HomeInv, Keyed, KeyedCall, TypeOK, Grant, Holds
<1>4. c.pc = "resolve" /\ c.batch = {leased[m].entry}
  BY <1>2 DEF Idle
<1>5. \A id \in Ids : leased'[id] = IF id = m THEN None ELSE leased[id]
  BY <1>2, <1>3
<1> HIDE DEF m
<1>6. Keyed'
  <2>1. KeyedCall(c)
    BY <1>4 DEF KeyedCall
  <2> QED BY <1>2, <1>3, <1>5, <2>1, KeyedAfter DEF HomeInv, Keyed
<1>7. ASSUME NEW id \in Ids \ Cut' PROVE HomeOf(id)'
  <2>1. HomeOf(id)
    BY <1>3 DEF HomeInv, Cut
  <2>2. /\ AtPending(id)' = AtPending(id) /\ AtDelayed(id)' = AtDelayed(id)
        /\ Cardinality(InLog(id))' = Cardinality(InLog(id))
    BY <1>3 DEF AtPending, AtDelayed, InLog
  <2>3. CASE id # m
    <3>1. SameRoles(call[t], c, id)
      BY <1>3, <1>4, <2>3 DEF SameRoles, BatchHas, AckHas, HandHas, HomeSteps
    <3> QED BY <1>2, <1>3, <1>5, <2>1, <2>2, <2>3, <3>1, HomeUntouched
  <2>4. CASE id = m
    <3>1. Holders(id) = {} /\ Holders(id) \subseteq {t}
      BY <1>3, <2>1, <2>4 DEF HomeOf, Sole
    <3>2. HandsTold(c, t, id)'
      BY <1>2, <1>3, <3>1, OnlyHandAfter
    <3>3. /\ HandAt("dead_lettered", id)' = HandAt("dead_lettered", id)
          /\ HandAt("purge_release", id)' = HandAt("purge_release", id)
      BY <1>2, <1>3, <1>4, AsideKept
    <3>4. BatchHas(c, id) /\ ~AckHas(c, id)
      BY <1>3, <1>4, <2>4 DEF BatchHas, AckHas
    <3> QED BY <1>3, <1>4, <1>5, <2>1, <2>2, <2>4, <3>1, <3>2, <3>3, <3>4
            DEF HomeOf, Sole, LogAgrees, Logged, DlqLogAgrees, FateAgrees, Gone, Over, Holders,
                HandsTold, HandHas
  <2> QED BY <2>3, <2>4
<1> QED BY <1>6, <1>7 DEF HomeInv

-----------------------------------------------------------------------------
(* The steps of resolve_failed_delivery                                     *)

\* The locals of a call that has resolved one delivery.
LEMMA ResolvedLocals ==
    ASSUME call \in [Tasks -> Call], NEW t \in Tasks, NEW rest, Resolved(t, rest)
    PROVE  \E c : /\ call' = [call EXCEPT ![t] = c]
                  /\ c.batch = rest /\ c.pc \in {"resolve", "pop", "idle"}
                  /\ rest # {} => c.pc = "resolve"
<1> DEFINE c == IF rest # {} THEN [call[t] EXCEPT !.pc = "resolve", !.entry = None, !.batch = rest]
                ELSE IF call[t].op = "claim" THEN [Idle EXCEPT !.op = "claim", !.pc = "pop"]
                ELSE Idle
<1>1. call' = [call EXCEPT ![t] = c]
  BY DEF Resolved
<1>2. call[t] \in Locals
  BY DEF Call
<1>3. /\ c.batch = rest /\ c.pc \in {"resolve", "pop", "idle"}
      /\ rest # {} => c.pc = "resolve"
  BY <1>2 DEF Idle, Locals
<1> QED BY <1>1, <1>3

\* A message to be retried passes from the call's batch to the backoff list.
LEMMA RetryLaterHome ==
    ASSUME HomeInv, TypeOK', TearKeyed', NEW t \in Tasks, RetryLater(t)
    PROVE  HomeInv'
<1> USE DEF vars, memVars, walVars, cpVars, auxVars
<1>1. PICK e \in call[t].batch :
        /\ delayed' = Append(delayed, [entry |-> e, ready |-> FALSE])
        /\ Resolved(t, call[t].batch \ {e})
  BY DEF RetryLater
<1>2. /\ call \in [Tasks -> Call]
      /\ UNCHANGED <<pending, leased, dlq, dlq_wal, wal_pending, stranded, torn,
                     fate, epoch>>
      /\ call[t].pc = "resolve" /\ KeyedCall(call[t])
  BY DEF RetryLater, At, HomeInv, Keyed, TypeOK
<1>3. PICK c : /\ call' = [call EXCEPT ![t] = c]
               /\ c.batch = call[t].batch \ {e} /\ c.pc \in {"resolve", "pop", "idle"}
               /\ c.batch # {} => c.pc = "resolve"
  BY <1>1, <1>2, ResolvedLocals
<1> DEFINE m == e.id
           d == [entry |-> e, ready |-> FALSE]
<1>4. e \in Entry /\ m \in Ids /\ d \in Delayed /\ d.entry = e
  BY CallType DEF HomeInv, Entry, Delayed
<1>5. Keyed'
  <2>1. KeyedCall(c)
    BY <1>2, <1>3 DEF KeyedCall
  <2> QED BY <1>2, <1>3, <2>1, KeyedAfter DEF HomeInv, Keyed
<1>6. \A id : AtDelayed(id)' = IF m = id THEN AtDelayed(id) \cup {Len(delayed) + 1}
                                         ELSE AtDelayed(id)
  BY <1>1, <1>4, QueueGrows DEF HomeInv
<1>7. ~BatchHas(c, m) /\ BatchHas(call[t], m)
      /\ \A id : id # m => (BatchHas(c, id) <=> BatchHas(call[t], id))
  BY <1>2, <1>3 DEF BatchHas, KeyedCall
<1> HIDE DEF m, d
<1>8. ASSUME NEW id \in Ids \ Cut' PROVE HomeOf(id)'
  <2>1. HomeOf(id)
    BY <1>2 DEF HomeInv, Cut
  <2>2. AtPending(id)' = AtPending(id) /\ Cardinality(InLog(id))' = Cardinality(InLog(id))
    BY <1>2 DEF AtPending, InLog
  <2>3. CASE id # m
    <3>1. SameRoles(call[t], c, id)
      BY <1>2, <1>3, <1>7, <2>3 DEF SameRoles, AckHas, HandHas, HomeSteps
    <3>2. AtDelayed(id)' = AtDelayed(id)
      BY <1>6, <2>3
    <3> QED BY <1>2, <1>3, <2>1, <2>2, <3>1, <3>2, HomeUntouched
  <2>4. CASE id = m
    <3>1. t \in InBatch(id) /\ t \in Holders(id)
      BY <1>7, <2>4 DEF BatchHas, InBatch, Holders
    <3>2. /\ Holders(id) \subseteq {t} /\ AtPending(id) = {} /\ AtDelayed(id) = {}
          /\ leased[id] = None /\ dlq[id] = None /\ id \notin stranded
      BY <2>1, <3>1, HeldAlone DEF HomeOf
    <3>3. HandsTold(c, t, id)' /\ HandsTold(call[t], t, id)
      BY <1>2, <1>3, <3>2, OnlyHandAfter, OnlyHand
    <3>4. /\ HandAt("dead_lettered", id)' = HandAt("dead_lettered", id)
          /\ HandAt("purge_release", id)' = HandAt("purge_release", id)
      BY <1>2, <1>3, AsideKept
    <3>5. ~AckHas(c, id) /\ ~AckHas(call[t], id)
      BY <1>2, <1>3 DEF AckHas
    <3>6. AtDelayed(id)' = {Len(delayed) + 1}
      BY <1>6, <2>4, <3>2
    <3> QED BY <1>2, <1>3, <1>7, <2>1, <2>2, <2>4, <3>1, <3>2, <3>3, <3>4, <3>5, <3>6
            DEF HomeOf, Sole, LogAgrees, Logged, DlqLogAgrees, FateAgrees, Gone, Over, Holders,
                HandsTold, HandHas
  <2> QED BY <2>3, <2>4
<1> QED BY <1>5, <1>8 DEF HomeInv

\* The DLQ's record: the message leaves the batch for the call's hand, or the
\* append fails and the process drops it.
LEMMA RecordDeadLetterHome ==
    ASSUME HomeInv, TypeOK', TearKeyed', NEW t \in Tasks, RecordDeadLetter(t)
    PROVE  HomeInv'
<1> USE DEF vars, memVars, walVars, cpVars, auxVars
<1>1. PICK e \in call[t].batch, r \in AppendResult :
        /\ dlq_wal' = IF r.durable
                      THEN [dlq_wal EXCEPT ![e.id] = [entry |-> e, triage |-> None]]
                      ELSE dlq_wal
        /\ IF r.ok
           THEN /\ call' = [call EXCEPT ![t].pc = "dlq_insert", ![t].entry = e,
                                        ![t].batch = @ \ {e}]
                /\ UNCHANGED <<stranded, torn>>
           ELSE /\ Resolved(t, call[t].batch \ {e})
                /\ stranded' = stranded \cup {e.id}
                /\ torn' = IF r.durable THEN torn \cup {e.id} ELSE torn
  BY DEF RecordDeadLetter
<1>2. /\ call \in [Tasks -> Call] /\ dlq_wal \in [Ids -> DeadLetter \cup {None}]
      /\ UNCHANGED <<pending, delayed, leased, dlq, wal_pending, fate, epoch>>
      /\ call[t].pc = "resolve" /\ KeyedCall(call[t])
  BY DEF RecordDeadLetter, At, HomeInv, Keyed, TypeOK
<1>3. PICK c : /\ call' = [call EXCEPT ![t] = c]
               /\ c.batch = call[t].batch \ {e}
               /\ IF r.ok THEN c.pc = "dlq_insert" /\ c.entry = e
                  ELSE /\ c.pc \in {"resolve", "pop", "idle"}
                       /\ c.batch # {} => c.pc = "resolve"
  <2>1. CASE r.ok
    <3> DEFINE c == [call[t] EXCEPT !.pc = "dlq_insert", !.entry = e,
                                    !.batch = call[t].batch \ {e}]
    <3>1. call[t] \in Locals
      BY <1>2 DEF Call
    <3>2. c.batch = call[t].batch \ {e} /\ c.pc = "dlq_insert" /\ c.entry = e
      BY <3>1 DEF Locals
    <3>3. call' = [call EXCEPT ![t] = c]
      BY <1>1, <1>2, <2>1
    <3> QED BY <2>1, <3>2, <3>3
  <2>2. CASE ~r.ok
    BY <1>1, <1>2, <2>2, ResolvedLocals
  <2> QED BY <2>1, <2>2
<1> DEFINE m == e.id
           d == [entry |-> e, triage |-> None]
<1>4. e \in Entry /\ m \in Ids /\ d # None /\ d.entry.id = m
  <2>1. e \in Entry /\ m \in Ids
    BY CallType DEF HomeInv, Entry
  <2>2. d \in DeadLetter
    BY <2>1 DEF DeadLetter
  <2> QED BY <2>1, <2>2, OptionAssumption
<1>5. \A id \in Ids : dlq_wal'[id] = IF r.durable /\ id = m THEN d ELSE dlq_wal[id]
  BY <1>1, <1>2
<1>6. ~BatchHas(c, m) /\ BatchHas(call[t], m)
      /\ \A id : id # m => (BatchHas(c, id) <=> BatchHas(call[t], id))
  BY <1>2, <1>3 DEF BatchHas, KeyedCall
<1>7. /\ torn \subseteq torn' /\ (r.ok => r.durable)
      /\ \A id \in Ids : id # m => (id \in stranded' <=> id \in stranded)
      /\ m \in stranded' <=> m \in stranded \/ ~r.ok
      /\ m \notin torn' => (~r.ok => ~r.durable)
  BY <1>1 DEF AppendResult
<1>8. KeyedCall(c)
  BY <1>2, <1>3 DEF KeyedCall
<1> HIDE DEF m, d
<1>9. Keyed'
  BY <1>2, <1>3, <1>4, <1>5, <1>8, KeyedAfter DEF HomeInv, Keyed
<1>10. ASSUME NEW id \in Ids \ Cut' PROVE HomeOf(id)'
  <2>1. HomeOf(id)
    BY <1>2, <1>7 DEF HomeInv, Cut
  <2>2. /\ AtPending(id)' = AtPending(id) /\ AtDelayed(id)' = AtDelayed(id)
        /\ Cardinality(InLog(id))' = Cardinality(InLog(id))
    BY <1>2 DEF AtPending, AtDelayed, InLog
  <2>3. CASE id # m
    <3>1. SameRoles(call[t], c, id)
      BY <1>2, <1>3, <1>6, <2>3 DEF SameRoles, AckHas, HandHas, HomeSteps, m
    <3>2. dlq_wal'[id] = dlq_wal[id] /\ (id \in stranded' <=> id \in stranded)
      BY <1>5, <1>7, <2>3
    <3> QED BY <1>2, <1>7, <1>3, <2>1, <2>2, <3>1, <3>2, HomeUntouched
  <2>4. CASE id = m
    <3>1. t \in InBatch(id) /\ t \in Holders(id)
      BY <1>6, <2>4 DEF BatchHas, InBatch, Holders
    <3>2. /\ Holders(id) \subseteq {t} /\ AtPending(id) = {} /\ AtDelayed(id) = {}
          /\ leased[id] = None /\ dlq[id] = None /\ id \notin stranded
      BY <2>1, <3>1, HeldAlone DEF HomeOf
    <3>3. HandsTold(c, t, id)' /\ HandsTold(call[t], t, id)
      BY <1>2, <1>3, <3>2, OnlyHandAfter, OnlyHand
    <3>4. /\ HandAt("dead_lettered", id)' = HandAt("dead_lettered", id)
          /\ HandAt("purge_release", id)' = HandAt("purge_release", id)
      <4>1. c.pc \notin {"dead_lettered", "purge_release"}
        BY <1>3
      <4> QED BY <1>2, <1>3, <4>1, AsideKept
    <3>5. ~AckHas(c, id) /\ ~AckHas(call[t], id) /\ (r.ok => HandHas(c, "dlq_insert", id))
      BY <1>2, <1>3, <2>4 DEF AckHas, HandHas, m
    <3>6. /\ id \in stranded' <=> ~r.ok
          /\ r.ok => r.durable
          /\ id \notin torn' => id \notin torn /\ (r.durable => r.ok)
      BY <1>7, <2>4, <3>2
    <3>7. ~Gone(id) /\ ~Over(id) /\ dlq_wal[id] = None /\ Logged(id)
      BY <1>2, <2>1, <3>1, <3>2, <3>3 DEF HomeOf, FateAgrees, Gone, DlqLogAgrees, HandsTold, HandHas, Logged
    <3>8. dlq_wal'[id] # None <=> r.durable
      BY <1>4, <1>5, <2>4, <3>7
    <3> QED BY <1>2, <1>3, <1>6, <2>1, <2>2, <2>4, <3>1, <3>2, <3>3, <3>4, <3>5, <3>6, <3>7, <3>8
            DEF HomeOf, Sole, LogAgrees, Logged, DlqLogAgrees, FateAgrees, Gone, Over, Holders,
                HandsTold, HandHas
  <2> QED BY <2>3, <2>4
<1> QED BY <1>9, <1>10 DEF HomeInv

\* The insertion: the message becomes a dead letter, and its call still owes
\* the main WAL a DeadLettered record.
LEMMA InsertDeadLetterHome ==
    ASSUME HomeInv, TypeOK', TearKeyed', NEW t \in Tasks, InsertDeadLetter(t)
    PROVE  HomeInv'
<1> USE DEF vars, memVars, walVars, cpVars, auxVars
<1> DEFINE m == call[t].entry.id
           d == [entry |-> call[t].entry, triage |-> None]
<1>1. PICK c :
        /\ c = [call[t] EXCEPT !.pc = "dead_lettered"]
        /\ dlq' = [dlq EXCEPT ![m] = d] /\ call' = [call EXCEPT ![t] = c]
        /\ UNCHANGED <<pending, delayed, leased, dlq_wal, wal_pending, stranded, torn,
                       fate, epoch>>
  BY DEF InsertDeadLetter, Goto
<1>2. /\ call \in [Tasks -> Call] /\ dlq \in [Ids -> DeadLetter \cup {None}]
      /\ call[t].pc = "dlq_insert" /\ KeyedCall(call[t])
  BY DEF InsertDeadLetter, At, HomeInv, Keyed, TypeOK
<1>3. call[t].entry \in Entry /\ m \in Ids
  BY <1>2, CallType DEF HomeInv, EntrySteps, Entry
<1>4. d # None /\ d.entry.id = m
  <2>1. d \in DeadLetter
    BY <1>3 DEF DeadLetter
  <2> QED BY <2>1, OptionAssumption
<1>5. c.pc = "dead_lettered" /\ c.entry.id = m /\ c.batch = call[t].batch
  BY <1>1, <1>2 DEF Call, Locals
<1>6. \A id \in Ids : dlq'[id] = IF id = m THEN d ELSE dlq[id]
  BY <1>1, <1>2
<1>7. KeyedCall(c)
  BY <1>2, <1>5 DEF KeyedCall
<1>8. ~BatchHas(call[t], m)
  BY <1>2 DEF KeyedCall, BatchHas
<1> HIDE DEF m, d
<1>9. Keyed'
  BY <1>1, <1>4, <1>6, <1>7, KeyedAfter DEF HomeInv, Keyed
<1>10. ASSUME NEW id \in Ids \ Cut' PROVE HomeOf(id)'
  <2>1. HomeOf(id)
    BY <1>1 DEF HomeInv, Cut
  <2>2. /\ AtPending(id)' = AtPending(id) /\ AtDelayed(id)' = AtDelayed(id)
        /\ Cardinality(InLog(id))' = Cardinality(InLog(id))
    BY <1>1 DEF AtPending, AtDelayed, InLog
  <2>3. CASE id # m
    <3>1. SameRoles(call[t], c, id)
      BY <1>2, <1>5, <2>3 DEF SameRoles, BatchHas, AckHas, HandHas, HomeSteps, m
    <3> QED BY <1>1, <1>2, <1>6, <2>1, <2>2, <2>3, <3>1, HomeUntouched
  <2>4. CASE id = m
    <3>1. t \in HandAt("dlq_insert", id) /\ t \in Holders(id)
      BY <1>2, <2>4 DEF HandAt, Holders, m
    <3>2. /\ Holders(id) \subseteq {t} /\ AtPending(id) = {} /\ AtDelayed(id) = {}
          /\ leased[id] = None /\ dlq[id] = None /\ id \notin stranded
      BY <2>1, <3>1, HeldAlone DEF HomeOf
    <3>3. HandsTold(c, t, id)' /\ HandsTold(call[t], t, id)
      BY <1>1, <1>2, <3>2, OnlyHandAfter, OnlyHand
    <3>4. /\ HandAt("dead_lettered", id)' = HandAt("dead_lettered", id) \cup {t}
          /\ HandAt("purge_release", id)' = HandAt("purge_release", id)
          /\ t \notin HandAt("dead_lettered", id)
      BY <1>1, <1>2, <1>5, <2>4, RolesAfter DEF HandHas, HandAt
    <3>5. ~AckHas(c, id) /\ ~AckHas(call[t], id) /\ ~BatchHas(c, id) /\ ~BatchHas(call[t], id)
      BY <1>2, <1>5, <1>8, <2>4 DEF AckHas, BatchHas
    <3>6. ~Gone(id) /\ ~Over(id) /\ Logged(id)
      BY <2>1, <3>1 DEF HomeOf, FateAgrees, Gone, Holders, Logged
    <3>7. dlq'[id] # None
      BY <1>4, <1>6, <2>4
    <3>8. ~Logged(id)'
      BY <1>1, <1>5, <2>2, <3>2, <3>3, <3>5 DEF HandsTold, HandHas, Logged
    <3>9. LogAgrees(id)'
      BY <1>1, <2>1, <2>2, <3>4, <3>6, <3>8, FS_CardinalityType, FS_AddElement
      DEF HomeOf, LogAgrees
    <3>10. Sole(id)' /\ DlqLogAgrees(id)' /\ FateAgrees(id)'
      BY <1>1, <1>5, <2>1, <2>2, <3>1, <3>2, <3>3, <3>4, <3>5, <3>6, <3>7
      DEF HomeOf, Sole, DlqLogAgrees, FateAgrees, Gone, Over, Holders, HandsTold, HandHas
    <3> QED BY <3>9, <3>10 DEF HomeOf
  <2> QED BY <2>3, <2>4
<1> QED BY <1>9, <1>10 DEF HomeInv

\* The DeadLettered record takes the message out of the main WAL, wherever the
\* dead letter has gone meanwhile.
LEMMA AppendDeadLetteredHome ==
    ASSUME HomeInv, TypeOK', TearKeyed', NEW t \in Tasks, AppendDeadLettered(t)
    PROVE  HomeInv'
<1> USE DEF vars, memVars, walVars, cpVars, auxVars
<1> DEFINE m == call[t].entry.id
<1>1. PICK r \in AppendResult :
        /\ IF r.durable THEN ApplyDeadLettered(m) ELSE UNCHANGED wal_pending
        /\ torn' = IF r.durable THEN torn ELSE torn \cup {m}
  BY DEF AppendDeadLettered
<1>2. /\ call \in [Tasks -> Call] /\ wal_pending \in Seq(WalEnqueue)
      /\ UNCHANGED <<pending, leased, delayed, dlq, dlq_wal, stranded, fate, epoch>>
      /\ torn \subseteq torn' /\ (m \notin torn' => r.durable)
      /\ call[t].pc = "dead_lettered" /\ KeyedCall(call[t])
  BY <1>1 DEF AppendDeadLettered, At, HomeInv, Keyed, TypeOK
<1>3. PICK c : /\ call' = [call EXCEPT ![t] = c]
               /\ c.batch = call[t].batch /\ c.pc \in {"resolve", "pop", "idle"}
               /\ c.batch # {} => c.pc = "resolve"
  BY <1>2, ResolvedLocals DEF AppendDeadLettered
<1>4. Keyed'
  <2>1. KeyedCall(c)
    BY <1>2, <1>3 DEF KeyedCall
  <2> QED BY <1>2, <1>3, <2>1, KeyedAfter DEF HomeInv, Keyed
<1> HIDE DEF m
<1>5. ASSUME NEW id
      PROVE  Cardinality(InLog(id))' = IF r.durable /\ m = id /\ InLog(m) # {}
                                       THEN Cardinality(InLog(id)) - 1
                                       ELSE Cardinality(InLog(id))
  <2>1. CASE r.durable
    BY <1>1, <1>2, <2>1, LogShrinks
  <2>2. CASE ~r.durable
    BY <1>1, <2>2 DEF InLog
  <2> QED BY <2>1, <2>2
<1>6. ASSUME NEW id \in Ids \ Cut' PROVE HomeOf(id)'
  <2>1. HomeOf(id)
    BY <1>2 DEF HomeInv, Cut
  <2>2. AtPending(id)' = AtPending(id) /\ AtDelayed(id)' = AtDelayed(id)
    BY <1>2 DEF AtPending, AtDelayed
  <2>3. CASE id # m
    <3>1. SameRoles(call[t], c, id)
      BY <1>2, <1>3, <2>3 DEF SameRoles, BatchHas, AckHas, HandHas, HomeSteps, m
    <3>2. Cardinality(InLog(id))' = Cardinality(InLog(id))
      BY <1>5, <2>3
    <3> QED BY <1>2, <1>3, <2>1, <2>2, <3>1, <3>2, HomeUntouched
  <2>4. CASE id = m
    <3>1. id \notin torn' => id \notin torn /\ r.durable
      BY <1>2, <2>4
    <3>2. /\ t \in HandAt("dead_lettered", id)
          /\ HandAt("dead_lettered", id)' = HandAt("dead_lettered", id) \ {t}
      BY <1>2, <1>3, <2>4, RolesAfter DEF HandHas, HandAt, m
    <3>3. InBatch(id)' = InBatch(id) /\ Acking(id)' = Acking(id)
      BY <1>2, <1>3, RolesAfter DEF InBatch, BatchHas, Acking, AckHas
    <3>4. \A pc \in HomeSteps \ {"dead_lettered"} : HandAt(pc, id)' = HandAt(pc, id)
      BY <1>2, <1>3, RolesAfter DEF HomeSteps, HandHas, HandAt
    <3>5. /\ HandAt("enqueue_wal", id)' = HandAt("enqueue_wal", id)
          /\ HandAt("enqueue_push", id)' = HandAt("enqueue_push", id)
          /\ HandAt("take_wal", id)' = HandAt("take_wal", id)
          /\ HandAt("dlq_insert", id)' = HandAt("dlq_insert", id)
          /\ HandAt("purge_release", id)' = HandAt("purge_release", id)
      BY <3>4 DEF HomeSteps
    <3>6. Holders(id)' = Holders(id)
      BY <3>3, <3>5 DEF Holders
    <3>7. Logged(id)' <=> Logged(id)
      BY <1>2, <2>2, <3>3, <3>5 DEF Logged, Over
    <3>8. LogAgrees(id)'
      <4>1. id \notin torn => InLog(id) # {}
        BY <1>2, <2>1, <3>2, LogHas DEF HomeOf
      <4>2. id \notin torn' => Cardinality(InLog(id))' = Cardinality(InLog(id)) - 1
        BY <1>5, <2>4, <3>1, <4>1
      <4> DEFINE D == HandAt("dead_lettered", id)
                 E == D \ {t}
      <4>3. IsFiniteSet(D) /\ Cardinality(D) \in Nat
        BY <2>1, FS_CardinalityType DEF HomeOf, LogAgrees
      <4>4. IsFiniteSet(E) /\ Cardinality(E) = Cardinality(D) - 1
        BY <3>2, <4>3, FS_RemoveElement
      <4>5. id \notin torn' =>
              Cardinality(InLog(id)) = Cardinality(D) + IF Logged(id) THEN 1 ELSE 0
        BY <2>1, <3>1 DEF HomeOf, LogAgrees
      <4>6. HandAt("dead_lettered", id)' = E
        BY <3>2
      <4> HIDE DEF D, E
      <4>7. CASE Logged(id)
        BY <3>7, <4>2, <4>3, <4>4, <4>5, <4>6, <4>7 DEF LogAgrees
      <4>8. CASE ~Logged(id)
        BY <3>7, <4>2, <4>3, <4>4, <4>5, <4>6, <4>8 DEF LogAgrees
      <4> QED BY <4>7, <4>8
    <3>9. Sole(id)' /\ DlqLogAgrees(id)' /\ FateAgrees(id)'
      BY <1>2, <2>1, <2>2, <3>2, <3>5, <3>6
      DEF HomeOf, Sole, DlqLogAgrees, FateAgrees, Gone, Over
    <3> QED BY <3>8, <3>9 DEF HomeOf
  <2> QED BY <2>3, <2>4
<1> QED BY <1>4, <1>6 DEF HomeInv

-----------------------------------------------------------------------------
(* The steps of claim                                                       *)

\* Every expired message passes from its lease into the call's batch.
LEMMA ReclaimExpiredHome ==
    ASSUME HomeInv, TypeOK', TearKeyed', NEW t \in Tasks, ReclaimExpired(t)
    PROVE  HomeInv'
<1> USE DEF vars, memVars, walVars, cpVars, auxVars
<1>1. PICK c :
        /\ c = [Idle EXCEPT !.op = "claim", !.pc = IF Expired = {} THEN "pop" ELSE "resolve",
                            !.batch = {leased[id].entry : id \in Expired}]
        /\ call' = [call EXCEPT ![t] = c]
        /\ leased' = [id \in Ids |-> IF id \in Expired THEN None ELSE leased[id]]
  BY DEF ReclaimExpired, Without
<1>2. /\ call \in [Tasks -> Call] /\ leased \in [Ids -> Lease \cup {None}]
      /\ UNCHANGED <<pending, delayed, dlq, dlq_wal, wal_pending, stranded, torn,
                     fate, epoch>>
      /\ call[t].pc \in {"idle", "blocked"} /\ call[t].batch = {}
  BY DEF ReclaimExpired, Starts, At, HomeInv, Keyed, KeyedCall, TypeOK
<1>3. /\ c.pc = IF Expired = {} THEN "pop" ELSE "resolve"
      /\ c.batch = {leased[id].entry : id \in Expired}
  BY <1>1 DEF Idle
<1>4. /\ Expired \subseteq Ids
      /\ \A id \in Expired : leased[id] # None /\ leased[id].entry.id = id
  BY DEF Expired, HomeInv, Keyed
<1>5. \A id : BatchHas(c, id) <=> id \in Expired
  BY <1>3, <1>4 DEF BatchHas
<1>6. Keyed'
  <2>1. KeyedCall(c)
    BY <1>3, <1>4 DEF KeyedCall
  <2> QED BY <1>1, <1>2, <2>1, KeyedAfter DEF HomeInv, Keyed
<1>7. ASSUME NEW id \in Ids \ Cut' PROVE HomeOf(id)'
  <2>1. HomeOf(id)
    BY <1>2 DEF HomeInv, Cut
  <2>2. /\ AtPending(id)' = AtPending(id) /\ AtDelayed(id)' = AtDelayed(id)
        /\ Cardinality(InLog(id))' = Cardinality(InLog(id))
    BY <1>2 DEF AtPending, AtDelayed, InLog
  <2>3. CASE id \notin Expired
    <3>1. SameRoles(call[t], c, id)
      BY <1>2, <1>3, <1>5, <2>3 DEF SameRoles, BatchHas, AckHas, HandHas, HomeSteps
    <3>2. (leased[id])' = leased[id]
      BY <1>1, <2>3
    <3> QED BY <1>1, <1>2, <2>1, <2>2, <3>1, <3>2, HomeUntouched
  <2>4. CASE id \in Expired
    <3>1. Holders(id) = {} /\ Holders(id) \subseteq {t} /\ leased[id] # None
      BY <1>4, <2>1, <2>4 DEF HomeOf, Sole
    <3>2. HandsTold(c, t, id)'
      BY <1>1, <1>2, <3>1, OnlyHandAfter
    <3>3. c.pc = "resolve" /\ BatchHas(c, id) /\ ~AckHas(c, id) /\ (leased[id])' = None
      <4>1. Expired # {}
        BY <2>4
      <4>2. c.pc = "resolve"
        BY <1>3, <4>1
      <4> QED BY <1>1, <1>5, <2>4, <4>2 DEF AckHas
    <3>4. /\ HandAt("dead_lettered", id)' = HandAt("dead_lettered", id)
          /\ HandAt("purge_release", id)' = HandAt("purge_release", id)
      BY <1>1, <1>2, <3>3, AsideKept
    <3> QED BY <1>2, <2>1, <2>2, <3>1, <3>2, <3>3, <3>4
            DEF HomeOf, Sole, LogAgrees, Logged, DlqLogAgrees, FateAgrees, Gone, Over, Holders,
                HandsTold, HandHas
  <2> QED BY <2>3, <2>4
<1> QED BY <1>6, <1>7 DEF HomeInv

\* Dropping the future drops the batch, which stays in the log.
LEMMA CancelClaimHome ==
    ASSUME HomeInv, TypeOK', TearKeyed', NEW t \in Tasks, CancelClaim(t)
    PROVE  HomeInv'
<1> USE DEF vars, memVars, walVars, cpVars, auxVars
<1>1. /\ call' = [call EXCEPT ![t] = Idle] /\ Idle.pc = "idle" /\ Idle.batch = {}
      /\ UNCHANGED <<pending, leased, delayed, dlq, dlq_wal, wal_pending, fate, epoch>>
  BY DEF CancelClaim, Return, Idle
<1>2. /\ call \in [Tasks -> Call] /\ KeyedCall(call[t])
      /\ call[t].pc \in {"idle", "pop", "blocked", "resolve", "dlq_insert", "dead_lettered"}
  BY DEF CancelClaim, HomeInv, Keyed, KeyedCall, TypeOK
<1>3. /\ torn \subseteq torn'
      /\ \A id \in Ids :
           /\ HandHas(call[t], "dlq_insert", id) \/ HandHas(call[t], "dead_lettered", id)
                => id \in torn'
           /\ id \in stranded' <=> \/ id \in stranded \/ BatchHas(call[t], id)
                                   \/ HandHas(call[t], "dlq_insert", id)
  BY DEF CancelClaim, At, BatchHas, HandHas
<1>4. Keyed'
  <2>1. KeyedCall(Idle)
    BY <1>1 DEF KeyedCall
  <2> QED BY <1>1, <2>1, KeyedAfter DEF HomeInv, Keyed
<1>5. ASSUME NEW id \in Ids \ Cut' PROVE HomeOf(id)'
  <2>1. HomeOf(id)
    BY <1>1, <1>3 DEF HomeInv, Cut
  <2>2. /\ AtPending(id)' = AtPending(id) /\ AtDelayed(id)' = AtDelayed(id)
        /\ Cardinality(InLog(id))' = Cardinality(InLog(id))
    BY <1>1 DEF AtPending, AtDelayed, InLog
  <2>3. /\ ~BatchHas(Idle, id) /\ ~AckHas(Idle, id) /\ ~AckHas(call[t], id)
        /\ \A pc \in HomeSteps : ~HandHas(Idle, pc, id)
        /\ \A pc \in HomeSteps \ {"dlq_insert", "dead_lettered"} : ~HandHas(call[t], pc, id)
    BY <1>1, <1>2 DEF BatchHas, AckHas, HandHas, HomeSteps
  <2>4. /\ HandAt("dead_lettered", id)' = HandAt("dead_lettered", id) \ {t}
        /\ id \notin torn' => HandAt("dead_lettered", id)' = HandAt("dead_lettered", id)
        /\ HandAt("purge_release", id)' = HandAt("purge_release", id)
    <3>1. ASSUME NEW pc \in HomeSteps PROVE HandAt(pc, id)' = HandAt(pc, id) \ {t}
      <4>1. call'[t] = Idle /\ \A u \in Tasks \ {t} : call'[u] = call[u]
        BY <1>1, <1>2
      <4>2. ~HandHas(Idle, pc, id)
        BY <2>3
      <4> QED BY <4>1, <4>2 DEF HandAt, HandHas
    <3>2. id \notin torn' => t \notin HandAt("dead_lettered", id)
      BY <1>3 DEF HandAt, HandHas
    <3>3. t \notin HandAt("purge_release", id)
      BY <2>3 DEF HandAt, HandHas, HomeSteps
    <3>4. /\ HandAt("dead_lettered", id)' = HandAt("dead_lettered", id) \ {t}
          /\ HandAt("purge_release", id)' = HandAt("purge_release", id) \ {t}
      BY <3>1 DEF HomeSteps
    <3> QED BY <3>2, <3>3, <3>4
  <2>5. IsFiniteSet(HandAt("dead_lettered", id))'
    BY <2>1, <2>4, FS_Subset DEF HomeOf, LogAgrees
  <2>6. CASE BatchHas(call[t], id) \/ HandHas(call[t], "dlq_insert", id)
    <3>1. t \in Holders(id)
      BY <2>6 DEF BatchHas, InBatch, HandHas, HandAt, Holders
    <3>2. /\ Holders(id) \subseteq {t} /\ AtPending(id) = {} /\ AtDelayed(id) = {}
          /\ leased[id] = None /\ dlq[id] = None /\ id \notin stranded
      BY <2>1, <3>1, HeldAlone DEF HomeOf
    <3>3. HandsTold(Idle, t, id)' /\ HandsTold(call[t], t, id)
      BY <1>1, <1>2, <3>2, OnlyHandAfter, OnlyHand
    <3>4. /\ ~HandHas(call[t], "take_wal", id)
          /\ ~HandHas(Idle, "enqueue_wal", id) /\ ~HandHas(Idle, "enqueue_push", id)
          /\ ~HandHas(Idle, "take_wal", id) /\ ~HandHas(Idle, "dlq_insert", id)
      BY <2>3 DEF HomeSteps
    <3>5. ~Gone(id) /\ ~Over(id) /\ Logged(id)
      BY <2>1, <2>6, <3>1, <3>3 DEF HomeOf, FateAgrees, Gone, HandsTold, Logged
    <3>6. id \in stranded' /\ (id \notin torn' => dlq_wal[id] = None)
      BY <1>3, <2>1, <2>6, <3>2, <3>3, <3>4 DEF HomeOf, DlqLogAgrees, HandsTold
    <3>7. Holders(id)' = {}
      BY <2>3, <3>3, <3>4 DEF Holders, HandsTold
    <3>8. Sole(id)' /\ DlqLogAgrees(id)' /\ FateAgrees(id)'
      BY <1>1, <2>1, <2>2, <2>4, <3>2, <3>5, <3>6, <3>7
      DEF HomeOf, Sole, DlqLogAgrees, FateAgrees, Gone, Over, Holders
    <3>9. id \notin torn' => Logged(id)'
      BY <1>1, <3>5, <3>6 DEF Logged, Over
    <3>10. LogAgrees(id)'
      BY <1>3, <2>1, <2>2, <2>4, <2>5, <3>5, <3>9 DEF HomeOf, LogAgrees
    <3> QED BY <3>8, <3>10 DEF HomeOf
  <2>7. CASE ~(BatchHas(call[t], id) \/ HandHas(call[t], "dlq_insert", id))
    <3>1. id \in stranded' <=> id \in stranded
      BY <1>3, <2>7
    <3>2. CASE ~HandHas(call[t], "dead_lettered", id)
      <4>1. SameRoles(call[t], Idle, id)
        BY <2>3, <2>7, <3>2 DEF SameRoles
      <4> QED BY <1>1, <1>2, <1>3, <2>1, <2>2, <3>1, <4>1, HomeUntouched
    <3>3. CASE HandHas(call[t], "dead_lettered", id)
      <4>1. InBatch(id)' = InBatch(id) /\ Acking(id)' = Acking(id)
        BY <1>1, <1>2, <2>3, <2>7, RolesAfter DEF InBatch, BatchHas, Acking, AckHas
      <4>2. \A pc \in HomeSteps \ {"dead_lettered"} : HandAt(pc, id)' = HandAt(pc, id)
        BY <1>1, <1>2, <2>3, <2>7, RolesAfter DEF HandHas, HandAt
      <4>3. /\ HandAt("enqueue_wal", id)' = HandAt("enqueue_wal", id)
            /\ HandAt("enqueue_push", id)' = HandAt("enqueue_push", id)
            /\ HandAt("take_wal", id)' = HandAt("take_wal", id)
            /\ HandAt("dlq_insert", id)' = HandAt("dlq_insert", id)
        BY <4>2 DEF HomeSteps
      <4>4. Holders(id)' = Holders(id)
        BY <4>1, <4>3 DEF Holders
      <4>5. Sole(id)' /\ DlqLogAgrees(id)' /\ FateAgrees(id)'
        BY <1>1, <2>1, <2>2, <2>4, <3>1, <4>3, <4>4
        DEF HomeOf, Sole, DlqLogAgrees, FateAgrees, Gone, Over
      <4>6. LogAgrees(id)'
        BY <1>3, <2>5, <3>3 DEF LogAgrees
      <4> QED BY <4>5, <4>6 DEF HomeOf
    <3> QED BY <3>2, <3>3
  <2> QED BY <2>6, <2>7
<1> QED BY <1>4, <1>5 DEF HomeInv

\* A message has at most one place in a queue Q and a backoff list D, and has
\* one if it has one in the process's own.
OnePlaceIn(Q, D, id) ==
    /\ \A i, j \in DOMAIN Q : Q[i].id = id /\ Q[j].id = id => i = j
    /\ \A i, j \in DOMAIN D : D[i].entry.id = id /\ D[j].entry.id = id => i = j
    /\ \A i \in DOMAIN Q, j \in DOMAIN D : Q[i].id = id => D[j].entry.id # id
    /\ (\E i \in DOMAIN Q : Q[i].id = id) \/ (\E j \in DOMAIN D : D[j].entry.id = id)
         <=> AtPending(id) # {} \/ AtDelayed(id) # {}

\* It does in what promote_ready_delayed makes of the two.
LEMMA PromotePlaces ==
    ASSUME TypeOK, NEW id, Sole(id),
           NEW ready \in Ascending(ReadyPositions),
           NEW waiting \in Ascending(DOMAIN delayed \ ReadyPositions),
           NEW Q, Q = pending \o Promoted(ready), NEW D, D = StillDelayed(waiting)
    PROVE  OnePlaceIn(Q, D, id)
<1> DEFINE R == ReadyPositions
           W == DOMAIN delayed \ R
           P == Promoted(ready)
           n == Len(pending)
<1>1. /\ pending \in Seq(Entry) /\ delayed \in Seq(Delayed) /\ n \in Nat
      /\ DOMAIN pending = 1..n
      /\ R \subseteq DOMAIN delayed
  BY DEF TypeOK, ReadyPositions
<1>2. P \in Seq(Entry) /\ Len(P) \in Nat /\ DOMAIN P = 1..Len(P)
  BY <1>1, PromoteType
<1>3. /\ Q \in Seq(Entry) /\ DOMAIN Q = 1..(n + Len(P))
      /\ \A i \in DOMAIN Q : Q[i] = IF i <= n THEN pending[i] ELSE P[i - n]
  BY <1>1, <1>2
<1>4. /\ \A k \in DOMAIN ready : ready[k] \in R
      /\ \A k, l \in DOMAIN ready : ready[k] = ready[l] => k = l
      /\ \A i \in R : \E k \in DOMAIN ready : ready[k] = i
      /\ DOMAIN P = DOMAIN ready /\ \A k \in DOMAIN ready : P[k] = delayed[ready[k]].entry
  <2>1. Positions(R)
    BY <1>1, PositionsIn
  <2>2. /\ ready \in [1..Cardinality(R) -> R] /\ IsInjective(ready)
        /\ \A i \in R : \E k \in DOMAIN ready : ready[k] = i
    BY <2>1, AscendingLists
  <2>3. DOMAIN P = DOMAIN ready /\ \A k \in DOMAIN ready : P[k] = delayed[ready[k]].entry
    BY DEF Promoted
  <2> QED BY <2>2, <2>3 DEF IsInjective
<1>5. /\ \A k \in DOMAIN waiting : waiting[k] \in W
      /\ \A k, l \in DOMAIN waiting : waiting[k] = waiting[l] => k = l
      /\ \A i \in W : \E k \in DOMAIN waiting : waiting[k] = i
      /\ DOMAIN D = DOMAIN waiting /\ \A k \in DOMAIN waiting : D[k] = delayed[waiting[k]]
  <2>1. Positions(W) /\ waiting \in Ascending(W)
    BY <1>1, PositionsIn
  <2> HIDE DEF W
  <2>2. /\ waiting \in [1..Cardinality(W) -> W] /\ IsInjective(waiting)
        /\ \A i \in W : \E k \in DOMAIN waiting : waiting[k] = i
    BY <2>1, AscendingLists
  <2>3. DOMAIN D = DOMAIN waiting /\ \A k \in DOMAIN waiting : D[k] = delayed[waiting[k]]
    BY DEF StillDelayed, Pick
  <2> QED BY <2>2, <2>3 DEF IsInjective
<1>6. ASSUME NEW i \in DOMAIN Q, Q[i].id = id
      PROVE  \/ i \in AtPending(id)
             \/ /\ i - n \in DOMAIN ready /\ ready[i - n] \in AtDelayed(id) /\ i > n
                /\ ready[i - n] \in R
  BY <1>1, <1>2, <1>3, <1>4, <1>6 DEF AtPending, AtDelayed
<1>7. ASSUME NEW j \in DOMAIN D, D[j].entry.id = id
      PROVE  waiting[j] \in AtDelayed(id) /\ waiting[j] \notin R
  BY <1>5, <1>7 DEF AtDelayed
<1> HIDE DEF R, W, P, n
<1>8. /\ \A i, j \in AtPending(id) : i = j
      /\ \A i, j \in AtDelayed(id) : i = j
      /\ AtPending(id) # {} => AtDelayed(id) = {}
  BY DEF Sole
<1>9. ASSUME NEW i \in DOMAIN Q, NEW j \in DOMAIN Q, Q[i].id = id, Q[j].id = id
      PROVE  i = j
  <2>1. CASE AtPending(id) # {}
    BY <1>6, <1>8, <1>9, <2>1
  <2>2. CASE AtPending(id) = {}
    <3>1. /\ i - n \in DOMAIN ready /\ j - n \in DOMAIN ready /\ i > n /\ j > n
          /\ ready[i - n] \in AtDelayed(id) /\ ready[j - n] \in AtDelayed(id)
      BY <1>6, <1>9, <2>2
    <3>2. ready[i - n] = ready[j - n]
      BY <1>8, <3>1
    <3>3. i - n = j - n
      BY <1>4, <3>1, <3>2
    <3>4. i \in Int /\ j \in Int /\ n \in Nat
      BY <1>1, <1>2, <1>3
    <3> QED BY <3>3, <3>4
  <2> QED BY <2>1, <2>2
<1>10. ASSUME NEW i \in DOMAIN D, NEW j \in DOMAIN D, D[i].entry.id = id, D[j].entry.id = id
       PROVE  i = j
  <2>1. waiting[i] = waiting[j]
    BY <1>7, <1>8, <1>10
  <2> QED BY <1>5, <2>1
<1>11. ASSUME NEW i \in DOMAIN Q, NEW j \in DOMAIN D, Q[i].id = id, D[j].entry.id = id
       PROVE  FALSE
  BY <1>6, <1>7, <1>8, <1>11
<1>12. ASSUME NEW i \in AtPending(id) PROVE \E k \in DOMAIN Q : Q[k].id = id
  <2>1. i \in 1..n /\ pending[i].id = id
    BY <1>1 DEF AtPending
  <2>2. i \in DOMAIN Q /\ Q[i] = pending[i]
    BY <1>1, <1>2, <1>3, <2>1
  <2> QED BY <2>1, <2>2
<1>13. ASSUME NEW i \in AtDelayed(id)
       PROVE  (\E k \in DOMAIN Q : Q[k].id = id) \/ (\E j \in DOMAIN D : D[j].entry.id = id)
  <2>1. i \in DOMAIN delayed /\ delayed[i].entry.id = id
    BY DEF AtDelayed
  <2>2. CASE i \in R
    <3>1. PICK k \in DOMAIN ready : ready[k] = i
      BY <1>4, <2>2
    <3>2. k \in 1..Len(P) /\ P[k].id = id
      BY <1>2, <1>4, <2>1, <3>1
    <3>3. n + k \in DOMAIN Q /\ Q[n + k] = P[k]
      BY <1>1, <1>2, <1>3, <3>2
    <3> QED BY <3>2, <3>3
  <2>3. CASE i \notin R
    <3>1. PICK k \in DOMAIN waiting : waiting[k] = i
      BY <1>5, <2>1, <2>3 DEF W
    <3> QED BY <1>5, <2>1, <3>1
  <2> QED BY <2>2, <2>3
<1>14. (\E i \in DOMAIN Q : Q[i].id = id) \/ (\E j \in DOMAIN D : D[j].entry.id = id)
         <=> AtPending(id) # {} \/ AtDelayed(id) # {}
  BY <1>6, <1>7, <1>12, <1>13
<1> QED BY <1>9, <1>10, <1>11, <1>14 DEF OnePlaceIn

\* What claim does to the queue once the messages whose backoff is over have
\* joined it: nothing is in it, or its front is leased.
Popped(t, Q, c, m) ==
    /\ Q \in Seq(Entry) /\ Len(Q) \in Nat /\ DOMAIN Q = 1..Len(Q)
    /\ call' = [call EXCEPT ![t] = c] /\ c.batch = {} /\ c.pc \in {"blocked", "idle"}
    /\ pending' = IF Q = <<>> THEN Q ELSE Tail(Q)
    /\ Q = <<>> => leased' = leased
    /\ Q # <<>> => /\ m = Q[1].id /\ m \in Ids
                   /\ leased'[m] # None /\ leased'[m].entry.id = m
                   /\ \A id \in Ids \ {m} : leased'[id] = leased[id]

LEMMA PopFront ==
    ASSUME HomeInv, NEW t \in Tasks, PopPending(t)
    PROVE  \E ready \in Ascending(ReadyPositions),
              waiting \in Ascending(DOMAIN delayed \ ReadyPositions) :
             \E Q, c, m : /\ delayed' = StillDelayed(waiting) /\ Q = pending \o Promoted(ready)
                          /\ Popped(t, Q, c, m)
<1> USE DEF vars, memVars, walVars, cpVars, auxVars
<1>1. PICK ready \in Ascending(ReadyPositions),
           waiting \in Ascending(DOMAIN delayed \ ReadyPositions) :
        LET queue == pending \o Promoted(ready)
            entry == [Head(queue) EXCEPT !.delivery_count = @ + 1]
        IN /\ delayed' = StillDelayed(waiting)
           /\ \/ /\ queue = <<>>
                 /\ pending' = queue
                 /\ Goto(t, "blocked")
                 /\ UNCHANGED <<leased, next_lease_token, grants>>
              \/ /\ queue # <<>>
                 /\ pending' = Tail(queue)
                 /\ leased' = [leased EXCEPT ![entry.id] = NewLease(entry)]
                 /\ Return(t)
  BY DEF PopPending
<1>2. PICK Q : Q = pending \o Promoted(ready)
  OBVIOUS
<1>3. /\ call \in [Tasks -> Call] /\ leased \in [Ids -> Lease \cup {None}]
      /\ UNCHANGED <<dlq, dlq_wal, wal_pending, stranded, torn, fate, epoch>>
      /\ call[t].pc = "pop" /\ call[t].batch = {}
  BY DEF PopPending, At, HomeInv, Keyed, KeyedCall, TypeOK
<1>4. Q \in Seq(Entry) /\ Len(Q) \in Nat /\ DOMAIN Q = 1..Len(Q)
  <2>1. ReadyPositions \in SUBSET DOMAIN delayed /\ pending \in Seq(Entry) /\ delayed \in Seq(Delayed)
    BY DEF ReadyPositions, HomeInv, TypeOK
  <2>2. Promoted(ready) \in Seq(Entry)
    BY <2>1, PromoteType
  <2> QED BY <1>2, <2>1, <2>2
<1>5. PICK c, m :
        /\ call' = [call EXCEPT ![t] = c] /\ c.batch = {} /\ c.pc \in {"blocked", "idle"}
        /\ pending' = IF Q = <<>> THEN Q ELSE Tail(Q)
        /\ Q = <<>> => leased' = leased
        /\ Q # <<>> => /\ m = Q[1].id /\ m \in Ids
                       /\ leased'[m] # None /\ leased'[m].entry.id = m
                       /\ \A id \in Ids \ {m} : leased'[id] = leased[id]
  <2>1. CASE Q = <<>>
    <3> DEFINE c == [call[t] EXCEPT !.pc = "blocked"]
    <3>1. call' = [call EXCEPT ![t] = c]
      BY <1>1, <1>2, <2>1 DEF Goto
    <3>2. c.batch = {} /\ c.pc = "blocked"
      BY <1>3 DEF Call, Locals
    <3> QED BY <1>1, <1>2, <2>1, <3>1, <3>2
  <2>2. CASE Q # <<>>
    <3> DEFINE e == [Head(Q) EXCEPT !.delivery_count = @ + 1]
    <3>1. /\ call' = [call EXCEPT ![t] = Idle]
          /\ pending' = Tail(Q) /\ leased' = [leased EXCEPT ![e.id] = NewLease(e)]
      BY <1>1, <1>2, <2>2 DEF Return
    <3>2. Head(Q) = Q[1] /\ Head(Q) \in Entry
      BY <1>4, <2>2
    <3>3. e \in Entry /\ e.id = Q[1].id /\ e.id \in Ids
      BY <3>2, DeliverType
    <3>4. NewLease(e) \in Lease /\ NewLease(e).entry = e
      BY <3>3 DEF NewLease, Lease, HomeInv, TypeOK
    <3> HIDE DEF e
    <3>5. /\ leased'[e.id] # None /\ leased'[e.id].entry.id = e.id
          /\ \A id \in Ids \ {e.id} : leased'[id] = leased[id]
      BY <1>3, <3>1, <3>3, <3>4, OptionAssumption
    <3>6. Idle.batch = {} /\ Idle.pc = "idle"
      BY DEF Idle
    <3> QED BY <2>2, <3>1, <3>3, <3>5, <3>6
  <2> QED BY <2>1, <2>2
<1>6. Popped(t, Q, c, m)
  BY <1>4, <1>5 DEF Popped
<1>7. delayed' = StillDelayed(waiting)
  BY <1>1
<1> QED BY <1>2, <1>6, <1>7

\* Promotion moves messages from the backoff list to the queue, and the front
\* of the queue to its lease.
LEMMA PopPendingHome ==
    ASSUME HomeInv, TypeOK', TearKeyed', NEW t \in Tasks, PopPending(t)
    PROVE  HomeInv'
<1> USE DEF vars, memVars, walVars, cpVars, auxVars
<1>1. PICK ready \in Ascending(ReadyPositions),
           waiting \in Ascending(DOMAIN delayed \ ReadyPositions) :
        \E Q, c, m : /\ delayed' = StillDelayed(waiting) /\ Q = pending \o Promoted(ready)
                     /\ Popped(t, Q, c, m)
  BY PopFront
<1>2. PICK Q, c, m : /\ delayed' = StillDelayed(waiting) /\ Q = pending \o Promoted(ready)
                     /\ Popped(t, Q, c, m)
  BY <1>1
<1>3. /\ call \in [Tasks -> Call] /\ leased \in [Ids -> Lease \cup {None}]
      /\ UNCHANGED <<dlq, dlq_wal, wal_pending, stranded, torn, fate, epoch>>
      /\ call[t].pc = "pop" /\ call[t].batch = {}
  BY DEF PopPending, At, HomeInv, Keyed, KeyedCall, TypeOK
<1>4. Q \in Seq(Entry) /\ Len(Q) \in Nat /\ DOMAIN Q = 1..Len(Q)
  BY <1>2 DEF Popped
<1>5. /\ call' = [call EXCEPT ![t] = c] /\ c.batch = {} /\ c.pc \in {"blocked", "idle"}
      /\ pending' = IF Q = <<>> THEN Q ELSE Tail(Q)
      /\ Q = <<>> => leased' = leased
      /\ Q # <<>> => /\ m = Q[1].id /\ m \in Ids
                     /\ leased'[m] # None /\ leased'[m].entry.id = m
                     /\ \A id \in Ids \ {m} : leased'[id] = leased[id]
  BY <1>2 DEF Popped
<1>6. Keyed'
  <2>1. KeyedCall(c)
    BY <1>5 DEF KeyedCall
  <2>2. \A id \in Ids : leased'[id] # None => leased'[id].entry.id = id
    BY <1>5 DEF HomeInv, Keyed
  <2> QED BY <1>3, <1>5, <2>1, <2>2, KeyedAfter DEF HomeInv, Keyed
<1>7. ASSUME NEW id \in Ids \ Cut' PROVE HomeOf(id)'
  <2>1. HomeOf(id) /\ Sole(id)
    BY <1>3 DEF HomeInv, Cut, HomeOf
  <2>2. SameRoles(call[t], c, id)
    BY <1>3, <1>5 DEF SameRoles, BatchHas, AckHas, HandHas, HomeSteps
  <2>3. /\ InBatch(id)' = InBatch(id) /\ Acking(id)' = Acking(id)
        /\ \A pc \in HomeSteps : HandAt(pc, id)' = HandAt(pc, id)
    BY <1>3, <1>5, <2>2, SameHands
  <2>4. /\ HandAt("enqueue_wal", id)' = HandAt("enqueue_wal", id)
        /\ HandAt("enqueue_push", id)' = HandAt("enqueue_push", id)
        /\ HandAt("take_wal", id)' = HandAt("take_wal", id)
        /\ HandAt("dlq_insert", id)' = HandAt("dlq_insert", id)
        /\ HandAt("dead_lettered", id)' = HandAt("dead_lettered", id)
        /\ HandAt("purge_release", id)' = HandAt("purge_release", id)
    BY <2>3 DEF HomeSteps
  <2>5. Holders(id)' = Holders(id)
    BY <2>3, <2>4 DEF Holders
  <2> DEFINE Here == \E i \in DOMAIN Q : Q[i].id = id
  <2>6. /\ \A i, j \in DOMAIN Q : Q[i].id = id /\ Q[j].id = id => i = j
        /\ \A i, j \in AtDelayed(id)' : i = j
        /\ Here => AtDelayed(id)' = {}
        /\ Here \/ AtDelayed(id)' # {} <=> AtPending(id) # {} \/ AtDelayed(id) # {}
    <3>1. PICK D : D = StillDelayed(waiting) /\ delayed' = D
      BY <1>2
    <3>2. TypeOK
      BY DEF HomeInv
    <3>3. OnePlaceIn(Q, D, id)
      BY <1>2, <2>1, <3>1, <3>2, PromotePlaces
    <3>4. AtDelayed(id)' = {j \in DOMAIN D : D[j].entry.id = id}
      BY <3>1 DEF AtDelayed
    <3> QED BY <3>3, <3>4 DEF OnePlaceIn
  \* The message stays in the queue, or is the one that is leased.
  <2>7. /\ \A i, j \in AtPending(id)' : i = j
        /\ AtPending(id)' # {} => Here /\ leased'[id] = leased[id]
        /\ AtPending(id)' = {} /\ Here => leased'[id] # None
        /\ ~Here => leased'[id] = leased[id]
    <3>1. CASE Q = <<>>
      BY <1>4, <1>5, <3>1 DEF AtPending
    <3>2. CASE Q # <<>>
      <4>1. /\ pending' = Tail(Q) /\ Len(Q) > 0 /\ DOMAIN pending' = 1..(Len(Q) - 1)
            /\ \A i \in 1..(Len(Q) - 1) : pending'[i] = Q[i + 1]
        BY <1>4, <1>5, <3>2
      <4>2. \A i \in AtPending(id)' : i \in Nat /\ i + 1 \in DOMAIN Q /\ Q[i + 1].id = id
        BY <1>4, <4>1 DEF AtPending
      <4>3. ASSUME NEW i \in DOMAIN Q, Q[i].id = id, i # 1 PROVE i - 1 \in AtPending(id)'
        BY <1>4, <4>1, <4>3 DEF AtPending
      <4>4. 1 \in DOMAIN Q
        BY <1>4, <4>1
      <4>5. ASSUME NEW i \in AtPending(id)', NEW j \in AtPending(id)' PROVE i = j
        <5>1. i + 1 = j + 1
          BY <2>6, <4>2
        <5> QED BY <4>2, <5>1
      <4>6. CASE id = m
        <5>1. Q[1].id = id
          BY <1>5, <3>2, <4>6
        <5>2. AtPending(id)' = {}
          <6>1. ASSUME NEW i \in AtPending(id)' PROVE FALSE
            <7>1. i + 1 = 1
              BY <2>6, <4>2, <4>4, <5>1
            <7> QED BY <1>4, <4>1, <7>1 DEF AtPending
          <6> QED BY <6>1
        <5>3. Here /\ leased'[id] # None
          BY <1>5, <3>2, <4>4, <4>6, <5>1
        <5> QED BY <5>2, <5>3
      <4>7. CASE id # m
        <5>1. Q[1].id # id /\ leased'[id] = leased[id]
          BY <1>5, <3>2, <4>7
        <5>2. Here => AtPending(id)' # {}
          BY <4>3, <5>1
        <5>3. AtPending(id)' # {} => Here
          BY <4>2
        <5> QED BY <4>5, <5>1, <5>2, <5>3
      <4> QED BY <4>6, <4>7
    <3> QED BY <3>1, <3>2
  <2> HIDE DEF Here
  <2>8. Here /\ AtPending(id)' = {} => leased[id] = None
    BY <2>1, <2>6 DEF Sole
  <2>9. Sole(id)'
    BY <1>3, <2>1, <2>5, <2>6, <2>7 DEF Sole
  <2>10. Logged(id)' <=> Logged(id)
    BY <1>3, <2>3, <2>4, <2>6, <2>7 DEF Logged, Over
  <2>11. LogAgrees(id)'
    <3>1. Cardinality(InLog(id))' = Cardinality(InLog(id))
      BY <1>3 DEF InLog
    <3> QED BY <1>3, <2>1, <2>4, <2>10, <3>1 DEF HomeOf, LogAgrees
  <2>12. dlq'[id] = dlq[id] /\ dlq_wal'[id] = dlq_wal[id] /\ DlqLogAgrees(id)'
    BY <1>3, <2>1, <2>4 DEF HomeOf, DlqLogAgrees
  <2>13. FateAgrees(id)'
    BY <1>3, <2>1, <2>4, <2>5, <2>6, <2>7 DEF HomeOf, FateAgrees, Gone, Over
  <2> QED BY <2>9, <2>11, <2>12, <2>13 DEF HomeOf
<1> QED BY <1>6, <1>7 DEF HomeInv

-----------------------------------------------------------------------------
(* The steps of checkpoint and annotate, which move no message              *)

LEMMA CheckpointQuiet ==
    ASSUME HomeInv, NEW t \in Tasks, Checkpoint(t)
    PROVE  QuietStep(t)
<1> USE DEF vars, memVars, walVars, cpVars, auxVars
<1>1. /\ call \in [Tasks -> Call] /\ leased \in [Ids -> Lease \cup {None}]
      /\ KeyedCall(call[t]) /\ Idle.pc = "idle" /\ Idle.batch = {}
      /\ \A id \in Ids : /\ leased[id] # None => leased[id].entry.id = id
                         /\ dlq[id] # None => dlq[id].entry.id = id
                         /\ dlq_wal[id] # None => dlq_wal[id].entry.id = id
  BY DEF HomeInv, Keyed, TypeOK, Idle
<1>2. CASE CheckpointStart(t)
  <2>1. PICK g \in grants :
          call' = [call EXCEPT ![t] =
                     [Idle EXCEPT !.op = "checkpoint", !.pc = "checkpoint_wal", !.grant = g,
                                  !.entry = [leased[g.id].entry EXCEPT
                                               !.checkpoint = saves + 1]]]
    BY <1>2 DEF CheckpointStart
  <2> DEFINE new == [Idle EXCEPT !.op = "checkpoint", !.pc = "checkpoint_wal", !.grant = g,
                                 !.entry = [leased[g.id].entry EXCEPT !.checkpoint = saves + 1]]
  <2>5. new.op = "checkpoint" /\ new.pc = "checkpoint_wal" /\ new.batch = {}
    BY DEF Idle
  <2>6. call' = [call EXCEPT ![t] = new]
    BY <2>1
  <2> HIDE DEF new
  <2>2. PICK c : /\ call' = [call EXCEPT ![t] = c] /\ c.op = "checkpoint"
                 /\ c.pc = "checkpoint_wal" /\ c.batch = {}
    BY <2>5, <2>6
  <2>3. call[t].pc = "idle" /\ call[t].batch = {}
    BY <1>1, <1>2 DEF CheckpointStart, Starts, KeyedCall
  <2>4. UNCHANGED <<pending, delayed, leased, dlq, dlq_wal, wal_pending, stranded, torn,
                    fate, epoch>>
    BY <1>2 DEF CheckpointStart
  <2> QED BY <1>1, <2>2, <2>3, <2>4 DEF QuietStep, HomeSteps
<1>3. CASE CheckpointAppend(t)
  <2>1. PICK r \in AppendResult : IF r.ok THEN Goto(t, "checkpoint_set") ELSE Return(t)
    BY <1>3 DEF CheckpointAppend
  <2>2. /\ call[t].pc = "checkpoint_wal" /\ call[t].batch = {} /\ call[t].op # "claim"
    BY <1>1, <1>3 DEF CheckpointAppend, At, KeyedCall
  <2>3. PICK c : /\ call' = [call EXCEPT ![t] = c] /\ c.batch = {}
                 /\ \/ c.pc = "checkpoint_set" /\ c.op # "claim"
                    \/ c.pc = "idle"
    <3>1. CASE r.ok
      <4> DEFINE c == [call[t] EXCEPT !.pc = "checkpoint_set"]
      <4>1. c.pc = "checkpoint_set" /\ c.op # "claim" /\ c.batch = {}
        BY <1>1, <2>2 DEF Call, Locals
      <4> QED BY <2>1, <3>1, <4>1 DEF Goto
    <3>2. CASE ~r.ok
      BY <1>1, <2>1, <3>2 DEF Return
    <3> QED BY <3>1, <3>2
  <2>4. UNCHANGED <<pending, delayed, leased, dlq, dlq_wal, wal_pending, stranded, torn,
                    fate, epoch>>
    BY <1>3 DEF CheckpointAppend
  <2>5. c.pc \notin HomeSteps \cup {"ack_wal"} /\ call[t].pc \notin HomeSteps \cup {"ack_wal"}
        /\ (c.op # "claim" \/ c.pc = "idle")
    BY <2>2, <2>3 DEF HomeSteps
  <2> QED BY <1>1, <2>2, <2>3, <2>4, <2>5 DEF QuietStep
<1>4. CASE CheckpointSet(t)
  <2> DEFINE m == call[t].grant.id
             v == call[t].entry.checkpoint
             new == [leased[m] EXCEPT !.entry.checkpoint = v]
  <2>1. /\ call[t].pc = "checkpoint_set" /\ call[t].batch = {}
        /\ call' = [call EXCEPT ![t] = Idle]
        /\ UNCHANGED <<pending, delayed, dlq, dlq_wal, wal_pending, stranded, torn,
                       fate, epoch>>
    BY <1>1, <1>4 DEF CheckpointSet, At, Return, KeyedCall
  <2>2. m \in Ids /\ v \in Nat
    BY <2>1, CallType DEF HomeInv, EntrySteps, GrantSteps, Entry, Grant
  <2>3. \/ leased' = leased
        \/ leased[m] # None /\ leased' = [leased EXCEPT ![m] = new]
    BY <1>4 DEF CheckpointSet, Holds
  <2>4. leased[m] # None => new # None /\ new.entry.id = m
    <3> SUFFICES ASSUME leased[m] # None PROVE new # None /\ new.entry.id = m
      OBVIOUS
    <3>1. leased[m] \in Lease /\ leased[m].entry.id = m
      BY <1>1, <2>2
    <3>2. [leased[m].entry EXCEPT !.checkpoint = v] \in Entry
      BY <2>2, <3>1, CheckpointedType DEF Lease
    <3>3. new \in Lease /\ new.entry.id = m
      BY <3>1, <3>2 DEF Lease, Entry
    <3> QED BY <3>3, OptionAssumption
  <2> HIDE DEF m, v, new
  <2>5. \A id \in Ids : /\ leased'[id] = None <=> leased[id] = None
                        /\ leased'[id] # None => leased'[id].entry.id = id
    BY <1>1, <2>2, <2>3, <2>4
  <2>6. Idle.pc \notin HomeSteps \cup {"ack_wal"} /\ call[t].pc \notin HomeSteps \cup {"ack_wal"}
    BY <1>1, <2>1 DEF HomeSteps
  <2> QED BY <1>1, <2>1, <2>5, <2>6 DEF QuietStep
<1> QED BY <1>2, <1>3, <1>4 DEF Checkpoint

\* A verdict neither adds nor removes a dead letter.
LEMMA AnnotatedKeeps ==
    ASSUME NEW map \in [Ids -> DeadLetter \cup {None}], NEW m \in Ids,
           NEW v \in Verdicts \cup {None}, NEW id \in Ids,
           map[id] # None => map[id].entry.id = id
    PROVE  /\ Annotated(map, m, v)[id] = None <=> map[id] = None
           /\ Annotated(map, m, v)[id] # None => Annotated(map, m, v)[id].entry.id = id
<1>1. CASE map[m] = None \/ id # m
  BY <1>1 DEF Annotated
<1>2. CASE map[m] # None /\ id = m
  <2> DEFINE new == [map[m] EXCEPT !.triage = v]
  <2>1. map[m] \in DeadLetter
    BY <1>2
  <2>2. new \in DeadLetter /\ new.entry = map[m].entry
    BY <2>1 DEF DeadLetter
  <2>3. Annotated(map, m, v)[id] = new
    BY <1>2 DEF Annotated
  <2> HIDE DEF new
  <2> QED BY <1>2, <2>2, <2>3, OptionAssumption
<1> QED BY <1>1, <1>2

LEMMA AnnotateQuiet ==
    ASSUME HomeInv, NEW t \in Tasks,
           AnnotateStart(t) \/ AnnotateAppend(t) \/ AnnotateSet(t)
    PROVE  QuietStep(t)
<1> USE DEF vars, memVars, walVars, cpVars, auxVars
<1>1. /\ call \in [Tasks -> Call] /\ dlq \in [Ids -> DeadLetter \cup {None}]
      /\ dlq_wal \in [Ids -> DeadLetter \cup {None}]
      /\ KeyedCall(call[t]) /\ Idle.pc = "idle" /\ Idle.batch = {}
      /\ \A id \in Ids : /\ leased[id] # None => leased[id].entry.id = id
                         /\ dlq[id] # None => dlq[id].entry.id = id
                         /\ dlq_wal[id] # None => dlq_wal[id].entry.id = id
  BY DEF HomeInv, Keyed, TypeOK, Idle
<1>2. CASE AnnotateStart(t)
  <2>1. PICK m \in Ids, v \in Verdicts :
          call' = [call EXCEPT ![t] =
                     [Idle EXCEPT !.op = "annotate", !.pc = "annotate_wal",
                                  !.entry = dlq[m].entry, !.verdict = v]]
    BY <1>2 DEF AnnotateStart
  <2> DEFINE new == [Idle EXCEPT !.op = "annotate", !.pc = "annotate_wal",
                                 !.entry = dlq[m].entry, !.verdict = v]
  <2>5. new.op = "annotate" /\ new.pc = "annotate_wal" /\ new.batch = {}
    BY DEF Idle
  <2>6. call' = [call EXCEPT ![t] = new]
    BY <2>1
  <2> HIDE DEF new
  <2>2. PICK c : /\ call' = [call EXCEPT ![t] = c] /\ c.op = "annotate"
                 /\ c.pc = "annotate_wal" /\ c.batch = {}
    BY <2>5, <2>6
  <2>3. call[t].pc = "idle" /\ call[t].batch = {}
    BY <1>1, <1>2 DEF AnnotateStart, Starts, KeyedCall
  <2>4. UNCHANGED <<pending, delayed, leased, dlq, dlq_wal, wal_pending, stranded, torn,
                    fate, epoch>>
    BY <1>2 DEF AnnotateStart
  <2> QED BY <1>1, <2>2, <2>3, <2>4 DEF QuietStep, HomeSteps
<1>3. ASSUME call[t].pc \in {"annotate_wal", "annotate_set"}
      PROVE  /\ call[t].entry.id \in Ids /\ call[t].verdict \in Verdicts \cup {None}
             /\ call[t].batch = {} /\ call[t].op # "claim"
  <2>1. call[t].entry \in Entry
    BY <1>3, CallType DEF HomeInv, EntrySteps
  <2>2. call[t].verdict \in Verdicts \cup {None}
    BY <1>1 DEF Call, Locals
  <2> QED BY <1>1, <1>3, <2>1, <2>2 DEF KeyedCall, Entry
<1>4. CASE AnnotateAppend(t)
  <2> DEFINE map == Annotated(dlq_wal, call[t].entry.id, call[t].verdict)
  <2>1. call[t].pc = "annotate_wal"
    BY <1>4 DEF AnnotateAppend, At
  <2>2. PICK r \in AppendResult : /\ dlq_wal' = IF r.durable THEN map ELSE dlq_wal
                                  /\ IF r.ok THEN Goto(t, "annotate_set") ELSE Return(t)
    BY <1>4 DEF AnnotateAppend
  <2>3. PICK c : /\ call' = [call EXCEPT ![t] = c] /\ c.batch = {}
                 /\ \/ c.pc = "annotate_set" /\ c.op # "claim"
                    \/ c.pc = "idle"
    <3>1. CASE r.ok
      <4> DEFINE c == [call[t] EXCEPT !.pc = "annotate_set"]
      <4>1. c.pc = "annotate_set" /\ c.op # "claim" /\ c.batch = {}
        BY <1>1, <1>3, <2>1 DEF Call, Locals
      <4> QED BY <2>2, <3>1, <4>1 DEF Goto
    <3>2. CASE ~r.ok
      BY <1>1, <2>2, <3>2 DEF Return
    <3> QED BY <3>1, <3>2
  <2>4. UNCHANGED <<pending, delayed, leased, dlq, wal_pending, stranded, torn,
                    fate, epoch>>
    BY <1>4 DEF AnnotateAppend
  <2>5. \A id \in Ids : /\ map[id] = None <=> dlq_wal[id] = None
                        /\ map[id] # None => map[id].entry.id = id
    BY <1>1, <1>3, <2>1, AnnotatedKeeps
  <2> HIDE DEF map
  <2>6. \A id \in Ids : /\ dlq_wal'[id] = None <=> dlq_wal[id] = None
                        /\ dlq_wal'[id] # None => dlq_wal'[id].entry.id = id
    BY <1>1, <2>2, <2>5
  <2>7. c.pc \notin HomeSteps \cup {"ack_wal"} /\ call[t].pc \notin HomeSteps \cup {"ack_wal"}
        /\ (c.op # "claim" \/ c.pc = "idle") /\ call[t].batch = {}
    BY <1>3, <2>1, <2>3 DEF HomeSteps
  <2> QED BY <1>1, <2>3, <2>4, <2>6, <2>7 DEF QuietStep
<1>5. CASE AnnotateSet(t)
  <2> DEFINE map == Annotated(dlq, call[t].entry.id, call[t].verdict)
  <2>1. /\ call[t].pc = "annotate_set" /\ dlq' = map /\ call' = [call EXCEPT ![t] = Idle]
        /\ UNCHANGED <<pending, delayed, leased, dlq_wal, wal_pending, stranded, torn,
                       fate, epoch>>
    BY <1>5 DEF AnnotateSet, At, Return
  <2>2. \A id \in Ids : /\ map[id] = None <=> dlq[id] = None
                        /\ map[id] # None => map[id].entry.id = id
    BY <1>1, <1>3, <2>1, AnnotatedKeeps
  <2> HIDE DEF map
  <2>3. Idle.pc \notin HomeSteps \cup {"ack_wal"} /\ call[t].pc \notin HomeSteps \cup {"ack_wal"}
        /\ call[t].batch = {}
    BY <1>1, <1>3, <2>1 DEF HomeSteps
  <2>4. \A id \in Ids : /\ dlq'[id] = None <=> dlq[id] = None
                        /\ dlq'[id] # None => dlq'[id].entry.id = id
    BY <2>1, <2>2
  <2> QED BY <1>1, <2>1, <2>3, <2>4 DEF QuietStep
<1> QED BY <1>2, <1>4, <1>5

-----------------------------------------------------------------------------
(* The steps of reprocess and purge                                         *)

\* The dead letter passes into the call's hands.
LEMMA TakeDeadLetterHome ==
    ASSUME HomeInv, TypeOK', TearKeyed', NEW t \in Tasks, TakeDeadLetter(t)
    PROVE  HomeInv'
<1> USE DEF vars, memVars, walVars, cpVars, auxVars
<1>1. PICK m \in Ids, o \in {"reprocess", "purge"} :
        /\ Starts(t, o) /\ dlq[m] # None
        /\ dlq' = [dlq EXCEPT ![m] = None]
        /\ call' = [call EXCEPT ![t] = [Idle EXCEPT !.op = o, !.pc = "take_wal",
                                                    !.entry = dlq[m].entry]]
  BY DEF TakeDeadLetter
<1>2. PICK c :
        /\ dlq' = [dlq EXCEPT ![m] = None]
        /\ c = [Idle EXCEPT !.op = o, !.pc = "take_wal", !.entry = dlq[m].entry]
        /\ call' = [call EXCEPT ![t] = c]
  BY <1>1
<1>3. /\ call \in [Tasks -> Call] /\ dlq \in [Ids -> DeadLetter \cup {None}]
      /\ dlq[m] # None /\ dlq[m].entry.id = m
      /\ UNCHANGED <<pending, delayed, leased, dlq_wal, wal_pending, stranded, torn,
                     fate, epoch>>
      /\ call[t].pc = "idle" /\ call[t].batch = {}
  BY <1>1 DEF TakeDeadLetter, Starts, HomeInv, Keyed, KeyedCall, TypeOK
<1>4. c.op = o /\ c.pc = "take_wal" /\ c.entry.id = m /\ c.batch = {}
  BY <1>2, <1>3 DEF Idle
<1>5. \A id \in Ids : dlq'[id] = IF id = m THEN None ELSE dlq[id]
  BY <1>2, <1>3
<1>6. Keyed'
  <2>1. KeyedCall(c)
    BY <1>4 DEF KeyedCall
  <2> QED BY <1>2, <1>3, <1>5, <2>1, KeyedAfter DEF HomeInv, Keyed
<1>7. ASSUME NEW id \in Ids \ Cut' PROVE HomeOf(id)'
  <2>1. HomeOf(id)
    BY <1>3 DEF HomeInv, Cut
  <2>2. /\ AtPending(id)' = AtPending(id) /\ AtDelayed(id)' = AtDelayed(id)
        /\ Cardinality(InLog(id))' = Cardinality(InLog(id))
    BY <1>3 DEF AtPending, AtDelayed, InLog
  <2>3. CASE id # m
    <3>1. SameRoles(call[t], c, id)
      BY <1>3, <1>4, <2>3 DEF SameRoles, BatchHas, AckHas, HandHas, HomeSteps
    <3> QED BY <1>2, <1>3, <1>5, <2>1, <2>2, <2>3, <3>1, HomeUntouched
  <2>4. CASE id = m
    <3>1. Holders(id) = {} /\ Holders(id) \subseteq {t}
      BY <1>3, <2>1, <2>4 DEF HomeOf, Sole
    <3>2. HandsTold(c, t, id)'
      BY <1>2, <1>3, <3>1, OnlyHandAfter
    <3>3. /\ HandAt("dead_lettered", id)' = HandAt("dead_lettered", id)
          /\ HandAt("purge_release", id)' = HandAt("purge_release", id)
      BY <1>2, <1>3, <1>4, AsideKept, ZenonT(40)
    <3>4. ~BatchHas(c, id) /\ ~AckHas(c, id)
      BY <1>4 DEF BatchHas, AckHas
    <3> QED BY <1>3, <1>4, <1>5, <2>1, <2>2, <2>4, <3>1, <3>2, <3>3, <3>4
            DEF HomeOf, Sole, LogAgrees, Logged, DlqLogAgrees, FateAgrees, Gone, Over, Holders,
                HandsTold, HandHas
  <2> QED BY <2>3, <2>4
<1> QED BY <1>6, <1>7 DEF HomeInv

\* The Remove record: the message is over (purge), goes on to be enqueued again
\* (reprocess), or the append fails and the process drops it.
LEMMA TakeAppendHome ==
    ASSUME HomeInv, TypeOK', TearKeyed', NEW t \in Tasks, TakeAppend(t)
    PROVE  HomeInv'
<1> USE DEF vars, memVars, walVars, cpVars, auxVars
<1> DEFINE m == call[t].entry.id
           key == call[t].entry.key
           purge == call[t].op = "purge"
<1>1. PICK r \in AppendResult :
        /\ dlq_wal' = IF r.durable THEN [dlq_wal EXCEPT ![m] = None] ELSE dlq_wal
        /\ IF ~r.ok \/ (purge /\ key = None)
           THEN Return(t)
           ELSE call' = [call EXCEPT ![t] =
                  IF @.op = "purge" THEN [@ EXCEPT !.pc = "purge_release"]
                  ELSE [@ EXCEPT !.pc = "enqueue_wal", !.entry = NewEntry(m, key)]]
        /\ fate' = [fate EXCEPT ![m] = IF r.durable /\ purge THEN "done"
                                       ELSE IF r.durable /\ ~r.ok THEN "dropped" ELSE @]
        /\ stranded' = IF r.ok THEN stranded ELSE stranded \cup {m}
  BY DEF TakeAppend
<1>2. /\ call \in [Tasks -> Call] /\ fate \in [Ids -> Fates]
      /\ dlq_wal \in [Ids -> DeadLetter \cup {None}]
      /\ UNCHANGED <<pending, delayed, leased, dlq, wal_pending, torn, epoch>>
      /\ call[t].pc = "take_wal" /\ call[t].batch = {} /\ call[t].op # "claim"
      /\ Idle.pc = "idle" /\ Idle.batch = {}
  BY DEF TakeAppend, At, HomeInv, Keyed, KeyedCall, TypeOK, Idle
<1>3. call[t].entry \in Entry /\ m \in Ids
  BY <1>2, CallType DEF HomeInv, EntrySteps, Entry
<1>4. PICK c : /\ call' = [call EXCEPT ![t] = c] /\ c.batch = {}
               /\ \/ c = Idle /\ (~r.ok \/ purge)
                  \/ /\ c.op # "claim" /\ c.entry.id = m /\ r.ok
                     /\ c.pc = IF purge THEN "purge_release" ELSE "enqueue_wal"
  <2>1. CASE ~r.ok \/ (purge /\ key = None)
    BY <1>1, <1>2, <2>1 DEF Return
  <2>2. CASE r.ok /\ purge /\ key # None
    <3> DEFINE c == [call[t] EXCEPT !.pc = "purge_release"]
    <3>1. c.pc = "purge_release" /\ c.op # "claim" /\ c.entry.id = m /\ c.batch = {}
      BY <1>2 DEF Call, Locals
    <3>2. call' = [call EXCEPT ![t] = c]
      BY <1>1, <2>2
    <3> QED BY <2>2, <3>1, <3>2
  <2>3. CASE r.ok /\ ~purge
    <3> DEFINE c == [call[t] EXCEPT !.pc = "enqueue_wal", !.entry = NewEntry(m, key)]
    <3>1. c.pc = "enqueue_wal" /\ c.op # "claim" /\ c.entry.id = m /\ c.batch = {}
      BY <1>2 DEF Call, Locals, NewEntry
    <3>2. call' = [call EXCEPT ![t] = c]
      BY <1>1, <2>3
    <3> QED BY <2>3, <3>1, <3>2
  <2> QED BY <2>1, <2>2, <2>3
<1>5. (r.ok => r.durable) /\ \A id \in Ids : dlq_wal'[id] = IF r.durable /\ id = m THEN None
                                                           ELSE dlq_wal[id]
  BY <1>1, <1>2 DEF AppendResult
<1> HIDE DEF key
<1>6. Keyed'
  <2>1. KeyedCall(c)
    BY <1>2, <1>4 DEF KeyedCall
  <2> QED BY <1>2, <1>4, <1>5, <2>1, KeyedAfter DEF HomeInv, Keyed
<1>7. ASSUME NEW id \in Ids \ Cut' PROVE HomeOf(id)'
  <2>1. HomeOf(id)
    BY <1>2 DEF HomeInv, Cut
  <2>2. /\ AtPending(id)' = AtPending(id) /\ AtDelayed(id)' = AtDelayed(id)
        /\ Cardinality(InLog(id))' = Cardinality(InLog(id))
    BY <1>2 DEF AtPending, AtDelayed, InLog
  <2>3. CASE id # m
    <3>1. SameRoles(call[t], c, id)
      BY <1>2, <1>4, <2>3 DEF SameRoles, BatchHas, AckHas, HandHas, HomeSteps
    <3>2. (fate[id])' = fate[id] /\ (id \in stranded' <=> id \in stranded)
      BY <1>1, <1>2, <2>3
    <3> QED BY <1>2, <1>4, <1>5, <2>1, <2>2, <2>3, <3>1, <3>2, HomeUntouched
  <2>4. CASE id = m
    <3>1. t \in HandAt("take_wal", id) /\ t \in Holders(id)
      BY <1>2, <2>4 DEF HandAt, Holders
    <3>2. /\ Holders(id) \subseteq {t} /\ AtPending(id) = {} /\ AtDelayed(id) = {}
          /\ leased[id] = None /\ dlq[id] = None /\ id \notin stranded
      BY <2>1, <3>1, HeldAlone DEF HomeOf
    <3>3. HandsTold(c, t, id)' /\ HandsTold(call[t], t, id)
      BY <1>2, <1>4, <3>2, OnlyHandAfter, OnlyHand
    <3>4. /\ HandAt("dead_lettered", id)' = HandAt("dead_lettered", id)
          /\ HandAt("purge_release", id)' =
               (HandAt("purge_release", id) \ {t})
               \cup (IF HandHas(c, "purge_release", id) THEN {t} ELSE {})
          /\ t \notin HandAt("purge_release", id)
      BY <1>2, <1>4, RolesAfter DEF HandHas, HandAt
    <3>5. /\ ~BatchHas(c, id) /\ ~AckHas(c, id) /\ ~HandHas(c, "take_wal", id)
          /\ ~HandHas(c, "enqueue_push", id) /\ ~HandHas(c, "dlq_insert", id)
          /\ ~BatchHas(call[t], id) /\ ~AckHas(call[t], id)
      BY <1>2, <1>4 DEF BatchHas, AckHas, HandHas
    <3>6. /\ HandHas(c, "enqueue_wal", id) <=> (r.ok /\ ~purge)
          /\ HandHas(c, "purge_release", id) => r.ok /\ purge
      BY <1>2, <1>4, <2>4 DEF HandHas
    <3>7. /\ (fate[id])' = IF r.durable /\ purge THEN "done"
                           ELSE IF r.durable /\ ~r.ok THEN "dropped" ELSE fate[id]
          /\ id \in stranded' <=> ~r.ok
          /\ dlq_wal'[id] = IF r.durable THEN None ELSE dlq_wal[id]
      BY <1>1, <1>2, <1>5, <2>4, <3>2
    <3>8. ~Gone(id) /\ ~Over(id) /\ dlq_wal[id] # None /\ ~Logged(id)
          /\ HandAt("purge_release", id) = {}
      BY <1>2, <2>1, <3>1, <3>2, <3>3, <3>5
      DEF HomeOf, FateAgrees, Gone, DlqLogAgrees, HandsTold, HandHas, Logged, Over
    <3> HIDE DEF m, purge
    <3>9. ~Logged(id)'
      BY <1>2, <1>5, <2>2, <3>2, <3>3, <3>5, <3>7, <3>8 DEF HandsTold, Logged, Over
    <3>10. LogAgrees(id)'
      BY <1>2, <2>1, <2>2, <3>4, <3>8, <3>9 DEF HomeOf, LogAgrees
    <3>11. Holders(id)' = IF r.ok /\ ~purge THEN {t} ELSE {}
      BY <3>3, <3>5, <3>6 DEF Holders, HandsTold
    <3>12. Sole(id)' /\ DlqLogAgrees(id)'
      BY <1>2, <1>5, <2>1, <2>2, <3>2, <3>3, <3>5, <3>7, <3>8, <3>11
      DEF Sole, DlqLogAgrees, HandsTold
    <3>13. HandAt("purge_release", id)' # {} => r.ok /\ purge
      BY <3>4, <3>6, <3>8
    <3>14. FateAgrees(id)'
      BY <1>2, <1>5, <2>2, <3>2, <3>7, <3>8, <3>11, <3>13 DEF FateAgrees, Gone, Over
    <3> QED BY <3>10, <3>12, <3>14 DEF HomeOf
  <2> QED BY <2>3, <2>4
<1> QED BY <1>6, <1>7 DEF HomeInv

\* The purged message is over, and stays so.
LEMMA PurgeReleaseHome ==
    ASSUME HomeInv, TypeOK', TearKeyed', NEW t \in Tasks, PurgeRelease(t)
    PROVE  HomeInv'
<1> USE DEF vars, memVars, walVars, cpVars, auxVars
<1> DEFINE m == call[t].entry.id
<1>1. /\ call' = [call EXCEPT ![t] = Idle] /\ fate' = [fate EXCEPT ![m] = "purged"]
      /\ UNCHANGED <<pending, delayed, leased, dlq, dlq_wal, wal_pending, stranded, torn, epoch>>
      /\ Idle.pc = "idle" /\ Idle.batch = {}
  BY DEF PurgeRelease, Return, Idle
<1>2. /\ call \in [Tasks -> Call] /\ fate \in [Ids -> Fates]
      /\ call[t].pc = "purge_release" /\ call[t].batch = {}
  BY DEF PurgeRelease, At, HomeInv, Keyed, KeyedCall, TypeOK
<1>3. Keyed'
  <2>1. KeyedCall(Idle)
    BY <1>1 DEF KeyedCall
  <2> QED BY <1>1, <2>1, KeyedAfter DEF HomeInv, Keyed
<1> HIDE DEF m
<1>4. ASSUME NEW id \in Ids \ Cut' PROVE HomeOf(id)'
  <2>1. HomeOf(id)
    BY <1>1 DEF HomeInv, Cut
  <2>2. /\ AtPending(id)' = AtPending(id) /\ AtDelayed(id)' = AtDelayed(id)
        /\ Cardinality(InLog(id))' = Cardinality(InLog(id))
    BY <1>1 DEF AtPending, AtDelayed, InLog
  <2>3. CASE id # m
    <3>1. SameRoles(call[t], Idle, id)
      BY <1>1, <1>2, <2>3 DEF SameRoles, BatchHas, AckHas, HandHas, HomeSteps, m
    <3>2. (fate[id])' = fate[id]
      BY <1>1, <1>2, <2>3
    <3> QED BY <1>1, <1>2, <2>1, <2>2, <3>1, <3>2, HomeUntouched
  <2>4. CASE id = m
    <3>1. t \in HandAt("purge_release", id)
      BY <1>2, <2>4 DEF HandAt, m
    <3>2. fate[id] \in {"done", "purged"} /\ (fate[id])' = "purged"
      BY <1>1, <1>2, <2>1, <2>4, <3>1 DEF HomeOf, FateAgrees
    <3>3. InBatch(id)' = InBatch(id) /\ Acking(id)' = Acking(id)
      BY <1>1, <1>2, RolesAfter DEF InBatch, BatchHas, Acking, AckHas
    <3>4. \A pc \in HomeSteps \ {"purge_release"} : HandAt(pc, id)' = HandAt(pc, id)
      BY <1>1, <1>2, RolesAfter DEF HomeSteps, HandHas, HandAt
    <3>5. /\ HandAt("enqueue_wal", id)' = HandAt("enqueue_wal", id)
          /\ HandAt("enqueue_push", id)' = HandAt("enqueue_push", id)
          /\ HandAt("take_wal", id)' = HandAt("take_wal", id)
          /\ HandAt("dlq_insert", id)' = HandAt("dlq_insert", id)
          /\ HandAt("dead_lettered", id)' = HandAt("dead_lettered", id)
      BY <3>4 DEF HomeSteps
    <3>6. Holders(id)' = Holders(id)
      BY <3>3, <3>5 DEF Holders
    <3>7. Gone(id) /\ Over(id) /\ Over(id)' /\ (Logged(id)' <=> Logged(id))
      BY <1>1, <2>2, <3>2, <3>3, <3>5 DEF Logged, Gone, Over
    <3>8. LogAgrees(id)'
      BY <1>1, <2>1, <2>2, <3>5, <3>7 DEF HomeOf, LogAgrees
    <3>9. Sole(id)' /\ DlqLogAgrees(id)' /\ FateAgrees(id)'
      BY <1>1, <2>1, <2>2, <3>2, <3>5, <3>6, <3>7
      DEF HomeOf, Sole, DlqLogAgrees, FateAgrees
    <3> QED BY <3>8, <3>9 DEF HomeOf
  <2> QED BY <2>3, <2>4
<1> QED BY <1>3, <1>4 DEF HomeInv

-----------------------------------------------------------------------------
(* The remaining steps of a running process                                 *)

\* A failed enqueue gives its key back; the message was dropped before.
LEMMA EnqueueUndoQuiet ==
    ASSUME HomeInv, NEW t \in Tasks, EnqueueUndo(t)
    PROVE  QuietStep(t)
<1> USE DEF vars, memVars, walVars, cpVars, auxVars
<1>1. /\ call' = [call EXCEPT ![t] = Idle] /\ Idle.pc = "idle" /\ Idle.batch = {}
      /\ UNCHANGED <<pending, delayed, leased, dlq, dlq_wal, wal_pending, stranded, torn,
                     fate, epoch>>
      /\ call[t].pc = "enqueue_undo" /\ call[t].batch = {}
      /\ \A id \in Ids : /\ leased[id] # None => leased[id].entry.id = id
                         /\ dlq[id] # None => dlq[id].entry.id = id
                         /\ dlq_wal[id] # None => dlq_wal[id].entry.id = id
  BY DEF EnqueueUndo, At, Return, Idle, HomeInv, Keyed, KeyedCall
<1>2. Idle.pc \notin HomeSteps \cup {"ack_wal"} /\ call[t].pc \notin HomeSteps \cup {"ack_wal"}
  BY <1>1 DEF HomeSteps
<1> QED BY <1>1, <1>2 DEF QuietStep

\* A lease runs out where it is.
LEMMA VisibilityTimeoutHome ==
    ASSUME HomeInv, TypeOK', TearKeyed', NEW m \in Ids, VisibilityTimeout(m)
    PROVE  HomeInv'
<1> USE DEF vars, memVars, walVars, cpVars, auxVars
<1> DEFINE new == [leased[m] EXCEPT !.expired = TRUE]
<1>1. /\ leased \in [Ids -> Lease \cup {None}] /\ leased[m] # None
      /\ leased' = [leased EXCEPT ![m] = new]
      /\ UNCHANGED <<pending, delayed, call, dlq, dlq_wal, wal_pending, stranded, torn,
                     fate, epoch>>
      /\ \A id \in Ids : leased[id] # None => leased[id].entry.id = id
  BY DEF VisibilityTimeout, HomeInv, TypeOK, Keyed
<1>2. new \in Lease /\ new.entry = leased[m].entry
  BY <1>1 DEF Lease
<1>3. new # None
  BY <1>2, OptionAssumption
<1> HIDE DEF new
<1>4. \A id \in Ids : /\ leased'[id] = None <=> leased[id] = None
                      /\ leased'[id] # None => leased'[id].entry.id = id
                      /\ AtDelayed(id)' = AtDelayed(id)
  BY <1>1, <1>2, <1>3 DEF AtDelayed
<1> QED BY <1>1, <1>4, StillHome

\* A backoff runs out where it is.
LEMMA BackoffElapsesHome ==
    ASSUME HomeInv, TypeOK', TearKeyed', BackoffElapses
    PROVE  HomeInv'
<1> USE DEF vars, memVars, walVars, cpVars, auxVars
<1>1. PICK i \in DOMAIN delayed : delayed' = [delayed EXCEPT ![i].ready = TRUE]
  BY DEF BackoffElapses
<1>2. /\ delayed \in Seq(Delayed) /\ delayed[i] \in Delayed
      /\ UNCHANGED <<pending, leased, call, dlq, dlq_wal, wal_pending, stranded, torn,
                     fate, epoch>>
      /\ \A id \in Ids : leased[id] # None => leased[id].entry.id = id
  BY DEF BackoffElapses, HomeInv, TypeOK, Keyed
<1>3. [delayed[i] EXCEPT !.ready = TRUE].entry = delayed[i].entry
  BY <1>2 DEF Delayed
<1>4. DOMAIN delayed' = DOMAIN delayed
      /\ \A k \in DOMAIN delayed : delayed'[k].entry = delayed[k].entry
  BY <1>1, <1>2, <1>3
<1>5. ASSUME NEW id \in Ids PROVE AtDelayed(id)' = AtDelayed(id)
  BY <1>4 DEF AtDelayed
<1> QED BY <1>2, <1>5, StillHome

-----------------------------------------------------------------------------
(* A crash, and the restart that replays the two logs                       *)

\* A message with an Enqueue record to its name is no dead letter in the DLQ's
\* log, unless its dead-lettering is between the two records.
LEMMA LoggedNotDead ==
    ASSUME HomeInv, NEW id \in Ids \ torn, Logged(id), HandAt("dlq_insert", id) = {}
    PROVE  dlq_wal[id] = None
<1>1. HomeOf(id) /\ \A t \in Tasks : KeyedCall(call[t])
  BY DEF HomeInv, Cut, Keyed
<1>2. CASE AtPending(id) # {} \/ AtDelayed(id) # {} \/ leased[id] # None
  <2>1. Holders(id) = {} /\ dlq[id] = None /\ id \notin stranded
    BY <1>1, <1>2 DEF HomeOf, Sole
  <2>2. HandAt("take_wal", id) = {}
    BY <2>1 DEF Holders
  <2> QED BY <1>1, <2>1, <2>2 DEF HomeOf, DlqLogAgrees
<1>3. CASE InBatch(id) # {} \/ HandAt("enqueue_push", id) # {} \/ Acking(id) # {}
  <2>1. PICK t \in Tasks : t \in InBatch(id) \cup HandAt("enqueue_push", id) \cup Acking(id)
    BY <1>3 DEF InBatch, HandAt, Acking
  <2>2. call[t].pc # "take_wal" /\ t \in Holders(id)
    BY <1>1, <2>1 DEF InBatch, HandAt, Acking, KeyedCall, Holders
  <2>3. Holders(id) \subseteq {t} /\ dlq[id] = None /\ id \notin stranded
    BY <1>1, <2>2, HeldAlone DEF HomeOf
  <2>4. HandAt("take_wal", id) = {}
    BY <2>2, <2>3 DEF Holders, HandAt
  <2> QED BY <1>1, <2>3, <2>4 DEF HomeOf, DlqLogAgrees
<1> QED BY <1>2, <1>3 DEF Logged

\* A message none of whose records lies behind a torn frame is in what a replay
\* rebuilds when it is in what all the records add up to.
LEMMA ReplayFinds ==
    ASSUME TypeOK, NEW id \in Ids \ Unreplayed
    PROVE  InWal(id) <=> InLog(id) # {}
<1> DEFINE queue == ReplayedWal.pending
<1>1. ASSUME NEW q \in Seq(WalEnqueue) PROVE IsFiniteSet(RecordsOf(q, id))
  <2>1. RecordsOf(q, id) = Where(q, {w \in WalEnqueue : w.id = id})
    BY DEF RecordsOf, Where
  <2> QED BY <2>1, WhereFinite
<1>2. queue \in Seq(WalEnqueue) /\ wal_pending \in Seq(WalEnqueue)
  BY ReplayedType DEF WalState, TypeOK
<1>3. Cardinality(RecordsOf(queue, id)) = Cardinality(RecordsOf(wal_pending, id))
  BY DEF Unreplayed
<1>4. RecordsOf(queue, id) = {} <=> RecordsOf(wal_pending, id) = {}
  BY <1>1, <1>2, <1>3, FS_EmptySet
<1> QED BY <1>4 DEF InWal, InLog, RecordsOf

\* A restart finds of a message none of whose records lies behind a torn frame
\* what all of them add up to.
LEMMA CrashRecords ==
    ASSUME TypeOK, CrashAndOpen, NEW id \in Ids
    PROVE  /\ AtPending(id)' = InLog(id)' /\ IsFiniteSet(InLog(id)')
           /\ (dlq[id])' = (dlq_wal[id])'
           /\ id \notin Unreplayed =>
                /\ Cardinality(InLog(id)') = Cardinality(InLog(id))
                /\ (dlq_wal[id])' = dlq_wal[id]
                /\ (wal_checkpoints[id])' = wal_checkpoints[id]
<1> DEFINE queue == ReplayedWal.pending
<1>1. queue \in Seq(WalEnqueue) /\ ReplayedWal.checkpoints \in [Ids -> Nat]
  BY ReplayedType DEF WalState
<1>2. /\ pending' = Reopened(queue, ReplayedWal.checkpoints) /\ wal_pending' = queue
      /\ wal_checkpoints' = ReplayedWal.checkpoints
      /\ dlq' = ReplayedDlq /\ dlq_wal' = ReplayedDlq
  BY DEF CrashAndOpen
<1>3. /\ DOMAIN pending' = DOMAIN queue
      /\ \A i \in DOMAIN queue : pending'[i].id = queue[i].id
  BY <1>1, <1>2, ReopenedType
<1>4. InLog(id)' = RecordsOf(queue, id)
  BY <1>2 DEF InLog, RecordsOf
<1>5. AtPending(id)' = InLog(id)'
  BY <1>3, <1>4 DEF AtPending, RecordsOf
<1>6. IsFiniteSet(RecordsOf(queue, id))
  <2>1. RecordsOf(queue, id) = Where(queue, {w \in WalEnqueue : w.id = id})
    BY <1>1 DEF RecordsOf, Where
  <2> QED BY <1>1, <2>1, WhereFinite
<1>7. InLog(id) = RecordsOf(wal_pending, id)
  BY DEF InLog, RecordsOf
<1> QED BY <1>2, <1>4, <1>5, <1>6, <1>7 DEF Unreplayed

\* A restart forgets every place but the two logs, and finds in them one home at
\* most for every message whose dead-lettering was not cut in two and none of
\* whose records it cuts off.
LEMMA CrashHome ==
    ASSUME HomeInv, TypeOK', TearKeyed', CrashAndOpen
    PROVE  HomeInv'
<1> USE DEF vars, memVars, walVars, cpVars, auxVars
<1>1. /\ delayed' = <<>> /\ dlq' = dlq_wal' /\ dlq_wal' = ReplayedDlq /\ stranded' = {}
      /\ \A id \in Ids : leased'[id] = None
      /\ \A t \in Tasks : call'[t] = Idle
      /\ epoch' # 0 /\ TypeOK
  BY DEF CrashAndOpen, HomeInv, TypeOK
<1>2. torn \subseteq torn' /\ Unreplayed \subseteq torn' /\ \A t \in Tasks : call[t].pc \in {"dlq_insert", "dead_lettered"}
                                              => call[t].entry.id \in torn'
  BY DEF CrashAndOpen
<1>3. \A id \in Ids : (fate[id])' = IF HandAt("enqueue_wal", id) # {} /\ BeingReprocessed(id)
                                    THEN "dropped" ELSE fate[id]
  BY DEF CrashAndOpen, HandAt, BeingReprocessed
<1>4. Idle.pc = "idle" /\ Idle.batch = {}
  BY DEF Idle
<1>5. Keyed'
  <2>1. \A t \in Tasks : KeyedCall(call[t])'
    BY <1>1, <1>4 DEF KeyedCall
  <2>2. ASSUME NEW id \in Ids, ReplayedDlq[id] # None PROVE ReplayedDlq[id].entry.id = id
    BY <2>2 DEF HomeInv, Keyed, TearKeyed, ReplayedDlq
  <2> QED BY <1>1, <2>1, <2>2 DEF Keyed
<1>6. ASSUME NEW id \in Ids \ Cut' PROVE HomeOf(id)'
  <2>1. HomeOf(id) /\ id \in Ids \ torn /\ id \in Ids \ torn' /\ id \notin Unreplayed
    BY <1>1, <1>2 DEF HomeInv, Cut
  <2>2. HandAt("dlq_insert", id) = {} /\ HandAt("dead_lettered", id) = {}
    BY <1>2, <2>1 DEF HandAt
  <2>3. Cardinality(InLog(id)) = IF Logged(id) THEN 1 ELSE 0
    BY <2>1, <2>2, FS_EmptySet DEF HomeOf, LogAgrees
  <2>4. /\ IsFiniteSet(InLog(id)') /\ Cardinality(InLog(id)') = Cardinality(InLog(id))
        /\ AtPending(id)' = InLog(id)' /\ (dlq_wal[id])' = dlq_wal[id]
    BY <1>1, <2>1, CrashRecords
  <2>5. /\ InLog(id)' # {} <=> Logged(id)
        /\ \A i, j \in InLog(id)' : i = j
    <3>1. CASE Logged(id)
      <4>1. Cardinality(InLog(id)') = 1
        BY <2>3, <2>4, <3>1
      <4>2. PICK i : InLog(id)' = {i}
        BY <2>4, <4>1, FS_Singleton
      <4> QED BY <3>1, <4>2
    <3>2. CASE ~Logged(id)
      <4>1. Cardinality(InLog(id)') = 0
        BY <2>3, <2>4, <3>2
      <4>2. InLog(id)' = {}
        BY <2>4, <4>1, FS_EmptySet
      <4> QED BY <3>2, <4>2
    <3> QED BY <3>1, <3>2
  <2>6. AtDelayed(id)' = {}
    BY <1>1 DEF AtDelayed
  <2>7. /\ InBatch(id)' = {} /\ Acking(id)' = {}
        /\ \A pc \in HomeSteps : HandAt(pc, id)' = {}
    BY <1>1, <1>4 DEF InBatch, Acking, HandAt, HomeSteps
  <2>8. /\ HandAt("enqueue_wal", id)' = {} /\ HandAt("enqueue_push", id)' = {}
        /\ HandAt("take_wal", id)' = {} /\ HandAt("dlq_insert", id)' = {}
        /\ HandAt("dead_lettered", id)' = {} /\ HandAt("purge_release", id)' = {}
    BY <2>7 DEF HomeSteps
  <2>9. Holders(id)' = {}
    BY <2>7, <2>8 DEF Holders
  <2>10. Logged(id) => dlq_wal[id] = None
    BY <2>1, <2>2, LoggedNotDead
  <2>11. (leased[id])' = None /\ (dlq[id])' = dlq_wal[id] /\ (dlq_wal[id])' = dlq_wal[id]
         /\ id \notin stranded'
    BY <1>1, <2>4
  <2>12. Sole(id)'
    BY <2>4, <2>5, <2>6, <2>9, <2>10, <2>11 DEF Sole
  <2>13. Logged(id)' <=> Logged(id)
    BY <2>4, <2>5, <2>6, <2>7, <2>8, <2>11 DEF Logged
  <2>14. LogAgrees(id)'
    <3>1. Cardinality(InLog(id))' = Cardinality(InLog(id))
      BY <2>4
    <3>2. IsFiniteSet({}) /\ Cardinality({}) = 0
      BY FS_EmptySet
    <3> QED BY <2>3, <2>8, <2>13, <3>1, <3>2 DEF LogAgrees
  <2>15. DlqLogAgrees(id)'
    BY <2>8, <2>11 DEF DlqLogAgrees
  <2>16. Over(id)' \/ (fate[id])' = "unused" => ~Logged(id) /\ dlq_wal[id] = None
    <3>1. CASE Over(id) \/ fate[id] = "unused"
      <4>1. /\ AtPending(id) = {} /\ AtDelayed(id) = {} /\ leased[id] = None
            /\ Holders(id) = {} /\ dlq_wal[id] = None
            /\ (fate[id] = "unused" => id \notin stranded)
        BY <2>1, <3>1 DEF HomeOf, FateAgrees, Gone
      <4>2. /\ InBatch(id) = {} /\ HandAt("enqueue_push", id) = {} /\ Acking(id) = {}
        BY <4>1 DEF Holders
      <4> QED BY <2>2, <3>1, <4>1, <4>2 DEF Logged
    <3>2. CASE ~(Over(id) \/ fate[id] = "unused") /\ HandAt("enqueue_wal", id) # {}
      <4>1. PICK t \in Tasks : t \in HandAt("enqueue_wal", id)
        BY <3>2 DEF HandAt
      <4>2. call[t].pc = "enqueue_wal" /\ t \in Holders(id) /\ KeyedCall(call[t])
        BY <4>1 DEF HandAt, Holders, HomeInv, Keyed
      <4>3. /\ Holders(id) \subseteq {t} /\ AtPending(id) = {} /\ AtDelayed(id) = {}
            /\ leased[id] = None /\ dlq[id] = None /\ id \notin stranded
        BY <2>1, <4>2, HeldAlone DEF HomeOf
      <4>4. HandsTold(call[t], t, id)
        BY <4>3, OnlyHand
      <4>5. /\ ~BatchHas(call[t], id) /\ ~AckHas(call[t], id)
            /\ ~HandHas(call[t], "enqueue_push", id) /\ ~HandHas(call[t], "take_wal", id)
        BY <4>2 DEF BatchHas, AckHas, HandHas, KeyedCall
      <4>6. InBatch(id) = {} /\ Acking(id) = {} /\ HandAt("enqueue_push", id) = {}
            /\ HandAt("take_wal", id) = {}
        BY <4>4, <4>5 DEF HandsTold
      <4> QED BY <2>1, <2>2, <4>3, <4>6 DEF Logged, HomeOf, DlqLogAgrees
    <3>3. CASE ~(Over(id) \/ fate[id] = "unused") /\ HandAt("enqueue_wal", id) = {}
      BY <1>3, <3>3 DEF Over
    <3> QED BY <3>1, <3>2, <3>3
  <2>17. FateAgrees(id)'
    BY <1>1, <2>4, <2>5, <2>6, <2>8, <2>9, <2>11, <2>16 DEF FateAgrees, Gone
  <2> QED BY <2>12, <2>14, <2>15, <2>17 DEF HomeOf
<1> QED BY <1>5, <1>6 DEF HomeInv

-----------------------------------------------------------------------------
(* The theorems                                                             *)

LEMMA HomeInit == Init => HomeInv
<1> SUFFICES ASSUME Init PROVE HomeInv
  OBVIOUS
<1>1. TypeOK
  BY IdleType DEF Init, TypeOK, TornLogsOK, Fates
<1>2. Idle.pc = "idle" /\ Idle.batch = {}
  BY DEF Idle
<1>3. Keyed /\ TearKeyed
  BY <1>2 DEF Init, Keyed, KeyedCall, TearKeyed
<1>4. ASSUME NEW id \in Ids PROVE HomeOf(id)
  <2>1. AtPending(id) = {} /\ AtDelayed(id) = {} /\ InLog(id) = {}
    BY DEF Init, AtPending, AtDelayed, InLog
  <2>2. /\ InBatch(id) = {} /\ Acking(id) = {}
        /\ HandAt("enqueue_wal", id) = {} /\ HandAt("enqueue_push", id) = {}
        /\ HandAt("take_wal", id) = {} /\ HandAt("dlq_insert", id) = {}
        /\ HandAt("dead_lettered", id) = {} /\ HandAt("purge_release", id) = {}
    BY <1>2 DEF Init, InBatch, Acking, HandAt
  <2>3. leased[id] = None /\ dlq[id] = None /\ dlq_wal[id] = None /\ id \notin stranded
    BY DEF Init
  <2>4. Holders(id) = {} /\ ~Logged(id)
    BY <2>1, <2>2, <2>3 DEF Holders, Logged
  <2>5. LogAgrees(id)
    BY <2>1, <2>2, <2>4, FS_EmptySet DEF LogAgrees
  <2> QED BY <2>1, <2>2, <2>3, <2>4, <2>5 DEF HomeOf, Sole, DlqLogAgrees, FateAgrees
<1> QED BY <1>1, <1>3, <1>4 DEF HomeInv

\* Every step keeps every message at home.
LEMMA HomeStep == HomeInv /\ [Next]_vars => HomeInv'
<1> SUFFICES ASSUME HomeInv, [Next]_vars PROVE HomeInv'
  OBVIOUS
<1>1. TypeOK' /\ TearKeyed'
  BY TypeStep, TearStep DEF HomeInv, TearMoves, TearKeyed, ReplayedDlq, Keyed
<1>2. CASE UNCHANGED vars
  <2>1. UNCHANGED <<pending, delayed, leased, call, dlq, dlq_wal, wal_pending, stranded, torn,
                    fate, epoch>>
    BY <1>2 DEF vars, memVars, walVars, auxVars
  <2>2. \A id \in Ids : /\ leased[id] # None => leased[id].entry.id = id
                        /\ AtDelayed(id)' = AtDelayed(id)
    BY <2>1 DEF HomeInv, Keyed, AtDelayed
  <2> QED BY <1>1, <2>1, <2>2, StillHome
<1>3. ASSUME NEW t \in Tasks, Enqueue(t) PROVE HomeInv'
  <2>1. CASE EnqueueDuplicate(t)
    <3>1. UNCHANGED <<pending, delayed, leased, call, dlq, dlq_wal, wal_pending, stranded, torn,
                      fate, epoch>>
      BY <2>1 DEF EnqueueDuplicate, memVars, walVars
    <3>2. \A id \in Ids : /\ leased[id] # None => leased[id].entry.id = id
                          /\ AtDelayed(id)' = AtDelayed(id)
      BY <3>1 DEF HomeInv, Keyed, AtDelayed
    <3> QED BY <1>1, <3>1, <3>2, StillHome
  <2> QED BY <1>1, <1>3, <2>1, EnqueueReserveHome, WriteEnqueueHome, EnqueueUndoQuiet,
             QuietHome, PushPendingHome DEF Enqueue
<1>4. ASSUME NEW t \in Tasks, Claim(t) PROVE HomeInv'
  BY <1>1, <1>4, ReclaimExpiredHome, PopPendingHome, CancelClaimHome DEF Claim
<1>5. ASSUME NEW t \in Tasks, Settle(t) PROVE HomeInv'
  BY <1>1, <1>5, AckReleaseHome, AckAppendHome, NackReleaseHome DEF Settle
<1>6. ASSUME NEW t \in Tasks, Resolve(t) PROVE HomeInv'
  BY <1>1, <1>6, RetryLaterHome, RecordDeadLetterHome, InsertDeadLetterHome,
     AppendDeadLetteredHome DEF Resolve
<1>7. ASSUME NEW t \in Tasks, Checkpoint(t) PROVE HomeInv'
  BY <1>1, <1>7, CheckpointQuiet, QuietHome
<1>8. ASSUME NEW t \in Tasks, Triage(t) PROVE HomeInv'
  BY <1>1, <1>8, AnnotateQuiet, QuietHome, TakeDeadLetterHome, TakeAppendHome,
     PurgeReleaseHome DEF Triage
<1>9. CASE Next
  BY <1>1, <1>2, <1>3, <1>4, <1>5, <1>6, <1>7, <1>8, <1>9, VisibilityTimeoutHome,
     BackoffElapsesHome, CrashHome DEF Next, Rest
<1> QED BY <1>2, <1>9

\* Competing consumers get a message one at a time: through any interleaving of
\* claims, expiries, late acks and nacks, dead-lettering, reprocessing, failed
\* appends (whole, partial or absent in the file), dropped claims and restarts, a
\* message is in one place of the process at most, unless its dead-lettering was
\* cut between its two records or a restart cut off a record of it that lay behind
\* a torn frame.
THEOREM MessageHasOneHome == Spec => []OneHome
<1>1. HomeInv => OneHome
  <2> SUFFICES ASSUME HomeInv, NEW id \in Ids \ torn PROVE Cardinality(Copies(id)) <= 1
    BY DEF OneHome
  <2>1. Sole(id)
    BY DEF HomeInv, HomeOf, Cut
  <2> DEFINE Hands == {u \in Tasks : \E e \in InHand(u) : e.id = id}
  <2>2. Hands \subseteq Holders(id)
    BY DEF InHand, Holders, InBatch, HandAt
  <2> HIDE DEF Hands
  <2>3. Copies(id) = {<<"pending", i>> : i \in AtPending(id)}
                     \cup {<<"delayed", i>> : i \in AtDelayed(id)}
                     \cup {<<"leased", 0>> : l \in {leased[id]} \ {None}}
                     \cup {<<"dlq", 0>> : d \in {dlq[id]} \ {None}}
                     \cup {<<"call", t>> : t \in Hands}
    BY DEF Copies, AtPending, AtDelayed, Hands
  <2>4. \A x, y \in Copies(id) : x = y
    BY <2>1, <2>2, <2>3 DEF Sole
  <2>5. Cardinality(Copies(id)) = IF Copies(id) = {} THEN 0 ELSE 1
    BY <2>4, AtMostOne
  <2> QED BY <2>5
<1> QED BY <1>1, HomeInit, HomeStep, PTL DEF Spec

\* What ack or purge_dead_letter durably finished is in no place of the process,
\* then or after any number of restarts, unless its dead-lettering was cut
\* between its two records or a restart cut off a record of it that lay behind a
\* torn frame.
THEOREM FinishedNeverReturns == Spec => []FinishedStaysGone
<1>1. HomeInv => FinishedStaysGone
  <2> SUFFICES ASSUME HomeInv, NEW id \in Ids \ torn, fate[id] \in {"done", "purged"}
               PROVE  Copies(id) = {}
    BY DEF FinishedStaysGone
  <2>1. /\ AtPending(id) = {} /\ AtDelayed(id) = {} /\ leased[id] = None /\ dlq[id] = None
        /\ Holders(id) = {}
    BY DEF HomeInv, HomeOf, FateAgrees, Gone, Over, Cut
  <2>2. {u \in Tasks : \E e \in InHand(u) : e.id = id} = {}
    BY <2>1 DEF InHand, Holders, InBatch, HandAt
  <2> QED BY <2>1, <2>2 DEF Copies, AtPending, AtDelayed
<1> QED BY <1>1, HomeInit, HomeStep, PTL DEF Spec

\* When no call is in progress the group's queues and its DLQ hold exactly the
\* messages that ConsumerGroup::open would rebuild from the two logs, except for
\* what a failed append or a dropped claim left behind and for the messages with a
\* record behind a torn frame.
THEOREM LogsMatchMemory == Spec => []MemoryMatchesWal
<1>1. HomeInv => MemoryMatchesWal
  <2> SUFFICES ASSUME HomeInv, Quiet, NEW id \in Ids \ (torn \cup stranded \cup Unreplayed)
               PROVE  /\ Live(id) <=> InWal(id)
                      /\ (dlq[id] # None) <=> InDlqWal(id)
    BY DEF MemoryMatchesWal
  <2>1. HomeOf(id) /\ wal_pending \in Seq(WalEnqueue)
        /\ \A t \in Tasks : call[t].pc \in {"idle", "blocked"} /\ call[t].batch = {}
    BY DEF HomeInv, Cut, TypeOK, Quiet, Keyed, KeyedCall
  <2>2. /\ InBatch(id) = {} /\ Acking(id) = {}
        /\ HandAt("enqueue_push", id) = {} /\ HandAt("take_wal", id) = {}
        /\ HandAt("dlq_insert", id) = {} /\ HandAt("dead_lettered", id) = {}
    BY <2>1 DEF InBatch, Acking, HandAt
  <2>3. Logged(id) <=> Live(id)
    BY <2>2 DEF Logged, Live, AtPending, AtDelayed
  <2>4. Cardinality(InLog(id)) = IF Logged(id) THEN 1 ELSE 0
    BY <2>1, <2>2, FS_EmptySet DEF HomeOf, LogAgrees
  <2>5. InLog(id) # {} <=> Logged(id)
    <3>1. IsFiniteSet(InLog(id))
      BY <2>1, LogWhere
    <3>2. InLog(id) = {} <=> Cardinality(InLog(id)) = 0
      BY <3>1, FS_EmptySet
    <3> QED BY <2>4, <3>2
  <2>6. InWal(id) <=> InLog(id) # {}
    BY ReplayFinds DEF HomeInv
  <2>7. dlq_wal[id] # None <=> dlq[id] # None
    BY <2>1, <2>2 DEF HomeOf, DlqLogAgrees
  <2>8. InDlqWal(id) <=> dlq_wal[id] # None
    BY DEF InDlqWal, Unreplayed
  <2> QED BY <2>3, <2>5, <2>6, <2>7, <2>8
<1> QED BY <1>1, HomeInit, HomeStep, PTL DEF Spec

-----------------------------------------------------------------------------
(* Leases                                                                   *)

\* A grant is of this process or of an earlier one.
GrantsPast == \A g \in grants : g.epoch = epoch \/ g.epoch < epoch

LEMMA GrantsStep ==
    ASSUME TypeOK, GrantsPast, [Next]_vars
    PROVE  GrantsPast'
<1> USE DEF vars, memVars, walVars, cpVars, auxVars, GrantsPast
<1>1. CASE UNCHANGED <<grants, epoch>>
  BY <1>1
<1>2. ASSUME NEW t \in Tasks, PopPending(t) PROVE GrantsPast'
  <2>1. UNCHANGED epoch /\ \A g \in grants' : g \in grants \/ g.epoch = epoch
    BY <1>2 DEF PopPending
  <2> QED BY <2>1
<1>3. CASE CrashAndOpen
  <2>1. UNCHANGED grants /\ epoch' = epoch + 1
    BY <1>3 DEF CrashAndOpen
  <2>2. epoch \in Nat /\ \A g \in grants : g.epoch \in Nat
    BY DEF TypeOK, Grant
  <2> QED BY <2>1, <2>2
<1>4. CASE UNCHANGED vars
  BY <1>4
<1>5. ASSUME NEW t \in Tasks, Enqueue(t) PROVE UNCHANGED <<grants, epoch>>
  BY <1>5 DEF Enqueue, EnqueueReserve, EnqueueDuplicate, WriteEnqueueRecord, EnqueueUndo,
              PushPending
<1>6. ASSUME NEW t \in Tasks, ReclaimExpired(t) \/ CancelClaim(t) PROVE UNCHANGED <<grants, epoch>>
  BY <1>6 DEF ReclaimExpired, CancelClaim
<1>7. ASSUME NEW t \in Tasks, Settle(t) PROVE UNCHANGED <<grants, epoch>>
  BY <1>7 DEF Settle, AckRelease, AckAppend, NackRelease
<1>8. ASSUME NEW t \in Tasks, Resolve(t) PROVE UNCHANGED <<grants, epoch>>
  BY <1>8 DEF Resolve, RetryLater, RecordDeadLetter, InsertDeadLetter, AppendDeadLettered
<1>9. ASSUME NEW t \in Tasks, Checkpoint(t) PROVE UNCHANGED <<grants, epoch>>
  BY <1>9 DEF Checkpoint, CheckpointStart, CheckpointAppend, CheckpointSet
<1>10. ASSUME NEW t \in Tasks, Triage(t) PROVE UNCHANGED <<grants, epoch>>
  BY <1>10 DEF Triage, AnnotateStart, AnnotateAppend, AnnotateSet, TakeDeadLetter, TakeAppend,
               PurgeRelease
<1>11. CASE BackoffElapses \/ \E id \in Ids : VisibilityTimeout(id)
  BY <1>11 DEF BackoffElapses, VisibilityTimeout
<1> QED BY <1>1, <1>2, <1>3, <1>4, <1>5, <1>6, <1>7, <1>8, <1>9, <1>10, <1>11
        DEF Next, Claim, Rest

\* What LeaseRespected asks of a step.
LeaseEndsWell(id) ==
    (leased[id] # None /\ (leased'[id] = None \/ leased'[id].token # leased[id].token))
      => \/ leased[id].expired
         \/ epoch' # epoch
         \/ id \in torn
         \/ NumberReused(id)
         \/ \E t \in Tasks : /\ call[t].pc = "idle"
                             /\ call'[t].op \in {"ack", "nack"}
                             /\ call'[t].grant = [id |-> id, token |-> leased[id].token,
                                                  epoch |-> epoch]

\* A step that ends no lease, or gives it a new holder: the map is unchanged but
\* for a lease that keeps its token.
LEMMA LeaseStep ==
    ASSUME HomeInv, GrantsPast, Next, NEW id \in Ids
    PROVE  LeaseEndsWell(id)
<1> USE DEF vars, memVars, walVars, cpVars, auxVars
<1>1. CASE leased'[id] = leased[id]
  BY <1>1 DEF LeaseEndsWell
<1>2. leased \in [Ids -> Lease \cup {None}] /\ grants \subseteq Grant /\ call \in [Tasks -> Call]
  BY DEF HomeInv, TypeOK
<1>3. ASSUME NEW t \in Tasks, AckRelease(t) \/ NackRelease(t) PROVE LeaseEndsWell(id)
  <2>1. PICK g, c :
          /\ g \in grants /\ Holds(g) /\ leased' = [leased EXCEPT ![g.id] = None]
          /\ call' = [call EXCEPT ![t] = c] /\ c.op \in {"ack", "nack"} /\ c.grant = g
    <3>1. CASE AckRelease(t)
      <4>1. PICK g \in grants :
              /\ Holds(g) /\ leased' = [leased EXCEPT ![g.id] = None]
              /\ call' = [call EXCEPT ![t] = [Idle EXCEPT !.op = "ack", !.pc = "ack_wal",
                                                          !.grant = g]]
        BY <3>1 DEF AckRelease
      <4> DEFINE c == [Idle EXCEPT !.op = "ack", !.pc = "ack_wal", !.grant = g]
      <4>2. c.op = "ack" /\ c.grant = g
        BY DEF Idle
      <4>3. call' = [call EXCEPT ![t] = c]
        BY <4>1
      <4> QED BY <4>1, <4>2, <4>3
    <3>2. CASE NackRelease(t)
      <4>1. PICK g \in grants :
              /\ Holds(g) /\ leased' = [leased EXCEPT ![g.id] = None]
              /\ call' = [call EXCEPT ![t] = [Idle EXCEPT !.op = "nack", !.pc = "resolve",
                                                          !.grant = g,
                                                          !.batch = {leased[g.id].entry}]]
        BY <3>2 DEF NackRelease
      <4> DEFINE c == [Idle EXCEPT !.op = "nack", !.pc = "resolve", !.grant = g,
                                   !.batch = {leased[g.id].entry}]
      <4>2. c.op = "nack" /\ c.grant = g
        BY DEF Idle
      <4>3. call' = [call EXCEPT ![t] = c]
        BY <4>1
      <4> QED BY <4>1, <4>2, <4>3
    <3> QED BY <1>3, <3>1, <3>2
  <2>2. call[t].pc = "idle" /\ call'[t].op \in {"ack", "nack"} /\ call'[t].grant = g
    BY <1>2, <1>3, <2>1 DEF AckRelease, NackRelease, Starts
  <2>3. CASE id # g.id
    BY <1>1, <1>2, <2>1, <2>3
  <2>4. CASE id = g.id
    <3>1. g \in Grant /\ g.id = id /\ g.token = leased[id].token
      BY <1>2, <2>1, <2>4 DEF Holds
    <3>2. CASE g.epoch < epoch
      BY <2>1, <3>1, <3>2 DEF NumberReused, LeaseEndsWell
    <3>3. CASE g.epoch = epoch
      <4>1. g = [id |-> id, token |-> leased[id].token, epoch |-> epoch]
        BY <3>1, <3>3 DEF Grant
      <4> QED BY <2>2, <4>1 DEF LeaseEndsWell
    <3> QED BY <2>1, <3>2, <3>3 DEF GrantsPast
  <2> QED BY <2>3, <2>4
<1>4. ASSUME NEW t \in Tasks, ReclaimExpired(t) PROVE LeaseEndsWell(id)
  <2>1. leased'[id] = IF id \in Expired THEN None ELSE leased[id]
    BY <1>4 DEF ReclaimExpired, Without
  <2> QED BY <1>1, <2>1 DEF Expired, LeaseEndsWell
<1>5. ASSUME NEW t \in Tasks, PopPending(t) PROVE LeaseEndsWell(id)
  <2>1. PICK ready \in Ascending(ReadyPositions),
             waiting \in Ascending(DOMAIN delayed \ ReadyPositions) :
          \E Q, c, m : /\ delayed' = StillDelayed(waiting) /\ Q = pending \o Promoted(ready)
                       /\ Popped(t, Q, c, m)
    BY <1>5, PopFront
  <2>2. PICK Q, c, m : /\ Q = pending \o Promoted(ready)
                       /\ Popped(t, Q, c, m)
    BY <2>1
  <2>3. CASE Q = <<>> \/ id # m
    BY <1>1, <2>2, <2>3 DEF Popped
  <2>4. CASE Q # <<>> /\ id = m /\ id \notin torn
    <3>1. 1 \in DOMAIN Q /\ Q[1].id = id
      BY <2>2, <2>4 DEF Popped
    <3>2. HomeOf(id) /\ Sole(id) /\ TypeOK
      BY <2>4 DEF HomeInv, HomeOf, Cut
    <3>3. OnePlaceIn(Q, StillDelayed(waiting), id)
      BY <2>2, <3>2, PromotePlaces
    <3>4. AtPending(id) # {} \/ AtDelayed(id) # {}
      BY <3>1, <3>3 DEF OnePlaceIn
    <3>5. leased[id] = None
      BY <3>2, <3>4 DEF Sole
    <3> QED BY <3>5 DEF LeaseEndsWell
  <2> QED BY <2>3, <2>4 DEF LeaseEndsWell
<1>6. ASSUME NEW t \in Tasks, Checkpoint(t) PROVE LeaseEndsWell(id)
  <2>1. CASE CheckpointSet(t) /\ Holds(call[t].grant)
    <3> DEFINE m == call[t].grant.id
    <3>1. leased' = [leased EXCEPT ![m].entry.checkpoint = call[t].entry.checkpoint]
      BY <2>1 DEF CheckpointSet
    <3>2. leased[m] # None
      BY <2>1 DEF Holds
    <3>3. CASE id # m
      BY <1>1, <1>2, <3>1, <3>3
    <3>4. CASE id = m
      <4>1. leased[id] \in Lease
        BY <1>2, <3>2, <3>4
      <4>2. leased'[id] = [leased[id] EXCEPT !.entry.checkpoint = call[t].entry.checkpoint]
        BY <1>2, <3>1, <3>4
      <4>3. leased'[id].token = leased[id].token /\ leased'[id] \in Lease
        <5>1. leased[id].entry \in Entry /\ call[t].entry \in Entry
          BY <2>1, <4>1, CallType DEF CheckpointSet, At, HomeInv, Lease, EntrySteps
        <5> QED BY <4>1, <4>2, <5>1 DEF Lease, Entry
      <4> QED BY <4>3, OptionAssumption DEF LeaseEndsWell
    <3> QED BY <3>3, <3>4
  <2>2. CASE ~(CheckpointSet(t) /\ Holds(call[t].grant))
    <3>1. leased' = leased
      BY <1>6, <2>2 DEF Checkpoint, CheckpointStart, CheckpointAppend, CheckpointSet
    <3> QED BY <1>1, <3>1
  <2> QED BY <2>1, <2>2
<1>7. ASSUME NEW m \in Ids, VisibilityTimeout(m) PROVE LeaseEndsWell(id)
  <2>1. leased' = [leased EXCEPT ![m].expired = TRUE] /\ leased[m] # None
    BY <1>7 DEF VisibilityTimeout
  <2>2. CASE id # m
    BY <1>1, <1>2, <2>1, <2>2
  <2>3. CASE id = m
    <3>1. leased[id] \in Lease /\ leased'[id] = [leased[id] EXCEPT !.expired = TRUE]
      BY <1>2, <2>1, <2>3
    <3>2. leased'[id] \in Lease /\ leased'[id].token = leased[id].token
      BY <3>1 DEF Lease
    <3> QED BY <3>2, OptionAssumption DEF LeaseEndsWell
  <2> QED BY <2>2, <2>3
<1>8. CASE CrashAndOpen
  BY <1>8 DEF CrashAndOpen, LeaseEndsWell, HomeInv, TypeOK
<1>9. ASSUME NEW t \in Tasks, Enqueue(t) \/ CancelClaim(t) \/ AckAppend(t) PROVE leased' = leased
  BY <1>9 DEF Enqueue, EnqueueReserve, EnqueueDuplicate, WriteEnqueueRecord, EnqueueUndo,
              PushPending, CancelClaim, AckAppend
<1>10. ASSUME NEW t \in Tasks, Resolve(t) PROVE leased' = leased
  BY <1>10 DEF Resolve, RetryLater, RecordDeadLetter, InsertDeadLetter, AppendDeadLettered
<1>11. ASSUME NEW t \in Tasks, Triage(t) PROVE leased' = leased
  BY <1>11 DEF Triage, AnnotateStart, AnnotateAppend, AnnotateSet, TakeDeadLetter, TakeAppend,
               PurgeRelease
<1>12. CASE BackoffElapses \/ Rest
  BY <1>1, <1>12 DEF BackoffElapses, Rest
<1> QED BY <1>1, <1>3, <1>4, <1>5, <1>6, <1>7, <1>8, <1>9, <1>10, <1>11, <1>12
        DEF Next, Claim, Settle

\* A lease granted by claim ends only through the ack or nack of its own holder,
\* its visibility timeout or a crash, whatever late calls the holders of earlier
\* deliveries make, those of earlier processes included, unless one of these was
\* given the lease's very number: tokens start over with the process.
THEOREM LeasesAreRespected == Spec => LeaseRespected
<1>1. Init => GrantsPast
  BY DEF Init, GrantsPast
<1>2. HomeInv /\ GrantsPast /\ [Next]_vars => GrantsPast'
  BY GrantsStep DEF HomeInv
<1>3. HomeInv /\ GrantsPast /\ [Next]_vars => [\A id \in Ids : LeaseEndsWell(id)]_vars
  BY LeaseStep
<1>4. [][\A id \in Ids : LeaseEndsWell(id)]_vars <=> LeaseRespected
  BY DEF LeaseRespected, LeaseEndsWell
<1> QED BY <1>1, <1>2, <1>3, <1>4, HomeInit, HomeStep, PTL DEF Spec


-----------------------------------------------------------------------------
(* Nothing is lost: no accepted message slips between the collections while *)
(* the process runs, and none is lost by a restart, whether its             *)
(* dead-lettering was cut in two or not.  First the inductive invariant.    *)

\* How often a message is in the main WAL; in the process's collections; due a
\* DeadLettered record; and in the hands of calls that found it in the log.
One(b) == IF b THEN 1 ELSE 0
Records(id) == Cardinality(InLog(id))
Kept(id) == Cardinality(AtPending(id)) + Cardinality(AtDelayed(id)) + One(leased[id] # None)
Owed(id) == Cardinality(HandAt("dlq_insert", id)) + Cardinality(HandAt("dead_lettered", id))
Held(id) == Cardinality(InBatch(id)) + Cardinality(HandAt("enqueue_push", id))
            + Cardinality(Acking(id)) + Owed(id)

HandsFinite(id) == /\ IsFiniteSet(InBatch(id)) /\ IsFiniteSet(HandAt("enqueue_push", id))
                   /\ IsFiniteSet(HandAt("dlq_insert", id))
                   /\ IsFiniteSet(HandAt("dead_lettered", id))
                   /\ IsFiniteSet(Acking(id))

\* Every copy that an ack or a DeadLettered record may yet strike out of the
\* log has a record of its own there.
Backed(id) == HandsFinite(id) /\ Kept(id) + Held(id) <= Records(id)

\* An accepted message has a record that no DeadLettered record is due for.
Durable(id) ==
    fate[id] = "accepted" => \/ dlq_wal[id] # None
                             \/ BeingReprocessed(id)
                             \/ Owed(id) < Records(id)

\* An accepted message that was not dropped is somewhere.
Housed(id) ==
    fate[id] = "accepted" /\ id \notin stranded =>
      \/ AtPending(id) # {} \/ AtDelayed(id) # {} \/ leased[id] # None \/ dlq[id] # None
      \/ Holders(id) # {}

LossOf(id) == Backed(id) /\ Durable(id) /\ Housed(id)
\* A restart that cuts off a record of a message may take it out of the log.
LossInv == HomeInv /\ \A id \in Ids \ truncated : LossOf(id)

-----------------------------------------------------------------------------
(* What one step of one call does to the counts                             *)

\* What one call adds to them, and whether it has the message at all.
Owes(c, id) == One(HandHas(c, "dlq_insert", id)) + One(HandHas(c, "dead_lettered", id))
Weight(c, id) == One(BatchHas(c, id)) + One(HandHas(c, "enqueue_push", id))
                 + One(AckHas(c, id)) + Owes(c, id)
Has(c, id) == \/ BatchHas(c, id) \/ AckHas(c, id)
              \/ HandHas(c, "enqueue_wal", id) \/ HandHas(c, "enqueue_push", id)
              \/ HandHas(c, "take_wal", id) \/ HandHas(c, "dlq_insert", id)
Reprocesses(c, id) == c.op = "reprocess" /\ HandHas(c, "enqueue_wal", id)

\* A set that changes in one element changes its size by at most one.
LEMMA CountAfter ==
    ASSUME NEW S, IsFiniteSet(S), NEW t, NEW b \in BOOLEAN,
           NEW T, T = (S \ {t}) \cup (IF b THEN {t} ELSE {})
    PROVE  /\ IsFiniteSet(T) /\ Cardinality(S) \in Nat /\ Cardinality(T) \in Nat
           /\ Cardinality(T) + One(t \in S) = Cardinality(S) + One(b)
<1>1. /\ IsFiniteSet(S \ {t}) /\ Cardinality(S) \in Nat
      /\ Cardinality(S \ {t}) = IF t \in S THEN Cardinality(S) - 1 ELSE Cardinality(S)
  BY FS_RemoveElement, FS_CardinalityType
<1> DEFINE R == S \ {t}
<1>2. t \notin R /\ T = R \cup (IF b THEN {t} ELSE {})
  OBVIOUS
<1>3. IsFiniteSet(R) /\ Cardinality(R) \in Nat
      /\ Cardinality(R) = IF t \in S THEN Cardinality(S) - 1 ELSE Cardinality(S)
  BY <1>1, FS_CardinalityType
<1> HIDE DEF R
<1>4. CASE b
  <2>1. T = R \cup {t}
    BY <1>2, <1>4
  <2>2. IsFiniteSet(R \cup {t}) /\ Cardinality(R \cup {t}) = Cardinality(R) + 1
    BY <1>2, <1>3, FS_AddElement
  <2>3. IsFiniteSet(T) /\ Cardinality(T) = Cardinality(R) + 1
    BY <2>1, <2>2
  <2> QED BY <1>1, <1>3, <1>4, <2>3 DEF One
<1>5. CASE ~b
  <2>1. T = R
    BY <1>2, <1>5
  <2> QED BY <1>1, <1>3, <1>5, <2>1 DEF One
<1> QED BY <1>4, <1>5

\* The sums change by what the one call gains and loses.
HeldMoves(t, c, id) ==
    /\ HandsFinite(id)'
    /\ Held(id) \in Nat /\ Owed(id) \in Nat /\ Held(id)' \in Nat /\ Owed(id)' \in Nat
    /\ Held(id)' + Weight(call[t], id) = Held(id) + Weight(c, id)
    /\ Owed(id)' + Owes(call[t], id) = Owed(id) + Owes(c, id)
    /\ Owed(id)' <= Held(id)' /\ Owed(id) <= Held(id)

LEMMA HeldAfter ==
    ASSUME call \in [Tasks -> Call], NEW t \in Tasks, NEW c,
           call' = [call EXCEPT ![t] = c], NEW id, HandsFinite(id)
    PROVE  HeldMoves(t, c, id)
<1>1. /\ InBatch(id)' = (InBatch(id) \ {t}) \cup (IF BatchHas(c, id) THEN {t} ELSE {})
      /\ Acking(id)' = (Acking(id) \ {t}) \cup (IF AckHas(c, id) THEN {t} ELSE {})
      /\ \A pc : HandAt(pc, id)' = (HandAt(pc, id) \ {t})
                                   \cup (IF HandHas(c, pc, id) THEN {t} ELSE {})
  BY RolesAfter
<1>2. /\ t \in InBatch(id) <=> BatchHas(call[t], id)
      /\ t \in Acking(id) <=> AckHas(call[t], id)
      /\ \A pc : t \in HandAt(pc, id) <=> HandHas(call[t], pc, id)
  BY DEF InBatch, BatchHas, Acking, AckHas, HandAt, HandHas
<1>3. /\ BatchHas(c, id) \in BOOLEAN /\ AckHas(c, id) \in BOOLEAN
      /\ \A pc : HandHas(c, pc, id) \in BOOLEAN
  BY DEF BatchHas, AckHas, HandHas
<1>4. PICK B : B = InBatch(id)'
  OBVIOUS
<1>5. PICK A : A = Acking(id)'
  OBVIOUS
<1>6. PICK P : P = HandAt("enqueue_push", id)'
  OBVIOUS
<1>7. PICK I : I = HandAt("dlq_insert", id)'
  OBVIOUS
<1>8. PICK D : D = HandAt("dead_lettered", id)'
  OBVIOUS
<1>9. /\ IsFiniteSet(B) /\ Cardinality(InBatch(id)) \in Nat /\ Cardinality(B) \in Nat
      /\ Cardinality(B) + One(t \in InBatch(id)) = Cardinality(InBatch(id)) + One(BatchHas(c, id))
  <2>1. B = (InBatch(id) \ {t}) \cup (IF BatchHas(c, id) THEN {t} ELSE {})
    BY <1>1, <1>4
  <2> QED BY <1>3, <2>1, CountAfter DEF HandsFinite
<1>10. /\ IsFiniteSet(A) /\ Cardinality(Acking(id)) \in Nat /\ Cardinality(A) \in Nat
       /\ Cardinality(A) + One(t \in Acking(id)) = Cardinality(Acking(id)) + One(AckHas(c, id))
  <2>1. A = (Acking(id) \ {t}) \cup (IF AckHas(c, id) THEN {t} ELSE {})
    BY <1>1, <1>5
  <2> QED BY <1>3, <2>1, CountAfter DEF HandsFinite
<1>11. ASSUME NEW pc, IsFiniteSet(HandAt(pc, id)), NEW H, H = HandAt(pc, id)'
       PROVE  /\ IsFiniteSet(H) /\ Cardinality(HandAt(pc, id)) \in Nat /\ Cardinality(H) \in Nat
              /\ Cardinality(H) + One(t \in HandAt(pc, id))
                   = Cardinality(HandAt(pc, id)) + One(HandHas(c, pc, id))
  <2>1. H = (HandAt(pc, id) \ {t}) \cup (IF HandHas(c, pc, id) THEN {t} ELSE {})
    BY <1>1, <1>11
  <2> QED BY <1>3, <1>11, <2>1, CountAfter
<1>12. /\ IsFiniteSet(P) /\ Cardinality(HandAt("enqueue_push", id)) \in Nat
       /\ Cardinality(P) \in Nat
       /\ Cardinality(P) + One(t \in HandAt("enqueue_push", id))
            = Cardinality(HandAt("enqueue_push", id)) + One(HandHas(c, "enqueue_push", id))
  BY <1>6, <1>11 DEF HandsFinite
<1>13. /\ IsFiniteSet(I) /\ Cardinality(HandAt("dlq_insert", id)) \in Nat
       /\ Cardinality(I) \in Nat
       /\ Cardinality(I) + One(t \in HandAt("dlq_insert", id))
            = Cardinality(HandAt("dlq_insert", id)) + One(HandHas(c, "dlq_insert", id))
  BY <1>7, <1>11 DEF HandsFinite
<1>14. /\ IsFiniteSet(D) /\ Cardinality(HandAt("dead_lettered", id)) \in Nat
       /\ Cardinality(D) \in Nat
       /\ Cardinality(D) + One(t \in HandAt("dead_lettered", id))
            = Cardinality(HandAt("dead_lettered", id)) + One(HandHas(c, "dead_lettered", id))
  BY <1>8, <1>11 DEF HandsFinite
<1>15. /\ HandsFinite(id)' /\ Owed(id)' = Cardinality(I) + Cardinality(D)
       /\ Held(id)' = Cardinality(B) + Cardinality(P) + Cardinality(A) + Owed(id)'
  BY <1>4, <1>5, <1>6, <1>7, <1>8, <1>9, <1>10, <1>12, <1>13, <1>14
  DEF HandsFinite, Owed, Held
<1>16. \A b : One(b) \in {0, 1}
  BY DEF One
<1>17. /\ Owed(id) \in Nat /\ Held(id) \in Nat /\ Owed(id) <= Held(id)
       /\ Owed(id)' \in Nat /\ Held(id)' \in Nat /\ Owed(id)' <= Held(id)'
  BY <1>9, <1>10, <1>12, <1>13, <1>14, <1>15 DEF Owed, Held
<1>18. /\ Owes(call[t], id) = One(t \in HandAt("dlq_insert", id))
                              + One(t \in HandAt("dead_lettered", id))
       /\ Weight(call[t], id) = One(t \in InBatch(id)) + One(t \in HandAt("enqueue_push", id))
                                + One(t \in Acking(id)) + Owes(call[t], id)
  BY <1>2 DEF Owes, Weight, One
<1>19. Owed(id)' + Owes(call[t], id) = Owed(id) + Owes(c, id)
  BY <1>13, <1>14, <1>15, <1>16, <1>18 DEF Owed, Owes
<1>20. Held(id)' + Weight(call[t], id) = Held(id) + Weight(c, id)
  <2>1. Owes(c, id) \in Nat /\ Owes(call[t], id) \in Nat
    BY <1>16, <1>18 DEF Owes
  <2> QED BY <1>9, <1>10, <1>12, <1>15, <1>16, <1>17, <1>18, <1>19, <2>1 DEF Held, Weight
<1> QED BY <1>15, <1>17, <1>19, <1>20 DEF HeldMoves

\* The counts are numbers, before a step and after it.
Countable(id) ==
    /\ IsFiniteSet(AtPending(id)) /\ IsFiniteSet(AtDelayed(id)) /\ IsFiniteSet(InLog(id))
    /\ Cardinality(AtPending(id)) \in Nat /\ Cardinality(AtDelayed(id)) \in Nat
    /\ Kept(id) \in Nat /\ Records(id) \in Nat

LEMMA CountsType ==
    ASSUME NEW id
    PROVE  /\ TypeOK => Countable(id)
           /\ TypeOK' => Countable(id)'
<1>1. ASSUME NEW p \in Seq(Entry)
      PROVE  /\ IsFiniteSet({i \in DOMAIN p : p[i].id = id})
             /\ Cardinality({i \in DOMAIN p : p[i].id = id}) \in Nat
  <2>1. {i \in DOMAIN p : p[i].id = id} = Where(p, {e \in Entry : e.id = id})
    BY DEF Where
  <2> QED BY <2>1, WhereFinite
<1>2. ASSUME NEW d \in Seq(Delayed)
      PROVE  /\ IsFiniteSet({i \in DOMAIN d : d[i].entry.id = id})
             /\ Cardinality({i \in DOMAIN d : d[i].entry.id = id}) \in Nat
  <2>1. {i \in DOMAIN d : d[i].entry.id = id} = Where(d, {e \in Delayed : e.entry.id = id})
    BY DEF Where
  <2> QED BY <2>1, WhereFinite
<1>3. ASSUME NEW w \in Seq(WalEnqueue)
      PROVE  /\ IsFiniteSet({i \in DOMAIN w : w[i].id = id})
             /\ Cardinality({i \in DOMAIN w : w[i].id = id}) \in Nat
  <2>1. {i \in DOMAIN w : w[i].id = id} = Where(w, {e \in WalEnqueue : e.id = id})
    BY DEF Where
  <2> QED BY <2>1, WhereFinite
<1>4. TypeOK => Countable(id)
  <2> SUFFICES ASSUME TypeOK PROVE Countable(id)
    OBVIOUS
  <2>1. pending \in Seq(Entry) /\ delayed \in Seq(Delayed) /\ wal_pending \in Seq(WalEnqueue)
    BY DEF TypeOK
  <2>2. /\ IsFiniteSet(AtPending(id)) /\ Cardinality(AtPending(id)) \in Nat
        /\ IsFiniteSet(AtDelayed(id)) /\ Cardinality(AtDelayed(id)) \in Nat
        /\ IsFiniteSet(InLog(id)) /\ Cardinality(InLog(id)) \in Nat
    BY <1>1, <1>2, <1>3, <2>1 DEF AtPending, AtDelayed, InLog
  <2> QED BY <2>2 DEF Countable, Kept, Records, One
<1>5. TypeOK' => Countable(id)'
  <2> SUFFICES ASSUME TypeOK' PROVE Countable(id)'
    OBVIOUS
  <2>1. /\ pending' \in Seq(Entry) /\ delayed' \in Seq(Delayed)
        /\ wal_pending' \in Seq(WalEnqueue)
    BY DEF TypeOK
  <2>2. /\ IsFiniteSet(AtPending(id)') /\ Cardinality(AtPending(id)') \in Nat
        /\ IsFiniteSet(AtDelayed(id)') /\ Cardinality(AtDelayed(id)') \in Nat
        /\ IsFiniteSet(InLog(id)') /\ Cardinality(InLog(id)') \in Nat
    BY <1>1, <1>2, <1>3, <2>1 DEF AtPending, AtDelayed, InLog
  <2> QED BY <2>2 DEF Countable, Kept, Records, One
<1> QED BY <1>4, <1>5

\* Who holds the message, told by what each call has.
LEMMA HoldersHave ==
    ASSUME NEW id
    PROVE  Holders(id) = {u \in Tasks : Has(call[u], id)}
BY DEF Holders, Has, InBatch, BatchHas, Acking, AckHas, HandAt, HandHas

\* A step of call t keeps the message from being lost if its copies lose no more
\* records than they give up, if an accepted message keeps a record that no
\* DeadLettered record is due for, and if it goes from one place to another.
LEMMA LossMoved ==
    ASSUME TypeOK, TypeOK', NEW t \in Tasks, NEW c, call' = [call EXCEPT ![t] = c],
           NEW id, LossOf(id),
           Kept(id)' + Weight(c, id) + Records(id) <= Kept(id) + Weight(call[t], id) + Records(id)',
           (fate[id])' = "accepted" =>
             \/ (dlq_wal[id])' # None \/ Reprocesses(c, id) \/ Kept(id)' > 0
             \/ Records(id)' > Records(id) /\ Owes(c, id) = 0
             \/ /\ fate[id] = "accepted" /\ dlq_wal[id] = None /\ ~Reprocesses(call[t], id)
                /\ Records(id) + Owes(c, id) <= Records(id)' + Owes(call[t], id),
           (fate[id])' = "accepted" /\ id \notin stranded' =>
             \/ AtPending(id)' # {} \/ AtDelayed(id)' # {} \/ (leased[id])' # None
             \/ (dlq[id])' # None \/ Has(c, id)
             \/ /\ fate[id] = "accepted" /\ id \notin stranded
                /\ AtPending(id) = {} /\ AtDelayed(id) = {} /\ leased[id] = None
                /\ dlq[id] = None /\ ~Has(call[t], id)
    PROVE  LossOf(id)'
<1>1. call \in [Tasks -> Call] /\ HandsFinite(id) /\ Kept(id) + Held(id) <= Records(id)
  BY DEF TypeOK, LossOf, Backed
<1>2. HeldMoves(t, c, id)
  BY <1>1, HeldAfter
<1>3. Kept(id) \in Nat /\ Kept(id)' \in Nat /\ Records(id) \in Nat /\ Records(id)' \in Nat
  BY CountsType DEF Countable
<1>4. /\ Owes(c, id) \in Nat /\ Owes(call[t], id) \in Nat
      /\ Weight(c, id) \in Nat /\ Weight(call[t], id) \in Nat
  BY DEF Owes, Weight, One
<1>5. /\ HandsFinite(id)'
      /\ Held(id) \in Nat /\ Owed(id) \in Nat /\ Held(id)' \in Nat /\ Owed(id)' \in Nat
      /\ Held(id)' + Weight(call[t], id) = Held(id) + Weight(c, id)
      /\ Owed(id)' + Owes(call[t], id) = Owed(id) + Owes(c, id)
      /\ Owed(id)' <= Held(id)' /\ Owed(id) <= Held(id)
  BY <1>2 DEF HeldMoves
<1>6. Kept(id)' + Held(id)' <= Records(id)'
  BY <1>1, <1>3, <1>4, <1>5
<1>7. ASSUME NEW u \in Tasks, u # t PROVE call'[u] = call[u]
  BY <1>1, <1>7
<1>8. call'[t] = c
  BY <1>1
<1>9. Durable(id)'
  <2> SUFFICES ASSUME (fate[id])' = "accepted"
               PROVE  (dlq_wal[id])' # None \/ BeingReprocessed(id)' \/ Owed(id)' < Records(id)'
    BY DEF Durable
  <2>1. CASE Reprocesses(c, id)
    BY <1>8, <2>1 DEF Reprocesses, HandHas, BeingReprocessed
  <2>2. CASE Kept(id)' > 0
    BY <1>3, <1>5, <1>6, <2>2
  <2>3. CASE Records(id)' > Records(id) /\ Owes(c, id) = 0
    BY <1>1, <1>3, <1>4, <1>5, <2>3
  <2>4. CASE /\ fate[id] = "accepted" /\ dlq_wal[id] = None /\ ~Reprocesses(call[t], id)
             /\ Records(id) + Owes(c, id) <= Records(id)' + Owes(call[t], id)
    <3>1. CASE Owed(id) < Records(id)
      BY <1>3, <1>4, <1>5, <2>4, <3>1
    <3>2. CASE BeingReprocessed(id)
      <4>1. PICK u \in Tasks : Reprocesses(call[u], id)
        BY <3>2 DEF BeingReprocessed, Reprocesses, HandHas
      <4>2. Reprocesses(call'[u], id)
        BY <1>7, <2>4, <4>1
      <4> QED BY <4>2 DEF BeingReprocessed, Reprocesses, HandHas
    <3> QED BY <2>4, <3>1, <3>2 DEF LossOf, Durable
  <2> QED BY <2>1, <2>2, <2>3, <2>4
<1>10. Housed(id)'
  <2> SUFFICES ASSUME (fate[id])' = "accepted", id \notin stranded'
               PROVE  \/ AtPending(id)' # {} \/ AtDelayed(id)' # {} \/ (leased[id])' # None
                      \/ (dlq[id])' # None \/ Holders(id)' # {}
    BY DEF Housed
  <2>1. Holders(id)' = {u \in Tasks : Has(call'[u], id)}
    BY DEF Holders, Has, InBatch, BatchHas, Acking, AckHas, HandAt, HandHas
  <2>2. CASE Has(c, id)
    BY <1>8, <2>1, <2>2
  <2>3. CASE /\ fate[id] = "accepted" /\ id \notin stranded
             /\ AtPending(id) = {} /\ AtDelayed(id) = {} /\ leased[id] = None
             /\ dlq[id] = None /\ ~Has(call[t], id)
    <3>1. PICK u \in Tasks : Has(call[u], id)
      BY <2>3, HoldersHave DEF LossOf, Housed
    <3>2. Has(call'[u], id)
      BY <1>7, <2>3, <3>1
    <3> QED BY <2>1, <3>2
  <2> QED BY <2>2, <2>3
<1> QED BY <1>5, <1>6, <1>9, <1>10 DEF LossOf, Backed

\* In particular, a step that leaves the message where it is.
LEMMA LossKept ==
    ASSUME TypeOK, TypeOK', NEW t \in Tasks, NEW c, call' = [call EXCEPT ![t] = c],
           NEW id, LossOf(id), SameRoles(call[t], c, id),
           Reprocesses(call[t], id) => Reprocesses(c, id),
           AtPending(id)' = AtPending(id), AtDelayed(id)' = AtDelayed(id),
           (leased[id])' = None <=> leased[id] = None, Records(id)' = Records(id),
           (dlq[id])' = None <=> dlq[id] = None, (dlq_wal[id])' = None <=> dlq_wal[id] = None,
           (fate[id])' = "accepted" => fate[id] = "accepted",
           id \in stranded => id \in stranded'
    PROVE  LossOf(id)'
<1>1. /\ \A pc \in HomeSteps : HandHas(call[t], pc, id) <=> HandHas(c, pc, id)
      /\ BatchHas(call[t], id) <=> BatchHas(c, id)
      /\ AckHas(call[t], id) <=> AckHas(c, id)
  BY DEF SameRoles
<1>2. /\ HandHas(call[t], "enqueue_wal", id) <=> HandHas(c, "enqueue_wal", id)
      /\ HandHas(call[t], "enqueue_push", id) <=> HandHas(c, "enqueue_push", id)
      /\ HandHas(call[t], "take_wal", id) <=> HandHas(c, "take_wal", id)
      /\ HandHas(call[t], "dlq_insert", id) <=> HandHas(c, "dlq_insert", id)
      /\ HandHas(call[t], "dead_lettered", id) <=> HandHas(c, "dead_lettered", id)
  BY <1>1 DEF HomeSteps
<1>3. /\ Weight(c, id) = Weight(call[t], id) /\ Owes(c, id) = Owes(call[t], id)
      /\ Has(c, id) <=> Has(call[t], id)
      /\ Weight(c, id) \in Nat /\ Owes(c, id) \in Nat
  BY <1>1, <1>2 DEF Weight, Owes, One, Has
<1>4. Kept(id)' = Kept(id)
  BY DEF Kept, One
<1>5. Kept(id) \in Nat /\ Records(id) \in Nat
  BY CountsType DEF Countable
<1>6. Kept(id)' + Weight(c, id) + Records(id) <= Kept(id) + Weight(call[t], id) + Records(id)'
      /\ Records(id) + Owes(c, id) <= Records(id)' + Owes(call[t], id)
  BY <1>3, <1>4, <1>5
<1> QED BY <1>3, <1>6, LossMoved


\* A step that moves no message.
LEMMA QuietLoss ==
    ASSUME LossInv, TypeOK', NEW t \in Tasks, QuietStep(t)
    PROVE  \A id \in Ids \ truncated : LossOf(id)'
<1>1. PICK c :
        /\ call' = [call EXCEPT ![t] = c]
        /\ c.batch = {} /\ call[t].batch = {}
        /\ c.pc \notin HomeSteps \cup {"ack_wal"} /\ call[t].pc \notin HomeSteps \cup {"ack_wal"}
        /\ UNCHANGED <<pending, delayed, wal_pending, stranded, fate>>
        /\ \A id \in Ids : /\ leased'[id] = None <=> leased[id] = None
                           /\ dlq'[id] = None <=> dlq[id] = None
                           /\ dlq_wal'[id] = None <=> dlq_wal[id] = None
  BY DEF QuietStep
<1>2. ASSUME NEW id \in Ids \ truncated PROVE LossOf(id)'
  <2>1. LossOf(id) /\ TypeOK
    BY DEF LossInv, HomeInv
  <2>2. SameRoles(call[t], c, id) /\ ~Reprocesses(call[t], id)
    BY <1>1 DEF SameRoles, BatchHas, AckHas, HandHas, Reprocesses, HomeSteps
  <2>3. AtPending(id)' = AtPending(id) /\ AtDelayed(id)' = AtDelayed(id)
        /\ Records(id)' = Records(id)
    BY <1>1 DEF AtPending, AtDelayed, Records, InLog
  <2> QED BY <1>1, <2>1, <2>2, <2>3, LossKept
<1> QED BY <1>2

\* A step of no call.
LEMMA StillLoss ==
    ASSUME LossInv,
           UNCHANGED <<pending, call, dlq, dlq_wal, wal_pending, stranded, fate>>,
           \A id \in Ids : /\ leased'[id] = None <=> leased[id] = None
                           /\ AtDelayed(id)' = AtDelayed(id)
    PROVE  \A id \in Ids \ truncated : LossOf(id)'
<1> SUFFICES ASSUME NEW id \in Ids \ truncated PROVE LossOf(id)'
  OBVIOUS
<1>1. LossOf(id)
  BY DEF LossInv
<1>2. /\ AtPending(id)' = AtPending(id) /\ InLog(id)' = InLog(id)
      /\ InBatch(id)' = InBatch(id) /\ Acking(id)' = Acking(id)
      /\ \A pc : HandAt(pc, id)' = HandAt(pc, id)
      /\ BeingReprocessed(id)' <=> BeingReprocessed(id)
  BY DEF AtPending, InLog, InBatch, Acking, HandAt, BeingReprocessed
<1>3. Kept(id)' = Kept(id) /\ Records(id)' = Records(id) /\ Owed(id)' = Owed(id)
  BY <1>2 DEF Kept, Records, Owed, One
<1>4. Held(id)' = Held(id) /\ (HandsFinite(id)' <=> HandsFinite(id)) /\ Holders(id)' = Holders(id)
  BY <1>2, <1>3 DEF Held, HandsFinite, Holders
<1> QED BY <1>1, <1>2, <1>3, <1>4 DEF LossOf, Backed, Durable, Housed

-----------------------------------------------------------------------------
(* The steps of enqueue                                                     *)

LEMMA EnqueueReserveLoss ==
    ASSUME LossInv, TypeOK', NEW t \in Tasks, EnqueueReserve(t)
    PROVE  \A id \in Ids \ truncated : LossOf(id)'
<1> USE DEF vars, memVars, walVars, cpVars, auxVars
<1>1. PICK m \in Ids, key \in Keys \cup {None} :
        /\ fate' = [fate EXCEPT ![m] = "inflight"]
        /\ call' = [call EXCEPT ![t] = [Idle EXCEPT !.op = "enqueue", !.pc = "enqueue_wal",
                                                    !.entry = NewEntry(m, key)]]
  BY DEF EnqueueReserve
<1>2. PICK c :
        /\ c = [Idle EXCEPT !.op = "enqueue", !.pc = "enqueue_wal", !.entry = NewEntry(m, key)]
        /\ call' = [call EXCEPT ![t] = c]
  BY <1>1
<1>3. /\ fate \in [Ids -> Fates]
      /\ UNCHANGED <<pending, leased, delayed, dlq, dlq_wal, wal_pending, stranded>>
      /\ call[t].pc = "idle" /\ call[t].batch = {}
  BY DEF EnqueueReserve, Starts, LossInv, HomeInv, Keyed, KeyedCall, TypeOK
<1>4. c.pc = "enqueue_wal" /\ c.entry.id = m /\ c.batch = {}
  BY <1>2 DEF Idle, NewEntry
<1>5. ASSUME NEW id \in Ids \ truncated PROVE LossOf(id)'
  <2>1. LossOf(id) /\ TypeOK
    BY DEF LossInv, HomeInv
  <2>2. AtPending(id)' = AtPending(id) /\ AtDelayed(id)' = AtDelayed(id)
        /\ Records(id)' = Records(id) /\ Kept(id)' = Kept(id)
    BY <1>3 DEF AtPending, AtDelayed, Records, InLog, Kept, One
  <2>3. /\ Weight(c, id) = 0 /\ Weight(call[t], id) = 0 /\ Owes(c, id) = 0
        /\ Owes(call[t], id) = 0 /\ ~Has(call[t], id) /\ ~Reprocesses(call[t], id)
    BY <1>3, <1>4 DEF Weight, Owes, One, BatchHas, AckHas, HandHas, Has, Reprocesses
  <2>4. (fate[id])' = "accepted" => fate[id] = "accepted"
    BY <1>1, <1>3
  <2>5. Kept(id) \in Nat /\ Records(id) \in Nat
    BY <2>1, CountsType DEF Countable
  <2>6. /\ Kept(id)' + Weight(c, id) + Records(id)
             <= Kept(id) + Weight(call[t], id) + Records(id)'
        /\ Records(id) + Owes(c, id) <= Records(id)' + Owes(call[t], id)
    BY <2>2, <2>3, <2>5
  <2> QED BY <1>2, <1>3, <2>1, <2>2, <2>3, <2>4, <2>6, LossMoved
<1> QED BY <1>5

\* The Enqueue record adds one to the log before the message is pushed; a
\* reprocessed message whose record was not written is dropped.
LEMMA WriteEnqueueLoss ==
    ASSUME LossInv, TypeOK', NEW t \in Tasks, WriteEnqueueRecord(t)
    PROVE  \A id \in Ids \ truncated : LossOf(id)'
<1> USE DEF vars, memVars, walVars, cpVars, auxVars
<1> DEFINE m == call[t].entry.id
<1>1. PICK r \in AppendResult :
        /\ IF r.durable THEN ApplyEnqueue(call[t].entry) ELSE UNCHANGED wal_pending
        /\ Goto(t, IF r.ok THEN "enqueue_push" ELSE "enqueue_undo")
        /\ fate' = [fate EXCEPT ![m] = IF r.ok THEN @
                                       ELSE IF call[t].op = "enqueue" THEN "failed"
                                       ELSE IF r.durable THEN @ ELSE "dropped"]
        /\ stranded' = IF r.durable /\ ~r.ok THEN stranded \cup {m} ELSE stranded
  BY DEF WriteEnqueueRecord
<1>2. PICK c :
        /\ c = [call[t] EXCEPT !.pc = IF r.ok THEN "enqueue_push" ELSE "enqueue_undo"]
        /\ call' = [call EXCEPT ![t] = c]
  BY <1>1 DEF Goto
<1>3. /\ call \in [Tasks -> Call] /\ fate \in [Ids -> Fates]
      /\ wal_pending \in Seq(WalEnqueue)
      /\ UNCHANGED <<pending, leased, delayed, dlq, dlq_wal>>
      /\ call[t].pc = "enqueue_wal" /\ call[t].batch = {}
  BY DEF WriteEnqueueRecord, At, LossInv, HomeInv, Keyed, KeyedCall, TypeOK
<1>4. call[t].entry \in Entry /\ m \in Ids
  BY <1>3, CallType DEF LossInv, HomeInv, EntrySteps, Entry
<1>5. /\ c.pc = IF r.ok THEN "enqueue_push" ELSE "enqueue_undo"
      /\ c.entry.id = m /\ c.batch = {} /\ (r.ok => r.durable)
  BY <1>2, <1>3 DEF Call, Locals, AppendResult
<1>6. ASSUME NEW id
      PROVE  Records(id)' = IF r.durable /\ id = m THEN Records(id) + 1 ELSE Records(id)
  <2>1. CASE r.durable
    BY <1>1, <1>3, <1>4, <2>1, LogGrows DEF Records
  <2>2. CASE ~r.durable
    BY <1>1, <2>2 DEF InLog, Records
  <2> QED BY <2>1, <2>2
<1> HIDE DEF m
<1>7. ASSUME NEW id \in Ids \ truncated PROVE LossOf(id)'
  <2>1. LossOf(id) /\ TypeOK
    BY DEF LossInv, HomeInv
  <2>2. AtPending(id)' = AtPending(id) /\ AtDelayed(id)' = AtDelayed(id) /\ Kept(id)' = Kept(id)
    BY <1>3 DEF AtPending, AtDelayed, Kept, One
  <2>3. CASE id # m
    <3>1. SameRoles(call[t], c, id) /\ ~Reprocesses(call[t], id)
      BY <1>3, <1>5, <2>3 DEF SameRoles, BatchHas, AckHas, HandHas, HomeSteps, Reprocesses, m
    <3>2. (fate[id])' = fate[id] /\ (id \in stranded' <=> id \in stranded)
      BY <1>1, <1>3, <2>3
    <3>3. Records(id)' = Records(id)
      BY <1>6, <2>3
    <3> QED BY <1>2, <1>3, <2>1, <2>2, <3>1, <3>2, <3>3, LossKept
  <2>4. CASE id = m
    <3>1. /\ Weight(c, id) = One(r.ok) /\ Weight(call[t], id) = 0 /\ Owes(c, id) = 0
          /\ Has(c, id) <=> r.ok
      <4>1. /\ ~BatchHas(c, id) /\ ~AckHas(c, id) /\ (HandHas(c, "enqueue_push", id) <=> r.ok)
            /\ ~HandHas(c, "dlq_insert", id) /\ ~HandHas(c, "dead_lettered", id)
            /\ ~HandHas(c, "take_wal", id) /\ ~HandHas(c, "enqueue_wal", id)
        BY <1>5, <2>4 DEF BatchHas, AckHas, HandHas
      <4>2. /\ ~BatchHas(call[t], id) /\ ~AckHas(call[t], id)
            /\ ~HandHas(call[t], "enqueue_push", id)
            /\ ~HandHas(call[t], "dlq_insert", id) /\ ~HandHas(call[t], "dead_lettered", id)
        BY <1>3 DEF BatchHas, AckHas, HandHas
      <4> QED BY <4>1, <4>2 DEF Weight, Owes, One, Has
    <3>2. Kept(id) \in Nat /\ Records(id) \in Nat /\ One(r.ok) \in {0, 1}
      BY <2>1, CountsType DEF Countable, One
    <3>3. Records(id)' = IF r.durable THEN Records(id) + 1 ELSE Records(id)
      BY <1>6, <2>4
    <3>4. Kept(id)' + Weight(c, id) + Records(id)
            <= Kept(id) + Weight(call[t], id) + Records(id)'
      BY <1>5, <2>2, <3>1, <3>2, <3>3 DEF One
    <3>5. (fate[id])' = "accepted" => r.durable
      BY <1>1, <1>3, <1>5, <2>4
    <3>6. r.durable => Records(id)' > Records(id)
      BY <3>2, <3>3
    <3>7. (fate[id])' = "accepted" /\ id \notin stranded' => r.ok
      BY <1>1, <2>4, <3>5
    <3> QED BY <1>2, <2>1, <3>1, <3>4, <3>5, <3>6, <3>7, LossMoved
  <2> QED BY <2>3, <2>4
<1> QED BY <1>7

\* The message becomes pending, and the producer is told so.
LEMMA PushPendingLoss ==
    ASSUME LossInv, TypeOK', NEW t \in Tasks, PushPending(t)
    PROVE  \A id \in Ids \ truncated : LossOf(id)'
<1> USE DEF vars, memVars, walVars, cpVars, auxVars
<1> DEFINE m == call[t].entry.id
<1>1. /\ call' = [call EXCEPT ![t] = Idle]
      /\ pending' = Append(pending, call[t].entry)
      /\ fate' = [fate EXCEPT ![m] = IF @ = "inflight" THEN "accepted" ELSE @]
  BY DEF PushPending, Return
<1>2. /\ call \in [Tasks -> Call] /\ fate \in [Ids -> Fates] /\ pending \in Seq(Entry)
      /\ UNCHANGED <<leased, delayed, dlq, dlq_wal, wal_pending, stranded>>
      /\ call[t].pc = "enqueue_push" /\ call[t].batch = {}
      /\ Idle.pc = "idle" /\ Idle.batch = {}
  BY DEF PushPending, At, LossInv, HomeInv, Keyed, KeyedCall, TypeOK, Idle
<1>3. call[t].entry \in Entry /\ m \in Ids
  BY <1>2, CallType DEF LossInv, HomeInv, EntrySteps, Entry
<1>4. \A id : AtPending(id)' = IF m = id THEN AtPending(id) \cup {Len(pending) + 1}
                                         ELSE AtPending(id)
  BY <1>1, <1>3, QueueGrows DEF LossInv, HomeInv
<1> HIDE DEF m
<1>5. ASSUME NEW id \in Ids \ truncated PROVE LossOf(id)'
  <2>1. LossOf(id) /\ TypeOK
    BY DEF LossInv, HomeInv
  <2>2. AtDelayed(id)' = AtDelayed(id) /\ Records(id)' = Records(id)
    BY <1>2 DEF AtDelayed, Records, InLog
  <2>3. CASE id # m
    <3>1. SameRoles(call[t], Idle, id) /\ ~Reprocesses(call[t], id)
      BY <1>2, <2>3 DEF SameRoles, BatchHas, AckHas, HandHas, HomeSteps, Reprocesses, m
    <3>2. (fate[id])' = fate[id] /\ AtPending(id)' = AtPending(id)
      BY <1>1, <1>2, <1>4, <2>3
    <3> QED BY <1>1, <1>2, <2>1, <2>2, <3>1, <3>2, LossKept
  <2>4. CASE id = m
    <3>1. Weight(Idle, id) = 0 /\ Weight(call[t], id) = 1
      BY <1>2, <2>4 DEF Weight, Owes, One, BatchHas, AckHas, HandHas, m
    <3>2. /\ Countable(id) /\ Countable(id)'
          /\ AtPending(id)' = AtPending(id) \cup {Len(pending) + 1}
      BY <1>4, <2>1, <2>4, CountsType
    <3>3. Len(pending) + 1 \notin AtPending(id)
      BY <1>2 DEF AtPending
    <3>4. Cardinality(AtPending(id) \cup {Len(pending) + 1}) = Cardinality(AtPending(id)) + 1
      BY <3>2, <3>3, FS_AddElement DEF Countable
    <3>5. Kept(id)' = Kept(id) + 1 /\ Kept(id) \in Nat /\ Records(id) \in Nat
      BY <1>2, <2>2, <3>2, <3>4 DEF Kept, Countable, One
    <3>6. Kept(id)' + Weight(Idle, id) + Records(id)
            <= Kept(id) + Weight(call[t], id) + Records(id)'
      BY <2>2, <3>1, <3>5
    <3>7. Kept(id)' > 0 /\ AtPending(id)' # {}
      BY <3>2, <3>5
    <3> QED BY <1>1, <2>1, <3>6, <3>7, LossMoved
  <2> QED BY <2>3, <2>4
<1> QED BY <1>5


-----------------------------------------------------------------------------
(* The steps of ack and nack                                                *)

\* The message passes from its lease to the call that acks or nacks it.
LEMMA ReleaseLoss ==
    ASSUME LossInv, TypeOK', NEW t \in Tasks, AckRelease(t) \/ NackRelease(t)
    PROVE  \A id \in Ids \ truncated : LossOf(id)'
<1> USE DEF vars, memVars, walVars, cpVars, auxVars
<1>1. PICK g \in grants :
        /\ Holds(g)
        /\ leased' = [leased EXCEPT ![g.id] = None]
        /\ \/ call' = [call EXCEPT ![t] = [Idle EXCEPT !.op = "ack", !.pc = "ack_wal", !.grant = g]]
           \/ call' = [call EXCEPT ![t] = [Idle EXCEPT !.op = "nack", !.pc = "resolve", !.grant = g,
                                                       !.batch = {leased[g.id].entry}]]
  BY DEF AckRelease, NackRelease
<1> DEFINE m == g.id
           a == [Idle EXCEPT !.op = "ack", !.pc = "ack_wal", !.grant = g]
           n == [Idle EXCEPT !.op = "nack", !.pc = "resolve", !.grant = g,
                             !.batch = {leased[m].entry}]
<1>2. /\ leased \in [Ids -> Lease \cup {None}]
      /\ m \in Ids /\ leased[m] # None /\ leased[m].entry.id = m
      /\ UNCHANGED <<pending, delayed, dlq, dlq_wal, wal_pending, stranded, fate>>
      /\ call[t].pc = "idle" /\ call[t].batch = {}
  BY <1>1 DEF AckRelease, NackRelease, Starts, LossInv, HomeInv, Keyed, KeyedCall, TypeOK, Grant,
              Holds
<1>3. /\ a.pc = "ack_wal" /\ a.grant.id = m /\ a.batch = {}
      /\ n.pc = "resolve" /\ n.batch = {leased[m].entry}
  BY DEF Idle
<1>4. call' = [call EXCEPT ![t] = a] \/ call' = [call EXCEPT ![t] = n]
  BY <1>1
<1> HIDE DEF a, n
<1>5. PICK c : /\ call' = [call EXCEPT ![t] = c]
               /\ \/ c.pc = "ack_wal" /\ c.grant.id = m /\ c.batch = {}
                  \/ c.pc = "resolve" /\ c.batch = {leased[m].entry}
  BY <1>3, <1>4
<1>6. \A id \in Ids : leased'[id] = IF id = m THEN None ELSE leased[id]
  BY <1>1, <1>2
<1> HIDE DEF m
<1>7. ASSUME NEW id \in Ids \ truncated PROVE LossOf(id)'
  <2>1. LossOf(id) /\ TypeOK
    BY DEF LossInv, HomeInv
  <2>2. AtPending(id)' = AtPending(id) /\ AtDelayed(id)' = AtDelayed(id)
        /\ Records(id)' = Records(id)
    BY <1>2 DEF AtPending, AtDelayed, Records, InLog
  <2>3. ~Reprocesses(call[t], id)
    BY <1>2 DEF Reprocesses, HandHas
  <2>4. CASE id # m
    <3>1. SameRoles(call[t], c, id)
      BY <1>2, <1>5, <2>4 DEF SameRoles, BatchHas, AckHas, HandHas, HomeSteps
    <3> QED BY <1>2, <1>5, <1>6, <2>1, <2>2, <2>3, <2>4, <3>1, LossKept
  <2>5. CASE id = m
    <3>1. /\ \/ BatchHas(c, id) /\ ~AckHas(c, id)
             \/ ~BatchHas(c, id) /\ AckHas(c, id)
          /\ ~HandHas(c, "enqueue_push", id) /\ ~HandHas(c, "dlq_insert", id)
          /\ ~HandHas(c, "dead_lettered", id)
      BY <1>2, <1>5, <2>5 DEF BatchHas, AckHas, HandHas
    <3>2. /\ ~BatchHas(call[t], id) /\ ~AckHas(call[t], id)
          /\ ~HandHas(call[t], "enqueue_push", id) /\ ~HandHas(call[t], "dlq_insert", id)
          /\ ~HandHas(call[t], "dead_lettered", id)
      BY <1>2 DEF BatchHas, AckHas, HandHas
    <3>3. /\ Weight(c, id) = 1 /\ Weight(call[t], id) = 0 /\ Has(c, id)
          /\ Owes(c, id) = 0 /\ Owes(call[t], id) = 0
      BY <3>1, <3>2 DEF Weight, Owes, One, Has
    <3>4. /\ Kept(id) = Kept(id)' + 1 /\ Kept(id)' \in Nat /\ Records(id) \in Nat
      <4>1. Countable(id) /\ Countable(id)'
        BY <2>1, CountsType
      <4> QED BY <1>2, <1>6, <2>2, <2>5, <4>1 DEF Kept, Countable, One
    <3>5. /\ Kept(id)' + Weight(c, id) + Records(id)
               <= Kept(id) + Weight(call[t], id) + Records(id)'
          /\ Records(id) + Owes(c, id) <= Records(id)' + Owes(call[t], id)
      BY <2>2, <3>3, <3>4
    <3> QED BY <1>2, <1>5, <2>1, <2>3, <3>3, <3>5, LossMoved
  <2> QED BY <2>4, <2>5
<1> QED BY <1>7

\* The Ack record strikes out the acked copy's own record.
LEMMA AckAppendLoss ==
    ASSUME LossInv, TypeOK', NEW t \in Tasks, AckAppend(t)
    PROVE  \A id \in Ids \ truncated : LossOf(id)'
<1> USE DEF vars, memVars, walVars, cpVars, auxVars
<1> DEFINE m == call[t].grant.id
<1>1. PICK r \in AppendResult :
        /\ IF r.durable THEN ApplyAck(m) ELSE UNCHANGED wal_pending
        /\ fate' = [fate EXCEPT ![m] = IF r.durable THEN "done" ELSE @]
        /\ stranded' = IF r.durable THEN stranded ELSE stranded \cup {m}
  BY DEF AckAppend
<1>2. /\ fate \in [Ids -> Fates] /\ wal_pending \in Seq(WalEnqueue)
      /\ UNCHANGED <<pending, leased, delayed, dlq, dlq_wal>>
      /\ call[t].pc = "ack_wal" /\ call[t].batch = {}
      /\ call' = [call EXCEPT ![t] = Idle] /\ Idle.pc = "idle" /\ Idle.batch = {}
  BY DEF AckAppend, At, Return, LossInv, HomeInv, Keyed, KeyedCall, TypeOK, Idle
<1>3. m \in Ids
  BY <1>2, CallType DEF LossInv, HomeInv, GrantSteps, Grant
<1> HIDE DEF m
<1>4. ASSUME NEW id
      PROVE  Records(id)' = IF r.durable /\ m = id /\ InLog(m) # {}
                            THEN Records(id) - 1 ELSE Records(id)
  <2>1. CASE r.durable
    BY <1>1, <1>2, <2>1, LogShrinks DEF Records
  <2>2. CASE ~r.durable
    BY <1>1, <2>2 DEF InLog, Records
  <2> QED BY <2>1, <2>2
<1>5. ASSUME NEW id \in Ids \ truncated PROVE LossOf(id)'
  <2>1. LossOf(id) /\ TypeOK
    BY DEF LossInv, HomeInv
  <2>2. AtPending(id)' = AtPending(id) /\ AtDelayed(id)' = AtDelayed(id) /\ Kept(id)' = Kept(id)
    BY <1>2 DEF AtPending, AtDelayed, Kept, One
  <2>3. ~Reprocesses(call[t], id)
    BY <1>2 DEF Reprocesses, HandHas
  <2>4. CASE id # m
    <3>1. SameRoles(call[t], Idle, id)
      BY <1>2, <2>4 DEF SameRoles, BatchHas, AckHas, HandHas, HomeSteps, m
    <3>2. (fate[id])' = fate[id] /\ (id \in stranded' <=> id \in stranded)
          /\ Records(id)' = Records(id)
      BY <1>1, <1>2, <1>4, <2>4
    <3> QED BY <1>2, <2>1, <2>2, <2>3, <3>1, <3>2, LossKept
  <2>5. CASE id = m
    <3>1. /\ Weight(Idle, id) = 0 /\ Weight(call[t], id) = 1
          /\ Owes(Idle, id) = 0 /\ Owes(call[t], id) = 0
      BY <1>2, <2>5 DEF Weight, Owes, One, BatchHas, AckHas, HandHas, m
    <3>2. Kept(id) \in Nat /\ Records(id) \in Nat
      BY <2>1, CountsType DEF Countable
    <3>3. Kept(id)' + Weight(Idle, id) + Records(id)
            <= Kept(id) + Weight(call[t], id) + Records(id)'
      BY <1>4, <2>2, <3>1, <3>2
    <3>4. (fate[id])' = "accepted" =>
            /\ fate[id] = "accepted" /\ Records(id)' = Records(id) /\ id \in stranded'
      BY <1>1, <1>2, <1>3, <1>4, <2>5
    <3>5. (fate[id])' = "accepted" =>
            Records(id) + Owes(Idle, id) <= Records(id)' + Owes(call[t], id)
      BY <3>1, <3>2, <3>4
    <3> QED BY <1>2, <2>1, <2>3, <3>3, <3>4, <3>5, LossMoved
  <2> QED BY <2>4, <2>5
<1> QED BY <1>5

-----------------------------------------------------------------------------
(* The steps of resolve_failed_delivery                                     *)

\* The locals after a delivery is resolved are at no step that holds a message
\* but the next resolve.
LEMMA ResolvedWeight ==
    ASSUME NEW c, c.pc \in {"resolve", "pop", "idle"}, NEW id
    PROVE  /\ Weight(c, id) = One(BatchHas(c, id)) /\ Owes(c, id) = 0
           /\ Has(c, id) <=> BatchHas(c, id)
<1>1. /\ ~HandHas(c, "enqueue_push", id) /\ ~HandHas(c, "dlq_insert", id) /\ ~AckHas(c, id)
      /\ ~HandHas(c, "dead_lettered", id) /\ ~HandHas(c, "enqueue_wal", id)
      /\ ~HandHas(c, "take_wal", id)
  BY DEF HandHas, AckHas
<1> QED BY <1>1 DEF Weight, Owes, One, Has

\* A message to be retried passes from the batch to the backoff list.
LEMMA RetryLaterLoss ==
    ASSUME LossInv, TypeOK', NEW t \in Tasks, RetryLater(t)
    PROVE  \A id \in Ids \ truncated : LossOf(id)'
<1> USE DEF vars, memVars, walVars, cpVars, auxVars
<1>1. PICK e \in call[t].batch :
        /\ delayed' = Append(delayed, [entry |-> e, ready |-> FALSE])
        /\ Resolved(t, call[t].batch \ {e})
  BY DEF RetryLater
<1>2. /\ call \in [Tasks -> Call]
      /\ UNCHANGED <<pending, leased, dlq, dlq_wal, wal_pending, stranded, fate>>
      /\ call[t].pc = "resolve" /\ KeyedCall(call[t]) /\ delayed \in Seq(Delayed)
  BY DEF RetryLater, At, LossInv, HomeInv, Keyed, TypeOK
<1>3. PICK c : /\ call' = [call EXCEPT ![t] = c]
               /\ c.batch = call[t].batch \ {e} /\ c.pc \in {"resolve", "pop", "idle"}
  BY <1>1, <1>2, ResolvedLocals
<1> DEFINE m == e.id
           d == [entry |-> e, ready |-> FALSE]
<1>4. e \in Entry /\ m \in Ids /\ d \in Delayed /\ d.entry = e
  BY CallType DEF LossInv, HomeInv, Entry, Delayed
<1>5. \A id : AtDelayed(id)' = IF m = id THEN AtDelayed(id) \cup {Len(delayed) + 1}
                                         ELSE AtDelayed(id)
  BY <1>1, <1>4, QueueGrows DEF LossInv, HomeInv
<1>6. ~BatchHas(c, m) /\ BatchHas(call[t], m)
      /\ \A id : id # m => (BatchHas(c, id) <=> BatchHas(call[t], id))
  BY <1>2, <1>3 DEF BatchHas, KeyedCall
<1> HIDE DEF m, d
<1>7. ASSUME NEW id \in Ids \ truncated PROVE LossOf(id)'
  <2>1. LossOf(id) /\ TypeOK
    BY DEF LossInv, HomeInv
  <2>2. AtPending(id)' = AtPending(id) /\ Records(id)' = Records(id)
    BY <1>2 DEF AtPending, Records, InLog
  <2>3. ~Reprocesses(call[t], id)
    BY <1>2 DEF Reprocesses, HandHas
  <2>4. CASE id # m
    <3>1. SameRoles(call[t], c, id)
      BY <1>2, <1>3, <1>6, <2>4 DEF SameRoles, AckHas, HandHas, HomeSteps
    <3>2. AtDelayed(id)' = AtDelayed(id)
      BY <1>5, <2>4
    <3> QED BY <1>2, <1>3, <2>1, <2>2, <2>3, <3>1, <3>2, LossKept
  <2>5. CASE id = m
    <3>1. /\ Weight(c, id) = 0 /\ Weight(call[t], id) = 1
          /\ Owes(c, id) = 0 /\ Owes(call[t], id) = 0
      BY <1>2, <1>3, <1>6, <2>5, ResolvedWeight DEF One
    <3>2. /\ Countable(id) /\ Countable(id)'
          /\ AtDelayed(id)' = AtDelayed(id) \cup {Len(delayed) + 1}
      BY <1>5, <2>1, <2>5, CountsType
    <3>3. Len(delayed) + 1 \notin AtDelayed(id)
      BY <1>2 DEF AtDelayed
    <3>4. Cardinality(AtDelayed(id) \cup {Len(delayed) + 1}) = Cardinality(AtDelayed(id)) + 1
      BY <3>2, <3>3, FS_AddElement DEF Countable
    <3>5. Kept(id)' = Kept(id) + 1 /\ Kept(id) \in Nat /\ Records(id) \in Nat
      BY <1>2, <2>2, <3>2, <3>4 DEF Kept, Countable, One
    <3>6. Kept(id)' + Weight(c, id) + Records(id)
            <= Kept(id) + Weight(call[t], id) + Records(id)'
      BY <2>2, <3>1, <3>5
    <3>7. Kept(id)' > 0 /\ AtDelayed(id)' # {}
      BY <3>2, <3>5
    <3> QED BY <1>3, <2>1, <3>6, <3>7, LossMoved
  <2> QED BY <2>4, <2>5
<1> QED BY <1>7


\* The DLQ's record: from the batch to the call's hand, backed by the DLQ's log
\* as well from now on; or the append fails and the process drops the message.
LEMMA RecordDeadLetterLoss ==
    ASSUME LossInv, TypeOK', NEW t \in Tasks, RecordDeadLetter(t)
    PROVE  \A id \in Ids \ truncated : LossOf(id)'
<1> USE DEF vars, memVars, walVars, cpVars, auxVars
<1>1. PICK e \in call[t].batch, r \in AppendResult :
        /\ dlq_wal' = IF r.durable
                      THEN [dlq_wal EXCEPT ![e.id] = [entry |-> e, triage |-> None]]
                      ELSE dlq_wal
        /\ IF r.ok
           THEN /\ call' = [call EXCEPT ![t].pc = "dlq_insert", ![t].entry = e,
                                        ![t].batch = @ \ {e}]
                /\ UNCHANGED stranded
           ELSE /\ Resolved(t, call[t].batch \ {e})
                /\ stranded' = stranded \cup {e.id}
  BY DEF RecordDeadLetter
<1>2. /\ call \in [Tasks -> Call] /\ dlq_wal \in [Ids -> DeadLetter \cup {None}]
      /\ UNCHANGED <<pending, delayed, leased, dlq, wal_pending, fate>>
      /\ call[t].pc = "resolve" /\ KeyedCall(call[t])
  BY DEF RecordDeadLetter, At, LossInv, HomeInv, Keyed, TypeOK
<1>3. PICK c : /\ call' = [call EXCEPT ![t] = c]
               /\ c.batch = call[t].batch \ {e}
               /\ IF r.ok THEN c.pc = "dlq_insert" /\ c.entry = e
                  ELSE c.pc \in {"resolve", "pop", "idle"}
  <2>1. CASE r.ok
    <3> DEFINE c == [call[t] EXCEPT !.pc = "dlq_insert", !.entry = e,
                                    !.batch = call[t].batch \ {e}]
    <3>1. call[t] \in Locals
      BY <1>2 DEF Call
    <3>2. c.batch = call[t].batch \ {e} /\ c.pc = "dlq_insert" /\ c.entry = e
      BY <3>1 DEF Locals
    <3>3. call' = [call EXCEPT ![t] = c]
      BY <1>1, <1>2, <2>1
    <3> QED BY <2>1, <3>2, <3>3
  <2>2. CASE ~r.ok
    BY <1>1, <1>2, <2>2, ResolvedLocals
  <2> QED BY <2>1, <2>2
<1> DEFINE m == e.id
           d == [entry |-> e, triage |-> None]
<1>4. m \in Ids /\ d # None /\ (r.ok => r.durable)
  <2>1. e \in Entry /\ m \in Ids
    BY CallType DEF LossInv, HomeInv, Entry
  <2>2. d \in DeadLetter
    BY <2>1 DEF DeadLetter
  <2> QED BY <2>1, <2>2, OptionAssumption DEF AppendResult
<1>5. \A id \in Ids : dlq_wal'[id] = IF r.durable /\ id = m THEN d ELSE dlq_wal[id]
  BY <1>1, <1>2, <1>4
<1>6. ~BatchHas(c, m) /\ BatchHas(call[t], m)
      /\ \A id : id # m => (BatchHas(c, id) <=> BatchHas(call[t], id))
  BY <1>2, <1>3 DEF BatchHas, KeyedCall
<1>7. \A id : HandHas(c, "dlq_insert", id) <=> r.ok /\ id = m
  BY <1>3 DEF HandHas
<1>8. \A id \in Ids : id \in stranded' <=> id \in stranded \/ (~r.ok /\ id = m)
  BY <1>1
<1>9. c.pc \notin {"enqueue_wal", "enqueue_push", "take_wal", "dead_lettered", "purge_release",
                   "ack_wal"}
  BY <1>3
<1> HIDE DEF m, d
<1>10. ASSUME NEW id \in Ids \ truncated PROVE LossOf(id)'
  <2>1. LossOf(id) /\ TypeOK
    BY DEF LossInv, HomeInv
  <2>2. AtPending(id)' = AtPending(id) /\ AtDelayed(id)' = AtDelayed(id)
        /\ Records(id)' = Records(id) /\ Kept(id)' = Kept(id)
    BY <1>2 DEF AtPending, AtDelayed, Records, InLog, Kept, One
  <2>3. ~Reprocesses(call[t], id)
    BY <1>2 DEF Reprocesses, HandHas
  <2>4. CASE id # m
    <3>1. SameRoles(call[t], c, id)
      BY <1>2, <1>6, <1>7, <1>9, <2>4 DEF SameRoles, AckHas, HandHas, HomeSteps
    <3> QED BY <1>2, <1>3, <1>5, <1>8, <2>1, <2>2, <2>3, <2>4, <3>1, LossKept
  <2>5. CASE id = m
    <3>1. /\ ~BatchHas(c, id) /\ (HandHas(c, "dlq_insert", id) <=> r.ok)
          /\ ~HandHas(c, "enqueue_push", id) /\ ~AckHas(c, id) /\ ~HandHas(c, "dead_lettered", id)
      BY <1>6, <1>7, <1>9, <2>5 DEF HandHas, AckHas
    <3>2. /\ Weight(c, id) = One(r.ok) /\ Owes(c, id) = One(r.ok) /\ (r.ok => Has(c, id))
      BY <3>1 DEF Weight, Owes, One, Has
    <3>3. Weight(call[t], id) = 1 /\ Owes(call[t], id) = 0
      BY <1>2, <1>6, <2>5, ResolvedWeight DEF One
    <3>4. Kept(id) \in Nat /\ Records(id) \in Nat
      BY <2>1, CountsType DEF Countable
    <3>5. Kept(id)' + Weight(c, id) + Records(id)
            <= Kept(id) + Weight(call[t], id) + Records(id)'
      BY <2>2, <3>2, <3>3, <3>4 DEF One
    <3>6. ~r.durable => Records(id) + Owes(c, id) <= Records(id)' + Owes(call[t], id)
      BY <1>4, <2>2, <3>2, <3>3, <3>4 DEF One
    <3>7. (fate[id])' = fate[id] /\ (~r.ok => id \in stranded')
          /\ (dlq_wal[id])' = IF r.durable THEN d ELSE dlq_wal[id]
      BY <1>2, <1>5, <1>8, <2>5
    <3> QED BY <1>3, <1>4, <2>1, <2>3, <3>2, <3>5, <3>6, <3>7, LossMoved
  <2> QED BY <2>4, <2>5
<1> QED BY <1>10

\* From the call's hand into the DLQ; the DeadLettered record is still due.
LEMMA InsertDeadLetterLoss ==
    ASSUME LossInv, TypeOK', NEW t \in Tasks, InsertDeadLetter(t)
    PROVE  \A id \in Ids \ truncated : LossOf(id)'
<1> USE DEF vars, memVars, walVars, cpVars, auxVars
<1> DEFINE m == call[t].entry.id
           d == [entry |-> call[t].entry, triage |-> None]
<1>1. PICK c :
        /\ c = [call[t] EXCEPT !.pc = "dead_lettered"]
        /\ dlq' = [dlq EXCEPT ![m] = d] /\ call' = [call EXCEPT ![t] = c]
        /\ UNCHANGED <<pending, delayed, leased, dlq_wal, wal_pending, stranded, fate>>
  BY DEF InsertDeadLetter, Goto
<1>2. /\ call \in [Tasks -> Call] /\ dlq \in [Ids -> DeadLetter \cup {None}]
      /\ call[t].pc = "dlq_insert"
  BY DEF InsertDeadLetter, At, LossInv, HomeInv, TypeOK
<1>3. call[t].entry \in Entry /\ m \in Ids
  BY <1>2, CallType DEF LossInv, HomeInv, EntrySteps, Entry
<1>4. d # None
  <2>1. d \in DeadLetter
    BY <1>3 DEF DeadLetter
  <2> QED BY <2>1, OptionAssumption
<1>5. c.pc = "dead_lettered" /\ c.entry.id = m /\ c.batch = call[t].batch
  BY <1>1, <1>2 DEF Call, Locals
<1>6. \A id \in Ids : dlq'[id] = IF id = m THEN d ELSE dlq[id]
  BY <1>1, <1>2
<1> HIDE DEF m, d
<1>7. ASSUME NEW id \in Ids \ truncated PROVE LossOf(id)'
  <2>1. LossOf(id) /\ TypeOK
    BY DEF LossInv, HomeInv
  <2>2. AtPending(id)' = AtPending(id) /\ AtDelayed(id)' = AtDelayed(id)
        /\ Records(id)' = Records(id) /\ Kept(id)' = Kept(id)
    BY <1>1 DEF AtPending, AtDelayed, Records, InLog, Kept, One
  <2>3. ~Reprocesses(call[t], id) /\ (BatchHas(c, id) <=> BatchHas(call[t], id))
        /\ ~AckHas(c, id) /\ ~AckHas(call[t], id)
    BY <1>2, <1>5 DEF Reprocesses, HandHas, BatchHas, AckHas
  <2>4. CASE id # m
    <3>1. SameRoles(call[t], c, id)
      BY <1>2, <1>5, <2>3, <2>4 DEF SameRoles, HandHas, HomeSteps, m
    <3> QED BY <1>1, <1>6, <2>1, <2>2, <2>3, <2>4, <3>1, LossKept
  <2>5. CASE id = m
    <3>1. /\ HandHas(call[t], "dlq_insert", id) /\ ~HandHas(call[t], "dead_lettered", id)
          /\ HandHas(c, "dead_lettered", id) /\ ~HandHas(c, "dlq_insert", id)
          /\ ~HandHas(call[t], "enqueue_push", id) /\ ~HandHas(c, "enqueue_push", id)
      BY <1>2, <1>5, <2>5 DEF HandHas, m
    <3>2. /\ Weight(c, id) = Weight(call[t], id) /\ Owes(c, id) = Owes(call[t], id)
          /\ Weight(c, id) \in Nat /\ Owes(c, id) \in Nat
      BY <2>3, <3>1 DEF Weight, Owes, One
    <3>3. Kept(id) \in Nat /\ Records(id) \in Nat
      BY <2>1, CountsType DEF Countable
    <3>4. /\ Kept(id)' + Weight(c, id) + Records(id)
               <= Kept(id) + Weight(call[t], id) + Records(id)'
          /\ Records(id) + Owes(c, id) <= Records(id)' + Owes(call[t], id)
      BY <2>2, <3>2, <3>3
    <3>5. (fate[id])' = fate[id] /\ (dlq_wal[id])' = dlq_wal[id] /\ (dlq[id])' # None
      BY <1>1, <1>4, <1>6, <2>5
    <3> QED BY <1>1, <2>1, <2>3, <3>4, <3>5, LossMoved
  <2> QED BY <2>4, <2>5
<1> QED BY <1>7

\* The DeadLettered record strikes out the one record that was due for it.
LEMMA AppendDeadLetteredLoss ==
    ASSUME LossInv, TypeOK', NEW t \in Tasks, AppendDeadLettered(t)
    PROVE  \A id \in Ids \ truncated : LossOf(id)'
<1> USE DEF vars, memVars, walVars, cpVars, auxVars
<1> DEFINE m == call[t].entry.id
<1>1. PICK r \in AppendResult :
        IF r.durable THEN ApplyDeadLettered(m) ELSE UNCHANGED wal_pending
  BY DEF AppendDeadLettered
<1>2. /\ call \in [Tasks -> Call] /\ wal_pending \in Seq(WalEnqueue)
      /\ UNCHANGED <<pending, leased, delayed, dlq, dlq_wal, stranded, fate>>
      /\ call[t].pc = "dead_lettered"
  BY DEF AppendDeadLettered, At, LossInv, HomeInv, TypeOK
<1>3. PICK c : /\ call' = [call EXCEPT ![t] = c]
               /\ c.batch = call[t].batch /\ c.pc \in {"resolve", "pop", "idle"}
  BY <1>2, ResolvedLocals DEF AppendDeadLettered
<1> HIDE DEF m
<1>4. ASSUME NEW id
      PROVE  Records(id)' = IF r.durable /\ m = id /\ InLog(m) # {}
                            THEN Records(id) - 1 ELSE Records(id)
  <2>1. CASE r.durable
    BY <1>1, <1>2, <2>1, LogShrinks DEF Records
  <2>2. CASE ~r.durable
    BY <1>1, <2>2 DEF InLog, Records
  <2> QED BY <2>1, <2>2
<1>5. ASSUME NEW id \in Ids \ truncated PROVE LossOf(id)'
  <2>1. LossOf(id) /\ TypeOK
    BY DEF LossInv, HomeInv
  <2>2. AtPending(id)' = AtPending(id) /\ AtDelayed(id)' = AtDelayed(id) /\ Kept(id)' = Kept(id)
    BY <1>2 DEF AtPending, AtDelayed, Kept, One
  <2>3. ~Reprocesses(call[t], id) /\ (BatchHas(c, id) <=> BatchHas(call[t], id))
    BY <1>2, <1>3 DEF Reprocesses, HandHas, BatchHas
  <2>4. CASE id # m
    <3>1. SameRoles(call[t], c, id)
      BY <1>2, <1>3, <2>3, <2>4 DEF SameRoles, AckHas, HandHas, HomeSteps, m
    <3>2. Records(id)' = Records(id)
      BY <1>4, <2>4
    <3> QED BY <1>2, <1>3, <2>1, <2>2, <2>3, <3>1, <3>2, LossKept
  <2>5. CASE id = m
    <3>1. /\ HandHas(call[t], "dead_lettered", id) /\ ~HandHas(call[t], "dlq_insert", id)
          /\ ~HandHas(call[t], "enqueue_push", id) /\ ~AckHas(call[t], id)
          /\ ~HandHas(call[t], "enqueue_wal", id) /\ ~HandHas(call[t], "take_wal", id)
      BY <1>2, <2>5 DEF HandHas, AckHas, m
    <3>2. Weight(call[t], id) = One(BatchHas(c, id)) + 1 /\ Owes(call[t], id) = 1
          /\ (Has(call[t], id) <=> BatchHas(c, id))
      BY <2>3, <3>1 DEF Weight, Owes, One, Has
    <3>3. /\ Weight(c, id) = One(BatchHas(c, id)) /\ Owes(c, id) = 0
          /\ Has(c, id) <=> BatchHas(c, id)
      BY <1>3, ResolvedWeight
    <3>4. /\ Kept(id) \in Nat /\ Records(id) \in Nat /\ One(BatchHas(c, id)) \in {0, 1}
      BY <2>1, CountsType DEF Countable, One
    <3>5. /\ Kept(id)' + Weight(c, id) + Records(id)
               <= Kept(id) + Weight(call[t], id) + Records(id)'
          /\ Records(id) + Owes(c, id) <= Records(id)' + Owes(call[t], id)
      BY <1>4, <2>2, <3>2, <3>3, <3>4
    <3>6. /\ (fate[id])' = fate[id] /\ (dlq_wal[id])' = dlq_wal[id] /\ (dlq[id])' = dlq[id]
          /\ (leased[id])' = leased[id] /\ (id \in stranded' <=> id \in stranded)
      BY <1>2
    <3> QED BY <1>3, <2>1, <2>2, <2>3, <3>2, <3>3, <3>5, <3>6, LossMoved
  <2> QED BY <2>4, <2>5
<1> QED BY <1>5

-----------------------------------------------------------------------------
(* The steps of claim                                                       *)

\* The expired leases become the batch of the call.
LEMMA ReclaimExpiredLoss ==
    ASSUME LossInv, TypeOK', NEW t \in Tasks, ReclaimExpired(t)
    PROVE  \A id \in Ids \ truncated : LossOf(id)'
<1> USE DEF vars, memVars, walVars, cpVars, auxVars
<1>1. PICK c :
        /\ c = [Idle EXCEPT !.op = "claim", !.pc = IF Expired = {} THEN "pop" ELSE "resolve",
                            !.batch = {leased[id].entry : id \in Expired}]
        /\ call' = [call EXCEPT ![t] = c]
        /\ leased' = [id \in Ids |-> IF id \in Expired THEN None ELSE leased[id]]
  BY DEF ReclaimExpired, Without
<1>2. /\ UNCHANGED <<pending, delayed, dlq, dlq_wal, wal_pending, stranded, fate>>
      /\ call[t].pc \in {"idle", "blocked"} /\ call[t].batch = {}
  BY DEF ReclaimExpired, Starts, At, LossInv, HomeInv, Keyed, KeyedCall
<1>3. /\ c.pc \in {"resolve", "pop", "idle"}
      /\ c.batch = {leased[id].entry : id \in Expired}
  BY <1>1 DEF Idle
<1>4. \A id \in Expired : leased[id] # None /\ leased[id].entry.id = id
  BY DEF Expired, LossInv, HomeInv, Keyed
<1>5. \A id : BatchHas(c, id) <=> id \in Expired
  BY <1>3, <1>4 DEF BatchHas
<1>6. ASSUME NEW id \in Ids \ truncated PROVE LossOf(id)'
  <2>1. LossOf(id) /\ TypeOK
    BY DEF LossInv, HomeInv
  <2>2. AtPending(id)' = AtPending(id) /\ AtDelayed(id)' = AtDelayed(id)
        /\ Records(id)' = Records(id)
    BY <1>2 DEF AtPending, AtDelayed, Records, InLog
  <2>3. /\ ~Reprocesses(call[t], id) /\ ~BatchHas(call[t], id) /\ ~AckHas(call[t], id)
        /\ ~HandHas(call[t], "enqueue_wal", id) /\ ~HandHas(call[t], "enqueue_push", id)
        /\ ~HandHas(call[t], "take_wal", id) /\ ~HandHas(call[t], "dlq_insert", id)
        /\ ~HandHas(call[t], "dead_lettered", id)
    BY <1>2 DEF Reprocesses, HandHas, BatchHas, AckHas
  <2>4. Weight(call[t], id) = 0 /\ Owes(call[t], id) = 0 /\ ~Has(call[t], id)
    BY <2>3 DEF Weight, Owes, One, Has
  <2>5. /\ Weight(c, id) = One(id \in Expired) /\ Owes(c, id) = 0
        /\ Has(c, id) <=> id \in Expired
    BY <1>3, <1>5, ResolvedWeight DEF One
  <2>6. (leased[id])' = IF id \in Expired THEN None ELSE leased[id]
    BY <1>1
  <2>7. Kept(id)' + One(id \in Expired) = Kept(id) /\ Kept(id)' \in Nat /\ Records(id) \in Nat
    <3>1. Countable(id) /\ Countable(id)'
      BY <2>1, CountsType
    <3> QED BY <1>4, <2>2, <2>6, <3>1 DEF Kept, Countable, One
  <2>8. /\ Kept(id)' + Weight(c, id) + Records(id)
             <= Kept(id) + Weight(call[t], id) + Records(id)'
        /\ Records(id) + Owes(c, id) <= Records(id)' + Owes(call[t], id)
    BY <2>2, <2>4, <2>5, <2>7 DEF One
  <2>9. /\ (fate[id])' = fate[id] /\ (dlq_wal[id])' = dlq_wal[id] /\ (dlq[id])' = dlq[id]
        /\ (id \in stranded' <=> id \in stranded)
    BY <1>2
  <2> QED BY <1>1, <2>1, <2>2, <2>3, <2>4, <2>5, <2>6, <2>8, <2>9, LossMoved
<1> QED BY <1>6

\* A dropped claim drops the messages it had, and the records it owed.
LEMMA CancelClaimLoss ==
    ASSUME LossInv, TypeOK', NEW t \in Tasks, CancelClaim(t)
    PROVE  \A id \in Ids \ truncated : LossOf(id)'
<1> USE DEF vars, memVars, walVars, cpVars, auxVars
<1>1. /\ call' = [call EXCEPT ![t] = Idle] /\ Idle.pc = "idle" /\ Idle.batch = {}
      /\ UNCHANGED <<pending, leased, delayed, dlq, dlq_wal, wal_pending, fate>>
  BY DEF CancelClaim, Return, Idle
<1>2. call[t].pc \in {"idle", "pop", "blocked", "resolve", "dlq_insert", "dead_lettered"}
  BY DEF CancelClaim, LossInv, HomeInv, Keyed, KeyedCall
<1>3. \A id \in Ids : id \in stranded' <=> \/ id \in stranded \/ BatchHas(call[t], id)
                                           \/ HandHas(call[t], "dlq_insert", id)
  BY DEF CancelClaim, At, BatchHas, HandHas
<1>4. ASSUME NEW id \in Ids \ truncated PROVE LossOf(id)'
  <2>1. LossOf(id) /\ TypeOK
    BY DEF LossInv, HomeInv
  <2>2. AtPending(id)' = AtPending(id) /\ AtDelayed(id)' = AtDelayed(id)
        /\ Records(id)' = Records(id) /\ Kept(id)' = Kept(id)
    BY <1>1 DEF AtPending, AtDelayed, Records, InLog, Kept, One
  <2>3. /\ ~Reprocesses(call[t], id) /\ ~AckHas(call[t], id)
        /\ ~HandHas(call[t], "enqueue_wal", id) /\ ~HandHas(call[t], "enqueue_push", id)
        /\ ~HandHas(call[t], "take_wal", id)
    BY <1>2 DEF Reprocesses, HandHas, AckHas
  <2>4. /\ Weight(call[t], id) \in Nat /\ Owes(call[t], id) \in Nat
        /\ Has(call[t], id) => id \in stranded'
    BY <1>3, <2>3 DEF Weight, Owes, One, Has
  <2>5. Weight(Idle, id) = 0 /\ Owes(Idle, id) = 0
    <3>1. ~BatchHas(Idle, id)
      BY <1>1 DEF BatchHas
    <3> QED BY <1>1, <3>1, ResolvedWeight DEF One
  <2>6. Kept(id) \in Nat /\ Records(id) \in Nat
    BY <2>1, CountsType DEF Countable
  <2>7. /\ Kept(id)' + Weight(Idle, id) + Records(id)
             <= Kept(id) + Weight(call[t], id) + Records(id)'
        /\ Records(id) + Owes(Idle, id) <= Records(id)' + Owes(call[t], id)
    BY <2>2, <2>4, <2>5, <2>6
  <2>8. /\ (fate[id])' = fate[id] /\ (dlq_wal[id])' = dlq_wal[id] /\ (dlq[id])' = dlq[id]
        /\ (leased[id])' = leased[id] /\ (id \in stranded => id \in stranded')
    BY <1>1, <1>3
  <2> QED BY <1>1, <2>1, <2>2, <2>3, <2>4, <2>7, <2>8, LossMoved
<1> QED BY <1>4


\* The messages a queue Q and a backoff list D hold under one id.
PlacesIn(Q, D, id) == Cardinality(Where(Q, {e \in Entry : e.id = id}))
                      + Cardinality(Where(D, {d \in Delayed : d.entry.id = id}))

\* promote_ready_delayed loses none of them and makes none.
LEMMA PromoteSizes ==
    ASSUME TypeOK, NEW id,
           NEW ready \in Ascending(ReadyPositions),
           NEW waiting \in Ascending(DOMAIN delayed \ ReadyPositions)
    PROVE  PlacesIn(pending \o Promoted(ready), StillDelayed(waiting), id)
             = PlacesIn(pending, delayed, id)
<1> DEFINE R == ReadyPositions
           W == DOMAIN delayed \ R
           P == Promoted(ready)
           E == {e \in Entry : e.id = id}
           T == {d \in Delayed : d.entry.id = id}
           A == Where(delayed, T)
<1>1. pending \in Seq(Entry) /\ delayed \in Seq(Delayed)
  BY DEF TypeOK
<1>2. R \in SUBSET DOMAIN delayed /\ W \in SUBSET DOMAIN delayed
  BY DEF ReadyPositions
<1>3. P \in Seq(Entry)
  BY <1>1, <1>2, PromoteType
<1>4. Cardinality(Where(pending \o P, E))
        = Cardinality(Where(pending, E)) + Cardinality(Where(P, E))
  <2> HIDE DEF P, E
  <2> QED BY <1>1, <1>3, WhereConcat
<1>5. Where(P, E) = Where(Pick(delayed, ready), T)
  <2>1. /\ DOMAIN P = DOMAIN ready /\ DOMAIN Pick(delayed, ready) = DOMAIN ready
        /\ \A k \in DOMAIN ready : /\ P[k] = delayed[ready[k]].entry
                                   /\ Pick(delayed, ready)[k] = delayed[ready[k]]
    BY DEF Promoted, Pick
  <2>2. \A k \in DOMAIN ready : ready[k] \in DOMAIN delayed
    <3>1. Positions(R)
      BY <1>1, <1>2, PositionsIn
    <3>2. ready \in [1..Cardinality(R) -> R]
      BY <3>1, AscendingLists
    <3> QED BY <1>2, <3>2
  <2>3. \A k \in DOMAIN ready : delayed[ready[k]] \in Delayed /\ delayed[ready[k]].entry \in Entry
    <3>1. \A k \in DOMAIN ready : delayed[ready[k]] \in Delayed
      BY <1>1, <2>2
    <3> QED BY <3>1 DEF Delayed
  <2> HIDE DEF P
  <2> QED BY <2>1, <2>3 DEF Where
<1>6. Cardinality(Where(Pick(delayed, ready), T)) = Cardinality(A \cap R)
  <2> HIDE DEF T, R
  <2> QED BY <1>1, <1>2, WherePick DEF R
<1>7. Cardinality(Where(Pick(delayed, waiting), T)) = Cardinality(A \cap W)
  <2> HIDE DEF T
  <2>1. waiting \in Ascending(W)
    OBVIOUS
  <2> HIDE DEF W
  <2> QED BY <1>1, <1>2, <2>1, WherePick, SMTT(30)
<1>8. IsFiniteSet(A) /\ Cardinality(A) \in Nat /\ A \subseteq DOMAIN delayed
  <2>1. IsFiniteSet(A) /\ Cardinality(A) \in Nat
    <3> HIDE DEF T
    <3> QED BY <1>1, WhereFinite
  <2> QED BY <2>1 DEF Where
<1> HIDE DEF A, R
<1>9. A \cap W = A \ R
  BY <1>8
<1>10. Cardinality(A \ R) = Cardinality(A) - Cardinality(A \cap R)
  BY <1>8, FS_Difference
<1>11. IsFiniteSet(A \cap R) /\ Cardinality(A \cap R) \in Nat
  <2>1. IsFiniteSet(A \cap R)
    BY <1>8, FS_Subset
  <2> QED BY <2>1, FS_CardinalityType
<1>12. Cardinality(Where(pending, E)) \in Nat
  <2> HIDE DEF E
  <2> QED BY <1>1, WhereFinite
<1> HIDE DEF P, E, T, W
<1>13. /\ Cardinality(Where(P, E)) = Cardinality(A \cap R)
       /\ Cardinality(Where(Pick(delayed, waiting), T)) = Cardinality(A \ R)
  <2>1. Cardinality(Where(P, E)) = Cardinality(Where(Pick(delayed, ready), T))
    BY <1>5
  <2>2. Cardinality(A \cap W) = Cardinality(A \ R)
    BY <1>9
  <2> QED BY <1>6, <1>7, <2>1, <2>2
<1>14. Cardinality(Where(pending \o P, E)) + Cardinality(Where(Pick(delayed, waiting), T))
         = Cardinality(Where(pending, E)) + Cardinality(A)
  BY <1>4, <1>8, <1>10, <1>11, <1>12, <1>13
<1>15. PlacesIn(pending \o P, Pick(delayed, waiting), id)
         = Cardinality(Where(pending \o P, E)) + Cardinality(Where(Pick(delayed, waiting), T))
  BY DEF PlacesIn, E, T
<1>16. PlacesIn(pending, delayed, id) = Cardinality(Where(pending, E)) + Cardinality(A)
  BY DEF PlacesIn, A, E, T
<1>17. PlacesIn(pending \o P, Pick(delayed, waiting), id) = PlacesIn(pending, delayed, id)
  BY <1>14, <1>15, <1>16
<1> QED BY <1>17 DEF P, StillDelayed

\* The front of the queue goes to its lease; no message is left nowhere.
LEMMA PopPendingLoss ==
    ASSUME LossInv, TypeOK', NEW t \in Tasks, PopPending(t)
    PROVE  \A id \in Ids \ truncated : LossOf(id)'
<1> USE DEF vars, memVars, walVars, cpVars, auxVars
<1>1. HomeInv /\ TypeOK /\ pending \in Seq(Entry) /\ delayed \in Seq(Delayed)
  BY DEF LossInv, HomeInv, TypeOK
<1>2. PICK ready \in Ascending(ReadyPositions),
           waiting \in Ascending(DOMAIN delayed \ ReadyPositions) :
        \E Q, c, m : /\ delayed' = StillDelayed(waiting) /\ Q = pending \o Promoted(ready)
                     /\ Popped(t, Q, c, m)
  BY <1>1, PopFront
<1>3. PICK Q, c, m : /\ delayed' = StillDelayed(waiting) /\ Q = pending \o Promoted(ready)
                     /\ Popped(t, Q, c, m)
  BY <1>2
<1>4. /\ UNCHANGED <<dlq, dlq_wal, wal_pending, stranded, fate>>
      /\ call[t].pc = "pop" /\ call[t].batch = {}
  BY <1>1 DEF PopPending, At, HomeInv, Keyed, KeyedCall
<1>5. /\ Q \in Seq(Entry)
      /\ call' = [call EXCEPT ![t] = c] /\ c.batch = {} /\ c.pc \in {"blocked", "idle"}
      /\ pending' = IF Q = <<>> THEN Q ELSE Tail(Q)
      /\ Q = <<>> => leased' = leased
      /\ Q # <<>> => /\ m = Q[1].id /\ m \in Ids /\ leased'[m] # None
                     /\ \A id \in Ids \ {m} : leased'[id] = leased[id]
  BY <1>3 DEF Popped
<1>6. ASSUME NEW id \in Ids \ truncated PROVE LossOf(id)'
  <2>1. LossOf(id)
    BY DEF LossInv
  <2> DEFINE E == {e \in Entry : e.id = id}
             T == {d \in Delayed : d.entry.id = id}
             q == Cardinality(Where(Q, E))
  <2>2. /\ AtPending(id) = Where(pending, E) /\ AtDelayed(id) = Where(delayed, T)
    BY <1>1 DEF AtPending, AtDelayed, Where
  <2>3. AtPending(id)' = Where(pending', E) /\ AtDelayed(id)' = Where(delayed', T)
    <3>1. pending' \in Seq(Entry) /\ delayed' \in Seq(Delayed)
      BY DEF TypeOK
    <3> QED BY <3>1 DEF AtPending, AtDelayed, Where
  <2>4. q + Cardinality(AtDelayed(id)') = Cardinality(AtPending(id)) + Cardinality(AtDelayed(id))
    <3>1. PlacesIn(Q, delayed', id) = PlacesIn(pending, delayed, id)
      BY <1>1, <1>3, PromoteSizes
    <3> HIDE DEF E, T
    <3>2. PlacesIn(Q, delayed', id) = q + Cardinality(Where(delayed', T))
      BY DEF PlacesIn, E, T
    <3>3. PlacesIn(pending, delayed, id) = Cardinality(Where(pending, E)) + Cardinality(Where(delayed, T))
      BY DEF PlacesIn, E, T
    <3> QED BY <2>2, <2>3, <3>1, <3>2, <3>3
  <2>5. Countable(id) /\ Countable(id)'
    BY <1>1, CountsType
  <2>6. q \in Nat
    <3> HIDE DEF E
    <3> QED BY <1>5, WhereFinite
  \* The message's place in the queue is kept, or becomes its lease.
  <2>7. /\ Cardinality(AtPending(id)') + One((leased[id])' # None) <= q + One(leased[id] # None)
        /\ q > 0 => Cardinality(AtPending(id)') > 0 \/ (leased[id])' # None
        /\ leased[id] # None => (leased[id])' # None
    <3>1. CASE Q = <<>>
      <4>1. pending' = Q /\ leased' = leased
        BY <1>5, <3>1
      <4>2. Cardinality(AtPending(id)') = q
        BY <2>3, <4>1
      <4> QED BY <2>6, <4>1, <4>2 DEF One
    <3>2. CASE Q # <<>>
      <4>1. Cardinality(AtPending(id)') = IF Q[1] \in E THEN q - 1 ELSE q
        <5>1. pending' = Tail(Q)
          BY <1>5, <3>2
        <5> HIDE DEF E
        <5> QED BY <1>5, <2>3, <3>2, <5>1, WhereTail
      <4>2. Q[1] \in E <=> id = m
        BY <1>5, <3>2
      <4>3. CASE id = m
        BY <1>5, <2>6, <3>2, <4>1, <4>2, <4>3 DEF One
      <4>4. CASE id # m
        <5>1. leased'[id] = leased[id]
          BY <1>5, <3>2, <4>4
        <5> QED BY <2>6, <4>1, <4>2, <4>4, <5>1 DEF One
      <4> QED BY <4>3, <4>4
    <3> QED BY <3>1, <3>2
  <2> HIDE DEF q, E, T
  <2>8. Kept(id)' <= Kept(id) /\ Kept(id)' \in Nat /\ Kept(id) \in Nat /\ Records(id) \in Nat
    BY <2>4, <2>5, <2>6, <2>7 DEF Kept, Countable, One
  <2>9. \/ AtPending(id) # {} \/ AtDelayed(id) # {} \/ leased[id] # None
        => \/ AtPending(id)' # {} \/ AtDelayed(id)' # {} \/ (leased[id])' # None
    <3>1. \A S : IsFiniteSet(S) => (Cardinality(S) = 0 <=> S = {})
      BY FS_EmptySet
    <3>2. /\ Cardinality(AtPending(id)) = 0 <=> AtPending(id) = {}
          /\ Cardinality(AtDelayed(id)) = 0 <=> AtDelayed(id) = {}
          /\ Cardinality(AtPending(id)') = 0 <=> AtPending(id)' = {}
          /\ Cardinality(AtDelayed(id)') = 0 <=> AtDelayed(id)' = {}
      BY <2>5, <3>1 DEF Countable
    <3>3. /\ Cardinality(AtPending(id)) \in Nat /\ Cardinality(AtDelayed(id)) \in Nat
          /\ Cardinality(AtPending(id)') \in Nat /\ Cardinality(AtDelayed(id)') \in Nat
      BY <2>5 DEF Countable
    <3> QED BY <2>4, <2>6, <2>7, <3>2, <3>3
  <2>10. /\ ~Reprocesses(call[t], id) /\ ~BatchHas(call[t], id) /\ ~AckHas(call[t], id)
         /\ ~HandHas(call[t], "enqueue_wal", id) /\ ~HandHas(call[t], "enqueue_push", id)
         /\ ~HandHas(call[t], "take_wal", id) /\ ~HandHas(call[t], "dlq_insert", id)
         /\ ~HandHas(call[t], "dead_lettered", id)
    BY <1>4 DEF Reprocesses, HandHas, BatchHas, AckHas
  <2>11. /\ ~BatchHas(c, id) /\ ~AckHas(c, id) /\ ~HandHas(c, "enqueue_push", id)
         /\ ~HandHas(c, "dlq_insert", id) /\ ~HandHas(c, "dead_lettered", id)
    BY <1>5 DEF HandHas, BatchHas, AckHas
  <2>12. /\ Weight(call[t], id) = 0 /\ Owes(call[t], id) = 0 /\ ~Has(call[t], id)
         /\ Weight(c, id) = 0 /\ Owes(c, id) = 0
    BY <2>10, <2>11 DEF Weight, Owes, One, Has
  <2>13. Records(id)' = Records(id)
    BY <1>4 DEF Records, InLog
  <2>14. /\ Kept(id)' + Weight(c, id) + Records(id)
              <= Kept(id) + Weight(call[t], id) + Records(id)'
         /\ Records(id) + Owes(c, id) <= Records(id)' + Owes(call[t], id)
    BY <2>8, <2>12, <2>13
  <2>15. /\ (fate[id])' = fate[id] /\ (dlq_wal[id])' = dlq_wal[id] /\ (dlq[id])' = dlq[id]
         /\ (id \in stranded' <=> id \in stranded)
    BY <1>4
  <2> QED BY <1>1, <1>5, <2>1, <2>9, <2>10, <2>12, <2>14, <2>15, LossMoved
<1> QED BY <1>6

-----------------------------------------------------------------------------
(* The steps of reprocess_dead_letter and purge_dead_letter                 *)

\* From the DLQ into the hand of the call.
LEMMA TakeDeadLetterLoss ==
    ASSUME LossInv, TypeOK', NEW t \in Tasks, TakeDeadLetter(t)
    PROVE  \A id \in Ids \ truncated : LossOf(id)'
<1> USE DEF vars, memVars, walVars, cpVars, auxVars
<1>1. PICK m \in Ids, o \in {"reprocess", "purge"} :
        /\ Starts(t, o) /\ dlq[m] # None
        /\ dlq' = [dlq EXCEPT ![m] = None]
        /\ call' = [call EXCEPT ![t] = [Idle EXCEPT !.op = o, !.pc = "take_wal",
                                                    !.entry = dlq[m].entry]]
  BY DEF TakeDeadLetter
<1>2. PICK c :
        /\ c = [Idle EXCEPT !.op = o, !.pc = "take_wal", !.entry = dlq[m].entry]
        /\ call' = [call EXCEPT ![t] = c]
  BY <1>1
<1>3. /\ dlq \in [Ids -> DeadLetter \cup {None}] /\ dlq[m].entry.id = m
      /\ UNCHANGED <<pending, delayed, leased, dlq_wal, wal_pending, stranded, fate>>
      /\ call[t].pc = "idle" /\ call[t].batch = {}
  BY <1>1 DEF TakeDeadLetter, Starts, LossInv, HomeInv, Keyed, KeyedCall, TypeOK
<1>4. c.pc = "take_wal" /\ c.entry.id = m /\ c.batch = {}
  BY <1>2, <1>3 DEF Idle
<1>5. \A id \in Ids : dlq'[id] = IF id = m THEN None ELSE dlq[id]
  BY <1>1, <1>3
<1>6. ASSUME NEW id \in Ids \ truncated PROVE LossOf(id)'
  <2>1. LossOf(id) /\ TypeOK
    BY DEF LossInv, HomeInv
  <2>2. AtPending(id)' = AtPending(id) /\ AtDelayed(id)' = AtDelayed(id)
        /\ Records(id)' = Records(id) /\ Kept(id)' = Kept(id)
    BY <1>3 DEF AtPending, AtDelayed, Records, InLog, Kept, One
  <2>3. /\ Weight(c, id) = 0 /\ Weight(call[t], id) = 0 /\ Owes(c, id) = 0
        /\ Owes(call[t], id) = 0 /\ ~Has(call[t], id) /\ ~Reprocesses(call[t], id)
    BY <1>3, <1>4 DEF Weight, Owes, One, BatchHas, AckHas, HandHas, Has, Reprocesses
  <2>4. id = m => Has(c, id)
    BY <1>4 DEF Has, HandHas
  <2>5. Kept(id) \in Nat /\ Records(id) \in Nat
    BY <2>1, CountsType DEF Countable
  <2>6. /\ Kept(id)' + Weight(c, id) + Records(id)
             <= Kept(id) + Weight(call[t], id) + Records(id)'
        /\ Records(id) + Owes(c, id) <= Records(id)' + Owes(call[t], id)
    BY <2>2, <2>3, <2>5
  <2>7. /\ (fate[id])' = fate[id] /\ (dlq_wal[id])' = dlq_wal[id]
        /\ (leased[id])' = leased[id] /\ (id \in stranded' <=> id \in stranded)
        /\ (dlq[id])' = IF id = m THEN None ELSE dlq[id]
    BY <1>3, <1>5
  <2> QED BY <1>2, <2>1, <2>2, <2>3, <2>4, <2>6, <2>7, LossMoved
<1> QED BY <1>6

\* The Remove record: a purged message is over, a reprocessed one is about to be
\* logged again, and a failed append drops the message.
LEMMA TakeAppendLoss ==
    ASSUME LossInv, TypeOK', NEW t \in Tasks, TakeAppend(t)
    PROVE  \A id \in Ids \ truncated : LossOf(id)'
<1> USE DEF vars, memVars, walVars, cpVars, auxVars
<1> DEFINE m == call[t].entry.id
           key == call[t].entry.key
           purge == call[t].op = "purge"
<1>1. PICK r \in AppendResult :
        /\ dlq_wal' = IF r.durable THEN [dlq_wal EXCEPT ![m] = None] ELSE dlq_wal
        /\ IF ~r.ok \/ (purge /\ key = None)
           THEN Return(t)
           ELSE call' = [call EXCEPT ![t] =
                  IF @.op = "purge" THEN [@ EXCEPT !.pc = "purge_release"]
                  ELSE [@ EXCEPT !.pc = "enqueue_wal", !.entry = NewEntry(m, key)]]
        /\ fate' = [fate EXCEPT ![m] = IF r.durable /\ purge THEN "done"
                                       ELSE IF r.durable /\ ~r.ok THEN "dropped" ELSE @]
        /\ stranded' = IF r.ok THEN stranded ELSE stranded \cup {m}
  BY DEF TakeAppend
<1>2. /\ call \in [Tasks -> Call] /\ fate \in [Ids -> Fates]
      /\ dlq_wal \in [Ids -> DeadLetter \cup {None}]
      /\ UNCHANGED <<pending, delayed, leased, dlq, wal_pending>>
      /\ call[t].pc = "take_wal" /\ call[t].batch = {}
      /\ Idle.pc = "idle" /\ Idle.batch = {}
  BY DEF TakeAppend, At, LossInv, HomeInv, Keyed, KeyedCall, TypeOK, Idle
<1>3. ~purge => call[t].op = "reprocess"
  BY <1>2 DEF LossInv, HomeInv, Keyed, KeyedCall
<1>4. PICK c : /\ call' = [call EXCEPT ![t] = c] /\ c.batch = {}
               /\ \/ c.pc \in {"idle", "purge_release"} /\ (~r.ok \/ purge)
                  \/ /\ r.ok /\ ~purge
                     /\ c.op = "reprocess" /\ c.entry.id = m /\ c.pc = "enqueue_wal"
  <2>1. CASE ~r.ok \/ (purge /\ key = None)
    BY <1>1, <1>2, <2>1 DEF Return
  <2>2. CASE r.ok /\ purge /\ key # None
    <3> DEFINE c == [call[t] EXCEPT !.pc = "purge_release"]
    <3>1. c.pc = "purge_release" /\ c.batch = {}
      BY <1>2 DEF Call, Locals
    <3>2. call' = [call EXCEPT ![t] = c]
      BY <1>1, <2>2
    <3> QED BY <2>2, <3>1, <3>2
  <2>3. CASE r.ok /\ ~purge
    <3> DEFINE c == [call[t] EXCEPT !.pc = "enqueue_wal", !.entry = NewEntry(m, key)]
    <3>1. c.pc = "enqueue_wal" /\ c.op = "reprocess" /\ c.entry.id = m /\ c.batch = {}
      BY <1>2, <1>3, <2>3 DEF Call, Locals, NewEntry
    <3>2. call' = [call EXCEPT ![t] = c]
      BY <1>1, <2>3
    <3> QED BY <2>3, <3>1, <3>2
  <2> QED BY <2>1, <2>2, <2>3
<1>5. /\ r.ok => r.durable
      /\ \A id \in Ids :
           /\ dlq_wal'[id] = IF r.durable /\ id = m THEN None ELSE dlq_wal[id]
           /\ id \in stranded' <=> id \in stranded \/ (~r.ok /\ id = m)
           /\ fate'[id] = IF id = m /\ r.durable /\ purge THEN "done"
                          ELSE IF id = m /\ r.durable /\ ~r.ok THEN "dropped" ELSE fate[id]
  BY <1>1, <1>2 DEF AppendResult
<1>6. \A id : HandHas(call[t], "take_wal", id) <=> id = m
  BY <1>2 DEF HandHas
<1>7. \A id : r.ok /\ ~purge /\ id = m => Reprocesses(c, id) /\ Has(c, id)
  BY <1>4 DEF Reprocesses, Has, HandHas
<1> HIDE DEF m, key, purge
<1>8. ASSUME NEW id \in Ids \ truncated PROVE LossOf(id)'
  <2>1. LossOf(id) /\ TypeOK
    BY DEF LossInv, HomeInv
  <2>2. AtPending(id)' = AtPending(id) /\ AtDelayed(id)' = AtDelayed(id)
        /\ Records(id)' = Records(id) /\ Kept(id)' = Kept(id)
    BY <1>2 DEF AtPending, AtDelayed, Records, InLog, Kept, One
  <2>3. /\ Weight(call[t], id) = 0 /\ Owes(call[t], id) = 0 /\ ~Reprocesses(call[t], id)
        /\ Has(call[t], id) => id = m
    BY <1>2, <1>6 DEF Weight, Owes, One, BatchHas, AckHas, HandHas, Has, Reprocesses
  <2>4. Weight(c, id) = 0 /\ Owes(c, id) = 0
    <3>1. /\ ~BatchHas(c, id) /\ ~AckHas(c, id) /\ ~HandHas(c, "enqueue_push", id)
          /\ ~HandHas(c, "dlq_insert", id) /\ ~HandHas(c, "dead_lettered", id)
      BY <1>4 DEF BatchHas, AckHas, HandHas
    <3> QED BY <3>1 DEF Weight, Owes, One
  <2>5. Kept(id) \in Nat /\ Records(id) \in Nat
    BY <2>1, CountsType DEF Countable
  <2>6. /\ Kept(id)' + Weight(c, id) + Records(id)
             <= Kept(id) + Weight(call[t], id) + Records(id)'
        /\ Records(id) + Owes(c, id) <= Records(id)' + Owes(call[t], id)
    BY <2>2, <2>3, <2>4, <2>5
  <2>7. (leased[id])' = leased[id] /\ (dlq[id])' = dlq[id]
    BY <1>2
  <2>8. (fate[id])' = "accepted" =>
          /\ fate[id] = "accepted"
          /\ \/ Reprocesses(c, id) /\ Has(c, id)
             \/ /\ (dlq_wal[id])' = dlq_wal[id]
                /\ id \notin stranded' => id # m /\ id \notin stranded
    BY <1>5, <1>7
  <2> QED BY <1>4, <2>1, <2>2, <2>3, <2>6, <2>7, <2>8, LossMoved
<1> QED BY <1>8

\* The purged message is over.
LEMMA PurgeReleaseLoss ==
    ASSUME LossInv, TypeOK', NEW t \in Tasks, PurgeRelease(t)
    PROVE  \A id \in Ids \ truncated : LossOf(id)'
<1> USE DEF vars, memVars, walVars, cpVars, auxVars
<1>1. /\ call' = [call EXCEPT ![t] = Idle] /\ Idle.pc = "idle" /\ Idle.batch = {}
      /\ fate' = [fate EXCEPT ![call[t].entry.id] = "purged"] /\ fate \in [Ids -> Fates]
      /\ UNCHANGED <<pending, leased, delayed, dlq, dlq_wal, wal_pending, stranded>>
  BY DEF PurgeRelease, Return, Idle, LossInv, HomeInv, TypeOK
<1>2. call[t].pc = "purge_release" /\ call[t].batch = {}
  BY DEF PurgeRelease, At, LossInv, HomeInv, Keyed, KeyedCall
<1>3. ASSUME NEW id \in Ids \ truncated PROVE LossOf(id)'
  <2>1. LossOf(id) /\ TypeOK
    BY DEF LossInv, HomeInv
  <2>2. AtPending(id)' = AtPending(id) /\ AtDelayed(id)' = AtDelayed(id)
        /\ Records(id)' = Records(id) /\ Kept(id)' = Kept(id)
    BY <1>1 DEF AtPending, AtDelayed, Records, InLog, Kept, One
  <2>3. /\ ~Reprocesses(call[t], id) /\ ~BatchHas(call[t], id) /\ ~AckHas(call[t], id)
        /\ ~HandHas(call[t], "enqueue_wal", id) /\ ~HandHas(call[t], "enqueue_push", id)
        /\ ~HandHas(call[t], "take_wal", id) /\ ~HandHas(call[t], "dlq_insert", id)
        /\ ~HandHas(call[t], "dead_lettered", id)
    BY <1>2 DEF Reprocesses, HandHas, BatchHas, AckHas
  <2>4. Weight(call[t], id) = 0 /\ Owes(call[t], id) = 0 /\ ~Has(call[t], id)
    BY <2>3 DEF Weight, Owes, One, Has
  <2>5. Weight(Idle, id) = 0 /\ Owes(Idle, id) = 0
    <3>1. ~BatchHas(Idle, id)
      BY <1>1 DEF BatchHas
    <3> QED BY <1>1, <3>1, ResolvedWeight DEF One
  <2>6. Kept(id) \in Nat /\ Records(id) \in Nat
    BY <2>1, CountsType DEF Countable
  <2>7. /\ Kept(id)' + Weight(Idle, id) + Records(id)
             <= Kept(id) + Weight(call[t], id) + Records(id)'
        /\ Records(id) + Owes(Idle, id) <= Records(id)' + Owes(call[t], id)
    BY <2>2, <2>4, <2>5, <2>6
  <2>8. /\ (fate[id])' = "accepted" => fate[id] = "accepted"
        /\ (dlq_wal[id])' = dlq_wal[id] /\ (dlq[id])' = dlq[id]
        /\ (leased[id])' = leased[id] /\ (id \in stranded <=> id \in stranded')
    BY <1>1
  <2> QED BY <1>1, <2>1, <2>2, <2>3, <2>4, <2>7, <2>8, LossMoved
<1> QED BY <1>3


-----------------------------------------------------------------------------
(* Restarts, and the theorems                                               *)

\* A restart owes no records and finds in its queue every record of a message none
\* of whose records it cuts off.
LEMMA CrashLoss ==
    ASSUME LossInv, TypeOK', CrashAndOpen
    PROVE  \A id \in Ids \ truncated' : LossOf(id)'
<1>1. /\ delayed' = <<>>
      /\ \A id \in Ids : leased'[id] = None
      /\ \A t \in Tasks : call'[t] = Idle
      /\ truncated' = truncated \cup Unreplayed
  BY DEF CrashAndOpen
<1>2. \A id \in Ids : (fate[id])' = "accepted" => fate[id] = "accepted" /\ ~BeingReprocessed(id)
  BY DEF CrashAndOpen, BeingReprocessed
<1>3. Idle.pc = "idle" /\ Idle.batch = {}
  BY DEF Idle
<1>4. ASSUME NEW id \in Ids \ truncated' PROVE LossOf(id)'
  <2>1. LossOf(id) /\ TypeOK /\ id \notin Unreplayed
    BY <1>1 DEF LossInv, HomeInv
  <2>2. /\ AtPending(id)' = InLog(id)' /\ AtDelayed(id)' = {}
        /\ Cardinality(InLog(id)') = Cardinality(InLog(id))
        /\ (dlq[id])' = (dlq_wal[id])' /\ (dlq_wal[id])' = dlq_wal[id]
    BY <1>1, <2>1, CrashRecords DEF AtDelayed
  <2>3. /\ InBatch(id)' = {} /\ Acking(id)' = {} /\ HandAt("enqueue_push", id)' = {}
        /\ HandAt("dlq_insert", id)' = {} /\ HandAt("dead_lettered", id)' = {}
    BY <1>1, <1>3 DEF InBatch, Acking, HandAt
  <2>4. IsFiniteSet({}) /\ Cardinality({}) = 0
    BY FS_EmptySet
  <2>5. HandsFinite(id)' /\ Owed(id)' = 0 /\ Held(id)' = 0
    BY <2>3, <2>4 DEF HandsFinite, Owed, Held
  <2>6. (leased[id])' = None /\ (dlq[id])' = dlq_wal[id] /\ (dlq_wal[id])' = dlq_wal[id]
    BY <1>1, <2>2
  <2>7. Countable(id)
    BY <2>1, CountsType
  <2>8. Records(id)' = Records(id) /\ Kept(id)' = Records(id) /\ Records(id) \in Nat
    BY <2>2, <2>4, <2>6, <2>7 DEF Records, Kept, One, Countable
  <2>9. Backed(id)'
    BY <2>5, <2>8 DEF Backed
  <2>10. (fate[id])' = "accepted" => dlq_wal[id] # None \/ 0 < Records(id)
    <3>1. Owed(id) \in Nat
      <4>1. Backed(id) /\ HandsFinite(id)
        BY <2>1 DEF LossOf, Backed
      <4>2. /\ IsFiniteSet(HandAt("dlq_insert", id)) /\ IsFiniteSet(HandAt("dead_lettered", id))
        BY <4>1 DEF HandsFinite
      <4>3. /\ Cardinality(HandAt("dlq_insert", id)) \in Nat
            /\ Cardinality(HandAt("dead_lettered", id)) \in Nat
        BY <4>2, FS_CardinalityType
      <4> QED BY <4>3 DEF Owed
    <3> QED BY <1>2, <2>1, <2>8, <3>1 DEF LossOf, Durable
  <2>11. Durable(id)'
    BY <2>5, <2>6, <2>8, <2>10 DEF Durable
  <2>12. 0 < Records(id) => AtPending(id)' # {}
    BY <2>2, <2>4 DEF Records
  <2>13. Housed(id)'
    BY <2>6, <2>10, <2>12 DEF Housed
  <2> QED BY <2>9, <2>11, <2>13 DEF LossOf
<1> QED BY <1>4

LEMMA LossInit == Init => LossInv
<1> SUFFICES ASSUME Init PROVE LossInv
  OBVIOUS
<1>1. HomeInv
  BY HomeInit
<1>2. Idle.pc = "idle" /\ Idle.batch = {}
  BY DEF Idle
<1>3. ASSUME NEW id \in Ids PROVE LossOf(id)
  <2>1. /\ AtPending(id) = {} /\ AtDelayed(id) = {} /\ InLog(id) = {}
    BY DEF Init, AtPending, AtDelayed, InLog
  <2>2. /\ InBatch(id) = {} /\ Acking(id) = {} /\ HandAt("enqueue_push", id) = {}
        /\ HandAt("dlq_insert", id) = {} /\ HandAt("dead_lettered", id) = {}
    BY <1>2 DEF Init, InBatch, Acking, HandAt
  <2>3. leased[id] = None /\ fate[id] # "accepted"
    BY DEF Init
  <2>4. IsFiniteSet({}) /\ Cardinality({}) = 0
    BY FS_EmptySet
  <2>5. HandsFinite(id) /\ Owed(id) = 0 /\ Held(id) = 0
    BY <2>2, <2>4 DEF HandsFinite, Owed, Held
  <2>6. Records(id) = 0 /\ Kept(id) = 0
    BY <2>1, <2>3, <2>4 DEF Records, Kept, One
  <2> QED BY <2>3, <2>5, <2>6 DEF LossOf, Backed, Durable, Housed
<1> QED BY <1>1, <1>3 DEF LossInv

\* Every step loses nothing.
LEMMA LossStep == LossInv /\ [Next]_vars => LossInv'
<1> SUFFICES ASSUME LossInv, [Next]_vars PROVE \A id \in Ids \ truncated' : LossOf(id)'
  BY HomeStep DEF LossInv
<1>1. HomeInv /\ TypeOK' /\ (CrashAndOpen \/ UNCHANGED truncated)
  BY TypeStep, TearStep DEF LossInv, HomeInv, TearMoves
<1>2. CASE CrashAndOpen
  BY <1>2, <1>1, CrashLoss
<1> SUFFICES ASSUME UNCHANGED truncated, ~CrashAndOpen
             PROVE \A id \in Ids \ truncated : LossOf(id)'
  BY <1>2, <1>1
<1>3. CASE UNCHANGED vars
  <2>1. UNCHANGED <<pending, delayed, leased, call, dlq, dlq_wal, wal_pending, stranded, fate>>
    BY <1>3 DEF vars, memVars, walVars, auxVars
  <2>2. \A id \in Ids : (leased'[id] = None <=> leased[id] = None) /\ AtDelayed(id)' = AtDelayed(id)
    BY <2>1 DEF AtDelayed
  <2> QED BY <2>1, <2>2, StillLoss
<1>4. ASSUME NEW t \in Tasks, Enqueue(t) PROVE \A id \in Ids \ truncated : LossOf(id)'
  <2>1. CASE EnqueueDuplicate(t)
    <3>1. UNCHANGED <<pending, delayed, leased, call, dlq, dlq_wal, wal_pending, stranded, fate>>
      BY <2>1 DEF EnqueueDuplicate, memVars, walVars
    <3>2. \A id \in Ids : (leased'[id] = None <=> leased[id] = None) /\ AtDelayed(id)' = AtDelayed(id)
      BY <3>1 DEF AtDelayed
    <3> QED BY <3>1, <3>2, StillLoss
  <2>2. CASE EnqueueUndo(t)
    BY <1>1, <2>2, EnqueueUndoQuiet, QuietLoss
  <2> QED BY <1>1, <1>4, <2>1, <2>2, EnqueueReserveLoss, WriteEnqueueLoss, PushPendingLoss
          DEF Enqueue
<1>5. ASSUME NEW t \in Tasks, Claim(t) PROVE \A id \in Ids \ truncated : LossOf(id)'
  BY <1>1, <1>5, ReclaimExpiredLoss, PopPendingLoss, CancelClaimLoss DEF Claim
<1>6. ASSUME NEW t \in Tasks, Settle(t) PROVE \A id \in Ids \ truncated : LossOf(id)'
  BY <1>1, <1>6, ReleaseLoss, AckAppendLoss DEF Settle
<1>7. ASSUME NEW t \in Tasks, Resolve(t) PROVE \A id \in Ids \ truncated : LossOf(id)'
  BY <1>1, <1>7, RetryLaterLoss, RecordDeadLetterLoss, InsertDeadLetterLoss,
     AppendDeadLetteredLoss DEF Resolve
<1>8. ASSUME NEW t \in Tasks, Checkpoint(t) PROVE \A id \in Ids \ truncated : LossOf(id)'
  BY <1>1, <1>8, CheckpointQuiet, QuietLoss
<1>9. ASSUME NEW t \in Tasks, Triage(t) PROVE \A id \in Ids \ truncated : LossOf(id)'
  BY <1>1, <1>9, AnnotateQuiet, QuietLoss, TakeDeadLetterLoss, TakeAppendLoss,
     PurgeReleaseLoss DEF Triage
<1>10. ASSUME NEW m \in Ids, VisibilityTimeout(m) PROVE \A id \in Ids \ truncated : LossOf(id)'
  <2>1. /\ UNCHANGED <<pending, delayed, call, dlq, dlq_wal, wal_pending, stranded, fate>>
        /\ leased[m] # None /\ leased' = [leased EXCEPT ![m].expired = TRUE]
        /\ leased \in [Ids -> Lease \cup {None}]
    BY <1>1, <1>10 DEF VisibilityTimeout, walVars, auxVars, HomeInv, TypeOK
  <2>2. leased'[m] # None
    <3>1. [leased[m] EXCEPT !.expired = TRUE] \in Lease
      BY <2>1 DEF Lease
    <3> QED BY <2>1, <3>1, OptionAssumption
  <2>3. \A id \in Ids : (leased'[id] = None <=> leased[id] = None) /\ AtDelayed(id)' = AtDelayed(id)
    BY <2>1, <2>2 DEF AtDelayed
  <2> QED BY <2>1, <2>3, StillLoss
<1>11. ASSUME BackoffElapses PROVE \A id \in Ids \ truncated : LossOf(id)'
  <2>1. PICK i \in DOMAIN delayed : delayed' = [delayed EXCEPT ![i].ready = TRUE]
    BY <1>11 DEF BackoffElapses
  <2>2. /\ UNCHANGED <<pending, leased, call, dlq, dlq_wal, wal_pending, stranded, fate>>
        /\ delayed \in Seq(Delayed)
    BY <1>1, <1>11 DEF BackoffElapses, walVars, auxVars, HomeInv, TypeOK
  <2>3. /\ DOMAIN delayed' = DOMAIN delayed
        /\ \A j \in DOMAIN delayed : delayed'[j].entry = delayed[j].entry
    BY <2>1, <2>2 DEF Delayed
  <2>4. \A id \in Ids : (leased'[id] = None <=> leased[id] = None) /\ AtDelayed(id)' = AtDelayed(id)
    BY <2>2, <2>3 DEF AtDelayed
  <2> QED BY <2>2, <2>4, StillLoss
<1>12. CASE Next
  BY <1>1, <1>3, <1>4, <1>5, <1>6, <1>7, <1>8, <1>9, <1>10, <1>11, <1>12 DEF Next, Rest
<1> QED BY <1>3, <1>12

\* At-least-once delivery survives a crash at any instant: what
\* ConsumerGroup::open would rebuild from the two logs includes every message
\* whose enqueue returned Ok and that was neither acked nor purged, save one that
\* reprocess_dead_letter has between its two records, and save the messages one of
\* whose own records lies, or lay at an earlier restart, behind a torn frame.  This
\* holds for a message whose dead-lettering was cut in two as well.
THEOREM NothingSilentlyLost == Spec => []NoSilentLoss
<1>1. LossInv => NoSilentLoss
  <2> SUFFICES ASSUME LossInv, NEW id \in Ids \ (truncated \cup Unreplayed),
                      fate[id] = "accepted"
               PROVE  InWal(id) \/ InDlqWal(id) \/ BeingReprocessed(id)
    BY DEF NoSilentLoss
  <2>1. LossOf(id) /\ TypeOK
    BY DEF LossInv, HomeInv
  <2>2. CASE Owed(id) < Records(id)
    <3>1. HandsFinite(id) /\ Records(id) \in Nat
      BY <2>1, CountsType DEF LossOf, Backed, Countable
    <3>2. /\ Cardinality(HandAt("dlq_insert", id)) \in Nat
          /\ Cardinality(HandAt("dead_lettered", id)) \in Nat
      BY <3>1, FS_CardinalityType DEF HandsFinite
    <3>3. Cardinality(InLog(id)) # 0
      BY <2>2, <3>1, <3>2 DEF Owed, Records
    <3>4. InLog(id) # {}
      BY <3>3, FS_EmptySet
    <3> QED BY <2>1, <3>4, ReplayFinds
  <2>3. InDlqWal(id) <=> dlq_wal[id] # None
    BY DEF InDlqWal, Unreplayed
  <2> QED BY <2>1, <2>2, <2>3 DEF LossOf, Durable
<1> QED BY <1>1, LossInit, LossStep, PTL DEF Spec

\* An accepted message that has a place is found there.
LEMMA HousedSomewhere == LossInv => SomeHome
<1> SUFFICES ASSUME LossInv, NEW id \in Ids \ truncated, fate[id] = "accepted",
                    id \notin stranded
             PROVE  Copies(id) # {} \/ BeingAcked(id)
  BY DEF SomeHome
<1>1. \/ AtPending(id) # {} \/ AtDelayed(id) # {} \/ leased[id] # None \/ dlq[id] # None
      \/ Holders(id) # {}
  BY DEF LossInv, LossOf, Housed
<1>2. CASE AtPending(id) # {} \/ AtDelayed(id) # {} \/ leased[id] # None \/ dlq[id] # None
  <2>1. ASSUME NEW i \in AtPending(id) PROVE <<"pending", i>> \in Copies(id)
    BY DEF AtPending, Copies
  <2>2. ASSUME NEW i \in AtDelayed(id) PROVE <<"delayed", i>> \in Copies(id)
    BY DEF AtDelayed, Copies
  <2>3. leased[id] # None => <<"leased", 0>> \in Copies(id)
    BY DEF Copies
  <2>4. dlq[id] # None => <<"dlq", 0>> \in Copies(id)
    BY DEF Copies
  <2> QED BY <1>2, <2>1, <2>2, <2>3, <2>4
<1>3. CASE Acking(id) # {}
  BY <1>3 DEF Acking, BeingAcked
<1>4. CASE Holders(id) # {} /\ Acking(id) = {}
  <2>1. PICK u \in Tasks : \E e \in InHand(u) : e.id = id
    BY <1>4 DEF Holders, InBatch, HandAt, InHand
  <2>2. <<"call", u>> \in Copies(id)
    BY <2>1 DEF Copies
  <2> QED BY <2>2
<1> QED BY <1>1, <1>2, <1>3, <1>4

\* No accepted, unfinished message slips between the group's collections: it is
\* pending, delayed, leased, in the DLQ or in the hands of a call, at every
\* instant of every interleaving, unless a failed append or a dropped claim
\* future left it to the next restart, or a restart cut off a record of it that
\* lay behind a torn frame.
THEOREM MessageHasSomeHome == Spec => []SomeHome
BY HousedSomewhere, LossInit, LossStep, PTL DEF Spec

-----------------------------------------------------------------------------
(* Checkpoints.  What a message carries is never older than what its        *)
(* consumer was told is saved, because the log never is, because calls of   *)
(* checkpoint that do not overlap write in the order they started, and      *)
(* because a leased message has no other copy that misses the new one.      *)

\* Excuses: the checkpoint calls of these messages raced, their dead-lettering was
\* cut between its two records, or a restart cut off a record of theirs.
Excused == raced \cup torn

\* The message carries the checkpoint that s says was confirmed, if any, or a newer
\* one.
Fresh(e, cut, s) == e.id \in Ids \ cut => s[e.id] = 0 \/ e.checkpoint >= s[e.id]

\* The steps at which a call has a message that is nowhere else.
HandSteps == {"enqueue_wal", "enqueue_push", "take_wal", "dlq_insert"}
CheckpointSteps == {"checkpoint_wal", "checkpoint_set"}

\* What a call in progress holds.
CallFresh(c, cut, s) == /\ c.pc \in HandSteps => Fresh(c.entry, cut, s)
                        /\ \A e \in c.batch : Fresh(e, cut, s)

QueuesFresh == /\ \A i \in DOMAIN pending : Fresh(pending[i], Excused, saved)
               /\ \A i \in DOMAIN delayed : Fresh(delayed[i].entry, Excused, saved)
LeasesFresh == \A id \in Ids : leased[id] # None => Fresh(leased[id].entry, Excused, saved)
DlqFresh == \A id \in Ids : /\ dlq[id] # None => Fresh(dlq[id].entry, Excused, saved)
                            /\ dlq_wal[id] # None => Fresh(dlq_wal[id].entry, Excused, saved)
CallsFresh == \A t \in Tasks : CallFresh(call[t], Excused, saved)

\* The log's checkpoint is the newest of those confirmed, and none is confirmed
\* for a message that has yet to exist.
LogFresh ==
    \A id \in Ids \ torn :
      /\ wal_checkpoints[id] <= saves
      /\ id \notin raced => saved[id] = 0 \/ saved[id] <= wal_checkpoints[id]
      /\ fate[id] = "unused" => saved[id] = 0

\* A call of checkpoint is about to write something newer than the log has, or
\* has just written what the log has.
CheckpointCall(c) ==
    c.pc \in CheckpointSteps =>
      /\ c.op = "checkpoint" /\ c.entry.checkpoint <= saves
      /\ c.grant.id \in Ids \ Excused =>
           /\ wal_checkpoints[c.grant.id] <= c.entry.checkpoint
           /\ c.pc = "checkpoint_set" => wal_checkpoints[c.grant.id] = c.entry.checkpoint
CheckpointCalls == \A t \in Tasks : CheckpointCall(call[t])

CheckpointInv == /\ QueuesFresh /\ LeasesFresh /\ DlqFresh /\ CallsFresh
                 /\ LogFresh /\ CheckpointCalls

\* A step that neither writes nor confirms a checkpoint; it may start a message
\* over, and a restart may cut a checkpoint off.
NoCheckpoint == /\ UNCHANGED <<raced, saves>>
                /\ torn \subseteq torn'
                /\ \A id \in Ids : saved'[id] \in {saved[id], 0}
                /\ \A id \in Ids \ torn' : wal_checkpoints'[id] = wal_checkpoints[id]
                /\ \A id \in Ids : fate'[id] = "unused" => fate[id] = "unused"

\* After it a message carries what it has to if it did before.
LEMMA NoCheckpointFresh ==
    ASSUME NoCheckpoint
    PROVE  \A e : Fresh(e, Excused, saved) => Fresh(e, Excused, saved)'
BY DEF NoCheckpoint, Fresh, Excused
\* Neither the log nor the calls of checkpoint notice it.
LEMMA NoCheckpointLog ==
    ASSUME NoCheckpoint, CheckpointInv PROVE LogFresh'
BY DEF NoCheckpoint, CheckpointInv, LogFresh

\* The calls after it, when one has moved to new locals.
LEMMA CallsFreshAfter ==
    ASSUME NoCheckpoint, CheckpointInv, call \in [Tasks -> Call], NEW t \in Tasks, NEW c,
           call' = [call EXCEPT ![t] = c],
           CallFresh(c, Excused, saved) \/ CallFresh(c, Excused', saved'),
           c.pc \notin CheckpointSteps
    PROVE  CallsFresh' /\ CheckpointCalls'
<1>1. \A u \in Tasks : call'[u] = IF u = t THEN c ELSE call[u]
  OBVIOUS
<1>2. \A d : CallFresh(d, Excused, saved) => CallFresh(d, Excused', saved')
  BY NoCheckpointFresh DEF CallFresh
<1>3. \A u \in Tasks : CallFresh(call'[u], Excused', saved')
  BY <1>1, <1>2 DEF CheckpointInv, CallsFresh
<1>4. \A u \in Tasks : call'[u].pc \in CheckpointSteps => call'[u] = call[u]
  BY <1>1
<1>5. \A u \in Tasks : CheckpointCall(call[u])
  BY DEF CheckpointInv, CheckpointCalls
<1>6. CheckpointCalls'
  BY <1>4, <1>5 DEF CheckpointCalls, CheckpointCall, NoCheckpoint, Excused
<1> QED BY <1>3, <1>6 DEF CallsFresh

\* The calls after it, when none has moved.
LEMMA CallsStayFresh ==
    ASSUME NoCheckpoint, CheckpointInv, call' = call PROVE CallsFresh' /\ CheckpointCalls'
<1>1. CallsFresh'
  BY NoCheckpointFresh DEF CheckpointInv, CallsFresh, CallFresh
<1>2. CheckpointCalls'
  BY DEF CheckpointInv, CheckpointCalls, CheckpointCall, NoCheckpoint, Excused
<1> QED BY <1>1, <1>2

\* The ways in which a call moves.
LEMMA CallsFreshKept ==
    ASSUME NoCheckpoint, CheckpointInv, call \in [Tasks -> Call], NEW t \in Tasks
    PROVE  /\ Return(t) => CallsFresh' /\ CheckpointCalls'
           /\ \A pc : /\ pc \notin CheckpointSteps
                      /\ pc \in HandSteps => Fresh(call[t].entry, Excused, saved)
                      /\ Goto(t, pc)
                      => CallsFresh' /\ CheckpointCalls'
           /\ \A rest \in SUBSET call[t].batch :
                Resolved(t, rest) => CallsFresh' /\ CheckpointCalls'
           /\ call' = call => CallsFresh' /\ CheckpointCalls'
<1>1. call[t] \in Call /\ CallFresh(call[t], Excused, saved)
  BY DEF CheckpointInv, CallsFresh
<1>2. CallFresh(Idle, Excused, saved) /\ Idle.pc \notin CheckpointSteps
  BY DEF CallFresh, Idle, HandSteps, CheckpointSteps
<1>3. Return(t) => CallsFresh' /\ CheckpointCalls'
  BY <1>2, CallsFreshAfter DEF Return
<1>4. ASSUME NEW pc, pc \notin CheckpointSteps, Goto(t, pc),
             pc \in HandSteps => Fresh(call[t].entry, Excused, saved)
      PROVE  CallsFresh' /\ CheckpointCalls'
  <2> DEFINE c == [call[t] EXCEPT !.pc = pc]
  <2>1. call' = [call EXCEPT ![t] = c]
    BY <1>4 DEF Goto
  <2>2. c.op = call[t].op /\ c.pc = pc /\ c.entry = call[t].entry /\ c.batch = call[t].batch
    BY <1>1 DEF Call, Locals
  <2> HIDE DEF c
  <2>3. CallFresh(c, Excused, saved)
    BY <1>1, <1>4, <2>2 DEF CallFresh
  <2> QED BY <1>4, <2>1, <2>2, <2>3, CallsFreshAfter
<1>5. ASSUME NEW rest \in SUBSET call[t].batch, Resolved(t, rest)
      PROVE  CallsFresh' /\ CheckpointCalls'
  <2> DEFINE c == [call[t] EXCEPT !.pc = "resolve", !.entry = None, !.batch = rest]
             d == [Idle EXCEPT !.op = "claim", !.pc = "pop"]
  <2>1. \/ call' = [call EXCEPT ![t] = c] \/ call' = [call EXCEPT ![t] = d]
        \/ call' = [call EXCEPT ![t] = Idle]
    BY <1>5 DEF Resolved
  <2>2. /\ c.op = call[t].op /\ c.pc = "resolve" /\ c.batch = rest
        /\ d.op = "claim" /\ d.pc = "pop" /\ d.batch = {}
    BY <1>1 DEF Call, Locals, Idle
  <2> HIDE DEF c, d
  <2>3. /\ CallFresh(c, Excused, saved) /\ c.pc \notin CheckpointSteps
        /\ CallFresh(d, Excused, saved) /\ d.pc \notin CheckpointSteps
    BY <1>1, <2>2 DEF CallFresh, HandSteps, CheckpointSteps
  <2> QED BY <1>2, <2>1, <2>3, CallsFreshAfter
<1>6. call' = call => CallsFresh' /\ CheckpointCalls'
  BY CallsStayFresh
<1> QED BY <1>3, <1>4, <1>5, <1>6

\* What the queues, the leases and the dead letters carry after it.
LEMMA HoldersFreshAfter ==
    ASSUME NoCheckpoint
    PROVE  /\ (/\ \A i \in DOMAIN pending' : Fresh(pending'[i], Excused, saved)
               /\ \A i \in DOMAIN delayed' : Fresh(delayed'[i].entry, Excused, saved))
              => QueuesFresh'
           /\ (\A id \in Ids : leased'[id] # None => Fresh(leased'[id].entry, Excused, saved))
              => LeasesFresh'
           /\ (\A id \in Ids :
                 /\ dlq'[id] # None => Fresh(dlq'[id].entry, Excused, saved)
                 /\ dlq_wal'[id] # None => Fresh(dlq_wal'[id].entry, Excused, saved))
              => DlqFresh'
BY NoCheckpointFresh DEF QueuesFresh, LeasesFresh, DlqFresh

\* Each step of enqueue keeps the checkpoints: a new message was never confirmed one.
LEMMA EnqueueFresh ==
    ASSUME HomeInv, CheckpointInv, NEW t \in Tasks, Enqueue(t) PROVE CheckpointInv'
<1> USE DEF vars, memVars, walVars, cpVars, auxVars
<1>1. /\ call \in [Tasks -> Call] /\ \A u \in Tasks : CallFresh(call[u], Excused, saved)
      /\ pending \in Seq(Entry) /\ fate \in [Ids -> Fates]
  BY DEF HomeInv, TypeOK, CheckpointInv, CallsFresh
<1>2. NoCheckpoint
  <2>1. UNCHANGED <<saved, raced, saves, wal_checkpoints, torn>>
    BY DEF Enqueue, EnqueueReserve, EnqueueDuplicate, WriteEnqueueRecord, EnqueueUndo,
       PushPending
  <2>2. \A id \in Ids : fate'[id] = "unused" => fate[id] = "unused"
    BY <1>1 DEF Enqueue, EnqueueReserve, EnqueueDuplicate, WriteEnqueueRecord, EnqueueUndo,
       PushPending
  <2> QED BY <2>1, <2>2 DEF NoCheckpoint
<1>3. LeasesFresh' /\ DlqFresh'
  <2>1. UNCHANGED <<leased, dlq, dlq_wal>>
    BY DEF Enqueue, EnqueueReserve, EnqueueDuplicate, WriteEnqueueRecord, EnqueueUndo,
       PushPending
  <2> QED BY <1>2, <2>1, HoldersFreshAfter DEF CheckpointInv, LeasesFresh, DlqFresh
<1>4. QueuesFresh'
  <2>1. UNCHANGED delayed
    BY DEF Enqueue, EnqueueReserve, EnqueueDuplicate, WriteEnqueueRecord, EnqueueUndo,
       PushPending
  <2>2. CASE PushPending(t)
    <3>1. pending' = Append(pending, call[t].entry) /\ Fresh(call[t].entry, Excused, saved)
      BY <1>1, <2>2 DEF PushPending, At, CallFresh, HandSteps
    <3>2. call[t].entry \in Entry
      BY <2>2, CallType DEF PushPending, At, EntrySteps, HomeInv
    <3>3. \A i \in DOMAIN pending' :
            pending'[i] = call[t].entry \/ (i \in DOMAIN pending /\ pending'[i] = pending[i])
      BY <1>1, <3>1, <3>2
    <3> QED BY <1>2, <2>1, <3>1, <3>3, HoldersFreshAfter DEF CheckpointInv, QueuesFresh
  <2>3. CASE ~PushPending(t)
    <3>1. UNCHANGED pending
      BY <2>3 DEF Enqueue, EnqueueReserve, EnqueueDuplicate, WriteEnqueueRecord,
         EnqueueUndo
    <3> QED BY <1>2, <2>1, <3>1, HoldersFreshAfter DEF CheckpointInv, QueuesFresh
  <2> QED BY <2>2, <2>3
<1>5. CallsFresh' /\ CheckpointCalls'
  <2>1. CASE EnqueueReserve(t)
    <3>1. PICK id \in Ids, key \in Keys \cup {None} :
            /\ fate[id] = "unused"
            /\ call' = [call EXCEPT ![t] = [Idle EXCEPT !.op = "enqueue",
                                                        !.pc = "enqueue_wal",
                                                        !.entry = NewEntry(id, key)]]
      BY <2>1 DEF EnqueueReserve
    <3> DEFINE c == [Idle EXCEPT !.op = "enqueue", !.pc = "enqueue_wal",
                                 !.entry = NewEntry(id, key)]
    <3>2. /\ c.pc = "enqueue_wal" /\ c.entry.id = id /\ c.entry.checkpoint = 0
          /\ c.batch = {}
      BY DEF Idle, NewEntry
    <3>3. id \notin Excused => saved[id] = 0
      BY <3>1 DEF CheckpointInv, LogFresh, Excused
    <3> HIDE DEF c
    <3>4. CallFresh(c, Excused, saved) /\ c.pc \notin CheckpointSteps
      BY <3>2, <3>3 DEF CallFresh, Fresh, CheckpointSteps
    <3> QED BY <1>1, <1>2, <3>1, <3>4, CallsFreshAfter DEF c
  <2>2. CASE WriteEnqueueRecord(t)
    <3>1. /\ Fresh(call[t].entry, Excused, saved)
          /\ \E pc \in {"enqueue_push", "enqueue_undo"} : Goto(t, pc)
      BY <1>1, <2>2 DEF WriteEnqueueRecord, At, CallFresh, HandSteps
    <3> QED BY <1>1, <1>2, <3>1, CallsFreshKept DEF CheckpointSteps
  <2>3. CASE EnqueueDuplicate(t) \/ EnqueueUndo(t) \/ PushPending(t)
    BY <1>1, <1>2, <2>3, CallsFreshKept DEF EnqueueDuplicate, EnqueueUndo, PushPending
  <2> QED BY <2>1, <2>2, <2>3 DEF Enqueue
<1> QED BY <1>2, <1>3, <1>4, <1>5, NoCheckpointLog DEF CheckpointInv

\* Positions f of delayed carry their checkpoints over into the promoted half and
\* the half that stays.
LEMMA PromoteFresh ==
    ASSUME delayed \in Seq(Delayed), QueuesFresh,
           NEW I \in SUBSET DOMAIN delayed, NEW f \in Ascending(I)
    PROVE  /\ \A k \in DOMAIN Promoted(f) : Fresh(Promoted(f)[k], Excused, saved)
           /\ \A k \in DOMAIN StillDelayed(f) :
                Fresh(StillDelayed(f)[k].entry, Excused, saved)
<1>1. \A k \in DOMAIN f : f[k] \in DOMAIN delayed
  <2>1. f \in [1..Cardinality(I) -> I]
    BY AscendingType
  <2> QED BY <2>1
<1> QED BY <1>1 DEF Promoted, StillDelayed, Pick, QueuesFresh

\* Each step of claim keeps the checkpoints.
LEMMA ClaimFresh ==
    ASSUME HomeInv, CheckpointInv, NEW t \in Tasks, Claim(t) PROVE CheckpointInv'
<1> USE DEF vars, memVars, walVars, cpVars, auxVars
<1>1. /\ call \in [Tasks -> Call] /\ \A u \in Tasks : CallFresh(call[u], Excused, saved)
      /\ pending \in Seq(Entry) /\ delayed \in Seq(Delayed)
      /\ leased \in [Ids -> Lease \cup {None}]
      /\ QueuesFresh /\ LeasesFresh /\ DlqFresh
  BY DEF HomeInv, TypeOK, CheckpointInv, CallsFresh
<1>2. NoCheckpoint
  BY DEF NoCheckpoint, Claim, ReclaimExpired, PopPending, CancelClaim
<1>3. DlqFresh'
  <2>1. UNCHANGED <<dlq, dlq_wal>>
    BY DEF Claim, ReclaimExpired, PopPending, CancelClaim
  <2> QED BY <1>1, <1>2, <2>1, HoldersFreshAfter DEF DlqFresh
<1>4. CASE ReclaimExpired(t)
  <2> DEFINE b == {leased[id].entry : id \in Expired}
  <2>1. UNCHANGED <<pending, delayed>> /\ leased' = Without(Expired)
    BY <1>4 DEF ReclaimExpired
  <2>2. QueuesFresh'
    BY <1>1, <1>2, <2>1, HoldersFreshAfter DEF QueuesFresh
  <2>3. LeasesFresh'
    BY <1>1, <1>2, <2>1, HoldersFreshAfter DEF LeasesFresh, Without
  <2>4. \A e \in b : Fresh(e, Excused, saved)
    BY <1>1 DEF LeasesFresh, Expired
  <2>5. PICK pc \in {"pop", "resolve"} :
          call' = [call EXCEPT ![t] = [Idle EXCEPT !.op = "claim", !.pc = pc, !.batch = b]]
    BY <1>4 DEF ReclaimExpired
  <2> DEFINE c == [Idle EXCEPT !.op = "claim", !.pc = pc, !.batch = b]
  <2>6. c.pc = pc /\ c.batch = b
    BY DEF Idle
  <2> HIDE DEF c, b
  <2>7. CallFresh(c, Excused, saved) /\ c.pc \notin CheckpointSteps
    BY <2>4, <2>5, <2>6 DEF CallFresh, HandSteps, CheckpointSteps
  <2>8. CallsFresh' /\ CheckpointCalls'
    BY <1>1, <1>2, <2>5, <2>7, CallsFreshAfter DEF c
  <2> QED BY <1>2, <1>3, <2>2, <2>3, <2>8, NoCheckpointLog DEF CheckpointInv
<1>5. CASE PopPending(t)
  <2>1. PICK ready \in Ascending(ReadyPositions),
             waiting \in Ascending(DOMAIN delayed \ ReadyPositions) :
          LET queue == pending \o Promoted(ready)
              entry == [Head(queue) EXCEPT !.delivery_count = @ + 1]
          IN /\ delayed' = StillDelayed(waiting)
             /\ \/ /\ queue = <<>>
                   /\ pending' = queue
                   /\ Goto(t, "blocked")
                   /\ UNCHANGED leased
                \/ /\ queue # <<>>
                   /\ pending' = Tail(queue)
                   /\ leased' = [leased EXCEPT ![entry.id] = NewLease(entry)]
                   /\ Return(t)
    BY <1>5 DEF PopPending
  <2> DEFINE queue == pending \o Promoted(ready)
             entry == [Head(queue) EXCEPT !.delivery_count = @ + 1]
  <2>2. ReadyPositions \subseteq DOMAIN delayed
    BY DEF ReadyPositions
  <2>3. /\ Promoted(ready) \in Seq(Entry)
        /\ \A k \in DOMAIN Promoted(ready) : Fresh(Promoted(ready)[k], Excused, saved)
        /\ \A k \in DOMAIN delayed' : Fresh(delayed'[k].entry, Excused, saved)
    BY <1>1, <2>1, <2>2, PromoteType, PromoteFresh
  <2>4. queue \in Seq(Entry)
    BY <1>1, <2>3
  <2>5. \A k \in DOMAIN queue : Fresh(queue[k], Excused, saved)
    <3>1. \A k \in DOMAIN queue :
            \/ k \in DOMAIN pending /\ queue[k] = pending[k]
            \/ /\ k - Len(pending) \in DOMAIN Promoted(ready)
               /\ queue[k] = Promoted(ready)[k - Len(pending)]
      BY <1>1, <2>3
    <3> HIDE DEF queue
    <3> QED BY <1>1, <2>3, <3>1 DEF QueuesFresh
  <2>6. CallsFresh' /\ CheckpointCalls'
    BY <1>1, <1>2, <2>1, CallsFreshKept DEF CheckpointSteps, HandSteps
  <2>7. CASE queue = <<>>
    <3>1. pending' = queue /\ UNCHANGED leased
      BY <2>1, <2>7
    <3> HIDE DEF queue
    <3>2. QueuesFresh'
      BY <1>2, <2>3, <2>5, <3>1, HoldersFreshAfter
    <3>3. LeasesFresh'
      BY <1>1, <1>2, <3>1, HoldersFreshAfter DEF LeasesFresh
    <3> QED BY <1>2, <1>3, <2>6, <3>2, <3>3, NoCheckpointLog DEF CheckpointInv
  <2>8. CASE queue # <<>>
    <3>1. /\ pending' = Tail(queue)
          /\ leased' = [leased EXCEPT ![entry.id] = NewLease(entry)]
      BY <2>1, <2>8
    <3>2. Head(queue) \in Entry /\ Fresh(Head(queue), Excused, saved)
      BY <2>4, <2>5, <2>8
    <3>3. entry.id = Head(queue).id /\ entry.checkpoint = Head(queue).checkpoint
      BY <3>2 DEF Entry
    <3>4. Fresh(entry, Excused, saved) /\ entry.id \in Ids
      BY <3>2, <3>3 DEF Fresh, Entry
    <3>5. \A k \in DOMAIN Tail(queue) : k+1 \in DOMAIN queue /\ Tail(queue)[k] = queue[k+1]
      BY <2>4, <2>8
    <3> HIDE DEF queue, entry
    <3>6. QueuesFresh'
      BY <1>2, <2>3, <2>5, <3>1, <3>5, HoldersFreshAfter
    <3>7. LeasesFresh'
      <4>1. NewLease(entry).entry = entry
        BY DEF NewLease
      <4>2. \A id \in Ids : leased'[id] = IF id = entry.id THEN NewLease(entry) ELSE leased[id]
        BY <1>1, <3>1
      <4>3. \A id \in Ids : leased'[id] # None => Fresh(leased'[id].entry, Excused, saved)
        BY <1>1, <3>4, <4>1, <4>2 DEF LeasesFresh
      <4> QED BY <1>2, <4>3, HoldersFreshAfter
    <3> QED BY <1>2, <1>3, <2>6, <3>6, <3>7, NoCheckpointLog DEF CheckpointInv
  <2> QED BY <2>7, <2>8
<1>6. CASE CancelClaim(t)
  <2>1. UNCHANGED <<pending, delayed, leased>> /\ Return(t)
    BY <1>6 DEF CancelClaim
  <2>2. QueuesFresh' /\ LeasesFresh'
    BY <1>1, <1>2, <2>1, HoldersFreshAfter DEF QueuesFresh, LeasesFresh
  <2>3. CallsFresh' /\ CheckpointCalls'
    BY <1>1, <1>2, <2>1, CallsFreshKept
  <2> QED BY <1>2, <1>3, <2>2, <2>3, NoCheckpointLog DEF CheckpointInv
<1> QED BY <1>4, <1>5, <1>6 DEF Claim

\* Each step of ack and nack keeps the checkpoints.
LEMMA SettleFresh ==
    ASSUME HomeInv, CheckpointInv, NEW t \in Tasks, Settle(t) PROVE CheckpointInv'
<1> USE DEF vars, memVars, walVars, cpVars, auxVars
<1>1. /\ call \in [Tasks -> Call] /\ fate \in [Ids -> Fates]
      /\ leased \in [Ids -> Lease \cup {None}] /\ grants \subseteq Grant
      /\ QueuesFresh /\ LeasesFresh /\ DlqFresh
  BY DEF HomeInv, TypeOK, CheckpointInv
<1>2. NoCheckpoint
  <2>1. UNCHANGED <<saved, raced, saves, wal_checkpoints, torn>>
    BY DEF Settle, AckRelease, AckAppend, NackRelease
  <2>2. \A id \in Ids : fate'[id] = "unused" => fate[id] = "unused"
    BY <1>1 DEF Settle, AckRelease, AckAppend, NackRelease
  <2> QED BY <2>1, <2>2 DEF NoCheckpoint
<1>3. QueuesFresh' /\ DlqFresh'
  <2>1. UNCHANGED <<pending, delayed, dlq, dlq_wal>>
    BY DEF Settle, AckRelease, AckAppend, NackRelease
  <2> QED BY <1>1, <1>2, <2>1, HoldersFreshAfter DEF QueuesFresh, DlqFresh
<1>4. LeasesFresh'
  <2>1. leased' = leased \/ \E id : leased' = [leased EXCEPT ![id] = None]
    BY DEF Settle, AckRelease, AckAppend, NackRelease
  <2>2. \A id \in Ids : leased'[id] = leased[id] \/ leased'[id] = None
    BY <1>1, <2>1
  <2> QED BY <1>1, <1>2, <2>2, HoldersFreshAfter DEF LeasesFresh
<1>5. CallsFresh' /\ CheckpointCalls'
  <2>1. CASE AckRelease(t)
    <3>1. PICK g : call' = [call EXCEPT ![t] = [Idle EXCEPT !.op = "ack", !.pc = "ack_wal",
                                                            !.grant = g]]
      BY <2>1 DEF AckRelease
    <3> DEFINE c == [Idle EXCEPT !.op = "ack", !.pc = "ack_wal", !.grant = g]
    <3>2. c.pc = "ack_wal" /\ c.batch = {}
      BY DEF Idle
    <3> HIDE DEF c
    <3>3. CallFresh(c, Excused, saved) /\ c.pc \notin CheckpointSteps
      BY <3>2 DEF CallFresh, HandSteps, CheckpointSteps
    <3> QED BY <1>1, <1>2, <3>1, <3>3, CallsFreshAfter DEF c
  <2>2. CASE AckAppend(t)
    BY <1>1, <1>2, <2>2, CallsFreshKept DEF AckAppend
  <2>3. CASE NackRelease(t)
    <3>1. PICK g \in grants :
            /\ leased[g.id] # None
            /\ call' = [call EXCEPT ![t] = [Idle EXCEPT !.op = "nack", !.pc = "resolve",
                                                        !.grant = g,
                                                        !.batch = {leased[g.id].entry}]]
      BY <2>3 DEF NackRelease, Holds
    <3> DEFINE c == [Idle EXCEPT !.op = "nack", !.pc = "resolve", !.grant = g,
                                 !.batch = {leased[g.id].entry}]
    <3>2. c.pc = "resolve" /\ c.batch = {leased[g.id].entry}
      BY DEF Idle
    <3>3. Fresh(leased[g.id].entry, Excused, saved)
      BY <1>1, <3>1 DEF Grant, LeasesFresh
    <3> HIDE DEF c
    <3>4. CallFresh(c, Excused, saved) /\ c.pc \notin CheckpointSteps
      BY <3>2, <3>3 DEF CallFresh, HandSteps, CheckpointSteps
    <3> QED BY <1>1, <1>2, <3>1, <3>4, CallsFreshAfter DEF c
  <2> QED BY <2>1, <2>2, <2>3 DEF Settle
<1> QED BY <1>2, <1>3, <1>4, <1>5, NoCheckpointLog DEF CheckpointInv

\* Each step of resolve_failed_delivery keeps the checkpoints.
LEMMA ResolveFresh ==
    ASSUME HomeInv, CheckpointInv, NEW t \in Tasks, Resolve(t) PROVE CheckpointInv'
<1> USE DEF vars, memVars, walVars, cpVars, auxVars
<1>1. /\ call \in [Tasks -> Call] /\ CallFresh(call[t], Excused, saved)
      /\ delayed \in Seq(Delayed)
      /\ dlq \in [Ids -> DeadLetter \cup {None}]
      /\ dlq_wal \in [Ids -> DeadLetter \cup {None}]
      /\ QueuesFresh /\ LeasesFresh /\ DlqFresh
  BY DEF HomeInv, TypeOK, CheckpointInv, CallsFresh
<1>2. NoCheckpoint
  BY DEF NoCheckpoint, Resolve, RetryLater, RecordDeadLetter, InsertDeadLetter,
     AppendDeadLettered
<1>3. UNCHANGED <<pending, leased>>
  BY DEF Resolve, RetryLater, RecordDeadLetter, InsertDeadLetter, AppendDeadLettered
<1>4. LeasesFresh'
  BY <1>1, <1>2, <1>3, HoldersFreshAfter DEF LeasesFresh
<1>5. \A e \in call[t].batch : Fresh(e, Excused, saved) /\ e \in Entry
  BY <1>1, CallType DEF CallFresh, HomeInv
<1>6. CASE RetryLater(t)
  <2>1. PICK e \in call[t].batch :
          /\ delayed' = Append(delayed, [entry |-> e, ready |-> FALSE])
          /\ Resolved(t, call[t].batch \ {e})
    BY <1>6 DEF RetryLater
  <2>2. [entry |-> e, ready |-> FALSE] \in Delayed
    BY <1>5 DEF Delayed
  <2>3. \A i \in DOMAIN delayed' :
          \/ delayed'[i] = [entry |-> e, ready |-> FALSE]
          \/ i \in DOMAIN delayed /\ delayed'[i] = delayed[i]
    BY <1>1, <2>1, <2>2
  <2>4. QueuesFresh'
    BY <1>1, <1>2, <1>3, <1>5, <2>3, HoldersFreshAfter DEF QueuesFresh
  <2>5. DlqFresh'
    BY <1>1, <1>2, <1>6, HoldersFreshAfter DEF RetryLater, DlqFresh
  <2>6. CallsFresh' /\ CheckpointCalls'
    BY <1>1, <1>2, <2>1, CallsFreshKept
  <2> QED BY <1>2, <1>4, <2>4, <2>5, <2>6, NoCheckpointLog DEF CheckpointInv
<1>7. CASE RecordDeadLetter(t)
  <2>1. PICK e \in call[t].batch, r \in AppendResult :
          /\ dlq_wal' = IF r.durable
                        THEN [dlq_wal EXCEPT ![e.id] = [entry |-> e, triage |-> None]]
                        ELSE dlq_wal
          /\ IF r.ok
             THEN call' = [call EXCEPT ![t].pc = "dlq_insert", ![t].entry = e,
                                       ![t].batch = @ \ {e}]
             ELSE Resolved(t, call[t].batch \ {e})
    BY <1>7 DEF RecordDeadLetter
  <2>2. QueuesFresh'
    BY <1>1, <1>2, <1>3, <1>7, HoldersFreshAfter DEF RecordDeadLetter, QueuesFresh
  <2>3. DlqFresh'
    <3>1. UNCHANGED dlq
      BY <1>7 DEF RecordDeadLetter
    <3>2. \A id \in Ids : \/ dlq_wal'[id] = dlq_wal[id]
                          \/ dlq_wal'[id] = [entry |-> e, triage |-> None]
      BY <1>1, <2>1
    <3> QED BY <1>1, <1>2, <1>5, <3>1, <3>2, HoldersFreshAfter DEF DlqFresh
  <2>4. CallsFresh' /\ CheckpointCalls'
    <3>1. CASE r.ok
      <4> DEFINE c == [call[t] EXCEPT !.pc = "dlq_insert", !.entry = e, !.batch = @ \ {e}]
      <4>1. call' = [call EXCEPT ![t] = c]
        BY <1>1, <2>1, <3>1
      <4>2. call[t] \in Locals
        BY <1>1 DEF Call
      <4>3. c.pc = "dlq_insert" /\ c.entry = e /\ c.batch = call[t].batch \ {e}
        BY <4>2 DEF Locals
      <4> HIDE DEF c
      <4>4. CallFresh(c, Excused, saved) /\ c.pc \notin CheckpointSteps
        BY <1>5, <4>3 DEF CallFresh, CheckpointSteps
      <4> QED BY <1>1, <1>2, <4>1, <4>4, CallsFreshAfter
    <3>2. CASE ~r.ok
      BY <1>1, <1>2, <2>1, <3>2, CallsFreshKept
    <3> QED BY <3>1, <3>2
  <2> QED BY <1>2, <1>4, <2>2, <2>3, <2>4, NoCheckpointLog DEF CheckpointInv
<1>8. CASE InsertDeadLetter(t)
  <2>1. Fresh(call[t].entry, Excused, saved)
    BY <1>1, <1>8 DEF InsertDeadLetter, At, CallFresh, HandSteps
  <2>2. QueuesFresh'
    BY <1>1, <1>2, <1>3, <1>8, HoldersFreshAfter DEF InsertDeadLetter, QueuesFresh
  <2>3. DlqFresh'
    <3>1. UNCHANGED dlq_wal
      BY <1>8 DEF InsertDeadLetter
    <3>2. \A id \in Ids : \/ dlq'[id] = dlq[id]
                          \/ dlq'[id] = [entry |-> call[t].entry, triage |-> None]
      BY <1>1, <1>8 DEF InsertDeadLetter
    <3> QED BY <1>1, <1>2, <2>1, <3>1, <3>2, HoldersFreshAfter DEF DlqFresh
  <2>4. CallsFresh' /\ CheckpointCalls'
    BY <1>1, <1>2, <1>8, CallsFreshKept DEF InsertDeadLetter, CheckpointSteps, HandSteps
  <2> QED BY <1>2, <1>4, <2>2, <2>3, <2>4, NoCheckpointLog DEF CheckpointInv
<1>9. CASE AppendDeadLettered(t)
  <2>1. UNCHANGED <<delayed, dlq, dlq_wal>> /\ Resolved(t, call[t].batch)
    BY <1>9 DEF AppendDeadLettered
  <2>2. QueuesFresh' /\ DlqFresh'
    BY <1>1, <1>2, <1>3, <2>1, HoldersFreshAfter DEF QueuesFresh, DlqFresh
  <2>3. CallsFresh' /\ CheckpointCalls'
    BY <1>1, <1>2, <2>1, CallsFreshKept
  <2> QED BY <1>2, <1>4, <2>2, <2>3, NoCheckpointLog DEF CheckpointInv
<1> QED BY <1>6, <1>7, <1>8, <1>9 DEF Resolve

\* A verdict leaves the checkpoints of the dead letters alone.
LEMMA AnnotatedCheckpoint ==
    ASSUME NEW map \in [Ids -> DeadLetter \cup {None}], NEW id, NEW v, NEW i \in Ids,
           Annotated(map, id, v)[i] # None
    PROVE  map[i] # None /\ Annotated(map, id, v)[i].entry = map[i].entry
<1>1. \A d \in DeadLetter : [d EXCEPT !.triage = v].entry = d.entry
  BY DEF DeadLetter
<1>2. CASE i = id /\ map[id] # None
  <2>1. Annotated(map, id, v)[i] = [map[id] EXCEPT !.triage = v]
    BY <1>2 DEF Annotated
  <2> QED BY <1>1, <1>2, <2>1
<1>3. CASE ~(i = id /\ map[id] # None)
  <2>1. Annotated(map, id, v)[i] = map[i]
    BY <1>3 DEF Annotated
  <2> QED BY <1>3, <2>1
<1> QED BY <1>2, <1>3

\* Each step of annotate and purge keeps the checkpoints.  A step of reprocess
\* does not: it enqueues the message anew, without its checkpoint.
LEMMA TriageFresh ==
    ASSUME HomeInv, CheckpointInv, NEW t \in Tasks, Triage(t)
    PROVE  CheckpointInv'
<1> USE DEF vars, memVars, walVars, cpVars, auxVars
<1>1. /\ call \in [Tasks -> Call] /\ CallFresh(call[t], Excused, saved)
      /\ fate \in [Ids -> Fates] /\ saved \in [Ids -> Nat]
      /\ dlq \in [Ids -> DeadLetter \cup {None}]
      /\ dlq_wal \in [Ids -> DeadLetter \cup {None}]
      /\ QueuesFresh /\ LeasesFresh /\ DlqFresh
  BY DEF HomeInv, TypeOK, CheckpointInv, CallsFresh
<1>2. NoCheckpoint
  <2>1. UNCHANGED <<raced, saves, wal_checkpoints, torn>>
    BY DEF Triage, AnnotateStart, AnnotateAppend, AnnotateSet, TakeDeadLetter, TakeAppend,
       PurgeRelease
  <2>3. \A id \in Ids : saved'[id] \in {saved[id], 0}
    <3>1. UNCHANGED saved \/ saved' = [saved EXCEPT ![call[t].entry.id] = 0]
      BY DEF Triage, AnnotateStart, AnnotateAppend, AnnotateSet, TakeDeadLetter, TakeAppend,
         PurgeRelease
    <3> QED BY <1>1, <3>1
  <2>2. \A id \in Ids : fate'[id] = "unused" => fate[id] = "unused"
    BY <1>1 DEF Triage, AnnotateStart, AnnotateAppend, AnnotateSet, TakeDeadLetter,
       TakeAppend, PurgeRelease
  <2> QED BY <2>1, <2>2, <2>3 DEF NoCheckpoint
<1>3. QueuesFresh' /\ LeasesFresh'
  <2>1. UNCHANGED <<pending, delayed, leased>>
    BY DEF Triage, AnnotateStart, AnnotateAppend, AnnotateSet, TakeDeadLetter, TakeAppend,
       PurgeRelease
  <2> QED BY <1>1, <1>2, <2>1, HoldersFreshAfter DEF QueuesFresh, LeasesFresh
<1>4. CASE AnnotateStart(t)
  <2>1. PICK e, v :
          call' = [call EXCEPT ![t] =
                     [Idle EXCEPT !.op = "annotate", !.pc = "annotate_wal",
                                  !.entry = e, !.verdict = v]]
    BY <1>4 DEF AnnotateStart
  <2> DEFINE c == [Idle EXCEPT !.op = "annotate", !.pc = "annotate_wal", !.entry = e,
                               !.verdict = v]
  <2>2. c.pc = "annotate_wal" /\ c.batch = {}
    BY DEF Idle
  <2> HIDE DEF c
  <2>3. CallFresh(c, Excused, saved) /\ c.pc \notin CheckpointSteps
    BY <2>2 DEF CallFresh, HandSteps, CheckpointSteps
  <2>4. CallsFresh' /\ CheckpointCalls'
    BY <1>1, <1>2, <2>1, <2>3, CallsFreshAfter DEF c
  <2>5. DlqFresh'
    BY <1>1, <1>2, <1>4, HoldersFreshAfter DEF AnnotateStart, DlqFresh
  <2> QED BY <1>2, <1>3, <2>4, <2>5, NoCheckpointLog DEF CheckpointInv
<1>5. CASE AnnotateAppend(t)
  <2>1. /\ Goto(t, "annotate_set") \/ Return(t)
        /\ UNCHANGED dlq
        /\ \/ UNCHANGED dlq_wal
           \/ dlq_wal' = Annotated(dlq_wal, call[t].entry.id, call[t].verdict)
    BY <1>5 DEF AnnotateAppend
  <2>2. CallsFresh' /\ CheckpointCalls'
    BY <1>1, <1>2, <2>1, CallsFreshKept DEF CheckpointSteps, HandSteps
  <2>3. \A id \in Ids : dlq_wal'[id] # None =>
          dlq_wal[id] # None /\ dlq_wal'[id].entry = dlq_wal[id].entry
    BY <1>1, <2>1, AnnotatedCheckpoint
  <2>4. DlqFresh'
    BY <1>1, <1>2, <2>1, <2>3, HoldersFreshAfter DEF DlqFresh
  <2> QED BY <1>2, <1>3, <2>2, <2>4, NoCheckpointLog DEF CheckpointInv
<1>6. CASE AnnotateSet(t)
  <2>1. /\ UNCHANGED dlq_wal /\ Return(t)
        /\ dlq' = Annotated(dlq, call[t].entry.id, call[t].verdict)
    BY <1>6 DEF AnnotateSet
  <2>2. CallsFresh' /\ CheckpointCalls'
    BY <1>1, <1>2, <2>1, CallsFreshKept
  <2>3. \A id \in Ids : dlq'[id] # None =>
          dlq[id] # None /\ dlq'[id].entry = dlq[id].entry
    BY <1>1, <2>1, AnnotatedCheckpoint
  <2>4. DlqFresh'
    BY <1>1, <1>2, <2>1, <2>3, HoldersFreshAfter DEF DlqFresh
  <2> QED BY <1>2, <1>3, <2>2, <2>4, NoCheckpointLog DEF CheckpointInv
<1>7. CASE TakeDeadLetter(t)
  <2>1. PICK id \in Ids, o \in {"reprocess", "purge"} :
          /\ dlq[id] # None
          /\ dlq' = [dlq EXCEPT ![id] = None]
          /\ call' = [call EXCEPT ![t] = [Idle EXCEPT !.op = o, !.pc = "take_wal",
                                                      !.entry = dlq[id].entry]]
    BY <1>7 DEF TakeDeadLetter
  <2> DEFINE c == [Idle EXCEPT !.op = o, !.pc = "take_wal", !.entry = dlq[id].entry]
  <2>2. c.pc = "take_wal" /\ c.entry = dlq[id].entry /\ c.batch = {}
    BY DEF Idle
  <2>3. Fresh(dlq[id].entry, Excused, saved)
    BY <1>1, <2>1 DEF DlqFresh
  <2> HIDE DEF c
  <2>4. CallFresh(c, Excused, saved) /\ c.pc \notin CheckpointSteps
    BY <2>2, <2>3 DEF CallFresh, CheckpointSteps, HandSteps
  <2>5. CallsFresh' /\ CheckpointCalls'
    BY <1>1, <1>2, <2>1, <2>4, CallsFreshAfter DEF c
  <2>6. UNCHANGED dlq_wal
    BY <1>7 DEF TakeDeadLetter
  <2>7. DlqFresh'
    BY <1>1, <1>2, <2>1, <2>6, HoldersFreshAfter DEF DlqFresh
  <2> QED BY <1>2, <1>3, <2>5, <2>7, NoCheckpointLog DEF CheckpointInv
<1>8. CASE TakeAppend(t)
  <2> DEFINE id == call[t].entry.id
             key == call[t].entry.key
             c == [call[t] EXCEPT !.pc = "enqueue_wal", !.entry = NewEntry(id, key)]
  <2>1. /\ call[t].pc = "take_wal" /\ call[t].op \in {"reprocess", "purge"}
        /\ call[t] \in Call /\ id \in Ids
    <3>1. call[t].pc = "take_wal"
      BY <1>8 DEF TakeAppend, At
    <3> QED BY <1>1, <3>1, CallType DEF EntrySteps, Entry, HomeInv, Keyed, KeyedCall
  <2>2. \/ Return(t) \/ Goto(t, "purge_release")
        \/ /\ call' = [call EXCEPT ![t] = c]
           /\ saved' = [saved EXCEPT ![id] = 0]
    BY <1>8, <2>1 DEF TakeAppend, Goto
  <2>7. ASSUME call' = [call EXCEPT ![t] = c], saved' = [saved EXCEPT ![id] = 0]
        PROVE  CallsFresh' /\ CheckpointCalls'
    <3>1. c.pc = "enqueue_wal" /\ c.entry.id = id /\ c.batch = {}
      BY <1>8, <2>1 DEF Call, Locals, NewEntry, HomeInv, Keyed, KeyedCall
    <3>2. saved'[id] = 0
      BY <1>1, <2>1, <2>7
    <3> HIDE DEF c
    <3>3. CallFresh(c, Excused', saved') /\ c.pc \notin CheckpointSteps
      BY <3>1, <3>2 DEF CallFresh, Fresh, CheckpointSteps
    <3> QED BY <1>1, <1>2, <2>7, <3>3, CallsFreshAfter
  <2>3. CallsFresh' /\ CheckpointCalls'
    BY <1>1, <1>2, <2>2, <2>7, CallsFreshKept DEF CheckpointSteps, HandSteps
  <2>4. /\ UNCHANGED dlq
        /\ \/ UNCHANGED dlq_wal
           \/ dlq_wal' = [dlq_wal EXCEPT ![call[t].entry.id] = None]
    BY <1>8 DEF TakeAppend
  <2>5. \A m \in Ids : dlq_wal'[m] \in {dlq_wal[m], None}
    BY <1>1, <2>4
  <2>6. DlqFresh'
    BY <1>1, <1>2, <2>4, <2>5, HoldersFreshAfter DEF DlqFresh
  <2> QED BY <1>2, <1>3, <2>3, <2>6, NoCheckpointLog DEF CheckpointInv
<1>9. CASE PurgeRelease(t)
  <2>1. UNCHANGED <<dlq, dlq_wal>> /\ Return(t)
    BY <1>9 DEF PurgeRelease
  <2>2. CallsFresh' /\ CheckpointCalls' /\ DlqFresh'
    BY <1>1, <1>2, <2>1, CallsFreshKept, HoldersFreshAfter DEF DlqFresh
  <2> QED BY <1>2, <1>3, <2>2, NoCheckpointLog DEF CheckpointInv
<1> QED BY <1>4, <1>5, <1>6, <1>7, <1>8, <1>9 DEF Triage

\* The passage of time keeps the checkpoints.
LEMMA TimeFresh ==
    /\ \A id \in Ids : HomeInv /\ CheckpointInv /\ VisibilityTimeout(id) => CheckpointInv'
    /\ HomeInv /\ CheckpointInv /\ BackoffElapses => CheckpointInv'
<1> USE DEF vars, memVars, walVars, cpVars, auxVars
<1>1. ASSUME HomeInv, CheckpointInv, NEW id \in Ids, VisibilityTimeout(id)
      PROVE  CheckpointInv'
  <2>0. leased[id] \in Lease /\ leased \in [Ids -> Lease \cup {None}] /\ NoCheckpoint
    BY <1>1 DEF HomeInv, TypeOK, VisibilityTimeout, NoCheckpoint
  <2>1. [leased[id] EXCEPT !.expired = TRUE].entry = leased[id].entry
    BY <2>0 DEF Lease
  <2>2. \A i \in Ids : leased'[i] # None =>
          leased[i] # None /\ leased'[i].entry = leased[i].entry
    BY <1>1, <2>0, <2>1 DEF VisibilityTimeout
  <2>3. UNCHANGED <<pending, delayed, dlq, dlq_wal, call>>
    BY <1>1 DEF VisibilityTimeout
  <2>4. LeasesFresh'
    BY <1>1, <2>0, <2>2, HoldersFreshAfter DEF CheckpointInv, LeasesFresh
  <2>5. QueuesFresh' /\ DlqFresh'
    BY <1>1, <2>0, <2>3, HoldersFreshAfter DEF CheckpointInv, QueuesFresh, DlqFresh
  <2>6. CallsFresh' /\ CheckpointCalls'
    BY <1>1, <2>0, <2>3, CallsStayFresh
  <2> QED BY <1>1, <2>0, <2>4, <2>5, <2>6, NoCheckpointLog DEF CheckpointInv
<1>2. ASSUME HomeInv, CheckpointInv, BackoffElapses PROVE CheckpointInv'
  <2>0. delayed \in Seq(Delayed) /\ NoCheckpoint
    BY <1>2 DEF HomeInv, TypeOK, BackoffElapses, NoCheckpoint
  <2>1. PICK i \in DOMAIN delayed : delayed' = [delayed EXCEPT ![i].ready = TRUE]
    BY <1>2 DEF BackoffElapses
  <2>2. [delayed[i] EXCEPT !.ready = TRUE].entry = delayed[i].entry
    BY <2>0, <2>1 DEF Delayed
  <2>3. \A k \in DOMAIN delayed' :
          k \in DOMAIN delayed /\ delayed'[k].entry = delayed[k].entry
    BY <2>0, <2>1, <2>2
  <2>4. UNCHANGED <<pending, leased, dlq, dlq_wal, call>>
    BY <1>2 DEF BackoffElapses
  <2>5. QueuesFresh'
    BY <1>2, <2>0, <2>3, <2>4, HoldersFreshAfter DEF CheckpointInv, QueuesFresh
  <2>6. LeasesFresh' /\ DlqFresh'
    BY <1>2, <2>0, <2>4, HoldersFreshAfter DEF CheckpointInv, LeasesFresh, DlqFresh
  <2>7. CallsFresh' /\ CheckpointCalls'
    BY <1>2, <2>0, <2>4, CallsStayFresh
  <2> QED BY <1>2, <2>0, <2>5, <2>6, <2>7, NoCheckpointLog DEF CheckpointInv
<1> QED BY <1>1, <1>2

\* Starting a call of checkpoint: its value is newer than any other.
LEMMA CheckpointStartFresh ==
    ASSUME HomeInv, CheckpointInv, NEW t \in Tasks, CheckpointStart(t) PROVE CheckpointInv'
<1> USE DEF vars, memVars, walVars, cpVars, auxVars
<1>1. /\ call \in [Tasks -> Call] /\ leased \in [Ids -> Lease \cup {None}]
      /\ grants \subseteq Grant /\ saves \in Nat /\ wal_checkpoints \in [Ids -> Nat]
      /\ CallsFresh /\ CheckpointCalls /\ LogFresh
  BY DEF HomeInv, TypeOK, CheckpointInv
<1>2. /\ UNCHANGED <<pending, delayed, leased, dlq, dlq_wal, saved, raced, torn, fate,
                     wal_checkpoints>>
      /\ saves' = saves + 1
  BY DEF CheckpointStart
<1>3. QueuesFresh' /\ LeasesFresh' /\ DlqFresh'
  BY <1>2 DEF CheckpointInv, QueuesFresh, LeasesFresh, DlqFresh, Excused
<1>4. LogFresh'
  <2>1. \A id \in Ids \ torn : wal_checkpoints[id] <= saves + 1
    BY <1>1 DEF LogFresh
  <2> QED BY <1>1, <1>2, <2>1 DEF LogFresh
<1>5. PICK g \in grants :
        /\ Holds(g)
        /\ call' = [call EXCEPT ![t] =
                      [Idle EXCEPT !.op = "checkpoint", !.pc = "checkpoint_wal",
                                   !.grant = g,
                                   !.entry = [leased[g.id].entry EXCEPT
                                                !.checkpoint = saves + 1]]]
  BY DEF CheckpointStart
<1> DEFINE c == [Idle EXCEPT !.op = "checkpoint", !.pc = "checkpoint_wal", !.grant = g,
                             !.entry = [leased[g.id].entry EXCEPT !.checkpoint = saves + 1]]
<1>6. g.id \in Ids /\ leased[g.id].entry \in Entry
  BY <1>1, <1>5 DEF Grant, Holds, Lease
<1>7. /\ c.op = "checkpoint" /\ c.pc = "checkpoint_wal" /\ c.grant = g /\ c.batch = {}
      /\ c.entry.checkpoint = saves + 1
  BY <1>6 DEF Idle, Entry
<1>8. call' = [call EXCEPT ![t] = c]
  BY <1>5
<1> HIDE DEF c
<1>9. \A u \in Tasks : call'[u] = IF u = t THEN c ELSE call[u]
  BY <1>1, <1>8
<1>10. CallsFresh'
  <2>1. CallFresh(c, Excused, saved)
    BY <1>7 DEF CallFresh, HandSteps
  <2>2. \A u \in Tasks : CallFresh(call'[u], Excused, saved)
    BY <1>1, <1>9, <2>1 DEF CallsFresh
  <2>3. Excused' = Excused /\ saved' = saved
    BY <1>2 DEF Excused
  <2> QED BY <2>2, <2>3 DEF CallsFresh
<1>11. CheckpointCalls'
  <2>1. ASSUME NEW u \in Tasks, u # t PROVE CheckpointCall(call[u])'
    <3>1. CheckpointCall(call[u]) /\ call'[u] = call[u]
      BY <1>1, <1>9, <2>1 DEF CheckpointCalls
    <3>2. call[u].pc \in CheckpointSteps => call[u].entry.checkpoint \in Nat
      BY CallType DEF HomeInv, CheckpointSteps, EntrySteps, Entry
    <3>3. call[u].pc \in CheckpointSteps => call[u].entry.checkpoint <= saves + 1
      BY <1>1, <3>1, <3>2 DEF CheckpointCall
    <3> QED BY <1>2, <3>1, <3>3 DEF CheckpointCall, Excused
  <2>2. CheckpointCall(call[t])'
    <3>1. g.id \notin torn => wal_checkpoints[g.id] <= saves + 1
      BY <1>1, <1>6 DEF LogFresh
    <3> QED BY <1>1, <1>2, <1>7, <1>9, <3>1 DEF CheckpointCall, Excused
  <2> QED BY <2>1, <2>2 DEF CheckpointCalls
<1> QED BY <1>3, <1>4, <1>10, <1>11 DEF CheckpointInv

\* The record: unless another call of checkpoint is under way for the message, or
\* the lease has ended, what it writes is newer than what the log had.
LEMMA CheckpointAppendFresh ==
    ASSUME HomeInv, CheckpointInv, NEW t \in Tasks, CheckpointAppend(t) PROVE CheckpointInv'
<1> USE DEF vars, memVars, walVars, cpVars, auxVars
<1> DEFINE id == call[t].grant.id
           n == call[t].entry.checkpoint
<1>1. /\ call \in [Tasks -> Call] /\ saves \in Nat
      /\ saved \in [Ids -> Nat] /\ wal_checkpoints \in [Ids -> Nat]
      /\ CallsFresh /\ CheckpointCalls /\ LogFresh
  BY DEF HomeInv, TypeOK, CheckpointInv
<1>2. /\ call[t].pc = "checkpoint_wal"
      /\ UNCHANGED <<pending, delayed, leased, dlq, dlq_wal, saved, saves, torn, fate>>
      /\ raced' = IF Holds(call[t].grant) /\ ~Overlaps(t) THEN raced ELSE raced \cup {id}
  BY DEF CheckpointAppend, At
<1>3. PICK r \in AppendResult :
        /\ wal_checkpoints' = IF r.durable THEN [wal_checkpoints EXCEPT ![id] = n]
                                           ELSE wal_checkpoints
        /\ IF r.ok THEN Goto(t, "checkpoint_set") ELSE Return(t)
  BY DEF CheckpointAppend
<1>4. id \in Ids /\ n \in Nat /\ call[t] \in Locals
  BY <1>1, <1>2, CallType DEF GrantSteps, EntrySteps, Grant, Entry, Call, HomeInv
<1>5. n <= saves /\ call[t].op = "checkpoint"
      /\ (id \notin Excused => wal_checkpoints[id] <= n)
  BY <1>1, <1>2, <1>4 DEF CheckpointCalls, CheckpointCall, CheckpointSteps
<1>6. raced \subseteq raced' /\ raced' \subseteq raced \cup {id}
  BY <1>2
<1>7. \A e : Fresh(e, Excused, saved) => Fresh(e, Excused', saved')
  BY <1>2, <1>6 DEF Fresh, Excused
<1>8. QueuesFresh' /\ LeasesFresh' /\ DlqFresh'
  BY <1>2, <1>7 DEF CheckpointInv, QueuesFresh, LeasesFresh, DlqFresh
<1>9. \A i \in Ids : wal_checkpoints'[i] = IF i = id /\ r.durable THEN n
                                                                 ELSE wal_checkpoints[i]
  BY <1>1, <1>3, <1>4
<1> HIDE DEF n
<1>10. LogFresh'
  <2>1. ASSUME NEW i \in Ids \ torn
        PROVE  /\ wal_checkpoints'[i] <= saves
               /\ i \notin raced' => saved[i] = 0 \/ saved[i] <= wal_checkpoints'[i]
    <3>1. /\ wal_checkpoints[i] <= saves
          /\ i \notin raced => saved[i] = 0 \/ saved[i] <= wal_checkpoints[i]
      BY <1>1 DEF LogFresh
    <3>2. CASE i = id /\ r.durable
      <4>1. saved[i] \in Nat /\ wal_checkpoints[i] \in Nat /\ wal_checkpoints'[i] = n
        BY <1>1, <1>9, <3>2
      <4>2. PICK s \in Nat, w \in Nat : saved[i] = s /\ wal_checkpoints[i] = w
        BY <4>1
      <4>3. i \notin raced => w <= n
        BY <1>5, <3>2, <4>2 DEF Excused
      <4> QED BY <1>4, <1>5, <1>6, <3>1, <3>2, <4>1, <4>2, <4>3
    <3>3. CASE ~(i = id /\ r.durable)
      BY <1>6, <1>9, <3>1, <3>3
    <3> QED BY <3>2, <3>3
  <2> QED BY <1>1, <1>2, <2>1 DEF LogFresh
<1> DEFINE c == [call[t] EXCEPT !.pc = "checkpoint_set"]
<1>11. /\ c.pc = "checkpoint_set" /\ c.op = "checkpoint" /\ c.grant = call[t].grant
       /\ c.entry = call[t].entry /\ c.batch = call[t].batch
  BY <1>4, <1>5 DEF Locals
<1>12. /\ r.ok => call' = [call EXCEPT ![t] = c]
       /\ ~r.ok => call' = [call EXCEPT ![t] = Idle]
  BY <1>3 DEF Goto, Return
<1> HIDE DEF c
<1> DEFINE d == IF r.ok THEN c ELSE Idle
<1>13. \A u \in Tasks : call'[u] = IF u = t THEN d ELSE call[u]
  BY <1>1, <1>12
<1>14. CallFresh(d, Excused, saved)
  <2>1. CallFresh(call[t], Excused, saved)
    BY <1>1 DEF CallsFresh
  <2>2. CallFresh(c, Excused, saved)
    BY <1>11, <2>1 DEF CallFresh, HandSteps
  <2>3. CallFresh(Idle, Excused, saved)
    BY DEF CallFresh, HandSteps, Idle
  <2> QED BY <2>2, <2>3
<1> HIDE DEF d
<1>15. CallsFresh'
  <2>1. \A u \in Tasks : CallFresh(call'[u], Excused, saved)
    BY <1>1, <1>13, <1>14 DEF CallsFresh
  <2> QED BY <1>7, <2>1 DEF CallsFresh, CallFresh
<1>16. CheckpointCalls'
  <2>1. ASSUME NEW u \in Tasks, u # t PROVE CheckpointCall(call[u])'
    <3>1. CheckpointCall(call[u]) /\ call'[u] = call[u]
      BY <1>1, <1>13, <2>1 DEF CheckpointCalls
    <3>2. call[u].pc \in CheckpointSteps => call[u].grant.id \in Ids
      BY CallType DEF HomeInv, CheckpointSteps, GrantSteps, Grant
    <3>3. call[u].pc \in CheckpointSteps /\ call[u].grant.id = id => id \in raced'
      BY <1>2, <2>1, <3>1 DEF CheckpointCall, Overlaps
    <3>4. call[u].pc \in CheckpointSteps /\ call[u].grant.id # id
            => wal_checkpoints'[call[u].grant.id] = wal_checkpoints[call[u].grant.id]
      BY <1>9, <3>2
    <3> QED BY <1>2, <1>6, <3>1, <3>3, <3>4 DEF CheckpointCall, Excused
  <2>2. CheckpointCall(call[t])'
    <3>1. CASE r.ok
      <4>1. r.durable
        BY <3>1 DEF AppendResult
      <4>2. wal_checkpoints'[id] = n /\ n <= n
        BY <1>4, <1>9, <4>1
      <4>3. d = c
        BY <3>1 DEF d
      <4> QED BY <1>2, <1>5, <1>11, <1>13, <4>2, <4>3 DEF CheckpointCall, n
    <3>2. CASE ~r.ok
      <4>1. d.pc = "idle"
        BY <3>2 DEF d, Idle
      <4> QED BY <1>13, <4>1 DEF CheckpointCall, CheckpointSteps
    <3> QED BY <3>1, <3>2
  <2> QED BY <2>1, <2>2 DEF CheckpointCalls
<1> QED BY <1>8, <1>10, <1>15, <1>16 DEF CheckpointInv

\* A leased message carries its checkpoint nowhere else.
LEMMA LeasedAlone ==
    ASSUME HomeInv, NEW id \in Ids \ torn, leased[id] # None
    PROVE  /\ \A i \in DOMAIN pending : pending[i].id # id
           /\ \A i \in DOMAIN delayed : delayed[i].entry.id # id
           /\ dlq[id] = None /\ dlq_wal[id] = None
           /\ \A u \in Tasks : /\ \A e \in call[u].batch : e.id # id
                               /\ call[u].pc \in HandSteps => call[u].entry.id # id
           /\ fate[id] # "unused"
<1>1. Sole(id) /\ DlqLogAgrees(id) /\ FateAgrees(id)
  BY DEF HomeInv, HomeOf, Cut
<1>2. AtPending(id) = {} /\ AtDelayed(id) = {} /\ dlq[id] = None /\ Holders(id) = {}
      /\ id \notin stranded
  BY <1>1 DEF Sole
<1>3. HandAt("take_wal", id) = {} /\ HandAt("dlq_insert", id) = {}
      /\ HandAt("enqueue_wal", id) = {} /\ HandAt("enqueue_push", id) = {}
      /\ InBatch(id) = {}
  BY <1>2 DEF Holders
<1>4. dlq_wal[id] = None
  BY <1>1, <1>2, <1>3 DEF DlqLogAgrees
<1>5. \A u \in Tasks : /\ \A e \in call[u].batch : e.id # id
                       /\ call[u].pc \in HandSteps => call[u].entry.id # id
  BY <1>3 DEF InBatch, HandAt, HandSteps
<1>6. fate[id] # "unused"
  BY <1>1 DEF FateAgrees, Gone
<1> QED BY <1>2, <1>4, <1>5, <1>6 DEF AtPending, AtDelayed

\* The checkpoint is confirmed: it is what the log has, and the lease has it too.
LEMMA CheckpointSetFresh ==
    ASSUME HomeInv, CheckpointInv, NEW t \in Tasks, CheckpointSet(t) PROVE CheckpointInv'
<1> USE DEF vars, memVars, walVars, cpVars, auxVars
<1> DEFINE id == call[t].grant.id
           n == call[t].entry.checkpoint
<1>1. /\ call \in [Tasks -> Call] /\ leased \in [Ids -> Lease \cup {None}]
      /\ saved \in [Ids -> Nat]
      /\ QueuesFresh /\ LeasesFresh /\ DlqFresh /\ CallsFresh /\ LogFresh /\ CheckpointCalls
  BY DEF HomeInv, TypeOK, CheckpointInv
<1>2. /\ call[t].pc = "checkpoint_set" /\ Return(t)
      /\ UNCHANGED <<pending, delayed, dlq, dlq_wal, wal_checkpoints, fate, torn, raced,
                     saves>>
  BY DEF CheckpointSet, At
<1>3. id \in Ids /\ n \in Nat
  BY <1>2, CallType DEF GrantSteps, EntrySteps, Grant, Entry, HomeInv
<1>4. id \notin Excused => wal_checkpoints[id] = n
  BY <1>1, <1>2, <1>3 DEF CheckpointCalls, CheckpointCall, CheckpointSteps
<1>5. \A u \in Tasks : call'[u] = IF u = t THEN Idle ELSE call[u]
  BY <1>1, <1>2 DEF Return
<1>6. CheckpointCalls'
  <2>1. \A u \in Tasks : call'[u].pc \in CheckpointSteps => call'[u] = call[u]
    BY <1>5 DEF Idle, CheckpointSteps
  <2>2. \A u \in Tasks : CheckpointCall(call[u])
    BY <1>1 DEF CheckpointCalls
  <2> QED BY <1>2, <2>1, <2>2 DEF CheckpointCalls, CheckpointCall, Excused
<1>7. \A u \in Tasks : CallFresh(call'[u], Excused, saved)
  <2>1. CallFresh(Idle, Excused, saved)
    BY DEF CallFresh, Idle, HandSteps
  <2> QED BY <1>1, <1>5, <2>1 DEF CallsFresh
<1>8. CASE ~Holds(call[t].grant)
  <2>1. UNCHANGED <<leased, saved>>
    BY <1>8 DEF CheckpointSet
  <2>2. QueuesFresh' /\ LeasesFresh' /\ DlqFresh' /\ LogFresh'
    BY <1>1, <1>2, <2>1 DEF QueuesFresh, LeasesFresh, DlqFresh, LogFresh, Excused
  <2>3. CallsFresh'
    BY <1>2, <1>7, <2>1 DEF CallsFresh, Excused
  <2> QED BY <1>6, <2>2, <2>3 DEF CheckpointInv
<1>9. CASE Holds(call[t].grant)
  <2>1. /\ leased[id] # None
        /\ leased' = [leased EXCEPT ![id].entry.checkpoint = n]
        /\ saved' = [saved EXCEPT ![id] = n]
    BY <1>9 DEF CheckpointSet, Holds
  <2>2. leased[id] \in Lease /\ leased[id].entry.id = id
    BY <1>1, <1>3, <2>1 DEF HomeInv, Keyed
  <2> DEFINE new == [leased[id] EXCEPT !.entry.checkpoint = n]
  <2>3. new.entry.id = id /\ new.entry.checkpoint = n
    BY <1>3, <2>2 DEF Lease, Entry
  <2>4. \A i \in Ids : leased'[i] = IF i = id THEN new ELSE leased[i]
    BY <1>1, <1>3, <2>1
  <2> HIDE DEF new
  <2>5. \A i \in Ids : saved'[i] = IF i = id THEN n ELSE saved[i]
    BY <1>1, <1>3, <2>1
  <2>6. \A e : /\ Fresh(e, Excused, saved) /\ e.id \in Ids
               /\ e.id # id \/ id \in torn
               => Fresh(e, Excused', saved')
    BY <1>2, <2>5 DEF Fresh, Excused
  <2>7. id \notin torn =>
          /\ \A i \in DOMAIN pending : pending[i].id # id
          /\ \A i \in DOMAIN delayed : delayed[i].entry.id # id
          /\ dlq[id] = None /\ dlq_wal[id] = None
          /\ \A u \in Tasks : /\ \A e \in call[u].batch : e.id # id
                              /\ call[u].pc \in HandSteps => call[u].entry.id # id
          /\ fate[id] # "unused"
    BY <1>3, <2>1, LeasedAlone
  <2>8. QueuesFresh'
    <3>1. /\ \A i \in DOMAIN pending : pending[i] \in Entry
          /\ \A i \in DOMAIN delayed : delayed[i] \in Delayed
      BY DEF HomeInv, TypeOK
    <3>2. /\ \A i \in DOMAIN pending : pending[i].id \in Ids
          /\ \A i \in DOMAIN delayed : delayed[i].entry.id \in Ids
      BY <3>1 DEF Entry, Delayed
    <3> QED BY <1>1, <1>2, <2>6, <2>7, <3>2 DEF QueuesFresh
  <2>9. LeasesFresh'
    <3>1. ASSUME NEW i \in Ids, i # id, leased[i] # None
          PROVE  Fresh(leased[i].entry, Excused', saved')
      <4>1. leased[i].entry.id = i
        BY <3>1 DEF HomeInv, Keyed
      <4> QED BY <1>1, <2>6, <3>1, <4>1 DEF LeasesFresh
    <3>2. Fresh(new.entry, Excused', saved')
      BY <1>3, <2>3, <2>5 DEF Fresh
    <3> QED BY <2>4, <3>1, <3>2 DEF LeasesFresh
  <2>10. DlqFresh'
    <3>1. \A i \in Ids : /\ dlq[i] # None => dlq[i].entry.id = i
                         /\ dlq_wal[i] # None => dlq_wal[i].entry.id = i
      BY DEF HomeInv, Keyed
    <3> QED BY <1>1, <1>2, <2>6, <2>7, <3>1 DEF DlqFresh
  <2>11. CallsFresh'
    <3>1. ASSUME NEW u \in Tasks PROVE CallFresh(call'[u], Excused', saved')
      <4>1. CASE u = t
        BY <1>5, <4>1 DEF CallFresh, Idle, HandSteps
      <4>2. CASE u # t
        <5>1. call'[u] = call[u] /\ CallFresh(call[u], Excused, saved)
          BY <1>1, <1>5, <4>2 DEF CallsFresh
        <5>2. \A e \in call[u].batch : e.id \in Ids
          BY CallType DEF HomeInv, Entry
        <5>3. call[u].pc \in HandSteps => call[u].entry.id \in Ids
          BY CallType DEF HomeInv, Entry, HandSteps, EntrySteps
        <5>4. \A e \in call[u].batch : Fresh(e, Excused', saved')
          BY <2>6, <2>7, <5>1, <5>2 DEF CallFresh
        <5>5. call[u].pc \in HandSteps => Fresh(call[u].entry, Excused', saved')
          BY <2>6, <2>7, <5>1, <5>3 DEF CallFresh
        <5> QED BY <5>1, <5>4, <5>5 DEF CallFresh
      <4> QED BY <4>1, <4>2
    <3> QED BY <3>1 DEF CallsFresh
  <2>12. LogFresh'
    <3>1. id \notin Excused => n <= wal_checkpoints[id]
      BY <1>3, <1>4
    <3> QED BY <1>1, <1>2, <2>5, <2>7, <3>1 DEF LogFresh, Excused
  <2> QED BY <1>6, <2>8, <2>9, <2>10, <2>11, <2>12 DEF CheckpointInv
<1> QED BY <1>8, <1>9

\* A restart finds in the log what was confirmed, if it cuts off no record of the
\* message, and gives it to the one entry the message has.
LEMMA CrashFresh ==
    ASSUME HomeInv, HomeInv', CheckpointInv, CrashAndOpen PROVE CheckpointInv'
<1> USE DEF vars, memVars, walVars, cpVars, auxVars
<1>1. /\ delayed' = <<>>
      /\ UNCHANGED <<saved, raced, saves>>
      /\ leased' = [id \in Ids |-> None]
      /\ call' = [t \in Tasks |-> Idle]
      /\ torn \subseteq torn' /\ Unreplayed \subseteq torn'
  BY DEF CrashAndOpen
<1> DEFINE queue == wal_pending'
<1>2. /\ pending' = Reopened(queue, wal_checkpoints')
      /\ queue \in Seq(WalEnqueue) /\ wal_checkpoints' \in [Ids -> Nat]
      /\ pending' \in Seq(Entry)
  BY DEF CrashAndOpen, HomeInv, TypeOK
<1>3. \A id \in Ids \ torn' : /\ wal_checkpoints'[id] = wal_checkpoints[id]
                               /\ dlq'[id] = dlq_wal[id] /\ dlq_wal'[id] = dlq_wal[id]
  <2>1. TypeOK
    BY DEF HomeInv
  <2> QED BY <1>1, <2>1, CrashRecords
<1>4. NoCheckpoint
  BY <1>1, <1>3 DEF NoCheckpoint, CrashAndOpen
<1>5. \A i \in DOMAIN pending' :
        /\ i \in DOMAIN queue /\ pending'[i].id = queue[i].id
        /\ pending'[i].checkpoint =
             IF \E j \in 1..(i-1) : queue[j].id = queue[i].id
             THEN 0 ELSE wal_checkpoints'[queue[i].id]
  BY <1>2 DEF Reopened
<1>6. DOMAIN pending' = DOMAIN queue
  BY <1>2 DEF Reopened
<1> HIDE DEF queue
<1>7. ASSUME NEW i \in DOMAIN pending' PROVE Fresh(pending'[i], Excused', saved')
  <2>0. pending'[i] \in Entry
    BY <1>2
  <2>1. PICK id \in Ids : pending'[i].id = id
    BY <2>0 DEF Entry
  <2>2. CASE id \in Excused'
    BY <2>1, <2>2 DEF Fresh
  <2>3. CASE id \notin Excused'
    <3>1. id \in Ids \ Cut' /\ id \in Ids \ torn' /\ id \notin raced
      BY <1>1, <2>1, <2>3 DEF Excused, Cut
    <3>2. \A k, l \in AtPending(id)' : k = l
      BY <3>1 DEF HomeInv, HomeOf, Sole, Cut
    <3>3. ~\E j \in 1..(i-1) : queue[j].id = queue[i].id
      <4> SUFFICES ASSUME NEW j \in 1..(i-1), queue[j].id = queue[i].id
                   PROVE  FALSE
        OBVIOUS
      <4>1. j \in DOMAIN pending' /\ j # i
        BY <1>2
      <4>2. pending'[j].id = id
        BY <1>5, <2>1, <4>1
      <4> QED BY <2>1, <3>2, <4>1, <4>2 DEF AtPending
    <3>4. pending'[i].checkpoint = wal_checkpoints[id]
      BY <1>5, <1>3, <2>1, <3>1, <3>3
    <3>7. CASE saved[id] = 0
      BY <1>1, <2>1, <3>7 DEF Fresh
    <3> SUFFICES ASSUME saved[id] # 0 PROVE Fresh(pending'[i], Excused', saved')
      BY <3>7
    <3>5. saved[id] <= wal_checkpoints[id] /\ saved[id] \in Nat /\ wal_checkpoints[id] \in Nat
      BY <1>1, <2>1, <3>1 DEF CheckpointInv, LogFresh, HomeInv, TypeOK
    <3>6. wal_checkpoints[id] >= saved[id]
      <4>1. PICK s \in Nat, w \in Nat : saved[id] = s /\ wal_checkpoints[id] = w
        BY <3>5
      <4> QED BY <3>5, <4>1
    <3> QED BY <1>1, <2>1, <3>4, <3>6 DEF Fresh
  <2> QED BY <2>2, <2>3
<1>8. QueuesFresh'
  BY <1>1, <1>7 DEF QueuesFresh
<1>9. LeasesFresh'
  BY <1>1 DEF LeasesFresh
<1>10. DlqFresh'
  <2>1. ASSUME NEW id \in Ids, NEW d \in {dlq'[id], dlq_wal'[id]}, d # None
        PROVE  Fresh(d.entry, Excused', saved')
    <3>1. d.entry.id = id
      BY <2>1 DEF HomeInv, Keyed
    <3>2. CASE id \in torn'
      BY <3>1, <3>2 DEF Fresh, Excused
    <3>3. CASE id \notin torn'
      <4>1. Fresh(d.entry, Excused, saved)
        BY <1>3, <2>1, <3>3 DEF CheckpointInv, DlqFresh
      <4> QED BY <1>1, <4>1 DEF Fresh, Excused
    <3> QED BY <3>2, <3>3
  <2> QED BY <2>1 DEF DlqFresh
<1>11. \A t \in Tasks : call'[t] = Idle
  BY <1>1
<1>12. CallsFresh' /\ CheckpointCalls'
  BY <1>11 DEF CallsFresh, CallFresh, CheckpointCalls, CheckpointCall, Idle, HandSteps,
     CheckpointSteps
<1> QED BY <1>4, <1>8, <1>9, <1>10, <1>12, NoCheckpointLog DEF CheckpointInv

\* Every step keeps the checkpoints.
LEMMA CheckpointStep == HomeInv /\ CheckpointInv /\ [Next]_vars => CheckpointInv'
<1> SUFFICES ASSUME HomeInv, CheckpointInv, [Next]_vars PROVE CheckpointInv'
  OBVIOUS
<1>1. CASE UNCHANGED vars
  BY <1>1 DEF CheckpointInv, QueuesFresh, LeasesFresh, DlqFresh, CallsFresh, LogFresh,
     CheckpointCalls, CheckpointCall, Excused, vars, memVars, walVars, auxVars, cpVars
<1>2. CASE Next
  <2>1. HomeInv'
    BY <1>2, HomeStep
  <2>2. ASSUME NEW t \in Tasks, Checkpoint(t) PROVE CheckpointInv'
    BY <2>2, CheckpointStartFresh, CheckpointAppendFresh, CheckpointSetFresh DEF Checkpoint
  <2> QED BY <1>1, <1>2, <2>1, <2>2, EnqueueFresh, ClaimFresh, SettleFresh, ResolveFresh,
             TriageFresh, TimeFresh, CrashFresh DEF Next, Rest
<1> QED BY <1>1, <1>2

\* ConsumerGroup::checkpoint's promise: once it has returned Ok(true), every later
\* delivery of the message carries that checkpoint or a newer one, wherever the
\* message goes in between and however often the process restarts, until a
\* reprocess makes it start over, unless its checkpoint calls raced, its
\* dead-lettering was cut between its two records or a restart cut off a record of
\* it (this checkpoint's, say) that lay behind a torn frame.
THEOREM CheckpointsSurvive == Spec => []CheckpointSurvives
<1>1. Init => HomeInv /\ CheckpointInv
  <2>1. Init => CheckpointInv
    BY DEF Init, CheckpointInv, QueuesFresh, LeasesFresh, DlqFresh, CallsFresh, CallFresh,
       LogFresh, CheckpointCalls, CheckpointCall, Idle, HandSteps, CheckpointSteps
  <2> QED BY <2>1, HomeInit
<1>2. HomeInv /\ CheckpointInv => CheckpointSurvives
  <2>0. ASSUME HomeInv, NEW e \in HeldEntries
        PROVE  e.id \in Ids /\ e.checkpoint \in Nat
    <3>1. \A t \in Tasks : InHand(t) \subseteq Entry
      BY <2>0, CallType DEF HomeInv, InHand, EntrySteps
    <3>2. /\ pending \in Seq(Entry) /\ delayed \in Seq(Delayed)
          /\ leased \in [Ids -> Lease \cup {None}] /\ dlq \in [Ids -> DeadLetter \cup {None}]
      BY <2>0 DEF HomeInv, TypeOK
    <3>3. ASSUME NEW t \in Tasks, e \in InHand(t) PROVE e \in Entry
      BY <3>1, <3>3
    <3>4. \A i \in DOMAIN pending : pending[i] \in Entry
      BY <3>2
    <3>5. \A i \in DOMAIN delayed : delayed[i].entry \in Entry
      <4>1. \A i \in DOMAIN delayed : delayed[i] \in Delayed
        BY <3>2
      <4> QED BY <4>1 DEF Delayed
    <3>6. \A id \in Ids : /\ leased[id] # None => leased[id].entry \in Entry
                          /\ dlq[id] # None => dlq[id].entry \in Entry
      BY <3>2 DEF Lease, DeadLetter
    <3>7. \/ \E i \in DOMAIN pending : e = pending[i]
          \/ \E i \in DOMAIN delayed : e = delayed[i].entry
          \/ \E id \in Ids : leased[id] # None /\ e = leased[id].entry
          \/ \E id \in Ids : dlq[id] # None /\ e = dlq[id].entry
          \/ \E t \in Tasks : e \in InHand(t)
      BY <2>0 DEF HeldEntries
    <3>8. \A t \in Tasks : e \in InHand(t) => e \in Entry
      BY <3>3
    <3>9. e \in Entry
      BY <3>4, <3>5, <3>6, <3>7, <3>8
    <3> QED BY <3>9 DEF Entry
  <2> SUFFICES ASSUME HomeInv, CheckpointInv, NEW e \in HeldEntries
               PROVE  Fresh(e, Excused, saved)
    BY <2>0 DEF CheckpointSurvives, Fresh, Excused
  <2>1. ASSUME NEW t \in Tasks, e \in InHand(t) PROVE Fresh(e, Excused, saved)
    <3>1. CallFresh(call[t], Excused, saved)
      BY DEF CheckpointInv, CallsFresh
    <3> QED BY <2>1, <3>1 DEF InHand, CallFresh, HandSteps
  <2> QED BY <2>1 DEF HeldEntries, CheckpointInv, QueuesFresh, LeasesFresh, DlqFresh
<1>3. HomeInv /\ [Next]_vars => HomeInv'
  BY HomeStep
<1>4. HomeInv /\ CheckpointInv /\ [Next]_vars => CheckpointInv'
  BY CheckpointStep
<1> QED BY <1>1, <1>2, <1>3, <1>4, PTL DEF Spec

-----------------------------------------------------------------------------
(* Idempotency keys, while the process runs.  A message and its key go      *)
(* together through every collection, so a set of (id, key) pairs that      *)
(* covers what the process keeps goes on covering it; the dedup map names   *)
(* exactly such a set, and gives a key up only when its message is nowhere  *)
(* else.                                                                    *)

Tag(e) == <<e.id, e.key>>

\* The steps at which a call has a message that is nowhere else, or has still to
\* release its key.
KeySteps == HandSteps \cup {"enqueue_undo", "purge_release"}

CallTagged(c, G) == /\ c.pc \in KeySteps => Tag(c.entry) \in G
                    /\ \A e \in c.batch : Tag(e) \in G

\* The pairs G cover every message that the process keeps.
QueuesTagged(G) == /\ \A i \in DOMAIN pending : Tag(pending[i]) \in G
                   /\ \A i \in DOMAIN delayed : Tag(delayed[i].entry) \in G
MapsTagged(G) == \A id \in Ids : /\ leased[id] # None => Tag(leased[id].entry) \in G
                                 /\ dlq[id] # None => Tag(dlq[id].entry) \in G
CallsTagged(G) == \A t \in Tasks : CallTagged(call[t], G)
Tagged(G) == QueuesTagged(G) /\ MapsTagged(G) /\ CallsTagged(G)

\* The calls, when one has moved to new locals.
LEMMA CallsTaggedAfter ==
    ASSUME NEW G, CallsTagged(G), call \in [Tasks -> Call], NEW t \in Tasks, NEW c,
           call' = [call EXCEPT ![t] = c], CallTagged(c, G)
    PROVE  CallsTagged(G)'
<1>1. \A u \in Tasks : call'[u] = IF u = t THEN c ELSE call[u]
  OBVIOUS
<1>2. \A u \in Tasks : CallTagged(call'[u], G)
  BY <1>1 DEF CallsTagged
<1> QED BY <1>2 DEF CallsTagged

\* The ways in which a call moves.
LEMMA CallsTaggedKept ==
    ASSUME NEW G, CallsTagged(G), call \in [Tasks -> Call], NEW t \in Tasks
    PROVE  /\ Return(t) => CallsTagged(G)'
           /\ \A pc : /\ pc \in KeySteps => Tag(call[t].entry) \in G
                      /\ Goto(t, pc)
                      => CallsTagged(G)'
           /\ \A rest \in SUBSET call[t].batch : Resolved(t, rest) => CallsTagged(G)'
           /\ call' = call => CallsTagged(G)'
<1>1. call[t] \in Call /\ CallTagged(call[t], G)
  BY DEF CallsTagged
<1>2. CallTagged(Idle, G)
  BY DEF CallTagged, Idle, KeySteps, HandSteps
<1>3. Return(t) => CallsTagged(G)'
  BY <1>2, CallsTaggedAfter DEF Return
<1>4. ASSUME NEW pc, Goto(t, pc), pc \in KeySteps => Tag(call[t].entry) \in G
      PROVE  CallsTagged(G)'
  <2> DEFINE c == [call[t] EXCEPT !.pc = pc]
  <2>1. call' = [call EXCEPT ![t] = c]
    BY <1>4 DEF Goto
  <2>2. c.pc = pc /\ c.entry = call[t].entry /\ c.batch = call[t].batch
    BY <1>1 DEF Call, Locals
  <2> HIDE DEF c
  <2>3. CallTagged(c, G)
    BY <1>1, <1>4, <2>2 DEF CallTagged
  <2> QED BY <2>1, <2>3, CallsTaggedAfter
<1>5. ASSUME NEW rest \in SUBSET call[t].batch, Resolved(t, rest) PROVE CallsTagged(G)'
  <2> DEFINE c == [call[t] EXCEPT !.pc = "resolve", !.entry = None, !.batch = rest]
             d == [Idle EXCEPT !.op = "claim", !.pc = "pop"]
  <2>1. \/ call' = [call EXCEPT ![t] = c] \/ call' = [call EXCEPT ![t] = d]
        \/ call' = [call EXCEPT ![t] = Idle]
    BY <1>5 DEF Resolved
  <2>2. c.pc = "resolve" /\ c.batch = rest /\ d.pc = "pop" /\ d.batch = {}
    BY <1>1 DEF Call, Locals, Idle
  <2> HIDE DEF c, d
  <2>3. CallTagged(c, G) /\ CallTagged(d, G)
    BY <1>1, <2>2 DEF CallTagged, KeySteps, HandSteps
  <2> QED BY <1>2, <2>1, <2>3, CallsTaggedAfter
<1>6. ASSUME call' = call PROVE CallsTagged(G)'
  BY <1>6 DEF CallsTagged, CallTagged
<1> QED BY <1>3, <1>4, <1>5, <1>6

\* Each step of enqueue after the first keeps messages and keys together.
LEMMA EnqueueTagged ==
    ASSUME HomeInv, NEW G, Tagged(G), NEW t \in Tasks, Enqueue(t), ~EnqueueReserve(t)
    PROVE  Tagged(G)'
<1> USE DEF vars, memVars, walVars, cpVars, auxVars
<1>1. /\ call \in [Tasks -> Call] /\ CallsTagged(G) /\ CallTagged(call[t], G)
      /\ pending \in Seq(Entry)
  BY DEF HomeInv, TypeOK, Tagged, CallsTagged
<1>2. MapsTagged(G)'
  <2>1. UNCHANGED <<leased, dlq>>
    BY DEF Enqueue, EnqueueDuplicate, WriteEnqueueRecord, EnqueueUndo, PushPending
  <2> QED BY <2>1 DEF Tagged, MapsTagged
<1>3. QueuesTagged(G)'
  <2>1. UNCHANGED delayed
    BY DEF Enqueue, EnqueueDuplicate, WriteEnqueueRecord, EnqueueUndo, PushPending
  <2>2. CASE PushPending(t)
    <3>1. pending' = Append(pending, call[t].entry) /\ Tag(call[t].entry) \in G
      BY <1>1, <2>2 DEF PushPending, At, CallTagged, KeySteps, HandSteps
    <3>2. call[t].entry \in Entry
      BY <2>2, CallType DEF PushPending, At, EntrySteps, HomeInv
    <3>3. \A i \in DOMAIN pending' :
            pending'[i] = call[t].entry \/ (i \in DOMAIN pending /\ pending'[i] = pending[i])
      BY <1>1, <3>1, <3>2
    <3> QED BY <2>1, <3>1, <3>3 DEF Tagged, QueuesTagged
  <2>3. CASE ~PushPending(t)
    <3>1. UNCHANGED pending
      BY <2>3 DEF Enqueue, EnqueueDuplicate, WriteEnqueueRecord, EnqueueUndo
    <3> QED BY <2>1, <3>1 DEF Tagged, QueuesTagged
  <2> QED BY <2>2, <2>3
<1>4. CallsTagged(G)'
  <2>1. CASE WriteEnqueueRecord(t)
    <3>1. /\ Tag(call[t].entry) \in G
          /\ \E pc \in {"enqueue_push", "enqueue_undo"} : Goto(t, pc)
      BY <1>1, <2>1 DEF WriteEnqueueRecord, At, CallTagged, KeySteps, HandSteps
    <3> QED BY <1>1, <3>1, CallsTaggedKept
  <2>2. CASE EnqueueDuplicate(t) \/ EnqueueUndo(t) \/ PushPending(t)
    BY <1>1, <2>2, CallsTaggedKept DEF EnqueueDuplicate, EnqueueUndo, PushPending
  <2> QED BY <2>1, <2>2 DEF Enqueue
<1> QED BY <1>2, <1>3, <1>4 DEF Tagged

\* The first keeps them together if the new message's pair is covered.
LEMMA ReserveTagged ==
    ASSUME HomeInv, NEW G, Tagged(G), NEW t \in Tasks, NEW id, NEW key, <<id, key>> \in G,
           UNCHANGED <<pending, delayed, leased, dlq>>,
           call' = [call EXCEPT ![t] = [Idle EXCEPT !.op = "enqueue", !.pc = "enqueue_wal",
                                                    !.entry = NewEntry(id, key)]]
    PROVE  Tagged(G)'
<1> DEFINE c == [Idle EXCEPT !.op = "enqueue", !.pc = "enqueue_wal",
                             !.entry = NewEntry(id, key)]
<1>1. /\ c.pc = "enqueue_wal" /\ c.entry.id = id /\ c.entry.key = key /\ c.batch = {}
      /\ call' = [call EXCEPT ![t] = c]
  BY DEF Idle, NewEntry
<1> HIDE DEF c
<1>2. CallTagged(c, G)
  BY <1>1 DEF CallTagged, Tag
<1>3. CallsTagged(G)'
  BY <1>1, <1>2, CallsTaggedAfter DEF HomeInv, TypeOK, Tagged
<1>4. QueuesTagged(G)' /\ MapsTagged(G)'
  BY DEF Tagged, QueuesTagged, MapsTagged
<1> QED BY <1>3, <1>4 DEF Tagged

\* Positions f of delayed carry their pairs over into the promoted half and the
\* half that stays.
LEMMA PromoteTagged ==
    ASSUME NEW G, delayed \in Seq(Delayed), QueuesTagged(G),
           NEW I \in SUBSET DOMAIN delayed, NEW f \in Ascending(I)
    PROVE  /\ \A k \in DOMAIN Promoted(f) : Tag(Promoted(f)[k]) \in G
           /\ \A k \in DOMAIN StillDelayed(f) : Tag(StillDelayed(f)[k].entry) \in G
<1>1. f \in [1..Cardinality(I) -> I]
  BY AscendingType
<1>2. \A k \in DOMAIN f : f[k] \in DOMAIN delayed
  BY <1>1
<1> QED BY <1>2 DEF Promoted, StillDelayed, Pick, QueuesTagged

\* Each step of claim keeps messages and keys together.
LEMMA ClaimTagged ==
    ASSUME HomeInv, NEW G, Tagged(G), NEW t \in Tasks, Claim(t) PROVE Tagged(G)'
<1> USE DEF vars, memVars, walVars, cpVars, auxVars
<1>1. /\ call \in [Tasks -> Call] /\ CallsTagged(G)
      /\ pending \in Seq(Entry) /\ delayed \in Seq(Delayed)
      /\ leased \in [Ids -> Lease \cup {None}]
      /\ QueuesTagged(G) /\ MapsTagged(G)
  BY DEF HomeInv, TypeOK, Tagged
<1>2. UNCHANGED dlq
  BY DEF Claim, ReclaimExpired, PopPending, CancelClaim
<1>3. CASE ReclaimExpired(t)
  <2> DEFINE b == {leased[id].entry : id \in Expired}
  <2>1. UNCHANGED <<pending, delayed>> /\ leased' = Without(Expired)
    BY <1>3 DEF ReclaimExpired
  <2>2. QueuesTagged(G)'
    BY <1>1, <2>1 DEF QueuesTagged
  <2>3. MapsTagged(G)'
    BY <1>1, <1>2, <2>1 DEF MapsTagged, Without
  <2>4. \A e \in b : Tag(e) \in G
    BY <1>1 DEF MapsTagged, Expired
  <2>5. PICK pc \in {"pop", "resolve"} :
          call' = [call EXCEPT ![t] = [Idle EXCEPT !.op = "claim", !.pc = pc, !.batch = b]]
    BY <1>3 DEF ReclaimExpired
  <2> DEFINE c == [Idle EXCEPT !.op = "claim", !.pc = pc, !.batch = b]
  <2>6. c.pc = pc /\ c.batch = b
    BY DEF Idle
  <2> HIDE DEF c, b
  <2>7. CallTagged(c, G)
    BY <2>4, <2>5, <2>6 DEF CallTagged, KeySteps, HandSteps
  <2>8. CallsTagged(G)'
    BY <1>1, <2>5, <2>7, CallsTaggedAfter DEF c
  <2> QED BY <2>2, <2>3, <2>8 DEF Tagged
<1>4. CASE PopPending(t)
  <2>1. PICK ready \in Ascending(ReadyPositions),
             waiting \in Ascending(DOMAIN delayed \ ReadyPositions) :
          LET queue == pending \o Promoted(ready)
              entry == [Head(queue) EXCEPT !.delivery_count = @ + 1]
          IN /\ delayed' = StillDelayed(waiting)
             /\ \/ /\ queue = <<>>
                   /\ pending' = queue
                   /\ Goto(t, "blocked")
                   /\ UNCHANGED leased
                \/ /\ queue # <<>>
                   /\ pending' = Tail(queue)
                   /\ leased' = [leased EXCEPT ![entry.id] = NewLease(entry)]
                   /\ Return(t)
    BY <1>4 DEF PopPending
  <2> DEFINE queue == pending \o Promoted(ready)
             entry == [Head(queue) EXCEPT !.delivery_count = @ + 1]
  <2>2. ReadyPositions \subseteq DOMAIN delayed
    BY DEF ReadyPositions
  <2>3. /\ Promoted(ready) \in Seq(Entry)
        /\ \A k \in DOMAIN Promoted(ready) : Tag(Promoted(ready)[k]) \in G
        /\ \A k \in DOMAIN delayed' : Tag(delayed'[k].entry) \in G
    BY <1>1, <2>1, <2>2, PromoteType, PromoteTagged
  <2>4. queue \in Seq(Entry)
    BY <1>1, <2>3
  <2>5. \A k \in DOMAIN queue : Tag(queue[k]) \in G
    <3>1. \A k \in DOMAIN queue :
            \/ k \in DOMAIN pending /\ queue[k] = pending[k]
            \/ /\ k - Len(pending) \in DOMAIN Promoted(ready)
               /\ queue[k] = Promoted(ready)[k - Len(pending)]
      BY <1>1, <2>3
    <3> HIDE DEF queue
    <3> QED BY <1>1, <2>3, <3>1 DEF QueuesTagged
  <2>6. CallsTagged(G)'
    BY <1>1, <2>1, CallsTaggedKept DEF KeySteps, HandSteps
  <2>7. CASE queue = <<>>
    <3>1. pending' = queue /\ UNCHANGED leased
      BY <2>1, <2>7
    <3> HIDE DEF queue
    <3>2. QueuesTagged(G)'
      BY <2>3, <2>5, <3>1 DEF QueuesTagged
    <3>3. MapsTagged(G)'
      BY <1>1, <1>2, <3>1 DEF MapsTagged
    <3> QED BY <2>6, <3>2, <3>3 DEF Tagged
  <2>8. CASE queue # <<>>
    <3>1. /\ pending' = Tail(queue)
          /\ leased' = [leased EXCEPT ![entry.id] = NewLease(entry)]
      BY <2>1, <2>8
    <3>2. Head(queue) \in Entry /\ Tag(Head(queue)) \in G
      BY <2>4, <2>5, <2>8
    <3>3. entry.id = Head(queue).id /\ entry.key = Head(queue).key
      BY <3>2 DEF Entry
    <3>4. Tag(entry) \in G
      BY <3>2, <3>3 DEF Tag
    <3>5. \A k \in DOMAIN Tail(queue) : k+1 \in DOMAIN queue /\ Tail(queue)[k] = queue[k+1]
      BY <2>4, <2>8
    <3> HIDE DEF queue, entry
    <3>6. QueuesTagged(G)'
      BY <2>3, <2>5, <3>1, <3>5 DEF QueuesTagged
    <3>7. MapsTagged(G)'
      <4>1. NewLease(entry).entry = entry
        BY DEF NewLease
      <4>2. \A id \in Ids : leased'[id] = IF id = entry.id THEN NewLease(entry) ELSE leased[id]
        BY <1>1, <3>1
      <4> QED BY <1>1, <1>2, <3>4, <4>1, <4>2 DEF MapsTagged
    <3> QED BY <2>6, <3>6, <3>7 DEF Tagged
  <2> QED BY <2>7, <2>8
<1>5. CASE CancelClaim(t)
  <2>1. UNCHANGED <<pending, delayed, leased>> /\ Return(t)
    BY <1>5 DEF CancelClaim
  <2>2. QueuesTagged(G)' /\ MapsTagged(G)'
    BY <1>1, <1>2, <2>1 DEF QueuesTagged, MapsTagged
  <2>3. CallsTagged(G)'
    BY <1>1, <2>1, CallsTaggedKept
  <2> QED BY <2>2, <2>3 DEF Tagged
<1> QED BY <1>3, <1>4, <1>5 DEF Claim

\* Each step of ack and nack does.
LEMMA SettleTagged ==
    ASSUME HomeInv, NEW G, Tagged(G), NEW t \in Tasks, Settle(t) PROVE Tagged(G)'
<1> USE DEF vars, memVars, walVars, cpVars, auxVars
<1>1. /\ call \in [Tasks -> Call] /\ leased \in [Ids -> Lease \cup {None}]
      /\ grants \subseteq Grant
      /\ QueuesTagged(G) /\ MapsTagged(G) /\ CallsTagged(G)
  BY DEF HomeInv, TypeOK, Tagged
<1>2. QueuesTagged(G)'
  <2>1. UNCHANGED <<pending, delayed>>
    BY DEF Settle, AckRelease, AckAppend, NackRelease
  <2> QED BY <1>1, <2>1 DEF QueuesTagged
<1>3. MapsTagged(G)'
  <2>1. /\ UNCHANGED dlq
        /\ leased' = leased \/ \E id : leased' = [leased EXCEPT ![id] = None]
    BY DEF Settle, AckRelease, AckAppend, NackRelease
  <2>2. \A id \in Ids : leased'[id] = leased[id] \/ leased'[id] = None
    BY <1>1, <2>1
  <2> QED BY <1>1, <2>1, <2>2 DEF MapsTagged
<1>4. CallsTagged(G)'
  <2>1. CASE AckRelease(t)
    <3>1. PICK g : call' = [call EXCEPT ![t] = [Idle EXCEPT !.op = "ack", !.pc = "ack_wal",
                                                            !.grant = g]]
      BY <2>1 DEF AckRelease
    <3> DEFINE c == [Idle EXCEPT !.op = "ack", !.pc = "ack_wal", !.grant = g]
    <3>2. c.pc = "ack_wal" /\ c.batch = {}
      BY DEF Idle
    <3> HIDE DEF c
    <3>3. CallTagged(c, G)
      BY <3>2 DEF CallTagged, KeySteps, HandSteps
    <3> QED BY <1>1, <3>1, <3>3, CallsTaggedAfter DEF c
  <2>2. CASE AckAppend(t)
    BY <1>1, <2>2, CallsTaggedKept DEF AckAppend
  <2>3. CASE NackRelease(t)
    <3>1. PICK g \in grants :
            /\ leased[g.id] # None
            /\ call' = [call EXCEPT ![t] = [Idle EXCEPT !.op = "nack", !.pc = "resolve",
                                                        !.grant = g,
                                                        !.batch = {leased[g.id].entry}]]
      BY <2>3 DEF NackRelease, Holds
    <3> DEFINE c == [Idle EXCEPT !.op = "nack", !.pc = "resolve", !.grant = g,
                                 !.batch = {leased[g.id].entry}]
    <3>2. c.pc = "resolve" /\ c.batch = {leased[g.id].entry}
      BY DEF Idle
    <3>3. Tag(leased[g.id].entry) \in G
      BY <1>1, <3>1 DEF Grant, MapsTagged
    <3> HIDE DEF c
    <3>4. CallTagged(c, G)
      BY <3>2, <3>3 DEF CallTagged, KeySteps, HandSteps
    <3> QED BY <1>1, <3>1, <3>4, CallsTaggedAfter DEF c
  <2> QED BY <2>1, <2>2, <2>3 DEF Settle
<1> QED BY <1>2, <1>3, <1>4 DEF Tagged


\* Each step of resolve_failed_delivery does.
LEMMA ResolveTagged ==
    ASSUME HomeInv, NEW G, Tagged(G), NEW t \in Tasks, Resolve(t) PROVE Tagged(G)'
<1> USE DEF vars, memVars, walVars, cpVars, auxVars
<1>1. /\ call \in [Tasks -> Call] /\ CallTagged(call[t], G)
      /\ delayed \in Seq(Delayed) /\ dlq \in [Ids -> DeadLetter \cup {None}]
      /\ QueuesTagged(G) /\ MapsTagged(G) /\ CallsTagged(G)
  BY DEF HomeInv, TypeOK, Tagged, CallsTagged
<1>2. UNCHANGED <<pending, leased>>
  BY DEF Resolve, RetryLater, RecordDeadLetter, InsertDeadLetter, AppendDeadLettered
<1>3. \A e \in call[t].batch : Tag(e) \in G /\ e \in Entry
  BY <1>1, CallType DEF CallTagged, HomeInv
<1>4. CASE RetryLater(t)
  <2>1. PICK e \in call[t].batch :
          /\ delayed' = Append(delayed, [entry |-> e, ready |-> FALSE])
          /\ Resolved(t, call[t].batch \ {e})
    BY <1>4 DEF RetryLater
  <2>2. [entry |-> e, ready |-> FALSE] \in Delayed
    BY <1>3 DEF Delayed
  <2>3. \A i \in DOMAIN delayed' :
          \/ delayed'[i] = [entry |-> e, ready |-> FALSE]
          \/ i \in DOMAIN delayed /\ delayed'[i] = delayed[i]
    BY <1>1, <2>1, <2>2
  <2>4. QueuesTagged(G)'
    BY <1>1, <1>2, <1>3, <2>3 DEF QueuesTagged
  <2>5. MapsTagged(G)'
    BY <1>1, <1>2, <1>4 DEF RetryLater, MapsTagged
  <2>6. CallsTagged(G)'
    BY <1>1, <2>1, CallsTaggedKept
  <2> QED BY <2>4, <2>5, <2>6 DEF Tagged
<1>5. CASE RecordDeadLetter(t)
  <2>1. PICK e \in call[t].batch, r \in AppendResult :
          IF r.ok
          THEN call' = [call EXCEPT ![t].pc = "dlq_insert", ![t].entry = e,
                                    ![t].batch = @ \ {e}]
          ELSE Resolved(t, call[t].batch \ {e})
    BY <1>5 DEF RecordDeadLetter
  <2>2. QueuesTagged(G)' /\ MapsTagged(G)'
    BY <1>1, <1>2, <1>5 DEF RecordDeadLetter, QueuesTagged, MapsTagged
  <2>3. CASE r.ok
    <3> DEFINE c == [call[t] EXCEPT !.pc = "dlq_insert", !.entry = e, !.batch = @ \ {e}]
    <3>1. call' = [call EXCEPT ![t] = c]
      BY <1>1, <2>1, <2>3
    <3>2. call[t] \in Locals
      BY <1>1 DEF Call
    <3>3. c.pc = "dlq_insert" /\ c.entry = e /\ c.batch = call[t].batch \ {e}
      BY <3>2 DEF Locals
    <3> HIDE DEF c
    <3>4. CallTagged(c, G)
      BY <1>3, <3>3 DEF CallTagged
    <3> QED BY <1>1, <2>2, <3>1, <3>4, CallsTaggedAfter DEF Tagged
  <2>4. CASE ~r.ok
    BY <1>1, <2>1, <2>2, <2>4, CallsTaggedKept DEF Tagged
  <2> QED BY <2>3, <2>4
<1>6. CASE InsertDeadLetter(t)
  <2>1. Tag(call[t].entry) \in G
    BY <1>1, <1>6 DEF InsertDeadLetter, At, CallTagged, KeySteps, HandSteps
  <2>2. QueuesTagged(G)'
    BY <1>1, <1>2, <1>6 DEF InsertDeadLetter, QueuesTagged
  <2>3. MapsTagged(G)'
    <3>1. \A id \in Ids : \/ dlq'[id] = dlq[id]
                          \/ dlq'[id] = [entry |-> call[t].entry, triage |-> None]
      BY <1>1, <1>6 DEF InsertDeadLetter
    <3> QED BY <1>1, <1>2, <2>1, <3>1 DEF MapsTagged
  <2>4. CallsTagged(G)'
    BY <1>1, <1>6, CallsTaggedKept DEF InsertDeadLetter, KeySteps, HandSteps
  <2> QED BY <2>2, <2>3, <2>4 DEF Tagged
<1>7. CASE AppendDeadLettered(t)
  <2>1. UNCHANGED <<delayed, dlq>> /\ Resolved(t, call[t].batch)
    BY <1>7 DEF AppendDeadLettered
  <2>2. QueuesTagged(G)' /\ MapsTagged(G)'
    BY <1>1, <1>2, <2>1 DEF QueuesTagged, MapsTagged
  <2> QED BY <1>1, <2>1, <2>2, CallsTaggedKept DEF Tagged
<1> QED BY <1>4, <1>5, <1>6, <1>7 DEF Resolve

\* Each step of checkpoint does: it replaces the checkpoint of a leased message.
LEMMA CheckpointTagged ==
    ASSUME HomeInv, NEW G, Tagged(G), NEW t \in Tasks, Checkpoint(t) PROVE Tagged(G)'
<1> USE DEF vars, memVars, walVars, cpVars, auxVars
<1>1. /\ call \in [Tasks -> Call] /\ leased \in [Ids -> Lease \cup {None}]
      /\ QueuesTagged(G) /\ MapsTagged(G) /\ CallsTagged(G)
  BY DEF HomeInv, TypeOK, Tagged
<1>2. UNCHANGED <<pending, delayed, dlq>>
  BY DEF Checkpoint, CheckpointStart, CheckpointAppend, CheckpointSet
<1>3. QueuesTagged(G)'
  BY <1>1, <1>2 DEF QueuesTagged
<1>4. CASE CheckpointStart(t)
  <2>1. UNCHANGED leased
    BY <1>4 DEF CheckpointStart
  <2>2. PICK g, e : call' = [call EXCEPT ![t] =
                               [Idle EXCEPT !.op = "checkpoint", !.pc = "checkpoint_wal",
                                            !.grant = g, !.entry = e]]
    BY <1>4 DEF CheckpointStart
  <2> DEFINE c == [Idle EXCEPT !.op = "checkpoint", !.pc = "checkpoint_wal", !.grant = g,
                               !.entry = e]
  <2>3. c.pc = "checkpoint_wal" /\ c.batch = {}
    BY DEF Idle
  <2> HIDE DEF c
  <2>4. CallTagged(c, G)
    BY <2>3 DEF CallTagged, KeySteps, HandSteps
  <2>5. CallsTagged(G)'
    BY <1>1, <2>2, <2>4, CallsTaggedAfter DEF c
  <2> QED BY <1>1, <1>2, <1>3, <2>1, <2>5 DEF Tagged, MapsTagged
<1>5. CASE CheckpointAppend(t)
  <2>1. UNCHANGED leased /\ (Goto(t, "checkpoint_set") \/ Return(t))
    BY <1>5 DEF CheckpointAppend
  <2>2. CallsTagged(G)'
    BY <1>1, <2>1, CallsTaggedKept DEF KeySteps, HandSteps
  <2> QED BY <1>1, <1>2, <1>3, <2>1, <2>2 DEF Tagged, MapsTagged
<1>6. CASE CheckpointSet(t)
  <2>1. CallsTagged(G)'
    BY <1>1, <1>6, CallsTaggedKept DEF CheckpointSet
  <2>2. CASE UNCHANGED leased
    BY <1>1, <1>2, <1>3, <2>1, <2>2 DEF Tagged, MapsTagged
  <2>3. CASE leased' # leased
    <3> DEFINE m == call[t].grant.id
    <3>1. PICK n : leased' = [leased EXCEPT ![m].entry.checkpoint = n]
      BY <1>6, <2>3 DEF CheckpointSet
    <3>2. call[t].grant \in Grant /\ leased[m] # None
      BY <1>6, <2>3, CallType DEF CheckpointSet, At, GrantSteps, HomeInv, Holds
    <3>3. m \in Ids
      BY <3>2 DEF Grant
    <3> HIDE DEF m
    <3>4. leased[m] \in Lease
      BY <1>1, <3>2, <3>3
    <3>5. /\ leased'[m].entry.id = leased[m].entry.id
          /\ leased'[m].entry.key = leased[m].entry.key
      BY <1>1, <3>1, <3>3, <3>4 DEF Lease, Entry
    <3>6. \A id \in Ids \ {m} : leased'[id] = leased[id]
      BY <1>1, <3>1
    <3>7. \A id \in Ids : leased'[id] # None =>
            leased[id] # None /\ Tag(leased'[id].entry) = Tag(leased[id].entry)
      BY <3>2, <3>5, <3>6 DEF Tag
    <3> QED BY <1>1, <1>2, <1>3, <2>1, <3>7 DEF Tagged, MapsTagged
  <2> QED BY <2>2, <2>3
<1> QED BY <1>4, <1>5, <1>6 DEF Checkpoint

\* Each step of annotate, purge and reprocess does: a message that is enqueued
\* anew has its old id and key.
LEMMA TriageTagged ==
    ASSUME HomeInv, NEW G, Tagged(G), NEW t \in Tasks, Triage(t) PROVE Tagged(G)'
<1> USE DEF vars, memVars, walVars, cpVars, auxVars
<1>1. /\ call \in [Tasks -> Call] /\ CallTagged(call[t], G)
      /\ dlq \in [Ids -> DeadLetter \cup {None}]
      /\ QueuesTagged(G) /\ MapsTagged(G) /\ CallsTagged(G)
  BY DEF HomeInv, TypeOK, Tagged, CallsTagged
<1>2. UNCHANGED <<pending, delayed, leased>>
  BY DEF Triage, AnnotateStart, AnnotateAppend, AnnotateSet, TakeDeadLetter, TakeAppend,
     PurgeRelease
<1>3. QueuesTagged(G)'
  BY <1>1, <1>2 DEF QueuesTagged
<1>4. CASE AnnotateStart(t)
  <2>1. PICK e, v :
          call' = [call EXCEPT ![t] =
                     [Idle EXCEPT !.op = "annotate", !.pc = "annotate_wal",
                                  !.entry = e, !.verdict = v]]
    BY <1>4 DEF AnnotateStart
  <2> DEFINE c == [Idle EXCEPT !.op = "annotate", !.pc = "annotate_wal", !.entry = e,
                               !.verdict = v]
  <2>2. c.pc = "annotate_wal" /\ c.batch = {}
    BY DEF Idle
  <2> HIDE DEF c
  <2>3. CallTagged(c, G)
    BY <2>2 DEF CallTagged, KeySteps, HandSteps
  <2>4. CallsTagged(G)'
    BY <1>1, <2>1, <2>3, CallsTaggedAfter DEF c
  <2> QED BY <1>1, <1>2, <1>3, <1>4, <2>4 DEF AnnotateStart, Tagged, MapsTagged
<1>5. CASE AnnotateAppend(t)
  <2>1. (Goto(t, "annotate_set") \/ Return(t)) /\ UNCHANGED dlq
    BY <1>5 DEF AnnotateAppend
  <2>2. CallsTagged(G)'
    BY <1>1, <2>1, CallsTaggedKept DEF KeySteps, HandSteps
  <2> QED BY <1>1, <1>2, <1>3, <2>1, <2>2 DEF Tagged, MapsTagged
<1>6. CASE AnnotateSet(t)
  <2>1. Return(t) /\ dlq' = Annotated(dlq, call[t].entry.id, call[t].verdict)
    BY <1>6 DEF AnnotateSet
  <2>2. CallsTagged(G)'
    BY <1>1, <2>1, CallsTaggedKept
  <2>3. \A id \in Ids : dlq'[id] # None =>
          dlq[id] # None /\ dlq'[id].entry = dlq[id].entry
    BY <1>1, <2>1, AnnotatedCheckpoint
  <2> QED BY <1>1, <1>2, <1>3, <2>2, <2>3 DEF Tagged, MapsTagged
<1>7. CASE TakeDeadLetter(t)
  <2>1. PICK id \in Ids, o \in {"reprocess", "purge"} :
          /\ dlq[id] # None
          /\ dlq' = [dlq EXCEPT ![id] = None]
          /\ call' = [call EXCEPT ![t] = [Idle EXCEPT !.op = o, !.pc = "take_wal",
                                                      !.entry = dlq[id].entry]]
    BY <1>7 DEF TakeDeadLetter
  <2> DEFINE c == [Idle EXCEPT !.op = o, !.pc = "take_wal", !.entry = dlq[id].entry]
  <2>2. c.pc = "take_wal" /\ c.entry = dlq[id].entry /\ c.batch = {}
    BY DEF Idle
  <2>3. Tag(dlq[id].entry) \in G
    BY <1>1, <2>1 DEF MapsTagged
  <2> HIDE DEF c
  <2>4. CallTagged(c, G)
    BY <2>2, <2>3 DEF CallTagged
  <2>5. CallsTagged(G)'
    BY <1>1, <2>1, <2>4, CallsTaggedAfter DEF c
  <2> QED BY <1>1, <1>2, <1>3, <2>1, <2>5 DEF Tagged, MapsTagged
<1>8. CASE TakeAppend(t)
  <2> DEFINE d == [call[t] EXCEPT !.pc = "purge_release"]
             e == NewEntry(call[t].entry.id, call[t].entry.key)
             f == [call[t] EXCEPT !.pc = "enqueue_wal", !.entry = e]
  <2>1. \/ Return(t) \/ call' = [call EXCEPT ![t] = d] \/ call' = [call EXCEPT ![t] = f]
    BY <1>8 DEF TakeAppend
  <2>2. Tag(call[t].entry) \in G
    BY <1>1, <1>8 DEF TakeAppend, At, CallTagged, KeySteps, HandSteps
  <2>3. Tag(e) = Tag(call[t].entry)
    BY DEF NewEntry, Tag
  <2> HIDE DEF e
  <2>4. call[t] \in Locals
    BY <1>1 DEF Call
  <2>5. /\ d.pc = "purge_release" /\ d.entry = call[t].entry /\ d.batch = call[t].batch
        /\ f.pc = "enqueue_wal" /\ f.entry = e /\ f.batch = call[t].batch
    BY <2>4 DEF Locals
  <2> HIDE DEF d, f
  <2>6. CallTagged(d, G) /\ CallTagged(f, G)
    BY <1>1, <2>2, <2>3, <2>5 DEF CallTagged
  <2>7. CallsTagged(G)'
    BY <1>1, <2>1, <2>6, CallsTaggedAfter, CallsTaggedKept
  <2> QED BY <1>1, <1>2, <1>3, <1>8, <2>7 DEF TakeAppend, Tagged, MapsTagged
<1>9. CASE PurgeRelease(t)
  <2>1. UNCHANGED dlq /\ Return(t)
    BY <1>9 DEF PurgeRelease
  <2> QED BY <1>1, <1>2, <1>3, <2>1, CallsTaggedKept DEF Tagged, MapsTagged
<1> QED BY <1>4, <1>5, <1>6, <1>7, <1>8, <1>9 DEF Triage

\* The passage of time does.
LEMMA TimeTagged ==
    ASSUME HomeInv, NEW G, Tagged(G), BackoffElapses \/ \E id \in Ids : VisibilityTimeout(id)
    PROVE  Tagged(G)'
<1> USE DEF vars, memVars, walVars, cpVars, auxVars
<1>1. /\ UNCHANGED <<pending, dlq, call>>
      /\ leased \in [Ids -> Lease \cup {None}] /\ delayed \in Seq(Delayed)
  BY DEF HomeInv, TypeOK, BackoffElapses, VisibilityTimeout
<1>2. CallsTagged(G)'
  BY <1>1 DEF Tagged, CallsTagged
<1>3. ASSUME NEW id \in Ids, VisibilityTimeout(id) PROVE Tagged(G)'
  <2>0. leased[id] \in Lease /\ UNCHANGED delayed
    BY <1>1, <1>3 DEF VisibilityTimeout
  <2>1. [leased[id] EXCEPT !.expired = TRUE].entry = leased[id].entry
    BY <2>0 DEF Lease
  <2>2. \A i \in Ids : leased'[i] # None =>
          leased[i] # None /\ leased'[i].entry = leased[i].entry
    BY <1>1, <1>3, <2>0, <2>1 DEF VisibilityTimeout
  <2> QED BY <1>1, <1>2, <2>0, <2>2 DEF Tagged, QueuesTagged, MapsTagged
<1>4. ASSUME BackoffElapses PROVE Tagged(G)'
  <2>1. PICK i \in DOMAIN delayed : delayed' = [delayed EXCEPT ![i].ready = TRUE]
    BY <1>4 DEF BackoffElapses
  <2>2. [delayed[i] EXCEPT !.ready = TRUE].entry = delayed[i].entry
    BY <1>1, <2>1 DEF Delayed
  <2>3. \A k \in DOMAIN delayed' :
          k \in DOMAIN delayed /\ delayed'[k].entry = delayed[k].entry
    BY <1>1, <2>1, <2>2
  <2>4. UNCHANGED leased
    BY <1>4 DEF BackoffElapses
  <2> QED BY <1>1, <1>2, <2>3, <2>4 DEF Tagged, QueuesTagged, MapsTagged
<1> QED BY <1>3, <1>4


\* The pairs that a dedup map names: a message is bound to its key if it has one,
\* and to no other.
Named(d) == {g \in Ids \X (Keys \cup {None}) : \A k \in Keys : d[k] = g[1] <=> k = g[2]}

\* The pairs of the other messages.
Except(G, m) == {g \in G : g[1] # m}

BoundTo(id) == \E k \in Keys : dedup[k] = id

\* The calls about to release the message's key, and those that are enqueueing it
\* for its producer.
Releasing(id) == HandAt("enqueue_undo", id) \cup HandAt("purge_release", id)
Flies(c, id) == /\ c.op = "enqueue" /\ c.pc \in {"enqueue_wal", "enqueue_push"}
                /\ c.entry.id = id
InFlight(id) == {t \in Tasks : Flies(call[t], id)}

\* A key is bound only to a message that the group still has, or that one call,
\* and only one, is about to release.
KeyOf(id) ==
    /\ Acking(id) # {} => ~BoundTo(id)
    /\ BoundTo(id) => \/ fate[id] \in {"inflight", "accepted"}
                      \/ id \in stranded
                      \/ Releasing(id) # {}
    /\ fate[id] = "inflight" => InFlight(id) # {}
    /\ \A t, u \in Releasing(id) : t = u
    /\ HandAt("enqueue_undo", id) # {} => id \in stranded \/ fate[id] \in {"failed", "dropped"}

KeyInv == Tagged(Named(dedup)) /\ \A id \in Ids : KeyOf(id)

\* It is kept until a restart rebuilds the map from the two logs.
EarlyKeys == epoch = 0 => KeyInv /\ truncated = {}

\* Nothing that the process keeps is this message.
Absent(id) ==
    /\ AtPending(id) = {} /\ AtDelayed(id) = {} /\ leased[id] = None /\ dlq[id] = None
    /\ InBatch(id) = {} /\ HandAt("enqueue_wal", id) = {} /\ HandAt("enqueue_push", id) = {}
    /\ HandAt("take_wal", id) = {} /\ HandAt("dlq_insert", id) = {} /\ Releasing(id) = {}

LEMMA NamedPairs ==
    /\ \A d : \A g \in Named(d) : \E id \in Ids, key \in Keys \cup {None} : g = <<id, key>>
    /\ \A d : \A id \in Ids, key \in Keys \cup {None} :
         <<id, key>> \in Named(d) <=> \A k \in Keys : d[k] = id <=> k = key
BY DEF Named

\* The pairs of an absent message are not needed.
LEMMA AbsentTagged ==
    \A G : \A m \in Ids : Keyed /\ Tagged(G) /\ Absent(m) => Tagged(Except(G, m))
<1> SUFFICES ASSUME NEW G, NEW m \in Ids, Keyed, Tagged(G), Absent(m)
             PROVE  Tagged(Except(G, m))
  OBVIOUS
<1>1. QueuesTagged(Except(G, m))
  BY DEF Tagged, QueuesTagged, Absent, AtPending, AtDelayed, Except, Tag
<1>2. MapsTagged(Except(G, m))
  BY DEF Tagged, MapsTagged, Absent, Keyed, Except, Tag
<1>3. ASSUME NEW t \in Tasks PROVE CallTagged(call[t], Except(G, m))
  <2>1. call[t].pc \in KeySteps => call[t].entry.id # m
    BY DEF Absent, HandAt, Releasing, KeySteps, HandSteps
  <2>2. \A e \in call[t].batch : e.id # m
    BY DEF Absent, InBatch
  <2> QED BY <2>1, <2>2 DEF Tagged, CallsTagged, CallTagged, Except, Tag
<1> QED BY <1>1, <1>2, <1>3 DEF Tagged, CallsTagged

LEMMA AbsentTaggedAfter ==
    (\A G : \A m \in Ids : Keyed /\ Tagged(G) /\ Absent(m) => Tagged(Except(G, m)))'
BY AbsentTagged, PTL

\* More pairs cover as much.
LEMMA MorePairs ==
    \A G : \A H : Tagged(G) /\ G \subseteq H => Tagged(H)
BY DEF Tagged, QueuesTagged, MapsTagged, CallsTagged, CallTagged

LEMMA MorePairsAfter ==
    (\A G : \A H : Tagged(G) /\ G \subseteq H => Tagged(H))'
BY MorePairs, PTL


\* Releasing a message's key unbinds the message and no other.
LEMMA ReleaseNames ==
    ASSUME NEW d \in [Keys -> Ids \cup {None}], NEW m \in Ids, NEW key \in Keys \cup {None},
           <<m, key>> \in Named(d)
    PROVE  /\ Except(Named(d), m) \subseteq Named(Release(d, key))
           /\ \A k \in Keys : Release(d, key)[k] # m
           /\ \A k \in Keys : Release(d, key)[k] \in {d[k], None}
<1>1. \A k \in Keys : Release(d, key)[k] = IF k = key THEN None ELSE d[k]
  BY DEF Release, Bind
<1>2. \A k \in Keys : d[k] = m <=> k = key
  BY NamedPairs
<1>3. ASSUME NEW id \in Ids, NEW other \in Keys \cup {None}, <<id, other>> \in Named(d), id # m
      PROVE  <<id, other>> \in Named(Release(d, key))
  <2>1. \A k \in Keys : d[k] = id <=> k = other
    BY <1>3, NamedPairs
  <2>2. \A k \in Keys : Release(d, key)[k] = id <=> k = other
    BY <1>1, <1>2, <1>3, <2>1, NoneAssumption
  <2> QED BY <2>2, NamedPairs
<1>4. Except(Named(d), m) \subseteq Named(Release(d, key))
  <2> SUFFICES ASSUME NEW g \in Named(d), g[1] # m PROVE g \in Named(Release(d, key))
    BY DEF Except
  <2>1. PICK id \in Ids, other \in Keys \cup {None} : g = <<id, other>>
    BY NamedPairs
  <2> QED BY <1>3, <2>1
<1>5. \A k \in Keys : Release(d, key)[k] # m
  BY <1>1, <1>2, NoneAssumption
<1> QED BY <1>1, <1>4, <1>5

\* Binding a free key to a message that no key is bound to keeps the others' pairs.
LEMMA BindNames ==
    ASSUME NEW d \in [Keys -> Ids \cup {None}], NEW m \in Ids, NEW key \in Keys \cup {None},
           key # None => d[key] = None, \A k \in Keys : d[k] # m
    PROVE  /\ Except(Named(d), m) \cup {<<m, key>>} \subseteq Named(Bind(d, key, m))
           /\ \A k \in Keys : Bind(d, key, m)[k] \in {d[k], m}
<1>1. \A k \in Keys : Bind(d, key, m)[k] = IF k = key THEN m ELSE d[k]
  BY DEF Bind
<1>2. <<m, key>> \in Named(Bind(d, key, m))
  <2>1. \A k \in Keys : Bind(d, key, m)[k] = m <=> k = key
    BY <1>1
  <2> QED BY <2>1, NamedPairs
<1>3. ASSUME NEW id \in Ids, NEW other \in Keys \cup {None}, <<id, other>> \in Named(d), id # m
      PROVE  <<id, other>> \in Named(Bind(d, key, m))
  <2>1. \A k \in Keys : d[k] = id <=> k = other
    BY <1>3, NamedPairs
  <2>2. \A k \in Keys : k = key => d[k] = None
    BY NoneAssumption
  <2>3. \A k \in Keys : Bind(d, key, m)[k] = id <=> k = other
    BY <1>1, <1>3, <2>1, <2>2, NoneAssumption
  <2> QED BY <2>3, NamedPairs
<1>4. ASSUME NEW g \in Named(d), g[1] # m PROVE g \in Named(Bind(d, key, m))
  <2>1. PICK id \in Ids, other \in Keys \cup {None} : g = <<id, other>>
    BY NamedPairs
  <2> QED BY <1>3, <1>4, <2>1
<1> QED BY <1>1, <1>2, <1>4 DEF Except

\* A message whose key is about to be released is nowhere else.
LEMMA ReleasingAlone ==
    ASSUME HomeInv, KeyInv, epoch = 0, NEW id \in Ids, Releasing(id) # {}
    PROVE  /\ AtPending(id) = {} /\ AtDelayed(id) = {} /\ leased[id] = None
           /\ dlq[id] = None /\ Holders(id) = {}
<1>1. Sole(id) /\ FateAgrees(id)
  BY DEF HomeInv, Cut, HomeOf
<1>2. KeyOf(id)
  BY DEF KeyInv
<1>3. Gone(id) \/ id \in stranded
  BY <1>1, <1>2 DEF KeyOf, Releasing, FateAgrees, Gone, Over
<1> QED BY <1>1, <1>3 DEF Sole, FateAgrees

\* No key is bound to a message that has yet to exist.
LEMMA UnusedUnbound ==
    ASSUME HomeInv, KeyInv, epoch = 0, NEW id \in Ids, fate[id] = "unused"
    PROVE  ~BoundTo(id) /\ Absent(id) /\ Acking(id) = {}
<1>1. FateAgrees(id) /\ KeyOf(id)
  BY DEF HomeInv, Cut, HomeOf, KeyInv
<1>2. Gone(id) /\ id \notin stranded
  BY <1>1 DEF Gone, FateAgrees
<1>3. Releasing(id) = {}
  BY <1>1, <1>2 DEF KeyOf, FateAgrees, Releasing
<1> QED BY <1>1, <1>2, <1>3 DEF KeyOf, FateAgrees, Absent, Holders

\* The part of call t in what is known of a message's key.
KeyRoles(c, d, id) ==
    /\ AckHas(c, id) <=> AckHas(d, id)
    /\ HandHas(c, "enqueue_undo", id) <=> HandHas(d, "enqueue_undo", id)
    /\ HandHas(c, "purge_release", id) <=> HandHas(d, "purge_release", id)
    /\ Flies(c, id) <=> Flies(d, id)

LEMMA InFlightAfter ==
    ASSUME call \in [Tasks -> Call], NEW t \in Tasks, NEW c,
           call' = [call EXCEPT ![t] = c], NEW id
    PROVE  InFlight(id)' = (InFlight(id) \ {t}) \cup (IF Flies(c, id) THEN {t} ELSE {})
<1>1. \A u \in Tasks : call'[u] = IF u = t THEN c ELSE call[u]
  OBVIOUS
<1>2. \A u \in Tasks : Flies(call'[u], id) <=> IF u = t THEN Flies(c, id) ELSE Flies(call[u], id)
  BY <1>1
<1>3. InFlight(id)' = {u \in Tasks : Flies(call'[u], id)}
  BY DEF InFlight, Flies
<1> QED BY <1>2, <1>3 DEF InFlight

\* A step after which call t has of the message what it had, and that neither
\* binds a key to the message nor changes its fate.
LEMMA KeyKept ==
    ASSUME call \in [Tasks -> Call], NEW t \in Tasks, NEW c,
           call' = [call EXCEPT ![t] = c], NEW id, KeyOf(id), KeyRoles(call[t], c, id),
           BoundTo(id)' => BoundTo(id), fate'[id] = fate[id], stranded \subseteq stranded'
    PROVE  KeyOf(id)'
<1>1. Acking(id)' = Acking(id)
  BY RolesAfter DEF KeyRoles, AckHas, Acking
<1>2. /\ HandAt("enqueue_undo", id)' = HandAt("enqueue_undo", id)
      /\ HandAt("purge_release", id)' = HandAt("purge_release", id)
  BY RolesAfter DEF KeyRoles, HandHas, HandAt
<1>3. InFlight(id)' = InFlight(id)
  BY InFlightAfter DEF KeyRoles, InFlight
<1>4. Releasing(id)' = Releasing(id)
  BY <1>2 DEF Releasing
<1> QED BY <1>1, <1>2, <1>3, <1>4 DEF KeyOf

\* The steps at which a call's locals matter to a key.
RoleSteps == {"ack_wal", "enqueue_undo", "purge_release", "enqueue_wal", "enqueue_push"}

\* A step that leaves the dedup map alone and in which no call starts or ends at
\* one of those.
LEMMA PlainKeys ==
    ASSUME KeyInv, call \in [Tasks -> Call], NEW t \in Tasks, NEW c,
           call' = [call EXCEPT ![t] = c],
           call[t].pc \notin RoleSteps, c.pc \notin RoleSteps,
           UNCHANGED <<dedup, fate>>, stranded \subseteq stranded',
           \A G : Tagged(G) => Tagged(G)'
    PROVE  KeyInv'
<1>1. \A id : KeyRoles(call[t], c, id)
  BY DEF KeyRoles, AckHas, HandHas, Flies, RoleSteps
<1>2. \A id : BoundTo(id)' => BoundTo(id)
  BY DEF BoundTo
<1>3. \A id \in Ids : KeyOf(id)'
  BY <1>1, <1>2, KeyKept DEF KeyInv
<1>4. Tagged(Named(dedup))'
  <2>1. PICK G : G = Named(dedup)
    OBVIOUS
  <2>2. Tagged(G)'
    BY <2>1 DEF KeyInv
  <2> QED BY <2>1, <2>2
<1> QED BY <1>3, <1>4 DEF KeyInv


\* Call t moves to a step where it has no say in any key.
Lands(t) == \E c : call' = [call EXCEPT ![t] = c] /\ c.pc \notin RoleSteps

LEMMA PlainMoves ==
    ASSUME call \in [Tasks -> Call], NEW t \in Tasks
    PROVE  /\ Return(t) => Lands(t)
           /\ \A pc : pc \notin RoleSteps /\ Goto(t, pc) => Lands(t)
           /\ \A rest : Resolved(t, rest) => Lands(t)
<1>1. call[t] \in Locals
  BY DEF Call
<1>2. Return(t) => Lands(t)
  <2>1. Idle.pc \notin RoleSteps
    BY DEF Idle, RoleSteps
  <2> QED BY <2>1 DEF Return, Lands
<1>3. ASSUME NEW pc, pc \notin RoleSteps, Goto(t, pc) PROVE Lands(t)
  <2>1. call' = [call EXCEPT ![t] = [call[t] EXCEPT !.pc = pc]]
    BY <1>3 DEF Goto
  <2>2. [call[t] EXCEPT !.pc = pc].pc = pc
    BY <1>1 DEF Locals
  <2> QED BY <1>3, <2>1, <2>2 DEF Lands
<1>4. ASSUME NEW rest, Resolved(t, rest) PROVE Lands(t)
  <2> DEFINE c == [call[t] EXCEPT !.pc = "resolve", !.entry = None, !.batch = rest]
             d == [Idle EXCEPT !.op = "claim", !.pc = "pop"]
  <2>1. \/ call' = [call EXCEPT ![t] = c] \/ call' = [call EXCEPT ![t] = d]
        \/ call' = [call EXCEPT ![t] = Idle]
    BY <1>4 DEF Resolved
  <2>2. c.pc = "resolve" /\ d.pc = "pop" /\ Idle.pc = "idle"
    BY <1>1 DEF Locals, Idle
  <2> HIDE DEF c, d
  <2> QED BY <2>1, <2>2 DEF Lands, RoleSteps
<1> QED BY <1>2, <1>3, <1>4

\* The steps of claim, nack and resolve_failed_delivery leave every key as it is.
LEMMA ClaimKeys ==
    ASSUME HomeInv, KeyInv, NEW t \in Tasks, Claim(t) \/ NackRelease(t) \/ Resolve(t)
    PROVE  KeyInv'
<1> USE DEF vars, memVars, walVars, cpVars, auxVars
<1>1. /\ call \in [Tasks -> Call] /\ KeyedCall(call[t])
  BY DEF HomeInv, TypeOK, Keyed
<1>2. \A G : Tagged(G) => Tagged(G)'
  BY ClaimTagged, SettleTagged, ResolveTagged DEF Settle
<1>3. UNCHANGED <<dedup, fate>> /\ stranded \subseteq stranded'
  BY DEF Claim, ReclaimExpired, PopPending, CancelClaim, NackRelease, Resolve, RetryLater,
     RecordDeadLetter, InsertDeadLetter, AppendDeadLettered
<1>4. call[t].pc \notin RoleSteps
  <2>1. call[t].op = "claim" => call[t].pc \notin RoleSteps
    BY <1>1 DEF KeyedCall, RoleSteps
  <2> QED BY <2>1 DEF Claim, ReclaimExpired, PopPending, CancelClaim, NackRelease, Resolve,
             RetryLater, RecordDeadLetter, InsertDeadLetter, AppendDeadLettered, Starts, At,
             RoleSteps
<1>5. Lands(t)
  <2>1. CASE ReclaimExpired(t)
    <3> DEFINE b == {leased[id].entry : id \in Expired}
    <3>1. PICK pc \in {"pop", "resolve"} :
            call' = [call EXCEPT ![t] = [Idle EXCEPT !.op = "claim", !.pc = pc, !.batch = b]]
      BY <2>1 DEF ReclaimExpired
    <3> HIDE DEF b
    <3>2. [Idle EXCEPT !.op = "claim", !.pc = pc, !.batch = b].pc \notin RoleSteps
      BY <3>1 DEF Idle, RoleSteps
    <3> QED BY <3>1, <3>2 DEF Lands
  <2>2. CASE PopPending(t)
    <3>1. Return(t) \/ Goto(t, "blocked")
      BY <2>2 DEF PopPending
    <3> QED BY <1>1, <3>1, PlainMoves DEF RoleSteps
  <2>3. CASE NackRelease(t)
    <3>1. PICK g, b : call' = [call EXCEPT ![t] = [Idle EXCEPT !.op = "nack", !.pc = "resolve",
                                                               !.grant = g, !.batch = b]]
      BY <2>3 DEF NackRelease
    <3>2. [Idle EXCEPT !.op = "nack", !.pc = "resolve", !.grant = g, !.batch = b].pc
             \notin RoleSteps
      BY DEF Idle, RoleSteps
    <3> QED BY <3>1, <3>2 DEF Lands
  <2>4. CASE RecordDeadLetter(t)
    <3>1. PICK e, b : \/ Resolved(t, b)
                      \/ call' = [call EXCEPT ![t].pc = "dlq_insert", ![t].entry = e,
                                              ![t].batch = @ \ {e}]
      BY <2>4 DEF RecordDeadLetter
    <3> DEFINE c == [call[t] EXCEPT !.pc = "dlq_insert", !.entry = e, !.batch = @ \ {e}]
    <3>2. Resolved(t, b) \/ call' = [call EXCEPT ![t] = c]
      BY <1>1, <3>1
    <3>3. call[t] \in Locals
      BY <1>1 DEF Call
    <3>4. c.pc \notin RoleSteps
      BY <3>3 DEF Locals, RoleSteps
    <3> HIDE DEF c
    <3> QED BY <1>1, <3>2, <3>4, PlainMoves DEF Lands
  <2>5. CASE CancelClaim(t) \/ RetryLater(t) \/ InsertDeadLetter(t) \/ AppendDeadLettered(t)
    <3>1. Return(t) \/ Goto(t, "dead_lettered") \/ \E rest : Resolved(t, rest)
      BY <2>5 DEF CancelClaim, RetryLater, InsertDeadLetter, AppendDeadLettered
    <3> QED BY <1>1, <3>1, PlainMoves DEF RoleSteps
  <2> QED BY <2>1, <2>2, <2>3, <2>4, <2>5 DEF Claim, Resolve
<1> QED BY <1>1, <1>2, <1>3, <1>4, <1>5, PlainKeys DEF Lands

\* So do the steps of checkpoint and annotate, and the first of purge and reprocess.
LEMMA TriageKeys ==
    ASSUME HomeInv, KeyInv, NEW t \in Tasks,
           Checkpoint(t) \/ (Triage(t) /\ ~TakeAppend(t) /\ ~PurgeRelease(t))
    PROVE  KeyInv'
<1> USE DEF vars, memVars, walVars, cpVars, auxVars
<1>1. call \in [Tasks -> Call]
  BY DEF HomeInv, TypeOK
<1>2. \A G : Tagged(G) => Tagged(G)'
  BY CheckpointTagged, TriageTagged
<1>3. UNCHANGED <<dedup, fate, stranded>>
  BY DEF Checkpoint, CheckpointStart, CheckpointAppend, CheckpointSet, Triage, AnnotateStart,
     AnnotateAppend, AnnotateSet, TakeDeadLetter
<1>4. call[t].pc \notin RoleSteps
  BY DEF Checkpoint, CheckpointStart, CheckpointAppend, CheckpointSet, Triage, AnnotateStart,
     AnnotateAppend, AnnotateSet, TakeDeadLetter, Starts, At, RoleSteps
<1>5. Lands(t)
  <2>1. CASE CheckpointStart(t)
    <3>1. PICK g, e : call' = [call EXCEPT ![t] =
                                 [Idle EXCEPT !.op = "checkpoint", !.pc = "checkpoint_wal",
                                              !.grant = g, !.entry = e]]
      BY <2>1 DEF CheckpointStart
    <3>2. [Idle EXCEPT !.op = "checkpoint", !.pc = "checkpoint_wal", !.grant = g,
                       !.entry = e].pc \notin RoleSteps
      BY DEF Idle, RoleSteps
    <3> QED BY <3>1, <3>2 DEF Lands
  <2>2. CASE AnnotateStart(t)
    <3>1. PICK e, v : call' = [call EXCEPT ![t] =
                                 [Idle EXCEPT !.op = "annotate", !.pc = "annotate_wal",
                                              !.entry = e, !.verdict = v]]
      BY <2>2 DEF AnnotateStart
    <3>2. [Idle EXCEPT !.op = "annotate", !.pc = "annotate_wal", !.entry = e,
                       !.verdict = v].pc \notin RoleSteps
      BY DEF Idle, RoleSteps
    <3> QED BY <3>1, <3>2 DEF Lands
  <2>3. CASE TakeDeadLetter(t)
    <3>1. PICK e, o : call' = [call EXCEPT ![t] =
                                 [Idle EXCEPT !.op = o, !.pc = "take_wal", !.entry = e]]
      BY <2>3 DEF TakeDeadLetter
    <3>2. [Idle EXCEPT !.op = o, !.pc = "take_wal", !.entry = e].pc \notin RoleSteps
      BY DEF Idle, RoleSteps
    <3> QED BY <3>1, <3>2 DEF Lands
  <2>4. CASE CheckpointAppend(t) \/ CheckpointSet(t) \/ AnnotateAppend(t) \/ AnnotateSet(t)
    <3>1. Return(t) \/ Goto(t, "checkpoint_set") \/ Goto(t, "annotate_set")
      BY <2>4 DEF CheckpointAppend, CheckpointSet, AnnotateAppend, AnnotateSet
    <3> QED BY <1>1, <3>1, PlainMoves DEF RoleSteps
  <2> QED BY <2>1, <2>2, <2>3, <2>4 DEF Checkpoint, Triage
<1> QED BY <1>1, <1>2, <1>3, <1>4, <1>5, PlainKeys DEF Lands

\* A step that moves no call, binds no key and changes no fate.
LEMMA StillKeys ==
    ASSUME KeyInv, UNCHANGED <<dedup, fate, stranded, call>>, \A G : Tagged(G) => Tagged(G)'
    PROVE  KeyInv'
<1>1. Tagged(Named(dedup))'
  <2>1. PICK G : G = Named(dedup)
    OBVIOUS
  <2>2. Tagged(G)'
    BY <2>1 DEF KeyInv
  <2> QED BY <2>1, <2>2
<1>2. ASSUME NEW id \in Ids PROVE KeyOf(id)'
  <2>1. /\ Acking(id)' = Acking(id) /\ InFlight(id)' = InFlight(id)
        /\ \A pc : HandAt(pc, id)' = HandAt(pc, id)
        /\ BoundTo(id)' <=> BoundTo(id)
    BY DEF Acking, InFlight, Flies, HandAt, BoundTo
  <2> QED BY <2>1 DEF KeyInv, KeyOf, Releasing
<1> QED BY <1>1, <1>2 DEF KeyInv


\* The steps that bind a key, release one or settle the fate of a message concern
\* that message alone.
Concerns(c, m) == /\ c.pc = "ack_wal" => c.grant.id = m
                  /\ c.pc \in RoleSteps \ {"ack_wal"} => c.entry.id = m

LEMMA OtherKeys ==
    ASSUME KeyInv, call \in [Tasks -> Call], NEW t \in Tasks, NEW c, NEW m,
           call' = [call EXCEPT ![t] = c], Concerns(call[t], m), Concerns(c, m),
           stranded \subseteq stranded',
           \A id \in Ids \ {m} : fate'[id] = fate[id] /\ (BoundTo(id)' => BoundTo(id))
    PROVE  \A id \in Ids \ {m} : KeyOf(id)'
<1> SUFFICES ASSUME NEW id \in Ids \ {m} PROVE KeyOf(id)'
  OBVIOUS
<1>1. KeyRoles(call[t], c, id)
  BY DEF Concerns, KeyRoles, AckHas, HandHas, Flies, RoleSteps
<1> QED BY <1>1, KeyKept DEF KeyInv

\* What the step of call t makes of the roles.
LEMMA KeyRolesAfter ==
    ASSUME call \in [Tasks -> Call], NEW t \in Tasks, NEW c,
           call' = [call EXCEPT ![t] = c], NEW id
    PROVE  /\ Acking(id)' = (Acking(id) \ {t}) \cup (IF AckHas(c, id) THEN {t} ELSE {})
           /\ HandAt("enqueue_undo", id)' =
                (HandAt("enqueue_undo", id) \ {t})
                \cup (IF HandHas(c, "enqueue_undo", id) THEN {t} ELSE {})
           /\ HandAt("purge_release", id)' =
                (HandAt("purge_release", id) \ {t})
                \cup (IF HandHas(c, "purge_release", id) THEN {t} ELSE {})
           /\ InFlight(id)' = (InFlight(id) \ {t}) \cup (IF Flies(c, id) THEN {t} ELSE {})
<1>1. Acking(id)' = (Acking(id) \ {t}) \cup (IF AckHas(c, id) THEN {t} ELSE {})
  BY RolesAfter
<1>2. \A pc : HandAt(pc, id)' = (HandAt(pc, id) \ {t})
                                \cup (IF HandHas(c, pc, id) THEN {t} ELSE {})
  BY RolesAfter
<1>3. InFlight(id)' = (InFlight(id) \ {t}) \cup (IF Flies(c, id) THEN {t} ELSE {})
  BY InFlightAfter
<1> QED BY <1>1, <1>2, <1>3

\* enqueue binds the key to a message that nothing knows of yet.
LEMMA EnqueueReserveKeys ==
    ASSUME HomeInv, KeyInv, epoch = 0, NEW t \in Tasks, EnqueueReserve(t) PROVE KeyInv'
<1> USE DEF vars, memVars, walVars, cpVars, auxVars
<1>1. /\ call \in [Tasks -> Call] /\ dedup \in [Keys -> Ids \cup {None}]
      /\ fate \in [Ids -> Fates]
  BY DEF HomeInv, TypeOK
<1>2. PICK m \in Ids, key \in Keys \cup {None} :
        /\ fate[m] = "unused"
        /\ key # None => dedup[key] = None
        /\ dedup' = Bind(dedup, key, m)
        /\ fate' = [fate EXCEPT ![m] = "inflight"]
        /\ call' = [call EXCEPT ![t] = [Idle EXCEPT !.op = "enqueue", !.pc = "enqueue_wal",
                                                    !.entry = NewEntry(m, key)]]
  BY DEF EnqueueReserve
<1> DEFINE c == [Idle EXCEPT !.op = "enqueue", !.pc = "enqueue_wal",
                             !.entry = NewEntry(m, key)]
<1>3. /\ c.op = "enqueue" /\ c.pc = "enqueue_wal" /\ c.entry.id = m
      /\ call' = [call EXCEPT ![t] = c]
  BY <1>2 DEF Idle, NewEntry
<1> HIDE DEF c
<1>4. ~BoundTo(m) /\ Absent(m) /\ Acking(m) = {}
  BY <1>2, UnusedUnbound
<1>5. /\ Except(Named(dedup), m) \cup {<<m, key>>} \subseteq Named(dedup')
      /\ \A k \in Keys : dedup'[k] \in {dedup[k], m}
  BY <1>1, <1>2, <1>4, BindNames DEF BoundTo
<1>6. Tagged(Named(dedup))'
  <2>1. Tagged(Except(Named(dedup), m))
    BY <1>4, AbsentTagged DEF KeyInv, HomeInv
  <2>2. Tagged(Except(Named(dedup), m) \cup {<<m, key>>})
    BY <2>1, MorePairs
  <2>3. PICK G : G = Except(Named(dedup), m) \cup {<<m, key>>}
    OBVIOUS
  <2>4. Tagged(G) /\ <<m, key>> \in G
    BY <2>2, <2>3
  <2>5. UNCHANGED <<pending, delayed, leased, dlq>>
    BY DEF EnqueueReserve
  <2>6. Tagged(G)'
    BY <1>2, <2>4, <2>5, ReserveTagged
  <2>7. PICK H : H = Named(dedup')
    OBVIOUS
  <2>8. Tagged(H)'
    BY <1>5, <2>3, <2>6, <2>7, MorePairsAfter
  <2> QED BY <2>7, <2>8
<1>7. \A id \in Ids \ {m} : KeyOf(id)'
  <2>1. Concerns(call[t], m) /\ Concerns(c, m)
    BY <1>3 DEF EnqueueReserve, Starts, Concerns, RoleSteps
  <2>2. \A id \in Ids \ {m} : fate'[id] = fate[id] /\ (BoundTo(id)' => BoundTo(id))
    BY <1>1, <1>2, <1>5 DEF BoundTo
  <2>3. UNCHANGED stranded
    BY DEF EnqueueReserve
  <2> QED BY <1>1, <1>3, <2>1, <2>2, <2>3, OtherKeys
<1>8. KeyOf(m)'
  <2>0. /\ ~AckHas(c, m) /\ ~HandHas(c, "enqueue_undo", m)
        /\ ~HandHas(c, "purge_release", m) /\ Flies(c, m)
    BY <1>3 DEF AckHas, HandHas, Flies
  <2>1. Acking(m)' = {} /\ HandAt("enqueue_undo", m)' = {} /\ HandAt("purge_release", m)' = {}
    BY <1>1, <1>3, <1>4, <2>0, KeyRolesAfter DEF Absent, Releasing
  <2>2. InFlight(m)' # {}
    <3>1. InFlight(m)' = (InFlight(m) \ {t}) \cup {t}
      BY <1>1, <1>3, <2>0, KeyRolesAfter
    <3> QED BY <3>1
  <2>3. fate'[m] = "inflight"
    BY <1>1, <1>2
  <2> QED BY <2>1, <2>2, <2>3 DEF KeyOf, Releasing
<1> QED BY <1>6, <1>7, <1>8 DEF KeyInv

\* What a call holds of the message that it has in hand is all there is of it.
LEMMA InHandAlone ==
    ASSUME HomeInv, KeyInv, epoch = 0, NEW t \in Tasks, NEW m \in Ids, t \in Holders(m)
    PROVE  Releasing(m) = {} /\ \A u \in Tasks : u \in Holders(m) => u = t
<1>1. Sole(m)
  BY DEF HomeInv, Cut, HomeOf
<1>2. Releasing(m) = {}
  BY ReleasingAlone
<1> QED BY <1>1, <1>2 DEF Sole

\* A failed append of a new message leaves its key bound until the call releases it.
LEMMA WriteEnqueueKeys ==
    ASSUME HomeInv, KeyInv, epoch = 0, NEW t \in Tasks, WriteEnqueueRecord(t) PROVE KeyInv'
<1> USE DEF vars, memVars, walVars, cpVars, auxVars
<1>1. /\ call \in [Tasks -> Call] /\ fate \in [Ids -> Fates] /\ call[t] \in Locals
      /\ call[t].pc = "enqueue_wal" /\ call[t].entry \in Entry /\ UNCHANGED dedup
  BY CallType DEF HomeInv, TypeOK, WriteEnqueueRecord, At, EntrySteps, Call
<1>2. PICK m : m = call[t].entry.id
  OBVIOUS
<1>3. m \in Ids /\ t \in Holders(m)
  BY <1>1, <1>2 DEF Entry, Holders, HandAt
<1>4. PICK r \in AppendResult :
        /\ Goto(t, IF r.ok THEN "enqueue_push" ELSE "enqueue_undo")
        /\ fate' = [fate EXCEPT ![m] = IF r.ok THEN @
                                       ELSE IF call[t].op = "enqueue" THEN "failed"
                                       ELSE IF r.durable THEN @ ELSE "dropped"]
        /\ stranded' = IF r.durable /\ ~r.ok THEN stranded \cup {m} ELSE stranded
  BY <1>2 DEF WriteEnqueueRecord
<1> DEFINE c == [call[t] EXCEPT !.pc = IF r.ok THEN "enqueue_push" ELSE "enqueue_undo"]
<1>5. /\ call' = [call EXCEPT ![t] = c] /\ c.op = call[t].op /\ c.entry = call[t].entry
      /\ c.pc = IF r.ok THEN "enqueue_push" ELSE "enqueue_undo"
  BY <1>1, <1>4 DEF Goto, Locals
<1> HIDE DEF c
<1>6. Tagged(Named(dedup))'
  <2>1. PICK G : G = Named(dedup)
    OBVIOUS
  <2>2. ~EnqueueReserve(t)
    BY <1>1 DEF EnqueueReserve, Starts
  <2>3. Tagged(G)'
    BY <2>1, <2>2, EnqueueTagged DEF KeyInv, Enqueue
  <2> QED BY <1>1, <2>1, <2>3
<1>7. \A id : BoundTo(id)' => BoundTo(id)
  BY <1>1 DEF BoundTo
<1>8. \A id \in Ids \ {m} : KeyOf(id)'
  <2>1. Concerns(call[t], m) /\ Concerns(c, m)
    BY <1>1, <1>2, <1>5 DEF Concerns
  <2>2. \A id \in Ids \ {m} : fate'[id] = fate[id]
    BY <1>1, <1>4
  <2>3. stranded \subseteq stranded'
    BY <1>4
  <2> QED BY <1>1, <1>5, <1>7, <2>1, <2>2, <2>3, OtherKeys
<1>9. KeyOf(m)'
  <2>1. KeyOf(m) /\ Releasing(m) = {} /\ \A u \in Tasks : u \in Holders(m) => u = t
    BY <1>3, InHandAlone DEF KeyInv
  <2>2. CASE r.ok
    <3>1. KeyRoles(call[t], c, m)
      BY <1>1, <1>5, <2>2 DEF KeyRoles, AckHas, HandHas, Flies
    <3>2. fate'[m] = fate[m] /\ stranded' = stranded
      BY <1>1, <1>3, <1>4, <2>2
    <3> QED BY <1>1, <1>5, <1>7, <2>1, <3>1, <3>2, KeyKept
  <2>3. CASE ~r.ok
    <3>0. /\ ~AckHas(c, m) /\ HandHas(c, "enqueue_undo", m)
          /\ ~HandHas(c, "purge_release", m)
      BY <1>2, <1>5, <2>3 DEF AckHas, HandHas
    <3>1. HandAt("enqueue_undo", m)' = {t} /\ HandAt("purge_release", m)' = {}
      BY <1>1, <1>5, <2>1, <3>0, KeyRolesAfter DEF Releasing
    <3>2. Acking(m)' = {}
      <4>1. Acking(m) = {}
        BY <1>1, <2>1 DEF Holders, Acking
      <4> QED BY <1>1, <1>5, <3>0, <4>1, KeyRolesAfter
    <3>3. m \in stranded' \/ fate'[m] \in {"failed", "dropped"}
      BY <1>1, <1>3, <1>4, <2>3
    <3>4. fate'[m] # "inflight"
      <4>1. fate[m] = "inflight" => call[t].op = "enqueue"
        BY <2>1 DEF KeyOf, InFlight, Flies, Holders, HandAt
      <4> QED BY <1>1, <1>3, <1>4, <2>3, <4>1
    <3> QED BY <3>1, <3>2, <3>3, <3>4 DEF KeyOf, Releasing
  <2> QED BY <2>2, <2>3
<1> QED BY <1>6, <1>8, <1>9 DEF KeyInv


\* A message pushed to the queue keeps its key.
LEMMA PushPendingKeys ==
    ASSUME HomeInv, KeyInv, epoch = 0, NEW t \in Tasks, PushPending(t) PROVE KeyInv'
<1> USE DEF vars, memVars, walVars, cpVars, auxVars
<1>1. /\ call \in [Tasks -> Call] /\ fate \in [Ids -> Fates] /\ call[t].pc = "enqueue_push"
      /\ call[t].entry \in Entry /\ UNCHANGED <<dedup, stranded>>
      /\ call' = [call EXCEPT ![t] = Idle]
  BY CallType DEF HomeInv, TypeOK, PushPending, At, EntrySteps, Return
<1>2. PICK m : m = call[t].entry.id
  OBVIOUS
<1>3. m \in Ids /\ t \in Holders(m)
  BY <1>1, <1>2 DEF Entry, Holders, HandAt
<1>4. fate' = [fate EXCEPT ![m] = IF @ = "inflight" THEN "accepted" ELSE @]
  BY <1>2 DEF PushPending
<1>5. Tagged(Named(dedup))'
  <2>1. PICK G : G = Named(dedup)
    OBVIOUS
  <2>2. ~EnqueueReserve(t)
    BY <1>1 DEF EnqueueReserve, Starts
  <2>3. Tagged(G)'
    BY <2>1, <2>2, EnqueueTagged DEF KeyInv, Enqueue
  <2> QED BY <1>1, <2>1, <2>3
<1>6. \A id : BoundTo(id)' => BoundTo(id)
  BY <1>1 DEF BoundTo
<1>7. \A id \in Ids \ {m} : KeyOf(id)'
  <2>1. Concerns(call[t], m) /\ Concerns(Idle, m)
    BY <1>1, <1>2 DEF Concerns, Idle, RoleSteps
  <2>2. \A id \in Ids \ {m} : fate'[id] = fate[id]
    BY <1>1, <1>4
  <2> QED BY <1>1, <1>6, <2>1, <2>2, OtherKeys
<1>8. KeyOf(m)'
  <2>1. KeyOf(m) /\ Releasing(m) = {}
    BY <1>3, InHandAlone DEF KeyInv
  <2>2. /\ ~AckHas(Idle, m) /\ ~HandHas(Idle, "enqueue_undo", m)
        /\ ~HandHas(Idle, "purge_release", m)
    BY DEF AckHas, HandHas, Idle
  <2>3. HandAt("enqueue_undo", m)' = {} /\ HandAt("purge_release", m)' = {}
    BY <1>1, <2>1, <2>2, KeyRolesAfter DEF Releasing
  <2>4. Acking(m)' \subseteq Acking(m)
    <3>1. Acking(m)' = (Acking(m) \ {t}) \cup {}
      BY <1>1, <2>2, KeyRolesAfter
    <3> QED BY <3>1
  <2>5. fate'[m] # "inflight" /\ (fate[m] = "accepted" => fate'[m] = "accepted")
        /\ (fate[m] = "inflight" => fate'[m] = "accepted")
    BY <1>1, <1>3, <1>4
  <2> QED BY <1>1, <1>6, <2>1, <2>3, <2>4, <2>5 DEF KeyOf, Releasing
<1> QED BY <1>5, <1>7, <1>8 DEF KeyInv

\* After a release nothing that the process keeps needs the key: the message was
\* nowhere else.
LEMMA ReleasedTagged ==
    ASSUME HomeInv, KeyInv, Keyed', NEW m \in Ids, NEW key \in Keys \cup {None},
           <<m, key>> \in Named(dedup), dedup' = Release(dedup, key),
           \A G : Tagged(G) => Tagged(G)', Absent(m)'
    PROVE  /\ Tagged(Named(dedup))'
           /\ ~BoundTo(m)'
           /\ \A id \in Ids : BoundTo(id)' => BoundTo(id)
<1>1. /\ Except(Named(dedup), m) \subseteq Named(dedup')
      /\ \A k \in Keys : dedup'[k] # m
      /\ \A k \in Keys : dedup'[k] \in {dedup[k], None}
  <2>1. dedup \in [Keys -> Ids \cup {None}]
    BY DEF HomeInv, TypeOK
  <2> QED BY <2>1, ReleaseNames
<1>2. PICK G : G = Named(dedup)
  OBVIOUS
<1>3. Tagged(G)'
  BY <1>2 DEF KeyInv
<1>4. Tagged(Except(G, m))'
  BY <1>3, AbsentTaggedAfter
<1>5. PICK E, H : E = Except(G, m) /\ H = Named(dedup')
  OBVIOUS
<1>6. Tagged(E)' /\ E \subseteq H
  BY <1>1, <1>2, <1>4, <1>5
<1>7. Tagged(H)'
  BY <1>6, MorePairsAfter
<1>8. Tagged(Named(dedup))'
  BY <1>5, <1>7
<1>9. ~BoundTo(m)' /\ \A id \in Ids : BoundTo(id)' => BoundTo(id)
  BY <1>1, NoneAssumption DEF BoundTo
<1> QED BY <1>8, <1>9

\* A step in which call t, the only one about to release message m's key, releases
\* it, leaves nothing of the message.
LEMMA ReleaseLeavesNothing ==
    ASSUME HomeInv, KeyInv, epoch = 0, NEW t \in Tasks, NEW m \in Ids, t \in Releasing(m),
           UNCHANGED <<pending, delayed, leased, dlq>>, call' = [call EXCEPT ![t] = Idle]
    PROVE  /\ Absent(m)' /\ Acking(m)' = {}
           /\ InFlight(m)' = InFlight(m)
<1>1. call \in [Tasks -> Call] /\ KeyOf(m)
  BY DEF HomeInv, TypeOK, KeyInv
<1>2. /\ AtPending(m) = {} /\ AtDelayed(m) = {} /\ leased[m] = None
      /\ dlq[m] = None /\ Holders(m) = {}
  BY ReleasingAlone
<1>3. /\ HandsTold(Idle, t, m)'
      /\ ~AckHas(Idle, m) /\ ~BatchHas(Idle, m) /\ \A pc \in HomeSteps : ~HandHas(Idle, pc, m)
      /\ ~HandHas(Idle, "enqueue_undo", m) /\ ~HandHas(Idle, "purge_release", m)
      /\ ~Flies(Idle, m)
  <2>1. HandsTold(Idle, t, m)'
    BY <1>1, <1>2, OnlyHandAfter
  <2> QED BY <2>1 DEF AckHas, BatchHas, HandHas, Flies, Idle, HomeSteps
<1>4. Releasing(m) \subseteq {t}
  BY <1>1 DEF KeyOf
<1>5. Releasing(m)' = {}
  <2>1. /\ HandAt("enqueue_undo", m)' = (HandAt("enqueue_undo", m) \ {t}) \cup {}
        /\ HandAt("purge_release", m)' = (HandAt("purge_release", m) \ {t}) \cup {}
    BY <1>1, <1>3, KeyRolesAfter
  <2> QED BY <1>4, <2>1 DEF Releasing
<1>6. AtPending(m)' = {} /\ AtDelayed(m)' = {} /\ leased'[m] = None /\ dlq'[m] = None
  BY <1>2 DEF AtPending, AtDelayed
<1>7. /\ InBatch(m)' = {} /\ Acking(m)' = {} /\ HandAt("enqueue_wal", m)' = {}
      /\ HandAt("enqueue_push", m)' = {} /\ HandAt("take_wal", m)' = {}
      /\ HandAt("dlq_insert", m)' = {}
  BY <1>3 DEF HandsTold, HomeSteps
<1>8. InFlight(m)' = InFlight(m)
  <2>1. ~Flies(call[t], m)
    BY DEF Releasing, HandAt, Flies
  <2> QED BY <1>1, <1>3, <2>1, KeyRolesAfter DEF InFlight
<1> QED BY <1>5, <1>6, <1>7, <1>8 DEF Absent


\* A refused enqueue gives its key back.
LEMMA EnqueueUndoKeys ==
    ASSUME HomeInv, HomeInv', KeyInv, epoch = 0, NEW t \in Tasks, EnqueueUndo(t) PROVE KeyInv'
<1> USE DEF vars, memVars, walVars, cpVars, auxVars
<1>1. /\ call \in [Tasks -> Call] /\ call[t].pc = "enqueue_undo" /\ call[t].entry \in Entry
      /\ UNCHANGED <<pending, delayed, leased, dlq, fate, stranded>>
      /\ call' = [call EXCEPT ![t] = Idle] /\ CallTagged(call[t], Named(dedup))
  BY CallType DEF HomeInv, TypeOK, EnqueueUndo, At, EntrySteps, Return, KeyInv, Tagged,
     CallsTagged
<1>2. PICK m, key : m = call[t].entry.id /\ key = call[t].entry.key
  OBVIOUS
<1>3. m \in Ids /\ key \in Keys \cup {None} /\ t \in Releasing(m)
  BY <1>1, <1>2 DEF Entry, Releasing, HandAt
<1>4. <<m, key>> \in Named(dedup) /\ dedup' = Release(dedup, key)
  BY <1>1, <1>2 DEF CallTagged, KeySteps, Tag, EnqueueUndo
<1>5. Absent(m)' /\ Acking(m)' = {} /\ InFlight(m)' = InFlight(m)
  BY <1>1, <1>3, ReleaseLeavesNothing
<1>6. ~EnqueueReserve(t)
  BY <1>1 DEF EnqueueReserve, Starts
<1>7. \A G : Tagged(G) => Tagged(G)'
  BY <1>6, EnqueueTagged DEF Enqueue
<1>8. Tagged(Named(dedup))' /\ ~BoundTo(m)' /\ \A id \in Ids : BoundTo(id)' => BoundTo(id)
  BY <1>3, <1>4, <1>5, <1>7, ReleasedTagged DEF HomeInv
<1>9. \A id \in Ids \ {m} : KeyOf(id)'
  <2>1. Concerns(call[t], m) /\ Concerns(Idle, m)
    BY <1>1, <1>2 DEF Concerns, Idle, RoleSteps
  <2> QED BY <1>1, <1>8, <2>1, OtherKeys
<1>10. KeyOf(m)'
  BY <1>1, <1>3, <1>5, <1>8 DEF KeyInv, KeyOf, Absent, Releasing
<1> QED BY <1>8, <1>9, <1>10 DEF KeyInv

\* So does a purge.
LEMMA PurgeReleaseKeys ==
    ASSUME HomeInv, HomeInv', KeyInv, epoch = 0, NEW t \in Tasks, PurgeRelease(t) PROVE KeyInv'
<1> USE DEF vars, memVars, walVars, cpVars, auxVars
<1>1. /\ call \in [Tasks -> Call] /\ call[t].pc = "purge_release" /\ call[t].entry \in Entry
      /\ UNCHANGED <<pending, delayed, leased, dlq, stranded>> /\ fate \in [Ids -> Fates]
      /\ call' = [call EXCEPT ![t] = Idle] /\ CallTagged(call[t], Named(dedup))
  BY CallType DEF HomeInv, TypeOK, PurgeRelease, At, EntrySteps, Return, KeyInv, Tagged,
     CallsTagged
<1>2. PICK m, key : m = call[t].entry.id /\ key = call[t].entry.key
  OBVIOUS
<1>3. m \in Ids /\ key \in Keys \cup {None} /\ t \in Releasing(m)
  BY <1>1, <1>2 DEF Entry, Releasing, HandAt
<1>4. /\ <<m, key>> \in Named(dedup) /\ dedup' = Release(dedup, key)
      /\ fate' = [fate EXCEPT ![m] = "purged"]
  BY <1>1, <1>2 DEF CallTagged, KeySteps, Tag, PurgeRelease
<1>5. Absent(m)' /\ Acking(m)' = {} /\ InFlight(m)' = InFlight(m)
  BY <1>1, <1>3, ReleaseLeavesNothing
<1>6. \A G : Tagged(G) => Tagged(G)'
  BY TriageTagged DEF Triage
<1>7. Tagged(Named(dedup))' /\ ~BoundTo(m)' /\ \A id \in Ids : BoundTo(id)' => BoundTo(id)
  BY <1>3, <1>4, <1>5, <1>6, ReleasedTagged DEF HomeInv
<1>8. \A id \in Ids \ {m} : KeyOf(id)'
  <2>1. Concerns(call[t], m) /\ Concerns(Idle, m)
    BY <1>1, <1>2 DEF Concerns, Idle, RoleSteps
  <2>2. \A id \in Ids \ {m} : fate'[id] = fate[id]
    BY <1>1, <1>4
  <2> QED BY <1>1, <1>7, <2>1, <2>2, OtherKeys
<1>9. KeyOf(m)'
  <2>1. fate'[m] = "purged"
    BY <1>1, <1>3, <1>4
  <2> QED BY <1>5, <1>7, <2>1 DEF KeyOf, Absent, Releasing
<1> QED BY <1>7, <1>8, <1>9 DEF KeyInv

\* An ack releases the key of the message whose lease it ends.
LEMMA AckReleaseKeys ==
    ASSUME HomeInv, HomeInv', KeyInv, epoch = 0, NEW t \in Tasks, AckRelease(t) PROVE KeyInv'
<1> USE DEF vars, memVars, walVars, cpVars, auxVars
<1>1. /\ call \in [Tasks -> Call] /\ leased \in [Ids -> Lease \cup {None}]
      /\ call[t].pc = "idle" /\ UNCHANGED <<pending, delayed, dlq, fate, stranded>>
      /\ \A id \in Ids : leased[id] # None => leased[id].entry.id = id
      /\ Tagged(Named(dedup))
  BY DEF HomeInv, TypeOK, Keyed, AckRelease, Starts, KeyInv
<1>2. PICK g \in grants :
        /\ leased[g.id] # None
        /\ leased' = [leased EXCEPT ![g.id] = None]
        /\ dedup' = Release(dedup, leased[g.id].entry.key)
        /\ call' = [call EXCEPT ![t] = [Idle EXCEPT !.op = "ack", !.pc = "ack_wal",
                                                    !.grant = g]]
  BY DEF AckRelease, Holds
<1>3. PICK m, key : m = g.id /\ key = leased[m].entry.key
  OBVIOUS
<1>4. m \in Ids /\ leased[m] # None /\ leased[m].entry.id = m /\ key \in Keys \cup {None}
  <2>1. m \in Ids /\ leased[m] # None /\ leased[m].entry.id = m
    BY <1>1, <1>2, <1>3 DEF HomeInv, TypeOK, Grant
  <2>2. leased[m] \in Lease
    BY <1>1, <2>1
  <2> QED BY <1>3, <2>1, <2>2 DEF Lease, Entry
<1>5. <<m, key>> \in Named(dedup) /\ dedup' = Release(dedup, key)
  BY <1>1, <1>2, <1>3, <1>4 DEF Tagged, MapsTagged, Tag
<1> DEFINE c == [Idle EXCEPT !.op = "ack", !.pc = "ack_wal", !.grant = g]
<1>6. c.pc = "ack_wal" /\ c.grant.id = m /\ c.batch = {} /\ call' = [call EXCEPT ![t] = c]
  BY <1>2, <1>3 DEF Idle
<1> HIDE DEF c
<1>7. /\ ~BatchHas(c, m) /\ AckHas(c, m) /\ \A pc \in HomeSteps : ~HandHas(c, pc, m)
      /\ ~HandHas(c, "enqueue_undo", m) /\ ~HandHas(c, "purge_release", m)
      /\ ~Flies(c, m) /\ ~Flies(call[t], m)
  BY <1>1, <1>6 DEF BatchHas, AckHas, HandHas, Flies, HomeSteps
<1>8. Sole(m) /\ Releasing(m) = {}
  BY <1>4, ReleasingAlone DEF HomeInv, Cut, HomeOf
<1>9. /\ HandAt("enqueue_undo", m)' = {} /\ HandAt("purge_release", m)' = {}
      /\ InFlight(m)' = InFlight(m)
  <2>1. /\ HandAt("enqueue_undo", m)' = (HandAt("enqueue_undo", m) \ {t}) \cup {}
        /\ HandAt("purge_release", m)' = (HandAt("purge_release", m) \ {t}) \cup {}
        /\ InFlight(m)' = (InFlight(m) \ {t}) \cup {}
    BY <1>1, <1>6, <1>7, KeyRolesAfter
  <2> QED BY <1>7, <1>8, <2>1 DEF Releasing, InFlight
<1>10. Absent(m)'
  <2>1. AtPending(m) = {} /\ AtDelayed(m) = {} /\ dlq[m] = None /\ Holders(m) = {}
    BY <1>4, <1>8 DEF Sole
  <2>2. HandsTold(c, t, m)'
    BY <1>1, <1>6, <2>1, OnlyHandAfter
  <2>3. AtPending(m)' = {} /\ AtDelayed(m)' = {} /\ leased'[m] = None /\ dlq'[m] = None
    BY <1>1, <1>2, <1>3, <1>4, <2>1 DEF AtPending, AtDelayed
  <2>4. /\ InBatch(m)' = {} /\ HandAt("enqueue_wal", m)' = {}
        /\ HandAt("enqueue_push", m)' = {} /\ HandAt("take_wal", m)' = {}
        /\ HandAt("dlq_insert", m)' = {}
    BY <1>7, <2>2 DEF HandsTold, HomeSteps
  <2> QED BY <1>9, <2>3, <2>4 DEF Absent, Releasing
<1>11. \A G : Tagged(G) => Tagged(G)'
  BY SettleTagged DEF Settle
<1>12. Tagged(Named(dedup))' /\ ~BoundTo(m)' /\ \A id \in Ids : BoundTo(id)' => BoundTo(id)
  BY <1>4, <1>5, <1>10, <1>11, ReleasedTagged DEF HomeInv
<1>13. \A id \in Ids \ {m} : KeyOf(id)'
  <2>1. Concerns(call[t], m) /\ Concerns(c, m)
    BY <1>1, <1>6 DEF Concerns, RoleSteps
  <2> QED BY <1>1, <1>6, <1>12, <2>1, OtherKeys
<1>14. KeyOf(m)'
  BY <1>1, <1>4, <1>9, <1>12 DEF KeyInv, KeyOf, Releasing
<1> QED BY <1>12, <1>13, <1>14 DEF KeyInv

\* Its record settles the fate of a message that no key is bound to any more.
LEMMA AckAppendKeys ==
    ASSUME HomeInv, KeyInv, epoch = 0, NEW t \in Tasks, AckAppend(t) PROVE KeyInv'
<1> USE DEF vars, memVars, walVars, cpVars, auxVars
<1>1. /\ call \in [Tasks -> Call] /\ fate \in [Ids -> Fates] /\ call[t].pc = "ack_wal"
      /\ call[t].grant \in Grant /\ UNCHANGED dedup /\ stranded \subseteq stranded'
      /\ call' = [call EXCEPT ![t] = Idle]
  BY CallType DEF HomeInv, TypeOK, AckAppend, At, GrantSteps, Return
<1>2. PICK m : m = call[t].grant.id
  OBVIOUS
<1>3. m \in Ids /\ t \in Acking(m)
  BY <1>1, <1>2 DEF Grant, Acking
<1>4. \E f \in {"done", fate[m]} : fate' = [fate EXCEPT ![m] = f]
  BY <1>2 DEF AckAppend
<1>5. Tagged(Named(dedup))'
  <2>1. PICK G : G = Named(dedup)
    OBVIOUS
  <2>2. Tagged(G)'
    BY <2>1, SettleTagged DEF KeyInv, Settle
  <2> QED BY <1>1, <2>1, <2>2
<1>6. \A id : BoundTo(id)' => BoundTo(id)
  BY <1>1 DEF BoundTo
<1>7. \A id \in Ids \ {m} : KeyOf(id)'
  <2>1. Concerns(call[t], m) /\ Concerns(Idle, m)
    BY <1>1, <1>2 DEF Concerns, Idle, RoleSteps
  <2>2. \A id \in Ids \ {m} : fate'[id] = fate[id]
    BY <1>1, <1>4
  <2> QED BY <1>1, <1>6, <2>1, <2>2, OtherKeys
<1>8. KeyOf(m)'
  <2>1. KeyOf(m) /\ ~BoundTo(m) /\ Releasing(m) = {}
    BY <1>3, InHandAlone DEF KeyInv, KeyOf, Holders
  <2>2. /\ ~HandHas(Idle, "enqueue_undo", m) /\ ~HandHas(Idle, "purge_release", m)
        /\ ~Flies(Idle, m) /\ ~Flies(call[t], m)
    BY <1>1 DEF HandHas, Flies, Idle
  <2>3. /\ HandAt("enqueue_undo", m)' = (HandAt("enqueue_undo", m) \ {t}) \cup {}
        /\ HandAt("purge_release", m)' = (HandAt("purge_release", m) \ {t}) \cup {}
        /\ InFlight(m)' = (InFlight(m) \ {t}) \cup {}
    BY <1>1, <2>2, KeyRolesAfter
  <2>4. Releasing(m)' = {} /\ InFlight(m)' = InFlight(m)
    BY <2>1, <2>2, <2>3 DEF Releasing, InFlight
  <2>5. fate'[m] = "inflight" => fate[m] = "inflight"
    BY <1>1, <1>3, <1>4
  <2> QED BY <1>6, <2>1, <2>4, <2>5 DEF KeyOf, Releasing
<1> QED BY <1>5, <1>7, <1>8 DEF KeyInv


\* The Remove record of a dead letter hands the key on: to the purge that will
\* release it, to the enqueue that goes on using it, or to the next restart.
LEMMA TakeAppendKeys ==
    ASSUME HomeInv, KeyInv, epoch = 0, NEW t \in Tasks, TakeAppend(t) PROVE KeyInv'
<1> USE DEF vars, memVars, walVars, cpVars, auxVars
<1>1. /\ call \in [Tasks -> Call] /\ fate \in [Ids -> Fates] /\ call[t].pc = "take_wal"
      /\ call[t].entry \in Entry /\ UNCHANGED dedup /\ call[t] \in Locals
      /\ CallTagged(call[t], Named(dedup))
  BY CallType DEF HomeInv, TypeOK, TakeAppend, At, EntrySteps, KeyInv, Tagged, CallsTagged,
     Call
<1>2. PICK m, key : m = call[t].entry.id /\ key = call[t].entry.key
  OBVIOUS
<1>3. /\ m \in Ids /\ key \in Keys \cup {None} /\ t \in Holders(m)
      /\ <<m, key>> \in Named(dedup)
  BY <1>1, <1>2 DEF Entry, Holders, HandAt, CallTagged, KeySteps, HandSteps, Tag
<1> DEFINE d == [call[t] EXCEPT !.pc = "purge_release"]
           f == [call[t] EXCEPT !.pc = "enqueue_wal", !.entry = NewEntry(m, key)]
<1>4. PICK r \in AppendResult :
        /\ IF ~r.ok \/ (call[t].op = "purge" /\ key = None)
           THEN Return(t)
           ELSE call' = [call EXCEPT ![t] = IF call[t].op = "purge" THEN d ELSE f]
        /\ fate' = [fate EXCEPT ![m] = IF r.durable /\ call[t].op = "purge" THEN "done"
                                       ELSE IF r.durable /\ ~r.ok THEN "dropped" ELSE @]
        /\ stranded' = IF r.ok THEN stranded ELSE stranded \cup {m}
  <2> HIDE DEF vars, memVars, walVars, cpVars, auxVars
  <2> QED BY <1>1, <1>2 DEF TakeAppend
<1>5. /\ d.pc = "purge_release" /\ d.entry.id = m
      /\ f.pc = "enqueue_wal" /\ f.entry.id = m
  BY <1>1, <1>2 DEF Locals, NewEntry
<1> HIDE DEF d, f
<1>6. PICK c : /\ call' = [call EXCEPT ![t] = c]
               /\ \/ c = Idle /\ (~r.ok \/ (call[t].op = "purge" /\ key = None))
                  \/ c = d /\ r.ok /\ call[t].op = "purge"
                  \/ c = f /\ r.ok /\ call[t].op # "purge"
  BY <1>4 DEF Return
<1>7. Tagged(Named(dedup))'
  <2>1. PICK G : G = Named(dedup)
    OBVIOUS
  <2>2. Tagged(G)'
    BY <2>1, TriageTagged DEF KeyInv, Triage
  <2> QED BY <1>1, <2>1, <2>2
<1>8. \A id : BoundTo(id)' => BoundTo(id)
  BY <1>1 DEF BoundTo
<1>9. \A id \in Ids \ {m} : KeyOf(id)'
  <2>1. Concerns(call[t], m) /\ Concerns(c, m)
    BY <1>1, <1>2, <1>5, <1>6 DEF Concerns, Idle, RoleSteps
  <2>2. \A id \in Ids \ {m} : fate'[id] = fate[id]
    BY <1>1, <1>4
  <2>3. stranded \subseteq stranded'
    BY <1>4
  <2> QED BY <1>1, <1>6, <1>8, <2>1, <2>2, <2>3, OtherKeys
<1>10. KeyOf(m)'
  <2>1. KeyOf(m) /\ Releasing(m) = {} /\ \A u \in Tasks : u \in Holders(m) => u = t
    BY <1>3, InHandAlone DEF KeyInv
  <2>2. Acking(m) = {} /\ InFlight(m) = {}
    BY <1>1, <2>1 DEF Holders, Acking, HandAt, InFlight, Flies
  <2>3. ~AckHas(c, m) /\ ~HandHas(c, "enqueue_undo", m)
    BY <1>5, <1>6 DEF AckHas, HandHas, Idle
  <2>4. /\ Acking(m)' = (Acking(m) \ {t}) \cup {}
        /\ HandAt("enqueue_undo", m)' = (HandAt("enqueue_undo", m) \ {t}) \cup {}
        /\ HandAt("purge_release", m)' =
             (HandAt("purge_release", m) \ {t})
             \cup (IF HandHas(c, "purge_release", m) THEN {t} ELSE {})
    BY <1>1, <1>6, <2>3, KeyRolesAfter
  <2>5. /\ Acking(m)' = {} /\ HandAt("enqueue_undo", m)' = {}
        /\ HandAt("purge_release", m)' = IF HandHas(c, "purge_release", m) THEN {t} ELSE {}
    BY <2>1, <2>2, <2>4 DEF Releasing
  <2>6. fate'[m] # "inflight"
    BY <1>1, <1>3, <1>4, <2>1, <2>2 DEF KeyOf
  <2>7. BoundTo(m) => \/ fate'[m] \in {"inflight", "accepted"}
                      \/ m \in stranded'
                      \/ HandAt("purge_release", m)' # {}
    <3>1. CASE ~r.ok
      BY <1>4, <3>1
    <3>2. CASE r.ok /\ c = Idle
      <4>1. key = None \/ Idle \in {d, f}
        BY <1>6, <3>2
      <4>2. key = None
        BY <1>5, <4>1 DEF Idle
      <4>3. ~BoundTo(m)
        BY <1>3, <4>2, NamedPairs, NoneAssumption DEF BoundTo
      <4> QED BY <4>3
    <3>3. CASE c = d
      BY <1>5, <2>5, <3>3 DEF HandHas
    <3>4. CASE r.ok /\ call[t].op # "purge"
      <4>1. fate'[m] = fate[m] /\ stranded' = stranded
        BY <1>1, <1>3, <1>4, <3>4
      <4> QED BY <2>1, <4>1 DEF KeyOf
    <3> QED BY <1>6, <3>1, <3>2, <3>3, <3>4
  <2> QED BY <1>8, <2>5, <2>6, <2>7 DEF KeyOf, Releasing
<1> QED BY <1>7, <1>9, <1>10 DEF KeyInv

LEMMA KeyInit == Init => KeyInv
<1> SUFFICES ASSUME Init PROVE KeyInv
  OBVIOUS
<1>1. call = [t \in Tasks |-> Idle] /\ \A t \in Tasks : call[t] = Idle
  BY DEF Init
<1>2. Tagged(Named(dedup))
  <2>1. CallTagged(Idle, Named(dedup))
    BY DEF CallTagged, Idle, KeySteps, HandSteps
  <2>2. CallsTagged(Named(dedup))
    BY <1>1, <2>1 DEF CallsTagged
  <2> QED BY <2>2 DEF Init, Tagged, QueuesTagged, MapsTagged
<1>3. ASSUME NEW id \in Ids PROVE KeyOf(id)
  <2>1. /\ Acking(id) = {} /\ HandAt("enqueue_undo", id) = {}
        /\ HandAt("purge_release", id) = {}
    BY <1>1 DEF Acking, HandAt, Idle
  <2>2. ~BoundTo(id) /\ fate[id] = "unused"
    BY NoneAssumption DEF Init, BoundTo
  <2> QED BY <2>1, <2>2 DEF KeyOf, Releasing
<1> QED BY <1>2, <1>3 DEF KeyInv

\* Until the first restart every step keeps the keys.
LEMMA KeyStep == HomeInv /\ HomeInv' /\ EarlyKeys /\ [Next]_vars => EarlyKeys'
<1> SUFFICES ASSUME HomeInv, HomeInv', epoch = 0 => KeyInv /\ truncated = {}, [Next]_vars,
                    epoch' = 0
             PROVE  KeyInv' /\ truncated' = {}
  BY DEF EarlyKeys
<1> USE DEF vars, memVars, walVars, cpVars, auxVars
<1>1. epoch = 0 /\ ~CrashAndOpen
  <2>1. epoch \in Nat
    BY DEF HomeInv, TypeOK
  <2>2. CASE CrashAndOpen
    BY <2>1, <2>2 DEF CrashAndOpen
  <2>3. ASSUME NEW t \in Tasks, Enqueue(t)
        PROVE  UNCHANGED epoch
    BY <2>3, ZenonT(30) DEF Enqueue, EnqueueReserve, EnqueueDuplicate, WriteEnqueueRecord,
       EnqueueUndo, PushPending
  <2>a. ASSUME NEW t \in Tasks, Claim(t)
        PROVE  UNCHANGED epoch
    BY <2>a, ZenonT(30) DEF Claim, ReclaimExpired, PopPending, CancelClaim
  <2>4. ASSUME NEW t \in Tasks, Settle(t)
        PROVE  UNCHANGED epoch
    BY <2>4, ZenonT(30) DEF Settle, AckRelease, AckAppend, NackRelease
  <2>5. ASSUME NEW t \in Tasks, Resolve(t)
        PROVE  UNCHANGED epoch
    BY <2>5, ZenonT(30) DEF Resolve, RetryLater, RecordDeadLetter, InsertDeadLetter, AppendDeadLettered
  <2>6. ASSUME NEW t \in Tasks, Checkpoint(t)
        PROVE  UNCHANGED epoch
    BY <2>6, ZenonT(30) DEF Checkpoint, CheckpointStart, CheckpointAppend, CheckpointSet
  <2>7. ASSUME NEW t \in Tasks, Triage(t)
        PROVE  UNCHANGED epoch
    BY <2>7, ZenonT(30) DEF Triage, AnnotateStart, AnnotateAppend, AnnotateSet, TakeDeadLetter,
       TakeAppend, PurgeRelease
  <2>8. ASSUME NEW id \in Ids, VisibilityTimeout(id)
        PROVE  UNCHANGED epoch
    BY <2>8 DEF VisibilityTimeout
  <2>9. ASSUME BackoffElapses \/ Rest \/ UNCHANGED vars
        PROVE  UNCHANGED epoch
    BY <2>9 DEF BackoffElapses, Rest
  <2> QED BY <2>2, <2>3, <2>a, <2>4, <2>5, <2>6, <2>7, <2>8, <2>9 DEF Next
<1>2. KeyInv
  BY <1>1
<1>3. truncated' = {}
  BY <1>1, TearStep DEF TearMoves
<1>4. ASSUME NEW t \in Tasks, Enqueue(t) PROVE KeyInv'
  <2>1. CASE EnqueueDuplicate(t)
    <3>1. UNCHANGED <<pending, delayed, leased, dlq, dedup, fate, stranded, call>>
      BY <2>1 DEF EnqueueDuplicate
    <3>2. \A G : Tagged(G) => Tagged(G)'
      BY <3>1 DEF Tagged, QueuesTagged, MapsTagged, CallsTagged
    <3> QED BY <1>2, <3>1, <3>2, StillKeys
  <2> QED BY <1>1, <1>2, <1>4, <2>1, EnqueueReserveKeys, WriteEnqueueKeys, EnqueueUndoKeys,
             PushPendingKeys DEF Enqueue
<1>5. ASSUME NEW t \in Tasks, Claim(t) \/ Settle(t) \/ Resolve(t) PROVE KeyInv'
  BY <1>1, <1>2, <1>5, ClaimKeys, AckReleaseKeys, AckAppendKeys DEF Settle
<1>6. ASSUME NEW t \in Tasks, Checkpoint(t) \/ Triage(t) PROVE KeyInv'
  BY <1>1, <1>2, <1>6, TriageKeys, TakeAppendKeys, PurgeReleaseKeys
<1>7. ASSUME BackoffElapses \/ \E id \in Ids : VisibilityTimeout(id) PROVE KeyInv'
  <2>1. UNCHANGED <<dedup, fate, stranded, call>>
    BY <1>7 DEF BackoffElapses, VisibilityTimeout
  <2>2. \A G : Tagged(G) => Tagged(G)'
    BY <1>7, TimeTagged
  <2> QED BY <1>2, <2>1, <2>2, StillKeys
<1>8. ASSUME UNCHANGED vars PROVE KeyInv'
  <2>1. \A G : Tagged(G) => Tagged(G)'
    BY <1>8 DEF Tagged, QueuesTagged, MapsTagged, CallsTagged
  <2> QED BY <1>2, <1>8, <2>1, StillKeys
<1> QED BY <1>1, <1>4, <1>5, <1>6, <1>7, <1>8, <1>3 DEF Next, Rest


\* KeysNameMessages holds at every instant until the first restart, whatever
\* appends fail and whichever claims are dropped: every message that the process
\* keeps is the one its key stands for, torn and stranded ones included, and every
\* bound key stands for a message of the group or for one whose release is due.
THEOREM KeysStandForMessages == Spec => []KeysNameMessages
<1>1. LossInv /\ EarlyKeys => KeysNameMessages
  <2> SUFFICES ASSUME LossInv, KeyInv, truncated = {}, epoch = 0 PROVE KeysNameMessages
    BY DEF EarlyKeys, KeysNameMessages
  <2>1. HomeInv /\ call \in [Tasks -> Call] /\ dedup \in [Keys -> Ids \cup {None}]
    BY DEF LossInv, HomeInv, TypeOK
  <2>2. ASSUME NEW e \in HeldEntries PROVE Tag(e) \in Named(dedup)
    <3>1. CASE e \in UNION {InHand(t) : t \in Tasks}
      <4>1. PICK t \in Tasks : e \in InHand(t)
        BY <3>1
      <4>2. CallTagged(call[t], Named(dedup))
        BY DEF KeyInv, Tagged, CallsTagged
      <4> QED BY <4>1, <4>2 DEF InHand, CallTagged, KeySteps, HandSteps
    <3>2. CASE e \notin UNION {InHand(t) : t \in Tasks}
      BY <2>2, <3>2 DEF KeyInv, Tagged, QueuesTagged, MapsTagged, HeldEntries
    <3> QED BY <3>1, <3>2
  <2>3. ASSUME NEW e \in HeldEntries, e.key # None PROVE dedup[e.key] = e.id
    <3>1. PICK id \in Ids, key \in Keys \cup {None} : Tag(e) = <<id, key>>
      BY <2>2, <2>3, NamedPairs
    <3>2. id = e.id /\ key = e.key /\ key \in Keys
      BY <2>3, <3>1 DEF Tag
    <3>3. <<id, key>> \in Named(dedup)
      BY <2>2, <2>3, <3>1
    <3> QED BY <3>2, <3>3, NamedPairs
  <2>4. ASSUME NEW key \in Keys, dedup[key] # None
        PROVE  \/ Copies(dedup[key]) # {}
               \/ dedup[key] \in stranded \cup torn
               \/ \E t \in Tasks : /\ call[t].pc \in {"purge_release", "enqueue_undo"}
                                   /\ call[t].entry.id = dedup[key]
    <3> DEFINE id == dedup[key]
    <3>1. id \in Ids /\ BoundTo(id)
      BY <2>1, <2>4 DEF BoundTo
    <3> HIDE DEF id
    <3>2. KeyOf(id) /\ Acking(id) = {}
      BY <3>1 DEF KeyInv, KeyOf
    <3>3. CASE Releasing(id) # {}
      BY <3>3 DEF Releasing, HandAt, id
    <3>4. CASE id \in stranded
      BY <3>4 DEF id
    <3>5. CASE fate[id] = "inflight"
      <4>1. PICK t \in Tasks : call[t].pc \in {"enqueue_wal", "enqueue_push"} /\ call[t].entry.id = id
        BY <3>2, <3>5 DEF KeyOf, InFlight, Flies
      <4>2. call[t].entry \in InHand(t)
        BY <4>1 DEF InHand
      <4>3. <<"call", t>> \in Copies(id)
        BY <4>1, <4>2 DEF Copies
      <4> QED BY <4>3 DEF id
    <3>6. CASE fate[id] = "accepted" /\ id \notin stranded
      <4>1. Copies(id) # {} \/ BeingAcked(id)
        BY <3>1, <3>6, HousedSomewhere DEF SomeHome
      <4>2. ~BeingAcked(id)
        BY <3>2 DEF BeingAcked, Acking
      <4> QED BY <4>1, <4>2 DEF id
    <3> QED BY <3>1, <3>2, <3>3, <3>4, <3>5, <3>6 DEF KeyOf
  <2> QED BY <2>3, <2>4 DEF KeysNameMessages
<1>2. Init => LossInv /\ EarlyKeys
  BY LossInit, KeyInit DEF EarlyKeys, Init
<1>3. LossInv /\ EarlyKeys /\ [Next]_vars => LossInv' /\ EarlyKeys'
  BY LossStep, KeyStep DEF LossInv
<1> QED BY <1>1, <1>2, <1>3, PTL DEF Spec

=============================================================================
