------------------------ MODULE GuardedClusterProofs ------------------------
(***************************************************************************)
(* Proofs about GuardedCluster.  The circuit breaker and the fallback      *)
(* cache, for any number of callers, keys and values, any thresholds,      *)
(* cooldown and TTL, whatever the guarded operation does; and the          *)
(* memberships the watcher brings about, for any nodes, terms and entries. *)
(***************************************************************************)
EXTENDS GuardedCluster, FiniteSetTheorems, WellFoundedInduction, TLAPS

-----------------------------------------------------------------------------
(* The breaker                                                              *)

\* The breaker with any counts: the thresholds play no part here.
BreakerRecord ==
    [state : Breaker!CircuitState, consecutive_failures : Nat, consecutive_successes : Nat,
     opened_at : {{}} \cup {{age} : age \in Nat}]

Honours(b) == b.state # "Open" => \A age \in b.opened_at : age >= open_duration

Cooled == {b \in BreakerRecord : Honours(b)}

BreakerInv == breaker \in Cooled

\* A change of state keeps the time of the last opening.
LEMMA TurnedFacts ==
    ASSUME NEW b \in BreakerRecord, NEW state \in Breaker!CircuitState
    PROVE  /\ Breaker!Turned(b, state) \in BreakerRecord
           /\ Breaker!Turned(b, state).state = state
           /\ Breaker!Turned(b, state).opened_at = b.opened_at
<1> DEFINE times == {{}} \cup {{age} : age \in Nat}
<1>1. b \in [state : Breaker!CircuitState, consecutive_failures : Nat,
             consecutive_successes : Nat, opened_at : times]
  BY DEF BreakerRecord
<1> HIDE DEF times
<1>2. /\ Breaker!Turned(b, state) \in [state : Breaker!CircuitState, consecutive_failures : Nat,
                                       consecutive_successes : Nat, opened_at : times]
      /\ Breaker!Turned(b, state).state = state
  BY <1>1 DEF Breaker!Turned
<1>3. Breaker!Turned(b, state).opened_at = b.opened_at
  <2>1. PICK t : t = b.opened_at
    OBVIOUS
  <2>2. Breaker!Turned(b, state).opened_at = t
    BY <1>1, <2>1, Zenon DEF Breaker!Turned
  <2> QED BY <2>1, <2>2
<1> QED BY <1>2, <1>3 DEF BreakerRecord, times

\* Ending a cooldown that has elapsed.
LEMMA ResolveCooled == \A b \in Cooled : Breaker!resolve_open_timeout(b) \in Cooled
<1> SUFFICES ASSUME NEW b \in Cooled PROVE Breaker!resolve_open_timeout(b) \in Cooled
  OBVIOUS
<1>1. b \in BreakerRecord /\ Honours(b)
  BY DEF Cooled
<1>2. CASE b.state = "Open" /\ \E age \in b.opened_at : age >= open_duration
  <2>1. Breaker!resolve_open_timeout(b) = Breaker!Turned(b, "HalfOpen")
    BY <1>2 DEF Breaker!resolve_open_timeout
  <2>2. \A age \in b.opened_at : age >= open_duration
    BY <1>1, <1>2 DEF BreakerRecord
  <2>3. "HalfOpen" \in Breaker!CircuitState
    BY DEF Breaker!CircuitState
  <2> QED BY <1>1, <2>1, <2>2, <2>3, TurnedFacts DEF Cooled, Honours
<1>3. CASE ~(b.state = "Open" /\ \E age \in b.opened_at : age >= open_duration)
  BY <1>3 DEF Breaker!resolve_open_timeout
<1> QED BY <1>2, <1>3

\* A success closes nothing that is still cooling down.
LEMMA SuccessCooled == \A b \in Cooled : Breaker!record_success(b) \in Cooled
<1> SUFFICES ASSUME NEW b \in Cooled PROVE Breaker!record_success(b) \in Cooled
  OBVIOUS
<1>1. b \in BreakerRecord /\ Honours(b)
  BY DEF Cooled
<1>2. CASE b.state = "Closed"
  BY <1>1, <1>2 DEF Breaker!record_success, Cooled, BreakerRecord, Honours
<1>3. CASE b.state = "HalfOpen"
  <2>1. Breaker!record_success(b) = Breaker!TrialSucceeded(b)
    BY <1>3 DEF Breaker!record_success
  <2>2. "Closed" \in Breaker!CircuitState
    BY DEF Breaker!CircuitState
  <2>3. Breaker!Turned(b, "Closed") \in Cooled
    BY <1>1, <1>3, <2>2, TurnedFacts DEF Cooled, Honours
  <2>4. [b EXCEPT !.consecutive_successes = @ + 1] \in Cooled
    BY <1>1 DEF Cooled, BreakerRecord, Honours
  <2> QED BY <2>1, <2>3, <2>4 DEF Breaker!TrialSucceeded
<1>4. CASE b.state = "Open"
  BY <1>4 DEF Breaker!record_success
<1> QED BY <1>1, <1>2, <1>3, <1>4 DEF BreakerRecord, Breaker!CircuitState

\* A failure only ever opens.
LEMMA FailureCooled == \A b \in Cooled : Breaker!record_failure(b) \in Cooled
<1> SUFFICES ASSUME NEW b \in Cooled PROVE Breaker!record_failure(b) \in Cooled
  OBVIOUS
<1>1. b \in BreakerRecord /\ Honours(b)
  BY DEF Cooled
<1>2. Breaker!open(b) \in Cooled
  BY <1>1 DEF Breaker!open, Breaker!Turned, Cooled, BreakerRecord, Honours, Breaker!CircuitState
<1>3. CASE b.state = "Closed"
  <2>1. [b EXCEPT !.consecutive_failures = @ + 1] \in Cooled
    BY <1>1 DEF Cooled, BreakerRecord, Honours
  <2> QED BY <1>2, <1>3, <2>1 DEF Breaker!record_failure
<1>4. CASE b.state = "HalfOpen"
  BY <1>2, <1>4 DEF Breaker!record_failure
<1>5. CASE b.state = "Open"
  BY <1>5 DEF Breaker!record_failure
<1> QED BY <1>1, <1>3, <1>4, <1>5 DEF BreakerRecord, Breaker!CircuitState

\* Time passes.
LEMMA AgeCooled == \A b \in Cooled : Breaker!Age(b) \in Cooled
<1> SUFFICES ASSUME NEW b \in Cooled PROVE Breaker!Age(b) \in Cooled
  OBVIOUS
<1>1. b \in BreakerRecord /\ Honours(b)
  BY DEF Cooled
<1>2. PICK ages : ages = {IF age < open_duration THEN age + 1 ELSE age : age \in b.opened_at}
  OBVIOUS
<1>3. Breaker!Age(b) = [b EXCEPT !.opened_at = ages]
  BY <1>2 DEF Breaker!Age
<1>4. ages \in {{}} \cup {{age} : age \in Nat}
  <2>1. CASE b.opened_at = {}
    BY <1>2, <2>1
  <2>2. CASE b.opened_at # {}
    <3>1. PICK age \in Nat : b.opened_at = {age}
      BY <1>1, <2>2 DEF BreakerRecord
    <3>2. PICK later \in Nat : later = IF age < open_duration THEN age + 1 ELSE age
      OBVIOUS
    <3>3. ages = {later}
      BY <1>2, <3>1, <3>2
    <3> QED BY <3>3
  <2> QED BY <2>1, <2>2
<1>5. b.state # "Open" => \A age \in ages : age >= open_duration
  BY <1>1, <1>2, DurationsAssumption DEF Honours, BreakerRecord
<1> QED BY <1>1, <1>3, <1>4, <1>5 DEF Cooled, BreakerRecord, Honours

LEMMA BreakerStep == BreakerInv /\ [Next]_vars => BreakerInv'
<1> SUFFICES ASSUME breaker \in Cooled, [Next]_vars PROVE breaker' \in Cooled
  BY DEF BreakerInv
<1>1. ASSUME NEW c \in Callers, CallStep(c) PROVE breaker' \in Cooled
  <2>1. CASE BeginWrite(c)
    BY <2>1, ResolveCooled DEF BeginWrite, Begin
  <2>2. CASE BeginOperation(c)
    BY <2>2, ResolveCooled DEF BeginOperation, Begin
  <2>3. CASE ClientWrite(c) \/ WriteReturns(c) \/ Operation(c)
    BY <2>3 DEF ClientWrite, WriteReturns, Operation
  <2>4. CASE Guarded(c)
    BY <2>4, SuccessCooled, FailureCooled
       DEF Guarded, GuardStep, RecordSuccess, RecordFailure, SetCache, fall_back
  <2> QED BY <1>1, <2>1, <2>2, <2>3, <2>4 DEF CallStep
<1>2. CASE HealthCheck
  BY <1>2, ResolveCooled DEF HealthCheck, breaker_state
<1>3. CASE Time
  BY <1>3, AgeCooled DEF Time, Tick
<1>4. CASE Turn \/ Cluster \/ Watch \/ UNCHANGED vars
  BY <1>4 DEF Turn, Cluster, Watch, guardVars, vars
<1> QED BY <1>1, <1>2, <1>3, <1>4 DEF Next

\* record_success, resolve_open_timeout: a circuit that opened lets no call through
\* before its cooldown has elapsed, in every order of late results and health checks.
THEOREM CooldownIsHonoured == Spec => []CooldownHonoured
<1>1. Init => BreakerInv
  BY DEF BreakerInv, Init, GuardInit, Breaker!new, Cooled, BreakerRecord, Honours, Breaker!CircuitState
<1>2. BreakerInv => CooldownHonoured
  BY DEF BreakerInv, Cooled, Honours, CooldownHonoured
<1> QED BY <1>1, <1>2, BreakerStep, PTL DEF Spec

-----------------------------------------------------------------------------
(* The cache                                                                *)

CacheTimes == [value : Values, age : Nat]
FreshTimes == [key : Keys, value : Values, age : Nat]
Writes == [key : Keys, value : Values, handle : Nodes]

CallType == call \in [Callers -> Call]

\* A write under way may be anything.
PendingType == \E any : pending \in [Callers -> [writes : Seq(Writes), write : any]]

CacheType == cache \in [Keys -> SUBSET CacheTimes] /\ fresh \in SUBSET FreshTimes

\* A value that has not expired was put there at most as long ago as its age says.
Fresh(key, e) == e.age < ttl => \E f \in fresh : f.key = key /\ f.value = e.value /\ f.age <= e.age

CacheFresh == \A key \in Keys : \A e \in cache[key] : Fresh(key, e)

CacheInv == CallType /\ PendingType /\ CacheType /\ CacheFresh

LEMMA OutcomeTypes ==
    /\ NoOutcome \in HybridOutcome
    /\ \A v \in Values : /\ [is |-> "Fresh", value |-> v] \in HybridOutcome
                         /\ [is |-> "Cached", value |-> v] \in HybridOutcome
    /\ \A b \in BOOLEAN : [is |-> "Unavailable", error |-> b] \in HybridOutcome
BY DEF NoOutcome, HybridOutcome

LEMMA GotoType ==
    ASSUME CallType, NEW c \in Callers,
           NEW step \in {"idle", "primary", "waiting", "ok", "set", "err", "fall_back"}, Goto(c, step)
    PROVE  CallType'
<1>1. call[c] \in Call
  BY DEF CallType
<1>2. [call[c] EXCEPT !.at = step] \in Call
  BY <1>1 DEF Call
<1>3. call' = [call EXCEPT ![c] = [call[c] EXCEPT !.at = step]]
  BY DEF Goto
<1> QED BY <1>2, <1>3 DEF CallType

LEMMA ReturnsType ==
    ASSUME CallType, NEW c \in Callers, NEW outcome \in HybridOutcome, Returns(c, outcome)
    PROVE  CallType' /\ call'[c].outcome = outcome
<1>1. call[c] \in Call
  BY DEF CallType
<1>2. [call[c] EXCEPT !.at = "idle", !.outcome = outcome] \in Call
  BY <1>1 DEF Call
<1>3. call' = [call EXCEPT ![c] = [call[c] EXCEPT !.at = "idle", !.outcome = outcome]]
  BY DEF Returns, CallType
<1>4. CallType'
  BY <1>2, <1>3 DEF CallType
<1>5. call'[c] = [call[c] EXCEPT !.at = "idle", !.outcome = outcome]
  BY <1>3 DEF CallType
<1>6. PICK o : o = outcome
  OBVIOUS
<1>7. [call[c] EXCEPT !.at = "idle", !.outcome = o].outcome = o
  BY <1>1 DEF Call
<1> QED BY <1>4, <1>5, <1>6, <1>7

LEMMA BeginType ==
    ASSUME CallType, NEW c \in Callers, NEW w \in Writes, Begin(c, w.key, w.value)
    PROVE  CallType'
<1>1. call[c] \in Call /\ w.key \in Keys /\ w.value \in Values
  BY DEF CallType, Writes
<1>2. PICK at \in {"idle", "primary", "fall_back"} :
        call' = [call EXCEPT ![c] = [@ EXCEPT !.key = w.key, !.value = w.value, !.error = FALSE,
                                              !.at = at, !.outcome = NoOutcome]]
  <2>1. PICK at : /\ at = CASE breaker'.state # "Open" -> "primary"
                            [] breaker'.state = "Open" /\ cached -> "fall_back"
                            [] OTHER -> "idle"
                  /\ call' = [call EXCEPT ![c] = [@ EXCEPT !.key = w.key, !.value = w.value,
                                                  !.error = FALSE, !.at = at, !.outcome = NoOutcome]]
    BY DEF Begin
  <2>2. at \in {"idle", "primary", "fall_back"}
    BY <2>1
  <2> QED BY <2>1, <2>2
<1>3. [call[c] EXCEPT !.key = w.key, !.value = w.value, !.error = FALSE,
                      !.at = at, !.outcome = NoOutcome] \in Call
  BY <1>1, OutcomeTypes DEF Call
<1> QED BY <1>2, <1>3 DEF CallType

\* What a live entry of the cache is.
LEMMA FoundLive ==
    ASSUME CacheType, NEW key \in Keys
    PROVE  /\ Cache!get(cache, key).value = {e.value : e \in {x \in cache[key] : x.age < ttl}}
           /\ Cache!get(cache, key).cache = [cache EXCEPT ![key] = {x \in cache[key] : x.age < ttl}]
           /\ \A v \in Cache!get(cache, key).value :
                v \in Values /\ \E e \in cache[key] : e.age < ttl /\ e.value = v
<1>1. PICK live : live = {x \in cache[key] : x.age < ttl}
  OBVIOUS
<1>2. Cache!Live(cache[key]) = live
  BY <1>1 DEF Cache!Live
<1>3. PICK values : values = {e.value : e \in live}
  OBVIOUS
<1>4. Cache!get(cache, key) = [value |-> values, cache |-> [cache EXCEPT ![key] = live]]
  BY <1>2, <1>3 DEF Cache!get
<1>5. \A v \in values : v \in Values /\ \E e \in cache[key] : e.age < ttl /\ e.value = v
  BY <1>1, <1>3 DEF CacheType, CacheTimes
<1> QED BY <1>1, <1>3, <1>4, <1>5

LEMMA CacheUntouched ==
    ASSUME CacheInv, UNCHANGED <<cache, fresh>>
    PROVE  CacheType' /\ CacheFresh'
BY DEF CacheInv, CacheType, CacheFresh, Fresh

\* The calls that leave the cache alone.
LEMMA CallsType ==
    ASSUME CacheInv, NEW c \in Callers,
           \/ BeginWrite(c) \/ BeginOperation(c) \/ ClientWrite(c) \/ WriteReturns(c) \/ Operation(c)
    PROVE  CacheInv'
<1>1. CallType /\ PendingType
  BY DEF CacheInv
<1>2. PICK any : pending \in [Callers -> [writes : Seq(Writes), write : any]]
  BY <1>1 DEF PendingType
<1>3. pending[c].writes \in Seq(Writes)
  BY <1>2
<1>4. UNCHANGED <<cache, fresh>>
  BY DEF BeginWrite, BeginOperation, Begin, ClientWrite, WriteReturns, Operation, callVars
<1>5. ASSUME pending' = pending PROVE PendingType'
  BY <1>2, <1>5 DEF PendingType
<1>6. CASE BeginWrite(c)
  <2>1. PICK w \in Writes, rest \in Seq(Writes) :
          /\ Begin(c, w.key, w.value)
          /\ pending' = [pending EXCEPT ![c] = [writes |-> rest, write |-> [NoWrite EXCEPT !.handle = w.handle]]]
    <3>1. pending[c].writes # <<>>
      BY <1>6 DEF BeginWrite
    <3>2. Head(pending[c].writes) \in Writes /\ Tail(pending[c].writes) \in Seq(Writes)
      BY <1>3, <3>1
    <3> QED BY <1>6, <3>2 DEF BeginWrite
  <2>2. CallType'
    BY <1>1, <2>1, BeginType
  <2>3. PICK new : new = [NoWrite EXCEPT !.handle = w.handle]
    OBVIOUS
  <2>4. pending' \in [Callers -> [writes : Seq(Writes), write : any \cup {new}]]
    BY <1>2, <2>1, <2>3
  <2>5. PendingType'
    BY <2>4 DEF PendingType
  <2> QED BY <1>4, <2>2, <2>5, CacheUntouched DEF CacheInv
<1>7. CASE BeginOperation(c)
  <2>1. PICK w \in Writes : Begin(c, w.key, w.value)
    BY <1>3, <1>7 DEF BeginOperation, Range
  <2>2. CallType' /\ pending' = pending
    BY <1>1, <1>7, <2>1, BeginType DEF BeginOperation, callVars
  <2> QED BY <1>4, <1>5, <2>2, CacheUntouched DEF CacheInv
<1>8. CASE ClientWrite(c)
  <2>1. CallType'
    BY <1>1, <1>8, GotoType DEF ClientWrite
  <2>2. \/ pending' = pending
        \/ \E new : pending' = [pending EXCEPT ![c].write = new]
    BY <1>8 DEF ClientWrite
  <2>3. ASSUME NEW new, pending' = [pending EXCEPT ![c].write = new] PROVE PendingType'
    <3>1. pending' \in [Callers -> [writes : Seq(Writes), write : any \cup {new}]]
      BY <1>2, <2>3
    <3> QED BY <3>1 DEF PendingType
  <2> QED BY <1>4, <1>5, <2>1, <2>2, <2>3, CacheUntouched DEF CacheInv
<1>9. CASE WriteReturns(c) \/ Operation(c)
  <2>1. CallType' /\ pending' = pending
    BY <1>1, <1>9, GotoType DEF WriteReturns, Operation, callVars
  <2> QED BY <1>4, <1>5, <2>1, CacheUntouched DEF CacheInv
<1> QED BY <1>6, <1>7, <1>8, <1>9

\* The guard's own steps: only `set` puts something in the cache.
LEMMA GuardedKeeps ==
    ASSUME CacheInv, NEW c \in Callers, Guarded(c)
    PROVE  CacheInv'
<1>1. CallType /\ PendingType /\ CacheType /\ CacheFresh
  BY DEF CacheInv
<1>2. call[c].key \in Keys /\ call[c].value \in Values /\ call[c].error \in BOOLEAN
  BY <1>1 DEF CallType, Call
<1>3. PendingType'
  BY <1>1 DEF Guarded, PendingType
<1>4. CASE RecordSuccess(c)
  <2>1. CallType'
    BY <1>1, <1>2, <1>4, GotoType, ReturnsType, OutcomeTypes DEF RecordSuccess
  <2>2. UNCHANGED <<cache, fresh>>
    BY <1>4 DEF Guarded, RecordSuccess
  <2> QED BY <1>3, <2>1, <2>2, CacheUntouched DEF CacheInv
<1>5. CASE RecordFailure(c)
  <2>1. CallType'
    <3>1. CASE cached
      <4>1. call[c] \in Call
        BY <1>1 DEF CallType
      <4>2. [call[c] EXCEPT !.at = "fall_back", !.error = TRUE] \in Call
        BY <4>1 DEF Call
      <4>3. call' = [call EXCEPT ![c] = [call[c] EXCEPT !.at = "fall_back", !.error = TRUE]]
        BY <1>1, <1>5, <3>1 DEF RecordFailure, CallType
      <4> QED BY <1>1, <4>2, <4>3 DEF CallType
    <3>2. CASE ~cached
      BY <1>1, <1>5, <3>2, ReturnsType, OutcomeTypes DEF RecordFailure
    <3> QED BY <3>1, <3>2
  <2>2. UNCHANGED <<cache, fresh>>
    BY <1>5 DEF Guarded, RecordFailure
  <2> QED BY <1>3, <2>1, <2>2, CacheUntouched DEF CacheInv
<1>6. CASE SetCache(c)
  <2>1. CallType'
    BY <1>1, <1>2, <1>6, ReturnsType, OutcomeTypes DEF SetCache
  <2>2. PICK key \in Keys, value \in Values : key = call[c].key /\ value = call[c].value
    BY <1>2
  <2>3. /\ cache' = [cache EXCEPT ![key] = {[value |-> value, age |-> 0]}]
        /\ fresh' = {f \in fresh : f.key # key \/ f.value # value}
                      \cup {[key |-> key, value |-> value, age |-> 0]}
    BY <1>6, <2>2 DEF SetCache, Cache!set, Guarded
  <2>4. CacheType'
    <3>1. [value |-> value, age |-> 0] \in CacheTimes /\ [key |-> key, value |-> value, age |-> 0] \in FreshTimes
      BY DEF CacheTimes, FreshTimes
    <3>2. cache' \in [Keys -> SUBSET CacheTimes]
      BY <1>1, <2>3, <3>1 DEF CacheType
    <3>3. fresh' \in SUBSET FreshTimes
      BY <1>1, <2>3, <3>1 DEF CacheType
    <3> QED BY <3>2, <3>3 DEF CacheType
  <2>5. CacheFresh'
    <3> SUFFICES ASSUME NEW k \in Keys, NEW e \in cache'[k], e.age < ttl
                 PROVE  \E f \in fresh' : f.key = k /\ f.value = e.value /\ f.age <= e.age
      BY DEF CacheFresh, Fresh
    <3>1. CASE k = key
      <4>1. cache'[k] = {[value |-> value, age |-> 0]}
        BY <1>1, <2>3, <3>1 DEF CacheType
      <4>2. e.value = value /\ e.age = 0
        BY <4>1
      <4>3. [key |-> key, value |-> value, age |-> 0] \in fresh'
        BY <2>3
      <4> QED BY <3>1, <4>2, <4>3
    <3>2. CASE k # key
      <4>1. e \in cache[k]
        BY <1>1, <2>3, <3>2 DEF CacheType
      <4>2. PICK f \in fresh : f.key = k /\ f.value = e.value /\ f.age <= e.age
        BY <1>1, <4>1 DEF CacheFresh, Fresh
      <4>3. f \in fresh'
        BY <2>3, <3>2, <4>2
      <4> QED BY <4>2, <4>3
    <3> QED BY <3>1, <3>2
  <2> QED BY <1>3, <2>1, <2>4, <2>5 DEF CacheInv
<1>7. CASE fall_back(c)
  <2>1. PICK key \in Keys : key = call[c].key
    BY <1>2
  <2>2. cache' = [cache EXCEPT ![key] = {x \in cache[key] : x.age < ttl}]
    BY <1>1, <1>7, <2>1, FoundLive DEF fall_back
  <2>3. fresh' = fresh
    BY <1>7 DEF Guarded, fall_back
  <2>4. CallType'
    <3>1. \A v \in Cache!get(cache, key).value : v \in Values
      BY <1>1, FoundLive
    <3>2. \E outcome \in HybridOutcome : Returns(c, outcome)
      BY <1>2, <1>7, <2>1, <3>1, OutcomeTypes DEF fall_back
    <3> QED BY <1>1, <3>2, ReturnsType
  <2>5. \A k \in Keys : cache'[k] \subseteq cache[k]
    BY <1>1, <2>2 DEF CacheType
  <2>6. CacheType'
    BY <1>1, <2>2, <2>3 DEF CacheType
  <2>7. CacheFresh'
    BY <1>1, <2>3, <2>5 DEF CacheFresh, Fresh
  <2> QED BY <1>3, <2>4, <2>6, <2>7 DEF CacheInv
<1> QED BY <1>4, <1>5, <1>6, <1>7 DEF Guarded, GuardStep

\* Time ages both alike.
LEMMA TimeKeeps ==
    ASSUME CacheInv, Time
    PROVE  CacheInv'
<1>1. CallType /\ PendingType /\ CacheType /\ CacheFresh
  BY DEF CacheInv
<1>2. CallType' /\ PendingType'
  BY <1>1 DEF Time, Tick, CallType, PendingType
<1>3. /\ cache' = [k \in Keys |-> {[e EXCEPT !.age = IF @ < ttl THEN @ + 1 ELSE @] : e \in cache[k]}]
      /\ fresh' = {[f EXCEPT !.age = @ + 1] : f \in {f \in fresh : f.age + 1 < ttl}}
  BY <1>1 DEF Time, Tick, Cache!Age, CacheType
<1>4. CacheType'
  <2>1. \A e \in CacheTimes : [e EXCEPT !.age = IF @ < ttl THEN @ + 1 ELSE @] \in CacheTimes
    BY DurationsAssumption DEF CacheTimes
  <2>2. \A f \in FreshTimes : [f EXCEPT !.age = @ + 1] \in FreshTimes
    BY DEF FreshTimes
  <2>3. cache' \in [Keys -> SUBSET CacheTimes]
    BY <1>1, <1>3, <2>1 DEF CacheType
  <2>4. fresh' \in SUBSET FreshTimes
    BY <1>1, <1>3, <2>2 DEF CacheType
  <2> QED BY <2>3, <2>4 DEF CacheType
<1>5. CacheFresh'
  <2> SUFFICES ASSUME NEW k \in Keys, NEW e \in cache'[k], e.age < ttl
               PROVE  \E f \in fresh' : f.key = k /\ f.value = e.value /\ f.age <= e.age
    BY DEF CacheFresh, Fresh
  <2>1. PICK d \in cache[k] : e = [d EXCEPT !.age = IF @ < ttl THEN @ + 1 ELSE @]
    BY <1>3
  <2>2. d \in CacheTimes
    BY <1>1 DEF CacheType
  <2>3. e.value = d.value /\ d.age \in Nat /\ e.age = d.age + 1 /\ d.age < ttl
    BY <2>1, <2>2, DurationsAssumption DEF CacheTimes
  <2>4. PICK f \in fresh : f.key = k /\ f.value = d.value /\ f.age <= d.age
    BY <1>1, <2>3 DEF CacheFresh, Fresh
  <2>5. f \in FreshTimes
    BY <1>1 DEF CacheType
  <2>6. PICK g : g = [f EXCEPT !.age = @ + 1]
    OBVIOUS
  <2>7. g.key = k /\ g.value = e.value /\ g.age <= e.age /\ f.age + 1 < ttl
    BY <2>3, <2>4, <2>5, <2>6, DurationsAssumption DEF FreshTimes
  <2>8. g \in fresh'
    BY <1>3, <2>6, <2>7
  <2> QED BY <2>7, <2>8
<1> QED BY <1>2, <1>4, <1>5 DEF CacheInv

LEMMA CacheInvHolds == Spec => []CacheInv
<1>1. Init => CacheInv
  <2> SUFFICES ASSUME Init PROVE CacheInv
    OBVIOUS
  <2>1. CallType
    <3>1. SomeKey \in Keys /\ SomeValue \in Values
      BY KeysAssumption DEF SomeKey, SomeValue
    <3> QED BY <3>1, OutcomeTypes DEF Init, GuardInit, CallType, Call
  <2>2. PendingType
    <3>1. workload.writes \in [Callers -> Seq(Writes)]
      BY WorkloadsAssumption DEF Init, Writes
    <3>2. pending \in [Callers -> [writes : Seq(Writes), write : {NoWrite}]]
      BY <3>1 DEF Init
    <3> QED BY <3>2 DEF PendingType
  <2>3. CacheType /\ CacheFresh
    BY DEF Init, GuardInit, Cache!new, CacheType, CacheFresh
  <2> QED BY <2>1, <2>2, <2>3 DEF CacheInv
<1>2. CacheInv /\ [Next]_vars => CacheInv'
  <2> SUFFICES ASSUME CacheInv, [Next]_vars PROVE CacheInv'
    OBVIOUS
  <2>1. ASSUME NEW c \in Callers, CallStep(c) PROVE CacheInv'
    BY <2>1, CallsType, GuardedKeeps DEF CallStep
  <2>2. CASE Time
    BY <2>2, TimeKeeps
  <2>3. CASE HealthCheck \/ Turn \/ Cluster \/ Watch \/ UNCHANGED vars
    <3>1. UNCHANGED <<cache, call, pending, fresh>>
      BY <2>3 DEF HealthCheck, breaker_state, Turn, Cluster, Watch, guardVars, callVars, vars
    <3>2. CallType' /\ PendingType'
      BY <3>1 DEF CacheInv, CallType, PendingType
    <3> QED BY <3>1, <3>2, CacheUntouched DEF CacheInv
  <2> QED BY <2>1, <2>2, <2>3 DEF Next
<1> QED BY <1>1, <1>2, PTL DEF Spec

\* A fallback that serves a cached value serves one put there less than a TTL ago.
ServesFresh(c) ==
    call[c].at = "fall_back" /\ call'[c].at = "idle" /\ call'[c].outcome.is = "Cached" =>
        \E f \in fresh : f.key = call[c].key /\ f.value = call'[c].outcome.value

\* Only its own step changes a call, and a fallback's only step is fall_back.
LEMMA FallBackAlone ==
    ASSUME CallType, [Next]_vars, NEW c \in Callers, call[c].at = "fall_back", call'[c].at = "idle"
    PROVE  fall_back(c)
<1>1. PICK d \in Callers : CallStep(d)
  <2>1. ~(HealthCheck \/ Turn \/ Time \/ Cluster \/ Watch \/ UNCHANGED vars)
    BY DEF HealthCheck, breaker_state, Turn, Time, Tick, Cluster, Watch, guardVars, vars
  <2> QED BY <2>1 DEF Next
<1>2. d = c
  <2> SUFFICES ASSUME d # c PROVE call'[c] = call[c]
    OBVIOUS
  <2>1. \A step : Goto(d, step) => call'[c] = call[c]
    BY DEF Goto, CallType
  <2>2. \A outcome : Returns(d, outcome) => call'[c] = call[c]
    BY DEF Returns, CallType
  <2>3. \A key, value : Begin(d, key, value) => call'[c] = call[c]
    BY DEF Begin, CallType
  <2>4. CASE BeginWrite(d) \/ BeginOperation(d)
    BY <2>3, <2>4 DEF BeginWrite, BeginOperation
  <2>5. CASE ClientWrite(d) \/ WriteReturns(d) \/ Operation(d)
    BY <2>1, <2>5 DEF ClientWrite, WriteReturns, Operation
  <2>6. CASE Guarded(d)
    <3>1. [call EXCEPT ![d].at = "fall_back", ![d].error = TRUE][c] = call[c]
      BY DEF CallType
    <3> QED BY <2>1, <2>2, <2>6, <3>1
            DEF Guarded, GuardStep, RecordSuccess, RecordFailure, SetCache, fall_back
  <2> QED BY <1>1, <2>4, <2>5, <2>6 DEF CallStep
<1> QED BY <1>1, <1>2 DEF CallStep, BeginWrite, BeginOperation, Begin, ClientWrite, WriteReturns,
           Operation, Guarded, GuardStep, RecordSuccess, RecordFailure, SetCache

LEMMA FallbackStep ==
    ASSUME CacheInv, [Next]_vars, NEW c \in Callers
    PROVE  ServesFresh(c)
<1> SUFFICES ASSUME call[c].at = "fall_back", call'[c].at = "idle", call'[c].outcome.is = "Cached"
             PROVE  \E f \in fresh : f.key = call[c].key /\ f.value = call'[c].outcome.value
  BY DEF ServesFresh
<1>1. CallType /\ CacheType /\ CacheFresh
  BY DEF CacheInv
<1>2. fall_back(c)
  BY <1>1, FallBackAlone
<1>3. PICK key \in Keys : key = call[c].key
  BY <1>1 DEF CallType, Call
<1>4. call[c].error \in BOOLEAN
  BY <1>1 DEF CallType, Call
<1>5. ~Returns(c, [is |-> "Unavailable", error |-> call[c].error])
  <2> SUFFICES ASSUME Returns(c, [is |-> "Unavailable", error |-> call[c].error]) PROVE FALSE
    OBVIOUS
  <2>1. call'[c].outcome = [is |-> "Unavailable", error |-> call[c].error]
    BY <1>1, <1>4, ReturnsType, OutcomeTypes
  <2> QED BY <2>1
<1>6. PICK v \in Cache!get(cache, key).value : Returns(c, [is |-> "Cached", value |-> v])
  BY <1>2, <1>3, <1>5 DEF fall_back
<1>7. v \in Values /\ \E e \in cache[key] : e.age < ttl /\ e.value = v
  BY <1>1, <1>6, FoundLive
<1>8. call'[c].outcome.value = v
  <2>1. call'[c].outcome = [is |-> "Cached", value |-> v]
    BY <1>1, <1>6, <1>7, ReturnsType, OutcomeTypes
  <2> QED BY <2>1
<1> QED BY <1>1, <1>3, <1>7, <1>8 DEF CacheFresh, Fresh

\* HybridGuard::call, FallbackCache::get: whatever a fallback serves was put in the cache
\* less than a TTL ago, though the cache may expire, be replaced or be read by others
\* between the failure and the fallback.
THEOREM FallbackServesFresh == Spec => [][\A c \in Callers : ServesFresh(c)]_vars
<1>1. CacheInv /\ [Next]_vars => [\A c \in Callers : ServesFresh(c)]_vars
  BY FallbackStep
<1> QED BY <1>1, CacheInvHolds, PTL DEF Spec

-----------------------------------------------------------------------------
(* Logs, state machines and memberships                                     *)

\* What a membership that is proposed anywhere may be, if it must keep the nodes of K in
\* the last of its configurations.
Memberships(K) ==
    {p \in [is : {"Membership"}, configs : Seq(SUBSET Nodes) \ {<<>>}, learners : SUBSET Nodes] :
        K \subseteq Last(p.configs)}

Sets == [is : {"Set"}, key : Keys, value : Values]

Payloads(K) == {Blank} \cup Sets \cup Memberships(K)

Entries(K) == [log_id : LogIds, payload : Payloads(K)]

\* Entries are at their indexes, and the first makes a membership.
Logs(K) ==
    {f \in UNION {[D -> Entries(K)] : D \in SUBSET (1..MaxLog)} :
        \A i \in DOMAIN f : f[i].log_id.index = i /\ (i = 1 => f[i].payload \in Memberships(K))}

Stores(K) == [log : Logs(K), vote : Option(1..MaxTerm), last_purged : Option(LogIds)]

\* Who has applied anything knows a membership, and so does a snapshot.
Maps == UNION {[D -> Values] : D \in SUBSET Keys}
Datas(K) ==
    {d \in [last_applied_log : Option(LogIds), last_membership : Option(Memberships(K)), kv : Maps] :
        d.last_applied_log # {} => d.last_membership # {}}
Snapshots(K) ==
    [meta : [last_log_id : {{id} : id \in LogIds}, last_membership : {{p} : p \in Memberships(K)}],
     data : Maps]
Machines(K) ==
    {m \in [data : Datas(K), snapshot : Option(Snapshots(K)), building : Option(Snapshots(K)),
            installing : Option(Snapshots(K))] :
        m.snapshot \cup m.building \cup m.installing # {} => m.data.last_membership # {}}

\* A node that goes by some membership, and one whose log is not at its start.
Knows(n) ==
    \/ \E i \in DOMAIN store[n].log : store[n].log[i].payload.is = "Membership"
    \/ machine[n].data.last_membership # {}
Begun(n) == DOMAIN store[n].log # {} \/ store[n].last_purged # {} \/ machine[n].installing # {}

ClusterType(K) ==
    /\ hub \in [Nodes -> {"new", "registered", "shut_down"}]
    /\ store \in [Nodes -> Stores(K)]
    /\ machine \in [Nodes -> Machines(K)]
    /\ leading \in [Nodes -> Option(1..MaxTerm)]
    /\ commit \in [Nodes -> 0..MaxLog]
    /\ committed \in Seq(Entries(K)) /\ Len(committed) <= MaxLog

\* Leaders go by a membership, and who has applied one has a log.
ClusterInv(K) ==
    /\ ClusterType(K)
    /\ \A n \in Nodes : leading[n] # {} => Knows(n)
    /\ \A n \in Nodes : machine[n].data.last_membership # {} => Begun(n)

\* The voters that every version of the source names.
Stable == workload.voters \cap {m \in Nodes : \A d \in Range(workload.source) : m \in d}

\* The watcher has something to do where it says so, and removes no stable voter.
WatcherInv(K) ==
    /\ watcher \in Watcher
    /\ watcher.at \in {"add_learner", "learner_wait"} => ToLearn # {}
    /\ watcher.leaving \cap K = {}
    /\ source \in Seq(SUBSET Nodes) \ {<<>>}
    /\ \A i \in 1..Len(source) : K \subseteq source[i]

\* The writes go to nodes, and are waited for by the term and the index they were given.
WriteIds == [handle : Nodes, term : 0..MaxTerm, index : 0..MaxLog]
WritesInv == pending \in [Callers -> [writes : Seq(Writes), write : WriteIds]]

MembersInv == workload \in Workloads /\ ClusterInv(Stable) /\ WatcherInv(Stable) /\ WritesInv

\* The least and the greatest of a set of numbers.
LEMMA LeastOf == ASSUME NEW T \in SUBSET Nat, T # {} PROVE \E x \in T : \A y \in T : x <= y
<1>1. PICK x \in T : \A y \in T : <<y, x>> \notin OpToRel(<, Nat)
  BY NatLessThanWellFounded, WFMin
<1>2. \A y \in T : ~(y < x)
  BY <1>1 DEF OpToRel
<1> QED BY <1>2

LEMMA MinOf == ASSUME NEW T \in SUBSET Nat, T # {} PROVE Min(T) \in T
BY LeastOf DEF Min

LEMMA MaxOf ==
    ASSUME NEW m \in Nat, NEW T \in SUBSET (0..m), T # {}
    PROVE  Max(T) \in T /\ \A x \in T : x <= Max(T)
<1> DEFINE below == {m - x : x \in T}
<1>1. below \in SUBSET Nat /\ below # {}
  <2>1. \A x \in T : m - x \in Nat
    OBVIOUS
  <2> QED BY <2>1
<1>2. PICK b \in below : \A c \in below : b <= c
  BY <1>1, LeastOf
<1>3. m - b \in T /\ \A x \in T : m - b >= x
  BY <1>2
<1> QED BY <1>3 DEF Max

LEMMA NoEntries == ASSUME NEW f, NEW E, f \in [{} -> E] PROVE f = <<>>
OBVIOUS

LEMMA NoKeys == <<>> \in Maps
<1>1. <<>> \in [{} -> Values]
  OBVIOUS
<1> QED BY <1>1 DEF Maps

\* What an Option holds.
LEMMA OptionIs ==
    ASSUME NEW S, NEW option \in Option(S), NEW otherwise
    PROVE  /\ option = {} => Elements(option, otherwise) = otherwise
           /\ option # {} => Elements(option, otherwise) \in S /\ option = {Elements(option, otherwise)}
BY DEF Option, Elements

LEMMA LogIdIs == \A id \in LogIds : id.index \in 1..MaxLog /\ id.term \in 0..MaxTerm
BY DEF LogIds

LEMMA MembershipIs ==
    ASSUME NEW K, NEW p \in Memberships(K)
    PROVE  /\ p.is = "Membership" /\ K \subseteq Last(p.configs) /\ p.learners \in SUBSET Nodes
           /\ p.configs \in Seq(SUBSET Nodes) /\ p.configs # <<>>
           /\ p = [is |-> "Membership", configs |-> p.configs, learners |-> p.learners]
BY DEF Memberships

LEMMA MembershipMakes ==
    ASSUME NEW K, NEW configs \in Seq(SUBSET Nodes), configs # <<>>, NEW learners \in SUBSET Nodes,
           K \subseteq Last(configs)
    PROVE  Membership(configs, learners) \in Memberships(K)
BY DEF Memberships, Membership

\* Voters are nodes, and those of the last configuration are among them.
LEMMA VotersIn ==
    ASSUME NEW configs \in Seq(SUBSET Nodes)
    PROVE  /\ UNION Range(configs) \in SUBSET Nodes
           /\ configs # <<>> => Last(configs) \in SUBSET Nodes /\ Last(configs) \subseteq UNION Range(configs)
<1>1. Len(configs) \in Nat /\ DOMAIN configs = 1..Len(configs)
      /\ \A i \in 1..Len(configs) : configs[i] \in SUBSET Nodes
  OBVIOUS
<1>2. UNION Range(configs) \in SUBSET Nodes
  BY <1>1 DEF Range
<1>3. configs # <<>> => Len(configs) \in 1..Len(configs)
  BY <1>1
<1> QED BY <1>1, <1>2, <1>3 DEF Last, Range

LEMMA PayloadIs ==
    ASSUME NEW K, NEW p \in Payloads(K)
    PROVE  /\ p.is \in {"Blank", "Set", "Membership"}
           /\ p.is = "Blank" <=> p = Blank
           /\ p.is = "Set" <=> p \in Sets
           /\ p.is = "Membership" <=> p \in Memberships(K)
<1>1. p = Blank => p.is = "Blank"
  BY DEF Blank
<1>2. p \in Sets => p.is = "Set"
  BY DEF Sets
<1>3. p \in Memberships(K) => p.is = "Membership"
  BY MembershipIs
<1> QED BY <1>1, <1>2, <1>3 DEF Payloads

LEMMA EntryMakes ==
    ASSUME NEW K, NEW term \in 0..MaxTerm, NEW i \in 1..MaxLog, NEW p \in Payloads(K)
    PROVE  Entry(term, i, p) \in Entries(K) /\ Entry(term, i, p).log_id.index = i
           /\ Entry(term, i, p).payload = p
BY DEF Entry, Entries, LogIds

LEMMA EntryIs ==
    ASSUME NEW K, NEW e \in Entries(K)
    PROVE  e.log_id \in LogIds /\ e.payload \in Payloads(K)
BY DEF Entries

LEMMA LogIs ==
    ASSUME NEW K, NEW f \in Logs(K)
    PROVE  /\ DOMAIN f \in SUBSET (1..MaxLog)
           /\ \A i \in DOMAIN f : /\ f[i] \in Entries(K) /\ f[i].log_id.index = i
                                  /\ i = 1 => f[i].payload \in Memberships(K)
           /\ f # <<>> <=> DOMAIN f # {}
           /\ f = [i \in DOMAIN f |-> f[i]]
<1>1. PICK D \in SUBSET (1..MaxLog) : f \in [D -> Entries(K)]
  BY DEF Logs
<1>2. D = {} => f = <<>>
  BY <1>1, NoEntries
<1>3. f = <<>> => DOMAIN f = {}
  OBVIOUS
<1> QED BY <1>1, <1>2, <1>3 DEF Logs

LEMMA LogMakes ==
    ASSUME NEW K, NEW D \in SUBSET (1..MaxLog), NEW f \in [D -> Entries(K)],
           \A i \in D : f[i].log_id.index = i /\ (i = 1 => f[i].payload \in Memberships(K))
    PROVE  f \in Logs(K)
BY DEF Logs

LEMMA StoreIs ==
    ASSUME NEW K, NEW s \in Stores(K)
    PROVE  /\ s.log \in Logs(K) /\ s.vote \in Option(1..MaxTerm) /\ s.last_purged \in Option(LogIds)
           /\ s = [log |-> s.log, vote |-> s.vote, last_purged |-> s.last_purged]
BY DEF Stores

LEMMA StoreMakes ==
    ASSUME NEW K, NEW log \in Logs(K), NEW vote \in Option(1..MaxTerm), NEW purged \in Option(LogIds)
    PROVE  [log |-> log, vote |-> vote, last_purged |-> purged] \in Stores(K)
BY DEF Stores

-----------------------------------------------------------------------------
(* What the calls of the two stores keep                                    *)

\* save_vote.
LEMMA VoteKeeps ==
    ASSUME NEW K, NEW s \in Stores(K), NEW term \in 1..MaxTerm
    PROVE  /\ Log!save_vote(s, term) \in Stores(K)
           /\ Log!save_vote(s, term).log = s.log /\ Log!save_vote(s, term).last_purged = s.last_purged
<1>1. {term} \in Option(1..MaxTerm)
  BY DEF Option
<1>2. PICK vote : vote = {term}
  OBVIOUS
<1>3. [s EXCEPT !.vote = vote] = [log |-> s.log, vote |-> vote, last_purged |-> s.last_purged]
  BY StoreIs
<1>4. Log!save_vote(s, term) = [log |-> s.log, vote |-> vote, last_purged |-> s.last_purged]
  BY <1>2, <1>3 DEF Log!save_vote
<1>5. [log |-> s.log, vote |-> vote, last_purged |-> s.last_purged] \in Stores(K)
  BY <1>1, <1>2, StoreIs, StoreMakes
<1> QED BY <1>4, <1>5

\* A log of which some entries are left.
LEMMA RestrictKeeps ==
    ASSUME NEW K, NEW f \in Logs(K), NEW D \in SUBSET DOMAIN f
    PROVE  Restrict(f, D) \in Logs(K) /\ DOMAIN Restrict(f, D) = D
           /\ \A i \in D : Restrict(f, D)[i] = f[i]
<1>1. D \in SUBSET (1..MaxLog) /\ Restrict(f, D) \in [D -> Entries(K)]
  BY LogIs DEF Restrict
<1>2. \A i \in D : Restrict(f, D)[i] = f[i]
  BY DEF Restrict
<1>3. \A i \in D : Restrict(f, D)[i].log_id.index = i
                   /\ (i = 1 => Restrict(f, D)[i].payload \in Memberships(K))
  BY <1>2, LogIs
<1> QED BY <1>1, <1>2, <1>3, LogMakes

\* truncate.
LEMMA TruncateKeeps ==
    ASSUME NEW K, NEW s \in Stores(K), NEW index \in Nat
    PROVE  /\ Log!truncate(s, index) \in Stores(K)
           /\ Log!truncate(s, index).last_purged = s.last_purged
<1> DEFINE D == {i \in DOMAIN s.log : i < index}
<1>1. PICK log : log = Restrict(s.log, D)
  OBVIOUS
<1>2. Log!truncate(s, index) = [log |-> log, vote |-> s.vote, last_purged |-> s.last_purged]
  BY <1>1, StoreIs DEF Log!truncate, Log!Restrict, Restrict
<1>3. log \in Logs(K)
  BY <1>1, StoreIs, RestrictKeeps
<1> QED BY <1>2, <1>3, StoreIs, StoreMakes

\* purge: there is something purged.
LEMMA PurgeKeeps ==
    ASSUME NEW K, NEW s \in Stores(K), NEW id \in LogIds
    PROVE  Log!purge(s, id) \in Stores(K) /\ Log!purge(s, id).last_purged # {}
<1> DEFINE D == {i \in DOMAIN s.log : i > id.index}
<1>1. PICK log : log = Restrict(s.log, D)
  OBVIOUS
<1>2. PICK purged : purged = IF \E p \in s.last_purged : ~Log!Precedes(p, id) THEN s.last_purged ELSE {id}
  OBVIOUS
<1>3. Log!purge(s, id) = [log |-> log, vote |-> s.vote, last_purged |-> purged]
  <2>1. Log!purge(s, id) = [s EXCEPT !.last_purged = purged, !.log = log]
    BY <1>1, <1>2, Zenon DEF Log!purge, Log!Restrict, Restrict
  <2>2. [s EXCEPT !.last_purged = purged, !.log = log]
        = [log |-> log, vote |-> s.vote, last_purged |-> purged]
    <3>1. PICK t : t = [s EXCEPT !.last_purged = purged]
      OBVIOUS
    <3>2. t = [log |-> s.log, vote |-> s.vote, last_purged |-> purged]
      BY <3>1, StoreIs
    <3>3. [t EXCEPT !.log = log] = [log |-> log, vote |-> s.vote, last_purged |-> purged]
      BY <3>2
    <3> QED BY <3>1, <3>3, Zenon
  <2> QED BY <2>1, <2>2
<1>4. log \in Logs(K)
  BY <1>1, StoreIs, RestrictKeeps
<1>5. purged \in Option(LogIds) /\ purged # {}
  BY <1>2, StoreIs DEF Option
<1> QED BY <1>3, <1>4, <1>5, StoreIs, StoreMakes

\* append of one entry.
LEMMA AppendKeeps ==
    ASSUME NEW K, NEW s \in Stores(K), NEW e \in Entries(K),
           e.log_id.index = 1 => e.payload \in Memberships(K)
    PROVE  /\ Log!append(s, {e}) \in Stores(K)
           /\ Log!append(s, {e}).last_purged = s.last_purged
           /\ DOMAIN Log!append(s, {e}).log = DOMAIN s.log \cup {e.log_id.index}
           /\ \A i \in DOMAIN s.log : i # e.log_id.index => Log!append(s, {e}).log[i] = s.log[i]
<1> DEFINE x == e.log_id.index
           D == DOMAIN s.log \cup {x}
           log == [i \in D |-> IF i = x THEN e ELSE s.log[i]]
<1>1. x \in 1..MaxLog
  BY EntryIs, LogIdIs
<1>2. s.log \in Logs(K) /\ DOMAIN s.log \in SUBSET (1..MaxLog)
      /\ \A i \in DOMAIN s.log : /\ s.log[i] \in Entries(K) /\ s.log[i].log_id.index = i
                                 /\ i = 1 => s.log[i].payload \in Memberships(K)
  BY StoreIs, LogIs
<1>3. log \in [D -> Entries(K)] /\ D \in SUBSET (1..MaxLog)
  BY <1>1, <1>2
<1>4. \A i \in D : log[i].log_id.index = i /\ (i = 1 => log[i].payload \in Memberships(K))
  BY <1>2
<1> HIDE DEF D
<1>5. log \in Logs(K)
  BY <1>3, <1>4, LogMakes
<1> USE DEF D
<1>6. log = [i \in DOMAIN s.log \cup {f.log_id.index : f \in {e}} |->
               IF i \in {f.log_id.index : f \in {e}}
               THEN CHOOSE f \in {e} : f.log_id.index = i ELSE s.log[i]]
  <2>1. {f.log_id.index : f \in {e}} = {x}
    OBVIOUS
  <2>2. \A i : i = x => (CHOOSE f \in {e} : f.log_id.index = i) = e
    OBVIOUS
  <2> QED BY <2>1, <2>2
<1> HIDE DEF log
<1>7. Log!append(s, {e}) = [log |-> log, vote |-> s.vote, last_purged |-> s.last_purged]
  BY <1>6, StoreIs DEF Log!append
<1>8. DOMAIN log = D /\ \A i \in DOMAIN s.log : i # x => log[i] = s.log[i]
  BY DEF log
<1>9. Log!append(s, {e}) \in Stores(K)
  BY <1>5, <1>7, StoreIs, StoreMakes
<1>10. Log!append(s, {e}).log = log /\ Log!append(s, {e}).last_purged = s.last_purged
  BY <1>7
<1> QED BY <1>8, <1>9, <1>10

\* append of nothing.
LEMMA AppendNothing == ASSUME NEW K, NEW s \in Stores(K) PROVE Log!append(s, {}) = s
<1>1. s.log = [i \in DOMAIN s.log |-> s.log[i]]
  BY StoreIs, LogIs
<1>2. [i \in DOMAIN s.log \cup {e.log_id.index : e \in {}} |->
         IF i \in {e.log_id.index : e \in {}} THEN CHOOSE e \in {} : e.log_id.index = i ELSE s.log[i]]
      = [i \in DOMAIN s.log |-> s.log[i]]
  OBVIOUS
<1>3. PICK log : log = s.log
  OBVIOUS
<1>4. Log!append(s, {}) = [s EXCEPT !.log = log]
  BY <1>1, <1>2, <1>3 DEF Log!append
<1> QED BY <1>3, <1>4, StoreIs

LEMMA DataIs ==
    ASSUME NEW K, NEW d \in Datas(K)
    PROVE  /\ d.last_applied_log \in Option(LogIds) /\ d.last_membership \in Option(Memberships(K))
           /\ d.kv \in Maps /\ (d.last_applied_log # {} => d.last_membership # {})
           /\ d = [last_applied_log |-> d.last_applied_log, last_membership |-> d.last_membership,
                   kv |-> d.kv]
BY DEF Datas

LEMMA DataMakes ==
    ASSUME NEW K, NEW id \in Option(LogIds), NEW p \in Option(Memberships(K)), NEW kv \in Maps,
           id # {} => p # {}
    PROVE  [last_applied_log |-> id, last_membership |-> p, kv |-> kv] \in Datas(K)
BY DEF Datas

LEMMA SnapshotIs ==
    ASSUME NEW K, NEW s \in Snapshots(K)
    PROVE  /\ \E id \in LogIds : s.meta.last_log_id = {id}
           /\ \E p \in Memberships(K) : s.meta.last_membership = {p}
           /\ s.data \in Maps
BY DEF Snapshots

LEMMA MachineIs ==
    ASSUME NEW K, NEW m \in Machines(K)
    PROVE  /\ m.data \in Datas(K) /\ m.snapshot \in Option(Snapshots(K))
           /\ m.building \in Option(Snapshots(K)) /\ m.installing \in Option(Snapshots(K))
           /\ m.snapshot \cup m.building \cup m.installing # {} => m.data.last_membership # {}
           /\ m = [data |-> m.data, snapshot |-> m.snapshot, building |-> m.building,
                   installing |-> m.installing]
BY DEF Machines

LEMMA MachineMakes ==
    ASSUME NEW K, NEW d \in Datas(K), NEW a \in Option(Snapshots(K)), NEW b \in Option(Snapshots(K)),
           NEW c \in Option(Snapshots(K)), a \cup b \cup c # {} => d.last_membership # {}
    PROVE  [data |-> d, snapshot |-> a, building |-> b, installing |-> c] \in Machines(K)
BY DEF Machines

\* What a snapshot that is installed, or kept, changes in a machine.
LEMMA MachineWith ==
    ASSUME NEW K, NEW m \in Machines(K), NEW x, NEW c
    PROVE  /\ [m EXCEPT !.data = x, !.installing = c]
              = [data |-> x, snapshot |-> m.snapshot, building |-> m.building, installing |-> c]
           /\ [m EXCEPT !.snapshot = x, !.installing = c]
              = [data |-> m.data, snapshot |-> x, building |-> m.building, installing |-> c]
<1>1. m = [data |-> m.data, snapshot |-> m.snapshot, building |-> m.building, installing |-> m.installing]
  BY MachineIs
<1>2. PICK d, s : d = [m EXCEPT !.data = x] /\ s = [m EXCEPT !.snapshot = x]
  OBVIOUS
<1>3. /\ d = [data |-> x, snapshot |-> m.snapshot, building |-> m.building, installing |-> m.installing]
      /\ s = [data |-> m.data, snapshot |-> x, building |-> m.building, installing |-> m.installing]
  BY <1>1, <1>2
<1>4. [d EXCEPT !.installing = c]
      = [data |-> x, snapshot |-> m.snapshot, building |-> m.building, installing |-> c]
  BY <1>3
<1>5. [s EXCEPT !.installing = c]
      = [data |-> m.data, snapshot |-> x, building |-> m.building, installing |-> c]
  BY <1>3
<1> QED BY <1>2, <1>4, <1>5, Zenon

LEMMA OptionOf == ASSUME NEW S, NEW x \in S PROVE {x} \in Option(S) /\ {} \in Option(S)
BY DEF Option

\* apply: the first entry applied is the first of the log.
LEMMA ApplyKeeps ==
    ASSUME NEW K, NEW d \in Datas(K), NEW e \in Entries(K),
           d.last_applied_log = {} => e.payload \in Memberships(K)
    PROVE  /\ Machine!apply(d, e) \in Datas(K)
           /\ Machine!apply(d, e).last_applied_log # {} /\ Machine!apply(d, e).last_membership # {}
<1> DEFINE p == e.payload
<1>1. PICK id : id = {e.log_id} /\ id \in Option(LogIds)
  BY EntryIs, OptionOf
<1>2. PICK applied : applied = [d EXCEPT !.last_applied_log = {e.log_id}]
  OBVIOUS
<1>3. applied = [last_applied_log |-> id, last_membership |-> d.last_membership, kv |-> d.kv]
  <2>1. applied = [d EXCEPT !.last_applied_log = id]
    BY <1>1, <1>2
  <2>2. d = [last_applied_log |-> d.last_applied_log, last_membership |-> d.last_membership, kv |-> d.kv]
    BY DataIs
  <2> QED BY <2>1, <2>2
<1> DEFINE Made(q, kv) == [last_applied_log |-> id, last_membership |-> q, kv |-> kv]
<1>10. \A q \in Option(Memberships(K)) : \A kv \in Maps :
           q # {} => /\ Made(q, kv) \in Datas(K)
                     /\ Made(q, kv).last_applied_log # {} /\ Made(q, kv).last_membership = q
  <2> SUFFICES ASSUME NEW q \in Option(Memberships(K)), NEW kv \in Maps, q # {}
               PROVE  /\ Made(q, kv) \in Datas(K)
                      /\ Made(q, kv).last_applied_log # {} /\ Made(q, kv).last_membership = q
    OBVIOUS
  <2>1. Made(q, kv) \in Datas(K)
    BY <1>1, DataMakes
  <2>2. id # {}
    BY <1>1
  <2> QED BY <2>1, <2>2
<1>4. p \in Payloads(K)
  BY EntryIs
<1>5. p.is \in {"Blank", "Set", "Membership"} /\ (p.is = "Set" => p \in Sets)
      /\ (p.is = "Membership" <=> p \in Memberships(K))
  BY <1>4, PayloadIs
<1>6. Machine!apply(d, e) =
        CASE p.is = "Blank" -> applied
          [] p.is = "Set" -> [applied EXCEPT !.kv =
               [k \in DOMAIN @ \cup {p.key} |-> IF k = p.key THEN p.value ELSE @[k]]]
          [] p.is = "Membership" -> [applied EXCEPT !.last_membership = {p}]
  BY <1>2, Zenon DEF Machine!apply
<1> HIDE DEF p
<1>7. CASE p.is = "Blank"
  <2>1. Machine!apply(d, e) = applied /\ d.last_membership # {}
    BY <1>5, <1>6, <1>7, DataIs DEF p
  <2>2. d.last_membership \in Option(Memberships(K)) /\ d.kv \in Maps
    BY DataIs
  <2> QED BY <1>3, <1>10, <2>1, <2>2
<1>8. CASE p.is = "Set"
  <2>1. PICK kv : kv = [k \in DOMAIN d.kv \cup {p.key} |-> IF k = p.key THEN p.value ELSE d.kv[k]]
    OBVIOUS
  <2>2. applied.kv = d.kv
    BY <1>3
  <2>3. Machine!apply(d, e) = [applied EXCEPT !.kv = kv]
    BY <1>6, <1>8, <2>1, <2>2
  <2>4. Machine!apply(d, e) = [last_applied_log |-> id, last_membership |-> d.last_membership, kv |-> kv]
    BY <1>3, <2>3
  <2>5. kv \in Maps
    <3>1. PICK D \in SUBSET Keys : d.kv \in [D -> Values]
      BY DataIs DEF Maps
    <3>2. p.key \in Keys /\ p.value \in Values
      BY <1>5, <1>8 DEF Sets
    <3>3. kv \in [D \cup {p.key} -> Values] /\ D \cup {p.key} \in SUBSET Keys
      BY <2>1, <3>1, <3>2
    <3> QED BY <3>3 DEF Maps
  <2>6. d.last_membership # {} /\ d.last_membership \in Option(Memberships(K))
    BY <1>5, <1>8, DataIs DEF p
  <2> HIDE DEF Made
  <2>7. Machine!apply(d, e) = Made(d.last_membership, kv)
    BY <2>4 DEF Made
  <2> QED BY <1>10, <2>5, <2>6, <2>7
<1>9. CASE p.is = "Membership"
  <2>1. PICK new : new = {p} /\ new \in Option(Memberships(K)) /\ new # {}
    BY <1>5, <1>9, OptionOf
  <2>2. Machine!apply(d, e) = [applied EXCEPT !.last_membership = new]
    BY <1>6, <1>9, <2>1
  <2>3. Machine!apply(d, e) = [last_applied_log |-> id, last_membership |-> new, kv |-> d.kv]
    BY <1>3, <2>2
  <2>4. d.kv \in Maps
    BY DataIs
  <2> HIDE DEF Made
  <2>5. Machine!apply(d, e) = Made(new, d.kv)
    BY <2>3 DEF Made
  <2> QED BY <1>10, <2>1, <2>4, <2>5
<1> QED BY <1>5, <1>7, <1>8, <1>9

\* build_snapshot, of data to which something was applied.
LEMMA SnapshotKeeps ==
    ASSUME NEW K, NEW d \in Datas(K), d.last_applied_log # {}
    PROVE  Machine!Snapshot(d) \in Snapshots(K)
<1>1. \E id \in LogIds : d.last_applied_log = {id}
  BY DataIs DEF Option
<1>2. \E p \in Memberships(K) : d.last_membership = {p}
  BY DataIs DEF Option
<1> QED BY <1>1, <1>2, DataIs DEF Machine!Snapshot, Snapshots

\* install_snapshot.
LEMMA InstalledKeeps ==
    ASSUME NEW K, NEW s \in Snapshots(K), NEW d
    PROVE  Machine!Installed(d, s) \in Datas(K) /\ Machine!Installed(d, s).last_membership # {}
<1>1. /\ s.meta.last_log_id \in Option(LogIds)
      /\ s.meta.last_membership \in Option(Memberships(K)) /\ s.meta.last_membership # {}
      /\ s.data \in Maps
  BY SnapshotIs, OptionOf
<1> QED BY <1>1, DataMakes DEF Machine!Installed

-----------------------------------------------------------------------------
(* What a node knows                                                        *)

LEMMA InstallingIs ==
    ASSUME NEW K, ClusterType(K), NEW n \in Nodes
    PROVE  Installing(n) \in Option(LogIds) /\ (machine[n].installing # {} => Installing(n) # {})
<1>1. machine[n].installing \in Option(Snapshots(K))
  BY MachineIs DEF ClusterType
<1>2. CASE machine[n].installing = {}
  BY <1>2 DEF Installing, Option
<1>3. CASE machine[n].installing # {}
  <2>1. PICK s \in Snapshots(K) : machine[n].installing = {s}
    BY <1>1, <1>3 DEF Option
  <2>2. PICK id \in LogIds : s.meta.last_log_id = {id}
    BY SnapshotIs
  <2>3. Installing(n) = {id}
    BY <2>1, <2>2 DEF Installing
  <2> QED BY <2>3, OptionOf
<1> QED BY <1>2, <1>3

LEMMA LastLogIs ==
    ASSUME NEW K, ClusterType(K), NEW n \in Nodes
    PROVE  /\ LastLog(n).index \in 0..MaxLog /\ LastPurged(n).index \in 0..MaxLog
           /\ Begun(n) => LastLog(n).index \in 1..MaxLog
           /\ \A i \in DOMAIN store[n].log : i <= LastLog(n).index
<1> DEFINE s == store[n]
           last == Elements(Log!last_log_id(s), Origin)
<1>1. s \in Stores(K) /\ s.log \in Logs(K) /\ s.last_purged \in Option(LogIds)
  BY StoreIs DEF ClusterType
<1>2. Log!last_log_id(s) \in Option(LogIds)
      /\ (DOMAIN s.log # {} \/ s.last_purged # {} => Log!last_log_id(s) # {})
      /\ \A i \in DOMAIN s.log : \A id \in Log!last_log_id(s) : i <= id.index
  <2>1. CASE s.log = <<>>
    <3>1. Log!last_log_id(s) = s.last_purged /\ DOMAIN s.log = {}
      BY <1>1, <2>1, LogIs DEF Log!last_log_id
    <3> QED BY <1>1, <3>1
  <2>2. CASE s.log # <<>>
    <3>1. DOMAIN s.log \in SUBSET (0..MaxLog) /\ DOMAIN s.log # {}
      BY <1>1, <2>2, LogIs
    <3>2. Max(DOMAIN s.log) \in DOMAIN s.log /\ \A j \in DOMAIN s.log : j <= Max(DOMAIN s.log)
      BY <3>1, MaxOf, BoundsAssumption
    <3>3. PICK i \in DOMAIN s.log : i = Max(DOMAIN s.log) /\ \A j \in DOMAIN s.log : j <= i
      BY <3>2
    <3>4. Log!last_log_id(s) = {s.log[i].log_id}
      BY <2>2, <3>3 DEF Log!last_log_id, Log!Max, Max
    <3>5. s.log[i].log_id \in LogIds /\ s.log[i].log_id.index = i
      BY <1>1, LogIs, EntryIs
    <3> QED BY <3>3, <3>4, <3>5, OptionOf
  <2> QED BY <2>1, <2>2
<1>3. Origin.index = 0
  BY DEF Origin
<1>4. last.index \in 0..MaxLog /\ (DOMAIN s.log # {} \/ s.last_purged # {} => last.index \in 1..MaxLog)
  BY <1>2, <1>3, OptionIs, LogIdIs, BoundsAssumption
<1>11. DOMAIN s.log \in SUBSET (1..MaxLog) /\ \A i \in DOMAIN s.log : i <= last.index
  <2>1. DOMAIN s.log \in SUBSET (1..MaxLog)
    BY <1>1, LogIs
  <2>2. ASSUME NEW i \in DOMAIN s.log PROVE last \in Log!last_log_id(s)
    BY <1>2, OptionIs
  <2> QED BY <1>2, <2>1, <2>2
<1> HIDE DEF last, s
<1>5. Installing(n) \in Option(LogIds) /\ (machine[n].installing # {} => Installing(n) # {})
  BY InstallingIs
<1> DEFINE ahead == {id \in Installing(n) : last.index < id.index}
<1>6. ahead \in Option(LogIds)
  BY <1>5 DEF Option
<1>7. LastLog(n) = Elements(ahead, last)
  BY DEF LastLog, last, s
<1>8. machine[n].installing # {} => ahead # {} \/ last.index \in 1..MaxLog
  <2> SUFFICES ASSUME machine[n].installing # {}, ahead = {} PROVE last.index \in 1..MaxLog
    OBVIOUS
  <2>1. PICK id \in LogIds : id \in Installing(n)
    BY <1>5 DEF Option
  <2>2. ~(last.index < id.index) /\ id.index \in 1..MaxLog
    BY <2>1, LogIdIs
  <2> QED BY <1>4, <2>2, BoundsAssumption
<1> HIDE DEF ahead
<1>9. LastLog(n).index \in 0..MaxLog /\ (Begun(n) => LastLog(n).index \in 1..MaxLog)
  BY <1>4, <1>6, <1>7, <1>8, OptionIs, LogIdIs DEF Begun, s
<1>12. \A i \in DOMAIN s.log : i <= LastLog(n).index
  <2>1. CASE ahead = {}
    BY <1>6, <1>7, <1>11, <2>1, OptionIs
  <2>2. CASE ahead # {}
    <3>1. LastLog(n) \in ahead /\ LastLog(n) \in LogIds
      BY <1>6, <1>7, <2>2, OptionIs
    <3>2. last.index < LastLog(n).index /\ LastLog(n).index \in 1..MaxLog
      BY <3>1, LogIdIs DEF ahead
    <3> QED BY <1>4, <1>11, <3>2, BoundsAssumption
  <2> QED BY <2>1, <2>2
<1>10. LastPurged(n).index \in 0..MaxLog
  <2>1. PICK purged : purged = Elements(store[n].last_purged, Origin)
    OBVIOUS
  <2>2. purged.index \in 0..MaxLog
    BY <1>1, <1>3, <2>1, OptionIs, LogIdIs, BoundsAssumption DEF s
  <2>3. LastPurged(n) = Elements(Installing(n), purged)
    BY <2>1 DEF LastPurged
  <2> QED BY <1>5, <2>2, <2>3, OptionIs, LogIdIs
<1> QED BY <1>9, <1>10, <1>12 DEF s

LEMMA NextIndexIs ==
    ASSUME NEW K, ClusterType(K), NEW l \in Nodes, NEW m \in Nodes
    PROVE  NextIndex(l, m) \in 1..(MaxLog + 1)
<1> DEFINE T == {0} \cup {i \in DOMAIN store[l].log \cup {LastPurged(l).index} : TermAt(l, i) = TermAt(m, i)}
<1>1. DOMAIN store[l].log \in SUBSET (1..MaxLog)
  BY StoreIs, LogIs DEF ClusterType
<1>2. LastPurged(l).index \in 0..MaxLog
  BY LastLogIs
<1>3. T \in SUBSET (0..MaxLog) /\ T # {}
  BY <1>1, <1>2, BoundsAssumption
<1> HIDE DEF T
<1>4. Max(T) \in 0..MaxLog
  BY <1>3, MaxOf, BoundsAssumption
<1>5. NextIndex(l, m) = 1 + Max(T)
  BY DEF NextIndex, T
<1> QED BY <1>4, <1>5, BoundsAssumption

\* The membership a node goes by.
LEMMA ConfigIs ==
    ASSUME NEW K, ClusterType(K), NEW n \in Nodes
    PROVE  /\ Knows(n) => membership_config(n) \in Memberships(K)
           /\ ~Knows(n) => voter_ids(n) = {}
           /\ voter_ids(n) \in SUBSET Nodes
<1> DEFINE log == store[n].log
           indexes == {i \in DOMAIN log : log[i].payload.is = "Membership"}
           known == machine[n].data.last_membership
<1>1. log \in Logs(K) /\ known \in Option(Memberships(K))
  BY StoreIs, MachineIs, DataIs DEF ClusterType
<1>2. CASE indexes # {}
  <2>1. indexes \in SUBSET (0..MaxLog)
    BY <1>1, LogIs
  <2>2. Max(indexes) \in indexes
    BY <1>2, <2>1, MaxOf, BoundsAssumption
  <2>3. PICK i \in indexes : i = Max(indexes)
    BY <2>2
  <2>4. membership_config(n) = log[i].payload
    BY <1>2, <2>3 DEF membership_config
  <2>5. log[i].payload \in Memberships(K)
    BY <1>1, <2>3, LogIs, EntryIs, PayloadIs
  <2>6. Knows(n)
    BY <1>2 DEF Knows
  <2> QED BY <2>4, <2>5, <2>6, MembershipIs, VotersIn DEF voter_ids
<1>3. CASE indexes = {}
  <2>1. membership_config(n) = Elements(known, Membership(<<{}>>, {})) /\ (Knows(n) <=> known # {})
    BY <1>3 DEF membership_config, Knows
  <2>2. CASE known # {}
    BY <1>1, <2>1, <2>2, OptionIs, MembershipIs, VotersIn DEF voter_ids
  <2>3. CASE known = {}
    <3>1. membership_config(n).configs = <<{}>>
      BY <2>1, <2>3 DEF Elements, Membership
    <3>2. UNION Range(<<{}>>) = {}
      BY DEF Range
    <3> QED BY <2>1, <2>3, <3>1, <3>2 DEF voter_ids
  <2> QED BY <2>2, <2>3
<1> QED BY <1>2, <1>3

-----------------------------------------------------------------------------
(* The cluster's steps                                                      *)

\* What ClusterInv says of one node.
NodeOk(K, n) ==
    /\ store[n] \in Stores(K) /\ machine[n] \in Machines(K)
    /\ leading[n] \in Option(1..MaxTerm) /\ commit[n] \in 0..MaxLog
    /\ leading[n] # {} => Knows(n)
    /\ machine[n].data.last_membership # {} => Begun(n)

AgreedOk(K) == committed \in Seq(Entries(K)) /\ Len(committed) <= MaxLog

HubOk == hub \in [Nodes -> {"new", "registered", "shut_down"}]

\* A step that only this node's stores and beliefs take part in.
OnlyAt(n) ==
    /\ \E s : store' = [store EXCEPT ![n] = s]
    /\ \E m : machine' = [machine EXCEPT ![n] = m]
    /\ \E l : leading' = [leading EXCEPT ![n] = l]
    /\ \E c : commit' = [commit EXCEPT ![n] = c]

LEMMA NodeIs == ASSUME NEW K, ClusterInv(K), NEW n \in Nodes PROVE NodeOk(K, n)
BY DEF ClusterInv, ClusterType, NodeOk

LEMMA ClusterMakes ==
    ASSUME NEW K, HubOk', AgreedOk(K)', \A n \in Nodes : NodeOk(K, n)',
           store' = [n \in Nodes |-> store'[n]], machine' = [n \in Nodes |-> machine'[n]],
           leading' = [n \in Nodes |-> leading'[n]], commit' = [n \in Nodes |-> commit'[n]]
    PROVE  ClusterInv(K)'
<1>1. store' \in [Nodes -> Stores(K)] /\ machine' \in [Nodes -> Machines(K)]
  BY DEF NodeOk
<1>2. leading' \in [Nodes -> Option(1..MaxTerm)] /\ commit' \in [Nodes -> 0..MaxLog]
  BY DEF NodeOk
<1> QED BY <1>1, <1>2 DEF NodeOk, ClusterInv, ClusterType, HubOk, AgreedOk

LEMMA OnlyAtMakes ==
    ASSUME NEW K, ClusterInv(K), NEW n \in Nodes, OnlyAt(n), NodeOk(K, n)', HubOk', AgreedOk(K)'
    PROVE  ClusterInv(K)'
<1>1. /\ store \in [Nodes -> Stores(K)] /\ machine \in [Nodes -> Machines(K)]
      /\ leading \in [Nodes -> Option(1..MaxTerm)] /\ commit \in [Nodes -> 0..MaxLog]
  BY DEF ClusterInv, ClusterType
<1>2. \A x \in Nodes \ {n} : store'[x] = store[x] /\ machine'[x] = machine[x]
                             /\ leading'[x] = leading[x] /\ commit'[x] = commit[x]
  BY <1>1 DEF OnlyAt
<1>3. ASSUME NEW x \in Nodes PROVE NodeOk(K, x)'
  <2>1. CASE x = n
    BY <2>1
  <2>2. CASE x # n
    BY <1>2, <2>2, NodeIs DEF NodeOk, Knows, Begun
  <2> QED BY <2>1, <2>2
<1>4. /\ store' = [x \in Nodes |-> store'[x]] /\ machine' = [x \in Nodes |-> machine'[x]]
      /\ leading' = [x \in Nodes |-> leading'[x]] /\ commit' = [x \in Nodes |-> commit'[x]]
  BY <1>1 DEF OnlyAt
<1> QED BY <1>3, <1>4, ClusterMakes

\* What does not move at a node.
LEMMA OnlyAtStays ==
    ASSUME NEW K, ClusterInv(K), NEW n \in Nodes
    PROVE  /\ store' = store => \E s : store' = [store EXCEPT ![n] = s]
           /\ machine' = machine => \E m : machine' = [machine EXCEPT ![n] = m]
           /\ leading' = leading => \E l : leading' = [leading EXCEPT ![n] = l]
           /\ commit' = commit => \E c : commit' = [commit EXCEPT ![n] = c]
<1>1. /\ store \in [Nodes -> Stores(K)] /\ machine \in [Nodes -> Machines(K)]
      /\ leading \in [Nodes -> Option(1..MaxTerm)] /\ commit \in [Nodes -> 0..MaxLog]
  BY DEF ClusterInv, ClusterType
<1>2. store = [store EXCEPT ![n] = store[n]] /\ machine = [machine EXCEPT ![n] = machine[n]]
  BY <1>1
<1>3. leading = [leading EXCEPT ![n] = leading[n]] /\ commit = [commit EXCEPT ![n] = commit[n]]
  BY <1>1
<1> QED BY <1>2, <1>3

LEMMA ClusterStays ==
    ASSUME NEW K, ClusterInv(K), UNCHANGED clusterVars
    PROVE  ClusterInv(K)'
BY DEF ClusterInv, ClusterType, clusterVars, Knows, Begun

\* register, Raft::shutdown.
LEMMA HubStep ==
    ASSUME NEW K, ClusterInv(K), NEW n \in Nodes, register(n) \/ shutdown(n)
    PROVE  ClusterInv(K)'
<1>1. HubOk' /\ AgreedOk(K)'
  BY DEF ClusterInv, ClusterType, HubOk, AgreedOk, register, shutdown
<1>2. \E l : leading' = [leading EXCEPT ![n] = l]
  BY OnlyAtStays DEF register, shutdown
<1>3. OnlyAt(n)
  BY <1>2, OnlyAtStays DEF OnlyAt, register, shutdown
<1>4. NodeOk(K, n)'
  <2>1. NodeOk(K, n) /\ leading \in [Nodes -> Option(1..MaxTerm)]
    BY NodeIs DEF ClusterInv, ClusterType
  <2>2. leading'[n] = leading[n] \/ leading'[n] = {}
    BY <2>1 DEF register, shutdown
  <2>3. {} \in Option(1..MaxTerm)
    BY DEF Option
  <2> QED BY <2>1, <2>2, <2>3 DEF register, shutdown, NodeOk, Knows, Begun
<1> QED BY <1>1, <1>3, <1>4, OnlyAtMakes

\* A leader's append: it is never the first entry of a log.
LEMMA LeaderStep ==
    ASSUME NEW K, ClusterInv(K), NEW n \in Nodes, NEW payload \in Payloads(K), LeaderAppends(n, payload)
    PROVE  ClusterInv(K)'
<1>1. HubOk' /\ AgreedOk(K)'
  BY DEF ClusterInv, ClusterType, HubOk, AgreedOk, LeaderAppends
<1>2. PICK term \in leading[n] :
        store' = [store EXCEPT ![n] = Log!append(@, {Entry(term, LastLog(n).index + 1, payload)})]
  BY DEF LeaderAppends, Propose
<1>3. NodeOk(K, n) /\ leading[n] # {} /\ Knows(n)
  BY <1>2, NodeIs DEF NodeOk
<1>4. Begun(n)
  BY <1>3 DEF NodeOk, Knows, Begun
<1>5. LastLog(n).index \in 1..MaxLog /\ LastLog(n).index < MaxLog
  BY <1>4, LastLogIs DEF ClusterInv, LeaderAppends
<1>6. term \in 1..MaxTerm
  BY <1>2, <1>3 DEF NodeOk, Option
<1>7. PICK i \in 1..MaxLog : i = LastLog(n).index + 1 /\ i # 1
  BY <1>5, BoundsAssumption
<1>8. PICK e \in Entries(K) : e = Entry(term, i, payload) /\ e.log_id.index = i
  BY <1>6, EntryMakes, BoundsAssumption
<1>9. PICK s : s = Log!append(store[n], {e})
  OBVIOUS
<1>10. s \in Stores(K) /\ DOMAIN s.log = DOMAIN store[n].log \cup {i}
       /\ \A j \in DOMAIN store[n].log : j # i => s.log[j] = store[n].log[j]
  BY <1>3, <1>7, <1>8, <1>9, AppendKeeps DEF NodeOk
<1>11. store' = [store EXCEPT ![n] = s] /\ store'[n] = s
  BY <1>2, <1>7, <1>8, <1>9 DEF ClusterInv, ClusterType
<1>12. UNCHANGED <<hub, machine, leading, commit, committed>>
  BY DEF LeaderAppends
<1>13. OnlyAt(n)
  BY <1>11, <1>12, OnlyAtStays DEF OnlyAt
<1>14. i \notin DOMAIN store[n].log
  <2>1. \A j \in DOMAIN store[n].log : j <= LastLog(n).index
    BY LastLogIs DEF ClusterInv
  <2> QED BY <1>5, <1>7, <2>1
<1>15. Knows(n)' /\ Begun(n)'
  BY <1>3, <1>10, <1>11, <1>12, <1>14 DEF Knows, Begun
<1>16. NodeOk(K, n)'
  BY <1>3, <1>10, <1>11, <1>12, <1>15 DEF NodeOk
<1> QED BY <1>1, <1>13, <1>16, OnlyAtMakes

LEMMA TypesOf ==
    ASSUME NEW K, ClusterInv(K)
    PROVE  /\ ClusterType(K)
           /\ store \in [Nodes -> Stores(K)] /\ machine \in [Nodes -> Machines(K)]
           /\ leading \in [Nodes -> Option(1..MaxTerm)] /\ commit \in [Nodes -> 0..MaxLog]
           /\ HubOk /\ AgreedOk(K)
BY DEF ClusterInv, ClusterType, HubOk, AgreedOk

\* What a follower gets from a leader: the leader's next entry, if it has one.
LEMMA NextEntries ==
    ASSUME NEW K, ClusterInv(K), NEW l \in Nodes, NEW next \in Nat
    PROVE  \/ Log!try_get_log_entries(store[l], {next}) = {}
           \/ /\ next \in 1..MaxLog /\ next \in DOMAIN store[l].log
              /\ \E e \in Entries(K) :
                    /\ Log!try_get_log_entries(store[l], {next}) = {e} /\ e.log_id.index = next
                    /\ next = 1 => e.payload \in Memberships(K)
<1>1. store[l].log \in Logs(K)
  BY TypesOf, StoreIs
<1>2. DOMAIN store[l].log \in SUBSET (1..MaxLog)
      /\ \A i \in DOMAIN store[l].log : /\ store[l].log[i] \in Entries(K) /\ store[l].log[i].log_id.index = i
                                        /\ i = 1 => store[l].log[i].payload \in Memberships(K)
  BY <1>1, LogIs
<1>3. CASE next \in DOMAIN store[l].log
  <2>1. Log!try_get_log_entries(store[l], {next}) = {store[l].log[next]}
    BY <1>3 DEF Log!try_get_log_entries
  <2> QED BY <1>2, <1>3, <2>1
<1>4. CASE next \notin DOMAIN store[l].log
  BY <1>4 DEF Log!try_get_log_entries
<1> QED BY <1>3, <1>4

LEMMA LeaderTerm ==
    ASSUME NEW K, ClusterInv(K), NEW l \in Nodes, leading[l] # {}
    PROVE  Elements(leading[l], 0) \in 1..MaxTerm /\ leading[l] = {Elements(leading[l], 0)}
<1>1. leading[l] \in Option(1..MaxTerm)
  BY NodeIs DEF NodeOk
<1>2. PICK t \in 1..MaxTerm : leading[l] = {t}
  BY <1>1 DEF Option
<1> QED BY <1>2 DEF Elements

\* append_entries.
LEMMA AppendStep ==
    ASSUME NEW K, ClusterInv(K), NEW l \in Nodes, NEW m \in Nodes, append_entries(l, m)
    PROVE  ClusterInv(K)'
<1>1. HubOk' /\ AgreedOk(K)'
  BY TypesOf DEF HubOk, AgreedOk, append_entries
<1>2. PICK next, entries :
        /\ next = NextIndex(l, m) /\ entries = Log!try_get_log_entries(store[l], {next})
        /\ store' = [store EXCEPT ![m] = Log!append(
             Log!save_vote(IF entries = {} THEN @ ELSE Log!truncate(@, next), Elements(leading[l], 0)), entries)]
        /\ commit' = [commit EXCEPT ![m] = Max({@, Min({commit[l], next - 1 + Cardinality(entries)})})]
  BY DEF append_entries
<1>3. next \in 1..(MaxLog + 1)
  BY <1>2, NextIndexIs, TypesOf
<1>4. PICK term \in 1..MaxTerm : term = Elements(leading[l], 0)
  BY LeaderTerm DEF append_entries, Heard
<1>5. \/ entries = {}
      \/ /\ next \in 1..MaxLog
         /\ \E e \in Entries(K) : /\ entries = {e} /\ e.log_id.index = next
                                  /\ next = 1 => e.payload \in Memberships(K)
  <2>1. next \in Nat
    BY <1>3
  <2>2. \/ Log!try_get_log_entries(store[l], {next}) = {}
        \/ /\ next \in 1..MaxLog /\ next \in DOMAIN store[l].log
           /\ \E e \in Entries(K) :
                 /\ Log!try_get_log_entries(store[l], {next}) = {e} /\ e.log_id.index = next
                 /\ next = 1 => e.payload \in Memberships(K)
    BY <2>1, NextEntries, Zenon
  <2> QED BY <1>2, <2>2
<1>6. NodeOk(K, m)
  BY NodeIs
<1>7. PICK s : s = Log!append(Log!save_vote(IF entries = {} THEN store[m] ELSE Log!truncate(store[m], next), term), entries)
  OBVIOUS
<1>8. s \in Stores(K) /\ (Begun(m) => DOMAIN s.log # {} \/ s.last_purged # {} \/ machine[m].installing # {})
  <2>1. CASE entries = {}
    <3>1. s = Log!append(Log!save_vote(store[m], term), {})
      BY <1>7, <2>1
    <3>2. PICK v : v = Log!save_vote(store[m], term)
      OBVIOUS
    <3>3. v \in Stores(K) /\ v.log = store[m].log /\ v.last_purged = store[m].last_purged
      BY <1>6, <3>2, VoteKeeps DEF NodeOk
    <3>4. s = v
      BY <3>1, <3>2, <3>3, AppendNothing
    <3> QED BY <3>3, <3>4 DEF Begun
  <2>2. CASE entries # {}
    <3>1. PICK e \in Entries(K) : /\ entries = {e} /\ e.log_id.index = next
                                  /\ next = 1 => e.payload \in Memberships(K)
      BY <1>5, <2>2
    <3>2. PICK t : t = Log!truncate(store[m], next)
      OBVIOUS
    <3>3. t \in Stores(K)
      BY <1>3, <1>6, <3>2, TruncateKeeps, BoundsAssumption DEF NodeOk
    <3>4. PICK v : v = Log!save_vote(t, term)
      OBVIOUS
    <3>5. v \in Stores(K)
      BY <3>3, <3>4, VoteKeeps
    <3>6. s = Log!append(v, {e})
      BY <1>7, <2>2, <3>1, <3>2, <3>4
    <3>7. s \in Stores(K) /\ DOMAIN s.log = DOMAIN v.log \cup {next}
      BY <3>1, <3>5, <3>6, AppendKeeps
    <3> QED BY <3>7
  <2> QED BY <2>1, <2>2
<1>9. store' = [store EXCEPT ![m] = s] /\ store'[m] = s
  BY <1>2, <1>4, <1>7, TypesOf
<1>10. leading' = [leading EXCEPT ![m] = {}] /\ leading'[m] = {}
  BY TypesOf DEF append_entries, Follows
<1>11. PICK c \in 0..MaxLog : commit' = [commit EXCEPT ![m] = c] /\ commit'[m] = c
  <2> DEFINE b == next - 1 + Cardinality(entries)
             a == Min({commit[l], b})
  <2>1. b \in 0..MaxLog
    <3>1. CASE entries = {}
      BY <1>3, <3>1, FS_EmptySet, BoundsAssumption
    <3>2. CASE entries # {}
      <4>1. next \in 1..MaxLog /\ \E e : entries = {e}
        BY <1>5, <3>2
      <4>2. Cardinality(entries) = 1
        BY <4>1, FS_Singleton
      <4> QED BY <4>1, <4>2, BoundsAssumption
    <3> QED BY <3>1, <3>2
  <2>2. commit[l] \in 0..MaxLog /\ commit[m] \in 0..MaxLog
    BY TypesOf
  <2> HIDE DEF b
  <2>3. {commit[l], b} \in SUBSET Nat /\ {commit[l], b} # {}
    BY <2>1, <2>2
  <2>4. a \in 0..MaxLog
    BY <2>1, <2>2, <2>3, MinOf
  <2> HIDE DEF a
  <2>5. Max({commit[m], a}) \in 0..MaxLog
    BY <2>2, <2>4, MaxOf, BoundsAssumption
  <2>6. commit' = [commit EXCEPT ![m] = Max({commit[m], a})]
    BY <1>2 DEF a, b
  <2> QED BY <2>2, <2>5, <2>6, TypesOf
<1>12. machine' = machine
  BY DEF append_entries
<1>13. OnlyAt(m)
  BY <1>9, <1>10, <1>11, <1>12, OnlyAtStays DEF OnlyAt
<1>14. NodeOk(K, m)'
  <2>1. {} \in Option(1..MaxTerm)
    BY DEF Option
  <2> QED BY <1>6, <1>8, <1>9, <1>10, <1>11, <1>12, <2>1 DEF NodeOk, Begun
<1> QED BY <1>1, <1>13, <1>14, OnlyAtMakes

\* install_snapshot, the data.
LEMMA InstallStep ==
    ASSUME NEW K, ClusterInv(K), NEW l \in Nodes, NEW m \in Nodes, install_snapshot(l, m)
    PROVE  ClusterInv(K)'
<1>1. HubOk' /\ AgreedOk(K)'
  BY TypesOf DEF HubOk, AgreedOk, install_snapshot
<1>2. PICK s \in machine[l].snapshot :
        /\ machine' = [machine EXCEPT ![m].data = Machine!Installed(@, s), ![m].installing = {s}]
        /\ store' = [store EXCEPT ![m] = Log!save_vote(
             IF TermAt(m, Elements(s.meta.last_log_id, Origin).index) = Elements(s.meta.last_log_id, Origin).term
             THEN @ ELSE Log!truncate(@, commit[m] + 1), Elements(leading[l], 0))]
        /\ commit' = [commit EXCEPT ![m] = Elements(s.meta.last_log_id, Origin).index]
  BY DEF install_snapshot
<1>3. NodeOk(K, m) /\ NodeOk(K, l)
  BY NodeIs
<1>4. s \in Snapshots(K)
  BY <1>2, <1>3, MachineIs DEF NodeOk, Option
<1>5. PICK id \in LogIds : id = Elements(s.meta.last_log_id, Origin) /\ id.index \in 0..MaxLog
  BY <1>4, SnapshotIs, LogIdIs DEF Elements
<1>6. PICK term \in 1..MaxTerm : term = Elements(leading[l], 0)
  BY LeaderTerm DEF install_snapshot, Heard
<1>7. PICK t \in Stores(K) : t = IF TermAt(m, id.index) = id.term THEN store[m] ELSE Log!truncate(store[m], commit[m] + 1)
  <2>1. Log!truncate(store[m], commit[m] + 1) \in Stores(K)
    <3>1. commit[m] + 1 \in Nat /\ store[m] \in Stores(K)
      BY <1>3 DEF NodeOk
    <3> QED BY <3>1, TruncateKeeps
  <2> QED BY <1>3, <2>1 DEF NodeOk
<1>8. PICK v \in Stores(K) : v = Log!save_vote(t, term)
  BY VoteKeeps
<1>9. store' = [store EXCEPT ![m] = v] /\ store'[m] = v
  BY <1>2, <1>5, <1>6, <1>7, <1>8, TypesOf
<1>10. leading' = [leading EXCEPT ![m] = {}] /\ leading'[m] = {}
  BY TypesOf DEF install_snapshot, Follows
<1>11. commit' = [commit EXCEPT ![m] = id.index] /\ commit'[m] = id.index
  BY <1>2, <1>5, TypesOf
<1>12. PICK d \in Datas(K) : d = Machine!Installed(machine[m].data, s) /\ d.last_membership # {}
  BY <1>4, InstalledKeeps
<1>13. PICK x : x = [data |-> d, snapshot |-> machine[m].snapshot, building |-> machine[m].building,
                     installing |-> {s}]
  OBVIOUS
<1>14. x \in Machines(K) /\ x.data = d /\ x.installing = {s}
  BY <1>3, <1>4, <1>12, <1>13, MachineIs, MachineMakes, OptionOf DEF NodeOk
<1>15. machine' = [machine EXCEPT ![m] = x] /\ machine'[m] = x
  <2>1. machine' = [machine EXCEPT ![m] = [machine[m] EXCEPT !.data = d, !.installing = {s}]]
    BY <1>2, <1>12, TypesOf
  <2>2. machine[m] \in Machines(K)
    BY <1>3 DEF NodeOk
  <2>3. [machine[m] EXCEPT !.data = d, !.installing = {s}] = x
    BY <1>13, <2>2, MachineWith
  <2> QED BY <2>1, <2>3, TypesOf
<1>16. OnlyAt(m)
  BY <1>9, <1>10, <1>11, <1>15 DEF OnlyAt
<1>17. NodeOk(K, m)'
  <2>1. {} \in Option(1..MaxTerm)
    BY DEF Option
  <2> QED BY <1>5, <1>9, <1>10, <1>11, <1>14, <1>15, <2>1 DEF NodeOk, Begun
<1> QED BY <1>1, <1>16, <1>17, OnlyAtMakes

\* install_snapshot, the snapshot: what it covers is purged.
LEMMA KeepInstalledStep ==
    ASSUME NEW K, ClusterInv(K), NEW m \in Nodes, KeepInstalled(m)
    PROVE  ClusterInv(K)'
<1>1. HubOk' /\ AgreedOk(K)'
  BY TypesOf DEF HubOk, AgreedOk, KeepInstalled
<1>2. PICK s \in machine[m].installing :
        /\ machine' = [machine EXCEPT ![m].snapshot = {s}, ![m].installing = {}]
        /\ store' = [store EXCEPT ![m] = Log!purge(@, Elements(s.meta.last_log_id, Origin))]
  BY DEF KeepInstalled
<1>3. NodeOk(K, m)
  BY NodeIs
<1>4. machine[m] \in Machines(K) /\ machine[m].data.last_membership # {} /\ s \in Snapshots(K)
  BY <1>2, <1>3, MachineIs DEF NodeOk, Option
<1>5. PICK id \in LogIds : id = Elements(s.meta.last_log_id, Origin)
  BY <1>4, SnapshotIs DEF Elements
<1>6. PICK t : t = Log!purge(store[m], id) /\ t \in Stores(K) /\ t.last_purged # {}
  BY <1>3, PurgeKeeps DEF NodeOk
<1>7. store' = [store EXCEPT ![m] = t] /\ store'[m] = t
  BY <1>2, <1>5, <1>6, TypesOf
<1>8. PICK x : x = [data |-> machine[m].data, snapshot |-> {s}, building |-> machine[m].building,
                    installing |-> {}]
  OBVIOUS
<1>9. x \in Machines(K) /\ x.data = machine[m].data
  BY <1>4, <1>8, MachineIs, MachineMakes, OptionOf
<1>10. machine' = [machine EXCEPT ![m] = x] /\ machine'[m] = x
  <2>1. machine' = [machine EXCEPT ![m] = [machine[m] EXCEPT !.snapshot = {s}, !.installing = {}]]
    BY <1>2, TypesOf
  <2>2. [machine[m] EXCEPT !.snapshot = {s}, !.installing = {}] = x
    BY <1>4, <1>8, MachineWith
  <2> QED BY <2>1, <2>2, TypesOf
<1>11. UNCHANGED <<leading, commit>>
  BY DEF KeepInstalled
<1>12. OnlyAt(m)
  BY <1>7, <1>10, <1>11, OnlyAtStays DEF OnlyAt
<1>13. NodeOk(K, m)'
  BY <1>3, <1>4, <1>6, <1>7, <1>9, <1>10, <1>11 DEF NodeOk, Knows, Begun
<1> QED BY <1>1, <1>12, <1>13, OnlyAtMakes

\* What is committed is what the leader has.
LEMMA CommitStep ==
    ASSUME NEW K, ClusterInv(K), NEW l \in Nodes, Commit(l)
    PROVE  ClusterInv(K)'
<1>1. PICK i \in DOMAIN store[l].log :
        /\ Len(committed) + 1 .. i \subseteq DOMAIN store[l].log
        /\ commit' = [commit EXCEPT ![l] = i]
        /\ committed' = committed \o [j \in 1..(IF i > Len(committed) THEN i - Len(committed) ELSE 0) |->
                                        store[l].log[Len(committed) + j]]
  BY DEF Commit
<1>2. NodeOk(K, l) /\ AgreedOk(K)
  BY NodeIs, TypesOf
<1>3. /\ DOMAIN store[l].log \in SUBSET (1..MaxLog)
      /\ \A j \in DOMAIN store[l].log : store[l].log[j] \in Entries(K)
  BY <1>2, StoreIs, LogIs DEF NodeOk
<1>4. AgreedOk(K)'
  <2> DEFINE n == Len(committed)
             k == IF i > n THEN i - n ELSE 0
             new == [j \in 1..k |-> store[l].log[n + j]]
  <2>1. n \in Nat /\ n <= MaxLog /\ committed \in Seq(Entries(K)) /\ i \in 1..MaxLog
    BY <1>2, <1>3 DEF AgreedOk
  <2> HIDE DEF n
  <2>2. k \in Nat /\ n + k <= MaxLog /\ \A j \in 1..k : n + j \in n + 1 .. i
    BY <2>1, BoundsAssumption
  <2>3. \A j \in 1..k : store[l].log[n + j] \in Entries(K)
    BY <1>1, <1>3, <2>2 DEF n
  <2> HIDE DEF k
  <2>4. new \in Seq(Entries(K)) /\ Len(new) = k
    BY <2>2, <2>3
  <2>5. committed' = committed \o new
    BY <1>1 DEF n, k
  <2> HIDE DEF new
  <2>6. committed' \in Seq(Entries(K)) /\ Len(committed') = n + k
    <3>1. \A E : \A a, b \in Seq(E) : a \o b \in Seq(E) /\ Len(a \o b) = Len(a) + Len(b)
      OBVIOUS
    <3>2. committed \o new \in Seq(Entries(K)) /\ Len(committed \o new) = Len(committed) + Len(new)
      BY <2>1, <2>4, <3>1, Zenon
    <3> QED BY <2>4, <2>5, <3>2 DEF n
  <2> QED BY <2>2, <2>6 DEF AgreedOk
<1>5. i \in 0..MaxLog
  BY <1>3
<1>6. UNCHANGED <<hub, store, machine, leading>>
  BY DEF Commit
<1>7. OnlyAt(l)
  BY <1>1, <1>6, OnlyAtStays DEF OnlyAt
<1>8. NodeOk(K, l)'
  BY <1>1, <1>2, <1>5, <1>6, TypesOf DEF NodeOk, Knows, Begun
<1>9. HubOk'
  BY <1>6, TypesOf DEF HubOk
<1> QED BY <1>4, <1>7, <1>8, <1>9, OnlyAtMakes

LEMMA StepDownStep ==
    ASSUME NEW K, ClusterInv(K), NEW l \in Nodes, StepDown(l)
    PROVE  ClusterInv(K)'
<1>1. HubOk' /\ AgreedOk(K)'
  BY TypesOf DEF HubOk, AgreedOk, StepDown
<1>2. leading' = [leading EXCEPT ![l] = {}] /\ leading'[l] = {}
  BY TypesOf DEF StepDown
<1>3. UNCHANGED <<store, machine, commit>>
  BY DEF StepDown
<1>4. OnlyAt(l)
  BY <1>2, <1>3, OnlyAtStays DEF OnlyAt
<1>5. NodeOk(K, l)'
  BY <1>2, <1>3, NodeIs DEF NodeOk, Begun, Option
<1> QED BY <1>1, <1>4, <1>5, OnlyAtMakes

\* A step of one node's machine that leaves the rest alone.
LEMMA MachineStep ==
    ASSUME NEW K, ClusterInv(K), NEW n \in Nodes, NEW x \in Machines(K),
           machine' = [machine EXCEPT ![n] = x], UNCHANGED <<hub, store, leading, commit, committed>>,
           x.installing = machine[n].installing,
           \/ x.data.last_membership = machine[n].data.last_membership
           \/ x.data.last_membership # {} /\ DOMAIN store[n].log # {}
    PROVE  ClusterInv(K)'
<1>1. HubOk' /\ AgreedOk(K)'
  BY TypesOf DEF HubOk, AgreedOk
<1>2. machine'[n] = x
  BY TypesOf
<1>3. OnlyAt(n)
  BY OnlyAtStays DEF OnlyAt
<1>4. NodeOk(K, n)'
  BY <1>2, NodeIs DEF NodeOk, Knows, Begun
<1> QED BY <1>1, <1>3, <1>4, OnlyAtMakes

\* apply.
LEMMA ApplyStep ==
    ASSUME NEW K, ClusterInv(K), NEW n \in Nodes, Apply(n)
    PROVE  ClusterInv(K)'
<1>1. PICK next : next = LastApplied(n) + 1
  OBVIOUS
<1>2. PICK e \in Log!try_get_log_entries(store[n], {next}) :
        machine' = [machine EXCEPT ![n].data = Machine!apply(@, e)]
  BY <1>1 DEF Apply
<1>3. machine[n] \in Machines(K)
  BY TypesOf
<1>4. PICK d \in Datas(K) : d = machine[n].data
  BY <1>3, MachineIs
<1>5. LastApplied(n) \in Nat /\ (d.last_applied_log = {} => LastApplied(n) = 0)
  <2>1. d.last_applied_log \in Option(LogIds)
    BY DataIs
  <2>2. CASE d.last_applied_log = {}
    BY <1>4, <2>2 DEF LastApplied, Elements, Origin
  <2>3. CASE d.last_applied_log # {}
    <3>1. PICK id \in LogIds : d.last_applied_log = {id}
      BY <2>1, <2>3 DEF Option
    <3>2. Elements(d.last_applied_log, Origin) = id
      BY <3>1 DEF Elements
    <3> QED BY <1>4, <2>3, <3>2, LogIdIs DEF LastApplied
  <2> QED BY <2>2, <2>3
<1>6. next \in Nat /\ (d.last_applied_log = {} => next = 1)
  BY <1>1, <1>5
<1>7. /\ next \in DOMAIN store[n].log
      /\ \E f \in Entries(K) :
            /\ Log!try_get_log_entries(store[n], {next}) = {f} /\ f.log_id.index = next
            /\ next = 1 => f.payload \in Memberships(K)
  <2>1. \/ Log!try_get_log_entries(store[n], {next}) = {}
        \/ /\ next \in 1..MaxLog /\ next \in DOMAIN store[n].log
           /\ \E f \in Entries(K) :
                 /\ Log!try_get_log_entries(store[n], {next}) = {f} /\ f.log_id.index = next
                 /\ next = 1 => f.payload \in Memberships(K)
    BY <1>6, NextEntries, Zenon
  <2> QED BY <1>2, <2>1
<1>8. e \in Entries(K) /\ (next = 1 => e.payload \in Memberships(K))
  BY <1>2, <1>7
<1>9. PICK b \in Datas(K) : b = Machine!apply(d, e) /\ b.last_membership # {}
  BY <1>6, <1>8, ApplyKeeps
<1>10. PICK x : x = [data |-> b, snapshot |-> machine[n].snapshot, building |-> machine[n].building,
                     installing |-> machine[n].installing]
  OBVIOUS
<1>11. x \in Machines(K) /\ x.data = b /\ x.installing = machine[n].installing
  BY <1>3, <1>9, <1>10, MachineIs, MachineMakes
<1>12. machine' = [machine EXCEPT ![n] = x]
  <2>1. machine' = [machine EXCEPT ![n] = [machine[n] EXCEPT !.data = b]]
    BY <1>2, <1>4, <1>9, TypesOf
  <2>2. machine[n] = [data |-> machine[n].data, snapshot |-> machine[n].snapshot,
                      building |-> machine[n].building, installing |-> machine[n].installing]
    BY <1>3, MachineIs
  <2>3. [machine[n] EXCEPT !.data = b] = x
    BY <1>10, <2>2
  <2> QED BY <2>1, <2>3
<1>13. UNCHANGED <<hub, store, leading, commit, committed>>
  BY DEF Apply
<1> QED BY <1>7, <1>9, <1>11, <1>12, <1>13, MachineStep

\* build_snapshot, before and after it writes.
LEMMA BuildStep ==
    ASSUME NEW K, ClusterInv(K), NEW n \in Nodes, BuildSnapshot(n) \/ KeepBuilt(n)
    PROVE  ClusterInv(K)'
<1>1. machine[n] \in Machines(K)
  BY TypesOf
<1>2. UNCHANGED <<hub, store, leading, commit, committed>>
  BY DEF BuildSnapshot, KeepBuilt
<1>3. CASE BuildSnapshot(n)
  <2>1. machine[n].data \in Datas(K) /\ machine[n].data.last_applied_log # {}
    BY <1>1, <1>3, MachineIs DEF BuildSnapshot
  <2>2. PICK s \in Snapshots(K) : s = Machine!Snapshot(machine[n].data)
    BY <2>1, SnapshotKeeps
  <2>3. PICK x : x = [data |-> machine[n].data, snapshot |-> machine[n].snapshot, building |-> {s},
                      installing |-> machine[n].installing]
    OBVIOUS
  <2>4. machine[n].data.last_membership # {}
    BY <2>1, DataIs
  <2>5. x \in Machines(K) /\ x.data = machine[n].data /\ x.installing = machine[n].installing
    BY <1>1, <2>1, <2>3, <2>4, MachineIs, MachineMakes, OptionOf
  <2>6. machine' = [machine EXCEPT ![n] = x]
    <3>1. machine' = [machine EXCEPT ![n] = [machine[n] EXCEPT !.building = {s}]]
      BY <1>3, <2>2, TypesOf DEF BuildSnapshot
    <3>2. machine[n] = [data |-> machine[n].data, snapshot |-> machine[n].snapshot,
                        building |-> machine[n].building, installing |-> machine[n].installing]
      BY <1>1, MachineIs
    <3>3. [machine[n] EXCEPT !.building = {s}] = x
      BY <2>3, <3>2
    <3> QED BY <3>1, <3>3
  <2> QED BY <1>2, <2>5, <2>6, MachineStep
<1>4. CASE KeepBuilt(n)
  <2>1. PICK s \in machine[n].building :
          machine' = [machine EXCEPT ![n].snapshot = {s}, ![n].building = {}]
    BY <1>4 DEF KeepBuilt
  <2>2. s \in Snapshots(K) /\ machine[n].data.last_membership # {}
    BY <1>1, <2>1, MachineIs DEF Option
  <2>3. PICK x : x = [data |-> machine[n].data, snapshot |-> {s}, building |-> {},
                      installing |-> machine[n].installing]
    OBVIOUS
  <2>4. x \in Machines(K) /\ x.data = machine[n].data /\ x.installing = machine[n].installing
    BY <1>1, <2>2, <2>3, MachineIs, MachineMakes, OptionOf
  <2>5. machine' = [machine EXCEPT ![n] = x]
    <3>1. machine' = [machine EXCEPT ![n] = [machine[n] EXCEPT !.snapshot = {s}, !.building = {}]]
      BY <2>1, TypesOf
    <3>2. PICK t : t = [machine[n] EXCEPT !.snapshot = {s}]
      OBVIOUS
    <3>3. t = [data |-> machine[n].data, snapshot |-> {s}, building |-> machine[n].building,
               installing |-> machine[n].installing]
      <4>1. machine[n] = [data |-> machine[n].data, snapshot |-> machine[n].snapshot,
                          building |-> machine[n].building, installing |-> machine[n].installing]
        BY <1>1, MachineIs
      <4> QED BY <3>2, <4>1
    <3>4. [t EXCEPT !.building = {}] = x
      BY <2>3, <3>3
    <3>5. [machine[n] EXCEPT !.snapshot = {s}, !.building = {}] = x
      BY <3>2, <3>4, Zenon
    <3> QED BY <3>1, <3>5
  <2> QED BY <1>2, <2>4, <2>5, MachineStep
<1> QED BY <1>3, <1>4

\* purge, of what a snapshot covers.
LEMMA PurgeStep ==
    ASSUME NEW K, ClusterInv(K), NEW n \in Nodes, Purge(n)
    PROVE  ClusterInv(K)'
<1>1. HubOk' /\ AgreedOk(K)'
  BY TypesOf DEF HubOk, AgreedOk, Purge
<1>2. PICK s \in machine[n].snapshot :
        store' = [store EXCEPT ![n] = Log!purge(@, Elements(s.meta.last_log_id, Origin))]
  BY DEF Purge
<1>3. NodeOk(K, n)
  BY NodeIs
<1>4. machine[n].data.last_membership # {} /\ s \in Snapshots(K)
  BY <1>2, <1>3, MachineIs DEF NodeOk, Option
<1>5. PICK id \in LogIds : id = Elements(s.meta.last_log_id, Origin)
  BY <1>4, SnapshotIs DEF Elements
<1>6. PICK t : t = Log!purge(store[n], id) /\ t \in Stores(K) /\ t.last_purged # {}
  BY <1>3, PurgeKeeps DEF NodeOk
<1>7. store' = [store EXCEPT ![n] = t] /\ store'[n] = t
  BY <1>2, <1>5, <1>6, TypesOf
<1>8. UNCHANGED <<machine, leading, commit>>
  BY DEF Purge
<1>9. OnlyAt(n)
  BY <1>7, <1>8, OnlyAtStays DEF OnlyAt
<1>10. NodeOk(K, n)'
  BY <1>3, <1>4, <1>6, <1>7, <1>8 DEF NodeOk, Knows, Begun
<1> QED BY <1>1, <1>9, <1>10, OnlyAtMakes

\* An election: a candidate is a voter, so it goes by a membership, and its blank entry is
\* not the first of its log.
LEMMA ElectStep ==
    ASSUME NEW K, ClusterInv(K), NEW n \in Nodes, NEW Q \in SUBSET Nodes, Elect(n, Q)
    PROVE  ClusterInv(K)'
<1>1. HubOk' /\ AgreedOk(K)'
  BY TypesOf DEF HubOk, AgreedOk, Elect
<1>2. PICK term : term = Vote(n) + 1
  OBVIOUS
<1>3. /\ term <= MaxTerm /\ LastLog(n).index < MaxLog /\ n \in voter_ids(n)
      /\ store' = [m \in Nodes |->
            CASE m = n -> Propose(Log!save_vote(store[m], term), term, LastLog(n).index + 1, Blank)
              [] m \in Q \ {n} -> Log!save_vote(store[m], term)
              [] OTHER -> store[m]]
      /\ leading' = [m \in Nodes |-> CASE m = n -> {term} [] m \in Q \ {n} -> {} [] OTHER -> leading[m]]
      /\ UNCHANGED <<hub, machine, commit, committed>>
  BY <1>2 DEF Elect
<1>4. term \in 1..MaxTerm
  <2>1. store[n].vote \in Option(1..MaxTerm)
    BY TypesOf, StoreIs
  <2>2. CASE store[n].vote = {}
    BY <1>2, <1>3, <2>2, BoundsAssumption DEF Vote, Elements
  <2>3. CASE store[n].vote # {}
    <3>1. PICK t \in 1..MaxTerm : store[n].vote = {t}
      BY <2>1, <2>3 DEF Option
    <3>2. Vote(n) = t
      BY <3>1 DEF Vote, Elements
    <3> QED BY <1>2, <1>3, <3>2, BoundsAssumption
  <2> QED BY <2>2, <2>3
<1>5. Knows(n)
  BY <1>3, ConfigIs, TypesOf
<1>6. NodeOk(K, n) /\ Begun(n)
  BY <1>5, NodeIs DEF NodeOk, Knows, Begun
<1>7. /\ LastLog(n).index \in 1..MaxLog
      /\ DOMAIN store[n].log \in SUBSET (1..MaxLog)
      /\ \A j \in DOMAIN store[n].log : j <= LastLog(n).index
  <2>1. DOMAIN store[n].log \in SUBSET (1..MaxLog)
    BY <1>6, StoreIs, LogIs DEF NodeOk
  <2> QED BY <1>6, <2>1, LastLogIs, TypesOf
<1>8. PICK i \in 1..MaxLog : i = LastLog(n).index + 1 /\ i # 1 /\ i \notin DOMAIN store[n].log
  BY <1>3, <1>7, BoundsAssumption
<1>9. PICK e \in Entries(K) : e = Entry(term, i, Blank) /\ e.log_id.index = i
  <2>1. Blank \in Payloads(K)
    BY DEF Payloads
  <2> QED BY <1>4, <2>1, EntryMakes, BoundsAssumption
<1>10. PICK v : /\ v = Log!save_vote(store[n], term) /\ v \in Stores(K)
                /\ v.log = store[n].log
  BY <1>4, <1>6, VoteKeeps DEF NodeOk
<1>11. PICK s : /\ s = Log!append(v, {e}) /\ s \in Stores(K) /\ DOMAIN s.log = DOMAIN v.log \cup {i}
                /\ \A j \in DOMAIN v.log : j # i => s.log[j] = v.log[j]
  BY <1>8, <1>9, <1>10, AppendKeeps
<1>12. store'[n] = s /\ leading'[n] = {term}
  BY <1>3, <1>8, <1>9, <1>10, <1>11 DEF Propose
<1>13. ASSUME NEW m \in Nodes PROVE NodeOk(K, m)'
  <2>1. NodeOk(K, m)
    BY NodeIs
  <2>2. CASE m = n
    <3>1. Knows(n)' /\ Begun(n)'
      BY <1>3, <1>5, <1>8, <1>10, <1>11, <1>12 DEF Knows, Begun
    <3>2. {term} \in Option(1..MaxTerm)
      BY <1>4 DEF Option
    <3> QED BY <1>3, <1>11, <1>12, <2>1, <2>2, <3>1, <3>2 DEF NodeOk
  <2>3. CASE m # n /\ m \in Q
    <3>1. PICK w : /\ w = Log!save_vote(store[m], term) /\ w \in Stores(K)
                   /\ w.log = store[m].log /\ w.last_purged = store[m].last_purged
      BY <1>4, <2>1, VoteKeeps DEF NodeOk
    <3>2. store'[m] = w /\ leading'[m] = {}
      BY <1>3, <2>3, <3>1
    <3>3. {} \in Option(1..MaxTerm)
      BY DEF Option
    <3> QED BY <1>3, <2>1, <3>1, <3>2, <3>3 DEF NodeOk, Begun
  <2>4. CASE m # n /\ m \notin Q
    <3>1. store'[m] = store[m] /\ leading'[m] = leading[m]
      BY <1>3, <2>4
    <3> QED BY <1>3, <2>1, <3>1 DEF NodeOk, Knows, Begun
  <2> QED BY <2>2, <2>3, <2>4
<1>14. /\ store' = [m \in Nodes |-> store'[m]] /\ machine' = [m \in Nodes |-> machine'[m]]
       /\ leading' = [m \in Nodes |-> leading'[m]] /\ commit' = [m \in Nodes |-> commit'[m]]
  BY <1>3, TypesOf
<1> QED BY <1>1, <1>13, <1>14, ClusterMakes

-----------------------------------------------------------------------------
(* The watcher's steps                                                      *)

LEMMA WatcherIs ==
    ASSUME NEW w \in Watcher
    PROVE  /\ w.joining \in SUBSET Nodes /\ w.leaving \in SUBSET Nodes /\ w.learned \in SUBSET Nodes
           /\ w.index \in 0..MaxLog
           /\ w = [at |-> w.at, joining |-> w.joining, leaving |-> w.leaving, learned |-> w.learned,
                   index |-> w.index]
BY DEF Watcher

LEMMA AsleepIs == Asleep \in Watcher /\ Asleep.at = "sleep" /\ Asleep.leaving = {}
BY BoundsAssumption DEF Asleep, Watcher

\* A watcher that gives up.
LEMMA FailsKeeps ==
    ASSUME NEW K, WatcherInv(K), watcher' = Asleep,
           source' \in Seq(SUBSET Nodes) \ {<<>>}, \A i \in 1..Len(source') : K \subseteq source'[i]
    PROVE  WatcherInv(K)'
BY AsleepIs DEF WatcherInv

\* The leader's membership, and what it may become.
LEMMA LeadersConfig ==
    ASSUME NEW K, ClusterInv(K), leading[Handle] # {}
    PROVE  membership_config(Handle) \in Memberships(K)
<1>1. Knows(Handle)
  BY HandleAssumption, NodeIs DEF NodeOk
<1> QED BY <1>1, HandleAssumption, ConfigIs, TypesOf

LEMMA CoherentKeeps ==
    ASSUME NEW K, ClusterInv(K), leading[Handle] # {}, NEW goal \in SUBSET Nodes, K \subseteq goal,
           NEW retain \in BOOLEAN
    PROVE  NextCoherent(goal, retain) \in Memberships(K)
<1> DEFINE now == membership_config(Handle)
           configs == IF goal \in Range(now.configs) THEN <<goal>> ELSE <<Last(now.configs), goal>>
           nodes == now.learners \cup goal \cup IF retain THEN voter_ids(Handle) ELSE {}
           learners == nodes \ UNION Range(configs)
<1>1. now \in Memberships(K)
  BY LeadersConfig
<1>2. /\ now.learners \in SUBSET Nodes /\ now.configs \in Seq(SUBSET Nodes)
      /\ Last(now.configs) \in SUBSET Nodes
  BY <1>1, MembershipIs, VotersIn
<1>3. voter_ids(Handle) \in SUBSET Nodes
  BY HandleAssumption, ConfigIs, TypesOf
<1> HIDE DEF now
<1>4. configs \in Seq(SUBSET Nodes) /\ configs # <<>> /\ K \subseteq Last(configs)
  <2>1. \A A, B \in SUBSET Nodes : /\ <<A>> \in Seq(SUBSET Nodes) /\ <<A, B>> \in Seq(SUBSET Nodes)
                                   /\ Last(<<A>>) = A /\ Last(<<A, B>>) = B
                                   /\ <<A>> # <<>> /\ <<A, B>> # <<>>
    BY DEF Last
  <2> QED BY <1>2, <2>1
<1>5. learners \in SUBSET Nodes
  BY <1>2, <1>3
<1>6. NextCoherent(goal, retain) = Membership(configs, learners)
  BY DEF NextCoherent, now
<1> HIDE DEF configs, learners
<1> QED BY <1>4, <1>5, <1>6, MembershipMakes

\* What is proposed keeps the nodes of K.
LEMMA ChangeStep ==
    ASSUME NEW K, ClusterInv(K), WatcherInv(K), NEW payload \in Memberships(K), NEW next,
           next \in {"learner_wait", "joint_wait", "uniform_wait"},
           next = "learner_wait" => ToLearn # {},
           Change(payload, next), UNCHANGED source
    PROVE  ClusterInv(K)' /\ WatcherInv(K)'
<1>1. payload \in Payloads(K)
  BY DEF Payloads
<1>2. ClusterInv(K)'
  BY <1>1, HandleAssumption, LeaderStep DEF Change
<1>3. PICK i \in 0..MaxLog : i = LastLog(Handle).index + 1
  <2>1. LastLog(Handle).index \in 0..MaxLog /\ LastLog(Handle).index < MaxLog
    BY HandleAssumption, LastLogIs, TypesOf DEF Change, LeaderAppends
  <2> QED BY <2>1, BoundsAssumption
<1>4. PICK w : w = [at |-> next, joining |-> watcher.joining, leaving |-> watcher.leaving,
                    learned |-> watcher.learned, index |-> i]
  OBVIOUS
<1>5. watcher' = w
  <2>1. watcher = [at |-> watcher.at, joining |-> watcher.joining, leaving |-> watcher.leaving,
                   learned |-> watcher.learned, index |-> watcher.index]
    BY WatcherIs DEF WatcherInv
  <2>2. PICK t : t = [watcher EXCEPT !.at = next]
    OBVIOUS
  <2>3. t = [at |-> next, joining |-> watcher.joining, leaving |-> watcher.leaving,
             learned |-> watcher.learned, index |-> watcher.index]
    BY <2>1, <2>2
  <2>4. [t EXCEPT !.index = i] = w
    BY <1>4, <2>3
  <2>5. watcher' = [watcher EXCEPT !.at = next, !.index = i]
    BY <1>3 DEF Change
  <2> QED BY <2>2, <2>4, <2>5, Zenon
<1>6. w \in Watcher
  BY <1>3, <1>4, WatcherIs DEF WatcherInv, Watcher
<1>7. WatcherInv(K)'
  BY <1>4, <1>5, <1>6 DEF WatcherInv, ToLearn
<1> QED BY <1>2, <1>7

LEMMA GoalKeeps ==
    ASSUME NEW K, ClusterInv(K), WatcherInv(K), leading[Handle] # {}
    PROVE  Goal \in SUBSET Nodes /\ K \subseteq Goal
<1>1. membership_config(Handle) \in Memberships(K)
  BY LeadersConfig
<1>2. PICK last : last = Last(membership_config(Handle).configs) /\ last \in SUBSET Nodes /\ K \subseteq last
  BY <1>1, MembershipIs, VotersIn
<1>3. watcher.joining \in SUBSET Nodes /\ watcher.leaving \cap K = {}
  BY WatcherIs DEF WatcherInv
<1> QED BY <1>2, <1>3 DEF Goal

LEMMA LearnerIs ==
    ASSUME NEW K, WatcherInv(K), ToLearn # {}
    PROVE  Learner \in ToLearn /\ Learner \in Nodes
<1>1. ToLearn \in SUBSET Nodes
  BY WatcherIs DEF WatcherInv, ToLearn
<1>2. Min(ToLearn) \in ToLearn
  BY <1>1, NodesAssumption, MinOf
<1> QED BY <1>1, <1>2 DEF Learner

\* What a watcher is made of.
LEMMA WatcherMakes ==
    ASSUME NEW at \in {"sleep", "add_learner", "learner_wait", "change", "joint_wait", "uniform_wait", "returned"},
           NEW joining \in SUBSET Nodes, NEW leaving \in SUBSET Nodes, NEW learned \in SUBSET Nodes,
           NEW i \in 0..MaxLog
    PROVE  [at |-> at, joining |-> joining, leaving |-> leaving, learned |-> learned, index |-> i] \in Watcher
  BY DEF Watcher

LEMMA ReconcileStep ==
    ASSUME NEW K, ClusterInv(K), WatcherInv(K), Reconcile
    PROVE  ClusterInv(K)' /\ WatcherInv(K)'
<1>1. source \in Seq(SUBSET Nodes) \ {<<>>} /\ (\A i \in 1..Len(source) : K \subseteq source[i])
      /\ watcher \in Watcher
  BY DEF WatcherInv
<1>2. CASE Unreadable \/ Refused \/ EmptyMembership
  <2>1. watcher' = Asleep /\ source' = source /\ UNCHANGED clusterVars
    BY <1>2 DEF Unreadable, Refused, EmptyMembership, Fails
  <2> QED BY <1>1, <2>1, FailsKeeps, ClusterStays
<1>3. CASE Compare
  <2>1. PICK joining, leaving, at :
          /\ joining = members \ voter_ids(Handle) /\ leaving = voter_ids(Handle) \ members
          /\ at = IF joining # {} THEN "add_learner" ELSE "change"
          /\ watcher' = [Asleep EXCEPT !.joining = joining, !.leaving = leaving, !.at = at]
    BY <1>3 DEF Compare, Leaving
  <2>2. members \in SUBSET Nodes /\ K \subseteq members
    <3>1. 1 \in 1..Len(source) /\ source[1] \in SUBSET Nodes /\ Head(source) = source[1]
      BY <1>1
    <3> QED BY <1>1, <3>1 DEF members
  <2>3. voter_ids(Handle) \in SUBSET Nodes
    BY HandleAssumption, ConfigIs, TypesOf
  <2>4. watcher' = [at |-> at, joining |-> joining, leaving |-> leaving, learned |-> {}, index |-> 0]
    BY <2>1 DEF Asleep
  <2>5. watcher' \in Watcher
    <3>1. joining \in SUBSET Nodes /\ leaving \in SUBSET Nodes /\ {} \in SUBSET Nodes
      BY <2>1, <2>2, <2>3
    <3>2. at \in {"sleep", "add_learner", "learner_wait", "change", "joint_wait", "uniform_wait", "returned"}
      BY <2>1
    <3>3. 0 \in 0..MaxLog
      BY BoundsAssumption
    <3> QED BY <2>4, <3>1, <3>2, <3>3, WatcherMakes
  <2>6. WatcherInv(K)'
    <3>1. source' = source
      BY <1>3 DEF Compare
    <3>2. /\ watcher'.at = at /\ watcher'.joining = joining /\ watcher'.leaving = leaving
          /\ watcher'.learned = {}
      BY <2>4
    <3>3. leaving \cap K = {}
      BY <2>1, <2>2
    <3>4. at # "learner_wait" /\ (at = "add_learner" => joining \ {} # {})
      BY <2>1
    <3> QED BY <1>1, <2>5, <3>1, <3>2, <3>3, <3>4 DEF WatcherInv, ToLearn
  <2>7. ClusterInv(K)'
    BY <1>3, ClusterStays DEF Compare
  <2> QED BY <2>6, <2>7
<1>4. CASE add_learner
  <2>1. PICK p : p = membership_config(Handle)
    OBVIOUS
  <2>2. leading[Handle] # {} /\ ToLearn # {}
    BY <1>4 DEF add_learner, CanChange, WatcherInv
  <2>3. p \in Memberships(K)
    BY <2>1, <2>2, LeadersConfig
  <2>4. PICK new : new = p.learners \cup ({Learner} \ voter_ids(Handle))
    OBVIOUS
  <2>5. new \in SUBSET Nodes
    BY <2>2, <2>3, <2>4, LearnerIs, MembershipIs
  <2>6. [p EXCEPT !.learners = new] \in Memberships(K)
    <3>1. p = [is |-> "Membership", configs |-> p.configs, learners |-> p.learners]
      BY <2>3, MembershipIs
    <3>2. [p EXCEPT !.learners = new] = [is |-> "Membership", configs |-> p.configs, learners |-> new]
      BY <3>1
    <3>3. p.configs \in Seq(SUBSET Nodes) /\ p.configs # <<>> /\ K \subseteq Last(p.configs)
      BY <2>3, MembershipIs
    <3> QED BY <2>5, <3>2, <3>3, MembershipMakes DEF Membership
  <2>7. Change([p EXCEPT !.learners = new], "learner_wait") /\ source' = source
    BY <1>4, <2>1, <2>4 DEF add_learner
  <2> QED BY <2>2, <2>6, <2>7, ChangeStep
<1>5. CASE LearnerAdded
  <2>1. PICK at : /\ at = IF ToLearn = {Learner} THEN "change" ELSE "add_learner"
                  /\ watcher' = [watcher EXCEPT !.learned = @ \cup {Learner}, !.at = at]
    BY <1>5 DEF LearnerAdded
  <2>2. Learner \in ToLearn /\ Learner \in Nodes
    BY <1>5, LearnerIs DEF LearnerAdded, WatcherInv
  <2>3. PICK learned : learned = watcher.learned \cup {Learner}
    OBVIOUS
  <2>4. watcher' = [at |-> at, joining |-> watcher.joining, leaving |-> watcher.leaving,
                    learned |-> learned, index |-> watcher.index]
    <3>1. watcher = [at |-> watcher.at, joining |-> watcher.joining, leaving |-> watcher.leaving,
                     learned |-> watcher.learned, index |-> watcher.index]
      BY <1>1, WatcherIs
    <3>2. PICK t : t = [watcher EXCEPT !.learned = learned]
      OBVIOUS
    <3>3. t = [at |-> watcher.at, joining |-> watcher.joining, leaving |-> watcher.leaving,
               learned |-> learned, index |-> watcher.index]
      BY <3>1, <3>2
    <3>4. [t EXCEPT !.at = at] = [at |-> at, joining |-> watcher.joining, leaving |-> watcher.leaving,
                                  learned |-> learned, index |-> watcher.index]
      BY <3>3
    <3>5. watcher' = [watcher EXCEPT !.learned = learned, !.at = at]
      BY <2>1, <2>3
    <3> QED BY <3>2, <3>4, <3>5, Zenon
  <2>5. watcher' \in Watcher
    <3>1. at \in {"sleep", "add_learner", "learner_wait", "change", "joint_wait", "uniform_wait", "returned"}
      BY <2>1
    <3>2. /\ watcher.joining \in SUBSET Nodes /\ watcher.leaving \in SUBSET Nodes
          /\ learned \in SUBSET Nodes /\ watcher.index \in 0..MaxLog
      BY <1>1, <2>2, <2>3, WatcherIs
    <3> QED BY <2>4, <3>1, <3>2, WatcherMakes
  <2>6. at = "add_learner" => watcher.joining \ learned # {}
    BY <2>1, <2>2, <2>3 DEF ToLearn
  <2>7. WatcherInv(K)'
    BY <1>1, <1>5, <2>1, <2>4, <2>5, <2>6 DEF WatcherInv, ToLearn, LearnerAdded
  <2>8. ClusterInv(K)'
    BY <1>5, ClusterStays DEF LearnerAdded
  <2> QED BY <2>7, <2>8
<1>6. CASE change_membership
  <2>1. leading[Handle] # {}
    BY <1>6 DEF change_membership, CanChange
  <2>2. Goal \in SUBSET Nodes /\ K \subseteq Goal
    BY <2>1, GoalKeeps
  <2>3. PICK p : p = NextCoherent(Goal, watcher.joining # {})
    OBVIOUS
  <2>4. p \in Memberships(K)
    BY <2>1, <2>2, <2>3, CoherentKeeps
  <2>5. PICK next : /\ next = IF Len(p.configs) = 2 THEN "joint_wait" ELSE "uniform_wait"
                    /\ Change(p, next) /\ source' = source
    BY <1>6, <2>3 DEF change_membership
  <2>6. next \in {"learner_wait", "joint_wait", "uniform_wait"} /\ next # "learner_wait"
    BY <2>5
  <2> QED BY <2>4, <2>5, <2>6, ChangeStep
<1>7. CASE LeaveJoint
  <2>1. leading[Handle] # {}
    BY <1>7 DEF LeaveJoint, Changed
  <2>2. PICK last : last = Last(membership_config(Handle).configs) /\ last \in SUBSET Nodes /\ K \subseteq last
    BY <2>1, LeadersConfig, MembershipIs, VotersIn
  <2>3. PICK p : p = NextCoherent(last, watcher.joining # {})
    OBVIOUS
  <2>4. p \in Memberships(K)
    BY <2>1, <2>2, <2>3, CoherentKeeps
  <2>5. Change(p, "uniform_wait") /\ source' = source
    BY <1>7, <2>2, <2>3 DEF LeaveJoint
  <2> QED BY <2>4, <2>5, ChangeStep
<1>8. CASE ChangeDone
  <2>1. UNCHANGED <<clusterVars, source>>
    BY <1>8 DEF ChangeDone
  <2>2. CASE watcher' = Asleep
    BY <1>1, <2>1, <2>2, FailsKeeps, ClusterStays
  <2>3. CASE watcher' = [Asleep EXCEPT !.at = "change", !.leaving = watcher.leaving]
    <3>1. watcher' = [at |-> "change", joining |-> {}, leaving |-> watcher.leaving, learned |-> {}, index |-> 0]
      BY <2>3 DEF Asleep
    <3>2. watcher' \in Watcher
      BY <1>1, <3>1, WatcherIs, BoundsAssumption DEF Watcher
    <3>3. WatcherInv(K)'
      BY <2>1, <3>1, <3>2 DEF WatcherInv
    <3> QED BY <2>1, <3>3, ClusterStays
  <2> QED BY <1>8, <2>2, <2>3 DEF ChangeDone
<1> QED BY <1>2, <1>3, <1>4, <1>5, <1>6, <1>7, <1>8 DEF Reconcile

LEMMA EditStep ==
    ASSUME NEW K, WatcherInv(K), Edit \/ Stop
    PROVE  WatcherInv(K)'
<1>1. CASE Edit
  <2>1. /\ Len(source) \in Nat /\ Len(source) > 1 /\ \A i \in 1..Len(source) : source[i] \in SUBSET Nodes
        /\ source' = Tail(source)
    BY <1>1 DEF Edit, WatcherInv
  <2>2. /\ source' \in Seq(SUBSET Nodes) /\ Len(source') = Len(source) - 1
        /\ \A i \in 1..Len(source') : source'[i] = source[i + 1]
    BY <2>1 DEF WatcherInv
  <2>3. source' # <<>>
    BY <2>1, <2>2
  <2>4. \A i \in 1..Len(source') : K \subseteq source'[i]
    BY <2>1, <2>2 DEF WatcherInv
  <2> QED BY <1>1, <2>2, <2>3, <2>4 DEF Edit, WatcherInv, ToLearn
<1>2. CASE Stop
  <2>1. [watcher EXCEPT !.at = "returned"] \in Watcher
    BY DEF WatcherInv, Watcher
  <2>2. watcher' \in Watcher /\ watcher'.at = "returned" /\ watcher'.leaving = watcher.leaving
        /\ source' = source
    BY <1>2, <2>1 DEF Stop, WatcherInv, Watcher
  <2> QED BY <2>2 DEF WatcherInv
<1> QED BY <1>1, <1>2

-----------------------------------------------------------------------------
(* The producers' writes                                                    *)

LEMMA NoWriteIs == \A h \in Nodes : [NoWrite EXCEPT !.handle = h] \in WriteIds /\ NoWrite \in WriteIds
BY HandleAssumption, BoundsAssumption DEF NoWrite, WriteIds

\* A write is proposed by a leader, as its next entry.
LEMMA WriteIs ==
    ASSUME NEW w \in WriteIds, NEW term \in 0..MaxTerm, NEW i \in 0..MaxLog
    PROVE  w.handle \in Nodes /\ [w EXCEPT !.term = term, !.index = i] \in WriteIds
<1>1. w = [handle |-> w.handle, term |-> w.term, index |-> w.index] /\ w.handle \in Nodes
  BY DEF WriteIds
<1>2. PICK t : t = [w EXCEPT !.term = term]
  OBVIOUS
<1>3. t = [handle |-> w.handle, term |-> term, index |-> w.index]
  BY <1>1, <1>2
<1>4. [t EXCEPT !.index = i] = [handle |-> w.handle, term |-> term, index |-> i]
  BY <1>3
<1>5. [w EXCEPT !.term = term, !.index = i] = [handle |-> w.handle, term |-> term, index |-> i]
  BY <1>2, <1>4, Zenon
<1> QED BY <1>1, <1>5 DEF WriteIds

\* client_write: what the cluster and the producer have of a write.
LEMMA ClientWriteStep ==
    ASSUME NEW K, ClusterInv(K), WritesInv, CallType, NEW c \in Callers, ClientWrite(c)
    PROVE  ClusterInv(K)' /\ WritesInv'
<1>1. PICK h \in Nodes, w \in WriteIds, key \in Keys, value \in Values :
        h = pending[c].write.handle /\ w = pending[c].write /\ key = call[c].key /\ value = call[c].value
  BY DEF WritesInv, WriteIds, CallType, Call
<1>2. CASE leading[h] # {} /\ LeaderAppends(h, Set(key, value))
           /\ pending' = [pending EXCEPT ![c].write =
                [@ EXCEPT !.term = Elements(leading[h], 0), !.index = LastLog(h).index + 1]]
  <2>1. Set(key, value) \in Payloads(K)
    BY <1>1 DEF Set, Sets, Payloads
  <2>2. ClusterInv(K)'
    BY <1>2, <2>1, LeaderStep
  <2>3. PICK term \in 0..MaxTerm : term = Elements(leading[h], 0)
    BY <1>2, LeaderTerm, BoundsAssumption
  <2>4. PICK i \in 0..MaxLog : i = LastLog(h).index + 1
    <3>1. LastLog(h).index \in 0..MaxLog /\ LastLog(h).index < MaxLog
      BY <1>2, LastLogIs, TypesOf DEF LeaderAppends
    <3> QED BY <3>1, BoundsAssumption
  <2>5. PICK new \in WriteIds : new = [w EXCEPT !.term = term, !.index = i]
    BY WriteIs
  <2>6. pending' = [pending EXCEPT ![c].write = new]
    BY <1>1, <1>2, <2>3, <2>4, <2>5
  <2>7. WritesInv'
    BY <2>6 DEF WritesInv
  <2> QED BY <2>2, <2>7
<1>3. CASE UNCHANGED <<clusterVars, pending>>
  BY <1>3, ClusterStays DEF WritesInv
<1> QED BY <1>1, <1>2, <1>3 DEF ClientWrite

\* The producers' other steps.
LEMMA WritesKeep ==
    ASSUME WritesInv, NEW c \in Callers,
           \/ BeginWrite(c) \/ BeginOperation(c) \/ WriteReturns(c) \/ Operation(c) \/ Guarded(c)
    PROVE  WritesInv'
<1>1. CASE BeginWrite(c)
  <2>1. pending[c].writes \in Seq(Writes) /\ pending[c].writes # <<>>
    BY <1>1 DEF WritesInv, BeginWrite
  <2>2. PICK w \in Writes, rest \in Seq(Writes) :
          pending' = [pending EXCEPT ![c] = [writes |-> rest, write |-> [NoWrite EXCEPT !.handle = w.handle]]]
    <3>1. Head(pending[c].writes) \in Writes /\ Tail(pending[c].writes) \in Seq(Writes)
      BY <2>1
    <3> QED BY <1>1, <3>1 DEF BeginWrite
  <2>3. PICK new \in WriteIds : new = [NoWrite EXCEPT !.handle = w.handle]
    BY NoWriteIs DEF Writes
  <2> QED BY <2>2, <2>3 DEF WritesInv
<1>2. CASE BeginOperation(c) \/ WriteReturns(c) \/ Operation(c) \/ Guarded(c)
  BY <1>2 DEF BeginOperation, WriteReturns, Operation, Guarded, callVars, WritesInv
<1> QED BY <1>1, <1>2

-----------------------------------------------------------------------------
(* Memberships keep the stable voters.                                      *)

LEMMA StableIs ==
    ASSUME workload \in Workloads
    PROVE  /\ Stable \in SUBSET Nodes /\ Stable \subseteq workload.voters
           /\ \A i \in 1..Len(workload.source) : Stable \subseteq workload.source[i]
<1>1. workload.source \in Seq(SUBSET Nodes)
  BY WorkloadsAssumption
<1>2. \A i \in 1..Len(workload.source) : workload.source[i] \in Range(workload.source)
  BY <1>1 DEF Range
<1> QED BY <1>2 DEF Stable

LEMMA ReplicationStep ==
    ASSUME NEW K, ClusterInv(K), workload \in Workloads, Replication \/ Events
    PROVE  ClusterInv(K)'
<1>1. ASSUME NEW l \in Nodes, NEW m \in Nodes, append_entries(l, m) \/ install_snapshot(l, m)
      PROVE  ClusterInv(K)'
  BY <1>1, AppendStep, InstallStep
<1>2. ASSUME NEW n \in Nodes,
             Commit(n) \/ StepDown(n) \/ Apply(n) \/ KeepInstalled(n) \/ KeepBuilt(n)
      PROVE  ClusterInv(K)'
  BY <1>2, CommitStep, StepDownStep, ApplyStep, KeepInstalledStep, BuildStep
<1>3. ASSUME NEW n \in Nodes, register(n) \/ shutdown(n) PROVE ClusterInv(K)'
  BY <1>3, HubStep
<1>4. ASSUME NEW n \in Nodes, NEW Q \in SUBSET Nodes, Elect(n, Q) PROVE ClusterInv(K)'
  BY <1>4, ElectStep
<1>5. ASSUME NEW n \in Nodes, BuildSnapshot(n) \/ Purge(n) PROVE ClusterInv(K)'
  BY <1>5, BuildStep, PurgeStep
<1>6. /\ workload.candidates \subseteq Nodes /\ workload.shutdowns \subseteq Nodes
      /\ workload.snapshots \subseteq Nodes
  BY WorkloadsAssumption
<1> QED BY <1>1, <1>2, <1>3, <1>4, <1>5, <1>6 DEF Replication, Events

LEMMA MembersStep == MembersInv /\ CacheInv /\ [Next]_vars => MembersInv'
<1> SUFFICES ASSUME MembersInv, CacheInv, [Next]_vars PROVE MembersInv'
  OBVIOUS
<1>1. PICK K : K = Stable
  OBVIOUS
<1>2. ClusterInv(K) /\ WatcherInv(K) /\ WritesInv /\ workload \in Workloads /\ CallType
  BY <1>1 DEF MembersInv, CacheInv
<1>3. workload' = workload
  BY DEF Next, CallStep, BeginWrite, BeginOperation, ClientWrite, WriteReturns, Operation, Guarded,
         HealthCheck, Turn, Time, Cluster, Watch, vars
<1>4. Stable' = K /\ workload' \in Workloads
  BY <1>1, <1>2, <1>3 DEF Stable
<1>5. ASSUME UNCHANGED watcherVars PROVE WatcherInv(K)'
  BY <1>2, <1>5 DEF WatcherInv, watcherVars, ToLearn
<1>6. ASSUME NEW c \in Callers, CallStep(c) PROVE ClusterInv(K)' /\ WatcherInv(K)' /\ WritesInv'
  <2>1. UNCHANGED watcherVars
    BY <1>6 DEF CallStep, BeginWrite, BeginOperation, ClientWrite, WriteReturns, Operation, Guarded
  <2>2. CASE ClientWrite(c)
    BY <1>2, <1>5, <2>1, <2>2, ClientWriteStep
  <2>3. CASE BeginWrite(c) \/ BeginOperation(c) \/ WriteReturns(c) \/ Operation(c) \/ Guarded(c)
    <3>1. UNCHANGED clusterVars
      BY <2>3 DEF BeginWrite, BeginOperation, WriteReturns, Operation, Guarded
    <3> QED BY <1>2, <1>5, <2>1, <2>3, <3>1, ClusterStays, WritesKeep
  <2> QED BY <1>6, <2>2, <2>3 DEF CallStep
<1>7. CASE Cluster
  <2>1. ClusterInv(K)'
    BY <1>2, <1>7, ReplicationStep DEF Cluster
  <2> QED BY <1>2, <1>4, <1>5, <1>7, <2>1 DEF Cluster, callVars, WritesInv, MembersInv
<1>8. CASE Watch
  <2>1. ClusterInv(K)' /\ WatcherInv(K)'
    <3>1. CASE Reconcile
      BY <1>2, <3>1, ReconcileStep
    <3>2. CASE Edit \/ Stop
      BY <1>2, <3>2, EditStep, ClusterStays DEF Edit, Stop
    <3> QED BY <1>8, <3>1, <3>2 DEF Watch
  <2> QED BY <1>2, <1>4, <1>8, <2>1 DEF Watch, callVars, WritesInv, MembersInv
<1>9. CASE HealthCheck \/ Turn \/ Time \/ UNCHANGED vars
  <2>1. UNCHANGED <<clusterVars, watcherVars, pending>>
    BY <1>9 DEF HealthCheck, Turn, Time, vars, callVars
  <2> QED BY <1>2, <1>4, <1>5, <2>1, ClusterStays DEF WritesInv, MembersInv
<1> QED BY <1>4, <1>6, <1>7, <1>8, <1>9 DEF Next, MembersInv

\* A cluster that has just been initialized.
LEMMA MembersInit == Init => MembersInv
<1> SUFFICES ASSUME Init PROVE MembersInv
  OBVIOUS
<1>1. PICK K, voters : K = Stable /\ voters = workload.voters
  OBVIOUS
<1>2. workload \in Workloads
  BY DEF Init
<1>3. /\ K \in SUBSET Nodes /\ K \subseteq voters /\ voters \in SUBSET Nodes
      /\ \A i \in 1..Len(workload.source) : K \subseteq workload.source[i]
      /\ workload.source \in Seq(SUBSET Nodes) \ {<<>>}
      /\ workload.writes \in [Callers -> Seq(Writes)]
      /\ Handle \in voters
  BY <1>1, <1>2, StableIs, WorkloadsAssumption DEF Writes
<1>4. PICK p : p = Membership(<<voters>>, {})
  OBVIOUS
<1>5. p \in Memberships(K)
  <2>1. <<voters>> \in Seq(SUBSET Nodes) /\ <<voters>> # <<>> /\ Last(<<voters>>) = voters
    BY <1>3 DEF Last
  <2> QED BY <1>3, <1>4, <2>1, MembershipMakes
<1>6. PICK e1 \in Entries(K), e2 \in Entries(K) :
        /\ e1 = Entry(0, 1, p) /\ e2 = Entry(1, 2, Blank)
        /\ e1.log_id.index = 1 /\ e2.log_id.index = 2 /\ e1.payload = p
  BY <1>5, BoundsAssumption, EntryMakes DEF Payloads
<1>7. PICK log : log = <<e1, e2>>
  OBVIOUS
<1>8. log \in Seq(Entries(K)) /\ Len(log) = 2 /\ log \in [{1, 2} -> Entries(K)] /\ log[1] = e1 /\ log[2] = e2
  BY <1>7
<1>9. log \in Logs(K)
  <2>1. {1, 2} \in SUBSET (1..MaxLog)
    BY BoundsAssumption
  <2>2. \A i \in {1, 2} : log[i].log_id.index = i /\ (i = 1 => log[i].payload \in Memberships(K))
    BY <1>5, <1>6, <1>8
  <2> QED BY <1>8, <2>1, <2>2, LogMakes
<1>10. Initialized(voters) = log
  BY <1>4, <1>6, <1>7 DEF Initialized
<1>11. Machine!default \in Datas(K) /\ Machine!default.last_applied_log = {} /\ Machine!default.last_membership = {}
  BY NoKeys DEF Machine!default, Datas, Option
<1>12. PICK d \in Datas(K) : d = Machine!apply(Machine!apply(Machine!default, e1), e2) /\ d.last_membership # {}
  <2>1. PICK x \in Datas(K) : x = Machine!apply(Machine!default, e1) /\ x.last_applied_log # {}
    BY <1>5, <1>6, <1>11, ApplyKeeps
  <2> QED BY <2>1, ApplyKeeps
<1>13. PICK none \in Datas(K) : none = Machine!default /\ none.last_membership = {}
  BY <1>11
<1>14. /\ hub = [n \in Nodes |-> IF n \in workload.registered THEN "registered" ELSE "new"]
       /\ store = [n \in Nodes |-> IF n \in voters
                     THEN [log |-> log, vote |-> {1}, last_purged |-> {}] ELSE Log!default]
       /\ machine = [n \in Nodes |-> [data |-> IF n \in voters THEN d ELSE none,
                                      snapshot |-> {}, building |-> {}, installing |-> {}]]
       /\ leading = [n \in Nodes |-> IF n = Handle THEN {1} ELSE {}]
       /\ commit = [n \in Nodes |-> IF n \in voters THEN 2 ELSE 0]
       /\ committed = log
  <2>1. ClusterInit(voters, Handle, workload.registered)
    BY <1>1 DEF Init
  <2>2. log[1] = e1 /\ log[2] = e2
    BY <1>8
  <2> QED BY <1>10, <1>12, <1>13, <2>1, <2>2 DEF ClusterInit
<1>15. {} \in Option(Snapshots(K)) /\ {} \in Option(LogIds) /\ {1} \in Option(1..MaxTerm) /\ {} \in Option(1..MaxTerm)
  BY BoundsAssumption, OptionOf DEF Option
<1>16. PICK full \in Stores(K), bare \in Stores(K) :
         /\ full = [log |-> log, vote |-> {1}, last_purged |-> {}] /\ bare = Log!default
         /\ full.log = log /\ DOMAIN log # {}
  <2>1. [log |-> log, vote |-> {1}, last_purged |-> {}] \in Stores(K)
    BY <1>9, <1>15, StoreMakes
  <2>2. <<>> \in Logs(K)
    <3>1. <<>> \in [{} -> Entries(K)] /\ {} \in SUBSET (1..MaxLog)
      OBVIOUS
    <3> QED BY <3>1, LogMakes
  <2>3. Log!default \in Stores(K)
    BY <1>15, <2>2, StoreMakes DEF Log!default
  <2> QED BY <1>8, <2>1, <2>3
<1>17. ClusterType(K)
  <2>1. store \in [Nodes -> Stores(K)]
    BY <1>14, <1>16
  <2>2. machine \in [Nodes -> Machines(K)]
    <3>1. \A x \in Datas(K) : [data |-> x, snapshot |-> {}, building |-> {}, installing |-> {}] \in Machines(K)
      <4>1. {} \cup {} \cup {} = {}
        OBVIOUS
      <4> QED BY <1>15, <4>1, MachineMakes
    <3> QED BY <1>14, <3>1
  <2>3. /\ hub \in [Nodes -> {"new", "registered", "shut_down"}]
        /\ leading \in [Nodes -> Option(1..MaxTerm)]
    BY <1>14, <1>15
  <2>4. 0 \in 0..MaxLog /\ 2 \in 0..MaxLog
    BY BoundsAssumption
  <2>5. commit \in [Nodes -> 0..MaxLog]
    BY <1>14, <2>4
  <2>6. committed \in Seq(Entries(K)) /\ Len(committed) <= MaxLog
    <3>1. PICK c : c = committed
      OBVIOUS
    <3>2. c = log
      BY <1>14, <3>1
    <3>3. c \in Seq(Entries(K)) /\ Len(c) = 2 /\ 2 <= MaxLog
      BY <1>8, <2>4, <3>2
    <3> QED BY <3>1, <3>3
  <2> QED BY <2>1, <2>2, <2>3, <2>5, <2>6 DEF ClusterType
<1>18. ASSUME NEW n \in Nodes
       PROVE  /\ leading[n] # {} => Knows(n)
              /\ machine[n].data.last_membership # {} => Begun(n)
  <2>1. CASE n \in voters
    <3>1. store[n] = full /\ machine[n].data = d
      BY <1>14, <1>16, <2>1
    <3>2. Begun(n) /\ Knows(n)
      BY <1>12, <1>16, <3>1 DEF Begun, Knows
    <3> QED BY <3>2
  <2>2. CASE n \notin voters
    BY <1>3, <1>13, <1>14, <2>2
  <2> QED BY <2>1, <2>2
<1>19. ClusterInv(K)
  BY <1>17, <1>18 DEF ClusterInv
<1>20. WatcherInv(K)
  <2>1. watcher = Asleep /\ source = workload.source
    BY DEF Init, WatcherInit
  <2> QED BY <1>3, <2>1, AsleepIs DEF WatcherInv
<1>21. WritesInv
  BY <1>3, HandleAssumption, NoWriteIs DEF Init, WritesInv
<1> QED BY <1>1, <1>2, <1>19, <1>20, <1>21 DEF MembersInv

LEMMA MembersInvHolds == Spec => []MembersInv
BY MembersInit, MembersStep, CacheInvHolds, PTL DEF Spec

\* reconcile_once: whichever version of the source a reconciliation read, wherever it
\* failed, whoever else changed the file or led in between, a voter that every version
\* names is in every membership the cluster commits.
THEOREM StableMembersNeverLeave == Spec => []StableMembersStay
<1>1. MembersInv => StableMembersStay
  <2> SUFFICES ASSUME MembersInv, NEW n \in Stable, NEW i \in Upto(Len(committed), "Membership")
               PROVE  n \in UNION Range(committed[i].payload.configs)
    BY DEF StableMembersStay, Stable
  <2>1. PICK K : K = Stable
    OBVIOUS
  <2>2. ClusterInv(K)
    BY <2>1 DEF MembersInv
  <2>3. committed[i] \in Entries(K) /\ committed[i].payload.is = "Membership"
    BY <2>2, TypesOf DEF AgreedOk, Upto
  <2>4. PICK p : p = committed[i].payload /\ p \in Memberships(K)
    BY <2>3, EntryIs, PayloadIs
  <2> QED BY <2>1, <2>4, MembershipIs, VotersIn
<1> QED BY <1>1, MembersInvHolds, PTL

-----------------------------------------------------------------------------
(* Types                                                                    *)

\* The counts and the times a breaker may have.
Failures == {0} \cup 0..(failure_threshold - 1)
Successes == {0} \cup 0..(half_open_success_threshold - 1)
Times == {{}} \cup {{age} : age \in 0..open_duration}

InnerOf(state, failures, successes, times) ==
    [state |-> state, consecutive_failures |-> failures, consecutive_successes |-> successes,
     opened_at |-> times]

LEMMA InnerMakes ==
    ASSUME NEW state \in Breaker!CircuitState, NEW failures \in Failures, NEW successes \in Successes,
           NEW times \in Times
    PROVE  InnerOf(state, failures, successes, times) \in Breaker!Inner
BY DEF InnerOf, Breaker!Inner, Failures, Successes, Times

LEMMA InnerIs ==
    ASSUME NEW b \in Breaker!Inner
    PROVE  /\ b.state \in Breaker!CircuitState /\ b.consecutive_failures \in Failures
           /\ b.consecutive_successes \in Successes /\ b.opened_at \in Times
           /\ b = InnerOf(b.state, b.consecutive_failures, b.consecutive_successes, b.opened_at)
BY DEF InnerOf, Breaker!Inner, Failures, Successes, Times

\* Every change of state starts the counts again.
LEMMA TurnedInner ==
    ASSUME NEW b \in Breaker!Inner, NEW state \in Breaker!CircuitState
    PROVE  /\ Breaker!Turned(b, state) = InnerOf(state, 0, 0, b.opened_at)
           /\ Breaker!Turned(b, state) \in Breaker!Inner
           /\ Breaker!open(b) \in Breaker!Inner
<1>1. 0 \in Failures /\ 0 \in Successes /\ {0} \in Times /\ b.opened_at \in Times
  BY InnerIs, DurationsAssumption DEF Failures, Successes, Times
<1>2. ASSUME NEW to \in Breaker!CircuitState PROVE Breaker!Turned(b, to) = InnerOf(to, 0, 0, b.opened_at)
  <2>1. PICK t : t = [b EXCEPT !.state = to]
    OBVIOUS
  <2>2. t = InnerOf(to, b.consecutive_failures, b.consecutive_successes, b.opened_at)
    BY <2>1, InnerIs DEF InnerOf
  <2>3. PICK u : u = [t EXCEPT !.consecutive_failures = 0]
    OBVIOUS
  <2>4. u = InnerOf(to, 0, b.consecutive_successes, b.opened_at)
    BY <2>2, <2>3 DEF InnerOf
  <2>5. [u EXCEPT !.consecutive_successes = 0] = InnerOf(to, 0, 0, b.opened_at)
    BY <2>4 DEF InnerOf
  <2> QED BY <2>1, <2>3, <2>5, Zenon DEF Breaker!Turned
<1>3. "Open" \in Breaker!CircuitState
  BY DEF Breaker!CircuitState
<1>4. Breaker!open(b) = InnerOf("Open", 0, 0, {0})
  BY <1>2, <1>3 DEF Breaker!open, InnerOf
<1> QED BY <1>1, <1>2, <1>3, <1>4, InnerMakes

LEMMA ResolveInner == ASSUME NEW b \in Breaker!Inner PROVE Breaker!resolve_open_timeout(b) \in Breaker!Inner
<1>1. "HalfOpen" \in Breaker!CircuitState
  BY DEF Breaker!CircuitState
<1> QED BY <1>1, TurnedInner DEF Breaker!resolve_open_timeout

\* record_success: the count of a half-open circuit stays under its threshold.
LEMMA SuccessInner == ASSUME NEW b \in Breaker!Inner PROVE Breaker!record_success(b) \in Breaker!Inner
<1>1. b = InnerOf(b.state, b.consecutive_failures, b.consecutive_successes, b.opened_at)
      /\ b.state \in Breaker!CircuitState /\ b.consecutive_failures \in Failures
      /\ b.consecutive_successes \in Successes /\ b.opened_at \in Times
  BY InnerIs
<1>2. CASE b.state = "Closed"
  <2>1. [b EXCEPT !.consecutive_failures = 0] = InnerOf(b.state, 0, b.consecutive_successes, b.opened_at)
    BY <1>1 DEF InnerOf
  <2>2. 0 \in Failures
    BY DEF Failures
  <2> QED BY <1>1, <1>2, <2>1, <2>2, InnerMakes DEF Breaker!record_success
<1>3. CASE b.state = "HalfOpen"
  <2>1. Breaker!record_success(b) = Breaker!TrialSucceeded(b)
    BY <1>3 DEF Breaker!record_success
  <2>2. Breaker!Turned(b, "Closed") \in Breaker!Inner
    BY TurnedInner DEF Breaker!CircuitState
  <2>3. PICK n : n = b.consecutive_successes + 1
    OBVIOUS
  <2>4. [b EXCEPT !.consecutive_successes = @ + 1] = InnerOf(b.state, b.consecutive_failures, n, b.opened_at)
    BY <1>1, <2>3 DEF InnerOf
  <2>5. CASE n >= half_open_success_threshold
    BY <2>1, <2>2, <2>3, <2>5 DEF Breaker!TrialSucceeded
  <2>6. CASE ~(n >= half_open_success_threshold)
    <3>1. n \in Successes
      BY <1>1, <2>3, <2>6, ThresholdsAssumption DEF Successes
    <3>2. Breaker!TrialSucceeded(b) = [b EXCEPT !.consecutive_successes = @ + 1]
      BY <2>3, <2>6 DEF Breaker!TrialSucceeded
    <3> QED BY <1>1, <2>1, <2>4, <3>1, <3>2, InnerMakes
  <2> QED BY <2>5, <2>6
<1>4. CASE b.state = "Open"
  BY <1>4 DEF Breaker!record_success
<1> QED BY <1>1, <1>2, <1>3, <1>4 DEF Breaker!CircuitState

\* record_failure: a closed circuit opens at its threshold.
LEMMA FailureInner == ASSUME NEW b \in Breaker!Inner PROVE Breaker!record_failure(b) \in Breaker!Inner
<1>1. b = InnerOf(b.state, b.consecutive_failures, b.consecutive_successes, b.opened_at)
      /\ b.state \in Breaker!CircuitState /\ b.consecutive_failures \in Failures
      /\ b.consecutive_successes \in Successes /\ b.opened_at \in Times
  BY InnerIs
<1>2. Breaker!open(b) \in Breaker!Inner
  BY <1>1, TurnedInner
<1>3. CASE b.state = "Closed"
  <2>1. PICK n : n = b.consecutive_failures + 1
    OBVIOUS
  <2>2. [b EXCEPT !.consecutive_failures = @ + 1] = InnerOf(b.state, n, b.consecutive_successes, b.opened_at)
    BY <1>1, <2>1 DEF InnerOf
  <2>3. CASE n >= failure_threshold
    BY <1>2, <1>3, <2>1, <2>3 DEF Breaker!record_failure
  <2>4. CASE ~(n >= failure_threshold)
    <3>1. n \in Failures
      BY <1>1, <2>1, <2>4, ThresholdsAssumption DEF Failures
    <3>2. Breaker!record_failure(b) = [b EXCEPT !.consecutive_failures = @ + 1]
      BY <1>3, <2>1, <2>4 DEF Breaker!record_failure
    <3> QED BY <1>1, <2>2, <3>1, <3>2, InnerMakes
  <2> QED BY <2>3, <2>4
<1>4. CASE b.state = "HalfOpen"
  BY <1>2, <1>4 DEF Breaker!record_failure
<1>5. CASE b.state = "Open"
  BY <1>5 DEF Breaker!record_failure
<1> QED BY <1>1, <1>3, <1>4, <1>5 DEF Breaker!CircuitState

LEMMA AgeInner == ASSUME NEW b \in Breaker!Inner PROVE Breaker!Age(b) \in Breaker!Inner
<1>1. b = InnerOf(b.state, b.consecutive_failures, b.consecutive_successes, b.opened_at)
      /\ b.state \in Breaker!CircuitState /\ b.consecutive_failures \in Failures
      /\ b.consecutive_successes \in Successes /\ b.opened_at \in Times
  BY InnerIs
<1>2. PICK times : times = {IF age < open_duration THEN age + 1 ELSE age : age \in b.opened_at}
  OBVIOUS
<1>3. times \in Times
  <2>1. CASE b.opened_at = {}
    BY <1>2, <2>1 DEF Times
  <2>2. CASE b.opened_at # {}
    <3>1. PICK age \in 0..open_duration : b.opened_at = {age}
      BY <1>1, <2>2 DEF Times
    <3>2. PICK later \in 0..open_duration : later = IF age < open_duration THEN age + 1 ELSE age
      BY DurationsAssumption
    <3>3. times = {later}
      BY <1>2, <3>1, <3>2
    <3> QED BY <3>3 DEF Times
  <2> QED BY <2>1, <2>2
<1>4. Breaker!Age(b) = [b EXCEPT !.opened_at = times]
  BY <1>1, <1>2 DEF Breaker!Age, InnerOf
<1>5. Breaker!Age(b) = InnerOf(b.state, b.consecutive_failures, b.consecutive_successes, times)
  BY <1>1, <1>4 DEF InnerOf
<1> QED BY <1>1, <1>3, <1>5, InnerMakes

\* What the cache holds for a key.
Kept == {{}} \cup {{e} : e \in Cache!CacheEntry(Values)}

GuardTypes == breaker \in Breaker!Inner /\ cache \in [Keys -> Kept] /\ cached \in BOOLEAN

\* Entries expire and are removed, they age, and they are replaced.
LEMMA KeptIs ==
    /\ \A entries \in Kept : Cache!Live(entries) \in Kept
    /\ \A value \in Values : {[value |-> value, age |-> 0]} \in Kept
    /\ \A entries \in Kept : {[e EXCEPT !.age = IF @ < ttl THEN @ + 1 ELSE @] : e \in entries} \in Kept
<1>1. ASSUME NEW entries \in Kept PROVE Cache!Live(entries) \in Kept
  BY DEF Kept, Cache!Live
<1>2. ASSUME NEW value \in Values PROVE {[value |-> value, age |-> 0]} \in Kept
  BY DurationsAssumption DEF Kept, Cache!CacheEntry
<1>3. ASSUME NEW entries \in Kept
      PROVE  {[e EXCEPT !.age = IF @ < ttl THEN @ + 1 ELSE @] : e \in entries} \in Kept
  <2>1. CASE entries = {}
    BY <2>1 DEF Kept
  <2>2. CASE entries # {}
    <3>1. PICK e \in Cache!CacheEntry(Values) : entries = {e}
      BY <2>2 DEF Kept
    <3>2. PICK older : older = [e EXCEPT !.age = IF @ < ttl THEN @ + 1 ELSE @]
      OBVIOUS
    <3>3. older \in Cache!CacheEntry(Values)
      BY <3>1, <3>2, DurationsAssumption DEF Cache!CacheEntry
    <3>4. {[x EXCEPT !.age = IF @ < ttl THEN @ + 1 ELSE @] : x \in entries} = {older}
      BY <3>1, <3>2
    <3> QED BY <3>3, <3>4 DEF Kept
  <2> QED BY <2>1, <2>2
<1> QED BY <1>1, <1>2, <1>3

LEMMA GuardTypesStep == GuardTypes /\ CacheInv /\ [Next]_vars => GuardTypes'
<1> SUFFICES ASSUME GuardTypes, CallType, [Next]_vars PROVE GuardTypes'
  BY DEF CacheInv
<1>1. breaker \in Breaker!Inner /\ cache \in [Keys -> Kept] /\ cached \in BOOLEAN
  BY DEF GuardTypes
<1>2. ASSUME NEW c \in Callers, CallStep(c) PROVE GuardTypes'
  <2>1. CASE BeginWrite(c) \/ BeginOperation(c)
    BY <1>1, <2>1, ResolveInner DEF BeginWrite, BeginOperation, Begin, GuardTypes
  <2>2. CASE ClientWrite(c) \/ WriteReturns(c) \/ Operation(c)
    BY <1>1, <2>2 DEF ClientWrite, WriteReturns, Operation, GuardTypes
  <2>3. CASE Guarded(c)
    <3>1. call[c].key \in Keys /\ call[c].value \in Values
      BY DEF CallType, Call
    <3>2. CASE RecordSuccess(c) \/ RecordFailure(c)
      BY <1>1, <3>2, SuccessInner, FailureInner DEF RecordSuccess, RecordFailure, GuardTypes
    <3>3. CASE SetCache(c)
      <4>1. cache' = [cache EXCEPT ![call[c].key] = {[value |-> call[c].value, age |-> 0]}]
        BY <3>3 DEF SetCache, Cache!set
      <4>2. cache' \in [Keys -> Kept]
        BY <1>1, <3>1, <4>1, KeptIs
      <4> QED BY <1>1, <3>3, <4>2 DEF SetCache, GuardTypes
    <3>4. CASE fall_back(c)
      <4>1. cache' = [cache EXCEPT ![call[c].key] = Cache!Live(cache[call[c].key])]
        BY <3>4 DEF fall_back, Cache!get
      <4>2. cache' \in [Keys -> Kept]
        BY <1>1, <3>1, <4>1, KeptIs
      <4> QED BY <1>1, <3>4, <4>2 DEF fall_back, GuardTypes
    <3> QED BY <2>3, <3>2, <3>3, <3>4 DEF Guarded, GuardStep
  <2> QED BY <1>2, <2>1, <2>2, <2>3 DEF CallStep
<1>3. CASE HealthCheck
  BY <1>1, <1>3, ResolveInner DEF HealthCheck, breaker_state, GuardTypes
<1>4. CASE Time
  <2>1. cache' = [k \in Keys |-> {[e EXCEPT !.age = IF @ < ttl THEN @ + 1 ELSE @] : e \in cache[k]}]
    BY <1>1, <1>4 DEF Time, Tick, Cache!Age
  <2>2. cache' \in [Keys -> Kept]
    BY <1>1, <2>1, KeptIs
  <2> QED BY <1>1, <1>4, <2>2, AgeInner DEF Time, Tick, GuardTypes
<1>5. CASE Turn \/ Cluster \/ Watch \/ UNCHANGED vars
  BY <1>1, <1>5 DEF Turn, Cluster, Watch, guardVars, vars, GuardTypes
<1> QED BY <1>2, <1>3, <1>4, <1>5 DEF Next

LEMMA GuardTypesHold == Spec => []GuardTypes
<1>1. Init => GuardTypes
  <2> SUFFICES ASSUME Init PROVE GuardTypes
    OBVIOUS
  <2>1. InnerOf("Closed", 0, 0, {}) \in Breaker!Inner
    BY InnerMakes DEF Breaker!CircuitState, Failures, Successes, Times
  <2>2. breaker = InnerOf("Closed", 0, 0, {})
    BY DEF Init, GuardInit, Breaker!new, InnerOf
  <2>3. cache \in [Keys -> Kept]
    BY DEF Init, GuardInit, Cache!new, Kept
  <2>4. cached \in BOOLEAN
    BY WorkloadsAssumption DEF Init
  <2> QED BY <2>1, <2>2, <2>3, <2>4 DEF GuardTypes
<1> QED BY <1>1, GuardTypesStep, CacheInvHolds, PTL DEF Spec

\* Inner, CacheEntry, LogStore and the rest have their types: no count reaches its
\* threshold without the circuit turning (record_success, record_failure), and a log's
\* entries stay at their indexes through truncation, purges and snapshots.
THEOREM TypeCorrect == Spec => []TypeOK
<1>1. MembersInv /\ GuardTypes /\ CacheInv => TypeOK
  <2> SUFFICES ASSUME MembersInv, GuardTypes, CallType PROVE TypeOK
    BY DEF CacheInv
  <2>1. PICK K : K = Stable
    OBVIOUS
  <2>2. ClusterInv(K) /\ watcher \in Watcher
    BY <2>1 DEF MembersInv, WatcherInv
  <2>3. GuardTypeOK
    <3>1. cache \in [Keys -> Kept]
      BY DEF GuardTypes
    <3>2. DOMAIN cache = Keys /\ \A k \in Keys : cache[k] \in {{}} \cup {{e} : e \in Cache!CacheEntry(Values)}
      BY <3>1 DEF Kept
    <3> QED BY <3>2 DEF GuardTypes, CallType, GuardTypeOK
  <2>4. ASSUME NEW n \in Nodes
        PROVE  /\ hub[n] \in {"new", "registered", "shut_down"}
               /\ leading[n] \in Option(1..MaxTerm) /\ store[n].vote \in Option(1..MaxTerm)
               /\ DOMAIN store[n].log \subseteq 1..MaxLog
               /\ \A i \in DOMAIN store[n].log :
                    store[n].log[i].log_id \in LogIds /\ store[n].log[i].log_id.index = i
               /\ store[n].last_purged \in Option(LogIds)
               /\ machine[n].data.last_applied_log \in Option(LogIds)
               /\ commit[n] \in 0..MaxLog
    <3>1. NodeOk(K, n) /\ HubOk
      BY <2>2, NodeIs, TypesOf
    <3>2. store[n].log \in Logs(K) /\ store[n].vote \in Option(1..MaxTerm)
          /\ store[n].last_purged \in Option(LogIds)
      BY <3>1, StoreIs DEF NodeOk
    <3>3. DOMAIN store[n].log \subseteq 1..MaxLog
      BY <3>2, LogIs
    <3>4. ASSUME NEW i \in DOMAIN store[n].log
          PROVE  store[n].log[i].log_id \in LogIds /\ store[n].log[i].log_id.index = i
      BY <3>2, LogIs, EntryIs
    <3>5. machine[n].data.last_applied_log \in Option(LogIds)
      BY <3>1, MachineIs, DataIs DEF NodeOk
    <3> QED BY <3>1, <3>2, <3>3, <3>4, <3>5 DEF NodeOk, HubOk
  <2>5. Len(committed) <= MaxLog
    BY <2>2, TypesOf DEF AgreedOk
  <2> QED BY <2>2, <2>3, <2>4, <2>5 DEF TypeOK
<1> QED BY <1>1, MembersInvHolds, GuardTypesHold, CacheInvHolds, PTL

=============================================================================
