---------------------------- MODULE RestartProofs ----------------------------
(***************************************************************************)
(* Proofs about the worker registry (WorkerRegistry), and about the two    *)
(* actors that restart a worker's llama-swap with its permission: the      *)
(* reconcile cycle (RestartCoordination) and the transport manager         *)
(* (TransportPreparation).  For any number of workers, models and requests *)
(* and all time constants, whatever crashes, is lost, is pruned or is done *)
(* by the administrator.                                                   *)
(***************************************************************************)
EXTENDS TransportPreparation, FiniteSetTheorems, TLAPS
-----------------------------------------------------------------------------
(* The registry by itself.                                                 *)

\* restartScopes never returns an empty list.
LEMMA ScopesNonEmpty ==
  ASSUME NEW models \in SUBSET Models
  PROVE  /\ RestartScopes(models) \in SUBSET Scopes
         /\ RestartScopes(models) # {}
BY DEF RestartScopes, Scopes

\* A heartbeat, put in the terms the invariants need: h is the table of
\* holders before the worker claims anything, claim whether it does.
HeartbeatEffect(w, needsRestart, h, claim, scopes) ==
  /\ known' = known \cup {w}
  /\ age' = [age EXCEPT ![w] = 0]
  /\ needs' = IF needsRestart THEN needs \cup {w} ELSE needs \ {w}
  /\ holder' = IF claim THEN Claimed(h, w, scopes) ELSE h
  /\ draining' = IF claim \/ w \in manual THEN draining \cup {w} ELSE draining \ {w}
  /\ granted' = [granted EXCEPT ![w] = IF claim /\ active[w] = 0 THEN scopes ELSE {}]
  /\ UNCHANGED <<failures, backoff, active, manual, serving, forgotten>>
  /\ claim => needsRestart /\ ~BlockedByOther(h, w, scopes)
  /\ \A s \in Scopes :
       /\ h[s] \in {holder[s], None}
       /\ h[s] = w => needsRestart
       /\ holder[s] \in known /\ ~(age[holder[s]] > Retention) /\ holder[s] # w => h[s] = holder[s]

\* UpsertHeartbeat has that effect.
LEMMA HeartbeatHasEffect ==
  ASSUME TypeOK, NEW w \in Workers, NEW needsRestart \in BOOLEAN, NEW models \in SUBSET Models,
         Heartbeat(w, needsRestart, models)
  PROVE  \E h \in [Scopes -> Workers \cup {None}], claim \in BOOLEAN :
           HeartbeatEffect(w, needsRestart, h, claim, RestartScopes(models))
<1> USE WorkerRegistryAssumption
<1>1. PICK e : e = WithoutExpired(holder)
  OBVIOUS
<1>2. e \in [Scopes -> Workers \cup {None}]
  BY <1>1 DEF TypeOK, WithoutExpired
<1>3. PICK h : h = IF needsRestart THEN e ELSE WithoutHolders(e, {w})
  OBVIOUS
<1>4. h \in [Scopes -> Workers \cup {None}]
  BY <1>2, <1>3 DEF WithoutHolders
<1>5. PICK claim \in BOOLEAN :
        claim <=> needsRestart /\ ~BlockedByOther(h, w, RestartScopes(models))
  OBVIOUS
<1>6. ASSUME NEW s \in Scopes
      PROVE  /\ h[s] \in {holder[s], None}
             /\ h[s] = w => needsRestart
             /\ holder[s] \in known /\ ~(age[holder[s]] > Retention) /\ holder[s] # w
                  => h[s] = holder[s]
  <2>1. /\ e[s] \in {holder[s], None}
        /\ holder[s] \in known /\ ~(age[holder[s]] > Retention) => e[s] = holder[s]
    BY <1>1 DEF WithoutExpired
  <2>2. CASE needsRestart
    BY <2>1, <2>2, <1>3
  <2>3. CASE ~needsRestart
    <3>1. h[s] = IF e[s] \in {w} THEN None ELSE e[s]
      BY <2>3, <1>3 DEF WithoutHolders
    <3> QED BY <2>1, <3>1
  <2> QED BY <2>2, <2>3
<1>7. /\ known' = known \cup {w}
      /\ age' = [age EXCEPT ![w] = 0]
      /\ needs' = IF needsRestart THEN needs \cup {w} ELSE needs \ {w}
      /\ UNCHANGED <<failures, backoff, active, manual, serving, forgotten>>
  BY DEF Heartbeat
<1>8. /\ holder' = IF claim THEN Claimed(h, w, RestartScopes(models)) ELSE h
      /\ draining' = IF claim \/ w \in manual THEN draining \cup {w} ELSE draining \ {w}
      /\ granted' = [granted EXCEPT ![w] =
                       IF claim /\ active[w] = 0 THEN RestartScopes(models) ELSE {}]
  BY <1>1, <1>3, <1>5 DEF Heartbeat
<1>9. HeartbeatEffect(w, needsRestart, h, claim, RestartScopes(models))
  BY <1>5, <1>6, <1>7, <1>8 DEF HeartbeatEffect
<1> QED BY <1>4, <1>9

\* Claiming scopes for a worker leaves a table of workers.
LEMMA ClaimedTyped ==
  ASSUME NEW w \in Workers, NEW h \in [Scopes -> Workers \cup {None}], NEW scopes
  PROVE  Claimed(h, w, scopes) \in [Scopes -> Workers \cup {None}]
BY DEF Claimed

\* No heartbeat, restart, probe or request spoils the type of a field.
LEMMA TypeStep ==
  ASSUME TypeOK, [Next]_vars
  PROVE  TypeOK'
<1>1. ASSUME NEW w \in Workers, NEW needsRestart \in BOOLEAN, NEW models \in SUBSET Models,
             Heartbeat(w, needsRestart, models)
      PROVE  TypeOK'
  <2>1. PICK h \in [Scopes -> Workers \cup {None}], claim \in BOOLEAN :
          HeartbeatEffect(w, needsRestart, h, claim, RestartScopes(models))
    BY <1>1, HeartbeatHasEffect
  <2>2. RestartScopes(models) \in SUBSET Scopes
    BY ScopesNonEmpty
  <2>3. holder' \in [Scopes -> Workers \cup {None}]
    BY <2>1, ClaimedTyped DEF HeartbeatEffect
  <2>4. granted' \in [Workers -> SUBSET Scopes]
    BY <2>1, <2>2 DEF HeartbeatEffect, TypeOK
  <2>5. age' \in [Workers -> 0..(Retention + 1)]
    BY <2>1, WorkerRegistryAssumption DEF HeartbeatEffect, TypeOK
  <2>6. /\ known' \in SUBSET Workers
        /\ draining' \in SUBSET known'
        /\ needs' \in SUBSET known'
        /\ manual' \in SUBSET known'
    BY <2>1 DEF HeartbeatEffect, TypeOK
  <2>7. UNCHANGED <<failures, backoff, active, serving, forgotten>>
    BY <2>1 DEF HeartbeatEffect
  <2> QED BY <2>3, <2>4, <2>5, <2>6, <2>7 DEF TypeOK
<1>2. ASSUME NEW w \in Workers, Drain(w) \/ Undrain(w)
      PROVE  TypeOK'
  BY <1>2 DEF Drain, Undrain, records, TypeOK
<1>3. ASSUME NEW w \in Workers, RecordScrapeSuccess(w) \/ RecordFailure(w)
      PROVE  TypeOK'
  <2>1. CASE RecordScrapeSuccess(w)
    BY <2>1, WorkerRegistryAssumption DEF RecordScrapeSuccess, TypeOK
  <2>2. CASE RecordFailure(w)
    BY <2>2, WorkerRegistryAssumption DEF RecordFailure, TypeOK
  <2> QED BY <1>3, <2>1, <2>2
<1>4. ASSUME NEW w \in Workers, NEW r \in Requests, Acquire(r, w)
      PROVE  TypeOK'
  BY <1>4 DEF Acquire, records, TypeOK
<1>5. ASSUME NEW r \in Requests, Release(r)
      PROVE  TypeOK'
  BY <1>5 DEF Release, records, TypeOK
<1>6. CASE Snapshot
  <2>1. Offline \in SUBSET Workers
    BY DEF Offline, TypeOK
  <2>2. holder' \in [Scopes -> Workers \cup {None}]
    BY <1>6 DEF Snapshot, WithoutHolders, TypeOK
  <2>3. /\ known' \in SUBSET Workers
        /\ draining' \in SUBSET known'
        /\ needs' \in SUBSET known'
        /\ manual' \in SUBSET known'
        /\ forgotten' \in SUBSET Workers
    BY <1>6, <2>1 DEF Snapshot, TypeOK
  <2>4. /\ age' \in [Workers -> 0..(Retention + 1)]
        /\ failures' \in [Workers -> 0..Threshold]
        /\ backoff' \in [Workers -> 0..Backoff]
        /\ active' \in [Workers -> Nat]
        /\ granted' \in [Workers -> SUBSET Scopes]
    BY <1>6, WorkerRegistryAssumption DEF Snapshot, TypeOK
  <2> QED BY <1>6, <2>2, <2>3, <2>4 DEF Snapshot, TypeOK
<1>7. CASE Tick
  BY <1>7, WorkerRegistryAssumption DEF Tick, TypeOK
<1>8. CASE UNCHANGED vars
  BY <1>8 DEF vars, TypeOK
<1> QED BY <1>1, <1>2, <1>3, <1>4, <1>5, <1>6, <1>7, <1>8 DEF Next

\* Every heartbeat, restart, probe and request keeps the registry's fields well
\* typed; in particular only registered workers drain or need a restart.
THEOREM TypeCorrect == Spec => []TypeOK
<1>1. Init => TypeOK
  BY WorkerRegistryAssumption DEF Init, TypeOK
<1>2. TypeOK /\ [Next]_vars => TypeOK'
  BY TypeStep
<1> QED BY <1>1, <1>2, PTL DEF Spec
-----------------------------------------------------------------------------
(* Counting requests.                                                      *)

\* The sets of requests in flight are finite, so their sizes are numbers.
LEMMA InFlightFinite ==
  ASSUME NEW w
  PROVE  IsFiniteSet(InFlight(w)) /\ Cardinality(InFlight(w)) \in Nat
<1>1. InFlight(w) \subseteq Requests
  BY DEF InFlight
<1> QED BY <1>1, WorkerRegistryAssumption, FS_Subset, FS_CardinalityType

\* What an assignment and a release do to the requests in flight.
LEMMA InFlightAfterAcquire ==
  ASSUME TypeOK, NEW w \in Workers, NEW r \in Requests, Acquire(r, w), NEW v \in Workers
  PROVE  /\ v # w => InFlight(v)' = InFlight(v)
         /\ v = w => Cardinality(InFlight(v)') = Cardinality(InFlight(v)) + 1
<1>1. /\ serving' = [serving EXCEPT ![r] = w]
      /\ serving[r] = None
      /\ serving \in [Requests -> Workers \cup {None}]
  BY DEF Acquire, TypeOK
<1>2. CASE v # w
  <2>1. InFlight(v)' = InFlight(v)
    BY <1>1, <1>2, WorkerRegistryAssumption DEF InFlight
  <2> QED BY <1>2, <2>1
<1>3. CASE v = w
  <2>1. InFlight(w)' = InFlight(w) \cup {r} /\ r \notin InFlight(w)
    BY <1>1, WorkerRegistryAssumption DEF InFlight
  <2> QED BY <1>3, <2>1, InFlightFinite, FS_AddElement
<1> QED BY <1>2, <1>3

\* A release takes one request from its worker and none from the others.
LEMMA InFlightAfterRelease ==
  ASSUME TypeOK, NEW r \in Requests, Release(r), NEW v \in Workers
  PROVE  /\ v # serving[r] => InFlight(v)' = InFlight(v)
         /\ v = serving[r] =>
              /\ InFlight(v)' = InFlight(v) \ {r}
              /\ r \in InFlight(v)
              /\ Cardinality(InFlight(v)') = Cardinality(InFlight(v)) - 1
              /\ Cardinality(InFlight(v)) >= 1
<1>1. /\ serving' = [serving EXCEPT ![r] = None]
      /\ serving[r] # None
      /\ serving \in [Requests -> Workers \cup {None}]
  BY DEF Release, TypeOK
<1>2. CASE v # serving[r]
  <2>1. InFlight(v)' = InFlight(v)
    BY <1>1, <1>2, WorkerRegistryAssumption DEF InFlight
  <2> QED BY <1>2, <2>1
<1>3. CASE v = serving[r]
  <2>1. InFlight(v)' = InFlight(v) \ {r} /\ r \in InFlight(v)
    BY <1>1, <1>3, WorkerRegistryAssumption DEF InFlight
  <2>2. Cardinality(InFlight(v) \ {r}) = Cardinality(InFlight(v)) - 1
    BY <2>1, InFlightFinite, FS_RemoveElement
  <2>3. Cardinality(InFlight(v)') \in Nat
    BY InFlightFinite, <2>1, FS_Subset, FS_CardinalityType
  <2> QED BY <1>3, <2>1, <2>2, <2>3, InFlightFinite
<1> QED BY <1>2, <1>3

\* The part of the invariant that is about requests.
Counted == ActiveCountsInFlight /\ NeverOverCounted /\ RestartIsQuiet

\* A step that touches neither counts nor assignments, and grants nothing.
LEMMA CountedUndisturbed ==
  ASSUME Counted,
         UNCHANGED <<active, serving, forgotten>>,
         \A w \in Workers : granted'[w] \in {granted[w], {}}
  PROVE  Counted'
<1>1. \A w : InFlight(w)' = InFlight(w)
  BY DEF InFlight
<1> QED BY <1>1 DEF Counted, ActiveCountsInFlight, NeverOverCounted, RestartIsQuiet

\* A restart is granted only to a worker whose count is zero, hence to one
\* without requests in flight.
LEMMA CountedHeartbeat ==
  ASSUME TypeOK, Counted, NEW w \in Workers, NEW needsRestart, NEW h, NEW claim, NEW scopes,
         HeartbeatEffect(w, needsRestart, h, claim, scopes)
  PROVE  Counted'
<1>1. /\ granted' = [granted EXCEPT ![w] = IF claim /\ active[w] = 0 THEN scopes ELSE {}]
      /\ UNCHANGED <<active, serving, forgotten>>
      /\ granted \in [Workers -> SUBSET Scopes]
  BY DEF HeartbeatEffect, TypeOK
<1>2. \A v : InFlight(v)' = InFlight(v)
  BY <1>1 DEF InFlight
<1>3. ASSUME NEW v \in Workers \ forgotten', granted'[v] # {}
      PROVE  InFlight(v)' = {}
  <2>1. CASE v # w
    BY <1>1, <1>2, <1>3, <2>1 DEF Counted, RestartIsQuiet
  <2>2. CASE v = w
    <3>1. active[w] = 0
      BY <1>1, <1>3, <2>2
    <3>2. Cardinality(InFlight(w)) = 0
      BY <1>1, <1>3, <2>2, <3>1 DEF Counted, ActiveCountsInFlight
    <3> QED BY <1>2, <2>2, <3>2, InFlightFinite, FS_EmptySet
  <2> QED BY <2>1, <2>2
<1> QED BY <1>1, <1>2, <1>3 DEF Counted, ActiveCountsInFlight, NeverOverCounted, RestartIsQuiet

\* An assignment counts, and goes to no worker that may restart: that one is
\* draining.
LEMMA CountedAcquire ==
  ASSUME TypeOK, Counted, QuiescedDrains, NEW w \in Workers, NEW r \in Requests, Acquire(r, w)
  PROVE  Counted'
<1>1. /\ active' = [active EXCEPT ![w] = @ + 1]
      /\ active \in [Workers -> Nat]
      /\ UNCHANGED <<forgotten, granted>>
      /\ w \notin draining
  BY DEF Acquire, TypeOK
<1>2. granted[w] = {}
  BY <1>1 DEF QuiescedDrains
<1>3. ASSUME NEW v \in Workers
      PROVE  /\ v \notin forgotten' => active'[v] = Cardinality(InFlight(v)')
             /\ active'[v] <= Cardinality(InFlight(v)')
             /\ v \notin forgotten' /\ granted'[v] # {} => InFlight(v)' = {}
  <2>1. /\ v \notin forgotten => active[v] = Cardinality(InFlight(v))
        /\ active[v] <= Cardinality(InFlight(v))
        /\ v \notin forgotten /\ granted[v] # {} => InFlight(v) = {}
    BY DEF Counted, ActiveCountsInFlight, NeverOverCounted, RestartIsQuiet
  <2>2. CASE v # w
    BY <1>1, <2>1, <2>2, InFlightAfterAcquire
  <2>3. CASE v = w
    BY <1>1, <1>2, <2>1, <2>3, InFlightAfterAcquire, InFlightFinite
  <2> QED BY <2>2, <2>3
<1> QED BY <1>3 DEF Counted, ActiveCountsInFlight, NeverOverCounted, RestartIsQuiet

\* A release never takes the count of somebody else's request with it, unless
\* the worker had been pruned under it; then the last one sets things right.
LEMMA CountedRelease ==
  ASSUME TypeOK, Counted, NEW r \in Requests, Release(r)
  PROVE  Counted'
<1>1. PICK w \in Workers : w = serving[r]
  BY DEF Release, TypeOK
<1>2. /\ active' = [active EXCEPT ![w] = IF @ <= 1 THEN 0 ELSE @ - 1]
      /\ active \in [Workers -> Nat]
      /\ forgotten' = IF InFlight(w) = {r} THEN forgotten \ {w} ELSE forgotten
      /\ UNCHANGED granted
  BY <1>1 DEF Release, TypeOK
<1>3. ASSUME NEW v \in Workers
      PROVE  /\ v \notin forgotten' => active'[v] = Cardinality(InFlight(v)')
             /\ active'[v] <= Cardinality(InFlight(v)')
             /\ v \notin forgotten' /\ granted'[v] # {} => InFlight(v)' = {}
  <2>1. /\ v \notin forgotten => active[v] = Cardinality(InFlight(v))
        /\ active[v] <= Cardinality(InFlight(v))
        /\ v \notin forgotten /\ granted[v] # {} => InFlight(v) = {}
    BY DEF Counted, ActiveCountsInFlight, NeverOverCounted, RestartIsQuiet
  <2>2. CASE v # w
    BY <1>1, <1>2, <2>1, <2>2, InFlightAfterRelease
  <2>3. CASE v = w
    <3>1. /\ InFlight(v)' = InFlight(v) \ {r}
          /\ r \in InFlight(v)
          /\ Cardinality(InFlight(v)') = Cardinality(InFlight(v)) - 1
          /\ Cardinality(InFlight(v)) >= 1
          /\ Cardinality(InFlight(v)) \in Nat
          /\ active[v] \in Nat
      BY <1>1, <1>2, <2>3, InFlightAfterRelease, InFlightFinite
    <3>2. active'[v] <= Cardinality(InFlight(v)')
      BY <1>2, <2>1, <2>3, <3>1
    <3>3. CASE v \notin forgotten
      BY <1>2, <2>1, <2>3, <3>1, <3>2, <3>3
    <3>4. CASE v \in forgotten /\ InFlight(w) = {r}
      <4>1. InFlight(v)' = {}
        BY <2>3, <3>1, <3>4
      <4>2. Cardinality(InFlight(v)') = 0
        BY <4>1, FS_EmptySet
      <4>3. active'[v] = 0
        BY <1>2, <2>3, <3>1, <3>2, <4>2
      <4> QED BY <3>2, <4>1, <4>2, <4>3
    <3>5. CASE v \in forgotten /\ InFlight(w) # {r}
      BY <1>2, <2>3, <3>2, <3>5
    <3> QED BY <3>3, <3>4, <3>5
  <2> QED BY <2>2, <2>3
<1> QED BY <1>3 DEF Counted, ActiveCountsInFlight, NeverOverCounted, RestartIsQuiet

\* Pruning drops the count of a worker together with what it was granted; if
\* the worker still served something, it is forgotten from then on.
LEMMA CountedSnapshot ==
  ASSUME TypeOK, Counted, Snapshot
  PROVE  Counted'
<1>1. /\ active' = [w \in Workers |-> IF w \in Offline THEN 0 ELSE active[w]]
      /\ granted' = [w \in Workers |-> IF w \in Offline THEN {} ELSE granted[w]]
      /\ forgotten' = forgotten \cup {w \in Offline : InFlight(w) # {}}
      /\ UNCHANGED serving
  BY DEF Snapshot
<1>2. \A v : InFlight(v)' = InFlight(v)
  BY <1>1 DEF InFlight
<1>3. ASSUME NEW v \in Workers
      PROVE  /\ v \notin forgotten' => active'[v] = Cardinality(InFlight(v)')
             /\ active'[v] <= Cardinality(InFlight(v)')
             /\ v \notin forgotten' /\ granted'[v] # {} => InFlight(v)' = {}
  <2>1. /\ v \notin forgotten => active[v] = Cardinality(InFlight(v))
        /\ active[v] <= Cardinality(InFlight(v))
        /\ v \notin forgotten /\ granted[v] # {} => InFlight(v) = {}
    BY DEF Counted, ActiveCountsInFlight, NeverOverCounted, RestartIsQuiet
  <2>2. CASE v \notin Offline
    BY <1>1, <1>2, <2>1, <2>2
  <2>3. CASE v \in Offline
    <3>1. active'[v] = 0 /\ granted'[v] = {}
      BY <1>1, <2>3
    <3>2. v \notin forgotten' => Cardinality(InFlight(v)) = 0
      BY <1>1, <2>3, FS_EmptySet
    <3> QED BY <1>2, <3>1, <3>2, InFlightFinite
  <2> QED BY <2>2, <2>3
<1> QED BY <1>3 DEF Counted, ActiveCountsInFlight, NeverOverCounted, RestartIsQuiet
-----------------------------------------------------------------------------
(* Restart scopes.                                                         *)

\* The part of the invariant that is about restarts and drains.
Scoped == ScopesNotLeaked /\ GlobalExcludes /\ GrantsAreHeld /\ QuiescedDrains

\* A heartbeat claims scopes only if no other worker is in the way, and takes
\* none away from a worker that is still heard of.
LEMMA ScopedHeartbeat ==
  ASSUME TypeOK, Scoped, NEW w \in Workers, NEW needsRestart \in BOOLEAN,
         NEW h \in [Scopes -> Workers \cup {None}], NEW claim \in BOOLEAN,
         NEW scopes \in SUBSET Scopes,
         scopes = {Global} \/ Global \notin scopes,
         HeartbeatEffect(w, needsRestart, h, claim, scopes)
  PROVE  Scoped'
<1>1. /\ needs' = IF needsRestart THEN needs \cup {w} ELSE needs \ {w}
      /\ holder' = IF claim THEN Claimed(h, w, scopes) ELSE h
      /\ draining' = IF claim \/ w \in manual THEN draining \cup {w} ELSE draining \ {w}
      /\ granted' = [granted EXCEPT ![w] = IF claim /\ active[w] = 0 THEN scopes ELSE {}]
      /\ age' = [age EXCEPT ![w] = 0]
      /\ UNCHANGED manual
      /\ claim => needsRestart
      /\ claim => ~BlockedByOther(h, w, scopes)
  BY DEF HeartbeatEffect
<1>2. \A s \in Scopes :
        /\ h[s] \in {holder[s], None}
        /\ h[s] = w => needsRestart
        /\ holder[s] \in known /\ ~(age[holder[s]] > Retention) /\ holder[s] # w => h[s] = holder[s]
  BY DEF HeartbeatEffect
<1>3. /\ None \notin Workers
      /\ needs \in SUBSET known
      /\ granted \in [Workers -> SUBSET Scopes]
      /\ age \in [Workers -> 0..(Retention + 1)]
      /\ Retention \in Nat
      /\ Global \in Scopes
  BY WorkerRegistryAssumption DEF TypeOK, Scopes
<1>4. \A s \in Scopes : holder'[s] = IF claim /\ s \in scopes /\ h[s] = None THEN w ELSE h[s]
  BY <1>1 DEF Claimed
<1>5. ASSUME NEW s \in Scopes, holder'[s] # None
      PROVE  holder'[s] \in needs'
  <2>1. CASE holder'[s] = w
    <3>1. needsRestart
      BY <1>1, <1>2, <1>4, <2>1
    <3> QED BY <1>1, <2>1, <3>1
  <2>2. CASE holder'[s] # w
    <3>1. holder'[s] = holder[s]
      BY <1>2, <1>4, <1>5, <2>2
    <3> QED BY <1>1, <1>5, <2>2, <3>1 DEF Scoped, ScopesNotLeaked
  <2> QED BY <2>1, <2>2
<1>6. ASSUME holder'[Global] # None, NEW s \in Scopes
      PROVE  holder'[s] \in {None, holder'[Global]}
  <2>1. CASE claim /\ scopes = {Global}
    <3>1. \A t \in Scopes : h[t] \in {None, w}
      BY <1>1, <2>1 DEF BlockedByOther
    <3> QED BY <1>3, <1>4, <1>6, <2>1, <3>1
  <2>2. CASE ~claim \/ Global \notin scopes
    <3>1. holder'[Global] = h[Global] /\ h[Global] = holder[Global] /\ holder[Global] # None
      BY <1>2, <1>3, <1>4, <1>6, <2>2
    <3>2. holder[s] \in {None, holder[Global]}
      BY <3>1 DEF Scoped, GlobalExcludes
    <3>3. claim => h[Global] = w
      BY <1>1, <1>6, <3>1 DEF BlockedByOther
    <3> QED BY <1>2, <1>4, <3>1, <3>2, <3>3
  <2> QED BY <2>1, <2>2
<1>7. ASSUME NEW v \in Workers, granted'[v] # {}, age'[v] <= Retention, NEW s \in granted'[v]
      PROVE  holder'[s] = v
  <2>1. CASE v = w
    <3>1. claim /\ s \in scopes
      BY <1>1, <1>3, <1>7, <2>1
    <3>2. h[s] \in {None, w}
      BY <1>1, <3>1 DEF BlockedByOther
    <3> QED BY <1>4, <2>1, <3>1, <3>2
  <2>2. CASE v # w
    <3>1. granted[v] = granted'[v] /\ age[v] = age'[v]
      BY <1>1, <1>3, <2>2
    <3>2. s \in Scopes /\ holder[s] = v
      BY <1>3, <1>7, <3>1 DEF Scoped, GrantsAreHeld
    <3>3. v \in known
      BY <1>3, <1>7, <3>1 DEF Scoped, QuiescedDrains
    <3>4. ~(age[v] > Retention)
      BY <1>3, <1>7, <3>1
    <3>5. h[s] = v
      BY <1>2, <2>2, <3>2, <3>3, <3>4
    <3> QED BY <1>3, <1>4, <3>2, <3>5
  <2> QED BY <2>1, <2>2
<1>8. ASSUME NEW v \in Workers
      PROVE  /\ v \in manual' => v \in draining'
             /\ granted'[v] # {} => v \in draining' /\ v \in needs'
  <2>1. CASE v = w
    BY <1>1, <1>3, <2>1
  <2>2. CASE v # w
    BY <1>1, <1>3, <2>2 DEF Scoped, QuiescedDrains
  <2> QED BY <2>1, <2>2
<1> QED BY <1>5, <1>6, <1>7, <1>8 DEF Scoped, ScopesNotLeaked, GlobalExcludes, GrantsAreHeld, QuiescedDrains

\* Pruning a worker takes its scopes, drains and permissions along, and
\* nobody else's.
LEMMA ScopedSnapshot ==
  ASSUME TypeOK, Scoped, Snapshot
  PROVE  Scoped'
<1>1. /\ needs' = needs \ Offline
      /\ draining' = draining \ Offline
      /\ manual' = manual \ Offline
      /\ holder' = WithoutHolders(holder, Offline)
      /\ age' = [w \in Workers |-> IF w \in Offline THEN 0 ELSE age[w]]
      /\ granted' = [w \in Workers |-> IF w \in Offline THEN {} ELSE granted[w]]
  BY DEF Snapshot
<1>2. \A s \in Scopes : holder'[s] = IF holder[s] \in Offline THEN None ELSE holder[s]
  BY <1>1 DEF WithoutHolders
<1>3. granted \in [Workers -> SUBSET Scopes] /\ Global \in Scopes
  BY DEF TypeOK, Scopes
<1>4. ScopesNotLeaked'
  BY <1>1, <1>2 DEF Scoped, ScopesNotLeaked
<1>5. GlobalExcludes'
  BY <1>2, <1>3 DEF Scoped, GlobalExcludes
<1>6. ASSUME NEW v \in Workers, granted'[v] # {}, age'[v] <= Retention, NEW s \in granted'[v]
      PROVE  holder'[s] = v
  <2>1. v \notin Offline /\ granted'[v] = granted[v] /\ age'[v] = age[v]
    BY <1>1, <1>6
  <2>2. s \in Scopes /\ holder[s] = v
    BY <1>3, <1>6, <2>1 DEF Scoped, GrantsAreHeld
  <2> QED BY <1>2, <2>1, <2>2
<1>7. QuiescedDrains'
  BY <1>1 DEF Scoped, QuiescedDrains
<1> QED BY <1>4, <1>5, <1>6, <1>7 DEF Scoped, GrantsAreHeld

\* No other operation changes a holder or grants anything; draining shrinks
\* only by Undrain, which spares a worker that needs a restart.
LEMMA ScopedUndisturbed ==
  ASSUME TypeOK, Scoped,
         UNCHANGED <<holder, needs, granted>>,
         \A w \in Workers : age'[w] <= Retention => age[w] <= Retention,
         \A w \in Workers : w \in manual' => w \in draining',
         \A w \in needs : w \in draining => w \in draining'
  PROVE  Scoped'
<1>1. ScopesNotLeaked' /\ GlobalExcludes'
  BY DEF Scoped, ScopesNotLeaked, GlobalExcludes
<1>2. GrantsAreHeld'
  BY DEF Scoped, GrantsAreHeld
<1>3. QuiescedDrains'
  BY DEF Scoped, QuiescedDrains
<1> QED BY <1>1, <1>2, <1>3 DEF Scoped
-----------------------------------------------------------------------------
(* The invariant and what follows from it.                                 *)

\* Every heartbeat, drain, prune, request, probe and tick keeps the invariant.
LEMMA InductiveStep ==
  ASSUME TypeOK, Counted, Scoped, [Next]_vars
  PROVE  Counted' /\ Scoped'
<1>1. ASSUME NEW w \in Workers, NEW needsRestart \in BOOLEAN, NEW models \in SUBSET Models,
             Heartbeat(w, needsRestart, models)
      PROVE  Counted' /\ Scoped'
  <2>1. PICK h \in [Scopes -> Workers \cup {None}], claim \in BOOLEAN :
          HeartbeatEffect(w, needsRestart, h, claim, RestartScopes(models))
    BY <1>1, HeartbeatHasEffect
  <2>2. RestartScopes(models) = {Global} \/ Global \notin RestartScopes(models)
    BY WorkerRegistryAssumption DEF RestartScopes, Global
  <2>3. RestartScopes(models) \in SUBSET Scopes
    BY ScopesNonEmpty
  <2>4. Counted'
    BY <2>1, CountedHeartbeat
  <2>5. Scoped'
    BY <2>1, <2>2, <2>3, ScopedHeartbeat
  <2> QED BY <2>4, <2>5
<1>2. ASSUME NEW w \in Workers, Drain(w) \/ Undrain(w)
      PROVE  Counted' /\ Scoped'
  <2>1. /\ UNCHANGED <<active, serving, forgotten, holder, needs, granted, age>>
        /\ \/ /\ manual' = manual \cup {w}
              /\ draining' = draining \cup {w}
           \/ /\ manual' = manual \ {w}
              /\ draining' = IF w \in needs THEN draining ELSE draining \ {w}
    BY <1>2 DEF Drain, Undrain, records
  <2>2. \A v \in Workers : v \in manual' => v \in draining'
    BY <2>1 DEF Scoped, QuiescedDrains
  <2>3. \A v \in needs : v \in draining => v \in draining'
    BY <2>1
  <2> QED BY <2>1, <2>2, <2>3, CountedUndisturbed, ScopedUndisturbed
<1>3. ASSUME NEW w \in Workers, RecordScrapeSuccess(w) \/ RecordFailure(w)
      PROVE  Counted' /\ Scoped'
  <2>1. UNCHANGED <<active, serving, forgotten, holder, needs, granted, age, manual, draining>>
    BY <1>3 DEF RecordScrapeSuccess, RecordFailure
  <2>2. \A v \in Workers : v \in manual' => v \in draining'
    BY <2>1 DEF Scoped, QuiescedDrains
  <2> QED BY <2>1, <2>2, CountedUndisturbed, ScopedUndisturbed
<1>4. ASSUME NEW w \in Workers, NEW r \in Requests, Acquire(r, w)
      PROVE  Counted' /\ Scoped'
  <2>1. UNCHANGED <<holder, needs, granted, age, manual, draining>>
    BY <1>4 DEF Acquire, records
  <2>2. \A v \in Workers : v \in manual' => v \in draining'
    BY <2>1 DEF Scoped, QuiescedDrains
  <2>3. Counted'
    BY <1>4, CountedAcquire DEF Scoped
  <2> QED BY <2>1, <2>2, <2>3, ScopedUndisturbed
<1>5. ASSUME NEW r \in Requests, Release(r)
      PROVE  Counted' /\ Scoped'
  <2>1. UNCHANGED <<holder, needs, granted, age, manual, draining>>
    BY <1>5 DEF Release, records
  <2>2. \A v \in Workers : v \in manual' => v \in draining'
    BY <2>1 DEF Scoped, QuiescedDrains
  <2>3. Counted'
    BY <1>5, CountedRelease
  <2> QED BY <2>1, <2>2, <2>3, ScopedUndisturbed
<1>6. CASE Snapshot
  BY <1>6, CountedSnapshot, ScopedSnapshot
<1>7. CASE Tick
  <2>1. UNCHANGED <<active, serving, forgotten, holder, needs, granted, manual, draining>>
    BY <1>7 DEF Tick
  <2>2. \A w \in Workers : age'[w] <= Retention => age[w] <= Retention
    BY <1>7, WorkerRegistryAssumption DEF Tick, TypeOK
  <2>3. \A v \in Workers : v \in manual' => v \in draining'
    BY <2>1 DEF Scoped, QuiescedDrains
  <2> QED BY <2>1, <2>2, <2>3, CountedUndisturbed, ScopedUndisturbed
<1>8. CASE UNCHANGED vars
  <2>1. UNCHANGED <<active, serving, forgotten, holder, needs, granted, age, manual, draining>>
    BY <1>8 DEF vars
  <2>2. \A v \in Workers : v \in manual' => v \in draining'
    BY <2>1 DEF Scoped, QuiescedDrains
  <2> QED BY <2>1, <2>2, CountedUndisturbed, ScopedUndisturbed
<1> QED BY <1>1, <1>2, <1>3, <1>4, <1>5, <1>6, <1>7, <1>8 DEF Next

\* A gateway that starts knows no worker, counts nothing and granted nothing.
LEMMA InductiveInit ==
  ASSUME Init
  PROVE  InductiveInv
<1>1. ASSUME NEW w \in Workers
      PROVE  InFlight(w) = {}
  BY WorkerRegistryAssumption DEF Init, InFlight
<1>2. Counted
  BY <1>1, FS_EmptySet
     DEF Init, Counted, ActiveCountsInFlight, NeverOverCounted, RestartIsQuiet
<1>3. Scoped
  BY DEF Init, Scoped, ScopesNotLeaked, GlobalExcludes, GrantsAreHeld, QuiescedDrains, Scopes
<1>4. TypeOK
  BY WorkerRegistryAssumption DEF Init, TypeOK
<1> QED BY <1>2, <1>3, <1>4 DEF Counted, Scoped, InductiveInv

\* One step of the registry, for whoever composes it with its callers.
LEMMA InvariantStep ==
  ASSUME InductiveInv, [Next]_vars
  PROVE  InductiveInv'
<1>1. TypeOK /\ Counted /\ Scoped
  BY DEF Counted, Scoped, InductiveInv
<1>2. TypeOK'
  BY <1>1, TypeStep
<1>3. Counted' /\ Scoped'
  BY <1>1, InductiveStep
<1> QED BY <1>2, <1>3 DEF Counted, Scoped, InductiveInv

\* The conjunction of all parts holds in every reachable state.
THEOREM Invariance == Spec => []InductiveInv
<1>1. Init => InductiveInv
  BY InductiveInit
<1>2. InductiveInv /\ [Next]_vars => InductiveInv'
  BY InvariantStep
<1> QED BY <1>1, <1>2, PTL DEF Spec

\* The count behind restarts, placement and scheduling is exact for every
\* worker that was not pruned under its requests, and never too high.
THEOREM CountsAreExact == Spec => [](ActiveCountsInFlight /\ NeverOverCounted)
<1>1. InductiveInv => ActiveCountsInFlight /\ NeverOverCounted
  BY DEF InductiveInv
<1> QED BY <1>1, Invariance, PTL

\* A worker whose last heartbeat was answered with restart_allowed serves
\* nothing and is assigned nothing.
THEOREM QuietRestart == Spec => []RestartIsQuiet
<1>1. InductiveInv => RestartIsQuiet
  BY DEF InductiveInv
<1> QED BY <1>1, Invariance, PTL

\* Restart permissions that are in force at the same time never overlap.
THEOREM ExclusiveRestarts == Spec => []RestartsDisjoint
<1>1. ASSUME InductiveInv
      PROVE  RestartsDisjoint
  <2>1. SUFFICES ASSUME NEW v \in Workers, NEW w \in Workers, v # w,
                        granted[v] # {}, granted[w] # {},
                        age[v] <= Retention, age[w] <= Retention
                 PROVE  /\ granted[v] \cap granted[w] = {}
                        /\ Global \notin granted[v]
                        /\ Global \notin granted[w]
    BY DEF RestartsDisjoint
  <2>2. \A s \in granted[v] : holder[s] = v
    BY <1>1, <2>1 DEF InductiveInv, GrantsAreHeld
  <2>3. \A s \in granted[w] : holder[s] = w
    BY <1>1, <2>1 DEF InductiveInv, GrantsAreHeld
  <2>4. None \notin Workers /\ granted[v] \subseteq Scopes /\ granted[w] \subseteq Scopes
    BY <1>1, WorkerRegistryAssumption DEF InductiveInv, TypeOK
  <2>5. Global \in granted[v] => FALSE
    BY <1>1, <2>1, <2>2, <2>3, <2>4 DEF InductiveInv, GlobalExcludes
  <2>6. Global \in granted[w] => FALSE
    BY <1>1, <2>1, <2>2, <2>3, <2>4 DEF InductiveInv, GlobalExcludes
  <2> QED BY <2>1, <2>2, <2>3, <2>5, <2>6
<1> QED BY <1>1, Invariance, PTL

\* No restart scope stays behind without a worker that asked for it, and the
\* global scope keeps everybody else out.
THEOREM ScopesAreSound == Spec => [](ScopesNotLeaked /\ GlobalExcludes)
<1>1. InductiveInv => ScopesNotLeaked /\ GlobalExcludes
  BY DEF InductiveInv
<1> QED BY <1>1, Invariance, PTL

\* A request is assigned to a worker only by Acquire, which refuses draining
\* ones, and every manually drained worker is draining.
LEMMA DrainStep ==
  ASSUME InductiveInv, [Next]_vars, NEW w \in manual, NEW r \in Requests, serving'[r] = w
  PROVE  serving[r] = w
<1>1. w \in Workers /\ w \in draining /\ w # None
  BY WorkerRegistryAssumption DEF InductiveInv, TypeOK, QuiescedDrains
<1>2. serving \in [Requests -> Workers \cup {None}]
  BY DEF InductiveInv, TypeOK
<1>3. ASSUME NEW v \in Workers, NEW q \in Requests, Acquire(q, v)
      PROVE  serving[r] = w
  BY <1>1, <1>2, <1>3 DEF Acquire
<1>4. ASSUME NEW q \in Requests, Release(q)
      PROVE  serving[r] = w
  BY <1>1, <1>2, <1>4 DEF Release
<1>5. ASSUME NEW v \in Workers, NEW needsRestart \in BOOLEAN, NEW models \in SUBSET Models,
             Heartbeat(v, needsRestart, models)
      PROVE  serving[r] = w
  <2>1. UNCHANGED serving
    BY <1>5 DEF Heartbeat
  <2> QED BY <2>1
<1>6. ASSUME NEW v \in Workers,
             Drain(v) \/ Undrain(v) \/ RecordScrapeSuccess(v) \/ RecordFailure(v)
      PROVE  serving[r] = w
  BY <1>6 DEF Drain, Undrain, RecordScrapeSuccess, RecordFailure
<1>7. CASE Snapshot \/ Tick \/ UNCHANGED vars
  BY <1>7 DEF Snapshot, Tick, vars
<1> QED BY <1>3, <1>4, <1>5, <1>6, <1>7 DEF Next

\* From the admin's Drain to Undrain, or to pruning, nothing is assigned to the
\* worker, whatever its heartbeats say.
THEOREM DrainsHold == Spec => DrainHolds
<1>1. InductiveInv /\ [Next]_vars
        => [\A w \in manual : \A r \in Requests : serving'[r] = w => serving[r] = w]_vars
  BY DrainStep
<1> QED BY <1>1, Invariance, PTL DEF Spec, DrainHolds
-----------------------------------------------------------------------------
(* The registry and those who ask it.                                      *)

\* A permission to restart the llama-swap of an agent, as good as it was when
\* it was granted: nothing is in flight on the worker, and nothing can be
\* assigned to it as the registry does not know it or has it draining.
Permitted(a) ==
  /\ a \notin forgotten => InFlight(a) = {}
  /\ a \in known => granted[a] # {}

\* What can happen to the registry besides heartbeats.
RegistryMoves ==
  \/ UNCHANGED registry
  \/ Init'
  \/ \E w \in Workers : Drain(w) \/ Undrain(w)
  \/ \E r \in Requests : Release(r) \/ \E w \in Workers : Acquire(r, w)
  \/ Snapshot
  \/ Tick

AnyHeartbeat(w) ==
  \E needsRestart \in BOOLEAN, models \in SUBSET Models : Heartbeat(w, needsRestart, models)

\* Everything that can happen to the registry but a heartbeat of the agent.
OtherStep(a) == RegistryMoves \/ \E w \in Workers \ {a} : AnyHeartbeat(w)

\* A registry that starts over satisfies its invariant.
LEMMA InitAgain == Init' => InductiveInv'
<1>1. Init => InductiveInv
  BY InductiveInit
<1> QED BY <1>1, PTL

\* The registry's invariant holds whatever its callers do, and when it starts
\* over.
LEMMA RegistryStep ==
  ASSUME InductiveInv, RegistryMoves \/ \E w \in Workers : AnyHeartbeat(w)
  PROVE  InductiveInv'
<1>1. [Next]_vars \/ Init'
  BY DEF RegistryMoves, AnyHeartbeat, Next, registry
<1> QED BY <1>1, InvariantStep, InitAgain

\* An answer that grants the restart is a permission.
LEMMA GrantPermits ==
  ASSUME InductiveInv', NEW a \in Workers, granted'[a] # {}
  PROVE  Permitted(a)'
BY DEF InductiveInv, RestartIsQuiet, Permitted

\* Only a heartbeat of the agent itself ends a permission.
LEMMA PermissionLasts ==
  ASSUME InductiveInv, NEW a \in Workers, Permitted(a), OtherStep(a)
  PROVE  Permitted(a)'
<1> USE WorkerRegistryAssumption
<1>1. TypeOK
  BY DEF InductiveInv
<1>2. CASE UNCHANGED registry
  BY <1>2 DEF registry, vars, Permitted, InFlight
<1>3. CASE Init'
  BY <1>3 DEF Init, Permitted, InFlight
<1>4. ASSUME NEW w \in Workers \ {a}, NEW needsRestart \in BOOLEAN, NEW models \in SUBSET Models,
             Heartbeat(w, needsRestart, models)
      PROVE  Permitted(a)'
  <2>1. /\ known' = known \cup {w}
        /\ granted'[a] = granted[a]
        /\ UNCHANGED <<serving, forgotten>>
    BY <1>1, <1>4 DEF Heartbeat, TypeOK
  <2> QED BY <2>1 DEF Permitted, InFlight
<1>5. ASSUME NEW w \in Workers, Drain(w) \/ Undrain(w)
      PROVE  Permitted(a)'
  BY <1>5 DEF Drain, Undrain, Permitted, InFlight
<1>6. ASSUME NEW r \in Requests, NEW w \in Workers, Acquire(r, w)
      PROVE  Permitted(a)'
  <2>1. w # a
    BY <1>6 DEF Acquire, Permitted, InductiveInv, QuiescedDrains
  <2>2. InFlight(a)' = InFlight(a)
    BY <1>1, <1>6, <2>1, InFlightAfterAcquire
  <2> QED BY <1>6, <2>2 DEF Acquire, Permitted
<1>7. ASSUME NEW r \in Requests, Release(r)
      PROVE  Permitted(a)'
  <2>1. UNCHANGED <<known, granted>>
    BY <1>7 DEF Release
  <2>2. CASE a # serving[r]
    <3>1. InFlight(a)' = InFlight(a)
      BY <1>1, <1>7, <2>2, InFlightAfterRelease
    <3>2. a \in forgotten' <=> a \in forgotten
      BY <1>7, <2>2 DEF Release
    <3> QED BY <2>1, <3>1, <3>2 DEF Permitted
  <2>3. CASE a = serving[r]
    <3>1. InFlight(a)' = InFlight(a) \ {r} /\ r \in InFlight(a)
      BY <1>1, <1>7, <2>3, InFlightAfterRelease
    <3>2. a \in forgotten
      BY <3>1 DEF Permitted
    <3>3. a \notin forgotten' => InFlight(a) = {r}
      BY <1>7, <2>3, <3>2 DEF Release
    <3> QED BY <2>1, <3>1, <3>3 DEF Permitted
  <2> QED BY <2>2, <2>3
<1>8. CASE Snapshot
  <2>1. /\ InFlight(a)' = InFlight(a)
        /\ forgotten \subseteq forgotten'
        /\ a \in known' => a \in known /\ granted'[a] = granted[a]
    BY <1>8 DEF Snapshot, InFlight, Offline
  <2> QED BY <2>1 DEF Permitted
<1>9. CASE Tick
  BY <1>9 DEF Tick, Permitted, InFlight
<1> QED BY <1>2, <1>3, <1>4, <1>5, <1>6, <1>7, <1>8, <1>9 DEF OtherStep, RegistryMoves, AnyHeartbeat
-----------------------------------------------------------------------------
(* The reconcile cycle.                                                    *)

\* The phases in which an agent acts on a permission.
Acting == {"write", "restart", "verify", "clear"}

Phases == {"idle", "fetched", "report"} \cup Acting

Budget == [{"change", "fault", "tick", "admin", "load"} -> Nat]

\* The part of the types that is not the registry's.
AgentsTypeOK ==
  /\ desired \in Configs
  /\ disk \in [Workers -> Configs]
  /\ content \in [Workers -> Configs]
  /\ loaded \in [Workers -> SUBSET Models]
  /\ seen \in [Workers -> SUBSET Models]
  /\ marker \subseteq Workers
  /\ wants \subseteq Workers
  /\ needed \subseteq Workers
  /\ ask \in [Workers -> SUBSET Models]
  /\ phase \in [Workers -> Phases]
  /\ left \in Budget

LEMMA TypesTogether == CoordTypeOK <=> TypeOK /\ AgentsTypeOK
BY DEF CoordTypeOK, AgentsTypeOK, Phases, Acting, Budget

\* An agent acts on nothing but a permission that is still good.
ActsPermitted == \A a \in Workers : phase[a] \in Acting => Permitted(a)

CoordIInv == InductiveInv /\ AgentsTypeOK /\ RestartIsOwed /\ ActsPermitted

\* A step of one agent's own cycle that is not its report.
CycleMoves(a) ==
  \/ Fetch(a)
  \/ Idles(a) /\ (UNCHANGED left \/ Spend("fault"))
  \/ DeferConfig(a)
  \/ ApplyConfig(a)
  \/ WriteFails(a)
  \/ WritePending(a)
  \/ Restart(a)
  \/ Verify(a)
  \/ Clear(a)
  \/ StepFails(a)
  \/ AgentCrash(a)

CycleReport(a) == Report(a) \/ ReportUnanswered(a)

LEMMA SpendTyped ==
  ASSUME left \in Budget, NEW k \in {"change", "fault", "tick", "admin", "load"}, Spend(k)
  PROVE  left' \in Budget
BY DEF Budget, Spend

\* The steps of a cycle keep the types.
LEMMA CycleTyped ==
  ASSUME AgentsTypeOK, NEW a \in Workers, CycleMoves(a) \/ CycleReport(a)
  PROVE  AgentsTypeOK'
<1> USE DEF AgentsTypeOK, Phases, Acting, Goto
<1>1. CASE Fetch(a)
  BY <1>1 DEF Fetch
<1>2. CASE Idles(a) /\ (UNCHANGED left \/ Spend("fault"))
  BY <1>2, SpendTyped DEF Idles
<1>3. CASE DeferConfig(a)
  BY <1>3 DEF DeferConfig
<1>4. CASE ApplyConfig(a)
  BY <1>4 DEF ApplyConfig
<1>5. CASE WriteFails(a)
  BY <1>5, SpendTyped DEF WriteFails
<1>6. CASE WritePending(a)
  BY <1>6 DEF WritePending
<1>7. CASE Restart(a) \/ Verify(a) \/ Clear(a)
  BY <1>7 DEF Restart, Verify, Clear
<1>8. CASE StepFails(a) \/ AgentCrash(a)
  BY <1>8, SpendTyped DEF StepFails, AgentCrash
<1>9. CASE Report(a)
  BY <1>9 DEF Report
<1>10. CASE ReportUnanswered(a)
  BY <1>10, SpendTyped DEF ReportUnanswered
<1> QED BY <1>1, <1>2, <1>3, <1>4, <1>5, <1>6, <1>7, <1>8, <1>9, <1>10 DEF CycleMoves, CycleReport

\* A restart is wanted in memory only while its marker file is there: the file
\* is written with the wish and removed with it, and read by a new process.
LEMMA OwedKept ==
  ASSUME RestartIsOwed, NEW a \in Workers, CycleMoves(a) \/ CycleReport(a)
  PROVE  RestartIsOwed'
BY DEF RestartIsOwed, CycleMoves, CycleReport, Fetch, Idles, DeferConfig, ApplyConfig, WriteFails,
       WritePending, Restart, Verify, Clear, StepFails, AgentCrash, Report, ReportUnanswered

\* No other step of a cycle than its report touches the registry, or makes an
\* agent act that did not act before.
LEMMA MovesAreQuiet ==
  ASSUME AgentsTypeOK, NEW a \in Workers, CycleMoves(a)
  PROVE  /\ UNCHANGED registry
         /\ \A b \in Workers : phase'[b] \in Acting => phase[b] \in Acting
<1> USE DEF AgentsTypeOK, Acting, Goto
<1>1. CASE Fetch(a) \/ Idles(a) \/ DeferConfig(a) \/ ApplyConfig(a) \/ WriteFails(a)
  BY <1>1 DEF Fetch, Idles, DeferConfig, ApplyConfig, WriteFails
<1>2. CASE WritePending(a) \/ Restart(a) \/ Verify(a) \/ Clear(a) \/ StepFails(a)
  BY <1>2 DEF WritePending, Restart, Verify, Clear, StepFails
<1>3. CASE AgentCrash(a)
  BY <1>3 DEF AgentCrash
<1> QED BY <1>1, <1>2, <1>3 DEF CycleMoves

\* A report is a heartbeat of the agent; it goes on to act if that is granted.
LEMMA ReportActsGranted ==
  ASSUME AgentsTypeOK, NEW a \in Workers, CycleReport(a)
  PROVE  /\ Heartbeat(a, a \in needed, ask[a])
         /\ ask[a] \in SUBSET Models
         /\ phase[a] = "report"
         /\ phase'[a] \in Acting => granted'[a] # {}
         /\ \A b \in Workers \ {a} : phase'[b] = phase[b]
<1> USE DEF AgentsTypeOK, Acting, Goto
<1>1. CASE Report(a)
  BY <1>1 DEF Report
<1>2. CASE ReportUnanswered(a)
  BY <1>2 DEF ReportUnanswered
<1> QED BY <1>1, <1>2 DEF CycleReport

\* Every step of a cycle keeps the invariant.
LEMMA CycleKeeps ==
  ASSUME CoordIInv, NEW a \in Workers, CycleMoves(a) \/ CycleReport(a)
  PROVE  CoordIInv'
<1>1. AgentsTypeOK' /\ RestartIsOwed'
  BY CycleTyped, OwedKept DEF CoordIInv
<1>2. CASE CycleMoves(a)
  <2>1. UNCHANGED registry /\ \A b \in Workers : phase'[b] \in Acting => phase[b] \in Acting
    BY <1>2, MovesAreQuiet DEF CoordIInv
  <2>2. InductiveInv'
    BY <2>1, RegistryStep DEF CoordIInv, OtherStep, RegistryMoves
  <2>3. \A b \in Workers : Permitted(b) => Permitted(b)'
    BY <2>1, PermissionLasts DEF CoordIInv, OtherStep, RegistryMoves
  <2> QED BY <1>1, <2>1, <2>2, <2>3 DEF CoordIInv, ActsPermitted
<1>3. CASE CycleReport(a)
  <2>1. /\ Heartbeat(a, a \in needed, ask[a])
        /\ ask[a] \in SUBSET Models
        /\ (a \in needed) \in BOOLEAN
        /\ phase'[a] \in Acting => granted'[a] # {}
        /\ \A b \in Workers \ {a} : phase'[b] = phase[b]
    BY <1>3, ReportActsGranted DEF CoordIInv
  <2>2. InductiveInv'
    BY <2>1, RegistryStep DEF CoordIInv, AnyHeartbeat
  <2>3. ASSUME NEW b \in Workers \ {a}, Permitted(b)
        PROVE  Permitted(b)'
    <3>1. OtherStep(b)
      BY <2>1 DEF OtherStep, AnyHeartbeat
    <3> QED BY <2>3, <3>1, PermissionLasts DEF CoordIInv
  <2>4. phase'[a] \in Acting => Permitted(a)'
    BY <2>1, <2>2, GrantPermits
  <2> QED BY <1>1, <2>1, <2>2, <2>3, <2>4 DEF CoordIInv, ActsPermitted
<1> QED BY <1>2, <1>3

\* What happens around the agents: the gateway, its clients, the administrator,
\* the models that llama-swap loads and unloads, and time.
Surroundings == RegistryMoves /\ AgentsTypeOK' /\ UNCHANGED <<marker, wants, phase>>

LEMMA SurroundingsKeep ==
  ASSUME CoordIInv, Surroundings
  PROVE  CoordIInv'
<1>1. InductiveInv'
  BY RegistryStep DEF CoordIInv, Surroundings
<1>2. ASSUME NEW a \in Workers, Permitted(a)
      PROVE  Permitted(a)'
  BY <1>2, PermissionLasts DEF CoordIInv, Surroundings, OtherStep
<1> QED BY <1>1, <1>2 DEF CoordIInv, Surroundings, RestartIsOwed, ActsPermitted

LEMMA GatewayRestartSurrounds == ASSUME AgentsTypeOK, GatewayRestart PROVE Surroundings
<1>1. Init'
  BY DEF GatewayRestart, Init
<1>2. AgentsTypeOK'
  BY SpendTyped DEF GatewayRestart, AgentsTypeOK, agents
<1> QED BY <1>1, <1>2 DEF GatewayRestart, agents, Surroundings, RegistryMoves

LEMMA PublishSurrounds ==
  ASSUME AgentsTypeOK, NEW m \in Models, Publish(m)
  PROVE  Surroundings
<1>1. desired' \in Configs
  BY DEF Publish, AgentsTypeOK, Configs
<1>2. AgentsTypeOK'
  BY <1>1, SpendTyped DEF Publish, AgentsTypeOK
<1> QED BY <1>2 DEF Publish, Surroundings, RegistryMoves

LEMMA LoadSurrounds ==
  ASSUME AgentsTypeOK, NEW a \in Workers, NEW m \in Models, Load(a, m) \/ Unload(a, m)
  PROVE  Surroundings
<1>1. loaded' \in [Workers -> SUBSET Models]
  BY DEF Load, Unload, AgentsTypeOK
<1>2. AgentsTypeOK'
  BY <1>1, SpendTyped DEF Load, Unload, AgentsTypeOK
<1> QED BY <1>2 DEF Load, Unload, Surroundings, RegistryMoves

LEMMA TrafficSurrounds ==
  ASSUME AgentsTypeOK, Proxying \/ Administration \/ TimePasses
  PROVE  Surroundings
<1>1. AgentsTypeOK'
  BY SpendTyped DEF Proxying, Administration, TimePasses, AgentsTypeOK, agents
<1>2. RegistryMoves
  BY DEF Proxying, Administration, TimePasses, RegistryMoves
<1> QED BY <1>1, <1>2 DEF Proxying, Administration, TimePasses, agents, Surroundings

\* A step of the composition is one of an agent or of its surroundings.
LEMMA CoordStep ==
  ASSUME CoordIInv, [CoordNext]_allVars
  PROVE  CoordIInv'
<1>1. AgentsTypeOK
  BY DEF CoordIInv
<1>2. ASSUME NEW a \in Workers,
             \/ AgentStep(a) \/ FetchFails(a) \/ WriteFails(a) \/ ReportUnanswered(a)
             \/ StepFails(a) \/ AgentCrash(a)
      PROVE  CoordIInv'
  <2>1. CycleMoves(a) \/ CycleReport(a)
    BY <1>2 DEF AgentStep, FetchFails, CycleMoves, CycleReport
  <2> QED BY <2>1, CycleKeeps
<1>3. CASE UNCHANGED allVars
  <2>1. AgentsTypeOK'
    BY <1>1, <1>3 DEF allVars, agents, AgentsTypeOK
  <2>2. Surroundings
    BY <1>3, <2>1 DEF allVars, agents, Surroundings, RegistryMoves
  <2> QED BY <2>2, SurroundingsKeep
<1> QED
  BY <1>1, <1>2, <1>3, SurroundingsKeep, GatewayRestartSurrounds, PublishSurrounds,
     LoadSurrounds, TrafficSurrounds DEF CoordNext

LEMMA CoordInitially ==
  ASSUME CoordInit
  PROVE  CoordIInv
<1>1. InductiveInv
  BY InductiveInit DEF CoordInit
<1>2. AgentsTypeOK
  BY BudgetAssumption DEF CoordInit, AgentsTypeOK, Configs, Phases, Budget
<1> QED BY <1>1, <1>2 DEF CoordInit, CoordIInv, RestartIsOwed, ActsPermitted, Acting

\* The invariant of the reconcile cycle and the registry together.
THEOREM CoordInvariance == CoordSpec => []CoordIInv
<1>1. CoordInit => CoordIInv
  BY CoordInitially
<1>2. CoordIInv /\ [CoordNext]_allVars => CoordIInv'
  BY CoordStep
<1> QED BY <1>1, <1>2, PTL DEF CoordSpec

\* Files, memory and phases of every agent stay well typed.
THEOREM CoordTypeCorrect == CoordSpec => []CoordTypeOK
<1>1. CoordIInv => CoordTypeOK
  BY TypesTogether DEF CoordIInv, InductiveInv
<1> QED BY <1>1, CoordInvariance, PTL

\* A cycle that, with the gateway's permission, rewrites the configuration,
\* restarts llama-swap and verifies it does so under no request in flight, for
\* any number of agents: the permission outlives ticks, pruning, admins and a
\* restart of the gateway.  Excepted are workers that were pruned while they
\* served.  The models that -watch-config reloads without permission, because
\* they were loaded after the agent looked, are not what this is about.
THEOREM RestartIsPermitted == CoordSpec => []RestartCutsNothing
<1>1. CoordIInv => RestartCutsNothing
  BY DEF CoordIInv, ActsPermitted, Permitted, Acting, RestartCutsNothing
<1> QED BY <1>1, CoordInvariance, PTL

\* No crash and no failing step loses a restart that is owed.
THEOREM RestartStaysOwed == CoordSpec => []RestartIsOwed
<1>1. CoordIInv => RestartIsOwed
  BY DEF CoordIInv
<1> QED BY <1>1, CoordInvariance, PTL
-----------------------------------------------------------------------------
(* The transport manager beside it.                                        *)

ManagerStates == {"down", "wanted", "verify", "ask", "restart", "check", "prepared", "up"}

Layouts == {"empty", "prepared", "rendered"}

\* The part of the types that the manager and the file add.
PrepPartTypeOK ==
  /\ token \in 0..Tokens
  /\ manager \in [Workers -> ManagerStates]
  /\ want \in [Workers -> 0..Tokens]
  /\ cycle \in [Workers -> {None} \cup 0..Tokens]
  /\ file \in [Workers -> [key : {None} \cup 0..Tokens, layout : Layouts]]
  /\ enforced \in [Workers -> {None} \cup 0..Tokens]
  /\ unread \subseteq Workers
  /\ url \subseteq Workers
  /\ chosen \in [Requests -> {None} \cup Workers]

\* cycleMu: a cycle and a preparation of one agent never overlap.
Locked == \A a \in Workers : ~(CycleLocks(a) /\ ManagerLocks(a))

\* The manager, too, acts on nothing but a permission that is still good.
ManagerPermitted == \A a \in Workers : manager[a] \in {"restart", "check"} => Permitted(a)

\* From the write of the token on, the file has it.
Prepared == {"verify", "ask", "restart", "check", "prepared", "up"}
FileHasToken == \A a \in Workers : manager[a] \in Prepared => file[a].key = want[a]

\* A cycle that may still write the file got its token when the tunnel was up,
\* and the tunnel it sees now is that one: another needs cycleMu.
MayWrite(a) ==
  \/ phase[a] \in {"fetched", "write"}
  \/ phase[a] = "report" /\ a \in needed

CycleHasToken ==
  \A a \in Workers : manager[a] \in Prepared /\ MayWrite(a) => cycle[a] = want[a]

PrepIInv ==
  /\ CoordIInv
  /\ PrepPartTypeOK
  /\ Locked
  /\ ManagerPermitted
  /\ FileHasToken
  /\ CycleHasToken
  /\ ListenerGuarded

\* What the transport manager and the file are about, together.
Listening == PrepPartTypeOK /\ Locked /\ FileHasToken /\ CycleHasToken /\ ListenerGuarded

\* Steps of the manager of one agent.
LEMMA ManagerListens ==
  ASSUME Listening, AgentsTypeOK, NEW a \in Workers,
         ManagerStep(a) \/ PrepareAskUnanswered(a) \/ PrepareFails(a) \/ TunnelLost(a)
  PROVE  Listening'
<1> USE DEF Listening, AgentsTypeOK, PrepPartTypeOK, ManagerStates, Layouts, Become,
            Locked, CycleLocks, ManagerLocks, FileHasToken, Prepared, CycleHasToken, MayWrite,
            ListenerGuarded, allVars, agents, tunnel, swap
<1>1. CASE FetchDesired(a)
  BY <1>1 DEF FetchDesired
<1>2. CASE PrepareWrite(a)
  BY <1>2 DEF PrepareWrite, WriteFile
<1>3. CASE Probe(a)
  BY <1>3 DEF Probe
<1>4. CASE PrepareAsk(a)
  BY <1>4 DEF PrepareAsk
<1>5. CASE PrepareRestart(a)
  BY <1>5 DEF PrepareRestart, ReadFile
<1>6. CASE Register(a)
  BY <1>6 DEF Register
<1>7. CASE PollChanged(a)
  BY <1>7 DEF PollChanged
<1>8. CASE PrepareAskUnanswered(a)
  BY <1>8 DEF PrepareAskUnanswered
<1>9. CASE PrepareFails(a)
  BY <1>9 DEF PrepareFails
<1>10. CASE TunnelLost(a)
  BY <1>10 DEF TunnelLost
<1> QED
  BY <1>1, <1>2, <1>3, <1>4, <1>5, <1>6, <1>7, <1>8, <1>9, <1>10 DEF ManagerStep

\* Steps of the reconcile cycle of one agent, and of its llama-swap.
LEMMA CycleListens ==
  ASSUME Listening, AgentsTypeOK, NEW a \in Workers,
         CycleStep(a) \/ CycleFetchFails(a) \/ Watch(a) \/ Crash(a)
  PROVE  Listening'
<1> USE DEF Listening, AgentsTypeOK, PrepPartTypeOK, ManagerStates, Layouts, Become, Goto,
            Locked, CycleLocks, ManagerLocks, FileHasToken, Prepared, CycleHasToken, MayWrite,
            ListenerGuarded, tunnel, swap
<1>1. CASE CycleBegins(a)
  <2>1. /\ UNCHANGED <<token, file, unread, manager, want, enforced, url, chosen>>
        /\ phase[a] = "idle" /\ ~ManagerLocks(a)
        /\ \/ /\ manager[a] = "up" /\ UNCHANGED needed
              /\ phase' = [phase EXCEPT ![a] = "fetched"]
              /\ cycle' = [cycle EXCEPT ![a] = want[a]]
           \/ /\ manager[a] # "up" /\ needed' = needed \ {a}
              /\ phase' = [phase EXCEPT ![a] = "report"]
              /\ cycle' = [cycle EXCEPT ![a] = None]
    BY <1>1 DEF CycleBegins, Fetch, Idles
  <2>2. PrepPartTypeOK' /\ FileHasToken' /\ ListenerGuarded'
    BY <2>1
  <2>3. Locked'
    BY <2>1
  <2>4. CycleHasToken'
    BY <2>1
  <2> QED BY <2>2, <2>3, <2>4
<1>2. CASE CycleDefers(a)
  BY <1>2 DEF CycleDefers, DeferConfig, WriteFails
<1>3. CASE CycleApplies(a)
  <2>1. /\ UNCHANGED <<token, manager, want, cycle, enforced, url, chosen>>
        /\ phase[a] = "fetched"
        /\ phase' = [phase EXCEPT ![a] = "report"]
        /\ needed' \in {needed \cup {a}, needed \ {a}}
    BY <1>3 DEF CycleApplies, ApplyConfig
  <2>2. /\ file' \in {file, [file EXCEPT ![a] = [key |-> cycle[a], layout |-> "rendered"]]}
        /\ unread' \in {unread, unread \cup {a}}
    BY <1>3 DEF CycleApplies, WriteFile
  <2>3. PrepPartTypeOK'
    BY <2>1, <2>2
  <2>4. FileHasToken'
    BY <2>1, <2>2
  <2>5. Locked' /\ CycleHasToken' /\ ListenerGuarded'
    BY <2>1
  <2> QED BY <2>3, <2>4, <2>5
<1>4. CASE CycleReports(a)
  BY <1>4 DEF CycleReports, Report, ReportUnanswered
<1>5. CASE CycleRefused(a)
  BY <1>5 DEF CycleRefused
<1>6. CASE CycleWrites(a)
  <2>1. /\ UNCHANGED <<token, manager, want, cycle, enforced, url, chosen, needed>>
        /\ phase[a] = "write"
        /\ phase' = [phase EXCEPT ![a] = "restart"]
    BY <1>6 DEF CycleWrites, WritePending
  <2>2. /\ file' \in {file, [file EXCEPT ![a] = [key |-> cycle[a], layout |-> "rendered"]]}
        /\ unread' \in {unread, unread \cup {a}}
    BY <1>6 DEF CycleWrites, WriteFile
  <2>3. PrepPartTypeOK'
    BY <2>1, <2>2
  <2>4. FileHasToken'
    BY <2>1, <2>2
  <2>5. Locked' /\ CycleHasToken' /\ ListenerGuarded'
    BY <2>1
  <2> QED BY <2>3, <2>4, <2>5
<1>7. CASE CycleRestarts(a)
  BY <1>7 DEF CycleRestarts, Restart, ReadFile
<1>8. CASE CycleVerifies(a)
  BY <1>8 DEF CycleVerifies, Verify
<1>9. CASE CycleEnds(a)
  BY <1>9 DEF CycleEnds, Clear, StepFails
<1>10. CASE CycleFetchFails(a)
  BY <1>10 DEF CycleFetchFails, FetchFails, Idles
<1>11. CASE Watch(a)
  BY <1>11 DEF Watch, ReadFile
<1>12. CASE Crash(a)
  BY <1>12 DEF Crash, AgentCrash
<1> QED
  BY <1>1, <1>2, <1>3, <1>4, <1>5, <1>6, <1>7, <1>8, <1>9, <1>10, <1>11, <1>12 DEF CycleStep

\* The gateway, its clients and the administrator touch none of it but the
\* token that is handed out next, the URL and who was chosen.
LEMMA AroundListens ==
  ASSUME Listening, GatewayReturns \/ Traffic \/ Around \/ UNCHANGED prepVars
  PROVE  Listening'
<1> USE DEF Listening, PrepPartTypeOK, Locked, CycleLocks, ManagerLocks, FileHasToken,
            CycleHasToken, MayWrite, ListenerGuarded
<1>1. UNCHANGED <<manager, want, cycle, file, enforced, unread, phase, needed>>
  BY DEF GatewayReturns, GatewayRestart, Traffic, Ends, Schedule, Assign, Around, Administration,
         TimePasses, Publish, Load, Unload, prepVars, allVars, agents, tunnel, swap
<1>2. token' \in 0..Tokens
  BY DEF GatewayReturns, Traffic, Ends, Schedule, Assign, Around, prepVars, tunnel
<1>3. url' \subseteq Workers
  BY DEF GatewayReturns, Traffic, Ends, Schedule, Assign, Around, prepVars
<1>4. chosen' \in [Requests -> {None} \cup Workers]
  BY DEF GatewayReturns, Traffic, Ends, Schedule, Assign, Around, prepVars
<1> QED BY <1>1, <1>2, <1>3, <1>4

\* What the manager's steps do to the registry and to the cycle: nothing, but
\* that a preparation asks for a restart with a heartbeat of its own.
LEMMA ManagerMoves ==
  ASSUME AgentsTypeOK, PrepPartTypeOK, NEW a \in Workers,
         ManagerStep(a) \/ PrepareAskUnanswered(a) \/ PrepareFails(a) \/ TunnelLost(a)
  PROVE  /\ AgentsTypeOK'
         /\ UNCHANGED <<marker, wants, phase>>
         /\ \A b \in Workers \ {a} : manager'[b] = manager[b]
         /\ \/ /\ UNCHANGED registry
               /\ manager'[a] \in {"restart", "check"} => manager[a] \in {"restart", "check"}
            \/ /\ AnyHeartbeat(a)
               /\ manager[a] = "ask"
               /\ manager'[a] \in {"restart", "check"} => granted'[a] # {}
<1> USE DEF PrepPartTypeOK, ManagerStates, Become
<1>1. CASE FetchDesired(a) \/ PrepareWrite(a) \/ Probe(a) \/ Register(a) \/ PollChanged(a)
  <2>1. UNCHANGED allVars
    BY <1>1 DEF FetchDesired, PrepareWrite, Probe, Register, PollChanged
  <2>2. AgentsTypeOK' /\ UNCHANGED <<registry, marker, wants, phase>>
    BY <2>1 DEF allVars, agents, AgentsTypeOK
  <2> QED
    BY <1>1, <2>2 DEF FetchDesired, PrepareWrite, Probe, Register, PollChanged
<1>2. CASE PrepareAsk(a) \/ PrepareAskUnanswered(a)
  <2>1. Heartbeat(a, TRUE, {}) /\ UNCHANGED agents
    BY <1>2 DEF PrepareAsk, PrepareAskUnanswered
  <2>2. AnyHeartbeat(a)
    BY <2>1 DEF AnyHeartbeat
  <2>3. left' \in Budget
    BY <1>2, SpendTyped DEF PrepareAsk, PrepareAskUnanswered, AgentsTypeOK
  <2>4. AgentsTypeOK' /\ UNCHANGED <<marker, wants, phase>>
    BY <2>1, <2>3 DEF agents, AgentsTypeOK
  <2>5. /\ manager[a] = "ask"
        /\ \A b \in Workers \ {a} : manager'[b] = manager[b]
        /\ manager'[a] \in {"restart", "check"} => granted'[a] # {}
    BY <1>2 DEF PrepareAsk, PrepareAskUnanswered
  <2> QED BY <2>2, <2>4, <2>5
<1>3. CASE PrepareRestart(a)
  BY <1>3 DEF PrepareRestart, AgentsTypeOK
<1>4. CASE PrepareFails(a) \/ TunnelLost(a)
  <2>1. left' \in Budget
    BY <1>4, SpendTyped DEF PrepareFails, TunnelLost, AgentsTypeOK
  <2> QED BY <1>4, <2>1 DEF PrepareFails, TunnelLost, agents, AgentsTypeOK
<1> QED BY <1>1, <1>2, <1>3, <1>4 DEF ManagerStep

LEMMA ManagerKeeps ==
  ASSUME PrepIInv, NEW a \in Workers,
         ManagerStep(a) \/ PrepareAskUnanswered(a) \/ PrepareFails(a) \/ TunnelLost(a)
  PROVE  CoordIInv' /\ ManagerPermitted'
<1>1. AgentsTypeOK /\ PrepPartTypeOK /\ InductiveInv
  BY DEF PrepIInv, CoordIInv
<1>2. /\ AgentsTypeOK'
      /\ UNCHANGED <<marker, wants, phase>>
      /\ \A b \in Workers \ {a} : manager'[b] = manager[b]
  BY <1>1, ManagerMoves
<1>3. CASE /\ UNCHANGED registry
           /\ manager'[a] \in {"restart", "check"} => manager[a] \in {"restart", "check"}
  <2>1. RegistryMoves
    BY <1>3 DEF RegistryMoves
  <2>2. CoordIInv'
    BY <1>2, <2>1, SurroundingsKeep DEF PrepIInv, Surroundings
  <2>3. \A b \in Workers : Permitted(b) => Permitted(b)'
    BY <1>1, <2>1, PermissionLasts DEF OtherStep
  <2> QED BY <1>2, <1>3, <2>2, <2>3 DEF PrepIInv, ManagerPermitted
<1>4. CASE /\ AnyHeartbeat(a)
           /\ manager[a] = "ask"
           /\ manager'[a] \in {"restart", "check"} => granted'[a] # {}
  <2>1. InductiveInv'
    BY <1>1, <1>4, RegistryStep
  <2>2. \A b \in Workers \ {a} : Permitted(b) => Permitted(b)'
    BY <1>1, <1>4, PermissionLasts DEF OtherStep
  <2>3. phase[a] \notin Acting
    BY <1>4 DEF PrepIInv, Locked, CycleLocks, ManagerLocks, Acting
  <2>4. ActsPermitted'
    BY <1>2, <2>2, <2>3 DEF PrepIInv, CoordIInv, ActsPermitted
  <2>5. ManagerPermitted'
    BY <1>2, <1>4, <2>1, <2>2, GrantPermits DEF PrepIInv, ManagerPermitted
  <2> QED BY <1>2, <2>1, <2>4, <2>5 DEF PrepIInv, CoordIInv, RestartIsOwed
<1> QED BY <1>1, <1>3, <1>4, ManagerMoves

\* A cycle step beside the transport is one of RestartCoordination's, or ends
\* the cycle; it leaves the manager alone, unless the process dies.
LEMMA CycleStepMoves ==
  ASSUME AgentsTypeOK, PrepPartTypeOK, NEW a \in Workers,
         CycleStep(a) \/ CycleFetchFails(a) \/ Crash(a)
  PROVE  /\ \/ CycleMoves(a)
            \/ CycleReport(a)
            \/ UNCHANGED registry /\ UNCHANGED <<marker, wants>> /\ AgentsTypeOK'
               /\ phase' = [phase EXCEPT ![a] = "idle"]
         /\ \A b \in Workers : manager'[b] \in {manager[b], "down"}
<1>1. CASE CycleBegins(a) \/ CycleDefers(a) \/ CycleApplies(a)
  BY <1>1 DEF CycleBegins, CycleDefers, CycleApplies, CycleMoves, tunnel
<1>2. CASE CycleReports(a)
  BY <1>2 DEF CycleReports, CycleReport, tunnel
<1>3. CASE CycleRefused(a)
  BY <1>3 DEF CycleRefused, Goto, AgentsTypeOK, Phases, tunnel
<1>4. CASE CycleWrites(a) \/ CycleRestarts(a) \/ CycleEnds(a)
  BY <1>4 DEF CycleWrites, CycleRestarts, CycleEnds, CycleMoves, tunnel
<1>5. CASE CycleVerifies(a)
  BY <1>5 DEF CycleVerifies, CycleMoves, Goto, AgentsTypeOK, Phases, tunnel
<1>6. CASE CycleFetchFails(a)
  BY <1>6 DEF CycleFetchFails, FetchFails, CycleMoves, tunnel
<1>7. CASE Crash(a)
  BY <1>7 DEF Crash, CycleMoves, Become, PrepPartTypeOK
<1> QED BY <1>1, <1>2, <1>3, <1>4, <1>5, <1>6, <1>7 DEF CycleStep

LEMMA CycleStepKeeps ==
  ASSUME PrepIInv, NEW a \in Workers, CycleStep(a) \/ CycleFetchFails(a) \/ Crash(a)
  PROVE  CoordIInv' /\ ManagerPermitted'
<1>1. AgentsTypeOK /\ PrepPartTypeOK /\ InductiveInv /\ CoordIInv
  BY DEF PrepIInv, CoordIInv
<1>2. \A b \in Workers : manager'[b] \in {manager[b], "down"}
  BY <1>1, CycleStepMoves
<1>3. CASE CycleMoves(a)
  <2>1. CoordIInv' /\ UNCHANGED registry
    BY <1>1, <1>3, CycleKeeps, MovesAreQuiet
  <2>2. \A b \in Workers : Permitted(b) => Permitted(b)'
    BY <1>1, <2>1, PermissionLasts DEF OtherStep, RegistryMoves
  <2> QED BY <1>2, <2>1, <2>2 DEF PrepIInv, ManagerPermitted
<1>4. CASE CycleReport(a)
  <2>1. CoordIInv'
    BY <1>1, <1>4, CycleKeeps
  <2>2. AnyHeartbeat(a) /\ phase[a] = "report"
    <3>1. /\ Heartbeat(a, a \in needed, ask[a])
          /\ ask[a] \in SUBSET Models
          /\ (a \in needed) \in BOOLEAN
          /\ phase[a] = "report"
      BY <1>1, <1>4, ReportActsGranted
    <3> QED BY <3>1 DEF AnyHeartbeat
  <2>3. \A b \in Workers \ {a} : Permitted(b) => Permitted(b)'
    BY <1>1, <2>2, PermissionLasts DEF OtherStep
  <2>4. manager[a] \notin {"restart", "check"}
    BY <2>2 DEF PrepIInv, Locked, CycleLocks, ManagerLocks
  <2> QED BY <1>2, <2>1, <2>3, <2>4 DEF PrepIInv, ManagerPermitted
<1>5. CASE /\ UNCHANGED registry /\ UNCHANGED <<marker, wants>> /\ AgentsTypeOK'
           /\ phase' = [phase EXCEPT ![a] = "idle"]
  <2>1. RegistryMoves
    BY <1>5 DEF RegistryMoves
  <2>2. InductiveInv'
    BY <1>1, <2>1, RegistryStep
  <2>3. \A b \in Workers : Permitted(b) => Permitted(b)'
    BY <1>1, <2>1, PermissionLasts DEF OtherStep
  <2>4. \A b \in Workers : phase'[b] \in Acting => phase[b] \in Acting
    BY <1>1, <1>5 DEF AgentsTypeOK, Acting
  <2>5. CoordIInv'
    BY <1>1, <1>5, <2>2, <2>3, <2>4 DEF CoordIInv, RestartIsOwed, ActsPermitted
  <2> QED BY <1>2, <2>3, <2>5 DEF PrepIInv, ManagerPermitted
<1> QED BY <1>1, <1>3, <1>4, <1>5, CycleStepMoves

\* Everything else belongs to the surroundings of RestartCoordination.
LEMMA AroundKeeps ==
  ASSUME PrepIInv,
         (\E a \in Workers : Watch(a)) \/ GatewayReturns \/ Traffic \/ Around \/ UNCHANGED prepVars
  PROVE  CoordIInv' /\ ManagerPermitted'
<1>1. AgentsTypeOK /\ PrepPartTypeOK /\ InductiveInv /\ CoordIInv
  BY DEF PrepIInv, CoordIInv
<1>2. UNCHANGED manager
  BY DEF Watch, GatewayReturns, Traffic, Ends, Schedule, Assign, Around, prepVars, tunnel
<1>3. Surroundings
  <2>1. ASSUME NEW a \in Workers, Watch(a)
        PROVE  Surroundings
    BY <1>1, <2>1 DEF Watch, AgentsTypeOK, Surroundings, RegistryMoves
  <2>2. CASE GatewayReturns
    BY <1>1, <2>2, GatewayRestartSurrounds DEF GatewayReturns
  <2>3. CASE Traffic
    <3>1. UNCHANGED <<agents, left>>
      BY <2>3 DEF Traffic, Ends, Schedule, Assign, allVars
    <3>2. RegistryMoves
      BY <2>3 DEF Traffic, Ends, Schedule, Assign, allVars, RegistryMoves
    <3> QED BY <1>1, <3>1, <3>2 DEF agents, AgentsTypeOK, Surroundings
  <2>4. CASE Around
    BY <1>1, <2>4, TrafficSurrounds, PublishSurrounds, LoadSurrounds DEF Around
  <2>5. CASE UNCHANGED prepVars
    <3>1. UNCHANGED <<registry, agents, left>>
      BY <2>5 DEF prepVars, allVars
    <3> QED BY <1>1, <3>1 DEF agents, AgentsTypeOK, Surroundings, RegistryMoves
  <2> QED BY <2>1, <2>2, <2>3, <2>4, <2>5
<1>4. \A b \in Workers : Permitted(b) => Permitted(b)'
  BY <1>1, <1>3, PermissionLasts DEF OtherStep, Surroundings
<1> QED BY <1>1, <1>2, <1>3, <1>4, SurroundingsKeep DEF PrepIInv, ManagerPermitted

LEMMA PrepInitially ==
  ASSUME PrepInit
  PROVE  PrepIInv
<1>1. CoordIInv
  BY CoordInitially DEF PrepInit
<1>2. PrepPartTypeOK
  BY TokensAssumption DEF PrepInit, PrepPartTypeOK, ManagerStates, Layouts
<1> QED
  BY <1>1, <1>2 DEF PrepInit, PrepIInv, Locked, ManagerLocks, ManagerPermitted, FileHasToken,
     Prepared, CycleHasToken, ListenerGuarded

LEMMA PrepStep ==
  ASSUME PrepIInv, [PrepNext]_prepVars
  PROVE  PrepIInv'
<1>1. Listening /\ AgentsTypeOK
  BY DEF PrepIInv, Listening, CoordIInv
<1>2. ASSUME NEW a \in Workers,
             ManagerStep(a) \/ PrepareAskUnanswered(a) \/ PrepareFails(a) \/ TunnelLost(a)
      PROVE  Listening' /\ CoordIInv' /\ ManagerPermitted'
  BY <1>1, <1>2, ManagerListens, ManagerKeeps
<1>3. ASSUME NEW a \in Workers, CycleStep(a) \/ CycleFetchFails(a) \/ Crash(a)
      PROVE  Listening' /\ CoordIInv' /\ ManagerPermitted'
  BY <1>1, <1>3, CycleListens, CycleStepKeeps
<1>4. ASSUME NEW a \in Workers, Watch(a)
      PROVE  Listening' /\ CoordIInv' /\ ManagerPermitted'
  BY <1>1, <1>4, CycleListens, AroundKeeps
<1>5. CASE GatewayReturns \/ Traffic \/ Around \/ UNCHANGED prepVars
  BY <1>1, <1>5, AroundListens, AroundKeeps DEF PrepIInv, Listening
<1> QED BY <1>2, <1>3, <1>4, <1>5 DEF PrepNext, PrepIInv, Listening

\* The invariant of both actors and the registry together.
THEOREM PrepInvariance == PrepSpec => []PrepIInv
<1>1. PrepInit => PrepIInv
  BY PrepInitially
<1>2. PrepIInv /\ [PrepNext]_prepVars => PrepIInv'
  BY PrepStep
<1> QED BY <1>1, <1>2, PTL DEF PrepSpec

\* Everything about both actors stays well typed.
THEOREM PrepTypeCorrect == PrepSpec => []PrepTypeOK
<1>1. PrepIInv => PrepTypeOK
  BY TypesTogether
     DEF PrepIInv, CoordIInv, InductiveInv, PrepPartTypeOK, ManagerStates, Layouts, PrepTypeOK
<1> QED BY <1>1, PrepInvariance, PTL

\* An open tunnel leads to a llama-swap that asks for the tunnel's token,
\* although reconcile cycles rewrite the file it is read from and llama-swap
\* may read it at any time.
THEOREM TunnelIsGuarded == PrepSpec => []ListenerGuarded
<1>1. PrepIInv => ListenerGuarded
  BY DEF PrepIInv
<1> QED BY <1>1, PrepInvariance, PTL

\* What the cycle and the preparation of a tunnel restart with the gateway's
\* permission has no request in flight, unless the worker was pruned while it
\* served.
THEOREM BothRestartsArePermitted == PrepSpec => []RestartsCutNothing
<1>1. PrepIInv => RestartsCutNothing
  BY DEF PrepIInv, CoordIInv, ActsPermitted, ManagerPermitted, Permitted, Acting,
         RestartsCutNothing
<1> QED BY <1>1, PrepInvariance, PTL
=============================================================================
