--------------------------- MODULE WorkerRegistry ---------------------------
(***************************************************************************)
(* The gateway's registry of workers (src/internal/gateway/workers.go):    *)
(* heartbeats, draining, scrape backoff, the count of requests in flight,  *)
(* and the restart scopes that decide which agent may restart.  Every      *)
(* method runs under r.mu, so every method is one action.                  *)
(*                                                                         *)
(* Time is relative: age[w] is the time since w's last heartbeat and       *)
(* backoff[w] what is left of its scrape backoff.  Ages saturate one unit  *)
(* beyond the retention and failure counts at the threshold, since the     *)
(* code compares them with nothing larger.                                 *)
(*                                                                         *)
(* serving, forgotten and granted are not fields of the registry: they are *)
(* what its callers know, and the properties compare the registry to it.   *)
(***************************************************************************)
EXTENDS Naturals, FiniteSets

CONSTANTS Workers,     \* agent ids
          Models,      \* model names
          Requests,    \* proxy requests, one assignment at a time each
          None,        \* the empty string
          StaleAfter,  \* heartbeat staleness, 6 s in the program
          Retention,   \* workerOfflineRetention
          Threshold,   \* workerScrapeFailureBackoffThreshold
          Backoff      \* workerScrapeFailureBackoff

ASSUME WorkerRegistryAssumption ==
  /\ None \notin Workers
  /\ IsFiniteSet(Requests)
  /\ "*" \notin Models
  /\ {StaleAfter, Retention, Threshold, Backoff} \subseteq Nat
  /\ StaleAfter <= Retention
  /\ Threshold > 0

VARIABLES known,      \* the keys of r.workers
          age,        \* worker -> now - LastHeartbeat
          draining,   \* workers whose State is "draining"
          needs,      \* workers whose NeedsRestart is set
          failures,   \* worker -> ScrapeFailures
          backoff,    \* worker -> ScrapeBackoffUntil - now, 0 if past
          active,     \* r.active; a missing key counts 0
          manual,     \* the keys of r.manualDrains
          holder,     \* r.restartHolders; None for a missing key
          serving,    \* request -> worker it is assigned to, or None
          forgotten,  \* workers pruned while requests were in flight on them
          granted     \* worker -> scopes its last response allowed, or {}

records == <<age, failures, backoff>>
vars == <<known, age, draining, needs, failures, backoff, active, manual,
          holder, serving, forgotten, granted>>

Global == "*"
Scopes == Models \cup {Global}

InFlight(w) == {r \in Requests : serving[r] = w}

Init ==
  /\ known = {}
  /\ age = [w \in Workers |-> 0]
  /\ draining = {}
  /\ needs = {}
  /\ failures = [w \in Workers |-> 0]
  /\ backoff = [w \in Workers |-> 0]
  /\ active = [w \in Workers |-> 0]
  /\ manual = {}
  /\ holder = [s \in Scopes |-> None]
  /\ serving = [r \in Requests |-> None]
  /\ forgotten = {}
  /\ granted = [w \in Workers |-> {}]
-----------------------------------------------------------------------------
(* Restart scopes.                                                         *)

\* restartScopes: a request that names no model is about the whole worker.
RestartScopes(models) == IF models = {} THEN {Global} ELSE models

\* releaseExpiredRestartHolderLocked
WithoutExpired(h) ==
  [s \in Scopes |->
    IF h[s] # None /\ (h[s] \notin known \/ age[h[s]] > Retention) THEN None ELSE h[s]]

\* Faulty variant: nothing is released.
WithoutHoldersNone(h, W) == h

\* releaseRestartHolderForWorkerLocked, for a set of workers
WithoutHolders(h, W) == [s \in Scopes |-> IF h[s] \in W THEN None ELSE h[s]]

\* Faulty variant: only the scopes asked for are looked at.
BlockedByOtherScopes(h, w, scopes) == \E s \in scopes : h[s] \notin {None, w}

\* restartBlockedByOtherLocked
BlockedByOther(h, w, scopes) ==
  LET Other(s) == h[s] \notin {None, w} IN
  \/ Other(Global)
  \/ scopes = {Global} /\ \E s \in Scopes : Other(s)
  \/ \E s \in scopes : Other(s)

Claimed(h, w, scopes) ==
  [s \in Scopes |-> IF s \in scopes /\ h[s] = None THEN w ELSE h[s]]

\* Faulty variants of UpsertHeartbeat: the count of requests is replaced with
\* the record; a manual drain does not survive the record.
HeartbeatResetsActive(w, needsRestart, models) ==
  LET expired == WithoutExpired(holder)
      current == IF needsRestart THEN expired ELSE WithoutHolders(expired, {w})
      scopes == RestartScopes(models)
      mayClaim == needsRestart /\ ~BlockedByOther(current, w, scopes)
  IN
  /\ known' = known \cup {w}
  /\ age' = [age EXCEPT ![w] = 0]
  /\ needs' = IF needsRestart THEN needs \cup {w} ELSE needs \ {w}
  /\ holder' = IF mayClaim THEN Claimed(current, w, scopes) ELSE current
  /\ draining' = IF mayClaim \/ w \in manual THEN draining \cup {w} ELSE draining \ {w}
  /\ granted' = [granted EXCEPT ![w] = IF mayClaim /\ active[w] = 0 THEN scopes ELSE {}]
  /\ active' = [active EXCEPT ![w] = 0]
  /\ UNCHANGED <<failures, backoff, manual, serving, forgotten>>

HeartbeatForgetsDrain(w, needsRestart, models) ==
  LET expired == WithoutExpired(holder)
      current == IF needsRestart THEN expired ELSE WithoutHolders(expired, {w})
      scopes == RestartScopes(models)
      mayClaim == needsRestart /\ ~BlockedByOther(current, w, scopes)
  IN
  /\ known' = known \cup {w}
  /\ age' = [age EXCEPT ![w] = 0]
  /\ needs' = IF needsRestart THEN needs \cup {w} ELSE needs \ {w}
  /\ holder' = IF mayClaim THEN Claimed(current, w, scopes) ELSE current
  /\ draining' = IF mayClaim THEN draining \cup {w} ELSE draining \ {w}
  /\ granted' = [granted EXCEPT ![w] = IF mayClaim /\ active[w] = 0 THEN scopes ELSE {}]
  /\ UNCHANGED <<failures, backoff, active, manual, serving, forgotten>>

\* UpsertHeartbeat.  The record is replaced; only the failure count and the
\* backoff survive from the previous one.
Heartbeat(w, needsRestart, models) ==
  LET expired == WithoutExpired(holder)
      current == IF needsRestart THEN expired ELSE WithoutHolders(expired, {w})
      scopes == RestartScopes(models)
      mayClaim == needsRestart /\ ~BlockedByOther(current, w, scopes)
  IN
  /\ known' = known \cup {w}
  /\ age' = [age EXCEPT ![w] = 0]
  /\ needs' = IF needsRestart THEN needs \cup {w} ELSE needs \ {w}
  /\ holder' = IF mayClaim THEN Claimed(current, w, scopes) ELSE current
  /\ draining' = IF mayClaim \/ w \in manual THEN draining \cup {w} ELSE draining \ {w}
  /\ granted' = [granted EXCEPT ![w] = IF mayClaim /\ active[w] = 0 THEN scopes ELSE {}]
  /\ UNCHANGED <<failures, backoff, active, manual, serving, forgotten>>
-----------------------------------------------------------------------------
(* The admin's operations.                                                 *)

Drain(w) ==
  /\ w \in known
  /\ manual' = manual \cup {w}
  /\ draining' = draining \cup {w}
  /\ UNCHANGED <<known, records, needs, active, holder, serving, forgotten, granted>>

\* Faulty variant: a worker that waits for its restart is reopened.
UndrainAlways(w) ==
  /\ w \in known
  /\ manual' = manual \ {w}
  /\ draining' = draining \ {w}
  /\ UNCHANGED <<known, records, needs, active, holder, serving, forgotten, granted>>

Undrain(w) ==
  /\ w \in known
  /\ manual' = manual \ {w}
  /\ draining' = IF w \in needs THEN draining ELSE draining \ {w}
  /\ UNCHANGED <<known, records, needs, active, holder, serving, forgotten, granted>>

(* Snapshot and the pruning it begins with.                                *)

Offline == {w \in known : age[w] > Retention}

Snapshot ==
  LET Keep(f, zero) == [w \in Workers |-> IF w \in Offline THEN zero ELSE f[w]] IN
  /\ Offline # {}
  /\ known' = known \ Offline
  /\ age' = Keep(age, 0)
  /\ draining' = draining \ Offline
  /\ needs' = needs \ Offline
  /\ failures' = Keep(failures, 0)
  /\ backoff' = Keep(backoff, 0)
  /\ active' = Keep(active, 0)
  /\ manual' = manual \ Offline
  /\ holder' = WithoutHolders(holder, Offline)
  /\ forgotten' = forgotten \cup {w \in Offline : InFlight(w) # {}}
  /\ granted' = Keep(granted, {})
  /\ UNCHANGED serving

(* Requests.                                                               *)

Acquire(r, w) ==
  /\ serving[r] = None
  /\ w \in known
  /\ age[w] < StaleAfter
  /\ backoff[w] = 0
  /\ w \notin draining
  /\ active' = [active EXCEPT ![w] = @ + 1]
  /\ serving' = [serving EXCEPT ![r] = w]
  /\ UNCHANGED <<known, records, draining, needs, manual, holder, forgotten, granted>>

\* The release closure, once per assignment.  It knows the worker's id and
\* not the record it counted in.
Release(r) ==
  LET w == serving[r] IN
  /\ w # None
  /\ active' = [active EXCEPT ![w] = IF @ <= 1 THEN 0 ELSE @ - 1]
  /\ serving' = [serving EXCEPT ![r] = None]
  /\ forgotten' = IF InFlight(w) = {r} THEN forgotten \ {w} ELSE forgotten
  /\ UNCHANGED <<known, records, draining, needs, manual, holder, granted>>

(* Probes of the metrics scraper and of the reverse proxy.                 *)

RecordScrapeSuccess(w) ==
  /\ w \in known
  /\ failures' = [failures EXCEPT ![w] = 0]
  /\ backoff' = [backoff EXCEPT ![w] = 0]
  /\ UNCHANGED <<known, age, draining, needs, active, manual, holder, serving, forgotten, granted>>

\* RecordScrapeFailure and RecordReverseFailure change the record alike.
RecordFailure(w) ==
  /\ w \in known
  /\ failures' = [failures EXCEPT ![w] = IF @ < Threshold THEN @ + 1 ELSE @]
  /\ backoff' = [backoff EXCEPT ![w] = IF failures'[w] >= Threshold THEN Backoff ELSE @]
  /\ UNCHANGED <<known, age, draining, needs, active, manual, holder, serving, forgotten, granted>>

Tick ==
  /\ known # {}
  /\ age' = [w \in Workers |-> IF w \in known /\ age[w] <= Retention THEN age[w] + 1 ELSE age[w]]
  /\ backoff' = [w \in Workers |-> IF backoff[w] > 0 THEN backoff[w] - 1 ELSE 0]
  /\ UNCHANGED <<known, draining, needs, failures, active, manual, holder, serving, forgotten, granted>>

Next ==
  \/ \E w \in Workers :
       \/ \E needsRestart \in BOOLEAN, models \in SUBSET Models : Heartbeat(w, needsRestart, models)
       \/ Drain(w)
       \/ Undrain(w)
       \/ RecordScrapeSuccess(w)
       \/ RecordFailure(w)
       \/ \E r \in Requests : Acquire(r, w)
  \/ \E r \in Requests : Release(r)
  \/ Snapshot
  \/ Tick

Spec == Init /\ [][Next]_vars
-----------------------------------------------------------------------------
(* Properties.                                                             *)

TypeOK ==
  /\ known \in SUBSET Workers
  /\ age \in [Workers -> 0..(Retention + 1)]
  /\ draining \in SUBSET known
  /\ needs \in SUBSET known
  /\ failures \in [Workers -> 0..Threshold]
  /\ backoff \in [Workers -> 0..Backoff]
  /\ active \in [Workers -> Nat]
  /\ manual \in SUBSET known
  /\ holder \in [Scopes -> Workers \cup {None}]
  /\ serving \in [Requests -> Workers \cup {None}]
  /\ forgotten \in SUBSET Workers
  /\ granted \in [Workers -> SUBSET Scopes]

\* The count that gates restarts, placement and scheduling is the number of
\* requests in flight on the worker, except for a worker that was pruned
\* while it served (pruneOfflineLocked drops the count, the requests go on).
ActiveCountsInFlight ==
  \A w \in Workers \ forgotten : active[w] = Cardinality(InFlight(w))

\* Whatever was pruned, a worker is never believed busier than it is, so a
\* drain or a restart is never held up by requests that ended long ago.
NeverOverCounted ==
  \A w \in Workers : active[w] <= Cardinality(InFlight(w))

\* An agent that was told it may restart serves nothing, and nothing is
\* assigned to it until it reports again, whatever the admin does meanwhile
\* (Undrain must not reopen it).
RestartIsQuiet ==
  \A w \in Workers \ forgotten : granted[w] # {} => InFlight(w) = {}

\* Two workers are never allowed to restart at the same time for the same
\* model, and one that restarts as a whole is the only one; unless the gateway
\* has not heard of one of them for the retention time.
RestartsDisjoint ==
  \A v, w \in Workers :
    /\ v # w
    /\ granted[v] # {} /\ granted[w] # {}
    /\ age[v] <= Retention /\ age[w] <= Retention
    => /\ granted[v] \cap granted[w] = {}
       /\ Global \notin granted[v] \cup granted[w]

\* A restart scope is held by a worker that is registered and whose last
\* report asked for a restart: no scope outlives its reason, whatever way the
\* worker went (restart done, pruned, silent).
ScopesNotLeaked ==
  \A s \in Scopes : holder[s] # None => holder[s] \in needs

\* The global scope excludes every other holder.
GlobalExcludes ==
  holder[Global] # None =>
    \A s \in Scopes : holder[s] \in {None, holder[Global]}

\* What was granted is still held, as long as the worker is heard of.
GrantsAreHeld ==
  \A w \in Workers :
    granted[w] # {} /\ age[w] <= Retention => \A s \in granted[w] : holder[s] = w

\* A worker with a manual drain, or allowed to restart, is draining, and one
\* allowed to restart said that it needs to.
QuiescedDrains ==
  \A w \in Workers :
    /\ w \in manual => w \in draining
    /\ granted[w] # {} => w \in draining /\ w \in needs

\* The inductive invariant behind these.
InductiveInv ==
  /\ TypeOK
  /\ ActiveCountsInFlight
  /\ NeverOverCounted
  /\ RestartIsQuiet
  /\ ScopesNotLeaked
  /\ GlobalExcludes
  /\ GrantsAreHeld
  /\ QuiescedDrains

\* A manual drain holds against every heartbeat: from the admin's Drain to
\* Undrain (or pruning) no request is assigned to the worker.
DrainHolds ==
  [][\A w \in manual : \A r \in Requests : serving'[r] = w => serving[r] = w]_vars

\* What docs/superpowers/specs/2026-06-21-llm-swap-cluster-gateway-design.md:90
\* says without exception: "the agent must not restart it while
\* gateway-assigned requests are active on that worker".
NoRestartWhileServing ==
  \A w \in Workers : granted[w] # {} => InFlight(w) = {}
=============================================================================
