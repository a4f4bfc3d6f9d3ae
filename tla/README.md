# A TLA+ development of llm-swap

llm-swap is a gateway that spreads OpenAI-style requests over GPU workers. On
each worker an *agent* renders the configuration of a local *llama-swap*, which
starts and stops the model servers, and a reverse tunnel (frp) may connect the
worker to the gateway. The modules here model the parts of that system whose
correctness depends on the order of concurrent steps, on faults and on what two
processes believe of each other.

## 1. The system

| Component | State it keeps | Operations | Interacts with |
|---|---|---|---|
| Queue limiter (`gateway/limits.go`) | per key a counter and a FIFO of waiters with a channel each | acquire, wait, cancel, release | proxy dispatch |
| Worker registry (`gateway/workers.go`) | worker records, requests in flight, manual drains, restart scopes | heartbeat, drain, undrain, snapshot with pruning, acquire, release, scrape results | every handler of the gateway |
| Agent reconcile cycle (`agent/reconcile.go`) | wanted restart in memory, marker file, `llama-swap.yaml` | fetch, install, write or defer, heartbeat, restart, verify, clear | registry by heartbeats, llama-swap by files and HTTP |
| Event buffer (`agent/reconcile.go`) | a bounded list of events | record, copy into a heartbeat, drop what was reported | installers, reconcile cycle |
| Transport leases (`gateway/transport_lease*.go`) | leases in memory and in a file | acquire, renew, release, restart | heartbeat and lease handlers |
| Agent transport manager (`agent/transport_manager.go`) | active tunnel, replacement, pending invalidations | a run loop | lease handlers, frp, reconcile cycle |
| Managed transport preparation (`PrepareManagedTransport`) | the token in `llama-swap.yaml` | write, probe, ask for a restart, probe again | `cycleMu`, registry, llama-swap |
| Artifact installation (`agent/artifacts.go`) | fence, marker and directory per model, lock files | publish fence, download, stage, commit | other agents on one model root |
| Configuration (`gateway/config_manager.go`, `config_revision_store.go`, `service_name_promotion.go`) | active configuration, file, revision, archives | apply, promote, roll back, restart | all of the gateway |
| Proxy dispatch (`gateway/proxy.go`) | per request: slots held, replicas tried, deadline | queue, pick, dispatch, retry, answer | limiter, registry, accounting, cooldowns |
| Placement and loaded reconciler (`gateway/placement.go`, `reconcile.go`) | calls under way | trim, plan, load, unload | registry, llama-swap, proxy |
| Records and billing (`gateway/records_store.go`, `billing.go`) | tables of ready intervals and of requests, the request log | events, snapshots, backfill, settlement, import, views | heartbeats, proxy, `cmd/import-records` |
| Exchange rate (`gateway/exchange_rate.go`) | the cached rate | ask, refresh | billing, scrapes |
| Metrics (`gateway/metrics.go`, `metrics_scrape.go`) | gauges, keys of requests already counted | scrape, pull, count | registry, llama-swap |
| Not modelled (section 6): admin UI, authentication, rendering, configuration parsing, cryptography, commands other than `import-records` | | | |

What is hard about them, and what makes them correct:

* *Queue limiter.* A release hands its slot directly to a waiter whose timeout
  may fire at that moment; limits are arguments and change with each reload.
  No slot is lost or counted twice, the cap is kept, nobody is stranded.
* *Worker registry.* Each heartbeat replaces the record; pruning forgets a
  worker that still serves. The count that gates a restart is the number of
  requests in flight; restarts exclude each other; drains hold.
* *Reconcile cycle and preparation.* Two goroutines rewrite one watched file and
  both ask for restarts; crashes, lost responses and failing steps interrupt them.
  A restart that is owed survives and happens, and with permission cuts nothing; an open tunnel
  leads to a llama-swap that asks for the token.
* *Leases and tunnels.* Lost responses, expiry, releases that arrive late, crashes
  and moving port ranges. One port never serves two tunnels, the file always loads,
  a live route does not outlive its lease by expiry, a conflict reaches the manager.
* *Events.* What is reported is dropped by count while others append. What is lost
  is never more than what was pushed out.
* *Artifacts.* Several processes install different revisions into one directory.
  Only the newest revision's artifact comes in, and what is told ready is there.
* *Configuration.* File, archive, revision and memory are written one after the
  other. A revision names one configuration, nobody is served an older one after
  a newer one, a promotion can be taken back.
* *Dispatch.* A request takes slots at three gates, each of which may make it wait
  while its replica goes away. Every path gives back what it took, and no replica
  that is known to be bad gets the request.
* *Placement.* Decisions are taken on reports and executed later. Floors and
  ceilings hold, a worker gets one call, what is loaded is not unloaded under use.
* *Books.* Intervals are written from three sides and requests from two. No second
  is billed twice, what was settled stays, every view adds up to the same total.

## 2. The modules

| Module | Models | Notes |
|---|---|---|
| `SlotPool` | abstract: what one concurrency gate promises | slots change hands in one step |
| `QueueLimiter` | `gateway/limits.go` | refines `SlotPool` |
| `WorkerRegistry` | `gateway/workers.go` | one action per method |
| `RestartCoordination` | `agent/reconcile.go` against the registry | extends `WorkerRegistry` |
| `TransportPreparation` | `PrepareManagedTransport` beside the cycle | extends `RestartCoordination` |
| `TransportLease` | `gateway/transport_lease.go`, its store, and the two handlers that use it | memory, file and agents' knowledge |
| `AgentTransport` | `agent/transport_manager.go`, `frp_official.go`, the heartbeat handler of `server.go` | extends `TransportLease` |
| `EventBuffer` | the event buffer of `agent/reconcile.go` | |
| `ArtifactInstall` | `agent/artifacts.go` and the artifact part of the cycle | several processes, one directory |
| `RevisionCounter` | abstract: a counter that hands out no number twice | |
| `RevisionStore` | `gateway/config_revision_store.go` | refines `RevisionCounter` |
| `ConfigManager` | `config_manager.go`, `service_name_promotion.go` | allocates as `RevisionCounter` does, in one step |
| `ProxyDispatch` | `proxy.go` with cooldowns, accounting, the pick of `placement.go` | each gate refines `SlotPool` |
| `LoadedReconciler` | `reconcile.go`, `placement.go`, `pressure.go`, warm and unload of `admin_actions.go` | |
| `ReadyIntervals` | the interval table of `records_store.go`, backfill and shares of `billing.go` | |
| `BillingLedger` | request records, settlement and views of `billing.go`, `cmd/import-records` | |
| `GatewayMetrics` | the counting of requests in `metrics.go`, `metrics_scrape.go` | the gauges are left out |
| `MC*` | constants, bounds, initial scenarios and symmetry for TLC | |
| `AgentLocal` | `EventBuffer` and `ArtifactInstall` side by side | they share no state; checked in one run |
| `GatewayStores` | `RevisionStore`, `ConfigManager`, `ReadyIntervals`, `BillingLedger`, `GatewayMetrics` side by side | they share no state; checked in one run |
| `*Proofs` | theorems | extend their component |

Operators with the comment "Faulty variant" directly before a definition are that
definition with a plausible bug. No specification uses them; `PROJECT.json`
pairs each with the property that notices it.

### QueueLimiter

Every section of code under the limiter's mutex is an action. Between two of
them a goroutine is in a control state (`pc`): *waiting* in the `select`,
*cancelling* when it took the `ctx.Done` branch but has not entered
`cancelWaiter`, *late* when `cancelWaiter` did not find it and it blocks on its
channel. `ready` is the set of callers whose channel is closed and not yet
read. `ContextDone` does not look at `ready`: Go's `select` may take either
branch when both are possible. Waiters are named by their caller, since a
goroutine has one call at a time. The statistics returned with a slot are left out.

### WorkerRegistry

Every method is atomic (`r.mu`). Times are relative to now. The record's
descriptive fields (tags, URL, running models, GPUs) are left out, as nothing in
the registry decides on them except `Healthy`, which the proxy asks for a
candidate that `Acquire` then checks again. Three variables are not fields of
the registry but what its callers know: `serving` (which request was assigned
where and not released), `granted` (what the last response to each worker
allowed) and `forgotten` (workers pruned while they served).

### RestartCoordination

The agent's cycle is one goroutine under `cycleMu`, split at each call that
takes time: it asks llama-swap what runs, writes or defers the configuration,
sends the heartbeat, then writes, restarts, verifies and removes the marker. A behaviour starts with one of
`Budgets`, and `left` is what is left of it. A
configuration is a version per model. llama-swap is external: it loads models
when asked and, because `scripts/install-worker.sh` runs it with
`-watch-config`, drops them when its file changes. A configuration fetch that
fails ends the cycle before anything happens and is a stutter. `FetchFails`
stands for every reason that makes the agent neither write nor ask (no running
state, transport not ready, an artifact of a running model not ready),
`WriteFails` for a marker or file that cannot be written. Left out is
the very first start, when there is no `llama-swap.yaml`. `GatewayRestart` resets the registry; requests
proxied through it end with it.

### TransportLease

Methods of the manager are atomic (`m.mu`), and each saves before it changes
memory, by writing a temporary file and renaming it. A failed save is therefore
a stutter, and a crash right after the rename is a crash with the response lost.
`Restart` loads the file, validates and prunes; a start that fails leaves the gateway
without a lease manager. `handed` records what the responses that arrived told
the agents. A request that the code answers with conflict, capacity or invalid
is a stutter. `Reconfigure` swaps the configuration and with it the generation,
which the code computes from the configuration's hash.

### TransportPreparation

Extends `RestartCoordination` by the goroutine that connects the agent. Before a
tunnel is opened, `PrepareManagedTransport` takes `cycleMu`, writes the token
into `llama-swap.yaml`, probes whether llama-swap asks for it and, if not,
reports a restart of the whole worker itself, restarts, and probes again. The
cycle renders the same file with the token of the transport snapshot it took at
its start, or of no token. A request is scheduled (`chosen`) before it is
acquired, so that a restart may be allowed in between. The two goroutines exclude
each other while one holds `cycleMu`; time passes and llama-swap notices a
change of its file (`Watch`) at any moment or never. Leases and registration are
reduced to `Register` and `TunnelLost`. The gateway pins its tokens for the life of its process,
so the token changes only together with a restart of the gateway. The two writers
put `apiKeys` at different places: each finds the other's bytes changed (`layout`),
and llama-swap reloads.

### AgentTransport

Extends `TransportLease` by two goroutines per agent. `mgr[a].phase` is the
position in `Run`; `hb[a]` is the heartbeat. The handler's lookup, renewal and
upsert take different locks and are three actions. A release is a message that
may arrive at any later time or be lost, because the agent gives it two seconds
and forgets it. The FRP server is external: a port belongs to one client, a
registration of a client that is gone lasts for a while, any may be dropped.
`RouteOutlivedByLease` excepts releases by the agent itself; that a delayed release
frees a lease that is in use again is what the code does.

### EventBuffer

Three methods under `eventMu`, events numbered in the order of recording; the
gateway may receive a heartbeat whose answer is lost. `Answered` drops as many
events as were sent from the front of what the buffer is *then*, as
`dropReportedEvents(count)` does.

### ArtifactInstall

One model directory with its fence file, its marker and its lock. A cycle
publishes the fence (or the tombstone of a directory that no model wants), looks
at the marker, and starts or cancels the agent's job; the job fences again,
finds or downloads the source, stages, takes the lock and commits, where
`replaceDir` is three steps. A crash releases the flock and loses the job but
leaves the directory as it is. A directory that is moved away when the process
dies is lost, and the next cycle installs again. Bytes are their name.

### RevisionStore and ConfigManager

`RevisionStore` has the mutex of each process, the flock, the read and the rename
as separate steps of every call; any of them may fail or be the last of its
process. `ConfigManager` allocates in one step, which the refinement justifies, and
splits an operation at every write: the revision, the archive, the YAML file
(truncated first), memory. A configuration has one field of each kind that
the code treats differently: pinned with the process (`tokens`), read at start
(`store`), redacted (`secret`), and the names that promotions move. `origin` is a
history variable for the property of rollbacks. The configuration that is
served is that of memory; `served` records it under its revision.

### ProxyDispatch

`stage[r]` is the position in `handleProxy`. Gates have owners and a line, with
the atomic steps `QueueLimiter` is shown to implement. The closure that ends an
attempt releases five things one after the other; no reader takes two of those
locks, so it is one step. A request's deadline for queueing starts with the
request. A pick takes a least busy one of the candidates; retried is what the code
retries before it has written a byte (a worker that cannot be reached, 429, 502,
503, 504, a platform's 404 page). Cooldowns have a remaining time. What a handler
remembers of its attempts dies when it returns (`LocalsGo`). Request ids and the
headers by which an answer tells of its replica are left out.

Whoever lists the workers prunes those that were silent too long, with the count of
the requests that are still on them (`PruneOffline`): the handler's own pick does so
(`Pick`, `Exhausted`), and so do the capacity of the model, the dashboards and the
reconciler (`Snapshot`). Which of the silent workers have been silent for the retention
time is left open. A pruned worker may come back with a new record (`Register`), and the
release of an older request then lowers the new count (`Settle`), as the release
function knows the worker's id only. `forgotten` are the workers that were pruned under
requests which have not all ended; it is no variable of the code.

### LoadedReconciler

`runs` is what a worker's llama-swap has, `report` what the registry was told.
A cycle takes a snapshot, trims replicas beyond hard ceilings, plans, and
executes; the calls it makes are in `calls` until they are answered. `Plans` is
the set of plans `PlanControlActions` can return: where the code breaks ties by
the least id or by time, the model leaves the choice open. Access times have two
levels (`used`). `unloadColdModelsForUnderloadedHotModels` and
`pickColdVictimForModel` are not called by the gateway, and `ProtectedUntil` is never set:
all three are left out. `Begin` assumes that the reports of healthy workers are
fresh. Load and unload of the administrator are
calls like the reconciler's.

What a call does at the worker and its answer are separate steps (`Unloads`, `Unloaded`;
`LoadBegins`, `LoadEnds`). In any of these states a call may end with an error (`Fails`),
at a healthy worker too: it was refused before it was done, or was done and the answer was
lost. Only a good answer to an unload lowers `excess`. `lost` counts, for each model, the unloads of this cycle
that were done and taken for failed; it is a history variable. Of `RecordReachability` the
model has the effect on `healthy`: a good answer may end a backoff, errors may add up to
one. `Troubles` bounds the calls to healthy workers that fail, together with the
disturbances. A backoff, and a worker that goes on with a call after the
gateway saw its error (`by = "lost"`), count as disturbances: `BoundsHold` says nothing of them.

### ReadyIntervals

One worker, whose rows do not interact with another's. Each SQL statement is one
step; the snapshot of a heartbeat is one transaction. A heartbeat handles the
agent's events one after the other and may be cut off between any two of
them; the agent then sends them again. The gateway's own calls record events at
any time. A billing query first backfills from the recorded events. Time is
discrete: t stands for the tick from t to t + 1. `heard` is the
time of the last heartbeat that was recorded; the next comes at a later one.

### BillingLedger

`table` and `log` are sequences of records; an imported row carries its line in
`hash`, as `source_hash` does. Money is exact, in units of which `Fine` make a
micro-dollar, and rounded where NUMERIC(18,6) rounds; the float arithmetic of the code is taken to be exact. `Whole` is a common
multiple of the denominators that occur, so that shares are integers. A query
that persists reads the table, computes, and updates row by row in one
transaction. That two such transactions could wait for each other's rows is
not modelled. The row and the log line of a served request are written in one step.

### GatewayMetrics

Scrapes overlap: a scrape takes a snapshot of the registry, then handles the responses of the
workers in any order, and a response may be handled after a later one of
the same worker. `seen` and its order are the gateway's memory of keys, `counted` how often each
request was added to the counters.

## 3. The runs

| Run | Bounds | Shows |
|---|---|---|
| `limiter` | 2 keys, 3 callers; limits off, 1 with a queue of 2, 2 with a queue of 1 or 0 | Three callers on two keys while max_concurrency is reloaded between off, 1 and 2: a hand-off races with the timeout of the waiter it chose, the cap holds, nobody waits for nothing or for ever, no entry is left behind, and the limiter implements the pool in which slots change hands in one step. Checks `ConcurrencyCap`, `NobodyStranded`, `NoIdleEntries`, `EveryWaiterAnswered`, `ImplementsSlotPool`. |
| `registry` | 2 workers, 2 models, 2 requests; backoff after 2 failures; symmetry | Heartbeats, drains, pruning, scrape backoff and requests of two workers with two models in every order: the count that gates restarts is right, restarts that overlap exclude each other, nothing is assigned to a worker that may restart or is drained. Checks `ActiveCountsInFlight`, `RestartIsQuiet`, `RestartsDisjoint`, `DrainHolds`. |
| `restart` | 2 agents, 1 model, 1 request; one of three budgets: a change, a fault and 2 loads, or a change, 2 time steps and a load, or a change, 2 admin actions and a load | Two agents' reconcile cycles against the registry with a crash, a gateway restart, a lost response or a failing step, with silence long enough to be pruned, or with an administrator at work: no rewrite or restart that the gateway permitted cuts a request (workers pruned while serving excepted), every restart that is owed is remembered, and happens. Checks `RestartCutsNothing`, `RestartIsOwed`, `EveryRestartHappens`. |
| `preparation` | 2 workers, 1 model, 1 request, tokens 0 and 1; six initial scenarios, each with its own budget | PrepareManagedTransport and the reconcile cycle as two goroutines on two workers, with a fault, a new token, silence, a change or the administrator: an open tunnel leads to a llama-swap that asks for its token, the permitted restarts of neither goroutine cut a request (workers pruned while serving excepted), and every tunnel comes up. Checks `ListenerGuarded`, `RestartsCutNothing`, `EveryTunnelComesUp`. |
| `transport_leases` | 2 agents, 3 ids, 4 configurations with 2 ports and life times 1 and 2; symmetry | Acquires, renewals, releases, lost responses, expiries, gateway restarts and configuration changes of two agents over three lease ids: the file always loads, keeps what agents were told, and no port is given to two of them. Checks `StoreLoads`, `HandedIsDurable`, `PortsExclusive`, `NeverRevived`. |
| `agent_transport` | 1 agent, 2 ids, 3 configurations (two tokens, legacy mode), 1 fault | An agent with two leases while answers are lost, releases arrive late, tunnels drop, the token changes, managed transport is left and entered, and one client, agent or gateway fails: a route does not outlive its lease by expiry, conflicts reach the manager, and the tunnel arrives. Checks `InvalidationArrives`, `RouteOutlivedByLease`, `ReleasedAfterStop`, `TunnelArrives`. |
| `agent_local` | buffer of 3, heartbeats of 2, 7 events; 2 agents, 2 models and 2 artifacts, 2 revisions, 1 fault | Seven events through a buffer of three and heartbeats of two with lost heartbeats and answers; two agents that install two revisions below one model root with one crash or failing step anywhere. Checks `LossIsBounded`, `ReadyStaysInstalled`, `AgentsGetReady`. |
| `gateway_stores` | 3 goroutines in 2 processes; revisions to 5, 4 edits, 2 archives, 2 faults; 2 models on one worker, 3 ticks, a row of an old version, an agent whose clock is ahead; 1 old line, 1 request served, 2 imports, 2 queries, prices that change once; and, at one price, every table of up to 2 requests over 2 models, aliases and applications; 2 workers, 3 requests, 3 scrapes, 2 at a time | What the gateway writes down, each store by itself: revision allocation by two processes, applies, promotions and rollbacks of the configuration with two faults, the ready intervals of a worker, request records and their settlement, the billing views, and the requests that overlapping scrapes count. Checks `PromotionIsReversible`, `SharesAddUp`, `MoneyAddsUp`, `CountedOnce`, `Refinement`, `ServedInOrder`, `TransactionsKeepTheRest`, `LedgerKept`, `PersistSettles`. |
| `proxy_dispatch` | 2 requests, 2 replicas of two tags; 1 slot per replica, a queue of 1 for one of them and none for the other, 2 per tag with a queue of 1, the model limited by what its replicas can take, with a queue of 1; 2 attempts, cooldown of 1 step, 1 change of a replica beside any pruning and return, the client of one request may leave | Two concurrent requests with two attempts each on two replicas, one with a queue and one without, that fail, cool down, drain, go silent, are pruned and come back, or are full, behind three gates: every path gives back what it took, no replica known to be bad gets the request, and every request ends. The registry's counts are exact but for workers pruned under their requests. Checks `NothingLeaks`, `EachSendIsDue`, `EveryRequestEnds`. |
| `reconciler` | 3 workers, 2 models, floors of 1, a hard ceiling of 2 on the first model; one worker may not run the second model and another has an old artifact of it; 2 cycles, 1 failing call or disturbance, 1 request | Two cycles of the loaded reconciler on three workers while requests are routed and end, and once a call fails, done or not, or an administrator or a silent worker disturbs: what is planned together keeps floors and ceilings, and what is executed meant it as long as nobody disturbs, but for one replica more for each unload beyond a ceiling that was done and answered with an error. Checks `PlanIsSound`, `BoundsHold`. |
| `registry_restart_quiet` | 1 worker, 2 requests | Pruning a silent worker drops its count of requests in flight; when it reports again it may restart under them. Finds `NoRestartWhileServing` violated. |
| `restart_scope_deadlock` | 2 agents, 2 models, 2 requests, no faults | Two workers that each hold the scope of their model and then both ask for the whole worker block each other for ever. Finds `EveryRestartHappens` violated. |

The runs that *find* a property *violated* check one sentence of the repository
against the code; section 4 quotes what they found.

Components that share no state are checked side by side in one run (`AgentLocal`,
`GatewayStores`): a variable (`part`, `moving`) says which one moves in a behaviour, the others stay
where they began, so the states explored are the sum of the parts and not their
product. Each property of such a run speaks of one part, and is stated in its module.
`MCGatewayStores` looks at billing twice (`Looked`): at requests of one model that are imported and
settled while prices change, and at the views of requests of all kinds at one price.

Why the bounds are enough. A race in the limiter needs an owner, a waiter it
chooses and a newcomer: three callers. In the registry a scope
conflict needs two workers, and two models give every relation of two requests
(equal, overlapping, disjoint, whole worker); `StaleAfter = Retention = 1`
lets a worker be fresh, stale and pruned within two ticks. In `restart` and
`preparation` a budget allows one kind of trouble at a time beside a change; each
kind reaches every step of both agents' cycles, since nothing says when it comes.
Three lease ids are a current lease, a superseded one and a third that could take a
port too early; the four configurations overlap in one port, differ in life time,
and two differ in nothing but the generation. What the manager of one agent does
depends on others only through ports and ids that are taken: its own
registration that is dropped at the gateway and not yet at the FRP server, and
ids that have run out, are such. That ports are exclusive among agents is
checked, and proved, in `TransportLease`. A buffer of three with
heartbeats of two lets events be pushed out before, during and after a heartbeat;
seven events go twice around it. Installs conflict in pairs: two agents, two
revisions that differ in the model, the artifact, both, or by its removal. A revision
store needs two goroutines of a process and one of another. In `ConfigManager` five
revisions hold promote, apply, promote, roll back. Two requests
on two replicas give every order of failure, cooldown and success and two attempts
a retry; a request waits at the model's gate when one replica is left, and for a
replica with a queue while it holds the model's and the tag's slots, and one
without a queue turns it away. What the instance does not reach: a line or a
refusal at a tag's gate (the same actions as at a replica's, with less to give
back), two replicas that share a tag, and the late release that lowers the count of a younger
request on a replica that was pruned and came back (with one slot per replica the younger one waits
for the slot of the older; the run `registry` has this release, and `NoLeaks` covers it for all
constants). Three
workers are the least on which one unload for a ceiling and another for a floor meet.
An interval needs two models for shares, and two turns for load and unload.

Bounds, all named where they are declared: ages
saturate at `Retention + 1` and failures at `Threshold`, as the code compares
them with nothing larger; lease ids are bounded by `Ids`; `Budgets`
bounds configuration changes, faults, time steps, admin actions and model loads of
`RestartCoordination` and `TransportPreparation`; `Tokens`, `MaxFaults`, `MaxRev`,
`MaxArchives`, `MaxEvents`, `Impatient`, `Changes`, `Troubles`, `Cycles`, `Served`,
`Horizon`, `Turns`, `Calls`, `Faults`, `Queries`, `Imports`, `Fails`, `Requests` and `Rounds` count
what their modules say. All state spaces are explored completely.

Deadlock checking is off only in `gateway_stores`, whose parts count operations or time
down to an end: there the last state is the bound's, not the code's. In all
others a state without a successor would be an error.

`SYMMETRY` is used only in `registry` and `transport_leases`, which check no liveness.
The type invariants (`TypeOK` of a module, `CoordTypeOK`, `PrepTypeOK`, `AgentTypeOK`)
and the inductive invariants of section 5 are proved and not repeated in a run; add them
to the run of their module while you change it.

### Fairness

* Limiter: weak fairness of a caller's own next step once it can run (its channel
  is closed, it is about to lock the mutex) and of releases, which the proxy
  guarantees by `defer` and `releaseOnce` when the upstream request ends. Nothing
  makes a context expire or a caller arrive.
* Restart coordination: weak fairness of each agent's cycle, which a ticker
  drives (`Reconciler.Run`), and of the end of every request. Faults, model
  loads and unloads, and admin actions are never forced.
* Preparation: strong fairness of both goroutines of an agent, because each is
  disabled while the other holds `cycleMu` and Go hands a mutex over to a
  goroutine that has waited for a millisecond; requests end. That llama-swap notices a
  changed file is not relied upon.
* Agent transport: weak fairness of the steps of both loops, strong fairness of an
  acquisition that is granted (an agent that repeats its request is answered some
  time, although answers may be lost), weak fairness of time and of the FRP server
  forgetting clients that are gone. Nothing forces a release to arrive.
* Artifacts: strong fairness of cycles with the latest configuration and of an
  install's steps, as both poll for the directory lock that others hold now and then.
* Proxy: weak fairness of each handler together with the replica it reached, which is
  taken to answer or fail some time (an assumption about the worker: the code uses
  `http.DefaultClient` with the client's context and sets no deadline of its own),
  and nothing about time:
  `EveryRequestEnds` is checked without a queue timeout, for a client that may leave
  and one that never does.

## 4. What the runs found

Two runs expect a violation; each is an entry of `findings` with the
sentence of the repository it contradicts.

* `registry_restart_quiet`: pruning deletes the count of a worker that still
  serves (`workers.go:243`). A worker that was silent for the retention time and
  comes back with `needs_restart` is allowed to restart under its requests. What
  does hold, and is proved, is `RestartIsQuiet`: the same for every worker that
  was not pruned while serving.
* `restart_scope_deadlock`: two workers, each holding the scope of its own model,
  both come to ask for the whole worker (their models were unloaded before the
  restart, so the next heartbeat names none). Each is refused because of the
  other's scope, at every heartbeat, with nothing in flight. With one model,
  where scopes cannot be disjoint, every restart happens (`restart`).

Modelling met more places where the code does not do what a document or a help
text says. The modules model what the code does, and the properties leave these
cases out, as their comments say; no run is about them.

* `transport_lease.go:189`: an agent whose registration failed names its old lease in
  every later request; once the gateway does not store it any more, each is a
  conflict, and the agent stays without a tunnel.
* `service_name_promotion.go:316`: an archive of an earlier promotion passes the checks
  of a rollback and overwrites the definition an operator edited since.
  `service_name_promotion.go:320`: a promotion that empties a tag's list cannot be
  rolled back, since an empty list and a nil one are not deeply equal.
* `proxy.go:59`: the deadline for queueing runs while an attempt does, so a retry
  is refused as a queue timeout without having waited. `proxy.go:186`: a request sent
  before a replica failed ends well and lifts the cooldown of that failure.
* `gateway/reconcile.go:74`: an unload beyond a ceiling that is done and whose answer is an error or lost
  does not count, so the next replica is unloaded for the same excess: below the ceiling, and
  below the floor where the two are close. `BoundsHold` says that each such answer costs one
  replica and no more.
* `gateway/reconcile.go:91`, `gateway/reconcile.go:70`, `placement.go:475`: a floor is broken when a
  plan counts replicas the same cycle has unloaded for a ceiling; a request is routed
  to a replica between the count and the unload; the replica to unload is chosen
  on a worker that is silent.
* `records_store.go:321`, `billing.go:380`, `records_store.go:313`: a snapshot older than
  an interval it closes is rolled back as a whole; the backfill of a billing query
  applies an old event again; the first heartbeat after a silence makes the
  silence ready time.
* `records_store.go:101`: a request served with the records store enabled is inserted
  again by an import of the log.
* `exchange_rate.go:46`: a failing service is asked at every question, not every ten
  minutes (not modelled).
* `metrics_scrape.go:162`, `metrics.go:563`, `metrics.go:475`: requests of an idle worker
  are counted again after others pushed its keys out; the gauge of a state a
  model has left stays 1; so does that of a replica whose cooldown is over (the
  gauges are not modelled).

## 5. What is proved

TLAPS proves the following for every value of the constants that satisfies
the named assumptions: `QueueLimiterAssumption`, `WorkerRegistryAssumption`, `BudgetAssumption`,
`TokensAssumption`, `TransportLeaseAssumption`, `AgentTransportAssumption`, `ProxyAssumption`,
`ReconcilerAssumption` and `RevisionStoreAssumption`, which are `ASSUME`s of the modules that declare the constants;
`AgentLocalAssumption` and `GatewayStoresAssumption`, which assume what the modules they
instantiate need (`EventBufferAssumption`, `ConfigManagerAssumption`, `IntervalAssumption`,
`BillingAssumption`, `MetricsAssumption`); and `ArtifactInstallAssumption`, a part of
`AgentLocalAssumption` that is a hypothesis of the theorems about installs. All of them are
evaluated by the runs. Five theorems, `RoutesAreCovered`, `PromotionReversible`, `MoneyIsExact`,
`RequestsCountedOnce` and `GatesArePools`, have a further hypothesis, stated below.

Every safety property of a run that passes is stated by one of the theorems.

Every module has the same shape: an inductive invariant, a lemma that the initial states
satisfy it, one step per action that it is kept, and the properties as consequences.

* `QueueLimiterProofs`: `TypeCorrect`, `Invariance`, `SlotsAreCounted`, `CapHolds`,
  `WaitingIsSound`, `NoKeyLeft`, and `RefinesSlotPool`: `Spec => ImplementsSlotPool`. The counter
  alone is not inductive: one has to know that a closed channel belongs to a blocked
  caller (`ReadyProper`) and that a line holds blocked callers of its key, each once
  (`LineProper`), so that a hand-off exchanges one owner for another and a release
  that finds no line removes one.
  The cardinality steps are lemmas on `Owners`. The refinement rests on the same
  invariant: it maps each critical section to one step of `SlotPool` or to none, and
  a hand-off to a single step although the new owner runs later.
* `RestartProofs`, the registry: `TypeCorrect`, `Invariance`, `CountsAreExact`, `QuietRestart`,
  `ExclusiveRestarts`, `ScopesAreSound`, and the action property `DrainsHold`. `RestartIsQuiet` needs `QuiescedDrains`
  (a granted worker is draining and still needs its restart, so no request is
  assigned and `Undrain` does not reopen it); `RestartsDisjoint` follows from
  `GrantsAreHeld` and `GlobalExcludes`, since two workers cannot hold one scope.
* `RestartProofs`, the agents: `CoordInvariance`, `CoordTypeCorrect`, `RestartIsPermitted`
  (`RestartCutsNothing`) and `RestartStaysOwed` (`RestartIsOwed`) of the reconcile cycles;
  `PrepInvariance`, `PrepTypeCorrect`, `TunnelIsGuarded` (`ListenerGuarded`) and
  `BothRestartsArePermitted` (`RestartsCutNothing`) of the cycles beside the goroutines that
  prepare a tunnel. `RestartCutsNothing` and `RestartsCutNothing` are about what an agent does with
  permission, on workers that were not pruned while they served: a model that is loaded after
  the agent looked is reloaded by `-watch-config` without any, under whatever request it has.
  Both rest on the registry's invariant, which every step of an
  agent keeps because it is a step of the registry, its restart, or none. An agent that acts
  on a permission is `Permitted`: it has a grant that is in force, or the gateway does not
  know it and so cannot route to it. The one lemma that carries the argument is
  `PermissionLasts`: whatever the registry, other agents, time and the administrator do, a
  permission ends only by a heartbeat of its own agent. The cycle sends none while it acts;
  that the other goroutine sends none either is `Locked` (at most one of the two is past
  `cycleMu`). `ListenerGuarded` is not inductive alone: llama-swap may read the file at any
  moment, so the file itself has to hold the token from its preparation on (`FileHasToken`),
  and a cycle that may still write it must have taken that token at its start
  (`MayWrite`, `CycleHasToken`).
* `TransportProofs`, the leases: `TypeCorrect`, `Invariance`, `RestartLoads`,
  `HandedOutIsKept`, `NoPortTwice`, and the action property `NothingRevived`. The invariant says that memory is the file and
  that the file is acceptable *with its expired leases in it*; `PortsExclusive`
  follows because what agents hold is in the file and the file has no port twice.
* `TransportProofs`, the agents: `AgentInvariance`, `AgentTypeCorrect`, `RestartLoadsWithAgents`
  (`StoreLoads` again, now with handlers that renew a lease under a configuration that has been
  replaced since they read it), `ConflictsArrive` (`InvalidationArrives`),
  `ReleasesFollowStops` (`ReleasedAfterStop`), and `RoutesAreCovered`
  (`RouteOutlivedByLease`). What is needed beside the invariant of the leases: every id that a
  manager, a heartbeat, a route, a client or a release in flight names was drawn for that very
  agent (`Owned`), so nobody's step touches another's lease; and an invalidation that is
  recorded has its signal pending, about to be given, or being looked at (`PendingSeen`).
  `RoutesAreCovered` assumes `LifeCoversStale`: a lease
  lives at least twice the time a registration counts as fresh, less one tick. Renewal comes
  at half of a lease's life, so this is exactly what makes a heartbeat's
  lookup outlive its registration. The defaults (180 s in `config/load.go:225`, 6 s in
  `gateway/server.go:144`) satisfy it by far; `config/load.go:170` only asks for a positive life time, so a
  configuration below about 12 s lies outside the theorem.
* `ProxyDispatchProofs`: `Invariance`, `TypeCorrect`, `NoLeaks` (`NothingLeaks`) and the
  action property `SendsAreDue` (`EachSendIsDue`). A gate's bound is inductive only together
  with where everybody is: owners and lines are of requests at the stages that may own
  a slot or wait (`OwnersProper`, `LineProper`), a stage that needs a slot has it
  (`SlotsHeld`), and then the accounting's count of a replica is the number of requests on it, and so
  is the registry's unless the replica was pruned under them, when it is no more than that
  (`CountsProper`). That no count is ever too high needs that a release of a pruned
  record lowers a younger count and never raises one; the count is exact again when the last of those
  requests has ended, since the releases stop at 0. `AttemptsProper` says that the
  replica of an attempt is excluded for later picks but has not been sent the body, and that
  nothing has been answered.
  `GatesArePools` composes the dispatch with the limiter: seen from any one gate, a
  behaviour of the handlers is one of `SlotPool` (`Gate`), which `QueueLimiter` is proved to
  implement. Each return path gives several slots back in one step; at one gate this is one
  owner leaving or handing over. The theorem assumes that no handler ever presents a limit above n at that
  gate (`Presented`): the limits of tags and replicas are constants, that of the model follows what its
  ready replicas can take.
* `LoadedReconcilerProofs`: `TypeCorrect`, `ReconcilerInvariance`, and the action properties
  `PlanSound` (`PlanIsSound`) and `BoundsAreHeld` (`BoundsHold`). The plan is treated apart from the
  cycle: `PlansSound` says what holds of every set of actions that may be planned on a snapshot
  (`Sound`), in whatever order models of equal priority come and whichever of equal workers is
  taken. A batch needs that no two models take the same worker (the later one finds it
  among the earlier ones' in the order, which has all models: `OrderComplete`) and that a model takes no
  more than it wants; a single action needs that a victim's model is beyond its floor, and that its worker
  runs no other model. That the calls do what the plan meant is about time. `Quiet` says, for
  each part of the cycle, what a heartbeat or a request cannot have changed since the snapshot.
  While ceilings are worked off nothing runs that was not seen (`WithinView`: a request
  loads a model again only where it was reported), all replicas stand of the models still to be looked
  at, and a replica that is missing was the cycle's own unload of a model that is still at its
  ceiling, but for those whose unload was done and taken for failed (`lost`, in `Enough`). So when
  the plan counts a replica that is gone already, its model is `Overcounted`. While the
  plan is executed a worker that was empty stays empty until its call comes, one that makes
  room is the only one (`Open`, `Reserved`), and the workers that run, report or are promised
  a model (`Spread`) are no more than its ceiling and only get fewer.
* `AgentLocalProofs`, the buffer: `BufferInvariance`, `BufferTypeCorrect`, `LossBounded` (`LossIsBounded`). The buffer
  is the last numbers recorded, in order (`Numbered`), so everything is said by how many
  were dropped or pushed out before it; a heartbeat carries an interval that began at the
  front of the buffer it copied (`Carries`), so that a drop by count removes at
  most as many unreported events as were pushed out since (`Unreported`).
* `AgentLocalProofs`, the installs: `Invariance`, `TypeCorrect`, `ReadyStays` (`ReadyStaysInstalled`). Who is
  between the two renames holds the lock alone, has a fence that is still its own, and did not find the
  artifact in place (`LockProper`); nobody is ready beyond the fence (`ReadyFenced`). So
  while somebody renames nobody can be ready with the fence's configuration
  (`NobodyReady`), which is why a crash between the renames loses nothing that was promised.
* `GatewayStoresProofs`, the revision store: `TypeCorrect`, `ReadsAreFresh`, `RevisionsAreUnique`,
  `FileNeverBack` and `StoreImplementsCounter`: `Spec => Refinement`. Two facts make the
  invariant inductive: who is inside the flock has read the file as it is (`ReadIsFresh`), and
  what calls returned lies in the past of the file, strictly while a new number is on its
  way out (`ResultsPast`), so that the numbers returned differ (`ResultsDiffer`).
* `GatewayStoresProofs`, the configuration: `ManagerInvariant`, `PromotionReversible`
  (`PromotionIsReversible`), and the action properties `ServedOrder` (`ServedInOrder`) and
  `TransactionsKeep` (`TransactionsKeepTheRest`). A commit publishes a revision that was
  allocated long before it, so order needs that what is about to be published is newer than
  all that was served (`ServedPast`), also after a crash that forgot the operation. What the
  file holds depends on how far an operation came: it is the manager's copy, nothing whole,
  or the operation's (`FileIsKnown`). That a promotion can be taken back is carried from its
  first step by `PromotionProper` and, once the file is written, by `OriginProper`: the
  file agrees with the archive on every policy the promotion touched, and
  nothing else is written without ending the promotion (`ApplyProper`, `RollbackProper`).
  `PromotionReversible` assumes `OthersRemain`: no configuration lists the service name as
  a tag's only model. Without it the property is false, for the reason section 4 gives
  (`service_name_promotion.go:320`).
* `BillingProofs`, the ready intervals: the action property `LedgerKeeps` (`LedgerKept`) and `SharesExact`
  (`SharesAddUp`). The invariant `TypeOK` of `ReadyIntervals` fixes shapes; the rest is about operations.
  Opening, closing, refreshing and inserting what is missing each keep what is closed and
  add a row of a model only with none of it open; a snapshot is their composition
  (`SnapshotKeeps`). The shares are exact for *every* table of that type, however its rows overlap: the
  segments between consecutive ends part the ticks in which something was ready, a model is active in a
  segment exactly if it was ready in all of its ticks and else in none of them, and the number of
  active models divides the factorial that is the unit of a share, so nothing is lost in the division.
  A sum over segments is then the sum over their ticks (`TickByTick`).
* `BillingProofs`, the billed requests: the action property `Settlement` (`PersistSettles`) and `MoneyIsExact`
  (`MoneyAddsUp`). A query updates
  by id what it read earlier, so `LedgerInv` says that a row that was read is still in the
  table and is not less settled there (`ReadProper`), and that rows that are open have
  ids no other row has: they are the numbered lines of the old version (`TableProper`,
  `LogProper`), which is why an import between read and update cannot slip a second row under
  the id. `MoneyIsExact` takes the same sum over the table in two ways: by model and by alias for what was
  used, row by row for the cells, by model and by application for what was idle. That the cells of the bill
  add up to the rounded total is the method of the largest remainder: `Before` is a strict total order, so the
  places of the cells are the numbers from 0 on; what is left over is at most the number of cells with a
  remainder, and these come first; who gets one micro-dollar more has a place below what is left.
  Its hypothesis `WholeFits` is what the constant
  stands for: `Whole` is a multiple of the denominators that occur. In the run this holds of every table
  (an `ASSUME` of `MCGatewayStores`).
* `BillingProofs`, the counted requests: `RequestsCountedOnce` (`CountedOnce`), as long as no more requests
  were served than the gateway remembers keys. A key is known exactly if the request it names was
  counted (`KeysProper`), whichever answers are still in hand; each counted request has one key,
  so below the capacity no key is ever pushed out. The pass over an answer is followed
  row by row (`After`): what it adds are the requests of the rows so far that were not counted. Beyond the
  capacity the property is false, as section 4 says (`metrics_scrape.go:162`).

The provers cannot instantiate the library's induction theorems. Where an induction over numbers or finite
sets is needed, `BillingProofs` takes the set of those of which the claim holds and shows, from the
well-foundedness of the order, that it has them all (`Inductive`, `SubsetInduction`); the folds of the
community modules are then unfolded one element at a time (`SumIsFold`, `PullsInOrder`).

`TypeOK`, `InductiveInv`, `SlotAccounting`, `WaitersOnlyWhenFull`, `NeverOverCounted`, `ScopesNotLeaked`,
`GlobalExcludes`, `ReadIsFresh`, `NoRevisionTwice` and `NeverBack` are proved and not repeated in a run.

Only model-checked: every liveness property (`EveryWaiterAnswered`, `EveryRestartHappens`,
`EveryTunnelComesUp`, `TunnelArrives`, `AgentsGetReady`, `EveryRequestEnds`). They rest on fairness, hence on ENABLED,
which the prover does not handle.

Proving changed the models, each time where a model said less or something else than the code, or could not
be reasoned about.
A request that gives up leaves a line by its place (`GiveUp`), as the code's
`cancelWaiter` removes one element. Two `CASE` expressions of `AgentTransport` had guards that overlap, of
which TLA+ may take any; they are exclusive now, in the order of the code. What the
gateway received of the events is a set, as nothing depends on their order. What a backfill has yet to apply is a
set of event ids, taken in the order of the query (`Earlier`), and what the code adds up is a sum over a set and
not over a sequence. `BillingAssumption` says that names are ordered and `WholeFits` what `Whole` is for,
which was only a comment.

## 6. What is not modelled

* The admin UI (`ui.go`, `ui_assets.go`), traffic summaries, the queries of the metrics store and the
  handlers that only read: they render snapshots; what they change they change
  by operations that are modelled.
* Authentication, the install script, rendering of `llama-swap.yaml`, configuration
  parsing and defaults, key derivation, protocol types, GPU probes, rewriting of
  bodies: sequential conversions without shared state. Where their result matters it is
  an opaque value (a version, a token, a layout, a generation).
* The exchange rate (`exchange_rate.go`): one cached value under one lock; what it returns is a
  price that may change in `BillingLedger`.
* The gauges of `metrics.go` and its counters that are incremented at one place: they are
  only written; what Prometheus makes of them is outside the repository.
* Downloading, checksums and archives of artifacts: success or failure.
* SQL beyond the statements of intervals and request records, and the overlapping of
  two statements inside PostgreSQL: `INSERT ... WHERE NOT EXISTS` is taken to be atomic.
* Data races on independent fields (`applyRuntimeConfig`, gauges that are reset and
  set again while they are gathered): each reader sees the old or the new value, and no
  property depends on which.
* frp, llama-swap, PostgreSQL and the operating system's scheduler are external,
  with the behaviour the modules' headers state.

## 7. Plan

Done, in this order: `QueueLimiter` (every request passes it), `WorkerRegistry`,
`RestartCoordination`, `TransportLease`, `AgentTransport`, `EventBuffer`, `ArtifactInstall`,
`RevisionStore`, `ConfigManager`, `ProxyDispatch`, `LoadedReconciler`, `ReadyIntervals`,
`BillingLedger`, `GatewayMetrics`, `TransportPreparation`.

Theorems: `QueueLimiter`, `WorkerRegistry`, `TransportLease` and `RevisionStore` first, then
`RestartCoordination` and `TransportPreparation`, `ProxyDispatch`, `EventBuffer`, `ArtifactInstall`,
`AgentTransport`, then `ConfigManager`, the settlement of `BillingLedger`, `LoadedReconciler`, and last what
needs sums: the shares of `ReadyIntervals`, the money of `BillingLedger`, the counts of `GatewayMetrics`.

The last is that every gate of `ProxyDispatch` is the pool the limiter implements. What could come next is
smaller: that `ConfigManager` allocates revisions as `RevisionCounter` does, which its one
operator `Allocates` says almost by itself.
