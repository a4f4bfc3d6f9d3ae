--------------------------- MODULE ProxyDispatch ---------------------------
(***************************************************************************)
(* How the gateway serves requests for one model                           *)
(* (src/internal/gateway/proxy.go, with the parts it calls of              *)
(* replica_cooldown.go, accounting.go, model_capacity.go, scheduler.go and *)
(* placement.go).  A handler passes the model's gate, then, attempt by     *)
(* attempt, picks a ready replica it has not tried, passes the gates of    *)
(* the replica's tag and of the replica, is admitted by the registry and   *)
(* sends the request; a failure that may be retried starts over.           *)
(*                                                                         *)
(* Gates are atomic here: QueueLimiter shows limits.go to implement that.  *)
(* The closure that ends an attempt runs release functions of five locks   *)
(* one after the other; no reader takes two of those locks, so it is one   *)
(* step.  A handler is at one of the stages "new", "model" (asks for the   *)
(* model's gate), "pick", "tag", "worker", "acquire", "upstream" (no byte  *)
(* of the answer has come), "streaming" and "done".                        *)
(*                                                                         *)
(* Who lists the workers prunes those that were silent too long            *)
(* (workers.go, Snapshot), with the count of the requests that are still   *)
(* on them.  How long a worker has been silent is not a state here: any    *)
(* worker that is not open may have been silent for the retention time.    *)
(***************************************************************************)
EXTENDS Naturals, FiniteSets, Sequences, SequencesExt

CONSTANTS Requests,       \* requests, each handled once
          Workers,        \* agent ids
          Tags,           \* tags of the workers
          TagOf,          \* worker -> the tag that allows it the model
          WorkerSlots,    \* tag -> max_concurrency of the model on a replica, 0 for no limit
          WorkerQueue,    \* tag -> max_queue of the model on a replica
          TagSlots,       \* tag -> max_concurrency of the tag, 0 for no limit
          TagQueue,       \* tag -> max_queue of the tag
          ModelSlots,     \* the model's own max_concurrency, 0 for no limit
          ModelQueue,     \* the model's own max_queue
          Attempts,       \* gateway.proxy_attempts
          CooldownTTL,    \* defaultReplicaCooldownTTL
          QueueTimeout,   \* queue_timeout_ms, 0 for none
          Threshold,      \* workerScrapeFailureBackoffThreshold
          Impatient,      \* bound: requests whose client may leave
          Changes,        \* bound: how often replicas come, go or are drained
          None            \* no worker, no answer

ASSUME ProxyAssumption ==
  /\ TagOf \in [Workers -> Tags]
  /\ {WorkerSlots, WorkerQueue, TagSlots, TagQueue} \subseteq [Tags -> Nat]
  /\ {ModelSlots, ModelQueue, QueueTimeout, Changes} \subseteq Nat
  /\ {Attempts, CooldownTTL, Threshold} \subseteq Nat \ {0}
  /\ Impatient \subseteq Requests
  /\ None \notin Workers

VARIABLES stage,    \* request -> stage of its handler
          target,   \* request -> worker picked, or None
          exclude,  \* request -> workers picked so far
          sent,     \* request -> workers the body was sent to, in order
          failed,   \* requests with a lastDispatchFailure
          full,     \* requests with a lastQueueErr
          gone,     \* requests whose client has gone
          answer,   \* request -> what its client was told, or None
          owners,   \* gate -> requests that own a slot
          line,     \* gate -> requests that wait, first come first
          active,   \* worker -> the registry's count of requests
          forgotten, \* workers pruned while requests were on them
          books,    \* worker -> the accounting's count of requests
          records,  \* the accounting's records, by ownership key
          cool,     \* worker -> what is left of its cooldown, 0 for none
          known,    \* workers the registry has a record of
          open,     \* workers with a fresh heartbeat that are not draining
          backed,   \* workers in scrape backoff
          strikes,  \* worker -> ScrapeFailures, up to the last that does not back off
          ready,    \* workers that report the model ready
          elapsed,  \* request -> time since it came
          changes   \* how often a replica changed

handler == <<stage, target, exclude, sent, failed, full>>
gates == <<owners, line>>
accounts == <<active, forgotten, books, records>>
health == <<backed, strikes>>
fleet == <<known, open, ready, changes>>
vars == <<handler, gone, answer, gates, accounts, cool, health, fleet, elapsed>>

Model == <<"model">>
TagGate(w) == <<"tag", TagOf[w]>>
WorkerGate(w) == <<"worker", w>>
Gates == {Model} \cup {<<"tag", t>> : t \in Tags} \cup {<<"worker", w>> : w \in Workers}

Healthy == open \ backed

\* The requests whose attempt on the replica has begun and not ended.
OnReplica(w) == {r \in Requests : target[r] = w /\ stage[r] \in {"upstream", "streaming"}}

Init ==
  /\ stage = [r \in Requests |-> "new"]
  /\ target = [r \in Requests |-> None]
  /\ exclude = [r \in Requests |-> {}]
  /\ sent = [r \in Requests |-> <<>>]
  /\ failed = {}
  /\ full = {}
  /\ gone = {}
  /\ answer = [r \in Requests |-> None]
  /\ owners = [k \in Gates |-> {}]
  /\ line = [k \in Gates |-> <<>>]
  /\ active = [w \in Workers |-> 0]
  /\ forgotten = {}
  /\ books = [w \in Workers |-> 0]
  /\ records = {}
  /\ cool = [w \in Workers |-> 0]
  /\ known = Workers
  /\ open = Workers
  /\ backed = {}
  /\ strikes = [w \in Workers |-> 0]
  /\ ready = Workers
  /\ elapsed = [r \in Requests |-> 0]
  /\ changes = 0
-----------------------------------------------------------------------------
(* Gates.                                                                  *)

\* effectiveCapacity: the lower of two limits, where 0 is none.
EffectiveCapacity(derived, ceiling) ==
  IF derived = 0 THEN ceiling
  ELSE IF ceiling = 0 \/ derived < ceiling THEN derived ELSE ceiling

\* modelCapacity: what the healthy ready replicas can take together, each what
\* its tag allows.
Derived(capacity) == SumFunctionOnSet([w \in Workers |-> capacity[TagOf[w]]], Healthy \cap ready)
ModelLimit == EffectiveCapacity(Derived(WorkerSlots), ModelSlots)
ModelRoom == EffectiveCapacity(Derived(WorkerQueue), ModelQueue)

\* The gate a handler is at, its limit and the length its line may have.
GateOf(r) == CASE stage[r] = "model"  -> Model
               [] stage[r] = "tag"    -> TagGate(target[r])
               [] stage[r] = "worker" -> WorkerGate(target[r])

LimitOf(r) == CASE stage[r] = "model"  -> ModelLimit
                [] stage[r] = "tag"    -> TagSlots[TagOf[target[r]]]
                [] stage[r] = "worker" -> WorkerSlots[TagOf[target[r]]]

RoomOf(r) == CASE stage[r] = "model"  -> ModelRoom
               [] stage[r] = "tag"    -> TagQueue[TagOf[target[r]]]
               [] stage[r] = "worker" -> WorkerQueue[TagOf[target[r]]]

After == [model |-> "pick", tag |-> "worker", worker |-> "acquire"]

AtGate(r) == stage[r] \in DOMAIN After
InLine(r) == AtGate(r) /\ Contains(line[GateOf(r)], r)
Admitted(r) == AtGate(r) /\ r \in owners[GateOf(r)]

\* Slots that one caller gives back: the head of a line owns the slot at once.
OwnersWithout(r, K) ==
  [k \in Gates |->
    IF k \notin K \/ r \notin owners[k] THEN owners[k]
    ELSE (owners[k] \ {r}) \cup (IF line[k] = <<>> THEN {} ELSE {Head(line[k])})]

LineWithout(r, K) ==
  [k \in Gates |-> IF k \in K /\ r \in owners[k] /\ line[k] # <<>> THEN Tail(line[k]) ELSE line[k]]

GiveBack(r, K) ==
  /\ owners' = OwnersWithout(r, K)
  /\ line' = LineWithout(r, K)

\* The slots of an attempt.
AttemptGates(w) == IF w = None THEN {} ELSE {TagGate(w), WorkerGate(w)}

\* writeQueueError, WriteOpenAIError and WriteHeader begin the one answer.
Tell(r, a) == answer' = [answer EXCEPT ![r] = a]

\* What the handler remembers of its attempts dies with it.
LocalsGo(r) ==
  /\ exclude' = [exclude EXCEPT ![r] = {}]
  /\ sent' = [sent EXCEPT ![r] = <<>>]
  /\ failed' = failed \ {r}
  /\ full' = full \ {r}

\* Faulty variant: the model's slot is not given back.
ReturnKeepsModel(r, K) ==
  /\ stage' = [stage EXCEPT ![r] = "done"]
  /\ target' = [target EXCEPT ![r] = None]
  /\ GiveBack(r, K)
  /\ LocalsGo(r)

\* The handler returns: its deferred release gives the model's slot back.
Return(r, K) ==
  /\ stage' = [stage EXCEPT ![r] = "done"]
  /\ target' = [target EXCEPT ![r] = None]
  /\ GiveBack(r, K \cup {Model})
  /\ LocalsGo(r)
-----------------------------------------------------------------------------
(* The handler.                                                            *)

\* The body is read and the alias resolved; nothing is held yet.
Receive(r) ==
  /\ stage[r] = "new"
  /\ stage' = [stage EXCEPT ![r] = "model"]
  /\ UNCHANGED <<target, exclude, sent, failed, full, gone, answer, gates, accounts,
                 cool, health, fleet, elapsed>>

\* No body, no model or a model nobody serves: answered at once.
Decline(r) ==
  /\ stage[r] = "new"
  /\ Tell(r, "declined")
  /\ Return(r, {})
  /\ UNCHANGED <<gone, accounts, cool, health, fleet, elapsed>>

\* AcquireWithStats without a limit, or with a free slot.
Enter(r) ==
  /\ AtGate(r) /\ ~InLine(r) /\ ~Admitted(r)
  /\ LimitOf(r) = 0 \/ Cardinality(owners[GateOf(r)]) < LimitOf(r)
  /\ owners' = IF LimitOf(r) = 0 THEN owners ELSE [owners EXCEPT ![GateOf(r)] = @ \cup {r}]
  /\ stage' = [stage EXCEPT ![r] = After[@]]
  /\ UNCHANGED <<target, exclude, sent, failed, full, gone, answer, line, accounts,
                 cool, health, fleet, elapsed>>

\* No slot is free and the line has room.
Join(r) ==
  /\ AtGate(r) /\ ~InLine(r) /\ ~Admitted(r)
  /\ LimitOf(r) > 0 /\ Cardinality(owners[GateOf(r)]) >= LimitOf(r)
  /\ Len(line[GateOf(r)]) < RoomOf(r)
  /\ line' = [line EXCEPT ![GateOf(r)] = Append(@, r)]
  /\ UNCHANGED <<handler, gone, answer, owners, accounts, cool, health, fleet, elapsed>>

\* A slot was handed over while the caller was in line.
Wake(r) ==
  /\ Admitted(r)
  /\ stage' = [stage EXCEPT ![r] = After[@]]
  /\ UNCHANGED <<target, exclude, sent, failed, full, gone, answer, gates, accounts,
                 cool, health, fleet, elapsed>>

\* Faulty variant: the tag's slot is kept when the replica's line is full.
TurnedAwayKeepsTag(r) ==
  /\ AtGate(r) /\ ~InLine(r) /\ ~Admitted(r)
  /\ LimitOf(r) > 0 /\ Cardinality(owners[GateOf(r)]) >= LimitOf(r)
  /\ Len(line[GateOf(r)]) >= RoomOf(r)
  /\ IF stage[r] = "model"
       THEN /\ Return(r, {})
            /\ Tell(r, "queue_full")
       ELSE /\ stage' = [stage EXCEPT ![r] = "pick"]
            /\ target' = [target EXCEPT ![r] = None]
            /\ full' = full \cup {r}
            /\ UNCHANGED <<exclude, sent, failed, answer, gates>>
  /\ UNCHANGED <<gone, accounts, cool, health, fleet, elapsed>>

\* ErrQueueFull: final at the model's gate, another replica at the others.
TurnedAway(r) ==
  /\ AtGate(r) /\ ~InLine(r) /\ ~Admitted(r)
  /\ LimitOf(r) > 0 /\ Cardinality(owners[GateOf(r)]) >= LimitOf(r)
  /\ Len(line[GateOf(r)]) >= RoomOf(r)
  /\ IF stage[r] = "model"
       THEN /\ Return(r, {})
            /\ Tell(r, "queue_full")
       ELSE /\ stage' = [stage EXCEPT ![r] = "pick"]
            /\ target' = [target EXCEPT ![r] = None]
            /\ full' = full \cup {r}
            /\ GiveBack(r, AttemptGates(target[r]))
            /\ UNCHANGED <<exclude, sent, failed, answer>>
  /\ UNCHANGED <<gone, accounts, cool, health, fleet, elapsed>>

\* queueContext: one deadline for all lines of a request and all its attempts.
Overdue(r) == QueueTimeout > 0 /\ elapsed[r] = QueueTimeout

\* ErrQueueTimeout: the context ends while the request is in line.
GiveUp(r) ==
  /\ InLine(r)
  /\ Overdue(r) \/ r \in gone
  /\ owners' = OwnersWithout(r, {Model} \cup AttemptGates(target[r]))
  /\ \E i \in 1..Len(line[GateOf(r)]) :
       /\ line[GateOf(r)][i] = r
       /\ line' = [LineWithout(r, {Model} \cup AttemptGates(target[r]))
                     EXCEPT ![GateOf(r)] = RemoveAt(line[GateOf(r)], i)]
  /\ stage' = [stage EXCEPT ![r] = "done"]
  /\ target' = [target EXCEPT ![r] = None]
  /\ Tell(r, "queue_timeout")
  /\ LocalsGo(r)
  /\ UNCHANGED <<gone, accounts, cool, health, fleet, elapsed>>

\* PickReadyWorker: healthy, allowed, ready, not tried and not cooled down.
Candidates(r) == {w \in (Healthy \cap ready) \ exclude[r] : cool[w] = 0}

\* scoreScheduleCandidate ranks ready replicas by their requests in flight.
Best(C) == {w \in C : \A v \in C : active[w] <= active[v]}

\* Who may have been silent for workerOfflineRetention.
Silent == known \ open

\* pruneOfflineLocked: the records of the workers P go, and the counts of their
\* requests; the requests go on.
PruneOffline(P) ==
  /\ known' = known \ P
  /\ active' = [w \in Workers |-> IF w \in P THEN 0 ELSE active[w]]
  /\ strikes' = [w \in Workers |-> IF w \in P THEN 0 ELSE strikes[w]]
  /\ backed' = backed \ P
  /\ forgotten' = forgotten \cup {w \in P : OnReplica(w) # {}}
  /\ UNCHANGED <<books, records, open, ready, changes>>

MayTry(r) == stage[r] = "pick" /\ r \notin gone /\ Len(sent[r]) < Attempts

\* The pick lists the workers, which prunes; none of those is a candidate.
Pick(r) ==
  /\ MayTry(r)
  /\ \E w \in Best(Candidates(r)) :
       /\ target' = [target EXCEPT ![r] = w]
       /\ exclude' = [exclude EXCEPT ![r] = @ \cup {w}]
       /\ stage' = [stage EXCEPT ![r] = "tag"]
  /\ \E P \in SUBSET Silent : PruneOffline(P)
  /\ UNCHANGED <<sent, failed, full, gone, answer, gates, cool, elapsed>>

\* What a client is told when the loop ends without an answer.
FinalWord(r) == IF r \in failed THEN "dispatch_failed"
                ELSE IF r \in full THEN "queue_full"
                ELSE "no_healthy_worker"

\* The attempts are used up, or no replica is left to pick.
Exhausted(r) ==
  /\ stage[r] = "pick" /\ r \notin gone
  /\ \/ Len(sent[r]) = Attempts /\ PruneOffline({})
     \/ Candidates(r) = {} /\ \E P \in SUBSET Silent : PruneOffline(P)
  /\ Tell(r, FinalWord(r))
  /\ Return(r, {})
  /\ UNCHANGED <<gone, cool, elapsed>>

\* The client has gone: the handler returns without a word.
Abandon(r) ==
  /\ stage[r] = "pick" /\ r \in gone
  /\ Return(r, {})
  /\ UNCHANGED <<gone, answer, accounts, cool, health, fleet, elapsed>>

\* Faulty variant: the registry is not asked again after the waits.
AcquireUnchecked(r) ==
  LET w == target[r] IN
  /\ stage[r] = "acquire"
  /\ stage' = [stage EXCEPT ![r] = "upstream"]
  /\ sent' = [sent EXCEPT ![r] = Append(@, w)]
  /\ active' = [active EXCEPT ![w] = @ + 1]
  /\ books' = [books EXCEPT ![w] = @ + 1]
  /\ records' = records \cup {<<r, w>>}
  /\ UNCHANGED <<target, exclude, failed, full, gone, answer, gates, forgotten, cool, health,
                 fleet, elapsed>>

\* workers.Acquire admits the request and the accounting opens its record,
\* under a key of its own whatever id the client sent.
Acquire(r) ==
  LET w == target[r] IN
  /\ stage[r] = "acquire"
  /\ w \in Healthy
  /\ stage' = [stage EXCEPT ![r] = "upstream"]
  /\ sent' = [sent EXCEPT ![r] = Append(@, w)]
  /\ active' = [active EXCEPT ![w] = @ + 1]
  /\ books' = [books EXCEPT ![w] = @ + 1]
  /\ records' = records \cup {<<r, w>>}
  /\ UNCHANGED <<target, exclude, failed, full, gone, answer, gates, forgotten, cool, health,
                 fleet, elapsed>>

\* workers.Acquire refuses: not an attempt, another replica is picked.
Refused(r) ==
  /\ stage[r] = "acquire"
  /\ target[r] \notin Healthy
  /\ stage' = [stage EXCEPT ![r] = "pick"]
  /\ GiveBack(r, AttemptGates(target[r]))
  /\ target' = [target EXCEPT ![r] = None]
  /\ UNCHANGED <<exclude, sent, failed, full, gone, answer, accounts, cool, health, fleet, elapsed>>
-----------------------------------------------------------------------------
(* The attempt.                                                            *)

\* releaseOnce: the registry's count, the accounting and both gates.  The
\* registry's closure knows the worker's id and not the record it counted in,
\* so after a pruning it lowers the count of younger requests.  An accounting
\* record that is no longer there is not closed twice.
Settle(r) ==
  LET w == target[r] IN
  /\ active' = [active EXCEPT ![w] = IF @ <= 1 THEN 0 ELSE @ - 1]
  /\ forgotten' = IF OnReplica(w) = {r} THEN forgotten \ {w} ELSE forgotten
  /\ books' = [books EXCEPT ![w] = IF <<r, w>> \in records /\ @ > 0 THEN @ - 1 ELSE @]
  /\ records' = records \ {<<r, w>>}

\* Mark
Marked(w) == cool' = [cool EXCEPT ![w] = CooldownTTL]

\* Clear
Cleared(w) == cool' = [cool EXCEPT ![w] = 0]

Retry(r) ==
  /\ stage' = [stage EXCEPT ![r] = "pick"]
  /\ target' = [target EXCEPT ![r] = None]
  /\ failed' = failed \cup {r}
  /\ Settle(r)
  /\ GiveBack(r, AttemptGates(target[r]))
  /\ UNCHANGED <<exclude, sent, full>>

\* The worker cannot be reached.  Only a failure that makes the registry back
\* off cools the replica down; one of a pruned worker is not counted.
Unreachable(r) ==
  LET w == target[r]
      backsOff == strikes[w] + 1 >= Threshold
  IN
  /\ stage[r] = "upstream" /\ r \notin gone
  /\ IF w \in known
       THEN /\ strikes' = [strikes EXCEPT ![w] = IF backsOff THEN @ ELSE @ + 1]
            /\ backed' = IF backsOff THEN backed \cup {w} ELSE backed
            /\ IF backsOff /\ w \notin backed THEN Marked(w) ELSE UNCHANGED cool
       ELSE UNCHANGED <<health, cool>>
  /\ Retry(r)
  /\ UNCHANGED <<gone, answer, fleet, elapsed>>

\* The client goes while its request is sent: not the worker's failure.
Canceled(r) ==
  /\ stage[r] = "upstream" /\ r \in gone
  /\ Settle(r)
  /\ Return(r, AttemptGates(target[r]))
  /\ UNCHANGED <<gone, answer, cool, health, fleet, elapsed>>

\* Any response clears the registry's failures (RecordScrapeSuccess); a worker
\* that was pruned has none.
Reached(w) ==
  /\ strikes' = [strikes EXCEPT ![w] = 0]
  /\ backed' = backed \ {w}

\* 429, 502, 503, 504 or a platform's 404 page.
Rejected(r) ==
  /\ stage[r] = "upstream"
  /\ Reached(target[r])
  /\ Marked(target[r])
  /\ Retry(r)
  /\ UNCHANGED <<gone, answer, fleet, elapsed>>

\* The body of a 404 cannot be read: nothing was written yet.
Unreadable(r) ==
  /\ stage[r] = "upstream"
  /\ Reached(target[r])
  /\ Settle(r)
  /\ Return(r, AttemptGates(target[r]))
  /\ IF r \in gone THEN UNCHANGED answer ELSE Tell(r, "upstream_error")
  /\ UNCHANGED <<gone, cool, fleet, elapsed>>

\* Any other status is the client's answer, whatever becomes of the body.
Respond(r, code) ==
  /\ stage[r] = "upstream"
  /\ Reached(target[r])
  /\ stage' = [stage EXCEPT ![r] = "streaming"]
  /\ Tell(r, code)
  /\ UNCHANGED <<target, exclude, sent, failed, full, gone, gates, accounts, cool, fleet, elapsed>>

\* The copy of the body ends, well or not; a status below 500 ends the
\* replica's cooldown.
Finish(r) ==
  /\ stage[r] = "streaming"
  /\ Settle(r)
  /\ Return(r, AttemptGates(target[r]))
  /\ IF answer[r] = "ok" THEN Cleared(target[r]) ELSE UNCHANGED cool
  /\ UNCHANGED <<gone, answer, health, fleet, elapsed>>
-----------------------------------------------------------------------------
(* The surroundings: clients, heartbeats, the administrator and time.      *)

Leave(r) ==
  /\ stage[r] \notin {"new", "done"}
  /\ r \in Impatient \ gone
  /\ gone' = gone \cup {r}
  /\ UNCHANGED <<handler, answer, gates, accounts, cool, health, fleet, elapsed>>

\* A heartbeat, its absence, a drain or an undrain; a model that becomes
\* ready or is unloaded.
Change(w) ==
  /\ w \in known /\ changes < Changes
  /\ changes' = changes + 1
  /\ \/ open' = (open \ {w}) \cup ({w} \ open) /\ UNCHANGED ready
     \/ ready' = (ready \ {w}) \cup ({w} \ ready) /\ UNCHANGED open
  /\ UNCHANGED <<known, handler, gone, answer, gates, accounts, cool, health, elapsed>>

\* Others list the workers, too: modelCapacity and replicaStats before a
\* handler's gate, the dashboard, the reconcile cycle.  Each takes the
\* registry's lock for it alone, so a step of its own prunes for them.
Snapshot(P) ==
  /\ P # {} /\ P \subseteq Silent
  /\ PruneOffline(P)
  /\ UNCHANGED <<handler, gone, answer, gates, cool, elapsed>>

\* A pruned worker reports again and gets a new record, which no manual drain
\* outlives; it is draining if a restart is due.  What it runs is what it ran.
Register(w) ==
  /\ w \in Workers \ known
  /\ known' = known \cup {w}
  /\ open' \in {open, open \cup {w}}
  /\ UNCHANGED <<handler, gone, answer, gates, accounts, cool, health, ready, changes, elapsed>>

BackoffEnds(w) ==
  /\ w \in backed
  /\ backed' = backed \ {w}
  /\ UNCHANGED <<handler, gone, answer, gates, accounts, cool, strikes, fleet, elapsed>>

\* handleUICooldownClear
ClearCooldown(w) ==
  /\ cool[w] > 0
  /\ Cleared(w)
  /\ UNCHANGED <<handler, gone, answer, gates, accounts, health, fleet, elapsed>>

Live(r) == stage[r] \notin {"new", "done"}

\* A clock tick.  Time passes for a request while it is in a line or waits for
\* a replica, the handler's own steps take none; its clock stops at the queue
\* timeout.
Tick ==
  /\ elapsed' = [r \in Requests |->
                   IF (InLine(r) \/ stage[r] = "upstream") /\ elapsed[r] < QueueTimeout
                   THEN elapsed[r] + 1 ELSE elapsed[r]]
  /\ cool' = [w \in Workers |-> IF cool[w] > 0 THEN cool[w] - 1 ELSE 0]
  /\ UNCHANGED <<handler, gone, answer, gates, accounts, health, fleet>>

Handle(r) ==
  \/ Receive(r) \/ Decline(r) \/ Enter(r) \/ Join(r) \/ Wake(r) \/ TurnedAway(r) \/ GiveUp(r)
  \/ Pick(r) \/ Exhausted(r) \/ Abandon(r) \/ Acquire(r) \/ Refused(r)

Attempt(r) ==
  \/ Unreachable(r) \/ Canceled(r) \/ Rejected(r) \/ Unreadable(r)
  \/ Respond(r, "ok") \/ Respond(r, "server_error") \/ Finish(r)

Next ==
  \/ \E r \in Requests : Handle(r) \/ Attempt(r) \/ Leave(r)
  \/ \E w \in Workers : Change(w) \/ Register(w) \/ BackoffEnds(w) \/ ClearCooldown(w)
  \/ \E P \in SUBSET Workers : Snapshot(P)
  \/ Tick

Spec == Init /\ [][Next]_vars

\* Go runs every handler that can go on; an upstream that was reached answers,
\* fails or is given up by the client.  Nothing has to wait for time to pass.
FairSpec ==
  /\ Spec
  /\ \A r \in Requests : WF_vars(Handle(r) \/ Attempt(r))
-----------------------------------------------------------------------------
(* Properties.                                                             *)

\* The stages in which a handler may own a slot of a gate.
MayOwn(r, k) ==
  \/ k = Model /\ Live(r)
  \/ k # Model /\ target[r] # None
     /\ \/ k = TagGate(target[r]) /\ stage[r] \in {"tag", "worker", "acquire", "upstream", "streaming"}
        \/ k = WorkerGate(target[r]) /\ stage[r] \in {"worker", "acquire", "upstream", "streaming"}

\* No early return, retry or refusal on the way leaks anything: whoever owns or
\* waits for a slot is a handler that is still using that very gate.  The
\* accounting's count, which the dashboards show, is the number of requests on
\* the replica, and they are never more than its max_concurrency nor, over a
\* tag, than that of the tag, pruned or not.  The registry's count, which gates
\* restarts and unloads, is that number as well, but for a worker that was
\* pruned under its requests: until they have all ended its count may be too
\* low (never too high, so nothing is held up).  What leaks shrinks a gate
\* until the gateway restarts.
NothingLeaks ==
  /\ \A k \in Gates :
       /\ \A r \in owners[k] : MayOwn(r, k)
       /\ \A i \in 1..Len(line[k]) : MayOwn(line[k][i], k) /\ line[k][i] \notin owners[k]
  /\ \A w \in Workers :
       /\ active[w] <= Cardinality(OnReplica(w))
       /\ w \notin forgotten => active[w] = Cardinality(OnReplica(w))
       /\ books[w] = Cardinality(OnReplica(w))
       /\ WorkerSlots[TagOf[w]] > 0 => Cardinality(OnReplica(w)) <= WorkerSlots[TagOf[w]]
  /\ \A t \in Tags : TagSlots[t] > 0 =>
       Cardinality(UNION {OnReplica(w) : w \in {v \in Workers : TagOf[v] = t}}) <= TagSlots[t]

\* A replica that was drained, went silent or backed off while a request waited
\* for its gates is not sent that request; nor is one that had it already, nor
\* any once the client's answer has begun (it would be a mix of two) or
\* gateway.proxy_attempts were made.
EachSendIsDue ==
  [][\A r \in Requests : Len(sent'[r]) > Len(sent[r]) =>
       /\ Last(sent'[r]) \in Healthy \ ToSet(sent[r])
       /\ Len(sent'[r]) <= Attempts
       /\ answer[r] = None]_vars

\* Every request that came is answered or given up by its client: neither the
\* order of the gates, nor picks that are not counted, nor a slot somebody kept
\* holds a handler forever, also without a queue timeout.
EveryRequestEnds ==
  \A r \in Requests : stage[r] = "model" ~> stage[r] = "done" /\ (r \in gone \/ answer[r] # None)
=============================================================================
