-------------------------- MODULE LoadedReconciler --------------------------
(***************************************************************************)
(* The gateway's reconciler of loaded models                               *)
(* (src/internal/gateway/reconcile.go) and the planning it relies on       *)
(* (placement.go, pressure.go).  One cycle unloads replicas beyond hard    *)
(* ceilings, then plans: floors on empty workers as a batch, capacity for  *)
(* a floor by one unload, and only when all floors stand one predictive    *)
(* load.  Everything is decided on what the agents last reported; the      *)
(* calls to the workers take time and may fail, with or without their      *)
(* effect; requests, heartbeats and the administrator go on meanwhile.     *)
(*                                                                         *)
(* A worker's runtimes are pairs <<model, state>>; runs is the truth at    *)
(* the worker and report what the registry holds.  llama-swap runs one     *)
(* model at a time: a load, and a request for a model that is not loaded,  *)
(* put the other model out.  Access times have two levels: pairs of a      *)
(* worker and a model that served a request, and the others; among equals  *)
(* the model may choose any where the code takes the least id.             *)
(***************************************************************************)
EXTENDS Integers, FiniteSets, FiniteSetsExt, Sequences, SequencesExt

CONSTANTS Workers,    \* agent ids
          Models,     \* the models of the active configuration
          Requests,   \* proxy requests, one at a time each
          Allowed,    \* worker -> models the policies of its tags allow
          Artifact,   \* <<worker, model>> -> "ready", "stale_config" or "none"
          MinLoaded,  \* model -> min_loaded
          MaxLoaded,  \* model -> max_loaded, or AutoMax where it is not set
          AutoMax,    \* the automatic ceiling
          Priority,   \* model -> priority
          Cycles,     \* bound: reconcile cycles
          Troubles,   \* bound: calls to healthy workers that fail, and disturbances
          Served,     \* bound: requests served
          None        \* nothing

ASSUME ReconcilerAssumption ==
  /\ IsFiniteSet(Workers) /\ IsFiniteSet(Models) /\ IsFiniteSet(Requests)
  /\ Allowed \in [Workers -> SUBSET Models]
  /\ Artifact \in [Workers \X Models -> {"ready", "stale_config", "none"}]
  /\ MinLoaded \in [Models -> Nat]
  /\ MaxLoaded \in [Models -> Nat \cup {AutoMax}]
  /\ AutoMax \notin Nat
  /\ \A m \in Models : MaxLoaded[m] # AutoMax => MinLoaded[m] <= MaxLoaded[m]
  /\ Priority \in [Models -> Int]
  /\ {Cycles, Troubles, Served} \subseteq Nat
  /\ None \notin [model : Models, workers : SUBSET Workers, over : Nat]

VARIABLES runs,      \* worker -> what runs there
          report,    \* worker -> what its last heartbeat said runs there
          known,     \* workers in the registry
          healthy,   \* known workers that may be routed to
          serving,   \* request -> <<worker, model>> it is on, or None
          used,      \* pairs <<worker, model>> accessed lately
          cool,      \* pairs <<worker, model>> in a cooldown
          pressure,  \* model -> "none", "no_ready", "busy" or "jammed"
          phase,     \* "idle", "trim" or "act"
          view,      \* the snapshots of the cycle
          left,      \* models whose ceiling was not looked at yet
          excess,    \* [model, workers, over] being unloaded, or None
          lost,      \* model -> unloads beyond its ceiling that this cycle took for failed
                     \* although they were done (no variable of the code)
          plan,      \* actions still to be executed
          calls,     \* calls to workers under way
          spent      \* [cycles, disturbances, failures, served]

fleet == <<runs, report, known, healthy>>
traffic == <<serving, used, pressure>>
cycle == <<phase, view, left, excess, lost, plan>>
vars == <<fleet, traffic, cool, cycle, calls, spent>>

Pairs == Workers \X Models

Active(w) == Cardinality({r \in Requests : serving[r] # None /\ serving[r][1] = w})
ActiveSnapshot == [w \in Workers |-> Active(w)]
Snapshot == [report |-> report, known |-> known, healthy |-> healthy, active |-> ActiveSnapshot,
             cool |-> cool]
NoView == [report |-> [w \in Workers |-> {}], known |-> {}, healthy |-> {},
           active |-> [w \in Workers |-> 0], cool |-> {}]
-----------------------------------------------------------------------------
(* Reading a snapshot v of the registry.                                   *)

\* runningModelState, runningModelReady
Running(v, w, m) == \E s \in {"loading", "ready"} : <<m, s>> \in v.report[w]
Ready(v, w, m) == <<m, "ready">> \in v.report[w]

\* loadedWorkersForModel, runningModelCounts, occupiedModelCount; the health
\* of a worker is asked of the registry and not of the snapshot.
ReadyOn(v, m) == {w \in v.known \cap healthy : Ready(v, w, m)}
Loaded(v, m) == Cardinality(ReadyOn(v, m))
Occupied(v, m) == Cardinality({w \in v.known \cap healthy : Running(v, w, m)})

\* artifactRefreshable
Refreshable(w, m) == Artifact[<<w, m>>] \in {"ready", "stale_config"}

\* effectiveMaxLoaded
Ceiling(v, m) ==
  IF MaxLoaded[m] # AutoMax THEN MaxLoaded[m]
  ELSE Cardinality({w \in v.known \cap healthy : m \in Allowed[w] /\ Refreshable(w, m)})

\* The models of the highest priority.
First(M) == {m \in M : \A n \in M : Priority[n] <= Priority[m]}

\* warmEligibleWorker, warmEvictionCandidateWorker
Usable(v, w, m) ==
  /\ w \in v.known \cap healthy
  /\ v.active[w] = 0
  /\ m \in Allowed[w]
  /\ <<w, m>> \notin v.cool
  /\ ~Running(v, w, m)

\* pickEmptyWarmWorkerExcluding
EmptyFor(v, m, reserved) ==
  {w \in Workers \ reserved :
     Usable(v, w, m) /\ Artifact[<<w, m>>] = "ready" /\ v.report[w] = {}}

\* Faulty variant: a model at its floor may be unloaded too.
MayUnloadAtFloor(v, m) == Loaded(v, m) >= MinLoaded[m] \/ MinLoaded[m] = 0

\* canUnloadModelForPlacement
MayUnload(v, m) == Loaded(v, m) > MinLoaded[m] \/ MinLoaded[m] = 0

\* hasExcessReplica
HasExcess(v, m) == Loaded(v, m) > (IF MinLoaded[m] = 0 THEN 0 ELSE MinLoaded[m])

\* evictionRank: opportunity caches first, then low priority, then old use.
RankBefore(x, y) ==
  LET Cache(p) == MinLoaded[p[2]] = 0 IN
  \/ Cache(x) /\ ~Cache(y)
  \/ Cache(x) = Cache(y) /\ Priority[x[2]] < Priority[y[2]]
  \/ Cache(x) = Cache(y) /\ Priority[x[2]] = Priority[y[2]] /\ x \notin used /\ y \in used

\* pickEvictionVictimForModel.  The health of the worker is not looked at.
Victims(v, m) ==
  {p \in Pairs : LET w == p[1] IN
     /\ w \in v.known
     /\ v.active[w] = 0
     /\ ~Ready(v, w, m)
     /\ m \in Allowed[w] /\ Refreshable(w, m)
     /\ p[2] # m /\ Ready(v, w, p[2]) /\ MayUnload(v, p[2])}

BestVictims(v, m) == {p \in Victims(v, m) : \A q \in Victims(v, m) : ~RankBefore(q, p)}

\* DemandScore: a model nobody loads is wanted once a request found it not
\* ready; a busy one by its priority, less what is already starting.
MinScaleOutScore == 120
Rush == [busy |-> 130, jammed |-> 300]
DemandScore(v, m) ==
  LET starting == Occupied(v, m) - Loaded(v, m) IN
  CASE pressure[m] = "none" -> 0
    [] pressure[m] = "no_ready" -> IF Occupied(v, m) = 0 THEN MinScaleOutScore ELSE 0
    [] OTHER -> Max({0, Priority[m] + Rush[pressure[m]] - 60 * starting})

\* keepScore of an idle replica that is not protected
KeepScore(v, p) ==
  Priority[p[2]] + (IF Loaded(v, p[2]) <= MinLoaded[p[2]] THEN 120 ELSE 0)
    + (IF p \in used THEN 30 ELSE 0) - (IF MinLoaded[p[2]] = 0 THEN 40 ELSE 0)

DefaultSwitchCost == 80
-----------------------------------------------------------------------------
(* PlanControlActions.  An action is [type, worker, model, why].           *)

Act(type, p, why) == [type |-> type, worker |-> p[1], model |-> p[2], why |-> why]

\* Models below their floor that may grow.
Underloaded(v) ==
  {m \in Models : /\ Occupied(v, m) < MinLoaded[m]
                  /\ Occupied(v, m) < Ceiling(v, m)}

Wanted(v, m) == Min({MinLoaded[m], Ceiling(v, m)}) - Occupied(v, m)

\* placementModelNamesByPriority; names of equal priority in either order.
Orders(M) ==
  {s \in SetToSeqs(M) : \A i, j \in DOMAIN s : i < j => Priority[s[i]] >= Priority[s[j]]}

\* The batch of loads on empty workers: each model of the order takes as many
\* workers as it needs or as the models before it left.
Batches(v, s) ==
  LET m(i) == s[i] IN
  {B \in SUBSET {p \in Pairs : p[2] \in Underloaded(v) /\ p[1] \in EmptyFor(v, p[2], {})} :
     \A i \in DOMAIN s :
       LET earlier == {p[1] : p \in {q \in B : \E j \in 1..(i - 1) : q[2] = m(j)}}
           mine == {p \in B : p[2] = m(i)}
       IN /\ \A p \in mine : p[1] \notin earlier
          /\ Cardinality(mine) = Min({Wanted(v, m(i)), Cardinality(EmptyFor(v, m(i), earlier))})}

\* The models that come before any that has an empty worker, and for which
\* room can be made.
RoomFor(v, s) ==
  {i \in DOMAIN s : /\ \A j \in 1..i : EmptyFor(v, s[j], {}) = {}
                    /\ Victims(v, s[i]) # {}}

\* A model that demand may scale out.
Demanded(v, m) ==
  /\ Occupied(v, m) < Ceiling(v, m)
  /\ Occupied(v, m) <= Loaded(v, m)
  /\ DemandScore(v, m) >= MinScaleOutScore

ColdStart(v, m) == pressure[m] = "no_ready" /\ Occupied(v, m) = 0

\* planWarmEviction: replicas whose value is below the demand for m.
WorthLess(v, m) ==
  {p \in Pairs :
     /\ Usable(v, p[1], m) /\ Refreshable(p[1], m)
     /\ p[2] # m /\ Ready(v, p[1], p[2]) /\ MayUnload(v, p[2])
     /\ \/ DemandScore(v, m) > KeepScore(v, p) + DefaultSwitchCost
        \/ ColdStart(v, m) /\ HasExcess(v, p[2])}

Cheapest(v, P) == {p \in P : \A q \in P : KeepScore(v, p) <= KeepScore(v, q)}

\* A stale artifact cannot be loaded yet: the victim is only unloaded.
Evictions(v, m) ==
  {IF Artifact[<<p[1], m>>] = "ready" THEN Act("warm", <<p[1], m>>, "demand")
   ELSE Act("unload", p, "demand") : p \in Cheapest(v, WorthLess(v, m))}

PredictionsFor(v, m) ==
  IF EmptyFor(v, m, {}) # {} THEN {Act("warm", <<w, m>>, "demand") : w \in EmptyFor(v, m, {})}
  ELSE Evictions(v, m)

Predictions(v) ==
  UNION {PredictionsFor(v, m) :
           m \in First({n \in Models : Demanded(v, n) /\ PredictionsFor(v, n) # {}})}

One(A) == IF A = {} THEN {{}} ELSE {{a} : a \in A}

\* Floors in order of priority: room for the first model that needs it, and
\* its load is left to a later cycle, or else the batch.
FloorPlans(v, s) ==
  IF RoomFor(v, s) # {}
    THEN One({Act("unload", p, "floor") : p \in BestVictims(v, s[Min(RoomFor(v, s))])})
    ELSE {{Act("warm", p, "floor") : p \in B} : B \in Batches(v, s)}

\* Faulty variant: demand is served although a floor does not stand.
PlansDemandFirst(v) ==
  IF Predictions(v) # {} THEN One(Predictions(v))
  ELSE UNION {FloorPlans(v, s) : s \in Orders(Underloaded(v))}

\* PlanControlActions: demand is looked at only when all floors stand.
Plans(v) ==
  IF Underloaded(v) = {} THEN One(Predictions(v))
  ELSE UNION {FloorPlans(v, s) : s \in Orders(Underloaded(v))}
-----------------------------------------------------------------------------
Bearable == spent.disturbances + spent.failures < Troubles
\* Something that the reconciler did not do, and that changes what it decides on.
Disturb == Bearable /\ spent' = [spent EXCEPT !.disturbances = @ + 1]

Init ==
  /\ runs \in [Workers -> {{}} \cup {{<<m, "ready">>} : m \in Models}]
  /\ \A w \in Workers : \A x \in runs[w] : x[1] \in Allowed[w] /\ Refreshable(w, x[1])
  /\ report = runs
  /\ known = Workers
  /\ healthy = Workers
  /\ serving = [r \in Requests |-> None]
  /\ used = {}
  /\ cool = {}
  /\ pressure = [m \in Models |-> "none"]
  /\ phase = "idle"
  /\ view = NoView
  /\ left = {}
  /\ excess = None
  /\ lost = [m \in Models |-> 0]
  /\ plan = {}
  /\ calls = {}
  /\ spent = [cycles |-> 0, disturbances |-> 0, failures |-> 0, served |-> 0]
-----------------------------------------------------------------------------
(* Calls to workers: op is "unload" or "load" until the worker has done it  *)
(* or begun it, then "unloaded" or "loading" until the answer is in; by is  *)
(* "trim", "plan", "admin", "force", or "lost" if nobody waits any more.    *)

Call(op, w, m, by) == [op |-> op, worker |-> w, model |-> m, by |-> by]
Pending(by) == {c \in calls : c.by \in by}
Reconciling == Pending({"trim", "plan"})

ModelsOn(w) == {x[1] : x \in runs[w]}
\* The list of a ceiling is at its end, or enough was unloaded.
Advance(e) == IF e.workers = {} \/ e.over = 0 THEN None ELSE e

\* RecordReachability without an error ends a backoff, if it was only that.
Reached(w) == healthy' \in {healthy, healthy \cup ({w} \cap known)}

\* The worker unloads the model, whoever is served by it.
Unloads(c) ==
  /\ c \in calls /\ c.op = "unload"
  /\ runs' = [runs EXCEPT ![c.worker] = {x \in @ : x[1] # c.model}]
  /\ calls' = (calls \ {c}) \cup {[c EXCEPT !.op = "unloaded"]}
  /\ UNCHANGED <<report, known, healthy, traffic, cool, cycle, spent>>

\* The answer to an unload is good: only then it counts against the excess.
Unloaded(c) ==
  /\ c \in calls /\ c.op = "unloaded"
  /\ calls' = calls \ {c}
  /\ excess' = IF c.by = "trim" THEN Advance([excess EXCEPT !.over = @ - 1]) ELSE excess
  /\ Reached(c.worker)
  /\ UNCHANGED <<runs, report, known, traffic, cool, phase, view, left, lost, plan, spent>>

\* llama-swap begins to load and puts the other model out.
LoadBegins(c) ==
  /\ c \in calls /\ c.op = "load"
  /\ runs' = [runs EXCEPT ![c.worker] = IF c.model \in ModelsOn(c.worker) THEN @ ELSE {<<c.model, "loading">>}]
  /\ calls' = (calls \ {c}) \cup {[c EXCEPT !.op = "loading"]}
  /\ UNCHANGED <<report, known, healthy, traffic, cool, cycle, spent>>

\* What runs on c.worker once the load is over.
CameUp(c) == [runs EXCEPT ![c.worker] = IF c.model \in ModelsOn(c.worker) THEN {<<c.model, "ready">>} ELSE @]
NotLoaded(c) == [runs EXCEPT ![c.worker] = {x \in @ : x # <<c.model, "loading">>}]

LoadEnds(c) ==
  /\ c \in calls /\ c.op = "loading"
  /\ runs' = CameUp(c)
  /\ calls' = calls \ {c}
  /\ Reached(c.worker)
  /\ UNCHANGED <<report, known, traffic, cool, cycle, spent>>

\* The call ends with an error: the worker was not reached, refused, or did it
\* and the answer was lost; a model that was loading is gone or has come up.
\* The next worker of a ceiling's list is tried for the same excess.  A load
\* that the reconciler asked for cools the replica down (markWarmCooldown).
\* Errors may add up to a backoff (RecordReachability), and the worker may go
\* on with what nobody waits for any more.
Fails(c) ==
  /\ c \in calls
  /\ c.worker \in healthy => Bearable
  /\ runs' \in (IF c.op = "loading" THEN {NotLoaded(c), CameUp(c)} ELSE {runs})
  /\ excess' = IF c.by = "trim" THEN Advance(excess) ELSE excess
  /\ lost' = IF c.by = "trim" /\ c.op = "unloaded" THEN [lost EXCEPT ![c.model] = @ + 1] ELSE lost
  /\ cool' = IF c.op \in {"load", "loading"} /\ c.by = "plan" THEN cool \cup {<<c.worker, c.model>>} ELSE cool
  /\ \/ /\ calls' = calls \ {c} /\ UNCHANGED healthy
        /\ spent' = [spent EXCEPT !.failures = @ + (IF c.worker \in healthy THEN 1 ELSE 0)]
     \/ /\ Disturb
        /\ \/ calls' = calls \ {c} /\ healthy' = healthy \ {c.worker}
           \/ calls' = (calls \ {c}) \cup {[c EXCEPT !.by = "lost"]} /\ UNCHANGED healthy
  /\ UNCHANGED <<report, known, traffic, phase, view, left, plan>>
-----------------------------------------------------------------------------
(* One cycle.                                                              *)

HardCeilings == {m \in Models : MaxLoaded[m] # AutoMax}

\* The ticker.  Cycles are 30 s apart, or a slow load kept the last one busy;
\* a healthy worker has reported within 6 s: what it says is no older than
\* the last cycle.
Begin ==
  /\ phase = "idle"
  /\ spent.cycles < Cycles
  /\ \A w \in healthy : report[w] = runs[w]
  /\ phase' = "trim"
  /\ view' = Snapshot
  /\ left' = HardCeilings
  /\ spent' = [spent EXCEPT !.cycles = @ + 1]
  /\ UNCHANGED <<fleet, traffic, cool, excess, lost, plan, calls>>

\* A model's ready replicas are counted and those that may go are listed.
CheckCeiling(m) ==
  /\ phase = "trim" /\ excess = None
  /\ m \in left
  /\ left' = left \ {m}
  /\ excess' = IF Loaded(view, m) > MaxLoaded[m]
               THEN [model |-> m, workers |-> ReadyOn(view, m), over |-> Loaded(view, m) - MaxLoaded[m]]
               ELSE None
  /\ UNCHANGED <<fleet, traffic, cool, phase, view, lost, plan, calls, spent>>

\* workerModelLessRecentlyAccessed
Oldest(m, W) == IF \E w \in W : <<w, m>> \notin used THEN {w \in W : <<w, m>> \notin used} ELSE W

\* The list is worked off one by one.  A worker that had requests when the
\* cycle began is passed over.
Trim(w) ==
  /\ excess # None /\ Pending({"trim"}) = {}
  /\ w \in Oldest(excess.model, excess.workers)
  /\ IF view.active[w] > 0
       THEN calls' = calls /\ excess' = Advance([excess EXCEPT !.workers = @ \ {w}])
       ELSE /\ calls' = calls \cup {Call("unload", w, excess.model, "trim")}
            /\ excess' = [excess EXCEPT !.workers = @ \ {w}]
  /\ UNCHANGED <<fleet, traffic, cool, phase, view, left, lost, plan, spent>>

\* A fresh snapshot of the registry, and the actions planned on it; the
\* cooldowns are those of the beginning of the cycle.
Plan ==
  /\ phase = "trim" /\ left = {} /\ excess = None /\ Pending({"trim"}) = {}
  /\ phase' = "act"
  /\ view' = [Snapshot EXCEPT !.cool = view.cool]
  /\ \E A \in Plans(view') : plan' = A
  /\ UNCHANGED <<fleet, traffic, cool, left, excess, lost, calls, spent>>

\* One action: skipped if requests came to the worker meanwhile.
Execute(a) ==
  /\ phase = "act" /\ a \in plan
  /\ plan' = plan \ {a}
  /\ calls' = IF Active(a.worker) > 0 THEN calls
              ELSE calls \cup {Call(IF a.type = "warm" THEN "load" ELSE "unload", a.worker, a.model, "plan")}
  /\ UNCHANGED <<fleet, traffic, cool, phase, view, left, excess, lost, spent>>

\* All results are in; the snapshots are dropped.
End ==
  /\ phase = "act" /\ plan = {} /\ Reconciling = {}
  /\ phase' = "idle"
  /\ view' = NoView
  /\ lost' = [m \in Models |-> 0]
  /\ UNCHANGED <<fleet, traffic, cool, left, excess, plan, calls, spent>>
-----------------------------------------------------------------------------
(* The administrator's calls (admin_actions.go).                           *)

\* handleUIModelWarm
AdminWarm(w, m) ==
  /\ Disturb
  /\ w \in healthy /\ m \in Allowed[w] /\ Artifact[<<w, m>>] = "ready"
  /\ calls' = calls \cup {Call("load", w, m, "admin")}
  /\ UNCHANGED <<fleet, traffic, cool, cycle>>

\* handleUIModelUnload
AdminUnload(w, m) ==
  /\ Disturb
  /\ w \in known
  /\ \/ /\ Active(w) = 0 /\ <<m, "ready">> \in report[w]
        /\ calls' = calls \cup {Call("unload", w, m, "admin")}
     \/ calls' = calls \cup {Call("unload", w, m, "force")}
  /\ UNCHANGED <<fleet, traffic, cool, cycle>>
-----------------------------------------------------------------------------
(* Requests and workers.                                                   *)

\* PickReadyWorker, then workers.Acquire.
Routable(m) == {w \in healthy : m \in Allowed[w] /\ Artifact[<<w, m>>] = "ready"
                                 /\ <<m, "ready">> \in report[w] /\ <<w, m>> \notin cool}

\* A request goes to a replica that was reported ready; llama-swap loads the
\* model again if it is not there any more.
Route(r, m) ==
  /\ serving[r] = None
  /\ spent.served < Served
  /\ \E w \in Routable(m) :
       /\ serving' = [serving EXCEPT ![r] = <<w, m>>]
       /\ runs' = [runs EXCEPT ![w] = IF m \in ModelsOn(w) THEN @ ELSE {<<m, "ready">>}]
  /\ spent' = [spent EXCEPT !.served = @ + 1]
  /\ UNCHANGED <<report, known, healthy, used, pressure, cool, cycle, calls>>

\* No replica is ready: the request fails and is remembered (observeNoReady).
\* A ceiling of 0 is not one a load could help.
NoReady(m) ==
  /\ Routable(m) = {} /\ \A w \in healthy : <<m, "ready">> \notin report[w]
  /\ pressure[m] # "no_ready"
  /\ Ceiling(Snapshot, m) > 0
  /\ pressure' = [pressure EXCEPT ![m] = "no_ready"]
  /\ UNCHANGED <<fleet, serving, used, cool, cycle, calls, spent>>

\* recordRequestStats: the access is recorded, and waits in line may add up.
Respond(r) ==
  /\ serving[r] # None
  /\ serving' = [serving EXCEPT ![r] = None]
  /\ used' = used \cup {serving[r]}
  /\ \/ UNCHANGED pressure
     \/ \E l \in DOMAIN Rush : pressure' = [pressure EXCEPT ![serving[r][2]] = l]
  /\ UNCHANGED <<fleet, cool, cycle, calls, spent>>

\* Observations leave the window, cooldowns end.
Forget ==
  \/ /\ \E m \in Models : pressure[m] # "none" /\ pressure' = [pressure EXCEPT ![m] = "none"]
     /\ UNCHANGED <<fleet, serving, used, cool, cycle, calls, spent>>
  \/ /\ \E p \in cool : cool' = cool \ {p}
     /\ UNCHANGED <<fleet, traffic, cycle, calls, spent>>

\* Heartbeats come all the time, also when they have nothing new to say.
Heartbeat(w) ==
  /\ report' = [report EXCEPT ![w] = runs[w]]
  /\ healthy' = healthy \cup {w}
  /\ known' = known \cup {w}
  /\ UNCHANGED <<runs, traffic, cool, cycle, calls, spent>>

\* A worker is drained or no longer heard of, and forgotten after 10 minutes.
Silence(w) ==
  /\ Disturb
  /\ w \in known
  /\ IF w \in healthy THEN healthy' = healthy \ {w} /\ UNCHANGED known
     ELSE known' = known \ {w} /\ UNCHANGED healthy
  /\ UNCHANGED <<runs, report, traffic, cool, cycle, calls>>

Reconcile ==
  \/ Begin \/ Plan \/ End
  \/ \E m \in Models : CheckCeiling(m)
  \/ \E w \in Workers : Trim(w)
  \/ \E a \in plan : Execute(a)

Answer(c) == Unloads(c) \/ Unloaded(c) \/ LoadBegins(c) \/ LoadEnds(c) \/ Fails(c)

Next ==
  \/ Reconcile
  \/ \E c \in calls : Answer(c)
  \/ \E w \in Workers, m \in Models : AdminWarm(w, m) \/ AdminUnload(w, m)
  \/ \E r \in Requests : Respond(r) \/ \E m \in Models : Route(r, m)
  \/ \E m \in Models : NoReady(m)
  \/ Forget
  \/ \E w \in Workers : Heartbeat(w) \/ Silence(w)

Spec == Init /\ [][Next]_vars
-----------------------------------------------------------------------------
(* Types.  llama-swap runs one model at a time.                            *)

Runtimes == {{}} \cup {{<<m, s>>} : m \in Models, s \in {"loading", "ready"}}
Actions == [type : {"warm", "unload"}, worker : Workers, model : Models, why : {"floor", "demand"}]
Views == [report : [Workers -> Runtimes], known : SUBSET Workers, healthy : SUBSET Workers,
          active : [Workers -> Nat], cool : SUBSET Pairs]

TypeOK ==
  /\ runs \in [Workers -> Runtimes] /\ report \in [Workers -> Runtimes]
  /\ known \subseteq Workers /\ healthy \subseteq Workers
  /\ serving \in [Requests -> Pairs \cup {None}]
  /\ used \subseteq Pairs /\ cool \subseteq Pairs
  /\ pressure \in [Models -> {"none", "no_ready", "busy", "jammed"}]
  /\ phase \in {"idle", "trim", "act"}
  /\ view \in Views
  /\ left \subseteq Models
  /\ excess \in [model : Models, workers : SUBSET Workers, over : Nat \ {0}] \cup {None}
  /\ lost \in [Models -> Nat]
  /\ plan \subseteq Actions
  /\ calls \subseteq [op : {"unload", "unloaded", "load", "loading"}, worker : Workers, model : Models,
                     by : {"trim", "plan", "admin", "force", "lost"}]
  /\ spent \in [cycles : Nat, disturbances : Nat, failures : Nat, served : Nat]
-----------------------------------------------------------------------------
(* Properties.                                                             *)

ServingWell(m) == Cardinality({w \in healthy : <<m, "ready">> \in runs[w]})

\* What is planned together, on all workers, is sound on what the agents said:
\* every model keeps as many replicas as its floor asks, or as many as it had;
\* no model is loaded beyond its hard ceiling; each worker is reserved for one
\* action (two loads would put each other out); and nothing is done on mere
\* demand while a floor does not stand.
PlanIsSound ==
  [][phase = "trim" /\ phase' = "act" =>
       /\ \A m \in Models :
            LET kept == {w \in ReadyOn(view', m) : \A x \in plan' : x.worker # w}
                loads == {x \in plan' : x.type = "warm" /\ x.model = m}
            IN /\ Cardinality(kept) >= Min({MinLoaded[m], Loaded(view', m)})
               /\ MaxLoaded[m] # AutoMax /\ loads # {}
                    => Occupied(view', m) + Cardinality(loads) <= MaxLoaded[m]
       /\ \A x, y \in plan' : x.worker = y.worker => x = y
       /\ (\E m \in Models : Occupied(view', m) < Min({MinLoaded[m], Ceiling(view', m)}))
            => \A x \in plan' : x.why = "floor"]_vars

\* The administrator and the fleet left the reconciler alone: nobody else loads
\* or unloads, no worker comes or goes.  Calls may fail, done or not.
Undisturbed == spent.disturbances = 0

\* The snapshot shows replicas beyond the ceiling.  A plan that is made on it
\* counts those which the same cycle has unloaded, as no heartbeat came since.
Overcounted(m) == MaxLoaded[m] # AutoMax /\ Loaded(view, m) > MaxLoaded[m]

\* The calls of a cycle, which arrive one after the other while requests and
\* heartbeats go on and calls fail, do what the plan meant, as long as nobody
\* disturbs: none takes a model that met its floor below it (but one that is
\* overcounted), loads one beyond its hard ceiling, or unloads below that
\* ceiling.  Only an unload beyond a ceiling that is done and answered with an
\* error costs more: the next replica is unloaded for the same excess, so each
\* such answer of the cycle takes one replica more, and no other does.
BoundsHold ==
  [][Undisturbed' =>
       \A c \in Reconciling : c \notin calls' =>
         /\ \A m \in Models : ServingWell(m) >= MinLoaded[m] /\ ~Overcounted(m)
                              => ServingWell(m)' >= MinLoaded[m] - lost[m]
         /\ c.op = "load" /\ MaxLoaded[c.model] # AutoMax
              => \/ Cardinality({w \in healthy : c.model \in ModelsOn(w)}) < MaxLoaded[c.model]
                 \/ c.model \in ModelsOn(c.worker)
         /\ c.by = "trim"
              => ServingWell(c.model)' >= Min({ServingWell(c.model), MaxLoaded[c.model] - lost[c.model]})]_vars
=============================================================================
