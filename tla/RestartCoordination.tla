------------------------- MODULE RestartCoordination -------------------------
(***************************************************************************)
(* How a worker agent gets its llama-swap restarted for a changed          *)
(* configuration: the reconcile cycle of the agent                         *)
(* (src/internal/agent/reconcile.go, reconcileRunOnce) against the         *)
(* gateway's worker registry (module WorkerRegistry).                      *)
(*                                                                         *)
(* An agent is one goroutine under cycleMu.  Its cycle is split where      *)
(* something else can happen in between:                                   *)
(*   idle      between two cycles                                          *)
(*   fetched   knows which models llama-swap runs                          *)
(*   report    config written or deferred, heartbeat not yet sent          *)
(*   write     the response allowed the restart                            *)
(*   restart   llama-swap is restarted                                     *)
(*   verify    /health and /running are asked                              *)
(*   clear     the marker file is removed                                  *)
(* A model's configuration is its version; disk is what the agent's        *)
(* llama-swap.yaml holds.  llama-swap itself is external: it runs with     *)
(* -watch-config, loads a model when asked and drops every model when it   *)
(* restarts or reloads.                                                    *)
(*                                                                         *)
(* Config changes, faults, ticks, admin actions and model loads are        *)
(* bounded: a behaviour starts with one of Budgets and has that many left. *)
(***************************************************************************)
EXTENDS WorkerRegistry

CONSTANT Budgets   \* how many of each a behaviour may have

ASSUME BudgetAssumption == Budgets \subseteq [{"change", "fault", "tick", "admin", "load"} -> Nat]

VARIABLES desired,   \* model -> version of the published configuration
          disk,      \* agent -> model -> version in llama-swap.yaml
          loaded,    \* agent -> models llama-swap runs
          seen,      \* agent -> models /running returned in this cycle
          content,   \* agent -> the configuration rendered in this cycle
          marker,    \* agents whose restart-pending marker file exists
          wants,     \* agents with r.needsRestart set in memory
          needed,    \* agents whose heartbeat will say NeedsRestart
          ask,       \* agent -> RestartModels of this cycle
          phase,     \* agent -> control state
          left       \* what is left of the budget

registry == vars
agents == <<desired, disk, loaded, seen, content, marker, wants, needed, ask, phase>>
allVars == <<registry, agents, left>>

Configs == [Models -> Nat]

Outdated(a) == {m \in Models : disk[a][m] # content[a][m]}

CoordInit ==
  /\ Init
  /\ desired = [m \in Models |-> 0]
  /\ disk = [a \in Workers |-> desired]
  /\ loaded = [a \in Workers |-> {}]
  /\ seen = [a \in Workers |-> {}]
  /\ content = [a \in Workers |-> desired]
  /\ marker = {}
  /\ wants = {}
  /\ needed = {}
  /\ ask = [a \in Workers |-> {}]
  /\ phase = [a \in Workers |-> "idle"]
  /\ left \in Budgets

Spend(k) ==
  /\ left[k] > 0
  /\ left' = [left EXCEPT ![k] = @ - 1]

Goto(a, p) == phase' = [phase EXCEPT ![a] = p]
-----------------------------------------------------------------------------
(* The agent's cycle.                                                      *)

\* The marker file is read, the configuration fetched and rendered, and
\* llama-swap asked what it runs.
Fetch(a) ==
  /\ phase[a] = "idle"
  /\ wants' = IF a \in marker THEN wants \cup {a} ELSE wants
  /\ content' = [content EXCEPT ![a] = desired]
  /\ seen' = [seen EXCEPT ![a] = loaded[a]]
  /\ Goto(a, "fetched")
  /\ UNCHANGED <<registry, desired, disk, loaded, marker, needed, ask, left>>

\* A cycle that cannot ask llama-swap, or whose transport is not ready, or with
\* an artifact still missing for a running model: it neither writes the
\* configuration nor reports a restart, wanted or not.
Idles(a) ==
  /\ phase[a] = "idle"
  /\ wants' = IF a \in marker THEN wants \cup {a} ELSE wants
  /\ needed' = needed \ {a}
  /\ ask' = [ask EXCEPT ![a] = {}]
  /\ Goto(a, "report")
  /\ UNCHANGED <<registry, desired, disk, loaded, seen, content, marker>>

FetchFails(a) == Idles(a) /\ Spend("fault")

\* A running model is affected: the marker is written, the file is not.
DeferConfig(a) ==
  LET affected == seen[a] \cap Outdated(a) IN
  /\ phase[a] = "fetched"
  /\ affected # {}
  /\ marker' = marker \cup {a}
  /\ wants' = wants \cup {a}
  /\ needed' = needed \cup {a}
  /\ ask' = [ask EXCEPT ![a] = affected]
  /\ Goto(a, "report")
  /\ UNCHANGED <<registry, desired, disk, loaded, seen, content, left>>

\* No running model is affected.  The file is written if nothing runs, which
\* makes llama-swap reload; otherwise the change waits.  A restart that is
\* still wanted is reported without models.
ApplyConfig(a) ==
  /\ phase[a] = "fetched"
  /\ seen[a] \cap Outdated(a) = {}
  /\ IF seen[a] = {} /\ Outdated(a) # {}
     THEN /\ disk' = [disk EXCEPT ![a] = content[a]]
          /\ loaded' = [loaded EXCEPT ![a] = {}]
     ELSE UNCHANGED <<disk, loaded>>
  /\ needed' = IF a \in wants THEN needed \cup {a} ELSE needed \ {a}
  /\ ask' = [ask EXCEPT ![a] = {}]
  /\ Goto(a, "report")
  /\ UNCHANGED <<registry, desired, seen, content, marker, wants, left>>

\* Faulty variant: the agent restarts without the permission.
ReportUnasked(a) ==
  /\ phase[a] = "report"
  /\ Heartbeat(a, a \in needed, ask[a])
  /\ Goto(a, IF a \in needed THEN "write" ELSE "idle")
  /\ UNCHANGED <<desired, disk, loaded, seen, content, marker, wants, needed, ask, left>>

\* The marker or the file cannot be written: the change waits for another
\* cycle, and a restart that is still wanted is reported without models.
WriteFails(a) ==
  /\ phase[a] = "fetched"
  /\ Outdated(a) # {}
  /\ Spend("fault")
  /\ needed' = IF a \in wants THEN needed \cup {a} ELSE needed \ {a}
  /\ ask' = [ask EXCEPT ![a] = {}]
  /\ Goto(a, "report")
  /\ UNCHANGED <<registry, desired, disk, loaded, seen, content, marker, wants>>

\* The heartbeat, its handling by the gateway and the response.
Report(a) ==
  /\ phase[a] = "report"
  /\ Heartbeat(a, a \in needed, ask[a])
  /\ Goto(a, IF a \in needed /\ granted'[a] # {} THEN "write" ELSE "idle")
  /\ UNCHANGED <<desired, disk, loaded, seen, content, marker, wants, needed, ask, left>>

\* The gateway handles the heartbeat and the response is lost.
ReportUnanswered(a) ==
  /\ phase[a] = "report"
  /\ Spend("fault")
  /\ Heartbeat(a, a \in needed, ask[a])
  /\ Goto(a, "idle")
  /\ UNCHANGED <<desired, disk, loaded, seen, content, marker, wants, needed, ask>>

\* The deferred configuration is written now.
WritePending(a) ==
  /\ phase[a] = "write"
  /\ IF ask[a] # {} /\ Outdated(a) # {}
     THEN /\ disk' = [disk EXCEPT ![a] = content[a]]
          /\ loaded' = [loaded EXCEPT ![a] = {}]
     ELSE UNCHANGED <<disk, loaded>>
  /\ Goto(a, "restart")
  /\ UNCHANGED <<registry, desired, seen, content, marker, wants, needed, ask, left>>

\* Faulty variant: the marker is removed before the restart is verified.
RestartClearsMarker(a) ==
  /\ phase[a] = "restart"
  /\ loaded' = [loaded EXCEPT ![a] = {}]
  /\ marker' = marker \ {a}
  /\ Goto(a, "verify")
  /\ UNCHANGED <<registry, desired, disk, seen, content, wants, needed, ask, left>>

Restart(a) ==
  /\ phase[a] = "restart"
  /\ loaded' = [loaded EXCEPT ![a] = {}]
  /\ Goto(a, "verify")
  /\ UNCHANGED <<registry, desired, disk, seen, content, marker, wants, needed, ask, left>>

Verify(a) ==
  /\ phase[a] = "verify"
  /\ Goto(a, "clear")
  /\ UNCHANGED <<registry, desired, disk, loaded, seen, content, marker, wants, needed, ask, left>>

Clear(a) ==
  /\ phase[a] = "clear"
  /\ marker' = marker \ {a}
  /\ wants' = wants \ {a}
  /\ Goto(a, "idle")
  /\ UNCHANGED <<registry, desired, disk, loaded, seen, content, needed, ask, left>>

\* Writing, restarting, verifying or clearing returns an error: the cycle
\* ends there and the marker stays.
StepFails(a) ==
  /\ phase[a] \in {"write", "restart", "verify", "clear"}
  /\ Spend("fault")
  /\ Goto(a, "idle")
  /\ UNCHANGED <<registry, desired, disk, loaded, seen, content, marker, wants, needed, ask>>

\* The agent process dies; what survives is on disk, and llama-swap runs on.
AgentCrash(a) ==
  /\ Spend("fault")
  /\ wants' = wants \ {a}
  /\ needed' = needed \ {a}
  /\ ask' = [ask EXCEPT ![a] = {}]
  /\ Goto(a, "idle")
  /\ UNCHANGED <<registry, desired, disk, loaded, seen, content, marker>>
-----------------------------------------------------------------------------
(* The gateway and the environment.                                        *)

\* The registry is in memory only, and the requests the gateway proxied end
\* with its connections.
GatewayRestart ==
  /\ Spend("fault")
  /\ known' = {}
  /\ age' = [w \in Workers |-> 0]
  /\ draining' = {}
  /\ needs' = {}
  /\ failures' = [w \in Workers |-> 0]
  /\ backoff' = [w \in Workers |-> 0]
  /\ active' = [w \in Workers |-> 0]
  /\ manual' = {}
  /\ holder' = [s \in Scopes |-> None]
  /\ serving' = [r \in Requests |-> None]
  /\ forgotten' = {}
  /\ granted' = [w \in Workers |-> {}]
  /\ UNCHANGED agents

Publish(m) ==
  /\ Spend("change")
  /\ desired' = [desired EXCEPT ![m] = @ + 1]
  /\ UNCHANGED <<registry, disk, loaded, seen, content, marker, wants, needed, ask, phase>>

Load(a, m) ==
  /\ m \notin loaded[a]
  /\ Spend("load")
  /\ loaded' = [loaded EXCEPT ![a] = @ \cup {m}]
  /\ UNCHANGED <<registry, desired, disk, seen, content, marker, wants, needed, ask, phase>>

Unload(a, m) ==
  /\ m \in loaded[a]
  /\ loaded' = [loaded EXCEPT ![a] = @ \ {m}]
  /\ UNCHANGED <<registry, desired, disk, seen, content, marker, wants, needed, ask, phase, left>>

Proxying ==
  /\ \/ \E r \in Requests : Release(r) \/ \E w \in Workers : Acquire(r, w)
     \/ Snapshot
  /\ UNCHANGED <<agents, left>>

Administration ==
  /\ Spend("admin")
  /\ \E w \in Workers : Drain(w) \/ Undrain(w)
  /\ UNCHANGED agents

TimePasses ==
  /\ Spend("tick")
  /\ Tick
  /\ UNCHANGED agents

AgentStep(a) ==
  \/ Fetch(a)
  \/ DeferConfig(a)
  \/ ApplyConfig(a)
  \/ Report(a)
  \/ WritePending(a)
  \/ Restart(a)
  \/ Verify(a)
  \/ Clear(a)

CoordNext ==
  \/ \E a \in Workers :
       \/ AgentStep(a)
       \/ FetchFails(a)
       \/ WriteFails(a)
       \/ ReportUnanswered(a)
       \/ StepFails(a)
       \/ AgentCrash(a)
       \/ \E m \in Models : Load(a, m) \/ Unload(a, m)
  \/ \E m \in Models : Publish(m)
  \/ GatewayRestart
  \/ Proxying
  \/ Administration
  \/ TimePasses

CoordSpec == CoordInit /\ [][CoordNext]_allVars

\* The agent's loop runs a cycle per tick of its ticker, and a request ends.
CoordFairness ==
  /\ \A a \in Workers : WF_allVars(AgentStep(a))
  /\ \A r \in Requests : WF_allVars(Release(r) /\ UNCHANGED <<agents, left>>)

CoordFairSpec == CoordSpec /\ CoordFairness
-----------------------------------------------------------------------------
(* Properties.                                                             *)

CoordTypeOK ==
  /\ TypeOK
  /\ desired \in Configs
  /\ disk \in [Workers -> Configs]
  /\ content \in [Workers -> Configs]
  /\ loaded \in [Workers -> SUBSET Models]
  /\ seen \in [Workers -> SUBSET Models]
  /\ {marker, wants, needed} \subseteq SUBSET Workers
  /\ ask \in [Workers -> SUBSET Models]
  /\ phase \in [Workers -> {"idle", "fetched", "report", "write", "restart", "verify", "clear"}]
  /\ left \in [{"change", "fault", "tick", "admin", "load"} -> Nat]

\* While an agent acts on a permission to restart, the gateway has no request
\* in flight on its worker, also when the gateway itself restarts, prunes, or
\* the response arrives late; only what pruning had forgotten can be cut.
RestartCutsNothing ==
  \A a \in Workers \ forgotten :
    phase[a] \in {"write", "restart", "verify", "clear"} => InFlight(a) = {}

\* A wanted restart survives the agent: whoever wants one in memory has the
\* marker file, from before the first report to after the restart was verified.
RestartIsOwed == wants \subseteq marker

\* What is promised for the drain protocol: an agent that owes a restart gets
\* it, once faults, changes and other agents let it.  (With one model every
\* two requests overlap; see MCRestartScopes.cfg for more than one.)
EveryRestartHappens == \A a \in Workers : a \in marker ~> a \notin marker
=============================================================================
