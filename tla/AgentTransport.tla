--------------------------- MODULE AgentTransport ---------------------------
(***************************************************************************)
(* The agents' transport managers (src/internal/agent/transport_manager.go *)
(* and frp_official.go), their heartbeats (agent/reconcile.go) and the     *)
(* gateway's heartbeat handler (gateway/server.go), composed with the      *)
(* leases of TransportLease.                                               *)
(*                                                                         *)
(* Per agent there are two goroutines: the manager's Run loop, whose       *)
(* position is mgr[a].phase, and the reconcile loop, whose heartbeat is    *)
(* hb[a].  They share the published snapshot (ready exactly in the phases  *)
(* of Serving) and the pending invalidations with their one-place channel. *)
(* The handler's lookup, renewal and upsert take different locks and are   *)
(* different actions.                                                      *)
(*                                                                         *)
(* A release is best effort: it waits in wire until the gateway handles    *)
(* it, at any later time, or it is lost.  A lease request is handled at    *)
(* once; its answer may be lost.  What the agents know is mgr, so handed   *)
(* of TransportLease stays empty here.                                     *)
(*                                                                         *)
(* The FRP server is external: it grants a port to one client at a time,   *)
(* keeps the registration of a dead client for a while, and may drop any;  *)
(* the embedded client then registers again by itself.                     *)
(***************************************************************************)
EXTENDS TransportLease

CONSTANTS StaleAfter,  \* ticks after which a heartbeat no longer makes a worker usable
          MaxFaults    \* bound on client failures, crashes and shutdowns

ASSUME AgentTransportAssumption ==
  /\ StaleAfter \in Nat \ {0}
  /\ MaxFaults \in Nat
  /\ \A c \in Configs : c.managed \in BOOLEAN

VARIABLES mgr,      \* agent -> [phase, cfg, lease, repl] of its Run loop
          invalid,  \* agent -> m.invalidations (lease ids)
          signal,   \* agent -> a signal waits in m.invalidationCh
          hb,       \* agent -> its heartbeat [step, lease, cfg]
          wire,     \* releases sent and not handled: [agent, id, gen]
          tunnels,  \* registrations at the FRP server: [agent, id, port]
          route,    \* agent -> the worker's URL at the gateway [id, port, leased, fresh]
          faults    \* client failures, crashes and shutdowns so far

agentVars == <<mgr, invalid, signal, hb, wire, tunnels, route, faults>>
allVars == <<vars, agentVars>>

NoLease == [id |-> NoId, slot |-> 0, port |-> 0, gen |-> NoId]
NoCfg == [managed |-> FALSE]
NoRoute == [id |-> NoId, port |-> 0, leased |-> FALSE, fresh |-> 0]
Quiet == [step |-> "none", lease |-> NoLease, cfg |-> NoCfg]
Fresh == [phase |-> "fetch", cfg |-> NoCfg, lease |-> NoLease, repl |-> NoLease]

AgentInit ==
  /\ Init
  /\ mgr = [a \in Agents |-> Fresh]
  /\ invalid = [a \in Agents |-> {}]
  /\ signal = [a \in Agents |-> FALSE]
  /\ hb = [a \in Agents |-> Quiet]
  /\ wire = {}
  /\ tunnels = {}
  /\ route = [a \in Agents |-> NoRoute]
  /\ faults = 0
-----------------------------------------------------------------------------
(* The manager's Run loop.                                                 *)

Serving(a) == mgr[a].phase \in {"active", "examining"}

\* What releaseLeaseExact puts on the wire.
ReleaseOf(a, lease) ==
  IF lease = NoLease THEN {} ELSE {[agent |-> a, id |-> lease.id, gen |-> lease.gen]}

OwnTunnel(a) == {t \in tunnels : t.agent = a /\ t.id = mgr[a].lease.id}

\* fetchDesired: a payload that cannot be opened or is not usable counts as a
\* fetch that failed, which only repeats the loop.
Desired == config

\* The gateway's configuration reaches the agent, without a client: it is in
\* legacy mode, or the local llama-swap is prepared and a lease will be asked
\* for.  A replacement of another generation is released first.
FetchDesired(a) ==
  LET keeps == Desired.managed /\ mgr[a].repl.gen = Desired.gen IN
  /\ mgr[a].phase \in {"fetch", "legacy"}
  /\ mgr[a].phase = "legacy" => Desired.managed
  /\ mgr' = [mgr EXCEPT ![a] =
       [Fresh EXCEPT !.phase = IF Desired.managed THEN "asking" ELSE "legacy",
                     !.cfg = Desired,
                     !.repl = IF keeps THEN mgr[a].repl ELSE NoLease]]
  /\ wire' = IF keeps THEN wire ELSE wire \cup ReleaseOf(a, mgr[a].repl)
  /\ UNCHANGED <<vars, invalid, signal, hb, tunnels, route, faults>>

\* The slot of a failed registration is excluded from its replacement.
Excluded(a) == IF mgr[a].repl = NoLease THEN {} ELSE {mgr[a].repl.slot}

\* The lease manager answers the request for a lease.
Granted(a) ==
  \/ AcquireSticky(a, mgr[a].repl.id, Excluded(a))
  \/ \E newId \in Ids : AcquireNew(a, mgr[a].repl.id, Excluded(a), newId)

\* The new lease of the agent after Granted.
GrantedLease(a) ==
  LET l == CHOOSE k \in leases' : k.agent = a /\ k.current
  IN [id |-> l.id, slot |-> l.slot, port |-> l.port, gen |-> l.gen]

\* validateTransportLease
Valid(c, lease) ==
  /\ lease.gen = c.gen
  /\ lease.port \in c.start .. c.end
  /\ lease.port = c.start + lease.slot

\* handleTransportLease for the generation of the agent's configuration.  The
\* answer arrives and passes validateTransportLease, and a client is made; or
\* it is lost, or it is a refusal, and the loop starts over with the same
\* replacement.
AskGranted(a) ==
  /\ mgr[a].phase = "asking"
  /\ config.managed
  /\ mgr[a].cfg.gen = config.gen
  /\ Granted(a)
  /\ handed' = handed
  /\ Valid(mgr[a].cfg, GrantedLease(a))
  /\ mgr' = [mgr EXCEPT ![a].phase = "starting", ![a].lease = GrantedLease(a)]
  /\ UNCHANGED <<invalid, signal, hb, wire, tunnels, route, faults>>

AskGrantedUnheard(a) ==
  /\ mgr[a].phase = "asking"
  /\ config.managed
  /\ mgr[a].cfg.gen = config.gen
  /\ Granted(a)
  /\ handed' = handed
  /\ mgr' = [mgr EXCEPT ![a].phase = "fetch"]
  /\ UNCHANGED <<invalid, signal, hb, wire, tunnels, route, faults>>

AskRefused(a) ==
  /\ mgr[a].phase = "asking"
  /\ mgr' = [mgr EXCEPT ![a].phase = "fetch"]
  /\ UNCHANGED <<vars, invalid, signal, hb, wire, tunnels, route, faults>>

\* The FRP server accepts the port: the proxy's phase is running.
Registers(a) ==
  LET port == mgr[a].lease.port IN
  /\ \A t \in tunnels : t.port # port
  /\ tunnels' = tunnels \cup {[agent |-> a, id |-> mgr[a].lease.id, port |-> port]}

\* WaitReady returns, and the snapshot is published.
Ready(a) ==
  /\ mgr[a].phase = "starting"
  /\ Registers(a)
  /\ mgr' = [mgr EXCEPT ![a].phase = "active", ![a].repl = NoLease]
  /\ UNCHANGED <<vars, invalid, signal, hb, wire, route, faults>>

\* The manager is without a client: [lease] is to be replaced, or nothing is.
Restarting(a, lease) ==
  mgr' = [mgr EXCEPT ![a] = [Fresh EXCEPT !.repl = lease]]

\* Run of the embedded client returns although nobody cancelled it.
ClientEnds ==
  /\ faults < MaxFaults
  /\ faults' = faults + 1

\* Close, and the client's goroutines end.
ClientClosed(a) == tunnels' = tunnels \ OwnTunnel(a)

\* The FRP server refuses the port, because another client holds it or for a
\* reason of its own (a fault); the client stops, its lease is to be replaced.
RegistrationFails(a) ==
  /\ mgr[a].phase = "starting"
  /\ \/ /\ \E t \in tunnels : t.port = mgr[a].lease.port
        /\ faults' = faults
     \/ ClientEnds
  /\ Restarting(a, mgr[a].lease)
  /\ UNCHANGED <<vars, invalid, signal, hb, wire, tunnels, route>>

\* active.runDone: the running client ended by itself.
RunEnds(a) ==
  /\ mgr[a].phase = "active"
  /\ ClientEnds
  /\ ClientClosed(a)
  /\ Restarting(a, mgr[a].lease)
  /\ UNCHANGED <<vars, invalid, signal, hb, wire, route>>

\* Faulty variant: the lease is released although the client still runs.
ParkReleases(a) ==
  /\ faults < MaxFaults
  /\ faults' = faults + 1
  /\ mgr' = [mgr EXCEPT ![a].phase = "parked"]
  /\ wire' = wire \cup ReleaseOf(a, mgr[a].lease)
  /\ UNCHANGED tunnels

\* stopClient times out with the workers still running: the manager parks for
\* good, its lease not released, its client still there.
Park(a) ==
  /\ faults < MaxFaults
  /\ faults' = faults + 1
  /\ mgr' = [mgr EXCEPT ![a].phase = "parked"]
  /\ UNCHANGED <<wire, tunnels>>

\* stopClient converges; the lease is released.
StopAndRelease(a) ==
  /\ ClientClosed(a)
  /\ wire' = wire \cup ReleaseOf(a, mgr[a].lease)
  /\ Restarting(a, NoLease)

\* The client could not be made, or stopped before it was ready.
BootstrapFails(a) ==
  /\ mgr[a].phase = "starting"
  /\ (StopAndRelease(a) /\ ClientEnds) \/ Park(a)
  /\ UNCHANGED <<vars, invalid, signal, hb, route>>

\* The poll finds another desired transport, or legacy mode (from which the
\* next fetch leads).
PollChanged(a) ==
  /\ mgr[a].phase = "active"
  /\ config # mgr[a].cfg
  /\ (StopAndRelease(a) /\ UNCHANGED faults) \/ Park(a)
  /\ UNCHANGED <<vars, invalid, signal, hb, route>>

\* Faulty variant: the signal is consumed, and the loop goes round.
ForgetInvalidation(a) ==
  /\ mgr[a].phase = "active"
  /\ signal[a]
  /\ signal' = [signal EXCEPT ![a] = FALSE]
  /\ UNCHANGED <<vars, mgr, invalid, hb, wire, tunnels, route, faults>>

\* The signal of an invalidation is received.
ExamineInvalidation(a) ==
  /\ mgr[a].phase = "active"
  /\ signal[a]
  /\ signal' = [signal EXCEPT ![a] = FALSE]
  /\ mgr' = [mgr EXCEPT ![a].phase = "examining"]
  /\ UNCHANGED <<vars, invalid, hb, wire, tunnels, route, faults>>

Invalidated(a) == mgr[a].lease.id \in invalid[a]

\* takeInvalidationFor: every pending invalidation is dropped; the active
\* lease is abandoned if it was among them.
TakeInvalidation(a) ==
  /\ mgr[a].phase = "examining"
  /\ invalid' = [invalid EXCEPT ![a] = {}]
  /\ \/ /\ Invalidated(a)
        /\ (StopAndRelease(a) /\ UNCHANGED faults) \/ Park(a)
     \/ /\ ~Invalidated(a)
        /\ mgr' = [mgr EXCEPT ![a].phase = "active"]
        /\ UNCHANGED <<wire, tunnels, faults>>
  /\ UNCHANGED <<vars, signal, hb, route>>

\* What a process leaves to its successor: nothing.  A heartbeat under way is
\* lost before the gateway handles it (bound: the handler is not overtaken).
Reborn(a) ==
  /\ faults < MaxFaults
  /\ faults' = faults + 1
  /\ hb[a].step \in {"none", "sent"}
  /\ hb' = [hb EXCEPT ![a] = Quiet]
  /\ mgr' = [mgr EXCEPT ![a] = Fresh]
  /\ invalid' = [invalid EXCEPT ![a] = {}]
  /\ signal' = [signal EXCEPT ![a] = FALSE]

\* The process is told to stop: the client stops and its lease, or else the
\* lease to be replaced, is released, unless the manager is parked.
Shutdown(a) ==
  /\ Reborn(a)
  /\ wire' = wire \cup
       CASE mgr[a].phase = "parked" -> {}
         [] mgr[a].phase # "parked" /\ mgr[a].lease # NoLease -> ReleaseOf(a, mgr[a].lease)
         [] OTHER -> ReleaseOf(a, mgr[a].repl)
  /\ ClientClosed(a)
  /\ UNCHANGED <<vars, route>>

\* The process dies.  The FRP server still holds the port.
Crash(a) == Reborn(a) /\ UNCHANGED <<vars, wire, tunnels, route>>
-----------------------------------------------------------------------------
(* Heartbeats: the reconcile loop sends one at a time.                     *)

HbGoes(a, step) == hb' = [hb EXCEPT ![a].step = step]

\* The cycle took the snapshot of transportForCycle.
HbSend(a) ==
  /\ hb[a].step = "none"
  /\ Serving(a)
  /\ hb' = [hb EXCEPT ![a] = [step |-> "sent", lease |-> mgr[a].lease, cfg |-> NoCfg]]
  /\ UNCHANGED <<vars, mgr, invalid, signal, wire, tunnels, route, faults>>

\* A heartbeat without a tunnel: the gateway's URL of the worker is cleared
\* (in legacy mode it becomes the worker's own, which is no tunnel either).
HbNotReady(a) ==
  /\ hb[a].step = "none"
  /\ ~Serving(a)
  /\ route' = [route EXCEPT ![a] = NoRoute]
  /\ UNCHANGED <<vars, mgr, invalid, signal, hb, wire, tunnels, faults>>

\* handleAgentHeartbeat takes the configuration, LookupCurrent and the
\* comparison of the URL; without managed transport nothing is looked up.
HbLookup(a) ==
  LET known == /\ hb[a].lease.gen = config.gen
               /\ \E l \in Current(leases, a) :
                    /\ l.id = hb[a].lease.id
                    /\ l.gen = hb[a].lease.gen
                    /\ l.left > 0
                    /\ l.port = hb[a].lease.port
  IN /\ hb[a].step = "sent"
     /\ hb' = [hb EXCEPT ![a].cfg = config,
                         ![a].step = CASE ~config.managed -> "renewed"
                                       [] config.managed /\ ~started -> "none"
                                       [] config.managed /\ started /\ known -> "looked"
                                       [] OTHER -> "refused"]
     /\ UNCHANGED <<vars, mgr, invalid, signal, wire, tunnels, route, faults>>

\* Faulty variant: a lease is renewed only once it has run out.
DueNever(l, cfg) == l.left = 0

\* Renew rewrites a lease in the second half of its life.
Due(l, cfg) == 2 * l.left <= cfg.ttl

\* Renew, under the policy the handler took.
HbRenew(a) ==
  LET cfg == hb[a].cfg
      fits == {l \in Current(leases, a) :
                 /\ l.id = hb[a].lease.id
                 /\ l.gen = hb[a].lease.gen
                 /\ l.left > 0
                 /\ l.ttl = cfg.ttl
                 /\ l.port \in cfg.start .. cfg.end
                 /\ l.slot = l.port - cfg.start}
  IN /\ hb[a].step = "looked"
     /\ \/ fits = {} /\ HbGoes(a, "refused") /\ UNCHANGED vars
        \/ \E l \in fits :
             /\ HbGoes(a, "renewed")
             /\ IF Due(l, cfg) THEN Save((leases \ {l}) \cup {[l EXCEPT !.left = cfg.ttl]})
                              ELSE UNCHANGED <<leases, disk>>
             /\ UNCHANGED <<config, started, used, handed>>
     /\ UNCHANGED <<mgr, invalid, signal, wire, tunnels, route, faults>>

\* UpsertHeartbeat makes the tunnel's URL the worker's.
HbUpsert(a) ==
  /\ hb[a].step = "renewed"
  /\ route' = [route EXCEPT ![a] = [id |-> hb[a].lease.id, port |-> hb[a].lease.port,
                                    leased |-> hb[a].cfg.managed, fresh |-> StaleAfter]]
  /\ hb' = [hb EXCEPT ![a] = Quiet]
  /\ UNCHANGED <<vars, mgr, invalid, signal, wire, tunnels, faults>>

\* The answer is a conflict, or it is lost.  InvalidateTransportLease records
\* the lease of the heartbeat ...
HbRefused(a) ==
  /\ hb[a].step = "refused"
  /\ \/ hb' = [hb EXCEPT ![a] = Quiet] /\ UNCHANGED invalid
     \/ HbGoes(a, "invalidate") /\ invalid' = [invalid EXCEPT ![a] = @ \cup {hb[a].lease.id}]
  /\ UNCHANGED <<vars, mgr, signal, wire, tunnels, route, faults>>

\* ... and signals without blocking.
HbSignal(a) ==
  /\ hb[a].step = "invalidate"
  /\ signal' = [signal EXCEPT ![a] = TRUE]
  /\ hb' = [hb EXCEPT ![a] = Quiet]
  /\ UNCHANGED <<vars, mgr, invalid, wire, tunnels, route, faults>>
-----------------------------------------------------------------------------
(* The network, the gateway process, the FRP server and time.              *)

\* A release is handled, now or much later.
GatewayRelease(m) ==
  /\ m \in wire
  /\ Release(m.agent, m.id, m.gen)
  /\ wire' = wire \ {m}
  /\ UNCHANGED <<mgr, invalid, signal, hb, tunnels, route, faults>>

LoseRelease(m) ==
  /\ m \in wire
  /\ wire' = wire \ {m}
  /\ UNCHANGED <<vars, mgr, invalid, signal, hb, tunnels, route, faults>>

\* A restarted gateway knows no worker; the handlers of the old process end.
GatewayRestart ==
  /\ faults < MaxFaults
  /\ faults' = faults + 1
  /\ Restart
  /\ route' = [a \in Agents |-> NoRoute]
  /\ hb' = [a \in Agents |-> IF hb[a].step = "invalidate" THEN hb[a] ELSE Quiet]
  /\ UNCHANGED <<mgr, invalid, signal, wire, tunnels>>

GatewayReconfigure ==
  /\ faults < MaxFaults
  /\ faults' = faults + 1
  /\ Reconfigure
  /\ UNCHANGED <<mgr, invalid, signal, hb, wire, tunnels, route>>

\* The FRP server drops a registration ...
Drop(t) ==
  /\ t \in tunnels
  /\ tunnels' = tunnels \ {t}
  /\ UNCHANGED <<vars, mgr, invalid, signal, hb, wire, route, faults>>

\* ... and the client, when it still runs, registers again in place.
Reregister(a) ==
  /\ Serving(a) \/ mgr[a].phase = "parked"
  /\ Registers(a)
  /\ UNCHANGED <<vars, mgr, invalid, signal, hb, wire, route, faults>>

\* Bound: a handler takes less than a tick from its lookup to its upsert.
Elapse ==
  /\ \A a \in Agents : hb[a].step \notin {"looked", "renewed"}
  /\ Tick
  /\ route' = [a \in Agents |-> [route[a] EXCEPT !.fresh = IF @ > 0 THEN @ - 1 ELSE 0]]
  /\ UNCHANGED <<mgr, invalid, signal, hb, wire, tunnels, faults>>

ManagerStep(a) ==
  \/ FetchDesired(a) \/ AskGranted(a) \/ AskGrantedUnheard(a) \/ AskRefused(a) \/ Ready(a)
  \/ RegistrationFails(a) \/ BootstrapFails(a) \/ RunEnds(a) \/ PollChanged(a)
  \/ ExamineInvalidation(a) \/ TakeInvalidation(a) \/ Shutdown(a) \/ Crash(a)

HeartbeatStep(a) ==
  \/ HbSend(a) \/ HbNotReady(a) \/ HbLookup(a) \/ HbRenew(a) \/ HbUpsert(a)
  \/ HbRefused(a) \/ HbSignal(a)

AgentNext ==
  \/ \E a \in Agents : ManagerStep(a) \/ HeartbeatStep(a) \/ Reregister(a)
  \/ \E m \in wire : GatewayRelease(m) \/ LoseRelease(m)
  \/ GatewayRestart \/ GatewayReconfigure
  \/ \E t \in tunnels : Drop(t)
  \/ Elapse

AgentSpec == AgentInit /\ [][AgentNext]_allVars
-----------------------------------------------------------------------------
(* Properties.                                                             *)

AgentTypeOK ==
  /\ TypeOK
  /\ \A a \in Agents :
       /\ mgr[a].phase \in {"fetch", "asking", "starting", "active", "examining", "parked", "legacy"}
       /\ (Serving(a) \/ mgr[a].phase = "starting") => mgr[a].lease.id \in used
       /\ hb[a].step \in {"none", "sent", "looked", "renewed", "refused", "invalidate"}
       /\ invalid[a] \subseteq used
       /\ route[a].fresh \in 0 .. StaleAfter
  /\ faults \in 0 .. MaxFaults

Held(id) == \E l \in leases : l.id = id /\ l.left > 0

\* While a worker counts as alive, the lease that the gateway checked for its
\* URL never just runs out: it goes only by a release of its own agent.  So no
\* other agent gets the port of a worker that requests are still sent to,
\* unless the worker gave it back itself.
RouteOutlivedByLease ==
  [][\A a \in Agents :
       (/\ route[a].leased
        /\ route'[a] = [route[a] EXCEPT !.fresh = route'[a].fresh]
        /\ route'[a].fresh > 0
        /\ Held(route[a].id)
        /\ ~Held(route[a].id)')
       => \E m \in wire \ wire' : m.agent = a /\ m.id = route[a].id]_allVars

\* A conflict that was recorded for the active lease reaches the manager: its
\* signal is pending, about to be given, or just being looked at.
InvalidationArrives ==
  \A a \in Agents :
    (mgr[a].phase = "active" /\ mgr[a].lease.id \in invalid[a]) =>
      signal[a] \/ hb[a].step = "invalidate"

\* An agent asks for the release of a lease only once its client is gone, so
\* the port is never offered to others while this process still holds it.
ReleasedAfterStop ==
  [][\A m \in wire' \ wire :
       ~\E t \in tunnels' : /\ t.agent = m.agent /\ t.id = m.id
                            /\ mgr'[t.agent].lease.id = t.id]_allVars

\* The scheduling the code justifies: the loops run on, a request that is
\* repeated is answered some time, the FRP server forgets the clients that are
\* gone, and time passes.
Dead(t) == mgr[t.agent].lease.id # t.id

Fairness ==
  /\ \A a \in Agents :
       /\ WF_allVars(FetchDesired(a))
       /\ WF_allVars(AskRefused(a))
       /\ SF_allVars(AskGranted(a))
       /\ WF_allVars(Ready(a))
       /\ WF_allVars(RegistrationFails(a))
       /\ WF_allVars(ExamineInvalidation(a))
       /\ WF_allVars(TakeInvalidation(a))
       /\ WF_allVars(HeartbeatStep(a))
  /\ WF_allVars(\E t \in tunnels : Dead(t) /\ Drop(t))
  /\ WF_allVars(Elapse)

FairAgentSpec == AgentSpec /\ Fairness

\* An agent with no lease gets a running tunnel some time, whatever answers and
\* releases were lost; unless its client could not be stopped (parked), managed
\* transport is switched off (legacy), the gateway came back without a lease
\* manager, or the ids of the model ran out.  Nothing is promised for the
\* replacement of a lease whose registration failed (mgr[a].repl): the agent
\* names that lease until it is answered, and the gateway forgets it.
TunnelArrives ==
  \A a \in Agents :
    (mgr[a].phase = "fetch") ~>
      \/ mgr[a].phase \in {"active", "legacy", "parked"}
      \/ mgr[a].repl # NoLease
      \/ ~started
      \/ used = Ids
=============================================================================
