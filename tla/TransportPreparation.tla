------------------------ MODULE TransportPreparation ------------------------
(***************************************************************************)
(* The second actor on a worker's llama-swap: before the transport manager *)
(* opens a tunnel it calls PrepareManagedTransport                         *)
(* (src/internal/agent/reconcile.go), which writes the gateway's token     *)
(* into llama-swap.yaml, proves that llama-swap asks for it, and otherwise *)
(* obtains a restart of its own.  It shares cycleMu, the file, the record  *)
(* at the gateway and the restart scopes with the reconcile cycle (module  *)
(* RestartCoordination).                                                   *)
(*                                                                         *)
(* manager[a] is where the loop of transport_manager.go is:                *)
(*   down      no tunnel                                                   *)
(*   wanted    knows the desired transport, waits for cycleMu              *)
(*   verify    token written, llama-swap is probed                         *)
(*   ask       llama-swap does not enforce the token: ask for a restart    *)
(*   restart   the gateway allowed it                                      *)
(*   check     llama-swap is probed again                                  *)
(*   prepared  token proved, cycleMu free, lease and registration to come  *)
(*   up        the tunnel is registered and its URL published              *)
(* Leases and registration are the subject of AgentTransport.              *)
(*                                                                         *)
(* A file carries a token and a layout: PrepareManagedTransport puts       *)
(* apiKeys last, the rendered file has it in the middle, so that each      *)
(* finds the other's bytes changed.  llama-swap notices a change of the    *)
(* file some time, or never, and drops its models when it does.            *)
(***************************************************************************)
EXTENDS RestartCoordination

CONSTANT Tokens   \* how often the gateway's token may change

ASSUME TokensAssumption == Tokens \in Nat

VARIABLES token,     \* the token the gateway hands out
          manager,   \* agent -> control state of its transport manager
          want,      \* agent -> the token of its desired transport
          cycle,     \* agent -> token of the cycle's transport snapshot, or None
          file,      \* agent -> token and layout of llama-swap.yaml
          enforced,  \* agent -> the token its llama-swap asks for
          unread,    \* agents whose llama-swap has not noticed the last change
          url,       \* agents whose record has a URL
          chosen     \* request -> the worker it was scheduled to, not yet acquired

tunnel == <<token, manager, want>>
swap == <<file, enforced, unread>>
prepVars == <<allVars, tunnel, cycle, swap, url, chosen>>

PrepInit ==
  /\ CoordInit
  /\ token = 0
  /\ manager = [a \in Workers |-> "down"]
  /\ want = [a \in Workers |-> 0]
  /\ cycle = [a \in Workers |-> None]
  /\ file = [a \in Workers |-> [key |-> None, layout |-> "empty"]]
  /\ enforced = [a \in Workers |-> None]
  /\ unread = {}
  /\ url = {}
  /\ chosen = [r \in Requests |-> None]

Become(a, s) == manager' = [manager EXCEPT ![a] = s]

\* cycleMu
CycleLocks(a) == phase[a] # "idle"
ManagerLocks(a) == manager[a] \in {"verify", "ask", "restart", "check"}

\* writeConfigIfChangedWithoutMarkingPending, as far as token and layout go.
WriteFile(a, contents) ==
  /\ file' = [file EXCEPT ![a] = contents]
  /\ unread' = IF contents = file[a] THEN unread ELSE unread \cup {a}

\* llama-swap starts, or reloads, with what the file says.
ReadFile(a) ==
  /\ enforced' = [enforced EXCEPT ![a] = file[a].key]
  /\ unread' = unread \ {a}
-----------------------------------------------------------------------------
(* The transport manager and PrepareManagedTransport.                      *)

FetchDesired(a) ==
  /\ manager[a] = "down"
  /\ want' = [want EXCEPT ![a] = token]
  /\ Become(a, "wanted")
  /\ UNCHANGED <<allVars, token, cycle, swap, url, chosen>>

\* Faulty variant: a cycle that is under way is not waited for.
PrepareWriteUnlocked(a) ==
  /\ manager[a] = "wanted"
  /\ WriteFile(a, [key |-> want[a], layout |-> "prepared"])
  /\ Become(a, "verify")
  /\ UNCHANGED <<allVars, token, want, cycle, enforced, url, chosen>>

PrepareWrite(a) ==
  /\ manager[a] = "wanted"
  /\ ~CycleLocks(a)
  /\ WriteFile(a, [key |-> want[a], layout |-> "prepared"])
  /\ Become(a, "verify")
  /\ UNCHANGED <<allVars, token, want, cycle, enforced, url, chosen>>

\* verifyLlamaSwapTokenEnforcement: a wrong token must be rejected and the
\* right one accepted.
Probe(a) ==
  /\ manager[a] \in {"verify", "check"}
  /\ Become(a, IF enforced[a] = want[a] THEN "prepared"
               ELSE IF manager[a] = "verify" THEN "ask" ELSE "down")
  /\ UNCHANGED <<allVars, token, want, cycle, swap, url, chosen>>

\* A heartbeat without URL and models asks for the whole worker.
PrepareAsk(a) ==
  /\ manager[a] = "ask"
  /\ Heartbeat(a, TRUE, {})
  /\ url' = url \ {a}
  /\ Become(a, IF granted'[a] # {} THEN "restart" ELSE "down")
  /\ UNCHANGED <<agents, left, token, want, cycle, swap, chosen>>

PrepareAskUnanswered(a) ==
  /\ manager[a] = "ask"
  /\ Spend("fault")
  /\ Heartbeat(a, TRUE, {})
  /\ url' = url \ {a}
  /\ Become(a, "down")
  /\ UNCHANGED <<agents, token, want, cycle, swap, chosen>>

PrepareRestart(a) ==
  /\ manager[a] = "restart"
  /\ loaded' = [loaded EXCEPT ![a] = {}]
  /\ ReadFile(a)
  /\ Become(a, "check")
  /\ UNCHANGED <<registry, desired, disk, seen, content, marker, wants, needed, ask, phase,
                 left, token, want, cycle, file, url, chosen>>

\* An inconclusive probe, a restart that fails, a bootstrap that is refused.
PrepareFails(a) ==
  /\ manager[a] \in {"verify", "ask", "restart", "check", "prepared"}
  /\ Spend("fault")
  /\ Become(a, IF manager[a] = "verify" THEN "ask" ELSE "down")
  /\ UNCHANGED <<registry, agents, token, want, cycle, swap, url, chosen>>

Register(a) ==
  /\ manager[a] = "prepared"
  /\ Become(a, "up")
  /\ UNCHANGED <<allVars, token, want, cycle, swap, url, chosen>>

\* The tunnel is lost, or the next poll finds another desired transport.
TunnelLost(a) ==
  /\ manager[a] = "up"
  /\ Spend("fault")
  /\ Become(a, "down")
  /\ UNCHANGED <<registry, agents, token, want, cycle, swap, url, chosen>>

PollChanged(a) ==
  /\ manager[a] = "up"
  /\ want[a] # token
  /\ want' = [want EXCEPT ![a] = token]
  /\ Become(a, "wanted")
  /\ UNCHANGED <<allVars, token, cycle, swap, url, chosen>>
-----------------------------------------------------------------------------
(* The reconcile cycle, with the transport it sees.                        *)

\* Faulty variant: a preparation that is under way is not waited for.
CycleBeginsUnlocked(a) ==
  /\ IF manager[a] = "up"
     THEN Fetch(a) /\ cycle' = [cycle EXCEPT ![a] = want[a]]
     ELSE Idles(a) /\ cycle' = [cycle EXCEPT ![a] = None] /\ UNCHANGED left
  /\ UNCHANGED <<tunnel, swap, url, chosen>>

\* transportForCycle is called under cycleMu.  Without a tunnel the cycle
\* neither asks llama-swap nor writes nor reports a restart.
CycleBegins(a) ==
  /\ ~ManagerLocks(a)
  /\ IF manager[a] = "up"
     THEN Fetch(a) /\ cycle' = [cycle EXCEPT ![a] = want[a]]
     ELSE Idles(a) /\ cycle' = [cycle EXCEPT ![a] = None] /\ UNCHANGED left
  /\ UNCHANGED <<tunnel, swap, url, chosen>>

CycleFetchFails(a) ==
  /\ ~ManagerLocks(a)
  /\ manager[a] = "up"
  /\ FetchFails(a)
  /\ cycle' = [cycle EXCEPT ![a] = want[a]]
  /\ UNCHANGED <<tunnel, swap, url, chosen>>

\* The change is deferred, or not even that; the file stays.
CycleDefers(a) ==
  /\ DeferConfig(a) \/ WriteFails(a)
  /\ UNCHANGED <<tunnel, cycle, swap, url, chosen>>

\* With nothing running the rendered file is written whenever its bytes differ.
CycleApplies(a) ==
  /\ ApplyConfig(a)
  /\ IF seen[a] = {}
     THEN WriteFile(a, [key |-> cycle[a], layout |-> "rendered"])
     ELSE UNCHANGED <<file, unread>>
  /\ UNCHANGED <<tunnel, cycle, enforced, url, chosen>>

CycleReports(a) ==
  /\ Report(a) \/ ReportUnanswered(a)
  /\ url' = IF cycle[a] # None THEN url \cup {a} ELSE url \ {a}
  /\ UNCHANGED <<tunnel, cycle, swap, chosen>>

\* The lease of the snapshot is gone meanwhile: the gateway answers conflict
\* and changes nothing.
CycleRefused(a) ==
  /\ phase[a] = "report"
  /\ cycle[a] # None
  /\ manager[a] # "up"
  /\ Goto(a, "idle")
  /\ UNCHANGED <<registry, desired, disk, loaded, seen, content, marker, wants, needed, ask,
                 left, tunnel, cycle, swap, url, chosen>>

CycleWrites(a) ==
  /\ WritePending(a)
  /\ IF ask[a] # {}
     THEN WriteFile(a, [key |-> cycle[a], layout |-> "rendered"])
     ELSE UNCHANGED <<file, unread>>
  /\ UNCHANGED <<tunnel, cycle, enforced, url, chosen>>

CycleRestarts(a) ==
  /\ Restart(a)
  /\ ReadFile(a)
  /\ UNCHANGED <<tunnel, cycle, file, url, chosen>>

\* verifyRestart asks with the token of the snapshot.
CycleVerifies(a) ==
  /\ IF enforced[a] = cycle[a]
     THEN Verify(a)
     ELSE /\ phase[a] = "verify"
          /\ Goto(a, "idle")
          /\ UNCHANGED <<registry, desired, disk, loaded, seen, content, marker, wants, needed,
                         ask, left>>
  /\ UNCHANGED <<tunnel, cycle, swap, url, chosen>>

CycleEnds(a) ==
  /\ Clear(a) \/ StepFails(a)
  /\ UNCHANGED <<tunnel, cycle, swap, url, chosen>>
-----------------------------------------------------------------------------
(* The environment.                                                        *)

\* -watch-config
Watch(a) ==
  /\ a \in unread
  /\ ReadFile(a)
  /\ loaded' = [loaded EXCEPT ![a] = {}]
  /\ UNCHANGED <<registry, desired, disk, seen, content, marker, wants, needed, ask, phase,
                 left, tunnel, cycle, file, url, chosen>>

\* The agent's process dies and its tunnel with it.
Crash(a) ==
  /\ AgentCrash(a)
  /\ Become(a, "down")
  /\ cycle' = [cycle EXCEPT ![a] = None]
  /\ UNCHANGED <<token, want, swap, url, chosen>>

\* Tokens are pinned while the gateway runs: a new one comes with a restart.
GatewayReturns ==
  /\ GatewayRestart
  /\ token' \in {token, token + 1} \cap (0..Tokens)
  /\ url' = {}
  /\ UNCHANGED <<manager, want, cycle, swap, chosen>>

\* A worker without a URL is not scheduled; one that loses it between being
\* scheduled and acquired is.
Schedule(r, w) ==
  /\ chosen[r] = None
  /\ serving[r] = None
  /\ w \in url
  /\ chosen' = [chosen EXCEPT ![r] = w]
  /\ UNCHANGED <<allVars, tunnel, cycle, swap, url>>

Assign(r, w) ==
  /\ chosen[r] = w
  /\ chosen' = [chosen EXCEPT ![r] = None]
  /\ Acquire(r, w) \/ UNCHANGED registry
  /\ UNCHANGED <<agents, left, tunnel, cycle, swap, url>>

Ends(r) == Release(r) /\ UNCHANGED <<agents, left, tunnel, cycle, swap, url, chosen>>

Traffic ==
  \/ \E r \in Requests :
       Ends(r) \/ \E w \in Workers : Schedule(r, w) \/ Assign(r, w)
  \/ Snapshot /\ UNCHANGED <<agents, left, tunnel, cycle, swap, url, chosen>>

Around ==
  /\ \/ Administration
     \/ TimePasses
     \/ \E m \in Models : Publish(m)
     \/ \E a \in Workers, m \in Models : Load(a, m) \/ Unload(a, m)
  /\ UNCHANGED <<tunnel, cycle, swap, url, chosen>>

ManagerStep(a) ==
  \/ FetchDesired(a)
  \/ PrepareWrite(a)
  \/ Probe(a)
  \/ PrepareAsk(a)
  \/ PrepareRestart(a)
  \/ Register(a)
  \/ PollChanged(a)

CycleStep(a) ==
  \/ CycleBegins(a)
  \/ CycleDefers(a)
  \/ CycleApplies(a)
  \/ CycleReports(a)
  \/ CycleRefused(a)
  \/ CycleWrites(a)
  \/ CycleRestarts(a)
  \/ CycleVerifies(a)
  \/ CycleEnds(a)

PrepNext ==
  \/ \E a \in Workers :
       \/ ManagerStep(a)
       \/ CycleStep(a)
       \/ CycleFetchFails(a)
       \/ PrepareAskUnanswered(a)
       \/ PrepareFails(a)
       \/ TunnelLost(a)
       \/ Watch(a)
       \/ Crash(a)
  \/ GatewayReturns
  \/ Traffic
  \/ Around

PrepSpec == PrepInit /\ [][PrepNext]_prepVars

\* Both loops run on, a mutex that is waited for is got some time (Go's are
\* handed over after a millisecond), and a request ends.  Whether llama-swap
\* watches its file is not relied upon.
PrepFairness ==
  /\ \A a \in Workers :
       /\ SF_prepVars(ManagerStep(a))
       /\ SF_prepVars(CycleStep(a))
  /\ \A r \in Requests : WF_prepVars(Ends(r))

PrepFairSpec == PrepSpec /\ PrepFairness
-----------------------------------------------------------------------------
(* Properties.                                                             *)

PrepTypeOK ==
  /\ CoordTypeOK
  /\ token \in 0..Tokens
  /\ manager \in [Workers -> {"down", "wanted", "verify", "ask", "restart", "check",
                              "prepared", "up"}]
  /\ want \in [Workers -> 0..Tokens]
  /\ cycle \in [Workers -> {None} \cup 0..Tokens]
  /\ file \in [Workers -> [key : {None} \cup 0..Tokens,
                           layout : {"empty", "prepared", "rendered"}]]
  /\ enforced \in [Workers -> {None} \cup 0..Tokens]
  /\ unread \subseteq Workers
  /\ url \subseteq Workers
  /\ chosen \in [Requests -> {None} \cup Workers]

\* What PrepareManagedTransport is for: while a tunnel is open, llama-swap
\* asks for the token of that tunnel, whatever cycles wrote the file before,
\* after or while it was prepared, and whenever llama-swap reads it.
ListenerGuarded ==
  \A a \in Workers : manager[a] \in {"prepared", "up"} => enforced[a] = want[a]

\* Neither actor restarts llama-swap under a request the gateway counts: the
\* permission of the one is not spoilt by a heartbeat of the other.
RestartsCutNothing ==
  \A a \in Workers \ forgotten :
    (phase[a] \in {"write", "restart", "verify", "clear"} \/ manager[a] \in {"restart", "check"})
      => InFlight(a) = {}

\* A tunnel that is down is prepared and comes up again, although the gateway
\* grants overlapping restarts one at a time and the cycle in between takes
\* the request for one back.
EveryTunnelComesUp == \A a \in Workers : manager[a] = "down" ~> manager[a] = "up"
=============================================================================
