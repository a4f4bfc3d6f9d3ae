----------------------- MODULE MCRestartCoordination -----------------------
EXTENDS RestartCoordination, TLC

Bounds(c, f, t, a, l) ==
  ("change" :> c) @@ ("fault" :> f) @@ ("tick" :> t) @@ ("admin" :> a) @@ ("load" :> l)

\* Faults; an agent the gateway does not hear of; an admin at work.
FairBudgets == {Bounds(1, 1, 0, 0, 2), Bounds(1, 0, 2, 0, 1), Bounds(1, 0, 0, 2, 1)}

\* The change is published already and nothing else happens.
NothingMore == {Bounds(0, 0, 0, 0, 0)}

\* Both workers are registered and serve one request each, with different
\* models, and a new configuration of both models was just published.
Model == CHOOSE f \in [Workers -> Models] : \A v, w \in Workers : f[v] = f[w] => v = w
Request == CHOOSE f \in [Workers -> Requests] : \A v, w \in Workers : f[v] = f[w] => v = w

BusyInit ==
  /\ known = Workers
  /\ age = [w \in Workers |-> 0]
  /\ draining = {}
  /\ needs = {}
  /\ failures = [w \in Workers |-> 0]
  /\ backoff = [w \in Workers |-> 0]
  /\ active = [w \in Workers |-> 1]
  /\ manual = {}
  /\ holder = [s \in Scopes |-> None]
  /\ serving = [r \in Requests |-> CHOOSE w \in Workers : Request[w] = r]
  /\ forgotten = {}
  /\ granted = [w \in Workers |-> {}]
  /\ desired = [m \in Models |-> 1]
  /\ disk = [a \in Workers |-> [m \in Models |-> 0]]
  /\ loaded = [a \in Workers |-> {Model[a]}]
  /\ seen = loaded
  /\ content = disk
  /\ marker = {}
  /\ wants = {}
  /\ needed = {}
  /\ ask = [a \in Workers |-> {}]
  /\ phase = [a \in Workers |-> "idle"]
  /\ left \in Budgets

BusyFairSpec == BusyInit /\ [][CoordNext]_allVars /\ CoordFairness
=============================================================================
