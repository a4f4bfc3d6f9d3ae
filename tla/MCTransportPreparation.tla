----------------------- MODULE MCTransportPreparation -----------------------
EXTENDS TransportPreparation, TLC

Bounds(c, f, t, a, l) ==
  ("change" :> c) @@ ("fault" :> f) @@ ("tick" :> t) @@ ("admin" :> a) @@ ("load" :> l)

One == {CHOOSE w \in Workers : TRUE}

\* The agents [Up] have their tunnels, for the token [t], and serve what was
\* published before; One of them runs every model of [models], and [version]
\* was just published.  The other agents start.
Scenario(Up, t, version, models, budget) ==
  /\ Init
  /\ desired = [m \in Models |-> version]
  /\ disk = [a \in Workers |-> [m \in Models |-> 0]]
  /\ loaded = [a \in Workers |-> IF a \in One THEN models ELSE {}]
  /\ seen = loaded
  /\ content = disk
  /\ marker = {}
  /\ wants = {}
  /\ needed = {}
  /\ ask = [a \in Workers |-> {}]
  /\ phase = [a \in Workers |-> "idle"]
  /\ left = budget
  /\ token = Tokens
  /\ manager = [a \in Workers |-> IF a \in Up THEN "up" ELSE "down"]
  /\ want = [a \in Workers |-> IF a \in Up THEN t ELSE 0]
  /\ cycle = [a \in Workers |-> IF a \in Up THEN t ELSE None]
  /\ file = [a \in Workers |-> IF a \in Up THEN [key |-> t, layout |-> "rendered"]
                               ELSE [key |-> None, layout |-> "empty"]]
  /\ enforced = cycle
  /\ unread = {}
  /\ url = {}
  /\ chosen = [r \in Requests |-> None]

Nothing == Bounds(0, 0, 0, 0, 0)
Fault == Bounds(0, 1, 0, 0, 0)

\* Both agents start; both have tunnels, and a change, a model that is loaded,
\* silence, the admin or a fault comes; one of them finds a new token.
MCInit ==
  \/ Scenario({}, Tokens, 0, {}, Fault)
  \/ Scenario(Workers, Tokens, 1, Models, Fault)
  \/ Scenario(Workers, Tokens, 1, Models, Bounds(0, 0, 2, 0, 0))
  \/ Scenario(Workers, Tokens, 0, {}, Bounds(1, 0, 0, 0, 1))
  \/ Scenario(Workers, Tokens, 0, {}, Bounds(0, 0, 0, 1, 1))
  \/ Scenario(One, 0, 0, {}, Nothing)

MCFairSpec == MCInit /\ [][PrepNext]_prepVars /\ PrepFairness
=============================================================================
