--------------------------- MODULE MCGatewayStores ---------------------------
(***************************************************************************)
(* An instance of what a gateway writes down (GatewayStores).  The parts   *)
(* share no state, so a behaviour is one of one of them; billing is        *)
(* looked at twice: one model whose requests are imported and settled, and *)
(* the views of requests spread over models, aliases and applications.     *)
(***************************************************************************)
EXTENDS GatewayStores, TLC

\* Two goroutines of one gateway and one of another.
Goroutines == {"a1", "a2", "b1"}
Gateways == {"a", "b"}
Home(c) == IF c = "b1" THEN "b" ELSE "a"
-----------------------------------------------------------------------------
(* A configuration, and what an editor sends.                              *)

Y(old, alias, policy, tokens, store_, secret) ==
  [old |-> old, alias |-> alias, target |-> "on", policies |-> [t \in {"gpu"} |-> policy],
   tokens |-> tokens, store |-> store_, secret |-> secret]
Def(d, off) == [def |-> d, disabled |-> off]
Both == {"old", "target"}

InitialFile == Y(Def("d", TRUE), FALSE, Both, "t", "s", "k")

\* Another definition, enabled; another definition, disabled; other tokens;
\* another metrics store, with the alias set by hand.
Edits == {Y(Def("e", FALSE), FALSE, Both, "t", "s", Marker),
          Y(Def("e", TRUE), FALSE, Both, "t", "s", Marker),
          Y(Def("d", TRUE), FALSE, Both, "u", "s", Marker),
          Y(None, TRUE, {"target"}, "t", "r", Marker)}

\* A request with cached input, and one that took no measurable time.
Cached == [prompt |-> 3, completion |-> 1, cache |-> 2, seconds |-> 2]
Timeless == [prompt |-> 1, completion |-> 0, cache |-> 2, seconds |-> 0]

ByToken == [flat |-> 0, input |-> 3, output |-> 4, cached |-> 1]
ByRequest == [flat |-> 5, input |-> 1, output |-> 1, cached |-> 1]

Billable == {Cached, Timeless}
PriceLists == {ByToken, ByRequest}

Names == "a" :> 1 @@ "b" :> 2 @@ None :> 0 @@ "x" :> 1 @@ "y" :> 2
-----------------------------------------------------------------------------
\* Requests of one model at changing prices, imported and settled.
InLedger(i) ==
  /\ log[i].model = "a" /\ log[i].app = "p" /\ log[i].usage = Cached
  /\ log[i].alias = IF i <= OldLines THEN None ELSE "x"
Ledgers ==
  /\ \A i \in DOMAIN log : InLedger(i)
  /\ prices["b"] = ByToken /\ \A m \in BilledModels : readyCosts[m] = 4
  /\ billingSpent.served <= 1

\* Requests of any model, alias and application, at one price.
Views ==
  /\ \A i \in 1..OldLines : InLedger(i)
  /\ \A m \in BilledModels : prices[m] = ByToken
  /\ billingSpent.changes + billingSpent.imports + billingSpent.fails = 0
  /\ \A q \in BillingQueries : queries[q].phase = "no"

Looked == IF moving = "views" THEN Views ELSE Ledgers

\* No share is lost in a division: three rows of no or two seconds at most.
ASSUME \A n \in {1, 2, 3, 4, 6} : Multiple % n = 0

PackInit == StoresInit /\ Looked /\ \A m \in BilledModels : prices[m] = ByToken
PackNext == StoresNext /\ Looked'

PackSpec == PackInit /\ [][PackNext]_storesVars
=============================================================================
