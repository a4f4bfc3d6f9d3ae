---------------------------- MODULE BillingLedger ----------------------------
(***************************************************************************)
(* The requests that are billed (request_records) and the views billing    *)
(* makes of them (src/internal/gateway/billing.go).  A request the gateway *)
(* serves is written to the table with the prices of that moment, and to   *)
(* the log.  The log may be imported (src/cmd/import-records), in whole or *)
(* up to an interruption, and again.  A line of an old version has no      *)
(* prices: a billing query computes its cost from the prices in force, and *)
(* may persist it.  Queries run at the same time, and prices change.       *)
(*                                                                         *)
(* Money is counted in units, Fine of them to a micro-dollar; what is      *)
(* stored is rounded to a micro-dollar.  A price is per token.             *)
(***************************************************************************)
EXTENDS Integers, FiniteSets, FiniteSetsExt, Sequences, SequencesExt, Functions

CONSTANTS Models,     \* canonical models
          Aliases,    \* service aliases
          Apps,       \* applications
          Usages,     \* [prompt, completion, cache, seconds] of a request
          Prices,     \* [flat, input, output, cached]
          ReadyCosts, \* what the ready time of a model may cost
          OldLines,   \* lines of an old version in the log
          Queries,    \* billing queries that persist what they compute
          Rank,       \* models, aliases and None in the order of their names
          Fine,       \* units in a micro-dollar
          Whole,      \* multiple of every number of requests and of seconds
          Served,     \* bound: requests served
          Changes,    \* bound: changes of prices
          Imports,    \* bound: imports begun
          Fails,      \* bound: statements and transactions that fail
          None        \* no alias, no prices, not running

\* The prices a request was billed at, and its cost.
Snaps == [price : Prices, cost : Int]

\* What an instance assumes of its constants.
BillingAssumption ==
  /\ Fine \in Nat \ {0} /\ Whole \in Nat \ {0}
  /\ {Served, Changes, Imports, Fails, OldLines} \cup ReadyCosts \subseteq Nat
  /\ Usages \subseteq [prompt : Nat, completion : Nat, cache : Nat, seconds : Nat]
  /\ Prices \subseteq [flat : Nat, input : Nat, output : Nat, cached : Nat]
  /\ None \notin Snaps
  /\ \A S \in {Models, Aliases \cup {None}, Apps} : IsFiniteSet(S)
  /\ \A S \in {Models, Aliases \cup {None}} : \A x, y \in S :
       Rank[x] \in Int /\ (Rank[x] = Rank[y] => x = y)

VARIABLES prices,    \* model -> price, as configured
          ready,     \* model -> cost of its ready time
          log,       \* gateway-requests.jsonl
          table,     \* request_records
          importing, \* the last line imported by the running import, or None
          queries,   \* query -> [phase, prices, rows]
          spent      \* [served, changes, imports, fails]

vars == <<prices, ready, log, table, importing, queries, spent>>
-----------------------------------------------------------------------------
(* The cost of a request                                                   *)

\* calculateConfiguredUsageCost
UsageCost(p, u) ==
  IF p.flat > 0 THEN p.flat
  ELSE Max({u.prompt - u.cache, 0}) * p.input + u.completion * p.output + u.cache * p.cached

\* roundMoney, and the scale of the columns.
Rounded(x) == Fine * ((2 * x + Fine) \div (2 * Fine))

Snapshot(p, u) == [price |-> p, cost |-> UsageCost(p, u)]

Stored(line, hash) ==
  [id |-> line.id, model |-> line.model, alias |-> line.alias, app |-> line.app,
   usage |-> line.usage, hash |-> hash,
   snap |-> IF line.snap = None THEN None ELSE [line.snap EXCEPT !.cost = Rounded(@)]]

UsedCost(r, P) == IF r.snap # None THEN r.snap.cost ELSE UsageCost(P[r.model], r.usage)

Frozen(r) == r.snap # None
-----------------------------------------------------------------------------
Line(id, m, a, app, u, s) == [id |-> id, model |-> m, alias |-> a, app |-> app, usage |-> u, snap |-> s]

Init ==
  /\ prices \in [Models -> Prices]
  /\ ready \in [Models -> ReadyCosts]
  /\ \E u \in [1..OldLines -> Usages], m \in [1..OldLines -> Models], app \in Apps :
       log = [i \in 1..OldLines |-> Line(i, m[i], None, app, u[i], None)]
  /\ table = <<>>
  /\ importing = None
  /\ queries = [q \in Queries |-> [phase |-> "no", prices |-> prices, rows |-> {}]]
  /\ spent = [served |-> 0, changes |-> 0, imports |-> 0, fails |-> 0]

\* recordRequestStats: the table first, then the log; an error of the table
\* is logged and the request is in the log alone.
Serve(m, a, app, u) ==
  LET line == Line(OldLines + spent.served + 1, m, a, app, u, Snapshot(prices[m], u)) IN
  /\ spent.served < Served
  /\ log' = Append(log, line)
  /\ \/ /\ table' = Append(table, Stored(line, 0))
        /\ spent' = [spent EXCEPT !.served = @ + 1]
     \/ /\ spent.fails < Fails
        /\ UNCHANGED table
        /\ spent' = [spent EXCEPT !.served = @ + 1, !.fails = @ + 1]
  /\ UNCHANGED <<prices, ready, importing, queries>>

Reprice(m, p) ==
  /\ spent.changes < Changes
  /\ prices' = [prices EXCEPT ![m] = p]
  /\ spent' = [spent EXCEPT !.changes = @ + 1]
  /\ UNCHANGED <<ready, log, table, importing, queries>>

ImportBegin ==
  /\ importing = None
  /\ spent.imports < Imports
  /\ importing' = 0
  /\ spent' = [spent EXCEPT !.imports = @ + 1]
  /\ UNCHANGED <<prices, ready, log, table, queries>>

\* INSERT ... ON CONFLICT DO NOTHING, with the unique index on source_hash.
Inserted(t, i) == IF \E j \in DOMAIN t : t[j].hash = i THEN t ELSE Append(t, Stored(log[i], i))

ImportLine ==
  /\ importing # None
  /\ importing < Len(log)
  /\ table' = Inserted(table, importing + 1)
  /\ importing' = importing + 1
  /\ UNCHANGED <<prices, ready, log, queries, spent>>

\* The end of the log, an error, or the process is stopped.
ImportEnd ==
  /\ importing # None
  /\ importing' = None
  /\ UNCHANGED <<prices, ready, log, table, queries, spent>>

\* handleBilling takes the prices of the configuration,
QueryBegin(q) ==
  /\ queries[q].phase = "no"
  /\ queries' = [queries EXCEPT ![q] = [phase |-> "begun", prices |-> prices, rows |-> {}]]
  /\ UNCHANGED <<prices, ready, log, table, importing, spent>>

\* billingRequests
QueryRead(q) ==
  /\ queries[q].phase = "begun"
  /\ queries' = [queries EXCEPT ![q].phase = "read", ![q].rows = ToSet(table)]
  /\ UNCHANGED <<prices, ready, log, table, importing, spent>>

\* Faulty variant: the prices are taken when the cost is written.
SettledLate(t, q) ==
  [i \in DOMAIN t |->
     IF ~Frozen(t[i]) /\ \E r \in queries[q].rows : ~Frozen(r) /\ r.id = t[i].id
     THEN [t[i] EXCEPT !.snap = [price |-> prices[t[i].model],
                                 cost |-> Rounded(UsageCost(prices[t[i].model], t[i].usage))]]
     ELSE t[i]]

\* UPDATE ... WHERE request_id = ... AND cost_calculated_at IS NULL, for each
\* row that was not settled when it was read.
Settled(t, q) ==
  [i \in DOMAIN t |->
     IF ~Frozen(t[i]) /\ \E r \in queries[q].rows : ~Frozen(r) /\ r.id = t[i].id
     THEN [t[i] EXCEPT !.snap = [price |-> queries[q].prices[t[i].model],
                                 cost |-> Rounded(UsageCost(queries[q].prices[t[i].model], t[i].usage))]]
     ELSE t[i]]

\* persistBillingRequestCosts: one transaction.
QueryPersist(q) ==
  /\ queries[q].phase = "read"
  /\ table' = Settled(table, q)
  /\ queries' = [queries EXCEPT ![q].phase = "done"]
  /\ UNCHANGED <<prices, ready, log, importing, spent>>

QueryFails(q) ==
  /\ queries[q].phase \in {"begun", "read"}
  /\ spent.fails < Fails
  /\ spent' = [spent EXCEPT !.fails = @ + 1]
  /\ queries' = [queries EXCEPT ![q].phase = "failed"]
  /\ UNCHANGED <<prices, ready, log, table, importing>>

Next ==
  \/ \E m \in Models, a \in Aliases \cup {None}, app \in Apps, u \in Usages : Serve(m, a, app, u)
  \/ \E m \in Models, p \in Prices : Reprice(m, p)
  \/ ImportBegin \/ ImportLine \/ ImportEnd
  \/ \E q \in Queries : QueryBegin(q) \/ QueryRead(q) \/ QueryPersist(q) \/ QueryFails(q)

Spec == Init /\ [][Next]_vars
-----------------------------------------------------------------------------
(* The views: buildBillingSummary of all rows, at the prices in force.     *)

SumOver(S, f(_)) == SumFunctionOnSet([x \in S |-> f(x)], S)
Over(P(_), f(_)) == SumOver({i \in DOMAIN table : P(table[i])}, LAMBDA i : f(table[i]))

Used(r) == UsedCost(r, prices)
One(r) == 1

ModelUsed(m) == Over(LAMBDA r : r.model = m, Used)
AppUsed(app) == Over(LAMBDA r : r.app = app, Used)
Idle(m) == ready[m] - ModelUsed(m)

Seconds(m, A) == Over(LAMBDA r : r.model = m /\ r.app \in A, LAMBDA r : r.usage.seconds)
Calls(m, A) == Over(LAMBDA r : r.model = m /\ r.app \in A, One)

\* allocateAppIdleCosts: by seconds, or by requests if there are no seconds.
Basis(m, A) == IF Seconds(m, Apps) > 0 THEN Seconds(m, A) ELSE Calls(m, A)

\* Whole times the share of an application in what a model cost idle.
IdleShare(m, app) ==
  IF Idle(m) <= 0 \/ Basis(m, {app}) = 0 THEN 0
  ELSE (Idle(m) * Whole * Basis(m, {app})) \div Basis(m, Apps)
AppIdle(app) == SumOver(Models, LAMBDA m : IdleShare(m, app))

\* What Whole promises: nothing is lost in the divisions above and below.
WholeFits == \A m \in Models : \A n \in {Calls(m, Apps), Basis(m, Apps)} \ {0} : Whole % n = 0
-----------------------------------------------------------------------------
(* groupBillingModelsByAlias                                               *)

\* Requests of a model under an alias; a model without requests counts as
\* one request without alias.
Requests(m, a) == Over(LAMBDA r : r.model = m /\ r.alias = a, One)
Asked(m) == Calls(m, Apps)
Count(m, a) == IF Asked(m) = 0 THEN (IF a = None THEN 1 ELSE 0) ELSE Requests(m, a)

GroupUsed(a) == Over(LAMBDA r : r.alias = a, Used)

Cell(m, a) ==
  LET raw == ready[m] * Count(m, a) * (Whole \div Max({Asked(m), 1}))
  IN [model |-> m, alias |-> a, raw |-> raw]
Cells == {Cell(c[1], c[2]) : c \in {d \in Models \X (Aliases \cup {None}) : Count(d[1], d[2]) > 0}}

Micro == Fine * Whole
Target == Rounded(SumOver(Models, LAMBDA m : ready[m])) \div Fine

\* Largest remainder first; then by name.
Before(c, d) ==
  LET rc == c.raw % Micro  rd == d.raw % Micro IN
  \/ rc > rd
  \/ rc = rd /\ Rank[c.model] < Rank[d.model]
  \/ rc = rd /\ c.model = d.model /\ Rank[c.alias] < Rank[d.alias]

\* Faulty variant: each cell is rounded by itself.
AllocatedRounded(c) == (2 * c.raw + Micro) \div (2 * Micro)

\* allocateBillingMicros: what is left over is dealt out in that order.
Allocated(c) ==
  LET cells == Cells
      place == Cardinality({d \in cells : Before(d, c)})
      left == Target - SumOver(cells, LAMBDA d : d.raw \div Micro)
  IN c.raw \div Micro + (IF left > place THEN 1 + (left - place - 1) \div Cardinality(cells) ELSE 0)
-----------------------------------------------------------------------------
(* Properties.                                                             *)

\* "This makes historical billing stable after later price changes": what is
\* settled stays, whatever prices do and also when two queries read a row
\* before either wrote it; and what a query settles is all it read, at the
\* prices it began with, whatever was imported or served in between.
PersistSettles ==
  [][/\ \A i \in DOMAIN table :
         /\ i \in DOMAIN table'
         /\ Frozen(table[i]) => table'[i] = table[i]
     /\ \A q \in DOMAIN queries :
          queries[q].phase = "read" /\ queries'[q].phase = "done" =>
            \A i \in DOMAIN table :
              /\ (\E r \in queries[q].rows : r.id = table[i].id) => Frozen(table'[i])
              /\ Frozen(table'[i]) /\ ~Frozen(table[i]) =>
                   table'[i].snap.price = queries[q].prices[table[i].model]]_vars

\* The money of both views adds up, however requests are spread over models,
\* aliases and applications, and whether or not they took any time.  "alias
\* rows and canonical-version breakdowns add back exactly to the rounded actual
\* occupancy total", and no cell is off by a micro-dollar; what was used is the
\* same by alias as by model; and the applications are charged what the models
\* they asked for cost, or what they used if that is more.
MoneyAddsUp ==
  /\ SumOver(Models, ModelUsed) = SumOver(Aliases \cup {None}, GroupUsed)
  /\ LET cells == Cells  micros == [c \in cells |-> Allocated(c)] IN
       /\ SumFunctionOnSet(micros, cells) = Target
       /\ \A c \in cells : micros[c] * Micro > c.raw - Micro /\ micros[c] * Micro < c.raw + Micro
  /\ SumOver(Apps, LAMBDA app : AppUsed(app) * Whole + AppIdle(app))
       = Whole * SumOver({m \in Models : Asked(m) > 0}, LAMBDA m : Max({ready[m], ModelUsed(m)}))
=============================================================================
