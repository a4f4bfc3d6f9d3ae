---------------------------- MODULE GatewayStores ----------------------------
(***************************************************************************)
(* What a gateway writes down: the revision store (RevisionStore), the     *)
(* configuration (ConfigManager), the ready intervals (ReadyIntervals),    *)
(* the billed requests (BillingLedger) and the requests that its metrics   *)
(* count (GatewayMetrics).  The variables and constants of the parts that  *)
(* would have the same names are told apart here.  The parts share no      *)
(* state, so that a behaviour of one of them at a time is all there is to  *)
(* see.  The billed requests are there twice, as an instance may look at   *)
(* their settlement with other bounds than at the views of them.           *)
(***************************************************************************)
EXTENDS RevisionStore

\* ConfigManager
CONSTANTS Torn, Marker, First, Yamls, Tags, MaxArchives, MaxFaults

\* ReadyIntervals
CONSTANTS Models, Legacy, Skew, Horizon, Turns, GatewayEvents, Faults, Queries

\* BillingLedger
CONSTANTS BilledModels, Aliases, Apps, Usages, Prices, ReadyCosts, OldLines,
          BillingQueries, Rank, Fine, Multiple, BilledRequests, Changes, Imports, Fails

\* GatewayMetrics
CONSTANTS ScrapedWorkers, Scrapes, Keep, Cap, CountedRequests, Rounds

VARIABLES file, archives, store, mem, txn, configServed, origin, faults,
          now, readyModels, backlog, beat, events, rows, backfill, heard, intervalSpent,
          prices, readyCosts, log, table, importing, queries, billingSpent,
          history, requests, scrapes, seen, seenOrder, counted, rounds,
          moving \* the one that moves

configVars == <<file, archives, store, mem, txn, configServed, origin, faults>>
intervalVars == <<now, readyModels, backlog, beat, events, rows, backfill, heard, intervalSpent>>
billingVars == <<prices, readyCosts, log, table, importing, queries, billingSpent>>
metricsVars == <<history, requests, scrapes, seen, seenOrder, counted, rounds>>

Config == INSTANCE ConfigManager WITH served <- configServed

Intervals == INSTANCE ReadyIntervals WITH
  Calls <- GatewayEvents, ready <- readyModels, spent <- intervalSpent

Ledger == INSTANCE BillingLedger WITH
  Models <- BilledModels, Queries <- BillingQueries, Whole <- Multiple, Served <- BilledRequests,
  ready <- readyCosts, spent <- billingSpent

Metrics == INSTANCE GatewayMetrics WITH
  Workers <- ScrapedWorkers, Requests <- CountedRequests, served <- requests

ASSUME GatewayStoresAssumption ==
  /\ Config!ConfigManagerAssumption /\ Intervals!IntervalAssumption
  /\ Ledger!BillingAssumption /\ Metrics!MetricsAssumption

StoresInit ==
  /\ moving \in {"revisions", "config", "intervals", "settlement", "views", "metrics"}
  /\ Init /\ Config!Init /\ Intervals!Init /\ Ledger!Init /\ Metrics!Init

StoresNext ==
  /\ \/ /\ moving = "revisions" /\ Next
        /\ UNCHANGED <<configVars, intervalVars, billingVars, metricsVars>>
     \/ /\ moving = "config" /\ Config!Next
        /\ UNCHANGED <<vars, intervalVars, billingVars, metricsVars>>
     \/ /\ moving = "intervals" /\ Intervals!Next
        /\ UNCHANGED <<vars, configVars, billingVars, metricsVars>>
     \/ /\ moving \in {"settlement", "views"} /\ Ledger!Next
        /\ UNCHANGED <<vars, configVars, intervalVars, metricsVars>>
     \/ /\ moving = "metrics" /\ Metrics!Next
        /\ UNCHANGED <<vars, configVars, intervalVars, billingVars>>
  /\ UNCHANGED moving

storesVars == <<vars, configVars, intervalVars, billingVars, metricsVars, moving>>
-----------------------------------------------------------------------------
\* No reader is served an older revision after a newer one (see ConfigManager).
ServedInOrder == Config!ServedInOrder

\* A promotion can be taken back (see ConfigManager).
PromotionIsReversible == Config!PromotionIsReversible

\* A promotion or rollback keeps what waits for a restart (see ConfigManager).
TransactionsKeepTheRest == Config!TransactionsKeepTheRest

\* Closed intervals are history (see ReadyIntervals).
LedgerKept == Intervals!LedgerKept

\* The shares of the models in what was ready (see ReadyIntervals).
SharesAddUp == moving = "intervals" => Intervals!SharesAddUp

\* Settled costs stay, and a query settles what it read (see BillingLedger).
PersistSettles == Ledger!PersistSettles

\* The money of both views of the bill, wherever Whole is what it stands for
\* (see BillingLedger).
MoneyAddsUp == moving = "views" /\ Ledger!WholeFits => Ledger!MoneyAddsUp

\* A request is counted once however often it is scraped (see GatewayMetrics).
CountedOnce == Metrics!CountedOnce
=============================================================================
