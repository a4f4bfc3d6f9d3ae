CONSTANTS
  Callers <- Goroutines
  Processes <- Gateways
  ProcessOf <- Home
  None = None
  MaxRev = 5

  First <- InitialFile
  Yamls <- Edits
  Tags = {"gpu"}
  Torn = Torn
  Marker = Marker
  MaxArchives = 2
  MaxFaults = 2

  Models = {"a", "b"}
  Legacy = {"a"}
  Skew = 1
  Horizon = 3
  Turns = 2
  GatewayEvents = 1
  Faults = 1
  Queries = 1

  BilledModels = {"a", "b"}
  Aliases = {"x", "y"}
  Apps = {"p", "q"}
  Usages <- Billable
  Prices <- PriceLists
  ReadyCosts = {4, 22}
  OldLines = 1
  BillingQueries = {"s", "t"}
  Rank <- Names
  Fine = 3
  Multiple = 12
  BilledRequests = 2
  Changes = 1
  Imports = 2
  Fails = 1

  ScrapedWorkers = {"v", "w"}
  Scrapes = {"p", "q"}
  Keep = 2
  Cap = 3
  CountedRequests = 3
  Rounds = 3
SPECIFICATION PackSpec
INVARIANTS PromotionIsReversible SharesAddUp MoneyAddsUp CountedOnce
PROPERTIES Refinement ServedInOrder TransactionsKeepTheRest LedgerKept PersistSettles
CHECK_DEADLOCK FALSE
