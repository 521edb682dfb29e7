SPECIFICATION MCSpec
CONSTANTS
  Second = 4
  DurationBits = 8
  MaxPages = 3
  Operations <- AllOperations
  Statuses = {200, 302, 400, 403, 404, 408, 429, 503}
  Afters = {0, 5, 31}
  RateCallers = {"a", "b"}
  Users <- Processes
  Resolvers <- Processes
  Submitters <- Processes
  Quotes = {"EUR"}
  Half = 2
  LastTick = 5
  MonthDays = 2
  MaxStaleness = 1
  FailureTTL = 1
  MaxCacheDays = 2
  MaxCalls = 3
  MaxRevoked = 1
  MaxFailures = 1
  Tickers = {"AAPL", "MSFT"}
  MaxResolves = 3
  Manager <- Managers
  Keys = {"new", "old"}
  NoKey = ""
  Payloads = {"p", "q"}
  LegacyKeys = {"old"}
  MaxRows = 3
INVARIANTS
  WriteExecutesAtMostOnce
  RejectionIsDefinitive
  ExecutedWasRecorded
  SuccessIsWhole
  RateIsRecent
  FailureSuppressesRetries
  RefusedCrumbIsNotReused
  UnknownIsTheTablesAnswer
  SentAgree
PROPERTY
  EveryCallReturns
CHECK_DEADLOCK FALSE
