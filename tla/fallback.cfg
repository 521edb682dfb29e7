\* Half-day ticks: three days in months of two, of which a rate may be a day old.
SPECIFICATION RatesSpec
CONSTANTS
  RateCallers = {"a"}
  Quotes = {"EUR"}
  Half = 2
  LastTick = 5
  MonthDays = 2
  MaxStaleness = 1
  FailureTTL = 1
  MaxCacheDays = 2
  MaxCalls = 3
PROPERTY RetriedAfterFailureTTL
CHECK_DEADLOCK FALSE
