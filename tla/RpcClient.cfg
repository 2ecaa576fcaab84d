\* Two clones, three calls after the probe, one retry, a limiter of one request per tick.
SPECIFICATION FairSpec
CONSTANTS
  Callers = {main, worker}
  Main = main
  MaxRetries = 1
  BaseDelay = 1
  MaxDelay = 1
  Rate = 1
  Statuses = {404, 503}
  Codes = {}
  Used = {"get_block_by_number"}
  MaxCalls = 3
  MaxTicks = 2
INVARIANTS RetryDiscipline RateCapped ProbeSound
PROPERTY EveryCallReturns
