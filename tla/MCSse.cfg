SPECIFICATION FairSpec
CONSTANTS
  Conns = {c1, c2}
  Publishers = {worker, aggregator}
  MaxBroadcasts = 1
  MaxFaults = 1
INVARIANTS TypeOK RegisteredReads
PROPERTIES ServerStarts FanoutEnds
CHECK_DEADLOCK FALSE
