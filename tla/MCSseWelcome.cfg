SPECIFICATION FairSpec
CONSTANTS
  Conns = {c1, c2}
  Publishers = {worker}
  MaxBroadcasts = 2
  MaxFaults = 0
PROPERTY ClientIsWelcomed
CHECK_DEADLOCK FALSE
