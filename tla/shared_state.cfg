SPECIFICATION FairSpec
CONSTANTS
  p1 = p1
  m1 = m1
  c1 = c1
  c2 = c2
  q1 = q1
  q2 = q2
  q3 = q3
  q4 = q4
  s1 = s1
  chA = chA
  chB = chB
  TableClients = {d1, d2}
  TableKeys = {k1, k2}
  max_entries = 1
  MaxClock = 1
  Producers = {p1}
  Timers = {m1}
  Consumers = {c1, c2}
  Channels = {chA, chB}
  Routes <- MCRoutes
  max_channels = 1
  Capacities = {1, 2}
  Publishers = {q1, q2, q3, q4}
  Sessions = {s1}
  WsChannels = {chA, chB}
  WsRoutes <- MCWsRoutes
  ws_max_channels = 1
  channel_capacity = 2
INVARIANTS
  JobsConserved
  LoneConsumerWoken
  NoSilentGap
PROPERTIES
  SweepKeepsLive
  ExpiredReclaimed
  JobsEventuallyTaken
CHECK_DEADLOCK FALSE
