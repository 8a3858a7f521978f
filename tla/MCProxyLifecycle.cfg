\* Two plugins, one client, one request and one handler at a time.
CONSTANTS
  p1 = p1
  p2 = p2
  c1 = c1
  r1 = r1
  h1 = h1
  Plugins <- TwoPlugins
  Connections <- OneConnection
  Requests <- OneRequest
  Handlers <- OneHandler
SPECIFICATION FairEmissionSpec
INVARIANTS
  RunsOnlyReady
  SettledIsClean
PROPERTIES
  HooksKeepContract
  StopSettlesEventually
  ListenSettles
CHECK_DEADLOCK FALSE
