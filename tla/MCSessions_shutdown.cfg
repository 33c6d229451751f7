\* One client that sends shutdown now.
CONSTANTS
  c1 = c1
  c2 = c2
  Conns = {c1, c2}
  MaxClients = 2
  MaxFds = 3
  MaxKills = 1
  Free = Free
  Main = Main
SPECIFICATION FairSpec
PROPERTY ShutdownStops
CHECK_DEADLOCK FALSE
