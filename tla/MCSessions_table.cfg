\* Sessions that come and go, with one kill or shutdown.
CONSTANTS
  c1 = c1
  c2 = c2
  c3 = c3
  Conns = {c1, c2, c3}
  MaxClients = 2
  MaxFds = 3
  MaxKills = 1
  Free = Free
  Main = Main
SPECIFICATION FairSpec
INVARIANT TypeOK
INVARIANT ConnectionsAreListed
INVARIANT ReadsItsOwn
  
CHECK_DEADLOCK FALSE
