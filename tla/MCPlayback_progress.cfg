\* One client, two streams, players that are killed without a word.
CONSTANTS
  c1 = c1
  s1 = s1
  s2 = s2
  Clients = {c1}
  Streams = {s1, s2}
  NumInstances = 1
  Commands = {"load", "key", "raw"}
  Events = {"kill"}
  PipeSize = 1
  MsgThread = MsgThread
  Nobody = Nobody
  NoFd = NoFd
SPECIFICATION FairSpec
PROPERTIES PlayingNeedsAPlayer CommandsReturn
