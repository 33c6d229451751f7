\* A pause that races with the end of the medium.
CONSTANTS
  c1 = c1
  s1 = s1
  Clients = {c1}
  Streams = {s1}
  NumInstances = 1
  Commands = {"load", "pause"}
  Events = {}
  PipeSize = 1
  MsgThread = MsgThread
  Nobody = Nobody
  NoFd = NoFd
SPECIFICATION FairSpec
PROPERTY StoppedAfterExit
