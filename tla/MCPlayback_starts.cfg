\* A load on one instance while the other is paused.
CONSTANTS
  c1 = c1
  s1 = s1
  s2 = s2
  Clients = {c1}
  Streams = {s1, s2}
  NumInstances = 2
  Commands = {"load", "pause"}
  Events = {"print"}
  PipeSize = 1
  MsgThread = MsgThread
  Nobody = Nobody
  NoFd = NoFd
SPECIFICATION FairMutexSpec
PROPERTY AcceptedLoadStarts
