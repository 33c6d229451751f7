\* Two clients that race, without a lock, on one instance with one stream.
CONSTANTS
  c1 = c1
  c2 = c2
  s1 = s1
  Clients = {c1, c2}
  Streams = {s1}
  NumInstances = 1
  Commands = {"load", "pause", "stop"}
  Events = {"print"}
  PipeSize = 1
  MsgThread = MsgThread
  Nobody = Nobody
  NoFd = NoFd
SPECIFICATION Spec
SYMMETRY Symmetry
INVARIANT NoDanglingDescriptor
