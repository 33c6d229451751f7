\* One client, two streams that overlap on one instance, failing system calls.
CONSTANTS
  c1 = c1
  s1 = s1
  s2 = s2
  Clients = {c1}
  Streams = {s1, s2}
  NumInstances = 1
  Commands = {"load", "stop", "reset", "volume"}
  Events = {"pipe", "fork"}
  PipeSize = 1
  MsgThread = MsgThread
  Nobody = Nobody
  NoFd = NoFd
SPECIFICATION Spec
SYMMETRY Symmetry
\* CMD_VOLUME keeps the lock, and so does a failed pipe(): the daemon stops.
CHECK_DEADLOCK FALSE
INVARIANTS TypeOK NoDanglingDescriptor UnloadsOnlyWhatEnded EveryChildHasAWaiter
