\* Two clients that create instances.
CONSTANTS
  c1 = c1
  c2 = c2
  n1 = n1
  n2 = n2
  n3 = n3
  n4 = n4
  Clients = {c1, c2}
  Nodes = {n1, n2, n3, n4}
  Null = Null
  MaxInstances = 2
  Commands = {"new"}
  MsgThread = MsgThread
  Nobody = Nobody
SPECIFICATION Spec
SYMMETRY Symmetry
INVARIANTS ListIntact CountIsLength CountBounded
