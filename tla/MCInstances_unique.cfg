\* A lookup during the search for a free id.
CONSTANTS
  c1 = c1
  c2 = c2
  n1 = n1
  n2 = n2
  Clients = {c1, c2}
  Nodes = {n1, n2}
  Null = Null
  MaxInstances = 2
  Commands = {"use", "new"}
  MsgThread = MsgThread
  Nobody = Nobody
SPECIFICATION Spec
SYMMETRY Symmetry
INVARIANT UniqueIds
