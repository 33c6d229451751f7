\* One client that deletes while the message thread walks the list.
CONSTANTS
  c1 = c1
  n1 = n1
  n2 = n2
  n3 = n3
  Clients = {c1}
  Nodes = {n1, n2, n3}
  Null = Null
  MaxInstances = 3
  Commands = {"use", "instances", "new", "delete"}
  MsgThread = MsgThread
  Nobody = Nobody
SPECIFICATION Spec
SYMMETRY Symmetry
INVARIANTS TypeOK CountIsLength
PROPERTY ImplementsRegistry
