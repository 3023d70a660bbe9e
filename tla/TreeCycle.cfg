SPECIFICATION Spec
CONSTANTS
  d1 = d1
  d2 = d2
  c1 = c1
  c2 = c2
  gm = gm
  Unborn = Unborn
  Gone = Gone
  Null = Null
  Domains = {d1, d2}
  Commands = {c1, c2}
  Clients = {gm}
  Authority = gm
  MaxMoves = 2
  MaxDeletes = 0
SYMMETRY Interchangeable
INVARIANTS Acyclic
CHECK_DEADLOCK FALSE
