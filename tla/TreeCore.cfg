SPECIFICATION Spec
CONSTANTS
  d1 = d1
  d2 = d2
  d3 = d3
  c1 = c1
  c2 = c2
  c3 = c3
  gm = gm
  Unborn = Unborn
  Gone = Gone
  Null = Null
  Domains = {d1, d2, d3}
  Commands = {c1, c2, c3}
  Clients = {gm}
  Authority = gm
  MaxMoves = 3
  MaxDeletes = 1
SYMMETRY Interchangeable
INVARIANTS TypeOK WritesCurrent IndexAgrees
CHECK_DEADLOCK FALSE
PROPERTIES OnlyCrossingMovesClose
