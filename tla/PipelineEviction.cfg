SPECIFICATION Spec
CONSTANTS
  c1 = c1
  c2 = c2
  e1 = e1
  s1 = s1
  D1 = D1
  D2 = D2
  D3 = D3
  D4 = D4
  NoDelivery = NoDelivery
  Command = {c1, e1}
  Coordinated = {c1}
  SystemCommand = {}
  Delivery = {D1, D2, D4}
  CommandOf <- SmallCommandOf
  ContentOf <- SmallContentOf
  MaxConcurrency = 2
  MaxEntries = 1
  Cancellable = {}
INVARIANT SharedExecution
