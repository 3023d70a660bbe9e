SPECIFICATION Spec
CONSTANTS
  c1 = c1
  c2 = c2
  e1 = e1
  s1 = s1
  D1 = D1
  D2 = D2
  D3 = D3
  D4 = D4
  NoDelivery = NoDelivery
  Command = {c1, c2, s1}
  Coordinated = {c1, c2, s1}
  SystemCommand = {s1}
  Delivery = {D1, D2, D3, D4}
  CommandOf <- CoreCommandOf
  ContentOf <- CoreContentOf
  MaxConcurrency = 1
  MaxEntries = 3
  Cancellable = {c1}
INVARIANTS
  Consistent
  SharedExecution
  TrueReceipts
PROPERTY NoOvertaking
