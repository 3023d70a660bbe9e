SPECIFICATION QueueSpec
CONSTANTS
  a = a
  b = b
  A = A
  B = B
  C = C
  recA = recA
  A1 = A1
  A2 = A2
  B1 = B1
  C1 = C1
  X1 = X1
  X2 = X2
  NoOwner = NoOwner
  Key = {a, b}
  Owner = {A, B, C, recA}
  Request = {A1, A2, B1, C1, X1, X2}
  Adopted = {X1}
  OwnerOf <- OwnerMap
  KeysOf <- KeyMap
  Timed = {A2, B1, X2}
  Signalled = {B1, C1}
\* A run ends when every request is resolved and released.
CHECK_DEADLOCK FALSE
PROPERTY ImplementsLockManager
