SPECIFICATION Spec
CONSTANTS
  a = a
  b = b
  A = A
  B = B
  C = C
  recA = recA
  A1 = A1
  A2 = A2
  B1 = B1
  C1 = C1
  X1 = X1
  X2 = X2
  NoOwner = NoOwner
  Key = {a, b}
  Owner = {A, B}
  Request = {A1, A2, B1}
  Adopted = {}
  OwnerOf <- NestedOwnerOf
  KeysOf <- NestedKeysOf
  Timed = {A2, B1}
  Signalled = {}
\* A run ends when every request is resolved and released.
CHECK_DEADLOCK FALSE
INVARIANT NestedNeverWaits
