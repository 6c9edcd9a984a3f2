SPECIFICATION Spec
CONSTANTS
  o1 = o1
  o2 = o2
  h1 = h1
  h2 = h2
  Objs = {o1, o2}
  Handles = {h1, h2}
  Null = Null
  MaxMsgs = 3
SYMMETRY MCSymmetry
INVARIANTS TypeOK OwnedOnce CallsOwnerBack Ledgers
