\* Two overlapping flushes of one summary: uploads may arrive in the other order.
SPECIFICATION Spec
CONSTANTS
  u1 = u1
  u2 = u2
  o1 = o1
  f1 = f1
  f2 = f2
  k1 = k1
  Usage = {u1}
  Outcomes = {}
  Flushes = {f1, f2}
  NoFlush = NoFlush
  NoRow = NoRow
  Limit = 2
  MaxCount = 0
  MaxWrites = 3
  Slots = {}
  NoRequest = NoRequest
SYMMETRY FlushSymmetry
INVARIANT NewestIsKept
