\* A usage summary and a segment outcome, two overlapping flushes, one late request.
SPECIFICATION FairSpec
CONSTANTS
  u1 = u1
  u2 = u2
  o1 = o1
  f1 = f1
  f2 = f2
  k1 = k1
  Usage = {u1}
  Outcomes = {o1}
  Flushes = {f1, f2}
  NoFlush = NoFlush
  NoRow = NoRow
  Limit = 2
  MaxCount = 1
  MaxWrites = 2
  Slots = {k1}
  NoRequest = NoRequest
INVARIANT OutboxInv
INVARIANT SendingIsHeld
INVARIANT SentWasStored
INVARIANT NeverOverCounted
PROPERTY Drained
