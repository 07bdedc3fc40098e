\* The poller and the hint overlap on two deliveries, with a late request.
SPECIFICATION FairSpec
CONSTANTS
  s1 = s1
  s2 = s2
  poller = poller
  hint = hint
  k1 = k1
  Summaries = {s1, s2}
  Pollers = {poller}
  Hints = {hint}
  NoWorker = NoWorker
  NoRow = NoRow
  Limit = 2
  MaxAttempts = 2
  MaxTotal = 1
  MaxUploads = 2
  Slots = {k1}
  NoRequest = NoRequest
INVARIANT DeliveryInv
INVARIANT SentWasDelivered
PROPERTY EverySettles
