\* Two keys in a cache of one entry, and two calls that overlap on them.
SPECIFICATION Spec
CONSTANTS
  k1 = k1  k2 = k2  c1 = c1  c2 = c2
  None = None
  Keys <- TwoKeys
  Calls <- TwoCalls
  Forces <- BothForces
  Lifetimes <- Granting
  JwtExpiry = 3
  MaxTtl = 2
  MaxEntries = 1
  MaxTime = 2
  MaxClears = 2
SYMMETRY Symmetry
INVARIANTS LeaseInv NoRefill SingleFlight InBounds
PROPERTIES OwnIsCurrent
