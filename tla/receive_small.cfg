SPECIFICATION Spec
CONSTANTS
  r1 = r1
  r2 = r2
  d1 = d1
  d2 = d2
  Messages = {r1, r2, d1, d2}
  Redirects = {r1, r2}
  countHeader <- MCCountThree
  Senders = {s1, s2}
  RingCapacity = 1
  BackCapacity = 4
  PartCapacity = 1
  MAX_REDIRECT = 1
  MaxCounter = 2
INVARIANT QueuesMatch
INVARIANT HandledOnce
INVARIANT FloodBounded
PROPERTY HandledComplete
