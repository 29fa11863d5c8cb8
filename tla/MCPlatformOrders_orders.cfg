\* One order with the events of a dispute: two polls at once, or one poll and two operators.
CONSTANTS
  e1 = e1
  e2 = e2
  e3 = e3
  e4 = e4
  o1 = o1
  p1 = p1
  p2 = p2
  u1 = u1
  u2 = u2
  None = None
  Events = {e1, e2, e3, e4}
  Orders = {o1}
  Pollers = {p1, p2}
  Operators = {u1, u2}
  Kind <- KindOf
  Of <- OfOne
  Says <- SaysOf
  Worlds <- All
SPECIFICATION FairSpec
CHECK_DEADLOCK FALSE
INVARIANTS EventsKept ProviderTold
PROPERTIES EventsEnd
