\* An approval that is not settled yet, and a manual payment.
CONSTANTS
  c1 = c1
  c2 = c2
  m1 = m1
  m2 = m2
  p1 = p1
  p2 = p2
  e1 = e1
  t = t
  None = None
  Charges = {c1}
  Manuals = {m1}
  Callers = {p1}
  Events = {}
  Target <- OneTarget
  Total <- Price
  Amount <- Whole
  Reach = {"waiting_payment", "accredited"}
  PageSize = 1
  Failures = {}
SPECIFICATION Spec
CHECK_DEADLOCK FALSE
INVARIANTS NoDoubleSettlement
