\* Two charges, a manual payment and one caller compete for one balance; the reconciliation is fair.
\* Four requests with one key.
CONSTANTS
  c1 = c1
  c2 = c2
  c3 = c3
  c4 = c4
  m1 = m1
  p1 = p1
  t = t
  t3 = t3
  t4 = t4
  None = None
  Charges = {c1, c2, c3, c4}
  Manuals = {m1}
  Callers = {p1}
  Events = {}
  Target <- TargetOf
  Total <- Price
  Amount <- Whole
  Reach = {"waiting_payment", "accredited", "expired"}
  PageSize = 2
  Failures = {"timeout"}
  a1 = a1
  a2 = a2
  a3 = a3
  a4 = a4
  x = x
  y = y
  Commands = {a1, a2, a3, a4}
  BodyOf <- Bodies
  NoAnswer = NoAnswer
SPECIFICATION AllSpec
CHECK_DEADLOCK FALSE
INVARIANTS OneActiveCharge  CommandOnce
PROPERTIES EndedChargesClose
