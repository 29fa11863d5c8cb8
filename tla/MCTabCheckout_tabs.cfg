\* One tab that two users serve and pay, and a later tab of the same number.
CONSTANTS
  t1 = t1
  t2 = t2
  u1 = u1
  u2 = u2
  o1 = o1
  o2 = o2
  m1 = m1
  m2 = m2
  c1 = c1
  None = None
  Users = {u1, u2}
  Tabs = {t1, t2}
  Orders = {o1}
  Manuals = {m1, m2}
  Charges = {c1}
  Number <- SameNumber
  TabOf <- OnFirst
  MaxTotal = 2
  MaxVersion <- Versions
  Served = {t1}
SYMMETRY Symmetric
SPECIFICATION Spec
CHECK_DEADLOCK FALSE
INVARIANTS VersionNamesContent PaidHasPayment OneActivePerNumber
PROPERTIES CheckoutByResponsible PaidInFull
