\* Two members of the staff on one order; two masters, a letter; two of each thing a store is set up
\* with; and two calls of a tool that the hour allows once.
CONSTANTS
  u1 = u1
  u2 = u2
  o1 = o1
  m1 = m1
  m2 = m2
  k1 = k1
  k2 = k2
  t1 = t1
  d1 = d1
  d2 = d2
  l1 = l1
  l2 = l2
  l3 = l3
  i1 = i1
  i2 = i2
  x1 = x1
  x2 = x2
  s1 = s1
  s2 = s2
  a1 = a1
  a2 = a2
  q1 = q1
  q2 = q2
  None = None
  NoBody = NoBody
  Nobody = Nobody
  Users = {u1, u2}
  Orders = {o1}
  MaxNeed = 2
  MaxVersion = 4
  MaxItem = 2
  People = {m1, m2}
  Masters = {m1, m2}
  Letters = {t1}
  Clerks = {k1, k2}
  Visits = 4
  Desks = {d1, d2}
  Requests = 5
  Looks = {l1, l2, l3}
  Products = {i1, i2}
  Codes = {x1, x2}
  Stores = {s1, s2}
  Admins = {a1, a2}
  ToolCalls = {q1, q2}
  HourLimit = 1
  PageSize = 1
  Edits = 1
  OtherBills = 1
SPECIFICATION StaffSpec
SYMMETRY Symmetric
CHECK_DEADLOCK FALSE
INVARIANTS StockSafe AccessSafe SetupSafe ToolsSafe
PROPERTIES LegalMoves DraftsApart
