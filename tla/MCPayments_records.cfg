\* A charge, two callers and a notification; a payment told of and reconciled; two overlapping uploads.
CONSTANTS
  c1 = c1
  p1 = p1
  p2 = p2
  e1 = e1
  t = t
  h1 = h1
  h2 = h2
  g1 = g1
  g2 = g2
  g3 = g3
  n1 = n1
  u1 = u1
  u2 = u2
  i1 = i1
  i2 = i2
  t1 = t1
  t2 = t2
  None = None
  NoOne = NoOne
  NoId = NoId
  Charges = {c1}
  Manuals = {}
  Callers = {p1, p2}
  Events = {e1}
  Target <- OneTarget
  Total <- Price
  Amount <- Whole
  Reach = {"waiting_payment", "check_on_terminal", "at_terminal", "accredited", "expired", "canceled", "rejected", "refunded"}
  PageSize = 1
  Failures = {"crash", "timeout"}
  Notices = {n1}
  Handlers = {h1, h2}
  Crons = {g1, g2, g3}
  Window <- HoursOf
  Teams <- ThreeTeams
  VersionBound = 2
  TryBound = 2
  Uploads = {u1, u2}
  Files <- ThreeFiles
  Layouts = {"SIMPLE", "MERCADO_PAGO", "PAGBANK"}
  EditBound = 2
SPECIFICATION AllSpec
SYMMETRY Symmetric
CHECK_DEADLOCK FALSE
INVARIANTS NoApprovalLost SettledByProvider NoticesSafe FilesSafe
PROPERTIES ChargeLifecycle NoRollback
