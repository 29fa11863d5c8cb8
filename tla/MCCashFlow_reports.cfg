\* Commands on one payable that overlap, series, and reports while little else happens.
CONSTANTS
  u1 = u1
  u2 = u2
  a1 = a1
  a2 = a2
  None = None
  Clients = {u1, u2}
  Amounts = {1, 2}
  Accounts = {a1, a2}
  LengthOf <- Calendar
  Year = 3
  MostOccurrences = 3
  Worlds <- All
  Opening <- Balances
  Orders = {1, 2}
  Release <- ReleaseOf
  Net <- NetOf
  AccountOf <- Credited
  Expected = {1}
  Horizon = 1
SPECIFICATION Spec
SYMMETRY Symmetric
CHECK_DEADLOCK FALSE
INVARIANTS PayablesCorrect ReportsAgree
