\* Three requests of the authorization server, two refreshes beside two
\* authorizations.
CONSTANTS
  k1 = k1
  k2 = k2
  k3 = k3
  r1 = r1
  w1 = w1
  w2 = w2
  c1 = c1
  c2 = c2
  Calls = {k1, k2, k3}
  Requests = {r1}
  MaxConnections = 1
  ConnectionBound = 2
  PairBound = 3
  AgeBound = 1
  Renewers = {w1, w2}
  Consents = {c1, c2}
  Nobody = Nobody
  TokenBound = 4
SYMMETRY Symmetric
SPECIFICATION Spec
CHECK_DEADLOCK FALSE
INVARIANTS OAuthSafe ProviderSafe
