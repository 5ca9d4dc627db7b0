CONSTANTS
  w1 = w1  w2 = w2  w3 = w3  p1 = p1  p2 = p2
  t1 = t1  t2 = t2  t3 = t3  c1 = c1  g1 = g1  g2 = g2
  alice = alice  bob = bob  i1 = i1  i2 = i2  x = x  y = y
  None = None
  Workers = {w1, w2}
  Processes = {p1, p2}
  ProcessOf <- OneProcess
  Tokens = {t1, t2, t3}
  Claims <- MCClaims
  Clients = {c1}
  Grants = {g1, g2}
  Identities = {alice, bob}
  RequestIds = {i1, i2}
  Arguments = {x, y}
  Requests <- AllRequests
  SingleUse = FALSE
  Window = 1
  MaxClock = 2
  MaxCrashes = 1
SPECIFICATION Spec
SYMMETRY Siblings
INVARIANTS AnswersAreOwnEffects EffectsVetted
