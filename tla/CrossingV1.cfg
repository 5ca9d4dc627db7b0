CONSTANTS
  v1 = v1  v2 = v2  iss = iss  a1 = a1  a2 = a2  n1 = n1  n2 = n2
  echo = echo  other = other  m1 = m1  m2 = m2  t1 = t1  t2 = t2
  None = None
  Verifiers = {v1, v2}
  Authorities <- V1Authorities
  Initials <- MCInitials
  Crossings <- V1Crossings
  Issuers = {iss}
  Ids = {a1, a2}
  Nonces = {n1, n2}
  Terms = {echo, other}
  Messages = {m1, m2}
  Tasks = {t1, t2}
  SecondProfile = FALSE
  MaxStatusAge = 1
  MaxClock = 2
  MaxCrashes = 1
SPECIFICATION Spec
SYMMETRY Instances
INVARIANTS OneEffectPerAuthority
