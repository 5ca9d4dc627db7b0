CONSTANTS
  n1 = n1  n2 = n2  r1 = r1  alice = alice  bob = bob  key = key
  stolen = stolen  pay = pay  move = move  home = home  g1 = g1
  None = None
  Nonces = {n1, n2}
  RequestIds = {r1}
  Parties = {alice, bob}
  Keys = {key, stolen}
  Actions = {pay, move}
  Audiences = {home}
  Audience = home
  Gates = {g1}
  Mandates <- MCMandates
  RequestAuthorities <- MCRequestAuthorities
  ExecutorAuthorities <- MCExecutorAuthorities
  Credentials <- MCCredentials
  MaxClock = 2
  MaxRestarts = 1
  MaxRevoked = 1
SPECIFICATION Spec
CHECK_DEADLOCK FALSE
INVARIANTS IInv PassWarranted OneRelationPerNonce
