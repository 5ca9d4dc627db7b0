CONSTANTS
  n1 = n1  n2 = n2  q1 = q1  q2 = q2  agent = agent  d1 = d1  d2 = d2
  pay = pay  move = move  home = home
  v1 = v1  v2 = v2  errand = errand  other = other
  None = None
  Nonces = {n1, n2}
  Requests = {q1, q2}
  Subjects = {agent}
  Delegations = {d1, d2}
  Actions = {pay, move}
  Audiences = {home}
  Versions = {v1, v2}
  Purposes = {errand, other}
  Declarations <- MCDeclarations
  Authorities <- MCAuthorities
  Policies <- MCPolicies
  Controls <- MCControls
  MaxClock = 1
  MaxRestarts = 1
SPECIFICATION Spec
INVARIANTS IInv GatePassesPermitted AnswersTrueOfAdmission
PROPERTIES LedgerSpec
