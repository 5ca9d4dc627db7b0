CONSTANTS
  None = None
  tool = tool  x = x  y = y  n1 = n1  n2 = n2  n3 = n3
  acme = acme  bolt = bolt  me = me  other = other
  id = id  badge = badge  home = home  away = away
  Controls = {control}
  Mutations = {mutated}
  Replay = replay
  Misreports <- MCMisreports
  MaxFaults = 1
  Contents <- MCContents
  Stamps <- MCStamps
  zulu = zulu  offset = offset
  Fields = {tool}
  Values = {x, y}
  Nonces = {n1, n2, n3}
  MaxMinted = 2
  Links <- MCLinks
  Requirements <- MCRequirements
  MaxItems = 3
  MaxClock = 2
SPECIFICATION Spec
INVARIANTS GradingSound ReceiptSound SubjectSound
