CONSTANTS
  owner = owner  agent = agent  tool = tool  stranger = stranger  host = host
  task = task  vendor = vendor  n0 = n0  n1 = n1  n2 = n2  a = a  b = b  c1 = c1  c2 = c2
  act = act  asset = asset
  None = None
  Fields = {act, asset}
  PaidFields = {asset}
  Values = {a, b}
  Amounts <- MCAmounts
  Digests <- MCDigests
  Actors = {owner, agent, tool, stranger}
  Machines = {host}
  Tasks = {task}
  Audiences = {vendor}
  TxNonces = {n0, n1, n2}
  Mandates <- MCMandates
  Hops <- MCHops
  Effects <- MCEffects
  Contents = {c1, c2}
  Carriers <- MCCarriers
  Payments <- MCPayments
  MaxClock = 3
  MaxHops = 2
  MaxReceipts = 2
SPECIFICATION PathSpec
CHECK_DEADLOCK FALSE
INVARIANTS PathIInv PathBound EffectInEveryScope WindowInEveryLink ChainConnected
PROPERTIES LedgerSpec
