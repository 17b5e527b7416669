CONSTANTS
  file = file
  alice = alice
  bob = bob
  Transfers = {file}
  Peers = {alice}
  PeerOf <- FromAlice
  Size = 1
  MaxConnections = 1
  MaxAccepts = 1
  MaxRestarts = 0
  AutoReceive = {FALSE}
SPECIFICATION Spec
INVARIANTS
  ContentNeedsConsent
\* The actions are bounded: the system stops when the bounds are used up.
CHECK_DEADLOCK FALSE
