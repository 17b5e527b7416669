CONSTANTS
  file = file
  alice = alice
  bob = bob
  Transfers = {file}
  Peers = {alice, bob}
  PeerOf <- FromAlice
  Size = 1
  MaxConnections = 1
  MaxAccepts = 1
  MaxRestarts = 1
  AutoReceive = {TRUE, FALSE}
SPECIFICATION FairSpec
PROPERTIES
  CompletionRecorded
\* The actions are bounded: the system stops when the bounds are used up.
CHECK_DEADLOCK FALSE
