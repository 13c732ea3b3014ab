CONSTANTS
  ann = ann
  bob = bob
  Accounts = {ann, bob}
  Old = {ann}
  Server = {1, 2}
  Agent = {3, 4}
  First = 0
  None = none
  Unknown = unknown
  Asks <- McAsks
  MaxFaults = 2
SPECIFICATION Spec
INVARIANTS FileAsSaid LiveAsSaid
PROPERTIES CreationKeepsAccounts
