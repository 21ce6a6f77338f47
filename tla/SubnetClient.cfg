\* Two clients, two accounts; one late receipt or lost transaction.
CONSTANTS
  Clients = {c1, c2}
  Accounts = {a, b}
  None = None
  Amounts = {1}
  MinCollateral = 1
  MinValidators = 1
  ActiveLimit = 1
  MaxCommands = 3
  MaxQueue = 2
  MaxFaults = 1
SPECIFICATION Spec
SYMMETRY Symmetry
INVARIANTS TypeOK InitialBalanceIsDecided ReportedJoinCounts GenesisInfoIsGenesis
CHECK_DEADLOCK FALSE
