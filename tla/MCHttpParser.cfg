CONSTANTS
  MaxLength = 2
  DecRadix = 2
  HexRadix = 2
  Types = {"BOTH"}
  Methods = {"CONNECT"}
  StatusCodes = {101}
  Tokens = {"conn_upgrade"}
SPECIFICATION Spec
INVARIANTS TypeOK NothingStale BodyIsExact OneFrame FinishIsRight
PROPERTIES CallbackOrder UpgradePauses ExecuteReturns
