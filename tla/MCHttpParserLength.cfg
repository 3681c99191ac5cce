CONSTANTS
  MaxLength = 2
  DecRadix = 2
  HexRadix = 2
  Types = {"BOTH"}
  Methods = {"CONNECT", "SOURCE"}
  StatusCodes = {101, 200}
  Tokens = {"conn_upgrade"}
SPECIFICATION Spec
INVARIANTS LengthIsDeclared
