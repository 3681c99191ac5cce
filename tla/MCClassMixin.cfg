CONSTANTS
  Stream = Stream
  Socket = Socket
  File = File
  Both = Both
  Logger = Logger
  close = close
  send = send
  log = log
  o1 = o1
  o2 = o2
  o3 = o3
  Nobody = Nobody
  Classes = {Stream, Socket, File, Both, Logger}
  Names = {close, send, log}
  Objects = {o1, o2, o3}
  Parents <- MCParents
  Ancestors <- MCAncestors
  Methods <- MCMethods
  Functions <- MCFunctions
  Winner <- MCWinner
  ClassOf <- MCClassOf
  Faults = {"string", "function", "property"}
SPECIFICATION Spec
INVARIANTS RunsOnItsClass MixinInherits OverridesWin
