CONSTANTS
  c1 = c1
  c2 = c2
  k1 = k1
  o1 = o1
  None = None
  Superseded = "superseded"
  Derived = "derived"
  Names = {"derived", "api", "superseded"}
  Groups = {"g"}
  Tags = {"t"}
  Ports = {80}
  Ended = {"completed", "crashed"}
  Wrappers = {c1, c2}
  Clients = {k1}
  Typed = {"api", "derived"}
  Openers = {o1}
  MaxClock = 4
SPECIFICATION RSpec
CONSTRAINT Bounds
SYMMETRY Symmetry
INVARIANT TypeOK
INVARIANT PurgeRepeatable
INVARIANT RowHasLogs
 
PROPERTY PurgeSpares
PROPERTY UserNameKept
CHECK_DEADLOCK FALSE
