CONSTANTS
  o1 = o1
  o2 = o2
  None = None
  Superseded = "superseded"
  Names = {"api", "superseded"}
  Groups = {"g"}
  Tags = {"t"}
  Ports = {80}
  Wrappers = {"w"}
  Openers = {o1, o2}
  Ended = {"completed", "crashed"}
  MaxClock = 5
SPECIFICATION Spec
CONSTRAINT OpenedFirst
SYMMETRY Symmetry
INVARIANT TablesOK
INVARIANT Integrity
INVARIANT TargetsAgree
CHECK_DEADLOCK FALSE
