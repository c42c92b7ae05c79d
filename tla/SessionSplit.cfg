SPECIFICATION Spec
CONSTANTS
  Clients = {c1}
  Nobody = Nobody
  Names = {"ma"}
  Verbs = {"create", "drop", "show"}
  Broken = Broken
  MaxData = 3
  Backlog = 0
  Split = TRUE
PROPERTIES OrderIsWhole
CHECK_DEADLOCK FALSE
