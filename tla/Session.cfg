\* Two clients of a server that may be killed at any point and started again.
SPECIFICATION CrashSpec
CONSTANTS
  Clients = {c1, c2}
  Nobody = Nobody
  Names = {"ma"}
  Verbs = {"create", "drop", "reset", "y", "exit"}
  Broken = Broken
  MaxData = 3
  Backlog = 0
  Split = FALSE
INVARIANTS TypeOK AnswerWhole DisconnectIsHarmless HeldConnections
PROPERTIES OrderIsWhole DialogueSpec Answered ServerMovesOn
CHECK_DEADLOCK FALSE
