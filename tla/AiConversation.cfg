SPECIFICATION Spec
CONSTANTS
  n1 = n1 n2 = n2
  Inbound = {n1, n2}
  Starter = {s1}
  Agent = {g1}
  Given = {"NEW", "WON"}
  MaxAttempts = 2
  MaxMoves = 1
  MaxFailures = 2
CHECK_DEADLOCK FALSE
SYMMETRY Symmetry
INVARIANTS TypeOK AnswersInTurn
PROPERTIES AiGivesWay
