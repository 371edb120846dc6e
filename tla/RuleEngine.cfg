SPECIFICATION Spec
CONSTANTS
  a1 = a1  a2 = a2  l1 = l1  l2 = l2  l3 = l3  None = None
  Lead = {l1, l2, l3}
  Agents <- TwoAgents
  Rules <- ThreeRules
  Event <- Occasions
  MaxFailures = 1
CHECK_DEADLOCK FALSE
INVARIANTS TypeOK ActionsRunOnce MatchedRulesAreHandled 
