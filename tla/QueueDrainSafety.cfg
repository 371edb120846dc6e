SPECIFICATION Spec
CONSTANTS
  a1 = a1 a2 = a2 r1 = r1 r2 = r2
  Item <- TwoItems
  Agent = {a1}
  Rule = {r1}
  AgentOf <- OneGroup
  RuleOf <- OneRule
  Drain = {d1, d2}
  Call = {c1}
  BatchSize = 2
  PerAgentLimit = 2
  FaultPoints = {"catch"}
  MaxFaults = 1
  MaxRetries <- OnlyFirst
  MaxEdits <- OnlyFirst
  MaxOverlaps = 1
  MaxDelay = 1
  MaxOverdue = 0
INVARIANTS TypeOK WithinBudget BudgetInv
PROPERTIES RowsTellTheTruth ImplementsLedger
