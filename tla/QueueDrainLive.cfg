SPECIFICATION FairSpec
CONSTANTS
  a1 = a1 a2 = a2 r1 = r1 r2 = r2
  Item <- ThreeItems
  Agent = {a1, a2}
  Rule = {r1}
  AgentOf <- LastElsewhere
  RuleOf <- OneRule
  Drain = {d1}
  Call = {}
  BatchSize = 2
  PerAgentLimit = 1
  FaultPoints = {"start", "complete", "crash"}
  MaxFaults = 1
  MaxRetries <- NeverAny
  MaxEdits <- NeverAny
  MaxOverlaps = 1
  MaxDelay = 1
  MaxOverdue = 0
PROPERTIES PendingIsDrained
