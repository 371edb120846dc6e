SPECIFICATION FairSpec
CONSTANTS
  m1 = m1 a1 = a1 a2 = a2
  Message <- OneMessage
  Sendable <- OneMessage
  Addressed <- OneMessage
  Agent <- TwoAgents
  Provisioned <- OneAgent
  Nobody = Nobody
  Inline = {i1}
  Processor = {w1}
  Call = {c1}
  FaultPoints = {"enqueue", "record", "fail", "request"}
  MaxFaults = 1
  MaxCrashes = 1
  MaxRetries = 1
INVARIANTS TypeOK SendsAreAccountedFor
PROPERTIES ImplementsOutbox QueuedIsSettled
