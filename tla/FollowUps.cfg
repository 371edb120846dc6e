SPECIFICATION FairSpec
CONSTANTS
  r1 = r1 s1 = s1 l1 = l1
  Run <- OneRun
  Sequence = {s1}
  Lead = {l1}
  SeqOf <- SameSequence
  LeadOf <- SameLead
  StepList <- WithEmail
  Tick = {t1, t2}
  Editor = {e1}
  BatchSize = 1
  MaxOverlaps = 1
  MaxEdits = 2
  MaxFaults = 1
CHECK_DEADLOCK FALSE
INVARIANTS TypeOK StepsInOrder
PROPERTIES RunsEnd
