SPECIFICATION Spec
CONSTANTS
  c1 = c1 c2 = c2 f1 = f1 f2 = f2
  Leadgen = {g1}
  Hook = {h1}
  Fetcher = {f1, f2}
  Reviewer = {c1, c2}
  MaxDeliveries = 2
  MaxCrashes = 1
  MaxFaults = 1
SYMMETRY RequestSymmetry
INVARIANTS TypeOK LeadsMatchReviews
PROPERTIES ReviewIsFinal
