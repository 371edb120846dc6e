SPECIFICATION DashboardSpec
CONSTANTS
  p1 = p1  p2 = p2  k1 = k1  k2 = k2
  Tabs = {p1, p2}  People = {k1, k2}  NoOne = NoOne  RenewalLimit = 2  MaxTabCalls = 2  MaxSessionMoves = 6
  MaxRequests = 2  MaxPageMoves = 3  MaxPageFaults = 1
  Deals = {p1, p2}  Amounts = {90}  Percentages = {0, 5}  MaxDealMoves = 4
  FbPages = {k1, k2}  EveryForm = EveryForm  NoPage = NoPage  MaxWizardMoves = 9  MaxWizardFaults = 1
  Jobs = {p1, p2}  MaxRounds = 2  MaxReelFaults = 1
  HoursADay = 3  DaysAhead = 2
SYMMETRY Symmetry
INVARIANTS DashboardTypeOK SessionIsWhole PagesAreTrue SourcesAreWired DealsAddUp FunctionsAgree
PROPERTIES StepsAreKept
CHECK_DEADLOCK FALSE
