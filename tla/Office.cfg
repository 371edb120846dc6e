SPECIFICATION OfficeSpec
CONSTANTS
  p1 = p1  p2 = p2  k1 = k1  k2 = k2  s1 = s1  t1 = t1
  Visits = {v1}  Agents = {k1, k2}  None = None  MaxEdits = 3  MaxTurns = 3  MaxMishaps = 1
  Booked = {k1, k2}  Passes = {p1, p2}  Window = 2  MaxEarly = 1  MaxChanges = 1  MaxFailures = 1
  Syncs = {p1, p2}  Listings = {l1, l2}  Sellers = {k1, k2}  Nobody = Nobody  MaxMeliMoves = 3  MaxMeliFaults = 1
  Requests = {p1, p2}  RecordKeys = {k1, k2}  StarterLimit = 2  MaxRecords = 3  MaxRecordChanges = 2
  StageIds = {s1, s2, s3}  StageKeys = {t1, t2}  CallerOrders = {0}  Leads = {lead1}  Staff = {p1, p2}  NoStage = NoStage  MaxStageRequests = 5
  Importers = {p1, p2}  FileRows <- FiveRows  NoContact = "none"  ChunkSize = 2  MaxHookCalls = 1  MaxImportFaults = 1
SYMMETRY Symmetry
INVARIANTS OfficeTypeOK OutsideAgrees RecordsAgree
PROPERTIES NothingIsLost
CHECK_DEADLOCK FALSE
