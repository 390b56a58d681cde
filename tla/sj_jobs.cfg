SPECIFICATION Spec
CONSTANTS
  j1 = j1 j2 = j2 r1 = r1 r2 = r2 p1 = p1 p2 = p2
  Jobs = {j1, j2}
  Runs = {r1, r2}
  Contents = {p1, p2}
  FinalUrl <- FinalOf
  Identity <- IdentityOf
  Results <- ResultsOf
  Page <- PageOf
  Names = {"Ann", "Bob"}
  Words = {"magkano", "See original", "nice"}
  Noise = {"Like", "2 h", "3"}
  Chrome = {"Most relevant"}
  Excluded = {}
  Found <- FoundIn
  Within = {}
  Singletons = {"stok"}
  Strong = {"magkano"}
  Market = {}
  Chars <- CharsOf
  Opinion <- OpinionOf
  RepliedTo <- RepliedToOf
  ContentLimit = 2
  CommentLimit = 2
  MaxClicks = 1
  MaxScrolls = 1
  BatchSize = 2
  MaxBatchChars = 2
  MaxRetries = 1
  MaxStarts = 3
  MaxFaults = 2
INVARIANTS OneJobAtATime ScanInBounds AnswersReachTheirLead
PROPERTIES ScannedStays PlanRestsOnScan
CHECK_DEADLOCK FALSE
SYMMETRY Interchangeable
