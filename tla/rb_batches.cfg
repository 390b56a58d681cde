SPECIFICATION BatchSpec
CONSTANTS
  s1 = s1 p1 = p1 c1 = c1 c2 = c2 c3 = c3 c4 = c4 t1 = t1 r1 = r1 r2 = r2
  Senders = {s1}
  Pages = {p1}
  PageOf <- OnePage
  Comments = {c1, c2, c3, c4}
  Texts = {t1}
  Requests <- BatchRequests
  Leads <- SixLeads
  Policy <- PolicyFor
  Segments = {"club", "posts", "7", "reel"}
  Ids = {"shop", "club", "fan"}
  Labels = {"7 h"}
  Sections = {"reel", "posts"}
  LinkLimit = 2
  Scanned <- OneMissing
  BatchMax = 2
  Reports = {r1, r2}
  AcceptanceMax = 1
  DailyLimit = 2
  MaxBatches = 4
  MaxCalls = 9
  MaxFaults = 1
  NoText = NoText
  Mention = Mention
  Nobody = Nobody
INVARIANTS CountsAreKept OnlyCoveredSources
PROPERTIES UnverifiedIsLast ReadyIsSafe
CHECK_DEADLOCK FALSE
