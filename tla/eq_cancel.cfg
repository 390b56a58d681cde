SPECIFICATION FairSpec
CONSTANTS
  i1 = i1 i2 = i2 w1 = w1 w2 = w2 p1 = p1 p2 = p2 r1 = r1
  Items = {i1, i2}
  Workers = {w1}
  Processes = {p1}
  ProcessOf <- OneProcess
  Runtimes = {r1}
  RuntimeOf <- OneRuntime
  MaxAttempts = 2
  Keywords = 1
  AutoReply = {i2}
  Cancellable = {i1}
  Faults = {}
  MaxStops = 0
  NoItem = NoItem
  NoWorker = NoWorker
INVARIANTS TablesAgree
PROPERTIES CancelLeadsToEnd
