SPECIFICATION FairSpec
CONSTANTS
  i1 = i1 i2 = i2 w1 = w1 w2 = w2 p1 = p1 p2 = p2 r1 = r1
  Items = {i1}
  Workers = {w1, w2}
  Processes = {p1, p2}
  ProcessOf <- TwoProcesses
  Runtimes = {r1}
  RuntimeOf <- OneRuntime
  MaxAttempts = 2
  Keywords = 2
  AutoReply = {}
  Cancellable = {}
  Faults = {"crash", "post_run"}
  MaxStops = 2
  NoItem = NoItem
  NoWorker = NoWorker
INVARIANTS TypeOK RunningIsRecoverable RunsBounded
PROPERTIES ImplementsJobLifecycle QueueDrains
