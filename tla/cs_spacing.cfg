SPECIFICATION FairSpec
CONSTANTS
  c1 = c1 c2 = c2 t1 = t1 t2 = t2 s1 = s1 s2 = s2 r1 = r1
  Campaigns = {c1}
  Tenants = {t1}
  TenantOf <- OneTenant
  Schedulers = {s1}
  Requests = {r1}
  Settings <- EveryTwoOrDaily
  QueueLimit = 1
  ExecutionQuota = 2
  RetryDelay = 1
  Day = 4
  FoldAt = 0
  Fold = 0
  Horizon = 5
  MaxItems = 3
  MaxEdits = 1
  Editable = {"run"}
  MaxCrashes = 2
  Never = Never
  Nobody = Nobody
INVARIANTS TypeOK BacklogBounded
PROPERTIES RunsFollowSchedule DueIsServed NextRunIsFuture
CHECK_DEADLOCK FALSE
