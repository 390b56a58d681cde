SPECIFICATION Spec
CONSTANTS
  c1 = c1 c2 = c2 t1 = t1 t2 = t2 s1 = s1 s2 = s2 r1 = r1
  Campaigns = {c1}
  Tenants = {t1}
  TenantOf <- OneTenant
  Schedulers = {s1, s2}
  Requests = {}
  Settings <- EveryOne
  QueueLimit = 1
  ExecutionQuota = 2
  RetryDelay = 1
  Day = 4
  FoldAt = 0
  Fold = 0
  Horizon = 3
  MaxItems = 3
  MaxEdits = 2
  Editable = {"put", "disable", "status", "keywords", "suspend"}
  MaxCrashes = 0
  Never = Never
  Nobody = Nobody
INVARIANTS WindowEnqueuedOnce ChargedIsEnqueued
PROPERTIES DisabledStaysDisabled
CHECK_DEADLOCK FALSE
SYMMETRY Interchangeable
