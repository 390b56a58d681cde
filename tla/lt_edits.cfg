SPECIFICATION Spec
CONSTANTS
  u1 = u1 u2 = u2 w = w c1 = c1 c2 = c2 l1 = l1 l2 = l2 l3 = l3
  Users = {u1, u2}
  Worker = w
  Keywords <- KeywordsOf
  Contents = {c1, c2}
  Finds <- FindsOf
  Leads = {l1, l2, l3}
  ReportOf <- Reported
  Barred = {l3}
  Targets = {"invalid", "archived"}
  Reasons = {"given"}
  BulkOrders <- Backwards
  MaxRounds = 2
  MaxEdits = 2
  MaxFaults = 1
INVARIANTS ResultsAreKept
PROPERTIES LeadsKeepHistory
CHECK_DEADLOCK FALSE
SYMMETRY Interchangeable
