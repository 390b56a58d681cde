SPECIFICATION Spec
CONSTANTS
  c1 = c1 c2 = c2 t1 = t1 t2 = t2 h1 = h1 h2 = h2 e1 = e1 e2 = e2
  Candidates = {c1}
  Texts = {t1, t2}
  Phrases = {"price", "buy", "order", "rival", "reseller", "staff", "http", "refund"}
  Campaign <- OneCampaign
  Rules <- ThreeRules
  Readings <- ThreeReadings
  InitialRules = {1, 3}
  Edited = {3}
  Rendered = {t1}
  NoText = NoText
  Handlers = {h1, h2}
  Executors = {e1, e2}
  Operations <- AllOperations
  MaxOps = 3
  MaxRuns = 2
  MaxGenerations = 2
  MaxCrashes = 1
  MaxBusy = 2
INVARIANTS ApprovedTextOnly
PROPERTIES SentIsFinal WithdrawnIsFinal ProposedByRule
CHECK_DEADLOCK FALSE
SYMMETRY Interchangeable
