SPECIFICATION Spec
CONSTANTS
  s1 = s1 s2 = s2 p1 = p1 p2 = p2 c1 = c1 c2 = c2 t1 = t1 t2 = t2
  Senders = {s1, s2}
  Pages = {p1, p2}
  PageOf <- OwnPages
  Comments = {c1}
  Texts = {t1, t2}
  Requests <- Mixed
  MaxCalls = 3
  MaxFaults = 1
  NoText = NoText
  Mention = Mention
  Nobody = Nobody
INVARIANTS HistoryProtects
PROPERTIES PostsWhatWasAsked
CHECK_DEADLOCK FALSE
