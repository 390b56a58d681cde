SPECIFICATION Spec
CONSTANTS
  ann = ann bob = bob new = new k1 = k1 k2 = k2 w1 = w1 w2 = w2 i1 = i1 i2 = i2
  Users = {ann, bob, new}
  Newcomer = new
  Founders = {ann, bob}
  Offered = {"admin", "member"}
  Tokens = {k1, k2}
  NoToken = NoToken
  Threads = {w1, w2}
  Invitations = {i1, i2}
  NoInvitation = NoInvitation
  MaxUsers = 2
  SessionTtl = 3
  IdleTimeout = 2
  TouchInterval = 1
  MaxClock = 3
  MaxRequests = 3
INVARIANTS SessionsLive MembershipHolds
PROPERTIES EntitledChanges
CHECK_DEADLOCK FALSE
SYMMETRY Interchangeable
