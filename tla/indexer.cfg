SPECIFICATION ReconnectSpec
CONSTANTS
  p1 = p1
  p2 = p2
  r1 = r1
  r2 = r2
  c1 = c1
  c2 = c2
  None = None
  Callers = {p1, p2}
  Roles <- Split
  Slots = {r1, r2}
  Chans = {c1, c2}
  Keys <- AllKeys
  Clients = {1, 2}
  Requests <- AddRequests
  LateSharing = FALSE
INVARIANTS ChannelOpenWhileUsed RegisteredIffWatched StopIsFinal
PROPERTIES StopEventuallyReturns RemoveEventuallyReturns SubscriptionRestored
CHECK_DEADLOCK FALSE
