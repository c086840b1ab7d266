SPECIFICATION Spec
CONSTANTS
  r1 = r1
  r2 = r2
  c1 = c1
  c2 = c2
  o1 = o1
  o2 = o2
  a1 = a1
  f1 = f1
  NoMessage = NoMessage
  Requests = {r1, r2}
  Connections = {c1, c2}
  Origins = {o1, o2}
  Whitelist = {o1}
  PageOf <- MCPageOf
  Layouts <- MCLayouts
  Broadcasts = {r1}
  Approvals = {a1}
  Fees = {f1}
  MaxChanges = 1
  MaxRestarts = 1
CHECK_DEADLOCK FALSE
INVARIANTS
  TypeOK
  NoLostWaiter
  PendingIsUndecided
PROPERTIES
  EventuallyAnswered
  KeepsPromise
