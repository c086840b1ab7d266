SPECIFICATION Spec
CONSTANTS
  page = page
  frame1 = frame1
  frame2 = frame2
  request1 = request1
  handler1 = handler1
  handler2 = handler2
  Buses = {page, frame1, frame2}
  Peers <- MCPeers
  Requests = {request1}
  Owner <- MCOwner
  Timed = {request1}
  Servers = {frame1, frame2}
  Listeners = {frame1}
  Handlers = {handler1, handler2}
  Once = {handler1}
  MaxEvents = 2
  Uses <- MCUses
CHECK_DEADLOCK FALSE
INVARIANTS
  EntriesMatchPromises
  OnceFiresOnce
PROPERTIES
  EventuallySettled
  KeepsPromise
