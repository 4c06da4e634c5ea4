SPECIFICATION Spec
CHECK_DEADLOCK FALSE
CONSTANTS
  p = p  c = c  c2 = c2  sp = sp  sc = sc  Main = Main  NoRecord = NoRecord
  Runs = {p, c, c2}
  Session <- MCSession
  Requester <- MCRequester
  Successor <- MCSuccessor
  Expects = {c, c2}
  DeleteAfter = {c, c2}
  Labelled = {}
  DeliveryFails = {c}
  WaitFails = {p}
  Killable = {c}
  Archived = {p}
  MAX_ANNOUNCE_RETRY_COUNT = 2
  MaxRestarts = 1
INVARIANTS TypeOK AnnouncedOnce SilencedIsSilent ClaimHasFlow DeferredAreServed
