SPECIFICATION FairSpec
CONSTANTS
  hello = hello
  stopA = stopA
  otherB = otherB
  a = a
  b = b
  None = None
  Hello = hello
  Calls <- MCCalls
  Script <- MCScriptList
  Services = {a, b}
  Service <- MCService
  Cancellable = {}
  DaemonVersions <- MCVersions
  MinVersion = 1
  EventBuffer = 1
  MaxEvents = 2
  ListLength = 2
INVARIANTS TypeOK ReplyMatches OneInFlight RightService StaysAligned SerialInv
PROPERTIES ImplementsSerial EveryCallReturns EventsKept
CHECK_DEADLOCK FALSE
