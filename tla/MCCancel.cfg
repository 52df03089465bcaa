SPECIFICATION Spec
CONSTANTS
  hello = hello
  stopA = stopA
  otherB = otherB
  a = a
  b = b
  None = None
  Hello = hello
  Calls <- MCCalls
  Script <- MCScriptPair
  Services = {a, b}
  Service <- MCService
  Cancellable = {stopA, otherB}
  DaemonVersions <- MCVersions
  MinVersion = 1
  EventBuffer = 1
  MaxEvents = 0
  ListLength = 2
INVARIANTS NoLostWakeup SlotGuarded
CHECK_DEADLOCK FALSE
