SPECIFICATION Spec
CONSTANTS
  a = a
  bb = bb
  None = None
  Versions = {4, 5, 7}
  LongSize = 8
  Texts = {a, bb}
  Services = {a, bb}
  Size <- MCSize
  Handle <- MCHandle
  Statuses <- MCStatuses
  Events = {"STOPPED"}
  Chunk <- MCChunk
  Found <- MCFound
  Calls <- MCCalls
  MaxInfo = 1
  Most = 2
INVARIANTS TypeOK Faithful StaysOnPackets Understood OnItsWay
CHECK_DEADLOCK FALSE
