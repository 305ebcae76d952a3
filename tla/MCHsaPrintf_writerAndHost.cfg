SPECIFICATION Spec
CONSTANTS
  fText = fText
  fPair = fPair
  fWidth = fWidth
  d = d
  Uninitialized = Uninitialized
  NoMessage = NoMessage
  Formats <- MCFormats
  Specifiers <- MCSpecifiers
  Data <- MCData
  Messages <- WriterMessages
  Writers = {t1}
  Hosts = {t2}
  num = 5
  GarbageCounts = {0, 2}
INVARIANTS
  UncontendedSafe
  UncontendedFraming
PROPERTIES
  UncontendedSteps
CHECK_DEADLOCK FALSE
