SPECIFICATION Spec
CONSTANTS
  fText = fText
  fPair = fPair
  fWidth = fWidth
  d = d
  Uninitialized = Uninitialized
  NoMessage = NoMessage
  Formats <- MCFormats
  Specifiers <- MCSpecifiers
  Data <- MCData
  Messages <- ShortMessages
  Writers = {t1}
  Hosts = {t2}
  num = 5
  GarbageCounts = {2}
INVARIANTS
  FormatIsPointer
CHECK_DEADLOCK FALSE
