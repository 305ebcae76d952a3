SPECIFICATION FairSpec
CONSTANTS
  fText = fText
  fPair = fPair
  fWidth = fWidth
  d = d
  Uninitialized = Uninitialized
  NoMessage = NoMessage
  Formats <- MCFormats
  Specifiers <- MCSpecifiers
  Data <- MCData
  Messages <- SerialMessages
  Writers = {t1}
  Hosts = {t1}
  num = 8
  GarbageCounts = {0}
PROPERTIES
  ImplementsLog
  CallsReturn
