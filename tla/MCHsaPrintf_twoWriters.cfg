SPECIFICATION FairSpec
CONSTANTS
  fText = fText
  fPair = fPair
  fWidth = fWidth
  d = d
  Uninitialized = Uninitialized
  NoMessage = NoMessage
  Formats <- MCFormats
  Specifiers <- MCSpecifiers
  Data <- MCData
  Messages <- ShortMessages
  Writers = {t1, t2}
  Hosts = {t1}
  num = 4
  GarbageCounts = {4}
INVARIANTS
  FreshExclusion
  UncontendedExclusion
PROPERTIES
  HolderLeaves
  LockTaken
CHECK_DEADLOCK FALSE
