SPECIFICATION FairSpec
CONSTANTS
  TCP = {t}
  UDP = {u}
INVARIANTS
  TypeOK
  EndedIsClean
  OnCloseOnce
  StreamNotifiedLast
PROPERTIES
  ClosedEnds
CHECK_DEADLOCK FALSE
