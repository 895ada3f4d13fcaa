SPECIFICATION FairSpec
CONSTANTS
  evidenceA = evidenceA
  evidenceB = evidenceB
  persist = persist
  Runner = Runner
  Nobody = Nobody
  NoDoc = NoDoc
  Nodes <- MCNodes
  Stage <- MCStage
  Persist = persist
  MaxGraphEvents = 4
  FallbackFails = TRUE
  OtherStarts = 1
  EsFaults = 1
  MayCrash = TRUE
INVARIANT NoReportLost
PROPERTY CursorsStayValid
CHECK_DEADLOCK FALSE
INVARIANT VerdictMatchesBoard
PROPERTY EventuallyClosed
