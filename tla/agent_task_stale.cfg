SPECIFICATION Spec
CONSTANTS
  evidenceA = evidenceA
  evidenceB = evidenceB
  persist = persist
  Runner = Runner
  Nobody = Nobody
  NoDoc = NoDoc
  Nodes <- MCNodes
  Stage <- MCStage
  Persist = persist
  MaxGraphEvents = 20
  FallbackFails = TRUE
  OtherStarts = 1
  EsFaults = 0
  MayCrash = FALSE
PROPERTY StaleTaskNeverCompletes
CHECK_DEADLOCK FALSE
