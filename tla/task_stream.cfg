SPECIFICATION FairStreamSpec
CONSTANTS
  evidence = evidence
  persist = persist
  Runner = Runner
  Nobody = Nobody
  NoDoc = NoDoc
  Nodes <- MCNodes
  Stage <- MCStage
  Persist = persist
  MaxGraphEvents = 20
  FallbackFails = FALSE
  OtherStarts = 0
  EsFaults = 0
  MayCrash = FALSE
  StreamBreaks = 1
INVARIANT CaughtUpMeansSame
INVARIANT StreamEndsComplete
PROPERTY PanelSettles
CHECK_DEADLOCK FALSE
PROPERTY BoardSpec
