SPECIFICATION MCSpec
CONSTANTS
  send1 = send1
  send2 = send2
  approval1 = approval1
  approval2 = approval2
  cancel1 = cancel1
  NoRun = NoRun
  Sends <- TwoSends
  Approvals <- TwoApprovals
  Cancels <- OneCancel
  MaxRounds = 4
  MemoryFails = FALSE
  BackgroundFaults = 1
  RequestFaults = 1
INVARIANT AnswerDecides
INVARIANT CancelStopsRuntime
PROPERTY PatientSession
PROPERTY HastyRunEnds
PROPERTY HastyRunAnnounced
CHECK_DEADLOCK FALSE
