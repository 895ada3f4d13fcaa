SPECIFICATION LibrarySpec
CONSTANTS
  admin = admin
  cli = cli
  Requesters <- TwoRequesters
  Menu <- MCMenu
  MaxOps = 3
  MaxFaults = 1
  BuiltinCase <- MCBuiltin
  Snapshots <- MCSnapshots
  Outputs <- MCOutputs
  MockAnswers = {"calm", "all_in"}
  JudgeAnswers <- MCJudgeAnswers
  Dimensions <- MCDimensions
  CaseIds <- MCCaseIds
  FeedbackIds <- MCFeedbackIds
  RunIds <- MCRunIds
  ReportIds <- MCReportIds
  FirstStores <- MCFirstStores
SYMMETRY Symmetry
INVARIANT ClaimsAreTrue
INVARIANT GateSeesAllIn
PROPERTY EditsKept
PROPERTY OneFeedbackPerFailure
CHECK_DEADLOCK FALSE
