SPECIFICATION Spec
CONSTANTS
  send1 = send1
  send2 = send2
  answer = answer
  rebuild = rebuild
  title = title
  NoDoc = NoDoc
  Sends <- TwoSends
  Answers = {answer}
  Rebuilds = {rebuild}
  Titles = {title}
  Before <- Short
  ListLimit = 1000
  MaxFaults = 1
  MaxExtras = 1
SYMMETRY Symmetry
INVARIANT CompressedIsCovered
INVARIANT SummarisedOnce
INVARIANT MissingAreFew
CHECK_DEADLOCK FALSE
