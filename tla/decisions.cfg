CONSTANTS
    Runs = {r1}
    r1 = r1
    Currents = {0, 4, 12, 55}
    Targets = {0, 3, 12}
    Ratios = {5, 12, 20}
    MaxOdd = 3
    MaxSeconds = 0
SPECIFICATION Spec
INVARIANTS AddOnlyOnEvidence NoExitWithoutPosition OneDocumentPerRun
PROPERTIES EndsStored
CHECK_DEADLOCK FALSE
