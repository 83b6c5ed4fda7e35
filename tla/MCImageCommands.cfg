\* rm or inspect of two images against two machines, with every result of
\* every cluster call.
CONSTANTS
    m1 = m1
    m2 = m2
    Machines <- MCMachines
    NImages = 2
SPECIFICATION CSpec
INVARIANTS EveryImageAttempted OneReportPerImage ReportMatchesAnswers
\* The command returns: its final state has no successor.
CHECK_DEADLOCK FALSE
