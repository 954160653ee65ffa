SPECIFICATION SmallSpec
CONSTANTS
    Units = {u1, u2}
    u1 = u1
    MaxDepth = 2
    MaxSleeps = 1
    MaxRecords = 2
    None = None
\* A walk that is over stays over.
CHECK_DEADLOCK FALSE
INVARIANTS RegressionKept
PROPERTIES SeesFreshResults WalkEnds
