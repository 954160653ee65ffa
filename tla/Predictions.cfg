SPECIFICATION Spec
CONSTANTS
    Requests = {h1, h2}
    Workers = {w1}
    Jobs = {j1, j2}
    MaxVersion = 3
    Hidden = {2}
    MaxFaults = 1
    None = None
INVARIANTS TrueUnlessOverlapped
PROPERTIES PolledIsAnswered
