CONSTANTS
    Handlers = {h1, h2}
    MinPoll = 1
    MaxPoll = 2
    MaxTrend = 6
    Settings <- MCSettings
    MaxRead = 1
    MaxTime = 16
    None = None
SPECIFICATION Spec
SYMMETRY Symmetry
INVARIANTS TypeOK PollTaskIsLive TrendsAreFresh FailedTrendsAreRetried
PROPERTIES PollsAreSpaced
CHECK_DEADLOCK FALSE
