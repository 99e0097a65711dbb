SPECIFICATION McpSpec
CONSTANTS
    Calls = {r1, r2}
    Tools = {r1}
    Notes = {}
    Bridges = {b1}
    NoCall = NoCall
    NoBridge = NoBridge
    MaxRestarts = 1
INVARIANT AnswerMatches
CHECK_DEADLOCK FALSE
