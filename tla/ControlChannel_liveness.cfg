\* One agent that restarts, one handler, no symmetry.
CONSTANTS
    Agents = {a1}
    Handlers = {h1}
    MaxGen = 2
    MaxSends = 4
    MaxStarts = 2
SPECIFICATION FairSpec
PROPERTY CatchesUp
CHECK_DEADLOCK FALSE
