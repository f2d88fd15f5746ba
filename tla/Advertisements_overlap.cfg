\* Two snapshots of one service handled at the same time.
CONSTANTS
    NumServices = 1
    Wildcard = {1}
    Peers = {p1}
    Handlers = {h1, h2}
    Reconcilers = {r1}
    TTL = 1
    MaxEdits = 2
    MaxFailures = 1
SPECIFICATION FairSpec
PROPERTIES StatusTruthful SnapshotConverges
