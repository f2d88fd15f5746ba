\* Two services, one for all Ready peers and one for a named peer.
CONSTANTS
    NumServices = 2
    Wildcard = {1}
    Peers = {p1}
    Handlers = {h1}
    Reconcilers = {r1}
    TTL = 1
    MaxEdits = 3
    MaxFailures = 0
SPECIFICATION FairSpec
INVARIANT TypeOK
PROPERTIES SnapshotConverges RemovedServiceStops
