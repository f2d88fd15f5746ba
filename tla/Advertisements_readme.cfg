\* The README's claim, with a policy that comes to refuse one of two services.
CONSTANTS
    NumServices = 2
    Wildcard = {1}
    Peers = {p1}
    Handlers = {h1}
    Reconcilers = {r1}
    TTL = 1
    MaxEdits = 3
    MaxFailures = 0
SPECIFICATION FairSpec
PROPERTY RemovedLabelsRevoke
