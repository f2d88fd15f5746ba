\* Two grants in one round, a namespace and the cluster as places, no failures.
CONSTANTS
    NumGrants = 2
    Namespaces = {n1}
    ClusterWide = ClusterWide
    NumExpiries = 1
    Requests = {q1}
    NoRequest = NoRequest
    Reconcilers = {}
    MaxEdits = 1
    MaxFailures = 0
SPECIFICATION FairSpec
INVARIANT AccessConsented
PROPERTIES AccessEnds RevocationCompletes AccessGranted
