\* One grant, a late request next to the current one, and a broker that restarts.
CONSTANTS
    NumGrants = 1
    Namespaces = {}
    ClusterWide = ClusterWide
    NumExpiries = 1
    Requests = {q1, q2}
    NoRequest = NoRequest
    Reconcilers = {r1}
    MaxEdits = 1
    MaxFailures = 1
SPECIFICATION FairSpec
INVARIANT TypeOK
PROPERTIES AccessEnds RevocationCompletes StatusConverges
