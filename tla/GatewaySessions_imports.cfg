\* Sessions that overlap, and imports with a fallback endpoint.
CONSTANTS
    s1 = s1
    s2 = s2
    SessionConns = {s1, s2}
    ImportConns = {f1}
    ProbeConns = {b1}
    NoConn = NoConn
    Deployments <- EachDeployment
    MaxFailures = 1
SPECIFICATION FairSessionSpec
INVARIANTS RegistryExact ConnectionsOwned
PROPERTIES OldestKept SessionRestored DeadSessionNoticed ImportsServed
