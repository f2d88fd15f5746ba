\* A Link observed over one session, or none, next to its reconciler.
CONSTANTS
    s1 = s1
    SessionConns = {s1}
    ImportConns = {}
    ProbeConns = {b1}
    NoConn = NoConn
    Deployments <- EachDeployment
    MaxFailures = 1
    MaxEdits = 1
SPECIFICATION FairSpec
INVARIANTS TypeOK ShownAsObserved
PROPERTIES LostLinkShown LinkRecovers
