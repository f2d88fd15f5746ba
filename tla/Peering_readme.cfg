\* The README's claim, with a Peer that may be re-pointed once.
CONSTANTS
    Identities = {a, b, c}
    Owners = {a, b, c}
    Local = a
    Remote = b
    Reconcilers = {r1}
    NoIdentity = NoIdentity
    MaxEdits = 1
    MaxRepoints = 1
SPECIFICATION Spec
INVARIANT ReadyMeansBothConfirmed
