\* Two owners, and a third identity the Peer may be re-pointed to; no symmetry.
CONSTANTS
    Identities = {a, b, c}
    Owners = {a, b}
    Local = a
    Remote = b
    Reconcilers = {r1}
    NoIdentity = NoIdentity
    MaxEdits = 1
    MaxRepoints = 1
SPECIFICATION FairSpec
INVARIANTS TypeOK StatusReflectsSpec ReadyUnlessRepointed
PROPERTIES ConfirmationsStay PeerConverges
