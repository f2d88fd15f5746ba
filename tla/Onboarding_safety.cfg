\* Two POSTs race for one claim, two acceptances for invitations of two tenants.
CONSTANTS
    Claims = {c1}
    Invitations = {i1, i2}
    Posts = {p1, p2}
    Accepts = {r1, r2}
    Tenants = {t1, t2}
    HubTenant = t1
    Clusters = {k1, k2}
    AnyCluster = AnyCluster
    Regions = {g1}
    NoRegion = NoRegion
    Capabilities = {service}
    OnboardingCapabilities = {service}
    Nobody = Nobody
    Admin = Admin
    ClaimTTL = 1
    InvitationTTL = 1
    MaxAdminInvitations = 1
    MaxNow = 1
    MaxEdits = 2
SPECIFICATION Spec
SYMMETRY Symmetry
INVARIANTS TypeOK OneInvitationPerClaim RegistrationBacked UsedSecretsAccounted
PROPERTIES ClaimsAreSingleUse InvitationsAreSingleUse FirstRegistrationWins
\* Every request is served once.
CHECK_DEADLOCK FALSE
