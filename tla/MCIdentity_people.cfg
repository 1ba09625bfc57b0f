CONSTANTS
    Families = {f1}
    Tokens = {t1, t2, t3}
    Clients = {c1, c2}
    NoFamily = NoFamily
    NoToken = NoToken
    Second = 2
    AccessTTL = 2
    MaxTime = 5
    TokensDenied = 2
    Invites = {i1, i2}
    OrgRoles = {ADMIN, VIEWER}
    NoRole = NoRole
    Invitees = {v1, v2}
    Revokers = {u1}
    NoInvite = NoInvite
    NoInvitee = NoInvitee
    StepUpTokens = {j1, j2}
    WsTickets = {k1}
    Pods = {p1, p2}
    NotSigned = NotSigned
    StepUpTtl = 2
    TicketTtl = 1
    PruneThreshold = 1
    MaxTokenTime = 4
SPECIFICATION IdentitySpec
SYMMETRY Interchangeable
CHECK_DEADLOCK FALSE
INVARIANTS
    OnlyRacesGetPast
    TokensAreUsedOnce
    DenyListsHold
PROPERTIES
    RevokedFamiliesStayDead
    InvitationsCountOnce
