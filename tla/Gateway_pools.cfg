SPECIFICATION FairSpec
CONSTANTS
    Requests = {r1, r2}
    Tenants = {t1}
    Keys = {k1}
    Roles = {"owner"}
    Routes <- RoutesOfEachKind
    AppSize = 1
    OwnerSize = 1
    AccessTtl = 1
    None = None
INVARIANTS LateReachesOwnerRoutesOnly NoStandstill IInv
PROPERTIES RevokedKeyIsOut OutOfReachForGood ImplementsAccess Answered
