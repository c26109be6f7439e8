SPECIFICATION Spec
SYMMETRY Symmetry
CONSTANTS
    Users = {u1}
    Tenants = {u1}
    TenantOf <- MCTenantOf
    Tokens = {t1, t2, t3}
    Tickets = {k1}
    Requests = {p1, p2}
    Overlap = 1
    TokenTTL = 2
    TicketTTL = 1
    MaxTime = 3
    None = None
INVARIANTS FamiliesAreWhole IInv
PROPERTIES DeadFamilyStaysDead FirstUseStands ResetEndsOldSessions SpentTicketIsFinal ImplementsAccess
