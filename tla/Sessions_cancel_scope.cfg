SPECIFICATION Spec
SYMMETRY Symmetry
CONSTANTS
    Users = {u1, u2}
    Tenants = {u1, u2}
    TenantOf <- MCTenantOf
    Tokens = {t1, t2, t3}
    Tickets = {}
    Requests = {p1, p2}
    Overlap = 0
    TokenTTL = 1
    TicketTTL = 1
    MaxTime = 2
    None = None
PROPERTIES CancelIsScoped
