SPECIFICATION Spec
CONSTANTS
    Requests = {r1, r2}
    Conns = {c1, c2}
    Tenants = {t1, t2}
    RowIds = {i1, i2}
    NoTenant = NoTenant
    NoConn = NoConn
    Nobody = Nobody
SYMMETRY Symmetry
INVARIANTS Exclusive IdleIsClean ReadsOwnTenant IInv
PROPERTIES ImplementsStore CancelledIsFrozen
