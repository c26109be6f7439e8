SPECIFICATION Spec
SYMMETRY Symmetry
CONSTANTS
    Orgs = {o1}
    Emails = {e1, e2}
    Invites = {i1, i2}
    Requests = {p1, p2}
    None = None
INVARIANTS InvitationJoinsOnce IInv
PROPERTIES ClosedStaysClosed OwnerLostOnlyToRace
