SPECIFICATION Spec
SYMMETRY Symmetry
CONSTANTS
    Ids = {i1, i2, i3}
    Requests = {p1, p2}
    Kinds = {"create", "createV2", "patch", "delete"}
    Plans = {"free"}
    Quota <- MCQuota
    Statuses = {"active", "past_due", "canceled"}
    MaxChanges = 2
    None = None
INVARIANTS WithinQuota
