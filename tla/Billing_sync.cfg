SPECIFICATION FairSpec
CONSTANTS
    Orgs = {o1}
    Customers = {c1, c2, c3}
    Foreign = {c3}
    Subs = {s1}
    Events = {e1, e2}
    Calls = {k1, k2}
    Hooks = {h1, h2}
    Statuses = {"active", "incomplete_expired"}
    Plans = {"pro"}
    MaxVersion = 2
    None = None
INVARIANTS RecordedOnceSyncedOnce RecordedIsCurrent SessionsArePersisted PlanFollowsRow IInv
PROPERTIES ImplementsSync Converges
