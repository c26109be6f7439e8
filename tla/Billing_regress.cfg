SPECIFICATION FairSpec
CONSTANTS
    Orgs = {o1}
    Customers = {c1}
    Foreign = {}
    Subs = {s1}
    Events = {e1, e2}
    Calls = {k1}
    Hooks = {h1, h2}
    Statuses = {"active", "past_due", "unpaid", "canceled"}
    Plans = {"pro"}
    MaxVersion = 2
    None = None
PROPERTIES NoRegress
