SPECIFICATION Spec
CONSTANTS
    Releases = 2
    organizations = organizations
    users = users
    api_keys = api_keys
    Tables = {organizations, users, api_keys}
    Scoped = {users, api_keys}
    AddedBy <- MCAddedBy
INVARIANTS RollbackRestoresPrevious
