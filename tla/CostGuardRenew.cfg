SPECIFICATION FairSpec
CONSTANTS
    Callers = {c1}
    Users = {u1}
    Limit = 1
    UserLimit = 2
    MaxActions = 2
    MaxCost = 1
    None = None
PROPERTY BudgetRenews
