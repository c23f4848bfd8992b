SPECIFICATION FairSpec
CONSTANTS
    MaxCases = 3
    CaseSteps = 2
    requestor = requestor
    finance = finance
    account1 = account1
    account2 = account2
    Users <- Roles
    Alike <- MCAlike
    Accounts <- Pool
    Admin = admin
    None = none
INVARIANT PassedAsTarget
INVARIANT VerdictCoversPack
INVARIANT OneAccount
PROPERTY Settles
\* a pack is run once
CHECK_DEADLOCK FALSE
