SPECIFICATION FairSpec
CONSTANTS
    d1 = d1
    w1 = w1
    w2 = w2
    p1 = p1
    p2 = p2
    NoProc = NoProc
    Docs = {d1}
    Lanes = {w1, w2}
    Processes = {p1, p2}
    ProcOf <- MCProcOf
    MaxAttempts = 2
    MaxFaults = 2
INVARIANTS
    TypeOK
    OneOwner
    BudgetKept
    QuietWhenSettled
    Agreement
PROPERTIES
    Settles
    ImplementsLedger
