SPECIFICATION MCSpec
CONSTANTS
    LeaseDuration = 13
    HandlerBudget = 30
    ControlTimeout = 1
    RenewEvery = 3
    RenewMargin = 3
    email = email
    embed = embed
    mail = mail
    text = text
    Subjects = {email, embed}
    Jobs = {mail, text}
    SubjectOf <- MCSubjectOf
    Roots = {mail}
    ChildrenOf <- MCChildrenOf
    NoJob = NoJob
    SettleSamples = 2
    MaxMishaps = 0
    MaxOverrun = 6
    init = init
    call1 = call1
    call2 = call2
    id1 = id1
    id2 = id2
    Requests = {init, call1, call2}
    MethodOf <- MCMethodOf
    IdOf <- MCIdOf
    Ids = {id1, id2}
    Daemons = {d1, d2}
    Commands = {c1, c2}
    MaxKills = 1
    NoFile = NoFile
    Torn = Torn
    NoPid = NoPid
    office = office
    o1 = o1
    e1 = e1
    e2 = e2
    Pools = {office, embed}
    Lanes = {o1, e1, e2}
    PoolOf <- MCPoolOf
    Preparing = {embed}
    Total = 2
    MaxClaims = 2
    a1 = a1
    a2 = a2
    a3 = a3
    Callers = {a1, a2, a3}
    Concurrency = 2
    Threshold = 2
    Cooldown = 2
    Timeout = 4
    sheet1 = sheet1
    sheet2 = sheet2
    Sheets = {sheet1, sheet2}
    Shapes <- MCShapes
    CpuSlots = 2
    Instances = 2
    TwoByte = {"s2", "i8", "m"}
CHECK_DEADLOCK FALSE
INVARIANTS
    StopsOnceDrained
