SPECIFICATION MCSpec
CONSTANTS
    small = small
    long = long
    wide = wide
    huge = huge
    r1 = r1
    r2 = r2
    r3 = r3
    c1 = c1
    c2 = c2
    Calls = {c1, c2}
    Ids = {r1, r2, r3}
    Results = {small, long, wide, huge}
    Size <- MCSize
    Pages <- MCPages
    Unfit <- MCUnfit
    MaxSnapshots = 2
    MaxBytes = 3
    TTL = 2
    MaxSearches = 3
    me = me
    you = you
    here = here
    there = there
    Docs = {1, 2, 3}
    Parsed <- MCParsed
    Requests <- MCRequests
    Limits = {0, 1}
    DefaultLimit = 2
    MaxLimit = 2
    Owners = {me}
    DomainOf <- MCDomainOf
    Unset = Unset
    MaxClock = 2
    MaxSaving = 1
    d1 = d1
    d2 = d2
    d3 = d3
    PageRoom = 5
    CursorSize = 2
    EvidenceResults <- MCResults
    Names = {d1, d2, d3}
    Revisions <- MCRevisions
    MaxMatches = 2
    MaxEdits = 5
    Corpus = {1, 2, 3, 4}
    Content <- MCContent
    Bytes <- MCBytes
    Decomposed <- MCDecomposed
    Legs <- MCLegs
    VecCandidates = 3
    RRFK = 60
    RerankCandidates = 3
    MaxSubQueries = 2
    TopK = 2
    MinRelevanceScore = 0
    PoolFloorPerSubQuery = 1
    PoolFloorDenseOnly = 1
    AnswerContextBytes = 3
    Blank = "blank"
    MaxChanges = 1
SYMMETRY MCSymmetry
CHECK_DEADLOCK FALSE
PROPERTIES
    NothingSkipped
