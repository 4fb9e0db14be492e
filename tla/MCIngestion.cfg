SPECIFICATION MCSpec
CONSTANTS
    docA = docA
    docB = docB
    docC = docC
    x = x
    y = y
    Nobody = Nobody
    Docs = {docA, docB, docC}
    Passages = {x, y}
    Text <- MCText
    MaxResets = 2
    MaxAborts = 2
    m1 = m1
    m2 = m2
    m3 = m3
    scan = scan
    u = u
    v = v
    w = w
    g = g
    Handlers = {m1, m2, m3}
    Scan = scan
    Bytes = {u, v, w, g}
    Listed <- MCListed
    Omitted = {g}
    Hash <- MCHash
    MaxRollbacks = 2
    f = f
    h = h
    Files = {f, h}
    Cap = 1
    Found <- MCFound
    MaxEvents = 1
    place = place
    note = note
    mail = mail
    zip = zip
    pic = pic
    Contents = {note, mail, zip, pic}
    Paths = {place}
    None = None
    Parts <- MCParts
    Ignored = {}
    Route <- MCRoute
    Legacy = {zip}
    MaxChanges = 1
    MaxCommands = 1
    e1 = e1
    e2 = e2
    p1 = p1
    p2 = p2
    Embedders = {e1, e2}
    Papers = {p1, p2}
    TextOf <- MCTextOf
    Samples <- MCSamples
    Target = 4
    Overlap = 1
    MaxBatchChunks = 2
    MaxBatchTokens = 4
    VectorBytes = 2
    CacheSizes = {5, 30}
    MaxAttempts = 2
INVARIANTS
    PassagesHeld
    WholeWithoutResets
    NoAdmissionCycle
    DispatchedOnce
    EmbeddingSound
    AttemptsAddUp
PROPERTIES
    MembersHeld
    PlanHonoured
    AbsenceProven
    KeepsHeld
    NoMissedWait
    CatchesUp
