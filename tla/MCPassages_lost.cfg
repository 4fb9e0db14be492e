SPECIFICATION Spec
CONSTANTS
    docA = docA
    docB = docB
    docC = docC
    x = x
    y = y
    Nobody = Nobody
    Docs = {docA, docB, docC}
    Passages = {x, y}
    Text <- MCText
    MaxResets = 1
    MaxAborts = 2
INVARIANTS
    WhollyIndexed
