SPECIFICATION FairSpec
CONSTANTS
    g1 = g1 g2 = g2 r1 = r1 a1 = a1 a2 = a2 a3 = a3 p1 = p1 p2 = p2
    x1 = x1 x2 = x2 x3 = x3 s1 = s1 s2 = s2
    None = None
    Runs = {r1}
    Agents = {a1, a2, a3}
    Resources = {x1, x2, x3}
    Grants = {g1, g2}
    Asks <- MCAsks
    Env <- MCEnv
    PrincipalOf <- MCPrincipalOf
    OwnerOf <- MCOwnerOf
    ProviderOf <- MCProviderOf
    Ceiling <- MCCeiling
    Window = 1 MaxTime = 2
INVARIANTS UsesBounded GateAgrees NothingSensitiveUnapproved OneTenant ReceiptsTellStatus
PROPERTIES EndedStaysEnded OpenGrantsEnd
