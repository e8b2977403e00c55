\* The ledger against the balance when two first requests of one browser race.
SPECIFICATION Spec
CONSTANTS
    browser = browser
    registered = registered
    c1 = c1
    c2 = c2
    c3 = c3
    c4 = c4
    nobody = nobody
    closed = closed
    Agents <- MCAgents
    Minted <- MCMinted
    Amounts <- MCAmounts
    Callers <- MCCallers
    Nobody = nobody
    Closed = closed
    FreeCredits = 1
INVARIANT
    LedgerAgreesWithBalance
CHECK_DEADLOCK FALSE
