\* The credit functions raced by four callers.
SPECIFICATION Spec
CONSTANTS
    browser = browser
    registered = registered
    c1 = c1
    c2 = c2
    c3 = c3
    c4 = c4
    nobody = nobody
    closed = closed
    Agents <- MCAgents
    Minted <- MCMinted
    Amounts <- MCAmounts
    Callers <- MCCallers
    Nobody = nobody
    Closed = closed
    FreeCredits = 1
INVARIANTS
    BalanceIsFunded
    NewestEntryIsBalance
    LedgerInv
PROPERTY
    ImplementsWallet
\* Every caller makes one call and is then done.
CHECK_DEADLOCK FALSE
