\* A bundle of two credits and a swarm of two agents.
SPECIFICATION Spec
CONSTANTS
    Pages = {"swarm"}
    SizeOf <- MCSizeOf
    PerPayment = 2
    Trial = 3
    Lag = 1
    Considered = 3
    Shortlisted = 2
    Funds = 3
    CallPrice = 2
    MaxRuns = 2
    Members = {1, 2}
    MaxFleets = 2
    MaxWalks = 2
    Cast = {1}
    MaxStarts = 2
    FrameCount = 3
    Callers = {"ask", "left"}
    MaxPurchases = 2
    MaxTurns = 2
    Earlier = 1
    MaxCalls = 1
    Batches <- MCBatches
    Contents <- MCContents
    TooLarge = {3}
    Initially = {1}
    CommandsFor <- MCCommandsFor
    Short = {"", "d"}
    MaxHits = 2
    Main = "main"
    Others = {"side"}
    Loads = {1, 2}
    LastFigure = 1
    Typed = {"demo", "own", "other"}
    Chips = {"other"}
INVARIANT
    ExactIsAudited
CHECK_DEADLOCK FALSE
