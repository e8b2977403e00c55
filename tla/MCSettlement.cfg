\* Settlement with three requests and a crash: safety, refinement and liveness.
SPECIFICATION FairSpec
CONSTANTS
    a1 = a1
    a2 = a2
    k1 = k1
    k2 = k2
    sandbox = sandbox
    live = live
    r1 = r1
    r2 = r2
    r3 = r3
    nobody = nobody
    Agents <- MCAgents
    Challenges <- MCChallenges
    Hashes <- MCHashes
    SandboxHashes <- MCSandboxHashes
    Requests <- MCRequests
    Nobody = nobody
    SandboxMode = TRUE
    Price = 2
    Paid <- MCPaid
    CreditsPerPayment = 1
    FreeCredits = 1
    MaxCrashes = 1
\* Sound for the temporal properties too: they and the fairness of FairSpec are
\* the same under every permutation of requests, agents and challenges.
SYMMETRY Symmetry
INVARIANTS
    RedeemedOnce
    PaymentsAreBacked
    CreditsMatchPayments
    UncreditedIsInFlight
    ConsumedIsCredited
    SettlementInv
PROPERTIES
    ImplementsRedemption
    RequestsEnd
    RedemptionsAreCredited
\* Every request ends, and clients need not send another one.
CHECK_DEADLOCK FALSE
