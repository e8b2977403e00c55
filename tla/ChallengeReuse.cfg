\* Two verifications of different hashes against one challenge.
SPECIFICATION Spec
CONSTANTS
    a1 = a1
    a2 = a2
    k1 = k1
    k2 = k2
    sandbox = sandbox
    live = live
    r1 = r1
    r2 = r2
    r3 = r3
    nobody = nobody
    Agents <- MCAgents
    Challenges <- MCChallenges
    Hashes <- MCHashes
    SandboxHashes <- MCSandboxHashes
    Requests <- MCRequests
    Nobody = nobody
    SandboxMode = TRUE
    Price = 2
    Paid <- MCPaid
    CreditsPerPayment = 1
    FreeCredits = 1
    MaxCrashes = 1
SYMMETRY Symmetry
INVARIANT
    ChallengeRedeemedOnce
CHECK_DEADLOCK FALSE
