\* The paid endpoints, with the handlers' own fairness.
SPECIFICATION FairSpec
CONSTANTS
    a1 = a1
    a2 = a2
    q1 = q1
    q2 = q2
    v1 = v1
    v2 = v2
    nobody = nobody
    Agents <- MCAgents
    Queries <- MCQueries
    Conversations <- MCConversations
    Nobody = nobody
    FreeCredits = 1
    MaxCrashes = 1
INVARIANTS
    TypeOK
    AnswerOrMoneyBack
    
    ConversationsArePrivate
    TurnsAreComplete
    PaidQueryInv
PROPERTIES
    ImplementsEscrow
    ChargesAreSettled
\* Every request ends, and clients need not send another one.
CHECK_DEADLOCK FALSE
