\* A stream whose client leaves before its first event.
SPECIFICATION Spec
CONSTANTS
    a1 = a1
    a2 = a2
    q1 = q1
    q2 = q2
    v1 = v1
    v2 = v2
    nobody = nobody
    Agents <- MCAgents
    Queries <- MCQueries
    Conversations <- MCConversations
    Nobody = nobody
    FreeCredits = 1
    MaxCrashes = 1
PROPERTY
    DroppedConnectionIsFree
CHECK_DEADLOCK FALSE
