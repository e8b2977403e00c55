\* Uploads, deletions and questions on the two stores, with a crash.
SPECIFICATION Spec
CONSTANTS
    d1 = d1
    d2 = d2
    d3 = d3
    d4 = d4
    f1 = f1
    f2 = f2
    f3 = f3
    q1 = q1
    q2 = q2
    j1 = j1
    j2 = j2
    j3 = j3
    nobody = nobody
    none = none
    Docs <- MCDocs
    Files <- MCFiles
    Questions <- MCQuestions
    Similar <- MCSimilar
    Jobs <- MCJobs
    Seeded <- MCSeeded
    Nobody = nobody
    NoCopy = none
    MaxEntries = 1
    MaxCrashes = 1
SYMMETRY Symmetry
INVARIANTS
    ListedIsSearchable
    OrphansAreExplained
    NoStaleAnswersUnraced
    CorpusInv
\* Every job ends, and clients need not start another one.
CHECK_DEADLOCK FALSE
