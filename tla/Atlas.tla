--------------------------------- MODULE Atlas ----------------------------------
(***************************************************************************)
(* The atlas page (frontend/src/components/atlas/AtlasWorkspace.tsx): the  *)
(* plot is loaded once; a visitor projects queries into it, and the        *)
(* guided demonstration publishes a query of its own, which is projected   *)
(* 350 ms later.  `project` refuses while a projection runs, but the one   *)
(* of the demonstration sees `projecting` as it was when the timer was set.*)
(***************************************************************************)
EXTENDS Naturals, FiniteSets

CONSTANTS
    Typed,   \* the queries: a visitor's own and the demonstration's
    Chips    \* the examples among them

DemoQuery == "demo"

VARIABLES
    plot,        \* `atlas`: "loading", "ready", "too small", "unreachable"
    published,   \* whether the demonstration's `atlasQuery` is set
    queryText,   \* whether the query bar holds a query
    projecting,
    projection,  \* the query that is marked on the plot; "none" for null
    pending,     \* projections under way: a visitor's, by query
    demoTimer,   \* the 350 ms timer: "off", or the `projecting` it captured
    demoPending, \* the demonstration's projection is under way
    crowded      \* history: both kinds were under way at once

atlasVars == <<plot, published, queryText, projecting, projection, pending, demoTimer,
               demoPending, crowded>>

AtlasTypeOK ==
    /\ plot \in {"loading", "ready", "too small", "unreachable"}
    /\ {published, queryText, projecting, demoPending, crowded} \subseteq BOOLEAN
    /\ projection \in Typed \cup {"none"}
    /\ pending \subseteq Typed
    /\ demoTimer \in {"off", "free", "busy"}

AtlasInit ==
    /\ plot = "loading"
    /\ published = FALSE
    /\ queryText = FALSE
    /\ projecting = FALSE
    /\ projection = "none"
    /\ pending = {}
    /\ demoTimer = "off"
    /\ demoPending = FALSE
    /\ crowded = FALSE

-----------------------------------------------------------------------------
\* What the page draws.

\* The query bar; the chips under it are always there.
BarIsEnabled == plot = "ready"
BarSpins == projecting

-----------------------------------------------------------------------------
\* The effect on `atlasQuery` and `atlas.available`: a timer for as long as
\* both hold.
TimerFor(isPublished, isPlot) ==
    IF isPublished /\ isPlot = "ready" THEN IF projecting THEN "busy" ELSE "free" ELSE "off"

\* getAtlas answered or failed.
LoadLands ==
    /\ plot = "loading"
    /\ \E outcome \in {"ready", "too small", "unreachable"} :
           plot' = outcome /\ demoTimer' = TimerFor(published, outcome)
    /\ UNCHANGED <<published, queryText, projecting, projection, pending, demoPending, crowded>>

\* The demonstration reaches its retrieval phase, or ends.
Publish ==
    /\ published' = ~published
    /\ demoTimer' = TimerFor(published', plot)
    /\ UNCHANGED <<plot, queryText, projecting, projection, pending, demoPending, crowded>>

\* Enter and the button of the query bar, or a chip.
ClickProject(q) ==
    /\ q # DemoQuery
    /\ BarIsEnabled \/ q \in Chips
    /\ queryText' = TRUE
    /\ IF projecting
       THEN UNCHANGED <<projecting, pending, crowded>>
       ELSE /\ projecting' = TRUE
            /\ pending' = pending \cup {q}
            /\ crowded' = (crowded \/ demoPending \/ pending # {})
    /\ UNCHANGED <<plot, published, projection, demoTimer, demoPending>>

\* The demonstration's timer (bound: its own earlier projection is over).
DemoTimer ==
    /\ demoTimer # "off"
    /\ ~demoPending
    /\ demoTimer' = "off"
    /\ queryText' = TRUE
    /\ IF demoTimer = "busy"
       THEN UNCHANGED <<projecting, demoPending, crowded>>
       ELSE /\ projecting' = TRUE
            /\ demoPending' = TRUE
            /\ crowded' = (crowded \/ pending # {})
    /\ UNCHANGED <<plot, published, projection, pending>>

\* projectIntoAtlas answered, or failed; and finally.
ProjectionEnds(q) ==
    /\ projection' \in {q, "none"}
    /\ projecting' = FALSE

VisitorsLands(q) ==
    /\ q \in pending
    /\ ProjectionEnds(q)
    /\ pending' = pending \ {q}
    /\ crowded' = (crowded /\ (demoPending \/ pending' # {}))
    /\ UNCHANGED <<plot, published, queryText, demoTimer, demoPending>>

DemosLands ==
    /\ demoPending
    /\ ProjectionEnds(DemoQuery)
    /\ demoPending' = FALSE
    /\ crowded' = (crowded /\ pending # {})
    /\ UNCHANGED <<plot, published, queryText, pending, demoTimer>>

AtlasNext ==
    \/ LoadLands \/ Publish \/ DemoTimer \/ DemosLands
    \/ \E q \in Typed : ClickProject(q) \/ VisitorsLands(q)

AtlasSpec == AtlasInit /\ [][AtlasNext]_atlasVars

-----------------------------------------------------------------------------
(* The spinner of the query bar is a projection under way, and one under   *)
(* way has its spinner, as long as the demonstration's query did not start *)
(* beside a visitor's: then the first of the two to end stops it.          *)
SpinnerIsAProjection ==
    ~crowded => (BarSpins <=> pending # {} \/ demoPending)

\* Why it holds: until two queries run beside each other, one runs at most.
AtlasInv ==
    /\ {projecting, demoPending, crowded} \subseteq BOOLEAN
    /\ ~crowded => /\ pending = {} \/ ~demoPending
                   /\ \A p, q \in pending : p = q
    /\ SpinnerIsAProjection
=============================================================================
