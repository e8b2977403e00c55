-------------------------------- MODULE Polling ---------------------------------
(***************************************************************************)
(* The pages that poll: the marketplace (MarketplaceWorkspace.tsx, every   *)
(* 12 s), the dashboard (DashboardWorkspace.tsx), a provider's own page    *)
(* (ProviderDetailWorkspace.tsx, 15 s) and the figures of the landing page *)
(* (LivePulse.tsx, 20 s), all under frontend/src/components.  Each load    *)
(* asks for one or more sources at once, waits until all of them have      *)
(* settled, and puts those that were answered on the screen; nothing keeps *)
(* two loads from overlapping, and a later one from answering first.       *)
(*                                                                         *)
(* A source is one number that grows: what the page would show of it.      *)
(***************************************************************************)
EXTENDS Naturals, FiniteSets

CONSTANTS
    Main,       \* the source that decides whether the page is offline:
                \* listProviders, getStats, getProvider
    Others,     \* the other sources of the page, empty for the small ones
    Loads,      \* bound on loads under way at once
    LastFigure  \* bound on how far a source grows

Sources == {Main} \cup Others

VARIABLES
    figure,     \* figure[s]: what the page has of a source; Unknown for null
    pageLoading,
    pageOffline,
    load,       \* load[l][s]: how far a request of a load is
    reported,   \* reported[s]: what the API would answer
    apiUp

pollVars == <<figure, pageLoading, pageOffline, load, reported, apiUp>>

Unknown == LastFigure + 1
Figures == 0..LastFigure
Off == LastFigure + 1
Sent == LastFigure + 2
Failed == LastFigure + 3

PollTypeOK ==
    /\ figure \in [Sources -> Figures \cup {Unknown}]
    /\ {pageLoading, pageOffline, apiUp} \subseteq BOOLEAN
    /\ load \in [Loads -> [Sources -> Figures \cup {Off, Sent, Failed}]]
    /\ reported \in [Sources -> Figures]

NoLoad == [s \in Sources |-> Off]
NewLoad == [s \in Sources |-> Sent]
FirstLoad == CHOOSE l \in Loads : TRUE

\* The effect loads as soon as the page is there.
PollInit ==
    /\ figure = [s \in Sources |-> Unknown]
    /\ pageLoading = TRUE
    /\ pageOffline = FALSE
    /\ load = [l \in Loads |-> IF l = FirstLoad THEN NewLoad ELSE NoLoad]
    /\ reported = [s \in Sources |-> 0]
    /\ apiUp \in BOOLEAN

-----------------------------------------------------------------------------
\* What the pages show.

Unread(s) == figure[s] = Unknown
Figure(n) == <<"figure", n>>
Rows(n) == IF n = 0 THEN <<"nothing yet">> ELSE <<"rows", n>>

\* The banner over the marketplace and the dashboard.
OfflineBanner == pageOffline

\* A tile is a skeleton while `loading` and there is nothing yet; after that
\* a source that could not be read is shown as zero.
Tile(s) ==
    IF ~Unread(s) THEN Figure(figure[s])
    ELSE IF pageLoading THEN <<"skeleton">> ELSE Figure(0)

\* The list of recent answers takes an unread source for an empty one.
RecentAnswers(s) ==
    IF ~Unread(s) THEN Rows(figure[s])
    ELSE IF pageLoading THEN <<"skeleton">> ELSE Rows(0)

\* The card of the system's health does not.
HealthCard(s) ==
    IF ~Unread(s) THEN Figure(figure[s])
    ELSE IF pageLoading THEN <<"skeleton">> ELSE <<"unavailable">>

\* A provider's page, where an error hides what has been read before.
ProviderPage ==
    IF pageLoading /\ Unread(Main) THEN <<"skeleton">>
    ELSE IF pageOffline \/ Unread(Main) THEN <<"unavailable">>
    ELSE Figure(figure[Main])

\* The landing page: dashes while it cannot reach the API, and zero before
\* the first answer.
Pulse ==
    IF pageOffline THEN <<"dashes">>
    ELSE Figure(IF Unread(Main) THEN 0 ELSE figure[Main])

-----------------------------------------------------------------------------
\* The interval, and the buttons Refresh and Retry.
Begin(l) ==
    /\ load[l] = NoLoad
    /\ load' = [load EXCEPT ![l] = NewLoad]
    /\ UNCHANGED <<figure, pageOffline, reported, apiUp>>

IntervalTimer == (\E l \in Loads : Begin(l)) /\ UNCHANGED pageLoading

\* The dashboard's button raises the spinner itself.
ClickRefresh ==
    /\ \E l \in Loads : Begin(l)
    /\ pageLoading' \in {pageLoading, TRUE}

\* One of the requests of a load is answered or fails.
Answer(l, s) ==
    /\ load[l][s] = Sent
    /\ load' = [load EXCEPT ![l][s] = IF apiUp THEN reported[s] ELSE Failed]
    /\ UNCHANGED <<figure, pageLoading, pageOffline, reported, apiUp>>

Arrived(l, s) == load[l][s] \in Figures

\* Promise.allSettled: those that were fulfilled are shown; an error that the
\* API itself answered leaves the banner as it is, and is an error all the
\* same on a provider's page and on the landing page.
Land(l) ==
    /\ \A s \in Sources : Arrived(l, s) \/ load[l][s] = Failed
    /\ load' = [load EXCEPT ![l] = NoLoad]
    /\ figure' = [s \in Sources |-> IF Arrived(l, s) THEN load[l][s] ELSE figure[s]]
    /\ pageOffline' \in IF Arrived(l, Main) THEN {FALSE} ELSE {pageOffline, TRUE}
    /\ pageLoading' = FALSE
    /\ UNCHANGED <<reported, apiUp>>

\* The deployment: agents come and pay, the API goes down and comes back.
Grow(s) ==
    /\ reported[s] < LastFigure
    /\ reported' = [reported EXCEPT ![s] = @ + 1]
    /\ UNCHANGED <<figure, pageLoading, pageOffline, load, apiUp>>

UpOrDown ==
    /\ apiUp' = ~apiUp
    /\ UNCHANGED <<figure, pageLoading, pageOffline, load, reported>>

Answers == \E l \in Loads, s \in Sources : Answer(l, s)
Landing == \E l \in Loads : Land(l)

PollNext ==
    \/ IntervalTimer \/ ClickRefresh
    \/ Answers \/ Landing
    \/ \E s \in Sources : Grow(s)
    \/ UpOrDown

\* The interval goes on, and requests are answered or fail; one of them may
\* hang for good while others come and go.
PollSpec ==
    /\ PollInit /\ [][PollNext]_pollVars
    /\ WF_pollVars(IntervalTimer) /\ WF_pollVars(Answers) /\ WF_pollVars(Landing)

-----------------------------------------------------------------------------
\* Every page shows what the API reports.
CaughtUp ==
    /\ ~OfflineBanner
    /\ ProviderPage = Figure(reported[Main]) /\ Pulse = Figure(reported[Main])
    /\ \A s \in Sources :
           /\ Tile(s) = Figure(reported[s]) /\ HealthCard(s) = Figure(reported[s])
           /\ RecentAnswers(s) = Rows(reported[s])

(* The page catches up: once the API stays up, the offline banner goes,    *)
(* and the figures come to be those the API reports, though a load that    *)
(* was overtaken by a later one may put an old figure back for a while.    *)
FiguresCatchUp ==
    <>[]apiUp => <>[]CaughtUp
=============================================================================
