-------------------------------- MODULE Visits ---------------------------------
(***************************************************************************)
(* The browser (frontend/src): a visitor with one of the pages open.  Each *)
(* page is a component of its own, with its state, its closures and its    *)
(* calls; what a page shares with the others is on the server, which the   *)
(* page's module answers for.  The command palette and the stream reader   *)
(* are on every page and are checked on their own.                         *)
(*                                                                         *)
(* The state space is the sum of the pages' state spaces and not their     *)
(* product: the components under one page change no state of another.      *)
(***************************************************************************)
EXTENDS Naturals, Sequences, FiniteSets

CONSTANTS
    Pages,                                                  \* those visited
    SizeOf, PerPayment, Trial,                              \* Swarm
    Lag,                                                    \* RouteStream
    Considered, Shortlisted, Funds, CallPrice, MaxRuns,     \* Discover
    Members, MaxFleets,                                     \* Fleet
    MaxWalks,                                               \* Handshake
    Cast, MaxStarts,                                        \* DemoTour
    FrameCount,                                             \* EventStream
    Callers, MaxPurchases,                                  \* Paywall
    MaxTurns, Earlier, MaxCalls,                            \* Console
    Batches, Contents, TooLarge, Initially,                 \* Library
    CommandsFor, Short, MaxHits,                            \* Palette
    Main, Others, Loads, LastFigure,                        \* Polling
    Typed, Chips                                            \* Atlas

VARIABLES
    page,
    roster, phase, column, swarmRunning, reconciled, swarmAbort, aborted, lane, launch,
    bought, asked,
    stage, listed, passed, chosen, answerShown, result, routing, paywall, shown,
    refreshing, mounted, runStep, listedThen, stopped, call, runs, funds, remaining,
    lanePhase, fleetRunning, fleetAbort, fleetStopped, fleetStep, route, fleets,
    step, walking, wire, paidAnswer, total, walkAbort, here, walk, cancelled, walks,
    redeemed, answered,
    active, phaseAt, status, tally, onAtlas, notice, run, shownRun, timers, dispatching,
    tokens, abortOf, abortedRuns, starting, used, warm, look, deal,
    arrived, buffer, got, body,
    dialog, payStage, busy, tab, closeTimers, token, minting, waiting, held, older, funded,
    ready, offline, reading, purchase, verified, purchases,
    turnStatus, restored, conversationId, streaming, seeded, stream, askStopped, opening,
    deleting, kept, made, files, begun, crossed,
    known, listing, totalShown, loading, unreachable, job, readTimers, ingest, list,
    removal, indexed, overtaken,
    paletteOpen, text, found, searching, cursor, debounce, current, outdated,
    figure, pageLoading, pageOffline, load, reported, apiUp,
    plot, published, queryText, projecting, projection, pending, demoTimer, demoPending,
    crowded

S == INSTANCE Swarm
D == INSTANCE Discover
F == INSTANCE Fleet
H == INSTANCE Handshake
T == INSTANCE DemoTour
E == INSTANCE EventStream
P == INSTANCE Paywall
C == INSTANCE Console
L == INSTANCE Library
K == INSTANCE Palette
G == INSTANCE Polling
A == INSTANCE Atlas

\* What the pages' modules take for granted of their constants.
ASSUME SwarmAssumption == SizeOf \in Seq(Nat \ {0}) /\ PerPayment \in Nat \ {0} /\ Trial \in Nat
ASSUME RouteAssumption == Lag \in Nat \ {0}
ASSUME DiscoverAssumption ==
    Considered \in Nat /\ Shortlisted \in 0..Considered /\ {Funds, CallPrice, MaxRuns} \subseteq Nat
ASSUME BoundsAssumption == {MaxFleets, MaxWalks, MaxStarts, MaxPurchases, MaxTurns, Earlier,
                            MaxCalls, MaxHits, LastFigure} \subseteq Nat
ASSUME SetsAssumption ==
    /\ IsFiniteSet(Members) /\ IsFiniteSet(Cast) /\ IsFiniteSet(Loads) /\ IsFiniteSet(Others)
    /\ IsFiniteSet(Typed)
ASSUME StreamAssumption == FrameCount \in Nat \ {0}
ASSUME PaletteAssumption ==
    /\ Short \subseteq DOMAIN CommandsFor /\ "" \in Short
    /\ CommandsFor \in [DOMAIN CommandsFor -> Nat]
    /\ \A q \in DOMAIN CommandsFor : CommandsFor[q] <= CommandsFor[""]
    /\ K!NoQuery \notin DOMAIN CommandsFor
ASSUME LibraryAssumption ==
    /\ Batches \in Seq(Seq(DOMAIN Contents)) /\ TooLarge \subseteq DOMAIN Contents
    /\ Initially \subseteq DOMAIN Contents /\ IsFiniteSet(DOMAIN Contents)
ASSUME PollingAssumption == Main \notin Others /\ Loads # {}
ASSUME AtlasAssumption == A!DemoQuery \in Typed /\ Chips \subseteq Typed \ {A!DemoQuery}

\* The variables of a page.
swarmState == <<roster, phase, column, swarmRunning, reconciled, swarmAbort, aborted,
    lane, launch, bought, asked>>
discoverState == <<stage, listed, passed, chosen, answerShown, result, routing, paywall,
    shown, refreshing, mounted, runStep, listedThen, stopped, call, runs,
    funds, remaining>>
fleetState == <<lanePhase, fleetRunning, fleetAbort, fleetStopped, fleetStep, route,
    fleets>>
handshakeState == <<step, walking, wire, paidAnswer, total, walkAbort, here, walk, cancelled,
    walks, redeemed, answered>>
tourState == <<active, phaseAt, status, tally, onAtlas, notice, run, shownRun, timers,
    dispatching, tokens, abortOf, abortedRuns, starting, used, warm, look,
    deal>>
streamState == <<arrived, buffer, got, body>>
paywallState == <<dialog, payStage, busy, tab, closeTimers, token, minting, waiting, held,
    older, funded, ready, offline, reading, purchase, verified, purchases>>
consoleState == <<turnStatus, restored, conversationId, streaming, seeded, stream,
    askStopped, opening, deleting, kept, made, files, begun, crossed>>
libraryState == <<known, listing, totalShown, loading, unreachable, job, readTimers, ingest,
    list, removal, indexed, overtaken>>
paletteState == <<paletteOpen, text, found, searching, cursor, debounce, current, outdated>>
pollingState == <<figure, pageLoading, pageOffline, load, reported, apiUp>>
atlasState == <<plot, published, queryText, projecting, projection, pending, demoTimer,
    demoPending, crowded>>

vars == <<page, swarmState, discoverState, fleetState, handshakeState, tourState,
          streamState, paywallState, consoleState, libraryState, paletteState,
          pollingState, atlasState>>

TypeOK ==
    /\ page \in Pages
    /\ S!SwarmTypeOK /\ D!DiscoverTypeOK /\ F!FleetTypeOK /\ H!HandshakeTypeOK
    /\ T!TourTypeOK /\ E!StreamTypeOK /\ P!PaywallTypeOK /\ C!ConsoleTypeOK
    /\ L!LibraryTypeOK /\ K!PaletteTypeOK /\ G!PollTypeOK /\ A!AtlasTypeOK

\* Where a page may begin in several ways, one that is not open begins in one.
Init ==
    /\ page \in Pages
    /\ S!SwarmInit /\ D!DiscoverInit /\ F!FleetInit /\ H!HandshakeInit
    /\ T!TourInit /\ E!StreamInit /\ P!PaywallInit /\ C!ConsoleInit
    /\ L!LibraryInit /\ K!PaletteInit /\ G!PollInit /\ A!AtlasInit
    /\ page = "paywall" \/ token = "none"
    /\ page = "console" \/ ~seeded
    /\ page = "polling" \/ apiUp

-----------------------------------------------------------------------------
\* The page that is open moves, the others do not.
Only(p) ==
    /\ page = p
    /\ page' = page
    /\ IF p = "swarm" THEN TRUE ELSE UNCHANGED swarmState
    /\ IF p = "discover" THEN TRUE ELSE UNCHANGED discoverState
    /\ IF p = "fleet" THEN TRUE ELSE UNCHANGED fleetState
    /\ IF p = "handshake" THEN TRUE ELSE UNCHANGED handshakeState
    /\ IF p = "tour" THEN TRUE ELSE UNCHANGED tourState
    /\ IF p = "stream" THEN TRUE ELSE UNCHANGED streamState
    /\ IF p = "paywall" THEN TRUE ELSE UNCHANGED paywallState
    /\ IF p = "console" THEN TRUE ELSE UNCHANGED consoleState
    /\ IF p = "library" THEN TRUE ELSE UNCHANGED libraryState
    /\ IF p = "palette" THEN TRUE ELSE UNCHANGED paletteState
    /\ IF p = "polling" THEN TRUE ELSE UNCHANGED pollingState
    /\ IF p = "atlas" THEN TRUE ELSE UNCHANGED atlasState

Next ==
    \/ Only("swarm") /\ S!SwarmNext
    \/ Only("discover") /\ D!DiscoverNext
    \/ Only("fleet") /\ F!FleetNext
    \/ Only("handshake") /\ H!HandshakeNext
    \/ Only("tour") /\ T!TourNext
    \/ Only("stream") /\ E!StreamNext
    \/ Only("paywall") /\ P!PaywallNext
    \/ Only("console") /\ C!ConsoleNext
    \/ Only("library") /\ L!LibraryNext
    \/ Only("palette") /\ K!PaletteNext
    \/ Only("polling") /\ G!PollNext
    \/ Only("atlas") /\ A!AtlasNext

Spec == Init /\ [][Next]_vars

\* The pages' own fairness, for the one that is open.
FairSpec ==
    /\ Spec
    /\ WF_discoverState(page = "discover" /\ D!TokenAnswered)
    /\ WF_discoverState(page = "discover" /\ D!ServeRoute)
    /\ WF_discoverState(page = "discover" /\ D!Reading)
    /\ WF_handshakeState(page = "handshake" /\ H!WalkStep)
    /\ WF_handshakeState(page = "handshake" /\ H!Serving)
    /\ WF_tourState(page = "tour" /\ T!Timers)
    /\ WF_consoleState(page = "console" /\ C!Answering)
    /\ WF_pollingState(page = "polling" /\ G!IntervalTimer)
    /\ WF_pollingState(page = "polling" /\ G!Answers)
    /\ WF_pollingState(page = "polling" /\ G!Landing)

-----------------------------------------------------------------------------
(* Event streams: each frame is dispatched once and in order, wherever the *)
(* text is cut into chunks (lib/stream.ts).                                *)
FramesSurviveChunking == E!FramesSurviveChunking

(* Swarm: after Stop no lane redeems a payment or asks a question.         *)
StoppedLanesSpendNothing == S!StoppedLanesSpendNothing

(* Swarm: in a swarm of fewer agents than a bundle has credits, "Exact" is *)
(* said of agents that all bought and all paid; and the lanes shown as     *)
(* answered are lanes of the swarm that is shown.                          *)
ExactMeansPaid == S!ExactMeansPaid /\ S!LanesAreOfThisSwarm

(* Swarm: the same of "Exact" in a swarm of any size.                      *)
ExactIsAudited == S!ExactIsAudited

(* Discovery: the pipeline and the cards "cannot show a step that did not  *)
(* happen", to this very request.                                          *)
NoStepThatDidNotHappen == D!NoStepThatDidNotHappen /\ D!CardsTellOfOneRun

(* Fleet: while its calls are read it can be stopped; a lane that shows an *)
(* answer was charged for it, and no lane stays busy.                      *)
SpendingFleetCanBeStopped ==
    F!SpendingFleetCanBeStopped /\ F!ServedLanesPaid /\ F!FinishedLanesAreSettled

(* Paywall and handshake: "Nothing here pretends a payment happened that   *)
(* did not": "issued", the tick of the paid answer and the banner all      *)
(* stand for a hash that the server redeemed.                              *)
ClaimedPaymentsHappened ==
    P!NothingPretended /\ H!TickedAnswerWasPaidFor /\ H!BannerTellsOfAPayment

(* Demonstration: "Every figure above was produced by live API calls       *)
(* during this run", however starts and stops overlap.                     *)
FiguresAreOfThisRun == T!FiguresAreOfThisRun

(* Palette: the passages listed are those of the text above them, however  *)
(* late the answers of earlier keystrokes are.                             *)
MatchesAreOfTheText == K!MatchesAreOfTheText

(* Console: the next question goes to the conversation on the screen.      *)
ShownIsContinued == C!ShownIsContinued

(* Session: "a token that is valid right now" goes with every request.     *)
NoExpiredTokenIsSent == P!NoExpiredTokenIsSent

(* Library: the tile and the list under it agree, however uploads,         *)
(* deletions and reloads overlap.                                          *)
TileCountsTheList == L!TileCountsTheList

(* Handshake, library, atlas: what spins is a request under way.           *)
SpinnersTurnForARequest ==
    H!NothingSpinsWhenIdle /\ L!SpinnersAreUploads /\ A!SpinnerIsAProjection

(* What each of these pages keeps true at every step, from which the       *)
(* properties above follow.                                                *)
PagesInv ==
    /\ S!SwarmInv /\ H!HandshakeInv /\ T!TourInv /\ P!TokensInv /\ P!StageInv
    /\ C!ConsoleInv /\ L!LibraryInv /\ K!PaletteInv /\ A!AtlasInv

(* What a visitor starts comes to an end: routed requests, the handshake,  *)
(* the demonstration's timeline and questions; and a page that polls       *)
(* catches up with an API that stays up.                                   *)
RunsEnd ==
    /\ D!RoutingEnds /\ H!WalkEnds /\ T!TimelineNeverWaits /\ C!TurnsSettle
    /\ page = "polling" => G!FiguresCatchUp
=============================================================================
