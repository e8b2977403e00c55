----------------------------- MODULE VisitsProofs -----------------------------
(***************************************************************************)
(* What is proved of a visit to any page: the invariants of the pages      *)
(* (PagesInv), the properties that follow from them, and the types of the  *)
(* pages' states.  A visit does to the state of a page only what the page  *)
(* does, so that what a page keeps at each of its steps, every visit keeps.*)
(*                                                                         *)
(* The theorems about the routed calls and about event streams come        *)
(* through an instance of the module that holds them; SameFleet,           *)
(* SameDiscover and SameStream say that what it instantiates is the page   *)
(* that Visits is composed of.                                             *)
(***************************************************************************)
EXTENDS Visits, FiniteSums

RP == INSTANCE PageProofs

-----------------------------------------------------------------------------
\* The routed calls: the fleet and the discovery page.
LEMMA SameFleet ==
    /\ F!FleetInit = RP!FleetInit
    /\ F!FleetNext = RP!FleetNext
    /\ F!SpendingFleetCanBeStopped = RP!SpendingFleetCanBeStopped
    /\ F!ServedLanesPaid = RP!ServedLanesPaid
    /\ F!FinishedLanesAreSettled = RP!FinishedLanesAreSettled
<1>1. F!FleetInit = RP!FleetInit
  BY DEF F!FleetInit, RP!FleetInit, F!NoCall, RP!NoCall
<1>2. F!FleetNext = RP!FleetNext
  <2> USE DEF F!EventCount, F!RouteEvents, RP!EventCount, RP!RouteEvents
  <2>1. /\ F!ClickLaunchFleet = RP!ClickLaunchFleet
        /\ F!ClickStopFleet = RP!ClickStopFleet
    BY DEF F!ClickLaunchFleet, RP!ClickLaunchFleet, F!ClickStopFleet, RP!ClickStopFleet,
           F!FleetButton, RP!FleetButton, F!NoCall, RP!NoCall
  <2>2. /\ F!FleetTokenGranted = RP!FleetTokenGranted
        /\ F!FleetTokenRefused = RP!FleetTokenRefused
        /\ F!FleetOver = RP!FleetOver
    BY DEF F!FleetTokenGranted, RP!FleetTokenGranted, F!FleetTokenRefused,
           RP!FleetTokenRefused, F!FleetOver, RP!FleetOver, F!FleetEnds, RP!FleetEnds,
           F!OpenCall, RP!OpenCall, F!NoCall, RP!NoCall
  <2>3. ASSUME NEW i
        PROVE  F!ServeLane(i) = RP!ServeLane(i)
    BY DEF F!ServeLane, RP!ServeLane, F!ServerSteps, RP!ServerSteps, F!Emitted,
           RP!Emitted, F!Position, RP!Position
  <2>4. ASSUME NEW i
        PROVE  /\ F!LaneHandles(i) = RP!LaneHandles(i)
               /\ F!LaneErrs(i) = RP!LaneErrs(i)
               /\ F!LaneResolves(i) = RP!LaneResolves(i)
    BY DEF F!LaneHandles, RP!LaneHandles, F!LaneErrs, RP!LaneErrs, F!LaneResolves,
           RP!LaneResolves, F!CanDispatch, RP!CanDispatch, F!PhaseAfter, RP!PhaseAfter,
           F!NextEvent, RP!NextEvent, F!Dispatched, RP!Dispatched, F!CanFail, RP!CanFail,
           F!Told, RP!Told, F!CanResolve, RP!CanResolve, F!Aborted, RP!Aborted,
           F!CallOver, RP!CallOver
  <2> QED
    BY <2>1, <2>2, <2>3, <2>4, Zenon DEF F!FleetNext, RP!FleetNext
<1>3. F!SpendingFleetCanBeStopped = RP!SpendingFleetCanBeStopped
  BY DEF F!SpendingFleetCanBeStopped, RP!SpendingFleetCanBeStopped, F!FleetButton,
         RP!FleetButton
<1>4. F!ServedLanesPaid = RP!ServedLanesPaid
  BY DEF F!ServedLanesPaid, RP!ServedLanesPaid, F!Served, RP!Served, F!Charged,
         RP!Charged, F!Emitted, RP!Emitted, F!Position, RP!Position, F!EventCount,
         RP!EventCount, F!RouteEvents, RP!RouteEvents
<1>5. F!FinishedLanesAreSettled = RP!FinishedLanesAreSettled
  BY DEF F!FinishedLanesAreSettled, RP!FinishedLanesAreSettled, F!LaneIsLive,
         RP!LaneIsLive
<1> QED
  BY <1>1, <1>2, <1>3, <1>4, <1>5

LEMMA VisitsShowFleets == Spec => RP!FleetSpec
<1>1. Init => RP!FleetInit
  BY SameFleet DEF Init
<1>2. [Next]_vars => [RP!FleetNext]_(RP!fleetVars)
  BY SameFleet DEF Next, Only, vars, fleetState, RP!fleetVars
<1> QED
  BY <1>1, <1>2, PTL DEF Spec, RP!FleetSpec

(* Fleet (NetworkDemo.tsx): whatever the visitor opens, a fleet whose      *)
(* calls are read is under Stop, a lane with an answer was charged for it, *)
(* and no lane of a launch that is over stays busy, for any number of      *)
(* lanes and launches.                                                     *)
THEOREM FleetsAlwaysStoppable == Spec => []SpendingFleetCanBeStopped
<1>1. Spec => [](RP!SpendingFleetCanBeStopped /\ RP!ServedLanesPaid
                 /\ RP!FinishedLanesAreSettled)
  BY VisitsShowFleets, RP!FleetShowsItsCalls, PTL
<1>2. RP!SpendingFleetCanBeStopped /\ RP!ServedLanesPaid /\ RP!FinishedLanesAreSettled
        => SpendingFleetCanBeStopped
  BY SameFleet DEF SpendingFleetCanBeStopped
<1> QED
  BY <1>1, <1>2, PTL

LEMMA SameDiscover ==
    /\ D!DiscoverInit = RP!DiscoverInit
    /\ D!DiscoverNext = RP!DiscoverNext
    /\ D!NoStepThatDidNotHappen = RP!NoStepThatDidNotHappen
    /\ D!CardsTellOfOneRun = RP!CardsTellOfOneRun
<1>1. D!StageIds = RP!StageIds
  BY DEF D!StageIds, RP!StageIds, D!Stages, RP!Stages
<1>2. D!EventCount = RP!EventCount /\ \A event : D!Position(event) = RP!Position(event)
  BY DEF D!EventCount, RP!EventCount, D!RouteEvents, RP!RouteEvents,
         D!Position, RP!Position
<1>3. D!DiscoverInit = RP!DiscoverInit
  BY <1>1 DEF D!DiscoverInit, RP!DiscoverInit, D!NoCall, RP!NoCall
<1>4. D!DiscoverNext = RP!DiscoverNext
  <2> USE <1>1, <1>2 DEF D!shownVars, RP!shownVars, D!server, RP!server, D!closureVars,
                         RP!closureVars
  <2>1. /\ D!ClickRoute = RP!ClickRoute
        /\ D!ClickStop = RP!ClickStop
        /\ D!Leave = RP!Leave
        /\ D!ClosePaywall = RP!ClosePaywall
        /\ D!RefreshLands = RP!RefreshLands
    BY DEF D!ClickRoute, RP!ClickRoute, D!ClickStop, RP!ClickStop,
           D!Leave, RP!Leave, D!ClosePaywall, RP!ClosePaywall,
           D!RefreshLands, RP!RefreshLands, D!ComposerButton,
           RP!ComposerButton, D!NoCall, RP!NoCall
  <2>2. D!TokenAnswered = RP!TokenAnswered
    BY DEF D!TokenAnswered, RP!TokenAnswered, D!TokenGranted,
           RP!TokenGranted, D!TokenRefused, RP!TokenRefused, D!OpenCall,
           RP!OpenCall, D!NoCall, RP!NoCall, D!RunEnds, RP!RunEnds
  <2>3. D!ServeRoute = RP!ServeRoute
    BY DEF D!ServeRoute, RP!ServeRoute, D!ServerSteps, RP!ServerSteps,
           D!Emitted, RP!Emitted, D!Charged, RP!Charged
  <2>4. D!Handle = RP!Handle
    <3>1. \A event : D!StagesAfter(event) = RP!StagesAfter(event)
      BY DEF D!StagesAfter, RP!StagesAfter, D!Advance, RP!Advance,
             D!MarkDone, RP!MarkDone, D!Rank, RP!Rank, D!Stages,
             RP!Stages
    <3> QED
      BY <3>1 DEF D!Handle, RP!Handle, D!CanDispatch, RP!CanDispatch,
                  D!Dispatched, RP!Dispatched, D!NextEvent, RP!NextEvent,
                  D!RouteEvents, RP!RouteEvents, D!GateAfter, RP!GateAfter
  <2>5. D!RouteResolved = RP!RouteResolved
    BY DEF D!RouteResolved, RP!RouteResolved, D!CanResolve,
           RP!CanResolve, D!Aborted, RP!Aborted, D!CallOver,
           RP!CallOver, D!RunEnds, RP!RunEnds
  <2>6. ASSUME NEW forCredits
        PROVE  D!RouteError(forCredits) = RP!RouteError(forCredits)
    BY DEF D!RouteError, RP!RouteError, D!CanFail, RP!CanFail,
           D!MayBeForCredits, RP!MayBeForCredits, D!ErrorEventDue,
           RP!ErrorEventDue, D!Told, RP!Told
  <2> QED
    BY <2>1, <2>2, <2>3, <2>4, <2>5, <2>6, Zenon DEF D!DiscoverNext, RP!DiscoverNext,
                                                     D!Reading, RP!Reading
<1>5. D!NoStepThatDidNotHappen = RP!NoStepThatDidNotHappen
  BY <1>1, <1>2 DEF D!NoStepThatDidNotHappen, RP!NoStepThatDidNotHappen,
                    D!PipelineRow, RP!PipelineRow, D!Emitted, RP!Emitted,
                    D!Completes, RP!Completes
<1>6. D!CardsTellOfOneRun = RP!CardsTellOfOneRun
  BY <1>2 DEF D!CardsTellOfOneRun, RP!CardsTellOfOneRun, D!Scoreboard,
              RP!Scoreboard, D!ReputationCard, RP!ReputationCard,
              D!Charged, RP!Charged, D!Emitted, RP!Emitted
<1> QED
  BY <1>3, <1>4, <1>5, <1>6

LEMMA VisitsShowDiscovery == Spec => RP!DiscoverInit /\ [][RP!DiscoverNext]_(RP!discoverVars)
<1>1. Init => RP!DiscoverInit
  BY SameDiscover DEF Init
<1>2. [Next]_vars => [RP!DiscoverNext]_(RP!discoverVars)
  BY SameDiscover DEF Next, Only, vars, discoverState, RP!discoverVars
<1> QED
  BY <1>1, <1>2, PTL DEF Spec

(* Discovery (DiscoverWorkspace.tsx): whatever page is open, the pipeline  *)
(* and the cards "cannot show a step that did not happen" to this very     *)
(* request, for any number of requests, providers and credits.             *)
THEOREM ShownStepsHappened == Spec => []NoStepThatDidNotHappen
<1>1. Spec => [](RP!NoStepThatDidNotHappen /\ RP!CardsTellOfOneRun)
  BY VisitsShowDiscovery, RP!StepsShownHappened, PTL
<1>2. RP!NoStepThatDidNotHappen /\ RP!CardsTellOfOneRun => NoStepThatDidNotHappen
  BY SameDiscover DEF NoStepThatDidNotHappen
<1> QED
  BY <1>1, <1>2, PTL
-----------------------------------------------------------------------------
\* Event streams.
LEMMA SameStream ==
    /\ E!StreamInit = RP!StreamInit
    /\ E!StreamNext = RP!StreamNext
    /\ E!StreamTypeOK = RP!StreamTypeOK
    /\ E!FramesSurviveChunking = RP!FramesSurviveChunking
<1>1. E!Text = RP!Text
  BY DEF E!Text, RP!Text, E!Frame, RP!Frame, E!FrameLength, RP!FrameLength, E!Name, RP!Name,
         E!Payload, RP!Payload, E!Newline, RP!Newline, E!EventColon, RP!EventColon,
         E!DataColon, RP!DataColon
<1>2. \A k : E!Handed(k) = RP!Handed(k)
  BY DEF E!Handed, RP!Handed, E!Name, RP!Name, E!Payload, RP!Payload
<1>3. \A text_ : E!BlockEnds(text_) = RP!BlockEnds(text_)
  BY DEF E!BlockEnds, RP!BlockEnds, E!Newline, RP!Newline
<1>4. \A nums : E!Max(nums) = RP!Max(nums) /\ E!Min(nums) = RP!Min(nums)
  BY DEF E!Max, RP!Max, E!Min, RP!Min
<1>5. \A text_ : E!Boundary(text_) = RP!Boundary(text_)
  BY <1>3, <1>4 DEF E!Boundary, RP!Boundary
<1>6. \A block, mark : E!LineOf(block, mark) = RP!LineOf(block, mark)
  BY <1>4 DEF E!LineOf, RP!LineOf, E!Newline, RP!Newline
<1>7. \A block : E!HandedOn(block) = RP!HandedOn(block)
  BY <1>6 DEF E!HandedOn, RP!HandedOn, E!EventColon, RP!EventColon, E!DataColon,
              RP!DataColon, E!Name, RP!Name, E!Payload, RP!Payload
<1>8. \A text_ : E!Dispatchable(text_) = RP!Dispatchable(text_)
  BY <1>3, <1>4, <1>7 DEF E!Dispatchable, RP!Dispatchable
<1>9. E!StreamNext = RP!StreamNext
  BY <1>1, <1>5, <1>8 DEF E!StreamNext, RP!StreamNext, E!ReadChunk, RP!ReadChunk, E!BodyEnds,
         RP!BodyEnds, E!BodyBreaks, RP!BodyBreaks
<1>10. E!FrameLength = RP!FrameLength
  BY DEF E!FrameLength, RP!FrameLength, E!Frame, RP!Frame, E!Name, RP!Name, E!Payload,
         RP!Payload, E!Newline, RP!Newline, E!EventColon, RP!EventColon, E!DataColon,
         RP!DataColon
<1>11. E!StreamTypeOK = RP!StreamTypeOK
  BY <1>1, <1>2, <1>10 DEF E!StreamTypeOK, RP!StreamTypeOK, E!Range, RP!Range
<1>12. E!FramesSurviveChunking = RP!FramesSurviveChunking
  BY <1>2, <1>10 DEF E!FramesSurviveChunking, RP!FramesSurviveChunking
<1>13. E!StreamInit = RP!StreamInit
  BY DEF E!StreamInit, RP!StreamInit
<1> QED BY <1>9, <1>11, <1>12, <1>13

LEMMA VisitsShowStreams == Spec => RP!StreamSpec
<1>1. Init => RP!StreamInit
  BY SameStream DEF Init
<1>2. [Next]_vars => [RP!StreamNext]_(RP!streamVars)
  BY SameStream DEF Next, Only, vars, streamState, RP!streamVars
<1> QED
  BY <1>1, <1>2, PTL DEF Spec, RP!StreamSpec

LEMMA VisitsKeepStreams == Spec => [](E!StreamTypeOK /\ FramesSurviveChunking)
<1>1. Spec => [](RP!StreamTypeOK /\ RP!FramesSurviveChunking)
  <2>1. FrameCount \in Nat
    BY StreamAssumption
  <2> QED BY <2>1, VisitsShowStreams, RP!FramesReassembled, PTL
<1>2. RP!StreamTypeOK /\ RP!FramesSurviveChunking => E!StreamTypeOK /\ FramesSurviveChunking
  BY SameStream DEF FramesSurviveChunking
<1> QED
  BY <1>1, <1>2, PTL

(* Event streams (lib/stream.ts): the handlers are called for each frame   *)
(* once, in order, and with its own payload, for any number of frames and  *)
(* wherever their text is cut into chunks.                                 *)
THEOREM FramesAlwaysSurvive == Spec => []FramesSurviveChunking
  BY VisitsKeepStreams, PTL
-----------------------------------------------------------------------------
\* Session and paywall.
LEMMA TokensInit == P!PaywallInit => P!TokensInv
BY DEF P!PaywallInit, P!SessionInit, P!TokensInv, P!Ages

LEMMA StageInit == P!PaywallInit => P!StageInv
BY DEF P!PaywallInit, P!StageInv

LEMMA TokensNext == P!TokensInv /\ [P!PaywallNext]_(P!payVars) => P!TokensInv'
<1> SUFFICES ASSUME P!TokensInv, [P!PaywallNext]_(P!payVars) PROVE P!TokensInv'
  OBVIOUS
<1>1. ASSUME UNCHANGED <<token, held, older>> PROVE P!TokensInv'
  BY <1>1 DEF P!TokensInv
<1>2. CASE \/ P!OpenDialog \/ P!ClickClose \/ P!PressEscape \/ P!ClickTab \/ P!CloseTimer
           \/ P!ClickPay \/ P!PayChallenge \/ P!PayServed \/ P!PayFailed
           \/ P!FirstLoad \/ P!SetCredits \/ P!AskRefresh \/ P!RefreshLands
           \/ UNCHANGED P!payVars
  BY <1>1, <1>2
  DEF P!OpenDialog, P!ClickClose, P!PressEscape, P!ClickTab, P!CloseTimer, P!ClickPay,
      P!PayChallenge, P!PayServed, P!PayFailed, P!FirstLoad, P!SetCredits, P!AskRefresh,
      P!RefreshLands, P!Untouched, P!payVars, P!sessionVars, P!tokenVars
<1>3. CASE P!PaySettled
  BY <1>3 DEF P!PaySettled, P!PurchaseLands, P!TokensInv, P!Ages
<1>4. CASE P!MintLands \/ P!MintFails
  <2>1. PICK answer \in {"fresh", "refused"} :
            /\ held' = [c \in Callers |-> IF c \in waiting THEN answer ELSE held[c]]
            /\ token' \in {token, "fresh"} /\ older' = older
    BY <1>4 DEF P!MintLands, P!MintFails, P!Give
  <2> QED
    BY <2>1 DEF P!TokensInv, P!Ages
<1>5. CASE P!TimePasses
  <2>1. /\ token' = P!Older(token)
        /\ held' = [c \in Callers |-> P!Older(held[c])]
        /\ older' = older \cup {c \in Callers : held[c] \in P!Ages}
        /\ \A c \in Callers : held[c] \in P!Ages => c \notin older
    BY <1>5 DEF P!TimePasses
  <2>2. token' \in P!Ages \cup {"none"}
    BY <2>1 DEF P!TokensInv, P!Older, P!Ages
  <2>3. held' \in [Callers -> P!Ages \cup {"none", "refused"}]
    BY <2>1 DEF P!TokensInv, P!Older, P!Ages
  <2>4. ASSUME NEW c \in Callers
        PROVE  held'[c] # "expired" /\ (held'[c] = "margin" => c \in older')
    <3>1. held[c] \in {"fresh", "none", "refused"}
      BY <2>1 DEF P!TokensInv, P!Ages
    <3> QED
      BY <2>1, <3>1 DEF P!Older, P!Ages
  <2> QED
    BY <2>2, <2>3, <2>4 DEF P!TokensInv
<1>6. ASSUME NEW c \in Callers, P!OtherCall(c) PROVE P!TokensInv'
  <2>1. CASE held[c] = "none" /\ P!GetToken(c)
    <3>1. UNCHANGED <<token, older>> /\ (held' = held \/ held' = [held EXCEPT ![c] = "fresh"])
      BY <2>1 DEF P!GetToken, P!LongLived
    <3> QED
      BY <3>1 DEF P!TokensInv, P!Ages
  <2>2. CASE P!TakeToken(c)
    BY <2>2 DEF P!TakeToken, P!TokensInv, P!Ages
  <2> QED
    BY <1>6, <2>1, <2>2 DEF P!OtherCall
<1> QED
  BY <1>2, <1>3, <1>4, <1>5, <1>6 DEF P!PaywallNext, P!SessionStep

LEMMA StageNext == P!StageInv /\ [P!PaywallNext]_(P!payVars) => P!StageInv'
<1> SUFFICES ASSUME P!StageInv, [P!PaywallNext]_(P!payVars) PROVE P!StageInv'
  OBVIOUS
<1>1. ASSUME UNCHANGED <<payStage, purchase, verified>> PROVE P!StageInv'
  BY <1>1 DEF P!StageInv
<1>2. CASE \/ P!OpenDialog \/ P!ClickClose \/ P!PressEscape \/ P!ClickTab \/ P!CloseTimer
           \/ UNCHANGED P!payVars
  BY <1>1, <1>2
  DEF P!OpenDialog, P!ClickClose, P!PressEscape, P!ClickTab, P!CloseTimer, P!Untouched,
      P!payVars, P!paywallVars, P!sessionVars
<1>3. CASE P!SessionStep(Callers) /\ UNCHANGED P!paywallVars
  BY <1>1, <1>3
  DEF P!SessionStep, P!MintLands, P!MintFails, P!TimePasses, P!FirstLoad,
      P!SetCredits, P!AskRefresh, P!RefreshLands, P!OtherCall, P!paywallVars, P!purchaseVars
<1>4. CASE P!ClickPay \/ P!PayChallenge
  BY <1>4 DEF P!ClickPay, P!PayChallenge, P!StartPurchase, P!ChallengeRead, P!StageInv
<1>5. CASE P!PayServed
  BY <1>5 DEF P!PayServed, P!ServeVerify, P!StageInv, P!paywallVars
<1>6. CASE P!PaySettled
  <2>1. verified' = verified /\ verified /\ payStage' = "settled"
    BY <1>6 DEF P!PaySettled, P!PurchaseLands
  <2>2. verified = TRUE
    BY <2>1
  <2> QED
    BY <2>1, <2>2 DEF P!StageInv
<1>7. CASE P!PayFailed
  BY <1>7 DEF P!PayFailed, P!StageInv
<1> QED
  BY <1>2, <1>3, <1>4, <1>5, <1>6, <1>7 DEF P!PaywallNext

(* "A token that is valid right now" (SessionProvider.tsx): no caller ever *)
(* holds one that has run out, however mints, purchases and the clock      *)
(* interleave, as long as it uses its token within the margin.             *)
THEOREM TokensAreValid == P!PaywallSpec => []P!NoExpiredTokenIsSent
<1>1. P!TokensInv => P!NoExpiredTokenIsSent
  BY DEF P!TokensInv, P!NoExpiredTokenIsSent
<1> QED
  BY <1>1, TokensInit, TokensNext, PTL DEF P!PaywallSpec

(* "Nothing here pretends a payment happened that did not"                 *)
(* (PaywallDialog.tsx): whatever is closed and opened again meanwhile, the *)
(* stage that is shown is the stage of the purchase.                       *)
THEOREM StagesAreTrue == P!PaywallSpec => []P!NothingPretended
<1>1. P!StageInv => P!NothingPretended
  <2> SUFFICES ASSUME P!StageInv PROVE P!NothingPretended
    OBVIOUS
  <2>1. P!StageList = "settled" => verified = TRUE
    BY DEF P!StageInv, P!StageList
  <2>2. P!StageList \in {"challenge", "verifying"} => purchase # "no"
    BY DEF P!StageInv, P!StageList
  <2> QED
    BY <2>1, <2>2 DEF P!NothingPretended
<1> QED
  BY <1>1, StageInit, StageNext, PTL DEF P!PaywallSpec

LEMMA VisitsShowPaywalls == Spec => P!PaywallSpec
<1>1. Init => P!PaywallInit
  BY DEF Init
<1>2. [Next]_vars => [P!PaywallNext]_(P!payVars)
  BY DEF Next, Only, vars, paywallState, P!payVars, P!paywallVars, P!sessionVars
<1> QED
  BY <1>1, <1>2, PTL DEF Spec, P!PaywallSpec

(* Session (SessionProvider.tsx): "a token that is valid right now" goes   *)
(* with every request, for any number of callers and purchases.            *)
THEOREM TokensAlwaysValid == Spec => []NoExpiredTokenIsSent
  BY VisitsShowPaywalls, TokensAreValid, PTL DEF NoExpiredTokenIsSent

LEMMA VisitsKeepPaywalls == Spec => [](P!TokensInv /\ P!StageInv)
  BY VisitsShowPaywalls, TokensInit, TokensNext, StageInit, StageNext, PTL DEF P!PaywallSpec
-----------------------------------------------------------------------------
\* Handshake: the list shows where the run is.
LEMMA StepNames == H!StepIds = {"unpaid", "challenge", "settle", "verify", "answer"}
<1>1. DOMAIN H!WalkSteps = 1..5
  BY DEF H!WalkSteps
<1> QED
  BY <1>1 DEF H!StepIds, H!WalkSteps

\* What the drawn rows say of the states of the steps.
LEMMA RowsDrawn ==
    /\ H!TickedAnswerWasPaidFor <=>
           (step["answer"] = "done" =>
               /\ redeemed /\ answered \in {"charged", "cached"}
               /\ wire = {"unpaid", "challenge", "verify"} /\ paidAnswer = "whole")
    /\ H!NothingSpinsWhenIdle <=>
           (here /\ ~walking => \A s \in H!StepIds : step[s] # "running")
BY DEF H!TickedAnswerWasPaidFor, H!NothingSpinsWhenIdle, H!StepRow, H!PaidAnswerCard

LEMMA HandshakeInits == H!HandshakeInit => H!HandshakeInv
<1> SUFFICES ASSUME H!HandshakeInit PROVE H!HandshakeInv
  OBVIOUS
<1>1. step \in [H!StepIds -> H!StepStates] /\ \A s \in H!StepIds : step[s] = "idle"
  BY DEF H!HandshakeInit, H!AllIdle, H!StepStates
<1>2. H!HandshakeTypeOK
  <2>1. MaxWalks \in Nat
    BY BoundsAssumption
  <2>2. walks \in 0..MaxWalks
    BY <2>1 DEF H!HandshakeInit
  <2> QED
    BY <1>1, <2>2, Zenon DEF H!HandshakeInit, H!HandshakeTypeOK
<1>3. H!RunsWhereItWaits /\ H!QuestionsArePaidFor /\ H!WirePrinted
  BY <1>1, StepNames
  DEF H!HandshakeInit, H!RunsWhereItWaits, H!QuestionsArePaidFor, H!WirePrinted
<1>4. H!TickedAnswerWasPaidFor
  BY <1>1, StepNames, RowsDrawn
<1> QED
  BY <1>2, <1>3, <1>4 DEF H!HandshakeInv

LEMMA HandshakeNexts ==
    H!HandshakeInv /\ [H!HandshakeNext]_(H!handshakeVars) => H!HandshakeInv'
<1> SUFFICES ASSUME H!HandshakeInv, [H!HandshakeNext]_(H!handshakeVars)
             PROVE  H!HandshakeInv'
  OBVIOUS
<1> DEFINE Ticked == step["answer"] = "done" =>
               /\ redeemed /\ answered \in {"charged", "cached"}
               /\ wire = {"unpaid", "challenge", "verify"} /\ paidAnswer = "whole"
<1>1. H!TickedAnswerWasPaidFor' <=> Ticked'
  BY DEF H!TickedAnswerWasPaidFor, H!StepRow, H!PaidAnswerCard
<1>2. Ticked
  BY RowsDrawn DEF H!HandshakeInv
<1> USE StepNames
    DEF H!HandshakeInv, H!HandshakeTypeOK, H!StepStates, H!RunsWhereItWaits,
        H!QuestionsArePaidFor, H!WirePrinted
<1>3. CASE H!ClickRun
  <2>1. /\ step' \in [H!StepIds -> H!StepStates]
        /\ \A s \in H!StepIds : step'[s] = IF s = "unpaid" THEN "running" ELSE "idle"
    BY <1>3 DEF H!ClickRun, H!AllIdle
  <2>2. walks' \in 0..MaxWalks
    BY <1>3, BoundsAssumption DEF H!ClickRun
  <2> QED
    BY <1>1, <2>1, <2>2, <1>3 DEF H!ClickRun, H!Cleared
<1>4. CASE H!ClickReset
  BY <1>1, <1>2, <1>4 DEF H!ClickReset, H!Cleared, H!AllIdle, H!Offers, H!Finished
<1>5. CASE H!LeaveWalk
  BY <1>1, <1>2, <1>5 DEF H!LeaveWalk
<1>6. CASE H!Probed
  BY <1>1, <1>2, <1>6 DEF H!Probed, H!GoOn
<1>7. CASE H!Challenged
  BY <1>1, <1>2, <1>7 DEF H!Challenged, H!GoOn
<1>8. CASE H!SandboxSettled
  BY <1>1, <1>2, <1>8 DEF H!SandboxSettled, H!GoOn
<1>9. CASE H!ServeRedemption
  BY <1>1, <1>2, <1>9 DEF H!ServeRedemption
<1>10. CASE H!PaymentVerified
  <2>1. /\ step' = [step EXCEPT !["verify"] = "done", !["answer"] = "running"]
        /\ walk = "verify" /\ walk' = "answer" /\ redeemed /\ wire' = wire \cup {"verify"}
        /\ walkAbort' = TRUE
        /\ UNCHANGED <<walking, paidAnswer, total, here, cancelled, walks, redeemed, answered>>
    BY <1>10 DEF H!PaymentVerified, H!GoOn
  <2>2. H!HandshakeTypeOK'
    BY <2>1
  <2>3. H!RunsWhereItWaits'
    BY <2>1
  <2>4. H!QuestionsArePaidFor'
    BY <2>1
  <2>5. wire' = {"unpaid", "challenge", "verify"}
    <3>1. "unpaid" \in wire' /\ "challenge" \in wire' /\ "verify" \in wire'
      BY <2>1
    <3>2. wire' \subseteq {"unpaid", "challenge", "verify"}
      BY <2>1
    <3> QED
      BY <3>1, <3>2
  <2>6. H!WirePrinted'
    BY <2>1, <2>5
  <2>7. H!TickedAnswerWasPaidFor'
    BY <1>1, <2>1
  <2> QED
    BY <2>2, <2>3, <2>4, <2>6, <2>7
<1>11. CASE H!ServeAnswer
  BY <1>1, <1>2, <1>11 DEF H!ServeAnswer
<1>12. CASE H!AnswerStreams
  BY <1>1, <1>2, <1>12 DEF H!AnswerStreams
<1>13. CASE H!AnswerDone
  BY <1>1, <1>2, <1>13 DEF H!AnswerDone
<1>14. CASE H!QuestionClosed
  BY <1>1, <1>2, <1>14 DEF H!QuestionClosed, H!AfterQuestion
<1>15. CASE H!QuestionFailed
  BY <1>1, <1>2, <1>15 DEF H!QuestionFailed, H!AfterQuestion
<1>16. CASE H!CallFailed
  BY <1>1, <1>2, <1>16 DEF H!CallFailed, H!FailRunning
<1>17. CASE UNCHANGED H!handshakeVars
  BY <1>1, <1>2, <1>17 DEF H!handshakeVars
<1> QED
  BY <1>3, <1>4, <1>5, <1>6, <1>7, <1>8, <1>9, <1>10, <1>11, <1>12, <1>13, <1>14, <1>15,
     <1>16, <1>17
  DEF H!HandshakeNext, H!WalkStep, H!Serving

LEMMA VisitsKeepHandshakes == Spec => []H!HandshakeInv
<1>1. Init => H!HandshakeInv
  BY HandshakeInits DEF Init
<1>2. H!HandshakeInv /\ [Next]_vars => H!HandshakeInv'
  <2>1. [Next]_vars => [H!HandshakeNext]_(H!handshakeVars)
    BY DEF Next, Only, vars, handshakeState,
           H!handshakeVars
  <2> QED
    BY <2>1, HandshakeNexts
<1> QED
  BY <1>1, <1>2, PTL DEF Spec

(* Paywall and handshake (PaywallDialog.tsx, PaymentHandshake.tsx):        *)
(* "Nothing here pretends a payment happened that did not", for any number *)
(* of payments and runs, whatever fails, is left, reset or closed          *)
(* meanwhile.                                                              *)
THEOREM ClaimedPaymentsAlwaysHappened == Spec => []ClaimedPaymentsHappened
<1>1. H!HandshakeInv => H!TickedAnswerWasPaidFor /\ H!BannerTellsOfAPayment
  BY DEF H!HandshakeInv, H!QuestionsArePaidFor, H!BannerTellsOfAPayment, H!Banner
<1>2. P!NothingPretended /\ H!HandshakeInv => ClaimedPaymentsHappened
  BY <1>1 DEF ClaimedPaymentsHappened
<1> QED
  BY <1>2, VisitsShowPaywalls, StagesAreTrue, VisitsKeepHandshakes, PTL
-----------------------------------------------------------------------------
\* Swarm: the audit of the balances, and what Stop stops.
\* The instance counts and adds up as the library does.
LEMMA SwarmCounts ==
    /\ \A s : S!Cardinality(s) = Cardinality(s)
    /\ \A w, s : S!SumFunctionOnSet(w, s) = SumFunctionOnSet(w, s)
<1>1. ASSUME NEW s PROVE S!Cardinality(s) = Cardinality(s)
  BY DEF S!Cardinality, Cardinality
<1>2. ASSUME NEW w, NEW s PROVE S!SumFunctionOnSet(w, s) = SumFunctionOnSet(w, s)
  BY DEF S!SumFunctionOnSet, SumFunctionOnSet, S!FoldFunctionOnSet, FoldFunctionOnSet,
         S!MapThenFoldSet, MapThenFoldSet
<1> QED
  BY <1>1, <1>2

LEMMA SwarmSizes ==
    ASSUME NEW l \in S!Launches
    PROVE  /\ l \in Nat \ {0} /\ SizeOf[l] \in Nat
           /\ S!Size(l) = 1..SizeOf[l] /\ S!Size(l) \subseteq S!Lanes
           /\ \A heard \in SUBSET S!Size(l) : IsFiniteSet(heard)
<1>1. l \in 1..Len(SizeOf) /\ SizeOf[l] \in Nat
  BY SwarmAssumption DEF S!Launches, S!MaxLaunches
<1>2. S!Size(l) = 1..SizeOf[l]
  BY <1>1 DEF S!Size
<1>3. IsFiniteSet(1..SizeOf[l])
  BY <1>1, FS_Interval
<1> QED
  BY <1>1, <1>2, <1>3, FS_Subset DEF S!Lanes

\* The audit: the sum comes out even only when every agent whose balance was
\* read has the balance of one that bought and paid.  One that did not buy is
\* short by more than all the others together can be ahead.
LEMMA EvenSumMeansPaid ==
    ASSUME NEW l \in S!Launches, NEW heard \in SUBSET S!Size(l),
           Trial = 3, Cardinality(heard) < PerPayment,
           S!Expected(heard) = S!Actual(l, heard)
    PROVE  \A i \in heard : <<l, i>> \in bought /\ asked[l][i] = "charged"
<1> DEFINE w == [i \in heard |-> S!Balance(l, i)]
           n == Cardinality(heard)
           p == PerPayment
           sum == SumFunctionOnSet(w, heard)
<1>1. p \in Nat \ {0}
  BY SwarmAssumption
<1>2. IsFiniteSet(heard) /\ n \in Nat
  BY SwarmSizes, FS_CardinalityType
<1>3. sum = n * (p + 2)
  BY <1>1, SwarmCounts DEF S!Expected, S!Actual
<1>4. ASSUME NEW i \in heard
      PROVE  /\ w[i] \in 2..(p + 3)
             /\ <<l, i>> \notin bought => w[i] <= 3
             /\ <<l, i>> \in bought => w[i] >= p + 2
             /\ <<l, i>> \in bought /\ w[i] = p + 2 => asked[l][i] = "charged"
  <2> DEFINE paid == asked[l][i] = "charged"
  <2>1. w[i] = (IF <<l, i>> \in bought THEN 3 + p ELSE 3) - (IF paid THEN 1 ELSE 0)
    BY DEF S!Balance
  <2> HIDE DEF w, paid, p
  <2>2. CASE <<l, i>> \in bought
    BY <1>1, <2>1, <2>2 DEF paid
  <2>3. CASE <<l, i>> \notin bought
    BY <1>1, <2>1, <2>3
  <2> QED
    BY <2>2, <2>3
<1> HIDE DEF w, n, p, sum
<1>5. \A i \in heard : w[i] \in Int
  <2> SUFFICES ASSUME NEW i \in heard PROVE w[i] \in Int
    OBVIOUS
  <2>1. w[i] \in 2..(p + 3)
    BY <1>4
  <2> QED
    BY <1>1, <2>1
<1>6. ASSUME NEW i \in heard
      PROVE  /\ IsFiniteSet(heard \ {i}) /\ Cardinality(heard \ {i}) = n - 1
             /\ sum = w[i] + SumFunctionOnSet(w, heard \ {i})
  BY <1>2, <1>5, FS_RemoveElement, SumWithout DEF n, sum
<1>7. ASSUME NEW i \in heard PROVE <<l, i>> \in bought
  <2> SUFFICES ASSUME <<l, i>> \notin bought PROVE FALSE
    OBVIOUS
  <2> DEFINE rest == SumFunctionOnSet(w, heard \ {i})
  <2>1. p + 3 \in Int
    BY <1>1
  <2>2. \A j \in heard \ {i} : w[j] \in 2..(p + 3)
    BY <1>4
  <2>3. rest \in Int /\ rest <= (n - 1) * (p + 3)
    <3> DEFINE others == heard \ {i}
               top == p + 3
    <3>1. IsFiniteSet(others) /\ top \in Int /\ \A j \in others : w[j] \in 2..top
      BY <1>6, <2>1, <2>2
    <3>2. /\ SumFunctionOnSet(w, others) \in Int
          /\ SumFunctionOnSet(w, others) <= Cardinality(others) * (p + 3)
      <4> HIDE DEF others, top
      <4>1. /\ SumFunctionOnSet(w, others) \in Int
            /\ SumFunctionOnSet(w, others) <= Cardinality(others) * top
        BY <3>1, SumBetween
      <4> QED
        BY <4>1 DEF top
    <3> QED
      BY <1>6, <3>2
  <2>4. w[i] \in Int /\ w[i] <= 3 /\ sum = w[i] + rest
    BY <1>4, <1>5, <1>6
  <2> HIDE DEF rest
  <2>5. n < p
    BY DEF n, p
  <2>6. (n - 1) * (p + 3) = n * (p + 2) + n - p - 3
    BY <1>1, <1>2
  <2>7. n * (p + 2) \in Int
    BY <1>1, <1>2
  <2> QED
    BY <1>1, <1>2, <1>3, <2>3, <2>4, <2>5, <2>6, <2>7
<1>8. ASSUME NEW i \in heard PROVE w[i] = p + 2
  <2> DEFINE rest == SumFunctionOnSet(w, heard \ {i})
  <2>1. p + 2 \in Int /\ p + 3 \in Int
    BY <1>1
  <2>2. \A j \in heard \ {i} : w[j] \in (p + 2)..(p + 3)
    <3> SUFFICES ASSUME NEW j \in heard \ {i} PROVE w[j] \in (p + 2)..(p + 3)
      OBVIOUS
    <3>1. w[j] >= p + 2 /\ w[j] \in 2..(p + 3)
      BY <1>4, <1>7
    <3> QED
      BY <1>1, <3>1
  <2>3. rest \in Int /\ rest >= (n - 1) * (p + 2)
    BY <1>6, <2>1, <2>2, SumBetween
  <2>4. w[i] \in Int /\ w[i] >= p + 2 /\ sum = w[i] + rest
    BY <1>4, <1>5, <1>6, <1>7
  <2> HIDE DEF rest
  <2>5. (n - 1) * (p + 2) = n * (p + 2) - (p + 2)
    BY <1>1, <1>2
  <2>6. n * (p + 2) \in Int
    BY <1>1, <1>2
  <2> QED
    BY <1>1, <1>2, <1>3, <2>3, <2>4, <2>5, <2>6
<1> QED
  BY <1>4, <1>7, <1>8
-----------------------------------------------------------------------------
\* What was bought and what became of a question stays.
Kept ==
    /\ bought \subseteq bought'
    /\ \A l \in S!Launches, i \in S!Lanes : asked[l][i] # "no" => asked'[l][i] = asked[l][i]

LEMMA AuditStays ==
    ASSUME S!SwarmInv, Kept, reconciled' \in {reconciled, S!NotReconciled}
    PROVE  /\ S!ExactMeansPaid'
           /\ reconciled' \in [launch : 0..S!MaxLaunches,
                               verdict : S!Verdicts, heard : SUBSET S!Lanes]
           /\ reconciled'.verdict = "exact" => reconciled'.launch \in S!Launches
<1>1. CASE reconciled' = reconciled
  BY <1>1 DEF S!SwarmInv, S!ExactMeansPaid, S!ExactIsAudited, S!VerdictLine, Kept
<1>2. CASE reconciled' = S!NotReconciled
  <2>1. S!MaxLaunches \in Nat
    BY SwarmAssumption DEF S!MaxLaunches
  <2> QED
    BY <1>2, <2>1
    DEF S!NotReconciled, S!ExactMeansPaid, S!ExactIsAudited, S!VerdictLine, S!Verdicts
<1> QED
  BY <1>1, <1>2

LEMMA AnsweredRows == \A i : S!LaneRow(i) = "answered" <=> phase[i] = "done"
  BY DEF S!LaneRow

LEMMA RowsStay ==
    ASSUME S!SwarmInv, Kept, roster' = roster,
           \A i \in S!Lanes : phase'[i] = "done" => phase[i] = "done"
    PROVE  S!LanesAreOfThisSwarm'
<1> SUFFICES ASSUME NEW i \in S!Size(roster)', S!LaneRow(i)' = "answered"
             PROVE  /\ <<roster', i>> \in bought'
                    /\ asked'[roster'][i] \in {"charged", "cached"}
  BY DEF S!LanesAreOfThisSwarm
<1>1. i \in S!Size(roster) /\ roster \in S!Launches /\ i \in S!Lanes
  BY SwarmSizes DEF S!Size, S!SwarmInv, S!Launches
<1>2. phase'[i] = "done"
  BY DEF S!LaneRow
<1>3. S!LaneRow(i) = "answered"
  BY <1>1, <1>2, AnsweredRows
<1> QED
  BY <1>1, <1>3 DEF S!SwarmInv, S!LanesAreOfThisSwarm, Kept

LEMMA SwarmInits == S!SwarmInit => S!SwarmInv
<1> SUFFICES ASSUME S!SwarmInit PROVE S!SwarmInv
  OBVIOUS
<1>1. S!MaxLaunches \in Nat
  BY SwarmAssumption DEF S!MaxLaunches
<1>2. S!LanesPayFirst /\ S!LanesAreOfThisSwarm /\ S!ExactMeansPaid
  BY DEF S!SwarmInit, S!LanesPayFirst, S!LanesAreOfThisSwarm, S!ExactMeansPaid,
         S!ExactIsAudited, S!VerdictLine, S!NotReconciled, S!Size
<1> QED
  BY <1>1, <1>2
  DEF S!SwarmInit, S!SwarmInv, S!NotReconciled, S!Verdicts, S!LanePhases, S!LaneSteps

\* One lane moves; what it is shown as follows.
LEMMA LaneMoves ==
    ASSUME S!SwarmInv, Kept, NEW l \in S!Launches, NEW i \in S!Size(l),
           NEW to \in S!LaneSteps, lane' = [lane EXCEPT ![l][i] = to],
           to \in {"asking", "answered"} => <<l, i>> \in bought,
           to = "answered" => asked[l][i] \in {"charged", "cached"},
           asked' \in [S!Launches -> [S!Lanes -> {"no", "charged", "cached", "refunded"}]],
           NEW shownAs \in S!LanePhases,
           shownAs = "done" => to = "answered",
           \/ phase' = phase
           \/ phase' = IF l = roster THEN [phase EXCEPT ![i] = shownAs] ELSE phase,
           UNCHANGED <<roster, reconciled>>
    PROVE  S!SwarmInv'
<1>1. i \in S!Lanes /\ <<l, i>> \in S!Launches \X S!Lanes
  BY SwarmSizes
<1>2. /\ S!ExactMeansPaid'
      /\ reconciled' \in [launch : 0..S!MaxLaunches,
                          verdict : S!Verdicts, heard : SUBSET S!Lanes]
      /\ reconciled'.verdict = "exact" => reconciled'.launch \in S!Launches
  BY AuditStays
<1>3. /\ lane' \in [S!Launches -> [S!Lanes -> S!LaneSteps]]
      /\ phase' \in [S!Lanes -> S!LanePhases]
  BY <1>1 DEF S!SwarmInv
<1>4. S!LanesPayFirst'
  <2> SUFFICES ASSUME NEW k \in S!Launches, NEW j \in S!Lanes
               PROVE  /\ lane'[k][j] \in {"asking", "answered"} => <<k, j>> \in bought'
                      /\ lane'[k][j] = "answered" => asked'[k][j] \in {"charged", "cached"}
    BY DEF S!LanesPayFirst
  <2>1. CASE k = l /\ j = i
    <3>1. lane'[k][j] = to
      BY <1>1, <2>1 DEF S!SwarmInv
    <3> QED
      BY <2>1, <3>1 DEF Kept
  <2>2. CASE ~(k = l /\ j = i)
    <3>1. lane'[k][j] = lane[k][j]
      BY <2>2 DEF S!SwarmInv
    <3>2. /\ lane[k][j] \in {"asking", "answered"} => <<k, j>> \in bought
          /\ lane[k][j] = "answered" => asked[k][j] \in {"charged", "cached"}
      BY DEF S!SwarmInv, S!LanesPayFirst
    <3>3. /\ <<k, j>> \in bought => <<k, j>> \in bought'
          /\ asked[k][j] \in {"charged", "cached"} => asked'[k][j] = asked[k][j]
      BY DEF Kept
    <3> QED
      BY <3>1, <3>2, <3>3
  <2> QED
    BY <2>1, <2>2
<1>5. S!LanesAreOfThisSwarm'
  <2> SUFFICES ASSUME NEW j \in S!Size(roster), phase'[j] = "done"
               PROVE  <<roster, j>> \in bought' /\ asked'[roster][j] \in {"charged", "cached"}
    BY DEF S!LanesAreOfThisSwarm, S!LaneRow, S!Size
  <2>1. roster \in S!Launches /\ j \in S!Lanes
    BY SwarmSizes DEF S!Size, S!SwarmInv, S!Launches
  <2>2. CASE phase[j] = "done"
    BY <2>1, <2>2, AnsweredRows DEF S!SwarmInv, S!LanesAreOfThisSwarm, Kept
  <2>3. CASE phase[j] # "done"
    <3>1. l = roster /\ j = i /\ shownAs = "done"
      BY <1>1, <2>1, <2>3 DEF S!SwarmInv
    <3> QED
      BY <1>1, <3>1 DEF Kept
  <2> QED
    BY <2>2, <2>3
<1> QED
  BY <1>2, <1>3, <1>4, <1>5 DEF S!SwarmInv

LEMMA SwarmNexts == S!SwarmInv /\ [S!SwarmNext]_(S!swarmVars) => S!SwarmInv'
<1> SUFFICES ASSUME S!SwarmInv, [S!SwarmNext]_(S!swarmVars) PROVE S!SwarmInv'
  OBVIOUS
<1>0. S!MaxLaunches \in Nat /\ S!Launches = 1..S!MaxLaunches
  BY SwarmAssumption DEF S!MaxLaunches, S!Launches
<1>1. ASSUME UNCHANGED <<bought, asked>> PROVE Kept
  BY <1>1 DEF Kept
<1>2. CASE S!ClickStop \/ UNCHANGED S!swarmVars
  <2>1. UNCHANGED <<roster, phase, reconciled, lane, bought, asked>>
    BY <1>2 DEF S!ClickStop, S!swarmVars
  <2>2. S!LanesPayFirst' /\ S!LanesAreOfThisSwarm' /\ S!ExactMeansPaid'
    BY <1>1, <2>1, AuditStays, RowsStay DEF S!SwarmInv, S!LanesPayFirst
  <2> QED
    BY <2>1, <2>2 DEF S!SwarmInv
<1>3. ASSUME NEW l \in S!Launches, S!ClickLaunch(l) PROVE S!SwarmInv'
  <2>1. /\ UNCHANGED <<lane, bought, asked>> /\ roster' = l
        /\ phase' = [i \in S!Lanes |-> "idle"] /\ reconciled' = S!NotReconciled
    BY <1>3 DEF S!ClickLaunch
  <2>2. /\ S!ExactMeansPaid'
        /\ reconciled' \in [launch : 0..S!MaxLaunches,
                            verdict : S!Verdicts, heard : SUBSET S!Lanes]
        /\ reconciled'.verdict = "exact" => reconciled'.launch \in S!Launches
    BY <1>1, <2>1, AuditStays
  <2>3. S!LanesPayFirst'
    BY <2>1 DEF S!SwarmInv, S!LanesPayFirst
  <2>4. S!LanesAreOfThisSwarm'
    <3> SUFFICES ASSUME NEW i \in S!Size(l) PROVE phase'[i] # "done"
      BY <2>1 DEF S!LanesAreOfThisSwarm, S!LaneRow, S!Size
    <3> QED
      BY <2>1, SwarmSizes
  <2> QED
    BY <1>0, <2>1, <2>2, <2>3, <2>4 DEF S!SwarmInv, S!LanePhases
<1>4. ASSUME NEW l \in S!Launches, S!WarmedUp(l) PROVE S!SwarmInv'
  <2>1. /\ UNCHANGED <<roster, reconciled, bought, asked>>
        /\ lane' = [lane EXCEPT ![l] = [i \in S!Lanes |->
                       IF i \in S!Size(l) THEN "challenge" ELSE "off"]]
        /\ phase' = IF l = roster
                      THEN [i \in S!Lanes |-> IF i \in S!Size(l) THEN "challenge" ELSE "idle"]
                      ELSE phase
    BY <1>4 DEF S!WarmedUp
  <2>2. S!ExactMeansPaid'
    BY <1>1, <2>1, AuditStays
  <2>3. S!LanesPayFirst'
    <3> SUFFICES ASSUME NEW k \in S!Launches, NEW j \in S!Lanes,
                        lane'[k][j] \in {"asking", "answered"}
                 PROVE  lane'[k][j] = lane[k][j]
      BY <2>1 DEF S!SwarmInv, S!LanesPayFirst
    <3> QED
      BY <2>1 DEF S!SwarmInv
  <2>4. S!LanesAreOfThisSwarm'
    <3>1. \A i \in S!Lanes : phase'[i] = "done" => phase[i] = "done"
      BY <2>1
    <3> QED
      BY <1>1, <2>1, <3>1, RowsStay
  <2>5. /\ lane' \in [S!Launches -> [S!Lanes -> S!LaneSteps]]
        /\ phase' \in [S!Lanes -> S!LanePhases]
    BY <2>1 DEF S!SwarmInv, S!LaneSteps, S!LanePhases
  <2> QED
    BY <2>1, <2>2, <2>3, <2>4, <2>5 DEF S!SwarmInv
<1>5. ASSUME NEW l \in S!Launches, S!LanesOver(l) PROVE S!SwarmInv'
  <2>1. UNCHANGED <<roster, phase, reconciled, lane, bought, asked>>
    BY <1>5 DEF S!LanesOver
  <2>2. S!LanesPayFirst' /\ S!LanesAreOfThisSwarm' /\ S!ExactMeansPaid'
    BY <1>1, <2>1, AuditStays, RowsStay DEF S!SwarmInv, S!LanesPayFirst
  <2> QED
    BY <2>1, <2>2 DEF S!SwarmInv
<1>6. ASSUME NEW l \in S!Launches, NEW heard \in SUBSET S!Size(l), S!Reconcile(l, heard)
      PROVE  S!SwarmInv'
  <2>1. /\ UNCHANGED <<roster, phase, lane, bought, asked>>
        /\ reconciled' = [launch |-> l, heard |-> heard,
                          verdict |-> IF S!Expected(heard) = S!Actual(l, heard)
                                      THEN "exact" ELSE "mismatch"]
    BY <1>6 DEF S!Reconcile
  <2>2. S!LanesPayFirst' /\ S!LanesAreOfThisSwarm'
    BY <1>1, <2>1, RowsStay DEF S!SwarmInv, S!LanesPayFirst
  <2>3. S!ExactMeansPaid'
    <3> SUFFICES ASSUME Cardinality(heard) < PerPayment, Trial = 3,
                        S!Expected(heard) = S!Actual(l, heard)
                 PROVE  \A i \in heard : <<l, i>> \in bought /\ asked[l][i] = "charged"
      BY <2>1, SwarmCounts DEF S!ExactMeansPaid, S!ExactIsAudited, S!VerdictLine
    <3> QED
      BY EvenSumMeansPaid
  <2>4. heard \in SUBSET S!Lanes
    BY SwarmSizes
  <2> QED
    BY <1>0, <2>1, <2>2, <2>3, <2>4 DEF S!SwarmInv, S!Verdicts
<1>7. ASSUME NEW l \in S!Launches, NEW i \in S!Size(l), S!LaneStep(l, i) PROVE S!SwarmInv'
  <2>0. i \in S!Lanes
    BY SwarmSizes
  <2> USE DEF S!LaneSteps, S!LanePhases
  <2>1. ASSUME NEW from \in S!LaneSteps, NEW to \in {"settling", "verifying", "asking"},
               S!Resume(l, i, from, to), to = "asking" => <<l, i>> \in bought
        PROVE  S!SwarmInv'
    <3>1. UNCHANGED <<roster, reconciled, bought, asked>>
      BY <2>1 DEF S!Resume
    <3>2. Kept
      BY <1>1, <3>1
    <3>3. CASE l \in aborted
      <4>1. lane' = [lane EXCEPT ![l][i] = "over"] /\ phase' = phase
        BY <2>1, <3>3 DEF S!Resume, S!LaneGoes
      <4> QED
        BY <3>1, <3>2, <4>1, LaneMoves DEF S!SwarmInv
    <3>4. CASE l \notin aborted
      <4>1. /\ lane' = [lane EXCEPT ![l][i] = to]
            /\ phase' = IF l = roster THEN [phase EXCEPT ![i] = to] ELSE phase
        BY <2>1, <3>4 DEF S!Resume, S!LaneGoes, S!Patch
      <4> QED
        BY <2>1, <3>1, <3>2, <4>1, LaneMoves DEF S!SwarmInv
    <3> QED
      BY <3>3, <3>4
  <2>2. CASE S!GotChallenge(l, i) \/ S!Settled(l, i) \/ S!Verified(l, i)
    BY <2>1, <2>2 DEF S!GotChallenge, S!Settled, S!Verified
  <2>3. CASE S!ServeVerify(l, i)
    <3>1. Kept /\ UNCHANGED <<roster, phase, reconciled, lane, asked>>
      BY <2>3 DEF S!ServeVerify, Kept
    <3>2. S!LanesPayFirst' /\ S!LanesAreOfThisSwarm' /\ S!ExactMeansPaid'
      BY <3>1, AuditStays, RowsStay DEF S!SwarmInv, S!LanesPayFirst, Kept
    <3> QED
      BY <3>1, <3>2 DEF S!SwarmInv
  <2>4. CASE S!ServeQuestion(l, i)
    <3>1. PICK outcome \in {"charged", "cached", "refunded"} :
              asked' = [asked EXCEPT ![l][i] = outcome]
      BY <2>4 DEF S!ServeQuestion
    <3>2. UNCHANGED <<roster, phase, reconciled, lane, bought>> /\ asked[l][i] = "no"
      BY <2>4 DEF S!ServeQuestion
    <3>3. /\ Kept
          /\ asked' \in [S!Launches -> [S!Lanes -> {"no", "charged", "cached", "refunded"}]]
      BY <2>0, <3>1, <3>2 DEF Kept, S!SwarmInv
    <3>4. S!LanesPayFirst' /\ S!LanesAreOfThisSwarm' /\ S!ExactMeansPaid'
      BY <3>2, <3>3, AuditStays, RowsStay DEF S!SwarmInv, S!LanesPayFirst, Kept
    <3> QED
      BY <3>2, <3>3, <3>4 DEF S!SwarmInv
  <2>5. CASE S!LaneDone(l, i)
    <3>1. /\ UNCHANGED <<roster, reconciled, bought, asked>>
          /\ asked[l][i] \in {"charged", "cached"} /\ lane[l][i] = "asking"
          /\ lane' = [lane EXCEPT ![l][i] = "answered"]
          /\ phase' = IF l = roster THEN [phase EXCEPT ![i] = "done"] ELSE phase
      BY <2>5 DEF S!LaneDone, S!LaneGoes, S!Patch
    <3>2. Kept /\ <<l, i>> \in bought
      BY <1>1, <2>0, <3>1 DEF S!SwarmInv, S!LanesPayFirst
    <3> QED
      BY <3>1, <3>2, LaneMoves DEF S!SwarmInv
  <2>6. CASE S!StreamClosed(l, i) \/ S!LaneFailed(l, i)
    <3>1. /\ UNCHANGED <<roster, reconciled, bought, asked>>
          /\ lane' = [lane EXCEPT ![l][i] = "over"]
          /\ \/ phase' = phase
             \/ phase' = IF l = roster THEN [phase EXCEPT ![i] = "failed"] ELSE phase
      BY <2>6 DEF S!StreamClosed, S!LaneFailed, S!LaneGoes, S!Patch
    <3> QED
      BY <1>1, <3>1, LaneMoves DEF S!SwarmInv
  <2> QED
    BY <1>7, <2>2, <2>3, <2>4, <2>5, <2>6 DEF S!LaneStep
<1> QED
  BY <1>2, <1>3, <1>4, <1>5, <1>6, <1>7 DEF S!SwarmNext

\* An action of a stopped launch sends none of its lanes on.
LEMMA StoppedStaysStopped ==
    ASSUME S!SwarmInv, [S!SwarmNext]_(S!swarmVars), NEW l \in aborted, l \in S!Launches,
           NEW i \in S!Lanes, lane[l][i] # lane'[l][i]
    PROVE  lane'[l][i] \notin {"verifying", "asking"}
<1> USE DEF S!SwarmInv
<1>1. ASSUME NEW k \in S!Launches, NEW j \in S!Size(k), NEW to,
             lane' = [lane EXCEPT ![k][j] = to],
             k \in aborted => to \notin {"verifying", "asking"}
      PROVE  lane'[l][i] \notin {"verifying", "asking"}
  BY <1>1, SwarmSizes
<1>2. ASSUME NEW k \in S!Launches, NEW j \in S!Size(k), S!LaneStep(k, j)
      PROVE  lane'[l][i] \notin {"verifying", "asking"}
  BY <1>1, <1>2
  DEF S!LaneStep, S!GotChallenge, S!Settled, S!ServeVerify, S!Verified, S!ServeQuestion,
      S!LaneDone, S!StreamClosed, S!LaneFailed, S!Resume, S!LaneGoes
<1>3. ASSUME NEW k \in S!Launches, S!WarmedUp(k)
      PROVE  lane'[l][i] \notin {"verifying", "asking"}
  BY <1>3 DEF S!WarmedUp
<1> QED
  BY <1>2, <1>3
  DEF S!SwarmNext, S!swarmVars, S!ClickStop, S!ClickLaunch, S!LanesOver, S!Reconcile

\* Only launches are stopped.
LaunchesStop == swarmAbort \in 0..S!MaxLaunches /\ aborted \subseteq S!Launches

LEMMA VisitsStopLaunches == Spec => []LaunchesStop
<1>1. Init => LaunchesStop
  <2>1. S!MaxLaunches \in Nat
    BY SwarmAssumption DEF S!MaxLaunches
  <2> QED
    BY <2>1 DEF Init, S!SwarmInit, LaunchesStop
<1>2. LaunchesStop /\ [Next]_vars => LaunchesStop'
  <2>1. [Next]_vars => [S!SwarmNext]_(S!swarmVars)
    BY DEF Next, Only, vars, swarmState, S!swarmVars
  <2>2. ASSUME [S!SwarmNext]_(S!swarmVars)
        PROVE  /\ swarmAbort' \in {swarmAbort, 0} \cup S!Launches
               /\ aborted' \in {aborted, aborted \cup ({swarmAbort} \ {0})}
    <3>1. CASE S!ClickStop \/ UNCHANGED S!swarmVars
      BY <3>1 DEF S!ClickStop, S!swarmVars
    <3>2. ASSUME NEW l \in S!Launches,
                 \/ S!ClickLaunch(l) \/ S!WarmedUp(l) \/ S!LanesOver(l)
                 \/ \E heard \in SUBSET S!Size(l) : S!Reconcile(l, heard)
          PROVE  aborted' = aborted /\ swarmAbort' \in {swarmAbort, 0} \cup S!Launches
      BY <3>2 DEF S!ClickLaunch, S!WarmedUp, S!LanesOver, S!Reconcile
    <3>3. ASSUME NEW l \in S!Launches, NEW i \in S!Size(l), S!LaneStep(l, i)
          PROVE  aborted' = aborted /\ swarmAbort' = swarmAbort
      BY <3>3 DEF S!LaneStep, S!GotChallenge, S!Settled, S!ServeVerify, S!Verified,
                  S!ServeQuestion, S!LaneDone, S!StreamClosed, S!LaneFailed, S!Resume
    <3> QED
      BY <2>2, <3>1, <3>2, <3>3 DEF S!SwarmNext
  <2>3. S!Launches = 1..S!MaxLaunches /\ S!MaxLaunches \in Nat
    BY SwarmAssumption DEF S!Launches, S!MaxLaunches
  <2>4. ASSUME LaunchesStop, [S!SwarmNext]_(S!swarmVars) PROVE LaunchesStop'
    <3>1. /\ swarmAbort' \in {swarmAbort, 0} \cup S!Launches
          /\ aborted' \in {aborted, aborted \cup ({swarmAbort} \ {0})}
      BY <2>2, <2>4
    <3>2. swarmAbort' \in 0..S!MaxLaunches
      BY <2>3, <2>4, <3>1 DEF LaunchesStop
    <3>3. aborted' \subseteq S!Launches
      BY <2>3, <2>4, <3>1 DEF LaunchesStop
    <3> QED
      BY <3>2, <3>3 DEF LaunchesStop
  <2> QED
    BY <2>1, <2>4
<1> QED
  BY <1>1, <1>2, PTL DEF Spec

LEMMA VisitsKeepSwarms == Spec => []S!SwarmInv
<1>1. Init => S!SwarmInv
  BY SwarmInits DEF Init
<1>2. S!SwarmInv /\ [Next]_vars => S!SwarmInv'
  <2>1. [Next]_vars => [S!SwarmNext]_(S!swarmVars)
    BY DEF Next, Only, vars, swarmState,
           S!swarmVars
  <2> QED
    BY <2>1, SwarmNexts
<1> QED
  BY <1>1, <1>2, PTL DEF Spec

(* Swarm (SwarmSimulator.tsx): "the balances must agree to the credit".    *)
(* For any launches of any sizes: when the page says "Exact" of fewer      *)
(* agents than a bundle has credits, all of them bought and all of them    *)
(* paid; and an agent shown as answered bought and was answered.           *)
THEOREM ExactAlwaysMeansPaid == Spec => []ExactMeansPaid
<1>1. S!SwarmInv => ExactMeansPaid
  BY DEF S!SwarmInv, ExactMeansPaid
<1> QED
  BY <1>1, VisitsKeepSwarms, PTL

(* Swarm: no step redeems a payment or asks a question for a lane of a     *)
(* launch whose signal is aborted, wherever its awaits were.               *)
THEOREM StoppedLanesNeverSpend == Spec => StoppedLanesSpendNothing
<1> DEFINE Spends == \E l \in aborted, i \in S!Lanes :
                         lane[l][i] # lane'[l][i] /\ lane'[l][i] \in {"verifying", "asking"}
<1>1. S!SwarmInv /\ LaunchesStop /\ [Next]_vars => [~Spends]_(S!swarmVars)
  <2>1. [Next]_vars => [S!SwarmNext]_(S!swarmVars)
    BY DEF Next, Only, vars, swarmState, S!swarmVars
  <2> QED
    BY <2>1, StoppedStaysStopped DEF LaunchesStop
<1>2. [~Spends]_(S!swarmVars)
          => [\A l \in aborted, i \in S!Lanes :
                  lane[l][i] # lane'[l][i]
                      => lane'[l][i] \notin {"verifying", "asking"}]_(S!swarmVars)
  OBVIOUS
<1> QED
  BY <1>1, <1>2, VisitsKeepSwarms, VisitsStopLaunches, PTL
  DEF Spec, StoppedLanesSpendNothing, S!StoppedLanesSpendNothing
-----------------------------------------------------------------------------
\* Demonstration: no figure of another run.
\* The instance counts as FiniteSets does.
LEMMA TourCounts == \A s : T!Cardinality(s) = Cardinality(s)
<1> SUFFICES ASSUME NEW s PROVE T!Cardinality(s) = Cardinality(s)
  OBVIOUS
<1> QED
  BY DEF T!Cardinality, Cardinality

\* The agents whose call of the shown run got as far as its n-th event.
CameTo(n) == {a \in Cast : shownRun # 0 /\ deal[shownRun][a].seen >= n}

LEMMA FiguresCount ==
    T!FiguresAreOfThisRun <=> /\ tally.payments = Cardinality(CameTo(2))
                              /\ tally.transactions = Cardinality(CameTo(4))
  BY TourCounts DEF T!FiguresAreOfThisRun, CameTo

\* Until a call of the shown run is dispatched to, the counters stand still.
LEMMA FiguresStay ==
    ASSUME T!TourInv, UNCHANGED shownRun,
           tally'.payments = tally.payments, tally'.transactions = tally.transactions,
           shownRun # 0 =>
               \A a \in Cast : deal'[shownRun][a].seen = deal[shownRun][a].seen
    PROVE  T!FiguresAreOfThisRun'
<1>1. \A n : CameTo(n)' = CameTo(n)
  BY DEF CameTo
<1> QED
  BY <1>1, FiguresCount, TourCounts DEF T!TourInv, T!FiguresAreOfThisRun, CameTo

LEMMA TourInits == T!TourInit => T!TourInv
<1> SUFFICES ASSUME T!TourInit PROVE T!TourInv
  OBVIOUS
<1>1. MaxStarts \in Nat
  BY BoundsAssumption
<1>2. T!RunsInOrder /\ T!CallsComeWithPayment
  BY <1>1 DEF T!TourInit, T!RunsInOrder, T!CallsComeWithPayment, T!Quiet, T!NoTimers
<1>3. T!FiguresAreOfThisRun
  <2>1. CameTo(2) = {} /\ CameTo(4) = {}
    BY DEF CameTo, T!TourInit
  <2> QED
    BY <2>1, FiguresCount, FS_EmptySet DEF T!TourInit, T!NoTally
<1>4. deal \in [T!Starts -> [Cast -> T!Deal]]
  BY DEF T!TourInit, T!NoDeal, T!Deal, T!Handled
<1> QED
  BY <1>2, <1>3, <1>4 DEF T!TourInit, T!TourInv, T!NoTally, T!NoTimers

\* What leaves the starts, the timers and the calls alone.
LEMMA TourStays ==
    ASSUME T!TourInv,
           UNCHANGED <<run, shownRun, abortOf, abortedRuns, used, starting, timers, deal>>,
           tally' \in [evaluations : Nat, payments : Nat, transactions : Nat],
           tally'.payments = tally.payments, tally'.transactions = tally.transactions
    PROVE  T!TourInv'
<1>1. T!FiguresAreOfThisRun'
  BY FiguresStay
<1>2. T!RunsInOrder' /\ T!CallsComeWithPayment'
  BY DEF T!TourInv, T!RunsInOrder, T!CallsComeWithPayment, T!Quiet
<1> QED
  BY <1>1, <1>2 DEF T!TourInv

LEMMA StartsAndStops ==
    ASSUME T!TourInv, \/ T!CallStart \/ T!CallStop
                      \/ \E k \in T!Starts : T!StartRefused(k) \/ T!Begin(k)
    PROVE  T!TourInv'
<1> USE DEF T!TourInv
<1>0. used \in Nat /\ MaxStarts \in Nat /\ T!Starts = 1..MaxStarts
  BY BoundsAssumption DEF T!RunsInOrder, T!Starts
<1>1. CASE T!CallStart
  <2>1. /\ UNCHANGED <<run, shownRun, abortOf, abortedRuns, timers, tally, deal>>
        /\ used < MaxStarts /\ used' = used + 1 /\ starting' = starting \cup {used + 1}
    BY <1>1 DEF T!CallStart, T!refs, T!work
  <2>2. T!RunsInOrder'
    <3>1. used' \in 0..MaxStarts /\ starting' \subseteq 1..used'
      BY <1>0, <2>1 DEF T!RunsInOrder
    <3>2. {run', shownRun'} \subseteq 0..used' /\ run' \notin starting'
      BY <1>0, <2>1 DEF T!RunsInOrder
    <3> QED
      BY <2>1, <3>1, <3>2 DEF T!RunsInOrder
  <2>3. T!CallsComeWithPayment'
    <3>1. \A k : T!Quiet(k)' <=> T!Quiet(k)
      BY <2>1 DEF T!Quiet
    <3> QED
      BY <1>0, <2>1, <3>1 DEF T!CallsComeWithPayment
  <2> QED
    BY <2>1, <2>2, <2>3, FiguresStay
<1>2. ASSUME NEW k \in T!Starts, T!StartRefused(k) PROVE T!TourInv'
  <2>1. /\ UNCHANGED <<run, shownRun, abortOf, abortedRuns, timers, tally, deal, used>>
        /\ starting' = starting \ {k}
    BY <1>2 DEF T!StartRefused, T!refs, T!work
  <2>2. T!RunsInOrder'
    BY <1>0, <2>1 DEF T!RunsInOrder
  <2>3. T!CallsComeWithPayment'
    <3>1. \A l : T!Quiet(l)' <=> T!Quiet(l)
      BY <2>1 DEF T!Quiet
    <3> QED
      BY <1>0, <2>1, <3>1 DEF T!CallsComeWithPayment
  <2> QED
    BY <2>1, <2>2, <2>3, FiguresStay
<1>3. ASSUME NEW k \in T!Starts, T!Begin(k) PROVE T!TourInv'
  <2>1. /\ k \in starting /\ starting' = starting \ {k}
        /\ run' = k /\ shownRun' = k /\ abortOf' = k
        /\ timers' = [run |-> k, next |-> 1] /\ tally' = T!NoTally
        /\ UNCHANGED <<abortedRuns, used, deal>>
    BY <1>3 DEF T!Begin, T!work
  <2>2. T!Quiet(k) /\ \A l : T!Quiet(l)' <=> T!Quiet(l)
    BY <2>1 DEF T!Quiet, T!CallsComeWithPayment
  <2>3. T!RunsInOrder'
    BY <1>0, <2>1 DEF T!RunsInOrder
  <2>4. T!CallsComeWithPayment'
    BY <1>0, <2>1, <2>2 DEF T!CallsComeWithPayment
  <2>5. T!FiguresAreOfThisRun'
    <3>1. CameTo(2)' = {} /\ CameTo(4)' = {}
      BY <2>1, <2>2 DEF CameTo, T!Quiet, T!NoDeal
    <3>2. T!Cardinality({}) = 0
      BY TourCounts, FS_EmptySet
    <3> QED
      BY <2>1, <3>1, <3>2 DEF T!FiguresAreOfThisRun, CameTo, T!NoTally
  <2> QED
    BY <1>0, <2>1, <2>3, <2>4, <2>5 DEF T!NoTally
<1>4. CASE T!CallStop
  <2>1. /\ run' = 0 /\ abortedRuns' = abortedRuns \cup ({abortOf} \ {0}) /\ abortOf' = 0
        /\ timers' = T!NoTimers
        /\ UNCHANGED <<tally, shownRun, starting, used, deal>>
    BY <1>4 DEF T!CallStop, T!work
  <2>2. T!RunsInOrder'
    BY <1>0, <2>1 DEF T!RunsInOrder
  <2>3. T!CallsComeWithPayment'
    <3>1. \A l : T!Quiet(l)' <=> T!Quiet(l)
      BY <2>1 DEF T!Quiet
    <3> QED
      BY <1>0, <2>1, <3>1 DEF T!CallsComeWithPayment, T!NoTimers
  <2> QED
    BY <2>1, <2>2, <2>3, FiguresStay DEF T!NoTimers
<1> QED
  BY <1>1, <1>2, <1>3, <1>4

LEMMA TimersRing ==
    ASSUME T!TourInv, T!PhaseTimer \/ T!HoldTimer
    PROVE  T!TourInv'
<1> USE DEF T!TourInv
<1>1. /\ UNCHANGED <<run, shownRun, abortOf, abortedRuns, used, starting, tally>>
  BY DEF T!PhaseTimer, T!HoldTimer, T!screen
<1>2. T!RunsInOrder'
  BY <1>1 DEF T!RunsInOrder
<1>3. CASE T!HoldTimer
  <2>1. timers' = T!NoTimers /\ UNCHANGED deal
    BY <1>3 DEF T!HoldTimer, T!work
  <2>2. T!CallsComeWithPayment'
    BY <1>1, <2>1 DEF T!CallsComeWithPayment, T!NoTimers, T!Quiet
  <2> QED
    BY <1>1, <1>2, <2>1, <2>2, FiguresStay DEF T!NoTimers
<1>4. CASE T!PhaseTimer
  <2>1. /\ timers.next \in 1..Len(T!Phases) /\ timers' = [timers EXCEPT !.next = @ + 1]
        /\ run # 0 /\ timers.run = run
    BY <1>4 DEF T!PhaseTimer, T!CallsComeWithPayment, T!Phases
  <2>2. /\ timers.next \in Nat /\ timers'.next = timers.next + 1 /\ timers'.run = timers.run
        /\ timers' \in [run : Nat, next : Nat]
    BY <2>1
  <2>3. run \in T!Starts /\ shownRun = run /\ run \notin starting /\ run <= used
    BY <2>1, BoundsAssumption DEF T!RunsInOrder, T!Starts
  <2>4. T!Phases[timers.next] = "payment" <=> timers.next = 5
    BY <2>1 DEF T!Phases
  <2>5. CASE timers.next # 5
    <3>1. UNCHANGED deal
      BY <1>4, <2>1, <2>4, <2>5 DEF T!PhaseTimer, T!PhaseWork, T!work
    <3>2. T!CallsComeWithPayment'
      <4>1. \A l : T!Quiet(l)' <=> T!Quiet(l)
        BY <3>1 DEF T!Quiet
      <4>2. timers'.next \in 1..5 => timers.next \in 1..5
        BY <2>1, <2>2, <2>5
      <4> QED
        BY <1>1, <2>1, <2>2, <4>1, <4>2 DEF T!CallsComeWithPayment
    <3> QED
      BY <1>1, <1>2, <2>2, <3>1, <3>2, FiguresStay
  <2>6. CASE timers.next = 5
    <3> DEFINE calls == [a \in Cast |-> IF a \in tokens
                                       THEN [T!NoDeal EXCEPT !.at = "open"] ELSE T!NoDeal]
    <3>1. deal' = [deal EXCEPT ![run] = calls]
      BY <1>4, <2>1, <2>4, <2>6 DEF T!PhaseTimer, T!PhaseWork, T!Current
    <3>2. calls \in [Cast -> T!Deal] /\ \A a \in Cast : calls[a].seen = 0
      BY DEF T!NoDeal, T!Deal, T!Handled
    <3> HIDE DEF calls
    <3>3. /\ deal' \in [T!Starts -> [Cast -> T!Deal]]
          /\ \A l \in T!Starts \ {run} : deal'[l] = deal[l]
          /\ deal'[run] = calls
      BY <2>3, <3>1, <3>2
    <3>4. \A a \in Cast : deal[run][a].seen = 0
      BY <2>6 DEF T!CallsComeWithPayment, T!Quiet, T!NoDeal
    <3>5. T!FiguresAreOfThisRun'
      BY <1>1, <2>3, <3>2, <3>3, <3>4, FiguresStay
    <3>6. T!CallsComeWithPayment'
      <4>1. \A l \in T!Starts \ {run} : T!Quiet(l)' <=> T!Quiet(l)
        BY <3>3 DEF T!Quiet
      <4>2. timers'.next = 6
        BY <2>2, <2>6
      <4>3. \A l \in T!Starts : l > used \/ l \in starting => l # run
        BY <2>3 DEF T!RunsInOrder, T!Starts
      <4> QED
        BY <1>1, <2>1, <2>2, <4>1, <4>2, <4>3 DEF T!CallsComeWithPayment
    <3> QED
      BY <1>1, <1>2, <2>2, <3>3, <3>5, <3>6
  <2> QED
    BY <2>5, <2>6
<1> QED
  BY <1>3, <1>4

\* A handler of the run that is shown counts its event; of another run's
\* call no handler runs any more, or it does nothing.
LEMMA CallsGoOn ==
    ASSUME T!TourInv, NEW k \in T!Starts, NEW a \in Cast,
           \/ T!DealHandles(k, a) \/ T!DealErrs(k, a) \/ T!DealResolves(k, a)
    PROVE  T!TourInv'
<1> USE DEF T!TourInv
<1>1. /\ UNCHANGED <<run, shownRun, abortOf, abortedRuns, used, starting, timers>>
      /\ deal[k][a].at # "off"
  BY DEF T!DealHandles, T!DealErrs, T!DealResolves, T!DealGoes, T!refs
<1>2. PICK next : deal' = [deal EXCEPT ![k][a] = next]
  BY DEF T!DealHandles, T!DealErrs, T!DealResolves, T!DealGoes
<1>3. T!RunsInOrder'
  BY <1>1 DEF T!RunsInOrder
<1>4. T!CallsComeWithPayment'
  <2>1. ~T!Quiet(k)
    BY <1>1 DEF T!Quiet, T!NoDeal
  <2>2. \A l \in T!Starts : l # k => deal'[l] = deal[l]
    BY <1>2
  <2>3. \A l \in T!Starts : T!Quiet(l) => T!Quiet(l)'
    BY <2>1, <2>2 DEF T!Quiet
  <2>4. timers.next \in 1..5 => run \in T!Starts
    <3>1. MaxStarts \in Nat /\ used \in 0..MaxStarts /\ run \in 0..used
      BY BoundsAssumption DEF T!RunsInOrder
    <3>2. timers.next \in 1..5 => run # 0
      BY DEF T!CallsComeWithPayment
    <3> QED
      BY <3>1, <3>2 DEF T!Starts
  <2> QED
    BY <1>1, <2>3, <2>4 DEF T!CallsComeWithPayment
<1>5. CASE T!DealErrs(k, a) \/ T!DealResolves(k, a)
  <2>1. /\ tally' = tally
        /\ \E at \in {"told", "over"} :
               deal' = [deal EXCEPT ![k][a] = [deal[k][a] EXCEPT !.at = at]]
    BY <1>5 DEF T!DealErrs, T!DealResolves, T!DealGoes
  <2>2. /\ deal' \in [T!Starts -> [Cast -> T!Deal]]
        /\ \A l \in T!Starts, b \in Cast : deal'[l][b].seen = deal[l][b].seen
    BY <2>1 DEF T!Deal
  <2>3. shownRun # 0 => shownRun \in T!Starts
    BY BoundsAssumption DEF T!RunsInOrder, T!Starts
  <2> QED
    BY <1>1, <1>3, <1>4, <2>1, <2>2, <2>3, FiguresStay
<1>6. CASE T!DealHandles(k, a)
  <2> DEFINE n == deal[k][a].seen + 1
  <2>0. Len(T!Handled) = 4 /\ deal[k][a].seen \in 0..4
    BY DEF T!Deal, T!Handled
  <2>1. /\ k \notin abortedRuns /\ deal[k][a].seen < 4
        /\ deal' = [deal EXCEPT ![k][a] = [deal[k][a] EXCEPT !.seen = n]]
        /\ k = run => tally' = T!TallyAfter(T!Handled[n])
        /\ k # run => tally' = tally
    <3>1. k \notin abortedRuns /\ deal[k][a].seen < 4
      BY <1>6, <2>0 DEF T!DealHandles
    <3>2. deal' = [deal EXCEPT ![k][a] = [deal[k][a] EXCEPT !.seen = n]]
      BY <1>6 DEF T!DealHandles, T!DealGoes
    <3>3. (k = run => tally' = T!TallyAfter(T!Handled[n])) /\ (k # run => tally' = tally)
      BY <1>6 DEF T!DealHandles, T!Current
    <3> QED
      BY <3>1, <3>2, <3>3
  <2>2. n \in 1..4
    BY <2>0, <2>1
  <2>3. /\ deal' \in [T!Starts -> [Cast -> T!Deal]]
        /\ deal'[k][a].seen = n
        /\ \A l \in T!Starts, b \in Cast :
               ~(l = k /\ b = a) => deal'[l][b].seen = deal[l][b].seen
    <3> DEFINE counted == [deal[k][a] EXCEPT !.seen = n]
    <3>1. counted \in T!Deal /\ counted.seen = n
      <4>1. T!Deal = [seen : 0..4, at : {"off", "open", "told", "over"}]
        BY <2>0 DEF T!Deal
      <4>2. \A d \in T!Deal, m \in 0..4 :
                [d EXCEPT !.seen = m] \in T!Deal /\ [d EXCEPT !.seen = m].seen = m
        BY <4>1
      <4>3. deal[k][a] \in T!Deal /\ n \in 0..4
        BY <2>2
      <4> HIDE DEF n
      <4> QED
        BY <4>2, <4>3
    <3> HIDE DEF counted, n
    <3> QED
      BY <2>1, <3>1 DEF counted
  <2>4. shownRun # 0 => shownRun \in T!Starts
    BY BoundsAssumption DEF T!RunsInOrder, T!Starts
  <2>5. CASE k # run
    <3>1. k # shownRun
      BY <2>1, <2>5 DEF T!RunsInOrder, T!Starts
    <3> QED
      BY <1>1, <1>3, <1>4, <2>1, <2>3, <2>4, <2>5, <3>1, FiguresStay
  <2>6. CASE k = run
    <3>1. shownRun = k /\ k # 0
      BY <2>6 DEF T!RunsInOrder, T!Starts
    <3>2. /\ T!TallyAfter(T!Handled[1]) = tally
          /\ T!TallyAfter(T!Handled[2]) = [tally EXCEPT !.payments = @ + 1]
          /\ T!TallyAfter(T!Handled[3]) = tally
          /\ T!TallyAfter(T!Handled[4]) = [tally EXCEPT !.transactions = @ + 1]
      BY DEF T!TallyAfter, T!Handled
    <3>3. /\ tally' \in [evaluations : Nat, payments : Nat, transactions : Nat]
          /\ tally'.payments = IF n = 2 THEN tally.payments + 1 ELSE tally.payments
          /\ tally'.transactions = IF n = 4 THEN tally.transactions + 1 ELSE tally.transactions
      BY <2>1, <2>2, <2>6, <3>2
    <3> HIDE DEF n
    <3>4. ASSUME NEW m \in 1..4
          PROVE  Cardinality(CameTo(m)') =
                     IF n = m THEN Cardinality(CameTo(m)) + 1 ELSE Cardinality(CameTo(m))
      <4>1. IsFiniteSet(CameTo(m))
        BY SetsAssumption, FS_Subset DEF CameTo
      <4>2. CameTo(m)' = IF n = m THEN CameTo(m) \cup {a} ELSE CameTo(m)
        <5>1. deal[k][a].seen = n - 1
          BY <2>2 DEF n, T!Deal
        <5>2. ASSUME NEW b \in Cast
              PROVE  b \in CameTo(m)' <=> b \in CameTo(m) \/ (n = m /\ b = a)
          <6>1. CASE b = a
            BY <1>1, <2>2, <2>3, <3>1, <5>1, <6>1 DEF CameTo
          <6>2. CASE b # a
            BY <1>1, <2>3, <3>1, <6>2 DEF CameTo
          <6> QED
            BY <6>1, <6>2
        <5> QED
          BY <5>2 DEF CameTo
      <4>3. n = m => a \notin CameTo(m)
        BY <2>2, <3>1 DEF CameTo, n, T!Deal
      <4> QED
        BY <4>1, <4>2, <4>3, FS_AddElement
    <3>5. T!FiguresAreOfThisRun'
      BY <3>3, <3>4, FiguresCount, TourCounts DEF T!FiguresAreOfThisRun, CameTo
    <3> QED
      BY <1>1, <1>3, <1>4, <2>3, <3>3, <3>5
  <2> QED
    BY <2>5, <2>6
<1> QED
  BY <1>5, <1>6

LEMMA TourNexts == T!TourInv /\ [T!TourNext]_(T!tourVars) => T!TourInv'
<1> SUFFICES ASSUME T!TourInv, [T!TourNext]_(T!tourVars) PROVE T!TourInv'
  OBVIOUS
<1>1. CASE \/ T!CallStart \/ T!CallStop
           \/ \E k \in T!Starts : T!StartRefused(k) \/ T!Begin(k)
  BY <1>1, StartsAndStops
<1>2. CASE \/ T!DismissNotice \/ (\E a \in Cast : T!DispatchTimer(a)) \/ UNCHANGED T!tourVars
  <2>1. UNCHANGED <<run, shownRun, abortOf, abortedRuns, used, starting, timers, deal, tally>>
    BY <1>2 DEF T!DismissNotice, T!DispatchTimer, T!tourVars, T!refs, T!work, T!screen
  <2> QED
    BY <2>1, TourStays DEF T!TourInv
<1>3. CASE T!PhaseTimer \/ T!HoldTimer
  BY <1>3, TimersRing
<1>4. ASSUME NEW k \in T!Starts, NEW a \in Cast,
             \/ T!BalanceRead(k, a) \/ T!ChallengeRead(k, a) \/ T!Warmed(k, a)
             \/ T!WarmFails(k, a) \/ T!LookFails(k, a)
      PROVE  T!TourInv'
  <2>1. UNCHANGED <<run, shownRun, abortOf, abortedRuns, used, starting, timers, deal, tally>>
    BY <1>4 DEF T!BalanceRead, T!ChallengeRead, T!Warmed, T!WarmFails, T!WarmStep,
                T!LookFails, T!refs, T!screen
  <2> QED
    BY <2>1, TourStays DEF T!TourInv
<1>5. ASSUME NEW k \in T!Starts, NEW a \in Cast, T!LookLands(k, a) PROVE T!TourInv'
  <2>1. /\ UNCHANGED <<run, shownRun, abortOf, abortedRuns, used, starting, timers, deal>>
        /\ tally' \in {tally, [tally EXCEPT !.evaluations = @ + 1]}
    BY <1>5 DEF T!LookLands, T!refs
  <2>2. /\ tally' \in [evaluations : Nat, payments : Nat, transactions : Nat]
        /\ tally'.payments = tally.payments /\ tally'.transactions = tally.transactions
    BY <2>1 DEF T!TourInv
  <2> QED
    BY <2>1, <2>2, TourStays
<1>6. ASSUME NEW k \in T!Starts, NEW a \in Cast,
             \/ T!DealHandles(k, a) \/ T!DealErrs(k, a) \/ T!DealResolves(k, a)
      PROVE  T!TourInv'
  BY <1>6, CallsGoOn
<1> QED
  BY <1>1, <1>2, <1>3, <1>4, <1>5, <1>6 DEF T!TourNext, T!Timers, T!Network

LEMMA VisitsKeepTours == Spec => []T!TourInv
<1>1. Init => T!TourInv
  BY TourInits DEF Init
<1>2. T!TourInv /\ [Next]_vars => T!TourInv'
  <2>1. [Next]_vars => [T!TourNext]_(T!tourVars)
    BY DEF Next, Only, vars, tourState,
           T!tourVars, T!screen, T!refs, T!work
  <2> QED
    BY <2>1, TourNexts
<1> QED
  BY <1>1, <1>2, PTL DEF Spec

(* Demonstration (demo/context.tsx): "Every figure above was produced by   *)
(* live API calls during this run", for any cast and any number of starts, *)
(* however the calls of stopped runs go on.                                *)
THEOREM FiguresAlwaysOfThisRun == Spec => []FiguresAreOfThisRun
<1>1. T!TourInv => FiguresAreOfThisRun
  BY DEF T!TourInv, FiguresAreOfThisRun
<1> QED
  BY <1>1, VisitsKeepTours, PTL
-----------------------------------------------------------------------------
\* Console: the screen and the conversation go together.
\* What the status of a turn, and the call under way, may be.
TurnLooks == {"absent", "retrieving", "generating", "done", "error"}
Questions == [turn : Nat, continues : Nat, seen : Nat,
              at : {"idle", "token", "sent", "open", "told"}]

LEMMA ConsoleTypes ==
    C!ConsoleInv <=>
        /\ {streaming, askStopped, crossed} \subseteq BOOLEAN
        /\ turnStatus \in [C!Turns -> TurnLooks] /\ stream \in Questions
        /\ {made, conversationId} \subseteq Nat /\ files \in [C!Turns -> Nat]
        /\ C!QuestionsFiled /\ C!QuestionContinuesScreen /\ C!ShownIsContinued
  BY DEF C!ConsoleInv, TurnLooks, Questions

LEMMA ConsoleInits == C!ConsoleInit => C!ConsoleInv
<1> SUFFICES ASSUME C!ConsoleInit PROVE C!ConsoleInv
  OBVIOUS
<1>1. MaxTurns \in Nat /\ Earlier \in Nat
  BY BoundsAssumption
<1>2. C!QuestionsFiled
  BY DEF C!ConsoleInit, C!QuestionsFiled, C!NoStream, C!NoConversation
<1>3. C!QuestionContinuesScreen
  BY DEF C!ConsoleInit, C!QuestionContinuesScreen
<1>4. C!ShownIsContinued
  BY DEF C!ConsoleInit, C!ShownIsContinued, C!OnScreen, C!NoConversation
<1>5. stream \in Questions
  BY DEF C!ConsoleInit, C!NoStream, C!NoConversation, Questions
<1>6. {streaming, askStopped, crossed} \subseteq BOOLEAN
  BY DEF C!ConsoleInit
<1>7. turnStatus \in [C!Turns -> TurnLooks] /\ files \in [C!Turns -> Nat]
  BY DEF C!ConsoleInit, C!NoConversation, TurnLooks
<1>8. {made, conversationId} \subseteq Nat
  BY <1>1 DEF C!ConsoleInit, C!NoConversation
<1> QED
  BY <1>2, <1>3, <1>4, <1>5, <1>6, <1>7, <1>8, ConsoleTypes

\* A question goes on or ends, on the screen that is there.
LEMMA QuestionGoesOn ==
    ASSUME C!ConsoleInv, UNCHANGED <<restored, conversationId, made, files, begun, crossed>>,
           turnStatus' \in [C!Turns -> TurnLooks], C!OnScreen' = C!OnScreen,
           stream' \in Questions, stream'.turn = stream.turn,
           stream'.continues = stream.continues,
           streaming' \in BOOLEAN, askStopped' \in BOOLEAN,
           streaming' = TRUE <=> stream'.at # "idle",
           streaming' = TRUE => streaming = TRUE,
           askStopped = TRUE => askStopped' = TRUE
    PROVE  C!ConsoleInv'
<1>1. C!QuestionsFiled'
  BY DEF C!ConsoleInv, C!QuestionsFiled
<1>2. C!QuestionContinuesScreen'
  BY DEF C!ConsoleInv, C!QuestionContinuesScreen
<1>3. C!ShownIsContinued'
  BY DEF C!ConsoleInv, C!ShownIsContinued, C!Empty
<1> QED
  BY <1>1, <1>2, <1>3, ConsoleTypes DEF C!ConsoleInv, TurnLooks, Questions

\* An event is read.
LEMMA EventSeen ==
    ASSUME C!ConsoleInv, stream' = [stream EXCEPT !.seen = @ + 1, !.at = "open"]
    PROVE  /\ stream' \in Questions /\ stream'.turn = stream.turn /\ stream'.at = "open"
           /\ stream'.continues = stream.continues
<1>1. /\ stream \in Questions
      /\ Questions = [turn : Nat, continues : Nat, seen : Nat,
                     at : {"idle", "token", "sent", "open", "told"}]
  BY ConsoleTypes DEF Questions
<1>2. \A q \in Questions, n \in Nat :
          /\ [q EXCEPT !.seen = n, !.at = "open"] \in Questions
          /\ [q EXCEPT !.seen = n, !.at = "open"].turn = q.turn
          /\ [q EXCEPT !.seen = n, !.at = "open"].at = "open"
          /\ [q EXCEPT !.seen = n, !.at = "open"].continues = q.continues
  BY <1>1
<1>3. stream.seen + 1 \in Nat
  BY <1>1
<1> QED
  BY <1>1, <1>2, <1>3

LEMMA PatchStays ==
    ASSUME NEW t, NEW s \in TurnLooks \ {"absent"}, C!ConsoleInv, C!Patch(t, s)
    PROVE  turnStatus' \in [C!Turns -> TurnLooks] /\ C!OnScreen' = C!OnScreen
<1>1. turnStatus \in [C!Turns -> TurnLooks]
  BY ConsoleTypes
<1>2. CASE turnStatus' = turnStatus
  BY <1>1, <1>2 DEF C!OnScreen
<1>3. CASE turnStatus[t] # "absent" /\ turnStatus' = [turnStatus EXCEPT ![t] = s]
  <2>1. turnStatus' \in [C!Turns -> TurnLooks]
    BY <1>1, <1>3
  <2>2. \A u \in C!Turns : turnStatus'[u] # "absent" <=> turnStatus[u] # "absent"
    BY <1>1, <1>3
  <2> QED
    BY <2>1, <2>2 DEF C!OnScreen
<1> QED
  BY <1>2, <1>3 DEF C!Patch

\* Whoever takes the screen stops the question under way, or crosses it.
LEMMA ScreenTaken ==
    ASSUME C!ConsoleInv, UNCHANGED <<streaming, stream, made, files, begun>>,
           turnStatus' = [t \in C!Turns |-> "absent"],
           restored' = conversationId', conversationId' \in Nat,
           askStopped' \in BOOLEAN, crossed' \in BOOLEAN,
           streaming = TRUE => askStopped' = TRUE \/ crossed' = TRUE
    PROVE  C!ConsoleInv'
<1>1. C!QuestionsFiled'
  BY DEF C!ConsoleInv, C!QuestionsFiled
<1>2. C!QuestionContinuesScreen'
  BY DEF C!ConsoleInv, C!QuestionContinuesScreen
<1>3. C!ShownIsContinued'
  BY DEF C!ShownIsContinued, C!OnScreen, C!Empty, C!NoConversation
<1> QED
  BY <1>1, <1>2, <1>3 DEF C!ConsoleInv

LEMMA AskKeeps ==
    ASSUME NEW t \in C!Turns, C!ConsoleInv, C!Ask(t)
    PROVE  C!ConsoleInv'
<1>1. /\ t = stream.turn + 1
      /\ turnStatus' = [turnStatus EXCEPT ![t] = "retrieving"]
      /\ streaming' = TRUE /\ askStopped' = FALSE
      /\ stream' = [turn |-> t, continues |-> conversationId, seen |-> 0, at |-> "token"]
      /\ UNCHANGED <<restored, conversationId, made, files, begun, crossed>>
  BY DEF C!Ask, C!serverVars, C!historyVars
<1>2. t \in Nat /\ stream.turn \in Nat /\ files[t] = 0 /\ t \notin begun
  BY <1>1 DEF C!ConsoleInv, C!QuestionsFiled, C!NoConversation, C!Turns
<1>3. C!OnScreen' = C!OnScreen \cup {t}
  BY <1>1 DEF C!OnScreen, C!ConsoleInv
<1>4. C!QuestionsFiled'
  BY <1>1, <1>2 DEF C!ConsoleInv, C!QuestionsFiled, C!Turns
<1>5. C!QuestionContinuesScreen'
  BY <1>1, <1>2, <1>3 DEF C!QuestionContinuesScreen, C!NoConversation
<1>6. C!ShownIsContinued'
  BY <1>1, <1>2, <1>3 DEF C!ConsoleInv, C!ShownIsContinued, C!Empty
<1>7. turnStatus' \in [C!Turns -> TurnLooks] /\ stream' \in Questions
  BY <1>1, <1>2 DEF C!ConsoleInv, TurnLooks, Questions
<1> QED
  BY <1>1, <1>4, <1>5, <1>6, <1>7 DEF C!ConsoleInv, TurnLooks, Questions

LEMMA ServeKeeps == C!ConsoleInv /\ C!ServeQuestion => C!ConsoleInv'
<1> SUFFICES ASSUME C!ConsoleInv, C!ServeQuestion PROVE C!ConsoleInv'
  OBVIOUS
<1> DEFINE filed == files'[stream.turn]
<1>1. /\ stream.at = "sent" /\ files[stream.turn] = 0
      /\ UNCHANGED <<turnStatus, restored, conversationId, streaming, stream, askStopped,
                     begun>>
      /\ crossed' = (crossed \/ stream.continues \notin kept \cup {0})
  BY DEF C!ServeQuestion, C!pageVars, C!callVars, C!NoConversation
<1>2. stream.turn \in C!Turns /\ stream.turn \notin begun
  BY <1>1 DEF C!ConsoleInv, C!QuestionsFiled, C!NoConversation
<1>3. PICK c \in Nat :
          /\ files' = [files EXCEPT ![stream.turn] = c]
          /\ stream.continues \in kept => c = stream.continues
  <2>1. CASE stream.continues \in kept
    BY <2>1 DEF C!ServeQuestion, C!ConsoleInv
  <2>2. CASE stream.continues \notin kept
    BY <2>2 DEF C!ServeQuestion, C!ConsoleInv
  <2> QED
    BY <2>1, <2>2
<1>4. made' \in Nat
  BY DEF C!ServeQuestion, C!ConsoleInv
<1>5. /\ files' \in [C!Turns -> Nat] /\ files'[stream.turn] = c
      /\ \A t \in C!Turns : t # stream.turn => files'[t] = files[t]
  BY <1>2, <1>3 DEF C!ConsoleInv
<1>6. C!QuestionsFiled'
  <2>1. stream.turn \in Nat
    BY <1>2 DEF C!Turns
  <2>2. \A t \in C!Turns : t > stream.turn => t # stream.turn
    BY <2>1 DEF C!Turns
  <2> QED
    BY <1>1, <1>2, <1>5, <2>2 DEF C!ConsoleInv, C!QuestionsFiled
<1>7. C!QuestionContinuesScreen'
  BY <1>1, <1>2, <1>3, <1>5
  DEF C!ConsoleInv, C!QuestionContinuesScreen, C!OnScreen, C!NoConversation
<1>8. C!ShownIsContinued'
  <2>1. {files'[t] : t \in C!OnScreen \cap begun} = {files[t] : t \in C!OnScreen \cap begun}
    BY <1>2, <1>5 DEF C!OnScreen
  <2> QED
    BY <1>1, <2>1 DEF C!ConsoleInv, C!ShownIsContinued, C!OnScreen, C!Empty
<1> QED
  BY <1>1, <1>4, <1>5, <1>6, <1>7, <1>8 DEF C!ConsoleInv

LEMMA StartKeeps == C!ConsoleInv /\ C!OnStart => C!ConsoleInv'
<1> SUFFICES ASSUME C!ConsoleInv, C!OnStart PROVE C!ConsoleInv'
  OBVIOUS
<1> DEFINE t0 == stream.turn
<1>1. /\ stream.at \in {"sent", "open"} /\ askStopped # TRUE /\ files[t0] # 0
      /\ stream' = [stream EXCEPT !.seen = @ + 1, !.at = "open"]
      /\ UNCHANGED <<turnStatus, restored, streaming, askStopped, made, files, crossed>>
      /\ conversationId' = files[t0] /\ begun' = begun \cup {t0}
  BY DEF C!OnStart, C!Dispatch, C!serverVars, C!NoConversation
<1>2. streaming = TRUE /\ t0 \in C!Turns
  BY <1>1 DEF C!ConsoleInv, C!QuestionsFiled
<1>3. /\ stream' \in Questions /\ stream'.turn = t0 /\ stream'.at = "open"
      /\ stream'.continues = stream.continues
  BY <1>1, EventSeen
<1>4. C!OnScreen' = C!OnScreen
  BY <1>1 DEF C!OnScreen
<1>5. C!QuestionsFiled'
  BY <1>1, <1>2, <1>3 DEF C!ConsoleInv, C!QuestionsFiled, C!NoConversation
<1>6. C!QuestionContinuesScreen'
  BY <1>1, <1>2, <1>3, <1>4 DEF C!ConsoleInv, C!QuestionContinuesScreen
<1>7. C!ShownIsContinued'
  <2>1. SUFFICES ASSUME crossed # TRUE PROVE C!ShownIsContinued'
    BY <1>1 DEF C!ShownIsContinued, C!ConsoleInv
  <2> DEFINE toldOf == {files[t] : t \in C!OnScreen \cap begun} \cup ({restored} \ {0})
  <2>2. toldOf \subseteq {conversationId} /\ 0 \notin toldOf
    BY <2>1 DEF C!ConsoleInv, C!ShownIsContinued, C!QuestionsFiled, C!NoConversation
  <2>3. /\ t0 \in C!OnScreen
        /\ conversationId \in {files[t0], stream.continues}
        /\ stream.continues # 0 => files[t0] = stream.continues
    BY <1>1, <1>2, <2>1
    DEF C!ConsoleInv, C!QuestionContinuesScreen, C!NoConversation
  <2>4. toldOf \subseteq {files[t0]}
    BY <2>2, <2>3
  <2>5. {files'[t] : t \in C!OnScreen' \cap begun'} \cup ({restored'} \ {0})
            \subseteq {files[t0]}
    BY <1>1, <1>4, <2>4
  <2> QED
    BY <1>1, <1>4, <2>3, <2>5 DEF C!ShownIsContinued, C!Empty, C!NoConversation
<1>8. conversationId' \in Nat
  BY <1>1, <1>2 DEF C!ConsoleInv
<1> QED
  BY <1>1, <1>3, <1>5, <1>6, <1>7, <1>8 DEF C!ConsoleInv, Questions

LEMMA ConsoleNexts == C!ConsoleInv /\ [C!ConsoleNext]_(C!consoleVars) => C!ConsoleInv'
<1> SUFFICES ASSUME C!ConsoleInv, [C!ConsoleNext]_(C!consoleVars) PROVE C!ConsoleInv'
  OBVIOUS
<1> USE DEF C!pageVars, C!callVars, C!serverVars, C!historyVars
<1>1. ASSUME UNCHANGED <<turnStatus, restored, conversationId, streaming, stream, made, files,
                         begun, crossed>>,
             askStopped' = askStopped \/ askStopped' = TRUE
      PROVE  C!ConsoleInv'
  BY <1>1, ConsoleTypes, QuestionGoesOn DEF C!OnScreen, C!ConsoleInv, C!QuestionsFiled
<1>2. CASE C!ClickStop \/ UNCHANGED C!consoleVars
  BY <1>1, <1>2 DEF C!ClickStop, C!consoleVars
<1>3. ASSUME NEW t \in C!Turns, C!AskFromPage(t) \/ C!AskSeeded(t) PROVE C!ConsoleInv'
  <2>1. CASE C!Ask(t)
    BY <2>1, AskKeeps
  <2> QED
    BY <1>1, <1>3, <2>1 DEF C!AskFromPage, C!AskSeeded
<1>4. CASE C!ServeQuestion \/ C!OnStart
  BY <1>4, ServeKeeps, StartKeeps
<1>5. CASE C!OnRetrieval \/ C!OnToken \/ C!OnDone
  <2>1. PICK s \in TurnLooks \ {"absent"} : C!Patch(stream.turn, s)
    BY <1>5 DEF C!OnRetrieval, C!OnToken, C!OnDone, TurnLooks
  <2>2. /\ stream.at \in {"sent", "open"}
        /\ stream' = [stream EXCEPT !.seen = @ + 1, !.at = "open"]
        /\ UNCHANGED <<restored, conversationId, streaming, askStopped, made, files, begun,
                       crossed>>
    BY <1>5 DEF C!OnRetrieval, C!OnToken, C!OnDone, C!Dispatch
  <2>3. /\ stream' \in Questions /\ stream'.turn = stream.turn /\ stream'.at = "open"
        /\ stream'.continues = stream.continues
    BY <2>2, EventSeen
  <2>4. streaming = TRUE
    BY <2>2 DEF C!ConsoleInv, C!QuestionsFiled
  <2>5. turnStatus' \in [C!Turns -> TurnLooks] /\ C!OnScreen' = C!OnScreen
    BY <2>1, PatchStays
  <2> QED
    BY <2>2, <2>3, <2>4, <2>5, QuestionGoesOn DEF C!ConsoleInv
<1>6. CASE C!SendQuestion \/ C!NoToken \/ C!OnError \/ C!StreamOver
  <2>1. PICK at \in {"idle", "sent", "told"} :
            /\ stream' = [stream EXCEPT !.at = at]
            /\ streaming' = IF at = "idle" THEN FALSE ELSE streaming
    BY <1>6 DEF C!SendQuestion, C!NoToken, C!OnError, C!StreamOver, C!Finish, C!StreamGoes
  <2>2. /\ stream.at # "idle"
        /\ UNCHANGED <<restored, conversationId, askStopped, made, files, begun, crossed>>
    BY <1>6 DEF C!SendQuestion, C!NoToken, C!OnError, C!StreamOver
  <2>3. /\ stream' \in Questions /\ stream'.turn = stream.turn /\ stream'.at = at
        /\ stream'.continues = stream.continues
    BY <2>1 DEF C!ConsoleInv, Questions
  <2>4. streaming = TRUE
    BY <2>2 DEF C!ConsoleInv, C!QuestionsFiled
  <2>5. turnStatus' = turnStatus \/ C!Patch(stream.turn, "error")
    BY <1>6 DEF C!SendQuestion, C!NoToken, C!OnError, C!StreamOver
  <2>6. turnStatus' \in [C!Turns -> TurnLooks] /\ C!OnScreen' = C!OnScreen
    <3>1. CASE turnStatus' = turnStatus
      BY <3>1, ConsoleTypes DEF C!OnScreen
    <3>2. CASE C!Patch(stream.turn, "error")
      BY <3>2, PatchStays DEF TurnLooks
    <3> QED
      BY <2>5, <3>1, <3>2
  <2> QED
    BY <2>1, <2>2, <2>3, <2>4, <2>6, QuestionGoesOn DEF C!ConsoleInv
<1>7. ASSUME C!StartNew PROVE C!ConsoleInv'
  <2>1. /\ UNCHANGED <<streaming, stream, made, files, begun>>
        /\ turnStatus' = [t \in C!Turns |-> "absent"]
        /\ restored' = 0 /\ conversationId' = 0 /\ crossed' = FALSE
        /\ askStopped' = (askStopped \/ streaming)
    BY <1>7 DEF C!StartNew, C!NoConversation
  <2>2. askStopped' \in BOOLEAN /\ (streaming = TRUE => askStopped' = TRUE)
    BY <2>1 DEF C!ConsoleInv
  <2> QED
    BY <2>1, <2>2, ScreenTaken
<1>8. CASE C!ClickNew
  BY <1>7, <1>8 DEF C!ClickNew
<1>9. ASSUME NEW id \in C!Conversations,
             C!ClickOpen(id) \/ C!OpenLands(id) \/ C!OpenFails(id) \/ C!ClickDelete(id)
      PROVE  C!ConsoleInv'
  <2>1. CASE C!ClickOpen(id) \/ C!OpenFails(id) \/ C!ClickDelete(id)
    BY <1>1, <2>1 DEF C!ClickOpen, C!OpenFails, C!ClickDelete
  <2>2. CASE C!OpenLands(id)
    <3>1. /\ UNCHANGED <<streaming, stream, askStopped, made, files, begun>>
          /\ turnStatus' = [t \in C!Turns |-> "absent"]
          /\ restored' = id /\ conversationId' = id /\ crossed' = streaming
      BY <2>2 DEF C!OpenLands
    <3>2. id \in Nat
      BY BoundsAssumption DEF C!Conversations
    <3> QED
      BY <3>1, <3>2, ScreenTaken DEF C!ConsoleInv
  <2> QED
    BY <1>9, <2>1, <2>2
<1>10. ASSUME NEW d \in deleting, C!ServeDelete(d) \/ C!DeleteLands(d) \/ C!DeleteFails(d)
       PROVE  C!ConsoleInv'
  <2>1. CASE C!StartNew
    BY <1>7, <2>1
  <2> QED
    BY <1>1, <1>10, <2>1 DEF C!ServeDelete, C!DeleteLands, C!DeleteFails
<1> QED
  BY <1>2, <1>3, <1>4, <1>5, <1>6, <1>8, <1>9, <1>10 DEF C!ConsoleNext, C!Answering

LEMMA VisitsKeepConsoles == Spec => []C!ConsoleInv
<1>1. Init => C!ConsoleInv
  BY ConsoleInits DEF Init
<1>2. C!ConsoleInv /\ [Next]_vars => C!ConsoleInv'
  <2>1. [Next]_vars => [C!ConsoleNext]_(C!consoleVars)
    BY DEF Next, Only, vars, consoleState,
           C!consoleVars, C!pageVars, C!callVars, C!serverVars, C!historyVars
  <2> QED
    BY <2>1, ConsoleNexts
<1> QED
  BY <1>1, <1>2, PTL DEF Spec

(* Console (ConsoleWorkspace.tsx): the next question goes to the           *)
(* conversation on the screen, for any number of questions and             *)
(* conversations, whatever is stopped, opened, deleted and begun anew.     *)
THEOREM ShownAlwaysContinued == Spec => []ShownIsContinued
<1>1. C!ConsoleInv => ShownIsContinued
  BY DEF C!ConsoleInv, ShownIsContinued
<1> QED
  BY <1>1, VisitsKeepConsoles, PTL
-----------------------------------------------------------------------------
\* Library: the list, its count, and the lines of the uploads.
\* The instance counts as FiniteSets does.
LEMMA LibraryCounts ==
    \A s : (L!IsFiniteSet(s) <=> IsFiniteSet(s)) /\ L!Cardinality(s) = Cardinality(s)
<1> SUFFICES ASSUME NEW s
             PROVE  (L!IsFiniteSet(s) <=> IsFiniteSet(s)) /\ L!Cardinality(s) = Cardinality(s)
  OBVIOUS
<1>1. L!IsFiniteSet(s) = IsFiniteSet(s)
  BY DEF L!IsFiniteSet, IsFiniteSet
<1>2. L!Cardinality(s) = Cardinality(s)
  BY DEF L!Cardinality, Cardinality
<1> QED
  BY <1>1, <1>2

LEMMA LinesOfFiles == L!FileSlots \subseteq Nat
<1> SUFFICES ASSUME NEW b \in L!BatchIds, NEW n \in DOMAIN Batches[b] PROVE n \in Nat
  BY DEF L!FileSlots
<1>1. Batches[b] \in Seq(DOMAIN Contents)
  BY LibraryAssumption DEF L!BatchIds
<1> QED
  BY <1>1

LEMMA LibraryInits == L!LibraryInit => L!LibraryInv
<1> SUFFICES ASSUME L!LibraryInit PROVE L!LibraryInv
  OBVIOUS
<1>1. L!ViewInv
  <2>1. IsFiniteSet({}) /\ Cardinality({}) = 0
    BY FS_EmptySet
  <2>2. DOMAIN list = L!Loaders /\ \A o \in L!Loaders : IsFiniteSet(list[o].docs)
    BY <2>1 DEF L!LibraryInit, L!Asked, L!NotAsked
  <2>3. IsFiniteSet(Initially)
    BY LibraryAssumption, FS_Subset
  <2> QED
    BY <2>1, <2>2, <2>3, LibraryCounts DEF L!LibraryInit, L!ViewInv
<1>2. L!JobsInv
  BY DEF L!LibraryInit, L!JobsInv, L!SpinnersAreUploads, L!JobLine, L!JobStates
<1> QED
  BY <1>1, <1>2 DEF L!LibraryInv

\* What does not touch the list, the counts or the deletions.
LEMMA ViewStays ==
    ASSUME L!ViewInv, UNCHANGED <<L!viewVars, indexed, removal>>,
           DOMAIN list' = DOMAIN list,
           \A o \in L!Loaders : IsFiniteSet(list'[o].docs)
    PROVE  L!ViewInv'
BY LibraryCounts DEF L!ViewInv, L!viewVars

\* One loader's GET is asked for, or over.
LEMMA LoaderMoves ==
    ASSUME L!ViewInv, NEW o \in L!Loaders, NEW r, IsFiniteSet(r.docs),
           list' = [list EXCEPT ![o] = r]
    PROVE  DOMAIN list' = DOMAIN list /\ \A p \in L!Loaders : IsFiniteSet(list'[p].docs)
BY LibraryCounts DEF L!ViewInv

\* What `load` makes of the list.
LEMMA LoadKeepsView ==
    ASSUME L!ViewInv, NEW o \in L!Loaders, L!LoadEnds(o),
           list' = [list EXCEPT ![o] = L!NotAsked], UNCHANGED <<indexed, removal>>
    PROVE  L!ViewInv'
<1>1. DOMAIN list' = DOMAIN list /\ \A p \in L!Loaders : IsFiniteSet(list'[p].docs)
  <2>1. IsFiniteSet(L!NotAsked.docs)
    BY FS_EmptySet DEF L!NotAsked
  <2> QED
    BY <2>1, LoaderMoves
<1>2. CASE L!ListShown(o)
  <2> DEFINE docs == list[o].docs
  <2>1. IsFiniteSet(docs)
    BY LibraryCounts DEF L!ViewInv
  <2>2. Cardinality(docs) \in Nat
    BY <2>1, FS_CardinalityType
  <2>3. /\ known' = TRUE /\ listing' = docs /\ totalShown' = Cardinality(docs)
        /\ overtaken' = (\E d \in L!Documents : removal[d] # "no" /\ d \notin docs)
    BY <1>2, LibraryCounts DEF L!ListShown
  <2> HIDE DEF docs
  <2> QED
    BY <1>1, <2>1, <2>2, <2>3, LibraryCounts DEF L!ViewInv
<1>3. CASE L!ListFails(o)
  BY <1>1, <1>3, LibraryCounts DEF L!ListFails, L!ViewInv
<1> QED
  BY <1>2, <1>3 DEF L!LoadEnds
-----------------------------------------------------------------------------
\* A batch that goes on: its line in progress, if any, is finished.
LEMMA BatchGoesOn ==
    ASSUME L!JobsInv, NEW b \in L!BatchIds, NEW n \in Int, NEW lines,
           lines \in [L!FileSlots -> L!JobStates],
           \A k \in L!FileSlots : lines[k] # "uploading",
           L!GoOn(b, n, lines)
    PROVE  L!JobsInv'
<1> DEFINE next == L!NextFile(b, n)
           ended == next > Len(Batches[b])
           line(k) == CASE k \in n..(next - 1) -> "error"
                        [] k = next /\ ~ended -> "uploading"
                        [] OTHER -> lines[k]
           at == IF ended THEN "over" ELSE "sent"
<1>1. /\ job' = [job EXCEPT ![b] = [k \in L!FileSlots |-> line(k)]]
      /\ ingest' = [ingest EXCEPT ![b] = [at |-> at, file |-> next]]
  BY DEF L!GoOn
<1>2. next \in Int
  <2> DEFINE fits == {k \in n..Len(Batches[b]) : Batches[b][k] \notin TooLarge}
  <2>1. Batches[b] \in Seq(DOMAIN Contents)
    BY LibraryAssumption DEF L!BatchIds
  <2>2. CASE fits = {}
    BY <2>1, <2>2 DEF L!NextFile
  <2>3. CASE fits # {}
    <3>1. IsFiniteSet(fits) /\ fits \subseteq Int
      <4>1. IsFiniteSet(n..Len(Batches[b]))
        BY <2>1, FS_Interval
      <4>2. fits \subseteq n..Len(Batches[b]) /\ fits \subseteq Int
        OBVIOUS
      <4> QED
        BY <4>1, <4>2, FS_Subset
    <3>2. PICK k \in fits : \A j \in fits : k <= j
      BY <2>3, <3>1, LeastMember
    <3> QED
      BY <2>3, <3>1, <3>2 DEF L!NextFile
  <2> QED
    BY <2>2, <2>3
<1>3. ASSUME NEW k \in L!FileSlots
      PROVE  line(k) \in L!JobStates /\ (line(k) = "uploading" <=> k = next /\ ~ended)
  <2>1. k \in Int
    BY LinesOfFiles
  <2>2. lines[k] \in L!JobStates /\ lines[k] # "uploading"
    OBVIOUS
  <2> HIDE DEF next, ended
  <2>3. CASE k = next /\ ~ended
    BY <1>2, <2>1, <2>3 DEF L!JobStates
  <2>4. CASE k # next \/ ended
    BY <1>2, <2>1, <2>2, <2>4 DEF L!JobStates
  <2> QED
    BY <2>3, <2>4
<1> HIDE DEF next, line
<1> QED
  BY <1>1, <1>2, <1>3 DEF L!JobsInv, L!SpinnersAreUploads, L!JobLine
\* Where no upload of the batch is under way, none of its lines spins.
LEMMA LinesAtRest ==
    ASSUME L!JobsInv, NEW b \in L!BatchIds, ingest[b].at \notin {"sent", "stored"}
    PROVE  /\ job[b] \in [L!FileSlots -> L!JobStates]
           /\ \A k \in L!FileSlots : job[b][k] # "uploading"
<1>1. job[b] \in [L!FileSlots -> L!JobStates]
  BY DEF L!JobsInv
<1>2. ASSUME NEW k \in L!FileSlots PROVE job[b][k] # "uploading"
  BY DEF L!JobsInv, L!SpinnersAreUploads, L!JobLine
<1> QED
  BY <1>1, <1>2

LEMMA JobsNext == L!JobsInv /\ [L!LibraryNext]_(L!libraryVars) => L!JobsInv'
<1> SUFFICES ASSUME L!JobsInv, [L!LibraryNext]_(L!libraryVars) PROVE L!JobsInv'
  OBVIOUS
<1>0. \A b \in L!BatchIds : ingest[b].file \in Int
  BY DEF L!JobsInv
<1>1. ASSUME UNCHANGED <<job, ingest>> PROVE L!JobsInv'
  BY <1>1 DEF L!JobsInv, L!SpinnersAreUploads, L!JobLine
<1>2. CASE \/ L!FirstLoadEnds \/ \E o \in L!Loaders : L!ServeList(o)
           \/ \E d \in L!Documents : \/ L!ClickDelete(d) \/ L!ServeDelete(d)
                                    \/ L!DeleteLands(d) \/ L!DeleteFails(d)
           \/ UNCHANGED L!libraryVars
  BY <1>1, <1>2
  DEF L!FirstLoadEnds, L!ServeList, L!ClickDelete, L!ServeDelete, L!DeleteLands,
      L!DeleteFails, L!libraryVars
<1>3. ASSUME NEW b \in L!BatchIds, L!DropFiles(b) PROVE L!JobsInv'
  BY <1>3, LinesAtRest, BatchGoesOn DEF L!DropFiles
<1>4. ASSUME NEW b \in L!BatchIds, L!ServeUpload(b) PROVE L!JobsInv'
  BY <1>4 DEF L!ServeUpload, L!JobsInv, L!SpinnersAreUploads, L!JobLine
<1>5. ASSUME NEW b \in L!BatchIds, L!UploadLands(b) PROVE L!JobsInv'
  <2>1. job' \in [L!BatchIds -> [L!FileSlots -> L!JobStates]]
    BY <1>5 DEF L!UploadLands, L!JobsInv, L!JobStates
  <2>2. /\ ingest' = [ingest EXCEPT ![b].at = "list"]
        /\ ingest' \in [L!BatchIds -> [at : {"off", "sent", "stored", "list", "over"},
                                       file : Int]]
    BY <1>5 DEF L!UploadLands, L!JobsInv
  <2>3. ASSUME NEW c \in L!BatchIds, NEW k \in L!FileSlots
        PROVE  job'[c][k] = "uploading"
                 <=> ingest'[c].at \in {"sent", "stored"} /\ ingest'[c].file = k
    <3>1. job[c][k] = "uploading" <=> ingest[c].at \in {"sent", "stored"} /\ ingest[c].file = k
      BY DEF L!JobsInv, L!SpinnersAreUploads, L!JobLine
    <3>2. CASE c = b
      BY <1>5, <2>2, <3>1, <3>2 DEF L!UploadLands, L!JobsInv
    <3>3. CASE c # b
      BY <1>5, <2>2, <3>1, <3>3 DEF L!UploadLands, L!JobsInv
    <3> QED
      BY <3>2, <3>3
  <2> QED
    BY <2>1, <2>2, <2>3 DEF L!JobsInv, L!SpinnersAreUploads, L!JobLine
<1>6. ASSUME NEW b \in L!BatchIds, L!UploadFails(b) PROVE L!JobsInv'
  <2> DEFINE lines == [job[b] EXCEPT ![ingest[b].file] = "error"]
  <2>1. /\ lines \in [L!FileSlots -> L!JobStates]
        /\ \A k \in L!FileSlots : lines[k] # "uploading"
    BY <1>6 DEF L!UploadFails, L!JobsInv, L!SpinnersAreUploads, L!JobLine, L!JobStates
  <2>2. L!GoOn(b, ingest[b].file + 1, lines)
    BY <1>6 DEF L!UploadFails
  <2> HIDE DEF lines
  <2> QED
    BY <1>0, <2>1, <2>2, BatchGoesOn
<1>7. ASSUME NEW b \in L!BatchIds, L!BatchLoadEnds(b) PROVE L!JobsInv'
  BY <1>0, <1>7, LinesAtRest, BatchGoesOn DEF L!BatchLoadEnds
<1>8. CASE L!ReadTimer
  BY <1>8 DEF L!ReadTimer, L!JobsInv, L!SpinnersAreUploads, L!JobLine, L!JobStates
<1> QED
  BY <1>2, <1>3, <1>4, <1>5, <1>6, <1>7, <1>8 DEF L!LibraryNext
-----------------------------------------------------------------------------
LEMMA ViewNext == L!ViewInv /\ [L!LibraryNext]_(L!libraryVars) => L!ViewInv'
<1> SUFFICES ASSUME L!ViewInv, [L!LibraryNext]_(L!libraryVars) PROVE L!ViewInv'
  OBVIOUS
<1>0. DOMAIN list = L!Loaders /\ \A o \in L!Loaders : IsFiniteSet(list[o].docs)
  BY LibraryCounts DEF L!ViewInv
<1>1. CASE L!FirstLoadEnds
  BY <1>1, LoadKeepsView DEF L!FirstLoadEnds, L!Loaders
<1>2. ASSUME NEW b \in L!BatchIds, L!BatchLoadEnds(b) PROVE L!ViewInv'
  BY <1>2, LoadKeepsView DEF L!BatchLoadEnds, L!Loaders
<1>3. ASSUME NEW o \in L!Loaders, L!ServeList(o) PROVE L!ViewInv'
  <2>1. IsFiniteSet([at |-> "read", docs |-> indexed].docs)
    BY LibraryCounts DEF L!ViewInv
  <2>2. DOMAIN list' = DOMAIN list /\ \A p \in L!Loaders : IsFiniteSet(list'[p].docs)
    BY <1>3, <2>1, LoaderMoves DEF L!ServeList
  <2> QED
    BY <1>3, <2>2, ViewStays DEF L!ServeList
<1>4. ASSUME NEW b \in L!BatchIds, L!UploadLands(b) PROVE L!ViewInv'
  <2>1. IsFiniteSet(L!Asked.docs)
    BY FS_EmptySet DEF L!Asked
  <2>2. DOMAIN list' = DOMAIN list /\ \A p \in L!Loaders : IsFiniteSet(list'[p].docs)
    BY <1>4, <2>1, LoaderMoves DEF L!UploadLands, L!Ask, L!Loaders
  <2> QED
    BY <1>4, <2>2, ViewStays DEF L!UploadLands
<1>5. CASE \/ \E b \in L!BatchIds : L!DropFiles(b) \/ L!UploadFails(b)
           \/ L!ReadTimer \/ UNCHANGED L!libraryVars
  BY <1>0, <1>5, ViewStays
  DEF L!DropFiles, L!UploadFails, L!ReadTimer, L!libraryVars, L!viewVars
<1>6. ASSUME NEW b \in L!BatchIds, L!ServeUpload(b) PROVE L!ViewInv'
  <2>1. IsFiniteSet(indexed')
    <3>1. PICK d : indexed' \in {indexed, indexed \cup {d}}
      BY <1>6 DEF L!ServeUpload
    <3> QED
      BY <3>1, FS_AddElement, LibraryCounts DEF L!ViewInv
  <2> QED
    BY <1>6, <2>1, LibraryCounts DEF L!ServeUpload, L!ViewInv, L!viewVars
<1>7. ASSUME NEW d \in L!Documents, L!ClickDelete(d) PROVE L!ViewInv'
  BY <1>7, LibraryCounts DEF L!ClickDelete, L!ViewInv, L!viewVars
<1>8. ASSUME NEW d \in L!Documents, L!ServeDelete(d) PROVE L!ViewInv'
  BY <1>8, FS_RemoveElement, LibraryCounts DEF L!ServeDelete, L!ViewInv, L!viewVars
<1>9. ASSUME NEW d \in L!Documents, L!DeleteLands(d) PROVE L!ViewInv'
  <2>1. /\ IsFiniteSet(listing) /\ IsFiniteSet(listing \ {d})
        /\ d \in listing => Cardinality(listing \ {d}) = Cardinality(listing) - 1
    BY FS_RemoveElement, LibraryCounts DEF L!ViewInv
  <2>2. ~overtaken => d \in listing /\ known
    BY <1>9 DEF L!DeleteLands, L!ViewInv
  <2>3. /\ UNCHANGED <<list, known, indexed, overtaken>>
        /\ removal' = [removal EXCEPT ![d] = "no"]
        /\ known => listing' = listing \ {d} /\ totalShown' = totalShown - 1
        /\ ~known => UNCHANGED <<listing, totalShown>>
    BY <1>9 DEF L!DeleteLands
  <2>4. CASE known
    <3>1. listing' = listing \ {d} /\ totalShown' = totalShown - 1
      BY <2>3, <2>4
    <3>2. ~overtaken => totalShown' = Cardinality(listing')
      BY <2>1, <2>2, <3>1, LibraryCounts DEF L!ViewInv
    <3> QED
      BY <2>1, <2>3, <2>4, <3>1, <3>2, LibraryCounts DEF L!ViewInv
  <2>5. CASE ~known
    BY <2>2, <2>3, <2>5, LibraryCounts DEF L!ViewInv
  <2> QED
    BY <2>4, <2>5
<1>10. ASSUME NEW d \in L!Documents, L!DeleteFails(d) PROVE L!ViewInv'
  BY <1>10, LibraryCounts DEF L!DeleteFails, L!ViewInv, L!viewVars
<1> QED
  BY <1>1, <1>2, <1>3, <1>4, <1>5, <1>6, <1>7, <1>8, <1>9, <1>10 DEF L!LibraryNext

LEMMA LibraryNexts == L!LibraryInv /\ [L!LibraryNext]_(L!libraryVars) => L!LibraryInv'
  BY ViewNext, JobsNext DEF L!LibraryInv

LEMMA VisitsKeepLibraries == Spec => []L!LibraryInv
<1>1. Init => L!LibraryInv
  BY LibraryInits DEF Init
<1>2. L!LibraryInv /\ [Next]_vars => L!LibraryInv'
  <2>1. [Next]_vars => [L!LibraryNext]_(L!libraryVars)
    BY DEF Next, Only, vars, libraryState,
           L!libraryVars
  <2> QED
    BY <2>1, LibraryNexts
<1> QED
  BY <1>1, <1>2, PTL DEF Spec

(* Library (LibraryWorkspace.tsx): the tile counts the list under it, for  *)
(* any files and documents and however uploads, deletions and reloads      *)
(* overlap, until a reload overtakes a deletion.                           *)
THEOREM TileAlwaysCounts == Spec => []TileCountsTheList
<1>1. L!LibraryInv => TileCountsTheList
  BY LibraryCounts
  DEF L!LibraryInv, L!ViewInv, TileCountsTheList, L!TileCountsTheList, L!DocumentsTile,
      L!CountLine
<1> QED
  BY <1>1, VisitsKeepLibraries, PTL
-----------------------------------------------------------------------------
\* Palette: the passages are those of the text.
LEMMA PaletteInits == K!PaletteInit => K!PaletteInv
BY PaletteAssumption
DEF K!PaletteInit, K!PaletteInv, K!MatchesAreOfTheText, K!NothingFound, K!Queries

LEMMA PaletteNexts == K!PaletteInv /\ [K!PaletteNext]_(K!paletteVars) => K!PaletteInv'
<1> SUFFICES ASSUME K!PaletteInv, [K!PaletteNext]_(K!paletteVars) PROVE K!PaletteInv'
  OBVIOUS
<1>0. "" \in K!Queries /\ K!NoQuery \notin K!Queries
  BY PaletteAssumption DEF K!Queries
<1> USE DEF K!PaletteInv, K!MatchesAreOfTheText
<1>1. CASE K!Closed
  BY <1>0, <1>1 DEF K!Closed, K!TextBecomes, K!NothingFound
<1>2. CASE K!PressShortcut \/ K!MoveCursor \/ UNCHANGED K!paletteVars
  BY <1>2 DEF K!PressShortcut, K!MoveCursor, K!paletteVars
<1>3. ASSUME NEW q \in K!Queries, K!Type(q) PROVE K!PaletteInv'
  BY <1>0, <1>3 DEF K!Type, K!TextBecomes
<1>4. ASSUME NEW q \in K!Queries, K!OutdatedLands(q) PROVE K!PaletteInv'
  BY <1>4 DEF K!OutdatedLands
<1>5. CASE K!DebounceTimer
  <2>1. CASE text \in Short
    <3>1. /\ found' = K!NothingFound /\ searching' = FALSE /\ debounce' = FALSE
          /\ text' = text /\ current' = current /\ debounce
      BY <1>5, <2>1, Zenon DEF K!DebounceTimer
    <3>2. found'.hits = 0
      BY <3>1 DEF K!NothingFound
    <3>3. current = K!NoQuery
      BY <3>1, Zenon
    <3>4. ~(found'.hits > 0)
      BY <3>2
    <3>5. current' = K!NoQuery /\ text' \in K!Queries /\ ~searching'
      BY <3>1, <3>3, Zenon
    <3>6. {searching', debounce'} \subseteq BOOLEAN
      BY <3>1
    <3> QED
      BY <3>4, <3>5, <3>6, Zenon
  <2>2. CASE text \notin Short
    BY <1>0, <1>5, <2>2 DEF K!DebounceTimer
  <2> QED
    BY <2>1, <2>2
<1>6. CASE K!SearchLands
  <2>1. PICK n \in 0..MaxHits : found' = [of |-> current, hits |-> n]
    BY <1>6 DEF K!SearchLands
  <2> QED
    BY <2>1, <1>6 DEF K!SearchLands
<1> QED
  BY <1>1, <1>2, <1>3, <1>4, <1>5, <1>6
  DEF K!PaletteNext, K!PressEscape, K!PressEnter, K!Activate

LEMMA VisitsKeepPalettes == Spec => []K!PaletteInv
<1>1. Init => K!PaletteInv
  BY PaletteInits DEF Init
<1>2. K!PaletteInv /\ [Next]_vars => K!PaletteInv'
  <2>1. [Next]_vars => [K!PaletteNext]_(K!paletteVars)
    BY DEF Next, Only, vars, paletteState,
           K!paletteVars
  <2> QED
    BY <2>1, PaletteNexts
<1> QED
  BY <1>1, <1>2, PTL DEF Spec

(* Palette (CommandPalette.tsx): the passages listed are those of the text *)
(* above them, for any texts and however late the answers of earlier       *)
(* keystrokes are.                                                         *)
THEOREM MatchesAlwaysOfTheText == Spec => []MatchesAreOfTheText
<1>1. K!PaletteInv => MatchesAreOfTheText
  BY DEF K!PaletteInv, MatchesAreOfTheText
<1> QED
  BY <1>1, VisitsKeepPalettes, PTL
-----------------------------------------------------------------------------
\* Atlas: one projection at a time.
LEMMA AtlasInits == A!AtlasInit => A!AtlasInv
BY DEF A!AtlasInit, A!AtlasInv, A!SpinnerIsAProjection, A!BarSpins

LEMMA AtlasNexts == A!AtlasInv /\ [A!AtlasNext]_(A!atlasVars) => A!AtlasInv'
<1> SUFFICES ASSUME A!AtlasInv, [A!AtlasNext]_(A!atlasVars) PROVE A!AtlasInv'
  OBVIOUS
<1> USE DEF A!AtlasInv, A!SpinnerIsAProjection, A!BarSpins
<1>1. CASE A!LoadLands \/ A!Publish \/ UNCHANGED A!atlasVars
  <2>1. UNCHANGED <<projecting, pending, demoPending, crowded>>
    BY <1>1 DEF A!LoadLands, A!Publish, A!atlasVars
  <2> QED
    BY <2>1, Zenon
<1>2. CASE A!DemoTimer
  BY <1>2 DEF A!DemoTimer
<1>3. CASE A!DemosLands
  BY <1>3 DEF A!DemosLands, A!ProjectionEnds
<1>4. ASSUME NEW q \in Typed, A!ClickProject(q) PROVE A!AtlasInv'
  BY <1>4 DEF A!ClickProject
<1>5. ASSUME NEW q \in Typed, A!VisitorsLands(q) PROVE A!AtlasInv'
  BY <1>5 DEF A!VisitorsLands, A!ProjectionEnds
<1> QED
  BY <1>1, <1>2, <1>3, <1>4, <1>5 DEF A!AtlasNext

LEMMA VisitsKeepAtlases == Spec => []A!AtlasInv
<1>1. Init => A!AtlasInv
  BY AtlasInits DEF Init
<1>2. A!AtlasInv /\ [Next]_vars => A!AtlasInv'
  <2>1. [Next]_vars => [A!AtlasNext]_(A!atlasVars)
    BY DEF Next, Only, vars, atlasState,
           A!atlasVars
  <2> QED
    BY <2>1, AtlasNexts
<1> QED
  BY <1>1, <1>2, PTL DEF Spec

(* Handshake, library and atlas: what spins is a request under way, and    *)
(* nothing spins on a page whose run is over, for any runs, uploads and    *)
(* queries.                                                                *)
THEOREM SpinnersAlwaysTurnForARequest == Spec => []SpinnersTurnForARequest
<1>1. H!HandshakeInv => H!NothingSpinsWhenIdle
  BY RowsDrawn DEF H!HandshakeInv, H!RunsWhereItWaits
<1>2. L!LibraryInv /\ A!AtlasInv => L!SpinnersAreUploads /\ A!SpinnerIsAProjection
  BY DEF L!LibraryInv, L!JobsInv, A!AtlasInv
<1>3. H!HandshakeInv /\ L!LibraryInv /\ A!AtlasInv => SpinnersTurnForARequest
  BY <1>1, <1>2 DEF SpinnersTurnForARequest
<1> QED
  BY <1>3, VisitsKeepHandshakes, VisitsKeepLibraries, VisitsKeepAtlases, PTL
-----------------------------------------------------------------------------
(* What each page keeps, a visit to any page keeps: the invariants that    *)
(* the runs check on a small instance hold for every one.                  *)
THEOREM PagesKeepTheirInvariants == Spec => []PagesInv
<1>1. /\ S!SwarmInv /\ H!HandshakeInv /\ T!TourInv /\ P!TokensInv /\ P!StageInv
      /\ C!ConsoleInv /\ L!LibraryInv /\ K!PaletteInv /\ A!AtlasInv
      => PagesInv
  BY DEF PagesInv
<1> QED
  BY <1>1, VisitsKeepSwarms, VisitsKeepHandshakes, VisitsKeepTours, VisitsKeepPaywalls,
     VisitsKeepConsoles, VisitsKeepLibraries, VisitsKeepPalettes, VisitsKeepAtlases, PTL
-----------------------------------------------------------------------------
\* The types of the pages: discovery and the fleet.
LEMMA SameRoutePageTypes ==
    D!DiscoverTypeOK = RP!DiscoverTypeOK /\ F!FleetTypeOK = RP!FleetTypeOK
<1>1. D!RouteCall = RP!RouteCall /\ F!RouteCall = RP!RouteCall
  BY DEF D!RouteCall, RP!RouteCall, F!RouteCall, D!EventCount, RP!EventCount, F!EventCount,
         D!RouteEvents, RP!RouteEvents, F!RouteEvents
<1>2. D!StageIds = RP!StageIds
  BY DEF D!StageIds, RP!StageIds, D!Stages, RP!Stages
<1> QED
  BY <1>1, <1>2, Zenon DEF D!DiscoverTypeOK, RP!DiscoverTypeOK, F!FleetTypeOK, RP!FleetTypeOK,
                           F!FleetPhases, RP!FleetPhases

LEMMA VisitsTypeRoutePages == Spec => [](D!DiscoverTypeOK /\ F!FleetTypeOK)
<1>1. Spec => []RP!DiscoverTypeOK
  <2>1. /\ Considered \in Nat /\ Shortlisted \in 0..Considered /\ Funds \in Nat
        /\ CallPrice \in Nat /\ MaxRuns \in Nat
    BY DiscoverAssumption
  <2> QED BY <2>1, VisitsShowDiscovery, RP!DiscoveryIsWellTyped, PTL
<1>2. Spec => []RP!FleetTypeOK
  <2>1. MaxFleets \in Nat
    BY BoundsAssumption
  <2> QED BY <2>1, VisitsShowFleets, RP!FleetIsWellTyped, PTL
<1>3. RP!DiscoverTypeOK /\ RP!FleetTypeOK => D!DiscoverTypeOK /\ F!FleetTypeOK
  BY SameRoutePageTypes
<1> QED
  BY <1>1, <1>2, <1>3, PTL
-----------------------------------------------------------------------------
\* The types of the pages: the atlas, polling and the paywall.
LEMMA AtlasTypes ==
    A!AtlasTypeOK /\ [A!AtlasNext]_(A!atlasVars) => A!AtlasTypeOK'
<1> SUFFICES ASSUME A!AtlasTypeOK, [A!AtlasNext]_(A!atlasVars) PROVE A!AtlasTypeOK'
  OBVIOUS
<1> USE DEF A!AtlasTypeOK
<1>1. CASE A!LoadLands \/ A!Publish
  <2>1. \A isPublished, isPlot : A!TimerFor(isPublished, isPlot) \in {"off", "free", "busy"}
    BY DEF A!TimerFor
  <2>2. /\ plot' \in {plot, "ready", "too small", "unreachable"}
        /\ demoTimer' \in {"off", "free", "busy"}
        /\ published' \in {published, ~published}
        /\ UNCHANGED <<queryText, projecting, projection, pending, demoPending, crowded>>
    BY <1>1, <2>1 DEF A!LoadLands, A!Publish
  <2> QED BY <2>2
<1>2. CASE A!DemoTimer BY <1>2 DEF A!DemoTimer
<1>3. CASE A!DemosLands BY <1>3, AtlasAssumption DEF A!DemosLands, A!ProjectionEnds
<1>4. ASSUME NEW q \in Typed, A!ClickProject(q) PROVE A!AtlasTypeOK'
  BY <1>4 DEF A!ClickProject
<1>5. ASSUME NEW q \in Typed, A!VisitorsLands(q) PROVE A!AtlasTypeOK'
  BY <1>5 DEF A!VisitorsLands, A!ProjectionEnds
<1>6. CASE UNCHANGED A!atlasVars BY <1>6 DEF A!atlasVars
<1> QED BY <1>1, <1>2, <1>3, <1>4, <1>5, <1>6 DEF A!AtlasNext

LEMMA VisitsTypeAtlases == Spec => []A!AtlasTypeOK
<1>1. Init => A!AtlasTypeOK
  BY DEF Init, A!AtlasInit, A!AtlasTypeOK
<1>2. [Next]_vars => [A!AtlasNext]_(A!atlasVars)
  BY DEF Next, Only, vars, atlasState, A!atlasVars
<1> QED BY <1>1, <1>2, AtlasTypes, PTL DEF Spec

LEMMA PollTypes ==
    G!PollTypeOK /\ [G!PollNext]_(G!pollVars) => G!PollTypeOK'
<1> SUFFICES ASSUME G!PollTypeOK, [G!PollNext]_(G!pollVars) PROVE G!PollTypeOK'
  OBVIOUS
<1> USE DEF G!PollTypeOK
<1>1. LastFigure \in Nat /\ Main \in G!Sources
  BY BoundsAssumption DEF G!Sources
<1>2. G!NewLoad \in [G!Sources -> G!Figures \cup {G!Off, G!Sent, G!Failed}]
      /\ G!NoLoad \in [G!Sources -> G!Figures \cup {G!Off, G!Sent, G!Failed}]
  BY DEF G!NewLoad, G!NoLoad
<1>3. ASSUME NEW l \in Loads, G!Begin(l), pageLoading' \in {pageLoading, TRUE}
      PROVE  G!PollTypeOK'
  BY <1>2, <1>3 DEF G!Begin
<1>4. ASSUME NEW l \in Loads, NEW s \in G!Sources, G!Answer(l, s) PROVE G!PollTypeOK'
  <2>1. /\ load' = [load EXCEPT ![l] = [load[l] EXCEPT ![s] =
                        IF apiUp THEN reported[s] ELSE G!Failed]]
        /\ UNCHANGED <<figure, pageLoading, pageOffline, reported, apiUp>>
    BY <1>4 DEF G!Answer
  <2> QED BY <2>1
<1>5. ASSUME NEW l \in Loads, G!Land(l) PROVE G!PollTypeOK'
  <2>1. pageOffline' \in BOOLEAN
    BY <1>5 DEF G!Land
  <2>2. figure' \in [G!Sources -> G!Figures \cup {G!Unknown}]
    BY <1>5 DEF G!Land, G!Arrived
  <2>3. load' \in [Loads -> [G!Sources -> G!Figures \cup {G!Off, G!Sent, G!Failed}]]
    BY <1>2, <1>5 DEF G!Land
  <2> QED BY <1>5, <2>1, <2>2, <2>3 DEF G!Land
<1>6. ASSUME NEW s \in G!Sources, G!Grow(s) PROVE G!PollTypeOK'
  BY <1>1, <1>6 DEF G!Grow, G!Figures
<1>7. CASE G!UpOrDown BY <1>7 DEF G!UpOrDown
<1>8. CASE UNCHANGED G!pollVars BY <1>8 DEF G!pollVars
<1> QED
  BY <1>3, <1>4, <1>5, <1>6, <1>7, <1>8
  DEF G!PollNext, G!IntervalTimer, G!ClickRefresh, G!Answers, G!Landing

LEMMA VisitsTypePolling == Spec => []G!PollTypeOK
<1>1. Init => G!PollTypeOK
  <2> SUFFICES ASSUME Init PROVE G!PollTypeOK
    OBVIOUS
  <2>1. LastFigure \in Nat
    BY BoundsAssumption
  <2>2. G!PollInit
    BY DEF Init
  <2>3. figure \in [G!Sources -> G!Figures \cup {G!Unknown}]
    BY <2>2 DEF G!PollInit
  <2>4. load \in [Loads -> [G!Sources -> G!Figures \cup {G!Off, G!Sent, G!Failed}]]
    BY <2>2 DEF G!PollInit, G!NewLoad, G!NoLoad
  <2>5. reported \in [G!Sources -> G!Figures]
    BY <2>1, <2>2 DEF G!PollInit, G!Figures
  <2>6. pageLoading \in BOOLEAN /\ pageOffline \in BOOLEAN /\ apiUp \in BOOLEAN
    BY <2>2 DEF G!PollInit
  <2> QED
    BY <2>3, <2>4, <2>5, <2>6 DEF G!PollTypeOK
<1>2. [Next]_vars => [G!PollNext]_(G!pollVars)
  BY DEF Next, Only, vars, pollingState, G!pollVars
<1> QED BY <1>1, <1>2, PollTypes, PTL DEF Spec

\* A timer is of a purchase that is over.
CloseTimersInv ==
    /\ P!PaywallTypeOK
    /\ closeTimers <= purchases
    /\ purchase # "no" => closeTimers < purchases

LEMMA PaywallTypes ==
    CloseTimersInv /\ [P!PaywallNext]_(P!payVars) => CloseTimersInv'
<1> SUFFICES ASSUME CloseTimersInv, [P!PaywallNext]_(P!payVars) PROVE CloseTimersInv'
  OBVIOUS
<1>0. /\ P!PaywallTypeOK /\ closeTimers <= purchases
      /\ purchase # "no" => closeTimers < purchases
  BY DEF CloseTimersInv
<1>1. MaxPurchases \in Nat
  BY BoundsAssumption
<1>2. P!SessionTypeOK'
  <2> USE <1>0 DEF P!PaywallTypeOK, P!SessionTypeOK
  <2>1. CASE UNCHANGED P!sessionVars
    BY <2>1 DEF P!sessionVars
  <2>2. CASE P!ClickPay
    <3>1. purchases' \in 0..MaxPurchases
      BY <1>1, <2>2 DEF P!ClickPay, P!StartPurchase
    <3> QED BY <2>2, <3>1 DEF P!ClickPay, P!StartPurchase, P!tokenVars, P!balanceVars
  <2>3. CASE P!PayChallenge \/ P!PayServed
    BY <2>3 DEF P!PayChallenge, P!ChallengeRead, P!PayServed, P!ServeVerify, P!tokenVars,
                P!balanceVars
  <2>4. CASE P!PaySettled
    BY <2>4 DEF P!PaySettled, P!PurchaseLands, P!Ages
  <2>5. CASE P!PayFailed
    BY <2>5 DEF P!PayFailed, P!PurchaseFails, P!tokenVars, P!balanceVars
  <2>6. CASE P!MintLands \/ P!MintFails
    <3>1. PICK answer \in {"fresh", "refused"} :
              /\ held' = [c \in Callers |-> IF c \in waiting THEN answer ELSE held[c]]
              /\ token' \in {token, "fresh"} /\ older' = older /\ waiting' = {}
              /\ minting' = FALSE /\ funded' \in BOOLEAN
              /\ UNCHANGED <<ready, offline, reading, purchase, verified, purchases>>
      BY <2>6 DEF P!MintLands, P!MintFails, P!Give, P!balanceVars, P!purchaseVars
    <3>2. held' \in [Callers -> P!Ages \cup {"none", "refused"}]
      BY <3>1 DEF P!Ages
    <3> QED BY <3>1, <3>2 DEF P!Ages
  <2>7. CASE P!TimePasses
    <3>1. token' \in P!Ages \cup {"none"}
      BY <2>7 DEF P!TimePasses, P!Older, P!Ages
    <3>2. held' \in [Callers -> P!Ages \cup {"none", "refused"}]
      BY <2>7 DEF P!TimePasses, P!Older, P!Ages
    <3>3. /\ older' \subseteq Callers
          /\ UNCHANGED <<minting, waiting, funded, ready, offline, reading, purchase,
                         verified, purchases>>
      BY <2>7 DEF P!TimePasses, P!balanceVars, P!purchaseVars
    <3> QED BY <3>1, <3>2, <3>3
  <2>8. CASE P!FirstLoad \/ P!SetCredits \/ P!AskRefresh \/ P!RefreshLands
    <3>1. /\ ready' \in BOOLEAN /\ offline' \in BOOLEAN /\ funded' \in BOOLEAN
          /\ reading' \in BOOLEAN
      BY <2>8 DEF P!FirstLoad, P!SetCredits, P!AskRefresh, P!RefreshLands
    <3>2. UNCHANGED <<token, minting, waiting, held, older, purchase, verified, purchases>>
      BY <2>8 DEF P!FirstLoad, P!SetCredits, P!AskRefresh, P!RefreshLands, P!tokenVars,
                  P!purchaseVars
    <3> QED BY <3>1, <3>2
  <2>9. ASSUME NEW c \in Callers, P!OtherCall(c) PROVE P!SessionTypeOK'
    <3>1. UNCHANGED <<token, funded, ready, offline, reading, purchase, verified, purchases>>
      BY <2>9 DEF P!OtherCall, P!GetToken, P!TakeToken, P!balanceVars, P!purchaseVars
    <3>2. /\ held' \in [Callers -> P!Ages \cup {"none", "refused"}]
          /\ older' \subseteq Callers /\ waiting' \subseteq Callers /\ minting' \in BOOLEAN
      BY <2>9 DEF P!OtherCall, P!GetToken, P!TakeToken, P!LongLived, P!Ages
    <3> QED BY <3>1, <3>2
  <2> QED
    BY <2>1, <2>2, <2>3, <2>4, <2>5, <2>6, <2>7, <2>8, <2>9
    DEF P!PaywallNext, P!SessionStep, P!OpenDialog, P!ClickClose, P!PressEscape, P!ClickTab,
        P!CloseTimer, P!Untouched, P!payVars
<1>3. /\ closeTimers' \in Nat /\ closeTimers' <= purchases'
      /\ purchase' # "no" => closeTimers' < purchases'
  <2>0. closeTimers \in Nat /\ purchases \in Nat
    BY <1>0, <1>1 DEF P!PaywallTypeOK, P!SessionTypeOK
  <2> DEFINE Held == UNCHANGED <<closeTimers, purchase, purchases>>
  <2>1. CASE Held
    BY <1>0, <2>0, <2>1
  <2>2. CASE P!ClickPay
    BY <1>0, <2>0, <2>2 DEF P!ClickPay, P!StartPurchase
  <2>3. CASE P!PayChallenge
    BY <1>0, <2>0, <2>3 DEF P!PayChallenge, P!ChallengeRead
  <2>4. CASE P!PaySettled
    BY <1>0, <2>0, <2>4 DEF P!PaySettled, P!PurchaseLands
  <2>5. CASE P!PayFailed
    BY <1>0, <2>0, <2>5 DEF P!PayFailed, P!PurchaseFails
  <2>6. CASE P!CloseTimer
    BY <1>0, <2>0, <2>6 DEF P!CloseTimer, P!Untouched, P!sessionVars
  <2>7. CASE P!PayServed
    BY <2>1, <2>7 DEF P!PayServed, P!ServeVerify, P!paywallVars
  <2>8. CASE P!SessionStep(Callers) /\ UNCHANGED P!paywallVars
    BY <2>1, <2>8
    DEF P!SessionStep, P!MintLands, P!MintFails, P!TimePasses, P!FirstLoad, P!SetCredits,
        P!AskRefresh, P!RefreshLands, P!OtherCall, P!paywallVars, P!purchaseVars
  <2>9. CASE \/ P!OpenDialog \/ P!ClickClose \/ P!PressEscape \/ P!ClickTab
             \/ UNCHANGED P!payVars
    BY <2>1, <2>9
    DEF P!OpenDialog, P!ClickClose, P!PressEscape, P!ClickTab, P!Untouched, P!payVars,
        P!sessionVars, P!paywallVars
  <2> QED
    BY <2>2, <2>3, <2>4, <2>5, <2>6, <2>7, <2>8, <2>9 DEF P!PaywallNext
<1>4. closeTimers' \in 0..MaxPurchases
  <2>1. purchases' \in Nat /\ purchases' <= MaxPurchases
    BY <1>1, <1>2 DEF P!SessionTypeOK
  <2> QED BY <1>1, <1>3, <2>1
<1>5. /\ dialog' \in BOOLEAN /\ busy' \in BOOLEAN /\ tab' \in {"instant", "onchain"}
      /\ payStage' \in {"none", "challenge", "verifying", "settled"}
  <2>1. CASE UNCHANGED P!paywallVars
    BY <1>0, <2>1 DEF P!PaywallTypeOK, P!paywallVars
  <2>2. CASE P!OpenDialog \/ P!ClickClose \/ P!PressEscape \/ P!ClickTab \/ P!CloseTimer
    BY <1>0, <2>2 DEF P!PaywallTypeOK, P!OpenDialog, P!ClickClose, P!PressEscape, P!ClickTab,
                P!CloseTimer
  <2>3. CASE P!ClickPay \/ P!PayChallenge \/ P!PaySettled \/ P!PayFailed
    BY <1>0, <2>3 DEF P!PaywallTypeOK, P!ClickPay, P!PayChallenge, P!PaySettled, P!PayFailed
  <2> QED
    BY <2>1, <2>2, <2>3 DEF P!PaywallNext, P!PayServed, P!payVars, P!paywallVars
<1>6. P!PaywallTypeOK'
  BY <1>2, <1>4, <1>5 DEF P!PaywallTypeOK
<1> QED BY <1>3, <1>6 DEF CloseTimersInv

LEMMA VisitsTypePaywalls == Spec => []P!PaywallTypeOK
<1>1. P!PaywallInit => CloseTimersInv
  <2> SUFFICES ASSUME P!PaywallInit PROVE CloseTimersInv
    OBVIOUS
  <2>1. MaxPurchases \in Nat
    BY BoundsAssumption
  <2>2. P!SessionInit /\ closeTimers = 0 /\ dialog = FALSE /\ busy = FALSE
        /\ payStage = "none" /\ tab = "instant"
    BY DEF P!PaywallInit
  <2>3. purchases = 0 /\ purchase = "no" /\ purchases \in 0..MaxPurchases
    BY <2>1, <2>2 DEF P!SessionInit
  <2>4. P!SessionTypeOK
    <3>1. token \in P!Ages \cup {"none"} /\ waiting = {} /\ older = {}
      BY <2>2 DEF P!SessionInit, P!Ages
    <3>2. held \in [Callers -> P!Ages \cup {"none", "refused"}]
      BY <2>2 DEF P!SessionInit
    <3>3. /\ minting = FALSE /\ funded = FALSE /\ ready = FALSE /\ offline = FALSE
          /\ reading = FALSE /\ verified = FALSE
      BY <2>2 DEF P!SessionInit
    <3> QED BY <2>3, <3>1, <3>2, <3>3 DEF P!SessionTypeOK
  <2>5. closeTimers \in 0..MaxPurchases
    BY <2>1, <2>2
  <2>6. P!PaywallTypeOK
    BY <2>2, <2>4, <2>5 DEF P!PaywallTypeOK
  <2> QED BY <2>2, <2>3, <2>6 DEF CloseTimersInv
<1>2. CloseTimersInv => P!PaywallTypeOK
  BY DEF CloseTimersInv
<1> QED BY <1>1, <1>2, PaywallTypes, VisitsShowPaywalls, PTL DEF P!PaywallSpec
-----------------------------------------------------------------------------
\* The types of the pages: the swarm.
\* Who was charged had bought, so that no balance is below zero.
ChargedLanesBought ==
    /\ S!SwarmTypeOK
    /\ \A l \in S!Launches, i \in S!Lanes : asked[l][i] = "charged" => <<l, i>> \in bought

LEMMA BalancesInRange ==
    ASSUME ChargedLanesBought, NEW l \in S!Launches, NEW i \in S!Lanes
    PROVE  S!Balance(l, i) \in 0..(Trial + PerPayment)
<1>1. CASE <<l, i>> \in bought
  BY <1>1, SwarmAssumption DEF S!Balance
<1>2. CASE <<l, i>> \notin bought
  <2>1. asked[l][i] # "charged"
    BY <1>2 DEF ChargedLanesBought
  <2> QED BY <1>2, <2>1, SwarmAssumption DEF S!Balance
<1> QED BY <1>1, <1>2

\* What a lane's step may do to the rest of the state.
LEMMA LaneStepTypes ==
    ASSUME S!SwarmInv, ChargedLanesBought, NEW l \in S!Launches, NEW i \in S!Size(l),
           S!LaneStep(l, i)
    PROVE  /\ UNCHANGED <<roster, swarmRunning, swarmAbort, aborted, launch>>
           /\ column' \in [S!Lanes -> 0..(Trial + PerPayment)]
           /\ bought' \subseteq S!Launches \X S!Lanes
           /\ \A k \in S!Launches, j \in S!Lanes :
                  asked'[k][j] = "charged" => <<k, j>> \in bought'
<1>1. i \in S!Lanes /\ <<l, i>> \in S!Launches \X S!Lanes
  BY SwarmSizes
<1>2. column \in [S!Lanes -> 0..(Trial + PerPayment)] /\ bought \subseteq S!Launches \X S!Lanes
  BY DEF ChargedLanesBought, S!SwarmTypeOK
<1>3. S!PatchCredits(l, i) => column' \in [S!Lanes -> 0..(Trial + PerPayment)]
  BY <1>1, <1>2, BalancesInRange DEF S!PatchCredits
<1>4. CASE S!ServeQuestion(l, i)
  <2>1. /\ UNCHANGED <<roster, swarmRunning, swarmAbort, aborted, launch, column, bought>>
        /\ lane[l][i] = "asking"
    BY <1>4 DEF S!ServeQuestion
  <2>2. <<l, i>> \in bought
    BY <1>1, <2>1 DEF S!SwarmInv, S!LanesPayFirst
  <2>3. \A k \in S!Launches, j \in S!Lanes :
            asked'[k][j] = asked[k][j] \/ (k = l /\ j = i)
    BY <1>1, <1>4 DEF S!ServeQuestion, S!SwarmInv
  <2> QED BY <1>2, <2>1, <2>2, <2>3 DEF ChargedLanesBought
<1>5. CASE S!ServeVerify(l, i)
  BY <1>1, <1>2, <1>5 DEF S!ServeVerify, ChargedLanesBought
<1>6. CASE S!GotChallenge(l, i) \/ S!Settled(l, i)
  <2>1. UNCHANGED <<roster, swarmRunning, swarmAbort, aborted, launch, column, bought, asked>>
    BY <1>6 DEF S!GotChallenge, S!Settled, S!Resume
  <2> QED BY <1>2, <2>1 DEF ChargedLanesBought
<1>7. CASE S!Verified(l, i) \/ S!LaneDone(l, i)
  <2>1. /\ UNCHANGED <<roster, swarmRunning, swarmAbort, aborted, launch, bought, asked>>
        /\ column' = column \/ S!PatchCredits(l, i)
    BY <1>7 DEF S!Verified, S!LaneDone, S!Resume
  <2> QED BY <1>2, <1>3, <2>1 DEF ChargedLanesBought
<1>8. CASE S!StreamClosed(l, i) \/ S!LaneFailed(l, i)
  <2>1. UNCHANGED <<roster, swarmRunning, swarmAbort, aborted, launch, column, bought, asked>>
    BY <1>8 DEF S!StreamClosed, S!LaneFailed
  <2> QED BY <1>2, <2>1 DEF ChargedLanesBought
<1> QED BY <1>4, <1>5, <1>6, <1>7, <1>8 DEF S!LaneStep

LEMMA SwarmTypes ==
    S!SwarmInv /\ S!SwarmInv' /\ ChargedLanesBought /\ [S!SwarmNext]_(S!swarmVars)
        => ChargedLanesBought'
<1> SUFFICES ASSUME S!SwarmInv, S!SwarmInv', ChargedLanesBought,
                    [S!SwarmNext]_(S!swarmVars)
             PROVE  ChargedLanesBought'
  OBVIOUS
<1>0. S!MaxLaunches \in Nat /\ S!Launches = 1..S!MaxLaunches
  BY SwarmAssumption DEF S!MaxLaunches, S!Launches
<1> DEFINE LaunchStates == {"off", "warm_up", "lanes", "balances", "over"}
           Columns == [S!Lanes -> 0..(Trial + PerPayment)]
<1>1. /\ swarmRunning \in BOOLEAN /\ swarmAbort \in 0..S!MaxLaunches
      /\ aborted \subseteq S!Launches /\ launch \in [S!Launches -> LaunchStates]
      /\ column \in Columns /\ bought \subseteq S!Launches \X S!Lanes
  BY DEF ChargedLanesBought, S!SwarmTypeOK
<1>2. ASSUME swarmRunning' \in BOOLEAN, swarmAbort' \in 0..S!MaxLaunches,
             aborted' \subseteq S!Launches, launch' \in [S!Launches -> LaunchStates],
             column' \in Columns, bought' \subseteq S!Launches \X S!Lanes,
             \A k \in S!Launches, j \in S!Lanes :
                 asked'[k][j] = "charged" => <<k, j>> \in bought'
      PROVE  ChargedLanesBought'
  BY <1>2 DEF ChargedLanesBought, S!SwarmTypeOK, S!SwarmInv
<1>3. UNCHANGED <<bought, asked>> =>
          /\ bought' \subseteq S!Launches \X S!Lanes
          /\ \A k \in S!Launches, j \in S!Lanes :
                 asked'[k][j] = "charged" => <<k, j>> \in bought'
  BY <1>1 DEF ChargedLanesBought
<1>4. CASE S!ClickStop
  <2>1. /\ UNCHANGED <<bought, asked, swarmAbort, launch, column>> /\ swarmRunning' = FALSE
        /\ aborted' \subseteq S!Launches
    BY <1>0, <1>1, <1>4 DEF S!ClickStop
  <2> QED BY <1>1, <1>2, <1>3, <2>1
<1>5. ASSUME NEW l \in S!Launches, S!ClickLaunch(l) PROVE ChargedLanesBought'
  <2>1. /\ UNCHANGED <<bought, asked, aborted>> /\ swarmRunning' = TRUE /\ swarmAbort' = l
        /\ launch' = [launch EXCEPT ![l] = "warm_up"] /\ column' = [i \in S!Lanes |-> 0]
    BY <1>5 DEF S!ClickLaunch
  <2>2. launch' \in [S!Launches -> LaunchStates]
    BY <1>1, <2>1
  <2>3. column' \in Columns
    BY <2>1, SwarmAssumption
  <2>4. swarmAbort' \in 0..S!MaxLaunches
    BY <1>0, <2>1
  <2> HIDE DEF Columns, LaunchStates
  <2> QED BY <1>1, <1>2, <1>3, <2>1, <2>2, <2>3, <2>4
<1>6. ASSUME NEW l \in S!Launches, S!WarmedUp(l) \/ S!LanesOver(l) PROVE ChargedLanesBought'
  <2>1. /\ UNCHANGED <<bought, asked, aborted, column>>
        /\ swarmRunning' \in {swarmRunning, FALSE} /\ swarmAbort' \in {swarmAbort, 0}
        /\ \E s \in LaunchStates : launch' = [launch EXCEPT ![l] = s]
    BY <1>6 DEF S!WarmedUp, S!LanesOver
  <2>2. launch' \in [S!Launches -> LaunchStates]
    BY <1>1, <2>1
  <2>3. swarmAbort' \in 0..S!MaxLaunches
    BY <1>0, <1>1, <2>1
  <2> HIDE DEF Columns, LaunchStates
  <2> QED BY <1>1, <1>2, <1>3, <2>1, <2>2, <2>3
<1>7. ASSUME NEW l \in S!Launches, NEW heard \in SUBSET S!Size(l), S!Reconcile(l, heard)
      PROVE  ChargedLanesBought'
  <2>1. /\ UNCHANGED <<bought, asked, aborted, swarmRunning, swarmAbort>>
        /\ launch' = [launch EXCEPT ![l] = "over"]
        /\ column' = [i \in S!Lanes |-> IF i \in heard \cap S!Size(roster)
                                        THEN S!Balance(l, i) ELSE column[i]]
    BY <1>7 DEF S!Reconcile
  <2>2. launch' \in [S!Launches -> LaunchStates]
    BY <1>1, <2>1
  <2>3. column' \in Columns
    BY <1>1, <2>1, BalancesInRange
  <2> HIDE DEF Columns, LaunchStates
  <2> QED BY <1>1, <1>2, <1>3, <2>1, <2>2, <2>3
<1>8. ASSUME NEW l \in S!Launches, NEW i \in S!Size(l), S!LaneStep(l, i)
      PROVE  ChargedLanesBought'
  BY <1>1, <1>2, <1>8, LaneStepTypes
<1>9. CASE UNCHANGED S!swarmVars
  BY <1>1, <1>2, <1>3, <1>9 DEF S!swarmVars
<1> QED BY <1>4, <1>5, <1>6, <1>7, <1>8, <1>9 DEF S!SwarmNext

LEMMA VisitsTypeSwarms == Spec => []S!SwarmTypeOK
<1>1. Init => ChargedLanesBought
  <2> SUFFICES ASSUME Init PROVE ChargedLanesBought
    OBVIOUS
  <2>1. S!MaxLaunches \in Nat /\ Trial \in Nat /\ PerPayment \in Nat
    BY SwarmAssumption DEF S!MaxLaunches
  <2>2. S!SwarmInit /\ S!SwarmInv
    BY SwarmInits DEF Init
  <2>3. S!SwarmTypeOK
    <3>1. /\ swarmRunning = FALSE /\ swarmAbort = 0 /\ aborted = {} /\ bought = {}
          /\ launch = [l \in S!Launches |-> "off"] /\ column = [i \in S!Lanes |-> 0]
      BY <2>2 DEF S!SwarmInit
    <3>2. 0 \in 0..(Trial + PerPayment) /\ 0 \in 0..S!MaxLaunches
      BY <2>1
    <3>3. /\ column \in [S!Lanes -> 0..(Trial + PerPayment)]
          /\ launch \in [S!Launches -> {"off", "warm_up", "lanes", "balances", "over"}]
      BY <3>1, <3>2
    <3> QED BY <2>2, <3>1, <3>2, <3>3 DEF S!SwarmTypeOK, S!SwarmInv
  <2>4. \A l \in S!Launches, i \in S!Lanes : asked[l][i] = "no"
    BY <2>2 DEF S!SwarmInit
  <2> QED BY <2>3, <2>4 DEF ChargedLanesBought
<1>2. [Next]_vars => [S!SwarmNext]_(S!swarmVars)
  BY DEF Next, Only, vars, swarmState, S!swarmVars
<1>3. ChargedLanesBought => S!SwarmTypeOK
  BY DEF ChargedLanesBought
<1> QED BY <1>1, <1>2, <1>3, SwarmTypes, VisitsKeepSwarms, PTL DEF Spec
-----------------------------------------------------------------------------
\* The types of the pages: the demonstration.
\* The agents whose free ranking of the shown run is over.  A run has asked for
\* none before its ranking phase, so that each is counted once at most.
Looked == {a \in Cast : shownRun # 0 /\ look[shownRun][a] = "over"}
Unasked(k) == \A a \in Cast : look[k][a] = "off"

LooksCounted ==
    /\ T!TourTypeOK
    /\ \A k \in T!Starts :
           k > used \/ k \in starting \/ (k = run /\ timers.next \in 1..4) => Unasked(k)
    /\ tally.evaluations <= Cardinality(Looked)

LEMMA TourFacts ==
    ASSUME T!TourInv, LooksCounted
    PROVE  /\ MaxStarts \in Nat /\ T!Starts = 1..MaxStarts
           /\ Len(T!Phases) = 9 /\ T!LastTimer = 10 /\ IsFiniteSet(Cast)
           /\ run \in 0..MaxStarts /\ shownRun \in 0..MaxStarts /\ used \in 0..MaxStarts
           /\ starting \subseteq T!Starts
           /\ (run # 0 => shownRun = run /\ run \notin starting /\ run <= used)
           /\ Looked \subseteq Cast /\ IsFiniteSet(Looked) /\ Cardinality(Looked) \in Nat
           /\ tally.evaluations \in Nat
<1>1. MaxStarts \in Nat /\ IsFiniteSet(Cast)
  BY BoundsAssumption, SetsAssumption
<1>2. Len(T!Phases) = 9 /\ T!LastTimer = 10
  BY DEF T!Phases, T!LastTimer
<1>3. /\ T!Starts = 1..MaxStarts /\ run \in 0..MaxStarts /\ shownRun \in 0..MaxStarts
      /\ used \in 0..MaxStarts /\ starting \subseteq T!Starts
      /\ (run # 0 => shownRun = run /\ run \notin starting /\ run <= used)
  BY <1>1 DEF T!TourInv, T!RunsInOrder, T!Starts
<1>4. Looked \subseteq Cast /\ IsFiniteSet(Looked) /\ Cardinality(Looked) \in Nat
  BY <1>1, FS_Subset, FS_CardinalityType DEF Looked
<1> QED BY <1>1, <1>2, <1>3, <1>4 DEF T!TourInv

\* The counters of a run count agents.
LEMMA TallyOfTheCast ==
    T!TourInv /\ tally.evaluations <= Cardinality(Looked) => tally \in T!Tally
<1> SUFFICES ASSUME T!TourInv, tally.evaluations <= Cardinality(Looked)
             PROVE  tally \in T!Tally
  OBVIOUS
<1>1. IsFiniteSet(Cast) /\ T!Cardinality(Cast) = Cardinality(Cast)
  BY SetsAssumption, TourCounts
<1>2. \A s \in SUBSET Cast : Cardinality(s) \in 0..Cardinality(Cast)
  BY <1>1, FS_Subset, FS_CardinalityType
<1>3. Looked \in SUBSET Cast /\ CameTo(2) \in SUBSET Cast /\ CameTo(4) \in SUBSET Cast
  BY DEF Looked, CameTo
<1>4. /\ tally \in [evaluations : Nat, payments : Nat, transactions : Nat]
      /\ tally.payments = Cardinality(CameTo(2)) /\ tally.transactions = Cardinality(CameTo(4))
  BY FiguresCount DEF T!TourInv
<1>5. Cardinality(Looked) \in 0..Cardinality(Cast) /\ Cardinality(Cast) \in Nat
  BY <1>1, <1>2, <1>3, FS_CardinalityType
<1>6. /\ tally.payments \in 0..Cardinality(Cast) /\ tally.transactions \in 0..Cardinality(Cast)
      /\ tally.evaluations \in 0..Cardinality(Cast)
  BY <1>2, <1>3, <1>4, <1>5
<1> QED BY <1>1, <1>4, <1>6 DEF T!Tally

\* A phase begins: what it kicks off for the run that is current.
LEMMA PhaseRings ==
    ASSUME T!TourInv, LooksCounted, T!PhaseTimer
    PROVE  /\ timers.next \in 1..9 /\ run \in T!Starts /\ phaseAt' = timers.next
           /\ timers' = [timers EXCEPT !.next = @ + 1]
           /\ look' = IF timers.next = 4 THEN T!StartAll(look, run, "asked") ELSE look
           /\ warm' = warm \/ warm' = T!StartAll(warm, run, "balance")
           /\ \/ status' = status
              \/ status' = [a \in Cast |-> "evaluating"]
              \/ status' = [a \in Cast |-> IF a \in tokens THEN status[a] ELSE "failed"]
           /\ dispatching' \in {dispatching, Cast} /\ onAtlas' \in {onAtlas, TRUE}
           /\ UNCHANGED <<active, tally, notice, run, shownRun, tokens, abortOf,
                          abortedRuns, starting, used>>
<1>1. timers.next \in 1..9 /\ run # 0 /\ timers.run = run /\ run \in T!Starts
  <2>1. /\ MaxStarts \in Nat /\ T!Starts = 1..MaxStarts /\ Len(T!Phases) = 9
        /\ run \in 0..MaxStarts
    BY TourFacts
  <2>2. timers.next \in 1..9
    BY <2>1 DEF T!PhaseTimer
  <2>3. run # 0 /\ timers.run = run
    BY <2>2 DEF T!TourInv, T!CallsComeWithPayment
  <2> QED BY <2>1, <2>2, <2>3
<1>2. /\ timers' = [timers EXCEPT !.next = @ + 1] /\ phaseAt' = timers.next
      /\ T!PhaseWork(run, T!Phases[timers.next])
      /\ UNCHANGED <<active, tally, notice, run, shownRun, tokens, abortOf,
                     abortedRuns, starting, used>>
  BY <1>1 DEF T!PhaseTimer, T!Current
<1>3. T!Phases[timers.next] = "ranking" <=> timers.next = 4
  BY <1>1 DEF T!Phases
<1>4. onAtlas' \in {onAtlas, TRUE}
  <2>1. onAtlas \in BOOLEAN
    BY DEF LooksCounted, T!TourTypeOK
  <2> QED BY <1>2, <2>1 DEF T!PhaseWork
<1>5. /\ \/ status' = status
         \/ status' = [a \in Cast |-> "evaluating"]
         \/ status' = [a \in Cast |-> IF a \in tokens THEN status[a] ELSE "failed"]
      /\ dispatching' \in {dispatching, Cast}
      /\ warm' = warm \/ warm' = T!StartAll(warm, run, "balance")
  BY <1>2 DEF T!PhaseWork
<1>6. look' = IF timers.next = 4 THEN T!StartAll(look, run, "asked") ELSE look
  BY <1>2, <1>3 DEF T!PhaseWork
<1> QED BY <1>1, <1>2, <1>4, <1>5, <1>6

\* What the network may do to the rows and the tokens.
LEMMA NetworkRows ==
    ASSUME NEW k \in T!Starts, NEW a \in Cast, T!Network(k, a),
           status \in [Cast -> T!Statuses], tokens \subseteq Cast
    PROVE  /\ UNCHANGED <<active, onAtlas, notice, phaseAt, timers, dispatching, abortOf,
                          abortedRuns, run, shownRun, starting, used>>
           /\ status' \in [Cast -> T!Statuses] /\ tokens' \subseteq Cast
<1>1. CASE T!BalanceRead(k, a) \/ T!ChallengeRead(k, a) \/ T!Warmed(k, a) \/ T!WarmFails(k, a)
  BY <1>1 DEF T!BalanceRead, T!ChallengeRead, T!Warmed, T!WarmFails, T!WarmStep, T!screen
<1>2. CASE T!LookLands(k, a) \/ T!LookFails(k, a)
  <2>1. \E s \in {"selected", "evaluating"} :
            status' = status \/ status' = [status EXCEPT ![a] = s]
    BY <1>2 DEF T!LookLands, T!LookFails
  <2>2. UNCHANGED <<active, onAtlas, notice, phaseAt, timers, dispatching, abortOf,
                    abortedRuns, run, shownRun, starting, used, tokens>>
    BY <1>2 DEF T!LookLands, T!LookFails, T!refs
  <2> QED BY <2>1, <2>2 DEF T!Statuses
<1>3. CASE T!DealHandles(k, a) \/ T!DealErrs(k, a) \/ T!DealResolves(k, a)
  <2>1. \E s \in T!Statuses : status' = status \/ status' = [status EXCEPT ![a] = s]
    <3>1. \A event : T!StatusAfter(event) \in T!Statuses
      BY DEF T!StatusAfter, T!Statuses
    <3>2. "failed" \in T!Statuses
      BY DEF T!Statuses
    <3> QED BY <1>3, <3>1, <3>2 DEF T!DealHandles, T!DealErrs, T!DealResolves
  <2>2. UNCHANGED <<active, onAtlas, notice, phaseAt, timers, dispatching, abortOf,
                    abortedRuns, run, shownRun, starting, used, tokens>>
    BY <1>3 DEF T!DealHandles, T!DealErrs, T!DealResolves, T!DealGoes, T!refs
  <2> QED BY <2>1, <2>2
<1> QED BY <1>1, <1>2, <1>3 DEF T!Network

\* The ranges of the timeline, the rows and the refs.
LEMMA TourRanges ==
    ASSUME T!TourInv, LooksCounted, [T!TourNext]_(T!tourVars)
    PROVE  /\ active' \in BOOLEAN /\ onAtlas' \in BOOLEAN /\ notice' \in BOOLEAN
           /\ phaseAt' \in 1..9
           /\ status' \in [Cast -> T!Statuses]
           /\ timers' \in [run : 0..MaxStarts, next : 0..10]
           /\ dispatching' \subseteq Cast /\ tokens' \subseteq Cast
           /\ abortOf' \in 0..MaxStarts /\ abortedRuns' \subseteq T!Starts
<1>0. MaxStarts \in Nat /\ T!Starts = 1..MaxStarts /\ Len(T!Phases) = 9 /\ T!LastTimer = 10
  BY TourFacts
<1>1. /\ active \in BOOLEAN /\ onAtlas \in BOOLEAN /\ notice \in BOOLEAN
      /\ phaseAt \in 1..9 /\ status \in [Cast -> T!Statuses]
      /\ timers \in [run : 0..MaxStarts, next : 0..10]
      /\ dispatching \subseteq Cast /\ tokens \subseteq Cast
      /\ abortOf \in 0..MaxStarts /\ abortedRuns \subseteq T!Starts
  BY <1>0 DEF LooksCounted, T!TourTypeOK
<1> DEFINE Flags == active \in BOOLEAN /\ onAtlas \in BOOLEAN /\ notice \in BOOLEAN
           Rows == phaseAt \in 1..9 /\ status \in [Cast -> T!Statuses]
           Clocks == timers \in [run : 0..MaxStarts, next : 0..10] /\ dispatching \subseteq Cast
           Refs == /\ tokens \subseteq Cast /\ abortOf \in 0..MaxStarts
                   /\ abortedRuns \subseteq T!Starts
<1>2. CASE T!CallStart \/ T!DismissNotice \/ UNCHANGED T!tourVars
  <2>1. /\ UNCHANGED <<active, phaseAt, status, onAtlas, run, shownRun, timers, dispatching,
                       tokens, abortOf, abortedRuns>>
        /\ notice' = notice \/ notice' = FALSE
    BY <1>2 DEF T!CallStart, T!DismissNotice, T!tourVars, T!refs, T!screen
  <2> QED BY <1>1, <2>1
<1>3. ASSUME NEW k \in T!Starts, T!StartRefused(k) PROVE (Flags /\ Rows /\ Clocks /\ Refs)'
  <2>1. /\ UNCHANGED <<active, phaseAt, status, onAtlas, run, shownRun, timers, dispatching,
                       tokens, abortOf, abortedRuns>>
        /\ notice' = TRUE
    BY <1>3 DEF T!StartRefused, T!refs
  <2> QED BY <1>1, <2>1
<1>4. ASSUME NEW k \in T!Starts, T!Begin(k) PROVE (Flags /\ Rows /\ Clocks /\ Refs)'
  <2>1. Flags'
    BY <1>1, <1>4 DEF T!Begin
  <2>2. Rows'
    BY <1>4 DEF T!Begin, T!Statuses
  <2>3. Clocks'
    BY <1>0, <1>4 DEF T!Begin
  <2>4. Refs'
    BY <1>0, <1>1, <1>4 DEF T!Begin
  <2> QED BY <2>1, <2>2, <2>3, <2>4
<1>5. CASE T!CallStop
  <2>1. Flags'
    BY <1>1, <1>5 DEF T!CallStop
  <2>2. Rows'
    BY <1>1, <1>5 DEF T!CallStop
  <2>3. Clocks'
    BY <1>0, <1>5 DEF T!CallStop, T!NoTimers
  <2>4. Refs'
    BY <1>0, <1>1, <1>5 DEF T!CallStop
  <2> QED BY <2>1, <2>2, <2>3, <2>4
<1>6. CASE T!PhaseTimer
  <2>1. Flags'
    BY <1>1, <1>6, PhaseRings
  <2>2. Rows'
    BY <1>1, <1>6, PhaseRings DEF T!Statuses
  <2>3. Clocks'
    <3>1. timers.next \in 1..9 /\ timers' = [timers EXCEPT !.next = @ + 1]
          /\ dispatching' \in {dispatching, Cast}
      BY <1>6, PhaseRings
    <3>2. timers.next + 1 \in 0..10
      BY <3>1
    <3> QED BY <1>1, <3>1, <3>2
  <2>4. Refs'
    BY <1>1, <1>6, PhaseRings
  <2> QED BY <2>1, <2>2, <2>3, <2>4
<1>7. ASSUME NEW a \in Cast, T!DispatchTimer(a) PROVE (Flags /\ Rows /\ Clocks /\ Refs)'
  <2>1. /\ UNCHANGED <<active, phaseAt, onAtlas, notice, timers, tokens, abortOf, abortedRuns>>
        /\ dispatching' \subseteq dispatching
        /\ status' = status \/ status' = [status EXCEPT ![a] = "dispatched"]
    BY <1>7 DEF T!DispatchTimer
  <2>2. Rows'
    BY <1>1, <2>1 DEF T!Statuses
  <2> QED BY <1>1, <2>1, <2>2
<1>8. CASE T!HoldTimer
  <2>1. Clocks'
    BY <1>0, <1>1, <1>8 DEF T!HoldTimer, T!NoTimers
  <2>2. UNCHANGED <<active, phaseAt, status, onAtlas, notice, tokens, abortOf, abortedRuns>>
    BY <1>8 DEF T!HoldTimer, T!screen
  <2> QED BY <1>1, <2>1, <2>2
<1>9. ASSUME NEW k \in T!Starts, NEW a \in Cast, T!Network(k, a)
      PROVE  (Flags /\ Rows /\ Clocks /\ Refs)'
  BY <1>1, <1>9, NetworkRows
<1> QED
  BY <1>2, <1>3, <1>4, <1>5, <1>6, <1>7, <1>8, <1>9 DEF T!TourNext, T!Timers

\* warmUp and evaluate of a run begin for the whole cast and end one by one.
WarmAt == {"off", "balance", "mint", "challenge", "verify", "over"}
LookAt == {"off", "asked", "over"}

LEMMA WorkRanges ==
    ASSUME T!TourInv, LooksCounted, [T!TourNext]_(T!tourVars)
    PROVE  /\ warm' \in [T!Starts -> [Cast -> WarmAt]]
           /\ look' \in [T!Starts -> [Cast -> LookAt]]
<1>1. warm \in [T!Starts -> [Cast -> WarmAt]] /\ look \in [T!Starts -> [Cast -> LookAt]]
  BY DEF LooksCounted, T!TourTypeOK, WarmAt, LookAt
<1>2. CASE UNCHANGED <<warm, look>>
  BY <1>1, <1>2
<1>3. CASE T!PhaseTimer
  <2>1. run \in T!Starts /\ warm' \in {warm, T!StartAll(warm, run, "balance")}
        /\ look' \in {look, T!StartAll(look, run, "asked")}
    BY <1>3, PhaseRings
  <2>2. T!StartAll(warm, run, "balance") \in [T!Starts -> [Cast -> WarmAt]]
    BY <1>1, <2>1 DEF T!StartAll, WarmAt
  <2>3. T!StartAll(look, run, "asked") \in [T!Starts -> [Cast -> LookAt]]
    BY <1>1, <2>1 DEF T!StartAll, LookAt
  <2> QED BY <1>1, <2>1, <2>2, <2>3
<1>4. ASSUME NEW k \in T!Starts, NEW a \in Cast, T!Network(k, a)
      PROVE  /\ warm' \in [T!Starts -> [Cast -> WarmAt]]
             /\ look' \in [T!Starts -> [Cast -> LookAt]]
  <2>1. /\ warm' = warm \/ \E at \in WarmAt : warm' = [warm EXCEPT ![k][a] = at]
        /\ look' = look \/ look' = [look EXCEPT ![k][a] = "over"]
    BY <1>4
    DEF T!Network, T!BalanceRead, T!ChallengeRead, T!Warmed, T!WarmFails, T!WarmStep,
        T!LookLands, T!LookFails, T!DealHandles, T!DealErrs, T!DealResolves, T!DealGoes,
        WarmAt
  <2>2. \A at \in WarmAt : [warm EXCEPT ![k][a] = at] \in [T!Starts -> [Cast -> WarmAt]]
    BY <1>1
  <2>3. [look EXCEPT ![k][a] = "over"] \in [T!Starts -> [Cast -> LookAt]]
    BY <1>1 DEF LookAt
  <2> QED BY <1>1, <2>1, <2>2, <2>3
<1> QED
  BY <1>2, <1>3, <1>4
  DEF T!TourNext, T!Timers, T!CallStart, T!CallStop, T!DismissNotice, T!StartRefused, T!Begin,
      T!DispatchTimer, T!HoldTimer, T!tourVars, T!work

\* What keeps the looks, the counter and the runs that may still ask.
LEMMA CountStays ==
    ASSUME T!TourInv, LooksCounted, UNCHANGED <<look, shownRun, run, timers, used, starting>>,
           tally'.evaluations = tally.evaluations
    PROVE  /\ \A k \in T!Starts :
                  k > used' \/ k \in starting' \/ (k = run' /\ timers'.next \in 1..4)
                      => Unasked(k)'
           /\ tally'.evaluations <= Cardinality(Looked)'
BY DEF LooksCounted, Unasked, Looked

LEMMA LooksGoOn ==
    ASSUME T!TourInv, LooksCounted, [T!TourNext]_(T!tourVars)
    PROVE  /\ \A k \in T!Starts :
                  k > used' \/ k \in starting' \/ (k = run' /\ timers'.next \in 1..4)
                      => Unasked(k)'
           /\ tally'.evaluations <= Cardinality(Looked)'
<1> DEFINE Goal == /\ \A k \in T!Starts :
                          k > used \/ k \in starting \/ (k = run /\ timers.next \in 1..4)
                              => Unasked(k)
                   /\ tally.evaluations <= Cardinality(Looked)
<1>0. MaxStarts \in Nat /\ T!Starts = 1..MaxStarts /\ used \in 0..MaxStarts
  BY TourFacts
<1>1. Goal
  BY DEF LooksCounted
<1>2. UNCHANGED look => \A k : Unasked(k)' <=> Unasked(k)
  BY DEF Unasked
<1>3. UNCHANGED <<look, shownRun>> => Looked' = Looked
  BY DEF Looked
<1>4. CASE T!DismissNotice \/ (\E a \in Cast : T!DispatchTimer(a)) \/ UNCHANGED T!tourVars
  <2>1. UNCHANGED <<look, shownRun, run, timers, used, starting, tally>>
    BY <1>4 DEF T!DismissNotice, T!DispatchTimer, T!tourVars, T!refs, T!work, T!screen
  <2> QED BY <2>1, CountStays
<1>5. CASE T!CallStart
  <2>1. /\ UNCHANGED <<look, shownRun, run, timers, tally>>
        /\ used' = used + 1 /\ starting' = starting \cup {used + 1}
    BY <1>5 DEF T!CallStart, T!refs, T!work
  <2>2. tally'.evaluations <= Cardinality(Looked)'
    BY <1>1, <1>3, <2>1
  <2> QED BY <1>0, <1>1, <1>2, <2>1, <2>2
<1>6. ASSUME NEW k \in T!Starts, T!StartRefused(k) PROVE Goal'
  <2>1. /\ UNCHANGED <<look, shownRun, run, timers, tally, used>>
        /\ starting' \subseteq starting
    BY <1>6 DEF T!StartRefused, T!refs, T!work
  <2> QED BY <1>1, <1>2, <1>3, <2>1
<1>7. ASSUME NEW k \in T!Starts, T!Begin(k) PROVE Goal'
  <2>1. /\ UNCHANGED <<look, used>> /\ k \in starting /\ starting' \subseteq starting
        /\ run' = k /\ tally'.evaluations = 0
    BY <1>7 DEF T!Begin, T!work, T!NoTally
  <2>2. IsFiniteSet(Looked') /\ 0 <= Cardinality(Looked')
    BY SetsAssumption, FS_Subset, FS_CardinalityType DEF Looked
  <2> QED BY <1>1, <1>2, <2>1, <2>2
<1>8. CASE T!CallStop \/ T!HoldTimer
  <2>1. UNCHANGED <<look, shownRun, tally, used, starting>> /\ timers'.next = 0
    BY <1>8 DEF T!CallStop, T!HoldTimer, T!screen, T!work, T!NoTimers
  <2> QED BY <1>1, <1>2, <1>3, <2>1
<1>9. CASE T!PhaseTimer
  <2>1. /\ timers.next \in 1..9 /\ run \in T!Starts
        /\ timers' = [timers EXCEPT !.next = @ + 1]
        /\ look' = IF timers.next = 4 THEN T!StartAll(look, run, "asked") ELSE look
        /\ UNCHANGED <<tally, run, shownRun, starting, used>>
    BY <1>9, PhaseRings
  <2>2. timers'.next = timers.next + 1
    BY <2>1 DEF T!TourInv
  <2>3. shownRun = run /\ run \notin starting /\ run <= used
    BY <1>0, <2>1, TourFacts
  <2>4. CASE timers.next # 4
    BY <1>1, <1>2, <1>3, <2>1, <2>2, <2>4
  <2>5. CASE timers.next = 4
    <3>1. \A l \in T!Starts \ {run} : look'[l] = look[l]
      BY <2>1, <2>5 DEF T!StartAll, LooksCounted, T!TourTypeOK
    <3>2. \A l \in T!Starts \ {run} : Unasked(l)' <=> Unasked(l)
      BY <3>1 DEF Unasked
    <3>3. tally.evaluations <= 0
      <4>1. Looked = {}
        BY <1>1, <2>1, <2>3, <2>5 DEF Unasked, Looked
      <4> QED BY <1>1, <4>1, FS_EmptySet
    <3>4. IsFiniteSet(Looked') /\ Cardinality(Looked') \in Nat
      BY SetsAssumption, FS_Subset, FS_CardinalityType DEF Looked
    <3>5. tally.evaluations \in Nat
      BY TourFacts
    <3>6. tally'.evaluations <= Cardinality(Looked')
      BY <2>1, <3>3, <3>4, <3>5
    <3>7. \A l \in T!Starts :
              l > used' \/ l \in starting' \/ (l = run' /\ timers'.next \in 1..4) => l # run
      BY <1>0, <2>1, <2>2, <2>3, <2>5
    <3> QED BY <1>1, <2>1, <3>2, <3>6, <3>7
  <2> QED BY <2>4, <2>5
<1>10. ASSUME NEW k \in T!Starts, NEW a \in Cast, T!Network(k, a) PROVE Goal'
  <2>1. UNCHANGED <<run, shownRun, timers, used, starting>>
    BY <1>10, NetworkRows DEF LooksCounted, T!TourTypeOK
  <2>2. tally \in [evaluations : Nat, payments : Nat, transactions : Nat]
    BY DEF T!TourInv
  <2>3. CASE ~(T!LookLands(k, a) \/ T!LookFails(k, a))
    <3>1. UNCHANGED look
      BY <1>10, <2>3
      DEF T!Network, T!BalanceRead, T!ChallengeRead, T!Warmed, T!WarmFails, T!WarmStep,
          T!DealHandles, T!DealErrs, T!DealResolves, T!DealGoes
    <3>2. \/ tally' = tally
          \/ tally' = [tally EXCEPT !.payments = @ + 1]
          \/ tally' = [tally EXCEPT !.transactions = @ + 1]
      BY <1>10, <2>3
      DEF T!Network, T!BalanceRead, T!ChallengeRead, T!Warmed, T!WarmFails, T!WarmStep,
          T!DealHandles, T!DealErrs, T!DealResolves, T!DealGoes, T!TallyAfter, T!screen
    <3>3. tally'.evaluations = tally.evaluations
      BY <2>2, <3>2
    <3> QED BY <2>1, <3>1, <3>3, CountStays
  <2>4. CASE T!LookLands(k, a) \/ T!LookFails(k, a)
    <3>1. look[k][a] = "asked" /\ look' = [look EXCEPT ![k][a] = "over"]
      BY <2>4 DEF T!LookLands, T!LookFails
    <3>2. \A l \in T!Starts : Unasked(l) => Unasked(l)'
      BY <3>1 DEF Unasked, LooksCounted, T!TourTypeOK
    <3>3. tally'.evaluations <= Cardinality(Looked')
      <4>1. CASE k = run
        <5>1. shownRun = k /\ k # 0
          BY <1>0, <4>1, TourFacts
        <5>2. Looked' = Looked \cup {a} /\ a \notin Looked
          BY <2>1, <3>1, <5>1 DEF Looked, LooksCounted, T!TourTypeOK
        <5>3. Cardinality(Looked') = Cardinality(Looked) + 1
          BY <5>2, TourFacts, FS_AddElement
        <5>4. tally'.evaluations \in {tally.evaluations, tally.evaluations + 1}
          BY <2>2, <2>4 DEF T!LookLands, T!LookFails
        <5> QED BY <1>1, <5>3, <5>4, TourFacts
      <4>2. CASE k # run
        <5>1. tally' = tally
          BY <2>4, <4>2 DEF T!LookLands, T!LookFails, T!Current
        <5>2. Looked \subseteq Looked'
          BY <2>1, <3>1 DEF Looked, LooksCounted, T!TourTypeOK
        <5>3. IsFiniteSet(Looked') /\ Cardinality(Looked') \in Nat
          BY SetsAssumption, FS_Subset, FS_CardinalityType DEF Looked
        <5>4. Cardinality(Looked) <= Cardinality(Looked')
          BY <5>2, <5>3, FS_Subset
        <5> QED BY <1>1, <5>1, <5>3, <5>4, TourFacts
      <4> QED BY <4>1, <4>2
    <3> QED BY <1>1, <2>1, <3>2, <3>3
  <2> QED BY <2>3, <2>4
<1> QED
  BY <1>4, <1>5, <1>6, <1>7, <1>8, <1>9, <1>10 DEF T!TourNext, T!Timers

LEMMA TourTypes ==
    T!TourInv /\ T!TourInv' /\ LooksCounted /\ [T!TourNext]_(T!tourVars) => LooksCounted'
<1> SUFFICES ASSUME T!TourInv, T!TourInv', LooksCounted, [T!TourNext]_(T!tourVars)
             PROVE  LooksCounted'
  OBVIOUS
<1>1. /\ \A k \in T!Starts :
             k > used' \/ k \in starting' \/ (k = run' /\ timers'.next \in 1..4) => Unasked(k)'
      /\ tally'.evaluations <= Cardinality(Looked)'
  BY LooksGoOn
<1>2. (tally \in T!Tally)'
  <2>1. (tally.evaluations <= Cardinality(Looked))'
    BY <1>1
  <2>2. T!TourInv'
    OBVIOUS
  <2> QED BY <2>1, <2>2, TallyOfTheCast, PTL
<1>3. T!TourTypeOK'
  <2>1. MaxStarts \in Nat /\ T!Starts = 1..MaxStarts /\ Len(T!Phases) = 9 /\ T!LastTimer = 10
    BY TourFacts
  <2>2. /\ run' \in 0..MaxStarts /\ shownRun' \in 0..MaxStarts /\ used' \in 0..MaxStarts
        /\ starting' \subseteq T!Starts
        /\ deal' \in [T!Starts -> [Cast -> T!Deal]]
    BY <2>1 DEF T!TourInv, T!RunsInOrder
  <2> QED
    BY <1>2, <2>1, <2>2, TourRanges, WorkRanges DEF T!TourTypeOK, WarmAt, LookAt
<1> QED BY <1>1, <1>3 DEF LooksCounted

LEMMA VisitsTypeTours == Spec => []T!TourTypeOK
<1>1. Init => LooksCounted
  <2> SUFFICES ASSUME Init PROVE LooksCounted
    OBVIOUS
  <2>0. T!TourInit /\ T!TourInv
    BY TourInits DEF Init
  <2>1. MaxStarts \in Nat /\ Len(T!Phases) = 9 /\ IsFiniteSet(Cast)
    BY BoundsAssumption, SetsAssumption DEF T!Phases
  <2>2. Looked = {} /\ tally.evaluations = 0 /\ \A k \in T!Starts : Unasked(k)
    BY <2>0 DEF T!TourInit, T!NoTally, Looked, Unasked
  <2>3. tally.evaluations <= Cardinality(Looked)
    BY <2>2, FS_EmptySet
  <2>4. tally \in T!Tally
    BY <2>0, <2>3, TallyOfTheCast
  <2>5. /\ status \in [Cast -> T!Statuses]
        /\ timers \in [run : 0..MaxStarts, next : 0..T!LastTimer]
    BY <2>0, <2>1 DEF T!TourInit, T!Statuses, T!NoTimers, T!LastTimer
  <2>6. /\ warm \in [T!Starts -> [Cast -> WarmAt]] /\ look \in [T!Starts -> [Cast -> LookAt]]
        /\ deal \in [T!Starts -> [Cast -> T!Deal]]
    BY <2>0 DEF T!TourInit, T!TourInv, WarmAt, LookAt
  <2>7. /\ active \in BOOLEAN /\ onAtlas \in BOOLEAN /\ notice \in BOOLEAN
        /\ phaseAt \in 1..Len(T!Phases)
    <3>1. /\ active = FALSE /\ onAtlas = FALSE /\ notice = FALSE
          /\ phaseAt = 1
      BY <2>0 DEF T!TourInit
    <3>2. phaseAt \in 1..Len(T!Phases)
      BY <2>1, <3>1
    <3> QED BY <3>1, <3>2
  <2>8. /\ run \in 0..MaxStarts /\ shownRun \in 0..MaxStarts /\ abortOf \in 0..MaxStarts
        /\ used \in 0..MaxStarts /\ dispatching \subseteq Cast /\ tokens \subseteq Cast
        /\ abortedRuns \subseteq T!Starts /\ starting \subseteq T!Starts
    BY <2>0, <2>1 DEF T!TourInit
  <2>9. T!TourTypeOK
    BY <2>4, <2>5, <2>6, <2>7, <2>8 DEF T!TourTypeOK, WarmAt, LookAt
  <2> QED BY <2>2, <2>3, <2>9 DEF LooksCounted
<1>2. [Next]_vars => [T!TourNext]_(T!tourVars)
  BY DEF Next, Only, vars, tourState, T!tourVars, T!screen, T!refs, T!work
<1>3. LooksCounted => T!TourTypeOK
  BY DEF LooksCounted
<1> QED BY <1>1, <1>2, <1>3, TourTypes, VisitsKeepTours, PTL DEF Spec
-----------------------------------------------------------------------------
\* The types of the pages: the console.
\* The server has made at most one conversation for each question, and none yet
\* for the question it has not filed.
OneConversationEach ==
    /\ made <= Earlier + stream.turn
    /\ stream.turn \in C!Turns /\ files[stream.turn] = C!NoConversation
           => made < Earlier + stream.turn

ConsoleRanges == C!ConsoleTypeOK /\ OneConversationEach

LEMMA ConsoleFacts ==
    ASSUME C!ConsoleInv, ConsoleRanges
    PROVE  /\ MaxTurns \in Nat /\ Earlier \in Nat /\ C!Turns = 1..MaxTurns
           /\ C!Conversations = 1..(Earlier + MaxTurns)
           /\ C!AnyConversation = 0..(Earlier + MaxTurns)
           /\ restored \in C!AnyConversation /\ conversationId \in C!AnyConversation
           /\ seeded \in BOOLEAN /\ stream.turn \in 0..MaxTurns
           /\ stream.continues \in C!AnyConversation /\ stream.seen \in 0..4
           /\ opening \subseteq C!Conversations /\ kept \subseteq C!Conversations
           /\ deleting \subseteq [conversation : C!Conversations, shown : C!AnyConversation]
           /\ made \in 0..(Earlier + MaxTurns)
           /\ files \in [C!Turns -> C!AnyConversation] /\ begun \subseteq C!Turns
<1>1. /\ MaxTurns \in Nat /\ Earlier \in Nat /\ C!Turns = 1..MaxTurns
      /\ C!Conversations = 1..(Earlier + MaxTurns)
      /\ C!AnyConversation = 0..(Earlier + MaxTurns)
  BY BoundsAssumption DEF C!Turns, C!Conversations, C!AnyConversation, C!NoConversation
<1>2. made \in C!Conversations \cup {0}
  BY DEF ConsoleRanges, C!ConsoleTypeOK
<1>3. made \in 0..(Earlier + MaxTurns)
  BY <1>1, <1>2
<1>4. /\ stream.turn \in 0..MaxTurns
      /\ stream.continues \in C!AnyConversation /\ stream.seen \in 0..4
  BY DEF ConsoleRanges, C!ConsoleTypeOK
<1>5. /\ restored \in C!AnyConversation /\ conversationId \in C!AnyConversation
      /\ seeded \in BOOLEAN
      /\ opening \subseteq C!Conversations /\ kept \subseteq C!Conversations
      /\ deleting \subseteq [conversation : C!Conversations, shown : C!AnyConversation]
      /\ files \in [C!Turns -> C!AnyConversation] /\ begun \subseteq C!Turns
  BY DEF ConsoleRanges, C!ConsoleTypeOK
<1> QED BY <1>1, <1>3, <1>4, <1>5

\* A question is asked, goes on or ends.
LEMMA QuestionRanges ==
    ASSUME C!ConsoleInv, ConsoleRanges, [C!ConsoleNext]_(C!consoleVars)
    PROVE  /\ stream' \in [turn : 0..MaxTurns, continues : C!AnyConversation, seen : 0..4,
                           at : {"idle", "token", "sent", "open", "told"}]
           /\ stream'.turn \in {stream.turn, stream.turn + 1}
           /\ stream'.turn # stream.turn
                  => UNCHANGED <<made, files>> /\ stream'.turn \in C!Turns
<1> DEFINE Streams == [turn : 0..MaxTurns, continues : C!AnyConversation, seen : 0..4,
                       at : {"idle", "token", "sent", "open", "told"}]
<1>1. stream \in Streams
  BY DEF ConsoleRanges, C!ConsoleTypeOK
<1>2. ASSUME NEW t \in C!Turns, C!Ask(t)
      PROVE  stream' \in Streams /\ stream'.turn = t /\ t = stream.turn + 1
             /\ UNCHANGED <<made, files>>
  <2>1. /\ stream' = [turn |-> t, continues |-> conversationId, seen |-> 0, at |-> "token"]
        /\ t = stream.turn + 1 /\ UNCHANGED <<made, files>>
    BY <1>2 DEF C!Ask, C!serverVars
  <2>2. t \in 0..MaxTurns /\ conversationId \in C!AnyConversation
    BY ConsoleFacts
  <2> QED BY <2>1, <2>2
<1>3. CASE UNCHANGED stream
  BY <1>1, <1>3
<1>4. CASE C!SendQuestion \/ C!NoToken \/ C!OnError \/ C!StreamOver
  <2>1. PICK at \in {"idle", "sent", "told"} : stream' = [stream EXCEPT !.at = at]
    BY <1>4 DEF C!SendQuestion, C!NoToken, C!OnError, C!StreamOver, C!Finish, C!StreamGoes
  <2> QED BY <1>1, <2>1
<1>5. ASSUME NEW e, C!Dispatch(e) PROVE stream' \in Streams /\ stream'.turn = stream.turn
  <2>1. stream.seen < 4 /\ stream' = [stream EXCEPT !.seen = @ + 1, !.at = "open"]
    BY <1>5 DEF C!Dispatch, C!ConsoleEvents
  <2>2. stream.seen + 1 \in 0..4
    BY <1>1, <2>1
  <2> QED BY <1>1, <2>1, <2>2
<1>6. CASE C!ClickStop \/ C!ClickNew \/ C!ServeQuestion
  BY <1>3, <1>6 DEF C!ClickStop, C!ClickNew, C!StartNew, C!ServeQuestion, C!callVars
<1>7. ASSUME NEW id \in C!Conversations,
             C!ClickOpen(id) \/ C!OpenLands(id) \/ C!OpenFails(id) \/ C!ClickDelete(id)
      PROVE  UNCHANGED stream
  BY <1>7 DEF C!ClickOpen, C!OpenLands, C!OpenFails, C!ClickDelete
<1>8. ASSUME NEW d \in deleting, C!ServeDelete(d) \/ C!DeleteLands(d) \/ C!DeleteFails(d)
      PROVE  UNCHANGED stream
  BY <1>8 DEF C!ServeDelete, C!DeleteLands, C!DeleteFails, C!StartNew, C!callVars
<1>9. ASSUME NEW t \in C!Turns, C!AskFromPage(t) \/ C!AskSeeded(t)
      PROVE  C!Ask(t) \/ UNCHANGED stream
  BY <1>9 DEF C!AskFromPage, C!AskSeeded, C!callVars
<1>10. CASE C!OnStart \/ C!OnRetrieval \/ C!OnToken \/ C!OnDone
  BY <1>5, <1>10 DEF C!OnStart, C!OnRetrieval, C!OnToken, C!OnDone
<1>11. CASE UNCHANGED C!consoleVars
  BY <1>3, <1>11 DEF C!consoleVars, C!callVars
<1> QED
  BY <1>2, <1>3, <1>4, <1>6, <1>7, <1>8, <1>9, <1>10, <1>11 DEF C!ConsoleNext, C!Answering

\* The server's side of it.
LEMMA FilesInRange ==
    ASSUME C!ConsoleInv, ConsoleRanges, [C!ConsoleNext]_(C!consoleVars)
    PROVE  /\ kept' \subseteq C!Conversations /\ made' \in C!Conversations \cup {0}
           /\ files' \in [C!Turns -> C!AnyConversation] /\ OneConversationEach'
<1>0. /\ MaxTurns \in Nat /\ Earlier \in Nat /\ C!Turns = 1..MaxTurns
      /\ C!Conversations = 1..(Earlier + MaxTurns)
      /\ C!AnyConversation = 0..(Earlier + MaxTurns)
      /\ stream.turn \in 0..MaxTurns /\ stream.continues \in C!AnyConversation
      /\ kept \subseteq C!Conversations /\ made \in 0..(Earlier + MaxTurns)
      /\ files \in [C!Turns -> C!AnyConversation]
  BY ConsoleFacts
<1>1. OneConversationEach
  BY DEF ConsoleRanges
<1>2. stream'.turn \in {stream.turn, stream.turn + 1}
      /\ (stream'.turn # stream.turn => UNCHANGED <<made, files>> /\ stream'.turn \in C!Turns)
  BY QuestionRanges
<1>3. CASE UNCHANGED <<made, files>> /\ kept' \subseteq kept
  <2>1. CASE stream'.turn = stream.turn
    BY <1>0, <1>1, <1>3, <2>1 DEF OneConversationEach
  <2>2. CASE stream'.turn = stream.turn + 1
    BY <1>0, <1>1, <1>3, <2>2 DEF OneConversationEach
  <2> QED BY <1>2, <2>1, <2>2
<1>4. CASE C!ServeQuestion
  <2>1. /\ stream' = stream /\ stream.turn \in C!Turns /\ files[stream.turn] = 0
    BY <1>4 DEF C!ServeQuestion, C!callVars, C!ConsoleInv, C!QuestionsFiled, C!NoConversation
  <2>2. made + 1 <= Earlier + stream.turn
    BY <1>0, <1>1, <2>1 DEF OneConversationEach, C!NoConversation
  <2>3. CASE stream.continues \in kept
    <3>1. files' = [files EXCEPT ![stream.turn] = stream.continues] /\ UNCHANGED <<kept, made>>
      BY <1>4, <2>3 DEF C!ServeQuestion
    <3>2. files'[stream.turn] # 0
      BY <1>0, <2>1, <2>3, <3>1
    <3> QED BY <1>0, <1>1, <2>1, <3>1, <3>2 DEF OneConversationEach, C!NoConversation
  <2>4. CASE stream.continues \notin kept
    <3>1. /\ made' = made + 1 /\ kept' = kept \cup {made + 1}
          /\ files' = [files EXCEPT ![stream.turn] = made + 1]
      BY <1>4, <2>4 DEF C!ServeQuestion
    <3>2. made + 1 \in C!Conversations /\ made + 1 # 0
      BY <1>0, <2>1, <2>2
    <3>3. files'[stream.turn] = made + 1 /\ files' \in [C!Turns -> C!AnyConversation]
      BY <1>0, <2>1, <3>1, <3>2
    <3>4. OneConversationEach'
      BY <2>1, <2>2, <3>1, <3>2, <3>3 DEF OneConversationEach, C!NoConversation
    <3> QED BY <1>0, <3>1, <3>2, <3>3, <3>4
  <2> QED BY <2>3, <2>4
<1>5. ASSUME NEW d \in deleting, C!ServeDelete(d) \/ C!DeleteLands(d) \/ C!DeleteFails(d)
      PROVE  UNCHANGED <<made, files>> /\ kept' \subseteq kept
  BY <1>5 DEF C!ServeDelete, C!DeleteLands, C!DeleteFails, C!StartNew, C!serverVars
<1>6. ASSUME NEW id \in C!Conversations,
             C!ClickOpen(id) \/ C!OpenLands(id) \/ C!OpenFails(id) \/ C!ClickDelete(id)
      PROVE  UNCHANGED <<made, files, kept>>
  BY <1>6 DEF C!ClickOpen, C!OpenLands, C!OpenFails, C!ClickDelete, C!serverVars
<1>7. ASSUME NEW t \in C!Turns, C!AskFromPage(t) \/ C!AskSeeded(t)
      PROVE  UNCHANGED <<made, files, kept>>
  BY <1>7 DEF C!AskFromPage, C!AskSeeded, C!Ask, C!serverVars
<1>8. CASE C!ClickStop \/ C!ClickNew \/ UNCHANGED C!consoleVars
  BY <1>3, <1>8 DEF C!ClickStop, C!ClickNew, C!StartNew, C!consoleVars, C!serverVars
<1>9. CASE C!SendQuestion \/ C!NoToken \/ C!OnError \/ C!StreamOver
  BY <1>3, <1>9 DEF C!SendQuestion, C!NoToken, C!OnError, C!StreamOver, C!serverVars
<1>10. CASE C!OnStart \/ C!OnRetrieval \/ C!OnToken \/ C!OnDone
  BY <1>3, <1>10
  DEF C!OnStart, C!OnRetrieval, C!OnToken, C!OnDone, C!Dispatch, C!serverVars
<1> QED
  BY <1>3, <1>4, <1>5, <1>6, <1>7, <1>8, <1>9, <1>10 DEF C!ConsoleNext, C!Answering

\* The screen's side of it.
LEMMA ScreenRanges ==
    ASSUME C!ConsoleInv, ConsoleRanges, [C!ConsoleNext]_(C!consoleVars)
    PROVE  /\ restored' \in C!AnyConversation /\ conversationId' \in C!AnyConversation
           /\ seeded' \in BOOLEAN /\ opening' \subseteq C!Conversations
           /\ deleting' \subseteq [conversation : C!Conversations, shown : C!AnyConversation]
           /\ begun' \subseteq C!Turns
<1> DEFINE Same == UNCHANGED <<restored, conversationId, seeded, opening, deleting, begun>>
           Deletions == [conversation : C!Conversations, shown : C!AnyConversation]
<1>0. /\ C!Conversations \subseteq C!AnyConversation /\ 0 \in C!AnyConversation
      /\ restored \in C!AnyConversation /\ conversationId \in C!AnyConversation
      /\ seeded \in BOOLEAN /\ opening \subseteq C!Conversations
      /\ deleting \subseteq Deletions
      /\ begun \subseteq C!Turns
      /\ files \in [C!Turns -> C!AnyConversation]
  BY ConsoleFacts DEF C!AnyConversation, C!NoConversation
<1>1. CASE Same
  BY <1>0, <1>1
<1>2. CASE C!ServeQuestion \/ C!ClickStop \/ UNCHANGED C!consoleVars
  BY <1>1, <1>2
  DEF C!ServeQuestion, C!ClickStop, C!consoleVars, C!pageVars, C!callVars, C!historyVars
<1>3. CASE C!SendQuestion \/ C!NoToken \/ C!OnError \/ C!StreamOver
  BY <1>1, <1>3 DEF C!SendQuestion, C!NoToken, C!OnError, C!StreamOver, C!historyVars
<1>4. CASE C!OnRetrieval \/ C!OnToken \/ C!OnDone
  BY <1>1, <1>4 DEF C!OnRetrieval, C!OnToken, C!OnDone, C!Dispatch
<1>5. CASE C!OnStart
  <2>1. stream.turn \in C!Turns
    BY <1>5 DEF C!OnStart, C!Dispatch, C!ConsoleInv, C!QuestionsFiled
  <2>2. /\ conversationId' = files[stream.turn] /\ begun' = begun \cup {stream.turn}
        /\ UNCHANGED <<restored, seeded, opening, deleting>>
    BY <1>5 DEF C!OnStart, C!Dispatch
  <2> QED BY <1>0, <2>1, <2>2
<1>6. ASSUME NEW t \in C!Turns, C!AskFromPage(t) \/ C!AskSeeded(t)
      PROVE  /\ seeded' \in BOOLEAN
             /\ UNCHANGED <<restored, conversationId, opening, deleting, begun>>
  BY <1>0, <1>6 DEF C!AskFromPage, C!AskSeeded, C!Ask, C!callVars, C!historyVars
<1>7. ASSUME C!StartNew
      PROVE  restored' = 0 /\ conversationId' = 0 /\ UNCHANGED <<seeded, begun>>
  BY <1>7 DEF C!StartNew, C!NoConversation
<1>8. CASE C!ClickNew
  BY <1>0, <1>7, <1>8 DEF C!ClickNew
<1>9. ASSUME NEW id \in C!Conversations,
             C!ClickOpen(id) \/ C!OpenLands(id) \/ C!OpenFails(id)
      PROVE  /\ restored' \in {restored, id} /\ conversationId' \in {conversationId, id}
             /\ opening' \subseteq C!Conversations /\ UNCHANGED <<seeded, deleting, begun>>
  BY <1>0, <1>9 DEF C!ClickOpen, C!OpenLands, C!OpenFails, C!pageVars, C!historyVars
<1>10. ASSUME NEW id \in C!Conversations, C!ClickDelete(id)
       PROVE  /\ deleting' \subseteq Deletions
              /\ UNCHANGED <<restored, conversationId, seeded, opening, begun>>
  <2>1. deleting' = deleting \cup {[conversation |-> id, shown |-> conversationId]}
    BY <1>10 DEF C!ClickDelete
  <2>2. [conversation |-> id, shown |-> conversationId] \in Deletions
    BY <1>0
  <2>3. UNCHANGED <<restored, conversationId, seeded, opening, begun>>
    BY <1>10 DEF C!ClickDelete, C!pageVars, C!historyVars
  <2> QED BY <1>0, <2>1, <2>2, <2>3
<1>11. ASSUME NEW d \in deleting, C!ServeDelete(d) \/ C!DeleteLands(d) \/ C!DeleteFails(d)
       PROVE  /\ deleting' \subseteq deleting /\ UNCHANGED <<seeded, opening, begun>>
              /\ restored' \in {restored, 0} /\ conversationId' \in {conversationId, 0}
  <2>1. CASE C!DeleteLands(d)
    <3>1. deleting' \subseteq deleting /\ opening' = opening
      BY <2>1 DEF C!DeleteLands
    <3>2. C!StartNew \/ UNCHANGED <<restored, conversationId, seeded, begun>>
      BY <2>1 DEF C!DeleteLands, C!pageVars, C!historyVars
    <3> QED BY <1>7, <3>1, <3>2
  <2>2. CASE C!ServeDelete(d) \/ C!DeleteFails(d)
    BY <2>2 DEF C!ServeDelete, C!DeleteFails, C!pageVars, C!callVars, C!historyVars
  <2> QED BY <1>11, <2>1, <2>2
<1>12. CASE \E id \in C!Conversations :
               C!ClickOpen(id) \/ C!OpenLands(id) \/ C!OpenFails(id) \/ C!ClickDelete(id)
  BY <1>0, <1>9, <1>10, <1>12
<1>13. CASE \E d \in deleting : C!ServeDelete(d) \/ C!DeleteLands(d) \/ C!DeleteFails(d)
  BY <1>0, <1>11, <1>13
<1>14. CASE \E t \in C!Turns : C!AskFromPage(t) \/ C!AskSeeded(t)
  BY <1>0, <1>6, <1>14
<1> QED
  BY <1>2, <1>3, <1>4, <1>5, <1>8, <1>12, <1>13, <1>14 DEF C!ConsoleNext, C!Answering

LEMMA ConsoleTypeSteps ==
    C!ConsoleInv /\ C!ConsoleInv' /\ ConsoleRanges /\ [C!ConsoleNext]_(C!consoleVars)
        => ConsoleRanges'
<1> SUFFICES ASSUME C!ConsoleInv, C!ConsoleInv', ConsoleRanges,
                    [C!ConsoleNext]_(C!consoleVars)
             PROVE  ConsoleRanges'
  OBVIOUS
<1>1. /\ turnStatus' \in [C!Turns -> {"absent", "retrieving", "generating", "done", "error"}]
      /\ {streaming', askStopped', crossed'} \subseteq BOOLEAN
  BY DEF C!ConsoleInv
<1>2. C!ConsoleTypeOK'
  BY <1>1, QuestionRanges, FilesInRange, ScreenRanges DEF C!ConsoleTypeOK
<1> QED BY <1>2, FilesInRange DEF ConsoleRanges

LEMMA VisitsTypeConsoles == Spec => []C!ConsoleTypeOK
<1>1. Init => ConsoleRanges
  <2> SUFFICES ASSUME Init PROVE ConsoleRanges
    OBVIOUS
  <2>0. C!ConsoleInit /\ C!ConsoleInv /\ MaxTurns \in Nat /\ Earlier \in Nat
    BY ConsoleInits, BoundsAssumption DEF Init
  <2>1. /\ restored = 0 /\ conversationId = 0 /\ made = Earlier /\ kept = 1..Earlier
        /\ stream = [turn |-> 0, continues |-> 0, seen |-> 0, at |-> "idle"]
        /\ opening = {} /\ deleting = {} /\ begun = {}
        /\ files = [t \in C!Turns |-> 0] /\ seeded \in BOOLEAN
    BY <2>0 DEF C!ConsoleInit, C!NoStream, C!NoConversation
  <2>2. /\ C!Turns = 1..MaxTurns /\ C!Conversations = 1..(Earlier + MaxTurns)
        /\ C!AnyConversation = 0..(Earlier + MaxTurns)
    BY <2>0 DEF C!Turns, C!Conversations, C!AnyConversation, C!NoConversation
  <2>3. /\ stream \in [turn : 0..MaxTurns, continues : C!AnyConversation, seen : 0..4,
                       at : {"idle", "token", "sent", "open", "told"}]
        /\ {restored, conversationId} \subseteq C!AnyConversation
    BY <2>0, <2>1, <2>2
  <2>4. kept \subseteq C!Conversations /\ made \in C!Conversations \cup {0}
    BY <2>0, <2>1, <2>2
  <2>5. files \in [C!Turns -> C!AnyConversation]
    BY <2>0, <2>1, <2>2
  <2>6. OneConversationEach
    BY <2>0, <2>1, <2>2 DEF OneConversationEach
  <2>7. /\ turnStatus \in [C!Turns -> {"absent", "retrieving", "generating", "done", "error"}]
        /\ {streaming, seeded, askStopped, crossed} \subseteq BOOLEAN
    BY <2>0, <2>1 DEF C!ConsoleInv
  <2>8. C!ConsoleTypeOK
    BY <2>1, <2>3, <2>4, <2>5, <2>7 DEF C!ConsoleTypeOK
  <2> QED BY <2>6, <2>8 DEF ConsoleRanges
<1>2. [Next]_vars => [C!ConsoleNext]_(C!consoleVars)
  BY DEF Next, Only, vars, consoleState, C!consoleVars, C!pageVars, C!callVars, C!serverVars,
         C!historyVars
<1>3. ConsoleRanges => C!ConsoleTypeOK
  BY DEF ConsoleRanges
<1> QED BY <1>1, <1>2, <1>3, ConsoleTypeSteps, VisitsKeepConsoles, PTL DEF Spec
-----------------------------------------------------------------------------
\* The types of the pages: the palette.
\* The cursor goes round the rows there are, and no text lists more than the
\* empty one and a full search.
LEMMA CursorGoesRound == \A c \in Nat, n \in Nat : n > 0 => c % n \in 0..(n - 1)
OBVIOUS

LEMMA RowsInRange ==
    ASSUME K!PaletteTypeOK
    PROVE  /\ MaxHits \in Nat /\ K!MaxItems \in Nat
           /\ K!TotalItems \in 0..K!MaxItems /\ cursor \in 0..K!MaxItems
<1>1. MaxHits \in Nat
  BY BoundsAssumption
<1>2. \A q \in K!Queries :
          /\ "" \in K!Queries /\ CommandsFor[q] \in Nat /\ CommandsFor[""] \in Nat
          /\ CommandsFor[q] <= CommandsFor[""]
  BY PaletteAssumption DEF K!Queries
<1>3. text \in K!Queries /\ cursor \in 0..K!MaxItems /\ found.hits \in 0..MaxHits
  BY DEF K!PaletteTypeOK
<1>4. K!MaxItems = CommandsFor[""] + MaxHits /\ K!TotalItems = CommandsFor[text] + found.hits
  BY DEF K!MaxItems, K!TotalItems, K!Filtered
<1>5. /\ CommandsFor[text] \in Nat /\ CommandsFor[""] \in Nat
      /\ CommandsFor[text] <= CommandsFor[""]
  BY <1>2, <1>3
<1> DEFINE most == CommandsFor[""]
           those == CommandsFor[text]
           hits == found.hits
<1>6. /\ most \in Nat /\ those \in Nat /\ those <= most /\ hits \in 0..MaxHits
      /\ K!MaxItems = most + MaxHits /\ K!TotalItems = those + hits
  BY <1>3, <1>4, <1>5
<1> HIDE DEF most, those, hits
<1>7. K!MaxItems \in Nat /\ K!TotalItems \in 0..K!MaxItems
  BY <1>1, <1>6
<1> QED BY <1>1, <1>3, <1>7

LEMMA PaletteTypes == K!PaletteTypeOK /\ [K!PaletteNext]_(K!paletteVars) => K!PaletteTypeOK'
<1> SUFFICES ASSUME K!PaletteTypeOK, [K!PaletteNext]_(K!paletteVars) PROVE K!PaletteTypeOK'
  OBVIOUS
<1>0. /\ MaxHits \in Nat /\ K!MaxItems \in Nat /\ K!TotalItems \in 0..K!MaxItems
      /\ cursor \in 0..K!MaxItems /\ "" \in K!Queries
      /\ found \in [of : K!Queries, hits : 0..MaxHits] /\ text \in K!Queries
      /\ current \in K!Queries \cup {K!NoQuery} /\ outdated \subseteq K!Queries
      /\ {paletteOpen, searching, debounce} \subseteq BOOLEAN
  <2>1. "" \in K!Queries
    BY PaletteAssumption DEF K!Queries
  <2> QED BY <2>1, RowsInRange DEF K!PaletteTypeOK
<1>1. K!NothingFound \in [of : K!Queries, hits : 0..MaxHits] /\ 0 \in 0..K!MaxItems
  <2>1. "" \in K!Queries
    BY <1>0
  <2>2. 0 \in 0..MaxHits /\ 0 \in 0..K!MaxItems
    BY RowsInRange
  <2> QED BY <2>1, <2>2 DEF K!NothingFound
<1>2. ASSUME NEW q \in K!Queries, K!TextBecomes(q)
      PROVE  /\ text' \in K!Queries /\ debounce' \in BOOLEAN
             /\ current' \in K!Queries \cup {K!NoQuery} /\ outdated' \subseteq K!Queries
  <2>1. /\ text' = q /\ debounce' \in {debounce, TRUE} /\ current' \in {current, K!NoQuery}
        /\ outdated' \subseteq outdated \cup ({current} \ {K!NoQuery})
    BY <1>2 DEF K!TextBecomes
  <2> QED BY <1>0, <2>1
<1>3. CASE K!Closed
  <2>1. /\ paletteOpen' = FALSE /\ found' = K!NothingFound /\ cursor' = 0
        /\ searching' = searching /\ K!TextBecomes("")
    BY <1>3 DEF K!Closed
  <2>2. {paletteOpen', searching', debounce'} \subseteq BOOLEAN
    BY <1>0, <1>2, <2>1
  <2>3. cursor' \in 0..K!MaxItems
    BY <1>1, <2>1
  <2> QED BY <1>0, <1>1, <1>2, <2>1, <2>2, <2>3 DEF K!PaletteTypeOK
<1>4. CASE K!PressShortcut
  <2>1. /\ paletteOpen' \in BOOLEAN
        /\ UNCHANGED <<text, found, searching, cursor, debounce, current, outdated>>
    BY <1>4 DEF K!PressShortcut
  <2> QED BY <2>1 DEF K!PaletteTypeOK
<1>5. ASSUME NEW q \in K!Queries, K!Type(q) PROVE K!PaletteTypeOK'
  <2>1. cursor' = 0 /\ UNCHANGED <<paletteOpen, found, searching>> /\ K!TextBecomes(q)
    BY <1>5 DEF K!Type
  <2>2. cursor' \in 0..K!MaxItems
    BY <1>1, <2>1
  <2>3. {paletteOpen', searching', debounce'} \subseteq BOOLEAN
    BY <1>0, <1>2, <2>1
  <2> QED BY <1>0, <1>2, <2>1, <2>2, <2>3 DEF K!PaletteTypeOK
<1>6. CASE K!MoveCursor
  <2> DEFINE n == K!TotalItems
  <2>1. n \in Nat /\ n <= K!MaxItems /\ cursor \in Nat /\ K!MaxItems \in Nat
    BY RowsInRange
  <2>2. /\ UNCHANGED <<paletteOpen, text, found, searching, debounce, current, outdated>>
        /\ \/ n > 0 /\ cursor' \in {(cursor + 1) % n, (cursor + n - 1) % n}
           \/ cursor' = 0
           \/ cursor' \in 0..K!MaxItems
    BY <1>6 DEF K!MoveCursor
  <2> HIDE DEF n
  <2>3. cursor' \in 0..K!MaxItems
    <3>1. CASE n > 0 /\ cursor' \in {(cursor + 1) % n, (cursor + n - 1) % n}
      <4>1. cursor + 1 \in Nat /\ cursor + n - 1 \in Nat
        BY <2>1, <3>1
      <4>2. (cursor + 1) % n \in 0..(n - 1) /\ (cursor + n - 1) % n \in 0..(n - 1)
        BY <2>1, <3>1, <4>1, CursorGoesRound
      <4> QED BY <2>1, <3>1, <4>2
    <3> QED BY <2>1, <2>2, <3>1
  <2> QED BY <2>2, <2>3 DEF K!PaletteTypeOK
<1>7. CASE K!DebounceTimer
  <2>1. /\ debounce' = FALSE /\ searching' \in BOOLEAN /\ found' \in {found, K!NothingFound}
        /\ current' \in {current, text} /\ UNCHANGED <<paletteOpen, text, cursor, outdated>>
    BY <1>7 DEF K!DebounceTimer
  <2> QED BY <1>0, <1>1, <2>1 DEF K!PaletteTypeOK
<1>8. CASE K!SearchLands
  <2>1. PICK n \in 0..MaxHits : found' = [of |-> current, hits |-> n]
    BY <1>8 DEF K!SearchLands
  <2>2. /\ current \in K!Queries /\ searching' = FALSE /\ current' = K!NoQuery
        /\ UNCHANGED <<paletteOpen, text, cursor, debounce, outdated>>
    BY <1>0, <1>8 DEF K!SearchLands
  <2> QED BY <1>0, <2>1, <2>2 DEF K!PaletteTypeOK
<1>9. ASSUME NEW q \in K!Queries, K!OutdatedLands(q) PROVE K!PaletteTypeOK'
  <2>1. /\ outdated' \subseteq outdated
        /\ UNCHANGED <<paletteOpen, text, found, searching, cursor, debounce, current>>
    BY <1>9 DEF K!OutdatedLands
  <2> QED BY <2>1 DEF K!PaletteTypeOK
<1>10. CASE UNCHANGED K!paletteVars
  BY <1>10 DEF K!paletteVars, K!PaletteTypeOK
<1> QED
  BY <1>3, <1>4, <1>5, <1>6, <1>7, <1>8, <1>9, <1>10
  DEF K!PaletteNext, K!PressEscape, K!PressEnter, K!Activate

LEMMA VisitsTypePalettes == Spec => []K!PaletteTypeOK
<1>1. Init => K!PaletteTypeOK
  <2> SUFFICES ASSUME Init PROVE K!PaletteTypeOK
    OBVIOUS
  <2>1. /\ MaxHits \in Nat /\ "" \in K!Queries /\ CommandsFor[""] \in Nat
    BY BoundsAssumption, PaletteAssumption DEF K!Queries
  <2>2. K!PaletteInit
    BY DEF Init
  <2>3. cursor = 0 /\ found = [of |-> "", hits |-> 0] /\ text = "" /\ outdated = {}
        /\ current = K!NoQuery /\ {paletteOpen, searching, debounce} \subseteq BOOLEAN
    BY <2>2 DEF K!PaletteInit, K!NothingFound
  <2>4. cursor \in 0..K!MaxItems
    <3> DEFINE most == CommandsFor[""]
    <3>1. most \in Nat /\ MaxHits \in Nat /\ K!MaxItems = most + MaxHits /\ cursor = 0
      BY <2>1, <2>3 DEF K!MaxItems
    <3> HIDE DEF most
    <3> QED BY <3>1
  <2>5. found \in [of : K!Queries, hits : 0..MaxHits]
    <3>1. 0 \in 0..MaxHits
      <4>1. MaxHits \in Nat
        BY <2>1
      <4> QED BY <4>1
    <3> QED BY <2>1, <2>3, <3>1
  <2> QED BY <2>1, <2>3, <2>4, <2>5 DEF K!PaletteTypeOK
<1>2. [Next]_vars => [K!PaletteNext]_(K!paletteVars)
  BY DEF Next, Only, vars, paletteState, K!paletteVars
<1> QED BY <1>1, <1>2, PaletteTypes, PTL DEF Spec
-----------------------------------------------------------------------------
\* The types of the pages: the library.
\* A batch whose loop is at a file is at one of its files; each batch that is over
\* has set one timer; and the count may fall behind the list by the documents
\* that are neither in it nor being deleted.
EndedBatches == {b \in L!BatchIds : ingest[b].at = "over"}
OffTheList == {d \in L!Documents \ listing : removal[d] = "no"}

AtItsFile ==
    \A b \in L!BatchIds :
        ingest[b].at \in {"sent", "stored", "list"} => ingest[b].file \in DOMAIN Batches[b]

CountInRange ==
    /\ totalShown <= Cardinality(listing)
    /\ Cardinality(listing) - Cardinality(OffTheList) <= totalShown

LEMMA LibraryFinite ==
    /\ IsFiniteSet(L!Documents) /\ Cardinality(L!Documents) \in Nat
    /\ \A s \in SUBSET L!Documents :
           IsFiniteSet(s) /\ Cardinality(s) \in 0..Cardinality(L!Documents)
    /\ Len(Batches) \in Nat /\ L!BatchIds = 1..Len(Batches)
    /\ \A s \in SUBSET L!BatchIds : IsFiniteSet(s) /\ Cardinality(s) \in 0..Len(Batches)
    /\ \A b \in L!BatchIds : Batches[b] \in Seq(L!Documents) /\ Len(Batches[b]) \in Nat
                             /\ DOMAIN Batches[b] = 1..Len(Batches[b])
<1>1. IsFiniteSet(L!Documents) /\ Cardinality(L!Documents) \in Nat
  BY LibraryAssumption, FS_CardinalityType DEF L!Documents
<1>2. ASSUME NEW s \in SUBSET L!Documents
      PROVE  IsFiniteSet(s) /\ Cardinality(s) \in 0..Cardinality(L!Documents)
  <2>1. /\ IsFiniteSet(s) /\ Cardinality(s) <= Cardinality(L!Documents)
        /\ Cardinality(s) \in Nat
    BY <1>1, FS_Subset, FS_CardinalityType
  <2> QED BY <1>1, <2>1
<1>3. Batches \in Seq(Seq(L!Documents))
  BY LibraryAssumption DEF L!Documents
<1>4. Len(Batches) \in Nat /\ L!BatchIds = 1..Len(Batches)
  BY <1>3 DEF L!BatchIds
<1>5. IsFiniteSet(1..Len(Batches)) /\ Cardinality(1..Len(Batches)) = Len(Batches)
  <2>1. Cardinality(1..Len(Batches)) = IF 1 > Len(Batches) THEN 0 ELSE Len(Batches) - 1 + 1
    BY <1>4, FS_Interval
  <2> QED BY <1>4, <2>1, FS_Interval
<1>6. ASSUME NEW s \in SUBSET L!BatchIds
      PROVE  IsFiniteSet(s) /\ Cardinality(s) \in 0..Len(Batches)
  <2>1. IsFiniteSet(s) /\ Cardinality(s) <= Len(Batches) /\ Cardinality(s) \in Nat
    BY <1>4, <1>5, FS_Subset, FS_CardinalityType
  <2> QED BY <1>4, <2>1
<1>7. ASSUME NEW b \in L!BatchIds
      PROVE  Batches[b] \in Seq(L!Documents) /\ Len(Batches[b]) \in Nat
             /\ DOMAIN Batches[b] = 1..Len(Batches[b])
  BY <1>3, <1>7 DEF L!BatchIds
<1> QED BY <1>1, <1>2, <1>4, <1>6, <1>7

\* The next file of a batch is one of its files, or the end.
LEMMA NextOfTheBatch ==
    ASSUME NEW b \in L!BatchIds, NEW n \in 1..(Len(Batches[b]) + 2)
    PROVE  L!NextFile(b, n) \in 1..(Len(Batches[b]) + 1)
<1> DEFINE fits == {k \in n..Len(Batches[b]) : Batches[b][k] \notin TooLarge}
<1>1. Len(Batches[b]) \in Nat /\ n \in Nat
  BY LibraryFinite
<1>2. CASE fits = {}
  <2>1. L!NextFile(b, n) = Len(Batches[b]) + 1
    BY <1>2 DEF L!NextFile
  <2> QED BY <1>1, <2>1
<1>3. CASE fits # {}
  <2>1. IsFiniteSet(fits) /\ fits \subseteq Int
    <3>1. IsFiniteSet(n..Len(Batches[b]))
      BY <1>1, FS_Interval
    <3>2. fits \subseteq n..Len(Batches[b]) /\ fits \subseteq Int
      OBVIOUS
    <3> QED BY <3>1, <3>2, FS_Subset
  <2>2. PICK k \in fits : \A j \in fits : k <= j
    BY <1>3, <2>1, LeastMember
  <2>3. L!NextFile(b, n) \in fits
    BY <1>3, <2>2 DEF L!NextFile
  <2> QED BY <1>1, <2>3
<1> QED BY <1>2, <1>3

\* Where the loops, their lines and their timers are.
LoopRanges ==
    /\ job \in [L!BatchIds -> [L!FileSlots -> L!JobStates]]
    /\ ingest \in [L!BatchIds -> [at : {"off", "sent", "stored", "list", "over"}, file : Int]]
    /\ \A b \in L!BatchIds : ingest[b].file \in 0..(Len(Batches[b]) + 1)
    /\ AtItsFile
    /\ readTimers \in Nat /\ readTimers <= Cardinality(EndedBatches)

\* A loop goes on to its next file, or sets its timer.
LEMMA LoopGoesOn ==
    ASSUME L!JobsInv', LoopRanges, NEW b \in L!BatchIds, NEW n, NEW lines,
           n = ingest[b].file + 1 \/ n = 1,
           ingest[b].at # "over", L!GoOn(b, n, lines)
    PROVE  LoopRanges'
<1> DEFINE goal == L!NextFile(b, n)
           ended == goal > Len(Batches[b])
           at == IF ended THEN "over" ELSE "sent"
<1>1. Len(Batches[b]) \in Nat /\ n \in 1..(Len(Batches[b]) + 2)
  <2>1. ingest[b].file \in 0..(Len(Batches[b]) + 1) /\ Len(Batches[b]) \in Nat
    BY LibraryFinite DEF LoopRanges
  <2> QED BY <2>1
<1>2. goal \in 1..(Len(Batches[b]) + 1)
  BY <1>1, NextOfTheBatch
<1>3. /\ ingest' = [ingest EXCEPT ![b] = [at |-> at, file |-> goal]]
      /\ readTimers' = IF ended THEN readTimers + 1 ELSE readTimers
  BY DEF L!GoOn
<1>4. ~ended => goal \in DOMAIN Batches[b]
  BY <1>1, <1>2, LibraryFinite
<1>5. /\ job' \in [L!BatchIds -> [L!FileSlots -> L!JobStates]]
      /\ ingest' \in [L!BatchIds -> [at : {"off", "sent", "stored", "list", "over"}, file : Int]]
  BY DEF L!JobsInv
<1> HIDE DEF goal, ended
<1>6. \A c \in L!BatchIds : ingest'[c] = IF c = b THEN [at |-> at, file |-> goal] ELSE ingest[c]
  BY <1>3 DEF LoopRanges
<1>7. \A c \in L!BatchIds : ingest'[c].file \in 0..(Len(Batches[c]) + 1)
  <2>1. goal \in 0..(Len(Batches[b]) + 1)
    BY <1>1, <1>2
  <2> QED BY <1>6, <2>1 DEF LoopRanges
<1>8. AtItsFile'
  BY <1>4, <1>6 DEF LoopRanges, AtItsFile
<1>9. readTimers' \in Nat /\ readTimers' <= Cardinality(EndedBatches')
  <2>1. EndedBatches \in SUBSET L!BatchIds /\ b \notin EndedBatches
    BY DEF EndedBatches
  <2>2. IsFiniteSet(EndedBatches) /\ Cardinality(EndedBatches) \in Nat
    BY <2>1, LibraryFinite
  <2>3. CASE ended
    <3>1. EndedBatches' = EndedBatches \cup {b}
      BY <1>6, <2>3 DEF EndedBatches
    <3>2. Cardinality(EndedBatches') = Cardinality(EndedBatches) + 1
      BY <2>1, <2>2, <3>1, FS_AddElement
    <3>3. readTimers \in Nat /\ readTimers <= Cardinality(EndedBatches)
      BY DEF LoopRanges
    <3> QED BY <1>3, <2>2, <2>3, <3>2, <3>3
  <2>4. CASE ~ended
    <3>1. EndedBatches' = EndedBatches
      BY <1>6, <2>1, <2>4 DEF EndedBatches
    <3> QED BY <1>3, <2>4, <3>1 DEF LoopRanges
  <2> QED BY <2>3, <2>4
<1> QED BY <1>5, <1>7, <1>8, <1>9 DEF LoopRanges

\* A step within a file.
LEMMA LoopWithinFile ==
    ASSUME L!JobsInv', LoopRanges, NEW b \in L!BatchIds, NEW s \in {"stored", "list"},
           ingest[b].at \in {"sent", "stored"}, ingest' = [ingest EXCEPT ![b].at = s],
           UNCHANGED readTimers
    PROVE  LoopRanges'
<1>1. /\ job' \in [L!BatchIds -> [L!FileSlots -> L!JobStates]]
      /\ ingest' \in [L!BatchIds -> [at : {"off", "sent", "stored", "list", "over"}, file : Int]]
  BY DEF L!JobsInv
<1>2. \A c \in L!BatchIds : /\ ingest'[c].file = ingest[c].file
                            /\ ingest'[c].at = IF c = b THEN s ELSE ingest[c].at
  BY DEF LoopRanges
<1>3. EndedBatches' = EndedBatches
  BY <1>2 DEF EndedBatches
<1>4. AtItsFile'
  BY <1>2 DEF LoopRanges, AtItsFile
<1>5. \A c \in L!BatchIds : ingest'[c].file \in 0..(Len(Batches[c]) + 1)
  BY <1>2 DEF LoopRanges
<1>6. readTimers' \in Nat /\ readTimers' <= Cardinality(EndedBatches')
  BY <1>3 DEF LoopRanges
<1> QED BY <1>1, <1>4, <1>5, <1>6 DEF LoopRanges

LEMMA LoopsGoOn ==
    ASSUME L!JobsInv', LoopRanges, [L!LibraryNext]_(L!libraryVars)
    PROVE  LoopRanges'
<1>1. ASSUME UNCHANGED <<job, ingest, readTimers>> PROVE LoopRanges'
  BY <1>1 DEF LoopRanges, AtItsFile, EndedBatches
<1>2. CASE \/ L!FirstLoadEnds \/ \E o \in L!Loaders : L!ServeList(o)
           \/ \E d \in L!Documents : \/ L!ClickDelete(d) \/ L!ServeDelete(d)
                                    \/ L!DeleteLands(d) \/ L!DeleteFails(d)
           \/ UNCHANGED L!libraryVars
  BY <1>1, <1>2
  DEF L!FirstLoadEnds, L!ServeList, L!ClickDelete, L!ServeDelete, L!DeleteLands,
      L!DeleteFails, L!libraryVars
<1>3. ASSUME NEW b \in L!BatchIds, L!DropFiles(b) PROVE LoopRanges'
  <2>1. ingest[b].at # "over" /\ L!GoOn(b, 1, job[b])
    BY <1>3 DEF L!DropFiles
  <2> QED BY <2>1, LoopGoesOn
<1>4. ASSUME NEW b \in L!BatchIds, L!ServeUpload(b) \/ L!UploadLands(b) PROVE LoopRanges'
  <2>1. \E s \in {"stored", "list"} :
            /\ ingest[b].at \in {"sent", "stored"} /\ ingest' = [ingest EXCEPT ![b].at = s]
            /\ UNCHANGED readTimers
    BY <1>4 DEF L!ServeUpload, L!UploadLands
  <2> QED BY <2>1, LoopWithinFile
<1>5. ASSUME NEW b \in L!BatchIds, L!UploadFails(b) \/ L!BatchLoadEnds(b) PROVE LoopRanges'
  <2>1. \E lines : ingest[b].at # "over" /\ L!GoOn(b, ingest[b].file + 1, lines)
    BY <1>5 DEF L!UploadFails, L!BatchLoadEnds
  <2> QED BY <2>1, LoopGoesOn
<1>6. CASE L!ReadTimer
  <2>1. readTimers > 0 /\ readTimers' = readTimers - 1 /\ UNCHANGED ingest
    BY <1>6 DEF L!ReadTimer
  <2>2. EndedBatches' = EndedBatches /\ AtItsFile'
    BY <2>1 DEF EndedBatches, LoopRanges, AtItsFile
  <2>3. EndedBatches \in SUBSET L!BatchIds
    BY DEF EndedBatches
  <2>4. Cardinality(EndedBatches) \in Nat
    BY <2>3, LibraryFinite
  <2>5. readTimers \in Nat /\ readTimers <= Cardinality(EndedBatches)
    BY DEF LoopRanges
  <2>6. readTimers' \in Nat /\ readTimers' <= Cardinality(EndedBatches')
    BY <2>1, <2>2, <2>4, <2>5
  <2> QED BY <2>1, <2>2, <2>6 DEF LoopRanges, L!JobsInv
<1> QED BY <1>2, <1>3, <1>4, <1>5, <1>6 DEF L!LibraryNext

\* What the calls for the list may be.
Listings ==
    {[at |-> a, docs |-> {}] : a \in {"no", "asked"}}
        \cup [at : {"read"}, docs : SUBSET L!Documents]

\* What the page and the server hold, and how far the count may be off the list.
HoldingRanges ==
    /\ listing \subseteq L!Documents /\ indexed \subseteq L!Documents
    /\ totalShown \in Int
    /\ removal \in [L!Documents -> {"no", "asked", "gone"}]
    /\ \A o \in L!Loaders : list[o] \in Listings
    /\ CountInRange

LEMMA CountSize ==
    ASSUME HoldingRanges
    PROVE  totalShown \in -Cardinality(L!Documents)..Cardinality(L!Documents)
<1> DEFINE most == Cardinality(L!Documents)
           there == Cardinality(listing)
           off == Cardinality(OffTheList)
<1>1. listing \in SUBSET L!Documents /\ OffTheList \in SUBSET L!Documents
  BY DEF HoldingRanges, OffTheList
<1>2. most \in Nat /\ there \in 0..most /\ off \in 0..most
  BY <1>1, LibraryFinite
<1>3. totalShown \in Int /\ totalShown <= there /\ there - off <= totalShown
  BY DEF HoldingRanges, CountInRange
<1> HIDE DEF most, there, off
<1>4. totalShown \in -most..most
  BY <1>2, <1>3
<1> QED BY <1>4 DEF most

LEMMA ListsMove ==
    ASSUME L!ViewInv, HoldingRanges, NEW o \in L!Loaders, NEW r \in Listings,
           list' = [list EXCEPT ![o] = r]
    PROVE  \A p \in L!Loaders : list'[p] \in Listings
<1>1. DOMAIN list = L!Loaders
  BY DEF L!ViewInv
<1>2. \A p \in L!Loaders : list'[p] = IF p = o THEN r ELSE list[p]
  BY <1>1
<1> QED BY <1>2 DEF HoldingRanges

\* `load` ends: the count is that of the list, or neither changes.
LEMMA LoadKeepsRanges ==
    ASSUME L!ViewInv, HoldingRanges, NEW o \in L!Loaders, L!LoadEnds(o),
           list' = [list EXCEPT ![o] = L!NotAsked], UNCHANGED <<indexed, removal>>
    PROVE  HoldingRanges'
<1>1. \A p \in L!Loaders : list'[p] \in Listings
  <2>1. L!NotAsked \in Listings
    BY DEF L!NotAsked, Listings
  <2> QED BY <2>1, ListsMove
<1>2. CASE L!ListFails(o)
  <2>1. UNCHANGED <<listing, totalShown>>
    BY <1>2 DEF L!ListFails
  <2> QED BY <1>1, <2>1 DEF HoldingRanges, CountInRange, OffTheList
<1>3. CASE L!ListShown(o)
  <2>1. listing' = list[o].docs /\ totalShown' = Cardinality(list[o].docs)
    BY <1>3, LibraryCounts DEF L!ListShown
  <2>2. listing' \in SUBSET L!Documents
    <3>1. list[o] \in Listings
      BY DEF HoldingRanges
    <3> QED BY <2>1, <3>1 DEF Listings
  <2>3. OffTheList' \in SUBSET L!Documents
    BY DEF OffTheList
  <2>4. Cardinality(listing') \in Nat /\ Cardinality(OffTheList') \in Nat
    BY <2>2, <2>3, LibraryFinite
  <2>5. totalShown' \in Int /\ CountInRange'
    BY <2>1, <2>4 DEF CountInRange
  <2> QED BY <1>1, <2>2, <2>5 DEF HoldingRanges
<1> QED BY <1>2, <1>3 DEF L!LoadEnds

\* A deletion is over: one off the count, and off the list if it was there.
LEMMA DeletionKeepsCount ==
    ASSUME HoldingRanges, NEW d \in L!Documents, removal[d] # "no",
           removal' = [removal EXCEPT ![d] = "no"],
           \/ listing' = listing \ {d} /\ totalShown' = totalShown - 1
           \/ UNCHANGED <<listing, totalShown>>
    PROVE  totalShown' \in Int /\ listing' \subseteq L!Documents /\ CountInRange'
<1>1. /\ listing \in SUBSET L!Documents /\ OffTheList \in SUBSET L!Documents
      /\ totalShown \in Int
  BY DEF HoldingRanges, OffTheList
<1>2. /\ IsFiniteSet(listing) /\ IsFiniteSet(OffTheList)
      /\ Cardinality(listing) \in Nat /\ Cardinality(OffTheList) \in Nat
  BY <1>1, LibraryFinite
<1>3. /\ totalShown <= Cardinality(listing)
      /\ Cardinality(listing) - Cardinality(OffTheList) <= totalShown
  BY DEF HoldingRanges, CountInRange
<1>4. d \notin OffTheList
  BY DEF OffTheList
<1>5. \A c \in L!Documents : removal'[c] = IF c = d THEN "no" ELSE removal[c]
  BY DEF HoldingRanges
<1>6. CASE listing' = listing \ {d} /\ totalShown' = totalShown - 1
  <2>1. OffTheList' = OffTheList \cup {d}
    BY <1>5, <1>6 DEF OffTheList
  <2>2. Cardinality(OffTheList') = Cardinality(OffTheList) + 1
    BY <1>2, <1>4, <2>1, FS_AddElement
  <2>3. CASE d \in listing
    <3>1. Cardinality(listing') = Cardinality(listing) - 1
      BY <1>2, <1>6, <2>3, FS_RemoveElement
    <3> QED BY <1>1, <1>2, <1>3, <1>6, <2>2, <3>1 DEF CountInRange
  <2>4. CASE d \notin listing
    <3>1. listing' = listing
      BY <1>6, <2>4
    <3> QED BY <1>1, <1>2, <1>3, <1>6, <2>2, <3>1 DEF CountInRange
  <2> QED BY <2>3, <2>4
<1>7. CASE UNCHANGED <<listing, totalShown>>
  <2>1. OffTheList \subseteq OffTheList' /\ OffTheList' \in SUBSET L!Documents
    BY <1>5, <1>7 DEF OffTheList
  <2>2. IsFiniteSet(OffTheList') /\ Cardinality(OffTheList') \in Nat
    BY <2>1, LibraryFinite
  <2>3. Cardinality(OffTheList) <= Cardinality(OffTheList')
    BY <2>1, <2>2, FS_Subset
  <2> QED BY <1>1, <1>2, <1>3, <1>7, <2>2, <2>3 DEF CountInRange
<1> QED BY <1>6, <1>7

LEMMA HoldingsGoOn ==
    ASSUME L!ViewInv, HoldingRanges, AtItsFile, [L!LibraryNext]_(L!libraryVars)
    PROVE  HoldingRanges'
<1>1. ASSUME UNCHANGED <<listing, totalShown, removal, indexed>>,
             \A p \in L!Loaders : list'[p] \in Listings
      PROVE  HoldingRanges'
  BY <1>1 DEF HoldingRanges, CountInRange, OffTheList
<1>2. CASE L!FirstLoadEnds
  BY <1>2, LoadKeepsRanges DEF L!FirstLoadEnds, L!Loaders
<1>3. ASSUME NEW b \in L!BatchIds, L!BatchLoadEnds(b) PROVE HoldingRanges'
  BY <1>3, LoadKeepsRanges DEF L!BatchLoadEnds, L!Loaders
<1>4. ASSUME NEW o \in L!Loaders, L!ServeList(o) PROVE HoldingRanges'
  <2>1. [at |-> "read", docs |-> indexed] \in Listings
    BY DEF HoldingRanges, Listings
  <2>2. \A p \in L!Loaders : list'[p] \in Listings
    BY <1>4, <2>1, ListsMove DEF L!ServeList
  <2> QED BY <1>1, <1>4, <2>2 DEF L!ServeList, L!viewVars
<1>5. ASSUME NEW b \in L!BatchIds, L!UploadLands(b) PROVE HoldingRanges'
  <2>1. L!Asked \in Listings
    BY DEF L!Asked, Listings
  <2>2. \A p \in L!Loaders : list'[p] \in Listings
    BY <1>5, <2>1, ListsMove DEF L!UploadLands, L!Ask, L!Loaders
  <2> QED BY <1>1, <1>5, <2>2 DEF L!UploadLands, L!viewVars
<1>6. CASE \/ \E b \in L!BatchIds : L!DropFiles(b) \/ L!UploadFails(b)
           \/ L!ReadTimer \/ UNCHANGED L!libraryVars
  <2>1. UNCHANGED <<list, listing, totalShown, removal, indexed>>
    BY <1>6 DEF L!DropFiles, L!UploadFails, L!ReadTimer, L!libraryVars, L!viewVars
  <2> QED BY <1>1, <2>1 DEF HoldingRanges
<1>7. ASSUME NEW b \in L!BatchIds, L!ServeUpload(b) PROVE HoldingRanges'
  <2>1. Batches[b][ingest[b].file] \in L!Documents
    <3>1. ingest[b].file \in DOMAIN Batches[b]
      BY <1>7 DEF L!ServeUpload, AtItsFile
    <3> QED BY <3>1, LibraryFinite
  <2>2. indexed' \in {indexed, indexed \cup {Batches[b][ingest[b].file]}}
        /\ UNCHANGED <<list, listing, totalShown, removal>>
    BY <1>7 DEF L!ServeUpload, L!viewVars
  <2> QED BY <2>1, <2>2 DEF HoldingRanges, CountInRange, OffTheList
<1>8. ASSUME NEW d \in L!Documents, L!ClickDelete(d) PROVE HoldingRanges'
  <2>1. /\ d \in listing /\ removal' = [removal EXCEPT ![d] = "asked"]
        /\ UNCHANGED <<list, listing, totalShown, indexed>>
    BY <1>8 DEF L!ClickDelete, L!viewVars
  <2>2. OffTheList' = OffTheList
    BY <2>1 DEF OffTheList, HoldingRanges
  <2> QED BY <2>1, <2>2 DEF HoldingRanges, CountInRange
<1>9. ASSUME NEW d \in L!Documents, L!ServeDelete(d) PROVE HoldingRanges'
  <2>1. /\ removal[d] = "asked" /\ removal' = [removal EXCEPT ![d] = "gone"]
        /\ indexed' \subseteq indexed /\ UNCHANGED <<list, listing, totalShown>>
    BY <1>9 DEF L!ServeDelete, L!viewVars
  <2>2. OffTheList' = OffTheList
    BY <2>1 DEF OffTheList, HoldingRanges
  <2> QED BY <2>1, <2>2 DEF HoldingRanges, CountInRange
<1>10. ASSUME NEW d \in L!Documents, L!DeleteLands(d) \/ L!DeleteFails(d) PROVE HoldingRanges'
  <2>1. /\ removal[d] # "no" /\ removal' = [removal EXCEPT ![d] = "no"]
        /\ UNCHANGED <<list, indexed>>
        /\ \/ listing' = listing \ {d} /\ totalShown' = totalShown - 1
           \/ UNCHANGED <<listing, totalShown>>
    BY <1>10 DEF L!DeleteLands, L!DeleteFails, L!viewVars
  <2>2. totalShown' \in Int /\ listing' \subseteq L!Documents /\ CountInRange'
    BY <2>1, DeletionKeepsCount
  <2>3. removal' \in [L!Documents -> {"no", "asked", "gone"}]
    BY <2>1 DEF HoldingRanges
  <2> QED BY <2>1, <2>2, <2>3 DEF HoldingRanges
<1> QED
  BY <1>2, <1>3, <1>4, <1>5, <1>6, <1>7, <1>8, <1>9, <1>10 DEF L!LibraryNext

\* The flags of the page.
PageFlags == {known, loading, unreachable, overtaken} \subseteq BOOLEAN

LEMMA FlagsGoOn == PageFlags /\ [L!LibraryNext]_(L!libraryVars) => PageFlags'
<1> SUFFICES ASSUME PageFlags, [L!LibraryNext]_(L!libraryVars) PROVE PageFlags'
  OBVIOUS
<1>1. CASE UNCHANGED <<known, loading, unreachable, overtaken>>
  BY <1>1 DEF PageFlags
<1>2. ASSUME NEW o \in L!Loaders, L!LoadEnds(o) PROVE PageFlags'
  BY <1>2 DEF L!LoadEnds, L!ListShown, L!ListFails, PageFlags
<1> QED
  BY <1>1, <1>2
  DEF L!LibraryNext, L!libraryVars, L!viewVars, L!FirstLoadEnds, L!BatchLoadEnds, L!ServeList,
      L!UploadLands, L!DropFiles, L!UploadFails, L!ReadTimer, L!ServeUpload, L!ClickDelete,
      L!ServeDelete, L!DeleteLands, L!DeleteFails, L!Loaders

LibraryKept == LoopRanges /\ HoldingRanges /\ PageFlags

LEMMA LibraryTypes == LibraryKept => L!LibraryTypeOK
<1> SUFFICES ASSUME LibraryKept PROVE L!LibraryTypeOK
  OBVIOUS
<1>1. totalShown \in -L!Cardinality(L!Documents)..L!Cardinality(L!Documents)
  BY CountSize, LibraryCounts DEF LibraryKept
<1>2. readTimers \in 0..Len(Batches)
  <2>1. EndedBatches \in SUBSET L!BatchIds
    BY DEF EndedBatches
  <2>2. Cardinality(EndedBatches) \in 0..Len(Batches) /\ Len(Batches) \in Nat
    BY <2>1, LibraryFinite
  <2> QED BY <2>2 DEF LibraryKept, LoopRanges
<1>3. \A b \in L!BatchIds : /\ ingest[b].at \in {"off", "sent", "stored", "list", "over"}
                            /\ ingest[b].file \in 0..(Len(Batches[b]) + 1)
  BY DEF LibraryKept, LoopRanges
<1>4. {listing, indexed} \subseteq SUBSET L!Documents
  BY DEF LibraryKept, HoldingRanges
<1> QED
  BY <1>1, <1>2, <1>3, <1>4
  DEF LibraryKept, LoopRanges, HoldingRanges, PageFlags, Listings, L!LibraryTypeOK

LEMMA LibraryStartsKept == L!LibraryInit => LibraryKept
<1> SUFFICES ASSUME L!LibraryInit PROVE LibraryKept
  OBVIOUS
<1>1. LoopRanges
  <2>1. /\ ingest = [b \in L!BatchIds |-> [at |-> "off", file |-> 0]] /\ readTimers = 0
        /\ job \in [L!BatchIds -> [L!FileSlots -> L!JobStates]]
    BY DEF L!LibraryInit, L!JobStates
  <2>2. \A b \in L!BatchIds : ingest[b].file \in 0..(Len(Batches[b]) + 1)
    BY <2>1, LibraryFinite
  <2>3. EndedBatches = {} /\ AtItsFile
    BY <2>1 DEF EndedBatches, AtItsFile
  <2>4. readTimers <= Cardinality(EndedBatches)
    BY <2>1, <2>3, FS_EmptySet
  <2>5. ingest \in [L!BatchIds -> [at : {"off", "sent", "stored", "list", "over"}, file : Int]]
    BY <2>1
  <2> QED BY <2>1, <2>2, <2>3, <2>4, <2>5 DEF LoopRanges
<1>2. HoldingRanges
  <2>1. /\ listing = {} /\ totalShown = 0 /\ removal = [d \in L!Documents |-> "no"]
        /\ indexed = Initially
        /\ list = [o \in L!Loaders |-> IF o = 0 THEN L!Asked ELSE L!NotAsked]
    BY DEF L!LibraryInit
  <2>2. Cardinality(listing) = 0
    BY <2>1, FS_EmptySet
  <2>3. OffTheList \in SUBSET L!Documents
    BY DEF OffTheList
  <2>4. Cardinality(OffTheList) \in Nat
    BY <2>3, LibraryFinite
  <2>5. CountInRange
    BY <2>1, <2>2, <2>4 DEF CountInRange
  <2>6. \A o \in L!Loaders : list[o] \in Listings
    BY <2>1 DEF Listings, L!Asked, L!NotAsked
  <2>7. indexed \subseteq L!Documents
    BY <2>1, LibraryAssumption DEF L!Documents
  <2> QED BY <2>1, <2>5, <2>6, <2>7 DEF HoldingRanges
<1>3. PageFlags
  BY DEF L!LibraryInit, PageFlags
<1> QED BY <1>1, <1>2, <1>3 DEF LibraryKept

LEMMA VisitsTypeLibraries == Spec => []L!LibraryTypeOK
<1>1. Init => LibraryKept
  BY LibraryStartsKept DEF Init
<1>2. [Next]_vars => [L!LibraryNext]_(L!libraryVars)
  BY DEF Next, Only, vars, libraryState, L!libraryVars
<1>3. L!LibraryInv /\ L!LibraryInv' /\ LibraryKept /\ [L!LibraryNext]_(L!libraryVars)
        => LibraryKept'
  <2> SUFFICES ASSUME L!LibraryInv, L!LibraryInv', LibraryKept,
                      [L!LibraryNext]_(L!libraryVars)
               PROVE  LibraryKept'
    OBVIOUS
  <2>1. L!ViewInv /\ L!JobsInv' /\ LoopRanges /\ HoldingRanges /\ PageFlags /\ AtItsFile
    BY DEF L!LibraryInv, LibraryKept, LoopRanges
  <2> QED BY <2>1, LoopsGoOn, HoldingsGoOn, FlagsGoOn DEF LibraryKept
<1> QED BY <1>1, <1>2, <1>3, LibraryTypes, VisitsKeepLibraries, PTL DEF Spec
-----------------------------------------------------------------------------
(* Each page's state stays in its type, for any parameters: what a page    *)
(* shows of each row is one of its looks, no counter passes what it counts *)
(* (the agents of the cast, the files of a batch, the conversations the    *)
(* questions begin, the rows of the palette), and the count of documents,  *)
(* which a reload that overtakes a deletion may put below zero, stays      *)
(* within the number of documents there can be.                            *)
THEOREM PagesAreWellTyped == Spec => []TypeOK
<1>1. Init => page \in Pages
  BY DEF Init
<1>2. page \in Pages /\ [Next]_vars => (page \in Pages)'
  BY DEF Next, Only, vars
<1>3. H!HandshakeInv => H!HandshakeTypeOK
  BY DEF H!HandshakeInv
<1>4. Spec => []E!StreamTypeOK
  BY VisitsKeepStreams, PTL
<1>5. /\ page \in Pages /\ S!SwarmTypeOK /\ D!DiscoverTypeOK /\ F!FleetTypeOK
      /\ H!HandshakeTypeOK /\ T!TourTypeOK /\ E!StreamTypeOK /\ P!PaywallTypeOK
      /\ C!ConsoleTypeOK /\ L!LibraryTypeOK /\ K!PaletteTypeOK /\ G!PollTypeOK
      /\ A!AtlasTypeOK
      => TypeOK
  BY DEF TypeOK
<1> QED
  BY <1>1, <1>2, <1>3, <1>4, <1>5, VisitsTypeSwarms, VisitsTypeRoutePages, VisitsKeepHandshakes,
     VisitsTypeTours, VisitsTypePaywalls, VisitsTypeConsoles, VisitsTypeLibraries,
     VisitsTypePalettes, VisitsTypePolling, VisitsTypeAtlases, PTL
  DEF Spec
=============================================================================
