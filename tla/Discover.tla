------------------------------ MODULE Discover -------------------------------
(***************************************************************************)
(* The discovery page (frontend/src/components/discover/                   *)
(* DiscoverWorkspace.tsx, DiscoveryPipeline.tsx, RankingBoard.tsx): one    *)
(* routed request at a time, the pipeline that is drawn from its events,   *)
(* the Stop button and the page being left.                                *)
(***************************************************************************)
EXTENDS RouteStream

CONSTANTS
    Considered,  \* providers on the network
    Shortlisted, \* of them, those that pass the capability gate
    Funds,       \* the agent's credits when the page opens
    CallPrice,   \* credits per call of the provider that is chosen
    MaxRuns      \* bound on routed requests

VARIABLES
    stage,      \* stage[s]: the state of a pipeline stage
    listed,     \* length of `candidates`, the scoreboard
    passed,     \* <<n, m>>: "n of m passed the capability gate"; <<>> before
    chosen,     \* whether the chosen provider's card is shown
    answerShown,\* none, a prefix, the whole text
    result,     \* whether `result` is set: the reputation card
    routing,    \* `running`
    paywall,    \* the dialog is open
    shown,      \* the session's credits as shown
    refreshing, \* a getBalance of `refresh` is under way
    mounted,    \* the page is open
    \* the closure of `run`
    runStep,    \* "idle", "token" while getToken is awaited, "route"
    listedThen, \* `candidates.length` when run was created
    stopped,    \* its signal is aborted
    call,       \* the routed call
    runs,
    \* the server
    funds,      \* the agent's credits
    remaining   \* credits_remaining: the balance right after the debit

discoverVars == <<stage, listed, passed, chosen, answerShown, result, routing, paywall,
                  shown, refreshing, mounted, runStep, listedThen, stopped,
                  call, runs, funds, remaining>>

\* BLUEPRINT
Stages == <<"intent", "discovered", "ranked", "selected", "payment", "invoking",
            "answering">>
StageIds == {Stages[n] : n \in DOMAIN Stages}
Rank(s) == CHOOSE n \in DOMAIN Stages : Stages[n] = s

DiscoverTypeOK ==
    /\ stage \in [StageIds -> {"hidden", "idle", "active", "done", "failed"}]
    /\ listed \in 0..Considered
    /\ passed \in {<<>>} \cup ((0..Considered) \X (0..Considered))
    /\ chosen \in BOOLEAN
    /\ answerShown \in {"none", "part", "whole"}
    /\ result \in BOOLEAN
    /\ routing \in BOOLEAN
    /\ paywall \in BOOLEAN
    /\ shown \in 0..Funds
    /\ refreshing \in BOOLEAN
    /\ mounted \in BOOLEAN
    /\ runStep \in {"idle", "token", "route"}
    /\ listedThen \in 0..Considered
    /\ stopped \in BOOLEAN
    /\ call \in RouteCall
    /\ runs \in 0..MaxRuns
    /\ funds \in 0..Funds
    /\ remaining \in 0..Funds

DiscoverInit ==
    /\ stage = [s \in StageIds |-> "hidden"]
    /\ listed = 0
    /\ passed = <<>>
    /\ chosen = FALSE
    /\ answerShown = "none"
    /\ result = FALSE
    /\ routing = FALSE
    /\ paywall = FALSE
    /\ shown = Funds
    /\ refreshing = FALSE
    /\ mounted = TRUE
    /\ runStep = "idle"
    /\ listedThen = 0
    /\ stopped = FALSE
    /\ call = NoCall
    /\ runs = 0
    /\ funds = Funds
    /\ remaining = Funds

shownVars == <<listed, passed, chosen, answerShown, result>>
server == <<funds, remaining>>
closureVars == <<runStep, listedThen, stopped, runs>>

-----------------------------------------------------------------------------
\* What the page draws.

\* The composer's button: Stop while running, Route it otherwise.
ComposerButton == IF ~mounted THEN "gone" ELSE IF routing THEN "stop" ELSE "route"

\* A row of the pipeline: its icon says whether the step has happened.
PipelineRow(s) ==
    CASE stage[s] = "failed" -> "cross"
      [] stage[s] = "done" -> "tick"
      [] stage[s] = "active" -> "live"
      [] OTHER -> "waiting"

\* The scoreboard marks the chosen provider once there are candidates.
Scoreboard == IF listed = 0 THEN "hidden" ELSE IF chosen THEN "crowned" ELSE "open"

\* The card that says the transaction was written to the reputation ledger.
ReputationCard == result

-----------------------------------------------------------------------------
\* mark and advance.

MarkDone(st, s) == [st EXCEPT ![s] = "done"]

\* A stage becomes active and every earlier one counts as done.
Advance(st, s) ==
    [t \in StageIds |-> IF Rank(t) < Rank(s) THEN "done"
                        ELSE IF t = s THEN "active" ELSE st[t]]

-----------------------------------------------------------------------------
\* run.

\* The guards of run and reset(): the page starts afresh.
ClickRoute ==
    /\ ComposerButton = "route"
    /\ runs < MaxRuns
    /\ IF shown = 0
       THEN /\ paywall' = TRUE
            /\ UNCHANGED <<stage, shownVars, routing, closureVars, call>>
       ELSE /\ stage' = [s \in StageIds |-> "idle"]
            /\ listed' = 0
            /\ passed' = <<>>
            /\ chosen' = FALSE
            /\ answerShown' = "none"
            /\ result' = FALSE
            /\ routing' = TRUE
            /\ runStep' = "token"
            /\ listedThen' = listed
            /\ stopped' = FALSE
            /\ call' = NoCall
            /\ runs' = runs + 1
            /\ UNCHANGED paywall
    /\ UNCHANGED <<shown, refreshing, mounted, server>>

ClickStop ==
    /\ ComposerButton = "stop"
    /\ stopped' = TRUE
    /\ UNCHANGED <<stage, shownVars, routing, paywall, shown, refreshing, mounted,
                   runStep, listedThen, call, runs, server>>

\* The page is left: its signal is aborted, and what the handlers set after
\* that is set on nobody.
Leave ==
    /\ mounted
    /\ mounted' = FALSE
    /\ stopped' = (stopped \/ runStep # "idle")
    /\ UNCHANGED <<stage, shownVars, routing, paywall, shown, refreshing,
                   runStep, listedThen, call, runs, server>>

\* Slip: there is no finally, and `running` stays.
RunEndsRunning ==
    /\ runStep' = "idle"
    /\ UNCHANGED routing

\* finally
RunEnds ==
    /\ runStep' = "idle"
    /\ routing' = FALSE

TokenGranted ==
    /\ runStep = "token"
    /\ runStep' = "route"
    /\ call' = OpenCall
    /\ UNCHANGED <<stage, shownVars, routing, paywall, shown, refreshing, mounted,
                   listedThen, stopped, runs, server>>

TokenRefused ==
    /\ runStep = "token"
    /\ RunEnds
    /\ UNCHANGED <<stage, shownVars, paywall, shown, refreshing, mounted,
                   listedThen, stopped, call, runs, server>>

\* The server: the debit goes with "settled"; an agent that cannot pay gets
\* an error instead.
ServeRoute ==
    \E next \in ServerSteps(call) :
        /\ call' = next
        /\ Charged(next) /\ ~Charged(call) => funds >= CallPrice
        /\ funds' = IF Charged(next) /\ ~Charged(call) THEN funds - CallPrice
                    ELSE IF Charged(call) /\ ~Charged(next) THEN funds + CallPrice
                    ELSE funds
        /\ remaining' = IF Charged(next) /\ ~Charged(call) THEN funds - CallPrice
                        ELSE remaining
        /\ UNCHANGED <<stage, shownVars, routing, paywall, shown, refreshing, mounted,
                       closureVars>>

\* Slip: the payment is ticked as soon as it is being authorised.
StagesAfterEagerly(event) ==
    CASE event = "intent" -> Advance(stage, "intent")
      [] event = "discovered" -> Advance(MarkDone(stage, "intent"), "discovered")
      [] event = "ranked" -> Advance(MarkDone(stage, "discovered"), "ranked")
      [] event = "selected" -> Advance(MarkDone(stage, "ranked"), "selected")
      [] event \in {"authorising", "settled"} -> MarkDone(Advance(stage, "payment"), "payment")
      [] event = "invoking" -> Advance(stage, "invoking")
      [] event = "retrieval" -> Advance(MarkDone(stage, "invoking"), "answering")
      [] event = "done" -> MarkDone(stage, "answering")
      [] OTHER -> stage

\* What each handler does to the page.
StagesAfter(event) ==
    CASE event = "intent" -> Advance(stage, "intent")
      [] event = "discovered" -> Advance(MarkDone(stage, "intent"), "discovered")
      [] event = "ranked" -> Advance(MarkDone(stage, "discovered"), "ranked")
      [] event = "selected" -> Advance(MarkDone(stage, "ranked"), "selected")
      [] event = "authorising" -> Advance(MarkDone(stage, "selected"), "payment")
      [] event = "settled" -> MarkDone(stage, "payment")
      [] event = "invoking" -> Advance(stage, "invoking")
      [] event = "retrieval" -> Advance(MarkDone(stage, "invoking"), "answering")
      [] event = "done" -> MarkDone(stage, "answering")
      [] OTHER -> stage

\* onRanked words its detail with the `candidates` of the render in which
\* run was created.
GateAfter(event) ==
    IF event = "ranked"
    THEN <<Shortlisted, IF listedThen = 0 THEN Shortlisted ELSE listedThen>>
    ELSE passed

Handle ==
    /\ runStep = "route"
    /\ ~stopped
    /\ CanDispatch(call)
    /\ call' = Dispatched(call)
    /\ LET event == NextEvent(call)
       IN  /\ stage' = StagesAfter(event)
           /\ passed' = GateAfter(event)
           /\ listed' = IF event = "discovered" THEN Considered ELSE listed
           /\ chosen' = (chosen \/ event = "selected")
           /\ answerShown' = CASE event = "token" -> "part"
                               [] event = "done" -> "whole"
                               [] OTHER -> answerShown
           /\ result' = (result \/ event = "done")
           /\ shown' = IF event \in {"settled", "done"} THEN remaining ELSE shown
           /\ refreshing' = (refreshing \/ event = "done")
    /\ UNCHANGED <<routing, paywall, mounted, closureVars, server>>

\* onError: the active stage fails; a 402 or a lack of credits opens the
\* paywall, anything else is a toast.
MayBeForCredits(c) ==
    \/ c.sent = 0
    \/ ErrorEventDue(c) /\ c.sent = Position("authorising")

RouteError(forCredits) ==
    /\ runStep = "route"
    /\ ~stopped
    /\ CanFail(call)
    /\ forCredits => MayBeForCredits(call)
    /\ call' = Told(call)
    /\ stage' = [s \in StageIds |-> IF stage[s] = "active" THEN "failed" ELSE stage[s]]
    /\ paywall' = (paywall \/ forCredits)
    /\ UNCHANGED <<shownVars, routing, shown, refreshing, mounted, closureVars, server>>

\* routeRequest resolves, by itself or because of the abort.
RouteResolved ==
    /\ runStep = "route"
    /\ stopped \/ CanResolve(call)
    /\ call' = IF stopped THEN Aborted(call) ELSE CallOver(call)
    /\ RunEnds
    /\ UNCHANGED <<stage, shownVars, paywall, shown, refreshing, mounted, listedThen,
                   stopped, runs, server>>

RefreshLands ==
    /\ refreshing
    /\ refreshing' = FALSE
    /\ shown' = funds
    /\ UNCHANGED <<stage, shownVars, routing, paywall, mounted, closureVars, call, server>>

ClosePaywall ==
    /\ paywall
    /\ paywall' = FALSE
    /\ UNCHANGED <<stage, shownVars, routing, shown, refreshing, mounted, closureVars,
                   call, server>>

TokenAnswered == TokenGranted \/ TokenRefused
Reading == Handle \/ RouteResolved \/ \E forCredits \in BOOLEAN : RouteError(forCredits)

DiscoverNext ==
    \/ ClickRoute \/ ClickStop \/ Leave \/ ClosePaywall
    \/ TokenAnswered \/ ServeRoute \/ Reading
    \/ RefreshLands

\* getToken and the route call are answered, refused or cut off at last, and
\* what arrived is dispatched.
DiscoverSpec ==
    /\ DiscoverInit /\ [][DiscoverNext]_discoverVars
    /\ WF_discoverVars(TokenAnswered) /\ WF_discoverVars(ServeRoute)
    /\ WF_discoverVars(Reading)

-----------------------------------------------------------------------------
\* The event that tells that a stage is complete.
Completes(s) ==
    CASE s = "intent" -> "discovered"
      [] s = "discovered" -> "ranked"
      [] s = "ranked" -> "selected"
      [] s = "selected" -> "authorising"
      [] s = "payment" -> "settled"
      [] s = "invoking" -> "retrieval"
      [] s = "answering" -> "done"

(* The pipeline "cannot show a step that did not happen": a stage with a   *)
(* tick is one that the server has completed for this very request; in     *)
(* particular the payment is ticked only after the debit, and whatever     *)
(* the run came to, nothing of an earlier run is left on it.               *)
NoStepThatDidNotHappen ==
    \A s \in StageIds : PipelineRow(s) = "tick" => Emitted(call, Completes(s))

(* Stop, an error in any place or a refused token: the composer always     *)
(* comes back.                                                             *)
RoutingEnds == routing ~> ~routing

(* The scoreboard, the chosen provider and the reputation card are those   *)
(* of one request: a crown needs a list that was published for it, and     *)
(* the card that reports a transaction is shown only beside the whole      *)
(* answer of a call that was charged and not refunded.                     *)
CardsTellOfOneRun ==
    /\ Scoreboard = "crowned" => Emitted(call, "selected")
    /\ ReputationCard => answerShown = "whole" /\ Charged(call) /\ call.fate = "done"
=============================================================================
