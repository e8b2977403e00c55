-------------------------------- MODULE Fleet --------------------------------
(***************************************************************************)
(* The fleet of the discovery page (frontend/src/components/discover/      *)
(* NetworkDemo.tsx): several routed requests at once, all paid from the    *)
(* browser's one wallet, each drawn as a lane.                             *)
(***************************************************************************)
EXTENDS RouteStream, FiniteSets

CONSTANTS
    Members,     \* positions of the roster: `size`
    MaxFleets    \* bound on clicks on "Launch the network"

VARIABLES
    lanePhase,    \* lanePhase[i]: the phase shown on a lane, "none" before
    fleetRunning,
    fleetAbort,   \* whether abortRef holds the controller of the launch
    fleetStopped, \* its signal is aborted
    fleetStep,    \* "idle", "token" while getToken is awaited, "routes"
    route,        \* route[i]: the call of a lane
    fleets

fleetVars == <<lanePhase, fleetRunning, fleetAbort, fleetStopped, fleetStep, route, fleets>>

FleetPhases == {"none", "queued", "discovering", "ranking", "paying", "calling", "done",
                "failed"}

FleetTypeOK ==
    /\ lanePhase \in [Members -> FleetPhases]
    /\ fleetRunning \in BOOLEAN
    /\ fleetAbort \in BOOLEAN
    /\ fleetStopped \in BOOLEAN
    /\ fleetStep \in {"idle", "token", "routes"}
    /\ route \in [Members -> RouteCall]
    /\ fleets \in 0..MaxFleets

FleetInit ==
    /\ lanePhase = [i \in Members |-> "none"]
    /\ fleetRunning = FALSE
    /\ fleetAbort = FALSE
    /\ fleetStopped = FALSE
    /\ fleetStep = "idle"
    /\ route = [i \in Members |-> NoCall]
    /\ fleets = 0

-----------------------------------------------------------------------------
\* What the page draws.

FleetButton == IF fleetRunning THEN "stop" ELSE "launch"

LaneIsLive(i) == lanePhase[i] \notin {"none", "queued", "done", "failed"}

\* The lanes counted by the metrics and the summary line.
Served == {i \in Members : lanePhase[i] = "done"}
Failed == {i \in Members : lanePhase[i] = "failed"}

\* "Failed calls are refunded automatically ..." under the lanes.
RefundLine == Failed # {} /\ ~fleetRunning

-----------------------------------------------------------------------------
ClickLaunchFleet ==
    /\ FleetButton = "launch"
    /\ fleets < MaxFleets
    /\ lanePhase' = [i \in Members |-> "queued"]
    /\ route' = [i \in Members |-> NoCall]
    /\ fleetRunning' = TRUE
    /\ fleetAbort' = TRUE
    /\ fleetStopped' = FALSE
    /\ fleetStep' = "token"
    /\ fleets' = fleets + 1

\* Slip: Stop clears `running` itself and leaves the calls to themselves.
ClickStopFleetShownOnly ==
    /\ FleetButton = "stop"
    /\ fleetRunning' = FALSE
    /\ UNCHANGED <<lanePhase, fleetAbort, fleetStopped, fleetStep, route, fleets>>

\* Stop only aborts: `running` stays until the last lane has returned.
ClickStopFleet ==
    /\ FleetButton = "stop"
    /\ fleetStopped' = (fleetStopped \/ fleetAbort)
    /\ UNCHANGED <<lanePhase, fleetRunning, fleetAbort, fleetStep, route, fleets>>

\* finally
FleetEnds ==
    /\ fleetRunning' = FALSE
    /\ fleetAbort' = FALSE
    /\ fleetStep' = "idle"
    /\ UNCHANGED <<lanePhase, fleetStopped, route, fleets>>

FleetTokenRefused == fleetStep = "token" /\ FleetEnds

FleetTokenGranted ==
    /\ fleetStep = "token"
    /\ fleetStep' = "routes"
    /\ route' = [i \in Members |-> OpenCall]
    /\ UNCHANGED <<lanePhase, fleetRunning, fleetAbort, fleetStopped, fleets>>

ServeLane(i) ==
    /\ \E next \in ServerSteps(route[i]) : route' = [route EXCEPT ![i] = next]
    /\ UNCHANGED <<lanePhase, fleetRunning, fleetAbort, fleetStopped, fleetStep, fleets>>

\* The phase a lane shows after an event.
PhaseAfter(event, phase) ==
    CASE event = "intent" -> "discovering"
      [] event = "discovered" -> "ranking"
      [] event = "selected" -> "paying"
      [] event = "invoking" -> "calling"
      [] event = "done" -> "done"
      [] OTHER -> phase

LaneHandles(i) ==
    /\ ~fleetStopped
    /\ CanDispatch(route[i])
    /\ lanePhase' = [lanePhase EXCEPT ![i] = PhaseAfter(NextEvent(route[i]), @)]
    /\ route' = [route EXCEPT ![i] = Dispatched(@)]
    /\ UNCHANGED <<fleetRunning, fleetAbort, fleetStopped, fleetStep, fleets>>

LaneErrs(i) ==
    /\ ~fleetStopped
    /\ CanFail(route[i])
    /\ lanePhase' = [lanePhase EXCEPT ![i] = "failed"]
    /\ route' = [route EXCEPT ![i] = Told(@)]
    /\ UNCHANGED <<fleetRunning, fleetAbort, fleetStopped, fleetStep, fleets>>

LaneResolves(i) ==
    /\ \/ route[i].client \in {"reading", "told"} /\ fleetStopped
       \/ CanResolve(route[i])
    /\ route' = [route EXCEPT ![i] = IF fleetStopped THEN Aborted(@) ELSE CallOver(@)]
    /\ UNCHANGED <<lanePhase, fleetRunning, fleetAbort, fleetStopped, fleetStep, fleets>>

\* Promise.all
FleetOver ==
    /\ fleetStep = "routes"
    /\ \A i \in Members : route[i].client = "over"
    /\ FleetEnds

FleetNext ==
    \/ ClickLaunchFleet \/ ClickStopFleet
    \/ FleetTokenGranted \/ FleetTokenRefused
    \/ \E i \in Members :
           ServeLane(i) \/ LaneHandles(i) \/ LaneErrs(i) \/ LaneResolves(i)
    \/ FleetOver

FleetSpec == FleetInit /\ [][FleetNext]_fleetVars

-----------------------------------------------------------------------------
(* The fleet that spends is the fleet that can be stopped: while a call of *)
(* it is being read, the page offers Stop, and the click reaches it.       *)
SpendingFleetCanBeStopped ==
    (\E i \in Members : route[i].client = "reading") =>
        FleetButton = "stop" /\ (fleetStopped \/ fleetAbort)

(* A fleet that was not stopped leaves no lane that looks busy: each one   *)
(* ends with its answer or its failure, however its stream ended.          *)
FinishedLanesAreSettled ==
    ~fleetRunning /\ ~fleetStopped => \A i \in Members : ~LaneIsLive(i)

(* "Failed calls are refunded automatically": of the lanes that the server *)
(* failed, none is charged when that line is shown under them.             *)
FailedLanesAreRefunded ==
    RefundLine => \A i \in Failed : route[i].fate = "failed" => ~Charged(route[i])

(* A lane that shows an answer was charged for it: no failure on the       *)
(* server looks like an answer.                                            *)
ServedLanesPaid == \A i \in Served : route[i].fate = "done" /\ Charged(route[i])
=============================================================================
