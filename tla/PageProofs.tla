----------------------------- MODULE PageProofs -------------------------------
(*****************************************************************************)
(* What is proved of the pages that read from a stream.                      *)
(*                                                                           *)
(* Routed calls, for any number of providers, credits, lanes and requests:   *)
(* what the fleet and the discovery page show is what became of their calls, *)
(* and what spends can be stopped.                                           *)
(*                                                                           *)
(* Event streams, for any number of frames: the reader hands on each of them *)
(* once and in order, wherever their text is cut.                            *)
(*****************************************************************************)
EXTENDS Discover, Fleet, EventStream, FiniteSums

-----------------------------------------------------------------------------
(*****************************************************************************)
(* What every step of a routed call preserves, whichever page made it.       *)
(*****************************************************************************)
\* A call that was answered whole was neither cut short nor refunded.
CallInv(c) ==
    /\ c \in RouteCall
    /\ c.seen <= c.sent
    /\ c.fate = "done" <=> c.sent = EventCount
    /\ c.refunded = TRUE => c.fate = "failed"

LEMMA EventPlaces ==
    /\ EventCount = 11
    /\ Position("discovered") = 2 /\ Position("ranked") = 3 /\ Position("selected") = 4
    /\ Position("authorising") = 5 /\ Position("settled") = 6
    /\ Position("retrieval") = 8 /\ Position("done") = 11
<1>1. EventCount = 11
  BY DEF EventCount, RouteEvents
<1>2. \A n \in 1..11 :
          /\ RouteEvents[n] = "discovered" <=> n = 2
          /\ RouteEvents[n] = "ranked" <=> n = 3
          /\ RouteEvents[n] = "selected" <=> n = 4
          /\ RouteEvents[n] = "authorising" <=> n = 5
          /\ RouteEvents[n] = "settled" <=> n = 6
          /\ RouteEvents[n] = "retrieval" <=> n = 8
          /\ RouteEvents[n] = "done" <=> n = 11
  BY DEF RouteEvents
<1> QED
  BY <1>1, <1>2 DEF Position

LEMMA FreshCalls == CallInv(NoCall) /\ CallInv(OpenCall)
<1>1. EventCount = 11
  BY EventPlaces
<1>2. NoCall \in RouteCall
  BY <1>1 DEF RouteCall, NoCall
<1>3. OpenCall \in RouteCall
  BY <1>2 DEF RouteCall, OpenCall
<1>4. \A c \in {NoCall, OpenCall} :
          c.sent = 0 /\ c.seen = 0 /\ c.fate = "working" /\ c.refunded = FALSE
  <2>1. NoCall.sent = 0 /\ NoCall.seen = 0 /\ NoCall.fate = "working" /\ NoCall.refunded = FALSE
    BY DEF NoCall
  <2>2. /\ OpenCall.sent = NoCall.sent /\ OpenCall.seen = NoCall.seen
        /\ OpenCall.fate = NoCall.fate /\ OpenCall.refunded = NoCall.refunded
    BY <1>2 DEF OpenCall, RouteCall
  <2> QED
    BY <2>1, <2>2
<1> QED
  BY <1>1, <1>2, <1>3, <1>4 DEF CallInv

\* The server's step moves the server's half of a call only.
LEMMA ServerStep ==
    ASSUME NEW c, CallInv(c), NEW next \in ServerSteps(c)
    PROVE  /\ CallInv(next)
           /\ next.client = c.client /\ next.seen = c.seen
           /\ c.client # "none" /\ c.fate = "working"
           /\ next.sent \in {c.sent, c.sent + 1}
<1>1. /\ c.client # "none" /\ c.fate = "working"
      /\ \/ next = [c EXCEPT !.sent = c.sent + 1,
                             !.fate = IF c.sent + 1 = EventCount THEN "done" ELSE "working"]
         \/ \E r \in BOOLEAN : next = [c EXCEPT !.fate = "failed", !.refunded = r]
  BY DEF ServerSteps
<1>2. c \in RouteCall /\ c.sent # EventCount /\ EventCount = 11
  BY <1>1, EventPlaces DEF CallInv
<1>3. CASE next = [c EXCEPT !.sent = c.sent + 1,
                            !.fate = IF c.sent + 1 = EventCount THEN "done" ELSE "working"]
  <2>1. c.seen \in 0..11 /\ c.sent \in 0..11 /\ c.fate # "failed"
    BY <1>1, <1>2 DEF RouteCall
  <2>2. c.seen <= c.sent /\ c.sent + 1 \in 0..11
    BY <1>2, <2>1 DEF CallInv
  <2>3. c.refunded # TRUE
    BY <2>1 DEF CallInv
  <2>4. next.fate = IF c.sent + 1 = 11 THEN "done" ELSE "working"
    BY <1>2, <1>3 DEF RouteCall
  <2>5. /\ next.sent = c.sent + 1 /\ next.seen = c.seen /\ next.client = c.client
        /\ next.refunded = c.refunded
    BY <1>2, <1>3 DEF RouteCall
  <2>6. next \in RouteCall
    BY <1>2, <1>3, <2>2 DEF RouteCall
  <2>7. next.seen <= next.sent
    BY <2>1, <2>2, <2>5
  <2>8. CallInv(next)
    BY <1>2, <2>3, <2>4, <2>5, <2>6, <2>7 DEF CallInv
  <2> QED
    BY <1>1, <2>5, <2>8
<1>4. CASE \E r \in BOOLEAN : next = [c EXCEPT !.fate = "failed", !.refunded = r]
  BY <1>1, <1>2, <1>4 DEF CallInv, RouteCall
<1> QED
  BY <1>1, <1>3, <1>4

LEMMA BrowserSteps ==
    ASSUME NEW c, CallInv(c)
    PROVE  /\ CanDispatch(c) => CallInv(Dispatched(c))
           /\ CallInv(Told(c))
           /\ CallInv(CallOver(c))
           /\ CallInv(Aborted(c))
<1> USE EventPlaces
<1>1. CanDispatch(c) => CallInv(Dispatched(c))
  BY DEF CallInv, RouteCall, CanDispatch, Dispatched
<1>2. CallInv(Told(c)) /\ CallInv(CallOver(c)) /\ CallInv(Aborted(c))
  BY DEF CallInv, RouteCall, Told, CallOver, Aborted
<1> QED
  BY <1>1, <1>2

-----------------------------------------------------------------------------
(*****************************************************************************)
(* The fleet: what it shows of its lanes is what became of their calls.      *)
(*****************************************************************************)
\* A lane and its call keep in step: a call that was not begun has no phase
\* of its own, one that was told of an error is marked, and one that was
\* read to its end has been answered.
LaneInv(i) ==
    /\ CallInv(route[i])
    /\ fleetStep = "token" => route[i].client = "none"
    /\ fleetStep = "idle" => route[i].client \in {"none", "over"}
    /\ route[i].client = "none" => lanePhase[i] \in {"none", "queued"}
    /\ route[i].client = "told" => lanePhase[i] = "failed"
    /\ route[i].client = "over" => fleetStopped = TRUE \/ lanePhase[i] \in {"done", "failed"}
    /\ route[i].client = "reading" /\ route[i].seen = EventCount => lanePhase[i] = "done"
    /\ lanePhase[i] = "done" => route[i].fate = "done"
    /\ route[i].client \in {"told", "over"} => route[i].fate # "working"

FleetInv ==
    /\ lanePhase \in [Members -> FleetPhases]
    /\ route \in [Members -> RouteCall]
    /\ fleetStep \in {"idle", "token", "routes"}
    /\ {fleetRunning, fleetAbort, fleetStopped} \subseteq BOOLEAN
    /\ fleetRunning = TRUE <=> fleetStep # "idle"
    /\ fleetAbort = TRUE <=> fleetStep # "idle"
    /\ \A i \in Members : LaneInv(i)

LEMMA FleetInitInv == FleetInit => FleetInv
<1> SUFFICES ASSUME FleetInit PROVE FleetInv
  OBVIOUS
<1>1. NoCall \in RouteCall /\ CallInv(NoCall)
  BY FreshCalls DEF CallInv
<1>2. NoCall.client = "none" /\ NoCall.seen = 0 /\ EventCount = 11
  BY EventPlaces DEF NoCall
<1>3. ASSUME NEW i \in Members PROVE LaneInv(i)
  BY <1>1, <1>2 DEF FleetInit, LaneInv
<1> QED
  BY <1>1, <1>3 DEF FleetInit, FleetInv, FleetPhases

\* One lane moves and its call with it; the launch stays as it is.
LEMMA LaneMoves ==
    ASSUME FleetInv, NEW i \in Members, NEW c, NEW phase \in FleetPhases,
           route' = [route EXCEPT ![i] = c], lanePhase' = [lanePhase EXCEPT ![i] = phase],
           UNCHANGED <<fleetRunning, fleetAbort, fleetStopped, fleetStep>>,
           CallInv(c), fleetStep = "routes",
           c.client = "none" => phase \in {"none", "queued"},
           c.client = "told" => phase = "failed",
           c.client = "over" => fleetStopped = TRUE \/ phase \in {"done", "failed"},
           c.client = "reading" /\ c.seen = EventCount => phase = "done",
           phase = "done" => c.fate = "done",
           c.client \in {"told", "over"} => c.fate # "working"
    PROVE  FleetInv'
<1>1. c \in RouteCall
  BY DEF CallInv
<1>2. /\ route' \in [Members -> RouteCall] /\ route'[i] = c
      /\ lanePhase' \in [Members -> FleetPhases] /\ lanePhase'[i] = phase
      /\ \A j \in Members \ {i} : route'[j] = route[j] /\ lanePhase'[j] = lanePhase[j]
  BY <1>1 DEF FleetInv
<1>3. ASSUME NEW j \in Members PROVE LaneInv(j)'
  <2>1. CASE j = i
    BY <1>2, <2>1 DEF LaneInv
  <2>2. CASE j # i
    <3>1. LaneInv(j) /\ route'[j] = route[j] /\ lanePhase'[j] = lanePhase[j]
      BY <1>2, <2>2 DEF FleetInv
    <3> QED
      BY <3>1 DEF LaneInv
  <2> QED
    BY <2>1, <2>2
<1> QED
  BY <1>2, <1>3 DEF FleetInv

LEMMA FleetNextInv == FleetInv /\ [FleetNext]_fleetVars => FleetInv'
<1> SUFFICES ASSUME FleetInv, [FleetNext]_fleetVars PROVE FleetInv'
  OBVIOUS
<1>1. CASE ClickLaunchFleet
  <2>1. NoCall \in RouteCall /\ CallInv(NoCall) /\ NoCall.client = "none"
    BY FreshCalls DEF CallInv, NoCall
  <2>2. ASSUME NEW i \in Members PROVE LaneInv(i)'
    BY <1>1, <2>1 DEF ClickLaunchFleet, LaneInv
  <2> QED
    BY <1>1, <2>1, <2>2 DEF ClickLaunchFleet, FleetInv, FleetPhases
<1>2. CASE ClickStopFleet
  <2>1. fleetStopped' \in BOOLEAN /\ (fleetStopped = TRUE => fleetStopped' = TRUE)
    BY <1>2, Zenon DEF ClickStopFleet, FleetInv
  <2>2. ASSUME NEW i \in Members PROVE LaneInv(i)'
    BY <1>2, <2>1 DEF ClickStopFleet, LaneInv, FleetInv
  <2> QED
    BY <1>2, <2>1, <2>2 DEF ClickStopFleet, FleetInv
<1>3. CASE FleetTokenGranted
  <2>1. OpenCall \in RouteCall /\ CallInv(OpenCall)
    BY FreshCalls DEF CallInv
  <2>2. OpenCall.client = "reading" /\ OpenCall.seen # EventCount
    <3>1. NoCall \in RouteCall /\ NoCall.seen = 0 /\ EventCount = 11
      BY FreshCalls, EventPlaces DEF CallInv, NoCall
    <3> QED
      BY <3>1 DEF OpenCall, RouteCall
  <2>3. ASSUME NEW i \in Members PROVE LaneInv(i)'
    BY <1>3, <2>1, <2>2 DEF FleetTokenGranted, LaneInv, FleetInv
  <2> QED
    BY <1>3, <2>1, <2>3 DEF FleetTokenGranted, FleetInv
<1>4. CASE FleetTokenRefused \/ FleetOver
  <2>1. FleetEnds /\ \A i \in Members : route[i].client \in {"none", "over"}
    BY <1>4 DEF FleetTokenRefused, FleetOver, FleetInv, LaneInv
  <2>2. ASSUME NEW i \in Members PROVE LaneInv(i)'
    BY <2>1 DEF FleetEnds, LaneInv, FleetInv
  <2> QED
    BY <2>1, <2>2 DEF FleetEnds, FleetInv
<1>5. ASSUME NEW i \in Members, ServeLane(i) PROVE FleetInv'
  <2>1. PICK next \in ServerSteps(route[i]) : route' = [route EXCEPT ![i] = next]
    BY <1>5 DEF ServeLane
  <2>2. /\ CallInv(next) /\ next.client = route[i].client /\ next.seen = route[i].seen
        /\ route[i].client # "none" /\ route[i].fate = "working"
    BY ServerStep DEF FleetInv, LaneInv
  <2>3. lanePhase[i] \in FleetPhases /\ lanePhase' = [lanePhase EXCEPT ![i] = lanePhase[i]]
    BY <1>5 DEF ServeLane, FleetInv
  <2>4. LaneInv(i) /\ route[i].client = "reading" /\ fleetStep = "routes"
    BY <2>2 DEF FleetInv, LaneInv, CallInv, RouteCall
  <2>5. lanePhase[i] # "done"
    BY <2>2, <2>4 DEF LaneInv
  <2>6. next.seen = EventCount => lanePhase[i] = "done"
    BY <2>2, <2>4 DEF LaneInv
  <2>7. UNCHANGED <<fleetRunning, fleetAbort, fleetStopped, fleetStep>>
    BY <1>5 DEF ServeLane
  <2> QED
    BY <2>1, <2>2, <2>3, <2>4, <2>5, <2>6, <2>7, LaneMoves
<1>6. ASSUME NEW i \in Members, LaneHandles(i) PROVE FleetInv'
  <2> DEFINE c == route[i]
             phase == PhaseAfter(NextEvent(c), lanePhase[i])
  <2>1. /\ CallInv(c) /\ CallInv(Dispatched(c)) /\ c.client = "reading" /\ c.seen < c.sent
    BY <1>6, BrowserSteps DEF LaneHandles, CanDispatch, FleetInv, LaneInv
  <2>2. c \in RouteCall /\ EventCount = 11
    BY <2>1, EventPlaces DEF CallInv
  <2>3. Dispatched(c).client = "reading" /\ Dispatched(c).fate = c.fate /\ Dispatched(c).seen = c.seen + 1
    BY <2>1, <2>2 DEF Dispatched, RouteCall
  <2>4. phase \in FleetPhases
    BY DEF PhaseAfter, FleetInv, FleetPhases
  <2>5. NextEvent(c) = "done" <=> c.seen + 1 = 11
    BY <2>1, <2>2 DEF NextEvent, RouteEvents, RouteCall
  <2>6. phase = "done" => NextEvent(c) = "done" \/ lanePhase[i] = "done"
    BY DEF PhaseAfter
  <2>7. c.seen + 1 = 11 => phase = "done" /\ c.fate = "done"
    <3>1. c.seen + 1 = 11 => c.sent = 11
      BY <2>1, <2>2 DEF RouteCall
    <3> QED
      BY <2>1, <2>2, <2>5, <3>1 DEF CallInv, PhaseAfter
  <2>8. phase = "done" => c.fate = "done"
    BY <2>5, <2>6, <2>7 DEF FleetInv, LaneInv
  <2>9. fleetStep = "routes"
    BY <2>1 DEF FleetInv, LaneInv
  <2>10. /\ route' = [route EXCEPT ![i] = Dispatched(c)]
         /\ lanePhase' = [lanePhase EXCEPT ![i] = phase]
         /\ UNCHANGED <<fleetRunning, fleetAbort, fleetStopped, fleetStep>>
    BY <1>6 DEF LaneHandles
  <2> HIDE DEF c, phase
  <2> QED
    BY <2>1, <2>2, <2>3, <2>4, <2>7, <2>8, <2>9, <2>10, LaneMoves
<1>7. ASSUME NEW i \in Members, LaneErrs(i) PROVE FleetInv'
  <2>1. CallInv(route[i]) /\ CallInv(Told(route[i])) /\ route[i] \in RouteCall
    BY BrowserSteps DEF FleetInv, LaneInv, CallInv
  <2>2. /\ Told(route[i]).client = "told" /\ Told(route[i]).fate # "working"
        /\ fleetStep = "routes"
    BY <1>7, <2>1 DEF LaneErrs, CanFail, Told, RouteCall, FleetInv, LaneInv
  <2>3. "failed" \in FleetPhases
    BY DEF FleetPhases
  <2> QED
    BY <1>7, <2>1, <2>2, <2>3, LaneMoves DEF LaneErrs
<1>8. ASSUME NEW i \in Members, LaneResolves(i) PROVE FleetInv'
  <2> DEFINE c == IF fleetStopped THEN Aborted(route[i]) ELSE CallOver(route[i])
  <2>1. CallInv(route[i]) /\ CallInv(c) /\ route[i] \in RouteCall
    BY BrowserSteps DEF FleetInv, LaneInv, CallInv
  <2>2. c.client = "over" /\ (c.fate = route[i].fate \/ route[i].fate = "working")
    BY <2>1 DEF Aborted, CallOver, RouteCall
  <2>3. fleetStep = "routes"
    BY <1>8 DEF LaneResolves, CanResolve, FleetInv, LaneInv
  <2>4. lanePhase[i] \in FleetPhases /\ lanePhase' = [lanePhase EXCEPT ![i] = lanePhase[i]]
    BY <1>8 DEF LaneResolves, FleetInv
  <2>5. fleetStopped = TRUE \/ lanePhase[i] \in {"done", "failed"}
    <3>1. CASE fleetStopped
      BY <3>1 DEF FleetInv
    <3>2. CASE ~fleetStopped
      <4>1. CanResolve(route[i])
        BY <1>8, <3>2 DEF LaneResolves
      <4> QED
        BY <2>1, <4>1 DEF CanResolve, FleetInv, LaneInv, CallInv
    <3> QED
      BY <3>1, <3>2
  <2>6. /\ lanePhase[i] = "done" => c.fate = "done"
        /\ c.fate # "working"
    <3>1. LaneInv(i)
      BY DEF FleetInv
    <3>2. fleetStopped => c.fate # "working"
      BY <2>1 DEF Aborted, RouteCall
    <3>3. ~fleetStopped => c.fate = route[i].fate /\ CanResolve(route[i])
      BY <1>8, <2>1 DEF CallOver, RouteCall, LaneResolves
    <3>4. CanResolve(route[i]) => route[i].fate # "working"
      BY <3>1 DEF CanResolve, LaneInv
    <3> QED
      BY <2>2, <3>1, <3>2, <3>3, <3>4 DEF LaneInv
  <2>7. /\ route' = [route EXCEPT ![i] = c]
        /\ UNCHANGED <<fleetRunning, fleetAbort, fleetStopped, fleetStep>>
    BY <1>8 DEF LaneResolves
  <2> HIDE DEF c
  <2> QED
    BY <2>1, <2>2, <2>3, <2>4, <2>5, <2>6, <2>7, LaneMoves
<1>9. CASE UNCHANGED fleetVars
  BY <1>9 DEF fleetVars, FleetInv, LaneInv
<1> QED
  BY <1>1, <1>2, <1>3, <1>4, <1>5, <1>6, <1>7, <1>8, <1>9 DEF FleetNext

LEMMA FleetInvImplies ==
    FleetInv => SpendingFleetCanBeStopped /\ ServedLanesPaid /\ FinishedLanesAreSettled
<1> SUFFICES ASSUME FleetInv
             PROVE  SpendingFleetCanBeStopped /\ ServedLanesPaid /\ FinishedLanesAreSettled
  OBVIOUS
<1>1. SpendingFleetCanBeStopped
  BY DEF SpendingFleetCanBeStopped, FleetButton, FleetInv, LaneInv
<1>2. ServedLanesPaid
  <2> SUFFICES ASSUME NEW i \in Members, lanePhase[i] = "done"
               PROVE  route[i].fate = "done" /\ Charged(route[i])
    BY DEF ServedLanesPaid, Served
  <2>1. route[i].fate = "done" /\ CallInv(route[i]) /\ route[i] \in RouteCall
    BY DEF FleetInv, LaneInv, CallInv
  <2>2. route[i].sent = 11 /\ route[i].refunded # TRUE
    BY <2>1, EventPlaces DEF CallInv
  <2>3. Emitted(route[i], "settled")
    BY <2>2, EventPlaces DEF Emitted
  <2>4. ~route[i].refunded
    BY <2>1, <2>2, Zenon DEF RouteCall
  <2> QED
    BY <2>1, <2>3, <2>4 DEF Charged
<1>3. FinishedLanesAreSettled
  BY DEF FinishedLanesAreSettled, LaneIsLive, FleetInv, LaneInv
<1> QED
  BY <1>1, <1>2, <1>3

(* However many lanes and launches, and in whatever order their events,    *)
(* errors and the clicks of the visitor come: a fleet that reads is under  *)
(* Stop, a lane with an answer was charged for it, and a fleet that ended  *)
(* by itself leaves no lane looking busy (NetworkDemo.tsx).                *)
THEOREM FleetShowsItsCalls ==
    FleetSpec => [](SpendingFleetCanBeStopped /\ ServedLanesPaid /\ FinishedLanesAreSettled)
<1>1. FleetInit => FleetInv
  BY FleetInitInv
<1>2. FleetInv /\ [FleetNext]_fleetVars => FleetInv'
  BY FleetNextInv
<1>3. FleetInv => SpendingFleetCanBeStopped /\ ServedLanesPaid /\ FinishedLanesAreSettled
  BY FleetInvImplies
<1> QED
  BY <1>1, <1>2, <1>3, PTL DEF FleetSpec

-----------------------------------------------------------------------------
(*****************************************************************************)
(* The discovery page: what the pipeline and the cards show has happened to  *)
(* the request that is shown.                                                *)
(*****************************************************************************)
StageStates == {"hidden", "idle", "active", "done", "failed"}

\* Where the events of a request stand that complete the stages.
CompletedAt == [s \in StageIds |->
    CASE s = "intent" -> 2 [] s = "discovered" -> 3 [] s = "ranked" -> 4
      [] s = "selected" -> 5 [] s = "payment" -> 6 [] s = "invoking" -> 8
      [] OTHER -> 11]

\* The stages done in st are completed by the first n events.
DoneBy(st, n) == \A s \in StageIds : st[s] = "done" => n >= CompletedAt[s]

\* The page follows what was dispatched of its call, and a request that has
\* no token yet has left nothing of the one before.
DiscoverInv ==
    /\ CallInv(call)
    /\ stage \in [StageIds -> StageStates]
    /\ {chosen, result} \subseteq BOOLEAN
    /\ DoneBy(stage, call.seen)
    /\ runStep = "token" => call.seen = 0
    /\ chosen = TRUE => call.seen >= 4
    /\ result = TRUE => call.seen = 11 /\ answerShown = "whole"

LEMMA StagePlaces ==
    /\ StageIds = {"intent", "discovered", "ranked", "selected", "payment", "invoking",
                   "answering"}
    /\ Rank("intent") = 1 /\ Rank("discovered") = 2 /\ Rank("ranked") = 3
    /\ Rank("selected") = 4 /\ Rank("payment") = 5 /\ Rank("invoking") = 6
    /\ Rank("answering") = 7
<1>1. DOMAIN Stages = 1..7
  BY DEF Stages
<1>2. /\ Stages[1] = "intent" /\ Stages[2] = "discovered" /\ Stages[3] = "ranked"
      /\ Stages[4] = "selected" /\ Stages[5] = "payment" /\ Stages[6] = "invoking"
      /\ Stages[7] = "answering"
  BY DEF Stages
<1> HIDE DEF Stages
<1>3. StageIds = {"intent", "discovered", "ranked", "selected", "payment", "invoking",
                  "answering"}
  BY <1>1, <1>2 DEF StageIds
<1>4. \A n \in 1..7 :
          /\ Stages[n] = "intent" <=> n = 1
          /\ Stages[n] = "discovered" <=> n = 2
          /\ Stages[n] = "ranked" <=> n = 3
          /\ Stages[n] = "selected" <=> n = 4
          /\ Stages[n] = "payment" <=> n = 5
          /\ Stages[n] = "invoking" <=> n = 6
          /\ Stages[n] = "answering" <=> n = 7
  BY <1>2
<1> QED
  BY <1>1, <1>3, <1>4 DEF Rank

LEMMA CompletingEvents ==
    \A s \in StageIds : Position(Completes(s)) = CompletedAt[s] /\ CompletedAt[s] \in 2..11
<1> SUFFICES ASSUME NEW s \in StageIds
             PROVE  Position(Completes(s)) = CompletedAt[s] /\ CompletedAt[s] \in 2..11
  OBVIOUS
<1> QED
  BY StagePlaces, EventPlaces DEF Completes, CompletedAt

\* What may be ticked at m may be ticked by a handler that runs at m.
LEMMA MarkCompletes ==
    ASSUME NEW st \in [StageIds -> StageStates], NEW n \in Nat, DoneBy(st, n),
           NEW m \in Nat, m >= n, NEW s \in StageIds, m >= CompletedAt[s]
    PROVE  MarkDone(st, s) \in [StageIds -> StageStates] /\ DoneBy(MarkDone(st, s), m)
<1>1. MarkDone(st, s) \in [StageIds -> StageStates]
  BY DEF MarkDone, StageStates
<1>2. ASSUME NEW t \in StageIds, MarkDone(st, s)[t] = "done"
      PROVE  m >= CompletedAt[t]
  <2>1. CASE t = s
    BY <2>1
  <2>2. CASE t # s
    <3>1. st[t] = "done"
      BY <1>2, <2>2 DEF MarkDone
    <3> QED
      BY <3>1, CompletingEvents DEF DoneBy
  <2> QED
    BY <2>1, <2>2
<1> QED
  BY <1>1, <1>2 DEF DoneBy

LEMMA AdvanceCompletes ==
    ASSUME NEW st \in [StageIds -> StageStates], NEW n \in Nat, DoneBy(st, n),
           NEW m \in Nat, m >= n, NEW s \in StageIds,
           \A t \in StageIds : Rank(t) < Rank(s) => m >= CompletedAt[t]
    PROVE  Advance(st, s) \in [StageIds -> StageStates] /\ DoneBy(Advance(st, s), m)
<1>1. Advance(st, s) \in [StageIds -> StageStates]
  BY DEF Advance, StageStates
<1>2. ASSUME NEW t \in StageIds, Advance(st, s)[t] = "done"
      PROVE  m >= CompletedAt[t]
  <2>1. Rank(t) < Rank(s) \/ st[t] = "done"
    BY <1>2 DEF Advance
  <2> QED
    BY <2>1, CompletingEvents DEF DoneBy
<1> QED
  BY <1>1, <1>2 DEF DoneBy

LEMMA StagesBefore ==
    /\ CompletedAt["intent"] = 2 /\ CompletedAt["discovered"] = 3
    /\ CompletedAt["ranked"] = 4 /\ CompletedAt["selected"] = 5
    /\ CompletedAt["payment"] = 6 /\ CompletedAt["invoking"] = 8
    /\ CompletedAt["answering"] = 11
    /\ \A t \in StageIds :
          /\ ~(Rank(t) < Rank("intent"))
          /\ Rank(t) < Rank("discovered") => CompletedAt[t] <= 2
          /\ Rank(t) < Rank("ranked") => CompletedAt[t] <= 3
          /\ Rank(t) < Rank("selected") => CompletedAt[t] <= 4
          /\ Rank(t) < Rank("payment") => CompletedAt[t] <= 5
          /\ Rank(t) < Rank("invoking") => CompletedAt[t] <= 6
          /\ Rank(t) < Rank("answering") => CompletedAt[t] <= 8
<1>1. /\ CompletedAt["intent"] = 2 /\ CompletedAt["discovered"] = 3
      /\ CompletedAt["ranked"] = 4 /\ CompletedAt["selected"] = 5
      /\ CompletedAt["payment"] = 6 /\ CompletedAt["invoking"] = 8
      /\ CompletedAt["answering"] = 11
  BY StagePlaces DEF CompletedAt
<1> QED
  BY <1>1, StagePlaces

\* The stages done after an event are those it and the events before it
\* complete.
LEMMA EventCompletes ==
    ASSUME NEW n \in 0..10, stage \in [StageIds -> StageStates], DoneBy(stage, n)
    PROVE  /\ StagesAfter(RouteEvents[n + 1]) \in [StageIds -> StageStates]
           /\ DoneBy(StagesAfter(RouteEvents[n + 1]), n + 1)
<1> DEFINE Fits(st) == st \in [StageIds -> StageStates] /\ DoneBy(st, n + 1)
           event == RouteEvents[n + 1]
<1> SUFFICES Fits(StagesAfter(event))
  OBVIOUS
<1>1. /\ RouteEvents[1] = "intent" /\ RouteEvents[2] = "discovered"
      /\ RouteEvents[3] = "ranked" /\ RouteEvents[4] = "selected"
      /\ RouteEvents[5] = "authorising" /\ RouteEvents[6] = "settled"
      /\ RouteEvents[7] = "invoking" /\ RouteEvents[8] = "retrieval"
      /\ RouteEvents[9] = "token" /\ RouteEvents[10] = "follow_ups"
      /\ RouteEvents[11] = "done"
  BY DEF RouteEvents
<1>2. Fits(stage)
  BY CompletingEvents DEF DoneBy
<1>3. \A s \in StageIds : \A st :
          /\ Fits(st) /\ n + 1 >= CompletedAt[s] => Fits(MarkDone(st, s))
          /\ Fits(st) /\ (\A t \in StageIds : Rank(t) < Rank(s) => n + 1 >= CompletedAt[t])
               => Fits(Advance(st, s))
  <2> SUFFICES ASSUME NEW s \in StageIds, NEW st, Fits(st)
               PROVE  /\ n + 1 >= CompletedAt[s] => Fits(MarkDone(st, s))
                      /\ (\A t \in StageIds : Rank(t) < Rank(s) => n + 1 >= CompletedAt[t])
                            => Fits(Advance(st, s))
    OBVIOUS
  <2>1. n + 1 \in Nat /\ st \in [StageIds -> StageStates] /\ DoneBy(st, n + 1) /\ n + 1 >= n + 1
    OBVIOUS
  <2>2. ASSUME n + 1 >= CompletedAt[s] PROVE Fits(MarkDone(st, s))
    BY <2>1, <2>2, MarkCompletes
  <2>3. ASSUME \A t \in StageIds : Rank(t) < Rank(s) => n + 1 >= CompletedAt[t]
        PROVE  Fits(Advance(st, s))
    BY <2>1, <2>3, AdvanceCompletes
  <2> QED
    BY <2>2, <2>3
<1> HIDE DEF Fits
<1>4. \A t \in StageIds : CompletedAt[t] \in Nat
  BY CompletingEvents
<1>5. CASE n = 0
  <2>1. StagesAfter(event) = Advance(stage, "intent")
    BY <1>1, <1>5 DEF StagesAfter
  <2> QED
    BY <1>2, <1>3, <1>4, <1>5, <2>1, StagesBefore, StagePlaces
<1>6. CASE n = 1
  <2>1. StagesAfter(event) = Advance(MarkDone(stage, "intent"), "discovered")
    BY <1>1, <1>6 DEF StagesAfter
  <2> QED
    BY <1>2, <1>3, <1>4, <1>6, <2>1, StagesBefore, StagePlaces
<1>7. CASE n = 2
  <2>1. StagesAfter(event) = Advance(MarkDone(stage, "discovered"), "ranked")
    BY <1>1, <1>7 DEF StagesAfter
  <2> QED
    BY <1>2, <1>3, <1>4, <1>7, <2>1, StagesBefore, StagePlaces
<1>8. CASE n = 3
  <2>1. StagesAfter(event) = Advance(MarkDone(stage, "ranked"), "selected")
    BY <1>1, <1>8 DEF StagesAfter
  <2> QED
    BY <1>2, <1>3, <1>4, <1>8, <2>1, StagesBefore, StagePlaces
<1>9. CASE n = 4
  <2>1. StagesAfter(event) = Advance(MarkDone(stage, "selected"), "payment")
    BY <1>1, <1>9 DEF StagesAfter
  <2> QED
    BY <1>2, <1>3, <1>4, <1>9, <2>1, StagesBefore, StagePlaces
<1>10. CASE n = 5
  <2>1. StagesAfter(event) = MarkDone(stage, "payment")
    BY <1>1, <1>10 DEF StagesAfter
  <2> QED
    BY <1>2, <1>3, <1>4, <1>10, <2>1, StagesBefore, StagePlaces
<1>11. CASE n = 6
  <2>1. StagesAfter(event) = Advance(stage, "invoking")
    BY <1>1, <1>11 DEF StagesAfter
  <2> QED
    BY <1>2, <1>3, <1>4, <1>11, <2>1, StagesBefore, StagePlaces
<1>12. CASE n = 7
  <2>1. StagesAfter(event) = Advance(MarkDone(stage, "invoking"), "answering")
    BY <1>1, <1>12 DEF StagesAfter
  <2> QED
    BY <1>2, <1>3, <1>4, <1>12, <2>1, StagesBefore, StagePlaces
<1>13. CASE n = 10
  <2>1. StagesAfter(event) = MarkDone(stage, "answering")
    BY <1>1, <1>13 DEF StagesAfter
  <2> QED
    BY <1>2, <1>3, <1>4, <1>13, <2>1, StagesBefore, StagePlaces
<1>14. CASE n = 8 \/ n = 9
  <2>1. StagesAfter(event) = stage
    BY <1>1, <1>14 DEF StagesAfter
  <2> QED
    BY <1>2, <2>1
<1> QED
  BY <1>5, <1>6, <1>7, <1>8, <1>9, <1>10, <1>11, <1>12, <1>13, <1>14
-----------------------------------------------------------------------------
LEMMA FreshRequests == NoCall.seen = 0 /\ OpenCall.seen = 0
<1>1. NoCall \in RouteCall /\ NoCall.seen = 0
  BY FreshCalls DEF CallInv, NoCall
<1> QED
  BY <1>1 DEF OpenCall, RouteCall

LEMMA DiscoverInitInv == DiscoverInit => DiscoverInv
<1> SUFFICES ASSUME DiscoverInit PROVE DiscoverInv
  OBVIOUS
<1>1. DoneBy(stage, call.seen)
  BY DEF DiscoverInit, DoneBy
<1> QED
  BY <1>1, FreshCalls DEF DiscoverInit, DiscoverInv, StageStates

\* The call goes on, nothing is dispatched and the page stays.
LEMMA CallMoves ==
    ASSUME DiscoverInv, CallInv(call'), call'.seen = call.seen,
           UNCHANGED <<stage, shownVars>>, runStep' # "token" \/ runStep = "token"
    PROVE  DiscoverInv'
BY DEF DiscoverInv, DoneBy, shownVars

LEMMA DiscoverNextInv == DiscoverInv /\ [DiscoverNext]_discoverVars => DiscoverInv'
<1> SUFFICES ASSUME DiscoverInv, [DiscoverNext]_discoverVars PROVE DiscoverInv'
  OBVIOUS
<1>0. CallInv(call) /\ call \in RouteCall /\ EventCount = 11
  BY EventPlaces DEF DiscoverInv, CallInv
<1>1. CASE ClickRoute
  <2>1. CASE shown = 0
    BY <1>0, <1>1, <2>1, CallMoves DEF ClickRoute, shownVars, closureVars
  <2>2. CASE shown # 0
    <3>1. stage' = [s \in StageIds |-> "idle"] /\ call' = NoCall
      BY <1>1, <2>2 DEF ClickRoute
    <3>2. DoneBy(stage', call'.seen)
      BY <3>1 DEF DoneBy
    <3>3. chosen' = FALSE /\ result' = FALSE
      BY <1>1, <2>2 DEF ClickRoute
    <3> QED
      BY <3>1, <3>2, <3>3, FreshCalls, FreshRequests DEF DiscoverInv, StageStates
  <2> QED
    BY <2>1, <2>2
<1>2. CASE ClickStop \/ Leave \/ ClosePaywall \/ RefreshLands
  BY <1>0, <1>2, CallMoves DEF ClickStop, Leave, ClosePaywall, RefreshLands, shownVars,
                               closureVars
<1>3. CASE TokenAnswered
  <2>1. CASE TokenGranted
    <3>1. call.seen = 0 /\ call' = OpenCall /\ runStep' = "route"
      BY <2>1 DEF TokenGranted, DiscoverInv
    <3> QED
      BY <2>1, <3>1, FreshCalls, FreshRequests, CallMoves DEF TokenGranted
  <2>2. CASE TokenRefused
    BY <1>0, <2>2, CallMoves DEF TokenRefused, RunEnds
  <2> QED
    BY <1>3, <2>1, <2>2 DEF TokenAnswered
<1>4. CASE ServeRoute
  <2>1. PICK next \in ServerSteps(call) : call' = next
    BY <1>4 DEF ServeRoute
  <2>2. UNCHANGED <<stage, shownVars, runStep>>
    BY <1>4 DEF ServeRoute, closureVars
  <2> QED
    BY <1>0, <2>1, <2>2, ServerStep, CallMoves
<1>5. CASE Handle
  <2> DEFINE event == NextEvent(call)
  <2>1. CallInv(call') /\ call'.seen = call.seen + 1 /\ call.seen \in 0..10
    BY <1>0, <1>5, BrowserSteps DEF Handle, Dispatched, CanDispatch, CallInv, RouteCall
  <2>2. event = RouteEvents[call.seen + 1]
    BY DEF NextEvent
  <2>3. stage' = StagesAfter(event) /\ runStep' = "route"
    BY <1>5 DEF Handle, closureVars
  <2>4. stage' \in [StageIds -> StageStates] /\ DoneBy(stage', call.seen + 1)
    BY <2>1, <2>2, <2>3, EventCompletes DEF DiscoverInv
  <2>5. event = "selected" => call.seen = 3
    BY <2>1, <2>2 DEF RouteEvents
  <2>6. event = "done" <=> call.seen = 10
    BY <2>1, <2>2 DEF RouteEvents
  <2>7. chosen' \in BOOLEAN /\ (chosen' = TRUE => call.seen + 1 >= 4)
    <3>1. chosen' = (chosen \/ event = "selected")
      BY <1>5 DEF Handle
    <3>2. chosen' = TRUE => chosen = TRUE \/ event = "selected"
      BY <3>1, Zenon DEF DiscoverInv
    <3>3. chosen' \in BOOLEAN
      BY <3>1, Zenon
    <3> QED
      BY <2>1, <2>5, <3>2, <3>3 DEF DiscoverInv
  <2>8. result' \in BOOLEAN /\ (result' = TRUE => call.seen = 10 /\ answerShown' = "whole")
    <3>1. result' = (result \/ event = "done")
      BY <1>5 DEF Handle
    <3>2. result' = TRUE => result = TRUE \/ event = "done"
      BY <3>1, Zenon DEF DiscoverInv
    <3>3. result' \in BOOLEAN
      BY <3>1, Zenon
    <3>4. event = "done" => answerShown' = "whole"
      BY <1>5 DEF Handle
    <3> QED
      BY <2>1, <2>6, <3>2, <3>3, <3>4 DEF DiscoverInv
  <2> HIDE DEF event
  <2>9. DoneBy(stage, call.seen)'
    BY <2>1, <2>4 DEF DoneBy
  <2> QED
    BY <2>1, <2>3, <2>4, <2>7, <2>8, <2>9 DEF DiscoverInv
<1>6. ASSUME NEW forCredits \in BOOLEAN, RouteError(forCredits) PROVE DiscoverInv'
  <2>1. CallInv(call') /\ call'.seen = call.seen
    BY <1>0, <1>6, BrowserSteps DEF RouteError, Told, RouteCall
  <2>2. /\ stage' = [s \in StageIds |-> IF stage[s] = "active" THEN "failed" ELSE stage[s]]
        /\ UNCHANGED <<shownVars, runStep>>
    BY <1>6 DEF RouteError, closureVars
  <2>3. DoneBy(stage, call.seen)'
    BY <2>1, <2>2 DEF DoneBy, DiscoverInv
  <2>4. stage' \in [StageIds -> StageStates]
    BY <2>2 DEF DiscoverInv, StageStates
  <2> QED
    BY <2>1, <2>2, <2>3, <2>4 DEF DiscoverInv, shownVars
<1>7. CASE RouteResolved
  <2>1. CallInv(call') /\ call'.seen = call.seen
    BY <1>0, <1>7, BrowserSteps DEF RouteResolved, Aborted, CallOver, RouteCall
  <2> QED
    BY <1>7, <2>1, CallMoves DEF RouteResolved, RunEnds
<1>8. CASE UNCHANGED discoverVars
  BY <1>0, <1>8, CallMoves DEF discoverVars, shownVars
<1> QED
  BY <1>1, <1>2, <1>3, <1>4, <1>5, <1>6, <1>7, <1>8 DEF DiscoverNext, Reading

LEMMA DiscoverInvImplies == DiscoverInv => NoStepThatDidNotHappen /\ CardsTellOfOneRun
<1> SUFFICES ASSUME DiscoverInv PROVE NoStepThatDidNotHappen /\ CardsTellOfOneRun
  OBVIOUS
<1>0. /\ CallInv(call) /\ call.sent \in 0..11 /\ call.seen \in 0..11
      /\ call.seen <= call.sent
  BY EventPlaces DEF DiscoverInv, CallInv, RouteCall
<1>1. NoStepThatDidNotHappen
  <2> SUFFICES ASSUME NEW s \in StageIds, PipelineRow(s) = "tick"
               PROVE  Emitted(call, Completes(s))
    BY DEF NoStepThatDidNotHappen
  <2>1. call.seen >= CompletedAt[s]
    BY DEF PipelineRow, DiscoverInv, DoneBy
  <2> QED
    BY <1>0, <2>1, CompletingEvents DEF Emitted
<1>2. Scoreboard = "crowned" => Emitted(call, "selected")
  <2>1. Scoreboard = "crowned" => chosen = TRUE
    BY DEF Scoreboard, DiscoverInv
  <2> QED
    BY <1>0, <2>1, EventPlaces DEF DiscoverInv, Emitted
<1>3. ReputationCard => answerShown = "whole" /\ Charged(call) /\ call.fate = "done"
  <2> SUFFICES ASSUME ReputationCard
               PROVE  answerShown = "whole" /\ Charged(call) /\ call.fate = "done"
    OBVIOUS
  <2>1. result = TRUE
    BY DEF ReputationCard, DiscoverInv
  <2>2. answerShown = "whole" /\ call.sent = 11 /\ call.fate = "done"
    BY <1>0, <2>1, EventPlaces DEF DiscoverInv, CallInv
  <2>3. call.refunded # TRUE
    BY <1>0, <2>2 DEF CallInv
  <2>4. ~call.refunded
    BY <1>0, <2>3, Zenon DEF CallInv, RouteCall
  <2>5. Emitted(call, "settled")
    BY <2>2, EventPlaces DEF Emitted
  <2> QED
    BY <2>2, <2>4, <2>5 DEF Charged
<1> QED
  BY <1>1, <1>2, <1>3 DEF CardsTellOfOneRun

(* Whatever the visitor clicks and however a request ends, the pipeline    *)
(* ticks no step that the server has not completed for the request shown,  *)
(* and the crown and the reputation card are of that one request           *)
(* (DiscoverWorkspace.tsx), for any number of requests and credits.        *)
THEOREM StepsShownHappened ==
    DiscoverInit /\ [][DiscoverNext]_discoverVars
        => [](NoStepThatDidNotHappen /\ CardsTellOfOneRun)
<1>1. DiscoverInit => DiscoverInv
  BY DiscoverInitInv
<1>2. DiscoverInv /\ [DiscoverNext]_discoverVars => DiscoverInv'
  BY DiscoverNextInv
<1>3. DiscoverInv => NoStepThatDidNotHappen /\ CardsTellOfOneRun
  BY DiscoverInvImplies
<1> QED
  BY <1>1, <1>2, <1>3, PTL

-----------------------------------------------------------------------------
(*****************************************************************************)
(* The reader of an event stream.  Frames are eight symbols long; a Piece is *)
(* what was read since the end of a frame, Following(k, n) what the n frames *)
(* after the k-th come to.  PieceDispatched is what parseFrames makes of a   *)
(* piece: its recursion over the blocks is solved by exhibiting a solution   *)
(* and showing, from the last block on, that there is no other.              *)
(*****************************************************************************)
LEMMA EightSymbols == FrameLength = 8
  BY DEF FrameLength, Frame

\* The symbols of a frame differ, the three line ends excepted.
LEMMA FrameMarks ==
    ASSUME NEW k, NEW i \in 1..8
    PROVE  /\ Frame(k)[i] = Newline <=> i \in {3, 7, 8}
           /\ Frame(k)[i] = EventColon <=> i = 1
           /\ Frame(k)[i] = DataColon <=> i = 4
<1>1. /\ Frame(k)[1] = EventColon /\ Frame(k)[2] = Name(k) /\ Frame(k)[3] = Newline
      /\ Frame(k)[4] = DataColon /\ Frame(k)[5] = Payload(k)[1]
      /\ Frame(k)[6] = Payload(k)[2] /\ Frame(k)[7] = Newline /\ Frame(k)[8] = Newline
  BY DEF Frame
<1>2. \A s \in {Name(k), Payload(k)[1], Payload(k)[2]} :
          s # Newline /\ s # EventColon /\ s # DataColon
  <2>1. /\ Name(k)[1] = "name" /\ Payload(k)[1][1] = "first half"
        /\ Payload(k)[2][1] = "second half" /\ Newline[1] = "newline"
        /\ EventColon[1] = "event:" /\ DataColon[1] = "data:"
    BY DEF Name, Payload, Newline, EventColon, DataColon
  <2> QED BY <2>1
<1>3. Newline # EventColon /\ Newline # DataColon /\ EventColon # DataColon
  BY DEF Newline, EventColon, DataColon
<1>4. i = 1 \/ i = 2 \/ i = 3 \/ i = 4 \/ i = 5 \/ i = 6 \/ i = 7 \/ i = 8
  OBVIOUS
<1> QED BY <1>1, <1>2, <1>3, <1>4

\* Where the symbols of the k-th frame stand in the text.
LEMMA TextSymbols ==
    ASSUME FrameCount \in Nat
    PROVE  /\ DOMAIN Text = 1..(8 * FrameCount)
           /\ Len(Text) = 8 * FrameCount
           /\ \A k \in 1..FrameCount : \A i \in 1..8 : Text[8 * (k - 1) + i] = Frame(k)[i]
<1>1. Text = [i \in 1..(FrameCount * 8) |-> Frame(((i - 1) \div 8) + 1)[((i - 1) % 8) + 1]]
  BY EightSymbols DEF Text
<1>2. ASSUME NEW k \in 1..FrameCount, NEW i \in 1..8
      PROVE  Text[8 * (k - 1) + i] = Frame(k)[i]
  <2> DEFINE p == 8 * (k - 1) + i
  <2>1. p \in 1..(FrameCount * 8) /\ (p - 1) \div 8 = k - 1 /\ (p - 1) % 8 = i - 1
    OBVIOUS
  <2>2. Text[p] = Frame(((p - 1) \div 8) + 1)[((p - 1) % 8) + 1]
    BY <1>1, <2>1
  <2> QED BY <2>1, <2>2
<1>3. DOMAIN Text = 1..(8 * FrameCount) /\ Len(Text) = 8 * FrameCount
  BY <1>1
<1> QED BY <1>2, <1>3

\* The least and the greatest number of a set.
LEMMA LeastIs ==
    ASSUME NEW s \in SUBSET Int, NEW m \in s, \A x \in s : m <= x
    PROVE  Min(s) = m
<1> DEFINE least == Min(s)
<1>1. least \in s /\ least <= m
  BY DEF Min
<1> HIDE DEF least
<1>2. least = m
  BY <1>1
<1> QED BY <1>2 DEF least

LEMMA GreatestIs ==
    ASSUME NEW s \in SUBSET Int, NEW m \in s, \A x \in s : x <= m
    PROVE  Max(s) = m
<1> DEFINE greatest == Max(s)
<1>1. greatest \in s /\ m <= greatest
  BY DEF Max
<1> HIDE DEF greatest
<1>2. greatest = m
  BY <1>1
<1> QED BY <1>2 DEF greatest

-----------------------------------------------------------------------------
\* The first symbols of a frame.
Cut(k, r) == SubSeq(Frame(k), 1, r)

LEMMA CutSymbols ==
    ASSUME NEW k, NEW r \in 0..7
    PROVE  /\ Len(Cut(k, r)) = r
           /\ \A i \in 1..r : Cut(k, r)[i] = Frame(k)[i]
  BY DEF Cut, Frame

\* The lines that are left of a frame that is cut off.
LEMMA CutLines ==
    ASSUME NEW k, NEW r \in 0..7
    PROVE  /\ LineOf(Cut(k, r), EventColon) = SubSeq(Cut(k, r), 2, IF r >= 2 THEN 2 ELSE r)
           /\ LineOf(Cut(k, r), DataColon) =
                  IF r < 4 THEN SubSeq(Cut(k, r), r + 1, r)
                  ELSE SubSeq(Cut(k, r), 5, IF r >= 6 THEN 6 ELSE r)
<1> DEFINE block == Cut(k, r)
           From(mark) == {i \in 1..Len(block) : block[i] = mark} \cup {Len(block)}
           To(from) == {i \in (from + 1)..Len(block) : block[i] = Newline} \cup {Len(block) + 1}
           least(mark) == Min(From(mark))
<1>1. Len(block) = r /\ \A i \in 1..r : block[i] = Frame(k)[i]
  BY CutSymbols
<1>2. \A mark : LineOf(block, mark) =
          SubSeq(block, least(mark) + 1, Min(To(least(mark))) - 1)
  BY DEF LineOf
<1>3. /\ From(EventColon) = IF r = 0 THEN {0} ELSE {1, r}
      /\ From(DataColon) = IF r >= 4 THEN {4, r} ELSE {r}
  <2>1. \A i \in 1..r : (block[i] = EventColon <=> i = 1) /\ (block[i] = DataColon <=> i = 4)
    BY <1>1, FrameMarks
  <2> HIDE DEF block
  <2> QED BY <1>1, <2>1
<1>4. \A from \in 0..r : To(from) =
          {i \in (from + 1)..r : i \in {3, 7, 8}} \cup {r + 1}
  <2>1. \A i \in 1..r : block[i] = Newline <=> i \in {3, 7, 8}
    BY <1>1, FrameMarks
  <2> HIDE DEF block
  <2> QED BY <1>1, <2>1
<1> HIDE DEF block, From, To
<1>5. /\ Min(From(EventColon)) = IF r = 0 THEN 0 ELSE 1
      /\ Min(From(DataColon)) = IF r >= 4 THEN 4 ELSE r
  <2>1. CASE r = 0 BY <1>3, <2>1, LeastIs
  <2>2. CASE r \in 1..3
    <3>1. From(EventColon) = {1, r} /\ From(DataColon) = {r} BY <1>3, <2>2
    <3>2. Min({1, r}) = 1 /\ Min({r}) = r BY <2>2, LeastIs
    <3> QED BY <3>1, <3>2, <2>2
  <2>3. CASE r \in 4..7
    <3>1. From(EventColon) = {1, r} /\ From(DataColon) = {4, r} BY <1>3, <2>3
    <3>2. Min({1, r}) = 1 /\ Min({4, r}) = 4 BY <2>3, LeastIs
    <3> QED BY <3>1, <3>2, <2>3
  <2> QED BY <2>1, <2>2, <2>3
<1>6. /\ \A from \in 0..r : from < 3 => Min(To(from)) = IF r >= 3 THEN 3 ELSE r + 1
      /\ \A from \in 0..r : from \in 3..6 => Min(To(from)) = IF r = 7 THEN 7 ELSE r + 1
  <2>1. ASSUME NEW from \in 0..r, from < 3
        PROVE  Min(To(from)) = IF r >= 3 THEN 3 ELSE r + 1
    <3> DEFINE m == IF r >= 3 THEN 3 ELSE r + 1
    <3>1. To(from) \in SUBSET Int /\ m \in To(from) /\ \A i \in To(from) : m <= i
      BY <1>4, <2>1
    <3> QED BY <3>1, LeastIs
  <2>2. ASSUME NEW from \in 0..r, from \in 3..6
        PROVE  Min(To(from)) = IF r = 7 THEN 7 ELSE r + 1
    <3> DEFINE m == IF r = 7 THEN 7 ELSE r + 1
    <3>1. To(from) \in SUBSET Int /\ m \in To(from) /\ \A i \in To(from) : m <= i
      BY <1>4, <2>2
    <3> QED BY <3>1, LeastIs
  <2> QED BY <2>1, <2>2
<1>7. LineOf(block, EventColon) = SubSeq(block, 2, IF r >= 2 THEN 2 ELSE r)
  <2>1. CASE r = 0
    <3>1. Min(To(0)) = 1 BY <1>6, <2>1
    <3>2. LineOf(block, EventColon) = SubSeq(block, 1, 0) BY <1>2, <1>5, <2>1, <3>1
    <3> QED BY <2>1, <3>2
  <2>2. CASE r >= 1
    <3>1. Min(To(1)) - 1 = IF r >= 2 THEN 2 ELSE r BY <1>6, <2>2
    <3>2. least(EventColon) = 1 BY <1>5, <2>2
    <3>3. LineOf(block, EventColon) = SubSeq(block, 2, Min(To(1)) - 1) BY <1>2, <3>2
    <3> QED BY <3>1, <3>3
  <2> QED BY <2>1, <2>2
<1>8. LineOf(block, DataColon) =
          IF r < 4 THEN SubSeq(block, r + 1, r)
          ELSE SubSeq(block, 5, IF r >= 6 THEN 6 ELSE r)
  <2>1. CASE r < 4
    <3>1. Min(To(r)) = r + 1 BY <1>6, <2>1
    <3> QED BY <1>2, <1>5, <2>1, <3>1
  <2>2. CASE r >= 4
    <3>1. Min(To(4)) - 1 = IF r >= 6 THEN 6 ELSE r BY <1>6, <2>2
    <3>2. least(DataColon) = 4 BY <1>5, <2>2
    <3>3. LineOf(block, DataColon) = SubSeq(block, 5, Min(To(4)) - 1) BY <1>2, <3>2
    <3> QED BY <2>2, <3>1, <3>3
  <2> QED BY <2>1, <2>2
<1> QED BY <1>7, <1>8 DEF block

\* The shortest pieces of a sequence.
LEMMA ShortPieces ==
    ASSUME NEW s, NEW i \in Nat
    PROVE  SubSeq(s, i, i) = <<s[i]>> /\ SubSeq(s, i, i + 1) = <<s[i], s[i + 1]>>
<1> DEFINE one == SubSeq(s, i, i)
           two == SubSeq(s, i, i + 1)
<1>1. one = [j \in 1..1 |-> s[i + j - 1]] /\ two = [j \in 1..2 |-> s[i + j - 1]]
  OBVIOUS
<1> HIDE DEF one, two
<1>2. Len(one) = 1 /\ one \in Seq({s[i]}) /\ one[1] = s[i]
  BY <1>1
<1>3. Len(two) = 2 /\ two \in Seq({s[i], s[i + 1]}) /\ two[1] = s[i] /\ two[2] = s[i + 1]
  BY <1>1
<1>4. one = <<s[i]>> BY <1>2
<1>5. two = <<s[i], s[i + 1]>> BY <1>3
<1> QED BY <1>4, <1>5 DEF one, two

\* What is left of a frame is handed on when its payload is whole.
LEMMA CutDispatched ==
    ASSUME NEW k, NEW r \in 0..7, r >= 6 => k \in 1..FrameCount
    PROVE  HandedOn(Cut(k, r)) = IF r >= 6 THEN <<Handed(k)>> ELSE <<>>
<1> DEFINE event == LineOf(Cut(k, r), EventColon)
           data == LineOf(Cut(k, r), DataColon)
<1>1. Len(Cut(k, r)) = r /\ \A i \in 1..r : Cut(k, r)[i] = Frame(k)[i]
  BY CutSymbols
<1>2. ASSUME r >= 6
      PROVE  event = <<Name(k)>> /\ data = Payload(k)
  <2>1. event = SubSeq(Cut(k, r), 2, 2) /\ data = SubSeq(Cut(k, r), 5, 6)
    BY <1>2, CutLines
  <2>2. event = <<Frame(k)[2]>>
    BY <1>1, <1>2, <2>1, ShortPieces
  <2>3. data = <<Frame(k)[5], Frame(k)[6]>>
    BY <1>1, <1>2, <2>1, ShortPieces
  <2>4. Payload(k) = <<Payload(k)[1], Payload(k)[2]>>
    BY DEF Payload
  <2> QED BY <2>2, <2>3, <2>4 DEF Frame
<1>3. ASSUME r < 6, NEW n
      PROVE  data # Payload(n)
  <2>1. Len(data) < 2
    BY <1>1, <1>3, CutLines
  <2>2. Len(Payload(n)) = 2
    BY DEF Payload
  <2> QED BY <2>1, <2>2
<1> HIDE DEF event, data
<1>4. HandedOn(Cut(k, r)) =
          IF \E m, n \in 1..FrameCount : event = <<Name(m)>> /\ data = Payload(n)
          THEN <<[event |-> event, data |-> data]>> ELSE <<>>
  BY DEF HandedOn, event, data
<1> QED
  BY <1>2, <1>3, <1>4 DEF Handed
-----------------------------------------------------------------------------
\* What is read from the end of a frame up to anywhere.
Piece(m, b) == SubSeq(Text, 8 * m + 1, b)

LEMMA PieceSymbols ==
    ASSUME FrameCount \in Nat, NEW m \in Nat, NEW b \in (8 * m)..(8 * FrameCount)
    PROVE  /\ Len(Piece(m, b)) = b - 8 * m
           /\ \A i \in 1..(b - 8 * m) : Piece(m, b)[i] = Text[8 * m + i]
           /\ \A j \in Nat, i \in 1..8 :
                  8 * j + i <= b - 8 * m => Piece(m, b)[8 * j + i] = Frame(m + j + 1)[i]
<1>1. /\ Len(Piece(m, b)) = b - 8 * m
      /\ \A i \in 1..(b - 8 * m) : Piece(m, b)[i] = Text[8 * m + i]
  BY TextSymbols DEF Piece
<1>2. ASSUME NEW j \in Nat, NEW i \in 1..8, 8 * j + i <= b - 8 * m
      PROVE  Piece(m, b)[8 * j + i] = Frame(m + j + 1)[i]
  <2>1. 8 * j + i \in 1..(b - 8 * m) /\ m + j + 1 \in 1..FrameCount
    BY <1>2
  <2>2. 8 * m + (8 * j + i) = 8 * ((m + j + 1) - 1) + i
    OBVIOUS
  <2> QED BY <1>1, <2>1, <2>2, TextSymbols
<1> QED BY <1>1, <1>2

\* Its blocks end with its frames ...
LEMMA PieceEnds ==
    ASSUME FrameCount \in Nat, NEW m \in Nat, NEW b \in (8 * m)..(8 * FrameCount)
    PROVE  BlockEnds(Piece(m, b)) = {i \in 1..(b - 8 * m) : i % 8 = 0}
<1> DEFINE text == Piece(m, b)
<1>1. Len(text) = b - 8 * m
  BY PieceSymbols
<1>2. ASSUME NEW i \in 1..(b - 8 * m)
      PROVE  text[i] = Newline <=> i % 8 \in {3, 7, 0}
  <2> DEFINE j == (i - 1) \div 8
             o == ((i - 1) % 8) + 1
  <2>1. j \in Nat /\ o \in 1..8 /\ i = 8 * j + o /\ (i % 8 \in {3, 7, 0} <=> o \in {3, 7, 8})
    OBVIOUS
  <2> HIDE DEF j, o
  <2>2. text[i] = Frame(m + j + 1)[o]
    <3>1. 8 * j + o <= b - 8 * m
      BY <2>1
    <3>2. text[8 * j + o] = Frame(m + j + 1)[o]
      BY <2>1, <3>1, PieceSymbols
    <3> QED BY <2>1, <3>2
  <2> QED BY <2>1, <2>2, FrameMarks
<1> HIDE DEF text
<1>3. \A i \in 2..(b - 8 * m) : (text[i - 1] = Newline /\ text[i] = Newline) <=> i % 8 = 0
  <2> SUFFICES ASSUME NEW i \in 2..(b - 8 * m)
               PROVE  (text[i - 1] = Newline /\ text[i] = Newline) <=> i % 8 = 0
    OBVIOUS
  <2>1. /\ text[i - 1] = Newline <=> (i - 1) % 8 \in {3, 7, 0}
        /\ text[i] = Newline <=> i % 8 \in {3, 7, 0}
    BY <1>2
  <2>2. ((i - 1) % 8 \in {3, 7, 0} /\ i % 8 \in {3, 7, 0}) <=> i % 8 = 0
    OBVIOUS
  <2> QED BY <2>1, <2>2
<1>4. \A i \in 1..(b - 8 * m) : i % 8 = 0 => i \in 2..(b - 8 * m)
  OBVIOUS
<1>5. BlockEnds(text) = {i \in 2..(b - 8 * m) : text[i - 1] = Newline /\ text[i] = Newline}
  BY <1>1 DEF BlockEnds
<1> QED BY <1>3, <1>4, <1>5 DEF text

\* ... and are those, the last one cut off anywhere.
LEMMA PieceBlocks ==
    ASSUME FrameCount \in Nat, NEW m \in Nat, NEW b \in (8 * m)..(8 * FrameCount),
           NEW j \in Nat, NEW r \in 0..7, 8 * j + r <= b - 8 * m
    PROVE  SubSeq(Piece(m, b), 8 * j + 1, 8 * j + r) = Cut(m + j + 1, r)
<1> DEFINE text == Piece(m, b)
           block == SubSeq(text, 8 * j + 1, 8 * j + r)
           cut == Cut(m + j + 1, r)
<1>1. block = [i \in 1..r |-> text[8 * j + i]]
  <2>1. block = [i \in 1..((8 * j + r) - (8 * j + 1) + 1) |-> text[(8 * j + 1) + i - 1]]
    OBVIOUS
  <2>2. (8 * j + r) - (8 * j + 1) + 1 = r /\ \A i \in 1..r : (8 * j + 1) + i - 1 = 8 * j + i
    OBVIOUS
  <2> HIDE DEF block, text
  <2> QED BY <2>1, <2>2
<1>2. cut = [i \in 1..r |-> Frame(m + j + 1)[i]]
  BY DEF Cut
<1>3. \A i \in 1..r : text[8 * j + i] = Frame(m + j + 1)[i]
  <2>1. \A i \in 1..r : i \in 1..8 /\ 8 * j + i <= b - 8 * m
    OBVIOUS
  <2> QED BY <2>1, PieceSymbols
<1> HIDE DEF block, text, cut
<1>4. block = cut
  BY <1>1, <1>2, <1>3
<1> QED BY <1>4 DEF block, text, cut
-----------------------------------------------------------------------------
\* The recursion of Dispatchable, and what solves it.
NextBlock(text, from) == Min({i \in BlockEnds(text) : i >= from + 2} \cup {Len(text) + 2})
Dispatches(text, f) ==
    f = [from \in {0} \cup BlockEnds(text) |->
            HandedOn(SubSeq(text, from + 1, NextBlock(text, from) - 2))
                \o IF NextBlock(text, from) > Len(text) THEN <<>>
                   ELSE f[NextBlock(text, from)]]

LEMMA DispatchIsRecursion ==
    ASSUME NEW text
    PROVE  Dispatchable(text) = (CHOOSE f : Dispatches(text, f))[0]
  BY DEF Dispatchable, Dispatches, NextBlock

\* A sequence that begins as one and goes on as another joins the two.
LEMMA Joined ==
    ASSUME NEW S, NEW s \in Seq(S), NEW t \in Seq(S), NEW u \in Seq(S),
           Len(u) = Len(s) + Len(t),
           \A i \in 1..Len(s) : u[i] = s[i],
           \A k \in 1..Len(t) : u[Len(s) + k] = t[k]
    PROVE  s \o t = u
<1> DEFINE st == s \o t
<1>1. st \in Seq(S) /\ Len(st) = Len(u)
  OBVIOUS
<1>2. ASSUME NEW i \in 1..Len(u) PROVE st[i] = u[i]
  <2>1. CASE i <= Len(s)
    <3>1. st[i] = s[i]
      BY <2>1
    <3> QED BY <2>1, <3>1
  <2>2. CASE i > Len(s)
    <3>1. i - Len(s) \in 1..Len(t) /\ Len(s) + (i - Len(s)) = i
      BY <2>2
    <3>2. st[i] = t[i - Len(s)]
      BY <2>2
    <3> QED BY <3>1, <3>2
  <2>3. i <= Len(s) \/ i > Len(s)
    OBVIOUS
  <2> QED BY <2>1, <2>2, <2>3
<1> HIDE DEF st
<1>3. st = u
  BY <1>1, <1>2
<1> QED BY <1>3 DEF st

\* The frames that follow the k-th, as many as n.
Following(k, n) == [i \in 1..n |-> Handed(k + i)]

\* ... and after those, as many as p more.
LEMMA FollowingMore ==
    ASSUME NEW k \in Nat, NEW n \in Nat, NEW p \in Nat
    PROVE  Following(k, n) \o Following(k + n, p) = Following(k, n + p)
<1> DEFINE S == {Handed(i) : i \in Nat}
           old == Following(k, n)
           more == Following(k + n, p)
           all == Following(k, n + p)
<1>1. \A i \in Nat : Handed(k + i) \in S /\ Handed((k + n) + i) \in S
  OBVIOUS
<1> HIDE DEF S
<1>2. old \in Seq(S) /\ Len(old) = n /\ \A i \in 1..n : old[i] = Handed(k + i)
  BY <1>1 DEF Following
<1>3. more \in Seq(S) /\ Len(more) = p /\ \A i \in 1..p : more[i] = Handed((k + n) + i)
  BY <1>1 DEF Following
<1>4. all \in Seq(S) /\ Len(all) = n + p /\ \A i \in 1..(n + p) : all[i] = Handed(k + i)
  BY <1>1 DEF Following
<1> HIDE DEF old, more, all
<1>5. \A i \in 1..n : i \in 1..(n + p)
  OBVIOUS
<1>6. \A i \in 1..p : n + i \in 1..(n + p) /\ k + (n + i) = (k + n) + i
  OBVIOUS
<1>7. \A i \in 1..Len(old) : all[i] = old[i]
  BY <1>2, <1>4, <1>5
<1>8. \A i \in 1..Len(more) : all[Len(old) + i] = more[i]
  BY <1>2, <1>3, <1>4, <1>6
<1>9. old \o more = all
  BY <1>2, <1>3, <1>4, <1>7, <1>8, Joined
<1> QED BY <1>9 DEF old, more, all

LEMMA FollowingOne == ASSUME NEW k \in Nat PROVE Following(k, 1) = <<Handed(k + 1)>>
  BY DEF Following

\* One block of a piece: a whole frame, or what is left of the last one.
LEMMA BlockByBlock ==
    ASSUME FrameCount \in Nat, NEW m \in Nat, NEW b \in (8 * m)..(8 * FrameCount),
           NEW j \in Nat, 8 * j <= b - 8 * m
    PROVE  LET text == Piece(m, b)
               block == SubSeq(text, 8 * j + 1, NextBlock(text, 8 * j) - 2)
           IN  IF 8 * j + 8 <= b - 8 * m
               THEN NextBlock(text, 8 * j) = 8 * j + 8 /\ HandedOn(block) = <<Handed(m + j + 1)>>
               ELSE /\ NextBlock(text, 8 * j) > Len(text)
                    /\ HandedOn(block) = Following(m + j, ((b + 2) \div 8) - m - j)
<1> DEFINE text == Piece(m, b)
           len == b - 8 * m
           later == {i \in 1..len : i % 8 = 0 /\ i >= 8 * j + 2} \cup {len + 2}
           next == NextBlock(text, 8 * j)
<1>1. Len(text) = len /\ len \in Nat
  <2>1. Len(text) = b - 8 * m
    BY PieceSymbols
  <2>2. b - 8 * m \in Nat
    OBVIOUS
  <2> QED BY <2>1, <2>2
<1>2. next = Min(later)
  <2>1. {i \in BlockEnds(text) : i >= 8 * j + 2} = {i \in 1..len : i % 8 = 0 /\ i >= 8 * j + 2}
    BY PieceEnds
  <2> QED BY <1>1, <2>1 DEF NextBlock
<1>3. CASE 8 * j + 8 <= len
  <2>1. /\ later \in SUBSET Int /\ 8 * j + 8 \in later
        /\ \A i \in later : 8 * j + 8 <= i
    BY <1>3
  <2> HIDE DEF later
  <2>2. next = 8 * j + 8
    BY <1>2, <2>1, LeastIs
  <2>3. SubSeq(text, 8 * j + 1, 8 * j + 6) = Cut(m + j + 1, 6)
    <3>1. 6 \in 0..7 /\ 8 * j + 6 <= b - 8 * m
      BY <1>3
    <3> QED BY <3>1, PieceBlocks
  <2>4. m + j + 1 \in 1..FrameCount
    BY <1>3
  <2>5. HandedOn(Cut(m + j + 1, 6)) = <<Handed(m + j + 1)>>
    BY <2>4, CutDispatched
  <2>6. next - 2 = 8 * j + 6
    BY <2>2
  <2> HIDE DEF next, text
  <2> QED BY <1>3, <2>2, <2>3, <2>5, <2>6 DEF next, text
<1>4. CASE 8 * j + 8 > len
  <2> DEFINE r == len - 8 * j
             n == ((b + 2) \div 8) - m - j
  <2>1. r \in 0..7 /\ 8 * j + r = len
    BY <1>1, <1>4
  <2>2. n = IF r >= 6 THEN 1 ELSE 0
    BY <2>1
  <2>3. r >= 6 => m + j + 1 \in 1..FrameCount
    BY <2>1
  <2>4. later \in SUBSET Int /\ len + 2 \in later /\ \A i \in later : len + 2 <= i
    BY <1>1, <1>4
  <2> HIDE DEF later, r
  <2>5. next = len + 2
    BY <1>1, <1>2, <2>4, LeastIs
  <2>6. SubSeq(text, 8 * j + 1, next - 2) = Cut(m + j + 1, r)
    <3>1. SubSeq(text, 8 * j + 1, 8 * j + r) = Cut(m + j + 1, r)
      <4>1. 8 * j + r <= b - 8 * m
        BY <2>1
      <4> QED BY <2>1, <4>1, PieceBlocks
    <3>2. next - 2 = 8 * j + r
      BY <1>1, <2>1, <2>5
    <3> QED BY <3>1, <3>2
  <2>7. HandedOn(Cut(m + j + 1, r)) = IF r >= 6 THEN <<Handed(m + j + 1)>> ELSE <<>>
    BY <2>1, <2>3, CutDispatched
  <2> HIDE DEF n
  <2>8. Following(m + j, n) = IF r >= 6 THEN <<Handed(m + j + 1)>> ELSE <<>>
    BY <2>2 DEF Following
  <2>9. next > len
    BY <1>1, <2>5
  <2>10. ~(8 * j + 8 <= b - 8 * m)
    BY <1>1, <1>4
  <2> HIDE DEF next, text, len
  <2> QED BY <1>1, <2>6, <2>7, <2>8, <2>9, <2>10 DEF next, text, n
<1>5. 8 * j + 8 <= len \/ 8 * j + 8 > len
  BY <1>1
<1> QED BY <1>3, <1>4, <1>5
\* What a piece comes to: its frames, each handed on once and in order.
LEMMA PieceDispatched ==
    ASSUME FrameCount \in Nat, NEW m \in Nat, NEW b \in (8 * m)..(8 * FrameCount)
    PROVE  Dispatchable(Piece(m, b)) = Following(m, ((b + 2) \div 8) - m)
<1> DEFINE text == Piece(m, b)
           len == b - 8 * m
           n == ((b + 2) \div 8) - m
           Starts == {0} \cup BlockEnds(text)
           first(from) == HandedOn(SubSeq(text, from + 1, NextBlock(text, from) - 2))
           next(from) == NextBlock(text, from)
           rest(from) == Following(m + (from \div 8), n - (from \div 8))
<1>1. len \in Nat /\ Len(text) = len
  BY PieceSymbols
<1>2. n \in Nat
  OBVIOUS
<1>3. \A from \in Starts : from \in 0..len /\ from % 8 = 0
  BY <1>1, PieceEnds
<1>4. \A from \in 0..len : from % 8 = 0 => from \in Starts
  BY PieceEnds
<1>5. ASSUME NEW from \in Starts
      PROVE  /\ rest(from) = first(from) \o IF next(from) > Len(text) THEN <<>>
                                            ELSE rest(next(from))
             /\ next(from) > Len(text) \/ (next(from) \in Starts /\ next(from) > from)
  <2> DEFINE j == from \div 8
  <2>1. from \in 0..len /\ j \in Nat /\ from = 8 * j
    BY <1>1, <1>3
  <2>2. CASE from + 8 <= len
    <3>1. next(from) = from + 8 /\ first(from) = <<Handed(m + j + 1)>>
      <4>1. 8 * j <= b - 8 * m /\ 8 * j + 8 <= b - 8 * m
        BY <2>1, <2>2
      <4> HIDE DEF j
      <4> QED BY <2>1, <4>1, BlockByBlock
    <3>2. from + 8 \in Starts /\ (from + 8) \div 8 = j + 1 /\ j < n
      <4>1. from + 8 \in 0..len /\ (from + 8) % 8 = 0
        BY <1>1, <2>1, <2>2
      <4>2. (from + 8) \div 8 = j + 1 /\ j < n
        BY <2>1, <2>2
      <4> QED BY <1>4, <4>1, <4>2
    <3> HIDE DEF j, n, Starts, first
    <3>3. m + j \in Nat /\ n - j \in Nat \ {0} /\ m + (j + 1) = (m + j) + 1
          /\ n - (j + 1) = (n - j) - 1
      BY <1>2, <2>1, <3>2
    <3>4. Following(m + j, n - j) = <<Handed((m + j) + 1)>> \o Following((m + j) + 1, (n - j) - 1)
      <4>1. 1 \in Nat /\ (n - j) - 1 \in Nat /\ 1 + ((n - j) - 1) = n - j
        BY <3>3
      <4>2. Following(m + j, 1) \o Following((m + j) + 1, (n - j) - 1)
                = Following(m + j, 1 + ((n - j) - 1))
        BY <3>3, <4>1, FollowingMore
      <4> QED BY <3>3, <4>1, <4>2, FollowingOne
    <3>5. rest(from) = Following(m + j, n - j)
      BY DEF j
    <3>6. rest(from + 8) = Following((m + j) + 1, (n - j) - 1)
      BY <3>2, <3>3
    <3> HIDE DEF rest, next
    <3>7. ~(next(from) > Len(text)) /\ next(from) > from
      BY <1>1, <2>1, <2>2, <3>1
    <3> QED BY <3>1, <3>2, <3>4, <3>5, <3>6, <3>7
  <2>3. CASE from + 8 > len
    <3>1. 8 * j <= b - 8 * m /\ ~(8 * j + 8 <= b - 8 * m)
      BY <2>1, <2>3
    <3>2. next(from) > Len(text) /\ first(from) = Following(m + j, ((b + 2) \div 8) - m - j)
      BY <2>1, <3>1, BlockByBlock
    <3> DEFINE left == n - j
    <3>3. left = IF len - from >= 6 THEN 1 ELSE 0
      BY <2>1, <2>3
    <3>4. rest(from) = Following(m + j, left) /\ first(from) = Following(m + j, left)
      BY <3>2
    <3> HIDE DEF left, first, rest
    <3>5. Following(m + j, left) \o <<>> = Following(m + j, left)
      <4>1. Following((m + j) + left, 0) = <<>>
        BY DEF Following
      <4>2. m + j \in Nat /\ left \in Nat /\ 0 \in Nat /\ left + 0 = left
        BY <2>1, <3>3
      <4> HIDE DEF j
      <4>3. Following(m + j, left) \o Following((m + j) + left, 0) = Following(m + j, left + 0)
        BY <4>2, FollowingMore
      <4> QED BY <4>1, <4>2, <4>3
    <3> QED BY <3>2, <3>4, <3>5
  <2>4. from + 8 <= len \/ from + 8 > len
    BY <1>1, <2>1
  <2> QED BY <2>2, <2>3, <2>4
<1> HIDE DEF n, first, next, rest
<1> DEFINE solution == [from \in Starts |-> rest(from)]
<1>6. Dispatches(text, solution)
  <2>1. \A from \in Starts :
            rest(from) = first(from) \o IF next(from) > Len(text) THEN <<>>
                                       ELSE solution[next(from)]
    BY <1>5
  <2> HIDE DEF solution
  <2>2. solution = [from \in Starts |-> first(from) \o IF next(from) > Len(text) THEN <<>>
                                                       ELSE solution[next(from)]]
    BY <2>1 DEF solution
  <2> QED BY <2>2 DEF Dispatches, first, next
<1>7. PICK f : f = (CHOOSE g : Dispatches(text, g)) /\ Dispatches(text, f)
  BY <1>6
<1>8. \A from \in Starts : f[from] = first(from) \o IF next(from) > Len(text) THEN <<>>
                                                  ELSE f[next(from)]
  BY <1>7 DEF Dispatches, first, next
<1>9. \A from \in Starts : f[from] = rest(from)
  <2> DEFINE Wrong == {from \in Starts : f[from] # rest(from)}
             Ends == {len - from : from \in Wrong}
  <2> SUFFICES ASSUME Wrong # {} PROVE FALSE
    OBVIOUS
  <2>1. Wrong \subseteq 0..len /\ Wrong \subseteq Starts
    BY <1>3
  <2> HIDE DEF Starts
  <2>2. Ends \subseteq 0..len /\ Ends # {}
    BY <1>1, <2>1
  <2> HIDE DEF len, Ends
  <2>3. IsFiniteSet(Ends) /\ Ends \subseteq Int
    <3>1. IsFiniteSet(0..len)
      BY <1>1, FS_Interval
    <3>2. IsFiniteSet(Ends)
      BY <2>2, <3>1, FS_Subset
    <3>3. 0..len \subseteq Int
      BY <1>1
    <3> QED BY <2>2, <3>2, <3>3
  <2>4. PICK last \in Wrong : \A from \in Wrong : len - last <= len - from
    <3>1. PICK e \in Ends : \A x \in Ends : e <= x
      BY <2>2, <2>3, LeastMember
    <3> QED BY <3>1 DEF Ends
  <2>5. next(last) > Len(text) \/ (next(last) \notin Wrong /\ next(last) \in Starts)
    <3>1. next(last) > Len(text) \/ (next(last) \in Starts /\ next(last) > last)
      BY <1>5, <2>1
    <3>2. \A from \in Wrong : ~(from > last)
      BY <1>1, <2>1, <2>4
    <3> QED BY <3>1, <3>2
  <2>6. next(last) > Len(text) \/ f[next(last)] = rest(next(last))
    BY <2>5
  <2>7. f[last] = rest(last)
    BY <1>5, <1>8, <2>1, <2>6
  <2> QED BY <2>7
<1>10. Dispatchable(text) = rest(0)
  BY <1>7, <1>9, DispatchIsRecursion
<1>11. rest(0) = Following(m, n)
  BY <1>2 DEF rest
<1> QED BY <1>10, <1>11 DEF n
-----------------------------------------------------------------------------
\* Pieces, cut in two and put together.
LEMMA PieceCut ==
    ASSUME FrameCount \in Nat, NEW m \in Nat, NEW b \in (8 * m)..(8 * FrameCount),
           NEW q \in Nat, m <= q, 8 * q <= b
    PROVE  /\ SubSeq(Piece(m, b), 1, 8 * (q - m)) = Piece(m, 8 * q)
           /\ SubSeq(Piece(m, b), 8 * (q - m) + 1, Len(Piece(m, b))) = Piece(q, b)
<1> DEFINE text == Piece(m, b)
           front == SubSeq(text, 1, 8 * (q - m))
           back == SubSeq(text, 8 * (q - m) + 1, b - 8 * m)
<1>1. Len(text) = b - 8 * m /\ \A i \in 1..(b - 8 * m) : text[i] = Text[8 * m + i]
  BY PieceSymbols
<1>2. \A c \in Nat, d \in Nat : SubSeq(text, c + 1, d) = [i \in 1..(d - c) |-> text[c + i]]
  <2> HIDE DEF text
  <2> SUFFICES ASSUME NEW c \in Nat, NEW d \in Nat
               PROVE  SubSeq(text, c + 1, d) = [i \in 1..(d - c) |-> text[c + i]]
    OBVIOUS
  <2>1. SubSeq(text, c + 1, d) = [i \in 1..(d - (c + 1) + 1) |-> text[(c + 1) + i - 1]]
    OBVIOUS
  <2>2. d - (c + 1) + 1 = d - c /\ \A i \in 1..(d - c) : (c + 1) + i - 1 = c + i
    OBVIOUS
  <2> QED BY <2>1, <2>2
<1>3. \A c \in Nat, d \in Nat : Piece(c, d) = [i \in 1..(d - 8 * c) |-> Text[8 * c + i]]
  <2> SUFFICES ASSUME NEW c \in Nat, NEW d \in Nat
               PROVE  Piece(c, d) = [i \in 1..(d - 8 * c) |-> Text[8 * c + i]]
    OBVIOUS
  <2>1. Piece(c, d) = [i \in 1..(d - (8 * c + 1) + 1) |-> Text[(8 * c + 1) + i - 1]]
    BY DEF Piece
  <2>2. d - (8 * c + 1) + 1 = d - 8 * c /\ \A i \in 1..(d - 8 * c) : (8 * c + 1) + i - 1 = 8 * c + i
    OBVIOUS
  <2> QED BY <2>1, <2>2
<1> HIDE DEF text
<1>4. SubSeq(text, 0 + 1, 8 * (q - m)) = Piece(m, 8 * q)
  <2>1. SubSeq(text, 0 + 1, 8 * (q - m)) = [i \in 1..(8 * (q - m) - 0) |-> text[0 + i]]
    <3>1. 0 \in Nat /\ 8 * (q - m) \in Nat
      OBVIOUS
    <3> QED BY <1>2, <3>1
  <2>2. Piece(m, 8 * q) = [i \in 1..(8 * q - 8 * m) |-> Text[8 * m + i]]
    <3>1. 8 * q \in Nat
      OBVIOUS
    <3> QED BY <1>3, <3>1
  <2>3. 8 * (q - m) - 0 = 8 * q - 8 * m
        /\ \A i \in 1..(8 * q - 8 * m) : 0 + i = i /\ i \in 1..(b - 8 * m)
    OBVIOUS
  <2> QED BY <1>1, <2>1, <2>2, <2>3
<1>5. SubSeq(text, 8 * (q - m) + 1, b - 8 * m) = Piece(q, b)
  <2>1. SubSeq(text, 8 * (q - m) + 1, b - 8 * m)
            = [i \in 1..((b - 8 * m) - 8 * (q - m)) |-> text[8 * (q - m) + i]]
    <3>1. 8 * (q - m) \in Nat /\ b - 8 * m \in Nat
      OBVIOUS
    <3> QED BY <1>2, <3>1
  <2>2. Piece(q, b) = [i \in 1..(b - 8 * q) |-> Text[8 * q + i]]
    <3>1. b \in Nat
      OBVIOUS
    <3> QED BY <1>3, <3>1
  <2>3. /\ (b - 8 * m) - 8 * (q - m) = b - 8 * q
        /\ \A i \in 1..(b - 8 * q) : /\ 8 * (q - m) + i \in 1..(b - 8 * m)
                                     /\ 8 * m + (8 * (q - m) + i) = 8 * q + i
    OBVIOUS
  <2> QED BY <1>1, <2>1, <2>2, <2>3
<1> QED BY <1>1, <1>4, <1>5 DEF text

LEMMA PieceGrows ==
    ASSUME FrameCount \in Nat, NEW m \in Nat, NEW a \in (8 * m)..(8 * FrameCount),
           NEW n \in Nat, a + n <= 8 * FrameCount
    PROVE  Piece(m, a) \o SubSeq(Text, a + 1, a + n) = Piece(m, a + n)
<1> DEFINE old == Piece(m, a)
           chunk == SubSeq(Text, a + 1, a + n)
           new == Piece(m, a + n)
<1>1. Len(old) = a - 8 * m /\ \A i \in 1..(a - 8 * m) : old[i] = Text[8 * m + i]
  BY PieceSymbols
<1>2. /\ Len(new) = (a + n) - 8 * m
      /\ \A i \in 1..((a + n) - 8 * m) : new[i] = Text[8 * m + i]
  <2>1. a + n \in (8 * m)..(8 * FrameCount)
    OBVIOUS
  <2> QED BY <2>1, PieceSymbols
<1>3. Len(chunk) = n /\ \A i \in 1..n : chunk[i] = Text[a + i]
  OBVIOUS
<1>4. \E S : old \in Seq(S) /\ chunk \in Seq(S) /\ new \in Seq(S)
  <2> DEFINE S == {Text[i] : i \in Int}
  <2>1. old \in Seq(S) /\ new \in Seq(S)
    BY DEF Piece
  <2>2. chunk \in Seq(S)
    OBVIOUS
  <2> QED BY <2>1, <2>2
<1> HIDE DEF old, chunk, new
<1>5. PICK S : old \in Seq(S) /\ chunk \in Seq(S) /\ new \in Seq(S)
  BY <1>4
<1>6. \A i \in 1..Len(old) : new[i] = old[i]
  <2>1. \A i \in 1..(a - 8 * m) : i \in 1..((a + n) - 8 * m)
    OBVIOUS
  <2> QED BY <1>1, <1>2, <2>1
<1>7. \A k \in 1..Len(chunk) : new[Len(old) + k] = chunk[k]
  <2>1. \A k \in 1..n : /\ (a - 8 * m) + k \in 1..((a + n) - 8 * m)
                        /\ 8 * m + ((a - 8 * m) + k) = a + k
    OBVIOUS
  <2> QED BY <1>1, <1>2, <1>3, <2>1
<1>8. Len(new) = Len(old) + Len(chunk)
  BY <1>1, <1>2, <1>3
<1>9. old \o chunk = new
  BY <1>5, <1>6, <1>7, <1>8, Joined
<1> QED BY <1>9 DEF old, chunk, new

-----------------------------------------------------------------------------
\* The buffer holds what was read since the last frame that was whole; the
\* handlers were given the frames before it.
StreamInv ==
    /\ arrived \in 0..(8 * FrameCount)
    /\ body \in {"open", "ended", "broken", "left"}
    /\ buffer = Piece(arrived \div 8, arrived)
    /\ got = Following(0, IF body = "ended" THEN (arrived + 2) \div 8 ELSE arrived \div 8)

LEMMA StreamInits == ASSUME FrameCount \in Nat, StreamInit PROVE StreamInv
<1>1. /\ arrived = 0 /\ buffer = <<>> /\ got = <<>> /\ body = "open"
  BY DEF StreamInit
<1>2. Piece(0, 0) = <<>> /\ Following(0, 0) = <<>>
  BY DEF Piece, Following
<1>3. 0 \div 8 = 0
  OBVIOUS
<1> QED BY <1>1, <1>2, <1>3 DEF StreamInv

LEMMA ChunkKeeps ==
    ASSUME FrameCount \in Nat, StreamInv, ReadChunk
    PROVE  StreamInv'
<1> DEFINE a == arrived
           m == arrived \div 8
<1>1. body = "open" /\ body' = body /\ Len(Text) = 8 * FrameCount
  BY TextSymbols DEF ReadChunk
<1>2. PICK n \in 1..(Len(Text) - arrived) :
          LET text == buffer \o SubSeq(Text, arrived + 1, arrived + n)
          IN  /\ arrived' = arrived + n
              /\ buffer' = SubSeq(text, Boundary(text) + 1, Len(text))
              /\ got' = got \o Dispatchable(SubSeq(text, 1, Boundary(text)))
  BY DEF ReadChunk
<1> DEFINE b == a + n
           q == b \div 8
<1>3. /\ m \in Nat /\ a \in (8 * m)..(8 * FrameCount) /\ n \in Nat /\ a + n <= 8 * FrameCount
      /\ buffer = Piece(m, a) /\ got = Following(0, m)
  BY <1>1 DEF StreamInv
<1>4. /\ b \in (8 * m)..(8 * FrameCount) /\ q \in Nat /\ m <= q /\ 8 * q <= b /\ b < 8 * q + 8
      /\ b \in 0..(8 * FrameCount)
  BY <1>3
<1> DEFINE text == Piece(m, b)
<1>5. buffer \o SubSeq(Text, a + 1, a + n) = text
  BY <1>3, PieceGrows
<1>6. Boundary(text) = 8 * (q - m)
  <2> DEFINE ends == {i \in 1..(b - 8 * m) : i % 8 = 0} \cup {0}
             last == 8 * (q - m)
  <2>1. Boundary(text) = Max(ends)
    BY <1>3, <1>4, PieceEnds DEF Boundary
  <2> HIDE DEF m, b, q
  <2>2. ends \in SUBSET Int /\ last \in ends /\ \A i \in ends : i <= last
    BY <1>3, <1>4
  <2> HIDE DEF ends, last
  <2>3. Max(ends) = last
    BY <2>2, GreatestIs
  <2> QED BY <2>1, <2>3 DEF last
<1> HIDE DEF m, b, q
<1>7. /\ SubSeq(text, 1, 8 * (q - m)) = Piece(m, 8 * q)
      /\ SubSeq(text, 8 * (q - m) + 1, Len(text)) = Piece(q, b)
  BY <1>3, <1>4, PieceCut
<1>8. Dispatchable(Piece(m, 8 * q)) = Following(m, q - m)
  <2>1. 8 * q \in (8 * m)..(8 * FrameCount) /\ (8 * q + 2) \div 8 = q
    BY <1>3, <1>4
  <2> QED BY <1>3, <2>1, PieceDispatched
<1>9. Following(0, m) \o Following(m, q - m) = Following(0, q)
  <2>1. q - m \in Nat /\ m + (q - m) = q /\ 0 \in Nat /\ 0 + m = m
    BY <1>3, <1>4
  <2>2. Following(0, m) \o Following(0 + m, q - m) = Following(0, m + (q - m))
    BY <1>3, <2>1, FollowingMore
  <2> QED BY <2>1, <2>2
<1> HIDE DEF text
<1>10. arrived' = b /\ buffer' = Piece(q, b) /\ got' = Following(0, q)
  <2>1. arrived' = b
    BY <1>2 DEF b
  <2>2. buffer' = SubSeq(text, Boundary(text) + 1, Len(text))
    BY <1>2, <1>5
  <2>3. got' = got \o Dispatchable(SubSeq(text, 1, Boundary(text)))
    BY <1>2, <1>5
  <2>4. buffer' = Piece(q, b)
    BY <1>6, <1>7, <2>2
  <2>5. got' = Following(0, m) \o Following(m, q - m)
    BY <1>3, <1>6, <1>7, <1>8, <2>3
  <2> QED BY <1>9, <2>1, <2>4, <2>5
<1>11. arrived' \div 8 = q
  BY <1>10 DEF q
<1> QED BY <1>1, <1>4, <1>10, <1>11 DEF StreamInv

LEMMA EndKeeps ==
    ASSUME FrameCount \in Nat, StreamInv, BodyEnds
    PROVE  StreamInv'
<1> DEFINE m == arrived \div 8
           n == (arrived + 2) \div 8
<1>1. /\ body = "open" /\ body' = "ended" /\ arrived' = arrived /\ buffer' = buffer
      /\ got' = got \o Dispatchable(buffer)
  BY DEF BodyEnds
<1>2. /\ m \in Nat /\ arrived \in (8 * m)..(8 * FrameCount) /\ n - m \in Nat /\ m + (n - m) = n
      /\ buffer = Piece(m, arrived) /\ got = Following(0, m)
  BY <1>1 DEF StreamInv
<1>3. Dispatchable(buffer) = Following(m, n - m)
  BY <1>2, PieceDispatched
<1> HIDE DEF m, n
<1>4. got' = Following(0, n)
  <2>1. 0 \in Nat /\ 0 + m = m
    BY <1>2
  <2>2. Following(0, m) \o Following(0 + m, n - m) = Following(0, m + (n - m))
    BY <1>2, <2>1, FollowingMore
  <2> QED BY <1>1, <1>2, <1>3, <2>1, <2>2
<1> QED BY <1>1, <1>4 DEF StreamInv, m, n

LEMMA StreamNexts ==
    ASSUME FrameCount \in Nat, StreamInv, [StreamNext]_streamVars
    PROVE  StreamInv'
<1>1. CASE ReadChunk BY <1>1, ChunkKeeps
<1>2. CASE BodyEnds BY <1>2, EndKeeps
<1>3. CASE BodyBreaks BY <1>3 DEF BodyBreaks, StreamInv
<1>4. CASE UNCHANGED streamVars BY <1>4 DEF streamVars, StreamInv
<1> QED BY <1>1, <1>2, <1>3, <1>4 DEF StreamNext

LEMMA StreamInvImplies ==
    ASSUME FrameCount \in Nat, StreamInv
    PROVE  StreamTypeOK /\ FramesSurviveChunking
<1> DEFINE complete == IF body = "ended" THEN (arrived + 2) \div 8 ELSE arrived \div 8
           m == arrived \div 8
<1>1. /\ arrived \in 0..(8 * FrameCount) /\ complete \in 0..FrameCount
      /\ m \in Nat /\ arrived \in (8 * m)..(8 * FrameCount)
      /\ buffer = Piece(m, arrived) /\ got = Following(0, complete)
  BY DEF StreamInv
<1> HIDE DEF complete
<1>2. Following(0, complete) = [k \in 1..complete |-> Handed(k)]
  <2>1. \A k \in 1..complete : 0 + k = k
    BY <1>1
  <2> QED BY <2>1 DEF Following
<1>3. FramesSurviveChunking
  BY <1>1, <1>2, EightSymbols DEF FramesSurviveChunking, complete
<1>4. buffer = SubSeq(Text, arrived - Len(buffer) + 1, arrived)
  <2>1. Len(buffer) = arrived - 8 * m
    BY <1>1, PieceSymbols
  <2>2. arrived - Len(buffer) + 1 = 8 * m + 1
    BY <1>1, <2>1
  <2> QED BY <1>1, <2>2 DEF Piece
<1>5. Len(got) <= FrameCount /\ Range(got) \subseteq {Handed(k) : k \in 1..FrameCount}
  <2>1. Len(got) = complete /\ DOMAIN got = 1..complete /\ \A k \in 1..complete : got[k] = Handed(k)
    BY <1>1, <1>2
  <2> QED BY <1>1, <2>1 DEF Range
<1>6. /\ arrived \in 0..(FrameCount * FrameLength)
      /\ body \in {"open", "ended", "broken", "left"}
  <2>1. FrameCount * FrameLength = 8 * FrameCount
    BY EightSymbols
  <2> QED BY <1>1, <2>1 DEF StreamInv
<1> QED BY <1>3, <1>4, <1>5, <1>6 DEF StreamTypeOK

(* Whatever the sizes of the chunks that reach readStream (stream.ts), the *)
(* handlers have been called for the frames whose blank line has been      *)
(* parsed, once each, in the order they were written, each with its own    *)
(* payload, and for nothing else.                                          *)
THEOREM FramesReassembled ==
    ASSUME FrameCount \in Nat
    PROVE  StreamSpec => [](StreamTypeOK /\ FramesSurviveChunking)
<1>1. StreamSpec => []StreamInv
  BY StreamInits, StreamNexts, PTL DEF StreamSpec
<1> QED BY <1>1, StreamInvImplies, PTL

-----------------------------------------------------------------------------
(*****************************************************************************)
(* The ranges of what the two pages keep.                                    *)
(*****************************************************************************)
\* What a page holds, step by step.  A call that was charged can be refunded,
\* so that the credits leave room for it.
FundsInv ==
    /\ DiscoverTypeOK
    /\ Charged(call) => funds + CallPrice <= Funds

LEMMA ChargedCalls ==
    /\ \A c, d : c.sent = d.sent /\ c.refunded = d.refunded => (Charged(c) <=> Charged(d))
    /\ ~Charged(NoCall) /\ ~Charged(OpenCall)
<1>1. \A c, d : c.sent = d.sent /\ c.refunded = d.refunded => (Charged(c) <=> Charged(d))
  BY DEF Charged, Emitted
<1>2. \A c : c.sent = 0 => ~Charged(c)
  <2>1. Position("settled") = 6
    BY EventPlaces
  <2> QED BY <2>1 DEF Charged, Emitted
<1>3. NoCall.sent = 0 /\ OpenCall.sent = 0
  <2>1. NoCall \in RouteCall /\ NoCall.sent = 0
    BY FreshCalls DEF CallInv, NoCall
  <2> QED BY <2>1 DEF OpenCall, RouteCall
<1> QED BY <1>1, <1>2, <1>3

LEMMA BrowserKeepsCharge ==
    ASSUME NEW c \in RouteCall
    PROVE  \A d \in {Dispatched(c), Told(c), CallOver(c), Aborted(c)} : Charged(d) <=> Charged(c)
<1>1. \A d \in {Dispatched(c), Told(c), CallOver(c), Aborted(c)} :
          d.sent = c.sent /\ d.refunded = c.refunded
  BY DEF RouteCall, Dispatched, Told, CallOver, Aborted
<1> QED BY <1>1, ChargedCalls

LEMMA DiscoverTypes ==
    ASSUME Considered \in Nat, Shortlisted \in 0..Considered, Funds \in Nat, CallPrice \in Nat,
           MaxRuns \in Nat, DiscoverInv, DiscoverInv', FundsInv, [DiscoverNext]_discoverVars
    PROVE  FundsInv'
<1>0. stage' \in [StageIds -> StageStates] /\ call' \in RouteCall /\ call \in RouteCall
  BY DEF DiscoverInv, CallInv
<1> USE <1>0 DEF FundsInv, DiscoverTypeOK, StageStates
<1>1. CASE ClickRoute
  <2>1. CASE shown = 0
    BY <1>1, <2>1 DEF ClickRoute, shownVars, closureVars, server
  <2>2. CASE shown # 0
    <3>1. ~Charged(call')
      BY <1>1, <2>2, ChargedCalls DEF ClickRoute
    <3>2. runs' \in 0..MaxRuns
      BY <1>1, <2>2 DEF ClickRoute
    <3>3. /\ listed' = 0 /\ passed' = <<>> /\ chosen' = FALSE /\ answerShown' = "none"
          /\ result' = FALSE /\ routing' = TRUE /\ runStep' = "token" /\ listedThen' = listed
          /\ stopped' = FALSE
          /\ UNCHANGED <<paywall, shown, refreshing, mounted, funds, remaining>>
      BY <1>1, <2>2 DEF ClickRoute, server
    <3>4. passed' \in {<<>>} \cup ((0..Considered) \X (0..Considered))
      BY <3>3
    <3>5. listed' \in 0..Considered /\ listedThen' \in 0..Considered
      BY <3>3
    <3>6. /\ answerShown' \in {"none", "part", "whole"}
          /\ runStep' \in {"idle", "token", "route"}
      BY <3>3
    <3>7. /\ chosen' \in BOOLEAN /\ result' \in BOOLEAN /\ routing' \in BOOLEAN
          /\ stopped' \in BOOLEAN
      BY <3>3
    <3>8. paywall' \in BOOLEAN /\ refreshing' \in BOOLEAN /\ mounted' \in BOOLEAN
      BY <3>3
    <3>9. funds' \in 0..Funds /\ shown' \in 0..Funds /\ remaining' \in 0..Funds
      BY <3>3
    <3> QED BY <3>1, <3>2, <3>4, <3>5, <3>6, <3>7, <3>8, <3>9
  <2> QED BY <2>1, <2>2
<1>2. CASE ClickStop BY <1>2 DEF ClickStop, shownVars, server
<1>3. CASE Leave BY <1>3 DEF Leave, shownVars, server
<1>4. CASE ClosePaywall BY <1>4 DEF ClosePaywall, shownVars, closureVars, server
<1>5. CASE TokenGranted
  <2>1. ~Charged(call')
    BY <1>5, ChargedCalls DEF TokenGranted
  <2> QED BY <1>5, <2>1 DEF TokenGranted, shownVars, server
<1>6. CASE TokenRefused BY <1>6 DEF TokenRefused, RunEnds, shownVars, server
<1>7. CASE ServeRoute
  <2>1. /\ Charged(call') /\ ~Charged(call) => funds >= CallPrice
        /\ funds' = IF Charged(call') /\ ~Charged(call) THEN funds - CallPrice
                    ELSE IF Charged(call) /\ ~Charged(call') THEN funds + CallPrice
                    ELSE funds
        /\ remaining' = IF Charged(call') /\ ~Charged(call) THEN funds - CallPrice
                        ELSE remaining
        /\ UNCHANGED <<stage, shownVars, routing, paywall, shown, refreshing, mounted,
                       closureVars>>
    BY <1>7 DEF ServeRoute
  <2>2. /\ funds' \in 0..Funds /\ remaining' \in 0..Funds
        /\ Charged(call') => funds' + CallPrice <= Funds
    BY <2>1
  <2> QED BY <2>1, <2>2 DEF shownVars, closureVars
<1>8. CASE Handle
  <2>1. Charged(call') <=> Charged(call)
    BY <1>8, BrowserKeepsCharge DEF Handle
  <2>2. passed' \in {<<>>} \cup ((0..Considered) \X (0..Considered))
    BY <1>8 DEF Handle, GateAfter
  <2>3. /\ listed' \in 0..Considered /\ chosen' \in BOOLEAN /\ result' \in BOOLEAN
        /\ answerShown' \in {"none", "part", "whole"} /\ shown' \in 0..Funds
        /\ refreshing' \in BOOLEAN
    BY <1>8 DEF Handle
  <2> QED BY <1>8, <2>1, <2>2, <2>3 DEF Handle, closureVars, server
<1>9. CASE RouteResolved
  <2>1. Charged(call') <=> Charged(call)
    BY <1>9, BrowserKeepsCharge DEF RouteResolved
  <2> QED BY <1>9, <2>1 DEF RouteResolved, RunEnds, shownVars, server
<1>10. ASSUME NEW forCredits \in BOOLEAN, RouteError(forCredits) PROVE FundsInv'
  <2>1. Charged(call') <=> Charged(call)
    BY <1>10, BrowserKeepsCharge DEF RouteError
  <2> QED BY <1>10, <2>1 DEF RouteError, shownVars, closureVars, server
<1>11. CASE RefreshLands BY <1>11 DEF RefreshLands, shownVars, closureVars, server
<1>12. CASE UNCHANGED discoverVars BY <1>12 DEF discoverVars
<1> QED
  BY <1>1, <1>2, <1>3, <1>4, <1>5, <1>6, <1>7, <1>8, <1>9, <1>10, <1>11, <1>12
     DEF DiscoverNext, TokenAnswered, Reading

(* The figures of the discovery page stay in their ranges; in particular,  *)
(* no order of debits, refunds and clicks takes the agent's credits below  *)
(* zero or above what it began with (marketplace.py, the debit and its     *)
(* refund).                                                                *)
THEOREM DiscoveryIsWellTyped ==
    ASSUME Considered \in Nat, Shortlisted \in 0..Considered, Funds \in Nat, CallPrice \in Nat,
           MaxRuns \in Nat
    PROVE  DiscoverInit /\ [][DiscoverNext]_discoverVars => []DiscoverTypeOK
<1>1. DiscoverInit => DiscoverInv /\ FundsInv
  <2>1. DiscoverInit => FundsInv
    <3> SUFFICES ASSUME DiscoverInit PROVE FundsInv
      OBVIOUS
    <3>1. NoCall \in RouteCall /\ ~Charged(call)
      BY FreshCalls, ChargedCalls DEF DiscoverInit, CallInv
    <3>2. passed \in {<<>>} \cup ((0..Considered) \X (0..Considered))
      BY DEF DiscoverInit
    <3>3. stage \in [StageIds -> {"hidden", "idle", "active", "done", "failed"}]
      BY DEF DiscoverInit
    <3>4. /\ listed = 0 /\ chosen = FALSE /\ answerShown = "none" /\ result = FALSE
          /\ routing = FALSE /\ paywall = FALSE /\ shown = Funds /\ refreshing = FALSE
          /\ mounted = TRUE /\ runStep = "idle" /\ listedThen = 0 /\ stopped = FALSE
          /\ call = NoCall /\ runs = 0 /\ funds = Funds /\ remaining = Funds
      BY DEF DiscoverInit
    <3>5. listed \in 0..Considered /\ listedThen \in 0..Considered /\ runs \in 0..MaxRuns
      BY <3>4
    <3>6. funds \in 0..Funds /\ shown \in 0..Funds /\ remaining \in 0..Funds
      BY <3>4
    <3>7. /\ chosen \in BOOLEAN /\ result \in BOOLEAN /\ routing \in BOOLEAN
          /\ paywall \in BOOLEAN /\ refreshing \in BOOLEAN /\ mounted \in BOOLEAN
          /\ stopped \in BOOLEAN
      BY <3>4
    <3>8. /\ answerShown \in {"none", "part", "whole"}
          /\ runStep \in {"idle", "token", "route"}
          /\ call \in RouteCall
      BY <3>1, <3>4
    <3>9. DiscoverTypeOK
      BY <3>2, <3>3, <3>5, <3>6, <3>7, <3>8 DEF DiscoverTypeOK
    <3> QED BY <3>1, <3>9 DEF FundsInv
  <2> QED BY <2>1, DiscoverInitInv
<1>2. DiscoverInv /\ FundsInv /\ [DiscoverNext]_discoverVars => DiscoverInv' /\ FundsInv'
  BY DiscoverNextInv, DiscoverTypes
<1>3. FundsInv => DiscoverTypeOK
  BY DEF FundsInv
<1> QED
  BY <1>1, <1>2, <1>3, PTL

LEMMA FleetTypes ==
    ASSUME MaxFleets \in Nat, FleetInv, FleetInv', fleets \in 0..MaxFleets,
           [FleetNext]_fleetVars
    PROVE  fleets' \in 0..MaxFleets
<1>1. fleets' = fleets \/ (fleets < MaxFleets /\ fleets' = fleets + 1)
  BY DEF FleetNext, fleetVars, ClickLaunchFleet, ClickStopFleet, FleetTokenGranted,
         FleetTokenRefused, FleetOver, FleetEnds, ServeLane, LaneHandles, LaneErrs, LaneResolves
<1> QED BY <1>1

LEMMA FleetIsWellTyped ==
    ASSUME MaxFleets \in Nat
    PROVE  FleetSpec => []FleetTypeOK
<1>1. FleetInit => FleetInv /\ fleets \in 0..MaxFleets
  BY FleetInitInv DEF FleetInit
<1>2. FleetInv /\ fleets \in 0..MaxFleets /\ [FleetNext]_fleetVars
          => FleetInv' /\ (fleets \in 0..MaxFleets)'
  BY FleetNextInv, FleetTypes
<1>3. FleetInv /\ fleets \in 0..MaxFleets => FleetTypeOK
  BY DEF FleetInv, FleetTypeOK
<1> QED
  BY <1>1, <1>2, <1>3, PTL DEF FleetSpec
=============================================================================
