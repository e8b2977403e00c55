------------------------------ MODULE DemoTour -------------------------------
(***************************************************************************)
(* The guided demonstration (frontend/src/components/demo/                 *)
(* DemoProvider.tsx, DemoOverlay.tsx, StartDemoButton.tsx): a timeline of  *)
(* phases on timers that waits for nothing, and beside it the funding of   *)
(* the cast's wallets, a free ranking and a paid call for each agent,      *)
(* which land whenever they land.                                          *)
(*                                                                         *)
(* `runIdRef` is compared for equality only, so a run is named by the      *)
(* number of its start, and 0 stands for any id that no start holds.       *)
(***************************************************************************)
EXTENDS Naturals, Sequences, FiniteSets

CONSTANTS
    Cast,      \* the agents of the demonstration
    MaxStarts  \* bound on calls of start

Starts == 1..MaxStarts

\* PHASES; the last timer, which holds on the summary, comes after them.
Phases == <<"boot", "agents", "discovery", "ranking", "payment", "retrieval", "answers",
            "economy", "summary">>
LastTimer == Len(Phases) + 1

VARIABLES
    \* the provider's state
    active, phaseAt,  \* phaseAt: the index of `phase`
    status,           \* status[a]: of the agent's row; "absent" before the first run
    tally,            \* [evaluations, payments, transactions]: the metrics
    onAtlas,          \* whether `atlasQuery` is set
    notice,           \* whether `setupNotice` is set
    \* its refs
    run,              \* runIdRef
    shownRun,         \* the start whose roster is in `agents`
    timers,           \* [run, next]: the phase timers still pending; next = 0: none
    dispatching,      \* agents whose "dispatched" timer is pending
    tokens,           \* agents with a token in tokensRef
    abortOf,          \* the start whose controller is in abortRef; 0 for null
    abortedRuns,
    \* the closures, by the start they belong to
    starting,         \* starts that await getNetworkStats
    used,             \* starts made so far
    warm,             \* warm[k][a]: where warmUp is with an agent
    look,             \* look[k][a]: where evaluate is with an agent
    deal              \* deal[k][a]: the routed call of transact

screen == <<active, phaseAt, status, tally, onAtlas, notice>>
refs == <<run, shownRun, timers, dispatching, tokens, abortOf, abortedRuns>>
work == <<warm, look, deal>>
tourVars == <<screen, refs, starting, used, work>>

\* The events that transact has a handler for, in the order the server sends
\* them; the others of the stream change nothing.
Handled == <<"selected", "settled", "invoking", "done">>

\* seen: how many of them were dispatched.
Deal == [seen : 0..Len(Handled), at : {"off", "open", "told", "over"}]
NoDeal == [seen |-> 0, at |-> "off"]

Statuses == {"absent", "idle", "dispatched", "evaluating", "selected", "paid",
             "answering", "done", "failed"}
Tally == [evaluations : 0..Cardinality(Cast), payments : 0..Cardinality(Cast),
          transactions : 0..Cardinality(Cast)]
NoTally == [evaluations |-> 0, payments |-> 0, transactions |-> 0]
NoTimers == [run |-> 0, next |-> 0]

TourTypeOK ==
    /\ active \in BOOLEAN
    /\ phaseAt \in 1..Len(Phases)
    /\ status \in [Cast -> Statuses]
    /\ tally \in Tally
    /\ onAtlas \in BOOLEAN
    /\ notice \in BOOLEAN
    /\ run \in 0..MaxStarts
    /\ shownRun \in 0..MaxStarts
    /\ timers \in [run : 0..MaxStarts, next : 0..LastTimer]
    /\ dispatching \subseteq Cast
    /\ tokens \subseteq Cast
    /\ abortOf \in 0..MaxStarts
    /\ abortedRuns \subseteq Starts
    /\ starting \subseteq Starts
    /\ used \in 0..MaxStarts
    /\ warm \in [Starts -> [Cast -> {"off", "balance", "mint", "challenge", "verify", "over"}]]
    /\ look \in [Starts -> [Cast -> {"off", "asked", "over"}]]
    /\ deal \in [Starts -> [Cast -> Deal]]

TourInit ==
    /\ active = FALSE
    /\ phaseAt = 1
    /\ status = [a \in Cast |-> "absent"]
    /\ tally = NoTally
    /\ onAtlas = FALSE
    /\ notice = FALSE
    /\ run = 0
    /\ shownRun = 0
    /\ timers = NoTimers
    /\ dispatching = {}
    /\ tokens = {}
    /\ abortOf = 0
    /\ abortedRuns = {}
    /\ starting = {}
    /\ used = 0
    /\ warm = [k \in Starts |-> [a \in Cast |-> "off"]]
    /\ look = [k \in Starts |-> [a \in Cast |-> "off"]]
    /\ deal = [k \in Starts |-> [a \in Cast |-> NoDeal]]

-----------------------------------------------------------------------------
\* What the overlay draws.

\* The setup notice replaces everything else.
SetupNotice == notice

\* The rails of a run: the agents, the phase and the metrics.
Rails == ~SetupNotice /\ active

\* The closing card, with its line "Every figure above was produced by live
\* API calls during this run" and a button that ends the demonstration.
Summary == Rails /\ Phases[phaseAt] = "summary"

\* An agent's row: complete, failed, queued or still at work.
Row(a) ==
    CASE status[a] = "done" -> "complete"
      [] status[a] = "failed" -> "failed"
      [] status[a] \in {"absent", "idle"} -> "queued"
      [] OTHER -> "working"

\* The button and the D key: both toggle.
TourButton == IF active THEN "end" ELSE "start"

-----------------------------------------------------------------------------
\* start and stop.

\* The guard of start is read before its first await.
CallStart ==
    /\ TourButton = "start"
    /\ used < MaxStarts
    /\ used' = used + 1
    /\ starting' = starting \cup {used + 1}
    /\ notice' = FALSE
    /\ UNCHANGED <<active, phaseAt, status, tally, onAtlas, refs, work>>

\* The API is unreachable, or no provider is listed.
StartRefused(k) ==
    /\ k \in starting
    /\ starting' = starting \ {k}
    /\ notice' = TRUE
    /\ UNCHANGED <<active, phaseAt, status, tally, onAtlas, refs, used, work>>

\* The network can support a run: whatever ran before is superseded.
Begin(k) ==
    /\ k \in starting
    /\ starting' = starting \ {k}
    /\ run' = k
    /\ shownRun' = k
    /\ abortOf' = k
    /\ tokens' = {}
    /\ timers' = [run |-> k, next |-> 1]
    /\ dispatching' = {}
    /\ active' = TRUE
    /\ phaseAt' = 1
    /\ status' = [a \in Cast |-> "idle"]
    /\ tally' = NoTally
    /\ onAtlas' = FALSE
    /\ UNCHANGED <<notice, abortedRuns, used, work>>

\* The D key and Escape work on every page, the buttons where they are drawn.
CallStop ==
    /\ TourButton = "end" \/ Rails \/ Summary
    /\ run' = 0
    /\ abortedRuns' = abortedRuns \cup ({abortOf} \ {0})
    /\ abortOf' = 0
    /\ timers' = NoTimers
    /\ dispatching' = {}
    /\ active' = FALSE
    /\ phaseAt' = 1
    /\ onAtlas' = FALSE
    /\ UNCHANGED <<status, tally, notice, shownRun, tokens, starting, used, work>>

DismissNotice ==
    /\ SetupNotice
    /\ notice' = FALSE
    /\ UNCHANGED <<active, phaseAt, status, tally, onAtlas, refs, starting, used, work>>

-----------------------------------------------------------------------------
\* The timeline.

\* Slip: any handler counts while a demonstration is running.
SomeRun(k) == active

Current(k) == k = run

StartAll(f, k, value) == [f EXCEPT ![k] = [a \in Cast |-> value]]

\* The work that a phase kicks off; it awaits none of it.
PhaseWork(k, phase) ==
    /\ warm' = IF phase = "boot" THEN StartAll(warm, k, "balance") ELSE warm
    /\ look' = IF phase = "ranking" THEN StartAll(look, k, "asked") ELSE look
    /\ deal' = IF phase = "payment"
               THEN [deal EXCEPT ![k] = [a \in Cast |-> IF a \in tokens
                                                        THEN [NoDeal EXCEPT !.at = "open"]
                                                        ELSE NoDeal]]
               ELSE deal
    /\ status' = CASE phase = "ranking" -> [a \in Cast |-> "evaluating"]
                   [] phase = "payment" -> [a \in Cast |-> IF a \in tokens THEN status[a]
                                                           ELSE "failed"]
                   [] OTHER -> status
    /\ dispatching' = IF phase = "agents" THEN Cast ELSE dispatching
    /\ onAtlas' = (onAtlas \/ phase = "retrieval")

\* The next timer is due.  Those of the agents' dispatch are all due before
\* the phase after it.
PhaseTimer ==
    /\ timers.next \in 1..Len(Phases)
    /\ dispatching = {}
    /\ timers' = [timers EXCEPT !.next = @ + 1]
    /\ IF Current(timers.run)
       THEN phaseAt' = timers.next /\ PhaseWork(timers.run, Phases[timers.next])
       ELSE UNCHANGED <<phaseAt, work, status, dispatching, onAtlas>>
    /\ UNCHANGED <<active, tally, notice, run, shownRun, tokens, abortOf, abortedRuns,
                   starting, used>>

DispatchTimer(a) ==
    /\ a \in dispatching
    /\ dispatching' = dispatching \ {a}
    /\ status' = IF Current(timers.run) THEN [status EXCEPT ![a] = "dispatched"] ELSE status
    /\ UNCHANGED <<active, phaseAt, tally, onAtlas, notice, run, shownRun, timers, tokens,
                   abortOf, abortedRuns, starting, used, work>>

\* The hold on the summary is over: elapsed shows the whole time.
HoldTimer ==
    /\ timers.next = LastTimer
    /\ timers' = NoTimers
    /\ UNCHANGED <<screen, run, shownRun, dispatching, tokens, abortOf, abortedRuns,
                   starting, used, work>>

-----------------------------------------------------------------------------
\* warmUp: each agent settles for itself, whatever became of the run.

WarmStep(k, a, from, to) ==
    /\ warm[k][a] = from
    /\ warm' = [warm EXCEPT ![k][a] = to]
    /\ UNCHANGED <<screen, run, shownRun, timers, dispatching, abortOf, abortedRuns,
                   starting, used, look, deal>>

\* The wallet holds CREDITS_PER_DEMO_AGENT credits from an earlier run, or it
\* has to be funded.
BalanceRead(k, a) ==
    /\ \E to \in {"mint", "challenge"} : WarmStep(k, a, "balance", to)
    /\ UNCHANGED tokens

ChallengeRead(k, a) == WarmStep(k, a, "challenge", "verify") /\ UNCHANGED tokens

\* A token arrives, minted or with the verified payment.
Warmed(k, a) ==
    /\ \E from \in {"mint", "verify"} : WarmStep(k, a, from, "over")
    /\ tokens' = tokens \cup {a}

\* The catch clause: the agent is left without a token.
WarmFails(k, a) ==
    /\ \E from \in {"balance", "mint", "challenge", "verify"} : WarmStep(k, a, from, "over")
    /\ UNCHANGED tokens

\* evaluate: the answer of the free ranking.
LookLands(k, a) ==
    /\ look[k][a] = "asked"
    /\ look' = [look EXCEPT ![k][a] = "over"]
    /\ IF Current(k)
       THEN /\ status' = [status EXCEPT ![a] = "selected"]
            /\ tally' = [tally EXCEPT !.evaluations = @ + 1]
       ELSE UNCHANGED <<status, tally>>
    /\ UNCHANGED <<active, phaseAt, onAtlas, notice, refs, starting, used, warm, deal>>

LookFails(k, a) ==
    /\ look[k][a] = "asked"
    /\ look' = [look EXCEPT ![k][a] = "over"]
    /\ status' = IF Current(k) THEN [status EXCEPT ![a] = "evaluating"] ELSE status
    /\ UNCHANGED <<active, phaseAt, tally, onAtlas, notice, refs, starting, used, warm,
                   deal>>

-----------------------------------------------------------------------------
\* transact: one routed call for each agent.

DealGoes(k, a, next) ==
    /\ deal' = [deal EXCEPT ![k][a] = next]
    /\ UNCHANGED <<active, phaseAt, onAtlas, notice, refs, starting, used, warm, look>>

StatusAfter(event) ==
    CASE event = "selected" -> "selected"
      [] event = "settled" -> "paid"
      [] event = "invoking" -> "answering"
      [] OTHER -> "done"

TallyAfter(event) ==
    CASE event = "settled" -> [tally EXCEPT !.payments = @ + 1]
      [] event = "done" -> [tally EXCEPT !.transactions = @ + 1]
      [] OTHER -> tally

\* A handler of the call; those of another run do nothing.
DealHandles(k, a) ==
    /\ k \notin abortedRuns
    /\ deal[k][a].at = "open"
    /\ deal[k][a].seen < Len(Handled)
    /\ LET event == Handled[deal[k][a].seen + 1]
       IN  IF Current(k)
           THEN /\ status' = [status EXCEPT ![a] = StatusAfter(event)]
                /\ tally' = TallyAfter(event)
           ELSE UNCHANGED <<status, tally>>
    /\ DealGoes(k, a, [deal[k][a] EXCEPT !.seen = @ + 1])

\* onError: an error event, or a body that breaks off, after "done" too.
DealErrs(k, a) ==
    /\ k \notin abortedRuns
    /\ deal[k][a].at = "open"
    /\ status' = IF Current(k) THEN [status EXCEPT ![a] = "failed"] ELSE status
    /\ DealGoes(k, a, [deal[k][a] EXCEPT !.at = "told"])
    /\ UNCHANGED tally

\* The promise resolves: at the end of the body, after onError, or because
\* the run was stopped.
DealResolves(k, a) ==
    /\ deal[k][a].at \in {"open", "told"}
    /\ k \in abortedRuns \/ deal[k][a].at = "told" \/ deal[k][a].seen = Len(Handled)
    /\ DealGoes(k, a, [deal[k][a] EXCEPT !.at = "over"])
    /\ UNCHANGED <<status, tally>>

Timers == PhaseTimer \/ (\E a \in Cast : DispatchTimer(a)) \/ HoldTimer

Network(k, a) ==
    \/ BalanceRead(k, a) \/ ChallengeRead(k, a) \/ Warmed(k, a) \/ WarmFails(k, a)
    \/ LookLands(k, a) \/ LookFails(k, a)
    \/ DealHandles(k, a) \/ DealErrs(k, a) \/ DealResolves(k, a)

TourNext ==
    \/ CallStart \/ CallStop \/ DismissNotice
    \/ \E k \in Starts : StartRefused(k) \/ Begin(k)
    \/ Timers
    \/ \E k \in Starts, a \in Cast : Network(k, a)

\* Only the browser's timers are fair: the network owes nothing.
TourSpec == TourInit /\ [][TourNext]_tourVars /\ WF_tourVars(Timers)

-----------------------------------------------------------------------------
(* "The timeline never awaits anything": once a run has begun it reaches   *)
(* its summary, though no request of it is ever answered.                  *)
TimelineNeverWaits == active ~> Phases[phaseAt] = "summary" \/ ~active

(* "Every figure above was produced by live API calls during this run":    *)
(* the payments and transactions that are counted are the events of the    *)
(* calls of the run that is shown, however many starts and stops went      *)
(* before and whichever of their calls are still being read.               *)
FiguresAreOfThisRun ==
    LET Dispatched(n) == {a \in Cast : shownRun # 0 /\ deal[shownRun][a].seen >= n}
    IN  /\ tally.payments = Cardinality(Dispatched(2))
        /\ tally.transactions = Cardinality(Dispatched(4))

-----------------------------------------------------------------------------
(* Why it holds.  The run that is shown is current or stopped, and no call *)
(* of a stopped one is dispatched; a run has no call before its payment    *)
(* phase, so that it begins, and comes to that phase, with nothing on the  *)
(* counters.                                                               *)
Quiet(k) == \A a \in Cast : deal[k][a] = NoDeal

RunsInOrder ==
    /\ used \in 0..MaxStarts /\ starting \subseteq 1..used
    /\ {run, shownRun} \subseteq 0..used /\ run \notin starting
    /\ run # 0 => shownRun = run /\ abortOf = run
    /\ run = 0 /\ shownRun # 0 => shownRun \in abortedRuns

CallsComeWithPayment ==
    /\ timers.next # 0 => run # 0 /\ timers.run = run
    /\ timers.next \in 1..5 => Quiet(run)
    /\ \A k \in Starts : k > used \/ k \in starting => Quiet(k)

TourInv ==
    /\ timers \in [run : Nat, next : Nat]
    /\ tally \in [evaluations : Nat, payments : Nat, transactions : Nat]
    /\ deal \in [Starts -> [Cast -> Deal]]
    /\ RunsInOrder /\ CallsComeWithPayment /\ FiguresAreOfThisRun
=============================================================================
