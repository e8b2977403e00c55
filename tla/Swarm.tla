-------------------------------- MODULE Swarm --------------------------------
(***************************************************************************)
(* The swarm simulator (frontend/src/components/protocol/                  *)
(* SwarmSimulator.tsx): a roster of agents, each of which fetches a        *)
(* challenge, settles, redeems the hash and asks one question, all at      *)
(* once, and the reconciliation of their balances at the end.              *)
(*                                                                         *)
(* Each `await` ends an action.  A launch is a closure that lives until    *)
(* its last await returns, whatever the user does meanwhile: after Stop    *)
(* another launch may start beside it, and the two share the component's   *)
(* state and its `abortRef`.                                               *)
(***************************************************************************)
EXTENDS Naturals, Sequences, FiniteSets, Functions

CONSTANTS
    SizeOf,       \* SizeOf[l]: the `size` chosen for launch l; its domain
                  \* bounds the clicks on "Launch swarm"
    PerPayment,   \* the server's credits_per_payment
    Trial         \* the credits the server gives a new agent

MaxLaunches == Len(SizeOf)
Launches == 1..MaxLaunches
Lanes == UNION {1..SizeOf[l] : l \in Launches}
Size(l) == IF l = 0 THEN {} ELSE 1..SizeOf[l]
Verdicts == {"none", "exact", "mismatch"}

VARIABLES
    \* the component's state
    roster,       \* the launch whose agents are shown; 0 before the first
    phase,        \* phase[i]: the phase shown on lane i
    column,       \* column[i]: the credits shown on lane i
    swarmRunning,
    reconciled,   \* [launch, verdict, heard]: `reconciled`, the launch that
                  \* computed it and the lanes whose balance it had
    swarmAbort,   \* the launch whose controller is in abortRef; 0 for null
    aborted,      \* launches whose signal is aborted
    \* the closures
    lane,         \* lane[l][i]: where runAgent is
    launch,       \* launch[l]: where the launch itself is
    \* the server
    bought,       \* lanes <<l, i>> whose hash was redeemed for a bundle
    asked         \* asked[l][i]: what became of the question of a lane

swarmVars == <<roster, phase, column, swarmRunning, reconciled, swarmAbort, aborted,
               lane, launch, bought, asked>>

LanePhases == {"idle", "challenge", "settling", "verifying", "asking", "done", "failed"}
LaneSteps == {"off", "challenge", "settling", "verifying", "asking", "answered", "over"}

SwarmTypeOK ==
    /\ roster \in 0..MaxLaunches
    /\ phase \in [Lanes -> LanePhases]
    /\ column \in [Lanes -> 0..(Trial + PerPayment)]
    /\ swarmRunning \in BOOLEAN
    /\ reconciled \in [launch : 0..MaxLaunches, verdict : Verdicts, heard : SUBSET Lanes]
    /\ swarmAbort \in 0..MaxLaunches
    /\ aborted \subseteq Launches
    /\ lane \in [Launches -> [Lanes -> LaneSteps]]
    /\ launch \in [Launches -> {"off", "warm_up", "lanes", "balances", "over"}]
    /\ bought \subseteq Launches \X Lanes
    /\ asked \in [Launches -> [Lanes -> {"no", "charged", "cached", "refunded"}]]

NotReconciled == [launch |-> 0, verdict |-> "none", heard |-> {}]

SwarmInit ==
    /\ roster = 0
    /\ phase = [i \in Lanes |-> "idle"]
    /\ column = [i \in Lanes |-> 0]
    /\ swarmRunning = FALSE
    /\ reconciled = NotReconciled
    /\ swarmAbort = 0
    /\ aborted = {}
    /\ lane = [l \in Launches |-> [i \in Lanes |-> "off"]]
    /\ launch = [l \in Launches |-> "off"]
    /\ bought = {}
    /\ asked = [l \in Launches |-> [i \in Lanes |-> "no"]]

-----------------------------------------------------------------------------
\* What the page offers.

\* The action button: Stop while `running`, Launch otherwise.
SwarmButton == IF swarmRunning THEN "stop" ELSE "launch"

\* A lane as it is drawn: still moving, answered or failed.
LaneRow(i) ==
    CASE phase[i] = "done" -> "answered"
      [] phase[i] = "failed" -> "failed"
      [] phase[i] = "idle" -> "queued"
      [] OTHER -> "live"

\* The line under the lanes: "Ledger reconciled: ...".
VerdictLine == reconciled.verdict

-----------------------------------------------------------------------------
\* The credits of a lane's agent on the server.
Balance(l, i) ==
    (IF <<l, i>> \in bought THEN Trial + PerPayment ELSE Trial)
        - (IF asked[l][i] = "charged" THEN 1 ELSE 0)

\* `patch`: agents carry the id of their launch, so that a patch of another
\* launch's agent finds nobody.
Patch(l, i, p) == phase' = IF l = roster THEN [phase EXCEPT ![i] = p] ELSE phase

PatchCredits(l, i) ==
    column' = IF l = roster THEN [column EXCEPT ![i] = Balance(l, i)] ELSE column

LaneGoes(l, i, step) == lane' = [lane EXCEPT ![l][i] = step]

-----------------------------------------------------------------------------
\* Launch and Stop.

ClickLaunch(l) ==
    /\ SwarmButton = "launch"
    /\ launch[l] = "off"
    /\ \A k \in 1..(l - 1) : launch[k] # "off"
    /\ swarmAbort' = l
    /\ roster' = l
    /\ phase' = [i \in Lanes |-> "idle"]
    /\ column' = [i \in Lanes |-> 0]
    /\ swarmRunning' = TRUE
    /\ reconciled' = NotReconciled
    /\ launch' = [launch EXCEPT ![l] = "warm_up"]
    /\ UNCHANGED <<aborted, lane, bought, asked>>

\* The warm-up search returned or failed; every lane starts, aborted or not.
WarmedUp(l) ==
    /\ launch[l] = "warm_up"
    /\ launch' = [launch EXCEPT ![l] = "lanes"]
    /\ lane' = [lane EXCEPT ![l] = [i \in Lanes |-> IF i \in Size(l) THEN "challenge" ELSE "off"]]
    /\ phase' = IF l = roster
                 THEN [i \in Lanes |-> IF i \in Size(l) THEN "challenge" ELSE "idle"]
                 ELSE phase
    /\ UNCHANGED <<roster, column, swarmRunning, reconciled, swarmAbort, aborted,
                   bought, asked>>

ClickStop ==
    /\ SwarmButton = "stop"
    /\ aborted' = aborted \cup ({swarmAbort} \ {0})
    /\ swarmRunning' = FALSE
    /\ UNCHANGED <<roster, phase, column, reconciled, swarmAbort, lane, launch,
                   bought, asked>>

-----------------------------------------------------------------------------
\* One lane: runAgent.

\* Slip: the signal is not looked at after an await.
ResumeAnyway(l, i, from, to) ==
    /\ lane[l][i] = from
    /\ LaneGoes(l, i, to)
    /\ Patch(l, i, to)
    /\ UNCHANGED <<roster, swarmRunning, reconciled, swarmAbort, aborted, launch,
                   bought, asked>>

\* An answer came back and the lane goes on, unless its swarm was stopped.
Resume(l, i, from, to) ==
    /\ lane[l][i] = from
    /\ IF l \in aborted
       THEN LaneGoes(l, i, "over") /\ UNCHANGED phase
       ELSE LaneGoes(l, i, to) /\ Patch(l, i, to)
    /\ UNCHANGED <<roster, swarmRunning, reconciled, swarmAbort, aborted, launch,
                   bought, asked>>

GotChallenge(l, i) == Resume(l, i, "challenge", "settling") /\ UNCHANGED column
Settled(l, i) == Resume(l, i, "settling", "verifying") /\ UNCHANGED column
Verified(l, i) ==
    /\ <<l, i>> \in bought
    /\ Resume(l, i, "verifying", "asking")
    /\ IF l \in aborted THEN UNCHANGED column ELSE PatchCredits(l, i)

\* The server redeems the hash; its answer is still under way.
ServeVerify(l, i) ==
    /\ lane[l][i] = "verifying"
    /\ <<l, i>> \notin bought
    /\ bought' = bought \cup {<<l, i>>}
    /\ UNCHANGED <<roster, phase, column, swarmRunning, reconciled, swarmAbort, aborted,
                   lane, launch, asked>>

\* The server answers from the model, charged, or from its cache, free.  The
\* request is sent with the signal: an aborted one may still have arrived.
ServeQuestion(l, i) ==
    /\ lane[l][i] = "asking"
    /\ asked[l][i] = "no"
    /\ \E outcome \in {"charged", "cached", "refunded"} :
           asked' = [asked EXCEPT ![l][i] = outcome]
    /\ UNCHANGED <<roster, phase, column, swarmRunning, reconciled, swarmAbort, aborted,
                   lane, launch, bought>>

\* onDone: the stream is still open.
LaneDone(l, i) ==
    /\ lane[l][i] = "asking"
    /\ l \notin aborted
    /\ asked[l][i] \in {"charged", "cached"}
    /\ LaneGoes(l, i, "answered")
    /\ Patch(l, i, "done")
    /\ PatchCredits(l, i)
    /\ UNCHANGED <<roster, swarmRunning, reconciled, swarmAbort, aborted, launch,
                   bought, asked>>

\* The stream ends after its last event, or the abort ends it in silence.
StreamClosed(l, i) ==
    /\ \/ lane[l][i] = "answered"
       \/ lane[l][i] = "asking" /\ l \in aborted
    /\ LaneGoes(l, i, "over")
    /\ UNCHANGED <<roster, phase, column, swarmRunning, reconciled, swarmAbort, aborted,
                   launch, bought, asked>>

\* A call is refused or its answer is lost: the catch clause, or onError of
\* the stream, which may follow onDone.
LaneFailed(l, i) ==
    /\ lane[l][i] \in {"challenge", "verifying", "asking", "answered"}
    /\ IF l \in aborted THEN UNCHANGED phase ELSE Patch(l, i, "failed")
    /\ LaneGoes(l, i, "over")
    /\ UNCHANGED <<roster, column, swarmRunning, reconciled, swarmAbort, aborted, launch,
                   bought, asked>>

LaneStep(l, i) ==
    \/ GotChallenge(l, i) \/ Settled(l, i)
    \/ ServeVerify(l, i)  \/ Verified(l, i)
    \/ ServeQuestion(l, i)
    \/ LaneDone(l, i) \/ StreamClosed(l, i) \/ LaneFailed(l, i)

-----------------------------------------------------------------------------
\* The end of a launch.

\* Promise.all: the last lane is over.  The component's flags are cleared,
\* those of a later launch too.
LanesOver(l) ==
    /\ launch[l] = "lanes"
    /\ \A i \in Size(l) : lane[l][i] = "over"
    /\ swarmRunning' = FALSE
    /\ swarmAbort' = 0
    /\ launch' = [launch EXCEPT ![l] = IF l \in aborted THEN "over" ELSE "balances"]
    /\ UNCHANGED <<roster, phase, column, reconciled, aborted, lane, bought, asked>>

\* Slip: the query that each agent paid for is forgotten.
ExpectedWithoutQuery(heard) == Cardinality(heard) * (PerPayment + 3)

\* What the balances that were read should add up to: a bundle and three
\* trial credits less one query for each.
Expected(heard) == Cardinality(heard) * (PerPayment + 3 - 1)

Actual(l, heard) == SumFunctionOnSet([i \in heard |-> Balance(l, i)], heard)

\* Every getBalance returned or failed.  The credit column is filled in by
\* position, whichever launch is shown by now.
Reconcile(l, heard) ==
    /\ launch[l] = "balances"
    /\ reconciled' = [launch |-> l, heard |-> heard,
                      verdict |-> IF Expected(heard) = Actual(l, heard)
                                  THEN "exact" ELSE "mismatch"]
    /\ column' = [i \in Lanes |-> IF i \in heard \cap Size(roster) THEN Balance(l, i) ELSE column[i]]
    /\ launch' = [launch EXCEPT ![l] = "over"]
    /\ UNCHANGED <<roster, phase, swarmRunning, swarmAbort, aborted, lane, bought, asked>>

SwarmNext ==
    \/ ClickStop
    \/ \E l \in Launches :
           \/ ClickLaunch(l) \/ WarmedUp(l) \/ LanesOver(l)
           \/ \E i \in Size(l) : LaneStep(l, i)
           \/ \E heard \in SUBSET Size(l) : Reconcile(l, heard)

SwarmSpec == SwarmInit /\ [][SwarmNext]_swarmVars

-----------------------------------------------------------------------------
(* Once the user has stopped a swarm, none of its lanes redeems a payment  *)
(* or asks a paid question any more, wherever its awaits were when the     *)
(* signal was aborted.                                                     *)
StoppedLanesSpendNothing ==
    [][\A l \in aborted, i \in Lanes :
           lane[l][i] # lane'[l][i] => lane'[l][i] \notin {"verifying", "asking"}]_swarmVars

(* "every agent bought one bundle and spent exactly one credit, so the     *)
(* balances must agree to the credit" (SwarmSimulator.tsx:199): when the   *)
(* page says "Exact", every agent whose balance it read did buy its bundle *)
(* and paid for exactly one answer.                                        *)
ExactIsAudited ==
    VerdictLine = "exact" =>
        \A i \in reconciled.heard :
            /\ <<reconciled.launch, i>> \in bought
            /\ asked[reconciled.launch][i] = "charged"

(* The page adds up: PerPayment - 1 agents that were answered free make up *)
(* for one that bought nothing.  In a swarm of fewer agents than a bundle  *)
(* has credits, with the trial credits the page reckons with, no refund    *)
(* and no cached answer hides in the sum.                                  *)
ExactMeansPaid ==
    Cardinality(reconciled.heard) < PerPayment /\ Trial = 3 => ExactIsAudited

(* The lanes tell of the swarm that is shown: an agent shown as answered   *)
(* bought its bundle and got its answer in this launch, though the awaits  *)
(* of a launch that was stopped still return under the new one.            *)
LanesAreOfThisSwarm ==
    \A i \in Size(roster) : LaneRow(i) = "answered" =>
        <<roster, i>> \in bought /\ asked[roster][i] \in {"charged", "cached"}

-----------------------------------------------------------------------------
(* Why they hold.  A lane asks only after its hash was redeemed, and what  *)
(* was redeemed or charged stays so, whichever launch is shown.            *)
LanesPayFirst ==
    \A l \in Launches, i \in Lanes :
        /\ lane[l][i] \in {"asking", "answered"} => <<l, i>> \in bought
        /\ lane[l][i] = "answered" => asked[l][i] \in {"charged", "cached"}

SwarmInv ==
    /\ roster \in 0..MaxLaunches
    /\ phase \in [Lanes -> LanePhases]
    /\ reconciled \in [launch : 0..MaxLaunches, verdict : Verdicts, heard : SUBSET Lanes]
    /\ reconciled.verdict = "exact" => reconciled.launch \in Launches
    /\ lane \in [Launches -> [Lanes -> LaneSteps]]
    /\ asked \in [Launches -> [Lanes -> {"no", "charged", "cached", "refunded"}]]
    /\ LanesPayFirst /\ LanesAreOfThisSwarm /\ ExactMeansPaid
=============================================================================
