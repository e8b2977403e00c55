------------------------------ MODULE Handshake ------------------------------
(***************************************************************************)
(* The x402 walkthrough (frontend/src/components/protocol/                 *)
(* ProtocolWorkspace.tsx): an unpaid request, a challenge, a settlement,   *)
(* its verification and a paid question, one await after the other, with   *)
(* the Reset button and the page being left in between.  What its answers  *)
(* do to the credits of the session is in BrowserSession.                  *)
(***************************************************************************)
EXTENDS Naturals, Sequences

CONSTANT MaxWalks  \* bound on clicks on "Run the handshake"

VARIABLES
    step,       \* step[s]: the state of a step of the walkthrough
    walking,    \* `running`
    wire,       \* the responses printed so far: "unpaid", "challenge", "verify"
    paidAnswer, \* none, a prefix, the whole text
    total,      \* whether `totalMs` is set
    walkAbort,  \* whether abortRef holds the controller of the question
    here,       \* the page is open
    \* the closure of `run`
    walk,       \* the step whose call is awaited; "idle" when none
    cancelled,  \* the signal of the question is aborted
    walks,
    \* the server
    redeemed,   \* the hash of this run was redeemed
    answered    \* what became of the question: "no", "charged", "cached", "refunded"

handshakeVars == <<step, walking, wire, paidAnswer, total, walkAbort, here, walk,
                   cancelled, walks, redeemed, answered>>

\* BLUEPRINT
WalkSteps == <<"unpaid", "challenge", "settle", "verify", "answer">>
StepIds == {WalkSteps[n] : n \in DOMAIN WalkSteps}
StepStates == {"idle", "running", "done", "failed"}
AllIdle == [s \in StepIds |-> "idle"]

HandshakeTypeOK ==
    /\ step \in [StepIds -> StepStates]
    /\ walking \in BOOLEAN
    /\ wire \subseteq {"unpaid", "challenge", "verify"}
    /\ paidAnswer \in {"none", "part", "whole"}
    /\ total \in BOOLEAN
    /\ walkAbort \in BOOLEAN
    /\ here \in BOOLEAN
    /\ walk \in StepIds \cup {"idle", "closing"}
    /\ cancelled \in BOOLEAN
    /\ walks \in 0..MaxWalks
    /\ redeemed \in BOOLEAN
    /\ answered \in {"no", "charged", "cached", "refunded"}

HandshakeInit ==
    /\ step = AllIdle
    /\ walking = FALSE
    /\ wire = {}
    /\ paidAnswer = "none"
    /\ total = FALSE
    /\ walkAbort = FALSE
    /\ here = TRUE
    /\ walk = "idle"
    /\ cancelled = FALSE
    /\ walks = 0
    /\ redeemed = FALSE
    /\ answered = "no"

-----------------------------------------------------------------------------
\* What the page draws.

Finished == \A s \in StepIds : step[s] = "done"

\* Reset is offered beside Run when every step is done; Run is disabled
\* while it is loading.
Offers == (IF here /\ Finished THEN {"reset"} ELSE {})
              \cup (IF here /\ ~walking THEN {"run"} ELSE {})

\* A row of the list: a spinner, a tick, a ban or the number of the step.
StepRow(s) ==
    CASE step[s] = "running" -> "spinner"
      [] step[s] = "done" -> "tick"
      [] step[s] = "failed" -> "ban"
      [] OTHER -> "number"

\* "Discovery to paid answer in ..."
Banner == total

\* The card "Paid answer".
PaidAnswerCard == paidAnswer # "none"

-----------------------------------------------------------------------------
\* reset() clears the page and aborts the question.
Cleared ==
    /\ wire' = {}
    /\ paidAnswer' = "none"
    /\ total' = FALSE

\* (bound: the stream of a run that was reset is closed before the next one.)
ClickRun ==
    /\ "run" \in Offers
    /\ walk = "idle"
    /\ walks < MaxWalks
    /\ Cleared
    /\ step' = [AllIdle EXCEPT !["unpaid"] = "running"]
    /\ walking' = TRUE
    /\ walk' = "unpaid"
    /\ cancelled' = FALSE
    /\ walks' = walks + 1
    /\ redeemed' = FALSE
    /\ answered' = "no"
    /\ UNCHANGED <<walkAbort, here>>

ClickReset ==
    /\ "reset" \in Offers
    /\ Cleared
    /\ step' = AllIdle
    /\ walking' = FALSE
    /\ cancelled' = (cancelled \/ walkAbort)
    /\ UNCHANGED <<walkAbort, here, walk, walks, redeemed, answered>>

\* The page is left: only the question can be aborted, the other calls go on.
LeaveWalk ==
    /\ here
    /\ here' = FALSE
    /\ cancelled' = (cancelled \/ walkAbort)
    /\ UNCHANGED <<step, walking, wire, paidAnswer, total, walkAbort, walk, walks,
                   redeemed, answered>>

-----------------------------------------------------------------------------
\* One await of `run` after the other.

GoOn(from, verdict, to) ==
    /\ walk = from
    /\ step' = [step EXCEPT ![from] = verdict, ![to] = "running"]
    /\ walk' = to

\* Any status but 402 fails the first step; the run goes on all the same.
Probed ==
    /\ \E verdict \in {"done", "failed"} : GoOn("unpaid", verdict, "challenge")
    /\ wire' = wire \cup {"unpaid"}
    /\ UNCHANGED <<walking, paidAnswer, total, walkAbort, here, cancelled, walks,
                   redeemed, answered>>

Challenged ==
    /\ GoOn("challenge", "done", "settle")
    /\ wire' = wire \cup {"challenge"}
    /\ UNCHANGED <<walking, paidAnswer, total, walkAbort, here, cancelled, walks,
                   redeemed, answered>>

\* The pause of 620 ms is over.
SandboxSettled ==
    /\ GoOn("settle", "done", "verify")
    /\ UNCHANGED <<walking, wire, paidAnswer, total, walkAbort, here, cancelled, walks,
                   redeemed, answered>>

ServeRedemption ==
    /\ walk = "verify"
    /\ ~redeemed
    /\ redeemed' = TRUE
    /\ UNCHANGED <<step, walking, wire, paidAnswer, total, walkAbort, here, walk,
                   cancelled, walks, answered>>

\* The controller of the question is made after the payment.
PaymentVerified ==
    /\ redeemed
    /\ GoOn("verify", "done", "answer")
    /\ wire' = wire \cup {"verify"}
    /\ walkAbort' = TRUE
    /\ UNCHANGED <<walking, paidAnswer, total, here, cancelled, walks, redeemed, answered>>

ServeAnswer ==
    /\ walk = "answer"
    /\ answered = "no"
    /\ \E outcome \in {"charged", "cached", "refunded"} : answered' = outcome
    /\ UNCHANGED <<step, walking, wire, paidAnswer, total, walkAbort, here, walk,
                   cancelled, walks, redeemed>>

\* onToken
AnswerStreams ==
    /\ walk = "answer"
    /\ ~cancelled
    /\ answered # "no"
    /\ paidAnswer = "none"
    /\ paidAnswer' = "part"
    /\ UNCHANGED <<step, walking, wire, total, walkAbort, here, walk, cancelled, walks,
                   redeemed, answered>>

\* onDone; the stream is still to be closed.
AnswerDone ==
    /\ walk = "answer"
    /\ ~cancelled
    /\ answered \in {"charged", "cached"}
    /\ paidAnswer' = "whole"
    /\ step' = [step EXCEPT !["answer"] = "done"]
    /\ walk' = "closing"
    /\ UNCHANGED <<walking, wire, total, walkAbort, here, cancelled, walks, redeemed,
                   answered>>

\* What follows `await streamAnswer`, however it came back, and finally.
AfterQuestion ==
    /\ total' = TRUE
    /\ walking' = FALSE
    /\ walkAbort' = FALSE
    /\ walk' = "idle"
    /\ UNCHANGED <<wire, paidAnswer, here, cancelled, walks, redeemed, answered>>

QuestionClosed ==
    /\ \/ walk = "closing"
       \/ walk = "answer" /\ cancelled
    /\ AfterQuestion
    /\ UNCHANGED step

\* onError: refused, failed on the server or broken off, maybe after onDone.
QuestionFailed ==
    /\ walk \in {"answer", "closing"}
    /\ ~cancelled
    /\ step' = [step EXCEPT !["answer"] = "failed"]
    /\ AfterQuestion

\* Slip: the catch clause leaves the steps as they were.
LeaveRunning(st) == st

\* The catch clause: what was running has failed.
FailRunning(st) == [s \in StepIds |-> IF st[s] = "running" THEN "failed" ELSE st[s]]

CallFailed ==
    /\ walk \in {"unpaid", "challenge", "verify"}
    /\ step' = FailRunning(step)
    /\ walking' = FALSE
    /\ walkAbort' = FALSE
    /\ walk' = "idle"
    /\ UNCHANGED <<wire, paidAnswer, total, here, cancelled, walks, redeemed, answered>>

WalkStep ==
    \/ Probed \/ Challenged \/ SandboxSettled \/ PaymentVerified
    \/ AnswerStreams \/ AnswerDone \/ QuestionClosed \/ QuestionFailed \/ CallFailed

Serving == ServeRedemption \/ ServeAnswer

HandshakeNext ==
    \/ ClickRun \/ ClickReset \/ LeaveWalk
    \/ WalkStep \/ Serving

\* The pause ends, and every call is answered, refused or cut off at last.
HandshakeSpec ==
    /\ HandshakeInit /\ [][HandshakeNext]_handshakeVars
    /\ WF_handshakeVars(WalkStep) /\ WF_handshakeVars(Serving)

-----------------------------------------------------------------------------
(* Nothing spins on a page whose run is over: whichever await failed, and  *)
(* whether the stream ended, broke off or was reset, the list shows how    *)
(* far the run came.                                                       *)
NothingSpinsWhenIdle == here /\ ~walking => \A s \in StepIds : StepRow(s) # "spinner"

(* The ticks are those of one payment: an answer is ticked only when this  *)
(* run's payment was redeemed, its three responses are printed and the     *)
(* card holds the whole answer.                                            *)
TickedAnswerWasPaidFor ==
    StepRow("answer") = "tick" =>
        /\ redeemed /\ answered \in {"charged", "cached"}
        /\ wire = {"unpaid", "challenge", "verify"}
        /\ PaidAnswerCard /\ paidAnswer = "whole"

(* "Discovery to paid answer in ..." is never said of a run whose payment  *)
(* was not redeemed, whichever of its steps failed and though the page was *)
(* reset while its stream was still open.                                  *)
BannerTellsOfAPayment == Banner => redeemed

(* The run comes to an end.                                                *)
WalkEnds == walking ~> ~walking

-----------------------------------------------------------------------------
(* Why these hold.  The list shows where the closure is: the step whose    *)
(* call is awaited runs, and no other does while the page is open.  The    *)
(* question has a controller as long as it is asked, so that whoever       *)
(* leaves or resets cancels it, and it is asked of a redeemed payment.     *)
RunsWhereItWaits ==
    /\ walk \in StepIds => walking /\ step[walk] = "running"
    /\ \A s \in StepIds : step[s] = "running" => walk = s \/ ~here

QuestionsArePaidFor ==
    /\ walkAbort <=> walk \in {"answer", "closing"}
    /\ walk \in {"answer", "closing"} => redeemed
    /\ walk = "closing" => answered \in {"charged", "cached"}
    /\ total => redeemed
    /\ cancelled /\ walk \in StepIds => ~here

WirePrinted ==
    /\ walk \in {"challenge", "settle", "verify"} => "unpaid" \in wire
    /\ walk \in {"settle", "verify"} => "challenge" \in wire
    /\ walk = "answer" => wire = {"unpaid", "challenge", "verify"}

HandshakeInv ==
    /\ HandshakeTypeOK
    /\ RunsWhereItWaits /\ QuestionsArePaidFor /\ WirePrinted
    /\ TickedAnswerWasPaidFor
=============================================================================
