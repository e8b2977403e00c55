------------------------------ MODULE PaidQuery ------------------------------
(***************************************************************************)
(* The paid endpoints POST /rag/query and POST /rag/stream                 *)
(* (backend/app/api/endpoints/rag.py): the debit before the answer, the    *)
(* refund after a failure, the conversation the turn is saved in and the   *)
(* query log.                                                              *)
(*                                                                         *)
(* Each `await run_in_threadpool(...)` is one action: the event loop runs  *)
(* other requests in between.  Retrieval and generation are one step with  *)
(* the outcomes their callers tell apart: an answer, an empty one, an      *)
(* AppError, any other exception.  The client of a stream may leave at any *)
(* time, a conversation may be deleted and the server may crash.           *)
(***************************************************************************)
EXTENDS CreditStore, Sequences

CONSTANTS
    Queries,       \* requests to one of the two endpoints
    Conversations, \* conversation ids: at least one per query
    Nobody,        \* no agent, no conversation
    MaxCrashes     \* bound on server restarts

ASSUME PaidQueryAssumption ==
    /\ Nobody \notin Agents \cup Conversations
    /\ MaxCrashes \in Nat

VARIABLES
    \* the tables `conversations`, `messages` and `query_log`
    minted,        \* conversation ids given out so far
    owner,         \* owner[c]: agent_id of the row; Nobody without one
    messages,      \* messages[c]: the rows of c, oldest first
    log,           \* log[q]: status of the row that q wrote, "none" before
    \* the credit_ledger entries that q wrote
    debits, refunds,
    \* the requests
    pc,
    who,           \* who[q]: agent_id of the token
    streams,       \* queries that went to POST /rag/stream
    conv,          \* conv[q]: its conversation_id; Nobody for none
    left,          \* streams whose client has disconnected
    crashes

turnVars == <<minted, owner, messages>>
chargeVars == <<debits, refunds>>
callVars == <<who, streams, left, crashes>>
vars == <<rows, credits, spent, posted, lastBalance, minted, owner, messages, log,
          debits, refunds, pc, who, streams, conv, left, crashes>>

\* How a request ends: with an answer; refused for want of credits; with an
\* error after a refund; a stream that stops short, refunded; with an error
\* while the turn is saved; cut off by the web server; lost in a crash.
Ended == {"answered", "refused", "failed", "aborted", "save_error", "cut_off", "lost"}
StreamSteps == {"stream", "events", "refund_stream", "cleanup", "save_question",
                "save_answer", "log_success"}
Labels == {"new", "conversation", "lookup", "debit", "generate", "refund_app_error",
           "refund_exception", "log_failure"} \cup StreamSteps \cup Ended

InFlight == {q \in Queries : pc[q] \notin Ended \cup {"new"}}

Message == [role : {"user", "assistant"}, query : Queries]

TypeOK ==
    /\ StoreTypeOK
    /\ minted \subseteq Conversations
    /\ owner \in [Conversations -> Agents \cup {Nobody}]
    /\ messages \in [Conversations -> Seq(Message)]
    /\ log \in [Queries -> {"none", "cached", "failed", "success"}]
    /\ debits \in [Queries -> Nat] /\ refunds \in [Queries -> Nat]
    /\ pc \in [Queries -> Labels]
    /\ who \in [Queries -> Agents \cup {Nobody}]
    /\ streams \subseteq Queries /\ left \subseteq streams
    /\ conv \in [Queries -> Conversations \cup {Nobody}]
    /\ crashes \in 0..MaxCrashes

Init ==
    /\ StoreInit
    /\ minted = {}
    /\ owner = [c \in Conversations |-> Nobody]
    /\ messages = [c \in Conversations |-> <<>>]
    /\ log = [q \in Queries |-> "none"]
    /\ debits = [q \in Queries |-> 0]
    /\ refunds = [q \in Queries |-> 0]
    /\ pc = [q \in Queries |-> "new"]
    /\ who = [q \in Queries |-> Nobody]
    /\ streams = {} /\ left = {}
    /\ conv = [q \in Queries |-> Nobody]
    /\ crashes = 0

-----------------------------------------------------------------------------
Goto(q, label) == pc' = [pc EXCEPT ![q] = label]

\* POST /agents/register
Register(a) ==
    /\ a \notin rows
    /\ OpenAccount(a)
    /\ UNCHANGED <<turnVars, log, chargeVars, pc, conv, callVars>>

\* require_paid_agent let the request in: the agent exists and its balance was
\* positive.  The body may name a conversation, not always the agent's own.
Receive(q, a, stream, remember, c) ==
    /\ pc[q] = "new"
    /\ a \in rows /\ credits[a] > 0
    /\ Goto(q, IF remember THEN "conversation" ELSE "lookup")
    /\ who' = [who EXCEPT ![q] = a]
    /\ streams' = IF stream THEN streams \cup {q} ELSE streams
    /\ conv' = [conv EXCEPT ![q] = IF remember THEN c ELSE Nobody]
    /\ UNCHANGED <<storeVars, turnVars, log, chargeVars, left, crashes>>

\* Slip: any conversation that exists will do.
KeepsConversationAnyone(q) == conv[q] # Nobody /\ owner[conv[q]] # Nobody

\* The conversation the body names is the agent's own.
KeepsConversation(q) == conv[q] # Nobody /\ owner[conv[q]] = who[q]

\* _ensure_conversation: anything but the agent's own conversation is replaced
\* by a new one.
EnsureConversation(q) ==
    /\ pc[q] = "conversation"
    /\ Goto(q, "lookup")
    /\ \/ KeepsConversation(q) /\ UNCHANGED <<minted, owner, conv>>
       \/ /\ ~KeepsConversation(q)
          /\ \E c \in Conversations \ minted :
                /\ minted' = minted \cup {c}
                /\ owner' = [owner EXCEPT ![c] = who[q]]
                /\ conv' = [conv EXCEPT ![q] = c]
    /\ UNCHANGED <<storeVars, messages, log, chargeVars, callVars>>

\* A hit of the semantic cache is logged and answered without a debit.
AnswerFromCache(q) ==
    /\ pc[q] = "lookup"
    /\ log' = [log EXCEPT ![q] = "cached"]
    /\ Goto(q, "answered")
    /\ UNCHANGED <<storeVars, turnVars, chargeVars, conv, callVars>>

MissCache(q) ==
    /\ pc[q] = "lookup"
    /\ Goto(q, "debit")
    /\ UNCHANGED <<storeVars, turnVars, log, chargeVars, conv, callVars>>

\* consume_credit, and the race against another query for the last credit.
Debit(q) ==
    /\ pc[q] = "debit"
    /\ \/ /\ ConsumeCredits(who[q], 1, 1)
          /\ debits' = [debits EXCEPT ![q] = @ + 1]
          /\ Goto(q, IF q \in streams THEN "stream" ELSE "generate")
       \/ /\ ~Affordable(who[q], 1)
          /\ Goto(q, "refused")
          /\ UNCHANGED <<storeVars, debits>>
    /\ UNCHANGED <<turnVars, log, refunds, conv, callVars>>

GiveBack(q) ==
    /\ RefundCredits(who[q], 1)
    /\ refunds' = [refunds EXCEPT ![q] = @ + 1]
    /\ UNCHANGED <<debits, turnVars>>

-----------------------------------------------------------------------------
(***************************************************************************)
(* POST /rag/query                                                         *)
(***************************************************************************)

\* Where a request goes with its answer.
SaveTurn(q) == IF conv[q] = Nobody THEN "log_success" ELSE "save_question"

\* Slip: an error the service raises itself is logged but not refunded.
GenerateForgetful(q) ==
    /\ pc[q] = "generate"
    /\ \E label \in {SaveTurn(q), "log_failure", "refund_exception"} : Goto(q, label)
    /\ UNCHANGED <<storeVars, turnVars, log, chargeVars, conv, callVars>>

\* rag_service.answer
Generate(q) ==
    /\ pc[q] = "generate"
    /\ \E label \in {SaveTurn(q), "refund_app_error", "refund_exception"} : Goto(q, label)
    /\ UNCHANGED <<storeVars, turnVars, log, chargeVars, conv, callVars>>

\* Both except clauses; only the first logs the failure.
RefundFailure(q) ==
    /\ \/ pc[q] = "refund_app_error" /\ Goto(q, "log_failure")
       \/ pc[q] = "refund_exception" /\ Goto(q, "failed")
    /\ GiveBack(q)
    /\ UNCHANGED <<log, conv, callVars>>

LogFailure(q) ==
    /\ pc[q] = "log_failure"
    /\ log' = [log EXCEPT ![q] = "failed"]
    /\ Goto(q, "failed")
    /\ UNCHANGED <<storeVars, turnVars, chargeVars, conv, callVars>>

\* add_message; the foreign key refuses a row once the conversation is gone,
\* and nobody catches that.
AddMessage(q, role, label) ==
    /\ \/ /\ owner[conv[q]] # Nobody
          /\ messages' = [messages EXCEPT ![conv[q]] =
                              Append(@, [role |-> role, query |-> q])]
          /\ Goto(q, label)
       \/ /\ owner[conv[q]] = Nobody
          /\ Goto(q, "save_error")
          /\ UNCHANGED messages
    /\ UNCHANGED <<storeVars, minted, owner, log, chargeVars, conv, callVars>>

\* Slip: one call writes the turn, and a question without an answer is lost.
SaveQuestionSkipped(q) ==
    /\ pc[q] = "save_question"
    /\ Goto(q, "save_answer")
    /\ UNCHANGED <<storeVars, turnVars, log, chargeVars, conv, callVars>>

SaveQuestion(q) == pc[q] = "save_question" /\ AddMessage(q, "user", "save_answer")

SaveAnswer(q) == pc[q] = "save_answer" /\ AddMessage(q, "assistant", "log_success")

LogSuccess(q) ==
    /\ pc[q] = "log_success"
    /\ log' = [log EXCEPT ![q] = "success"]
    /\ Goto(q, "answered")
    /\ UNCHANGED <<storeVars, turnVars, chargeVars, conv, callVars>>

-----------------------------------------------------------------------------
(***************************************************************************)
(* POST /rag/stream                                                        *)
(***************************************************************************)

\* The first step of event_stream, up to the `start` event.
StartStream(q) ==
    /\ pc[q] = "stream"
    /\ Goto(q, "events")
    /\ UNCHANGED <<storeVars, turnVars, log, chargeVars, conv, callVars>>

\* The events up to the one that ends the loop: `done` with an answer, while
\* the client is there; the break after a disconnect or `done` with an empty
\* answer; an exception, after which `charged` is False.
StreamEvents(q) ==
    /\ pc[q] = "events"
    /\ \/ q \notin left /\ Goto(q, SaveTurn(q))
       \/ Goto(q, "cleanup")
       \/ Goto(q, "refund_stream")
    /\ UNCHANGED <<storeVars, turnVars, log, chargeVars, conv, callVars>>

\* Slip: `charged` is still True when the finally block looks at it.
RefundStreamTwice(q) ==
    /\ pc[q] = "refund_stream"
    /\ GiveBack(q)
    /\ Goto(q, "cleanup")
    /\ UNCHANGED <<log, conv, callVars>>

\* The refund of the except clauses and the `error` event.
RefundStream(q) ==
    /\ pc[q] = "refund_stream"
    /\ GiveBack(q)
    /\ Goto(q, "failed")
    /\ UNCHANGED <<log, conv, callVars>>

\* The refund of the finally block.
CleanUp(q) ==
    /\ pc[q] = "cleanup"
    /\ GiveBack(q)
    /\ Goto(q, "aborted")
    /\ UNCHANGED <<log, conv, callVars>>

ClientLeaves(q) ==
    /\ q \in streams \cap InFlight
    /\ q \notin left
    /\ left' = left \cup {q}
    /\ UNCHANGED <<storeVars, turnVars, log, chargeVars, pc, conv, who, streams, crashes>>

\* The web server stops a response whose client is gone.  A generator that was
\* not started is dropped and its finally block never runs; in a started one
\* the cancellation strikes again at the awaits of the finally block.
CutOff(q) ==
    /\ q \in left
    /\ pc[q] \in StreamSteps
    /\ Goto(q, "cut_off")
    /\ UNCHANGED <<storeVars, turnVars, log, chargeVars, conv, callVars>>

-----------------------------------------------------------------------------
\* DELETE /conversations/{id}; the messages go with it (ON DELETE CASCADE).
DeleteConversation(c) ==
    /\ owner[c] # Nobody
    /\ owner' = [owner EXCEPT ![c] = Nobody]
    /\ messages' = [messages EXCEPT ![c] = <<>>]
    /\ UNCHANGED <<storeVars, minted, log, chargeVars, pc, conv, callVars>>

Crash ==
    /\ crashes < MaxCrashes
    /\ InFlight # {}
    /\ crashes' = crashes + 1
    /\ pc' = [q \in Queries |-> IF q \in InFlight THEN "lost" ELSE pc[q]]
    /\ UNCHANGED <<storeVars, turnVars, log, chargeVars, conv, who, streams, left>>

\* The steps the server is bound to take.
Step(q) ==
    \/ EnsureConversation(q)
    \/ AnswerFromCache(q) \/ MissCache(q) \/ Debit(q)
    \/ Generate(q) \/ RefundFailure(q) \/ LogFailure(q)
    \/ SaveQuestion(q) \/ SaveAnswer(q) \/ LogSuccess(q)
    \/ StartStream(q) \/ StreamEvents(q) \/ RefundStream(q) \/ CleanUp(q)

Next ==
    \/ \E a \in Agents : Register(a)
    \/ \E q \in Queries :
          \/ Step(q) \/ ClientLeaves(q) \/ CutOff(q)
          \/ \E a \in Agents, stream, remember \in BOOLEAN, c \in minted \cup {Nobody} :
                Receive(q, a, stream, remember, c)
    \/ \E c \in Conversations : DeleteConversation(c)
    \/ Crash

Spec == Init /\ [][Next]_vars

\* The event loop gets to every request that is ready, and retrieval and the
\* calls to the model return or time out.  Nothing obliges clients to call or
\* leave, the web server to cut a stream off, or the server to crash.
FairSpec == Spec /\ \A q \in Queries : WF_vars(Step(q))

-----------------------------------------------------------------------------
(***************************************************************************)
(* Properties.                                                             *)
(***************************************************************************)

Net(q) == debits[q] - refunds[q]

\* However a request ends, its price agrees with its end: an answer that was
\* generated costs one credit and a cached one nothing; a request that was
\* refused, failed or stopped short costs nothing.  Three refund paths, the
\* shared tail of both endpoints and the race for the last credit meet here.
AnswerOrMoneyBack ==
    \A q \in Queries :
        /\ pc[q] = "answered" => Net(q) = IF log[q] = "cached" THEN 0 ELSE 1
        /\ pc[q] \in {"refused", "failed", "aborted"} => Net(q) = 0

\* What the query log says of a request is what its agent was billed.
LogMatchesBill ==
    \A q \in Queries :
        /\ log[q] = "success" => Net(q) = 1
        /\ log[q] \in {"cached", "failed"} => Net(q) = 0

MessagesOf(c) == {messages[c][i] : i \in DOMAIN messages[c]}

\* A conversation holds turns of its owner only, although the owner was looked
\* up before the generation and the rows are written after it.
ConversationsArePrivate ==
    \A c \in Conversations : \A m \in MessagesOf(c) : who[m.query] = owner[c]

HasRow(c, role, q) == [role |-> role, query |-> q] \in MessagesOf(c)

QuestionsFirst(c) ==
    \A j \in DOMAIN messages[c] :
        messages[c][j].role = "assistant" =>
            \E i \in 1..(j - 1) :
                messages[c][i] = [role |-> "user", query |-> messages[c][j].query]

\* An answer never stands in a conversation without its question, however the
\* turns of concurrent requests interleave and wherever a request is cut off;
\* and an answered request has both unless the conversation was deleted.
TurnsAreComplete ==
    \A c \in Conversations :
        /\ QuestionsFirst(c)
        /\ \A q \in Queries :
              pc[q] = "answered" /\ log[q] = "success" /\ conv[q] = c /\ owner[c] # Nobody
                  => HasRow(c, "assistant", q)

\* What a request has been billed, and logged, at each of its steps.
Unbilled == {"new", "conversation", "lookup", "debit", "refused"}
Billed == {"generate", "refund_app_error", "refund_exception", "save_error", "cut_off"}
              \cup StreamSteps
Refunded == {"log_failure", "aborted"}

BillInv(q) ==
    /\ pc[q] \in Unbilled => debits[q] = 0 /\ refunds[q] = 0 /\ log[q] = "none"
    /\ pc[q] \in Billed => debits[q] = 1 /\ refunds[q] = 0 /\ log[q] = "none"
    /\ pc[q] \in Refunded => debits[q] = 1 /\ refunds[q] = 1 /\ log[q] = "none"
    /\ pc[q] = "failed" =>
           debits[q] = 1 /\ refunds[q] = 1 /\ log[q] \in {"none", "failed"}
    /\ pc[q] = "answered" =>
           \/ debits[q] = 0 /\ refunds[q] = 0 /\ log[q] = "cached"
           \/ debits[q] = 1 /\ refunds[q] = 0 /\ log[q] = "success"
    /\ pc[q] = "lost" =>
           refunds[q] <= debits[q] /\ debits[q] <= 1 /\ log[q] = "none"

\* What a request has established about its agent and its conversation.  The
\* row may be deleted at any time, but never becomes another agent's.
TurnInv(q) ==
    /\ pc[q] # "new" => who[q] \in rows
    /\ conv[q] # Nobody => conv[q] \in minted
    /\ pc[q] \in {"save_question", "save_answer"} => conv[q] # Nobody
    /\ conv[q] # Nobody /\ owner[conv[q]] # Nobody =>
           /\ pc[q] \in {"new", "conversation", "lost"} \/ owner[conv[q]] = who[q]
           /\ pc[q] = "save_answer" => HasRow(conv[q], "user", q)
           /\ pc[q] = "log_success" \/ (pc[q] = "answered" /\ log[q] = "success") =>
                  HasRow(conv[q], "assistant", q)

ConversationInv(c) ==
    /\ owner[c] # Nobody => c \in minted
    /\ owner[c] = Nobody => messages[c] = <<>>
    /\ \A m \in MessagesOf(c) : pc[m.query] # "new" /\ who[m.query] = owner[c]
    /\ QuestionsFirst(c)

\* The inductive invariant behind the four properties above and Escrow.
PaidQueryInv ==
    /\ TypeOK /\ StoreInv
    /\ \A q \in Queries : BillInv(q) /\ TurnInv(q)
    /\ \A c \in Conversations : ConversationInv(c)

\* The credit of a request is held, then kept or returned: Escrow.
ChargeState(q) ==
    IF debits[q] = 0 THEN "none"
    ELSE IF refunds[q] > 0 THEN "returned"
    ELSE IF pc[q] \in Ended THEN "kept"
    ELSE "held"

Abstract == INSTANCE Escrow
    WITH funded  <- rows,
         balance <- credits,
         holder  <- [q \in Queries |-> IF debits[q] = 0 THEN Nobody ELSE who[q]],
         charge  <- [q \in Queries |-> ChargeState(q)]

ImplementsEscrow == Abstract!EscrowSpec

\* While the server stays up, the clients stay and no conversation is deleted,
\* every credit taken is returned or paid for an answer that is on record.
Undisturbed ==
    crashes = 0 /\ left = {} /\ \A c \in minted : owner[c] # Nobody

ChargesAreSettled ==
    []Undisturbed =>
        \A q \in Queries : debits[q] = 1 ~> refunds[q] = 1 \/ log[q] = "success"

\* "Any failure emits a terminal ``error`` event and refunds the credit, so a
\* dropped connection never costs the caller." (rag.py:217): a stream whose
\* client left before the answer was complete ends without a charge.
DroppedConnectionIsFree ==
    [][\A q \in left :
           pc[q] \in {"stream", "events", "refund_stream", "cleanup"}
               /\ pc'[q] \in Ended /\ crashes' = crashes
               => Net(q)' = 0]_vars
=============================================================================
