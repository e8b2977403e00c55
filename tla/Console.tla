-------------------------------- MODULE Console ---------------------------------
(***************************************************************************)
(* The knowledge console (frontend/src/components/console/                 *)
(* ConsoleWorkspace.tsx): one question at a time is streamed into its      *)
(* turn, while the user stops it, begins a new conversation, opens an      *)
(* earlier one or deletes one, and the answers of those calls land when    *)
(* they land.  The session and the dialog are in BrowserSession and        *)
(* Paywall: here getToken gives a token or throws, and `credits`, which    *)
(* any of their answers may change, is looked at only when a question is   *)
(* asked: without credits the dialog opens and nothing else happens.       *)
(*                                                                         *)
(* Conversations are numbered in the order the server makes them; those up *)
(* to Earlier are there when the page is opened.  A turn is known by the   *)
(* number of its question.                                                 *)
(***************************************************************************)
EXTENDS Naturals, Sequences, FiniteSets

CONSTANTS
    MaxTurns,  \* bound on the questions asked
    Earlier,   \* conversations kept from earlier visits
    MaxCalls   \* bound on conversations being opened or deleted at once

Turns == 1..MaxTurns
Conversations == 1..(Earlier + MaxTurns)
NoConversation == 0
AnyConversation == Conversations \cup {NoConversation}

VARIABLES
    \* the component's state
    turnStatus,    \* turnStatus[t]: `status` of turn t; "absent" when not on the screen
    restored,      \* the conversation whose messages were loaded into the screen
    conversationId,
    streaming,
    seeded,        \* seededRef, or no ?q= in the address
    \* its calls
    stream,        \* [turn, continues, at, seen]: the question under way
    askStopped,    \* the signal of that question is aborted
    opening,       \* conversations whose getConversation is on its way
    deleting,      \* [conversation, shown]: deleteConversation on its way, and
                   \* the conversationId of the closure that called it
    \* the server
    kept,          \* the conversations it has
    made,          \* how many it has made
    files,         \* files[t]: the conversation it filed question t under
    begun,         \* history: questions whose "start" was dispatched
    crossed        \* history: the screen and conversationId came from
                   \* different calls, or the conversation was deleted

pageVars == <<turnStatus, restored, conversationId, streaming, seeded>>
callVars == <<stream, askStopped, opening, deleting>>
serverVars == <<kept, made, files>>
historyVars == <<begun, crossed>>
consoleVars == <<pageVars, callVars, serverVars, historyVars>>

\* What the handlers tell apart in the stream of /rag/stream.
ConsoleEvents == <<"start", "retrieval", "token", "done">>

ConsoleTypeOK ==
    /\ turnStatus \in [Turns -> {"absent", "retrieving", "generating", "done", "error"}]
    /\ {restored, conversationId} \subseteq AnyConversation
    /\ {streaming, seeded, askStopped, crossed} \subseteq BOOLEAN
    /\ stream \in [turn : 0..MaxTurns, continues : AnyConversation, seen : 0..4,
                   at : {"idle", "token", "sent", "open", "told"}]
    /\ opening \subseteq Conversations
    /\ deleting \subseteq [conversation : Conversations, shown : AnyConversation]
    /\ kept \subseteq Conversations
    /\ made \in Conversations \cup {0}
    /\ files \in [Turns -> AnyConversation]
    /\ begun \subseteq Turns

NoStream == [turn |-> 0, continues |-> NoConversation, seen |-> 0, at |-> "idle"]

ConsoleInit ==
    /\ turnStatus = [t \in Turns |-> "absent"]
    /\ restored = NoConversation
    /\ conversationId = NoConversation
    /\ streaming = FALSE
    /\ seeded \in BOOLEAN
    /\ stream = NoStream
    /\ askStopped = FALSE
    /\ opening = {}
    /\ deleting = {}
    /\ kept = 1..Earlier
    /\ made = Earlier
    /\ files = [t \in Turns |-> NoConversation]
    /\ begun = {}
    /\ crossed = FALSE

-----------------------------------------------------------------------------
\* What the page offers.

OnScreen == {t \in Turns : turnStatus[t] # "absent"}
Empty == OnScreen = {} /\ restored = NoConversation

\* The composer: Stop while `streaming`, Ask otherwise.
ComposerButton == IF streaming THEN "stop" ELSE "ask"

\* A turn as it is drawn.
TurnShows(t) ==
    CASE turnStatus[t] = "retrieving" -> "searching"
      [] turnStatus[t] = "generating" -> "writing"
      [] turnStatus[t] = "done" -> "answer"
      [] OTHER -> "error"

\* Chips that ask: the starters of an empty screen, the follow-ups of a turn.
\* They are there while a question is streamed too, and before `ready`.
ChipsThere == Empty \/ \E t \in OnScreen : TurnShows(t) \in {"answer", "writing"}

-----------------------------------------------------------------------------
\* ask.

Patch(t, s) ==
    turnStatus' = IF turnStatus[t] = "absent" THEN turnStatus ELSE [turnStatus EXCEPT ![t] = s]

\* The part of `ask` before its first await, for turn t, with credits.
Ask(t) ==
    /\ t = stream.turn + 1
    /\ ~streaming
    /\ turnStatus' = [turnStatus EXCEPT ![t] = "retrieving"]
    /\ streaming' = TRUE
    /\ askStopped' = FALSE
    /\ stream' = [turn |-> t, continues |-> conversationId, seen |-> 0, at |-> "token"]
    /\ UNCHANGED <<restored, conversationId, opening, deleting, serverVars, historyVars>>

AskFromPage(t) ==
    /\ ComposerButton = "ask" \/ ChipsThere
    /\ Ask(t)
    /\ UNCHANGED seeded

\* The question that came with the address, once there are credits.  It is
\* lost while another one is streamed, or when `credits` or `ready` changes
\* before its timer of 0 ms, which the effect then clears for good.
AskSeeded(t) ==
    /\ ~seeded
    /\ seeded' = TRUE
    /\ \/ Ask(t)
       \/ UNCHANGED <<turnStatus, restored, conversationId, streaming, callVars, serverVars,
                      historyVars>>

StreamGoes(at) == stream' = [stream EXCEPT !.at = at]

\* finally: `streaming` is cleared.
Finish ==
    /\ StreamGoes("idle")
    /\ streaming' = FALSE

\* getToken resolved: the request is sent, or an aborted fetch returns.
SendQuestion ==
    /\ stream.at = "token"
    /\ IF askStopped THEN Finish ELSE StreamGoes("sent") /\ UNCHANGED streaming
    /\ UNCHANGED <<turnStatus, restored, conversationId, seeded, askStopped, opening,
                   deleting, serverVars, historyVars>>

\* getToken threw: the catch clause.
NoToken ==
    /\ stream.at = "token"
    /\ Patch(stream.turn, "error")
    /\ Finish
    /\ UNCHANGED <<restored, conversationId, seeded, askStopped, opening,
                   deleting, serverVars, historyVars>>

\* The server files the question under the conversation it continues, or
\* under a new one.  It may do so for a request that was aborted.
ServeQuestion ==
    /\ stream.at = "sent"
    /\ files[stream.turn] = NoConversation
    /\ IF stream.continues \in kept
       THEN files' = [files EXCEPT ![stream.turn] = stream.continues] /\ UNCHANGED <<kept, made>>
       ELSE /\ made' = made + 1
            /\ kept' = kept \cup {made + 1}
            /\ files' = [files EXCEPT ![stream.turn] = made + 1]
    /\ crossed' = (crossed \/ stream.continues \notin kept \cup {NoConversation})
    /\ UNCHANGED <<pageVars, callVars, begun>>

Dispatch(event) ==
    /\ stream.at \in {"sent", "open"}
    /\ ~askStopped
    /\ files[stream.turn] # NoConversation
    /\ stream.seen < Len(ConsoleEvents)
    /\ ConsoleEvents[stream.seen + 1] = event
    /\ stream' = [stream EXCEPT !.seen = @ + 1, !.at = "open"]
    /\ UNCHANGED <<restored, streaming, seeded, askStopped, opening, deleting,
                   serverVars, crossed>>

OnStart ==
    /\ Dispatch("start")
    /\ conversationId' = files[stream.turn]
    /\ begun' = begun \cup {stream.turn}
    /\ UNCHANGED turnStatus

\* onStatus or onRetrieval.
OnRetrieval ==
    /\ Dispatch("retrieval")
    /\ Patch(stream.turn, "retrieving")
    /\ UNCHANGED <<conversationId, begun>>

OnToken ==
    /\ Dispatch("token")
    /\ Patch(stream.turn, "generating")
    /\ UNCHANGED <<conversationId, begun>>

OnDone ==
    /\ Dispatch("done")
    /\ Patch(stream.turn, "done")
    /\ UNCHANGED <<conversationId, begun>>

\* A refused request, an error event, or a body that breaks off, which may
\* follow "done": the paywall opens if it was for want of credits.
OnError ==
    /\ stream.at \in {"sent", "open"}
    /\ ~askStopped
    /\ Patch(stream.turn, "error")
    /\ StreamGoes("told")
    /\ UNCHANGED <<restored, conversationId, streaming, seeded, askStopped, opening, deleting,
                   serverVars, begun, crossed>>

\* streamAnswer resolves: at the end of the body, after onError, or at an
\* abort, which is silent.
StreamOver ==
    /\ \/ stream.at = "told"
       \/ stream.at = "open" /\ stream.seen = Len(ConsoleEvents)
       \/ stream.at \in {"sent", "open"} /\ askStopped
    /\ Finish
    /\ UNCHANGED <<turnStatus, restored, conversationId, seeded, askStopped, opening,
                   deleting, serverVars, historyVars>>

-----------------------------------------------------------------------------
\* The other controls.

ClickStop ==
    /\ ComposerButton = "stop"
    /\ askStopped' = TRUE
    /\ UNCHANGED <<pageVars, stream, opening, deleting, serverVars, historyVars>>

\* Slip: the screen is cleared and the conversation is kept.
StartNewInTheSame ==
    /\ askStopped' = (askStopped \/ streaming)
    /\ turnStatus' = [t \in Turns |-> "absent"]
    /\ restored' = NoConversation
    /\ crossed' = FALSE
    /\ UNCHANGED <<conversationId, streaming, seeded, stream, serverVars, begun>>

\* startNew.
StartNew ==
    /\ askStopped' = (askStopped \/ streaming)
    /\ turnStatus' = [t \in Turns |-> "absent"]
    /\ restored' = NoConversation
    /\ conversationId' = NoConversation
    /\ crossed' = FALSE
    /\ UNCHANGED <<streaming, seeded, stream, serverVars, begun>>

ClickNew == StartNew /\ UNCHANGED <<opening, deleting>>

CallsLeft == Cardinality(opening) + Cardinality(deleting) < MaxCalls

ClickOpen(id) ==
    /\ id \in 1..made
    /\ id \notin opening
    /\ CallsLeft
    /\ opening' = opening \cup {id}
    /\ UNCHANGED <<pageVars, stream, askStopped, deleting, serverVars, historyVars>>

\* The conversation replaces the screen; a question under way goes on.
OpenLands(id) ==
    /\ id \in opening \cap kept
    /\ opening' = opening \ {id}
    /\ turnStatus' = [t \in Turns |-> "absent"]
    /\ restored' = id
    /\ conversationId' = id
    /\ crossed' = streaming
    /\ UNCHANGED <<streaming, seeded, stream, askStopped, deleting, serverVars,
                   begun>>

OpenFails(id) ==
    /\ id \in opening
    /\ opening' = opening \ {id}
    /\ UNCHANGED <<pageVars, stream, askStopped, deleting, serverVars, historyVars>>

\* removeConversation keeps the conversationId it was rendered with.
ClickDelete(id) ==
    /\ id \in 1..made
    /\ \A d \in deleting : d.conversation # id
    /\ CallsLeft
    /\ deleting' = deleting \cup {[conversation |-> id, shown |-> conversationId]}
    /\ UNCHANGED <<pageVars, stream, askStopped, opening, serverVars, historyVars>>

ServeDelete(d) ==
    /\ d.conversation \in kept
    /\ kept' = kept \ {d.conversation}
    /\ UNCHANGED <<pageVars, callVars, made, files, historyVars>>

DeleteLands(d) ==
    /\ d.conversation \notin kept
    /\ deleting' = deleting \ {d}
    /\ IF d.shown = d.conversation
       THEN StartNew
       ELSE UNCHANGED <<pageVars, stream, askStopped, serverVars, historyVars>>
    /\ UNCHANGED opening

DeleteFails(d) ==
    /\ deleting' = deleting \ {d}
    /\ UNCHANGED <<pageVars, stream, askStopped, opening, serverVars, historyVars>>

-----------------------------------------------------------------------------
\* What the network does for the question under way.
Answering ==
    \/ SendQuestion \/ NoToken \/ ServeQuestion
    \/ OnStart \/ OnRetrieval \/ OnToken \/ OnDone \/ OnError \/ StreamOver

ConsoleNext ==
    \/ \E t \in Turns : AskFromPage(t) \/ AskSeeded(t)
    \/ Answering
    \/ ClickStop \/ ClickNew
    \/ \E id \in Conversations : ClickOpen(id) \/ OpenLands(id) \/ OpenFails(id) \/ ClickDelete(id)
    \/ \E d \in deleting : ServeDelete(d) \/ DeleteLands(d) \/ DeleteFails(d)

\* Requests are answered or fail in the end; the user owes nothing.
ConsoleSpec == ConsoleInit /\ [][ConsoleNext]_consoleVars /\ WF_consoleVars(Answering)

-----------------------------------------------------------------------------
(* The next question goes to the conversation on the screen: whatever is   *)
(* shown was filed under conversationId, and an empty screen begins a new  *)
(* conversation - unless an opened conversation landed on top of a running *)
(* question, or the one on the screen was deleted under it; New and the    *)
(* next opened conversation mend that.                                     *)
ShownIsContinued ==
    LET shown == {files[t] : t \in OnScreen \cap begun} \cup ({restored} \ {NoConversation})
    IN  ~crossed => /\ shown \subseteq {conversationId}
                    /\ Empty => conversationId = NoConversation

(* Every question gets its answer or its error, unless the user stops it:  *)
(* a stopped one keeps the look of a running one.                          *)
TurnsSettle ==
    \A t \in Turns :
        (streaming /\ stream.turn = t) ~>
            (turnStatus[t] \notin {"retrieving", "generating"} \/ (askStopped /\ stream.turn = t))

-----------------------------------------------------------------------------
(* Why it holds.  A question that was not stopped is on the screen and     *)
(* continues the conversation there, before its "start" and after it: who  *)
(* takes the screen from it stops it, or crosses it.                       *)
QuestionsFiled ==
    /\ streaming <=> stream.at # "idle"
    /\ streaming => stream.turn \in Turns
    /\ \A t \in Turns : t > stream.turn => files[t] = NoConversation
    /\ \A t \in begun : t \in Turns /\ files[t] # NoConversation

QuestionContinuesScreen ==
    streaming /\ ~askStopped /\ ~crossed =>
        /\ stream.turn \in OnScreen
        /\ \/ conversationId = stream.continues
           \/ stream.turn \in begun /\ conversationId = files[stream.turn]
        /\ stream.continues # NoConversation =>
               files[stream.turn] \in {NoConversation, stream.continues}

ConsoleInv ==
    /\ {streaming, askStopped, crossed} \subseteq BOOLEAN
    /\ turnStatus \in [Turns -> {"absent", "retrieving", "generating", "done", "error"}]
    /\ stream \in [turn : Nat, continues : Nat, seen : Nat,
                   at : {"idle", "token", "sent", "open", "told"}]
    /\ {made, conversationId} \subseteq Nat /\ files \in [Turns -> Nat]
    /\ QuestionsFiled /\ QuestionContinuesScreen /\ ShownIsContinued
=============================================================================
