---------------------------- MODULE RouteStream ------------------------------
(***************************************************************************)
(* One call of routeRequest (frontend/src/lib/routeStream.ts): the events  *)
(* of POST /marketplace/route, how far the server has emitted them, how    *)
(* far the browser has dispatched them, and how the call may end.  The     *)
(* workspaces that route a request keep one such record per call.          *)
(*                                                                         *)
(* The reassembly of frames from chunks is in EventStream; here an event   *)
(* is one message, delivered in order or not at all.                       *)
(***************************************************************************)
EXTENDS Naturals, Sequences

CONSTANT Lag   \* bound on the events that are on their way at once

\* What the server emits, in order: the cases of `dispatch`, with the two
\* stages of "payment" apart.
RouteEvents == <<"intent", "discovered", "ranked", "selected", "authorising", "settled",
                 "invoking", "retrieval", "token", "follow_ups", "done">>
EventCount == Len(RouteEvents)
Position(event) == CHOOSE n \in 1..EventCount : RouteEvents[n] = event

\* client: "none" before the request, "reading" while the body is read,
\* "told" once an error was handed to onError and the promise is about to
\* resolve, "over" when it has resolved.  fate: how the server ended the
\* stream.  refunded: whether a failure after the debit gave it back.
RouteCall == [sent : 0..EventCount, seen : 0..EventCount,
              client : {"none", "reading", "told", "over"},
              fate : {"working", "done", "failed", "cut"}, refunded : BOOLEAN]

NoCall == [sent |-> 0, seen |-> 0, client |-> "none", fate |-> "working",
           refunded |-> FALSE]
OpenCall == [NoCall EXCEPT !.client = "reading"]
CallOver(c) == [c EXCEPT !.client = "over"]

Emitted(c, event) == c.sent >= Position(event)
Charged(c) == Emitted(c, "settled") /\ ~c.refunded

\* The server goes on with a call: it emits the next event, or an error.  An
\* AppError after the debit refunds it; any other exception does not.
ServerSteps(c) ==
    IF c.client # "none" /\ c.fate = "working" /\ c.sent - c.seen < Lag
    THEN {[c EXCEPT !.sent = @ + 1,
                    !.fate = IF c.sent + 1 = EventCount THEN "done" ELSE "working"]}
         \cup {[c EXCEPT !.fate = "failed", !.refunded = r] :
                   r \in IF Emitted(c, "settled") THEN BOOLEAN ELSE {FALSE}}
    ELSE {}

\* The next event is dispatched.
CanDispatch(c) == c.client = "reading" /\ c.seen < c.sent
NextEvent(c) == RouteEvents[c.seen + 1]
Dispatched(c) == [c EXCEPT !.seen = @ + 1]

\* onError: the server's error event, or a body that breaks off, which may
\* still happen after "done" was dispatched.
CanFail(c) == c.client = "reading"
ErrorEventDue(c) == c.fate = "failed" /\ c.seen = c.sent
Told(c) == [c EXCEPT !.client = "told", !.fate = IF @ = "working" THEN "cut" ELSE @]

\* The promise resolves: at the end of the body, or after onError.
CanResolve(c) ==
    \/ c.client = "told"
    \/ c.client = "reading" /\ c.fate = "done" /\ c.seen = c.sent

\* An AbortError is swallowed; the server stops when it notices.
Aborted(c) == [c EXCEPT !.client = "over", !.fate = IF @ = "working" THEN "cut" ELSE @]
=============================================================================
