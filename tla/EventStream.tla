----------------------------- MODULE EventStream ------------------------------
(***************************************************************************)
(* The reader of a server-sent event stream (frontend/src/lib/stream.ts;   *)
(* routeStream.ts has the same one): text arrives in chunks that are cut   *)
(* anywhere, whole frames are taken off the front of a buffer, and what is *)
(* left when the body ends is parsed once more.                            *)
(*                                                                         *)
(* Text is a sequence of symbols <<word, frame>>; a payload is two symbols *)
(* so that a cut may fall inside it.                                       *)
(***************************************************************************)
EXTENDS Integers, Sequences, FiniteSetsExt

CONSTANT FrameCount   \* the frames that the server writes

Newline == <<"newline", 0>>
EventColon == <<"event:", 0>>
DataColon == <<"data:", 0>>
Name(k) == <<"name", k>>
Payload(k) == << <<"first half", k>>, <<"second half", k>> >>

\* `_sse` of the server: an event line, a data line, an empty line.
Frame(k) == <<EventColon, Name(k), Newline, DataColon, Payload(k)[1], Payload(k)[2],
              Newline, Newline>>
FrameLength == Len(Frame(1))
Text == [i \in 1..(FrameCount * FrameLength) |->
            Frame(((i - 1) \div FrameLength) + 1)[((i - 1) % FrameLength) + 1]]

\* What a frame comes to when its lines are read.
Handed(k) == [event |-> <<Name(k)>>, data |-> Payload(k)]

VARIABLES
    arrived,    \* how many symbols of Text have been read
    buffer,     \* the symbols not parsed yet
    got,        \* what `dispatch` handed to the handlers, in order
    body        \* how reading goes: a body may end early, break or be left

streamVars == <<arrived, buffer, got, body>>

StreamTypeOK ==
    /\ arrived \in 0..(FrameCount * FrameLength)
    /\ buffer = <<>> \/ buffer = SubSeq(Text, arrived - Len(buffer) + 1, arrived)
    /\ Len(got) <= FrameCount /\ Range(got) \subseteq {Handed(k) : k \in 1..FrameCount}
    /\ body \in {"open", "ended", "broken", "left"}

StreamInit ==
    /\ arrived = 0
    /\ buffer = <<>>
    /\ got = <<>>
    /\ body = "open"

-----------------------------------------------------------------------------
\* The places where an empty line ends.
BlockEnds(text) == {i \in 2..Len(text) : text[i - 1] = Newline /\ text[i] = Newline}

\* buffer.lastIndexOf("\n\n") + 2; 0 while no frame is complete.
Boundary(text) == Max(BlockEnds(text) \cup {0})

\* What follows a mark on its line; empty without such a line.
LineOf(block, mark) ==
    LET from == Min({i \in 1..Len(block) : block[i] = mark} \cup {Len(block)})
        to == Min({i \in (from + 1)..Len(block) : block[i] = Newline} \cup {Len(block) + 1})
    IN  SubSeq(block, from + 1, to - 1)

\* `dispatch` drops what JSON.parse refuses, and an event it does not know.
HandedOn(block) ==
    LET frame == [event |-> LineOf(block, EventColon), data |-> LineOf(block, DataColon)]
    IN  IF \E k, n \in 1..FrameCount : frame.event = <<Name(k)>> /\ frame.data = Payload(n)
        THEN <<frame>> ELSE <<>>

\* The blocks of buffer.split("\n\n"), one after the other: each runs from where
\* an empty line ends to where the next one begins.
Dispatchable(text) ==
    LET dispatchFrom[from \in {0} \cup BlockEnds(text)] ==
            LET next == Min({i \in BlockEnds(text) : i >= from + 2} \cup {Len(text) + 2})
                block == SubSeq(text, from + 1, next - 2)
            IN  HandedOn(block) \o IF next > Len(text) THEN <<>> ELSE dispatchFrom[next]
    IN  dispatchFrom[0]

-----------------------------------------------------------------------------
\* Slip: what stays in the buffer is trimmed.
ReadChunkTrimming ==
    /\ body = "open"
    /\ \E n \in 1..(Len(Text) - arrived) :
           LET text == buffer \o SubSeq(Text, arrived + 1, arrived + n)
               rest == SubSeq(text, Boundary(text) + 1, Len(text))
           IN  /\ arrived' = arrived + n
               /\ buffer' = SelectSeq(rest, LAMBDA s : s # Newline)
               /\ got' = got \o Dispatchable(SubSeq(text, 1, Boundary(text)))
    /\ UNCHANGED body

\* A chunk of any length is read: the complete frames are dispatched, the
\* trailing part stays in the buffer.
ReadChunk ==
    /\ body = "open"
    /\ \E n \in 1..(Len(Text) - arrived) :
           LET text == buffer \o SubSeq(Text, arrived + 1, arrived + n)
           IN  /\ arrived' = arrived + n
               /\ buffer' = SubSeq(text, Boundary(text) + 1, Len(text))
               /\ got' = got \o Dispatchable(SubSeq(text, 1, Boundary(text)))
    /\ UNCHANGED body

\* Slip: what is left in the buffer when the body ends is forgotten.
BodyEndsUnparsed ==
    /\ body = "open"
    /\ body' = "ended"
    /\ UNCHANGED <<arrived, buffer, got>>

\* The body ends, early when the server gave up: what is left is parsed.
BodyEnds ==
    /\ body = "open"
    /\ body' = "ended"
    /\ got' = got \o Dispatchable(buffer)
    /\ UNCHANGED <<arrived, buffer>>

\* The connection breaks, which onError is told, or the reader is aborted,
\* which nobody is: nothing more is dispatched.
BodyBreaks ==
    /\ body = "open"
    /\ body' \in {"broken", "left"}
    /\ UNCHANGED <<arrived, buffer, got>>

StreamNext == ReadChunk \/ BodyEnds \/ BodyBreaks
StreamSpec == StreamInit /\ [][StreamNext]_streamVars

-----------------------------------------------------------------------------
(* However the text is cut, each frame is handed to the handler that its   *)
(* own event line names, once, in order, as soon as its empty line is      *)
(* there and never before; when the body ends, so is a last frame whose    *)
(* payload is complete though its empty line is missing, and a payload     *)
(* that is cut off is dropped.                                             *)
FramesSurviveChunking ==
    LET complete == IF body = "ended" THEN (arrived + 2) \div FrameLength
                    ELSE arrived \div FrameLength
    IN  got = [k \in 1..complete |-> Handed(k)]
=============================================================================
