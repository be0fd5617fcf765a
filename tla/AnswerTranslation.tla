------------------------- MODULE AnswerTranslation -------------------------
(***************************************************************************)
(* An answer on its way from an upstream to a client that reads another    *)
(* format: translateResponse of controllers/proxy.go over the codecs of    *)
(* AnswerFormats, the four ways round.  The upstream streams or answers in *)
(* one piece, the client waits for events or for a body.                   *)
(*                                                                         *)
(* The upstream is outside the code: it says a text, thoughts and calls,   *)
(* in the order its own API allows, until it ends, fails or is cut off.    *)
(* What it has said is kept beside what the client is told.                *)
(***************************************************************************)
EXTENDS AnswerFormats

CONSTANTS
  MaxItems,    \* bound: texts, thoughts and calls in one answer
  MaxPieces    \* bound: pieces they come in

ASSUME TranslationAssumption == MaxItems \in Nat /\ MaxPieces \in Nat

VARIABLES
  from, to,    \* the format of the upstream and that of the client
  streamed,    \* the upstream answers with an event stream
  asked,       \* what the client waits for
  said,        \* the items the upstream has said
  latest,      \* the item it last said something of
  crossed,     \* whether it went back to a call after something else
  decoder,     \* what the stream's reader remembers
  writer,      \* the stream's writer
  contents,    \* what the Collector, or DecodeResponse, has made of it
  ended,       \* how the upstream ended
  body         \* what the client was given in one piece: its body, or an error

way == <<from, to, streamed, asked>>
answerVars == <<way, said, latest, crossed, decoder, writer, contents, ended, body>>

Upstreams == {"chat", "anthropic", "responses"}
Formats == Upstreams \cup {"gemini"}
Kinds == {"text", "thinking", "tool"}
Stops == {"end", "max_tokens", "tool_use"}
Endings == Stops \cup {"failed", "broken"}

NoBody == Answer(<<>>, <<>>, <<>>, "none")
ErrorBody == Answer(<<>>, <<>>, <<>>, "failed")

Pieces == PiecesOf(said)
NextPiece == Len(Pieces) + 1
Relayed == streamed /\ asked = "stream"

AnswerTypeOK ==
  /\ from \in Upstreams /\ to \in Formats \ {from}
  /\ streamed \in BOOLEAN /\ asked \in {"stream", "body"} /\ crossed \in BOOLEAN
  /\ \A i \in DOMAIN said :
       said[i].kind \in Kinds /\ Range(said[i].pieces) \subseteq 1 .. MaxPieces
  /\ Len(said) <= MaxItems
  /\ IsInjective(decoder.tools) /\ Range(decoder.tools) \subseteq 0 .. MaxItems
  /\ ended \in Endings \cup {"none"}
  /\ latest \in 0 .. Len(said)
  /\ body # NoBody => ~Relayed /\ ended # "none"

AnswerInit ==
  /\ from \in Upstreams
  /\ to \in Formats \ {from}
  /\ streamed \in BOOLEAN
  /\ asked \in {"stream", "body"}
  /\ said = <<>>
  /\ latest = 0
  /\ crossed = FALSE
  /\ decoder = [tools |-> <<>>, stop |-> ""]
  /\ writer = Fresh
  /\ contents = <<>>
  /\ ended = "none"
  /\ body = NoBody

-----------------------------------------------------------------------------

\* One frame of the upstream's stream, through the decoder to whoever takes
\* its events: the client's writer, or the Collector.
Relay(frame) ==
  IF ~streamed
    THEN UNCHANGED <<decoder, writer, contents>>
    ELSE LET events == DecodeFrame(from, decoder, frame)
         IN  /\ decoder' = Decoded(from, decoder, frame)
             /\ IF asked = "stream"
                  THEN /\ writer' = WriteAll(to, writer, events)
                       /\ UNCHANGED contents
                  ELSE /\ contents' = FoldLeft(Collect, contents, events)
                       /\ UNCHANGED writer

\* How an upstream numbers what it says: a chat by its calls, the others by
\* all of its items.
NumberOf(items, i) ==
  IF from = "chat" THEN Cardinality({j \in 1 .. i - 1 : items[j].kind = "tool"}) ELSE i - 1

\* The upstream begins a text, a thought or a call.  In a chat there is one
\* text and one thought.
Begins(kind) ==
  /\ ended = "none"
  /\ Len(said) < MaxItems
  /\ from = "chat" => kind = "tool" \/ OfKind(said, kind) = <<>>
  /\ LET items == Append(said, Content(kind, 0, Len(said) + 1, <<>>))
     IN  /\ said' = items
         /\ latest' = IF kind = "tool" THEN Len(items) ELSE latest
         /\ Relay(Frame("open", NumberOf(items, Len(items)), kind, Len(items), NoPiece))
  /\ UNCHANGED <<way, crossed, ended, body>>

\* A Responses upstream that sends no delta reports a call only when it is done.
SaysWhole ==
  /\ ended = "none"
  /\ from = "responses"
  /\ Len(said) < MaxItems /\ NextPiece <= MaxPieces
  /\ LET items == Append(said, Content("tool", 0, Len(said) + 1, <<NextPiece>>))
     IN  /\ said' = items
         /\ latest' = Len(items)
         /\ Relay(Frame("whole", NumberOf(items, Len(items)), "tool", Len(items), NextPiece))
  /\ UNCHANGED <<way, crossed, ended, body>>

\* It says again what an item came to, when that is done.
Finishes(i) ==
  /\ ended = "none"
  /\ from = "responses"
  /\ said[i].kind = "tool" /\ said[i].pieces # <<>>
  /\ Relay(Frame("whole", NumberOf(said, i), "tool", said[i].name, Last(said[i].pieces)))
  /\ UNCHANGED <<way, said, latest, crossed, ended, body>>

\* It says more of an item.  Anthropic says one item at a time; elsewhere
\* calls may take turns, a text or a thought goes on only where it is last.
Says(i) ==
  /\ ended = "none"
  /\ NextPiece <= MaxPieces
  /\ \/ from = "chat"
     \/ i = Len(said)
     \/ from = "responses" /\ said[i].kind = "tool"
  /\ said' = [said EXCEPT ![i].pieces = Append(@, NextPiece)]
  /\ latest' = i
  /\ crossed' = (crossed \/ (said[i].kind = "tool" /\ latest # i))
  /\ Relay(Frame("piece", NumberOf(said, i), said[i].kind, Unnamed, NextPiece))
  /\ UNCHANGED <<way, ended, body>>

\* A whole body is read item by item; a chat's thought comes first, its text
\* second and its calls last.
DecodeResponse ==
  IF from = "chat"
    THEN OfKind(said, "thinking") \o OfKind(said, "text") \o OfKind(said, "tool")
    ELSE said

\* What the client is given once there is no more to read.
Hand(stop, failed, broken) ==
  LET whole == IF streamed THEN contents ELSE DecodeResponse IN
  IF Relayed
    THEN /\ writer' = Close(to, [writer EXCEPT !.stop = stop, !.failed = failed \/ broken])
         /\ UNCHANGED body
  ELSE IF broken
    THEN /\ body' = ErrorBody
         /\ UNCHANGED writer
  ELSE IF asked = "stream"
    THEN /\ writer' = WriteStream(to, whole, stop, failed)
         /\ UNCHANGED body
  ELSE IF ~Encodes(to, CallsOf(whole))
    THEN /\ body' = ErrorBody
         /\ UNCHANGED writer
    ELSE /\ body' = EncodeResponse(to, whole, stop, failed)
         /\ UNCHANGED writer

\* The upstream says why it stopped: for the calls it made, or otherwise.  An
\* Anthropic body is JSON through and through, the arguments in it as well.
Ends(stop) ==
  /\ ended = "none"
  /\ stop = "tool_use" => OfKind(said, "tool") # <<>>
  /\ stop = "end" => OfKind(said, "tool") = <<>>
  /\ ~streamed => Encodes(from, CallsOf(said))
  /\ ended' = stop
  /\ Hand(IF streamed THEN StopOf(from, decoder, stop) ELSE stop, FALSE, FALSE)
  /\ UNCHANGED <<way, said, latest, crossed, decoder, contents>>

\* It reports an error inside its answer; a body that does is a Responses one.
Fails ==
  /\ ended = "none"
  /\ streamed \/ from = "responses"
  /\ ended' = "failed"
  /\ Hand("", TRUE, FALSE)
  /\ UNCHANGED <<way, said, latest, crossed, decoder, contents>>

\* The connection breaks, or goes silent for too long.
Breaks ==
  /\ ended = "none"
  /\ ended' = "broken"
  /\ Hand("", FALSE, TRUE)
  /\ UNCHANGED <<way, said, latest, crossed, decoder, contents>>

AnswerNext ==
  \/ \E kind \in Kinds : Begins(kind)
  \/ SaysWhole
  \/ \E i \in DOMAIN said : Says(i) \/ Finishes(i)
  \/ \E stop \in Stops : Ends(stop)
  \/ Fails
  \/ Breaks

AnswerSpec == AnswerInit /\ [][AnswerNext]_answerVars

-----------------------------------------------------------------------------
(* The client, outside the code: what it makes of the frames of its own    *)
(* format.  An Anthropic stream has one block open at a time, in a         *)
(* Responses stream a piece is of an item that was added, and what the     *)
(* end of the stream says of an item is what its pieces came to.           *)

Silence == [text |-> <<>>, thinking |-> <<>>, calls |-> <<>>, ending |-> "none",
            opened |-> {}, shut |-> {}, astray |-> FALSE]

\* A call is known by its place, and its name may come with any of its frames.
HearCall(calls, frame) ==
  LET at == CallAt(calls, frame.at)
  IN  IF at = 0
        THEN Append(calls, Content("tool", frame.at, frame.name, WithPiece(<<>>, frame.piece)))
        ELSE [calls EXCEPT ![at].pieces = WithPiece(@, frame.piece)]

ReadOpen(format, heard, frame) ==
  [heard EXCEPT
     !.opened = @ \cup {frame.at},
     !.calls = IF frame.kind = "tool" THEN HearCall(@, frame) ELSE @,
     !.astray = \/ @
                \/ frame.at \in heard.opened
                \/ format = "anthropic" /\ heard.opened # heard.shut]

ReadPiece(format, heard, frame) ==
  [heard EXCEPT
     !.text = IF frame.kind = "text" THEN Append(@, frame.piece) ELSE @,
     !.thinking = IF frame.kind = "thinking" THEN Append(@, frame.piece) ELSE @,
     !.calls = IF frame.kind = "tool" THEN HearCall(@, frame) ELSE @,
     !.astray = \/ @
                \/ /\ format = "anthropic" \/ (format = "responses" /\ frame.kind # "thinking")
                   /\ frame.at \notin heard.opened \ heard.shut]

ReadWhole(format, heard, frame) ==
  LET pieces == IF frame.kind = "text" THEN heard.text
                ELSE heard.calls[CallAt(heard.calls, frame.at)].pieces
  IN  IF format = "gemini"
        THEN [heard EXCEPT !.calls = Append(@, Content("tool", frame.at, frame.name, frame.pieces))]
        ELSE [heard EXCEPT !.astray = @ \/ frame.at \notin heard.opened \/ frame.pieces # pieces]

Read(format, heard, frame) ==
  CASE frame.type = "open"  -> ReadOpen(format, heard, frame)
    [] frame.type = "piece" -> ReadPiece(format, heard, frame)
    [] frame.type = "whole" -> ReadWhole(format, heard, frame)
    [] frame.type = "shut"  -> [heard EXCEPT !.shut = @ \cup {frame.at},
                                             !.astray = @ \/ frame.at \notin heard.opened \ heard.shut]
    [] frame.type = "end"   -> [heard EXCEPT !.ending = frame.kind,
                                             !.astray = @ \/ heard.ending # "none"
                                                          \/ (format = "anthropic" /\ heard.opened # heard.shut)]

HeardFrom(format, frames) ==
  FoldLeft(LAMBDA heard, frame : Read(format, heard, frame), Silence, frames)

Heard == HeardFrom(to, writer.frames)

Told ==
  IF asked = "body" \/ body # NoBody THEN body
  ELSE Answer(Heard.text, Heard.thinking, CallsOf(Heard.calls), Heard.ending)

-----------------------------------------------------------------------------

(* "The four ways round are covered" (translateResponse): an answer that   *)
(* ended reaches the client with every text, thought and argument in its   *)
(* order and every call apart, whoever streams and whoever does not.  Out  *)
(* of it are what the code leaves out, the thoughts of a Responses body,   *)
(* and what it gets wrong: the order of the thoughts of an Anthropic body, *)
(* and a call that goes on after something else in an Anthropic stream,    *)
(* which is told as two.  Arguments that are half an object, as an answer  *)
(* cut at max_tokens leaves them, are passed on as far as they go, except  *)
(* where the format carries an object: Gemini is told of the call with     *)
(* none (geminiArgs), and in place of an Anthropic body there is an error  *)
(* and nothing of the answer.  And a client that reads events is never     *)
(* handed a piece of a block that is not open or an item that was not      *)
(* added, a block twice, or an end that says something else than the       *)
(* pieces did.                                                             *)
AnswerToldWhole ==
  /\ ~Heard.astray
  /\ ended \in Stops =>
       IF asked = "body" /\ ~Encodes(to, CallsOf(said)) THEN Told = ErrorBody ELSE
       LET thoughts == PiecesOf(OfKind(said, "thinking")) IN
       /\ Told.text = PiecesOf(OfKind(said, "text"))
       /\ CASE asked = "body" /\ to = "responses" -> TRUE
            [] asked = "body" /\ to = "anthropic" -> Range(Told.thinking) = Range(thoughts)
            [] OTHER                              -> Told.thinking = thoughts
       /\ (to = "anthropic" /\ Relayed /\ crossed) \/ Told.calls = Tellable(to, CallsOf(said))

(* A stream ends once, and says how: as failed where the upstream failed,  *)
(* broke or went silent and only there, and as cut short where it was,     *)
(* which a Responses stream has no word for here.                          *)
EndingTold ==
  asked = "stream" /\ ended # "none" =>
    /\ (Told.ending = "failed") = (ended \in {"failed", "broken"})
    /\ ended = "max_tokens" /\ to # "responses" => Told.ending = "max_tokens"

(* "Failure is set when the answer ended in an error the upstream reported *)
(* inside an otherwise successful stream" (Response): the client of an     *)
(* answer that ended in an error is told so.  The code does not keep this  *)
(* where the client waits for a Chat Completions or an Anthropic body.     *)
FailureTold == ended \in {"failed", "broken"} => Told.ending = "failed"
=============================================================================
