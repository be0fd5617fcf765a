--------------------------- MODULE AnswerFormats ---------------------------
(***************************************************************************)
(* How one answer is read in the format of the API it came from and        *)
(* written in another: the codecs of protocol/.  Three formats can be      *)
(* read, Chat Completions, Anthropic Messages and Responses, and those     *)
(* three and Gemini's can be written.  In between an answer is a sequence  *)
(* of events, or the list of contents a Collector makes of them.           *)
(*                                                                         *)
(* A text, a thought or the arguments of a call arrive in pieces; a piece  *)
(* is a number, unlike any other, so that what a client ends up with can   *)
(* be compared with what was said.  Arguments are JSON: some pieces end an *)
(* object, and what ends in another is half of one.  A call's id and name  *)
(* are one name, a number too, and a name after a name is their sum.       *)
(* Ids the gateway makes up, roles, models, counters and the signature of  *)
(* a thought, which no other API takes, are left out; so are deltas with   *)
(* nothing in them.                                                        *)
(***************************************************************************)
EXTENDS Naturals, Sequences, FiniteSets, SequencesExt

CONSTANT Complete    \* the pieces that end an object

\* The name of a call in a delta that carries none, and no piece.
Unnamed == 0
NoPiece == 0

Event(kind, tool, name, piece) == [kind |-> kind, tool |-> tool, name |-> name, piece |-> piece]
TextEvent(piece) == Event("text", 0, Unnamed, piece)
ThinkingEvent(piece) == Event("thinking", 0, Unnamed, piece)
ToolEvent(tool, name, piece) == Event("tool", tool, name, piece)

WithPiece(pieces, piece) == IF piece = NoPiece THEN pieces ELSE Append(pieces, piece)

Content(kind, tool, name, pieces) == [kind |-> kind, tool |-> tool, name |-> name, pieces |-> pieces]

\* Whether a call's arguments can be read as JSON.
Parses(pieces) == pieces # <<>> => Last(pieces) \in Complete

\* Half an object is no object to Gemini, which is given an empty one.
geminiArgs(pieces) == IF Parses(pieces) THEN pieces ELSE <<>>

\* The arguments of a call that is sent whole.
Carried(format, pieces) == IF format = "gemini" THEN geminiArgs(pieces) ELSE pieces

\* The place of the call a delta belongs to, 0 when it is the first of it.
CallAt(contents, tool) ==
  SelectInSeq(contents, LAMBDA c : c.kind = "tool" /\ c.tool = tool)

-----------------------------------------------------------------------------
(* The Collector: events back into one answer.                             *)

CollectTool(contents, event) ==
  LET at == CallAt(contents, event.tool)
  IN  IF at = 0
        THEN Append(contents, Content("tool", event.tool, event.name, WithPiece(<<>>, event.piece)))
        ELSE [contents EXCEPT ![at].pieces = WithPiece(@, event.piece),
                              ![at].name = IF event.name = Unnamed THEN @ ELSE @ + event.name]

CollectText(contents, event) ==
  IF contents # <<>> /\ Last(contents).kind = event.kind
    THEN [contents EXCEPT ![Len(contents)].pieces = Append(@, event.piece)]
    ELSE Append(contents, Content(event.kind, 0, Unnamed, <<event.piece>>))

Collect(contents, event) ==
  IF event.kind = "tool" THEN CollectTool(contents, event) ELSE CollectText(contents, event)

-----------------------------------------------------------------------------
(* The stream writers.  A writer keeps the frames it has sent and what it  *)
(* remembers of them: the items of the answer, which of them is open, and  *)
(* how the answer ends.                                                    *)

Fresh == [frames |-> <<>>, items |-> <<>>, open |-> "none", openTool |-> 0,
          stop |-> "", failed |-> FALSE]

Frame(type, at, kind, name, piece) ==
  [type |-> type, at |-> at, kind |-> kind, name |-> name, piece |-> piece]

Send(writer, frame) == [writer EXCEPT !.frames = Append(@, frame)]

\* The blocks of an Anthropic stream are numbered, and one is open at a time.
StopBlock(writer) ==
  IF writer.open = "none"
    THEN writer
    ELSE [Send(writer, Frame("shut", Len(writer.items), writer.open, Unnamed, NoPiece))
            EXCEPT !.open = "none"]

\* Fault: two calls in a row are taken for one.
StartBlockOfKind(writer, kind, tool, name) ==
  IF writer.open = kind
    THEN writer
    ELSE LET stopped == StopBlock(writer)
         IN  [Send(stopped, Frame("open", Len(stopped.items) + 1, kind, name, NoPiece))
                EXCEPT !.open = kind, !.openTool = tool, !.items = Append(@, kind)]

StartBlock(writer, kind, tool, name) ==
  IF writer.open = kind /\ (kind = "tool" => writer.openTool = tool)
    THEN writer
    ELSE LET stopped == StopBlock(writer)
         IN  [Send(stopped, Frame("open", Len(stopped.items) + 1, kind, name, NoPiece))
                EXCEPT !.open = kind, !.openTool = tool, !.items = Append(@, kind)]

AnthropicWrite(writer, event) ==
  LET started == StartBlock(writer, event.kind, event.tool, event.name)
  IN  IF event.piece = NoPiece
        THEN started
        ELSE Send(started, Frame("piece", Len(started.items), event.kind, Unnamed, event.piece))

\* A Chat Completions chunk says which call it is of; nothing is opened.
ChatWrite(writer, event) ==
  Send(writer, Frame("piece", event.tool, event.kind, event.name, event.piece))

\* The items of a Responses answer: one message for all of the text, and one
\* for each call.  A thought is sent on and is no item.
ItemOf(writer, event) ==
  IF event.kind = "tool"
    THEN CallAt(writer.items, event.tool)
    ELSE SelectInSeq(writer.items, LAMBDA item : item.kind = "text")

StartItem(writer, event) ==
  IF ItemOf(writer, event) # 0
    THEN writer
    ELSE [Send(writer, Frame("open", Len(writer.items) + 1, event.kind, event.name, NoPiece))
            EXCEPT !.items = Append(@, Content(event.kind, event.tool, event.name, <<>>))]

\* Fault: what was told of an item is not kept for its end.
ResponsesForgets(writer, event) ==
  IF event.kind = "thinking"
    THEN Send(writer, Frame("piece", 0, "thinking", Unnamed, event.piece))
    ELSE LET started == StartItem(writer, event)
         IN  IF event.piece = NoPiece THEN started
             ELSE Send(started, Frame("piece", ItemOf(started, event), event.kind, Unnamed, event.piece))

ResponsesWrite(writer, event) ==
  IF event.kind = "thinking"
    THEN Send(writer, Frame("piece", 0, "thinking", Unnamed, event.piece))
    ELSE LET started == StartItem(writer, event)
             at == ItemOf(started, event)
             kept == [started EXCEPT !.items[at].pieces = WithPiece(@, event.piece)]
         IN  IF event.piece = NoPiece
               THEN kept
               ELSE Send(kept, Frame("piece", at, event.kind, Unnamed, event.piece))

\* Gemini has no frame for a piece of a call: calls are kept for the last one.
GeminiWrite(writer, event) ==
  IF event.kind = "tool"
    THEN [writer EXCEPT !.items = CollectTool(@, event)]
    ELSE Send(writer, Frame("piece", 0, event.kind, Unnamed, event.piece))

WriteEvent(format, writer, event) ==
  CASE format = "anthropic" -> AnthropicWrite(writer, event)
    [] format = "chat"      -> ChatWrite(writer, event)
    [] format = "responses" -> ResponsesWrite(writer, event)
    [] format = "gemini"    -> GeminiWrite(writer, event)

\* How each format spells the reason an answer stopped.  A Responses answer
\* is "completed" whatever it was.
Spelled(format, stop) ==
  CASE format = "responses" -> "end"
    [] format = "gemini"    -> IF stop = "max_tokens" THEN stop ELSE "end"
    [] OTHER                -> IF stop \in {"max_tokens", "tool_use"} THEN stop ELSE "end"

\* Fault: an answer that failed closes like any other.
EndingUnfailed(format, stop, failed) == Spelled(format, stop)

Ending(format, stop, failed) == IF failed THEN "failed" ELSE Spelled(format, stop)

\* The items of the answer that are sent whole at its end.
SentWhole(format, writer) ==
  IF format \in {"responses", "gemini"}
    THEN [i \in DOMAIN writer.items |->
            [type |-> "whole", at |-> i, kind |-> writer.items[i].kind,
             name |-> writer.items[i].name,
             pieces |-> Carried(format, writer.items[i].pieces)]]
    ELSE <<>>

Close(format, writer) ==
  LET shut == IF format = "anthropic" THEN StopBlock(writer) ELSE writer
  IN  [shut EXCEPT !.frames =
        @ \o SentWhole(format, writer)
          \o <<Frame("end", 0, Ending(format, writer.stop, writer.failed), Unnamed, NoPiece)>>]

\* WriteStream: an answer that came in one piece, as the events of one turn.
\* Its calls are numbered as they come.
EventsOf(contents, i) ==
  LET content == contents[i]
      tool == IF content.kind # "tool" THEN 0
              ELSE Cardinality({j \in 1 .. i - 1 : contents[j].kind = "tool"})
  IN  (IF content.kind = "tool" THEN <<ToolEvent(tool, content.name, NoPiece)>> ELSE <<>>)
        \o [p \in DOMAIN content.pieces |-> Event(content.kind, tool, Unnamed, content.pieces[p])]

\* What is handed to a writer, one event after the other.
WriteAll(format, writer, events) ==
  FoldLeft(LAMBDA w, event : WriteEvent(format, w, event), writer, events)

WriteStream(format, contents, stop, failed) ==
  LET events == FlattenSeq([i \in DOMAIN contents |-> EventsOf(contents, i)])
  IN  Close(format, [WriteAll(format, Fresh, events) EXCEPT !.stop = stop, !.failed = failed])

-----------------------------------------------------------------------------
(* The bodies: EncodeResponse of each format.                              *)

OfKind(contents, kind) ==
  FlattenSeq([i \in DOMAIN contents |->
                IF contents[i].kind = kind THEN <<contents[i]>> ELSE <<>>])
PiecesOf(contents) == FlattenSeq([i \in DOMAIN contents |-> contents[i].pieces])

\* What a client has of an answer.
Answer(text, thinking, calls, ending) ==
  [text |-> text, thinking |-> thinking, calls |-> calls, ending |-> ending]

CallsOf(contents) ==
  LET calls == OfKind(contents, "tool")
  IN  [i \in DOMAIN calls |-> [name |-> calls[i].name, pieces |-> calls[i].pieces]]

\* An Anthropic body carries a call's arguments as JSON, and half an object
\* is none: no body comes of it.
Encodes(format, calls) ==
  format = "anthropic" => \A i \in DOMAIN calls : Parses(calls[i].pieces)

\* The calls as the format can tell them.
Tellable(format, calls) ==
  [i \in DOMAIN calls |-> [calls[i] EXCEPT !.pieces = Carried(format, @)]]

\* An Anthropic body puts each thought before what it has so far.
ThoughtsOf(format, contents) ==
  LET thoughts == OfKind(contents, "thinking")
  IN  CASE format = "anthropic" -> PiecesOf(Reverse(thoughts))
        [] format = "responses" -> <<>>
        [] OTHER                -> PiecesOf(thoughts)

\* Chat and Anthropic bodies have no place for a failure.
EncodeResponse(format, contents, stop, failed) ==
  Answer(PiecesOf(OfKind(contents, "text")), ThoughtsOf(format, contents),
         Tellable(format, CallsOf(contents)),
         Ending(format, stop, failed /\ format \in {"responses", "gemini"}))

-----------------------------------------------------------------------------
(* The stream decoders: what one frame of an upstream comes to.  A decoder *)
(* keeps the calls it has numbered, or seen, and the reason to stop.       *)

\* Fault: an Anthropic block is numbered as it is in its stream when its
\* pieces come, and as a call when it opens.
DecodeByBlock(from, decoder, frame) ==
  CASE frame.type = "open" /\ frame.kind # "tool" -> <<>>
    [] frame.type = "open" /\ frame.kind = "tool" ->
         <<ToolEvent(IF from = "responses" THEN frame.at ELSE Len(decoder.tools), frame.name, NoPiece)>>
    [] frame.type = "piece" /\ frame.kind # "tool" -> <<Event(frame.kind, 0, Unnamed, frame.piece)>>
    [] OTHER -> <<ToolEvent(frame.at, frame.name, frame.piece)>>

\* Anthropic numbers its blocks, of which the calls are numbered anew; the
\* other two number a call as the upstream does.
ToolOf(from, decoder, at) ==
  IF from = "anthropic"
    THEN LET tool == SelectInSeq(decoder.tools, LAMBDA block : block = at)
         IN  IF tool = 0 THEN 0 ELSE tool - 1
    ELSE at

DecodeFrame(from, decoder, frame) ==
  CASE frame.type = "open" /\ frame.kind # "tool" -> <<>>
    [] frame.type = "open" /\ frame.kind = "tool" ->
         <<ToolEvent(IF from = "anthropic" THEN Len(decoder.tools) ELSE frame.at, frame.name, NoPiece)>>
    [] frame.type = "piece" /\ frame.kind # "tool" -> <<Event(frame.kind, 0, Unnamed, frame.piece)>>
    [] frame.type = "piece" /\ frame.kind = "tool" ->
         <<ToolEvent(ToolOf(from, decoder, frame.at), frame.name, frame.piece)>>
    [] frame.type = "whole" ->
         IF Contains(decoder.tools, frame.at)
           THEN <<>> ELSE <<ToolEvent(frame.at, frame.name, frame.piece)>>

\* Fault: a call is counted again when it is done.
DecodedTwice(from, decoder, frame) ==
  IF frame.kind = "tool" /\ frame.type \in {"open", "whole"}
    THEN [tools |-> Append(decoder.tools, frame.at),
          stop |-> IF from = "responses" THEN "tool_use" ELSE decoder.stop]
    ELSE decoder

\* A Responses call that was opened is the reason the answer stopped, unless
\* its end says it ran out of tokens.
Decoded(from, decoder, frame) ==
  IF frame.kind = "tool" /\ frame.type \in {"open", "whole"} /\ ~Contains(decoder.tools, frame.at)
    THEN [tools |-> Append(decoder.tools, frame.at),
          stop |-> IF from = "responses" THEN "tool_use" ELSE decoder.stop]
    ELSE decoder

StopOf(from, decoder, stop) ==
  IF from # "responses" \/ stop = "max_tokens" THEN stop
  ELSE IF decoder.stop = "" THEN "end" ELSE decoder.stop
=============================================================================
