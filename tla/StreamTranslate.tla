--------------------------- MODULE StreamTranslate ---------------------------
(***************************************************************************)
(* Translation of provider streams into the router's chunks: the state     *)
(* machines AnthropicStreamState (src/adapters/anthropic/translate.ts) and *)
(* OpenAiStreamState (src/adapters/openai-compat/translate.ts) with the    *)
(* executeStream() of their adapters, beside the translation of the same   *)
(* answer when it is not streamed.                                         *)
(*                                                                         *)
(* An answer is a sequence of items, a reason to stop and a usage.  An     *)
(* item starts a block (text, a tool call, Anthropic's thinking and the    *)
(* forced schema tool), is a part of one, or is an empty frame of the      *)
(* OpenAI family; a text or an argument string is the sequence of the      *)
(* parts it is streamed in.                                                *)
(***************************************************************************)
EXTENDS Integers, Sequences, FiniteSets, SequencesExt

CONSTANT Answers    \* the answers to stream, a set of records, see Answer

\* block: the number of the item's block; data: the id of the call that
\* starts, or the text of the part.
Item == [type : {"start", "part", "empty"}, kind : {"text", "tool", "schema", "thinking"}, block : Nat \ {0}, data : STRING]

\* usage: how an OpenAI-compatible provider reports it, with "every" when
\* the usage so far is on all of them, the empty ones included; it may omit the
\* index of calls (indexed = FALSE).
Answer == [proto : {"anthropic", "openai"}, items : Seq(Item), stop : STRING,
           usage : {"none", "trailing", "withFinish", "every"}, indexed : BOOLEAN]

\* Items of a kind: where its blocks start, and the parts of them.
Starts(a, kind) == {i \in 1..Len(a.items) : a.items[i].type = "start" /\ a.items[i].kind = kind}
Parts(a, kind) == {i \in 1..Len(a.items) : a.items[i].type = "part" /\ a.items[i].kind = kind}

\* Part i of a block belongs to the block of its kind that started at s, which
\* is the last one to start before it.
Continues(a, s, i) ==
    /\ s < i /\ a.items[s].block = a.items[i].block
    /\ \A t \in Starts(a, a.items[i].kind) : s < t => i < t

\* A block starts once.  Arguments without an index belong to the last call,
\* those with one may even come before its name; the families other than
\* Anthropic's have text, calls and empty frames only.
WellFormed(a) ==
    /\ \A s, t \in Starts(a, "tool") : a.items[s].block = a.items[t].block => s = t
    /\ \A i \in Parts(a, "tool") : \E s \in Starts(a, "tool") :
            IF a.proto = "openai" /\ a.indexed THEN a.items[s].block = a.items[i].block ELSE Continues(a, s, i)
    /\ \A i \in Parts(a, "schema") : \E s \in Starts(a, "schema") : Continues(a, s, i)
    /\ \A s \in Starts(a, "schema"), i \in Parts(a, "tool") : a.items[s].block # a.items[i].block
    /\ \A i \in 1..Len(a.items) :
            IF a.items[i].type = "empty" THEN a.proto = "openai"
            ELSE a.proto = "openai" => i \in Parts(a, "text") \cup Parts(a, "tool") \cup Starts(a, "tool")

ASSUME StreamTranslateAssumption == \A a \in Answers : a \in Answer /\ WellFormed(a)

VARIABLES
    answer,     \* what the provider streams
    sent,       \* how many of its events it has sent
    chunks,     \* what executeStream() has yielded
    tools,      \* provider's block or call -> tool index: toolIndexByBlock, indexMap, started
    schemaAt,   \* schemaBlockIndex
    stop,       \* stopReason, or the finish that is held back
    measured,   \* a usage was seen
    stream      \* "open", "ended" or "failed"

translateVars == <<answer, sent, chunks, tools, schemaAt, stop, measured, stream>>

-----------------------------------------------------------------------------
\* normalizeStopReason(): Anthropic's reasons, or stop.
NormalizeStopReason(raw) ==
    CASE raw = "max_tokens" -> "length"
      [] raw = "tool_use" -> "tool_calls"
      [] raw = "refusal" -> "content_filter"
      [] OTHER -> "stop"

\* normalizeFinishReason(): those of the OpenAI family and of its proxies.
NormalizeFinishReason(raw) ==
    CASE raw \in {"max_tokens", "length"} -> "length"
      [] raw \in {"tool_calls", "function_call"} -> "tool_calls"
      [] raw = "content_filter" -> "content_filter"
      [] raw = "insufficient_system_resource" -> "error"
      [] OTHER -> "stop"

\* The events around the items.
Event(type, data) == [type |-> type, kind |-> "none", block |-> 0, data |-> data]

AnthropicEvents(a) ==
    <<Event("message_start", "")>> \o a.items \o <<Event("message_delta", a.stop), Event("message_stop", "")>>

\* A usage comes with the finish, after it, both ways, or not at all.
OpenAiEvents(a) ==
    a.items \o (CASE a.usage = "withFinish" -> <<Event("finishWithUsage", a.stop)>>
                  [] a.usage = "trailing" -> <<Event("finish", a.stop), Event("usage", "")>>
                  [] a.usage = "every" -> <<Event("finishWithUsage", a.stop), Event("usage", "")>>
                  [] OTHER -> <<Event("finish", a.stop)>>)

Events == IF answer.proto = "anthropic" THEN AnthropicEvents(answer) ELSE OpenAiEvents(answer)

TranslateInit ==
    /\ answer \in Answers /\ sent = 0
    /\ chunks = <<>> /\ tools = <<>> /\ schemaAt = 0 /\ stop = "stop"
    /\ measured = FALSE /\ stream = "open"

-----------------------------------------------------------------------------
Chunk(type, index, data, usage) == [type |-> type, index |-> index, data |-> data, usage |-> usage]

\* The tool index of a block, counted from 0, or -1.
IndexOf(block) == SelectInSeq(tools, LAMBDA b : b = block) - 1
Emit(c) == chunks' = Append(chunks, c)
Silent == UNCHANGED <<chunks, tools, schemaAt, stop, measured>>

\* Mutant: the schema tool is counted as a tool.
CountsSchemaTool(e) ==
    /\ tools' = Append(tools, e.block)
    /\ IF e.kind = "schema" THEN schemaAt' = e.block /\ UNCHANGED chunks
       ELSE Emit(Chunk("tool_call_start", Len(tools), e.data, "none")) /\ UNCHANGED schemaAt

\* content_block_start of a tool: the schema tool will be text.
BlockStarts(e) ==
    IF e.kind = "schema" THEN schemaAt' = e.block /\ UNCHANGED <<chunks, tools>>
    ELSE /\ tools' = Append(tools, e.block)
         /\ Emit(Chunk("tool_call_start", Len(tools), e.data, "none"))
         /\ UNCHANGED schemaAt

\* input_json_delta, of the schema tool, of a call, or of a block never seen.
InputDelta(e) ==
    IF schemaAt = e.block THEN Emit(Chunk("text_delta", 0, e.data, "none"))
    ELSE IF IndexOf(e.block) >= 0 THEN Emit(Chunk("tool_call_delta", IndexOf(e.block), e.data, "none"))
    ELSE UNCHANGED chunks

\* AnthropicStreamState.handle().
HandleAnthropic(e) ==
    \/ /\ e.type = "start" /\ e.kind \in {"tool", "schema"}
       /\ BlockStarts(e)
       /\ UNCHANGED <<stop, measured>>
    \/ /\ e.type = "part" /\ e.kind = "text"
       /\ Emit(Chunk("text_delta", 0, e.data, "none"))
       /\ UNCHANGED <<tools, schemaAt, stop, measured>>
    \/ /\ e.type = "part" /\ e.kind \in {"tool", "schema"}
       /\ InputDelta(e)
       /\ UNCHANGED <<tools, schemaAt, stop, measured>>
    \/ /\ e.type = "message_start"
       /\ measured' = TRUE
       /\ UNCHANGED <<chunks, tools, schemaAt, stop>>
    \/ /\ e.type = "message_delta"
       /\ stop' = NormalizeStopReason(e.data)
       /\ UNCHANGED <<chunks, tools, schemaAt, measured>>
    \/ /\ e.type = "message_stop"
       /\ Emit(Chunk("finish", 0, IF schemaAt # 0 /\ stop = "tool_calls" /\ tools = <<>> THEN "stop" ELSE stop,
                     "measured"))
       /\ UNCHANGED <<tools, schemaAt, stop, measured>>
    \/ /\ e.type = "ping" \/ e.kind = "thinking" \/ (e.type = "start" /\ e.kind = "text")
       /\ Silent

\* The tool call of an answer that is block b, counted from 0.
CallNo(b) ==
    LET s == CHOOSE s \in Starts(answer, "tool") : answer.items[s].block = b
    IN  Cardinality({t \in Starts(answer, "tool") : t < s})

\* resolveIndex(): the provider's index; without one a frame with a name opens
\* the next slot and others belong to the last.
CallIndex(e) ==
    IF answer.indexed THEN CallNo(e.block) ELSE IF e.type = "start" THEN Len(tools) ELSE Len(tools) - 1

\* A frame with a usage and neither text nor calls: the finish it closes, its
\* own or the one held back, which is "stop" as long as there is none.
FinishWithUsage(e) ==
    /\ Emit(Chunk("finish", 0, IF e.type = "finishWithUsage" THEN NormalizeFinishReason(e.data) ELSE stop, "measured"))
    /\ measured' = TRUE
    /\ UNCHANGED <<tools, schemaAt, stop>>

\* OpenAiStreamState.handle() and the loop around it; a frame with a name
\* starts a call.  A usage beside text or calls is passed over, one on an empty
\* frame is taken for the end, wherever it comes.
HandleOpenAi(e) ==
    \/ /\ e.type = "part" /\ e.kind = "text"
       /\ Emit(Chunk("text_delta", 0, e.data, "none"))
       /\ UNCHANGED <<tools, schemaAt, stop, measured>>
    \/ /\ e.type = "start"
       /\ tools' = Append(tools, e.block)
       /\ Emit(Chunk("tool_call_start", CallIndex(e), e.data, "none"))
       /\ UNCHANGED <<schemaAt, stop, measured>>
    \/ /\ e.type = "part" /\ e.kind = "tool"
       /\ Emit(Chunk("tool_call_delta", CallIndex(e), e.data, "none"))
       /\ UNCHANGED <<tools, schemaAt, stop, measured>>
    \/ /\ e.type = "finish"
       /\ stop' = NormalizeFinishReason(e.data)
       /\ UNCHANGED <<chunks, tools, schemaAt, measured>>
    \/ /\ e.type \in {"finishWithUsage", "usage"} \/ (e.type = "empty" /\ answer.usage = "every")
       /\ FinishWithUsage(e)
    \/ /\ e.type = "ping" \/ (e.type = "empty" /\ answer.usage # "every")
       /\ Silent

Handle(e) == IF answer.proto = "anthropic" THEN HandleAnthropic(e) ELSE HandleOpenAi(e)

NextFrame ==
    /\ stream = "open" /\ sent < Len(Events)
    /\ Handle(Events[sent + 1])
    /\ sent' = sent + 1
    /\ UNCHANGED <<answer, stream>>

\* Pings, the ends of blocks, keep-alives and frames that do not parse may come
\* at any time.
KeepAlive ==
    /\ stream = "open" /\ sent < Len(Events)
    /\ Handle(Event("ping", ""))
    /\ UNCHANGED <<answer, sent, stream>>

\* The response ends, with [DONE] or because it is cut off: executeStream() of
\* the OpenAI family estimates a usage that was not sent.
ResponseEnds ==
    /\ stream = "open"
    /\ stream' = "ended"
    /\ IF answer.proto # "anthropic" /\ ~ measured THEN Emit(Chunk("finish", 0, stop, "estimated"))
       ELSE UNCHANGED chunks
    /\ UNCHANGED <<answer, sent, tools, schemaAt, stop, measured>>

\* An error event or a failed read: mapped and thrown.
StreamFails ==
    /\ stream = "open"
    /\ stream' = "failed"
    /\ UNCHANGED <<answer, sent, chunks, tools, schemaAt, stop, measured>>

TranslateNext == NextFrame \/ KeepAlive \/ ResponseEnds \/ StreamFails
TranslateSpec == TranslateInit /\ [][TranslateNext]_translateVars

-----------------------------------------------------------------------------
\* What the elements of s at a set of places say, in their order.
Nth(places, k) == CHOOSE i \in places : Cardinality(places \cap (1..i)) = k
Data(s, places) == [k \in 1..Cardinality(places) |-> s[Nth(places, k)].data]

\* The arguments of a call: without an input Anthropic's are an empty object.
PartsOf(block) == {i \in Parts(answer, "tool") : answer.items[i].block = block}
Arguments(block) ==
    IF answer.proto = "anthropic" /\ PartsOf(block) = {} THEN <<"{}">> ELSE Data(answer.items, PartsOf(block))

\* All text, and what fills the schema tool in: an empty object when nothing
\* does.
EmptySchemas == {s \in Starts(answer, "schema") : ~ \E i \in Parts(answer, "schema") : Continues(answer, s, i)}
TextPlaces == Parts(answer, "text") \cup Parts(answer, "schema") \cup EmptySchemas
FlatText ==
    LET said(i) == IF i \in EmptySchemas THEN "{}" ELSE answer.items[i].data
    IN  [k \in 1..Cardinality(TextPlaces) |-> said(Nth(TextPlaces, k))]

\* The tool calls in their order, each with its id and its arguments.
ToolCalls ==
    LET calls == Starts(answer, "tool")
        call(k) == answer.items[Nth(calls, k)]
    IN  [k \in 1..Cardinality(calls) |-> <<call(k).data, Arguments(call(k).block)>>]

\* translateResponse() of the whole answer.
TranslateResponse ==
    [content |-> FlatText, calls |-> ToolCalls, finish |-> NormalizeFinishReason(answer.stop)]

\* translateAnthropicResponse(): filling in the schema tool is no call.
TranslateAnthropicResponse ==
    LET reason == NormalizeStopReason(answer.stop)
        filled == Starts(answer, "schema") # {} /\ reason = "tool_calls" /\ ToolCalls = <<>>
    IN  [content |-> FlatText, calls |-> ToolCalls, finish |-> IF filled THEN "stop" ELSE reason]

Response == IF answer.proto = "anthropic" THEN TranslateAnthropicResponse ELSE TranslateResponse

\* What a client puts together from the chunks.
Yielded(type) == {n \in 1..Len(chunks) : chunks[n].type = type}
Of(type, index) == Data(chunks, {n \in Yielded(type) : chunks[n].index = index})
Assembled ==
    [content |-> Of("text_delta", 0),
     calls |-> [k \in 1..Cardinality(Yielded("tool_call_start")) |->
                    <<Of("tool_call_start", k - 1)[1], Of("tool_call_delta", k - 1)>>],
     finish |-> IF chunks = <<>> THEN "none" ELSE chunks[Len(chunks)].data]

\* What Anthropic left without an input, a call or the schema tool, is streamed
\* as nothing and not as the empty object.
NoInput ==
    /\ answer.proto = "anthropic"
    /\ EmptySchemas # {} \/ \E s \in Starts(answer, "tool") : PartsOf(answer.items[s].block) = {}

\* The provider reports the usage so far on every frame.
Cumulative == answer.proto = "openai" /\ answer.usage = "every"

\* Streamed or not, an answer is the same: a client that puts the chunks of
\* either adapter together gets the content and the calls (ids, order,
\* arguments) of the translated response, what Anthropic left without an input
\* apart, and its finish reason; and a finish comes once, at the end, with a
\* usage (3.6, 4.4, Q-014, Q-078).  Providers that report their usage on every
\* frame are excepted from what is said of the finish: theirs comes with each
\* empty frame, in mid-stream too, and the last one says "stop".
StreamEqualsResponse ==
    /\ ~ Cumulative => \A n \in Yielded("finish") : n = Len(chunks) /\ chunks[n].usage # "none"
    /\ stream = "ended" /\ sent = Len(Events) =>
        /\ Yielded("finish") # {}
        /\ ~ Cumulative => Assembled.finish = Response.finish
        /\ NoInput \/ (Assembled.content = Response.content /\ Assembled.calls = Response.calls)

=============================================================================
