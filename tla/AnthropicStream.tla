-------------------------- MODULE AnthropicStream ---------------------------
(***************************************************************************)
(* The streaming half of protocol/anthropic/adapter.go.  The writer        *)
(* (WriteStreamResponse, writeStreamChunks, streamState) turns the chunks  *)
(* of a provider into Anthropic SSE events, the body sse of the response.  *)
(* parseSSEEventToResponse turns such events back into chunks, and is      *)
(* applied here to the very events the writer sends.  The client of the    *)
(* messages API is the observer client: it notes whether the events form   *)
(* well nested content blocks.                                             *)
(*                                                                         *)
(* One action writes one event.  Text is left out: a chunk says which of   *)
(* its fields are set, and each field set is one item of fed.              *)
(***************************************************************************)
EXTENDS Integers, Sequences, SequencesExt

CONSTANTS Chunks,     \* the providers.Response values that may arrive
          CallIDs,    \* IDs of tool calls
          NoID,       \* the ID of a tool call that continues an earlier one
          MaxChunks   \* bound: chunks per stream

Blocks  == {"thinking", "text", "tool_use"}
Reasons == {"stop", "length", "tool_calls", "content_filter", "other"}

\* The fields of a chunk the writer looks at; tools is Delta.ToolCalls and
\* finish is "" where FinishReason is nil.
ToolCall == [id : CallIDs \cup {NoID}, args : BOOLEAN]
Response == [err : BOOLEAN, choices : BOOLEAN, think : BOOLEAN,
             text : BOOLEAN, finish : Reasons \cup {""},
             tools : Seq(ToolCall)]

ASSUME ChunksAssumption == Chunks \subseteq Response
ASSUME BoundAssumption == MaxChunks \in Nat

VARIABLES
    pc,       \* where WriteStreamResponse is
    chunk,    \* the chunk in the Each callback
    k,        \* the tool call of the chunk being written
    w,        \* streamState: messageStarted, blockStarted, Index, Type
    client,   \* observer: what the client has seen
    fed,      \* history: the items the provider has sent
    last,     \* history: what the last of them was
    sse,      \* the events written so far
    chunks    \* number of chunks so far, bounded by MaxChunks

sent == <<fed, last, chunks>>
vars == <<pc, chunk, k, w, client, sse, sent>>

NoChunk == [err |-> FALSE, choices |-> FALSE, think |-> FALSE,
            text |-> FALSE, tools |-> <<>>, finish |-> ""]

Item(kind, data) == [kind |-> kind, data |-> data]

Init ==
    /\ pc = "each" /\ chunk = NoChunk /\ k = 1 /\ chunks = 0
    /\ w = [started |-> FALSE, open |-> FALSE, index |-> 0, type |-> ""]
    /\ client = [ok |-> TRUE, started |-> FALSE, stopped |-> FALSE,
                 open |-> -1, next |-> 0, type |-> ""]
    /\ fed = <<>> /\ sse = <<>> /\ last = ""

-----------------------------------------------------------------------------
(* Finish reasons and what the parser makes of an event.                   *)

\* Mutant of mapFinishReason: "length" falls into the default.
mapFinishReasonShort(reason) ==
    IF reason = "tool_calls" THEN "tool_use" ELSE "end_turn"

mapFinishReason(reason) ==
    CASE reason = "length"     -> "max_tokens"
      [] reason = "tool_calls" -> "tool_use"
      [] OTHER                 -> "end_turn"

mapStopReasonToFinishReason(stopReason) ==
    CASE stopReason = "max_tokens" -> "length"
      [] stopReason = "tool_use"   -> "tool_calls"
      [] OTHER                     -> "stop"

Event(type, index, kind, data) ==
    [type |-> type, index |-> index, kind |-> kind, data |-> data]

\* Mutant of parseSSEEventToResponse: the stop reason ends the stream.
parseSSEEventToResponseEarlyDone(e) ==
    CASE e.type = "content_block_delta" ->
            <<[kind |-> e.kind, data |-> "", index |-> e.index]>>
      [] e.type = "content_block_start" /\ e.kind = "tool_use" ->
            <<[kind |-> "tool_use", data |-> e.data, index |-> e.index]>>
      [] e.type = "message_start" ->
            <<[kind |-> "start", data |-> "", index |-> -1]>>
      [] e.type = "message_delta" ->
            <<[kind |-> "finish", index |-> -1,
               data |-> mapStopReasonToFinishReason(e.data)],
              [kind |-> "done", data |-> "", index |-> -1]>>
      [] OTHER -> <<>>

\* What one event yields; the index becomes the Index of the tool call.
\* Starts of other blocks, stops and the error event yield nothing; "done" is
\* the response with Done set.
parseSSEEventToResponse(e) ==
    CASE e.type = "content_block_delta" ->
            <<[kind |-> e.kind, data |-> "", index |-> e.index]>>
      [] e.type = "content_block_start" /\ e.kind = "tool_use" ->
            <<[kind |-> "tool_use", data |-> e.data, index |-> e.index]>>
      [] e.type = "message_delta" ->
            <<[kind |-> "finish", index |-> -1,
               data |-> mapStopReasonToFinishReason(e.data)]>>
      [] e.type \in {"message_start", "message_stop"} ->
            <<[kind |-> IF e.type = "message_start" THEN "start" ELSE "done",
               data |-> "", index |-> -1]>>
      [] OTHER -> <<>>

\* What a reader of the body makes of it, and the part that is content.
Parsed == FlattenSeq([i \in DOMAIN sse |-> parseSSEEventToResponse(sse[i])])
got    ==
    LET all == Parsed
    IN  FlattenSeq([i \in DOMAIN all |->
            IF all[i].kind \in {"start", "done"} THEN <<>> ELSE <<all[i]>>])

\* The delta each kind of block takes.
DeltaOf(block) ==
    CASE block = "thinking" -> "thinking_delta"
      [] block = "text"     -> "text_delta"
      [] OTHER              -> "input_json_delta"

\* The client's bookkeeping.  A block may start after message_start, when no
\* block is open, under the next index; deltas and stop name the open block,
\* and a delta is of its kind; message_delta comes when no block is open.
InOrder(e) ==
    CASE e.type = "message_start" -> ~client.started
      [] e.type = "content_block_start" ->
            client.started /\ client.open = -1 /\ e.index = client.next
      [] e.type = "content_block_delta" ->
            client.open = e.index /\ e.kind = DeltaOf(client.type)
      [] e.type = "content_block_stop" -> client.open = e.index
      [] e.type = "message_delta" -> client.started /\ client.open = -1
      [] OTHER -> TRUE

Judged(e) == [client EXCEPT !.ok = @ /\ ~client.stopped /\ InOrder(e)]

Seen(e) ==
    CASE e.type = "message_start" -> [Judged(e) EXCEPT !.started = TRUE]
      [] e.type = "content_block_start" ->
            [Judged(e) EXCEPT !.open = e.index, !.next = @ + 1, !.type = e.kind]
      [] e.type = "content_block_stop" -> [Judged(e) EXCEPT !.open = -1]
      [] e.type = "message_stop" -> [Judged(e) EXCEPT !.stopped = TRUE]
      [] OTHER -> Judged(e)

\* writeSSEEvent and Flush.
Emit(e) == client' = Seen(e) /\ sse' = Append(sse, e)

Quiet == UNCHANGED <<client, sse>>

-----------------------------------------------------------------------------
(* The provider.                                                           *)

ItemsOf(c) ==
    IF c.err \/ ~c.choices THEN <<>>
    ELSE (IF c.think THEN <<Item("thinking_delta", "")>> ELSE <<>>)
      \o (IF c.text THEN <<Item("text_delta", "")>> ELSE <<>>)
      \o FlattenSeq([j \in DOMAIN c.tools |->
            (IF c.tools[j].id # NoID
               THEN <<Item("tool_use", c.tools[j].id)>> ELSE <<>>)
         \o (IF c.tools[j].args
               THEN <<Item("input_json_delta", "")>> ELSE <<>>)])
      \o (IF c.finish # "" THEN <<Item("finish", c.finish)>> ELSE <<>>)

Calls(c) == c.tools # <<>>
Content(c) ==
    ~c.err /\ c.choices /\ (c.think \/ c.text \/ Calls(c) \/ c.finish # "")

\* What a provider sends: nothing after the finish reason but errors and
\* chunks without content, and the arguments of a tool call right after it.
Orderly(c) ==
    Content(c) =>
       /\ last # "finish"
       /\ Calls(c) /\ c.tools[1].id = NoID =>
             last = "call" /\ ~c.think /\ ~c.text

\* stream.Each hands a chunk to the callback.
Each(c) ==
    /\ pc = "each" /\ chunks < MaxChunks /\ Orderly(c)
    /\ chunk' = c /\ chunks' = chunks + 1
    /\ fed' = fed \o ItemsOf(c)
    /\ last' = IF ~Content(c) THEN last
               ELSE IF c.finish # "" THEN "finish"
               ELSE IF Calls(c) THEN "call" ELSE "prose"
    /\ pc' = IF c.err THEN "error" ELSE "start"
    /\ k' = 1
    /\ Quiet /\ UNCHANGED w

\* The stream ends, finished or cut off, or the context is done: in every
\* case message_stop is sent.
EachReturns ==
    /\ pc = "each"
    /\ pc' = "done"
    /\ Emit(Event("message_stop", -1, "", ""))
    /\ UNCHANGED <<chunk, k, w, sent>>

-----------------------------------------------------------------------------
(* The writer: the callback and writeStreamChunks.                         *)

WriteError ==
    /\ pc = "error"
    /\ pc' = "each"
    /\ Emit(Event("error", -1, "", ""))
    /\ UNCHANGED <<chunk, k, w, sent>>

AfterStart == IF chunk.choices THEN "thinking" ELSE "each"

WriteMessageStart ==
    /\ pc = "start" /\ ~w.started
    /\ w' = [w EXCEPT !.started = TRUE]
    /\ Emit(Event("message_start", -1, "", ""))
    /\ pc' = AfterStart
    /\ UNCHANGED <<chunk, k, sent>>

MessageStarted ==
    /\ pc = "start" /\ w.started
    /\ pc' = AfterStart
    /\ Quiet /\ UNCHANGED <<chunk, k, w, sent>>

\* The section the writer is in has something to write into a block of type
\* pc, and, for a tool call, opens a block of its own.
HasContent ==
    \/ pc = "thinking" /\ chunk.think
    \/ pc = "text" /\ chunk.text
    \/ pc = "tool_use" /\ k <= Len(chunk.tools) /\ chunk.tools[k].id # NoID

\* Mutant of CloseBlock: the next block takes the index of this one.
CloseBlockKeepsIndex ==
    /\ HasContent /\ w.open /\ (pc = "tool_use" \/ w.type # pc)
    /\ w' = [w EXCEPT !.open = FALSE]
    /\ Emit(Event("content_block_stop", w.index, "", ""))
    /\ UNCHANGED <<pc, chunk, k, sent>>

\* Content of another type closes the current block; a new tool call always
\* does.  The code sets blockStarted again with the start that follows; here
\* it is FALSE between the two.
CloseBlock ==
    /\ HasContent /\ w.open /\ (pc = "tool_use" \/ w.type # pc)
    /\ w' = [w EXCEPT !.open = FALSE, !.index = @ + 1]
    /\ Emit(Event("content_block_stop", w.index, "", ""))
    /\ UNCHANGED <<pc, chunk, k, sent>>

StartBlock ==
    /\ HasContent /\ ~w.open
    /\ w' = [w EXCEPT !.open = TRUE, !.type = pc]
    /\ Emit(Event("content_block_start", w.index, pc,
                  IF pc = "tool_use" THEN chunk.tools[k].id ELSE ""))
    /\ pc' = IF pc = "tool_use" THEN "args" ELSE pc
    /\ UNCHANGED <<chunk, k, sent>>

NextSection == IF pc = "thinking" THEN "text" ELSE "tool_use"

WriteDelta ==
    /\ pc \in {"thinking", "text"} /\ HasContent /\ w.open /\ w.type = pc
    /\ Emit(Event("content_block_delta", w.index, DeltaOf(pc), ""))
    /\ pc' = NextSection
    /\ UNCHANGED <<chunk, k, w, sent>>

NoDelta ==
    /\ pc \in {"thinking", "text"} /\ ~HasContent
    /\ pc' = NextSection
    /\ Quiet /\ UNCHANGED <<chunk, k, w, sent>>

\* A tool call without an ID continues whatever block is current.
ContinueTool ==
    /\ pc = "tool_use" /\ k <= Len(chunk.tools) /\ ~HasContent
    /\ pc' = "args"
    /\ Quiet /\ UNCHANGED <<chunk, k, w, sent>>

WriteArguments ==
    /\ pc = "args"
    /\ IF chunk.tools[k].args
         THEN Emit(Event("content_block_delta", w.index,
                         "input_json_delta", ""))
         ELSE Quiet
    /\ pc' = "tool_use" /\ k' = k + 1
    /\ UNCHANGED <<chunk, w, sent>>

ToolsWritten ==
    /\ pc = "tool_use" /\ k > Len(chunk.tools)
    /\ pc' = IF chunk.finish # "" THEN "finish" ELSE "each"
    /\ Quiet /\ UNCHANGED <<chunk, k, w, sent>>

CloseLastBlock ==
    /\ pc = "finish" /\ w.open
    /\ w' = [w EXCEPT !.open = FALSE]
    /\ Emit(Event("content_block_stop", w.index, "", ""))
    /\ UNCHANGED <<pc, chunk, k, sent>>

WriteMessageDelta ==
    /\ pc = "finish" /\ ~w.open
    /\ Emit(Event("message_delta", -1, "", mapFinishReason(chunk.finish)))
    /\ pc' = "each"
    /\ UNCHANGED <<chunk, k, w, sent>>

Returned == pc = "done" /\ UNCHANGED vars

Next ==
    \/ \E c \in Chunks : Each(c)
    \/ EachReturns \/ WriteError \/ WriteMessageStart \/ MessageStarted
    \/ CloseBlock \/ StartBlock \/ WriteDelta \/ NoDelta
    \/ ContinueTool \/ WriteArguments \/ ToolsWritten
    \/ CloseLastBlock \/ WriteMessageDelta
    \/ Returned

Spec == Init /\ [][Next]_vars

-----------------------------------------------------------------------------
(* Properties.                                                             *)

\* Types; a block index never exceeds the number of items sent, the tool
\* loop never runs past the tool calls of the chunk (range over ToolCalls).
TypeOK ==
    /\ pc \in {"each", "error", "start", "thinking", "text", "tool_use",
               "args", "finish", "done"}
    /\ chunk \in Chunks \cup {NoChunk}
    /\ k \in 1 .. Len(chunk.tools) + 1
    /\ w \in [started : BOOLEAN, open : BOOLEAN, index : 0 .. Len(fed),
              type : Blocks \cup {""}]
    /\ client \in [ok : BOOLEAN, started : BOOLEAN, stopped : BOOLEAN,
                   open : -1 .. Len(fed), next : 0 .. Len(fed),
                   type : Blocks \cup {""}]
    /\ last \in {"", "prose", "call", "finish"}
    /\ chunks \in 0 .. MaxChunks

\* Whatever mix of thinking, text and tool calls arrives, over chunks and
\* within one, the events nest: message_start first, one block open at a
\* time, indices 0, 1, 2, ... without gap or repetition, every delta in a
\* block of its own kind, the stop reason only after the last block closed,
\* nothing after message_stop (writeStreamChunks).
BlockDiscipline == client.ok

\* Why the blocks nest: the client's view is the writer's state.  Content
\* finds the client ready for the block the writer is about to start, and
\* arguments without an ID find the block of their call still open.
Sections == {"thinking", "text", "tool_use", "args", "finish"}

InCall == w.open /\ w.type = "tool_use"

Pending ==
    \/ HasContent
    \/ pc \in {"start", "thinking"} /\ Content(chunk)
    \/ pc = "text" /\ (chunk.text \/ Calls(chunk))
    \/ pc \in {"tool_use", "args"} /\ k <= Len(chunk.tools)

Mirror ==
    /\ client.stopped <=> pc = "done"
    /\ client.started <=> w.started
    /\ client.open = (IF w.open THEN w.index ELSE -1)
    /\ w.open => client.type = w.type /\ client.next = w.index + 1
    /\ ~w.open => client.next = w.index \/ (last = "finish" /\ ~Pending)

Position ==
    /\ pc = "error" => chunk.err
    /\ pc = "start" => ~chunk.err
    /\ pc \in Sections => w.started /\ ~chunk.err /\ chunk.choices
    /\ pc \in {"start", "thinking", "text"} => k = 1
    /\ pc = "args" => k <= Len(chunk.tools) /\ InCall
    /\ pc = "finish" => chunk.finish # ""

FinishNoted == Content(chunk) /\ chunk.finish # "" => last = "finish"

FirstContinues ==
    pc \in {"start", "thinking", "text"} \/ (pc = "tool_use" /\ k = 1) =>
       (Content(chunk) /\ Calls(chunk) /\ chunk.tools[1].id = NoID =>
           InCall /\ ~chunk.think /\ ~chunk.text)

NextContinues == pc = "tool_use" /\ k > 1 /\ ~HasContent => InCall

CallHeld ==
    last = "call" /\ pc # "done" =>
       /\ pc = "each" \/ ~Content(chunk) => InCall
       /\ pc # "each" /\ Content(chunk) => Calls(chunk)

CallOpen == FinishNoted /\ FirstContinues /\ NextContinues /\ CallHeld

BlockInv == BlockDiscipline /\ Mirror /\ Position /\ CallOpen

\* Between two chunks, and at the end, parsing the events gives back what
\* the provider sent: same items, same order, nothing lost or written twice,
\* the finish reason up to the ones Anthropic has no name for
\* (writeStreamChunks against parseSSEEventToResponse).
RoundTrip ==
    LET g == got
    IN  pc \in {"each", "done"} =>
           /\ Len(g) = Len(fed)
           /\ \A i \in DOMAIN fed :
                 /\ g[i].kind = fed[i].kind
                 /\ g[i].data =
                       IF /\ fed[i].kind = "finish"
                          /\ fed[i].data \in Reasons \ {"length", "tool_calls"}
                         THEN "stop" ELSE fed[i].data

\* A reader that merges tool calls by their Index puts every piece of
\* arguments with the call it was sent for: no two calls share an Index, and
\* arguments carry that of the last call.
ToolsReassemble ==
    LET g == got
    IN  \A i \in DOMAIN g :
           /\ g[i].kind = "tool_use" =>
                 \A j \in 1 .. i - 1 :
                    g[j].kind = "tool_use" => g[j].index # g[i].index
           /\ g[i].kind = "input_json_delta" =>
                 /\ g[i - 1].kind \in {"tool_use", "input_json_delta"}
                 /\ g[i - 1].index = g[i].index
=============================================================================
