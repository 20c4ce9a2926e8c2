--------------------------- MODULE AnthropicProofs ----------------------------
(***************************************************************************)
(* One stream, for every set of chunks, however many arrive and in         *)
(* whatever mix.  Its events nest: BlockDiscipline, through the inductive  *)
(* invariant BlockInv (the client's view is the writer's state).  What a   *)
(* parser makes of them is what was sent: RoundTrip and ToolsReassemble,   *)
(* through Faithful (what was sent is what was written and what the chunk  *)
(* in hand still owes; calls have the indices of their blocks).            *)
(*                                                                         *)
(* Then the stream behind a pipe of any capacity and a transport of any    *)
(* size: the writer at one end behaves as if it were alone, so that what   *)
(* holds of a stream holds of one that is read by ParseSSEStream, and the  *)
(* goroutine makes of each data line what its own event line says.         *)
(***************************************************************************)
EXTENDS AnthropicPipe, SequenceFacts, TLAPS

Client == [ok : BOOLEAN, started : BOOLEAN, stopped : BOOLEAN,
           open : Int, next : Int, type : Blocks \cup {""}]

Writer == [started : BOOLEAN, open : BOOLEAN, index : Nat,
           type : Blocks \cup {""}]

\* The part of TypeOK the induction needs; Counted gives the bounds.
Types ==
    /\ pc \in {"each", "error", "start", "thinking", "text", "tool_use",
               "args", "finish", "done"}
    /\ chunk \in Chunks \cup {NoChunk}
    /\ k \in Nat /\ 1 <= k /\ k <= Len(chunk.tools) + 1
    /\ w \in Writer
    /\ client \in Client

\* Every chunk, the empty one included, has fields of the expected types.
LEMMA ChunkFields ==
    ASSUME NEW c \in Chunks \cup {NoChunk}
    PROVE  /\ c \in Response /\ Len(c.tools) \in Nat
           /\ Calls(c) <=> Len(c.tools) > 0
<1>1. ASSUME NEW S PROVE <<>> \in Seq(S)
    OBVIOUS
<1>2. NoChunk \in Response
    BY <1>1 DEF NoChunk, Response
<1>3. c \in Response
    BY <1>2, ChunksAssumption
<1>4. c.tools \in Seq(ToolCall)
    BY <1>3 DEF Response
<1>5. Len(c.tools) \in Nat /\ (c.tools # <<>> <=> Len(c.tools) > 0)
    BY <1>4
<1> QED
    BY <1>3, <1>5 DEF Calls

-----------------------------------------------------------------------------
(* What each event does to the client's view.                              *)

\* The fields of an event are what Event was given.
LEMMA EventFields ==
    ASSUME NEW t, NEW i, NEW b, NEW d
    PROVE  /\ Event(t, i, b, d).type = t /\ Event(t, i, b, d).index = i
           /\ Event(t, i, b, d).kind = b /\ Event(t, i, b, d).data = d
BY DEF Event

\* The verdict on an event changes nothing else.
LEMMA JudgedFields ==
    ASSUME client \in Client, NEW e, InOrder(e) \in BOOLEAN
    PROVE  /\ Judged(e) \in Client
           /\ Judged(e).ok <=> client.ok /\ ~client.stopped /\ InOrder(e)
           /\ Judged(e).started = client.started
           /\ Judged(e).stopped = client.stopped
           /\ Judged(e).open = client.open /\ Judged(e).next = client.next
           /\ Judged(e).type = client.type
<1>1. (client.ok /\ ~client.stopped /\ InOrder(e)) \in BOOLEAN
    OBVIOUS
<1> QED
    BY <1>1 DEF Judged, Client

\* message_start marks the message as started.
LEMMA SeesMessageStart ==
    ASSUME client \in Client, NEW i, NEW b, NEW d,
           Emit(Event("message_start", i, b, d))
    PROVE  /\ client' \in Client /\ client'.started
           /\ client'.ok <=> client.ok /\ ~client.stopped /\ ~client.started
           /\ client'.stopped = client.stopped /\ client'.open = client.open
           /\ client'.next = client.next /\ client'.type = client.type
<1> DEFINE e == Event("message_start", i, b, d)
<1> DEFINE j == Judged(e)
<1>1. e.type = "message_start" /\ e.index = i /\ e.kind = b
    BY EventFields
<1>2. InOrder(e) <=> ~client.started
    BY <1>1 DEF InOrder
<1>3. InOrder(e) \in BOOLEAN
    BY <1>1 DEF InOrder, Client
<1>4. client' = [j EXCEPT !.started = TRUE]
    BY <1>1 DEF Emit, Seen
<1>5. j \in Client
    BY <1>3, JudgedFields
<1>6. /\ j.ok <=> client.ok /\ ~client.stopped /\ InOrder(e)
      /\ j.started = client.started /\ j.stopped = client.stopped
      /\ j.open = client.open /\ j.next = client.next
      /\ j.type = client.type
    BY <1>3, JudgedFields
<1> HIDE DEF e, j
<1>7. client' \in Client
    BY <1>1, <1>4, <1>5 DEF Client
<1>8. client'.ok <=> j.ok
    BY <1>4, <1>5 DEF Client
<1> QED
    BY <1>1, <1>2, <1>4, <1>5, <1>6, <1>7, <1>8 DEF Client

\* A block start opens the block of its index; the next index moves on.
LEMMA SeesBlockStart ==
    ASSUME client \in Client, NEW i \in Int, NEW b \in Blocks, NEW d,
           Emit(Event("content_block_start", i, b, d))
    PROVE  /\ client' \in Client
           /\ client'.ok <=> /\ client.ok /\ ~client.stopped
                             /\ client.started /\ client.open = -1
                             /\ i = client.next
           /\ client'.started = client.started
           /\ client'.stopped = client.stopped /\ client'.open = i
           /\ client'.next = client.next + 1 /\ client'.type = b
<1> DEFINE e == Event("content_block_start", i, b, d)
<1> DEFINE j == Judged(e)
<1>1. e.type = "content_block_start" /\ e.index = i /\ e.kind = b
    BY EventFields
<1>2. InOrder(e) <=> (/\ client.started /\ client.open = -1
                   /\ i = client.next)
    BY <1>1 DEF InOrder
<1>3. InOrder(e) \in BOOLEAN
    BY <1>1 DEF InOrder, Client
<1>4. client' = [j EXCEPT !.open = e.index, !.next = @ + 1,
                                !.type = e.kind]
    BY <1>1 DEF Emit, Seen
<1>5. j \in Client
    BY <1>3, JudgedFields
<1>6. /\ j.ok <=> client.ok /\ ~client.stopped /\ InOrder(e)
      /\ j.started = client.started /\ j.stopped = client.stopped
      /\ j.open = client.open /\ j.next = client.next
      /\ j.type = client.type
    BY <1>3, JudgedFields
<1> HIDE DEF e, j
<1>7. client' \in Client
    <2>1. e.index \in Int /\ e.kind \in Blocks \cup {""}
        BY <1>1
    <2>2. j.next \in Int
        BY <1>5 DEF Client
    <2>3. j.next + 1 \in Int
        BY <2>2
    <2>4. ASSUME NEW x \in Int, NEW y \in Int, NEW z \in Blocks \cup {""}
          PROVE  [j EXCEPT !.open = x, !.next = y, !.type = z] \in Client
        BY <1>5 DEF Client
    <2> QED
        BY <1>4, <2>1, <2>3, <2>4
<1>8. client'.ok <=> j.ok
    BY <1>4, <1>5 DEF Client
<1> QED
    BY <1>1, <1>2, <1>4, <1>5, <1>6, <1>7, <1>8 DEF Client

\* A block stop closes the block.
LEMMA SeesBlockStop ==
    ASSUME client \in Client, NEW i \in Int, NEW b, NEW d,
           Emit(Event("content_block_stop", i, b, d))
    PROVE  /\ client' \in Client
           /\ client'.ok <=> client.ok /\ ~client.stopped /\ client.open = i
           /\ client'.started = client.started
           /\ client'.stopped = client.stopped /\ client'.open = -1
           /\ client'.next = client.next /\ client'.type = client.type
<1> DEFINE e == Event("content_block_stop", i, b, d)
<1> DEFINE j == Judged(e)
<1>1. e.type = "content_block_stop" /\ e.index = i /\ e.kind = b
    BY EventFields
<1>2. InOrder(e) <=> client.open = i
    BY <1>1 DEF InOrder
<1>3. InOrder(e) \in BOOLEAN
    BY <1>1 DEF InOrder, Client
<1>4. client' = [j EXCEPT !.open = -1]
    BY <1>1 DEF Emit, Seen
<1>5. j \in Client
    BY <1>3, JudgedFields
<1>6. /\ j.ok <=> client.ok /\ ~client.stopped /\ InOrder(e)
      /\ j.started = client.started /\ j.stopped = client.stopped
      /\ j.open = client.open /\ j.next = client.next
      /\ j.type = client.type
    BY <1>3, JudgedFields
<1> HIDE DEF e, j
<1>7. client' \in Client
    <2>1. ASSUME NEW x \in Int PROVE [j EXCEPT !.open = x] \in Client
        BY <1>5 DEF Client
    <2> QED
        BY <1>4, <2>1
<1>8. client'.ok <=> j.ok
    BY <1>4, <1>5 DEF Client
<1> QED
    BY <1>1, <1>2, <1>4, <1>5, <1>6, <1>7, <1>8 DEF Client

\* Deltas, errors and the stop reason leave the view but for its verdict.
LEMMA SeesOther ==
    ASSUME client \in Client, NEW i, NEW b, NEW d,
           NEW t \in {"content_block_delta", "message_delta", "error"},
           Emit(Event(t, i, b, d))
    PROVE  /\ client' \in Client
           /\ client'.ok <=> /\ client.ok /\ ~client.stopped
                             /\ InOrder(Event(t, i, b, d))
           /\ client'.started = client.started
           /\ client'.stopped = client.stopped /\ client'.open = client.open
           /\ client'.next = client.next /\ client'.type = client.type
<1> DEFINE e == Event(t, i, b, d)
<1>1. e.type = t
    BY EventFields
<1>2. InOrder(e) \in BOOLEAN
    BY <1>1 DEF InOrder, Client
<1>3. client' = Judged(e)
    BY <1>1 DEF Emit, Seen
<1> HIDE DEF e
<1>4. /\ client' \in Client
      /\ client'.ok <=> client.ok /\ ~client.stopped /\ InOrder(e)
      /\ client'.started = client.started
      /\ client'.stopped = client.stopped /\ client'.open = client.open
      /\ client'.next = client.next /\ client'.type = client.type
    BY <1>2, <1>3, JudgedFields
<1> QED
    BY <1>4 DEF e

\* message_stop ends the message.
LEMMA SeesMessageStop ==
    ASSUME client \in Client, NEW i, NEW b, NEW d,
           Emit(Event("message_stop", i, b, d))
    PROVE  /\ client' \in Client /\ client'.stopped
           /\ client'.ok <=> client.ok /\ ~client.stopped
           /\ client'.started = client.started /\ client'.open = client.open
           /\ client'.next = client.next /\ client'.type = client.type
<1> DEFINE e == Event("message_stop", i, b, d)
<1> DEFINE j == Judged(e)
<1>1. e.type = "message_stop" /\ e.index = i /\ e.kind = b
    BY EventFields
<1>2. InOrder(e) <=> TRUE
    BY <1>1 DEF InOrder
<1>3. InOrder(e) \in BOOLEAN
    BY <1>1 DEF InOrder, Client
<1>4. client' = [j EXCEPT !.stopped = TRUE]
    BY <1>1 DEF Emit, Seen
<1>5. j \in Client
    BY <1>3, JudgedFields
<1>6. /\ j.ok <=> client.ok /\ ~client.stopped /\ InOrder(e)
      /\ j.started = client.started /\ j.stopped = client.stopped
      /\ j.open = client.open /\ j.next = client.next
      /\ j.type = client.type
    BY <1>3, JudgedFields
<1> HIDE DEF e, j
<1>7. client' \in Client
    BY <1>1, <1>4, <1>5 DEF Client
<1>8. client'.ok <=> j.ok
    BY <1>4, <1>5 DEF Client
<1> QED
    BY <1>1, <1>2, <1>4, <1>5, <1>6, <1>7, <1>8 DEF Client

\* What the actions do to the writer's record keeps its type.
LEMMA WriterUpdates ==
    ASSUME w \in Writer
    PROVE  /\ w.index \in Nat /\ w.index \in Int
           /\ [w EXCEPT !.started = TRUE] \in Writer
           /\ [w EXCEPT !.open = FALSE] \in Writer
           /\ [w EXCEPT !.open = FALSE, !.index = @ + 1] \in Writer
           /\ \A t \in Blocks : [w EXCEPT !.open = TRUE, !.type = t] \in Writer
<1>1. w.index \in Nat
    BY DEF Writer
<1>6. w.index + 1 \in Nat /\ w.index \in Int
    BY <1>1
<1>2. ASSUME NEW n \in Nat
      PROVE  [w EXCEPT !.open = FALSE, !.index = n] \in Writer
    BY DEF Writer
<1>3. [w EXCEPT !.started = TRUE] \in Writer
    BY DEF Writer
<1>4. [w EXCEPT !.open = FALSE] \in Writer
    BY DEF Writer
<1>5. ASSUME NEW t \in Blocks
      PROVE  [w EXCEPT !.open = TRUE, !.type = t] \in Writer
    BY DEF Writer
<1> QED
    BY <1>1, <1>2, <1>3, <1>4, <1>5, <1>6

-----------------------------------------------------------------------------
(* The invariant.                                                          *)

\* The initial state satisfies the invariant.
LEMMA BlockInit == Init => Types /\ BlockInv
<1> SUFFICES ASSUME Init PROVE Types /\ BlockInv
    OBVIOUS
<1>1. Types
    <2>1. Len(NoChunk.tools) = 0
        BY DEF NoChunk
    <2>2. w \in Writer
        BY DEF Init, Writer
    <2>3. client \in Client
        <3>1. ASSUME NEW i \in Int
              PROVE  [ok |-> TRUE, started |-> FALSE, stopped |-> FALSE,
                      open |-> i, next |-> 0, type |-> ""] \in Client
            BY DEF Client
        <3>2. -1 \in Int
            OBVIOUS
        <3> QED
            BY <3>1, <3>2 DEF Init
    <2>4. k \in Nat /\ 1 <= k /\ k <= Len(chunk.tools) + 1
        <3>1. chunk = NoChunk /\ k = 1
            BY DEF Init
        <3> QED
            BY <2>1, <3>1
    <2> QED
        BY <2>1, <2>2, <2>3, <2>4 DEF Init, Types
<1>2. BlockInv
    BY DEF Init, BlockInv, BlockDiscipline, Mirror, Position, CallOpen,
           FinishNoted, FirstContinues, NextContinues, CallHeld, InCall,
           Pending, HasContent, Content, Calls, NoChunk, Sections
<1> QED
    BY <1>1, <1>2

\* Every step preserves the types.
LEMMA TypesStep == Types /\ BlockInv /\ [Next]_vars => Types'
<1> SUFFICES ASSUME Types, BlockInv, [Next]_vars PROVE Types'
    OBVIOUS
<1> USE DEF Types, BlockInv
<1>0. chunk \in Response /\ Len(chunk.tools) \in Nat
    BY ChunkFields
<1>1. ASSUME NEW c \in Chunks, Each(c) PROVE Types'
    <2>1. Len(c.tools) \in Nat
        BY ChunkFields
    <2>2. chunk' = c /\ k' = 1 /\ w' = w /\ client' = client
        BY <1>1 DEF Each, Quiet
    <2>3. pc' \in {"error", "start"}
        BY <1>1 DEF Each
    <2> QED
        BY <2>1, <2>2, <2>3
<1>2. CASE EachReturns
    BY <1>2, SeesMessageStop DEF EachReturns
<1>3. CASE WriteError
    BY <1>3, SeesOther DEF WriteError
<1>4. CASE WriteMessageStart
    <2>1. w' \in Writer
        BY <1>4, WriterUpdates DEF WriteMessageStart
    <2>2. client' \in Client
        BY <1>4, SeesMessageStart DEF WriteMessageStart, Mirror
    <2> QED
        BY <1>4, <2>1, <2>2 DEF WriteMessageStart, AfterStart
<1>5. CASE MessageStarted
    BY <1>5 DEF MessageStarted, AfterStart, Quiet
<1>6. CASE CloseBlock
    <2>1. w.index \in Int /\ w' \in Writer
        BY <1>6, WriterUpdates DEF CloseBlock
    <2> QED
        BY <1>6, <2>1, SeesBlockStop DEF CloseBlock
<1>7. CASE StartBlock
    <2>1. pc \in Blocks
        BY <1>7 DEF StartBlock, HasContent, Blocks
    <2>2. w.index \in Int /\ w' \in Writer
        BY <1>7, <2>1, WriterUpdates DEF StartBlock
    <2>3. client' \in Client
        BY <1>7, <2>1, <2>2, SeesBlockStart DEF StartBlock
    <2> QED
        BY <1>7, <2>2, <2>3 DEF StartBlock
<1>8. CASE WriteDelta
    BY <1>8, SeesOther DEF WriteDelta, NextSection
<1>9. CASE NoDelta
    BY <1>9 DEF NoDelta, NextSection, Quiet
<1>10. CASE ContinueTool
    BY <1>10 DEF ContinueTool, Quiet
<1>11. CASE WriteArguments
    <2>1. client' \in Client
        BY <1>11, SeesOther DEF WriteArguments, Quiet
    <2>2. k <= Len(chunk.tools)
        BY <1>11 DEF WriteArguments, Position
    <2>3. k' = k + 1 /\ chunk' = chunk /\ w' = w /\ pc' = "tool_use"
        BY <1>11 DEF WriteArguments
    <2> QED
        BY <1>0, <2>1, <2>2, <2>3
<1>12. CASE ToolsWritten
    BY <1>12 DEF ToolsWritten, Quiet
<1>13. CASE CloseLastBlock
    <2>1. w.index \in Int /\ w' \in Writer
        BY <1>13, WriterUpdates DEF CloseLastBlock
    <2> QED
        BY <1>13, <2>1, SeesBlockStop DEF CloseLastBlock
<1>14. CASE WriteMessageDelta
    BY <1>14, SeesOther DEF WriteMessageDelta
<1>15. CASE UNCHANGED vars
    BY <1>15 DEF vars, sent
<1> QED
    BY <1>1, <1>2, <1>3, <1>4, <1>5, <1>6, <1>7, <1>8, <1>9, <1>10, <1>11,
       <1>12, <1>13, <1>14, <1>15 DEF Next, Returned
\* Every step preserves the invariant, one lemma per action.
\* A new chunk preserves the invariant.
LEMMA EachInv ==
    ASSUME Types, BlockInv, NEW c \in Chunks, Each(c)
    PROVE  BlockInv'
<1>1. /\ pc = "each" /\ chunk' = c /\ k' = 1 /\ w' = w /\ client' = client
      /\ pc' = IF c.err THEN "error" ELSE "start"
      /\ Orderly(c)
    BY DEF Each, Quiet
<1>2. /\ ~Content(c) => last' = last
      /\ Content(c) /\ c.finish # "" => last' = "finish"
      /\ Content(c) /\ last' = "call" => Calls(c)
    <2>1. Content(c) \in BOOLEAN /\ Calls(c) \in BOOLEAN
        BY ChunkFields DEF Content, Calls, Response
    <2> QED
        BY <2>1 DEF Each
<1>3. ~Pending' \/ last # "finish"
    BY <1>1 DEF Pending, HasContent, Orderly, Content
<1>4. last = "finish" => last' = "finish"
    BY <1>1, <1>2 DEF Orderly, Content, Calls
<1>5. Mirror'
    <2>1. ~client.stopped /\ pc' # "done"
        BY <1>1 DEF BlockInv, Mirror
    <2>2. ~w.open => client.next = w.index \/ (last' = "finish" /\ ~Pending')
        BY <1>3, <1>4 DEF BlockInv, Mirror
    <2> QED
        BY <1>1, <2>1, <2>2 DEF BlockInv, Mirror
<1>6. Position'
    BY <1>1 DEF BlockInv, Position, Sections
<1>7. CallOpen'
    <2>1. Content(c) /\ c.finish # "" => last' = "finish"
        BY <1>2
    <2>2. Content(c) /\ Calls(c) /\ c.tools[1].id = NoID =>
             InCall /\ ~c.think /\ ~c.text
        BY <1>1 DEF Orderly, BlockInv, CallOpen, CallHeld
    <2>3. last' = "call" =>
             (~Content(c) => InCall) /\ (Content(c) => Calls(c))
        BY <1>1, <1>2 DEF BlockInv, CallOpen, CallHeld, Content, Calls
    <2>4. InCall' = InCall
        BY <1>1 DEF InCall
    <2> QED
        BY <1>1, <2>1, <2>2, <2>3, <2>4 DEF CallOpen, FinishNoted,
           FirstContinues, NextContinues, CallHeld, Content, Calls
<1> QED
    BY <1>1, <1>5, <1>6, <1>7 DEF BlockInv, BlockDiscipline

\* A section with something to write belongs to a chunk with content.
LEMMA SectionContent ==
    ASSUME Types, BlockInv, HasContent
    PROVE  Content(chunk)
<1>1. ~chunk.err /\ chunk.choices
    BY DEF HasContent, BlockInv, Position, Sections
<1>2. CASE pc = "tool_use"
    <2>1. k \in Nat /\ 1 <= k /\ k <= Len(chunk.tools)
        BY <1>2 DEF HasContent, Types
    <2>2. Calls(chunk)
        BY <2>1, ChunkFields DEF Types
    <2> QED
        BY <1>1, <2>2 DEF Content
<1>3. CASE pc # "tool_use"
    BY <1>1, <1>3 DEF HasContent, Content
<1> QED
    BY <1>2, <1>3

\* MessageStarted preserves the invariant.
LEMMA MessageStartedInv ==
    ASSUME Types, BlockInv, MessageStarted
    PROVE  BlockInv'
<1>0. /\ k \in Nat /\ 1 <= k /\ Len(chunk.tools) \in Nat
      /\ chunk.choices \in BOOLEAN
    BY ChunkFields DEF Types, Response
<1>1. pc = "start" /\ w.started /\ UNCHANGED <<chunk, k, w, client, last>>
    BY DEF MessageStarted, Quiet, sent
<1>2. \/ pc' = "thinking" /\ chunk.choices
      \/ pc' = "each" /\ ~chunk.choices
    BY <1>0 DEF MessageStarted, AfterStart
<1>3. BlockDiscipline'
    BY <1>1, <1>2 DEF BlockInv, BlockDiscipline, Mirror
<1>4. Mirror'
    <2>1. Pending' => Pending
        <3>1. ~chunk.err
            BY <1>1 DEF BlockInv, Position
        <3> QED
            BY <1>1, <1>2, <3>1 DEF Pending, HasContent, Content
    <2> QED
        BY <1>1, <1>2, <2>1 DEF BlockInv, Mirror
<1>5. Position'
    BY <1>0, <1>1, <1>2 DEF BlockInv, Position, Sections, InCall
<1>6. FinishNoted'
    BY <1>1 DEF BlockInv, CallOpen, FinishNoted
<1>7. FirstContinues'
    BY <1>0, <1>1, <1>2 DEF BlockInv, CallOpen, FirstContinues,
       InCall
<1>8. NextContinues'
    BY <1>0, <1>1, <1>2 DEF BlockInv, CallOpen, NextContinues, InCall,
       HasContent
<1>9. CallHeld'
    <2>1. InCall' = InCall /\ chunk' = chunk /\ last' = last
        BY <1>1 DEF InCall
    <2>2. pc' = "each" => ~Content(chunk)
        BY <1>2 DEF Content
    <2> QED
        BY <1>1, <1>2, <2>1, <2>2 DEF BlockInv, CallOpen, CallHeld
<1> QED
    BY <1>3, <1>4, <1>5, <1>6, <1>7, <1>8, <1>9 DEF BlockInv, CallOpen

\* NoDelta preserves the invariant.
LEMMA NoDeltaInv ==
    ASSUME Types, BlockInv, NoDelta
    PROVE  BlockInv'
<1>0. /\ k \in Nat /\ 1 <= k /\ Len(chunk.tools) \in Nat
      /\ chunk.choices \in BOOLEAN
    BY ChunkFields DEF Types, Response
<1>1. /\ pc \in {"thinking", "text"} /\ ~HasContent
      /\ UNCHANGED <<chunk, k, w, client, last>>
    BY DEF NoDelta, Quiet, sent
<1>2. \/ pc = "thinking" /\ pc' = "text"
      \/ pc = "text" /\ pc' = "tool_use"
    BY <1>1 DEF NoDelta, NextSection
<1>3. BlockDiscipline'
    BY <1>1, <1>2 DEF BlockInv, BlockDiscipline, Mirror
<1>4. Mirror'
    <2>1. chunk.choices /\ ~chunk.err /\ k = 1
        BY <1>1 DEF BlockInv, Position, Sections
    <2>2. Pending' => Pending
        <3>1. CASE pc = "thinking"
            BY <1>1, <1>2, <2>1, <3>1 DEF Pending, HasContent, Content
        <3>2. CASE pc = "text"
            <4>1. Calls(chunk) <=> Len(chunk.tools) > 0
                BY ChunkFields DEF Types
            <4> QED
                BY <1>0, <1>1, <1>2, <2>1, <3>2, <4>1 DEF Pending, HasContent
        <3> QED
            BY <1>1, <3>1, <3>2
    <2> QED
        BY <1>1, <1>2, <2>2 DEF BlockInv, Mirror
<1>5. Position'
    BY <1>0, <1>1, <1>2 DEF BlockInv, Position, Sections, InCall
<1>6. FinishNoted'
    BY <1>1 DEF BlockInv, CallOpen, FinishNoted
<1>7. FirstContinues'
    <2>1. k = 1 /\ k' = 1 /\ chunk' = chunk
        BY <1>1 DEF BlockInv, Position
    <2>2. InCall' = InCall
        BY <1>1 DEF InCall
    <2> QED
        BY <1>1, <1>2, <2>1, <2>2 DEF BlockInv, CallOpen, FirstContinues
<1>8. NextContinues'
    <2>1. k' = 1
        BY <1>1 DEF BlockInv, Position
    <2> QED
        BY <2>1 DEF NextContinues
<1>9. CallHeld'
    <2>1. InCall' = InCall /\ chunk' = chunk /\ last' = last
        BY <1>1 DEF InCall
    <2> QED
        BY <1>1, <1>2, <2>1 DEF BlockInv, CallOpen, CallHeld
<1> QED
    BY <1>3, <1>4, <1>5, <1>6, <1>7, <1>8, <1>9 DEF BlockInv, CallOpen

\* ContinueTool preserves the invariant.
LEMMA ContinueToolInv ==
    ASSUME Types, BlockInv, ContinueTool
    PROVE  BlockInv'
<1>0. /\ k \in Nat /\ 1 <= k /\ Len(chunk.tools) \in Nat
      /\ chunk.choices \in BOOLEAN
    BY ChunkFields DEF Types, Response
<1>1. /\ pc = "tool_use" /\ k <= Len(chunk.tools) /\ ~HasContent
      /\ UNCHANGED <<chunk, k, w, client, last>>
    BY DEF ContinueTool, Quiet, sent
<1>2. pc' = "args"
    BY DEF ContinueTool
<1>3. BlockDiscipline'
    BY <1>1, <1>2 DEF BlockInv, BlockDiscipline, Mirror
<1>4. Mirror'
    BY <1>0, <1>1, <1>2 DEF BlockInv, Mirror, Pending, HasContent,
       Content
<1>5. Position'
    <2>1. chunk.choices /\ ~chunk.err /\ w.started
        BY <1>1 DEF BlockInv, Position, Sections
    <2>2. chunk.tools[k].id = NoID
        BY <1>1 DEF HasContent
    <2>3. Calls(chunk)
        BY <1>0, <1>1, ChunkFields DEF Types
    <2>4. Content(chunk)
        BY <2>1, <2>3 DEF Content
    <2>5. InCall
        <3>1. k = 1 \/ k > 1
            BY <1>0
        <3>2. CASE k = 1
            BY <1>1, <2>2, <2>3, <2>4, <3>2
               DEF BlockInv, CallOpen, FirstContinues
        <3> QED
            BY <1>1, <3>1, <3>2 DEF BlockInv, CallOpen, NextContinues
    <2>6. InCall'
        BY <1>1, <2>5 DEF InCall
    <2> QED
        BY <1>1, <1>2, <2>1, <2>6 DEF Position, Sections
<1>6. FinishNoted'
    BY <1>1 DEF BlockInv, CallOpen, FinishNoted
<1>7. FirstContinues'
    BY <1>0, <1>1, <1>2 DEF BlockInv, CallOpen, FirstContinues,
       InCall
<1>8. NextContinues'
    BY <1>0, <1>1, <1>2 DEF BlockInv, CallOpen, NextContinues, InCall,
       HasContent
<1>9. CallHeld'
    <2>1. InCall' = InCall /\ chunk' = chunk /\ last' = last
        BY <1>1 DEF InCall
    <2> QED
        BY <1>1, <1>2, <2>1 DEF BlockInv, CallOpen, CallHeld
<1> QED
    BY <1>3, <1>4, <1>5, <1>6, <1>7, <1>8, <1>9 DEF BlockInv, CallOpen

\* ToolsWritten preserves the invariant.
LEMMA ToolsWrittenInv ==
    ASSUME Types, BlockInv, ToolsWritten
    PROVE  BlockInv'
<1>0. /\ k \in Nat /\ 1 <= k /\ Len(chunk.tools) \in Nat
      /\ chunk.choices \in BOOLEAN
    BY ChunkFields DEF Types, Response
<1>1. /\ pc = "tool_use" /\ k > Len(chunk.tools)
      /\ UNCHANGED <<chunk, k, w, client, last>>
    BY DEF ToolsWritten, Quiet, sent
<1>2. \/ pc' = "finish" /\ chunk.finish # ""
      \/ pc' = "each" /\ chunk.finish = ""
    BY DEF ToolsWritten
<1>3. BlockDiscipline'
    BY <1>1, <1>2 DEF BlockInv, BlockDiscipline, Mirror
<1>4. Mirror'
    BY <1>0, <1>1, <1>2 DEF BlockInv, Mirror, Pending, HasContent,
       Content
<1>5. Position'
    BY <1>0, <1>1, <1>2 DEF BlockInv, Position, Sections, InCall
<1>6. FinishNoted'
    BY <1>1 DEF BlockInv, CallOpen, FinishNoted
<1>7. FirstContinues'
    BY <1>0, <1>1, <1>2 DEF BlockInv, CallOpen, FirstContinues,
       InCall
<1>8. NextContinues'
    BY <1>0, <1>1, <1>2 DEF BlockInv, CallOpen, NextContinues, InCall,
       HasContent
<1>9. CallHeld'
    <2>1. InCall' = InCall /\ chunk' = chunk /\ last' = last
        BY <1>1 DEF InCall
    <2>2. ~HasContent
        BY <1>0, <1>1 DEF HasContent
    <2>3. Calls(chunk) => k > 1
        BY <1>0, <1>1, ChunkFields DEF Types
    <2>4. last = "call" => InCall
        BY <1>1, <2>2, <2>3
           DEF BlockInv, CallOpen, CallHeld, NextContinues
    <2> QED
        BY <1>1, <2>1, <2>4 DEF BlockInv, CallOpen, CallHeld
<1> QED
    BY <1>3, <1>4, <1>5, <1>6, <1>7, <1>8, <1>9 DEF BlockInv, CallOpen

\* EachReturns preserves the invariant.
LEMMA EachReturnsInv ==
    ASSUME Types, BlockInv, EachReturns
    PROVE  BlockInv'
<1>0. /\ k \in Nat /\ 1 <= k /\ Len(chunk.tools) \in Nat
      /\ chunk.choices \in BOOLEAN
    BY ChunkFields DEF Types, Response
<1>1. pc = "each" /\ pc' = "done" /\ UNCHANGED <<chunk, k, w, last>>
    BY DEF EachReturns, sent
<1>2. /\ client'.ok <=> client.ok /\ ~client.stopped
      /\ client'.stopped /\ client'.started = client.started
      /\ client'.open = client.open /\ client'.next = client.next
      /\ client'.type = client.type
    BY SeesMessageStop DEF EachReturns, Types
<1>3. BlockDiscipline'
    BY <1>1, <1>2 DEF BlockInv, BlockDiscipline, Mirror
<1>4. Mirror'
    BY <1>0, <1>1, <1>2 DEF BlockInv, Mirror, Pending, HasContent,
       Content
<1>5. Position'
    BY <1>0, <1>1, <1>2 DEF BlockInv, Position, Sections, InCall
<1>6. FinishNoted'
    BY <1>1 DEF BlockInv, CallOpen, FinishNoted
<1>7. FirstContinues'
    BY <1>0, <1>1, <1>2 DEF BlockInv, CallOpen, FirstContinues,
       InCall
<1>8. NextContinues'
    BY <1>0, <1>1, <1>2 DEF BlockInv, CallOpen, NextContinues, InCall,
       HasContent
<1>9. CallHeld'
    BY <1>0, <1>1, <1>2 DEF BlockInv, CallOpen, CallHeld, InCall
<1> QED
    BY <1>3, <1>4, <1>5, <1>6, <1>7, <1>8, <1>9 DEF BlockInv, CallOpen

\* WriteError preserves the invariant.
LEMMA WriteErrorInv ==
    ASSUME Types, BlockInv, WriteError
    PROVE  BlockInv'
<1>0. /\ k \in Nat /\ 1 <= k /\ Len(chunk.tools) \in Nat
      /\ chunk.choices \in BOOLEAN
    BY ChunkFields DEF Types, Response
<1>1. pc = "error" /\ pc' = "each" /\ UNCHANGED <<chunk, k, w, last>>
    BY DEF WriteError, sent
<1>2. /\ client'.ok <=> client.ok /\ ~client.stopped
      /\ client'.stopped = client.stopped /\ client'.started = client.started
      /\ client'.open = client.open /\ client'.next = client.next
      /\ client'.type = client.type
    <2>1. ASSUME NEW i, NEW b, NEW d
          PROVE  InOrder(Event("error", i, b, d))
        BY EventFields DEF InOrder
    <2> QED
        BY <2>1, SeesOther DEF WriteError, Types
<1>3. BlockDiscipline'
    BY <1>1, <1>2 DEF BlockInv, BlockDiscipline, Mirror
<1>4. Mirror'
    BY <1>0, <1>1, <1>2 DEF BlockInv, Mirror, Pending, HasContent,
       Content
<1>5. Position'
    BY <1>0, <1>1, <1>2 DEF BlockInv, Position, Sections, InCall
<1>6. FinishNoted'
    BY <1>1 DEF BlockInv, CallOpen, FinishNoted
<1>7. FirstContinues'
    BY <1>0, <1>1, <1>2 DEF BlockInv, CallOpen, FirstContinues,
       InCall
<1>8. NextContinues'
    BY <1>0, <1>1, <1>2 DEF BlockInv, CallOpen, NextContinues, InCall,
       HasContent
<1>9. CallHeld'
    <2>1. InCall' = InCall /\ chunk' = chunk /\ last' = last
        BY <1>1 DEF InCall
    <2>2. ~Content(chunk)
        BY <1>1 DEF BlockInv, Position, Content
    <2> QED
        BY <1>1, <2>1, <2>2 DEF BlockInv, CallOpen, CallHeld
<1> QED
    BY <1>3, <1>4, <1>5, <1>6, <1>7, <1>8, <1>9 DEF BlockInv, CallOpen

\* WriteMessageStart preserves the invariant.
LEMMA WriteMessageStartInv ==
    ASSUME Types, BlockInv, WriteMessageStart
    PROVE  BlockInv'
<1>0. /\ k \in Nat /\ 1 <= k /\ Len(chunk.tools) \in Nat
      /\ chunk.choices \in BOOLEAN
    BY ChunkFields DEF Types, Response
<1>1. /\ pc = "start" /\ ~w.started /\ UNCHANGED <<chunk, k, last>>
      /\ w'.started /\ w'.open = w.open /\ w'.index = w.index
      /\ w'.type = w.type
    BY DEF WriteMessageStart, sent, Types, Writer
<1>2. /\ client'.ok <=> client.ok /\ ~client.stopped
      /\ client'.stopped = client.stopped /\ client'.started
      /\ client'.open = client.open /\ client'.next = client.next
      /\ client'.type = client.type
      /\ \/ pc' = "thinking" /\ chunk.choices
         \/ pc' = "each" /\ ~chunk.choices
    <2>1. ~client.started
        BY <1>1 DEF BlockInv, Mirror
    <2>2. \/ pc' = "thinking" /\ chunk.choices
          \/ pc' = "each" /\ ~chunk.choices
        BY <1>0 DEF WriteMessageStart, AfterStart
    <2> QED
        BY <2>1, <2>2, SeesMessageStart DEF WriteMessageStart, Types
<1>3. BlockDiscipline'
    BY <1>1, <1>2 DEF BlockInv, BlockDiscipline, Mirror
<1>4. Mirror'
    <2>1. Pending' => Pending
        <3>1. ~chunk.err
            BY <1>1 DEF BlockInv, Position
        <3> QED
            BY <1>1, <1>2, <3>1 DEF Pending, HasContent, Content
    <2> QED
        BY <1>1, <1>2, <2>1 DEF BlockInv, Mirror
<1>5. Position'
    BY <1>0, <1>1, <1>2 DEF BlockInv, Position, Sections, InCall
<1>6. FinishNoted'
    BY <1>1 DEF BlockInv, CallOpen, FinishNoted
<1>7. FirstContinues'
    BY <1>0, <1>1, <1>2 DEF BlockInv, CallOpen, FirstContinues,
       InCall
<1>8. NextContinues'
    BY <1>0, <1>1, <1>2 DEF BlockInv, CallOpen, NextContinues, InCall,
       HasContent
<1>9. CallHeld'
    <2>1. InCall' = InCall /\ chunk' = chunk /\ last' = last
        BY <1>1 DEF InCall
    <2>2. pc' = "each" => ~Content(chunk)
        BY <1>2 DEF Content
    <2> QED
        BY <1>1, <1>2, <2>1, <2>2 DEF BlockInv, CallOpen, CallHeld
<1> QED
    BY <1>3, <1>4, <1>5, <1>6, <1>7, <1>8, <1>9 DEF BlockInv, CallOpen

\* CloseBlock preserves the invariant.
LEMMA CloseBlockInv ==
    ASSUME Types, BlockInv, CloseBlock
    PROVE  BlockInv'
<1>0. /\ k \in Nat /\ 1 <= k /\ Len(chunk.tools) \in Nat
      /\ chunk.choices \in BOOLEAN
    BY ChunkFields DEF Types, Response
<1>1. /\ HasContent /\ w.open /\ (pc = "tool_use" \/ w.type # pc)
      /\ UNCHANGED <<pc, chunk, k, last>>
      /\ w' = [w EXCEPT !.open = FALSE, !.index = @ + 1]
    BY DEF CloseBlock, sent
<1>10. /\ w'.started = w.started /\ ~w'.open /\ w'.index = w.index + 1
       /\ w'.type = w.type
    BY <1>1 DEF Types, Writer
<1>2. /\ client'.ok <=> client.ok /\ ~client.stopped /\ client.open = w.index
      /\ client'.stopped = client.stopped /\ client'.started = client.started
      /\ client'.open = -1 /\ client'.next = client.next
      /\ client'.type = client.type
    <2>1. w.index \in Int
        BY WriterUpdates DEF Types
    <2> QED
        BY <2>1, SeesBlockStop DEF CloseBlock, Types
<1>11. pc \in Sections /\ pc # "done" /\ pc # "args" /\ HasContent'
    BY <1>1 DEF HasContent, Sections
<1>3. BlockDiscipline'
    BY <1>1, <1>2, <1>11 DEF BlockInv, BlockDiscipline, Mirror
<1>4. Mirror'
    BY <1>1, <1>2, <1>10, <1>11 DEF BlockInv, Mirror
<1>5. Position'
    BY <1>1, <1>10, <1>11 DEF BlockInv, Position
<1>6. FinishNoted'
    BY <1>1 DEF BlockInv, CallOpen, FinishNoted
<1>7. FirstContinues'
    <2>1. ~(Content(chunk) /\ Calls(chunk) /\ chunk.tools[1].id = NoID)
          \/ ~(pc \in {"start", "thinking", "text"}
               \/ (pc = "tool_use" /\ k = 1))
        BY <1>1 DEF BlockInv, CallOpen, FirstContinues, HasContent
    <2> QED
        BY <1>1, <2>1 DEF FirstContinues
<1>8. NextContinues'
    BY <1>11 DEF NextContinues
<1>9. CallHeld'
    <2>1. last = "call" => Content(chunk) /\ Calls(chunk)
        BY <1>1, <1>11, SectionContent DEF BlockInv, CallOpen, CallHeld,
                                           Sections, HasContent
    <2> QED
        BY <1>1, <1>11, <2>1 DEF CallHeld, Sections
<1> QED
    BY <1>3, <1>4, <1>5, <1>6, <1>7, <1>8, <1>9 DEF BlockInv, CallOpen

\* StartBlock preserves the invariant.
LEMMA StartBlockInv ==
    ASSUME Types, BlockInv, StartBlock
    PROVE  BlockInv'
<1>0. /\ k \in Nat /\ 1 <= k /\ Len(chunk.tools) \in Nat
      /\ chunk.choices \in BOOLEAN
    BY ChunkFields DEF Types, Response
<1>1. /\ HasContent /\ ~w.open /\ UNCHANGED <<chunk, k, last>>
      /\ pc' = IF pc = "tool_use" THEN "args" ELSE pc
      /\ w' = [w EXCEPT !.open = TRUE, !.type = pc]
    BY DEF StartBlock, sent
<1>10. w'.started = w.started /\ w'.open /\ w'.index = w.index /\ w'.type = pc
    BY <1>1 DEF Types, Writer
<1>11. pc \in Blocks /\ pc \in Sections /\ pc # "done" /\ pc' # "done"
       /\ pc' \in Sections
    BY <1>1 DEF HasContent, Sections, Blocks
<1>2. /\ client'.ok <=> /\ client.ok /\ ~client.stopped /\ client.started
                        /\ client.open = -1 /\ w.index = client.next
      /\ client'.stopped = client.stopped /\ client'.started = client.started
      /\ client'.open = w.index /\ client'.next = client.next + 1
      /\ client'.type = pc
    <2>1. w.index \in Int
        BY WriterUpdates DEF Types
    <2> QED
        BY <1>11, <2>1, SeesBlockStart DEF StartBlock, Types
<1>12. client.next = w.index
    BY <1>1 DEF BlockInv, Mirror, Pending
<1>3. BlockDiscipline'
    <2>1. client.started /\ ~client.stopped /\ client.open = -1
        BY <1>1, <1>11 DEF BlockInv, Mirror, Position
    <2> QED
        BY <1>2, <1>12, <2>1 DEF BlockInv, BlockDiscipline
<1>4. Mirror'
    BY <1>1, <1>2, <1>10, <1>11, <1>12 DEF BlockInv, Mirror
<1>5. Position'
    BY <1>0, <1>1, <1>10, <1>11 DEF BlockInv, Position, InCall, HasContent,
       Sections
<1>6. FinishNoted'
    BY <1>1 DEF BlockInv, CallOpen, FinishNoted
<1>7. FirstContinues'
    <2>1. \/ pc' = "args"
          \/ pc' = pc /\ (chunk.think \/ chunk.text)
        BY <1>1 DEF HasContent
    <2> QED
        BY <1>1, <1>11, <2>1, SectionContent
           DEF BlockInv, CallOpen, FirstContinues, HasContent
<1>8. NextContinues'
    <2>1. pc' # "tool_use"
        BY <1>1
    <2> QED
        BY <2>1 DEF NextContinues
<1>9. CallHeld'
    <2>1. last = "call" => Calls(chunk)
        BY <1>1, <1>11, SectionContent DEF BlockInv, CallOpen, CallHeld,
                                           HasContent
    <2>2. pc' # "each"
        BY <1>1 DEF HasContent
    <2> QED
        BY <1>1, <2>1, <2>2, SectionContent DEF CallHeld
<1> QED
    BY <1>3, <1>4, <1>5, <1>6, <1>7, <1>8, <1>9 DEF BlockInv, CallOpen

\* WriteDelta preserves the invariant.
LEMMA WriteDeltaInv ==
    ASSUME Types, BlockInv, WriteDelta
    PROVE  BlockInv'
<1>0. /\ k \in Nat /\ 1 <= k /\ Len(chunk.tools) \in Nat
      /\ chunk.choices \in BOOLEAN
    BY ChunkFields DEF Types, Response
<1>1. /\ pc \in {"thinking", "text"} /\ HasContent /\ w.open /\ w.type = pc
      /\ UNCHANGED <<chunk, k, w, last>>
    BY DEF WriteDelta, sent
<1>10. \/ pc = "thinking" /\ pc' = "text"
       \/ pc = "text" /\ pc' = "tool_use"
    BY <1>1 DEF WriteDelta, NextSection
<1>2. /\ client'.ok <=> /\ client.ok /\ ~client.stopped
                        /\ client.open = w.index
                        /\ DeltaOf(pc) = DeltaOf(client.type)
      /\ client'.stopped = client.stopped /\ client'.started = client.started
      /\ client'.open = client.open /\ client'.next = client.next
      /\ client'.type = client.type
    <2>1. ASSUME NEW i, NEW b, NEW d
          PROVE  InOrder(Event("content_block_delta", i, b, d)) <=>
                    client.open = i /\ b = DeltaOf(client.type)
        BY EventFields DEF InOrder
    <2> DEFINE e == Event("content_block_delta", w.index, DeltaOf(pc), "")
    <2>2. Emit(e)
        BY <1>1 DEF WriteDelta
    <2>3. InOrder(e) <=>
             client.open = w.index /\ DeltaOf(pc) = DeltaOf(client.type)
        BY <2>1
    <2>4. /\ client'.ok <=> client.ok /\ ~client.stopped /\ InOrder(e)
          /\ client'.stopped = client.stopped
          /\ client'.started = client.started
          /\ client'.open = client.open /\ client'.next = client.next
          /\ client'.type = client.type
        BY <2>2, SeesOther DEF Types
    <2> HIDE DEF e
    <2> QED
        BY <2>3, <2>4
<1>3. BlockDiscipline'
    BY <1>1, <1>2 DEF BlockInv, BlockDiscipline, Mirror
<1>4. Mirror'
    BY <1>1, <1>2, <1>10 DEF BlockInv, Mirror
<1>5. Position'
    BY <1>0, <1>1, <1>10 DEF BlockInv, Position, Sections
<1>6. FinishNoted'
    BY <1>1 DEF BlockInv, CallOpen, FinishNoted
<1>7. FirstContinues'
    <2>1. k = 1 /\ k' = 1 /\ chunk' = chunk
        BY <1>1 DEF BlockInv, Position
    <2>2. ~(Content(chunk) /\ Calls(chunk) /\ chunk.tools[1].id = NoID)
        BY <1>1 DEF BlockInv, CallOpen, FirstContinues, HasContent
    <2> QED
        BY <2>1, <2>2 DEF FirstContinues
<1>8. NextContinues'
    <2>1. k' = 1
        BY <1>1 DEF BlockInv, Position
    <2> QED
        BY <2>1 DEF NextContinues
<1>9. CallHeld'
    <2>1. last = "call" => Calls(chunk)
        BY <1>1, SectionContent DEF BlockInv, CallOpen, CallHeld
    <2> QED
        BY <1>1, <1>10, <2>1, SectionContent DEF CallHeld
<1> QED
    BY <1>3, <1>4, <1>5, <1>6, <1>7, <1>8, <1>9 DEF BlockInv, CallOpen

\* WriteArguments preserves the invariant.
LEMMA WriteArgumentsInv ==
    ASSUME Types, BlockInv, WriteArguments
    PROVE  BlockInv'
<1>0. /\ k \in Nat /\ 1 <= k /\ Len(chunk.tools) \in Nat
      /\ chunk.choices \in BOOLEAN
    BY ChunkFields DEF Types, Response
<1>1. /\ pc = "args" /\ pc' = "tool_use" /\ k' = k + 1
      /\ UNCHANGED <<chunk, w, last>>
    BY DEF WriteArguments, sent
<1>10. k <= Len(chunk.tools) /\ InCall /\ InCall'
    BY <1>1 DEF BlockInv, Position, InCall
<1>2. /\ client.ok /\ ~client.stopped => client'.ok
      /\ client'.stopped = client.stopped /\ client'.started = client.started
      /\ client'.open = client.open /\ client'.next = client.next
      /\ client'.type = client.type
    <2>1. CASE UNCHANGED client
        BY <2>1
    <2>2. CASE Emit(Event("content_block_delta", w.index,
                          "input_json_delta", ""))
        <3> DEFINE e == Event("content_block_delta", w.index,
                              "input_json_delta", "")
        <3>1. ASSUME NEW i, NEW b, NEW d
              PROVE  InOrder(Event("content_block_delta", i, b, d)) <=>
                        client.open = i /\ b = DeltaOf(client.type)
            BY EventFields DEF InOrder
        <3>2. client.open = w.index /\ client.type = "tool_use"
            BY <1>10 DEF BlockInv, Mirror, InCall
        <3>3. InOrder(e)
            BY <3>1, <3>2 DEF DeltaOf
        <3>4. /\ client'.ok <=> client.ok /\ ~client.stopped /\ InOrder(e)
              /\ client'.stopped = client.stopped
              /\ client'.started = client.started
              /\ client'.open = client.open /\ client'.next = client.next
              /\ client'.type = client.type
            BY <2>2, SeesOther DEF Types
        <3> HIDE DEF e
        <3> QED
            BY <3>3, <3>4
    <2> QED
        BY <2>1, <2>2 DEF WriteArguments, Quiet
<1>3. BlockDiscipline'
    BY <1>1, <1>2 DEF BlockInv, BlockDiscipline, Mirror
<1>4. Mirror'
    BY <1>1, <1>2, <1>10 DEF BlockInv, Mirror, InCall
<1>5. Position'
    BY <1>0, <1>1 DEF BlockInv, Position, Sections
<1>6. FinishNoted'
    BY <1>1 DEF BlockInv, CallOpen, FinishNoted
<1>7. FirstContinues'
    <2>1. k' # 1
        BY <1>0, <1>1
    <2> QED
        BY <1>1, <2>1 DEF FirstContinues
<1>8. NextContinues'
    BY <1>10 DEF NextContinues
<1>9. CallHeld'
    <2>1. Content(chunk)' = Content(chunk) /\ Calls(chunk)' = Calls(chunk)
        BY <1>1 DEF Content, Calls
    <2> QED
        BY <1>1, <1>10, <2>1 DEF BlockInv, CallOpen, CallHeld
<1> QED
    BY <1>3, <1>4, <1>5, <1>6, <1>7, <1>8, <1>9 DEF BlockInv, CallOpen

\* CloseLastBlock preserves the invariant.
LEMMA CloseLastBlockInv ==
    ASSUME Types, BlockInv, CloseLastBlock
    PROVE  BlockInv'
<1>0. /\ k \in Nat /\ 1 <= k /\ Len(chunk.tools) \in Nat
      /\ chunk.choices \in BOOLEAN
    BY ChunkFields DEF Types, Response
<1>1. /\ pc = "finish" /\ w.open /\ UNCHANGED <<pc, chunk, k, last>>
      /\ w' = [w EXCEPT !.open = FALSE]
    BY DEF CloseLastBlock, sent
<1>10. w'.started = w.started /\ ~w'.open /\ w'.index = w.index
       /\ w'.type = w.type
    BY <1>1 DEF Types, Writer
<1>2. /\ client'.ok <=> client.ok /\ ~client.stopped /\ client.open = w.index
      /\ client'.stopped = client.stopped /\ client'.started = client.started
      /\ client'.open = -1 /\ client'.next = client.next
      /\ client'.type = client.type
    <2>1. w.index \in Int
        BY WriterUpdates DEF Types
    <2> QED
        BY <2>1, SeesBlockStop DEF CloseLastBlock, Types
<1>11. last = "finish"
    <2>1. Content(chunk) /\ chunk.finish # ""
        BY <1>1 DEF BlockInv, Position, Sections, Content
    <2> QED
        BY <2>1 DEF BlockInv, CallOpen, FinishNoted
<1>3. BlockDiscipline'
    BY <1>1, <1>2 DEF BlockInv, BlockDiscipline, Mirror
<1>4. Mirror'
    <2>1. ~Pending'
        BY <1>1 DEF Pending, HasContent
    <2> QED
        BY <1>1, <1>2, <1>10, <1>11, <2>1 DEF BlockInv, Mirror
<1>5. Position'
    BY <1>1, <1>10 DEF BlockInv, Position, Sections
<1>6. FinishNoted'
    BY <1>1 DEF BlockInv, CallOpen, FinishNoted
<1>7. FirstContinues'
    BY <1>1 DEF FirstContinues
<1>8. NextContinues'
    BY <1>1 DEF NextContinues
<1>9. CallHeld'
    BY <1>1, <1>11 DEF CallHeld
<1> QED
    BY <1>3, <1>4, <1>5, <1>6, <1>7, <1>8, <1>9 DEF BlockInv, CallOpen

\* WriteMessageDelta preserves the invariant.
LEMMA WriteMessageDeltaInv ==
    ASSUME Types, BlockInv, WriteMessageDelta
    PROVE  BlockInv'
<1>0. /\ k \in Nat /\ 1 <= k /\ Len(chunk.tools) \in Nat
      /\ chunk.choices \in BOOLEAN
    BY ChunkFields DEF Types, Response
<1>1. /\ pc = "finish" /\ pc' = "each" /\ ~w.open
      /\ UNCHANGED <<chunk, k, w, last>>
    BY DEF WriteMessageDelta, sent
<1>10. last = "finish"
    <2>1. Content(chunk) /\ chunk.finish # ""
        BY <1>1 DEF BlockInv, Position, Sections, Content
    <2> QED
        BY <2>1 DEF BlockInv, CallOpen, FinishNoted
<1>2. /\ client'.ok <=> /\ client.ok /\ ~client.stopped
                        /\ client.started /\ client.open = -1
      /\ client'.stopped = client.stopped /\ client'.started = client.started
      /\ client'.open = client.open /\ client'.next = client.next
      /\ client'.type = client.type
    <2>1. ASSUME NEW i, NEW b, NEW d
          PROVE  InOrder(Event("message_delta", i, b, d)) <=>
                    client.started /\ client.open = -1
        BY EventFields DEF InOrder
    <2> QED
        BY <2>1, SeesOther DEF WriteMessageDelta, Types
<1>3. BlockDiscipline'
    <2>1. client.started /\ client.open = -1 /\ ~client.stopped
        BY <1>1 DEF BlockInv, Mirror, Position, Sections
    <2> QED
        BY <1>2, <2>1 DEF BlockInv, BlockDiscipline
<1>4. Mirror'
    <2>1. ~Pending'
        BY <1>1 DEF Pending, HasContent
    <2> QED
        BY <1>1, <1>2, <1>10, <2>1 DEF BlockInv, Mirror
<1>5. Position'
    BY <1>0, <1>1, <1>2 DEF BlockInv, Position, Sections, InCall
<1>6. FinishNoted'
    BY <1>1 DEF BlockInv, CallOpen, FinishNoted
<1>7. FirstContinues'
    BY <1>0, <1>1, <1>2 DEF BlockInv, CallOpen, FirstContinues,
       InCall
<1>8. NextContinues'
    BY <1>0, <1>1, <1>2 DEF BlockInv, CallOpen, NextContinues, InCall,
       HasContent
<1>9. CallHeld'
    BY <1>1, <1>10 DEF CallHeld
<1> QED
    BY <1>3, <1>4, <1>5, <1>6, <1>7, <1>8, <1>9 DEF BlockInv, CallOpen

-----------------------------------------------------------------------------
(* The theorems.                                                           *)

\* Nothing changes, nothing breaks.
LEMMA BlockInvStutter ==
    ASSUME BlockInv, UNCHANGED vars
    PROVE  BlockInv'
<1>1. UNCHANGED <<pc, chunk, k, w, client, last>>
    BY DEF vars, sent
<1>2. InCall' = InCall /\ HasContent' = HasContent /\ Pending' = Pending
    BY <1>1 DEF InCall, Pending, HasContent
<1>3. BlockDiscipline' /\ Mirror' /\ Position'
    BY <1>1, <1>2 DEF BlockInv, BlockDiscipline, Mirror, Position
<1>4. CallOpen'
    BY <1>1, <1>2 DEF BlockInv, CallOpen, FinishNoted, FirstContinues,
                      NextContinues, CallHeld
<1> QED
    BY <1>3, <1>4 DEF BlockInv

\* The invariant of one stream: the client's view is the writer's state, and
\* what arrives next finds the block it needs (writeStreamChunks).
THEOREM StreamInvariant == Spec => [](Types /\ BlockInv)
<1>1. Init => Types /\ BlockInv
    BY BlockInit
<1>2. Types /\ BlockInv /\ [Next]_vars => (Types /\ BlockInv)'
    <2> SUFFICES ASSUME Types, BlockInv, [Next]_vars
                 PROVE  Types' /\ BlockInv'
        OBVIOUS
    <2>1. Types'
        BY TypesStep
    <2>2. BlockInv'
        BY EachInv, EachReturnsInv, WriteErrorInv, WriteMessageStartInv,
           MessageStartedInv, CloseBlockInv, StartBlockInv,
           WriteDeltaInv, NoDeltaInv, ContinueToolInv,
           WriteArgumentsInv, ToolsWrittenInv, CloseLastBlockInv,
           WriteMessageDeltaInv,
           BlockInvStutter DEF Next, Returned
    <2> QED
        BY <2>1, <2>2
<1> QED
    BY <1>1, <1>2, PTL DEF Spec

\* The events of a stream nest whatever the provider sends, in any number of
\* chunks (writeStreamChunks).
THEOREM BlocksNest == Spec => []BlockDiscipline
<1>1. Types /\ BlockInv => BlockDiscipline
    BY DEF BlockInv
<1> QED
    BY <1>1, StreamInvariant, PTL


-----------------------------------------------------------------------------
(* The body.                                                               *)

\* The fields of an event.
IsEvent(e) == e = Event(e.type, e.index, e.kind, e.data)

Body ==
    /\ sse \in Seq(Elements(sse))
    /\ \A i \in DOMAIN sse : IsEvent(sse[i])

\* The writer only adds events.
Extended ==
    \/ sse' = sse
    \/ \E e : IsEvent(e) /\ sse' = Append(sse, e)

LEMMA EmitExtends ==
    ASSUME NEW type, NEW index, NEW kind, NEW data, Emit(Event(type, index, kind, data))
    PROVE  Extended
<1>1. IsEvent(Event(type, index, kind, data))
  BY DEF IsEvent, Event
<1> QED
  BY <1>1 DEF Emit, Extended

LEMMA NextExtends == ASSUME [Next]_vars PROVE Extended
<1>1. CASE sse' = sse
  BY <1>1 DEF Extended
<1>2. CASE EachReturns \/ WriteError \/ WriteMessageStart \/ CloseBlock \/ CloseLastBlock
  BY <1>2, EmitExtends DEF EachReturns, WriteError, WriteMessageStart, CloseBlock,
                           CloseLastBlock
<1>3. CASE StartBlock
  BY <1>3, EmitExtends DEF StartBlock
<1>4. CASE WriteDelta
  BY <1>4, EmitExtends DEF WriteDelta
<1>5. CASE WriteArguments
  BY <1>1, <1>5, EmitExtends DEF WriteArguments, Quiet
<1>6. CASE WriteMessageDelta
  BY <1>6, EmitExtends DEF WriteMessageDelta
<1>7. CASE \/ \E c \in Chunks : Each(c)
           \/ MessageStarted \/ NoDelta \/ ContinueTool \/ ToolsWritten
           \/ Returned \/ UNCHANGED vars
  <2>1. sse' = sse
    BY <1>7 DEF Each, MessageStarted, NoDelta, ContinueTool, ToolsWritten, Quiet,
                Returned, vars
  <2> QED
    BY <1>1, <2>1
<1> QED
  BY <1>2, <1>3, <1>4, <1>5, <1>6, <1>7 DEF Next

\* A line that was written stays what it is.
LEMMA BodyGrows ==
    ASSUME Body, Extended
    PROVE  /\ Body' /\ Len(sse) \in Nat /\ Len(sse') \in Nat
           /\ Len(sse) <= Len(sse')
           /\ \A i \in 1 .. Len(sse) : sse'[i] = sse[i]
<1>0. sse \in Seq(Elements(sse)) /\ Len(sse) \in Nat
  BY DEF Body
<1>1. CASE sse' = sse
  BY <1>0, <1>1 DEF Body, Elements
<1>2. CASE \E e : IsEvent(e) /\ sse' = Append(sse, e)
  <2>1. PICK e : IsEvent(e) /\ sse' = Append(sse, e)
    BY <1>2
  <2>2. sse' \in Seq(Elements(sse) \cup {e}) /\ sse \in Seq(Elements(sse) \cup {e})
    BY <1>0, <2>1
  <2>3. /\ Len(sse') = Len(sse) + 1 /\ sse'[Len(sse) + 1] = e
        /\ \A i \in 1 .. Len(sse) : sse'[i] = sse[i]
        /\ DOMAIN sse' = 1 .. Len(sse) + 1 /\ DOMAIN sse = 1 .. Len(sse)
    BY <2>1, <2>2
  <2>4. sse' \in Seq(Elements(sse'))
    BY <2>2, SequenceOfItsElements
  <2>5. \A i \in DOMAIN sse' : IsEvent(sse'[i])
    BY <1>0, <2>1, <2>3 DEF Body
  <2>6. (\A i \in DOMAIN sse : IsEvent(sse[i]))'
    BY <2>5 DEF IsEvent
  <2> QED
    BY <1>0, <2>3, <2>4, <2>6 DEF Body, Elements
<1> QED
  BY <1>1, <1>2 DEF Extended

-----------------------------------------------------------------------------
(* What the events yield.                                                  *)

\* An event yields one response or none.
LEMMA AtMostOne ==
    ASSUME NEW e
    PROVE  LET found == parseSSEEventToResponse(e)
           IN  found = <<>> \/ \E x : found = <<x>>
<1> DEFINE found == parseSSEEventToResponse(e)
<1>1. CASE e.type = "content_block_delta"
  BY <1>1 DEF parseSSEEventToResponse
<1>2. CASE e.type = "content_block_start" /\ e.kind = "tool_use"
  BY <1>2 DEF parseSSEEventToResponse
<1>3. CASE e.type = "message_delta"
  BY <1>3 DEF parseSSEEventToResponse
<1>4. CASE e.type \in {"message_start", "message_stop"}
  BY <1>4 DEF parseSSEEventToResponse
<1>5. CASE /\ e.type \notin {"content_block_delta", "message_delta",
                             "message_start", "message_stop"}
           /\ ~(e.type = "content_block_start" /\ e.kind = "tool_use")
  BY <1>5 DEF parseSSEEventToResponse
<1> QED
  BY <1>1, <1>2, <1>3, <1>4, <1>5

\* What the first n events of a body yield.
Yield(body, n) ==
    FlattenSeq([i \in 1 .. n |-> parseSSEEventToResponse(body[i])])

YieldsOf(body, n) == {parseSSEEventToResponse(body[i])[1] : i \in 1 .. n}

LEMMA PartsType ==
    ASSUME NEW body, NEW n \in Nat
    PROVE  [i \in 1 .. n |-> parseSSEEventToResponse(body[i])]
               \in Seq(Seq(YieldsOf(body, n)))
<1> DEFINE S == YieldsOf(body, n)
           parts == [i \in 1 .. n |-> parseSSEEventToResponse(body[i])]
<1>1. ASSUME NEW i \in 1 .. n PROVE parseSSEEventToResponse(body[i]) \in Seq(S)
  <2> DEFINE found == parseSSEEventToResponse(body[i])
  <2>1. found = <<>> \/ \E x : found = <<x>>
    BY AtMostOne
  <2>2. found[1] \in S
    BY DEF YieldsOf
  <2> HIDE DEF found, S
  <2>3. ASSUME NEW x, found = <<x>> PROVE found \in Seq(S)
    <3>1. found[1] = x
      BY <2>3
    <3> QED
      BY <2>2, <2>3, <3>1, ShortSequences
  <2>4. found = <<>> => found \in Seq(S)
    BY ShortSequences
  <2> QED
    BY <2>1, <2>3, <2>4 DEF found
<1> HIDE DEF S
<1>2. parts \in [1 .. n -> Seq(S)]
  BY <1>1
<1>3. parts \in Seq(Seq(S))
  BY <1>2
<1> QED
  BY <1>3 DEF S

LEMMA YieldType ==
    ASSUME NEW body, NEW n \in Nat
    PROVE  Yield(body, n) \in Seq(YieldsOf(body, n))
BY PartsType, FlattenType DEF Yield

LEMMA YieldNone == ASSUME NEW body PROVE Yield(body, 0) = <<>>
<1>1. [i \in 1 .. 0 |-> parseSSEEventToResponse(body[i])] = <<>>
  OBVIOUS
<1> QED
  BY <1>1, FlattenEmpty DEF Yield

\* One event more.
LEMMA YieldNext ==
    ASSUME NEW body, NEW n \in Nat
    PROVE  Yield(body, n + 1) = Yield(body, n) \o parseSSEEventToResponse(body[n + 1])
<1> DEFINE S == YieldsOf(body, n + 1)
           all == [i \in 1 .. n + 1 |-> parseSSEEventToResponse(body[i])]
           front == [i \in 1 .. n |-> parseSSEEventToResponse(body[i])]
<1>1. all \in Seq(Seq(S)) /\ Len(all) = n + 1
  <2>1. n + 1 \in Nat
    OBVIOUS
  <2>2. all \in Seq(Seq(S))
    BY <2>1, PartsType, Zenon
  <2>3. Len(all) = n + 1
    BY <2>1
  <2> QED
    BY <2>2, <2>3
<1>2. all[n + 1] = parseSSEEventToResponse(body[n + 1]) /\ all[n + 1] \in Seq(S)
  <2>1. n + 1 \in 1 .. n + 1
    OBVIOUS
  <2> HIDE DEF S
  <2> QED
    BY <1>1, <2>1
<1>3. front \in Seq(Seq(S)) /\ Len(front) = n
  <2> HIDE DEF S
  <2>1. \A i \in 1 .. n : i \in 1 .. n + 1 /\ front[i] = all[i] /\ all[i] \in Seq(S)
    BY <1>1
  <2>2. front \in [1 .. n -> Seq(S)]
    BY <2>1
  <2> QED
    BY <2>2
<1>4. all = Append(front, all[n + 1])
  <2> HIDE DEF S
  <2>1. \A i \in 1 .. n : front[i] = all[i]
    OBVIOUS
  <2> HIDE DEF front, all
  <2> QED
    BY <1>1, <1>2, <1>3, <2>1
<1> HIDE DEF S, all, front
<1>5. FlattenSeq(all) = FlattenSeq(front) \o all[n + 1]
  BY <1>2, <1>3, <1>4, FlattenAppend
<1> QED
  BY <1>2, <1>5 DEF Yield, all, front

\* What has been written yields the same whatever follows it.
LEMMA YieldSame ==
    ASSUME NEW body, NEW other, NEW n \in Nat, \A i \in 1 .. n : body[i] = other[i]
    PROVE  Yield(body, n) = Yield(other, n)
<1>1. [i \in 1 .. n |-> parseSSEEventToResponse(body[i])] =
          [i \in 1 .. n |-> parseSSEEventToResponse(other[i])]
  OBVIOUS
<1> QED
  BY <1>1 DEF Yield

-----------------------------------------------------------------------------
(* The end of the body.                                                    *)

DeltaKinds == {"thinking_delta", "text_delta", "input_json_delta"}

\* message_stop is written last, and everything else before WriteStreamResponse
\* returns.
Writes(e) ==
    /\ sse' = Append(sse, e) /\ pc # "done"
    /\ e.type = "message_stop" <=> pc' = "done"
    /\ e.type = "content_block_delta" => e.kind \in DeltaKinds

LEMMA EmitWrites ==
    ASSUME NEW type, NEW index, NEW kind, NEW data,
           Emit(Event(type, index, kind, data)), pc # "done",
           type = "message_stop" <=> pc' = "done",
           type = "content_block_delta" => kind \in DeltaKinds
    PROVE  \E e : Writes(e)
<1>1. Writes(Event(type, index, kind, data))
  BY EventFields DEF Writes, Emit
<1> QED
  BY <1>1

LEMMA NextWrites ==
    ASSUME [Next]_vars
    PROVE  \/ sse' = sse /\ (pc' = "done" <=> pc = "done")
           \/ \E e : Writes(e)
<1>1. CASE EachReturns
  BY <1>1, EmitWrites DEF EachReturns
<1>2. CASE WriteError
  BY <1>2, EmitWrites DEF WriteError
<1>3. CASE WriteMessageStart
  BY <1>3, EmitWrites DEF WriteMessageStart, AfterStart
<1>4. CASE CloseBlock
  BY <1>4, EmitWrites DEF CloseBlock, HasContent
<1>5. CASE CloseLastBlock
  BY <1>5, EmitWrites DEF CloseLastBlock
<1>6. CASE WriteMessageDelta
  <2>1. pc = "finish" /\ pc' = "each"
    BY <1>6 DEF WriteMessageDelta
  <2>2. \E data : Emit(Event("message_delta", -1, "", data))
    BY <1>6 DEF WriteMessageDelta
  <2> QED
    BY <2>1, <2>2, EmitWrites
<1>7. CASE StartBlock
  <2>1. pc # "done" /\ pc' # "done"
    BY <1>7 DEF StartBlock, HasContent
  <2>2. \E data : Emit(Event("content_block_start", w.index, pc, data))
    BY <1>7 DEF StartBlock
  <2> QED
    BY <2>1, <2>2, EmitWrites
<1>8. CASE WriteDelta
  <2>1. /\ pc # "done" /\ pc' # "done"
        /\ Emit(Event("content_block_delta", w.index, DeltaOf(pc), ""))
    BY <1>8 DEF WriteDelta, NextSection
  <2>2. DeltaOf(pc) \in DeltaKinds
    BY DEF DeltaOf, DeltaKinds
  <2> QED
    BY <2>1, <2>2, EmitWrites
<1>9. CASE WriteArguments
  <2>1. pc = "args" /\ pc' = "tool_use"
    BY <1>9 DEF WriteArguments
  <2>2. CASE Quiet
    BY <2>1, <2>2 DEF Quiet
  <2>3. CASE Emit(Event("content_block_delta", w.index, "input_json_delta", ""))
    <3>1. "input_json_delta" \in DeltaKinds
      BY DEF DeltaKinds
    <3> QED
      BY <2>1, <2>3, <3>1, EmitWrites
  <2> QED
    BY <1>9, <2>2, <2>3 DEF WriteArguments
<1>10. CASE \/ \E c \in Chunks : Each(c)
            \/ MessageStarted \/ NoDelta \/ ContinueTool \/ ToolsWritten
            \/ Returned \/ UNCHANGED vars
  BY <1>10 DEF Each, MessageStarted, AfterStart, NoDelta, NextSection, ContinueTool,
               ToolsWritten, Quiet, Returned, vars
<1> QED
  BY <1>1, <1>2, <1>3, <1>4, <1>5, <1>6, <1>7, <1>8, <1>9, <1>10 DEF Next

\* The body so far: message_stop is the last event, written when all is done.
Ending ==
    /\ Body
    /\ \A i \in 1 .. Len(sse) :
          /\ sse[i].type = "message_stop" => i = Len(sse) /\ pc = "done"
          /\ sse[i].type = "content_block_delta" => sse[i].kind \in DeltaKinds
    /\ pc = "done" => Len(sse) > 0 /\ sse[Len(sse)].type = "message_stop"

LEMMA EndingInit == Init => Ending
<1> SUFFICES ASSUME Init PROVE Ending
  OBVIOUS
<1>1. sse = <<>> /\ pc = "each"
  BY DEF Init
<1>2. Body /\ 1 .. Len(sse) = {}
  BY <1>1 DEF Body, Elements
<1> QED
  BY <1>1, <1>2 DEF Ending

LEMMA EndingStep == Ending /\ [Next]_vars => Ending'
<1> SUFFICES ASSUME Ending, [Next]_vars PROVE Ending'
  OBVIOUS
<1>1. Body' /\ Len(sse) \in Nat
  BY NextExtends, BodyGrows DEF Ending
<1>2. CASE sse' = sse /\ (pc' = "done" <=> pc = "done")
  BY <1>1, <1>2 DEF Ending
<1>3. CASE \E e : Writes(e)
  <2>1. PICK e : Writes(e)
    BY <1>3
  <2>2. /\ Len(sse') = Len(sse) + 1 /\ sse'[Len(sse) + 1] = e
        /\ \A i \in 1 .. Len(sse) : sse'[i] = sse[i]
    BY <1>1, <2>1 DEF Writes, Ending, Body
  <2>3. ASSUME NEW i \in 1 .. Len(sse')
        PROVE  /\ sse'[i].type = "message_stop" => i = Len(sse') /\ pc' = "done"
               /\ sse'[i].type = "content_block_delta" => sse'[i].kind \in DeltaKinds
    <3>1. CASE i = Len(sse) + 1
      BY <2>1, <2>2, <3>1 DEF Writes
    <3>2. CASE i # Len(sse) + 1
      <4>1. i \in 1 .. Len(sse)
        BY <1>1, <2>2, <3>2
      <4>2. sse'[i] = sse[i] /\ sse[i].type # "message_stop"
        BY <2>1, <2>2, <4>1 DEF Ending, Writes
      <4> QED
        BY <4>1, <4>2 DEF Ending
    <3> QED
      BY <3>1, <3>2
  <2>4. pc' = "done" => Len(sse') > 0 /\ sse'[Len(sse')].type = "message_stop"
    BY <1>1, <2>1, <2>2 DEF Writes
  <2> QED
    BY <1>1, <2>3, <2>4 DEF Ending
<1> QED
  BY <1>2, <1>3, NextWrites

\* A response is Done if its event is message_stop.
LEMMA OnlyStopIsDone ==
    ASSUME NEW e, e.type = "content_block_delta" => e.kind \in DeltaKinds
    PROVE  LET found == parseSSEEventToResponse(e)
           IN  /\ e.type # "message_stop" /\ found # <<>> => found[1].kind # "done"
               /\ e.type = "message_stop" =>
                     found = <<[kind |-> "done", data |-> "", index |-> -1]>>
<1> DEFINE found == parseSSEEventToResponse(e)
<1> USE DEF parseSSEEventToResponse
<1>1. CASE e.type = "content_block_delta"
  <2>1. found = <<[kind |-> e.kind, data |-> "", index |-> e.index]>>
    BY <1>1
  <2>2. found[1].kind = e.kind
    BY <2>1
  <2> QED
    BY <1>1, <2>2 DEF DeltaKinds
<1>2. CASE e.type = "content_block_start" /\ e.kind = "tool_use"
  <2>1. found = <<[kind |-> "tool_use", data |-> e.data, index |-> e.index]>>
    BY <1>2
  <2>2. found[1].kind = "tool_use"
    BY <2>1
  <2> QED
    BY <1>2, <2>2
<1>3. CASE e.type = "message_delta"
  <2>1. found = <<[kind |-> "finish", index |-> -1,
                   data |-> mapStopReasonToFinishReason(e.data)]>>
    BY <1>3
  <2>2. found[1].kind = "finish"
    BY <2>1
  <2> QED
    BY <1>3, <2>2
<1>4. CASE e.type = "message_start"
  <2>1. found = <<[kind |-> "start", data |-> "", index |-> -1]>>
    BY <1>4
  <2>2. found[1].kind = "start"
    BY <2>1
  <2> QED
    BY <1>4, <2>2
<1>5. CASE e.type = "message_stop"
  BY <1>5
<1>6. CASE /\ e.type \notin {"content_block_delta", "message_delta",
                             "message_start", "message_stop"}
           /\ ~(e.type = "content_block_start" /\ e.kind = "tool_use")
  BY <1>6
<1> QED
  BY <1>1, <1>2, <1>3, <1>4, <1>5, <1>6

\* Done is the last response of a whole body, and of nothing less.
LEMMA DoneIsLast ==
    ASSUME Ending, NEW n \in 0 .. Len(sse), NEW i \in 1 .. Len(Yield(sse, n)),
           Yield(sse, n)[i].kind = "done"
    PROVE  i = Len(Yield(sse, n)) /\ n = Len(sse) /\ pc = "done"
<1>0. Len(sse) \in Nat /\ n \in Nat
  BY DEF Ending, Body
<1>1. ASSUME NEW m \in 0 .. Len(sse), NEW j \in 1 .. Len(Yield(sse, m)),
             Yield(sse, m)[j].kind = "done"
      PROVE  m = Len(sse) /\ pc = "done"
  <2> DEFINE parts == [l \in 1 .. m |-> parseSSEEventToResponse(sse[l])]
             S == YieldsOf(sse, m)
             x == Yield(sse, m)[j]
  <2>1. m \in Nat
    BY <1>0
  <2>2. parts \in Seq(Seq(S))
    BY <2>1, PartsType
  <2>3. Len(parts) = m
    BY <2>1
  <2>4. Yield(sse, m) = FlattenSeq(parts)
    BY DEF Yield
  <2>5. x.kind = "done" /\ Holds(Yield(sse, m), x)
    BY <1>1 DEF Holds
  <2> HIDE DEF S, x
  <2>6. \E l \in 1 .. m : Holds(parts[l], x)
    <3> HIDE DEF parts
    <3>1. Holds(FlattenSeq(parts), x)
      BY <2>4, <2>5
    <3>2. \E l \in 1 .. Len(parts) : Holds(parts[l], x)
      BY <2>2, <3>1, FlattenHolds
    <3> QED
      BY <2>3, <3>2
  <2>7. PICK l \in 1 .. m : Holds(parts[l], x)
    BY <2>6
  <2>8. l \in 1 .. Len(sse) /\ parts[l] = parseSSEEventToResponse(sse[l])
    BY <1>0
  <2>9. parts[l] # <<>> /\ parts[l][1] = x
    <3> HIDE DEF parts
    <3>1. parts[l] = <<>> \/ \E y : parts[l] = <<y>>
      BY <2>8, AtMostOne
    <3> QED
      BY <2>7, <3>1 DEF Holds
  <2>10. sse[l].type = "message_stop"
    <3>1. sse[l].type = "content_block_delta" => sse[l].kind \in DeltaKinds
      BY <2>8 DEF Ending
    <3> QED
      BY <2>5, <2>8, <2>9, <3>1, OnlyStopIsDone
  <2> QED
    BY <1>0, <2>8, <2>10 DEF Ending
<1>2. n = Len(sse) /\ pc = "done"
  BY <1>1
<1>3. CASE n = 0
  <2>1. Len(Yield(sse, 0)) = 0
    BY YieldNone
  <2> QED
    BY <1>3, <2>1
<1>4. CASE n # 0
  <2> DEFINE m == n - 1  front == Yield(sse, m)
  <2>1. m \in Nat /\ m \in 0 .. Len(sse) /\ m # Len(sse) /\ m + 1 = n
    BY <1>0, <1>2, <1>4
  <2>2. ~\E j \in 1 .. Len(front) : front[j].kind = "done"
    BY <1>1, <2>1
  <2>3. Yield(sse, n) = front \o parseSSEEventToResponse(sse[n])
    BY <2>1, YieldNext
  <2>4. front \in Seq(YieldsOf(sse, m))
    BY <2>1, YieldType
  <2> HIDE DEF m
  <2> DEFINE found == parseSSEEventToResponse(sse[n])
  <2>5. found = <<>> \/ \E x : found = <<x>>
    BY AtMostOne
  <2> DEFINE S == YieldsOf(sse, m) \cup Elements(found)
  <2>6. front \in Seq(S) /\ found \in Seq(S) /\ Len(found) \in {0, 1}
    <3> HIDE DEF front
    <3>1. front \in Seq(S)
      BY <2>4
    <3> HIDE DEF found
    <3>2. found \in Seq(S) /\ Len(found) \in {0, 1}
      <4>1. CASE found = <<>>
        BY <4>1
      <4>2. CASE \E x : found = <<x>>
        BY <4>2 DEF Elements
      <4> QED
        BY <2>5, <4>1, <4>2
    <3> QED
      BY <3>1, <3>2
  <2> HIDE DEF found, front, S
  <2>7. /\ Len(front) \in Nat /\ Len(front \o found) = Len(front) + Len(found)
        /\ \A j \in 1 .. Len(front) : (front \o found)[j] = front[j]
    BY <2>6
  <2>8. i \notin 1 .. Len(front)
    BY <2>2, <2>3, <2>7 DEF found
  <2>9. i \in 1 .. Len(front) + Len(found)
    BY <2>3, <2>7 DEF found
  <2>10. i = Len(front) + Len(found)
    <3>1. i \in Int /\ 1 <= i /\ i <= Len(front) + Len(found) /\ ~(i <= Len(front))
      BY <2>6, <2>7, <2>8, <2>9
    <3>2. Len(front) \in Nat /\ Len(found) \in {0, 1}
      BY <2>6, <2>7
    <3> DEFINE a == Len(front)  b == Len(found)
    <3> HIDE DEF a, b
    <3>3. a \in Nat /\ b \in {0, 1} /\ i \in Int /\ i <= a + b /\ ~(i <= a)
      BY <3>1, <3>2 DEF a, b
    <3>4. i = a + b
      BY <3>3
    <3> QED
      BY <3>4 DEF a, b
  <2> QED
    BY <1>2, <2>3, <2>7, <2>10 DEF found
<1> QED
  BY <1>3, <1>4

-----------------------------------------------------------------------------
(* What each event adds to the content.                                    *)

\* The content among some responses.
Kept(all) ==
    FlattenSeq([i \in DOMAIN all |->
        IF all[i].kind \in {"start", "done"} THEN <<>> ELSE <<all[i]>>])

LEMMA KeptParts ==
    ASSUME NEW S, NEW all \in Seq(S)
    PROVE  [i \in DOMAIN all |->
               IF all[i].kind \in {"start", "done"} THEN <<>> ELSE <<all[i]>>]
                   \in Seq(Seq(S))
<1> DEFINE parts == [i \in DOMAIN all |->
               IF all[i].kind \in {"start", "done"} THEN <<>> ELSE <<all[i]>>]
<1>1. Len(all) \in Nat /\ DOMAIN all = 1 .. Len(all) /\ \A i \in DOMAIN all : all[i] \in S
  OBVIOUS
<1>2. \A i \in DOMAIN all : parts[i] \in Seq(S)
  BY <1>1, ShortSequences
<1>3. parts \in [1 .. Len(all) -> Seq(S)]
  BY <1>1, <1>2
<1> QED
  BY <1>1, <1>3

LEMMA KeptAppend ==
    ASSUME NEW S, NEW all \in Seq(S), NEW x \in S
    PROVE  /\ Kept(all) \in Seq(S)
           /\ Kept(Append(all, x)) =
                  Kept(all) \o (IF x.kind \in {"start", "done"} THEN <<>> ELSE <<x>>)
<1> DEFINE more == Append(all, x)
           parts == [i \in DOMAIN all |->
               IF all[i].kind \in {"start", "done"} THEN <<>> ELSE <<all[i]>>]
           part == IF x.kind \in {"start", "done"} THEN <<>> ELSE <<x>>
           moreParts == [i \in DOMAIN more |->
               IF more[i].kind \in {"start", "done"} THEN <<>> ELSE <<more[i]>>]
<1>1. parts \in Seq(Seq(S))
  BY KeptParts
<1>2. part \in Seq(S)
  BY ShortSequences
<1>3. /\ Len(all) \in Nat /\ DOMAIN all = 1 .. Len(all) /\ DOMAIN parts = DOMAIN all
      /\ DOMAIN more = 1 .. Len(all) + 1 /\ more[Len(all) + 1] = x
      /\ \A i \in 1 .. Len(all) : more[i] = all[i]
  OBVIOUS
<1>4. moreParts \in Seq(Seq(S)) /\ Append(parts, part) \in Seq(Seq(S))
  <2>1. more \in Seq(S)
    OBVIOUS
  <2>2. moreParts \in Seq(Seq(S))
    BY <2>1, KeptParts, Zenon
  <2> HIDE DEF parts, part, moreParts
  <2> QED
    BY <1>1, <1>2, <2>2
<1>5. \A i \in 1 .. Len(all) : moreParts[i] = parts[i]
  BY <1>3
<1>6. moreParts[Len(all) + 1] = part /\ DOMAIN moreParts = 1 .. Len(all) + 1
  BY <1>3
<1>7. DOMAIN parts = 1 .. Len(all)
  BY <1>3
<1> HIDE DEF parts, part, moreParts
<1>8. moreParts = Append(parts, part)
  <2>1. Len(parts) = Len(all) /\ parts \in Seq(Seq(S)) /\ part \in Seq(S)
    BY <1>1, <1>2, <1>3, <1>7
  <2>2. moreParts \in Seq(Seq(S)) /\ Len(moreParts) = Len(parts) + 1
    BY <1>3, <1>4, <1>6, <2>1
  <2>3. moreParts[Len(parts) + 1] = part
    BY <1>6, <2>1
  <2>4. \A i \in 1 .. Len(parts) : moreParts[i] = parts[i]
    BY <1>5, <2>1
  <2> QED
    BY <2>1, <2>2, <2>3, <2>4, AppendIs, Zenon
<1>9. FlattenSeq(moreParts) = FlattenSeq(parts) \o part
  BY <1>1, <1>2, <1>8, FlattenAppend
<1>10. FlattenSeq(parts) \in Seq(S)
  BY <1>1, FlattenType
<1> QED
  BY <1>9, <1>10 DEF Kept, moreParts, parts, part

LEMMA KeptEmpty == Kept(<<>>) = <<>>
<1>1. [i \in DOMAIN <<>> |->
         IF <<>>[i].kind \in {"start", "done"} THEN <<>> ELSE <<<<>>[i]>>] = <<>>
  OBVIOUS
<1> QED
  BY <1>1, FlattenEmpty DEF Kept

\* The content after one more event.
LEMMA GotGrows ==
    ASSUME Body, NEW e, sse' = Append(sse, e)
    PROVE  LET found == parseSSEEventToResponse(e)
           IN  /\ got \in Seq(Elements(got))
               /\ found = <<>> \/ found[1].kind \in {"start", "done"} => got' = got
               /\ found # <<>> /\ found[1].kind \notin {"start", "done"} =>
                      got' = Append(got, found[1])
<1> DEFINE n == Len(sse)  found == parseSSEEventToResponse(e)
           S == YieldsOf(sse, n) \cup {found[1]}
           all == Yield(sse, n)
<1>1. /\ n \in Nat /\ DOMAIN sse = 1 .. n /\ DOMAIN sse' = 1 .. n + 1
      /\ sse'[n + 1] = e /\ \A i \in 1 .. n : sse[i] = sse'[i]
  BY DEF Body
<1>2. Parsed = all /\ Parsed' = Yield(sse', n + 1)
  BY <1>1 DEF Parsed, Yield
<1>3. Yield(sse', n + 1) = all \o found
  <2>1. Yield(sse', n + 1) = Yield(sse', n) \o parseSSEEventToResponse(sse'[n + 1])
    BY <1>1, YieldNext
  <2>2. Yield(sse, n) = Yield(sse', n)
    BY <1>1, YieldSame
  <2> QED
    BY <1>1, <2>1, <2>2
<1>4. all \in Seq(S)
  <2>1. all \in Seq(YieldsOf(sse, n))
    BY <1>1, YieldType
  <2> HIDE DEF all, found
  <2> QED
    BY <2>1
<1>5. found = <<>> \/ \E x : found = <<x>>
  BY AtMostOne
<1>6. got = Kept(all) /\ got' = Kept(all \o found)
  BY <1>2, <1>3 DEF got, Kept
<1>7. found[1] \in S
  OBVIOUS
<1> HIDE DEF S, all, found
<1>8. Kept(all) \in Seq(S)
  BY <1>4, <1>7, KeptAppend
<1>9. got \in Seq(Elements(got))
  BY <1>6, <1>8, SequenceOfItsElements
<1>10. CASE found = <<>>
  <2>1. all \o found = all
    BY <1>4, <1>10
  <2> QED
    BY <1>6, <1>9, <1>10, <2>1 DEF found
<1>11. CASE found # <<>>
  <2> DEFINE x == found[1]
  <2>1. found = <<x>>
    BY <1>5, <1>11
  <2> HIDE DEF x
  <2>2. x \in S
    BY <1>7 DEF x
  <2>3. all \o found = Append(all, x)
    BY <1>4, <2>1, <2>2
  <2>4. got' = got \o (IF x.kind \in {"start", "done"} THEN <<>> ELSE <<x>>)
    BY <1>4, <1>6, <2>2, <2>3, KeptAppend
  <2>5. got \in Seq(S)
    BY <1>6, <1>8
  <2>6. got \o <<>> = got /\ got \o <<x>> = Append(got, x)
    BY <2>2, <2>5
  <2>7. /\ x.kind \in {"start", "done"} => got' = got
        /\ x.kind \notin {"start", "done"} => got' = Append(got, x)
    BY <2>4, <2>6
  <2> QED
    BY <1>9, <1>11, <2>7 DEF x, found
<1> QED
  BY <1>10, <1>11

LEMMA GotType == ASSUME Body PROVE got \in Seq(Elements(got))
<1> DEFINE n == Len(sse)  all == Yield(sse, n)  S == YieldsOf(sse, n)
<1>1. n \in Nat /\ DOMAIN sse = 1 .. n
  BY DEF Body
<1>2. Parsed = all
  BY <1>1 DEF Parsed, Yield
<1>3. all \in Seq(S)
  BY <1>1, YieldType
<1>4. got = Kept(all)
  BY <1>2 DEF got, Kept
<1> HIDE DEF all, S
<1>5. FlattenSeq([i \in DOMAIN all |->
         IF all[i].kind \in {"start", "done"} THEN <<>> ELSE <<all[i]>>]) \in Seq(S)
  BY <1>3, KeptParts, FlattenType
<1> QED
  BY <1>4, <1>5, SequenceOfItsElements DEF Kept

\* Events without content, and with it.
LEMMA NoContent ==
    ASSUME Body, NEW i, NEW b, NEW d,
           NEW t \in {"message_start", "message_stop", "error", "content_block_stop",
                      "content_block_start"},
           t = "content_block_start" => b # "tool_use",
           Emit(Event(t, i, b, d))
    PROVE  got' = got
<1> DEFINE e == Event(t, i, b, d)  found == parseSSEEventToResponse(e)
<1>1. e.type = t /\ e.kind = b /\ sse' = Append(sse, e)
  BY EventFields DEF Emit
<1> HIDE DEF e
<1>2. found = <<>> \/ found[1].kind \in {"start", "done"}
  <2>1. CASE t = "message_start"
    BY <1>1, <2>1 DEF parseSSEEventToResponse
  <2>2. CASE t = "message_stop"
    BY <1>1, <2>2 DEF parseSSEEventToResponse
  <2>3. CASE t \notin {"message_start", "message_stop"}
    BY <1>1, <2>3 DEF parseSSEEventToResponse
  <2> QED
    BY <2>1, <2>2, <2>3
<1> HIDE DEF found
<1> QED
  BY <1>1, <1>2, GotGrows DEF found

LEMMA DeltaContent ==
    ASSUME Body, NEW i, NEW b \in DeltaKinds, NEW d,
           Emit(Event("content_block_delta", i, b, d))
    PROVE  got' = Append(got, [kind |-> b, data |-> "", index |-> i])
<1> DEFINE e == Event("content_block_delta", i, b, d)
           found == parseSSEEventToResponse(e)  y == [kind |-> b, data |-> "", index |-> i]
<1>1. /\ e.type = "content_block_delta" /\ e.kind = b /\ e.index = i
      /\ sse' = Append(sse, e)
  BY EventFields DEF Emit
<1> HIDE DEF e
<1>2. found = <<y>>
  BY <1>1 DEF parseSSEEventToResponse
<1>5. y.kind = b
  OBVIOUS
<1> HIDE DEF found, y
<1>3. found # <<>> /\ found[1] = y /\ y.kind = b
  BY <1>2, <1>5
<1>4. b \notin {"start", "done"}
  BY DEF DeltaKinds
<1> QED
  BY <1>1, <1>3, <1>4, GotGrows DEF found, y

LEMMA CallContent ==
    ASSUME Body, NEW i, NEW d,
           Emit(Event("content_block_start", i, "tool_use", d))
    PROVE  got' = Append(got, [kind |-> "tool_use", data |-> d, index |-> i])
<1> DEFINE e == Event("content_block_start", i, "tool_use", d)
           found == parseSSEEventToResponse(e)
           y == [kind |-> "tool_use", data |-> d, index |-> i]
<1>1. /\ e.type = "content_block_start" /\ e.kind = "tool_use" /\ e.index = i
      /\ e.data = d /\ sse' = Append(sse, e)
  BY EventFields DEF Emit
<1> HIDE DEF e
<1>2. found = <<y>>
  BY <1>1 DEF parseSSEEventToResponse
<1>3. found # <<>> /\ found[1] = y /\ y.kind \notin {"start", "done"}
  BY <1>2
<1> HIDE DEF found, y
<1> QED
  BY <1>1, <1>3, GotGrows DEF found, y

LEMMA FinishContent ==
    ASSUME Body, NEW i, NEW b, NEW d, Emit(Event("message_delta", i, b, d))
    PROVE  got' = Append(got, [kind |-> "finish", index |-> -1,
                               data |-> mapStopReasonToFinishReason(d)])
<1> DEFINE e == Event("message_delta", i, b, d)
           found == parseSSEEventToResponse(e)
           y == [kind |-> "finish", index |-> -1, data |-> mapStopReasonToFinishReason(d)]
<1>1. e.type = "message_delta" /\ e.data = d /\ sse' = Append(sse, e)
  BY EventFields DEF Emit
<1> HIDE DEF e
<1>2. found = <<y>>
  BY <1>1 DEF parseSSEEventToResponse
<1>3. found # <<>> /\ found[1] = y /\ y.kind \notin {"start", "done"}
  BY <1>2
<1> HIDE DEF found, y
<1> QED
  BY <1>1, <1>3, GotGrows DEF found, y

-----------------------------------------------------------------------------
(* What is still to be written of the chunk in hand.                       *)

FedItem ==
    [kind : DeltaKinds \cup {"tool_use", "finish"},
     data : {"", NoID} \cup CallIDs \cup Reasons]

ThinkPart(c)  == IF c.think THEN <<Item("thinking_delta", "")>> ELSE <<>>
TextPart(c)   == IF c.text THEN <<Item("text_delta", "")>> ELSE <<>>
IdPart(t)     == IF t.id # NoID THEN <<Item("tool_use", t.id)>> ELSE <<>>
ArgPart(t)    == IF t.args THEN <<Item("input_json_delta", "")>> ELSE <<>>
CallParts(c)  == [j \in DOMAIN c.tools |-> IdPart(c.tools[j]) \o ArgPart(c.tools[j])]
FinishPart(c) == IF c.finish # "" THEN <<Item("finish", c.finish)>> ELSE <<>>

\* The items of the tool calls from the n-th on.
CallsFrom(c, n) == FlattenSeq(SubSeq(CallParts(c), n, Len(c.tools)))

RestOf(c, place, n) ==
    CASE place = "start"    -> ItemsOf(c)
      [] place = "thinking" ->
            ThinkPart(c) \o (TextPart(c) \o (CallsFrom(c, 1) \o FinishPart(c)))
      [] place = "text"     -> TextPart(c) \o (CallsFrom(c, 1) \o FinishPart(c))
      [] place = "tool_use" -> CallsFrom(c, n) \o FinishPart(c)
      [] place = "args"     ->
            ArgPart(c.tools[n]) \o (CallsFrom(c, n + 1) \o FinishPart(c))
      [] place = "finish"   -> FinishPart(c)
      [] OTHER -> <<>>

Rest == RestOf(chunk, pc, k)

LEMMA ItemIsFed ==
    ASSUME NEW kind \in DeltaKinds \cup {"tool_use", "finish"},
           NEW data \in {"", NoID} \cup CallIDs \cup Reasons
    PROVE  /\ Item(kind, data) \in FedItem
           /\ Item(kind, data).kind = kind /\ Item(kind, data).data = data
BY DEF Item, FedItem

\* Each part has an item or none.
LEMMA PartTypes ==
    ASSUME NEW c \in Chunks \cup {NoChunk}
    PROVE  /\ ThinkPart(c) \in Seq(FedItem) /\ TextPart(c) \in Seq(FedItem)
           /\ FinishPart(c) \in Seq(FedItem)
           /\ \A j \in DOMAIN c.tools : /\ IdPart(c.tools[j]) \in Seq(FedItem)
                                        /\ ArgPart(c.tools[j]) \in Seq(FedItem)
<1>1. c \in Response
  BY ChunkFields
<1>2. <<>> \in Seq(FedItem) /\ \A x \in FedItem : <<x>> \in Seq(FedItem)
  BY ShortSequences
<1>3. /\ Item("thinking_delta", "") \in FedItem /\ Item("text_delta", "") \in FedItem
      /\ Item("input_json_delta", "") \in FedItem
  BY ItemIsFed DEF DeltaKinds
<1>4. FinishPart(c) \in Seq(FedItem)
  <2>1. CASE c.finish = ""
    BY <1>2, <2>1 DEF FinishPart
  <2>2. CASE c.finish # ""
    <3>1. c.finish \in Reasons
      BY <1>1, <2>2 DEF Response
    <3>2. Item("finish", c.finish) \in FedItem
      BY <3>1, ItemIsFed
    <3> QED
      BY <1>2, <3>2 DEF FinishPart
  <2> QED
    BY <2>1, <2>2
<1>5. ASSUME NEW j \in DOMAIN c.tools
      PROVE  IdPart(c.tools[j]) \in Seq(FedItem) /\ ArgPart(c.tools[j]) \in Seq(FedItem)
  <2>1. c.tools \in Seq(ToolCall)
    BY <1>1 DEF Response
  <2>2. c.tools[j] \in ToolCall
    BY <2>1
  <2>3. c.tools[j].id \in CallIDs \cup {NoID}
    BY <2>2 DEF ToolCall
  <2>4. Item("tool_use", c.tools[j].id) \in FedItem
    BY <2>3, ItemIsFed
  <2>5. IdPart(c.tools[j]) \in Seq(FedItem)
    BY <1>2, <2>4 DEF IdPart
  <2> QED
    BY <1>2, <1>3, <2>5 DEF ArgPart
<1> QED
  BY <1>2, <1>3, <1>4, <1>5 DEF ThinkPart, TextPart

LEMMA CallPartsType ==
    ASSUME NEW c \in Chunks \cup {NoChunk}
    PROVE  /\ CallParts(c) \in Seq(Seq(FedItem)) /\ Len(CallParts(c)) = Len(c.tools)
           /\ Len(c.tools) \in Nat
           /\ \A j \in 1 .. Len(c.tools) :
                 CallParts(c)[j] = IdPart(c.tools[j]) \o ArgPart(c.tools[j])
<1>1. c \in Response /\ Len(c.tools) \in Nat
  BY ChunkFields
<1>2. c.tools \in Seq(ToolCall)
  BY <1>1 DEF Response
<1>3. DOMAIN c.tools = 1 .. Len(c.tools)
  BY <1>2
<1>4. \A j \in 1 .. Len(c.tools) : IdPart(c.tools[j]) \o ArgPart(c.tools[j]) \in Seq(FedItem)
  <2> TAKE j \in 1 .. Len(c.tools)
  <2> DEFINE a == IdPart(c.tools[j])  b == ArgPart(c.tools[j])
  <2>1. a \in Seq(FedItem) /\ b \in Seq(FedItem)
    BY <1>3, PartTypes
  <2> HIDE DEF a, b
  <2>2. a \o b \in Seq(FedItem)
    BY <2>1
  <2> QED
    BY <2>2 DEF a, b
<1>5. CallParts(c) \in [1 .. Len(c.tools) -> Seq(FedItem)]
  BY <1>3, <1>4 DEF CallParts
<1>6. \A j \in 1 .. Len(c.tools) :
         CallParts(c)[j] = IdPart(c.tools[j]) \o ArgPart(c.tools[j])
  BY <1>3 DEF CallParts
<1>7. CallParts(c) \in Seq(Seq(FedItem)) /\ Len(CallParts(c)) = Len(c.tools)
  BY <1>1, <1>5
<1> QED
  BY <1>1, <1>6, <1>7

\* The items of the tool calls, one call at a time.
LEMMA CallsUnroll ==
    ASSUME NEW c \in Chunks \cup {NoChunk}, NEW n \in Nat, n >= 1
    PROVE  /\ CallsFrom(c, n) \in Seq(FedItem)
           /\ n > Len(c.tools) => CallsFrom(c, n) = <<>>
           /\ n <= Len(c.tools) =>
                 CallsFrom(c, n) = IdPart(c.tools[n]) \o
                                      (ArgPart(c.tools[n]) \o CallsFrom(c, n + 1))
<1> DEFINE parts == CallParts(c)  l == Len(c.tools)
           now == SubSeq(parts, n, l)  next == SubSeq(parts, n + 1, l)
<1>1. parts \in Seq(Seq(FedItem)) /\ l \in Nat /\ Len(parts) = l
  BY CallPartsType
<1>2. \A j \in 1 .. l : parts[j] = IdPart(c.tools[j]) \o ArgPart(c.tools[j])
  BY CallPartsType
<1>3. CallsFrom(c, n) = FlattenSeq(now) /\ CallsFrom(c, n + 1) = FlattenSeq(next)
  BY DEF CallsFrom
<1> HIDE DEF parts, l
<1>4. now \in Seq(Seq(FedItem)) /\ next \in Seq(Seq(FedItem))
  BY <1>1
<1>5. n > l => now = <<>>
  BY <1>1
<1>6. CASE n > l
  <2> HIDE DEF now, next
  <2>1. CallsFrom(c, n) = <<>>
    BY <1>3, <1>5, <1>6, FlattenEmpty
  <2>2. <<>> \in Seq(FedItem) /\ ~(n <= l)
    BY <1>1, <1>6
  <2> QED
    BY <2>1, <2>2 DEF l
<1>7. CASE n <= l
  <2> DEFINE a == IdPart(c.tools[n])  b == ArgPart(c.tools[n])  p == parts[n]
  <2>1. now = <<p>> \o next /\ p \in Seq(FedItem) /\ <<p>> \in Seq(Seq(FedItem))
    BY <1>1, <1>7
  <2>2. p = a \o b
    BY <1>1, <1>2, <1>7
  <2>3. a \in Seq(FedItem) /\ b \in Seq(FedItem)
    <3>1. c.tools \in Seq(ToolCall)
      BY ChunkFields DEF Response
    <3>2. n \in DOMAIN c.tools
      BY <1>1, <1>7, <3>1 DEF l
    <3> QED
      BY <3>2, PartTypes
  <2> HIDE DEF a, b, p, now, next
  <2>4. FlattenSeq(now) = FlattenSeq(<<p>>) \o FlattenSeq(next)
    BY <1>4, <2>1, FlattenConcat
  <2>5. FlattenSeq(<<p>>) = p
    BY FlattenOne
  <2> DEFINE f == FlattenSeq(next)
  <2>6. f \in Seq(FedItem)
    BY <1>4, FlattenType
  <2> HIDE DEF f
  <2>7. (a \o b) \o f = a \o (b \o f)
    BY <2>3, <2>6, Associative
  <2>8. FlattenSeq(now) \in Seq(FedItem)
    BY <1>4, FlattenType
  <2>9. CallsFrom(c, n) = a \o (b \o f)
    BY <1>3, <2>2, <2>4, <2>5, <2>7 DEF f
  <2>10. CallsFrom(c, n) \in Seq(FedItem) /\ ~(n > l) /\ f = CallsFrom(c, n + 1)
    BY <1>1, <1>3, <1>7, <2>8 DEF f
  <2> QED
    BY <2>9, <2>10 DEF a, b, l
<1> QED
  BY <1>1, <1>6, <1>7 DEF l

\* All of a chunk is to be written when its first section is reached.
LEMMA ItemsInOrder ==
    ASSUME NEW c \in Chunks \cup {NoChunk}
    PROVE  /\ c.err \/ ~c.choices => ItemsOf(c) = <<>>
           /\ ~c.err /\ c.choices => ItemsOf(c) = RestOf(c, "thinking", 1)
           /\ ItemsOf(c) \in Seq(FedItem)
<1> DEFINE a == ThinkPart(c)  b == TextPart(c)  d == CallsFrom(c, 1)  f == FinishPart(c)
<1>1. a \in Seq(FedItem) /\ b \in Seq(FedItem) /\ f \in Seq(FedItem)
  BY PartTypes
<1>2. d \in Seq(FedItem)
  BY CallsUnroll
<1>3. c.err \/ ~c.choices => ItemsOf(c) = <<>>
  BY DEF ItemsOf
<1>4. RestOf(c, "thinking", 1) = a \o (b \o (d \o f))
  BY DEF RestOf
<1>5. d = FlattenSeq(CallParts(c))
  <2> DEFINE parts == CallParts(c)
  <2>1. parts \in Seq(Seq(FedItem)) /\ Len(parts) = Len(c.tools)
    BY CallPartsType
  <2> HIDE DEF parts
  <2>2. SubSeq(parts, 1, Len(parts)) = parts
    BY <2>1
  <2> QED
    BY <2>1, <2>2 DEF CallsFrom, parts
<1>6. ~c.err /\ c.choices => ItemsOf(c) = ((a \o b) \o d) \o f
  BY <1>5 DEF ItemsOf, ThinkPart, TextPart, FinishPart, CallParts, IdPart, ArgPart
<1> HIDE DEF a, b, d, f
<1>7. ((a \o b) \o d) \o f = a \o (b \o (d \o f))
  BY <1>1, <1>2
<1>8. ((a \o b) \o d) \o f \in Seq(FedItem) /\ <<>> \in Seq(FedItem)
  BY <1>1, <1>2
<1> QED
  BY <1>3, <1>4, <1>6, <1>7, <1>8

LEMMA RestType == ASSUME Types PROVE Rest \in Seq(FedItem)
<1>1. chunk \in Chunks \cup {NoChunk} /\ k \in Nat /\ k >= 1 /\ k + 1 \in Nat /\ k + 1 >= 1
  BY DEF Types
<1> DEFINE a == ThinkPart(chunk)  b == TextPart(chunk)  d == CallsFrom(chunk, 1)
           f == FinishPart(chunk)  n == CallsFrom(chunk, k)  m == CallsFrom(chunk, k + 1)
<1>2. a \in Seq(FedItem) /\ b \in Seq(FedItem) /\ f \in Seq(FedItem)
  BY <1>1, PartTypes
<1>3. d \in Seq(FedItem) /\ n \in Seq(FedItem) /\ m \in Seq(FedItem)
  BY <1>1, CallsUnroll
<1>4. CASE pc = "args"
  <2>1. PICK g : g = ArgPart(chunk.tools[k])
    OBVIOUS
  <2>2. g \in Seq(FedItem)
    <3>1. Item("input_json_delta", "") \in FedItem
      BY ItemIsFed DEF DeltaKinds
    <3> QED
      BY <2>1, <3>1, ShortSequences DEF ArgPart
  <2> HIDE DEF a, b, d, f, n, m
  <2>3. g \o (m \o f) \in Seq(FedItem)
    BY <1>2, <1>3, <2>2
  <2> QED
    BY <1>4, <2>1, <2>3 DEF Rest, RestOf, m, f
<1>5. CASE pc # "args"
  <2>1. ItemsOf(chunk) \in Seq(FedItem)
    BY <1>1, ItemsInOrder
  <2>2. \/ Rest = ItemsOf(chunk) \/ Rest = a \o (b \o (d \o f)) \/ Rest = b \o (d \o f)
        \/ Rest = n \o f \/ Rest = f \/ Rest = <<>>
    BY <1>5 DEF Rest, RestOf
  <2> HIDE DEF a, b, d, f, n, m
  <2>3. /\ a \o (b \o (d \o f)) \in Seq(FedItem) /\ b \o (d \o f) \in Seq(FedItem)
        /\ n \o f \in Seq(FedItem) /\ <<>> \in Seq(FedItem)
    BY <1>2, <1>3
  <2> QED
    BY <1>2, <2>1, <2>2, <2>3
<1> QED
  BY <1>4, <1>5

-----------------------------------------------------------------------------
(* Each step writes the next item, or nothing.                             *)

\* What the parser makes of an item.
Matches(y, x) ==
    /\ y.kind = x.kind
    /\ y.data = IF /\ x.kind = "finish"
                   /\ x.data \in Reasons \ {"length", "tool_calls"}
                 THEN "stop" ELSE x.data

Gives(g, f) == Len(g) = Len(f) /\ \A i \in 1 .. Len(f) : Matches(g[i], f[i])

\* What was sent is what was written and what the chunk in hand still owes.
Owed == \E f \in Seq(FedItem) : fed = f \o Rest /\ Gives(got, f)

Keeps == got' = got /\ Rest' = Rest /\ fed' = fed

Pays(x, y) ==
    /\ got' = Append(got, y) /\ x \in FedItem /\ Matches(y, x)
    /\ Rest = <<x>> \o Rest' /\ fed' = fed

Takes ==
    /\ got' = got /\ Rest = <<>> /\ Rest' \in Seq(FedItem) /\ fed' = fed \o Rest'

Progress == Keeps \/ Takes \/ \E x, y : Pays(x, y)

LEMMA EachTakes ==
    ASSUME NEW c \in Chunks, Each(c)
    PROVE  Takes
<1>1. /\ pc = "each" /\ chunk' = c /\ fed' = fed \o ItemsOf(c) /\ sse' = sse
      /\ pc' = IF c.err THEN "error" ELSE "start"
  BY DEF Each, Quiet
<1>2. got' = got
  BY <1>1 DEF got, Parsed
<1>3. Rest = <<>>
  BY <1>1 DEF Rest, RestOf
<1>4. ItemsOf(c) \in Seq(FedItem) /\ (c.err => ItemsOf(c) = <<>>)
  BY ItemsInOrder
<1>5. Rest' = ItemsOf(c)
  <2>1. CASE c.err
    BY <1>1, <1>4, <2>1 DEF Rest, RestOf
  <2>2. CASE ~c.err
    BY <1>1, <2>2 DEF Rest, RestOf
  <2> QED
    BY <2>1, <2>2
<1> QED
  BY <1>1, <1>2, <1>3, <1>4, <1>5 DEF Takes

LEMMA StartKeeps ==
    ASSUME Types, BlockInv, pc = "start", pc' = AfterStart, got' = got,
           UNCHANGED <<chunk, k, sent>>
    PROVE  Keeps
<1>1. ~chunk.err /\ chunk \in Chunks \cup {NoChunk}
  BY DEF BlockInv, Position, Types
<1>2. Rest = ItemsOf(chunk)
  BY DEF Rest, RestOf
<1>3. CASE chunk.choices
  <2>1. Rest' = RestOf(chunk, "thinking", 1)
    BY <1>3 DEF AfterStart, Rest, RestOf
  <2> QED
    BY <1>1, <1>2, <1>3, <2>1, ItemsInOrder DEF Keeps, sent
<1>4. CASE ~chunk.choices
  <2>1. Rest' = <<>>
    BY <1>4 DEF AfterStart, Rest, RestOf
  <2> QED
    BY <1>1, <1>2, <1>4, <2>1, ItemsInOrder DEF Keeps, sent
<1> QED
  BY <1>3, <1>4

LEMMA SameRest ==
    ASSUME got' = got, UNCHANGED <<pc, chunk, k, fed>>
    PROVE  Keeps
BY DEF Keeps, Rest

\* The pieces of what is left to write.
LEMMA RestPieces ==
    ASSUME Types
    PROVE  /\ ThinkPart(chunk) \in Seq(FedItem) /\ TextPart(chunk) \in Seq(FedItem)
           /\ FinishPart(chunk) \in Seq(FedItem)
           /\ CallsFrom(chunk, 1) \in Seq(FedItem) /\ CallsFrom(chunk, k) \in Seq(FedItem)
           /\ CallsFrom(chunk, k + 1) \in Seq(FedItem)
           /\ k > Len(chunk.tools) => CallsFrom(chunk, k) = <<>>
           /\ k <= Len(chunk.tools) =>
                 /\ CallsFrom(chunk, k) =
                       IdPart(chunk.tools[k]) \o
                          (ArgPart(chunk.tools[k]) \o CallsFrom(chunk, k + 1))
                 /\ IdPart(chunk.tools[k]) \in Seq(FedItem)
                 /\ ArgPart(chunk.tools[k]) \in Seq(FedItem)
                 /\ chunk.tools[k].id \in CallIDs \cup {NoID}
           /\ chunk.finish # "" => chunk.finish \in Reasons
<1>1. chunk \in Chunks \cup {NoChunk} /\ k \in Nat /\ k >= 1 /\ k + 1 \in Nat /\ k + 1 >= 1
  BY DEF Types
<1>2. chunk \in Response /\ chunk.tools \in Seq(ToolCall)
  BY <1>1, ChunkFields DEF Response
<1>3. k <= Len(chunk.tools) => k \in DOMAIN chunk.tools
  BY <1>1, <1>2
<1>4. k <= Len(chunk.tools) => chunk.tools[k].id \in CallIDs \cup {NoID}
  <2> SUFFICES ASSUME k <= Len(chunk.tools) PROVE chunk.tools[k].id \in CallIDs \cup {NoID}
    OBVIOUS
  <2>1. chunk.tools[k] \in ToolCall
    BY <1>2, <1>3
  <2> QED
    BY <2>1 DEF ToolCall
<1>5. chunk.finish # "" => chunk.finish \in Reasons
  BY <1>2 DEF Response
<1>6. k <= Len(chunk.tools) =>
         IdPart(chunk.tools[k]) \in Seq(FedItem) /\ ArgPart(chunk.tools[k]) \in Seq(FedItem)
  BY <1>1, <1>3, PartTypes
<1>7. /\ CallsFrom(chunk, 1) \in Seq(FedItem) /\ CallsFrom(chunk, k) \in Seq(FedItem)
      /\ CallsFrom(chunk, k + 1) \in Seq(FedItem)
  BY <1>1, CallsUnroll
<1>8. /\ k > Len(chunk.tools) => CallsFrom(chunk, k) = <<>>
      /\ k <= Len(chunk.tools) =>
            CallsFrom(chunk, k) = IdPart(chunk.tools[k]) \o
                                     (ArgPart(chunk.tools[k]) \o CallsFrom(chunk, k + 1))
  BY <1>1, CallsUnroll
<1>9. /\ ThinkPart(chunk) \in Seq(FedItem) /\ TextPart(chunk) \in Seq(FedItem)
      /\ FinishPart(chunk) \in Seq(FedItem)
  BY <1>1, PartTypes
<1> QED
  BY <1>4, <1>5, <1>6, <1>7, <1>8, <1>9

LEMMA DeltaPays ==
    ASSUME Types, Body, BlockInv, WriteDelta
    PROVE  \E x, y : Pays(x, y)
<1> DEFINE x == Item(DeltaOf(pc), "")
           y == [kind |-> DeltaOf(pc), data |-> "", index |-> w.index]
           d == CallsFrom(chunk, 1)  f == FinishPart(chunk)  b == TextPart(chunk)
<1>1. /\ pc \in {"thinking", "text"} /\ pc' = NextSection /\ chunk' = chunk /\ k' = k
      /\ fed' = fed /\ Emit(Event("content_block_delta", w.index, DeltaOf(pc), ""))
  BY DEF WriteDelta, sent
<1>2. DeltaOf(pc) \in DeltaKinds
  BY DEF DeltaOf, DeltaKinds
<1>3. got' = Append(got, y)
  BY <1>1, <1>2, DeltaContent
<1>4. x \in FedItem /\ x.kind = DeltaOf(pc) /\ x.data = ""
  BY <1>2, ItemIsFed
<1>5. Matches(y, x)
  <2>1. y.kind = DeltaOf(pc) /\ y.data = ""
    OBVIOUS
  <2>2. DeltaOf(pc) # "finish"
    BY DEF DeltaOf
  <2> HIDE DEF x, y
  <2> QED
    BY <1>4, <2>1, <2>2 DEF Matches
<1>6. Rest = <<x>> \o Rest'
  <2>1. CASE pc = "thinking"
    <3>1. pc' = "text" /\ ThinkPart(chunk) = <<x>>
      BY <1>1, <2>1 DEF WriteDelta, HasContent, NextSection, ThinkPart, DeltaOf
    <3> QED
      BY <1>1, <2>1, <3>1 DEF Rest, RestOf
  <2>2. CASE pc = "text"
    <3>1. pc' = "tool_use" /\ TextPart(chunk) = <<x>>
      BY <1>1, <2>2 DEF WriteDelta, HasContent, NextSection, TextPart, DeltaOf
    <3>2. Rest = <<x>> \o (d \o f)
      BY <2>2, <3>1 DEF Rest, RestOf
    <3>3. Rest' = CallsFrom(chunk, k) \o f
      BY <1>1, <3>1 DEF Rest, RestOf
    <3>4. k = 1
      BY <2>2 DEF BlockInv, Position
    <3> QED
      BY <3>2, <3>3, <3>4
  <2> QED
    BY <1>1, <2>1, <2>2
<1> HIDE DEF x, y
<1>7. Pays(x, y)
  BY <1>1, <1>3, <1>4, <1>5, <1>6 DEF Pays
<1> QED
  BY <1>7

LEMMA NoDeltaKeeps ==
    ASSUME Types, BlockInv, NoDelta
    PROVE  Keeps
<1> DEFINE d == CallsFrom(chunk, 1)  f == FinishPart(chunk)  b == TextPart(chunk)
<1>1. /\ pc \in {"thinking", "text"} /\ pc' = NextSection /\ chunk' = chunk /\ k' = k
      /\ fed' = fed /\ sse' = sse
  BY DEF NoDelta, sent, Quiet
<1>2. got' = got
  BY <1>1 DEF got, Parsed
<1>3. b \in Seq(FedItem) /\ d \in Seq(FedItem) /\ f \in Seq(FedItem)
  BY RestPieces
<1>4. pc = "text" => k = 1
  BY DEF BlockInv, Position
<1>5. Rest' = Rest
  <2>1. CASE pc = "thinking"
    <3>1. pc' = "text" /\ ThinkPart(chunk) = <<>>
      BY <1>1, <2>1 DEF NoDelta, HasContent, NextSection, ThinkPart
    <3>2. Rest = <<>> \o (b \o (d \o f)) /\ Rest' = b \o (d \o f)
      BY <1>1, <2>1, <3>1 DEF Rest, RestOf
    <3> HIDE DEF b, d, f
    <3> QED
      BY <1>3, <3>2
  <2>2. CASE pc = "text"
    <3>1. pc' = "tool_use" /\ b = <<>>
      BY <1>1, <2>2 DEF NoDelta, HasContent, NextSection, TextPart
    <3>2. Rest = b \o (d \o f)
      BY <2>2 DEF Rest, RestOf
    <3>3. Rest' = d \o f
      BY <1>1, <1>4, <2>2, <3>1 DEF Rest, RestOf
    <3> HIDE DEF b, d, f
    <3> QED
      BY <1>3, <3>1, <3>2, <3>3
  <2> QED
    BY <1>1, <2>1, <2>2
<1> QED
  BY <1>1, <1>2, <1>5 DEF Keeps

LEMMA ContinueToolKeeps ==
    ASSUME Types, ContinueTool
    PROVE  Keeps
<1> DEFINE a == IdPart(chunk.tools[k])  b == ArgPart(chunk.tools[k])
           d == CallsFrom(chunk, k + 1)  f == FinishPart(chunk)
<1>1. /\ pc = "tool_use" /\ pc' = "args" /\ k <= Len(chunk.tools)
      /\ chunk' = chunk /\ k' = k /\ fed' = fed /\ sse' = sse
  BY DEF ContinueTool, sent, Quiet
<1>2. got' = got
  BY <1>1 DEF got, Parsed
<1>3. chunk.tools[k].id = NoID
  BY <1>1 DEF ContinueTool, HasContent
<1>4. a = <<>>
  BY <1>3 DEF IdPart
<1>5. b \in Seq(FedItem) /\ d \in Seq(FedItem) /\ f \in Seq(FedItem)
  BY <1>1, RestPieces
<1>6. CallsFrom(chunk, k) = a \o (b \o d)
  BY <1>1, RestPieces
<1>7. Rest = (a \o (b \o d)) \o f /\ Rest' = b \o (d \o f)
  BY <1>1, <1>6 DEF Rest, RestOf
<1> HIDE DEF a, b, d, f
<1>8. Rest' = Rest
  BY <1>4, <1>5, <1>7
<1> QED
  BY <1>1, <1>2, <1>8 DEF Keeps

LEMMA ToolsWrittenKeeps ==
    ASSUME Types, ToolsWritten
    PROVE  Keeps
<1> DEFINE f == FinishPart(chunk)
<1>1. /\ pc = "tool_use" /\ pc' = (IF chunk.finish # "" THEN "finish" ELSE "each")
      /\ k > Len(chunk.tools) /\ chunk' = chunk /\ fed' = fed /\ sse' = sse
  BY DEF ToolsWritten, sent, Quiet
<1>2. got' = got
  BY <1>1 DEF got, Parsed
<1>3. CallsFrom(chunk, k) = <<>> /\ f \in Seq(FedItem)
  BY <1>1, RestPieces
<1>4. Rest = <<>> \o f
  BY <1>1, <1>3 DEF Rest, RestOf
<1>5. Rest' = f
  <2>1. CASE chunk.finish = ""
    BY <1>1, <2>1 DEF Rest, RestOf, FinishPart
  <2>2. CASE chunk.finish # ""
    BY <1>1, <2>2 DEF Rest, RestOf
  <2> QED
    BY <2>1, <2>2
<1> HIDE DEF f
<1>6. <<>> \o f = f
  BY <1>3
<1> QED
  BY <1>1, <1>2, <1>4, <1>5, <1>6 DEF Keeps

LEMMA StartProgress ==
    ASSUME Types, Body, StartBlock
    PROVE  Keeps \/ \E x, y : Pays(x, y)
<1>1. /\ chunk' = chunk /\ k' = k /\ fed' = fed
      /\ pc' = (IF pc = "tool_use" THEN "args" ELSE pc)
      /\ pc \in {"thinking", "text", "tool_use"}
  BY DEF StartBlock, HasContent, sent
<1>2. CASE pc # "tool_use"
  <2>1. Emit(Event("content_block_start", w.index, pc, ""))
    BY <1>2 DEF StartBlock
  <2>2. got' = got
    BY <1>2, <2>1, NoContent
  <2> QED
    BY <1>1, <1>2, <2>2, SameRest
<1>3. CASE pc = "tool_use"
  <2> DEFINE id == chunk.tools[k].id  x == Item("tool_use", id)
             y == [kind |-> "tool_use", data |-> id, index |-> w.index]
             a == IdPart(chunk.tools[k])  b == ArgPart(chunk.tools[k])
             d == CallsFrom(chunk, k + 1)  f == FinishPart(chunk)
  <2>1. /\ Emit(Event("content_block_start", w.index, "tool_use", id))
        /\ k <= Len(chunk.tools) /\ id # NoID
    BY <1>3 DEF StartBlock, HasContent
  <2>2. got' = Append(got, y)
    BY <2>1, CallContent
  <2>3. x \in FedItem /\ x.kind = "tool_use" /\ x.data = id
    <3>1. id \in CallIDs \cup {NoID}
      BY <2>1, RestPieces
    <3> QED
      BY <3>1, ItemIsFed
  <2>4. y.kind = "tool_use" /\ y.data = id
    OBVIOUS
  <2>5. b \in Seq(FedItem) /\ d \in Seq(FedItem) /\ f \in Seq(FedItem)
    BY <2>1, RestPieces
  <2>6. CallsFrom(chunk, k) = a \o (b \o d) /\ a = <<x>>
    BY <2>1, RestPieces DEF IdPart
  <2>7. Rest = (<<x>> \o (b \o d)) \o f /\ Rest' = b \o (d \o f)
    BY <1>1, <1>3, <2>6 DEF Rest, RestOf
  <2> HIDE DEF a, b, d, f, x, y
  <2>8. Rest = <<x>> \o Rest'
    <3>1. <<x>> \in Seq(FedItem)
      BY <2>3, ShortSequences
    <3> QED
      BY <2>5, <2>7, <3>1
  <2>9. Matches(y, x)
    BY <2>3, <2>4 DEF Matches
  <2>10. Pays(x, y)
    BY <1>1, <2>2, <2>3, <2>8, <2>9 DEF Pays
  <2> QED
    BY <2>10
<1> QED
  BY <1>2, <1>3

LEMMA ArgumentsProgress ==
    ASSUME Types, Body, BlockInv, WriteArguments
    PROVE  Keeps \/ \E x, y : Pays(x, y)
<1> DEFINE b == ArgPart(chunk.tools[k])
           d == CallsFrom(chunk, k + 1)  f == FinishPart(chunk)
<1>1. pc = "args" /\ pc' = "tool_use" /\ chunk' = chunk /\ k' = k + 1 /\ fed' = fed
  BY DEF WriteArguments, sent
<1>2. k <= Len(chunk.tools)
  BY <1>1 DEF BlockInv, Position
<1>3. b \in Seq(FedItem) /\ d \in Seq(FedItem) /\ f \in Seq(FedItem)
  BY <1>2, RestPieces
<1>4. Rest = b \o (d \o f) /\ Rest' = d \o f
  BY <1>1 DEF Rest, RestOf
<1>5. CASE ~chunk.tools[k].args
  <2>1. sse' = sse
    BY <1>5 DEF WriteArguments, Quiet
  <2>2. got' = got
    BY <2>1 DEF got, Parsed
  <2>3. b = <<>>
    BY <1>5 DEF ArgPart
  <2> HIDE DEF b, d, f
  <2>4. Rest' = Rest
    BY <1>3, <1>4, <2>3
  <2> QED
    BY <1>1, <2>2, <2>4 DEF Keeps
<1>6. CASE chunk.tools[k].args
  <2> DEFINE x == Item("input_json_delta", "")
             y == [kind |-> "input_json_delta", data |-> "", index |-> w.index]
  <2>1. Emit(Event("content_block_delta", w.index, "input_json_delta", ""))
    BY <1>6 DEF WriteArguments
  <2>2. "input_json_delta" \in DeltaKinds
    BY DEF DeltaKinds
  <2>3. got' = Append(got, y)
    BY <2>1, <2>2, DeltaContent
  <2>4. x \in FedItem /\ x.kind = "input_json_delta" /\ x.data = ""
    BY <2>2, ItemIsFed
  <2>5. y.kind = "input_json_delta" /\ y.data = ""
    OBVIOUS
  <2>6. b = <<x>>
    BY <1>6 DEF ArgPart
  <2> HIDE DEF x, y
  <2>7. Matches(y, x)
    BY <2>4, <2>5 DEF Matches
  <2>8. Pays(x, y)
    BY <1>1, <1>4, <2>3, <2>4, <2>6, <2>7 DEF Pays
  <2> QED
    BY <2>8
<1> QED
  BY <1>5, <1>6

LEMMA FinishPays ==
    ASSUME Types, Body, BlockInv, WriteMessageDelta
    PROVE  \E x, y : Pays(x, y)
<1> DEFINE r == chunk.finish  x == Item("finish", r)
           m == mapStopReasonToFinishReason(mapFinishReason(r))
           y == [kind |-> "finish", index |-> -1, data |-> m]
<1>1. /\ pc = "finish" /\ pc' = "each" /\ chunk' = chunk /\ fed' = fed
      /\ Emit(Event("message_delta", -1, "", mapFinishReason(r)))
  BY DEF WriteMessageDelta, sent
<1>2. r # "" /\ r \in Reasons
  <2>1. r # ""
    BY <1>1 DEF BlockInv, Position
  <2> QED
    BY <2>1, RestPieces
<1>3. got' = Append(got, y)
  BY <1>1, FinishContent
<1>4. x \in FedItem /\ x.kind = "finish" /\ x.data = r
  BY <1>2, ItemIsFed
<1>5. m = (IF r \in Reasons \ {"length", "tool_calls"} THEN "stop" ELSE r)
  BY <1>2 DEF Reasons, mapFinishReason, mapStopReasonToFinishReason
<1> HIDE DEF m
<1>6. y.kind = "finish" /\ y.data = m
  OBVIOUS
<1>7. Rest = <<x>> /\ Rest' = <<>>
  BY <1>1, <1>2 DEF Rest, RestOf, FinishPart
<1> HIDE DEF x, y
<1>8. Matches(y, x)
  BY <1>4, <1>5, <1>6 DEF Matches
<1>9. <<x>> = <<x>> \o <<>>
  OBVIOUS
<1>10. Pays(x, y)
  BY <1>1, <1>3, <1>4, <1>7, <1>8, <1>9 DEF Pays
<1> QED
  BY <1>10

\* Every step writes the next item, takes in a chunk, or leaves what was
\* written and what is owed as they were.
LEMMA NextProgress ==
    ASSUME Types, Body, BlockInv, [Next]_vars
    PROVE  Progress
<1>1. CASE \E c \in Chunks : Each(c)
  BY <1>1, EachTakes DEF Progress
<1>2. CASE EachReturns
  <2>1. /\ Emit(Event("message_stop", -1, "", "")) /\ pc = "each" /\ pc' = "done"
        /\ fed' = fed
    BY <1>2 DEF EachReturns, sent
  <2>2. got' = got
    BY <2>1, NoContent
  <2>3. Rest' = Rest
    BY <2>1 DEF Rest, RestOf
  <2> QED
    BY <2>1, <2>2, <2>3 DEF Progress, Keeps
<1>3. CASE WriteError
  <2>1. Emit(Event("error", -1, "", "")) /\ pc = "error" /\ pc' = "each" /\ fed' = fed
    BY <1>3 DEF WriteError, sent
  <2>2. got' = got
    BY <2>1, NoContent
  <2>3. Rest' = Rest
    BY <2>1 DEF Rest, RestOf
  <2> QED
    BY <2>1, <2>2, <2>3 DEF Progress, Keeps
<1>4. CASE WriteMessageStart
  <2>1. /\ Emit(Event("message_start", -1, "", "")) /\ pc = "start" /\ pc' = AfterStart
        /\ UNCHANGED <<chunk, k, sent>>
    BY <1>4 DEF WriteMessageStart
  <2>2. got' = got
    BY <2>1, NoContent
  <2> QED
    BY <2>1, <2>2, StartKeeps DEF Progress
<1>5. CASE MessageStarted
  <2>1. sse' = sse /\ pc = "start" /\ pc' = AfterStart /\ UNCHANGED <<chunk, k, sent>>
    BY <1>5 DEF MessageStarted, Quiet
  <2>2. got' = got
    BY <2>1 DEF got, Parsed
  <2> QED
    BY <2>1, <2>2, StartKeeps DEF Progress
<1>6. CASE CloseBlock \/ CloseLastBlock
  <2>1. /\ Emit(Event("content_block_stop", w.index, "", ""))
        /\ UNCHANGED <<pc, chunk, k, fed>>
    BY <1>6 DEF CloseBlock, CloseLastBlock, sent
  <2>2. got' = got
    BY <2>1, NoContent
  <2> QED
    BY <2>1, <2>2, SameRest DEF Progress
<1>7. CASE Returned \/ UNCHANGED vars
  <2>1. UNCHANGED <<pc, chunk, k, fed, sse>>
    BY <1>7 DEF Returned, vars, sent
  <2>2. got' = got
    BY <2>1 DEF got, Parsed
  <2> QED
    BY <2>1, <2>2, SameRest DEF Progress
<1> QED
  BY <1>1, <1>2, <1>3, <1>4, <1>5, <1>6, <1>7, StartProgress, DeltaPays, NoDeltaKeeps,
     ContinueToolKeeps, ArgumentsProgress, ToolsWrittenKeeps, FinishPays
     DEF Next, Progress

LEMMA OwedInit == Init => Owed
<1> SUFFICES ASSUME Init PROVE Owed
  OBVIOUS
<1>1. sse = <<>> /\ fed = <<>> /\ pc = "each"
  BY DEF Init
<1>2. Parsed = <<>>
  <2>1. [i \in DOMAIN sse |-> parseSSEEventToResponse(sse[i])] = <<>>
    BY <1>1
  <2> QED
    BY <2>1, FlattenEmpty DEF Parsed
<1>3. got = <<>>
  BY <1>2, KeptEmpty DEF got, Kept
<1>4. Rest = <<>>
  BY <1>1 DEF Rest, RestOf
<1>5. <<>> \in Seq(FedItem) /\ <<>> = <<>> \o <<>>
  BY ShortSequences
<1>6. Gives(<<>>, <<>>)
  BY DEF Gives
<1> QED
  BY <1>1, <1>3, <1>4, <1>5, <1>6 DEF Owed

\* One more item, matched.
LEMMA GivesMore ==
    ASSUME NEW S, NEW g \in Seq(S), NEW y, NEW T, NEW f \in Seq(T), NEW x \in T,
           Gives(g, f), Matches(y, x)
    PROVE  Gives(Append(g, y), Append(f, x))
<1> DEFINE gg == Append(g, y)  ff == Append(f, x)  n == Len(f)
<1>1. /\ n \in Nat /\ Len(g) = n
      /\ Len(ff) = n + 1 /\ ff[n + 1] = x /\ \A i \in 1 .. n : ff[i] = f[i]
  BY DEF Gives
<1>2. /\ Len(gg) = n + 1 /\ gg[n + 1] = y /\ \A i \in 1 .. n : gg[i] = g[i]
  <2>1. g \in Seq(S \cup {y})
    OBVIOUS
  <2> QED
    BY <1>1, <2>1
<1>3. \A i \in 1 .. n : Matches(g[i], f[i])
  BY DEF Gives
<1> HIDE DEF gg, ff, n
<1>4. \A i \in 1 .. n + 1 : Matches(gg[i], ff[i])
  <2> TAKE i \in 1 .. n + 1
  <2>1. CASE i = n + 1
    BY <1>1, <1>2, <2>1
  <2>2. CASE i # n + 1
    <3>1. i \in 1 .. n
      BY <1>1, <2>2
    <3> QED
      BY <1>1, <1>2, <1>3, <3>1
  <2> QED
    BY <2>1, <2>2
<1> QED
  BY <1>1, <1>2, <1>4 DEF Gives, gg, ff

LEMMA OwedStep ==
    ASSUME Owed, Types, Body, Progress
    PROVE  Owed'
<1>1. PICK f \in Seq(FedItem) : fed = f \o Rest /\ Gives(got, f)
  BY DEF Owed
<1>2. Rest \in Seq(FedItem)
  BY RestType
<1>3. CASE Keeps
  <2>1. got' = got /\ fed' = f \o Rest'
    BY <1>1, <1>3 DEF Keeps
  <2>2. Gives(got', f)
    BY <1>1, <2>1
  <2> QED
    BY <2>1, <2>2 DEF Owed
<1>4. CASE Takes
  <2>1. got' = got /\ Rest = <<>> /\ Rest' \in Seq(FedItem) /\ fed' = fed \o Rest'
    BY <1>4 DEF Takes
  <2>2. fed = f
    BY <1>1, <2>1
  <2>3. Gives(got', f) /\ fed' = f \o Rest'
    BY <1>1, <2>1, <2>2
  <2> QED
    BY <2>3 DEF Owed
<1>5. ASSUME NEW x, NEW y, Pays(x, y) PROVE Owed'
  <2>1. /\ got' = Append(got, y) /\ x \in FedItem /\ Matches(y, x)
        /\ Rest = <<x>> \o Rest' /\ fed' = fed
    BY <1>5 DEF Pays
  <2>2. got \in Seq(Elements(got))
    BY GotType
  <2>3. Gives(Append(got, y), Append(f, x))
    BY <1>1, <2>1, <2>2, GivesMore
  <2>4. Append(f, x) \in Seq(FedItem) /\ Gives(got', Append(f, x))
    BY <1>1, <2>1, <2>3
  <2>5. f \o (<<x>> \o Rest') = Append(f, x) \o Rest'
    BY <1>1, <2>1
  <2>6. fed' = Append(f, x) \o Rest'
    BY <1>1, <2>1, <2>5
  <2> QED
    BY <2>4, <2>6 DEF Owed
<1> QED
  BY <1>3, <1>4, <1>5 DEF Progress

LEMMA EmptyBody == Init => Body
<1>1. ASSUME sse = <<>> PROVE Body
  <2>1. <<>> \in Seq(Elements(<<>>)) /\ DOMAIN <<>> = {}
    BY ShortSequences
  <2> QED
    BY <1>1, <2>1 DEF Body
<1> QED
  BY <1>1 DEF Init

\* What is owed is nothing when a chunk has been written.
LEMMA RoundTripIs ==
    ASSUME Owed
    PROVE  RoundTrip
<1> SUFFICES ASSUME pc \in {"each", "done"} PROVE Gives(got, fed)
  <2>1. ASSUME Gives(got, fed), NEW f \in Seq(FedItem), fed = f
        PROVE  RoundTrip
    <3>1. DOMAIN fed = 1 .. Len(fed)
      BY <2>1
    <3> QED
      BY <2>1, <3>1 DEF RoundTrip, Gives, Matches
  <2>2. pc \in {"each", "done"} => \E f \in Seq(FedItem) : fed = f
    <3> SUFFICES ASSUME pc \in {"each", "done"} PROVE \E f \in Seq(FedItem) : fed = f
      OBVIOUS
    <3>1. Rest = <<>>
      BY DEF Rest, RestOf
    <3> QED
      BY <3>1 DEF Owed
  <2>3. pc \notin {"each", "done"} => RoundTrip
    BY DEF RoundTrip
  <2> QED
    BY <2>1, <2>2, <2>3
<1>1. Rest = <<>>
  BY DEF Rest, RestOf
<1>2. PICK f \in Seq(FedItem) : fed = f \o Rest /\ Gives(got, f)
  BY DEF Owed
<1>3. fed = f
  BY <1>1, <1>2
<1> QED
  BY <1>2, <1>3

-----------------------------------------------------------------------------
(* Tool calls and the indices of their blocks.                             *)

ToolKinds == {"tool_use", "input_json_delta"}

\* No two calls share an index, and none has one the client still expects.
NumberedIn(g, next) ==
    \A i \in 1 .. Len(g) :
       /\ g[i].kind = "tool_use" =>
             /\ g[i].index \in Int /\ g[i].index < next
             /\ \A j \in 1 .. i - 1 :
                   g[j].kind = "tool_use" => g[j].index # g[i].index
       /\ g[i].kind = "input_json_delta" =>
             /\ i > 1 /\ g[i - 1].kind \in ToolKinds
             /\ g[i - 1].index = g[i].index

\* The block that is open is that of the last call.
LastCall(g, index) ==
    Len(g) > 0 /\ g[Len(g)].kind \in ToolKinds /\ g[Len(g)].index = index

Numbered ==
    NumberedIn(got, client.next) /\ (InCall => LastCall(got, w.index))

\* A block that was started for a delta still to be written.
Unpaid == pc \in {"thinking", "text"} /\ HasContent /\ w.open /\ w.type = pc

\* Every block was started for an item.
Counted ==
    /\ w.index <= client.next
    /\ client.next <= Len(got) + (IF Unpaid THEN 1 ELSE 0)

\* The steps: nothing is written that counts; a block opens for prose or for a
\* call; an item of a call or another one is written.
Idles ==
    /\ got' = got /\ client'.next = client.next
    /\ InCall' => InCall /\ w'.index = w.index
    /\ Unpaid => Unpaid'
    /\ w'.index <= client'.next

Opens ==
    /\ got' = got /\ client'.next = client.next + 1
    /\ ~InCall' /\ ~Unpaid /\ Unpaid' /\ w'.index <= client'.next

OpensCall(y) ==
    /\ got' = Append(got, y) /\ y.kind = "tool_use" /\ y.index = client.next
    /\ client'.next = client.next + 1 /\ w'.index = y.index /\ ~Unpaid

WritesItem(y) ==
    /\ got' = Append(got, y) /\ client'.next = client.next /\ w'.index = w.index
    /\ \/ y.kind = "input_json_delta" /\ InCall /\ y.index = w.index
       \/ y.kind \notin ToolKinds /\ ~InCall'

Numbers == Idles \/ Opens \/ \E y : OpensCall(y) \/ WritesItem(y)

\* One more item keeps the numbering.
LEMMA NumberedMore ==
    ASSUME NEW S, NEW g \in Seq(S), NEW y, NEW next \in Int, NEW then \in Int,
           NumberedIn(g, next), next <= then,
           \/ y.kind = "tool_use" /\ y.index = next /\ next < then
           \/ y.kind = "input_json_delta" /\ LastCall(g, y.index)
           \/ y.kind \notin ToolKinds
    PROVE  NumberedIn(Append(g, y), then)
<1> DEFINE h == Append(g, y)  n == Len(g)
<1>1. n \in Nat /\ Len(h) = n + 1 /\ h[n + 1] = y /\ \A i \in 1 .. n : h[i] = g[i]
  <2>1. g \in Seq(S \cup {y})
    OBVIOUS
  <2> QED
    BY <2>1
<1> HIDE DEF h
<1>2. ASSUME NEW i \in 1 .. n
      PROVE  /\ h[i].kind = "tool_use" =>
                   /\ h[i].index \in Int /\ h[i].index < then
                   /\ \A j \in 1 .. i - 1 :
                         h[j].kind = "tool_use" => h[j].index # h[i].index
             /\ h[i].kind = "input_json_delta" =>
                   /\ i > 1 /\ h[i - 1].kind \in ToolKinds
                   /\ h[i - 1].index = h[i].index
  <2>1. h[i] = g[i] /\ \A j \in 1 .. i - 1 : h[j] = g[j]
    BY <1>1
  <2>2. i > 1 => h[i - 1] = g[i - 1]
    BY <1>1
  <2>3. /\ g[i].kind = "tool_use" =>
              /\ g[i].index \in Int /\ g[i].index < next
              /\ \A j \in 1 .. i - 1 :
                    g[j].kind = "tool_use" => g[j].index # g[i].index
        /\ g[i].kind = "input_json_delta" =>
              /\ i > 1 /\ g[i - 1].kind \in ToolKinds
              /\ g[i - 1].index = g[i].index
    BY DEF NumberedIn
  <2>4. h[i].kind = "tool_use" => h[i].index \in Int /\ h[i].index < then
    BY <2>1, <2>3
  <2> QED
    BY <2>1, <2>2, <2>3, <2>4
<1>3. y.kind = "tool_use" =>
         /\ y.index \in Int /\ y.index < then
         /\ \A j \in 1 .. n : h[j].kind = "tool_use" => h[j].index # y.index
  <2> SUFFICES ASSUME y.kind = "tool_use"
               PROVE  /\ y.index \in Int /\ y.index < then
                      /\ \A j \in 1 .. n :
                            h[j].kind = "tool_use" => h[j].index # y.index
    OBVIOUS
  <2>1. y.index = next /\ next < then
    BY DEF ToolKinds
  <2>2. \A j \in 1 .. n :
           g[j].kind = "tool_use" => g[j].index \in Int /\ g[j].index < next
    BY DEF NumberedIn
  <2>3. ASSUME NEW j \in 1 .. n, h[j].kind = "tool_use" PROVE h[j].index # y.index
    <3>1. h[j].index \in Int /\ h[j].index < next
      BY <1>1, <2>2, <2>3
    <3> QED
      BY <2>1, <3>1
  <2> QED
    BY <2>1, <2>3
<1>4. y.kind = "input_json_delta" =>
         n + 1 > 1 /\ h[n].kind \in ToolKinds /\ h[n].index = y.index
  <2> SUFFICES ASSUME y.kind = "input_json_delta"
               PROVE  n + 1 > 1 /\ h[n].kind \in ToolKinds /\ h[n].index = y.index
    OBVIOUS
  <2>1. LastCall(g, y.index)
    BY DEF ToolKinds
  <2>2. n > 0 /\ g[n].kind \in ToolKinds /\ g[n].index = y.index
    BY <2>1 DEF LastCall
  <2> QED
    BY <1>1, <2>2
<1>5. ASSUME NEW i \in 1 .. n + 1
      PROVE  /\ h[i].kind = "tool_use" =>
                   /\ h[i].index \in Int /\ h[i].index < then
                   /\ \A j \in 1 .. i - 1 :
                         h[j].kind = "tool_use" => h[j].index # h[i].index
             /\ h[i].kind = "input_json_delta" =>
                   /\ i > 1 /\ h[i - 1].kind \in ToolKinds
                   /\ h[i - 1].index = h[i].index
  <2>1. CASE i \in 1 .. n
    BY <1>2, <2>1
  <2>2. CASE i = n + 1
    <3>1. i - 1 = n /\ h[i] = y
      BY <1>1, <2>2
    <3> QED
      BY <1>3, <1>4, <2>2, <3>1
  <2> QED
    BY <1>1, <2>1, <2>2
<1> QED
  BY <1>1, <1>5 DEF NumberedIn, h

LEMMA NumberedLater ==
    ASSUME NEW g, NEW next \in Int, NEW then \in Int, next <= then, NumberedIn(g, next)
    PROVE  NumberedIn(g, then)
<1> SUFFICES ASSUME NEW i \in 1 .. Len(g), g[i].kind = "tool_use"
             PROVE  g[i].index < then
  BY DEF NumberedIn
<1>1. g[i].index \in Int /\ g[i].index < next
  BY DEF NumberedIn
<1> QED
  BY <1>1

LEMMA NumberedStep ==
    ASSUME Types, Types', Body, Numbers, Numbered
    PROVE  Numbered'
<1> DEFINE next == client.next  then == client'.next
<1>1. got \in Seq(Elements(got))
  BY GotType
<1>2. next \in Int /\ then \in Int
  BY DEF Types, Client
<1>3. NumberedIn(got, next)
  BY DEF Numbered
<1>4. InCall => LastCall(got, w.index)
  BY DEF Numbered
<1> HIDE DEF next, then
<1>5. CASE Idles
  <2>1. got' = got /\ then = next /\ (InCall' => InCall /\ w'.index = w.index)
    BY <1>5 DEF Idles, next, then
  <2> QED
    BY <1>3, <1>4, <2>1 DEF Numbered, then
<1>6. CASE Opens
  <2>1. got' = got /\ next <= then /\ ~InCall'
    BY <1>2, <1>6 DEF Opens, next, then
  <2>2. NumberedIn(got, then)
    BY <1>2, <1>3, <2>1, NumberedLater
  <2> QED
    BY <2>1, <2>2 DEF Numbered, then
<1>7. ASSUME NEW y, OpensCall(y) PROVE Numbered'
  <2>1. /\ got' = Append(got, y) /\ y.kind = "tool_use" /\ y.index = next
        /\ then = next + 1 /\ w'.index = y.index
    BY <1>7 DEF OpensCall, next, then
  <2>2. next <= then /\ next < then
    BY <1>2, <2>1
  <2>3. NumberedIn(Append(got, y), then)
    BY <1>1, <1>2, <1>3, <2>1, <2>2, NumberedMore
  <2>4. LastCall(Append(got, y), w'.index)
    BY <1>1, <2>1 DEF LastCall, ToolKinds
  <2> QED
    BY <2>1, <2>3, <2>4 DEF Numbered, then
<1>8. ASSUME NEW y, WritesItem(y) PROVE Numbered'
  <2>1. /\ got' = Append(got, y) /\ next = then /\ next <= then /\ w'.index = w.index
        /\ \/ y.kind = "input_json_delta" /\ InCall /\ y.index = w.index
           \/ y.kind \notin ToolKinds /\ ~InCall'
    BY <1>2, <1>8 DEF WritesItem, next, then
  <2>2. CASE y.kind = "input_json_delta" /\ InCall /\ y.index = w.index
    <3>1. LastCall(got, y.index)
      BY <1>4, <2>2
    <3>2. NumberedIn(Append(got, y), then)
      BY <1>1, <1>2, <1>3, <2>1, <2>2, <3>1, NumberedMore
    <3>3. LastCall(Append(got, y), w'.index)
      BY <1>1, <2>1, <2>2 DEF LastCall, ToolKinds
    <3> QED
      BY <2>1, <3>2, <3>3 DEF Numbered, then
  <2>3. CASE y.kind \notin ToolKinds /\ ~InCall'
    <3>1. NumberedIn(Append(got, y), then)
      BY <1>1, <1>2, <1>3, <2>1, <2>3, NumberedMore
    <3> QED
      BY <2>1, <2>3, <3>1 DEF Numbered, then
  <2> QED
    BY <2>1, <2>2, <2>3
<1> QED
  BY <1>5, <1>6, <1>7, <1>8 DEF Numbers

LEMMA CountedStep ==
    ASSUME Types, Types', Body, Numbers, Counted
    PROVE  Counted'
<1> DEFINE next == client.next  then == client'.next  n == Len(got)
<1>1. got \in Seq(Elements(got)) /\ n \in Nat
  BY GotType
<1>2. next \in Int /\ then \in Int /\ w.index \in Int /\ w'.index \in Int
  <2>1. next \in Int /\ then \in Int
    BY DEF Types, Client
  <2>2. w.index \in Nat /\ w'.index \in Nat
    BY DEF Types, Writer
  <2> QED
    BY <2>1, <2>2
<1>3. w.index <= next /\ next <= n + (IF Unpaid THEN 1 ELSE 0)
  BY DEF Counted
<1>4. \A y : Len(Append(got, y)) = n + 1
  BY <1>1
<1> SUFFICES w'.index <= then /\ then <= Len(got') + (IF Unpaid' THEN 1 ELSE 0)
  BY DEF Counted
<1> HIDE DEF next, then, n
<1>5. CASE Idles
  BY <1>1, <1>2, <1>3, <1>5 DEF Idles, next, then, n
<1>6. CASE Opens
  BY <1>1, <1>2, <1>3, <1>6 DEF Opens, next, then, n
<1>7. ASSUME NEW y, OpensCall(y)
      PROVE  w'.index <= then /\ then <= Len(got') + (IF Unpaid' THEN 1 ELSE 0)
  <2>1. then = next + 1 /\ w'.index = next /\ ~Unpaid /\ Len(got') = n + 1
    BY <1>4, <1>7 DEF OpensCall, next, then
  <2> QED
    BY <1>1, <1>2, <1>3, <2>1
<1>8. ASSUME NEW y, WritesItem(y)
      PROVE  w'.index <= then /\ then <= Len(got') + (IF Unpaid' THEN 1 ELSE 0)
  <2>1. then = next /\ w'.index = w.index /\ Len(got') = n + 1
    BY <1>4, <1>8 DEF WritesItem, next, then
  <2> QED
    BY <1>1, <1>2, <1>3, <2>1
<1> QED
  BY <1>5, <1>6, <1>7, <1>8 DEF Numbers

-----------------------------------------------------------------------------
(* Each step numbers what it writes.                                       *)

LEMMA StartNumbers ==
    ASSUME Types, Body, BlockInv, StartBlock
    PROVE  Numbers
<1>1. /\ HasContent /\ ~w.open /\ UNCHANGED <<chunk, k>>
      /\ pc' = (IF pc = "tool_use" THEN "args" ELSE pc)
      /\ w' = [w EXCEPT !.open = TRUE, !.type = pc]
      /\ \E d : Emit(Event("content_block_start", w.index, pc, d))
  BY DEF StartBlock
<1>2. w'.open /\ w'.index = w.index /\ w'.type = pc
  BY <1>1 DEF Types, Writer
<1>3. pc \in Blocks /\ pc \in {"thinking", "text", "tool_use"}
  BY <1>1 DEF HasContent, Blocks
<1>4. client.next = w.index /\ w.index \in Int
  <2>1. client.next = w.index
    BY <1>1 DEF BlockInv, Mirror, Pending
  <2> QED
    BY <2>1, WriterUpdates DEF Types
<1>5. client'.next = client.next + 1
  BY <1>1, <1>3, <1>4, SeesBlockStart DEF Types
<1>6. ~Unpaid
  BY <1>1 DEF Unpaid
<1>7. w'.index <= client'.next
  BY <1>2, <1>4, <1>5
<1>8. CASE pc # "tool_use"
  <2>1. Emit(Event("content_block_start", w.index, pc, ""))
    BY <1>8 DEF StartBlock
  <2>2. got' = got
    BY <1>8, <2>1, NoContent
  <2>3. ~InCall'
    BY <1>2, <1>8 DEF InCall
  <2>4. Unpaid'
    BY <1>1, <1>2, <1>3, <1>8 DEF Unpaid, HasContent
  <2> QED
    BY <1>5, <1>6, <1>7, <2>2, <2>3, <2>4 DEF Numbers, Opens
<1>9. CASE pc = "tool_use"
  <2> DEFINE id == chunk.tools[k].id
             y == [kind |-> "tool_use", data |-> id, index |-> w.index]
  <2>1. Emit(Event("content_block_start", w.index, "tool_use", id))
    BY <1>9 DEF StartBlock
  <2>2. got' = Append(got, y)
    BY <2>1, CallContent
  <2>3. y.kind = "tool_use" /\ y.index = w.index
    OBVIOUS
  <2> HIDE DEF y
  <2>4. OpensCall(y)
    BY <1>2, <1>4, <1>5, <1>6, <2>2, <2>3 DEF OpensCall
  <2> QED
    BY <2>4 DEF Numbers
<1> QED
  BY <1>8, <1>9

LEMMA DeltaNumbers ==
    ASSUME Types, Body, WriteDelta
    PROVE  Numbers
<1> DEFINE y == [kind |-> DeltaOf(pc), data |-> "", index |-> w.index]
<1>1. /\ pc \in {"thinking", "text"} /\ w.type = pc /\ w' = w
      /\ Emit(Event("content_block_delta", w.index, DeltaOf(pc), ""))
  BY DEF WriteDelta
<1>2. DeltaOf(pc) \in DeltaKinds /\ DeltaOf(pc) \notin ToolKinds
  BY <1>1 DEF DeltaOf, DeltaKinds, ToolKinds
<1>3. got' = Append(got, y)
  BY <1>1, <1>2, DeltaContent
<1>4. client'.next = client.next
  BY <1>1, SeesOther DEF Types
<1>5. y.kind = DeltaOf(pc)
  OBVIOUS
<1> HIDE DEF y
<1>6. ~InCall'
  BY <1>1 DEF InCall
<1>7. WritesItem(y)
  BY <1>1, <1>2, <1>3, <1>4, <1>5, <1>6 DEF WritesItem
<1> QED
  BY <1>7 DEF Numbers

LEMMA ArgumentsNumber ==
    ASSUME Types, Body, BlockInv, Counted, WriteArguments
    PROVE  Numbers
<1>1. pc = "args" /\ pc' = "tool_use" /\ w' = w
  BY DEF WriteArguments
<1>2. InCall
  BY <1>1 DEF BlockInv, Position
<1>3. CASE ~chunk.tools[k].args
  <2>1. sse' = sse /\ client' = client
    BY <1>3 DEF WriteArguments, Quiet
  <2>2. got' = got
    BY <2>1 DEF got, Parsed
  <2>3. ~Unpaid
    BY <1>1 DEF Unpaid
  <2> QED
    BY <1>1, <1>2, <2>1, <2>2, <2>3 DEF Numbers, Idles, Counted
<1>4. CASE chunk.tools[k].args
  <2> DEFINE y == [kind |-> "input_json_delta", data |-> "", index |-> w.index]
  <2>1. Emit(Event("content_block_delta", w.index, "input_json_delta", ""))
    BY <1>4 DEF WriteArguments
  <2>2. "input_json_delta" \in DeltaKinds
    BY DEF DeltaKinds
  <2>3. got' = Append(got, y)
    BY <2>1, <2>2, DeltaContent
  <2>4. client'.next = client.next
    BY <2>1, SeesOther DEF Types
  <2>5. y.kind = "input_json_delta" /\ y.index = w.index
    OBVIOUS
  <2> HIDE DEF y
  <2>6. WritesItem(y)
    BY <1>1, <1>2, <2>3, <2>4, <2>5 DEF WritesItem
  <2> QED
    BY <2>6 DEF Numbers
<1> QED
  BY <1>3, <1>4

LEMMA FinishNumbers ==
    ASSUME Types, Body, WriteMessageDelta
    PROVE  Numbers
<1> DEFINE r == mapFinishReason(chunk.finish)
           y == [kind |-> "finish", index |-> -1,
                 data |-> mapStopReasonToFinishReason(r)]
<1>1. ~w.open /\ w' = w /\ Emit(Event("message_delta", -1, "", r))
  BY DEF WriteMessageDelta
<1>2. got' = Append(got, y)
  BY <1>1, FinishContent
<1>3. client'.next = client.next
  BY <1>1, SeesOther DEF Types
<1>4. y.kind = "finish"
  OBVIOUS
<1> HIDE DEF y
<1>5. ~InCall' /\ y.kind \notin ToolKinds
  BY <1>1, <1>4 DEF InCall, ToolKinds
<1>6. WritesItem(y)
  BY <1>1, <1>2, <1>3, <1>5 DEF WritesItem
<1> QED
  BY <1>6 DEF Numbers

\* A stop closes its block; the next block takes the next index.
LEMMA StopIdles ==
    ASSUME Types, Body, BlockInv, Counted, CloseBlock \/ CloseLastBlock
    PROVE  Numbers
<1>1. w.open /\ Emit(Event("content_block_stop", w.index, "", ""))
  BY DEF CloseBlock, CloseLastBlock
<1>2. w.index \in Int /\ client.next \in Int
  BY WriterUpdates DEF Types, Client
<1>3. client'.next = client.next
  BY <1>1, <1>2, SeesBlockStop DEF Types
<1>4. got' = got
  BY <1>1, NoContent
<1>5. client.next = w.index + 1
  BY <1>1 DEF BlockInv, Mirror
<1>6. ~w'.open /\ (w'.index = w.index + 1 \/ w'.index = w.index)
  <2>1. CASE CloseBlock
    <3>1. w' = [w EXCEPT !.open = FALSE, !.index = @ + 1]
      BY <2>1 DEF CloseBlock
    <3> QED
      BY <3>1 DEF Types, Writer
  <2>2. CASE CloseLastBlock
    <3>1. w' = [w EXCEPT !.open = FALSE]
      BY <2>2 DEF CloseLastBlock
    <3> QED
      BY <3>1 DEF Types, Writer
  <2> QED
    BY <2>1, <2>2
<1>7. ~InCall'
  BY <1>6 DEF InCall
<1>8. ~Unpaid
  BY DEF Unpaid, CloseBlock, CloseLastBlock
<1>9. w'.index <= client'.next
  BY <1>2, <1>3, <1>5, <1>6
<1> QED
  BY <1>3, <1>4, <1>7, <1>8, <1>9 DEF Numbers, Idles

\* Steps that leave the writer's record alone and write no content.
LEMMA OtherIdles ==
    ASSUME Types, Counted, got' = got, client'.next = client.next,
           w'.index = w.index, w'.open = w.open, w'.type = w.type,
           Unpaid => Unpaid'
    PROVE  Numbers
BY DEF Numbers, Idles, InCall, Counted

LEMMA NextNumbers ==
    ASSUME Types, Body, BlockInv, Counted, [Next]_vars
    PROVE  Numbers
<1>1. CASE EachReturns
  <2>1. Emit(Event("message_stop", -1, "", "")) /\ w' = w /\ pc = "each"
    BY <1>1 DEF EachReturns
  <2>2. got' = got /\ client'.next = client.next /\ ~Unpaid
    BY <2>1, NoContent, SeesMessageStop DEF Types, Unpaid
  <2> QED
    BY <2>1, <2>2, OtherIdles
<1>2. CASE WriteError
  <2>1. Emit(Event("error", -1, "", "")) /\ w' = w /\ pc = "error"
    BY <1>2 DEF WriteError
  <2>2. got' = got /\ client'.next = client.next /\ ~Unpaid
    BY <2>1, NoContent, SeesOther DEF Types, Unpaid
  <2> QED
    BY <2>1, <2>2, OtherIdles
<1>3. CASE WriteMessageStart
  <2>1. /\ Emit(Event("message_start", -1, "", "")) /\ pc = "start"
        /\ w' = [w EXCEPT !.started = TRUE]
    BY <1>3 DEF WriteMessageStart
  <2>2. w'.index = w.index /\ w'.open = w.open /\ w'.type = w.type
    BY <2>1 DEF Types, Writer
  <2>3. got' = got /\ client'.next = client.next /\ ~Unpaid
    BY <2>1, NoContent, SeesMessageStart DEF Types, Unpaid
  <2> QED
    BY <2>2, <2>3, OtherIdles
<1>4. CASE \/ \E c \in Chunks : Each(c)
           \/ MessageStarted \/ NoDelta \/ ContinueTool \/ ToolsWritten
  <2>1. sse' = sse /\ client' = client /\ w' = w /\ ~Unpaid
    BY <1>4 DEF Each, MessageStarted, NoDelta, ContinueTool, ToolsWritten, Quiet, Unpaid
  <2>2. got' = got
    BY <2>1 DEF got, Parsed
  <2> QED
    BY <2>1, <2>2, OtherIdles
<1>5. CASE Returned \/ UNCHANGED vars
  <2>1. UNCHANGED <<pc, chunk, k, w, client, sse>>
    BY <1>5 DEF Returned, vars
  <2>2. got' = got /\ Unpaid' = Unpaid
    BY <2>1 DEF got, Parsed, Unpaid, HasContent
  <2> QED
    BY <2>1, <2>2, OtherIdles
<1> QED
  BY <1>1, <1>2, <1>3, <1>4, <1>5, StartNumbers, DeltaNumbers, ArgumentsNumber,
     FinishNumbers, StopIdles DEF Next

LEMMA NumberedInit == Init => Numbered /\ Counted
<1> SUFFICES ASSUME Init PROVE Numbered /\ Counted
  OBVIOUS
<1>1. sse = <<>> /\ pc = "each" /\ w.index = 0 /\ ~w.open /\ client.next = 0
  BY DEF Init
<1>2. Parsed = <<>>
  <2>1. [i \in DOMAIN sse |-> parseSSEEventToResponse(sse[i])] = <<>>
    BY <1>1
  <2> QED
    BY <2>1, FlattenEmpty DEF Parsed
<1>3. got = <<>>
  BY <1>2, KeptEmpty DEF got, Kept
<1>4. Len(got) = 0 /\ 1 .. Len(got) = {}
  BY <1>3, ShortSequences
<1> QED
  BY <1>1, <1>4 DEF Numbered, NumberedIn, Counted, InCall, Unpaid

LEMMA ToolsReassembleIs ==
    ASSUME Body, Numbered
    PROVE  ToolsReassemble
<1>1. got \in Seq(Elements(got))
  BY GotType
<1>2. DOMAIN got = 1 .. Len(got)
  BY <1>1
<1>3. NumberedIn(got, client.next)
  BY DEF Numbered
<1> QED
  BY <1>2, <1>3 DEF ToolsReassemble, NumberedIn, ToolKinds

-----------------------------------------------------------------------------
(* The bounds.                                                             *)

\* What is counted of the provider's stream.
Sent == last \in {"", "prose", "call", "finish"} /\ chunks \in 0 .. MaxChunks

LEMMA SentInit == Init => Sent
<1>1. MaxChunks \in Nat
  BY BoundAssumption
<1>2. 0 \in 0 .. MaxChunks
  BY <1>1
<1> QED
  BY <1>2 DEF Init, Sent

LEMMA SentStep ==
    ASSUME Sent, [Next]_vars
    PROVE  Sent'
<1>1. CASE \E c \in Chunks : Each(c)
  <2>1. /\ chunks < MaxChunks /\ chunks' = chunks + 1
        /\ last' \in {last, "finish", "call", "prose"}
    BY <1>1 DEF Each
  <2>3. MaxChunks \in Nat
    BY BoundAssumption
  <2>4. chunks \in 0 .. MaxChunks
    BY DEF Sent
  <2>2. chunks' \in 0 .. MaxChunks
    BY <2>1, <2>3, <2>4
  <2> QED
    BY <2>1, <2>2 DEF Sent
<1>2. CASE UNCHANGED sent
  BY <1>2 DEF Sent, sent
<1> QED
  BY <1>1, <1>2 DEF Next, EachReturns, WriteError, WriteMessageStart, MessageStarted,
     CloseBlock, StartBlock, WriteDelta, NoDelta, ContinueTool, WriteArguments,
     ToolsWritten, CloseLastBlock, WriteMessageDelta, Returned, vars

\* A block that was started owes its delta, so no more of them were started than
\* items were sent.
LEMMA NoMoreThanSent ==
    ASSUME Types, Body, Owed, Counted
    PROVE  /\ Len(fed) \in Nat /\ w.index \in 0 .. Len(fed)
           /\ client.next \in 0 .. Len(fed)
<1>1. PICK f \in Seq(FedItem) : fed = f \o Rest /\ Gives(got, f)
  BY DEF Owed
<1>2. Rest \in Seq(FedItem) /\ Len(Rest) \in Nat
  BY RestType
<1>3. Len(fed) = Len(got) + Len(Rest) /\ Len(got) \in Nat
  BY <1>1, <1>2 DEF Gives
<1>4. Unpaid => Len(Rest) > 0
  <2> SUFFICES ASSUME Unpaid PROVE Len(Rest) > 0
    OBVIOUS
  <2> DEFINE b == TextPart(chunk)  d == CallsFrom(chunk, 1)  r == FinishPart(chunk)
  <2>1. b \in Seq(FedItem) /\ d \in Seq(FedItem) /\ r \in Seq(FedItem)
    BY RestPieces
  <2>2. CASE pc = "thinking"
    <3> DEFINE x == Item("thinking_delta", "")
    <3>1. ThinkPart(chunk) = <<x>>
      BY <2>2 DEF Unpaid, HasContent, ThinkPart
    <3>2. Rest = <<x>> \o (b \o (d \o r))
      BY <2>2, <3>1 DEF Rest, RestOf
    <3> HIDE DEF b, d, r, x
    <3> QED
      BY <2>1, <3>2
  <2>3. CASE pc = "text"
    <3> DEFINE x == Item("text_delta", "")
    <3>1. TextPart(chunk) = <<x>>
      BY <2>3 DEF Unpaid, HasContent, TextPart
    <3>2. Rest = <<x>> \o (d \o r)
      BY <2>3, <3>1 DEF Rest, RestOf
    <3> HIDE DEF b, d, r, x
    <3> QED
      BY <2>1, <3>2
  <2> QED
    BY <2>2, <2>3 DEF Unpaid
<1>5. w.index \in Nat /\ client.next \in Int
  BY WriterUpdates DEF Types, Client
<1>6. w.index <= client.next /\ client.next <= Len(got) + (IF Unpaid THEN 1 ELSE 0)
  BY DEF Counted
<1> QED
  BY <1>2, <1>3, <1>4, <1>5, <1>6

LEMMA TypeOKIs ==
    ASSUME Types, BlockInv, Body, Owed, Counted, Sent
    PROVE  TypeOK
<1> DEFINE n == Len(fed)
<1>1. n \in Nat /\ w.index \in 0 .. n /\ client.next \in 0 .. n
  BY NoMoreThanSent
<1>2. client.open = w.index \/ client.open = -1
  BY DEF BlockInv, Mirror
<1>3. client.open \in -1 .. n
  BY <1>1, <1>2
<1> HIDE DEF n
<1>4. w \in [started : BOOLEAN, open : BOOLEAN, index : 0 .. n, type : Blocks \cup {""}]
  BY <1>1 DEF Types, Writer
<1>5. client \in [ok : BOOLEAN, started : BOOLEAN, stopped : BOOLEAN,
                  open : -1 .. n, next : 0 .. n, type : Blocks \cup {""}]
  BY <1>1, <1>3 DEF Types, Client
<1>6. k \in 1 .. Len(chunk.tools) + 1
  <2>1. Len(chunk.tools) \in Nat
    BY ChunkFields DEF Types
  <2> QED
    BY <2>1 DEF Types
<1> QED
  BY <1>4, <1>5, <1>6 DEF TypeOK, Types, Sent, n

-----------------------------------------------------------------------------
(* The theorems.                                                           *)

\* The whole invariant of a stream.
Faithful == Body /\ Owed /\ Numbered /\ Counted /\ Sent

LEMMA FaithfulStep ==
    ASSUME Types, BlockInv, Faithful, [Next]_vars
    PROVE  Faithful'
<1>1. Types'
  BY TypesStep
<1>2. Body /\ Owed /\ Numbered /\ Counted /\ Sent
  BY DEF Faithful
<1>3. Body'
  BY <1>2, NextExtends, BodyGrows
<1>4. Owed'
  BY <1>2, NextProgress, OwedStep
<1>5. Numbers
  BY <1>2, NextNumbers
<1>6. Numbered' /\ Counted'
  BY <1>1, <1>2, <1>5, NumberedStep, CountedStep
<1>7. Sent'
  BY <1>2, SentStep
<1> QED
  BY <1>3, <1>4, <1>6, <1>7 DEF Faithful

\* What is written is what was sent up to the next item, and every block was
\* started for an item, in every state of a stream.
THEOREM StreamIsFaithful == Spec => []Faithful
<1>1. Init => Faithful
  BY EmptyBody, OwedInit, NumberedInit, SentInit DEF Faithful
<1>2. Types /\ BlockInv /\ Faithful /\ [Next]_vars => Faithful'
  BY FaithfulStep
<1> QED
  BY <1>1, <1>2, StreamInvariant, PTL DEF Spec

\* Whenever no chunk is in hand, parsing the events gives back every item the
\* provider sent, in order and once, and the finish reason as far as Anthropic
\* has a name for it.
THEOREM ItemsComeBack == Spec => []RoundTrip
<1>1. Faithful => RoundTrip
  BY RoundTripIs DEF Faithful
<1> QED
  BY <1>1, StreamIsFaithful, PTL

\* However many calls are made, and in however many pieces their arguments
\* arrive, merging by Index gives every piece to the call it was sent for.
THEOREM CallsReassemble == Spec => []ToolsReassemble
<1>1. Faithful => ToolsReassemble
  BY ToolsReassembleIs DEF Faithful
<1> QED
  BY <1>1, StreamIsFaithful, PTL

\* Types and bounds: no block index passes the number of items sent.
THEOREM StreamTypes == Spec => []TypeOK
<1>1. Types /\ BlockInv /\ Faithful => TypeOK
  BY TypeOKIs DEF Faithful
<1> QED
  BY <1>1, StreamInvariant, StreamIsFaithful, PTL

-----------------------------------------------------------------------------
(* Behind the pipe.                                                        *)

\* The pipe takes no part in the writing: it implements AnthropicStream, with
\* its own steps as stuttering ones.
THEOREM PipeImplementsStream == PipeSpec => Spec
<1>1. PipeInit => Init
  BY DEF PipeInit
<1>2. [PipeNext]_pipeVars => [Next]_vars
  <2> SUFFICES ASSUME [PipeNext]_pipeVars PROVE Next \/ UNCHANGED vars
    OBVIOUS
  <2>1. CASE UNCHANGED pipeVars \/ Over
    BY <2>1 DEF Over, pipeVars
  <2>2. CASE Write
    BY <2>2 DEF Write
  <2>3. CASE Goroutine
    BY <2>3 DEF Goroutine, ScanEvent, ScanData, ScanEmpty, Scan, ScanEnds, Send
  <2>4. CASE Reader \/ TooLong \/ ReaderStops \/ Break
    BY <2>4 DEF Reader, Receive, ReceiveClosed, TooLong, ReaderStops, Break
  <2> QED
    BY <2>1, <2>2, <2>3, <2>4 DEF PipeNext
<1> QED
  BY <1>1, <1>2, PTL DEF PipeSpec, Spec

\* The events of a stream nest however slowly they are read, and wherever the
\* connection breaks.
THEOREM BlocksNestInPipe == PipeSpec => []BlockDiscipline
BY PipeImplementsStream, BlocksNest, PTL

\* Nor does the pipe change what the body says: every item, and every piece of
\* arguments with its call.
THEOREM PipeRoundTrip == PipeSpec => [](RoundTrip /\ ToolsReassemble)
BY PipeImplementsStream, ItemsComeBack, CallsReassemble, PTL

-----------------------------------------------------------------------------
(* The goroutine.                                                          *)

\* An event has three lines.
LEMMA Lines ==
    ASSUME NEW n \in Nat, NEW m \in Nat, n < 3 * m
    PROVE  /\ n % 3 = 0 => (n + 1) % 3 = 1 /\ (n + 1) \div 3 = n \div 3
           /\ n % 3 = 1 => (n + 1) % 3 = 2
           /\ n % 3 = 2 => (n + 1) % 3 = 0
           /\ (n \div 3) + 1 \in 1 .. m
OBVIOUS

\* Between an event line and its data line currentEvent is that event, and
\* what waits to be sent is what the event of the line just read yields.
OwnEvent ==
    /\ read % 3 = 1 => currentEvent = LineEvent.type
    /\ goroutine = "send" => read % 3 = 2 /\ item = parseSSEEventToResponse(LineEvent)

Scanner ==
    /\ Body /\ PipeShape /\ OwnEvent
    /\ ch \in Seq(Elements(ch)) /\ item \in Seq(Elements(item))

LEMMA ScannerInit == PipeInit => Scanner
<1> SUFFICES ASSUME PipeInit PROVE Scanner
  OBVIOUS
<1>1. sse = <<>> /\ ch = <<>> /\ item = <<>>
  BY DEF PipeInit, Init
<1>2. Body /\ ch \in Seq(Elements(ch)) /\ item \in Seq(Elements(item))
  BY <1>1 DEF Body, Elements
<1>3. read = 0 /\ Len(sse) = 0 /\ Len(ch) = 0 /\ Len(item) = 0
  BY <1>1 DEF PipeInit
<1>4. PipeShape
  <2>1. goroutine = "scan" /\ closed = FALSE /\ reader = "reading" /\ broken = FALSE
    BY DEF PipeInit
  <2>2. 0 \in 0 .. Written /\ 0 \in 0 .. Capacity
    BY <1>3, PipeAssumption DEF Written
  <2> QED
    BY <1>3, <2>1, <2>2 DEF PipeShape
<1>5. OwnEvent
  <2>1. goroutine = "scan"
    BY DEF PipeInit
  <2>2. read % 3 = 0
    <3>1. 0 % 3 = 0
      OBVIOUS
    <3> QED
      BY <1>3, <3>1
  <2> QED
    BY <2>1, <2>2 DEF OwnEvent
<1> QED
  BY <1>2, <1>4, <1>5 DEF Scanner

\* The writer goes on while the goroutine stands at a line.
LEMMA WriteScanner == ASSUME Scanner, Write PROVE Scanner'
<1>1. Extended /\ UNCHANGED <<scanner, others>>
  BY NextExtends DEF Write
<1>2. /\ Body' /\ Len(sse) \in Nat /\ Len(sse') \in Nat /\ Len(sse) <= Len(sse')
      /\ \A i \in 1 .. Len(sse) : sse'[i] = sse[i]
  BY <1>1, BodyGrows DEF Scanner
<1>3. read \in Nat /\ read <= 3 * Len(sse)
  BY <1>2 DEF Scanner, PipeShape, Written
<1>4. PipeShape'
  BY <1>1, <1>2, <1>3 DEF Scanner, PipeShape, Written, scanner, others
<1>5. read % 3 \in {1, 2} => LineEvent' = LineEvent
  <2> SUFFICES ASSUME read % 3 \in {1, 2} PROVE LineEvent' = LineEvent
    OBVIOUS
  <2>1. read < 3 * Len(sse)
    BY <1>2, <1>3
  <2>2. (read \div 3) + 1 \in 1 .. Len(sse)
    BY <1>2, <1>3, <2>1, Lines
  <2> QED
    BY <1>1, <1>2, <2>2 DEF LineEvent, scanner
<1>6. OwnEvent'
  BY <1>1, <1>5 DEF Scanner, OwnEvent, scanner
<1> QED
  BY <1>1, <1>2, <1>4, <1>6 DEF Scanner, Elements, scanner

\* A line is scanned.
LEMMA ScanScanner ==
    ASSUME Scanner, ScanEvent \/ ScanData \/ ScanEmpty
    PROVE  Scanner'
<1>1. /\ goroutine = "scan" /\ read < 3 * Len(sse) /\ read' = read + 1
      /\ UNCHANGED <<sse, ch, closed, reader, broken>>
  BY DEF ScanEvent, ScanData, ScanEmpty, Scan, Written, vars, others
<1>2. /\ Len(sse) \in Nat /\ read \in Nat /\ Len(item) = 0
      /\ item \in Seq(Elements(item))
  BY <1>1 DEF Scanner, PipeShape, Written, Body
<1>3. /\ read % 3 = 0 => (read + 1) % 3 = 1 /\ (read + 1) \div 3 = read \div 3
      /\ read % 3 = 1 => (read + 1) % 3 = 2
      /\ read % 3 = 2 => (read + 1) % 3 = 0
      /\ (read \div 3) + 1 \in 1 .. Len(sse)
  BY <1>1, <1>2, Lines
<1>4. Body' /\ ch' \in Seq(Elements(ch'))
  BY <1>1 DEF Scanner, Body, Elements, IsEvent
<1>5. read' \in 0 .. Written'
  BY <1>1, <1>2 DEF Written
<1>6. CASE ScanEvent
  <2>1. read % 3 = 0 /\ currentEvent' = LineEvent.type /\ UNCHANGED <<goroutine, item>>
    BY <1>6 DEF ScanEvent, Scan
  <2>2. OwnEvent'
    BY <1>1, <1>3, <2>1 DEF OwnEvent, LineEvent
  <2>3. PipeShape'
    BY <1>1, <1>5, <2>1 DEF Scanner, PipeShape
  <2> QED
    BY <1>4, <2>1, <2>2, <2>3 DEF Scanner, Elements
<1>7. CASE ScanData
  <2>1. /\ read % 3 = 1
        /\ item' = parseSSEEventToResponse([LineEvent EXCEPT !.type = currentEvent])
        /\ goroutine' = IF item' = <<>> THEN "scan" ELSE "send"
    BY <1>7 DEF ScanData, Scan
  <2>2. LineEvent = sse[(read \div 3) + 1] /\ IsEvent(LineEvent)
    BY <1>2, <1>3 DEF Scanner, Body, LineEvent
  <2>3. [LineEvent EXCEPT !.type = currentEvent] = LineEvent
    BY <2>1, <2>2 DEF Scanner, OwnEvent, IsEvent, Event
  <2>4. LineEvent' = LineEvent
    <3>1. (read + 1) \div 3 = read \div 3
      BY <1>2, <2>1
    <3> QED
      BY <1>1, <3>1 DEF LineEvent
  <2>5. item' = parseSSEEventToResponse(LineEvent')
    BY <2>1, <2>3, <2>4
  <2>6. item' = <<>> \/ \E x : item' = <<x>>
    BY <2>5, AtMostOne
  <2>7. /\ item' \in Seq(Elements(item'))
        /\ Len(item') = (IF goroutine' = "send" THEN 1 ELSE 0)
    <3>1. CASE item' = <<>>
      BY <2>1, <3>1
    <3>2. CASE \E x : item' = <<x>>
      <4>1. PICK x : item' = <<x>>
        BY <3>2
      <4>2. item' \in Seq({x}) /\ Len(item') = 1 /\ item' # <<>>
        BY <4>1
      <4> QED
        BY <2>1, <4>2, SequenceOfItsElements
    <3> QED
      BY <2>6, <3>1, <3>2
  <2>8. OwnEvent'
    BY <1>1, <1>3, <2>1, <2>5 DEF OwnEvent
  <2>9. PipeShape'
    BY <1>1, <1>5, <2>1, <2>7 DEF Scanner, PipeShape
  <2> QED
    BY <1>4, <2>7, <2>8, <2>9 DEF Scanner, Elements
<1>8. CASE ScanEmpty
  <2>1. read % 3 = 2 /\ UNCHANGED <<goroutine, item>>
    BY <1>8 DEF ScanEmpty, Scan
  <2>2. OwnEvent'
    BY <1>1, <1>3, <2>1 DEF OwnEvent
  <2>3. PipeShape'
    BY <1>1, <1>5, <2>1 DEF Scanner, PipeShape
  <2> QED
    BY <1>4, <2>1, <2>2, <2>3 DEF Scanner, Elements
<1> QED
  BY <1>6, <1>7, <1>8

LEMMA SendScanner == ASSUME Scanner, Send PROVE Scanner'
<1>1. /\ goroutine = "send" /\ goroutine' = "scan" /\ Len(ch) < Capacity
      /\ ch' = ch \o item /\ item' = <<>>
      /\ UNCHANGED <<sse, read, currentEvent, closed, reader, broken>>
  BY DEF Send, vars, others
<1>2. /\ ch \in Seq(Elements(ch) \cup Elements(item))
      /\ item \in Seq(Elements(ch) \cup Elements(item))
      /\ Len(item) = 1 /\ Len(ch) \in Nat /\ Capacity \in Nat
  BY <1>1, PipeAssumption DEF Scanner, PipeShape
<1>3. /\ ch' \in Seq(Elements(ch) \cup Elements(item))
      /\ Len(ch') = Len(ch) + 1
  <2> DEFINE S == Elements(ch) \cup Elements(item)
  <2>1. ch \in Seq(S) /\ item \in Seq(S)
    BY <1>2
  <2> HIDE DEF S
  <2>2. ch \o item \in Seq(S) /\ Len(ch \o item) = Len(ch) + Len(item)
    BY <2>1
  <2>3. Len(ch \o item) = Len(ch) + 1
    BY <1>2, <2>2
  <2> QED
    BY <1>1, <2>2, <2>3 DEF S
<1>4. ch' \in Seq(Elements(ch'))
  BY <1>3, SequenceOfItsElements
<1>5. item' \in Seq(Elements(item')) /\ Len(item') = 0
  BY <1>1
<1>6. Body' /\ Written' = Written /\ LineEvent' = LineEvent
  BY <1>1 DEF Scanner, Body, Elements, IsEvent, Written, LineEvent
<1>7. PipeShape'
  BY <1>1, <1>2, <1>3, <1>5, <1>6 DEF Scanner, PipeShape
<1>8. OwnEvent'
  BY <1>1, <1>6 DEF Scanner, OwnEvent
<1> QED
  BY <1>4, <1>5, <1>6, <1>7, <1>8 DEF Scanner, Elements

\* The reader, the connection and the end leave the lines alone.
LEMMA OtherScanner ==
    ASSUME Scanner,
           \/ Receive \/ ReceiveClosed \/ TooLong \/ ReaderStops \/ Break
           \/ ScanEnds \/ UNCHANGED pipeVars
    PROVE  Scanner'
<1>1. UNCHANGED <<sse, read, currentEvent, item>>
  BY DEF Receive, ReceiveClosed, TooLong, ReaderStops, Break, ScanEnds, pipeVars,
         vars, scanner, others
<1>2. Body' /\ Written' = Written /\ LineEvent' = LineEvent
  BY <1>1 DEF Scanner, Body, Elements, IsEvent, Written, LineEvent
<1>3. /\ goroutine' = goroutine \/ (goroutine = "scan" /\ goroutine' = "done")
      /\ closed' \in BOOLEAN /\ broken' \in BOOLEAN
      /\ reader' \in {"reading", "stopped", "ended"}
  BY DEF Receive, ReceiveClosed, TooLong, ReaderStops, Break, ScanEnds, pipeVars,
         vars, scanner, others, Scanner, PipeShape
<1>4. ch' \in Seq(Elements(ch')) /\ Len(ch') \in 0 .. Capacity
  <2>1. CASE ch' = ch
    BY <2>1 DEF Scanner, PipeShape, Elements
  <2>2. CASE Receive
    <3>1. ch # <<>> /\ ch' = Tail(ch) /\ ch \in Seq(Elements(ch))
      BY <2>2 DEF Receive, Scanner
    <3>2. ch' \in Seq(Elements(ch)) /\ Len(ch') = Len(ch) - 1
      BY <3>1
    <3>3. Len(ch) \in 0 .. Capacity /\ Len(ch) # 0 /\ Capacity \in Nat
      BY <3>1, PipeAssumption DEF Scanner, PipeShape
    <3> QED
      BY <3>2, <3>3, SequenceOfItsElements
  <2> QED
    BY <2>1, <2>2 DEF ReceiveClosed, TooLong, ReaderStops, Break, ScanEnds, pipeVars,
                      scanner
<1>5. PipeShape'
  BY <1>1, <1>2, <1>3, <1>4 DEF Scanner, PipeShape
<1>6. OwnEvent'
  BY <1>1, <1>2, <1>3 DEF Scanner, OwnEvent
<1> QED
  BY <1>1, <1>2, <1>4, <1>5, <1>6 DEF Scanner, Elements

\* However writer, connection, goroutine and reader interleave: at most Capacity
\* responses wait, and each one that is sent is what its event yields under the
\* event line it came with, never under that of another (ParseSSEStream).
THEOREM EachUnderItsEvent == PipeSpec => [](PipeShape /\ OwnEvent)
<1>1. Scanner /\ [PipeNext]_pipeVars => Scanner'
  BY WriteScanner, ScanScanner, SendScanner, OtherScanner
     DEF PipeNext, Goroutine, Reader, Over
<1>2. Scanner => PipeShape /\ OwnEvent
  BY DEF Scanner
<1> QED
  BY <1>1, <1>2, ScannerInit, PTL DEF PipeSpec

-----------------------------------------------------------------------------
(* Nothing is lost.                                                        *)

Finished == (read + 1) \div 3

\* The queue from the goroutine to the reader.
Queue ==
    /\ received \in Seq(Elements(received))
    /\ (received \o ch) \o item = Yield(sse, Finished)

LEMMA QueueIs == Queue => NothingLost
BY DEF Queue, NothingLost, Yield, Finished

\* The data line completes what an event yields.
LEMMA DataLine ==
    ASSUME NEW n \in Nat
    PROVE  /\ (n + 1) \div 3 \in Nat
           /\ n % 3 = 0 => ((n + 1) + 1) \div 3 = (n + 1) \div 3
           /\ n % 3 = 2 => ((n + 1) + 1) \div 3 = (n + 1) \div 3
           /\ n % 3 = 1 => /\ ((n + 1) + 1) \div 3 = ((n + 1) \div 3) + 1
                           /\ (n + 1) \div 3 = n \div 3
OBVIOUS

LEMMA QueueInit == PipeInit => Queue
<1> SUFFICES ASSUME PipeInit PROVE Queue
  OBVIOUS
<1>1. received = <<>> /\ ch = <<>> /\ item = <<>> /\ read = 0
  BY DEF PipeInit
<1>2. Finished = 0
  BY <1>1 DEF Finished
<1>3. (<<>> \o <<>>) \o <<>> = <<>> /\ <<>> \in Seq(Elements(<<>>))
  BY DEF Elements
<1> QED
  BY <1>1, <1>2, <1>3, YieldNone DEF Queue

LEMMA QueueStep == Scanner /\ Queue /\ [PipeNext]_pipeVars => Queue'
<1> SUFFICES ASSUME Scanner, Queue, [PipeNext]_pipeVars PROVE Queue'
  OBVIOUS
<1> DEFINE S == Elements(received) \cup Elements(ch) \cup Elements(item)
<1>0. /\ received \in Seq(S) /\ ch \in Seq(S) /\ item \in Seq(S)
      /\ read \in Nat /\ Len(sse) \in Nat /\ read <= 3 * Len(sse)
  <2>1. /\ received \in Seq(Elements(received)) /\ ch \in Seq(Elements(ch))
        /\ item \in Seq(Elements(item))
    BY DEF Scanner, Queue
  <2>2. Len(sse) \in Nat
    BY DEF Scanner, Body
  <2>3. read \in 0 .. 3 * Len(sse)
    BY DEF Scanner, PipeShape, Written
  <2> QED
    BY <2>1, <2>2, <2>3
<1>1. CASE Write
  <2>1. UNCHANGED <<received, ch, item, read>> /\ Extended
    BY <1>1, NextExtends DEF Write, scanner, others
  <2>2. \A i \in 1 .. Len(sse) : sse'[i] = sse[i]
    BY <2>1, BodyGrows DEF Scanner
  <2>3. Finished \in 0 .. Len(sse) /\ Finished' = Finished
    BY <1>0, <2>1 DEF Finished
  <2>4. Yield(sse, Finished) = Yield(sse', Finished)
    <3>1. Finished \in Nat /\ \A i \in 1 .. Finished : sse[i] = sse'[i]
      BY <1>0, <2>2, <2>3
    <3> QED
      BY <3>1, YieldSame
  <2> QED
    BY <2>1, <2>3, <2>4 DEF Queue, Elements, Yield
<1>2. CASE ScanEvent \/ ScanEmpty
  <2>1. /\ UNCHANGED <<received, ch, item, sse>> /\ read' = read + 1
        /\ read % 3 \in {0, 2}
    BY <1>2 DEF ScanEvent, ScanEmpty, Scan, others, vars
  <2>2. Finished' = Finished
    BY <1>0, <2>1, DataLine DEF Finished
  <2> QED
    BY <2>1, <2>2 DEF Queue, Elements, Yield
<1>3. CASE ScanData
  <2>1. /\ UNCHANGED <<received, ch, sse>> /\ read' = read + 1 /\ read % 3 = 1
        /\ goroutine = "scan" /\ read < 3 * Len(sse)
        /\ item' = parseSSEEventToResponse([LineEvent EXCEPT !.type = currentEvent])
    BY <1>3 DEF ScanData, Scan, others, vars, Written
  <2>2. item = <<>>
    BY <1>0, <2>1 DEF Scanner, PipeShape
  <2>3. LineEvent = sse[(read \div 3) + 1] /\ IsEvent(LineEvent)
    <3>1. (read \div 3) + 1 \in 1 .. Len(sse)
      BY <1>0, <2>1, Lines
    <3> QED
      BY <1>0, <3>1 DEF Scanner, Body, LineEvent
  <2>4. [LineEvent EXCEPT !.type = currentEvent] = LineEvent
    BY <2>1, <2>3 DEF Scanner, OwnEvent, IsEvent, Event
  <2>5. Finished' = Finished + 1 /\ Finished \in Nat /\ Finished = read \div 3
    BY <1>0, <2>1, DataLine DEF Finished
  <2>6. item' = parseSSEEventToResponse(sse[Finished + 1])
    BY <2>1, <2>3, <2>4, <2>5
  <2>7. Yield(sse, Finished + 1) = Yield(sse, Finished) \o item'
    BY <2>5, <2>6, YieldNext
  <2>8. (received \o ch) \o item = received \o ch
    <3> HIDE DEF S
    <3> QED
      BY <1>0, <2>2
  <2>9. (received \o ch) \o item' = Yield(sse, Finished) \o item'
    BY <2>8 DEF Queue
  <2> QED
    BY <2>1, <2>5, <2>7, <2>9 DEF Queue, Elements
<1>4. CASE Send
  <2>1. /\ UNCHANGED <<received, sse, read>> /\ ch' = ch \o item /\ item' = <<>>
    BY <1>4 DEF Send, others, vars
  <2>2. (received \o (ch \o item)) \o <<>> = (received \o ch) \o item
    <3> HIDE DEF S
    <3>0. received \in Seq(S) /\ ch \in Seq(S) /\ item \in Seq(S)
      BY <1>0
    <3>1. (received \o ch) \o item = received \o (ch \o item)
      BY <3>0
    <3>2. received \o (ch \o item) \in Seq(S)
      BY <1>0
    <3> QED
      BY <3>1, <3>2
  <2> QED
    BY <2>1, <2>2 DEF Queue, Elements, Finished
<1>5. CASE Receive
  <2>1. /\ UNCHANGED <<item, sse, read>> /\ ch # <<>>
        /\ received' = Append(received, Head(ch)) /\ ch' = Tail(ch)
    BY <1>5 DEF Receive, vars
  <2>2. received' \in Seq(S) /\ received' \o ch' = received \o ch
    <3> HIDE DEF S
    <3>1. Head(ch) \in S
      BY <1>0, <2>1
    <3> QED
      BY <1>0, <2>1, <3>1, HeadMoves
  <2>3. received' \in Seq(Elements(received'))
    BY <2>2, SequenceOfItsElements
  <2> QED
    BY <2>1, <2>2, <2>3 DEF Queue, Elements, Finished
<1>6. CASE ScanEnds \/ ReceiveClosed \/ TooLong \/ ReaderStops \/ Break \/ UNCHANGED pipeVars
  <2>1. UNCHANGED <<received, ch, item, sse, read>>
    BY <1>6 DEF ScanEnds, ReceiveClosed, TooLong, ReaderStops, Break, pipeVars, scanner,
                others, vars
  <2> QED
    BY <2>1 DEF Queue, Elements, Finished
<1> QED
  BY <1>1, <1>2, <1>3, <1>4, <1>5, <1>6 DEF PipeNext, Goroutine, Reader, Over

LEMMA ScannerStep == Scanner /\ [PipeNext]_pipeVars => Scanner'
BY WriteScanner, ScanScanner, SendScanner, OtherScanner
   DEF PipeNext, Goroutine, Reader, Over

\* However full the channel is and whoever is slower: what was received, waits
\* or is about to be sent is what the events read so far yield.
THEOREM NothingIsLost == PipeSpec => []NothingLost
BY ScannerInit, ScannerStep, QueueInit, QueueStep, QueueIs, PTL DEF PipeSpec

-----------------------------------------------------------------------------
(* The finish reason.                                                      *)

\* The items of a chunk but its finish reason.
PlainItem ==
    [kind : DeltaKinds \cup {"tool_use"}, data : {"", NoID} \cup CallIDs]

LEMMA ItemIsPlain ==
    ASSUME NEW kind \in DeltaKinds \cup {"tool_use"},
           NEW data \in {"", NoID} \cup CallIDs
    PROVE  <<Item(kind, data)>> \in Seq(PlainItem)
<1>1. Item(kind, data) \in PlainItem
  BY DEF Item, PlainItem
<1> QED
  BY <1>1, ShortSequences

LEMMA PlainParts ==
    ASSUME NEW c \in Chunks \cup {NoChunk}
    PROVE  /\ ThinkPart(c) \in Seq(PlainItem) /\ TextPart(c) \in Seq(PlainItem)
           /\ FlattenSeq(CallParts(c)) \in Seq(PlainItem)
<1>1. c \in Response /\ <<>> \in Seq(PlainItem)
  BY ChunkFields, ShortSequences
<1>2. c.tools \in Seq(ToolCall)
  BY <1>1 DEF Response
<1>3. ThinkPart(c) \in Seq(PlainItem) /\ TextPart(c) \in Seq(PlainItem)
  BY <1>1, ItemIsPlain DEF ThinkPart, TextPart, DeltaKinds
<1>4. ASSUME NEW j \in 1 .. Len(c.tools)
      PROVE  IdPart(c.tools[j]) \o ArgPart(c.tools[j]) \in Seq(PlainItem)
  <2> DEFINE a == IdPart(c.tools[j])  b == ArgPart(c.tools[j])
  <2>1. c.tools[j] \in ToolCall
    BY <1>2
  <2>2. c.tools[j].id \in CallIDs \cup {NoID}
    BY <2>1 DEF ToolCall
  <2>3. a \in Seq(PlainItem)
    BY <1>1, <2>2, ItemIsPlain DEF IdPart
  <2>4. b \in Seq(PlainItem)
    BY <1>1, ItemIsPlain DEF ArgPart, DeltaKinds
  <2> HIDE DEF a, b
  <2>5. a \o b \in Seq(PlainItem)
    BY <2>3, <2>4
  <2> QED
    BY <2>5 DEF a, b
<1>5. CallParts(c) \in Seq(Seq(PlainItem))
  <2>1. Len(c.tools) \in Nat /\ DOMAIN c.tools = 1 .. Len(c.tools)
    BY <1>2
  <2>2. CallParts(c) \in [1 .. Len(c.tools) -> Seq(PlainItem)]
    BY <1>4, <2>1 DEF CallParts
  <2> QED
    BY <2>1, <2>2
<1> QED
  BY <1>3, <1>5, FlattenType

Finishing(s) == \E i \in 1 .. Len(s) : s[i].kind = "finish"

LEMMA FinishingConcat ==
    ASSUME NEW S, NEW s \in Seq(S), NEW T, NEW t \in Seq(T)
    PROVE  Finishing(s \o t) <=> Finishing(s) \/ Finishing(t)
<1>1. /\ Len(s) \in Nat /\ Len(t) \in Nat /\ Len(s \o t) = Len(s) + Len(t)
      /\ \A i \in 1 .. Len(s) : (s \o t)[i] = s[i]
      /\ \A i \in 1 .. Len(t) : (s \o t)[Len(s) + i] = t[i]
  <2>1. s \in Seq(S \cup T) /\ t \in Seq(S \cup T)
    OBVIOUS
  <2> QED
    BY <2>1
<1> DEFINE u == s \o t  m == Len(s)  n == Len(t)
<1> HIDE DEF u, m, n
<1>2. m \in Nat /\ n \in Nat
  BY <1>1 DEF m, n
<1>3. ASSUME NEW i \in 1 .. m + n, u[i].kind = "finish"
      PROVE  Finishing(s) \/ Finishing(t)
  <2>1. CASE i \in 1 .. m
    BY <1>1, <1>3, <2>1 DEF Finishing, u, m
  <2>2. CASE i \notin 1 .. m
    <3>1. PICK l \in 1 .. n : i = m + l
      <4>1. i - m \in 1 .. n /\ i = m + (i - m)
        BY <1>2, <2>2
      <4> QED
        BY <4>1
    <3>2. u[i] = t[l]
      BY <1>1, <3>1 DEF u, m, n
    <3> QED
      BY <1>3, <3>1, <3>2 DEF Finishing, n
  <2> QED
    BY <2>1, <2>2
<1>4. Finishing(s) => Finishing(u)
  <2> SUFFICES ASSUME NEW i \in 1 .. m, s[i].kind = "finish" PROVE Finishing(u)
    BY DEF Finishing, m
  <2>1. i \in 1 .. Len(u) /\ u[i] = s[i]
    BY <1>1, <1>2 DEF u, m, n
  <2> QED
    BY <2>1 DEF Finishing
<1>5. Finishing(t) => Finishing(u)
  <2> SUFFICES ASSUME NEW i \in 1 .. n, t[i].kind = "finish" PROVE Finishing(u)
    BY DEF Finishing, n
  <2>1. m + i \in 1 .. Len(u) /\ u[m + i] = t[i]
    BY <1>1, <1>2 DEF u, m, n
  <2> QED
    BY <2>1 DEF Finishing
<1>6. Len(u) = m + n
  BY <1>1 DEF u, m, n
<1>7. Finishing(u) => Finishing(s) \/ Finishing(t)
  BY <1>3, <1>6 DEF Finishing
<1> QED
  BY <1>4, <1>5, <1>7 DEF u

\* A chunk finishes if it has a finish reason that is looked at.
LEMMA ItemsFinish ==
    ASSUME NEW c \in Chunks
    PROVE  Finishing(ItemsOf(c)) <=> ~c.err /\ c.choices /\ c.finish # ""
<1> DEFINE a == ThinkPart(c)  b == TextPart(c)  d == FlattenSeq(CallParts(c))
           e == FinishPart(c)
<1>1. a \in Seq(PlainItem) /\ b \in Seq(PlainItem) /\ d \in Seq(PlainItem)
  BY PlainParts
<1>2. e \in Seq(FedItem)
  BY PartTypes
<1>3. ~Finishing(<<>>)
  BY ShortSequences DEF Finishing
<1>4. Finishing(e) <=> c.finish # ""
  <2>1. CASE c.finish = ""
    BY <1>3, <2>1 DEF FinishPart
  <2>2. CASE c.finish # ""
    <3>1. e = <<Item("finish", c.finish)>> /\ Item("finish", c.finish).kind = "finish"
      BY <2>2 DEF FinishPart, Item
    <3>2. 1 \in 1 .. Len(e) /\ e[1].kind = "finish"
      BY <3>1
    <3> QED
      BY <2>2, <3>2 DEF Finishing
  <2> QED
    BY <2>1, <2>2
<1>5. c.err \/ ~c.choices => ItemsOf(c) = <<>>
  BY DEF ItemsOf
<1>6. ~c.err /\ c.choices => ItemsOf(c) = ((a \o b) \o d) \o e
  BY DEF ItemsOf, ThinkPart, TextPart, FinishPart, CallParts, IdPart, ArgPart
<1> HIDE DEF a, b, d, e
<1>7. (a \o b) \o d \in Seq(PlainItem)
  BY <1>1
<1>8. ASSUME NEW s \in Seq(PlainItem) PROVE ~Finishing(s)
  <2>1. \A i \in 1 .. Len(s) : s[i] \in PlainItem
    OBVIOUS
  <2>2. \A x \in PlainItem : x.kind # "finish"
    BY DEF PlainItem, DeltaKinds
  <2> QED
    BY <2>1, <2>2 DEF Finishing
<1> DEFINE front == (a \o b) \o d
<1> HIDE DEF front
<1>9. front \in Seq(PlainItem) /\ (~c.err /\ c.choices => ItemsOf(c) = front \o e)
  BY <1>6, <1>7 DEF front
<1>10. Finishing(front \o e) <=> c.finish # ""
  BY <1>2, <1>4, <1>8, <1>9, FinishingConcat
<1> QED
  BY <1>3, <1>5, <1>9, <1>10

\* What was sent last is the finish reason if one was sent: nothing with
\* content follows it.
FinishSent == fed \in Seq(FedItem) /\ (last = "finish" <=> Finishing(fed))

LEMMA FinishInit == Init => FinishSent
BY ShortSequences DEF Init, FinishSent, Finishing

LEMMA FinishStep == FinishSent /\ [Next]_vars => FinishSent'
<1> SUFFICES ASSUME FinishSent, [Next]_vars PROVE FinishSent'
  OBVIOUS
<1>1. ASSUME NEW c \in Chunks, Each(c) PROVE FinishSent'
  <2> DEFINE items == ItemsOf(c)
  <2>1. items \in Seq(FedItem)
    BY ItemsInOrder
  <2>2. Finishing(items) <=> ~c.err /\ c.choices /\ c.finish # ""
    BY ItemsFinish
  <2> HIDE DEF items
  <2>3. fed' = fed \o items /\ Orderly(c)
        /\ last' = IF ~Content(c) THEN last
                   ELSE IF c.finish # "" THEN "finish"
                   ELSE IF Calls(c) THEN "call" ELSE "prose"
    BY <1>1 DEF Each, items
  <2>4. fed' \in Seq(FedItem)
    <3>1. fed \in Seq(FedItem)
      BY DEF FinishSent
    <3>2. fed \o items \in Seq(FedItem)
      BY <2>1, <3>1
    <3> QED
      BY <2>3, <3>2
  <2>5. Finishing(fed') <=> Finishing(fed) \/ Finishing(items)
    BY <2>1, <2>3, FinishingConcat DEF FinishSent
  <2>6. last' = "finish" <=> Finishing(fed')
    <3>1. CASE ~Content(c)
      BY <2>2, <2>3, <2>5, <3>1 DEF Content, FinishSent
    <3>2. CASE Content(c)
      <4>1. ~Finishing(fed) /\ ~c.err /\ c.choices
        BY <2>3, <3>2 DEF Orderly, Content, FinishSent
      <4>2. last' = "finish" <=> c.finish # ""
        BY <2>3, <3>2
      <4> QED
        BY <2>2, <2>5, <4>1, <4>2
    <3> QED
      BY <3>1, <3>2
  <2> QED
    BY <2>4, <2>6 DEF FinishSent, Finishing
<1>2. CASE UNCHANGED sent
  BY <1>2 DEF FinishSent, Finishing, sent
<1> QED
  BY <1>1, <1>2 DEF Next, EachReturns, WriteError, WriteMessageStart, MessageStarted,
     CloseBlock, StartBlock, WriteDelta, NoDelta, ContinueTool, WriteArguments,
     ToolsWritten, CloseLastBlock, WriteMessageDelta, Returned, vars

\* The finish reason is content.
LEMMA KeptFinishes ==
    ASSUME NEW S, NEW all \in Seq(S)
    PROVE  Finishing(Kept(all)) <=> Finishing(all)
<1> DEFINE parts == [i \in DOMAIN all |->
               IF all[i].kind \in {"start", "done"} THEN <<>> ELSE <<all[i]>>]
           kept == FlattenSeq(parts)
<1>1. parts \in Seq(Seq(S))
  BY KeptParts
<1>2. /\ Len(all) \in Nat /\ DOMAIN all = 1 .. Len(all) /\ Len(parts) = Len(all)
      /\ \A i \in 1 .. Len(all) :
            parts[i] = IF all[i].kind \in {"start", "done"} THEN <<>> ELSE <<all[i]>>
  OBVIOUS
<1>3. kept = Kept(all)
  BY DEF Kept
<1> HIDE DEF parts
<1>4. \A x : Holds(kept, x) <=> \E i \in 1 .. Len(parts) : Holds(parts[i], x)
  <2> TAKE x
  <2> QED
    BY <1>1, FlattenHolds
<1> HIDE DEF kept
<1>5. ASSUME NEW i \in 1 .. Len(all), all[i].kind = "finish" PROVE Finishing(kept)
  <2>1. parts[i] = <<all[i]>>
    BY <1>2, <1>5
  <2>2. Holds(parts[i], all[i])
    BY <2>1 DEF Holds
  <2>3. Holds(kept, all[i])
    BY <1>2, <1>4, <2>2
  <2> QED
    BY <1>5, <2>3 DEF Holds, Finishing
<1>6. ASSUME NEW j \in 1 .. Len(kept), kept[j].kind = "finish" PROVE Finishing(all)
  <2>1. Holds(kept, kept[j])
    BY DEF Holds
  <2>2. PICK i \in 1 .. Len(parts) : Holds(parts[i], kept[j])
    BY <1>4, <2>1
  <2>3. parts[i] = <<all[i]>> \/ parts[i] = <<>>
    BY <1>2, <2>2
  <2>4. parts[i] # <<>>
    BY <2>2, ShortSequences DEF Holds
  <2>5. all[i] = kept[j] /\ i \in 1 .. Len(all)
    BY <1>2, <2>2, <2>3, <2>4 DEF Holds
  <2> QED
    BY <1>6, <2>5 DEF Finishing
<1> QED
  BY <1>3, <1>5, <1>6 DEF Finishing

\* When the body is complete, it names a finish reason if one was sent.
LEMMA BodyFinishes ==
    ASSUME Body, Owed, FinishSent, pc = "done"
    PROVE  (\E j \in DOMAIN Parsed : Parsed[j].kind = "finish") <=> last = "finish"
<1> DEFINE S == YieldsOf(sse, Len(sse))
<1>1. Len(sse) \in Nat /\ DOMAIN sse = 1 .. Len(sse)
  BY DEF Body
<1>2. Parsed = Yield(sse, Len(sse))
  BY <1>1 DEF Parsed, Yield
<1>3. Parsed \in Seq(S)
  BY <1>1, <1>2, YieldType
<1>4. got = Kept(Parsed)
  BY DEF got, Kept
<1> HIDE DEF S
<1>5. Finishing(got) <=> Finishing(Parsed)
  BY <1>3, <1>4, KeptFinishes
<1>6. DOMAIN Parsed = 1 .. Len(Parsed)
  BY <1>3
<1>7. Gives(got, fed)
  <2>1. Rest = <<>>
    BY DEF Rest, RestOf
  <2>2. PICK f \in Seq(FedItem) : fed = f \o Rest /\ Gives(got, f)
    BY DEF Owed
  <2>3. fed = f
    BY <2>1, <2>2
  <2> QED
    BY <2>2, <2>3
<1>8. Finishing(got) <=> Finishing(fed)
  BY <1>7 DEF Gives, Matches, Finishing
<1> QED
  BY <1>5, <1>6, <1>8 DEF FinishSent, Finishing

-----------------------------------------------------------------------------
(* Done.                                                                   *)

\* The goroutine ends, and closes the channel, only after the last line or when
\* the rest will never come; a reader sees the close when all is taken.
Closing ==
    /\ closed <=> goroutine = "done"
    /\ goroutine = "done" => broken \/ (pc = "done" /\ read = Written)
    /\ reader = "ended" => closed /\ ch = <<>>

LEMMA ClosingInit == PipeInit => Closing
BY DEF PipeInit, Closing

\* After message_stop the writer writes nothing.
LEMMA WrittenAll == ASSUME pc = "done", [Next]_vars PROVE UNCHANGED vars
BY DEF Next, Each, EachReturns, WriteError, WriteMessageStart, MessageStarted,
       CloseBlock, StartBlock, WriteDelta, NoDelta, ContinueTool, WriteArguments,
       ToolsWritten, CloseLastBlock, WriteMessageDelta, Returned, HasContent

LEMMA ClosingStep == Closing /\ [PipeNext]_pipeVars => Closing'
<1> SUFFICES ASSUME Closing, [PipeNext]_pipeVars PROVE Closing'
  OBVIOUS
<1>1. CASE Write
  <2>1. [Next]_vars /\ UNCHANGED <<scanner, others>>
    BY <1>1 DEF Write
  <2>2. pc = "done" => pc' = pc /\ sse' = sse
    BY <2>1, WrittenAll DEF vars
  <2> QED
    BY <2>1, <2>2 DEF Closing, Written, scanner, others
<1>2. CASE ScanEvent \/ ScanData \/ ScanEmpty
  <2>1. /\ goroutine = "scan" /\ goroutine' \in {"scan", "send"}
        /\ UNCHANGED <<closed, reader, ch>>
    BY <1>2 DEF ScanEvent, ScanData, ScanEmpty, Scan, others
  <2> QED
    BY <2>1 DEF Closing
<1>3. CASE ScanEnds
  <2>1. /\ goroutine' = "done" /\ closed' = TRUE
        /\ broken \/ (pc = "done" /\ read = Written)
        /\ UNCHANGED <<pc, sse, read, broken, reader, ch>>
    BY <1>3 DEF ScanEnds, others, vars
  <2> QED
    BY <2>1 DEF Closing, Written
<1>4. CASE Send
  <2>1. /\ goroutine = "send" /\ goroutine' = "scan"
        /\ UNCHANGED <<closed, reader>>
    BY <1>4 DEF Send, others
  <2> QED
    BY <2>1 DEF Closing
<1>5. CASE Receive \/ ReceiveClosed \/ ReaderStops
  <2>1. /\ UNCHANGED <<pc, sse, goroutine, closed, read, broken>>
        /\ reader' = "ended" => closed /\ ch' = <<>>
    BY <1>5 DEF Receive, ReceiveClosed, ReaderStops, vars, scanner, Closing
  <2> QED
    BY <2>1 DEF Closing, Written
<1>6. CASE TooLong \/ Break
  <2>1. UNCHANGED <<pc, sse, goroutine, closed, read, reader, ch>> /\ broken'
    BY <1>6 DEF TooLong, Break, vars, scanner
  <2> QED
    BY <2>1 DEF Closing
<1>7. CASE UNCHANGED pipeVars
  BY <1>7 DEF pipeVars, vars, scanner, others, Closing, Written
<1> QED
  BY <1>1, <1>2, <1>3, <1>4, <1>5, <1>6, <1>7 DEF PipeNext, Goroutine, Reader, Over

\* The items of the queue are those of what was read.
LEMMA ReceivedIsFront ==
    ASSUME Scanner, Queue
    PROVE  LET all == Yield(sse, Finished)
           IN  /\ Finished \in 0 .. Len(sse) /\ Len(sse) \in Nat
               /\ Len(all) = Len(received) + Len(ch) + Len(item)
               /\ Len(received) \in Nat /\ Len(ch) \in Nat /\ Len(item) \in Nat
               /\ \A i \in 1 .. Len(received) : all[i] = received[i]
               /\ Len(ch) = 0 /\ Len(item) = 0 => all = received
<1> DEFINE S == Elements(received) \cup Elements(ch) \cup Elements(item)
<1>1. received \in Seq(S) /\ ch \in Seq(S) /\ item \in Seq(S)
  <2>1. /\ received \in Seq(Elements(received)) /\ ch \in Seq(Elements(ch))
        /\ item \in Seq(Elements(item))
    BY DEF Scanner, Queue
  <2> QED
    BY <2>1
<1>2. Len(sse) \in Nat /\ read \in 0 .. 3 * Len(sse)
  BY DEF Scanner, Body, PipeShape, Written
<1>3. Finished \in 0 .. Len(sse)
  BY <1>2 DEF Finished
<1> DEFINE all == (received \o ch) \o item
<1> HIDE DEF S
<1>4. Len(received) \in Nat /\ Len(ch) \in Nat /\ Len(item) \in Nat
  BY <1>1
<1>5. /\ received \o ch \in Seq(S) /\ Len(received \o ch) = Len(received) + Len(ch)
      /\ \A i \in 1 .. Len(received) : (received \o ch)[i] = received[i]
  BY <1>1
<1>6. /\ Len(all) = Len(received \o ch) + Len(item)
      /\ \A i \in 1 .. Len(received \o ch) : all[i] = (received \o ch)[i]
  BY <1>1, <1>5
<1>7. \A i \in 1 .. Len(received) : all[i] = received[i]
  BY <1>4, <1>5, <1>6
<1>8. Len(ch) = 0 /\ Len(item) = 0 => all = received
  <2> SUFFICES ASSUME Len(ch) = 0, Len(item) = 0 PROVE all = received
    OBVIOUS
  <2>1. ch = <<>> /\ item = <<>>
    BY <1>1
  <2> QED
    BY <1>1, <2>1
<1>9. all = Yield(sse, Finished)
  BY DEF Queue
<1> HIDE DEF all
<1> QED
  BY <1>2, <1>3, <1>4, <1>5, <1>6, <1>7, <1>8, <1>9

LEMMA DoneIsLastOfBody ==
    Scanner /\ Queue /\ Closing /\ Ending /\ Owed /\ FinishSent => DoneEndsBody
<1> SUFFICES ASSUME Scanner, Queue, Closing, Ending, Owed, FinishSent
             PROVE  DoneEndsBody
  OBVIOUS
<1> DEFINE all == Yield(sse, Finished)
<1>0. /\ Finished \in 0 .. Len(sse) /\ Len(sse) \in Nat
      /\ Len(all) = Len(received) + Len(ch) + Len(item)
      /\ Len(received) \in Nat /\ Len(ch) \in Nat /\ Len(item) \in Nat
      /\ \A i \in 1 .. Len(received) : all[i] = received[i]
      /\ Len(ch) = 0 /\ Len(item) = 0 => all = received
  BY ReceivedIsFront
<1>1. DOMAIN received = 1 .. Len(received)
  <2>1. received \in Seq(Elements(received))
    BY DEF Queue
  <2> QED
    BY <2>1
<1>2. ASSUME NEW i \in DOMAIN received, received[i].kind = "done"
      PROVE  /\ received = Parsed
             /\ (\E j \in DOMAIN received : received[j].kind = "finish")
                   <=> last = "finish"
  <2>1. i \in 1 .. Len(all) /\ all[i].kind = "done"
    <3> HIDE DEF all
    <3>1. i \in 1 .. Len(received)
      BY <1>1
    <3>2. all[i] = received[i]
      BY <1>0, <3>1
    <3>3. i \in 1 .. Len(received) + Len(ch) + Len(item)
      BY <1>0, <3>1
    <3> QED
      BY <1>0, <1>2, <3>2, <3>3
  <2>2. i = Len(all) /\ Finished = Len(sse) /\ pc = "done"
    BY <1>0, <2>1, DoneIsLast
  <2>3. Len(ch) = 0 /\ Len(item) = 0
    <3> HIDE DEF all
    <3>1. i <= Len(received) /\ i \in Int
      BY <1>0, <1>1
    <3> QED
      BY <1>0, <2>2, <3>1
  <2>4. received = Yield(sse, Len(sse))
    BY <1>0, <2>2, <2>3
  <2>5. DOMAIN sse = 1 .. Len(sse)
    BY DEF Ending, Body
  <2>6. Parsed = Yield(sse, Len(sse))
    BY <2>5 DEF Parsed, Yield
  <2>7. received = Parsed
    BY <2>4, <2>6
  <2> QED
    BY <2>2, <2>7, BodyFinishes DEF Ending
<1>3. ASSUME reader = "ended", ~broken
      PROVE  received # <<>> /\ Last(received).kind = "done"
  <2>1. ch = <<>> /\ goroutine = "done" /\ pc = "done" /\ read = Written
    BY <1>3 DEF Closing
  <2>2. Len(item) = 0 /\ Len(ch) = 0
    BY <2>1 DEF Scanner, PipeShape
  <2>3. Finished = Len(sse) /\ Len(sse) > 0 /\ sse[Len(sse)].type = "message_stop"
    BY <1>0, <2>1 DEF Finished, Written, Ending
  <2> DEFINE m == Len(sse) - 1  front == Yield(sse, m)
             stop == [kind |-> "done", data |-> "", index |-> -1]
  <2>4. m \in Nat /\ m + 1 = Len(sse)
    BY <1>0, <2>3
  <2>5. parseSSEEventToResponse(sse[Len(sse)]) = <<stop>>
    <3>1. sse[Len(sse)].type # "content_block_delta"
      BY <2>3
    <3> QED
      BY <2>3, <3>1, OnlyStopIsDone
  <2>6. Yield(sse, Len(sse)) = front \o <<stop>>
    BY <2>4, <2>5, YieldNext
  <2>7. front \in Seq(YieldsOf(sse, m))
    BY <2>4, YieldType
  <2>8. received = front \o <<stop>>
    BY <1>0, <2>2, <2>3, <2>6
  <2> HIDE DEF front, stop
  <2>9. /\ front \in Seq(YieldsOf(sse, m) \cup {stop})
        /\ <<stop>> \in Seq(YieldsOf(sse, m) \cup {stop})
    BY <2>7
  <2>10. received # <<>> /\ Last(received) = stop
    BY <2>8, <2>9 DEF Last
  <2>11. stop.kind = "done"
    BY DEF stop
  <2> QED
    BY <2>10, <2>11
<1> QED
  BY <1>2, <1>3 DEF DoneEndsBody

\* Whoever has a Done has the whole body and nothing after it, and a finish
\* reason in it exactly if the provider sent one; a channel that closed without
\* a Done lost the rest.
THEOREM DoneEndsTheBody == PipeSpec => []DoneEndsBody
<1>1. Spec => []Ending
  BY EndingInit, EndingStep, PTL DEF Spec
<1>2. Spec => []FinishSent
  BY FinishInit, FinishStep, PTL DEF Spec
<1>3. Faithful => Owed
  BY DEF Faithful
<1>4. PipeSpec => [](Ending /\ FinishSent /\ Owed)
  BY <1>1, <1>2, <1>3, StreamIsFaithful, PipeImplementsStream, PTL
<1> QED
  BY <1>4, DoneIsLastOfBody, ScannerInit, ScannerStep, QueueInit, QueueStep,
     ClosingInit, ClosingStep, PTL DEF PipeSpec

-----------------------------------------------------------------------------
(* Types.                                                                  *)

\* Types and bounds of the writer and of the pipe: the channel never holds more
\* than its capacity.
THEOREM PipeTypes == PipeSpec => []PipeTypeOK
<1>1. TypeOK /\ PipeShape /\ OwnEvent => PipeTypeOK
  BY DEF PipeTypeOK
<1> QED
  BY <1>1, PipeImplementsStream, StreamTypes, EachUnderItsEvent, PTL
=============================================================================
