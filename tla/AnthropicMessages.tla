-------------------------- MODULE AnthropicMessages ---------------------------
(***************************************************************************)
(* The conversions of protocol/anthropic/adapter.go that are functions of  *)
(* one request or one response: ParseRequest with convertMessages and what *)
(* it calls, and buildAnthropicResponse.                                   *)
(***************************************************************************)
EXTENDS ChatMessages

\* ContentBlock, and ResponseContent; text is also the thinking, args the
\* input of a tool_use, content that of a tool_result, id also the image.
ContentBlock(type) ==
    [type |-> type, text |-> <<>>, id |-> NoID, args |-> <<>>,
     source |-> "none", content |-> NoField]

\* Mutant of parseSystemPrompt: a later part replaces an earlier one.
parseSystemPromptLast(system) ==
    LET texts == OfType(system.parts, "text")
        text == IF system.form # "list" THEN system.text
                ELSE IF texts = <<>> THEN <<>> ELSE Last(texts).text
    IN  IF text = <<>> THEN <<>>
        ELSE <<[Blank("system") EXCEPT !.content = text]>>

\* The system field: one system message, or none when no text is left.  A
\* value that is neither string nor list makes ParseRequest fail.
parseSystemPrompt(system) ==
    LET text == IF system.form = "list" THEN JoinedText(system.parts, "text")
                                        ELSE system.text
    IN  IF text = <<>> THEN <<>>
        ELSE <<[Blank("system") EXCEPT !.content = text]>>

ToolCallOf(block) == [id |-> block.id, args |-> block.args]

convertAssistantBlocks(blocks) ==
    <<[Blank("assistant") EXCEPT
         !.content   = JoinedText(blocks, "text"),
         !.reasoning = JoinedText(blocks, "thinking"),
         !.calls     = FlattenSeq([i \in DOMAIN blocks |->
                          IF blocks[i].type = "tool_use"
                          THEN <<ToolCallOf(blocks[i])>> ELSE <<>>])]>>

\* The text of a tool_result; parts that are no text are left out.
extractToolResultContent(block) ==
    IF block.content.form = "list" THEN JoinedText(block.content.parts, "text")
                                   ELSE AsText(block.content)

\* The messages a block of a user becomes by itself.  An image that is not
\* base64 becomes none.
SplitOff(block) ==
    CASE block.type = "image" /\ block.source = "base64" ->
            <<[Blank("user") EXCEPT !.images = <<block.id>>]>>
      [] block.type = "tool_result" ->
            <<[Blank("tool") EXCEPT !.tool = block.id,
                                    !.content = extractToolResultContent(block)]>>
      [] OTHER -> <<>>

\* Mutant of convertUserBlocks: the text follows what was split off.
convertUserBlocksTextLast(blocks) ==
    LET text == JoinedText(blocks, "text")
    IN  FlattenSeq([i \in DOMAIN blocks |-> SplitOff(blocks[i])])
        \o (IF text = <<>> THEN <<>>
            ELSE <<[Blank("user") EXCEPT !.content = text]>>)

\* Mutant of convertUserBlocks: text next to a tool_result is lost.
convertUserBlocksOneKind(blocks) ==
    LET text  == JoinedText(blocks, "text")
        split == FlattenSeq([i \in DOMAIN blocks |-> SplitOff(blocks[i])])
    IN  IF text # <<>> /\ split = <<>>
        THEN <<[Blank("user") EXCEPT !.content = text]>> ELSE split

\* All text of the message comes first, as one message.
convertUserBlocks(blocks) ==
    LET text == JoinedText(blocks, "text")
    IN  (IF text = <<>> THEN <<>>
         ELSE <<[Blank("user") EXCEPT !.content = text]>>)
        \o FlattenSeq([i \in DOMAIN blocks |-> SplitOff(blocks[i])])

convertMessage(msg) ==
    IF msg.content.form # "list"
    THEN <<[Blank(msg.role) EXCEPT !.content = AsText(msg.content)]>>
    ELSE IF msg.role = "assistant" THEN convertAssistantBlocks(msg.content.parts)
                                   ELSE convertUserBlocks(msg.content.parts)

convertMessages(msgs, system) ==
    parseSystemPrompt(system)
    \o FlattenSeq([i \in DOMAIN msgs |-> convertMessage(msgs[i])])

\* An unknown shape of system, or no model, is an invalid request.
ParseRequestFails(req) == ~req.model \/ req.system.form = "raw"

ParseRequest(req) == convertMessages(req.messages, req.system)

-----------------------------------------------------------------------------

\* The content of the answer: of the first choice the thinking, the text and
\* the tool calls, and one empty text block where nothing is left.
buildAnthropicResponse(resp) ==
    LET m == IF resp.choices = <<>> THEN Blank("assistant") ELSE resp.choices[1]
        contents ==
            (IF m.reasoning = <<>> THEN <<>>
             ELSE <<[ContentBlock("thinking") EXCEPT !.text = m.reasoning]>>)
         \o (IF m.content = <<>> THEN <<>>
             ELSE <<[ContentBlock("text") EXCEPT !.text = m.content]>>)
         \o [i \in DOMAIN m.calls |->
                [ContentBlock("tool_use") EXCEPT !.id = m.calls[i].id,
                                                 !.args = m.calls[i].args]]
    IN  IF contents = <<>> THEN <<ContentBlock("text")>> ELSE contents

\* The input of a tool_use is raw JSON: encoding the response fails where a
\* provider's arguments are none (WriteResponse, after the status is written).
WriteResponseFails(resp) ==
    \E block \in Range(buildAnthropicResponse(resp)) : NotJSON \in Range(block.args)
=============================================================================
