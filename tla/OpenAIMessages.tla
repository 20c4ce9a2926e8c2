---------------------------- MODULE OpenAIMessages ----------------------------
(***************************************************************************)
(* The conversions of protocol/openai/adapter.go: ParseRequest with        *)
(* convertMessages, buildChatCompletionResponse, and the chunks of a       *)
(* stream (buildChatCompletionChunkResponse).                              *)
(***************************************************************************)
EXTENDS ChatMessages

\* A message as the client has it: ChatMessage, and the reasoning_content that
\* only an answer has (ChatCompletionMessage).  The name of a tool message is
\* left out.
ChatMessage(role, content) ==
    [role |-> role, content |-> content, reasoning |-> <<>>, calls |-> <<>>,
     tool |-> NoID]

\* A contentPart; url is the image's.
TextPart(text) == [type |-> "text", text |-> text, url |-> NoID]
ImagePart(url) == [type |-> "image_url", text |-> <<>>, url |-> url]

URLs(parts) ==
    FlattenSeq([i \in DOMAIN parts |->
        IF parts[i].type = "image_url" /\ parts[i].url # NoID
        THEN <<parts[i].url>> ELSE <<>>])

\* The text of a content field; a list with neither text nor image in it is
\* taken as the JSON it was written in.
ContentText(content) ==
    LET text == JoinedText(content.parts, "text")
    IN  IF content.form # "list" THEN AsText(content)
        ELSE IF text = <<>> /\ URLs(content.parts) = <<>> THEN <<RawJSON>> ELSE text

\* One message of the client is one message of lumin-client; ChatMessage has no
\* field that takes reasoning_content.
convertMessage(msg) ==
    [Blank(msg.role) EXCEPT
        !.content = ContentText(msg.content),
        !.images  = IF msg.content.form = "list" THEN URLs(msg.content.parts)
                                                 ELSE <<>>,
        !.calls   = msg.calls,
        !.tool    = msg.tool]

convertMessages(msgs) == [i \in DOMAIN msgs |-> convertMessage(msgs[i])]

ParseRequestFails(req) == ~req.model

ParseRequest(req) == convertMessages(req.messages)

-----------------------------------------------------------------------------
(* Answers.                                                                *)

\* content is null where the message has none; null is read as "".
Content(text) == IF text = <<>> THEN NoField ELSE String(text)

\* Mutant of buildChatCompletionResponse: the role is not filled in.
buildChatCompletionResponseNoRole(resp) ==
    [i \in DOMAIN resp.choices |->
        LET m == resp.choices[i]
        IN  [ChatMessage(m.role, Content(m.content))
                EXCEPT !.reasoning = m.reasoning, !.calls = m.calls]]

\* The messages of the choices; an empty role is filled in.
buildChatCompletionResponse(resp) ==
    [i \in DOMAIN resp.choices |->
        LET m == resp.choices[i]
        IN  [ChatMessage(IF m.role = "" THEN "assistant" ELSE m.role,
                         Content(m.content))
                EXCEPT !.reasoning = m.reasoning, !.calls = m.calls]]

\* Mutant of buildChatCompletionChunkResponse: Index is not passed on.
buildChatCompletionChunkResponseNoIndex(delta) ==
    [content |-> Content(delta.content), reasoning |-> delta.reasoning,
     calls |-> [j \in DOMAIN delta.calls |-> [delta.calls[j] EXCEPT !.index = 1]]]

\* The delta of a chunk; a tool call keeps its Index, by which the client puts
\* the pieces of a call together.
buildChatCompletionChunkResponse(delta) ==
    [content |-> Content(delta.content), reasoning |-> delta.reasoning,
     calls |-> delta.calls]
=============================================================================
