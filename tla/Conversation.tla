----------------------------- MODULE Conversation -----------------------------
(***************************************************************************)
(* A client and a provider in conversation through the gateway, with the   *)
(* protocol adapters between them.  Every request carries the history of   *)
(* the conversation: what the client said, and the answers as it received  *)
(* them.  So an answer passes two conversions, out by WriteResponse and    *)
(* back in by ParseRequest, before the provider sees it again.             *)
(***************************************************************************)
EXTENDS ChatMessages

CONSTANTS Words,     \* what texts are made of
          CallIDs,   \* IDs of tool calls
          Prompts,   \* system prompts: the texts of their parts
          Texts,     \* what a client says in a turn: the texts of its parts
          Results,   \* the texts tools return
          Answers,   \* what a provider may answer (providers.Message)
          MaxTurns   \* bound: turns of the client

Image == "image"

\* providers.Message as a provider answers it; the role may be left out.
ToolCall == [id : CallIDs, args : Seq(Words)]
Answer   == [role : {"", "assistant"}, content : Seq(Words),
             reasoning : Seq(Words), calls : Seq(ToolCall),
             tool : {NoID}, images : {<<>>}]

ASSUME WordsAssumption   == NotJSON \in Words /\ RawJSON \in Words
ASSUME IDsAssumption     == NoID \notin CallIDs \cup {Image}
ASSUME ClientAssumption  == /\ Prompts \cup Texts \subseteq Seq(Seq(Words))
                            /\ Results \subseteq Seq(Words)
ASSUME AnswersAssumption == Answers \subseteq Answer
ASSUME BoundAssumption   == MaxTurns \in Nat

VARIABLES
    client,     \* its route, whether it writes plain text as strings, and
                \* whether it asks for streams
    system,     \* the client's system prompt
    history,    \* the messages of the client's next request
    turns,      \* history: what the client has said
    answers,    \* history: what the provider has answered
    upstream,   \* ProviderRequest.Messages of the last request
    pc          \* whose turn it is: client, adapter, provider

said == <<client, system, turns>>
vars == <<said, history, answers, upstream, pc>>

Anthropic == INSTANCE AnthropicMessages
OpenAI    == INSTANCE OpenAIMessages

\* Streams are those of chat completions; AnthropicStream has the others.
Clients == {c \in [proto : {"anthropic", "openai"}, plain : BOOLEAN, stream : BOOLEAN] :
               c.stream => c.proto = "openai"}

Init ==
    /\ client \in Clients
    /\ system \in Prompts
    /\ history = <<>> /\ turns = <<>> /\ answers = <<>> /\ upstream = <<>>
    /\ pc = "client"

-----------------------------------------------------------------------------
(* The client: how it writes what it says, and what it was answered.       *)

\* The tool calls the client has to answer.
Pending == IF answers = <<>> THEN <<>> ELSE Last(answers).calls

\* A turn: a result for each pending call, text in any number of parts, and
\* perhaps an image; never nothing.
Turns ==
    {t \in [results : [DOMAIN Pending -> Results], text : Texts,
            image : {"none", "base64", "url"}] :
        Pending # <<>> \/ t.text # <<>> \/ t.image # "none"}

\* The messages API: one message per turn, the results first; a plain text
\* may be a string, a result a string or a list.
AnthropicTurn(t) ==
    LET Text(w)   == [Anthropic!ContentBlock("text") EXCEPT !.text = w]
        Result(i) == [Anthropic!ContentBlock("tool_result") EXCEPT
                        !.id = Pending[i].id,
                        !.content = IF client.plain THEN String(t.results[i])
                                    ELSE List(<<Text(t.results[i])>>)]
        blocks == [i \in DOMAIN Pending |-> Result(i)]
                  \o [i \in DOMAIN t.text |-> Text(t.text[i])]
                  \o (IF t.image = "none" THEN <<>>
                      ELSE <<[Anthropic!ContentBlock("image") EXCEPT
                                !.source = t.image, !.id = Image]>>)
    IN  <<[role |-> "user",
           content |-> IF client.plain /\ Len(t.text) = 1 /\ Len(blocks) = 1
                       THEN String(t.text[1]) ELSE List(blocks)]>>

\* Chat completions: a message per result, then one for text and image.
OpenAITurn(t) ==
    LET parts == [i \in DOMAIN t.text |-> OpenAI!TextPart(t.text[i])]
                 \o (IF t.image = "none" THEN <<>>
                     ELSE <<OpenAI!ImagePart(Image)>>)
    IN  [i \in DOMAIN Pending |->
            [OpenAI!ChatMessage("tool", String(t.results[i])) EXCEPT
                !.tool = Pending[i].id]]
        \o (IF parts = <<>> THEN <<>>
            ELSE <<OpenAI!ChatMessage("user",
                     IF client.plain /\ Len(t.text) = 1 /\ Len(parts) = 1
                     THEN String(t.text[1]) ELSE List(parts))>>)

\* system travels beside the messages, or is the first of them.
SystemField ==
    IF system = <<>> THEN NoField
    ELSE IF client.plain /\ Len(system) = 1 THEN String(system[1])
    ELSE List([i \in DOMAIN system |->
                 [Anthropic!ContentBlock("text") EXCEPT !.text = system[i]]])

SystemMessage ==
    IF system = <<>> THEN <<>>
    ELSE <<OpenAI!ChatMessage("system",
             List([i \in DOMAIN system |-> OpenAI!TextPart(system[i])]))>>

Say(t) ==
    /\ pc = "client" /\ Len(turns) < MaxTurns
    /\ history' = history \o (IF client.proto = "anthropic" THEN AnthropicTurn(t)
                                                   ELSE OpenAITurn(t))
    /\ turns' = Append(turns, t)
    /\ pc' = "adapter"
    /\ UNCHANGED <<client, system, answers, upstream>>

-----------------------------------------------------------------------------
(* The gateway and the provider.                                           *)

\* The request as the client sends it; a client may leave out the model, or
\* write a system field of no known shape.
Request(model, field) ==
    IF client.proto = "anthropic"
    THEN [model |-> model, system |-> field, messages |-> history]
    ELSE [model |-> model, messages |-> SystemMessage \o history]

Rejects(req) == IF client.proto = "anthropic" THEN Anthropic!ParseRequestFails(req)
                                       ELSE OpenAI!ParseRequestFails(req)

ParseRequest(model, field) ==
    LET req == Request(model, field)
    IN  /\ pc = "adapter"
        /\ IF Rejects(req) THEN pc' = "rejected" /\ UNCHANGED upstream
           ELSE /\ pc' = "provider"
                /\ upstream' = IF client.proto = "anthropic" THEN Anthropic!ParseRequest(req)
                                                      ELSE OpenAI!ParseRequest(req)
        /\ UNCHANGED <<said, history, answers>>

\* How a provider streams the calls of a message: each call's ID, then the
\* arguments word by word, under the Index of their call.
Piece(j, id, args) == [index |-> j, id |-> id, args |-> args]

Pieces(calls) ==
    [j \in DOMAIN calls |-> Piece(j, calls[j].id, <<>>)]
    \o FlattenSeq([j \in DOMAIN calls |->
          [i \in DOMAIN calls[j].args |-> Piece(j, NoID, <<calls[j].args[i]>>)]])

\* The deltas: thinking and text, then a piece of a call in each.
Deltas(m) ==
    LET pieces == Pieces(m.calls)
        Delta(content, reasoning, own) ==
            [content |-> content, reasoning |-> reasoning, calls |-> own]
    IN  <<Delta(m.content, m.reasoning, <<>>)>>
        \o [i \in DOMAIN pieces |-> Delta(<<>>, <<>>, <<pieces[i]>>)]

\* What a client of chat completions makes of the pieces under one Index: the
\* ID is in the first, and their arguments are joined.
Merged(pieces, j) ==
    LET own == FlattenSeq([i \in DOMAIN pieces |->
                  IF pieces[i].index = j THEN <<pieces[i]>> ELSE <<>>])
    IN  [id |-> own[1].id, args |-> FlattenSeq([i \in DOMAIN own |-> own[i].args])]

Streamed(m) ==
    LET chunks == [i \in DOMAIN Deltas(m) |->
                     OpenAI!buildChatCompletionChunkResponse(Deltas(m)[i])]
        text   == FlattenSeq([i \in DOMAIN chunks |-> chunks[i].content.text])
        hidden == FlattenSeq([i \in DOMAIN chunks |-> chunks[i].reasoning])
        pieces == FlattenSeq([i \in DOMAIN chunks |-> chunks[i].calls])
    IN  [OpenAI!ChatMessage("assistant", OpenAI!Content(text)) EXCEPT
            !.reasoning = hidden,
            !.calls = [j \in {pieces[i].index : i \in DOMAIN pieces} |->
                          Merged(pieces, j)]]

\* The client's copy of a response, streamed or whole; none if the response
\* cannot be encoded or, in chat completions, has no choices.
Received(resp) ==
    CASE client.proto = "anthropic" ->
            IF Anthropic!WriteResponseFails(resp) THEN <<>>
            ELSE <<[role |-> "assistant",
                    content |-> List(Anthropic!buildAnthropicResponse(resp))]>>
      [] client.stream /\ resp.choices # <<>> -> <<Streamed(resp.choices[1])>>
      [] OTHER -> OpenAI!buildChatCompletionResponse(resp)

WriteResponse(resp) ==
    /\ pc = "provider"
    /\ history' = history \o Received(resp)
    /\ IF Received(resp) = <<>> THEN pc' = "over" /\ UNCHANGED answers
       ELSE /\ pc' = "client"
            /\ answers' = Append(answers, IF resp.choices = <<>> THEN Blank("assistant")
                                                             ELSE resp.choices[1])
    /\ UNCHANGED <<said, upstream>>

Next ==
    \/ \E t \in Turns : Say(t)
    \/ ParseRequest(TRUE, SystemField)
    \/ ParseRequest(FALSE, NoField) \/ ParseRequest(TRUE, OtherJSON)
    \/ \E m \in Answers : WriteResponse([choices |-> <<m>>])
    \/ WriteResponse([choices |-> <<>>])

Spec == Init /\ [][Next]_vars

-----------------------------------------------------------------------------
(* Properties.                                                             *)

\* Types; upstream holds messages of lumin-client with a role it knows.
TypeOK ==
    /\ client \in Clients /\ system \in Prompts
    /\ Len(turns) \in 0 .. MaxTurns
    /\ Len(answers) \in 0 .. Len(turns)
    /\ pc \in {"client", "adapter", "provider", "rejected", "over"}
    /\ \A i \in DOMAIN upstream :
          /\ DOMAIN upstream[i] = DOMAIN Blank("user")
          /\ upstream[i].role \in {"system", "user", "assistant", "tool"}
          /\ upstream[i].tool # NoID <=> upstream[i].role = "tool"

Asked == pc = "provider"

\* The texts of a turn, or of the prompt, as the provider gets them: joined.
\* But where they are all empty the OpenAI adapter takes the list they came in
\* as the JSON it was written in.
Heard(texts, list) ==
    IF client.proto = "openai" /\ list /\ texts # <<>> /\ FlattenSeq(texts) = <<>>
    THEN <<RawJSON>> ELSE FlattenSeq(texts)

\* A provider that is asked again sees its own answers as it gave them, in
\* order: text, calls and arguments survive WriteResponse, the client and
\* ParseRequest; the thinking does in the messages API, while in chat
\* completions the client gets it but ParseRequest has no field for it
\* (buildAnthropicResponse against convertAssistantBlocks,
\* buildChatCompletionResponse and its chunks against convertMessage).
SameAnswers(seen) ==
    /\ Len(seen) = Len(answers)
    /\ \A n \in DOMAIN seen :
          /\ seen[n].content = answers[n].content
          /\ seen[n].calls = answers[n].calls
          /\ seen[n].reasoning =
                IF client.proto = "anthropic" THEN answers[n].reasoning ELSE <<>>

AnswersKept == Asked => SameAnswers(Assistants(upstream))

\* Whatever the client says in a turn reaches the provider in that turn, once
\* and in order: the words, a result per pending call under its ID, the
\* image - but an image by URL never passes the Anthropic adapter
\* (convertUserBlocks, convertMessage).
SameTurn(msgs, t, calls) ==
    LET users == OfRole(msgs, "user")
        tools == OfRole(msgs, "tool")
        list  == t.image = "none" /\ ~(client.plain /\ Len(t.text) = 1)
    IN  /\ FlattenSeq([i \in DOMAIN users |-> users[i].content])
              = Heard(t.text, list)
        /\ FlattenSeq([i \in DOMAIN users |-> users[i].images])
              = (IF \/ t.image = "none"
                    \/ t.image = "url" /\ client.proto = "anthropic"
                 THEN <<>> ELSE <<Image>>)
        /\ Len(tools) = Len(calls)
        /\ \A i \in DOMAIN tools :
              /\ tools[i].tool = calls[i].id
              /\ tools[i].content = t.results[i]

\* The calls that the n-th turn has to answer.
Due(n) == IF n = 1 THEN <<>> ELSE answers[n - 1].calls

TurnsKept ==
    Asked => \A n \in DOMAIN turns : SameTurn(Turn(upstream, n), turns[n], Due(n))

\* Results follow the calls they answer: of a turn they are the first
\* messages, except that the Anthropic adapter puts the turn's text before
\* them; nothing comes between two results.
InPlace(msgs, t) ==
    LET before == IF client.proto = "anthropic" /\ FlattenSeq(t.text) # <<>> THEN 1 ELSE 0
    IN  \A i \in DOMAIN msgs :
           msgs[i].role = "tool" <=> i \in before + 1 .. before + Len(t.results)

ResultsNext ==
    Asked => \A n \in DOMAIN turns : InPlace(Turn(upstream, n), turns[n])

\* The system prompt is the first message and the only one of its kind, its
\* parts in order, also when the history grows (parseSystemPrompt).
SystemFirst ==
    Asked =>
        LET prompt == Heard(system, TRUE)
        IN  \A i \in DOMAIN upstream :
               /\ upstream[i].role = "system" <=> (i = 1 /\ prompt # <<>>)
               /\ upstream[i].role = "system" => upstream[i].content = prompt
=============================================================================
