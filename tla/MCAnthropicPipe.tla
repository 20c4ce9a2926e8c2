--------------------------- MODULE MCAnthropicPipe ----------------------------
(* Chunks for TLC: one per shape of delta the writer tells apart.          *)
EXTENDS AnthropicPipe

Chunk(think, text, tools, finish) ==
    [err |-> FALSE, choices |-> TRUE, think |-> think, text |-> text,
     tools |-> tools, finish |-> finish]

Call(id, args) == [id |-> id, args |-> args]

MCChunks ==
    {[NoChunk EXCEPT !.err = TRUE],                       \* an error
     NoChunk,                                             \* no choices
     Chunk(TRUE, FALSE, <<>>, ""),
     Chunk(FALSE, TRUE, <<>>, ""),
     Chunk(TRUE, TRUE, <<>>, ""),
     Chunk(FALSE, FALSE, <<Call("t1", FALSE)>>, ""),
     Chunk(FALSE, FALSE, <<Call(NoID, TRUE)>>, ""),       \* arguments go on
     Chunk(FALSE, TRUE, <<Call("t1", TRUE), Call("t2", FALSE),
                          Call(NoID, TRUE)>>, ""),
     Chunk(FALSE, FALSE, <<>>, "length"),
     Chunk(FALSE, TRUE, <<>>, "content_filter"),
     Chunk(FALSE, FALSE, <<Call("t2", TRUE)>>, "tool_calls"),
     Chunk(TRUE, TRUE, <<Call("t1", FALSE)>>, "stop")}
=============================================================================
