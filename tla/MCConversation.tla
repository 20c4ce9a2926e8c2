---------------------------- MODULE MCConversation ----------------------------
(* Conversation on small instances; see README.md for the bounds.          *)
EXTENDS Conversation

MCPrompts == {<<>>, <<<<>>>>, <<<<"be">>, <<"brief">>>>}
MCTexts   == {<<>>, <<<<>>>>, <<<<"hi">>, <<"you">>>>}
MCResults == {<<"42">>}

Call(id, args) == [id |-> id, args |-> args]

Reply(role, reasoning, content, calls) ==
    [Blank(role) EXCEPT !.reasoning = reasoning, !.content = content, !.calls = calls]

\* Nothing, text, one and two calls, one with arguments of two chunks.
\* Arguments cut off in the middle are no JSON.
MCAnswers ==
    {Reply("assistant", <<>>, <<"ok">>, <<Call("c1", <<"x", NotJSON>>)>>),
     Reply("", <<>>, <<>>, <<>>),
     Reply("assistant", <<"hm">>, <<"ok">>, <<>>),
     Reply("", <<>>, <<>>, <<Call("c1", <<"x">>)>>),
     Reply("assistant", <<"hm">>, <<"ok">>,
           <<Call("c1", <<>>), Call("c2", <<"x", "y">>)>>)}
=============================================================================
