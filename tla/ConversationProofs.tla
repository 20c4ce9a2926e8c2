------------------------- MODULE ConversationProofs ---------------------------
(***************************************************************************)
(* A conversation of any words, turns, results, answers and length, in     *)
(* either protocol.  The invariant is about the request to come, not the   *)
(* one that was: what the client's history is, converted (Faithful).  It   *)
(* is kept because converting is by message, so that a history with a turn *)
(* or an answer added converts to what the history did and what that turn  *)
(* or answer does.  So the work is in three facts, each for every turn or  *)
(* answer: what a turn converts to (AnthropicTurnArrives,                  *)
(* OpenAITurnArrives), that the client's copy of an answer converts to the *)
(* answer (AnswerReturns; a streamed copy is the whole one, StreamedIs),   *)
(* and that appending neither moves nor merges turns (TurnConcat).         *)
(***************************************************************************)
EXTENDS Conversation, SequenceFacts

-----------------------------------------------------------------------------
(* Messages.                                                               *)

Roles == {"system", "user", "assistant", "tool"}

Message ==
    {m \in [role : Roles, content : Seq(Words), reasoning : Seq(Words),
            calls : Seq(ToolCall), tool : CallIDs \cup {NoID}, images : Seq({Image})] :
        m.tool # NoID <=> m.role = "tool"}

TextOf(role, text) == [Blank(role) EXCEPT !.content = text]

UserImage == [Blank("user") EXCEPT !.images = <<Image>>]

ToolText(id, text) == [Blank("tool") EXCEPT !.tool = id, !.content = text]

Given(text, images) == [Blank("user") EXCEPT !.content = text, !.images = images]

Reply(text, thinking, calls) ==
    [Blank("assistant") EXCEPT !.content = text, !.reasoning = thinking, !.calls = calls]

LEMMA EmptyFields == <<>> \in Seq(Words) /\ <<>> \in Seq(ToolCall) /\ <<>> \in Seq({Image})
OBVIOUS

LEMMA TextOfFields ==
    ASSUME NEW role, NEW text
    PROVE  /\ TextOf(role, text).role = role /\ TextOf(role, text).content = text
           /\ TextOf(role, text).images = <<>>
           /\ role \in Roles \ {"tool"} /\ text \in Seq(Words) => TextOf(role, text) \in Message
BY EmptyFields DEF TextOf, Blank, Message, Roles

LEMMA UserImageFields ==
    /\ UserImage.role = "user" /\ UserImage.content = <<>> /\ UserImage.images = <<Image>>
    /\ UserImage \in Message
<1>1. <<Image>> \in Seq({Image})
  OBVIOUS
<1> QED
  BY EmptyFields, <1>1 DEF UserImage, Blank, Message, Roles

LEMMA ToolTextFields ==
    ASSUME NEW id, NEW text
    PROVE  /\ ToolText(id, text).role = "tool" /\ ToolText(id, text).content = text
           /\ ToolText(id, text).tool = id
           /\ id \in CallIDs /\ text \in Seq(Words) => ToolText(id, text) \in Message
<1>1. id \in CallIDs => id # NoID
  BY IDsAssumption
<1> QED
  BY EmptyFields, <1>1 DEF ToolText, Blank, Message, Roles

LEMMA GivenFields ==
    ASSUME NEW text, NEW images
    PROVE  /\ Given(text, images).role = "user" /\ Given(text, images).content = text
           /\ Given(text, images).images = images
           /\ text \in Seq(Words) /\ images \in Seq({Image}) => Given(text, images) \in Message
BY EmptyFields DEF Given, Blank, Message, Roles

LEMMA ReplyFields ==
    ASSUME NEW text, NEW thinking, NEW calls
    PROVE  /\ Reply(text, thinking, calls).role = "assistant"
           /\ Reply(text, thinking, calls).content = text
           /\ Reply(text, thinking, calls).reasoning = thinking
           /\ Reply(text, thinking, calls).calls = calls
           /\ text \in Seq(Words) /\ thinking \in Seq(Words) /\ calls \in Seq(ToolCall)
              => Reply(text, thinking, calls) \in Message
BY EmptyFields DEF Reply, Blank, Message, Roles

-----------------------------------------------------------------------------
(* Reading a list of messages, as Collect.                                 *)

IfRole(role) == [m \in Message |-> IF m.role = role THEN <<m>> ELSE <<>>]

LEMMA IfRoleMakes == ASSUME NEW role PROVE Makes(IfRole(role), Message, Message)
<1>1. \A m \in Message : <<m>> \in Seq(Message) /\ <<>> \in Seq(Message)
  OBVIOUS
<1> QED
  BY <1>1 DEF Makes, IfRole

LEMMA OfRoleCollects ==
    ASSUME NEW msgs \in Seq(Message), NEW role
    PROVE  OfRole(msgs, role) = Collect(IfRole(role), msgs)
<1>1. \A i \in DOMAIN msgs : msgs[i] \in Message
  OBVIOUS
<1>2. [i \in DOMAIN msgs |-> IF msgs[i].role = role THEN <<msgs[i]>> ELSE <<>>]
         = [i \in DOMAIN msgs |-> IfRole(role)[msgs[i]]]
  BY <1>1 DEF IfRole
<1> QED
  BY <1>2 DEF OfRole, Collect

LEMMA OfRoleType ==
    ASSUME NEW msgs \in Seq(Message), NEW role
    PROVE  OfRole(msgs, role) \in Seq(Message)
BY OfRoleCollects, IfRoleMakes, CollectType

LEMMA OfRoleConcat ==
    ASSUME NEW a \in Seq(Message), NEW b \in Seq(Message), NEW role
    PROVE  OfRole(a \o b, role) = OfRole(a, role) \o OfRole(b, role)
<1>1. a \o b \in Seq(Message)
  OBVIOUS
<1>2. Collect(IfRole(role), a \o b) = Collect(IfRole(role), a) \o Collect(IfRole(role), b)
  BY IfRoleMakes, CollectConcat
<1> QED
  BY <1>1, <1>2, OfRoleCollects

LEMMA OfRoleAll ==
    ASSUME NEW msgs \in Seq(Message), NEW role, \A i \in 1 .. Len(msgs) : msgs[i].role = role
    PROVE  OfRole(msgs, role) = msgs
<1>1. \A i \in 1 .. Len(msgs) : IfRole(role)[msgs[i]] = <<msgs[i]>>
  BY DEF IfRole
<1> QED
  BY <1>1, OfRoleCollects, CollectAll

LEMMA OfRoleNone ==
    ASSUME NEW msgs \in Seq(Message), NEW role, \A i \in 1 .. Len(msgs) : msgs[i].role # role
    PROVE  OfRole(msgs, role) = <<>>
<1>1. \A i \in 1 .. Len(msgs) : IfRole(role)[msgs[i]] = <<>>
  BY DEF IfRole
<1> QED
  BY <1>1, OfRoleCollects, CollectNone

Contents(msgs) == FlattenSeq([i \in DOMAIN msgs |-> msgs[i].content])
Images(msgs)   == FlattenSeq([i \in DOMAIN msgs |-> msgs[i].images])

ContentOf == [m \in Message |-> m.content]
ImagesOf  == [m \in Message |-> m.images]

LEMMA ContentsCollect ==
    ASSUME NEW msgs \in Seq(Message)
    PROVE  Contents(msgs) = Collect(ContentOf, msgs) /\ Images(msgs) = Collect(ImagesOf, msgs)
<1>1. \A i \in DOMAIN msgs : msgs[i] \in Message
  OBVIOUS
<1>2. /\ [i \in DOMAIN msgs |-> msgs[i].content] = [i \in DOMAIN msgs |-> ContentOf[msgs[i]]]
      /\ [i \in DOMAIN msgs |-> msgs[i].images] = [i \in DOMAIN msgs |-> ImagesOf[msgs[i]]]
  BY <1>1 DEF ContentOf, ImagesOf
<1> QED
  BY <1>2 DEF Contents, Images, Collect

LEMMA ContentsMake == Makes(ContentOf, Message, Words) /\ Makes(ImagesOf, Message, {Image})
BY DEF Makes, ContentOf, ImagesOf, Message

LEMMA ContentsConcat ==
    ASSUME NEW a \in Seq(Message), NEW b \in Seq(Message)
    PROVE  /\ Contents(a \o b) = Contents(a) \o Contents(b)
           /\ Images(a \o b) = Images(a) \o Images(b)
<1>1. a \o b \in Seq(Message)
  OBVIOUS
<1>2. Collect(ContentOf, a \o b) = Collect(ContentOf, a) \o Collect(ContentOf, b)
  BY ContentsMake, CollectConcat
<1>3. Collect(ImagesOf, a \o b) = Collect(ImagesOf, a) \o Collect(ImagesOf, b)
  BY ContentsMake, CollectConcat
<1> QED
  BY <1>1, <1>2, <1>3, ContentsCollect

LEMMA ContentsEmpty == Contents(<<>>) = <<>> /\ Images(<<>>) = <<>>
<1>1. <<>> \in Seq(Message)
  OBVIOUS
<1> QED
  BY <1>1, ContentsCollect, CollectEmpty

LEMMA ContentsOne ==
    ASSUME NEW m \in Message
    PROVE  Contents(<<m>>) = m.content /\ Images(<<m>>) = m.images
<1>1. <<m>> \in Seq(Message)
  OBVIOUS
<1>2. Collect(ContentOf, <<m>>) = ContentOf[m] /\ Collect(ImagesOf, <<m>>) = ImagesOf[m]
  BY CollectOne
<1> QED
  BY <1>1, <1>2, ContentsCollect DEF ContentOf, ImagesOf

-----------------------------------------------------------------------------
(* Turns of a list of messages.                                            *)

Before(msgs, i) == Len(Assistants(SubSeq(msgs, 1, i)))

Spoken(msgs, n) ==
    [i \in DOMAIN msgs |->
        IF Before(msgs, i) = n - 1 /\ msgs[i].role \notin {"assistant", "system"}
        THEN <<msgs[i]>> ELSE <<>>]

LEMMA TurnSpoken == ASSUME NEW msgs, NEW n PROVE Turn(msgs, n) = FlattenSeq(Spoken(msgs, n))
BY DEF Turn, Spoken, Before

LEMMA SpokenType ==
    ASSUME NEW msgs \in Seq(Message), NEW n
    PROVE  Spoken(msgs, n) \in Seq(Seq(Message)) /\ Len(Spoken(msgs, n)) = Len(msgs)
<1>1. Len(msgs) \in Nat /\ DOMAIN msgs = 1 .. Len(msgs)
  OBVIOUS
<1>2. \A i \in 1 .. Len(msgs) : <<msgs[i]>> \in Seq(Message) /\ <<>> \in Seq(Message)
  OBVIOUS
<1>3. Spoken(msgs, n) \in [1 .. Len(msgs) -> Seq(Message)]
  BY <1>1, <1>2 DEF Spoken
<1> QED
  BY <1>1, <1>3, SequenceOf

LEMMA TurnType ==
    ASSUME NEW msgs \in Seq(Message), NEW n
    PROVE  Turn(msgs, n) \in Seq(Message)
BY SpokenType, TurnSpoken, FlattenType

LEMMA BeforeConcat ==
    ASSUME NEW a \in Seq(Message), NEW b \in Seq(Message)
    PROVE  /\ \A i \in 1 .. Len(a) : Before(a \o b, i) = Before(a, i)
           /\ \A i \in 1 .. Len(b) :
                 Before(a \o b, Len(a) + i) = Len(Assistants(a)) + Before(b, i)
           /\ \A i \in 1 .. Len(b) : Before(b, i) \in Nat
           /\ Len(Assistants(a)) \in Nat
<1>1. ASSUME NEW i \in 1 .. Len(a) PROVE SubSeq(a \o b, 1, i) = SubSeq(a, 1, i)
  OBVIOUS
<1>2. ASSUME NEW i \in 1 .. Len(b)
      PROVE  /\ SubSeq(a \o b, 1, Len(a) + i) = a \o SubSeq(b, 1, i)
             /\ SubSeq(b, 1, i) \in Seq(Message)
  <2> DEFINE c == SubSeq(a \o b, 1, Len(a) + i)  d == SubSeq(b, 1, i)
  <2>1. c \in Seq(Message) /\ d \in Seq(Message) /\ Len(c) = Len(a) + i /\ Len(d) = i
    OBVIOUS
  <2>2. \A k \in 1 .. Len(a) : c[k] = a[k]
    OBVIOUS
  <2>3. \A k \in 1 .. i : c[Len(a) + k] = d[k]
    OBVIOUS
  <2> HIDE DEF c, d
  <2>4. Len(c) = Len(a) + Len(d) /\ \A k \in 1 .. Len(d) : c[Len(a) + k] = d[k]
    BY <2>1, <2>3
  <2>5. c = a \o d
    BY <2>1, <2>2, <2>4, ConcatIs
  <2> QED
    BY <2>1, <2>5 DEF c, d
<1>3. \A c \in Seq(Message) : Assistants(c) \in Seq(Message) /\ Len(Assistants(c)) \in Nat
  BY OfRoleType DEF Assistants
<1>4. ASSUME NEW i \in 1 .. Len(b)
      PROVE  Before(a \o b, Len(a) + i) = Len(Assistants(a)) + Before(b, i)
  <2> DEFINE d == SubSeq(b, 1, i)
  <2>1. d \in Seq(Message) /\ Before(a \o b, Len(a) + i) = Len(Assistants(a \o d))
    BY <1>2 DEF Before
  <2>2. Before(b, i) = Len(Assistants(d))
    BY DEF Before
  <2> HIDE DEF d
  <2>3. Assistants(a \o d) = Assistants(a) \o Assistants(d)
    BY <2>1, OfRoleConcat DEF Assistants
  <2>4. Assistants(a) \in Seq(Message) /\ Assistants(d) \in Seq(Message)
    BY <1>3, <2>1
  <2> QED
    BY <2>1, <2>2, <2>3, <2>4
<1>5. \A i \in 1 .. Len(b) : Before(b, i) \in Nat
  BY <1>2, <1>3 DEF Before
<1> QED
  BY <1>1, <1>3, <1>4, <1>5 DEF Before

LEMMA TurnConcat ==
    ASSUME NEW a \in Seq(Message), NEW b \in Seq(Message), NEW n \in Int
    PROVE  Turn(a \o b, n) = Turn(a, n) \o Turn(b, n - Len(Assistants(a)))
<1> DEFINE k == Len(Assistants(a))  c == a \o b
           sa == Spoken(a, n)  sb == Spoken(b, n - k)  sc == Spoken(c, n)
<1>1. /\ c \in Seq(Message) /\ Len(c) = Len(a) + Len(b) /\ Len(a) \in Nat /\ Len(b) \in Nat
      /\ DOMAIN c = 1 .. Len(a) + Len(b) /\ DOMAIN a = 1 .. Len(a) /\ DOMAIN b = 1 .. Len(b)
      /\ \A i \in 1 .. Len(a) : c[i] = a[i]
      /\ \A i \in 1 .. Len(b) : c[Len(a) + i] = b[i]
  OBVIOUS
<1>2. /\ sa \in Seq(Seq(Message)) /\ sb \in Seq(Seq(Message)) /\ sc \in Seq(Seq(Message))
      /\ Len(sa) = Len(a) /\ Len(sb) = Len(b) /\ Len(sc) = Len(a) + Len(b)
  BY <1>1, SpokenType
<1>3. /\ \A i \in 1 .. Len(a) : Before(c, i) = Before(a, i)
      /\ \A i \in 1 .. Len(b) : Before(c, Len(a) + i) = k + Before(b, i)
      /\ \A i \in 1 .. Len(b) : Before(b, i) \in Nat
      /\ k \in Nat
  BY BeforeConcat
<1> HIDE DEF c, k
<1>4. ASSUME NEW i \in 1 .. Len(sa) PROVE sc[i] = sa[i]
  <2>1. i \in DOMAIN a /\ i \in DOMAIN c /\ c[i] = a[i] /\ Before(c, i) = Before(a, i)
    BY <1>1, <1>2, <1>3
  <2> QED
    BY <2>1 DEF Spoken
<1>5. ASSUME NEW i \in 1 .. Len(sb) PROVE sc[Len(sa) + i] = sb[i]
  <2> DEFINE j == Len(a) + i
  <2>1. /\ i \in DOMAIN b /\ j \in DOMAIN c /\ c[j] = b[i] /\ Len(sa) + i = j
        /\ Before(c, j) = k + Before(b, i) /\ Before(b, i) \in Nat
    BY <1>1, <1>2, <1>3
  <2> HIDE DEF j
  <2>2. Before(c, j) = n - 1 <=> Before(b, i) = (n - k) - 1
    <3> DEFINE x == Before(b, i)  y == Before(c, j)
    <3>1. y = k + x /\ x \in Nat /\ k \in Nat /\ n \in Int
      BY <1>3, <2>1
    <3> HIDE DEF x, y
    <3>2. y = n - 1 <=> x = (n - k) - 1
      BY <3>1
    <3> QED
      BY <3>2 DEF x, y
  <2>3. sc[j] = IF Before(c, j) = n - 1 /\ c[j].role \notin {"assistant", "system"}
                THEN <<c[j]>> ELSE <<>>
    BY <2>1 DEF Spoken
  <2>4. sb[i] = IF Before(b, i) = (n - k) - 1 /\ b[i].role \notin {"assistant", "system"}
                THEN <<b[i]>> ELSE <<>>
    BY <2>1 DEF Spoken
  <2> QED
    BY <2>1, <2>2, <2>3, <2>4
<1> HIDE DEF sa, sb, sc
<1>6. sc = sa \o sb
  <2>1. Len(sc) = Len(sa) + Len(sb)
    BY <1>2
  <2> QED
    BY <1>2, <1>4, <1>5, <2>1, ConcatIs
<1>7. FlattenSeq(sa \o sb) = FlattenSeq(sa) \o FlattenSeq(sb)
  BY <1>2, FlattenConcat
<1> QED
  BY <1>6, <1>7, TurnSpoken DEF sa, sb, sc, c, k

\* What a client says in one go is one turn.
LEMMA TurnOfClient ==
    ASSUME NEW msgs \in Seq(Message), \A i \in 1 .. Len(msgs) : msgs[i].role \in {"user", "tool"}
    PROVE  /\ Assistants(msgs) = <<>>
           /\ Turn(msgs, 1) = msgs
           /\ \A n \in Int : n # 1 => Turn(msgs, n) = <<>>
<1>1. Assistants(msgs) = <<>>
  <2>1. \A i \in 1 .. Len(msgs) : msgs[i].role # "assistant"
    OBVIOUS
  <2> QED
    BY <2>1, OfRoleNone DEF Assistants
<1>2. ASSUME NEW i \in 1 .. Len(msgs) PROVE Before(msgs, i) = 0
  <2> DEFINE front == SubSeq(msgs, 1, i)
  <2>1. front \in Seq(Message) /\ \A k \in 1 .. Len(front) : front[k].role # "assistant"
    OBVIOUS
  <2> HIDE DEF front
  <2>2. Assistants(front) = <<>>
    BY <2>1, OfRoleNone DEF Assistants
  <2> QED
    BY <2>2 DEF Before, front
<1>3. Len(msgs) \in Nat /\ DOMAIN msgs = 1 .. Len(msgs)
  OBVIOUS
<1>4. Spoken(msgs, 1) = [i \in DOMAIN msgs |-> <<msgs[i]>>]
  BY <1>2, <1>3 DEF Spoken
<1>5. ASSUME NEW n \in Int, n # 1 PROVE Spoken(msgs, n) \in [1 .. Len(msgs) -> {<<>>}]
  BY <1>2, <1>3, <1>5 DEF Spoken
<1>6. \A n \in Int : n # 1 => Turn(msgs, n) = <<>>
  BY <1>3, <1>5, FlattenNothing, TurnSpoken
<1>7. Turn(msgs, 1) = msgs
  BY <1>4, Singles, TurnSpoken
<1> QED
  BY <1>1, <1>6, <1>7

\* Neither an answer nor a system prompt is part of a turn.
LEMMA TurnOfOthers ==
    ASSUME NEW msgs \in Seq(Message),
           \A i \in 1 .. Len(msgs) : msgs[i].role \in {"assistant", "system"},
           NEW n \in Int
    PROVE  Turn(msgs, n) = <<>>
<1>1. Len(msgs) \in Nat /\ Spoken(msgs, n) \in [1 .. Len(msgs) -> {<<>>}]
  BY DEF Spoken
<1> QED
  BY <1>1, FlattenNothing, TurnSpoken

-----------------------------------------------------------------------------
(* Texts of parts and blocks.                                              *)

Textual(S) == \A b \in S : b.text \in Seq(Words)

IfType(S, type) == [b \in S |-> IF b.type = type THEN b.text ELSE <<>>]

LEMMA JoinedCollects ==
    ASSUME NEW S, Textual(S), NEW s \in Seq(S), NEW type
    PROVE  /\ JoinedText(s, type) = Collect(IfType(S, type), s)
           /\ Makes(IfType(S, type), S, Words)
<1>1. \A i \in DOMAIN s : s[i] \in S
  OBVIOUS
<1>2. [i \in DOMAIN s |-> IF s[i].type = type THEN s[i].text ELSE <<>>]
         = [i \in DOMAIN s |-> IfType(S, type)[s[i]]]
  BY <1>1 DEF IfType
<1>3. Makes(IfType(S, type), S, Words)
  BY EmptyFields DEF Makes, IfType, Textual
<1> QED
  BY <1>2, <1>3 DEF JoinedText, Collect

LEMMA JoinedConcat ==
    ASSUME NEW S, Textual(S), NEW a \in Seq(S), NEW b \in Seq(S), NEW type
    PROVE  JoinedText(a \o b, type) = JoinedText(a, type) \o JoinedText(b, type)
<1> DEFINE f == IfType(S, type)
<1>1. a \o b \in Seq(S)
  OBVIOUS
<1>2. /\ JoinedText(a \o b, type) = Collect(f, a \o b)
      /\ JoinedText(a, type) = Collect(f, a)
      /\ JoinedText(b, type) = Collect(f, b)
      /\ Makes(f, S, Words)
  BY <1>1, JoinedCollects
<1> HIDE DEF f
<1>3. Collect(f, a \o b) = Collect(f, a) \o Collect(f, b)
  BY <1>2, CollectConcat
<1> QED
  BY <1>2, <1>3

LEMMA JoinedNone ==
    ASSUME NEW S, NEW s \in Seq(S), NEW type, \A i \in 1 .. Len(s) : s[i].type # type
    PROVE  JoinedText(s, type) = <<>>
<1>1. /\ Len(s) \in Nat
      /\ [i \in DOMAIN s |-> IF s[i].type = type THEN s[i].text ELSE <<>>]
            \in [1 .. Len(s) -> {<<>>}]
  OBVIOUS
<1> QED
  BY <1>1, FlattenNothing DEF JoinedText

LEMMA JoinedAll ==
    ASSUME NEW S, NEW texts \in Seq(S), NEW s, NEW type, DOMAIN s = DOMAIN texts,
           \A i \in DOMAIN texts : s[i].type = type /\ s[i].text = texts[i]
    PROVE  JoinedText(s, type) = FlattenSeq(texts)
<1>1. [i \in DOMAIN s |-> IF s[i].type = type THEN s[i].text ELSE <<>>] = texts
  OBVIOUS
<1> QED
  BY <1>1 DEF JoinedText

LEMMA JoinedOne ==
    ASSUME NEW b, NEW type
    PROVE  JoinedText(<<b>>, type) = IF b.type = type THEN b.text ELSE <<>>
<1>1. [i \in DOMAIN <<b>> |-> IF <<b>>[i].type = type THEN <<b>>[i].text ELSE <<>>]
         = <<IF b.type = type THEN b.text ELSE <<>>>>
  OBVIOUS
<1> QED
  BY <1>1, FlattenOne DEF JoinedText

-----------------------------------------------------------------------------
(* What a client says, in the messages API.                                *)

TextBlock(text) == [Anthropic!ContentBlock("text") EXCEPT !.text = text]

\* A result as a client writes it: a string, or a list of one text.
ResultField(text, plain) == IF plain THEN String(text) ELSE List(<<TextBlock(text)>>)

ResultBlock(id, text, plain) ==
    [Anthropic!ContentBlock("tool_result") EXCEPT
        !.id = id, !.content = ResultField(text, plain)]

ImageBlock(source) ==
    [Anthropic!ContentBlock("image") EXCEPT !.source = source, !.id = Image]

LEMMA TextBlockFields ==
    ASSUME NEW text
    PROVE  TextBlock(text).type = "text" /\ TextBlock(text).text = text
BY DEF TextBlock, Anthropic!ContentBlock

LEMMA ResultBlockFields ==
    ASSUME NEW id, NEW text, NEW plain
    PROVE  /\ ResultBlock(id, text, plain).type = "tool_result"
           /\ ResultBlock(id, text, plain).text = <<>>
           /\ ResultBlock(id, text, plain).id = id
           /\ ResultBlock(id, text, plain).content = ResultField(text, plain)
BY DEF ResultBlock, Anthropic!ContentBlock

LEMMA ImageBlockFields ==
    ASSUME NEW source
    PROVE  /\ ImageBlock(source).type = "image" /\ ImageBlock(source).text = <<>>
           /\ ImageBlock(source).source = source /\ ImageBlock(source).id = Image
BY DEF ImageBlock, Anthropic!ContentBlock

LEMMA FieldForms ==
    ASSUME NEW x
    PROVE  /\ String(x).form = "string" /\ String(x).text = x
           /\ List(x).form = "list" /\ List(x).parts = x
           /\ NoField.form = "none" /\ NoField.text = <<>>
BY DEF String, List, NoField

LEMMA ResultText ==
    ASSUME NEW id, NEW text, NEW plain
    PROVE  Anthropic!extractToolResultContent(ResultBlock(id, text, plain)) = text
<1> DEFINE b == ResultBlock(id, text, plain)
<1>1. b.content = ResultField(text, plain)
  BY TextBlockFields, ResultBlockFields, ImageBlockFields
<1> HIDE DEF b
<1>2. CASE plain
  <2>1. b.content = String(text)
    BY <1>1, <1>2 DEF ResultField
  <2> QED
    BY <2>1, FieldForms DEF Anthropic!extractToolResultContent, Anthropic!AsText, b
<1>3. CASE ~plain
  <2>1. b.content = List(<<TextBlock(text)>>)
    BY <1>1, <1>3 DEF ResultField
  <2>2. JoinedText(<<TextBlock(text)>>, "text") = text
    BY TextBlockFields, JoinedOne
  <2>3. Anthropic!JoinedText(<<TextBlock(text)>>, "text") = text
    BY <2>2 DEF JoinedText, Anthropic!JoinedText, FlattenSeq, Anthropic!FlattenSeq
  <2> QED
    BY <2>1, <2>3, FieldForms DEF Anthropic!extractToolResultContent, b
<1> QED
  BY <1>2, <1>3

LEMMA SplitResult ==
    ASSUME NEW id, NEW text, NEW plain
    PROVE  Anthropic!SplitOff(ResultBlock(id, text, plain)) = <<ToolText(id, text)>>
<1> DEFINE b == ResultBlock(id, text, plain)
<1>1. b.type = "tool_result" /\ b.id = id
  BY TextBlockFields, ResultBlockFields, ImageBlockFields
<1>2. Anthropic!extractToolResultContent(b) = text
  BY ResultText
<1> HIDE DEF b
<1>3. Anthropic!SplitOff(b)
         = <<[Anthropic!Blank("tool") EXCEPT !.tool = b.id,
                 !.content = Anthropic!extractToolResultContent(b)]>>
  BY <1>1 DEF Anthropic!SplitOff
<1>4. Anthropic!SplitOff(b) = <<[Anthropic!Blank("tool") EXCEPT !.tool = id, !.content = text]>>
  BY <1>1, <1>2, <1>3
<1> QED
  BY <1>4 DEF b, ToolText, Blank, Anthropic!Blank

LEMMA SplitText ==
    ASSUME NEW text
    PROVE  Anthropic!SplitOff(TextBlock(text)) = <<>>
<1>1. TextBlock(text).type = "text"
  BY TextBlockFields, ResultBlockFields, ImageBlockFields
<1> QED
  BY <1>1 DEF Anthropic!SplitOff

LEMMA SplitImage ==
    ASSUME NEW source
    PROVE  Anthropic!SplitOff(ImageBlock(source))
              = IF source = "base64" THEN <<UserImage>> ELSE <<>>
<1> DEFINE b == ImageBlock(source)
<1>1. b.type = "image" /\ b.source = source /\ b.id = Image
  BY TextBlockFields, ResultBlockFields, ImageBlockFields
<1> HIDE DEF b
<1>2. CASE source = "base64"
  <2>1. Anthropic!SplitOff(b) = <<[Anthropic!Blank("user") EXCEPT !.images = <<b.id>>]>>
    BY <1>1, <1>2 DEF Anthropic!SplitOff
  <2>2. Anthropic!SplitOff(b) = <<[Anthropic!Blank("user") EXCEPT !.images = <<Image>>]>>
    BY <1>1, <2>1
  <2> QED
    BY <1>2, <2>2 DEF b, UserImage, Blank, Anthropic!Blank
<1>3. CASE source # "base64"
  BY <1>1, <1>3 DEF Anthropic!SplitOff, b
<1> QED
  BY <1>2, <1>3

SplitAll(blocks) == FlattenSeq([i \in DOMAIN blocks |-> Anthropic!SplitOff(blocks[i])])

\* convertMessage of a user's message, in the terms of this module.
LEMMA UserBlocks ==
    ASSUME NEW blocks
    PROVE  LET text == JoinedText(blocks, "text")
           IN  Anthropic!convertMessage([role |-> "user", content |-> List(blocks)])
                  = (IF text = <<>> THEN <<>> ELSE <<TextOf("user", text)>>)
                    \o SplitAll(blocks)
<1> DEFINE msg == [role |-> "user", content |-> List(blocks)]
<1>1. msg.role = "user" /\ msg.content.form = "list" /\ msg.content.parts = blocks
  BY FieldForms
<1> HIDE DEF msg
<1>2. Anthropic!convertMessage(msg) = Anthropic!convertUserBlocks(blocks)
  BY <1>1 DEF Anthropic!convertMessage
<1>3. Anthropic!JoinedText(blocks, "text") = JoinedText(blocks, "text")
  BY DEF JoinedText, Anthropic!JoinedText, FlattenSeq, Anthropic!FlattenSeq
<1>4. Anthropic!FlattenSeq([i \in DOMAIN blocks |-> Anthropic!SplitOff(blocks[i])])
         = SplitAll(blocks)
  BY DEF SplitAll, FlattenSeq, Anthropic!FlattenSeq
<1>5. Anthropic!Blank("user") = Blank("user")
  BY DEF Blank, Anthropic!Blank
<1>6. Anthropic!convertUserBlocks(blocks)
         = LET text == JoinedText(blocks, "text")
           IN (IF text = <<>> THEN <<>>
               ELSE <<[Blank("user") EXCEPT !.content = text]>>) \o SplitAll(blocks)
  BY <1>3, <1>4, <1>5 DEF Anthropic!convertUserBlocks
<1> QED
  BY <1>2, <1>6 DEF msg, TextOf

LEMMA UserString ==
    ASSUME NEW text
    PROVE  Anthropic!convertMessage([role |-> "user", content |-> String(text)])
              = <<TextOf("user", text)>>
<1> DEFINE msg == [role |-> "user", content |-> String(text)]
<1>1. msg.role = "user" /\ msg.content = String(text)
  OBVIOUS
<1> HIDE DEF msg
<1>2. msg.content.form = "string" /\ Anthropic!AsText(msg.content) = text
  BY <1>1, FieldForms DEF Anthropic!AsText
<1>3. Anthropic!convertMessage(msg)
         = <<[Anthropic!Blank(msg.role) EXCEPT !.content = Anthropic!AsText(msg.content)]>>
  <2>1. msg.content.form # "list"
    BY <1>2
  <2> QED
    BY <2>1, Zenon DEF Anthropic!convertMessage
<1>4. Anthropic!convertMessage(msg) = <<[Anthropic!Blank("user") EXCEPT !.content = text]>>
  BY <1>1, <1>2, <1>3
<1> QED
  BY <1>4 DEF TextOf, msg, Blank, Anthropic!Blank

\* The blocks of a turn.
ResultBlocks(t) == [i \in DOMAIN Pending |-> ResultBlock(Pending[i].id, t.results[i], client.plain)]
TextBlocks(t)   == [i \in DOMAIN t.text |-> TextBlock(t.text[i])]
ImageBlocks(t)  == IF t.image = "none" THEN <<>> ELSE <<ImageBlock(t.image)>>
TurnBlocks(t)   == ResultBlocks(t) \o TextBlocks(t) \o ImageBlocks(t)

LEMMA AnthropicTurnIs ==
    ASSUME NEW t
    PROVE  AnthropicTurn(t) =
              <<[role |-> "user",
                 content |-> IF client.plain /\ Len(t.text) = 1 /\ Len(TurnBlocks(t)) = 1
                             THEN String(t.text[1]) ELSE List(TurnBlocks(t))]>>
BY DEF AnthropicTurn, TurnBlocks, ResultBlocks, TextBlocks, ImageBlocks, TextBlock,
       ResultBlock, ResultField, ImageBlock

-----------------------------------------------------------------------------
(* A turn, as it should arrive.                                            *)

Answered(t) == [i \in DOMAIN Pending |-> ToolText(Pending[i].id, t.results[i])]
Pictures(t) == IF t.image = "base64" THEN <<UserImage>> ELSE <<>>

LEMMA PendingType ==
    ASSUME answers \in Seq(Answer)
    PROVE  Pending \in Seq(ToolCall)
<1>1. CASE answers = <<>>
  BY <1>1, EmptyFields DEF Pending
<1>2. CASE answers # <<>>
  <2>1. Last(answers) = answers[Len(answers)] /\ answers[Len(answers)] \in Answer
    BY <1>2 DEF Last
  <2> QED
    BY <1>2, <2>1 DEF Pending, Answer
<1> QED
  BY <1>1, <1>2

LEMMA TurnFacts ==
    ASSUME answers \in Seq(Answer), NEW t \in Turns
    PROVE  /\ t.text \in Seq(Seq(Words)) /\ FlattenSeq(t.text) \in Seq(Words)
           /\ t.text \in Texts
           /\ Len(Pending) \in Nat /\ DOMAIN Pending = 1 .. Len(Pending)
           /\ t.results \in Seq(Results) /\ Len(t.results) = Len(Pending)
           /\ \A i \in 1 .. Len(Pending) :
                 /\ Pending[i] \in ToolCall /\ Pending[i].id \in CallIDs
                 /\ t.results[i] \in Seq(Words)
           /\ t.image \in {"none", "base64", "url"}
           /\ Pending # <<>> \/ t.text # <<>> \/ t.image # "none"
<1>1. /\ t \in [results : [DOMAIN Pending -> Results], text : Texts,
                image : {"none", "base64", "url"}]
      /\ Pending # <<>> \/ t.text # <<>> \/ t.image # "none"
  BY DEF Turns
<1>2. Texts \subseteq Seq(Seq(Words)) /\ Results \subseteq Seq(Words)
  BY ClientAssumption
<1>3. /\ t.text \in Texts /\ t.results \in [DOMAIN Pending -> Results]
      /\ t.image \in {"none", "base64", "url"}
  BY <1>1
<1>4. t.text \in Seq(Seq(Words)) /\ FlattenSeq(t.text) \in Seq(Words)
  BY <1>2, <1>3, FlattenType
<1>5. Pending \in Seq(ToolCall)
  BY PendingType
<1>6. Len(Pending) \in Nat /\ DOMAIN Pending = 1 .. Len(Pending)
  BY <1>5
<1>7. t.results \in Seq(Results) /\ Len(t.results) = Len(Pending)
  BY <1>3, <1>6, SequenceOf
<1>8. \A i \in 1 .. Len(Pending) : t.results[i] \in Seq(Words)
  BY <1>2, <1>3, <1>6
<1>9. ASSUME NEW i \in 1 .. Len(Pending)
      PROVE  Pending[i] \in ToolCall /\ Pending[i].id \in CallIDs
  <2>1. Pending[i] \in ToolCall
    BY <1>5
  <2> QED
    BY <2>1 DEF ToolCall
<1> QED
  BY <1>1, <1>3, <1>4, <1>6, <1>7, <1>8, <1>9

LEMMA AnsweredType ==
    ASSUME answers \in Seq(Answer), NEW t \in Turns
    PROVE  /\ Answered(t) \in Seq(Message) /\ Len(Answered(t)) = Len(Pending)
           /\ \A i \in 1 .. Len(Pending) :
                 /\ Answered(t)[i].role = "tool" /\ Answered(t)[i].tool = Pending[i].id
                 /\ Answered(t)[i].content = t.results[i]
           /\ Pictures(t) \in Seq(Message)
<1>1. /\ Len(Pending) \in Nat /\ DOMAIN Pending = 1 .. Len(Pending)
      /\ \A i \in 1 .. Len(Pending) :
            Pending[i].id \in CallIDs /\ t.results[i] \in Seq(Words)
  BY TurnFacts
<1>2. \A i \in 1 .. Len(Pending) : Answered(t)[i] = ToolText(Pending[i].id, t.results[i])
  BY <1>1 DEF Answered
<1>3. \A i \in 1 .. Len(Pending) : Answered(t)[i] \in Message
  BY <1>1, <1>2, ToolTextFields
<1>4. Answered(t) \in [1 .. Len(Pending) -> Message]
  BY <1>1, <1>3 DEF Answered
<1>5. Answered(t) \in Seq(Message) /\ Len(Answered(t)) = Len(Pending)
  BY <1>1, <1>4, SequenceOf
<1>6. \A i \in 1 .. Len(Pending) :
         /\ Answered(t)[i].role = "tool" /\ Answered(t)[i].tool = Pending[i].id
         /\ Answered(t)[i].content = t.results[i]
  BY <1>2, ToolTextFields
<1>7. Pictures(t) \in Seq(Message)
  BY UserImageFields DEF Pictures
<1> QED
  BY <1>5, <1>6, <1>7

LEMMA TurnBlocksConvert ==
    ASSUME answers \in Seq(Answer), NEW t \in Turns
    PROVE  /\ JoinedText(TurnBlocks(t), "text") = FlattenSeq(t.text)
           /\ SplitAll(TurnBlocks(t)) = Answered(t) \o Pictures(t)
           /\ Len(TurnBlocks(t)) = Len(Pending) + Len(t.text) + Len(ImageBlocks(t))
<1> DEFINE n == Len(Pending)  R == ResultBlocks(t)  X == TextBlocks(t)  I == ImageBlocks(t)
           Block(i) == ResultBlock(Pending[i].id, t.results[i], client.plain)
           S == {Block(i) : i \in DOMAIN Pending}
                \cup {TextBlock(t.text[i]) : i \in DOMAIN t.text} \cup {ImageBlock(t.image)}
           g == [b \in S |-> Anthropic!SplitOff(b)]
           RX == R \o X
<1>1. /\ n \in Nat /\ DOMAIN Pending = 1 .. n /\ t.text \in Seq(Seq(Words))
      /\ FlattenSeq(t.text) \in Seq(Words) /\ t.image \in {"none", "base64", "url"}
      /\ \A i \in 1 .. n : Pending[i].id \in CallIDs /\ t.results[i] \in Seq(Words)
  BY TurnFacts
<1>2. Len(t.text) \in Nat /\ DOMAIN t.text = 1 .. Len(t.text)
      /\ \A i \in 1 .. Len(t.text) : t.text[i] \in Seq(Words)
  BY <1>1
<1>3. R \in Seq(S) /\ Len(R) = n
  <2>1. R \in [1 .. n -> S]
    BY <1>1 DEF ResultBlocks
  <2> QED
    BY <1>1, <2>1, SequenceOf
<1>4. X \in Seq(S) /\ Len(X) = Len(t.text)
  <2>1. X \in [1 .. Len(t.text) -> S]
    BY <1>2 DEF TextBlocks
  <2> QED
    BY <1>2, <2>1, SequenceOf
<1>5. I \in Seq(S)
  <2> DEFINE b == ImageBlock(t.image)
  <2>1. b \in S
    OBVIOUS
  <2>2. I = <<>> \/ I = <<b>>
    BY DEF ImageBlocks
  <2> HIDE DEF b, I, S
  <2> QED
    BY <2>1, <2>2, ShortSequences
<1>6. Textual(S)
  <2>1. ASSUME NEW i \in DOMAIN Pending PROVE Block(i).text \in Seq(Words)
    <3>1. Block(i).text = <<>>
      BY ResultBlockFields
    <3> QED
      BY <3>1, EmptyFields
  <2>2. ASSUME NEW i \in DOMAIN t.text PROVE TextBlock(t.text[i]).text \in Seq(Words)
    <3>1. TextBlock(t.text[i]).text = t.text[i]
      BY TextBlockFields
    <3> QED
      BY <1>2, <3>1
  <2>3. ImageBlock(t.image).text \in Seq(Words)
    <3>1. ImageBlock(t.image).text = <<>>
      BY ImageBlockFields
    <3> QED
      BY <3>1, EmptyFields
  <2> HIDE DEF Block
  <2> QED
    BY <2>1, <2>2, <2>3 DEF Textual
<1>7. Makes(g, S, Message)
  <2>1. \A i \in DOMAIN Pending : Anthropic!SplitOff(Block(i)) \in Seq(Message)
    <3>1. ASSUME NEW i \in DOMAIN Pending
          PROVE  ToolText(Pending[i].id, t.results[i]) \in Message
      BY <1>1, ToolTextFields
    <3>2. ASSUME NEW i \in DOMAIN Pending
          PROVE  Anthropic!SplitOff(Block(i)) = <<ToolText(Pending[i].id, t.results[i])>>
      BY SplitResult
    <3>3. ASSUME NEW m \in Message PROVE <<m>> \in Seq(Message)
      OBVIOUS
    <3> HIDE DEF Block
    <3> QED
      BY <3>1, <3>2, <3>3
  <2>2. \A i \in DOMAIN t.text : Anthropic!SplitOff(TextBlock(t.text[i])) \in Seq(Message)
    <3>1. <<>> \in Seq(Message)
      OBVIOUS
    <3> QED
      BY <3>1, SplitText
  <2>3. Anthropic!SplitOff(ImageBlock(t.image)) \in Seq(Message)
    <3>1. <<>> \in Seq(Message) /\ <<UserImage>> \in Seq(Message)
      BY UserImageFields
    <3> QED
      BY <3>1, SplitImage
  <2> HIDE DEF Block
  <2> QED
    BY <2>1, <2>2, <2>3 DEF Makes
<1>8. JoinedText(R, "text") = <<>> /\ JoinedText(I, "text") = <<>>
  <2>1. \A i \in 1 .. Len(R) : R[i].type # "text"
    <3>1. \A i \in 1 .. n : R[i] = Block(i)
      BY <1>1 DEF ResultBlocks
    <3> QED
      BY <1>3, <3>1, TextBlockFields, ResultBlockFields, ImageBlockFields
  <2>2. \A i \in 1 .. Len(I) : I[i].type # "text"
    BY TextBlockFields, ResultBlockFields, ImageBlockFields DEF ImageBlocks
  <2> HIDE DEF R, I, S
  <2> QED
    BY <1>3, <1>5, <2>1, <2>2, JoinedNone
<1>9. JoinedText(X, "text") = FlattenSeq(t.text)
  <2>1. DOMAIN X = DOMAIN t.text
    BY DEF TextBlocks
  <2>2. \A i \in DOMAIN t.text : X[i].type = "text" /\ X[i].text = t.text[i]
    BY TextBlockFields, ResultBlockFields, ImageBlockFields DEF TextBlocks
  <2> HIDE DEF X
  <2> QED
    BY <1>1, <2>1, <2>2, JoinedAll
<1>10. RX \in Seq(S)
  BY <1>3, <1>4
<1>a. R \in Seq(S) /\ X \in Seq(S)
  BY <1>3, <1>4
<1>b. TurnBlocks(t) = RX \o I
  BY DEF TurnBlocks
<1>11. JoinedText(TurnBlocks(t), "text") = FlattenSeq(t.text)
  <2> HIDE DEF R, X, I, S
  <2>2. JoinedText(RX, "text") = JoinedText(R, "text") \o JoinedText(X, "text")
    BY <1>a, <1>6, JoinedConcat
  <2> HIDE DEF RX
  <2>1. JoinedText(RX \o I, "text") = JoinedText(RX, "text") \o JoinedText(I, "text")
    BY <1>5, <1>6, <1>10, JoinedConcat
  <2>3. (<<>> \o FlattenSeq(t.text)) \o <<>> = FlattenSeq(t.text)
    BY <1>1
  <2> QED
    BY <1>8, <1>9, <1>b, <2>1, <2>2, <2>3
<1>12. \A s \in Seq(S) : SplitAll(s) = Collect(g, s)
  <2> SUFFICES ASSUME NEW s \in Seq(S) PROVE SplitAll(s) = Collect(g, s)
    OBVIOUS
  <2>1. \A i \in DOMAIN s : s[i] \in S
    OBVIOUS
  <2>2. [i \in DOMAIN s |-> Anthropic!SplitOff(s[i])] = [i \in DOMAIN s |-> g[s[i]]]
    BY <2>1
  <2> QED
    BY <2>2 DEF SplitAll, Collect
<1>13. SplitAll(R) = Answered(t)
  <2>1. [i \in DOMAIN R |-> Anthropic!SplitOff(R[i])]
           = [i \in DOMAIN Answered(t) |-> <<Answered(t)[i]>>]
    BY SplitResult DEF ResultBlocks, Answered
  <2>2. Answered(t) \in Seq(Message)
    BY AnsweredType
  <2> QED
    BY <2>1, <2>2, Singles DEF SplitAll
<1>14. SplitAll(X) = <<>>
  <2>1. [i \in DOMAIN X |-> Anthropic!SplitOff(X[i])] \in [1 .. Len(t.text) -> {<<>>}]
    BY <1>2, SplitText DEF TextBlocks
  <2> QED
    BY <1>2, <2>1, FlattenNothing DEF SplitAll
<1>15. SplitAll(I) = Pictures(t)
  <2>1. CASE t.image = "none"
    BY <2>1, FlattenEmpty DEF SplitAll, ImageBlocks, Pictures
  <2>2. CASE t.image # "none"
    <3>1. [i \in DOMAIN I |-> Anthropic!SplitOff(I[i])] = <<Pictures(t)>>
      BY <2>2, SplitImage DEF ImageBlocks, Pictures
    <3> QED
      BY <3>1, FlattenOne DEF SplitAll
  <2> QED
    BY <2>1, <2>2
<1>16. SplitAll(TurnBlocks(t)) = Answered(t) \o Pictures(t)
  <2>a. TurnBlocks(t) \in Seq(S)
    BY <1>5, <1>10, <1>b
  <2> HIDE DEF R, X, I, S, g
  <2>2. Collect(g, RX) = Collect(g, R) \o Collect(g, X)
    BY <1>a, <1>7, CollectConcat
  <2> HIDE DEF RX
  <2>1. Collect(g, RX \o I) = Collect(g, RX) \o Collect(g, I)
    BY <1>5, <1>7, <1>10, CollectConcat
  <2>3. /\ Collect(g, R) = Answered(t) /\ Collect(g, X) = <<>> /\ Collect(g, I) = Pictures(t)
        /\ SplitAll(TurnBlocks(t)) = Collect(g, TurnBlocks(t))
    BY <1>3, <1>4, <1>5, <1>12, <1>13, <1>14, <1>15, <2>a
  <2>4. Answered(t) \o <<>> = Answered(t)
    BY AnsweredType
  <2> QED
    BY <1>b, <2>1, <2>2, <2>3, <2>4
<1>17. Len(TurnBlocks(t)) = n + Len(t.text) + Len(I)
  <2> HIDE DEF R, X, I, S
  <2>1. Len(RX) = n + Len(t.text)
    BY <1>3, <1>4, <1>a
  <2> HIDE DEF RX
  <2>2. Len(RX \o I) = Len(RX) + Len(I)
    BY <1>5, <1>10
  <2> QED
    BY <1>b, <2>1, <2>2
<1> QED
  BY <1>11, <1>16, <1>17

AllOf(msgs, role) == \A i \in 1 .. Len(msgs) : msgs[i].role = role

\* Results with text before them or after them, or both.
Around(a, b, c) == a \o (b \o c)

LEMMA AroundFacts ==
    ASSUME NEW a \in Seq(Message), NEW b \in Seq(Message), NEW c \in Seq(Message),
           AllOf(a, "user"), AllOf(b, "tool"), AllOf(c, "user")
    PROVE  /\ Around(a, b, c) \in Seq(Message)
           /\ \A i \in 1 .. Len(Around(a, b, c)) :
                 /\ Around(a, b, c)[i].role \in {"user", "tool"}
                 /\ Around(a, b, c)[i].role = "tool"
                       <=> i \in Len(a) + 1 .. Len(a) + Len(b)
           /\ OfRole(Around(a, b, c), "user") = a \o c
           /\ OfRole(Around(a, b, c), "tool") = b
<1> DEFINE d == Around(a, b, c)
<1> DEFINE e == b \o c
<1>1. /\ e \in Seq(Message) /\ Len(e) = Len(b) + Len(c)
      /\ Len(a) \in Nat /\ Len(b) \in Nat /\ Len(c) \in Nat
      /\ \A i \in 1 .. Len(b) : e[i] = b[i]
      /\ \A i \in 1 .. Len(c) : e[Len(b) + i] = c[i]
  OBVIOUS
<1>a. e \in Seq(Message)
  OBVIOUS
<1>2. OfRole(e, "user") = OfRole(b, "user") \o OfRole(c, "user")
  BY OfRoleConcat
<1>3. OfRole(e, "tool") = OfRole(b, "tool") \o OfRole(c, "tool")
  BY OfRoleConcat
<1>4. d = a \o e
  BY DEF Around
<1> HIDE DEF e, d
<1>b. /\ a \o e \in Seq(Message) /\ Len(a \o e) = Len(a) + Len(e)
      /\ \A i \in 1 .. Len(a) : (a \o e)[i] = a[i]
      /\ \A i \in 1 .. Len(e) : (a \o e)[Len(a) + i] = e[i]
  BY ONLY a \in Seq(Message), <1>a, ConcatParts
<1>5. /\ d \in Seq(Message) /\ Len(d) = Len(a) + Len(e)
      /\ \A i \in 1 .. Len(a) : d[i] = a[i]
      /\ \A i \in 1 .. Len(e) : d[Len(a) + i] = e[i]
  BY ONLY <1>b, <1>4
<1>c. OfRole(a \o e, "user") = OfRole(a, "user") \o OfRole(e, "user")
  BY ONLY a \in Seq(Message), <1>a, OfRoleConcat
<1>d. OfRole(a \o e, "tool") = OfRole(a, "tool") \o OfRole(e, "tool")
  BY ONLY a \in Seq(Message), <1>a, OfRoleConcat
<1>6. OfRole(d, "user") = OfRole(a, "user") \o OfRole(e, "user")
  BY ONLY <1>c, <1>4
<1>7. OfRole(d, "tool") = OfRole(a, "tool") \o OfRole(e, "tool")
  BY ONLY <1>d, <1>4
<1>8. OfRole(a, "user") = a /\ OfRole(c, "user") = c /\ OfRole(b, "tool") = b
  BY OfRoleAll DEF AllOf
<1>9. OfRole(a, "tool") = <<>> /\ OfRole(c, "tool") = <<>> /\ OfRole(b, "user") = <<>>
  <2>1. /\ \A i \in 1 .. Len(a) : a[i].role # "tool"
        /\ \A i \in 1 .. Len(c) : c[i].role # "tool"
        /\ \A i \in 1 .. Len(b) : b[i].role # "user"
    BY DEF AllOf
  <2> QED
    BY <2>1, OfRoleNone
<1>10. <<>> \o c = c /\ <<>> \o (b \o <<>>) = b
  OBVIOUS
<1>11. ASSUME NEW i \in 1 .. Len(d)
       PROVE  /\ d[i].role \in {"user", "tool"}
              /\ d[i].role = "tool" <=> i \in Len(a) + 1 .. Len(a) + Len(b)
  <2>1. CASE i \in 1 .. Len(a)
    <3>1. d[i].role = "user" /\ i \notin Len(a) + 1 .. Len(a) + Len(b)
      BY <1>1, <1>5, <2>1 DEF AllOf
    <3> QED
      BY <3>1
  <2>2. CASE i \in Len(a) + 1 .. Len(a) + Len(b)
    <3>1. i - Len(a) \in 1 .. Len(b) /\ i - Len(a) \in 1 .. Len(e) /\ Len(a) + (i - Len(a)) = i
      BY <1>1, <2>2
    <3>2. d[i] = b[i - Len(a)]
      BY <1>1, <1>5, <3>1
    <3> QED
      BY <2>2, <3>1, <3>2 DEF AllOf
  <2>3. CASE i \notin 1 .. Len(a) /\ i \notin Len(a) + 1 .. Len(a) + Len(b)
    <3> DEFINE j == i - Len(a) - Len(b)
    <3>1. /\ j \in 1 .. Len(c) /\ Len(b) + j \in 1 .. Len(e)
          /\ Len(a) + (Len(b) + j) = i
      BY <1>1, <1>5, <2>3
    <3> HIDE DEF j
    <3>2. d[i] = c[j]
      BY <1>1, <1>5, <3>1
    <3>3. c[j].role = "user"
      BY <3>1 DEF AllOf
    <3> QED
      BY <2>3, <3>2, <3>3
  <2> QED
    BY <2>1, <2>2, <2>3
<1> QED
  BY <1>2, <1>3, <1>5, <1>6, <1>7, <1>8, <1>9, <1>10, <1>11 DEF d

\* In the messages API: the text, the results, the image.
LEMMA TextFirst ==
    ASSUME answers \in Seq(Answer), client.proto = "anthropic", NEW t \in Turns,
           NEW U, NEW d, d = Around(U, Answered(t), Pictures(t)),
           \/ U = <<>> /\ FlattenSeq(t.text) = <<>>
           \/ /\ U = <<TextOf("user", FlattenSeq(t.text))>>
              /\ FlattenSeq(t.text) # <<>> \/ Pending = <<>>
    PROVE  /\ d \in Seq(Message)
           /\ \A i \in 1 .. Len(d) : d[i].role \in {"user", "tool"}
           /\ SameTurn(d, t, Pending)
           /\ InPlace(d, t)
<1> DEFINE text == FlattenSeq(t.text)  u == TextOf("user", text)
           A == Answered(t)  P == Pictures(t)
<1>1. /\ text \in Seq(Words) /\ Len(Pending) \in Nat /\ Len(t.results) = Len(Pending)
      /\ t.image \in {"none", "base64", "url"}
  BY TurnFacts
<1>2. u \in Message /\ u.role = "user" /\ u.content = text /\ u.images = <<>>
  <2>1. "user" \in Roles \ {"tool"}
    BY DEF Roles
  <2> QED
    BY <1>1, <2>1, TextOfFields
<1>3. /\ A \in Seq(Message) /\ Len(A) = Len(Pending) /\ P \in Seq(Message)
      /\ \A i \in 1 .. Len(Pending) :
            A[i].role = "tool" /\ A[i].tool = Pending[i].id /\ A[i].content = t.results[i]
  BY AnsweredType
<1>4. U = <<>> \/ U = <<u>>
  OBVIOUS
<1> HIDE DEF u
<1>5. U \in Seq(Message) /\ \A i \in 1 .. Len(U) : U[i].role = "user"
  <2>1. <<>> \in Seq(Message) /\ Len(<<>>) = 0
    OBVIOUS
  <2>2. <<u>> \in Seq(Message) /\ Len(<<u>>) = 1 /\ <<u>>[1] = u
    BY <1>2
  <2>3. CASE U = <<>>
    BY ONLY <2>1, <2>3
  <2>4. CASE U = <<u>>
    BY ONLY <1>2, <2>2, <2>4
  <2> QED
    BY <1>4, <2>3, <2>4
<1>6. AllOf(P, "user")
  BY UserImageFields DEF Pictures, AllOf
<1>7. Contents(U) = text /\ Images(U) = <<>>
  <2>1. CASE U = <<>>
    BY <2>1, ContentsEmpty DEF u
  <2>2. CASE U = <<u>>
    BY <1>2, <2>2, ContentsOne
  <2> QED
    BY <1>4, <2>1, <2>2
<1>8. /\ Contents(P) = <<>>
      /\ Images(P) = IF t.image = "base64" THEN <<Image>> ELSE <<>>
  <2>1. CASE t.image = "base64"
    <3>1. P = <<UserImage>>
      BY <2>1 DEF Pictures
    <3> QED
      BY <2>1, <3>1, UserImageFields, ContentsOne
  <2>2. CASE t.image # "base64"
    <3>1. P = <<>>
      BY <2>2 DEF Pictures
    <3> QED
      BY <2>2, <3>1, ContentsEmpty
  <2> QED
    BY <2>1, <2>2
<1> HIDE DEF A, P, text
<1>9. /\ d \in Seq(Message)
      /\ \A i \in 1 .. Len(d) : d[i].role \in {"user", "tool"}
      /\ \A i \in 1 .. Len(d) :
            d[i].role = "tool" <=> i \in Len(U) + 1 .. Len(U) + Len(A)
      /\ OfRole(d, "user") = U \o P
      /\ OfRole(d, "tool") = A
  <2>1. d = Around(U, A, P)
    BY DEF A, P
  <2>2. AllOf(A, "tool") /\ AllOf(U, "user")
    BY <1>3, <1>5 DEF AllOf
  <2>3. U \in Seq(Message) /\ A \in Seq(Message) /\ P \in Seq(Message)
    BY <1>3, <1>5
  <2>4. /\ Around(U, A, P) \in Seq(Message)
        /\ \A i \in 1 .. Len(Around(U, A, P)) :
              /\ Around(U, A, P)[i].role \in {"user", "tool"}
              /\ Around(U, A, P)[i].role = "tool"
                    <=> i \in Len(U) + 1 .. Len(U) + Len(A)
        /\ OfRole(Around(U, A, P), "user") = U \o P
        /\ OfRole(Around(U, A, P), "tool") = A
    BY ONLY <1>6, <2>2, <2>3, AroundFacts
  <2> QED
    BY <2>1, <2>4
<1>10. Contents(U \o P) = text /\ Images(U \o P) = IF t.image = "base64" THEN <<Image>> ELSE <<>>
  <2>1. Contents(U \o P) = Contents(U) \o Contents(P) /\ Images(U \o P) = Images(U) \o Images(P)
    BY <1>3, <1>5, ContentsConcat
  <2>2. text \o <<>> = text
    BY <1>1 DEF text
  <2> QED
    BY <1>7, <1>8, <2>1, <2>2
<1>11. SameTurn(d, t, Pending)
  <2>1. \A list : Heard(t.text, list) = text
    BY DEF Heard, text
  <2>2. t.image = "base64" <=> ~(t.image = "none" \/ (t.image = "url" /\ client.proto = "anthropic"))
    BY <1>1
  <2>3. DOMAIN A = 1 .. Len(Pending)
    BY <1>3
  <2> QED
    BY <1>3, <1>9, <1>10, <2>1, <2>2, <2>3 DEF SameTurn, Contents, Images
<1>12. InPlace(d, t)
  <2> DEFINE before == IF client.proto = "anthropic" /\ FlattenSeq(t.text) # <<>> THEN 1 ELSE 0
  <2>1. Len(A) = Len(t.results) /\ DOMAIN d = 1 .. Len(d)
    BY <1>1, <1>3, <1>9
  <2>2. Len(U) = before \/ Len(t.results) = 0
    <3>1. CASE U = <<>>
      BY <3>1, <1>2
    <3>2. CASE U = <<u>>
      BY <3>2, <1>1
    <3> QED
      BY <1>4, <3>1, <3>2
  <2>3. before \in Nat /\ Len(U) \in Nat /\ Len(t.results) \in Nat
    BY <1>1, <1>5
  <2> HIDE DEF before
  <2>4. ASSUME NEW i \in DOMAIN d
        PROVE  d[i].role = "tool" <=> i \in before + 1 .. before + Len(t.results)
    <3>1. d[i].role = "tool" <=> i \in Len(U) + 1 .. Len(U) + Len(A)
      BY <1>9, <2>1
    <3>2. i \in Int
      BY <2>1
    <3>3. i \in Len(U) + 1 .. Len(U) + Len(A)
             <=> i \in before + 1 .. before + Len(t.results)
      BY ONLY <2>1, <2>2, <2>3, <3>2
    <3> QED
      BY <3>1, <3>3
  <2> QED
    BY <2>4 DEF InPlace, before
<1> QED
  BY <1>9, <1>11, <1>12

\* What the provider gets of a turn.
Arrives(msgs, t) ==
    /\ msgs \in Seq(Message)
    /\ \A i \in 1 .. Len(msgs) : msgs[i].role \in {"user", "tool"}
    /\ SameTurn(msgs, t, Pending)
    /\ InPlace(msgs, t)

LEMMA AnthropicTurnArrives ==
    ASSUME answers \in Seq(Answer), client.proto = "anthropic", NEW t \in Turns
    PROVE  \E msg : /\ AnthropicTurn(t) = <<msg>>
                    /\ Arrives(Anthropic!convertMessage(msg), t)
<1> DEFINE text == FlattenSeq(t.text)  blocks == TurnBlocks(t)
           short == client.plain /\ Len(t.text) = 1 /\ Len(blocks) = 1
           written == [role |-> "user", content |-> String(t.text[1])]
           listed == [role |-> "user", content |-> List(blocks)]
<1>1. /\ JoinedText(blocks, "text") = text
      /\ SplitAll(blocks) = Answered(t) \o Pictures(t)
      /\ Len(blocks) = Len(Pending) + Len(t.text) + Len(ImageBlocks(t))
  BY TurnBlocksConvert
<1>2. CASE short
  <2>1. AnthropicTurn(t) = <<written>>
    BY <1>2, AnthropicTurnIs
  <2>2. Anthropic!convertMessage(written) = <<TextOf("user", t.text[1])>>
    BY UserString
  <2>3. t.text \in Seq(Seq(Words)) /\ Len(Pending) \in Nat /\ DOMAIN Pending = 1 .. Len(Pending)
    BY TurnFacts
  <2>4. Len(ImageBlocks(t)) = IF t.image = "none" THEN 0 ELSE 1
    BY DEF ImageBlocks
  <2>5. Len(Pending) = 0 /\ t.image = "none"
    <3> DEFINE p == Len(Pending)  i == Len(ImageBlocks(t))
    <3>1. p \in Nat /\ i \in Nat /\ (i = 0 => t.image = "none")
      BY <2>3, <2>4
    <3>2. Len(blocks) = 1 /\ Len(t.text) = 1 /\ Len(blocks) = p + Len(t.text) + i
      BY <1>1, <1>2
    <3>3. 1 = p + 1 + i
      BY ONLY <3>2
    <3> HIDE DEF p, i
    <3>4. p = 0 /\ i = 0
      BY <3>1, <3>3
    <3> QED
      BY <3>1, <3>4 DEF p
  <2>6. text = t.text[1]
    <3>1. t.text = <<t.text[1]>>
      BY <1>2, <2>3
    <3>2. FlattenSeq(<<t.text[1]>>) = t.text[1]
      BY FlattenOne
    <3> QED
      BY <3>1, <3>2
  <2>7. Pending = <<>>
    <3>1. Pending \in Seq(ToolCall)
      BY PendingType
    <3> QED
      BY <2>5, <3>1
  <2>8. Answered(t) = <<>> /\ Pictures(t) = <<>>
    BY <2>5, <2>7 DEF Answered, Pictures
  <2> DEFINE U == <<TextOf("user", text)>>
  <2>9. U = Around(U, Answered(t), Pictures(t))
    BY <2>8 DEF Around
  <2> HIDE DEF U
  <2>10. Arrives(U, t)
    BY <2>7, <2>9, TextFirst DEF U, Arrives
  <2> HIDE DEF written
  <2>11. Arrives(Anthropic!convertMessage(written), t)
    BY <2>2, <2>6, <2>10 DEF U
  <2> QED
    BY <2>1, <2>11
<1>3. CASE ~short
  <2>1. AnthropicTurn(t) = <<listed>>
    BY <1>3, AnthropicTurnIs
  <2> DEFINE U == IF text = <<>> THEN <<>> ELSE <<TextOf("user", text)>>
  <2>2. Anthropic!convertMessage(listed) = U \o (Answered(t) \o Pictures(t))
    BY <1>1, UserBlocks
  <2> HIDE DEF listed
  <2>3. Anthropic!convertMessage(listed) = Around(U, Answered(t), Pictures(t))
    BY <2>2 DEF Around
  <2>4. Arrives(Anthropic!convertMessage(listed), t)
    <3>1. \/ U = <<>> /\ FlattenSeq(t.text) = <<>>
          \/ /\ U = <<TextOf("user", FlattenSeq(t.text))>>
             /\ FlattenSeq(t.text) # <<>> \/ Pending = <<>>
      OBVIOUS
    <3> HIDE DEF U
    <3> QED
      BY <2>3, <3>1, TextFirst DEF Arrives
  <2> QED
    BY <2>1, <2>4
<1> QED
  BY <1>2, <1>3

-----------------------------------------------------------------------------
(* What a client says, in chat completions.                                *)

Full(role, text, thinking, calls, tool, images) ==
    [role |-> role, content |-> text, reasoning |-> thinking, calls |-> calls,
     tool |-> tool, images |-> images]

LEMMA FullForms ==
    ASSUME NEW role, NEW text, NEW thinking, NEW calls, NEW tool, NEW images
    PROVE  /\ Blank(role) = Full(role, <<>>, <<>>, <<>>, NoID, <<>>)
           /\ TextOf(role, text) = Full(role, text, <<>>, <<>>, NoID, <<>>)
           /\ ToolText(tool, text) = Full("tool", text, <<>>, <<>>, tool, <<>>)
           /\ Given(text, images) = Full("user", text, <<>>, <<>>, NoID, images)
           /\ Reply(text, thinking, calls) = Full("assistant", text, thinking, calls, NoID, <<>>)
<1>1. \A r : Blank(r) = Full(r, <<>>, <<>>, <<>>, NoID, <<>>)
  BY DEF Blank, Full
<1>2. TextOf(role, text) = Full(role, text, <<>>, <<>>, NoID, <<>>)
  BY <1>1 DEF Full, TextOf
<1>3. ToolText(tool, text) = Full("tool", text, <<>>, <<>>, tool, <<>>)
  <2>1. ToolText(tool, text) = [[Blank("tool") EXCEPT !.tool = tool] EXCEPT !.content = text]
    BY DEF ToolText
  <2>2. [Blank("tool") EXCEPT !.tool = tool] = Full("tool", <<>>, <<>>, <<>>, tool, <<>>)
    BY <1>1 DEF Full
  <2> QED
    BY <2>1, <2>2 DEF Full
<1>4. Given(text, images) = Full("user", text, <<>>, <<>>, NoID, images)
  <2>1. Given(text, images) = [[Blank("user") EXCEPT !.content = text] EXCEPT !.images = images]
    BY DEF Given
  <2>2. [Blank("user") EXCEPT !.content = text] = Full("user", text, <<>>, <<>>, NoID, <<>>)
    BY <1>1 DEF Full
  <2> QED
    BY <2>1, <2>2 DEF Full
<1>5. Reply(text, thinking, calls) = Full("assistant", text, thinking, calls, NoID, <<>>)
  <2> DEFINE a == [Blank("assistant") EXCEPT !.content = text]
             b == [a EXCEPT !.reasoning = thinking]
  <2>1. Reply(text, thinking, calls) = [b EXCEPT !.calls = calls]
    BY DEF Reply
  <2>2. a = Full("assistant", text, <<>>, <<>>, NoID, <<>>)
    BY <1>1 DEF Full
  <2> HIDE DEF a
  <2>3. b = Full("assistant", text, thinking, <<>>, NoID, <<>>)
    BY <2>2 DEF Full
  <2> HIDE DEF b
  <2> QED
    BY <2>1, <2>3 DEF Full
<1> QED
  BY <1>1, <1>2, <1>3, <1>4, <1>5

\* convertMessage, as one record.
LEMMA OpenAIConverts ==
    ASSUME NEW msg
    PROVE  OpenAI!convertMessage(msg) =
              Full(msg.role, OpenAI!ContentText(msg.content), <<>>, msg.calls, msg.tool,
                   IF msg.content.form = "list" THEN OpenAI!URLs(msg.content.parts) ELSE <<>>)
<1> DEFINE text == OpenAI!ContentText(msg.content)
           images == IF msg.content.form = "list" THEN OpenAI!URLs(msg.content.parts) ELSE <<>>
           role == msg.role  calls == msg.calls  tool == msg.tool
           a == [Blank(role) EXCEPT !.content = text]
           b == [a EXCEPT !.images = images]
           c == [b EXCEPT !.calls = calls]
<1>1. OpenAI!Blank(role) = Blank(role)
  BY DEF Blank, OpenAI!Blank
<1>2. OpenAI!convertMessage(msg)
         = [Blank(role) EXCEPT !.content = text, !.images = images, !.calls = calls, !.tool = tool]
  BY <1>1 DEF OpenAI!convertMessage
<1>3. OpenAI!convertMessage(msg) = [c EXCEPT !.tool = tool]
  BY <1>2
<1> HIDE DEF text, images, role, calls, tool
<1>4. a = Full(role, text, <<>>, <<>>, NoID, <<>>)
  BY DEF Full, Blank
<1> HIDE DEF a
<1>5. b = Full(role, text, <<>>, <<>>, NoID, images)
  BY <1>4 DEF Full, b
<1> HIDE DEF b
<1>6. c = Full(role, text, <<>>, calls, NoID, images)
  BY <1>5 DEF Full, c
<1> HIDE DEF c
<1>7. [c EXCEPT !.tool = tool] = Full(role, text, <<>>, calls, tool, images)
  BY <1>6 DEF Full
<1> QED
  BY <1>3, <1>7 DEF text, images, role, calls, tool

ToolMessage(id, text) ==
    [OpenAI!ChatMessage("tool", String(text)) EXCEPT !.tool = id]

LEMMA ToolMessageConverts ==
    ASSUME NEW id, NEW text
    PROVE  OpenAI!convertMessage(ToolMessage(id, text)) = ToolText(id, text)
<1> DEFINE msg == ToolMessage(id, text)
<1>1. /\ msg.role = "tool" /\ msg.content = String(text) /\ msg.calls = <<>> /\ msg.tool = id
  BY DEF ToolMessage, OpenAI!ChatMessage
<1> HIDE DEF msg
<1>2. String(text).form # "list" /\ OpenAI!AsText(String(text)) = text
  BY FieldForms DEF OpenAI!AsText
<1>3. OpenAI!ContentText(String(text)) = text
  BY <1>2 DEF OpenAI!ContentText
<1>4. OpenAI!convertMessage(msg) = Full("tool", text, <<>>, <<>>, id, <<>>)
  BY <1>1, <1>2, <1>3, OpenAIConverts
<1> QED
  BY <1>4, FullForms DEF msg

LEMMA ChatMessageConverts ==
    ASSUME NEW role, NEW content
    PROVE  OpenAI!convertMessage(OpenAI!ChatMessage(role, content)) =
              Full(role, OpenAI!ContentText(content), <<>>, <<>>, NoID,
                   IF content.form = "list" THEN OpenAI!URLs(content.parts) ELSE <<>>)
<1> DEFINE msg == OpenAI!ChatMessage(role, content)
<1>1. msg.role = role /\ msg.content = content /\ msg.calls = <<>> /\ msg.tool = NoID
  BY DEF OpenAI!ChatMessage
<1> HIDE DEF msg
<1>2. OpenAI!convertMessage(msg) =
              Full(role, OpenAI!ContentText(content), <<>>, <<>>, NoID,
                   IF content.form = "list" THEN OpenAI!URLs(content.parts) ELSE <<>>)
  BY <1>1, OpenAIConverts
<1> QED
  BY <1>2 DEF msg

\* The parts of a message: texts, and an image if there is one.
Parts(texts, image) ==
    [i \in DOMAIN texts |-> OpenAI!TextPart(texts[i])]
    \o (IF image THEN <<OpenAI!ImagePart(Image)>> ELSE <<>>)

LEMMA PartsConvert ==
    ASSUME NEW texts \in Seq(Seq(Words)), NEW image \in BOOLEAN
    PROVE  /\ JoinedText(Parts(texts, image), "text") = FlattenSeq(texts)
           /\ OpenAI!URLs(Parts(texts, image)) = (IF image THEN <<Image>> ELSE <<>>)
           /\ Len(Parts(texts, image)) = Len(texts) + (IF image THEN 1 ELSE 0)
           /\ ~image => Parts(texts, image) = [i \in DOMAIN texts |-> OpenAI!TextPart(texts[i])]
<1> DEFINE X == [i \in DOMAIN texts |-> OpenAI!TextPart(texts[i])]
           I == IF image THEN <<OpenAI!ImagePart(Image)>> ELSE <<>>
           S == {OpenAI!TextPart(x) : x \in Seq(Words)} \cup {OpenAI!ImagePart(Image)}
           g == [b \in S |-> IF b.type = "image_url" /\ b.url # NoID THEN <<b.url>> ELSE <<>>]
<1>1. /\ \A x : /\ OpenAI!TextPart(x).type = "text" /\ OpenAI!TextPart(x).text = x
                /\ OpenAI!TextPart(x).url = NoID
      /\ OpenAI!ImagePart(Image).type = "image_url" /\ OpenAI!ImagePart(Image).text = <<>>
      /\ OpenAI!ImagePart(Image).url = Image
  BY DEF OpenAI!TextPart, OpenAI!ImagePart
<1>2. /\ Len(texts) \in Nat /\ DOMAIN texts = 1 .. Len(texts)
      /\ \A i \in 1 .. Len(texts) : texts[i] \in Seq(Words)
      /\ FlattenSeq(texts) \in Seq(Words)
  BY FlattenType
<1>3. X \in Seq(S) /\ Len(X) = Len(texts)
  <2>1. X \in [1 .. Len(texts) -> S]
    BY <1>2
  <2> QED
    BY <1>2, <2>1, SequenceOf
<1>a. X \in Seq(S)
  BY <1>3
<1>4. I \in Seq(S) /\ Len(I) = IF image THEN 1 ELSE 0
  <2> DEFINE b == OpenAI!ImagePart(Image)
  <2>1. b \in S /\ (I = <<>> \/ I = <<b>>)
    OBVIOUS
  <2>2. Len(I) = IF image THEN 1 ELSE 0
    OBVIOUS
  <2> HIDE DEF b, I, S
  <2> QED
    BY <2>1, <2>2, ShortSequences
<1>b. I \in Seq(S)
  BY <1>4
<1>5. Textual(S)
  BY <1>1, EmptyFields DEF Textual
<1>6. Makes(g, S, {Image})
  <2>1. <<Image>> \in Seq({Image}) /\ <<>> \in Seq({Image})
    OBVIOUS
  <2>2. \A b \in S : b.url = Image \/ b.url = NoID
    BY <1>1
  <2> HIDE DEF S
  <2> QED
    BY <2>1, <2>2 DEF Makes
<1>7. \A s \in Seq(S) : OpenAI!URLs(s) = Collect(g, s)
  <2> SUFFICES ASSUME NEW s \in Seq(S) PROVE OpenAI!URLs(s) = Collect(g, s)
    OBVIOUS
  <2>1. \A i \in DOMAIN s : s[i] \in S
    OBVIOUS
  <2>2. [i \in DOMAIN s |-> IF s[i].type = "image_url" /\ s[i].url # NoID
                            THEN <<s[i].url>> ELSE <<>>]
           = [i \in DOMAIN s |-> g[s[i]]]
    BY <2>1
  <2> HIDE DEF g
  <2>3. OpenAI!URLs(s)
           = FlattenSeq([i \in DOMAIN s |->
                IF s[i].type = "image_url" /\ s[i].url # NoID THEN <<s[i].url>> ELSE <<>>])
    BY DEF OpenAI!URLs, OpenAI!FlattenSeq, FlattenSeq
  <2> QED
    BY <2>2, <2>3 DEF Collect
<1>8. JoinedText(X, "text") = FlattenSeq(texts)
  <2>1. DOMAIN X = DOMAIN texts
    OBVIOUS
  <2>2. \A i \in DOMAIN texts : X[i].type = "text" /\ X[i].text = texts[i]
    BY <1>1
  <2> HIDE DEF X
  <2> QED
    BY <2>1, <2>2, JoinedAll
<1>9. JoinedText(I, "text") = <<>>
  <2>1. \A i \in 1 .. Len(I) : I[i].type # "text"
    BY <1>1
  <2> HIDE DEF I, S
  <2> QED
    BY <1>b, <2>1, JoinedNone
<1>10. Collect(g, X) = <<>>
  <2>1. [i \in DOMAIN X |-> g[X[i]]] \in [1 .. Len(texts) -> {<<>>}]
    <3>1. \A i \in DOMAIN texts : X[i] \in S /\ X[i].type = "text"
      BY <1>1, <1>2
    <3>2. DOMAIN X = 1 .. Len(texts)
      BY <1>2
    <3> HIDE DEF X, S
    <3>3. \A i \in DOMAIN texts : g[X[i]] = <<>>
      BY <3>1
    <3> HIDE DEF g
    <3> QED
      BY <1>2, <3>2, <3>3
  <2> HIDE DEF X, g
  <2> QED
    BY <1>2, <2>1, FlattenNothing DEF Collect
<1>11. Collect(g, I) = IF image THEN <<Image>> ELSE <<>>
  <2>1. CASE image
    <3> DEFINE b == OpenAI!ImagePart(Image)
    <3>1. b \in S /\ b.type = "image_url" /\ b.url = Image
      BY <1>1
    <3>2. Image # NoID
      BY IDsAssumption
    <3>3. I = <<b>>
      BY <2>1
    <3> HIDE DEF b, S, I
    <3>4. g[b] = <<Image>>
      BY <3>1, <3>2
    <3> HIDE DEF g
    <3> QED
      BY <2>1, <3>3, <3>4, CollectOne
  <2>2. CASE ~image
    BY <2>2, CollectEmpty
  <2> QED
    BY <2>1, <2>2
<1> DEFINE P == Parts(texts, image)
<1>12. P = X \o I
  BY DEF Parts
<1>13. ~image => P = X
  <2>1. ~image => I = <<>>
    OBVIOUS
  <2> HIDE DEF X, I, P, S
  <2> QED
    BY <1>12, <1>a, <2>1
<1> HIDE DEF P, I, S, g
<1>14. ~image => P = [i \in DOMAIN texts |-> OpenAI!TextPart(texts[i])]
  BY <1>13
<1> HIDE DEF X
<1>15. Len(X \o I) = Len(X) + Len(I) /\ X \o I \in Seq(S)
  BY <1>a, <1>b
<1>16. JoinedText(X \o I, "text") = JoinedText(X, "text") \o JoinedText(I, "text")
  BY <1>a, <1>b, <1>5, JoinedConcat
<1>17. Collect(g, X \o I) = Collect(g, X) \o Collect(g, I)
  BY <1>a, <1>b, <1>6, CollectConcat
<1>18. JoinedText(P, "text") = FlattenSeq(texts)
  BY <1>2, <1>8, <1>9, <1>12, <1>16
<1>19. OpenAI!URLs(P) = IF image THEN <<Image>> ELSE <<>>
  <2>1. <<>> \o <<Image>> = <<Image>> /\ <<>> \o <<>> = <<>>
    OBVIOUS
  <2>2. Collect(g, P) = IF image THEN <<Image>> ELSE <<>>
    BY <1>10, <1>11, <1>12, <1>17, <2>1
  <2> QED
    BY <1>7, <1>12, <1>15, <2>2
<1> QED
  BY <1>3, <1>4, <1>12, <1>14, <1>15, <1>18, <1>19 DEF P

\* The text the provider gets of a list of parts.
ListText(texts, image) ==
    IF FlattenSeq(texts) = <<>> /\ ~image THEN <<RawJSON>> ELSE FlattenSeq(texts)

LEMMA FieldConverts ==
    ASSUME NEW texts \in Seq(Seq(Words)), NEW image \in BOOLEAN, NEW role, NEW text
    PROVE  /\ OpenAI!convertMessage(OpenAI!ChatMessage(role, String(text))) = TextOf(role, text)
           /\ OpenAI!convertMessage(OpenAI!ChatMessage(role, List(Parts(texts, image))))
                 = Full(role, ListText(texts, image), <<>>, <<>>, NoID,
                        IF image THEN <<Image>> ELSE <<>>)
           /\ ListText(texts, image) \in Seq(Words)
<1>1. OpenAI!convertMessage(OpenAI!ChatMessage(role, String(text))) = TextOf(role, text)
  <2>1. String(text).form # "list" /\ OpenAI!AsText(String(text)) = text
    BY FieldForms DEF OpenAI!AsText
  <2>2. OpenAI!ContentText(String(text)) = text
    BY <2>1 DEF OpenAI!ContentText
  <2>3. OpenAI!convertMessage(OpenAI!ChatMessage(role, String(text)))
           = Full(role, text, <<>>, <<>>, NoID, <<>>)
    BY <2>1, <2>2, ChatMessageConverts
  <2> QED
    BY <2>3, FullForms
<1>2. OpenAI!convertMessage(OpenAI!ChatMessage(role, List(Parts(texts, image))))
         = Full(role, ListText(texts, image), <<>>, <<>>, NoID,
                IF image THEN <<Image>> ELSE <<>>)
  <2> DEFINE parts == Parts(texts, image)  content == List(parts)
  <2>1. content.form = "list" /\ content.parts = parts
    BY FieldForms
  <2>2. /\ JoinedText(parts, "text") = FlattenSeq(texts)
        /\ OpenAI!URLs(parts) = (IF image THEN <<Image>> ELSE <<>>)
    BY PartsConvert
  <2>3. OpenAI!JoinedText(parts, "text") = JoinedText(parts, "text")
    BY DEF JoinedText, OpenAI!JoinedText, FlattenSeq, OpenAI!FlattenSeq
  <2> HIDE DEF content, parts
  <2>4. OpenAI!URLs(parts) = <<>> <=> ~image
    BY <2>2
  <2>5. OpenAI!ContentText(content) = ListText(texts, image)
    BY <2>1, <2>2, <2>3, <2>4 DEF OpenAI!ContentText, ListText
  <2>6. OpenAI!convertMessage(OpenAI!ChatMessage(role, content))
           = Full(role, ListText(texts, image), <<>>, <<>>, NoID, OpenAI!URLs(parts))
    BY <2>1, <2>5, ChatMessageConverts
  <2> QED
    BY <2>2, <2>6 DEF content, parts
<1>3. ListText(texts, image) \in Seq(Words)
  <2>1. FlattenSeq(texts) \in Seq(Words)
    BY FlattenType
  <2>2. <<RawJSON>> \in Seq(Words)
    BY WordsAssumption
  <2> QED
    BY <2>1, <2>2 DEF ListText
<1> QED
  BY <1>1, <1>2, <1>3

ToolMessages(t) == [i \in DOMAIN Pending |-> ToolMessage(Pending[i].id, t.results[i])]

LEMMA OpenAITurnIs ==
    ASSUME NEW t
    PROVE  LET parts == Parts(t.text, t.image # "none")
           IN  OpenAITurn(t) =
                  ToolMessages(t)
                  \o (IF parts = <<>> THEN <<>>
                      ELSE <<OpenAI!ChatMessage("user",
                               IF client.plain /\ Len(t.text) = 1 /\ Len(parts) = 1
                               THEN String(t.text[1]) ELSE List(parts))>>)
<1>1. Parts(t.text, t.image # "none")
         = [i \in DOMAIN t.text |-> OpenAI!TextPart(t.text[i])]
           \o (IF t.image = "none" THEN <<>> ELSE <<OpenAI!ImagePart(Image)>>)
  BY DEF Parts
<1> QED
  BY <1>1, Zenon DEF OpenAITurn, ToolMessages, ToolMessage

\* In chat completions: the results, then text and image.
LEMMA ResultsFirst ==
    ASSUME answers \in Seq(Answer), client.proto = "openai", NEW t \in Turns,
           NEW text \in Seq(Words), NEW V, NEW d, d = Around(<<>>, Answered(t), V),
           \A list : list = (t.image = "none" /\ ~(client.plain /\ Len(t.text) = 1))
                        => Heard(t.text, list) = IF V = <<>> THEN <<>> ELSE text,
           \/ (V = <<>> /\ t.image = "none")
           \/ V = <<Given(text, IF t.image = "none" THEN <<>> ELSE <<Image>>)>>
    PROVE  Arrives(d, t)
<1> DEFINE images == IF t.image = "none" THEN <<>> ELSE <<Image>>
           v == Given(text, images)  A == Answered(t)
<1>1. /\ Len(Pending) \in Nat /\ Len(t.results) = Len(Pending)
  BY TurnFacts
<1>2. v \in Message /\ v.role = "user" /\ v.content = text /\ v.images = images
  <2>1. <<>> \in Seq({Image}) /\ <<Image>> \in Seq({Image})
    OBVIOUS
  <2>2. images \in Seq({Image})
    BY <2>1
  <2> HIDE DEF images
  <2> QED
    BY <2>2, GivenFields
<1>3. /\ A \in Seq(Message) /\ Len(A) = Len(Pending)
      /\ \A i \in 1 .. Len(Pending) :
            A[i].role = "tool" /\ A[i].tool = Pending[i].id /\ A[i].content = t.results[i]
  BY AnsweredType
<1>4. (V = <<>> /\ t.image = "none") \/ V = <<v>>
  OBVIOUS
<1> HIDE DEF v
<1>5. V \in Seq(Message) /\ AllOf(V, "user")
  <2>1. <<>> \in Seq(Message) /\ Len(<<>>) = 0
    OBVIOUS
  <2>2. <<v>> \in Seq(Message) /\ Len(<<v>>) = 1 /\ <<v>>[1] = v
    BY <1>2
  <2>3. CASE V = <<>>
    BY ONLY <2>1, <2>3 DEF AllOf
  <2>4. CASE V = <<v>>
    BY ONLY <1>2, <2>2, <2>4 DEF AllOf
  <2> QED
    BY <1>4, <2>3, <2>4
<1>6. Contents(V) = (IF V = <<>> THEN <<>> ELSE text) /\ Images(V) = images
  <2>1. CASE V = <<>>
    <3>1. Contents(<<>>) = <<>> /\ Images(<<>>) = <<>>
      BY ContentsEmpty
    <3>2. images = <<>>
      BY <1>4, <2>1
    <3> QED
      BY <2>1, <3>1, <3>2
  <2>2. CASE V = <<v>>
    BY <1>2, <2>2, ContentsOne
  <2> QED
    BY <1>4, <2>1, <2>2
<1> HIDE DEF A
<1>7. /\ Around(<<>>, A, V) \in Seq(Message)
      /\ \A i \in 1 .. Len(Around(<<>>, A, V)) :
            /\ Around(<<>>, A, V)[i].role \in {"user", "tool"}
            /\ Around(<<>>, A, V)[i].role = "tool"
                  <=> i \in Len(<<>>) + 1 .. Len(<<>>) + Len(A)
      /\ OfRole(Around(<<>>, A, V), "user") = <<>> \o V
      /\ OfRole(Around(<<>>, A, V), "tool") = A
  <2>1. AllOf(A, "tool") /\ AllOf(<<>>, "user")
    BY <1>3 DEF AllOf
  <2>2. <<>> \in Seq(Message) /\ A \in Seq(Message) /\ V \in Seq(Message)
    BY <1>3, <1>5
  <2> QED
    BY ONLY <1>5, <2>1, <2>2, AroundFacts
<1>8. /\ d \in Seq(Message)
      /\ \A i \in 1 .. Len(d) :
            /\ d[i].role \in {"user", "tool"}
            /\ d[i].role = "tool" <=> i \in 1 .. Len(A)
      /\ OfRole(d, "user") = V
      /\ OfRole(d, "tool") = A
  <2>1. <<>> \o V = V
    BY <1>5
  <2>2. Len(<<>>) = 0 /\ Len(A) \in Nat
    BY <1>3
  <2>3. 0 + 1 .. 0 + Len(A) = 1 .. Len(A)
    BY <2>2
  <2>4. d = Around(<<>>, A, V)
    BY DEF A
  <2> QED
    BY <1>7, <2>1, <2>2, <2>3, <2>4
<1>9. SameTurn(d, t, Pending)
  <2> DEFINE list == t.image = "none" /\ ~(client.plain /\ Len(t.text) = 1)
  <2>1. Heard(t.text, list) = Contents(V)
    BY <1>6
  <2>2. images = IF \/ t.image = "none"
                    \/ t.image = "url" /\ client.proto = "anthropic"
                 THEN <<>> ELSE <<Image>>
    OBVIOUS
  <2>3. DOMAIN A = 1 .. Len(Pending)
    BY <1>3
  <2> HIDE DEF images
  <2> QED
    BY <1>3, <1>6, <1>8, <2>1, <2>2, <2>3 DEF SameTurn, Contents, Images
<1>10. InPlace(d, t)
  <2>1. Len(A) = Len(t.results) /\ DOMAIN d = 1 .. Len(d) /\ Len(t.results) \in Nat
    BY <1>1, <1>3, <1>8
  <2>2. 0 + 1 .. 0 + Len(t.results) = 1 .. Len(A)
    BY <2>1
  <2>3. client.proto # "anthropic"
    OBVIOUS
  <2> QED
    BY <1>8, <2>1, <2>2, <2>3 DEF InPlace
<1>11. \A i \in 1 .. Len(d) : d[i].role \in {"user", "tool"}
  BY <1>8
<1> QED
  BY <1>8, <1>9, <1>10, <1>11 DEF Arrives

-----------------------------------------------------------------------------
(* Converting a history.                                                   *)

Convert(proto, msg) ==
    IF proto = "anthropic" THEN Anthropic!convertMessage(msg) ELSE <<OpenAI!convertMessage(msg)>>

Converted(proto, h) == FlattenSeq([i \in DOMAIN h |-> Convert(proto, h[i])])

\* The messages of h are of those that convert to messages.
Of(proto, h, H) == h \in Seq(H) /\ \A m \in H : Convert(proto, m) \in Seq(Message)
Known(proto, h) == \E H : Of(proto, h, H)

LEMMA ConvertedCollects ==
    ASSUME NEW proto, NEW H, NEW h, Of(proto, h, H)
    PROVE  /\ Makes([m \in H |-> Convert(proto, m)], H, Message)
           /\ Converted(proto, h) = Collect([m \in H |-> Convert(proto, m)], h)
<1>1. h \in Seq(H) /\ \A i \in DOMAIN h : h[i] \in H
  BY DEF Of
<1> DEFINE f == [m \in H |-> Convert(proto, m)]
<1>2. [i \in DOMAIN h |-> Convert(proto, h[i])] = [i \in DOMAIN h |-> f[h[i]]]
  BY <1>1
<1>3. Makes(f, H, Message)
  BY DEF Makes, Of
<1> QED
  BY <1>2, <1>3 DEF Converted, Collect

LEMMA OfConcat ==
    ASSUME NEW proto, NEW a, NEW b, NEW H, NEW K, Of(proto, a, H), Of(proto, b, K)
    PROVE  Of(proto, a, H \cup K) /\ Of(proto, b, H \cup K) /\ Of(proto, a \o b, H \cup K)
<1>1. a \in Seq(H \cup K) /\ b \in Seq(H \cup K)
  BY DEF Of
<1>2. a \o b \in Seq(H \cup K)
  BY <1>1
<1> QED
  BY <1>1, <1>2 DEF Of

LEMMA ConvertedConcat ==
    ASSUME NEW proto, NEW a, NEW b, Known(proto, a), Known(proto, b)
    PROVE  /\ Known(proto, a \o b)
           /\ Converted(proto, a) \in Seq(Message) /\ Converted(proto, b) \in Seq(Message)
           /\ Converted(proto, a \o b) = Converted(proto, a) \o Converted(proto, b)
<1>1. PICK H : Of(proto, a, H)
  BY DEF Known
<1>2. PICK K : Of(proto, b, K)
  BY DEF Known
<1> DEFINE S == H \cup K  f == [m \in S |-> Convert(proto, m)]
<1>3. Of(proto, a, S) /\ Of(proto, b, S) /\ Of(proto, a \o b, S)
  BY <1>1, <1>2, OfConcat
<1> HIDE DEF S
<1>4. /\ Converted(proto, a) = Collect(f, a) /\ Converted(proto, b) = Collect(f, b)
      /\ Converted(proto, a \o b) = Collect(f, a \o b) /\ Makes(f, S, Message)
  BY <1>3, ConvertedCollects
<1> HIDE DEF f
<1>5. a \in Seq(S) /\ b \in Seq(S)
  BY <1>3 DEF Of
<1>6. Collect(f, a \o b) = Collect(f, a) \o Collect(f, b)
  BY <1>4, <1>5, CollectConcat
<1>7. Collect(f, a) \in Seq(Message) /\ Collect(f, b) \in Seq(Message)
  BY <1>4, <1>5, CollectType
<1> QED
  BY <1>3, <1>4, <1>6, <1>7 DEF Known

LEMMA ConvertedNone ==
    ASSUME NEW proto PROVE Known(proto, <<>>) /\ Converted(proto, <<>>) = <<>>
<1>1. Of(proto, <<>>, {})
  BY DEF Of
<1>2. [i \in DOMAIN <<>> |-> Convert(proto, <<>>[i])] = <<>>
  OBVIOUS
<1> QED
  BY <1>1, <1>2, FlattenEmpty DEF Known, Converted

LEMMA ConvertedOne ==
    ASSUME NEW proto, NEW msg, Convert(proto, msg) \in Seq(Message)
    PROVE  Known(proto, <<msg>>) /\ Converted(proto, <<msg>>) = Convert(proto, msg)
<1>1. <<msg>> \in Seq({msg})
  OBVIOUS
<1>2. Of(proto, <<msg>>, {msg})
  BY <1>1 DEF Of
<1>3. [i \in DOMAIN <<msg>> |-> Convert(proto, <<msg>>[i])] = <<Convert(proto, msg)>>
  OBVIOUS
<1> QED
  BY <1>2, <1>3, FlattenOne DEF Known, Converted

\* In chat completions a message is one message.
LEMMA ConvertedEach ==
    ASSUME NEW S, NEW h \in Seq(S)
    PROVE  Converted("openai", h) = [i \in DOMAIN h |-> OpenAI!convertMessage(h[i])]
<1> DEFINE T == {OpenAI!convertMessage(m) : m \in S}
           s == [i \in DOMAIN h |-> OpenAI!convertMessage(h[i])]
<1>1. Len(h) \in Nat /\ DOMAIN h = 1 .. Len(h) /\ \A i \in DOMAIN h : h[i] \in S
  OBVIOUS
<1>2. s \in [1 .. Len(h) -> T]
  BY <1>1
<1>3. [i \in DOMAIN h |-> Convert("openai", h[i])] = [i \in DOMAIN s |-> <<s[i]>>]
  BY DEF Convert
<1> HIDE DEF s, T
<1>4. s \in Seq(T)
  BY <1>1, <1>2, SequenceOf
<1>5. FlattenSeq([i \in DOMAIN s |-> <<s[i]>>]) = s
  BY <1>4, Singles
<1> QED
  BY <1>3, <1>5 DEF Converted, s

LEMMA ToolMessagesConvert ==
    ASSUME answers \in Seq(Answer), NEW t \in Turns
    PROVE  /\ Known("openai", ToolMessages(t))
           /\ Converted("openai", ToolMessages(t)) = Answered(t)
<1> DEFINE n == Len(Pending)
           H == {ToolMessage(Pending[i].id, t.results[i]) : i \in 1 .. n}
<1>1. n \in Nat /\ DOMAIN Pending = 1 .. n /\ \A i \in 1 .. n : Pending[i].id \in CallIDs
  BY TurnFacts, PendingType DEF ToolCall
<1>2. \A i \in 1 .. n : t.results[i] \in Seq(Words)
  BY TurnFacts
<1>3. ToolMessages(t) \in [1 .. n -> H]
  BY <1>1 DEF ToolMessages
<1>4. \A i \in 1 .. n : ToolText(Pending[i].id, t.results[i]) \in Message
  BY <1>1, <1>2, ToolTextFields
<1>5. \A m \in H : OpenAI!convertMessage(m) \in Message
  BY <1>4, ToolMessageConverts
<1>6. \A m \in H : <<OpenAI!convertMessage(m)>> \in Seq(Message)
  BY <1>5
<1>7. \A i \in 1 .. n : OpenAI!convertMessage(ToolMessages(t)[i]) = ToolText(Pending[i].id, t.results[i])
  BY <1>1, ToolMessageConverts DEF ToolMessages
<1> HIDE DEF H, n
<1>8. ToolMessages(t) \in Seq(H) /\ DOMAIN ToolMessages(t) = 1 .. n
  BY <1>1, <1>3, SequenceOf
<1>9. Of("openai", ToolMessages(t), H)
  BY <1>6, <1>8 DEF Of, Convert
<1>10. Converted("openai", ToolMessages(t))
          = [i \in DOMAIN ToolMessages(t) |-> OpenAI!convertMessage(ToolMessages(t)[i])]
  BY <1>8, ConvertedEach
<1> QED
  BY <1>1, <1>7, <1>8, <1>9, <1>10 DEF Known, Answered

LEMMA OpenAITurnArrives ==
    ASSUME answers \in Seq(Answer), client.proto = "openai", NEW t \in Turns
    PROVE  /\ Known("openai", OpenAITurn(t))
           /\ Arrives(Converted("openai", OpenAITurn(t)), t)
<1> DEFINE texts == t.text  image == t.image # "none"  parts == Parts(texts, image)
           images == IF t.image = "none" THEN <<>> ELSE <<Image>>
           short == client.plain /\ Len(texts) = 1 /\ Len(parts) = 1
           field == IF short THEN String(texts[1]) ELSE List(parts)
           asked == IF parts = <<>> THEN <<>> ELSE <<OpenAI!ChatMessage("user", field)>>
           text == IF short THEN texts[1] ELSE ListText(texts, image)
           V == IF parts = <<>> THEN <<>> ELSE <<Given(text, images)>>
<1>1. OpenAITurn(t) = ToolMessages(t) \o asked
  BY OpenAITurnIs
<1>2. /\ texts \in Seq(Seq(Words)) /\ FlattenSeq(texts) \in Seq(Words)
      /\ t.image \in {"none", "base64", "url"} /\ image \in BOOLEAN
  BY TurnFacts
<1>3. /\ Len(parts) = Len(texts) + (IF image THEN 1 ELSE 0)
      /\ ~image => parts = [i \in DOMAIN texts |-> OpenAI!TextPart(texts[i])]
  BY <1>2, PartsConvert
<1>4. short => ~image /\ FlattenSeq(texts) = texts[1] /\ texts[1] \in Seq(Words)
  <2> SUFFICES ASSUME short PROVE ~image /\ FlattenSeq(texts) = texts[1] /\ texts[1] \in Seq(Words)
    OBVIOUS
  <2>1. ~image
    <3>1. Len(texts) = 1 /\ Len(parts) = 1
      OBVIOUS
    <3> HIDE DEF texts, parts, image
    <3> QED
      BY <1>3, <3>1
  <2>2. texts = <<texts[1]>> /\ texts[1] \in Seq(Words)
    BY <1>2
  <2>3. FlattenSeq(<<texts[1]>>) = texts[1]
    BY FlattenOne
  <2> QED
    BY <2>1, <2>2, <2>3
<1>5. parts = <<>> => ~image /\ texts = <<>>
  <2>1. parts = <<>> => Len(parts) = 0
    OBVIOUS
  <2>2. Len(texts) \in Nat /\ (Len(texts) = 0 => texts = <<>>)
    BY <1>2
  <2> HIDE DEF parts, texts
  <2> QED
    BY <1>3, <2>1, <2>2
<1>6. parts # <<>> /\ ~image => texts # <<>>
  BY <1>3
<1>7. text \in Seq(Words) /\ ListText(texts, image) \in Seq(Words)
  <2>1. ListText(texts, image) \in Seq(Words)
    BY <1>2, FieldConverts
  <2> QED
    BY <1>4, <2>1
<1>8. OpenAI!convertMessage(OpenAI!ChatMessage("user", field)) = Given(text, images)
  <2>1. /\ OpenAI!convertMessage(OpenAI!ChatMessage("user", String(texts[1]))) = TextOf("user", texts[1])
        /\ OpenAI!convertMessage(OpenAI!ChatMessage("user", List(parts)))
              = Full("user", ListText(texts, image), <<>>, <<>>, NoID,
                     IF image THEN <<Image>> ELSE <<>>)
    BY <1>2, FieldConverts
  <2>2. CASE short
    <3>1. field = String(texts[1]) /\ text = texts[1] /\ images = <<>>
      BY <1>4, <2>2
    <3>2. TextOf("user", texts[1]) = Given(texts[1], <<>>)
      BY FullForms
    <3> QED
      BY <2>1, <3>1, <3>2
  <2>3. CASE ~short
    <3>1. field = List(parts) /\ text = ListText(texts, image)
      BY <2>3
    <3>2. images = (IF image THEN <<Image>> ELSE <<>>)
      OBVIOUS
    <3> HIDE DEF field, text, images, parts, image
    <3> QED
      BY <2>1, <3>1, <3>2, FullForms
  <2> QED
    BY <2>2, <2>3
<1>9. Given(text, images) \in Message
  <2>1. <<>> \in Seq({Image}) /\ <<Image>> \in Seq({Image})
    OBVIOUS
  <2>2. images \in Seq({Image})
    BY <2>1
  <2> HIDE DEF images, text
  <2> QED
    BY <1>7, <2>2, GivenFields
<1>10. Known("openai", asked) /\ Converted("openai", asked) = V
  <2>1. CASE parts = <<>>
    BY <2>1, ConvertedNone
  <2>2. CASE parts # <<>>
    <3> DEFINE msg == OpenAI!ChatMessage("user", field)
    <3>1. asked = <<msg>> /\ V = <<Given(text, images)>>
      BY <2>2
    <3>2. Convert("openai", msg) = V
      BY <1>8, <3>1 DEF Convert
    <3>3. V \in Seq(Message)
      <4> DEFINE v == Given(text, images)
      <4> HIDE DEF v
      <4>1. <<v>> \in Seq(Message)
        BY <1>9 DEF v
      <4> QED
        BY <3>1, <4>1 DEF v
    <3> HIDE DEF msg, asked, V
    <3>4. Known("openai", <<msg>>) /\ Converted("openai", <<msg>>) = Convert("openai", msg)
      BY <3>2, <3>3, ConvertedOne
    <3> QED
      BY <3>1, <3>2, <3>4
  <2> QED
    BY <2>1, <2>2
<1>11. \A list : list = (t.image = "none" /\ ~(client.plain /\ Len(t.text) = 1))
                 => Heard(t.text, list) = IF V = <<>> THEN <<>> ELSE text
  <2> SUFFICES ASSUME NEW list, list = (~image /\ ~(client.plain /\ Len(texts) = 1))
               PROVE  Heard(texts, list) = IF V = <<>> THEN <<>> ELSE text
    OBVIOUS
  <2>1. CASE parts = <<>>
    <3>1. V = <<>> /\ texts = <<>>
      BY <1>5, <2>1
    <3>2. Heard(<<>>, list) = <<>>
      BY FlattenEmpty DEF Heard
    <3> QED
      BY <3>1, <3>2
  <2>2. CASE parts # <<>> /\ short
    <3>1. V # <<>> /\ text = texts[1] /\ list = FALSE
      BY <2>2
    <3> QED
      BY <1>4, <2>2, <3>1 DEF Heard
  <2>3. CASE parts # <<>> /\ ~short
    <3>1. V # <<>> /\ text = ListText(texts, image)
      BY <2>3
    <3>2. ASSUME list PROVE ~image /\ texts # <<>>
      BY <1>6, <2>3, <3>2
    <3>3. ASSUME ~list PROVE image
      <4>1. CASE client.plain /\ Len(texts) = 1 /\ ~image
        <5>1. Len(parts) = 1
          BY <1>3, <4>1
        <5> QED
          BY <2>3, <4>1, <5>1
      <4> QED
        BY <3>3, <4>1
    <3> HIDE DEF texts, image, V, text, parts, short
    <3> QED
      BY <3>1, <3>2, <3>3 DEF Heard, ListText
  <2> QED
    BY <2>1, <2>2, <2>3
<1>12. (V = <<>> /\ t.image = "none")
       \/ V = <<Given(text, IF t.image = "none" THEN <<>> ELSE <<Image>>)>>
  BY <1>5
<1> DEFINE d == Converted("openai", OpenAITurn(t))  A == Answered(t)
<1> HIDE DEF V, text, asked
<1>13. Known("openai", OpenAITurn(t)) /\ d = A \o V
  <2> DEFINE r == ToolMessages(t)
  <2>1. Known("openai", r) /\ Converted("openai", r) = A
    BY ToolMessagesConvert
  <2> HIDE DEF r, A
  <2>2. /\ Known("openai", r \o asked)
        /\ Converted("openai", r \o asked) = Converted("openai", r) \o Converted("openai", asked)
    BY <1>10, <2>1, ConvertedConcat
  <2> QED
    BY <1>1, <1>10, <2>1, <2>2 DEF r
<1>14. d = Around(<<>>, A, V)
  <2>1. A \in Seq(Message) /\ V \in Seq(Message)
    BY <1>10, AnsweredType, ConvertedConcat
  <2>2. A \o V \in Seq(Message)
    BY <2>1
  <2>3. <<>> \o (A \o V) = A \o V
    BY <2>2
  <2> QED
    BY <1>13, <2>3 DEF Around
<1> HIDE DEF d
<1>15. Arrives(d, t)
  BY <1>7, <1>11, <1>12, <1>14, ResultsFirst
<1> QED
  BY <1>13, <1>15 DEF d

-----------------------------------------------------------------------------
(* The system prompt.                                                      *)

Prompt ==
    IF Heard(system, TRUE) = <<>> THEN <<>> ELSE <<TextOf("system", Heard(system, TRUE))>>

LEMMA SystemType ==
    ASSUME system \in Prompts
    PROVE  system \in Seq(Seq(Words)) /\ FlattenSeq(system) \in Seq(Words)
BY ClientAssumption, FlattenType

LEMMA PromptType ==
    ASSUME system \in Prompts
    PROVE  /\ Prompt \in Seq(Message)
           /\ Prompt = <<>> \/ (Prompt = <<Prompt[1]>> /\ Prompt[1].role = "system")
           /\ Prompt = <<>> <=> Heard(system, TRUE) = <<>>
           /\ Prompt # <<>> => Prompt[1].content = Heard(system, TRUE)
<1> DEFINE text == Heard(system, TRUE)  p == TextOf("system", text)
<1>1. text \in Seq(Words)
  <2>1. <<RawJSON>> \in Seq(Words)
    BY WordsAssumption
  <2> QED
    BY <2>1, SystemType DEF Heard
<1> HIDE DEF text
<1>2. p \in Message /\ p.role = "system" /\ p.content = text
  BY <1>1, TextOfFields DEF Roles
<1>3. Prompt = IF text = <<>> THEN <<>> ELSE <<p>>
  BY DEF Prompt, text
<1> HIDE DEF p
<1>4. <<p>> \in Seq(Message) /\ <<>> \in Seq(Message) /\ <<p>>[1] = p /\ <<p>> # <<>>
  BY <1>2
<1> QED
  BY <1>2, <1>3, <1>4 DEF text

LEMMA SystemFieldIs ==
    ASSUME system \in Prompts
    PROVE  /\ SystemField.form # "raw"
           /\ (IF SystemField.form = "list" THEN JoinedText(SystemField.parts, "text")
                                            ELSE SystemField.text) = FlattenSeq(system)
<1> DEFINE blocks == [i \in DOMAIN system |-> TextBlock(system[i])]
<1>1. SystemField = IF system = <<>> THEN NoField
                    ELSE IF client.plain /\ Len(system) = 1 THEN String(system[1])
                    ELSE List(blocks)
  BY DEF SystemField, TextBlock
<1>2. CASE system = <<>>
  <2>1. SystemField = NoField
    BY <1>1, <1>2
  <2> QED
    BY <1>2, <2>1, FieldForms, FlattenEmpty
<1>3. CASE system # <<>> /\ client.plain /\ Len(system) = 1
  <2>1. SystemField = String(system[1])
    BY <1>1, <1>3
  <2>2. system = <<system[1]>>
    BY <1>3, SystemType
  <2>3. FlattenSeq(<<system[1]>>) = system[1]
    BY FlattenOne
  <2> QED
    BY <2>1, <2>2, <2>3, FieldForms
<1>4. CASE system # <<>> /\ ~(client.plain /\ Len(system) = 1)
  <2>1. SystemField = List(blocks)
    BY <1>1, <1>4
  <2>2. JoinedText(blocks, "text") = FlattenSeq(system)
    <3>1. system \in Seq(Seq(Words)) /\ DOMAIN blocks = DOMAIN system
      BY SystemType
    <3>2. \A i \in DOMAIN system : blocks[i].type = "text" /\ blocks[i].text = system[i]
      BY TextBlockFields
    <3> HIDE DEF blocks
    <3> QED
      BY <3>1, <3>2, JoinedAll
  <2> HIDE DEF blocks
  <2> QED
    BY <2>1, <2>2, FieldForms
<1> QED
  BY <1>2, <1>3, <1>4

LEMMA AnthropicPrompt ==
    ASSUME system \in Prompts, client.proto = "anthropic"
    PROVE  Anthropic!parseSystemPrompt(SystemField) = Prompt
<1> DEFINE text == FlattenSeq(system)
<1>1. Heard(system, TRUE) = text
  BY DEF Heard
<1>2. (IF SystemField.form = "list" THEN Anthropic!JoinedText(SystemField.parts, "text")
                                    ELSE SystemField.text) = text
  BY SystemFieldIs DEF JoinedText, Anthropic!JoinedText, FlattenSeq, Anthropic!FlattenSeq
<1>3. Anthropic!Blank("system") = Blank("system")
  BY DEF Blank, Anthropic!Blank
<1> HIDE DEF text
<1>4. Anthropic!parseSystemPrompt(SystemField)
         = IF text = <<>> THEN <<>> ELSE <<[Anthropic!Blank("system") EXCEPT !.content = text]>>
  BY <1>2 DEF Anthropic!parseSystemPrompt
<1> QED
  BY <1>1, <1>3, <1>4 DEF Prompt, TextOf

LEMMA OpenAIPrompt ==
    ASSUME system \in Prompts, client.proto = "openai"
    PROVE  Known("openai", SystemMessage) /\ Converted("openai", SystemMessage) = Prompt
<1>1. CASE system = <<>>
  <2>1. SystemMessage = <<>>
    BY <1>1 DEF SystemMessage
  <2>2. Heard(<<>>, TRUE) = <<>>
    BY FlattenEmpty DEF Heard
  <2>3. Prompt = <<>>
    BY <1>1, <2>2 DEF Prompt
  <2> QED
    BY <2>1, <2>3, ConvertedNone
<1>2. CASE system # <<>>
  <2> DEFINE parts == Parts(system, FALSE)  msg == OpenAI!ChatMessage("system", List(parts))
             text == ListText(system, FALSE)
  <2>1. /\ OpenAI!convertMessage(msg) = Full("system", text, <<>>, <<>>, NoID, <<>>)
        /\ text \in Seq(Words)
    <3>1. system \in Seq(Seq(Words)) /\ FALSE \in BOOLEAN
      BY SystemType
    <3> QED
      BY <3>1, FieldConverts
  <2>2. parts = [i \in DOMAIN system |-> OpenAI!TextPart(system[i])]
    BY SystemType, PartsConvert
  <2>3. SystemMessage = <<msg>>
    BY <1>2, <2>2 DEF SystemMessage
  <2>4. text = Heard(system, TRUE) /\ text # <<>>
    BY <1>2 DEF ListText, Heard
  <2> HIDE DEF text, msg, parts
  <2>5. Prompt = <<TextOf("system", text)>>
    BY <2>4 DEF Prompt
  <2>6. OpenAI!convertMessage(msg) = TextOf("system", text)
    BY <2>1, FullForms
  <2>7. Convert("openai", msg) = Prompt
    BY <2>5, <2>6 DEF Convert
  <2>8. Prompt \in Seq(Message)
    BY PromptType
  <2> QED
    BY <2>3, <2>7, <2>8, ConvertedOne
<1> QED
  BY <1>1, <1>2

-----------------------------------------------------------------------------
(* Answers of the messages API.                                            *)

ThinkBlock(text) == [Anthropic!ContentBlock("thinking") EXCEPT !.text = text]
CallBlock(call)  ==
    [Anthropic!ContentBlock("tool_use") EXCEPT !.id = call.id, !.args = call.args]

Thinking(m)   == IF m.reasoning = <<>> THEN <<>> ELSE <<ThinkBlock(m.reasoning)>>
TextGiven(m)  == IF m.content = <<>> THEN <<>> ELSE <<TextBlock(m.content)>>
CallsMade(m)  == [i \in DOMAIN m.calls |-> CallBlock(m.calls[i])]
AllGiven(m)   == (Thinking(m) \o TextGiven(m)) \o CallsMade(m)
BlocksGiven(m) ==
    IF AllGiven(m) = <<>> THEN <<Anthropic!ContentBlock("text")>> ELSE AllGiven(m)

\* The message a response is about.
ResponseOf(resp, m) ==
    \/ resp = [choices |-> <<m>>]
    \/ resp = [choices |-> <<>>] /\ m = Blank("assistant")

LEMMA ResponseIs ==
    ASSUME NEW m, NEW resp, ResponseOf(resp, m)
    PROVE  Anthropic!buildAnthropicResponse(resp) = BlocksGiven(m)
<1>1. (IF resp.choices = <<>> THEN Anthropic!Blank("assistant") ELSE resp.choices[1]) = m
  BY DEF ResponseOf, Blank, Anthropic!Blank
<1> QED
  BY <1>1, Zenon DEF Anthropic!buildAnthropicResponse, BlocksGiven, AllGiven, Thinking,
     TextGiven, CallsMade, ThinkBlock, TextBlock, CallBlock

LEMMA AnswerFields ==
    ASSUME NEW m \in Answer
    PROVE  /\ m.content \in Seq(Words) /\ m.reasoning \in Seq(Words)
           /\ m.calls \in Seq(ToolCall)
BY DEF Answer

LEMMA BlankAnswers == Blank("assistant") \in Answer
BY EmptyFields DEF Answer, Blank

LEMMA GivenBlockFields ==
    ASSUME NEW text, NEW call
    PROVE  /\ ThinkBlock(text).type = "thinking" /\ ThinkBlock(text).text = text
           /\ CallBlock(call).type = "tool_use" /\ CallBlock(call).text = <<>>
           /\ CallBlock(call).id = call.id /\ CallBlock(call).args = call.args
           /\ Anthropic!ContentBlock("text").type = "text"
           /\ Anthropic!ContentBlock("text").text = <<>>
BY DEF ThinkBlock, CallBlock, Anthropic!ContentBlock

CallOf(S) == [b \in S |-> IF b.type = "tool_use" THEN <<Anthropic!ToolCallOf(b)>> ELSE <<>>]

CallsOf(blocks) ==
    FlattenSeq([i \in DOMAIN blocks |->
        IF blocks[i].type = "tool_use" THEN <<Anthropic!ToolCallOf(blocks[i])>> ELSE <<>>])

LEMMA CallsOfCollects ==
    ASSUME NEW S, NEW s \in Seq(S)
    PROVE  CallsOf(s) = Collect(CallOf(S), s)
<1>1. \A i \in DOMAIN s : s[i] \in S
  OBVIOUS
<1>2. [i \in DOMAIN s |-> IF s[i].type = "tool_use" THEN <<Anthropic!ToolCallOf(s[i])>> ELSE <<>>]
         = [i \in DOMAIN s |-> CallOf(S)[s[i]]]
  BY <1>1 DEF CallOf
<1> QED
  BY <1>2 DEF CallsOf, Collect

\* What is in the blocks of an answer.
GivenBlocks(m) ==
    {ThinkBlock(m.reasoning), TextBlock(m.content)} \cup {CallBlock(m.calls[i]) : i \in DOMAIN m.calls}

LEMMA GivenBlocksType ==
    ASSUME NEW m \in Answer
    PROVE  /\ Thinking(m) \in Seq(GivenBlocks(m)) /\ TextGiven(m) \in Seq(GivenBlocks(m))
           /\ CallsMade(m) \in Seq(GivenBlocks(m))
           /\ Textual(GivenBlocks(m))
           /\ Makes(CallOf(GivenBlocks(m)), GivenBlocks(m), ToolCall)
<1> DEFINE S == GivenBlocks(m)  a == ThinkBlock(m.reasoning)  b == TextBlock(m.content)
<1>1. a \in S /\ b \in S /\ \A i \in DOMAIN m.calls : CallBlock(m.calls[i]) \in S
  BY DEF GivenBlocks
<1>2. /\ Len(m.calls) \in Nat /\ DOMAIN m.calls = 1 .. Len(m.calls)
      /\ \A i \in DOMAIN m.calls : m.calls[i] \in ToolCall
  BY AnswerFields
<1>3. CallsMade(m) \in Seq(S)
  <2>1. CallsMade(m) \in [1 .. Len(m.calls) -> S]
    BY <1>1, <1>2 DEF CallsMade
  <2> QED
    BY <1>2, <2>1, SequenceOf
<1>4. Textual(S)
  <2>1. ASSUME NEW x \in S PROVE x.text \in Seq(Words)
    <3>1. x = a \/ x = b \/ \E i \in DOMAIN m.calls : x = CallBlock(m.calls[i])
      BY DEF GivenBlocks
    <3>2. a.text \in Seq(Words) /\ b.text \in Seq(Words)
      BY AnswerFields, GivenBlockFields, TextBlockFields
    <3>3. \A i \in DOMAIN m.calls : CallBlock(m.calls[i]).text \in Seq(Words)
      BY EmptyFields, GivenBlockFields
    <3> HIDE DEF a, b
    <3> QED
      BY <3>1, <3>2, <3>3
  <2> QED
    BY <2>1 DEF Textual
<1>5. Makes(CallOf(S), S, ToolCall)
  <2>1. ASSUME NEW c \in ToolCall
        PROVE  Anthropic!ToolCallOf(CallBlock(c)) \in ToolCall
    <3>1. Anthropic!ToolCallOf(CallBlock(c)) = [id |-> c.id, args |-> c.args]
      BY GivenBlockFields DEF Anthropic!ToolCallOf
    <3> QED
      BY <3>1 DEF ToolCall
  <2>2. ASSUME NEW x \in S, x.type = "tool_use" PROVE Anthropic!ToolCallOf(x) \in ToolCall
    BY <1>2, <2>1, <2>2, GivenBlockFields, TextBlockFields DEF GivenBlocks
  <2>3. ASSUME NEW x \in S PROVE CallOf(S)[x] \in Seq(ToolCall)
    <3> DEFINE c == Anthropic!ToolCallOf(x)
    <3>1. CallOf(S)[x] = IF x.type = "tool_use" THEN <<c>> ELSE <<>>
      BY DEF CallOf
    <3>2. x.type = "tool_use" => c \in ToolCall
      BY <2>2
    <3> HIDE DEF c, S
    <3> QED
      BY <3>1, <3>2
  <2> QED
    BY <2>3 DEF Makes
<1> HIDE DEF S
<1>6. <<a>> \in Seq(S) /\ <<b>> \in Seq(S) /\ <<>> \in Seq(S)
  <2> HIDE DEF a, b
  <2> QED
    BY <1>1
<1>7. Thinking(m) \in Seq(S) /\ TextGiven(m) \in Seq(S)
  BY <1>6 DEF Thinking, TextGiven
<1> QED
  BY <1>3, <1>4, <1>5, <1>7 DEF S

LEMMA CallsMadeAre ==
    ASSUME NEW m \in Answer
    PROVE  Collect(CallOf(GivenBlocks(m)), CallsMade(m)) = m.calls
<1> DEFINE S == GivenBlocks(m)  f == CallOf(S)
<1>1. m.calls \in Seq(ToolCall) /\ \A i \in DOMAIN m.calls : m.calls[i] \in ToolCall
  BY AnswerFields
<1>2. ASSUME NEW i \in DOMAIN m.calls PROVE f[CallsMade(m)[i]] = <<m.calls[i]>>
  <2> DEFINE c == m.calls[i]  b == CallBlock(c)
  <2>1. CallsMade(m)[i] = b /\ b \in S
    BY DEF CallsMade, GivenBlocks
  <2>2. b.type = "tool_use" /\ Anthropic!ToolCallOf(b) = [id |-> c.id, args |-> c.args]
    BY GivenBlockFields DEF Anthropic!ToolCallOf
  <2>3. [id |-> c.id, args |-> c.args] = c
    <3>1. c \in ToolCall
      BY <1>1
    <3> QED
      BY <3>1 DEF ToolCall
  <2> HIDE DEF b, c, S
  <2>4. f[b] = <<Anthropic!ToolCallOf(b)>>
    BY <2>1, <2>2 DEF CallOf
  <2> QED
    BY <2>1, <2>2, <2>3, <2>4 DEF c
<1>3. DOMAIN CallsMade(m) = DOMAIN m.calls
  BY DEF CallsMade
<1> HIDE DEF f
<1>4. [i \in DOMAIN CallsMade(m) |-> f[CallsMade(m)[i]]] = [i \in DOMAIN m.calls |-> <<m.calls[i]>>]
  BY <1>2, <1>3
<1>5. FlattenSeq([i \in DOMAIN m.calls |-> <<m.calls[i]>>]) = m.calls
  BY <1>1, Singles
<1> QED
  BY <1>4, <1>5 DEF Collect, f

LEMMA AllGivenReads ==
    ASSUME NEW m \in Answer
    PROVE  /\ JoinedText(AllGiven(m), "text") = m.content
           /\ JoinedText(AllGiven(m), "thinking") = m.reasoning
           /\ CallsOf(AllGiven(m)) = m.calls
<1> DEFINE S == GivenBlocks(m)  f == CallOf(S)
           a == Thinking(m)  b == TextGiven(m)  c == CallsMade(m)
<1>1. a \in Seq(S) /\ b \in Seq(S) /\ c \in Seq(S) /\ Textual(S) /\ Makes(f, S, ToolCall)
  BY GivenBlocksType
<1>2. /\ JoinedText(a, "text") = <<>> /\ JoinedText(a, "thinking") = m.reasoning
      /\ Collect(f, a) = <<>>
  <2> DEFINE x == ThinkBlock(m.reasoning)
  <2>1. CASE m.reasoning = <<>>
    <3>1. a = <<>>
      BY <2>1 DEF Thinking
    <3>2. \A type : JoinedText(<<>>, type) = <<>>
      BY FlattenEmpty DEF JoinedText
    <3> QED
      BY <2>1, <3>1, <3>2, CollectEmpty
  <2>2. CASE m.reasoning # <<>>
    <3>1. a = <<x>> /\ x \in S
      BY <2>2 DEF Thinking, GivenBlocks
    <3>2. x.type = "thinking" /\ x.text = m.reasoning
      BY GivenBlockFields
    <3> HIDE DEF x, S
    <3>3. f[x] = <<>>
      BY <3>1, <3>2 DEF CallOf
    <3> HIDE DEF f
    <3> QED
      BY <3>1, <3>2, <3>3, JoinedOne, CollectOne
  <2> QED
    BY <2>1, <2>2
<1>3. /\ JoinedText(b, "text") = m.content /\ JoinedText(b, "thinking") = <<>>
      /\ Collect(f, b) = <<>>
  <2> DEFINE x == TextBlock(m.content)
  <2>1. CASE m.content = <<>>
    <3>1. b = <<>>
      BY <2>1 DEF TextGiven
    <3>2. \A type : JoinedText(<<>>, type) = <<>>
      BY FlattenEmpty DEF JoinedText
    <3> QED
      BY <2>1, <3>1, <3>2, CollectEmpty
  <2>2. CASE m.content # <<>>
    <3>1. b = <<x>> /\ x \in S
      BY <2>2 DEF TextGiven, GivenBlocks
    <3>2. x.type = "text" /\ x.text = m.content
      BY TextBlockFields
    <3> HIDE DEF x, S
    <3>3. f[x] = <<>>
      BY <3>1, <3>2 DEF CallOf
    <3> HIDE DEF f
    <3> QED
      BY <3>1, <3>2, <3>3, JoinedOne, CollectOne
  <2> QED
    BY <2>1, <2>2
<1>4. /\ JoinedText(c, "text") = <<>> /\ JoinedText(c, "thinking") = <<>>
      /\ Collect(f, c) = m.calls
  <2>1. \A i \in 1 .. Len(c) : c[i].type = "tool_use"
    <3>1. DOMAIN c = 1 .. Len(c)
      BY <1>1
    <3>2. \A i \in DOMAIN c : c[i].type = "tool_use"
      BY GivenBlockFields DEF CallsMade
    <3> QED
      BY <3>1, <3>2
  <2>2. Collect(f, c) = m.calls
    BY CallsMadeAre
  <2> HIDE DEF c, S, f
  <2>3. \A i \in 1 .. Len(c) : c[i].type # "text" /\ c[i].type # "thinking"
    BY <2>1
  <2> QED
    BY <1>1, <2>2, <2>3, JoinedNone
<1> HIDE DEF S, f, a, b, c
<1>5. a \o b \in Seq(S) /\ (a \o b) \o c \in Seq(S)
  BY <1>1
<1>6. ASSUME NEW type
      PROVE  JoinedText((a \o b) \o c, type)
                = (JoinedText(a, type) \o JoinedText(b, type)) \o JoinedText(c, type)
  <2>1. JoinedText((a \o b) \o c, type) = JoinedText(a \o b, type) \o JoinedText(c, type)
    <3> DEFINE d == a \o b
    <3> HIDE DEF d
    <3>1. d \in Seq(S)
      BY <1>5 DEF d
    <3>2. JoinedText(d \o c, type) = JoinedText(d, type) \o JoinedText(c, type)
      BY <1>1, <3>1, JoinedConcat
    <3> QED
      BY <3>2 DEF d
  <2>2. JoinedText(a \o b, type) = JoinedText(a, type) \o JoinedText(b, type)
    BY <1>1, JoinedConcat
  <2> QED
    BY <2>1, <2>2
<1>7. Collect(f, (a \o b) \o c) = (Collect(f, a) \o Collect(f, b)) \o Collect(f, c)
  <2>1. Collect(f, (a \o b) \o c) = Collect(f, a \o b) \o Collect(f, c)
    <3> DEFINE d == a \o b
    <3> HIDE DEF d
    <3>1. d \in Seq(S)
      BY <1>5 DEF d
    <3>2. Collect(f, d \o c) = Collect(f, d) \o Collect(f, c)
      BY <1>1, <3>1, CollectConcat
    <3> QED
      BY <3>2 DEF d
  <2>2. Collect(f, a \o b) = Collect(f, a) \o Collect(f, b)
    BY <1>1, CollectConcat
  <2> QED
    BY <2>1, <2>2
<1>8. CallsOf((a \o b) \o c) = Collect(f, (a \o b) \o c)
  BY <1>5, CallsOfCollects DEF f
<1>9. m.content \in Seq(Words) /\ m.reasoning \in Seq(Words) /\ m.calls \in Seq(ToolCall)
  BY AnswerFields
<1>10. AllGiven(m) = (a \o b) \o c
  BY DEF AllGiven, a, b, c
<1>11. (<<>> \o m.content) \o <<>> = m.content
  BY <1>9
<1>12. (m.reasoning \o <<>>) \o <<>> = m.reasoning
  BY <1>9
<1>13. (<<>> \o <<>>) \o m.calls = m.calls
  BY <1>9
<1> QED
  BY <1>2, <1>3, <1>4, <1>6, <1>7, <1>8, <1>10, <1>11, <1>12, <1>13

\* The empty text block that stands for an empty answer reads the same.
LEMMA BlocksGivenRead ==
    ASSUME NEW m \in Answer
    PROVE  /\ JoinedText(BlocksGiven(m), "text") = m.content
           /\ JoinedText(BlocksGiven(m), "thinking") = m.reasoning
           /\ CallsOf(BlocksGiven(m)) = m.calls
<1> DEFINE x == Anthropic!ContentBlock("text")
<1>1. CASE AllGiven(m) = <<>>
  <2>1. BlocksGiven(m) = <<x>>
    BY <1>1 DEF BlocksGiven
  <2>2. x.type = "text" /\ x.text = <<>>
    BY GivenBlockFields
  <2>3. \A type : JoinedText(<<>>, type) = <<>>
    BY FlattenEmpty DEF JoinedText
  <2>4. CallsOf(<<>>) = <<>>
    BY FlattenEmpty DEF CallsOf
  <2>5. m.content = <<>> /\ m.reasoning = <<>> /\ m.calls = <<>>
    BY <1>1, <2>3, <2>4, AllGivenReads
  <2> HIDE DEF x
  <2>6. JoinedText(<<x>>, "text") = <<>> /\ JoinedText(<<x>>, "thinking") = <<>>
    BY <2>2, JoinedOne
  <2>7. CallsOf(<<x>>) = <<>>
    <3>1. [i \in DOMAIN <<x>> |-> IF <<x>>[i].type = "tool_use"
                                  THEN <<Anthropic!ToolCallOf(<<x>>[i])>> ELSE <<>>] = << <<>> >>
      BY <2>2
    <3> QED
      BY <3>1, FlattenOne DEF CallsOf
  <2> QED
    BY <2>1, <2>5, <2>6, <2>7
<1>2. CASE AllGiven(m) # <<>>
  BY <1>2, AllGivenReads DEF BlocksGiven
<1> QED
  BY <1>1, <1>2

LEMMA AnthropicAnswerReturns ==
    ASSUME NEW m \in Answer, NEW resp, ResponseOf(resp, m)
    PROVE  Anthropic!convertMessage([role |-> "assistant",
                                     content |-> List(Anthropic!buildAnthropicResponse(resp))])
              = <<Reply(m.content, m.reasoning, m.calls)>>
<1> DEFINE blocks == BlocksGiven(m)  msg == [role |-> "assistant", content |-> List(blocks)]
<1>1. Anthropic!buildAnthropicResponse(resp) = blocks
  BY ResponseIs
<1>2. msg.role = "assistant" /\ msg.content.form = "list" /\ msg.content.parts = blocks
  BY FieldForms
<1>3. /\ JoinedText(blocks, "text") = m.content /\ JoinedText(blocks, "thinking") = m.reasoning
      /\ CallsOf(blocks) = m.calls
  BY BlocksGivenRead
<1> HIDE DEF msg
<1>4. Anthropic!convertMessage(msg) = Anthropic!convertAssistantBlocks(blocks)
  BY <1>2 DEF Anthropic!convertMessage
<1> HIDE DEF blocks
<1>5. /\ Anthropic!JoinedText(blocks, "text") = m.content
      /\ Anthropic!JoinedText(blocks, "thinking") = m.reasoning
  BY <1>3 DEF JoinedText, Anthropic!JoinedText, FlattenSeq, Anthropic!FlattenSeq
<1>6. Anthropic!FlattenSeq([i \in DOMAIN blocks |->
         IF blocks[i].type = "tool_use" THEN <<Anthropic!ToolCallOf(blocks[i])>> ELSE <<>>])
         = m.calls
  BY <1>3 DEF CallsOf, FlattenSeq, Anthropic!FlattenSeq
<1>7. Anthropic!Blank("assistant") = Blank("assistant")
  BY DEF Blank, Anthropic!Blank
<1>8. Anthropic!convertAssistantBlocks(blocks)
         = <<[Blank("assistant") EXCEPT !.content = m.content, !.reasoning = m.reasoning,
                                        !.calls = m.calls]>>
  BY <1>5, <1>6, <1>7 DEF Anthropic!convertAssistantBlocks
<1> QED
  BY <1>1, <1>4, <1>8 DEF msg, Reply

-----------------------------------------------------------------------------
(* Answers of chat completions.                                            *)

Whole(text, reasoning, calls) ==
    [OpenAI!ChatMessage("assistant", OpenAI!Content(text))
        EXCEPT !.reasoning = reasoning, !.calls = calls]

LEMMA ContentForms ==
    ASSUME NEW text
    PROVE  /\ OpenAI!Content(text).form # "list" /\ OpenAI!Content(text).text = text
           /\ OpenAI!ContentText(OpenAI!Content(text)) = text
<1>1. OpenAI!Content(text) = IF text = <<>> THEN NoField ELSE String(text)
  BY DEF OpenAI!Content, OpenAI!NoField, OpenAI!String, NoField, String
<1>2. OpenAI!Content(text).form \in {"none", "string"} /\ OpenAI!Content(text).text = text
  BY <1>1, FieldForms
<1>3. OpenAI!AsText(OpenAI!Content(text)) = text
  BY <1>2 DEF OpenAI!AsText
<1> QED
  BY <1>2, <1>3 DEF OpenAI!ContentText

LEMMA WholeConverts ==
    ASSUME NEW text, NEW reasoning, NEW calls
    PROVE  OpenAI!convertMessage(Whole(text, reasoning, calls)) = Reply(text, <<>>, calls)
<1> DEFINE msg == Whole(text, reasoning, calls)
<1>1. /\ msg.role = "assistant" /\ msg.content = OpenAI!Content(text) /\ msg.calls = calls
      /\ msg.tool = NoID
  BY DEF Whole, OpenAI!ChatMessage
<1> HIDE DEF msg
<1>2. OpenAI!convertMessage(msg) = Full("assistant", text, <<>>, calls, NoID, <<>>)
  BY <1>1, ContentForms, OpenAIConverts
<1> QED
  BY <1>2, FullForms DEF msg

LEMMA BuiltIs ==
    ASSUME NEW m \in Answer
    PROVE  OpenAI!buildChatCompletionResponse([choices |-> <<m>>])
              = <<Whole(m.content, m.reasoning, m.calls)>>
<1> DEFINE resp == [choices |-> <<m>>]
           whole == Whole(m.content, m.reasoning, m.calls)
<1>1. m.role \in {"", "assistant"}
  BY DEF Answer
<1>2. (IF m.role = "" THEN "assistant" ELSE m.role) = "assistant"
  BY <1>1
<1>3. resp.choices = <<m>>
  OBVIOUS
<1> HIDE DEF resp
<1>4. OpenAI!buildChatCompletionResponse(resp)
         = [i \in DOMAIN <<m>> |->
              [OpenAI!ChatMessage(IF <<m>>[i].role = "" THEN "assistant" ELSE <<m>>[i].role,
                                  OpenAI!Content(<<m>>[i].content))
                 EXCEPT !.reasoning = <<m>>[i].reasoning, !.calls = <<m>>[i].calls]]
  BY <1>3, Zenon DEF OpenAI!buildChatCompletionResponse
<1>5. \A i \in DOMAIN <<m>> : <<m>>[i] = m
  OBVIOUS
<1>6. OpenAI!buildChatCompletionResponse(resp) = [i \in DOMAIN <<m>> |-> whole]
  BY <1>2, <1>4, <1>5 DEF Whole
<1> HIDE DEF whole
<1>7. [i \in DOMAIN <<m>> |-> whole] = <<whole>>
  OBVIOUS
<1> QED
  BY <1>6, <1>7 DEF resp, whole

-----------------------------------------------------------------------------
(* Answers of chat completions, streamed.                                  *)

PieceOf(n) == [index : 1 .. n, id : CallIDs \cup {NoID}, args : Seq(Words)]

Firsts(calls) == [j \in DOMAIN calls |-> Piece(j, calls[j].id, <<>>)]
ArgPieces(calls, j) == [i \in DOMAIN calls[j].args |-> Piece(j, NoID, <<calls[j].args[i]>>)]
Rest(calls) == [j \in DOMAIN calls |-> ArgPieces(calls, j)]

LEMMA PiecesAre ==
    ASSUME NEW calls PROVE Pieces(calls) = Firsts(calls) \o FlattenSeq(Rest(calls))
BY DEF Pieces, Firsts, Rest, ArgPieces

LEMMA PieceFields ==
    ASSUME NEW j, NEW id, NEW args
    PROVE  Piece(j, id, args).index = j /\ Piece(j, id, args).id = id /\ Piece(j, id, args).args = args
BY DEF Piece

LEMMA CallFacts ==
    ASSUME NEW calls \in Seq(ToolCall)
    PROVE  /\ Len(calls) \in Nat /\ DOMAIN calls = 1 .. Len(calls)
           /\ \A j \in 1 .. Len(calls) :
                 /\ calls[j] \in ToolCall /\ calls[j].id \in CallIDs
                 /\ calls[j].args \in Seq(Words)
                 /\ calls[j] = [id |-> calls[j].id, args |-> calls[j].args]
<1>1. \A j \in 1 .. Len(calls) : calls[j] \in ToolCall
  OBVIOUS
<1>2. \A c \in ToolCall : c.id \in CallIDs /\ c.args \in Seq(Words) /\ c = [id |-> c.id, args |-> c.args]
  BY DEF ToolCall
<1> QED
  BY <1>1, <1>2

LEMMA PiecesType ==
    ASSUME NEW calls \in Seq(ToolCall)
    PROVE  /\ Firsts(calls) \in Seq(PieceOf(Len(calls))) /\ Len(Firsts(calls)) = Len(calls)
           /\ Rest(calls) \in Seq(Seq(PieceOf(Len(calls)))) /\ Len(Rest(calls)) = Len(calls)
           /\ \A j \in 1 .. Len(calls) : ArgPieces(calls, j) \in Seq(PieceOf(Len(calls)))
           /\ FlattenSeq(Rest(calls)) \in Seq(PieceOf(Len(calls)))
           /\ Pieces(calls) \in Seq(PieceOf(Len(calls)))
<1> DEFINE n == Len(calls)  S == PieceOf(n)
<1>1. /\ n \in Nat /\ DOMAIN calls = 1 .. n
      /\ \A j \in 1 .. n : calls[j].id \in CallIDs /\ calls[j].args \in Seq(Words)
  BY CallFacts
<1>2. \A j \in 1 .. n, id \in CallIDs \cup {NoID}, args \in Seq(Words) : Piece(j, id, args) \in S
  BY DEF Piece, PieceOf
<1> HIDE DEF S, n
<1>3. Firsts(calls) \in [1 .. n -> S]
  BY <1>1, <1>2, EmptyFields DEF Firsts
<1>4. ASSUME NEW j \in 1 .. n PROVE ArgPieces(calls, j) \in Seq(S)
  <2> DEFINE args == calls[j].args
  <2>1. args \in Seq(Words)
    BY <1>1
  <2> HIDE DEF args
  <2>2. Len(args) \in Nat /\ DOMAIN args = 1 .. Len(args)
        /\ \A i \in 1 .. Len(args) : <<args[i]>> \in Seq(Words)
    BY <2>1
  <2>3. [i \in DOMAIN args |-> Piece(j, NoID, <<args[i]>>)] \in [1 .. Len(args) -> S]
    BY <1>2, <2>2
  <2>4. [i \in DOMAIN args |-> Piece(j, NoID, <<args[i]>>)] \in Seq(S)
    BY <2>2, <2>3, SequenceOf
  <2> QED
    BY <2>4 DEF ArgPieces, args
<1>5. Rest(calls) \in [1 .. n -> Seq(S)]
  BY <1>1, <1>4 DEF Rest
<1>6. Firsts(calls) \in Seq(S) /\ Len(Firsts(calls)) = n
  BY <1>1, <1>3, SequenceOf
<1>7. Rest(calls) \in Seq(Seq(S)) /\ Len(Rest(calls)) = n
  BY <1>1, <1>5, SequenceOf
<1>8. FlattenSeq(Rest(calls)) \in Seq(S)
  BY <1>7, FlattenType
<1>9. Pieces(calls) \in Seq(S)
  <2> DEFINE a == Firsts(calls)  b == FlattenSeq(Rest(calls))
  <2>1. Pieces(calls) = a \o b
    BY PiecesAre
  <2> HIDE DEF a, b
  <2>2. a \in Seq(S) /\ b \in Seq(S)
    BY <1>6, <1>8 DEF a, b
  <2> QED
    BY <2>1, <2>2
<1> QED
  BY <1>4, <1>6, <1>7, <1>8, <1>9 DEF S, n

\* Every call has pieces, and no other Index has any.
LEMMA PieceIndexes ==
    ASSUME NEW calls \in Seq(ToolCall)
    PROVE  {Pieces(calls)[i].index : i \in DOMAIN Pieces(calls)} = DOMAIN calls
<1> DEFINE p == Pieces(calls)  a == Firsts(calls)  b == FlattenSeq(Rest(calls))  n == Len(calls)
           S == PieceOf(n)
<1>1. a \in Seq(S) /\ Len(a) = n /\ b \in Seq(S) /\ p \in Seq(S) /\ p = a \o b
  BY PiecesType, PiecesAre
<1>2. n \in Nat /\ DOMAIN calls = 1 .. n
  BY CallFacts
<1>3. \A j \in 1 .. n : a[j].index = j
  BY <1>2, PieceFields DEF Firsts
<1>4. \A x \in S : x.index \in 1 .. n
  BY DEF PieceOf
<1> HIDE DEF p, a, b, n, S
<1>5. \A i \in DOMAIN p : p[i].index \in 1 .. n
  BY <1>1, <1>4
<1>6. \A j \in 1 .. n : j \in DOMAIN p /\ p[j] = a[j]
  BY <1>1, <1>2
<1>7. \A j \in 1 .. n : j \in DOMAIN p /\ p[j].index = j
  BY <1>3, <1>6
<1>8. {p[i].index : i \in DOMAIN p} = 1 .. n
  BY <1>5, <1>7
<1> QED
  BY <1>2, <1>8 DEF p

Under(S, j) == [p \in S |-> IF p.index = j THEN <<p>> ELSE <<>>]
ArgsOf(S) == [p \in S |-> p.args]

LEMMA UnderMakes ==
    ASSUME NEW n, NEW j
    PROVE  /\ Makes(Under(PieceOf(n), j), PieceOf(n), PieceOf(n))
           /\ Makes(ArgsOf(PieceOf(n)), PieceOf(n), Words)
<1> DEFINE S == PieceOf(n)
<1>1. \A p \in S : p.args \in Seq(Words)
  BY DEF PieceOf
<1> HIDE DEF S
<1>2. \A p \in S : <<p>> \in Seq(S) /\ <<>> \in Seq(S)
  OBVIOUS
<1>3. Makes(Under(S, j), S, S) /\ Makes(ArgsOf(S), S, Words)
  BY <1>1, <1>2 DEF Makes, Under, ArgsOf
<1> QED
  BY <1>3 DEF S

\* The pieces under an Index: the first, then the arguments' words.
LEMMA OwnPieces ==
    ASSUME NEW calls \in Seq(ToolCall), NEW j \in 1 .. Len(calls)
    PROVE  Collect(Under(PieceOf(Len(calls)), j), Pieces(calls))
              = <<Firsts(calls)[j]>> \o ArgPieces(calls, j)
<1> DEFINE n == Len(calls)  S == PieceOf(n)  f == Under(S, j)
           a == Firsts(calls)  r == Rest(calls)
<1>1. /\ a \in Seq(S) /\ Len(a) = n /\ r \in Seq(Seq(S)) /\ Len(r) = n
      /\ FlattenSeq(r) \in Seq(S) /\ Pieces(calls) = a \o FlattenSeq(r)
  BY PiecesType, PiecesAre
<1>2. n \in Nat /\ DOMAIN calls = 1 .. n /\ j \in 1 .. n
  BY CallFacts
<1>3. Makes(f, S, S)
  BY UnderMakes
<1>4. \A k \in 1 .. n : a[k].index = k /\ a[k] \in S
  <2>1. \A k \in 1 .. n : a[k].index = k
    BY <1>2, PieceFields DEF Firsts
  <2> HIDE DEF a, S
  <2> QED
    BY <1>1, <2>1
<1>5. ASSUME NEW k \in 1 .. n
      PROVE  /\ r[k] = ArgPieces(calls, k) /\ r[k] \in Seq(S)
             /\ \A i \in 1 .. Len(r[k]) : r[k][i].index = k /\ r[k][i] \in S
  <2>1. r[k] = ArgPieces(calls, k)
    BY <1>2 DEF Rest
  <2>2. r[k] \in Seq(S)
    BY <1>1
  <2>3. \A i \in DOMAIN r[k] : r[k][i].index = k
    BY <2>1, PieceFields DEF ArgPieces
  <2> HIDE DEF r, S
  <2> QED
    BY <2>1, <2>2, <2>3
<1>6. \A p \in S : f[p] = IF p.index = j THEN <<p>> ELSE <<>>
  BY DEF Under
<1> HIDE DEF S, f, a, n
<1>7. Collect(f, a) = <<a[j]>>
  <2> DEFINE s == [i \in DOMAIN a |-> f[a[i]]]
  <2>1. s \in Seq(Seq(S)) /\ Len(s) = n
    <3>1. \A i \in 1 .. n : f[a[i]] \in Seq(S)
      BY <1>3, <1>4 DEF Makes
    <3>2. s \in [1 .. n -> Seq(S)]
      BY <1>1, <3>1
    <3> HIDE DEF s
    <3> QED
      BY <1>2, <3>2, SequenceOf
  <2>2. DOMAIN a = 1 .. n
    BY <1>1
  <2>3. \A i \in 1 .. n : s[i] = f[a[i]]
    BY <2>2
  <2>4. s[j] = <<a[j]>> /\ \A i \in 1 .. n : i # j => s[i] = <<>>
    BY <1>2, <1>4, <1>6, <2>3
  <2> HIDE DEF s
  <2>5. FlattenSeq(s) = s[j]
    BY <1>2, <2>1, <2>4, FlattenOnly
  <2> QED
    BY <2>4, <2>5 DEF Collect, s
<1> HIDE DEF r
<1>8. Collect(f, FlattenSeq(r)) = r[j]
  <2> DEFINE s == [i \in DOMAIN r |-> Collect(f, r[i])]
  <2>1. Collect(f, FlattenSeq(r)) = FlattenSeq(s)
    BY <1>1, <1>3, CollectFlatten
  <2>2. DOMAIN r = 1 .. n
    BY <1>1
  <2>3. s \in [1 .. n -> Seq(S)]
    BY <1>3, <1>5, <2>2, CollectType
  <2>4. s[j] = r[j]
    <3>1. \A i \in 1 .. Len(r[j]) : f[r[j][i]] = <<r[j][i]>>
      BY <1>2, <1>5, <1>6
    <3>2. Collect(f, r[j]) = r[j]
      BY <1>2, <1>5, <3>1, CollectAll
    <3> QED
      BY <1>2, <2>2, <3>2
  <2>5. ASSUME NEW i \in 1 .. n, i # j PROVE s[i] = <<>>
    <3>1. \A k \in 1 .. Len(r[i]) : f[r[i][k]] = <<>>
      BY <1>5, <1>6, <2>5
    <3>2. Collect(f, r[i]) = <<>>
      BY <1>5, <3>1, CollectNone
    <3> QED
      BY <2>2, <3>2
  <2> HIDE DEF s
  <2>6. s \in Seq(Seq(S)) /\ Len(s) = n
    BY <1>2, <2>3, SequenceOf
  <2>7. FlattenSeq(s) = s[j]
    BY <1>2, <2>5, <2>6, FlattenOnly
  <2> QED
    BY <2>1, <2>4, <2>7
<1>9. Collect(f, a \o FlattenSeq(r)) = Collect(f, a) \o Collect(f, FlattenSeq(r))
  <2> DEFINE b == FlattenSeq(r)
  <2> HIDE DEF b
  <2>1. b \in Seq(S)
    BY <1>1 DEF b
  <2>2. Collect(f, a \o b) = Collect(f, a) \o Collect(f, b)
    BY <1>1, <1>3, <2>1, CollectConcat
  <2> QED
    BY <2>2 DEF b
<1>10. r[j] = ArgPieces(calls, j)
  BY <1>2, <1>5
<1> QED
  BY <1>1, <1>7, <1>8, <1>9, <1>10 DEF f, S, n, a

LEMMA MergedIs ==
    ASSUME NEW calls \in Seq(ToolCall), NEW j \in 1 .. Len(calls)
    PROVE  Merged(Pieces(calls), j) = calls[j]
<1> DEFINE n == Len(calls)  S == PieceOf(n)  p == Pieces(calls)
           first == Firsts(calls)[j]  rest == ArgPieces(calls, j)  own == <<first>> \o rest
           args == calls[j].args
<1>1. n \in Nat /\ DOMAIN calls = 1 .. n /\ args \in Seq(Words)
      /\ calls[j] = [id |-> calls[j].id, args |-> args]
  BY CallFacts
<1>2. p \in Seq(S) /\ rest \in Seq(S) /\ first \in S
  BY PiecesType
<1>3. first.id = calls[j].id /\ first.args = <<>>
  BY <1>1, PieceFields DEF Firsts
<1>4. Collect(Under(S, j), p) = own
  BY OwnPieces
<1> HIDE DEF S, p
<1>5. FlattenSeq([i \in DOMAIN p |-> IF p[i].index = j THEN <<p[i]>> ELSE <<>>]) = own
  <2>1. \A i \in DOMAIN p : p[i] \in S
    BY <1>2
  <2>2. [i \in DOMAIN p |-> IF p[i].index = j THEN <<p[i]>> ELSE <<>>]
           = [i \in DOMAIN p |-> Under(S, j)[p[i]]]
    BY <2>1 DEF Under
  <2> QED
    BY <1>4, <2>2 DEF Collect
<1> HIDE DEF first
<1>6. DOMAIN rest = DOMAIN args /\ \A i \in DOMAIN args : rest[i].args = <<args[i]>>
  BY PieceFields DEF ArgPieces
<1> HIDE DEF rest, args
<1>7. own \in Seq(S) /\ own[1] = first /\ <<first>> \in Seq(S)
  BY <1>2
<1>8. FlattenSeq([i \in DOMAIN own |-> own[i].args]) = args
  <2> DEFINE f == ArgsOf(S)
  <2>1. Makes(f, S, Words)
    BY UnderMakes DEF S
  <2>2. \A s \in Seq(S) : FlattenSeq([i \in DOMAIN s |-> s[i].args]) = Collect(f, s)
    <3> SUFFICES ASSUME NEW s \in Seq(S)
                 PROVE  FlattenSeq([i \in DOMAIN s |-> s[i].args]) = Collect(f, s)
      OBVIOUS
    <3>1. \A i \in DOMAIN s : s[i] \in S
      OBVIOUS
    <3>2. [i \in DOMAIN s |-> s[i].args] = [i \in DOMAIN s |-> f[s[i]]]
      BY <3>1 DEF ArgsOf
    <3> QED
      BY <3>2 DEF Collect
  <2>3. f[first] = <<>>
    BY <1>2, <1>3 DEF ArgsOf
  <2> HIDE DEF f
  <2>4. Collect(f, <<first>>) = <<>>
    BY <2>3, CollectOne
  <2>5. Collect(f, rest) = args
    <3>1. [i \in DOMAIN rest |-> rest[i].args] = [i \in DOMAIN args |-> <<args[i]>>]
      BY <1>6
    <3>2. FlattenSeq([i \in DOMAIN args |-> <<args[i]>>]) = args
      BY <1>1, Singles
    <3>3. FlattenSeq([i \in DOMAIN rest |-> rest[i].args]) = Collect(f, rest)
      BY <1>2, <2>2
    <3> QED
      BY <3>1, <3>2, <3>3
  <2>6. Collect(f, <<first>> \o rest) = Collect(f, <<first>>) \o Collect(f, rest)
    <3> DEFINE a == <<first>>
    <3>1. a \in Seq(S)
      BY <1>7
    <3> HIDE DEF a
    <3>2. Collect(f, a \o rest) = Collect(f, a) \o Collect(f, rest)
      BY <1>2, <2>1, <3>1, CollectConcat
    <3> QED
      BY <3>2 DEF a
  <2>7. <<>> \o args = args
    BY <1>1
  <2>8. FlattenSeq([i \in DOMAIN own |-> own[i].args]) = Collect(f, own)
    <3> HIDE DEF own
    <3> QED
      BY <1>7, <2>2
  <2> QED
    BY <2>4, <2>5, <2>6, <2>7, <2>8
<1> HIDE DEF own
<1>9. Merged(p, j)
         = [id |-> own[1].id, args |-> FlattenSeq([i \in DOMAIN own |-> own[i].args])]
  BY <1>5, Zenon DEF Merged
<1> QED
  BY <1>1, <1>3, <1>7, <1>8, <1>9 DEF p, args

\* Of the deltas the text, the thinking and the pieces are those of the message.
LEMMA DeltasCarry ==
    ASSUME NEW m \in Answer
    PROVE  LET D == Deltas(m)
           IN  /\ FlattenSeq([i \in DOMAIN D |-> D[i].content]) = m.content
               /\ FlattenSeq([i \in DOMAIN D |-> D[i].reasoning]) = m.reasoning
               /\ FlattenSeq([i \in DOMAIN D |-> D[i].calls]) = Pieces(m.calls)
<1> DEFINE n == Len(m.calls)  S == PieceOf(n)  p == Pieces(m.calls)
           d == [content |-> m.content, reasoning |-> m.reasoning, calls |-> <<>>]
           E == [i \in DOMAIN p |-> [content |-> <<>>, reasoning |-> <<>>, calls |-> <<p[i]>>]]
           T == {d} \cup {[content |-> <<>>, reasoning |-> <<>>, calls |-> <<x>>] : x \in S}
           f == [x \in T |-> x.content]
           g == [x \in T |-> x.calls]
           h == [x \in T |-> x.reasoning]
<1>1. p \in Seq(S) /\ m.content \in Seq(Words) /\ m.reasoning \in Seq(Words)
  BY AnswerFields, PiecesType
<1>2. Deltas(m) = <<d>> \o E
  BY DEF Deltas
<1> HIDE DEF S, p
<1>3. Len(p) \in Nat /\ DOMAIN p = 1 .. Len(p) /\ \A i \in 1 .. Len(p) : p[i] \in S
  BY <1>1
<1>4. E \in Seq(T)
  <2>1. E \in [1 .. Len(p) -> T]
    BY <1>3
  <2> HIDE DEF E, T
  <2> QED
    BY <1>3, <2>1, SequenceOf
<1>5. d \in T /\ <<d>> \in Seq(T)
  <2>1. d \in T
    OBVIOUS
  <2> HIDE DEF d, T
  <2> QED
    BY <2>1
<1>6. Makes(f, T, Words) /\ Makes(g, T, S) /\ Makes(h, T, Words)
  <2>1. \A x \in S : <<x>> \in Seq(S)
    OBVIOUS
  <2>2. <<>> \in Seq(S) /\ <<>> \in Seq(Words)
    OBVIOUS
  <2>3. ASSUME NEW x \in T
        PROVE  x.content \in Seq(Words) /\ x.calls \in Seq(S) /\ x.reasoning \in Seq(Words)
    <3>1. CASE x = d
      <4>1. x.content = m.content /\ x.reasoning = m.reasoning /\ x.calls = <<>>
        BY <3>1
      <4> QED
        BY <1>1, <2>2, <4>1
    <3>2. CASE x # d
      <4>1. PICK y \in S : x = [content |-> <<>>, reasoning |-> <<>>, calls |-> <<y>>]
        BY <3>2
      <4>2. x.content = <<>> /\ x.reasoning = <<>> /\ x.calls = <<y>>
        BY <4>1
      <4> QED
        BY <2>1, <2>2, <4>2
    <3> QED
      BY <3>1, <3>2
  <2> HIDE DEF T
  <2> QED
    BY <2>3 DEF Makes
<1>7. f[d] = m.content /\ g[d] = <<>> /\ h[d] = m.reasoning
  BY <1>5
<1>8. \A i \in 1 .. Len(p) : f[E[i]] = <<>> /\ g[E[i]] = <<p[i]>> /\ h[E[i]] = <<>>
  <2>1. \A i \in 1 .. Len(p) : /\ E[i] \in T /\ E[i].content = <<>>
                               /\ E[i].calls = <<p[i]>> /\ E[i].reasoning = <<>>
    BY <1>3
  <2> HIDE DEF E, T
  <2> QED
    BY <2>1
<1>9. DOMAIN E = DOMAIN p
  OBVIOUS
<1>10. ASSUME NEW s \in Seq(T)
       PROVE  /\ FlattenSeq([i \in DOMAIN s |-> s[i].content]) = Collect(f, s)
              /\ FlattenSeq([i \in DOMAIN s |-> s[i].calls]) = Collect(g, s)
              /\ FlattenSeq([i \in DOMAIN s |-> s[i].reasoning]) = Collect(h, s)
  <2> HIDE DEF T
  <2>1. \A i \in DOMAIN s : s[i] \in T
    OBVIOUS
  <2>2. /\ [i \in DOMAIN s |-> s[i].content] = [i \in DOMAIN s |-> f[s[i]]]
        /\ [i \in DOMAIN s |-> s[i].calls] = [i \in DOMAIN s |-> g[s[i]]]
        /\ [i \in DOMAIN s |-> s[i].reasoning] = [i \in DOMAIN s |-> h[s[i]]]
    BY <2>1
  <2> HIDE DEF f, g, h
  <2> QED
    BY <2>2 DEF Collect
<1> HIDE DEF d, E, T, f, g, h
<1>11. Collect(f, E) = <<>> /\ Collect(h, E) = <<>>
  <2>1. /\ [i \in DOMAIN E |-> f[E[i]]] \in [1 .. Len(p) -> {<<>>}]
        /\ [i \in DOMAIN E |-> h[E[i]]] \in [1 .. Len(p) -> {<<>>}]
    BY <1>3, <1>8, <1>9
  <2> QED
    BY <1>3, <2>1, FlattenNothing DEF Collect
<1>12. Collect(g, E) = p
  <2>1. [i \in DOMAIN E |-> g[E[i]]] = [i \in DOMAIN p |-> <<p[i]>>]
    BY <1>3, <1>8, <1>9
  <2> QED
    BY <1>1, <2>1, Singles DEF Collect
<1>13. Collect(f, <<d>>) = m.content /\ Collect(g, <<d>>) = <<>> /\ Collect(h, <<d>>) = m.reasoning
  BY <1>7, CollectOne
<1> DEFINE a == <<d>>
<1>14. a \in Seq(T) /\ a \o E \in Seq(T)
  BY <1>4, <1>5
<1> HIDE DEF a
<1>15. Collect(f, a \o E) = Collect(f, a) \o Collect(f, E)
  BY <1>4, <1>6, <1>14, CollectConcat
<1>16. Collect(g, a \o E) = Collect(g, a) \o Collect(g, E)
  BY <1>4, <1>6, <1>14, CollectConcat
<1>17. Collect(h, a \o E) = Collect(h, a) \o Collect(h, E)
  BY <1>4, <1>6, <1>14, CollectConcat
<1>18. m.content \o <<>> = m.content /\ <<>> \o p = p /\ m.reasoning \o <<>> = m.reasoning
  BY <1>1
<1>19. Deltas(m) = a \o E
  BY <1>2 DEF a
<1>20. /\ Collect(f, Deltas(m)) = m.content /\ Collect(g, Deltas(m)) = p
       /\ Collect(h, Deltas(m)) = m.reasoning
  BY <1>11, <1>12, <1>13, <1>15, <1>16, <1>17, <1>18, <1>19 DEF a
<1>21. Deltas(m) \in Seq(T)
  BY <1>14, <1>19
<1> QED
  BY <1>10, <1>20, <1>21 DEF p

LEMMA StreamedIs ==
    ASSUME NEW m \in Answer
    PROVE  Streamed(m) = Whole(m.content, m.reasoning, m.calls)
<1> DEFINE D == Deltas(m)
           chunks == [i \in DOMAIN D |-> OpenAI!buildChatCompletionChunkResponse(D[i])]
           text == FlattenSeq([i \in DOMAIN chunks |-> chunks[i].content.text])
           hidden == FlattenSeq([i \in DOMAIN chunks |-> chunks[i].reasoning])
           pieces == FlattenSeq([i \in DOMAIN chunks |-> chunks[i].calls])
<1>1. /\ FlattenSeq([i \in DOMAIN D |-> D[i].content]) = m.content
      /\ FlattenSeq([i \in DOMAIN D |-> D[i].reasoning]) = m.reasoning
      /\ FlattenSeq([i \in DOMAIN D |-> D[i].calls]) = Pieces(m.calls)
  BY DeltasCarry
<1>2. \A x : /\ OpenAI!buildChatCompletionChunkResponse(x).content.text = x.content
             /\ OpenAI!buildChatCompletionChunkResponse(x).reasoning = x.reasoning
             /\ OpenAI!buildChatCompletionChunkResponse(x).calls = x.calls
  BY ContentForms DEF OpenAI!buildChatCompletionChunkResponse
<1> HIDE DEF D
<1>3. /\ [i \in DOMAIN chunks |-> chunks[i].content.text] = [i \in DOMAIN D |-> D[i].content]
      /\ [i \in DOMAIN chunks |-> chunks[i].reasoning] = [i \in DOMAIN D |-> D[i].reasoning]
      /\ [i \in DOMAIN chunks |-> chunks[i].calls] = [i \in DOMAIN D |-> D[i].calls]
  BY <1>2
<1>4. text = m.content /\ hidden = m.reasoning /\ pieces = Pieces(m.calls)
  BY <1>1, <1>3
<1>5. Streamed(m)
         = [OpenAI!ChatMessage("assistant", OpenAI!Content(text)) EXCEPT
              !.reasoning = hidden,
              !.calls = [j \in {pieces[i].index : i \in DOMAIN pieces} |-> Merged(pieces, j)]]
  BY Zenon DEF Streamed, D
<1> HIDE DEF text, hidden, pieces
<1>6. m.calls \in Seq(ToolCall)
  BY AnswerFields
<1>7. {pieces[i].index : i \in DOMAIN pieces} = DOMAIN m.calls
  BY <1>4, <1>6, PieceIndexes
<1>8. \A j \in DOMAIN m.calls : Merged(pieces, j) = m.calls[j]
  <2>1. DOMAIN m.calls = 1 .. Len(m.calls)
    BY <1>6
  <2> QED
    BY <1>4, <1>6, <2>1, MergedIs
<1>9. [j \in {pieces[i].index : i \in DOMAIN pieces} |-> Merged(pieces, j)] = m.calls
  <2>1. [j \in DOMAIN m.calls |-> Merged(pieces, j)] = [j \in DOMAIN m.calls |-> m.calls[j]]
    BY <1>8
  <2>2. [j \in DOMAIN m.calls |-> m.calls[j]] = m.calls
    BY <1>6
  <2> QED
    BY <1>7, <2>1, <2>2
<1> QED
  BY <1>4, <1>5, <1>9 DEF Whole

-----------------------------------------------------------------------------
(* The client's copy of an answer, sent back.                              *)

Returned(cl, m) ==
    Reply(m.content, IF cl.proto = "anthropic" THEN m.reasoning ELSE <<>>, m.calls)

LEMMA ReturnedType ==
    ASSUME NEW cl, NEW m \in Answer
    PROVE  /\ Returned(cl, m) \in Message /\ Returned(cl, m).role = "assistant"
           /\ Returned(cl, m).content = m.content /\ Returned(cl, m).calls = m.calls
           /\ Returned(cl, m).reasoning = IF cl.proto = "anthropic" THEN m.reasoning ELSE <<>>
<1> DEFINE thinking == IF cl.proto = "anthropic" THEN m.reasoning ELSE <<>>
<1>1. m.content \in Seq(Words) /\ thinking \in Seq(Words) /\ m.calls \in Seq(ToolCall)
  BY AnswerFields, EmptyFields
<1> HIDE DEF thinking
<1>2. /\ Reply(m.content, thinking, m.calls) \in Message
      /\ Reply(m.content, thinking, m.calls).role = "assistant"
      /\ Reply(m.content, thinking, m.calls).content = m.content
      /\ Reply(m.content, thinking, m.calls).calls = m.calls
      /\ Reply(m.content, thinking, m.calls).reasoning = thinking
  BY <1>1, ReplyFields
<1> QED
  BY <1>2 DEF Returned, thinking

LEMMA ClientForms ==
    ASSUME client \in Clients
    PROVE  /\ client.proto \in {"anthropic", "openai"}
           /\ client.stream \in BOOLEAN /\ (client.stream => client.proto = "openai")
BY DEF Clients

LEMMA ReceivedIs ==
    ASSUME client \in Clients, NEW m \in Answer, NEW resp, ResponseOf(resp, m),
           Received(resp) # <<>>
    PROVE  Received(resp) =
              IF client.proto = "anthropic"
              THEN <<[role |-> "assistant",
                      content |-> List(Anthropic!buildAnthropicResponse(resp))]>>
              ELSE <<Whole(m.content, m.reasoning, m.calls)>>
<1>1. CASE client.proto = "anthropic"
  <2>1. client.stream = FALSE
    BY <1>1, ClientForms
  <2>2. Received(resp) = IF Anthropic!WriteResponseFails(resp) THEN <<>>
                         ELSE <<[role |-> "assistant",
                                 content |-> List(Anthropic!buildAnthropicResponse(resp))]>>
    BY <1>1, <2>1 DEF Received
  <2> QED
    BY <1>1, <2>2
<1>2. CASE client.proto # "anthropic"
  <2>1. CASE resp = [choices |-> <<m>>]
    <3>1. resp.choices = <<m>> /\ resp.choices # <<>> /\ resp.choices[1] = m
      BY <2>1
    <3>2. CASE client.stream
      <4>1. Received(resp) = <<Streamed(m)>>
        BY <1>2, <3>1, <3>2 DEF Received
      <4> QED
        BY <1>2, <4>1, StreamedIs
    <3>3. CASE ~client.stream
      <4>1. Received(resp) = OpenAI!buildChatCompletionResponse(resp)
        BY <1>2, <3>3 DEF Received
      <4> QED
        BY <1>2, <2>1, <4>1, BuiltIs
    <3> QED
      BY <3>2, <3>3
  <2>2. CASE resp = [choices |-> <<>>]
    <3>1. resp.choices = <<>>
      BY <2>2
    <3>2. Received(resp) = OpenAI!buildChatCompletionResponse(resp)
      BY <1>2, <3>1 DEF Received
    <3>3. OpenAI!buildChatCompletionResponse(resp) = <<>>
      BY <3>1 DEF OpenAI!buildChatCompletionResponse
    <3> QED
      BY <3>2, <3>3
  <2> QED
    BY <2>1, <2>2 DEF ResponseOf
<1> QED
  BY <1>1, <1>2

LEMMA AnswerReturns ==
    ASSUME client \in Clients, NEW m \in Answer, NEW resp, ResponseOf(resp, m),
           Received(resp) # <<>>
    PROVE  /\ Known(client.proto, Received(resp))
           /\ Converted(client.proto, Received(resp)) = <<Returned(client, m)>>
<1> DEFINE r == Returned(client, m)
<1>1. r \in Message
  BY ReturnedType
<1>2. CASE client.proto = "anthropic"
  <2> DEFINE msg == [role |-> "assistant", content |-> List(Anthropic!buildAnthropicResponse(resp))]
  <2>1. Received(resp) = <<msg>>
    BY <1>2, ReceivedIs
  <2>2. Anthropic!convertMessage(msg) = <<r>>
    BY <1>2, AnthropicAnswerReturns DEF Returned
  <2> HIDE DEF msg, r
  <2>3. Convert(client.proto, msg) = <<r>>
    BY <1>2, <2>2 DEF Convert
  <2>4. <<r>> \in Seq(Message)
    BY <1>1
  <2>5. Known(client.proto, <<msg>>) /\ Converted(client.proto, <<msg>>) = Convert(client.proto, msg)
    BY <2>3, <2>4, ConvertedOne
  <2> QED
    BY <2>1, <2>3, <2>5 DEF r
<1>3. CASE client.proto # "anthropic"
  <2> DEFINE msg == Whole(m.content, m.reasoning, m.calls)
  <2>1. Received(resp) = <<msg>>
    BY <1>3, ReceivedIs
  <2>2. OpenAI!convertMessage(msg) = r
    BY <1>3, WholeConverts DEF Returned
  <2> HIDE DEF msg, r
  <2>3. Convert(client.proto, msg) = <<r>>
    BY <1>3, <2>2 DEF Convert
  <2>4. <<r>> \in Seq(Message)
    BY <1>1
  <2>5. Known(client.proto, <<msg>>) /\ Converted(client.proto, <<msg>>) = Convert(client.proto, msg)
    BY <2>3, <2>4, ConvertedOne
  <2> QED
    BY <2>1, <2>3, <2>5 DEF r
<1> QED
  BY <1>2, <1>3

-----------------------------------------------------------------------------
(* What is kept of a conversation, of any client, turns and answers.       *)

TurnOf == [results : Seq(Results), text : Texts, image : {"none", "base64", "url"}]

SeenAs(cl, seen, told) ==
    /\ Len(seen) = Len(told)
    /\ \A n \in DOMAIN seen :
          /\ seen[n].content = told[n].content
          /\ seen[n].calls = told[n].calls
          /\ seen[n].reasoning = IF cl.proto = "anthropic" THEN told[n].reasoning ELSE <<>>

Kept(cl, msgs, t, calls) ==
    LET users == OfRole(msgs, "user")
        tools == OfRole(msgs, "tool")
        list  == t.image = "none" /\ ~(cl.plain /\ Len(t.text) = 1)
        before == IF cl.proto = "anthropic" /\ FlattenSeq(t.text) # <<>> THEN 1 ELSE 0
    IN  /\ FlattenSeq([i \in DOMAIN users |-> users[i].content])
              = (IF cl.proto = "openai" /\ list /\ t.text # <<>> /\ FlattenSeq(t.text) = <<>>
                 THEN <<RawJSON>> ELSE FlattenSeq(t.text))
        /\ FlattenSeq([i \in DOMAIN users |-> users[i].images])
              = (IF \/ t.image = "none"
                    \/ t.image = "url" /\ cl.proto = "anthropic"
                 THEN <<>> ELSE <<Image>>)
        /\ Len(tools) = Len(calls)
        /\ \A i \in DOMAIN tools :
              /\ tools[i].tool = calls[i].id
              /\ tools[i].content = t.results[i]
        /\ \A i \in DOMAIN msgs :
              msgs[i].role = "tool" <=> i \in before + 1 .. before + Len(t.results)

DueOf(told, n) == IF n = 1 THEN <<>> ELSE told[n - 1].calls

TurnsIn(cl, c, ts, told) ==
    \A n \in Int :
        IF n \in 1 .. Len(ts) THEN Kept(cl, Turn(c, n), ts[n], DueOf(told, n))
        ELSE Turn(c, n) = <<>>

Faithful(cl, c, ts, told) ==
    /\ c \in Seq(Message) /\ ts \in Seq(TurnOf) /\ told \in Seq(Answer)
    /\ \A i \in 1 .. Len(c) : c[i].role # "system"
    /\ SeenAs(cl, Assistants(c), told)
    /\ TurnsIn(cl, c, ts, told)

\* They are the properties' own.
LEMMA KeptIs ==
    ASSUME NEW msgs, NEW t, NEW calls
    PROVE  Kept(client, msgs, t, calls) <=> SameTurn(msgs, t, calls) /\ InPlace(msgs, t)
BY DEF Kept, SameTurn, InPlace, Heard

LEMMA SeenIs ==
    ASSUME NEW seen
    PROVE  SeenAs(client, seen, answers) <=> SameAnswers(seen)
BY DEF SeenAs, SameAnswers

LEMMA DueIs == ASSUME NEW n PROVE Due(n) = DueOf(answers, n)
BY DEF Due, DueOf

LEMMA NoneConcat ==
    ASSUME NEW a \in Seq(Message), NEW b \in Seq(Message), NEW role,
           \A i \in 1 .. Len(a) : a[i].role # role,
           \A i \in 1 .. Len(b) : b[i].role # role
    PROVE  /\ a \o b \in Seq(Message)
           /\ \A i \in 1 .. Len(a \o b) : (a \o b)[i].role # role
<1>1. /\ a \o b \in Seq(Message) /\ Len(a \o b) = Len(a) + Len(b)
      /\ Len(a) \in Nat /\ Len(b) \in Nat
      /\ \A i \in 1 .. Len(a) : (a \o b)[i] = a[i]
      /\ \A i \in 1 .. Len(b) : (a \o b)[Len(a) + i] = b[i]
  BY ConcatParts
<1>2. ASSUME NEW i \in 1 .. Len(a \o b) PROVE (a \o b)[i].role # role
  <2>1. CASE i \in 1 .. Len(a)
    BY <1>1, <2>1
  <2>2. CASE i \notin 1 .. Len(a)
    <3>1. i - Len(a) \in 1 .. Len(b) /\ Len(a) + (i - Len(a)) = i
      BY <1>1, <2>2
    <3>2. (a \o b)[Len(a) + (i - Len(a))] = b[i - Len(a)]
      BY <1>1, <3>1
    <3> QED
      BY <3>1, <3>2
  <2> QED
    BY <2>1, <2>2
<1> QED
  BY <1>1, <1>2

LEMMA FaithfulInit == ASSUME NEW cl PROVE Faithful(cl, <<>>, <<>>, <<>>)
<1>1. <<>> \in Seq(Message) /\ <<>> \in Seq(TurnOf) /\ <<>> \in Seq(Answer) /\ Len(<<>>) = 0
  OBVIOUS
<1>2. Assistants(<<>>) = <<>>
  BY FlattenEmpty DEF Assistants, OfRole
<1>3. SeenAs(cl, <<>>, <<>>)
  BY DEF SeenAs
<1>4. \A n \in Int : Turn(<<>>, n) = <<>>
  <2>1. \A i \in 1 .. Len(<<>>) : <<>>[i].role \in {"assistant", "system"}
    BY <1>1
  <2> QED
    BY <1>1, <2>1, TurnOfOthers
<1>5. TurnsIn(cl, <<>>, <<>>, <<>>)
  BY <1>1, <1>4 DEF TurnsIn
<1> QED
  BY <1>1, <1>2, <1>3, <1>5 DEF Faithful

LEMMA FaithfulSay ==
    ASSUME NEW cl, NEW c, NEW ts, NEW told, Faithful(cl, c, ts, told), Len(ts) = Len(told),
           NEW d \in Seq(Message), \A i \in 1 .. Len(d) : d[i].role \in {"user", "tool"},
           NEW t \in TurnOf, Kept(cl, d, t, DueOf(told, Len(told) + 1))
    PROVE  Faithful(cl, c \o d, Append(ts, t), told)
<1> DEFINE e == c \o d  us == Append(ts, t)  k == Len(told)
<1>1. /\ c \in Seq(Message) /\ ts \in Seq(TurnOf) /\ told \in Seq(Answer)
      /\ \A i \in 1 .. Len(c) : c[i].role # "system"
      /\ SeenAs(cl, Assistants(c), told) /\ TurnsIn(cl, c, ts, told)
  BY DEF Faithful
<1>2. e \in Seq(Message) /\ \A i \in 1 .. Len(e) : e[i].role # "system"
  <2>1. \A i \in 1 .. Len(d) : d[i].role # "system"
    OBVIOUS
  <2> QED
    BY <1>1, <2>1, NoneConcat
<1>3. /\ us \in Seq(TurnOf) /\ Len(us) = k + 1 /\ us[k + 1] = t /\ k \in Nat /\ Len(ts) = k
      /\ \A n \in 1 .. k : us[n] = ts[n]
  <2>1. ts \in Seq(TurnOf) /\ Len(ts) = k /\ k \in Nat
    <3>1. told \in Seq(Answer)
      BY <1>1
    <3>2. \A x \in Seq(Answer) : Len(x) \in Nat
      OBVIOUS
    <3>3. Len(told) \in Nat
      BY <3>1, <3>2
    <3> QED
      BY <1>1, <3>3
  <2> HIDE DEF k
  <2>2. /\ us \in Seq(TurnOf) /\ Len(us) = Len(ts) + 1 /\ us[Len(ts) + 1] = t
        /\ \A n \in 1 .. Len(ts) : us[n] = ts[n]
    BY <2>1, AppendParts
  <2> QED
    BY <2>1, <2>2
<1>4. /\ Assistants(d) = <<>> /\ Turn(d, 1) = d
      /\ \A n \in Int : n # 1 => Turn(d, n) = <<>>
  BY TurnOfClient
<1>5. Assistants(c) \in Seq(Message) /\ Len(Assistants(c)) = k
  BY <1>1, OfRoleType DEF Assistants, SeenAs
<1>6. Assistants(e) = Assistants(c)
  <2>1. Assistants(e) = Assistants(c) \o Assistants(d)
    BY <1>1, OfRoleConcat DEF Assistants
  <2> QED
    BY <1>4, <1>5, <2>1
<1>7. \A n \in Int : Turn(e, n) = Turn(c, n) \o Turn(d, n - k) /\ Turn(c, n) \in Seq(Message)
  <2>1. \A n \in Int : Turn(e, n) = Turn(c, n) \o Turn(d, n - Len(Assistants(c)))
    BY <1>1, TurnConcat
  <2>2. \A n \in Int : Turn(c, n) \in Seq(Message)
    BY <1>1, TurnType
  <2> QED
    BY <1>5, <2>1, <2>2
<1> HIDE DEF e, us, k
<1>8. ASSUME NEW n \in Int
      PROVE  IF n \in 1 .. Len(us) THEN Kept(cl, Turn(e, n), us[n], DueOf(told, n))
             ELSE Turn(e, n) = <<>>
  <2>1. CASE n = k + 1
    <3>1. n - k = 1 /\ n \in 1 .. Len(us) /\ n \notin 1 .. Len(ts)
      BY <1>3, <2>1
    <3>2. Turn(c, n) = <<>>
      BY <1>1, <3>1 DEF TurnsIn
    <3>3. Turn(e, n) = d
      <4>1. Turn(e, n) = <<>> \o d
        BY <1>4, <1>7, <3>1, <3>2
      <4> QED
        BY <4>1
    <3> QED
      BY <1>3, <2>1, <3>1, <3>3 DEF k
  <2>2. CASE n # k + 1
    <3>1. n - k # 1 /\ n - k \in Int
      BY <1>3, <2>2
    <3>2. Turn(d, n - k) = <<>>
      <4> DEFINE j == n - k
      <4>1. j # 1 /\ j \in Int
        BY <3>1
      <4> HIDE DEF j
      <4>2. Turn(d, j) = <<>>
        BY <1>4, <4>1
      <4> QED
        BY <4>2 DEF j
    <3>3. Turn(e, n) = Turn(c, n)
      <4>1. Turn(e, n) = Turn(c, n) \o <<>> /\ Turn(c, n) \in Seq(Message)
        BY <1>7, <3>2
      <4> QED
        BY <4>1
    <3>4. n \in 1 .. Len(us) <=> n \in 1 .. Len(ts)
      BY <1>3, <2>2
    <3>5. n \in 1 .. Len(ts) => us[n] = ts[n]
      BY <1>3
    <3>6. IF n \in 1 .. Len(ts) THEN Kept(cl, Turn(c, n), ts[n], DueOf(told, n))
          ELSE Turn(c, n) = <<>>
      BY <1>1 DEF TurnsIn
    <3> QED
      BY <3>3, <3>4, <3>5, <3>6
  <2> QED
    BY <2>1, <2>2
<1>9. TurnsIn(cl, e, us, told)
  BY <1>8 DEF TurnsIn
<1> QED
  BY <1>1, <1>2, <1>3, <1>6, <1>9 DEF Faithful, e, us

LEMMA FaithfulAnswer ==
    ASSUME NEW cl, NEW c, NEW ts, NEW told, Faithful(cl, c, ts, told), Len(ts) = Len(told) + 1,
           NEW m \in Answer
    PROVE  Faithful(cl, c \o <<Returned(cl, m)>>, ts, Append(told, m))
<1> DEFINE r == Returned(cl, m)  d == <<r>>  e == c \o d  bs == Append(told, m)  k == Len(told)
<1>1. /\ c \in Seq(Message) /\ ts \in Seq(TurnOf) /\ told \in Seq(Answer)
      /\ \A i \in 1 .. Len(c) : c[i].role # "system"
      /\ SeenAs(cl, Assistants(c), told) /\ TurnsIn(cl, c, ts, told)
  BY DEF Faithful
<1>2. /\ r \in Message /\ r.role = "assistant" /\ r.content = m.content /\ r.calls = m.calls
      /\ r.reasoning = IF cl.proto = "anthropic" THEN m.reasoning ELSE <<>>
  BY ReturnedType
<1> HIDE DEF r
<1>3. d \in Seq(Message) /\ Len(d) = 1 /\ d[1] = r
  BY <1>2
<1>4. \A i \in 1 .. Len(d) : d[i].role = "assistant"
  BY <1>2, <1>3
<1> HIDE DEF d
<1>5. e \in Seq(Message) /\ \A i \in 1 .. Len(e) : e[i].role # "system"
  <2>1. \A i \in 1 .. Len(d) : d[i].role # "system"
    BY <1>4
  <2> QED
    BY <1>1, <1>3, <2>1, NoneConcat
<1>6. /\ bs \in Seq(Answer) /\ Len(bs) = k + 1 /\ bs[k + 1] = m /\ k \in Nat /\ Len(ts) = k + 1
      /\ \A n \in 1 .. k : bs[n] = told[n]
  <2>1. told \in Seq(Answer) /\ Len(ts) = k + 1 /\ Len(told) = k
    BY <1>1
  <2> HIDE DEF k
  <2>2. /\ bs \in Seq(Answer) /\ Len(bs) = Len(told) + 1 /\ bs[Len(told) + 1] = m /\ Len(told) \in Nat
        /\ \A n \in 1 .. Len(told) : bs[n] = told[n]
    BY <2>1, AppendParts
  <2> QED
    BY <2>1, <2>2
<1>7. /\ Assistants(e) = Assistants(c) \o d /\ Assistants(c) \in Seq(Message)
  <2>1. Assistants(e) = Assistants(c) \o Assistants(d)
    BY <1>1, <1>3, OfRoleConcat DEF Assistants
  <2>2. Assistants(d) = d
    BY <1>3, <1>4, OfRoleAll DEF Assistants
  <2> QED
    BY <1>1, <2>1, <2>2, OfRoleType DEF Assistants
<1>8. \A n \in Int : Turn(e, n) = Turn(c, n)
  <2> SUFFICES ASSUME NEW n \in Int PROVE Turn(e, n) = Turn(c, n)
    OBVIOUS
  <2> DEFINE j == n - Len(Assistants(c))
  <2>1. Turn(e, n) = Turn(c, n) \o Turn(d, j)
    BY <1>1, <1>3, TurnConcat
  <2>2. Turn(d, j) = <<>>
    <3>1. j \in Int
      BY <1>7
    <3>2. \A i \in 1 .. Len(d) : d[i].role \in {"assistant", "system"}
      BY <1>4
    <3> HIDE DEF j
    <3> QED
      BY <1>3, <3>1, <3>2, TurnOfOthers
  <2>3. Turn(c, n) \in Seq(Message)
    BY <1>1, TurnType
  <2> HIDE DEF j
  <2> QED
    BY <2>1, <2>2, <2>3
<1> HIDE DEF e, bs, k
<1>9. SeenAs(cl, Assistants(e), bs)
  <2> DEFINE a == Assistants(c)  b == Assistants(e)
  <2>1. /\ a \in Seq(Message) /\ b = a \o d /\ Len(a) = k
        /\ \A n \in 1 .. k : /\ a[n].content = told[n].content /\ a[n].calls = told[n].calls
                             /\ a[n].reasoning = IF cl.proto = "anthropic" THEN told[n].reasoning
                                                 ELSE <<>>
    <3>1. a \in Seq(Message) /\ b = a \o d /\ Len(a) = k
      BY <1>1, <1>7 DEF SeenAs, k
    <3>2. DOMAIN a = 1 .. k
      BY <3>1
    <3> QED
      BY <1>1, <3>1, <3>2 DEF SeenAs
  <2> HIDE DEF a
  <2>2. /\ Len(b) = k + 1 /\ DOMAIN b = 1 .. k + 1 /\ b[k + 1] = r
        /\ \A n \in 1 .. k : b[n] = a[n]
    <3>1. /\ a \o d \in Seq(Message) /\ Len(a \o d) = Len(a) + Len(d)
          /\ \A i \in 1 .. Len(a) : (a \o d)[i] = a[i]
          /\ \A i \in 1 .. Len(d) : (a \o d)[Len(a) + i] = d[i]
      <4>1. a \in Seq(Message) /\ d \in Seq(Message)
        BY <1>3, <2>1
      <4> QED
        BY ONLY <4>1, ConcatParts
    <3>2. 1 \in 1 .. Len(d)
      BY <1>3
    <3> HIDE DEF b
    <3>3. (a \o d)[Len(a) + 1] = r
      BY <1>3, <3>1, <3>2
    <3>4. b \in Seq(Message) /\ Len(b) = k + 1
      BY <1>3, <2>1, <3>1
    <3> QED
      BY <2>1, <3>1, <3>3, <3>4
  <2> HIDE DEF b
  <2>3. ASSUME NEW n \in DOMAIN b
        PROVE  /\ b[n].content = bs[n].content /\ b[n].calls = bs[n].calls
               /\ b[n].reasoning = IF cl.proto = "anthropic" THEN bs[n].reasoning ELSE <<>>
    <3>1. n \in 1 .. k \/ n = k + 1
      BY <1>6, <2>2
    <3>2. CASE n \in 1 .. k
      BY <1>6, <2>1, <2>2, <3>2
    <3>3. CASE n = k + 1
      BY <1>2, <1>6, <2>2, <3>3
    <3> QED
      BY <3>1, <3>2, <3>3
  <2>4. Len(b) = Len(bs)
    BY <1>6, <2>2
  <2>5. SeenAs(cl, b, bs)
    BY <2>3, <2>4 DEF SeenAs
  <2> QED
    BY <2>5 DEF b
<1>10. TurnsIn(cl, e, ts, bs)
  <2>1. ASSUME NEW n \in 1 .. Len(ts) PROVE DueOf(bs, n) = DueOf(told, n)
    <3>1. n \in 1 .. k + 1 /\ k \in Nat
      BY <1>6
    <3>2. n # 1 => n - 1 \in 1 .. k
      BY <3>1
    <3>3. n # 1 => bs[n - 1] = told[n - 1]
      BY <1>6, <3>2
    <3> QED
      BY <3>3 DEF DueOf
  <2>2. \A n \in 1 .. Len(ts) : n \in Int
    OBVIOUS
  <2> QED
    BY <1>1, <1>8, <2>1, <2>2 DEF TurnsIn
<1> QED
  BY <1>1, <1>5, <1>6, <1>9, <1>10 DEF Faithful, e, bs, d, r

-----------------------------------------------------------------------------
(* The steps.                                                              *)

LEMMA ParsedIs ==
    ASSUME client \in Clients, system \in Prompts, Known(client.proto, history),
           NEW model, NEW field, field = SystemField \/ field.form = "raw" \/ ~model,
           ~Rejects(Request(model, field))
    PROVE  (IF client.proto = "anthropic" THEN Anthropic!ParseRequest(Request(model, field))
                                          ELSE OpenAI!ParseRequest(Request(model, field)))
              = Prompt \o Converted(client.proto, history)
<1>1. CASE client.proto = "anthropic"
  <2> DEFINE req == Request(model, field)
  <2>1. req.model = model /\ req.system = field /\ req.messages = history
    BY <1>1 DEF Request
  <2> HIDE DEF req
  <2>2. model /\ field.form # "raw"
    BY <1>1, <2>1 DEF Rejects, Anthropic!ParseRequestFails, req
  <2>3. field = SystemField
    BY <2>2
  <2>4. Anthropic!ParseRequest(req)
           = Anthropic!parseSystemPrompt(SystemField)
             \o Anthropic!FlattenSeq([i \in DOMAIN history |-> Anthropic!convertMessage(history[i])])
    BY <2>1, <2>3 DEF Anthropic!ParseRequest, Anthropic!convertMessages
  <2>5. Anthropic!FlattenSeq([i \in DOMAIN history |-> Anthropic!convertMessage(history[i])])
           = Converted("anthropic", history)
    <3>1. [i \in DOMAIN history |-> Anthropic!convertMessage(history[i])]
             = [i \in DOMAIN history |-> Convert("anthropic", history[i])]
      BY DEF Convert
    <3>2. \A s : Anthropic!FlattenSeq(s) = FlattenSeq(s)
      BY DEF FlattenSeq, Anthropic!FlattenSeq
    <3>3. Anthropic!FlattenSeq([i \in DOMAIN history |-> Convert("anthropic", history[i])])
             = Converted("anthropic", history)
      BY <3>2 DEF Converted
    <3> QED
      BY <3>1, <3>3
  <2>6. Anthropic!parseSystemPrompt(SystemField) = Prompt
    BY <1>1, AnthropicPrompt
  <2> QED
    BY <1>1, <2>4, <2>5, <2>6 DEF req
<1>2. CASE client.proto # "anthropic"
  <2> DEFINE req == Request(model, field)  all == SystemMessage \o history
  <2>1. req.messages = all
    BY <1>2 DEF Request
  <2>2. client.proto = "openai"
    BY <1>2, ClientForms
  <2>3. OpenAI!ParseRequest(req) = [i \in DOMAIN all |-> OpenAI!convertMessage(all[i])]
    BY <2>1 DEF OpenAI!ParseRequest, OpenAI!convertMessages
  <2>4. Known("openai", SystemMessage) /\ Converted("openai", SystemMessage) = Prompt
    BY <2>2, OpenAIPrompt
  <2>5. /\ Known("openai", all)
        /\ Converted("openai", all)
              = Converted("openai", SystemMessage) \o Converted("openai", history)
    BY <2>2, <2>4, ConvertedConcat
  <2> HIDE DEF all, req
  <2>6. PICK H : all \in Seq(H)
    BY <2>5 DEF Known, Of
  <2>7. Converted("openai", all) = [i \in DOMAIN all |-> OpenAI!convertMessage(all[i])]
    BY <2>6, ConvertedEach
  <2> QED
    BY <1>2, <2>2, <2>3, <2>4, <2>5, <2>7 DEF req
<1> QED
  BY <1>1, <1>2

\* What the client adds to its history.
LEMMA SaidArrives ==
    ASSUME client \in Clients, answers \in Seq(Answer), NEW t \in Turns,
           NEW h, h = IF client.proto = "anthropic" THEN AnthropicTurn(t) ELSE OpenAITurn(t)
    PROVE  Known(client.proto, h) /\ Arrives(Converted(client.proto, h), t)
<1>1. CASE client.proto = "anthropic"
  <2>1. PICK msg : AnthropicTurn(t) = <<msg>> /\ Arrives(Anthropic!convertMessage(msg), t)
    BY <1>1, AnthropicTurnArrives
  <2>2. Convert("anthropic", msg) = Anthropic!convertMessage(msg)
    BY DEF Convert
  <2>3. Convert("anthropic", msg) \in Seq(Message)
    BY <2>1, <2>2 DEF Arrives
  <2>4. Known("anthropic", <<msg>>) /\ Converted("anthropic", <<msg>>) = Convert("anthropic", msg)
    BY <2>3, ConvertedOne
  <2> QED
    BY <1>1, <2>1, <2>2, <2>4
<1>2. CASE client.proto # "anthropic"
  <2>1. client.proto = "openai"
    BY <1>2, ClientForms
  <2> QED
    BY <2>1, OpenAITurnArrives
<1> QED
  BY <1>1, <1>2

LEMMA TurnsAre ==
    ASSUME answers \in Seq(Answer), NEW t \in Turns PROVE t \in TurnOf
<1>1. t \in [results : [DOMAIN Pending -> Results], text : Texts, image : {"none", "base64", "url"}]
  BY DEF Turns
<1>2. t.results \in Seq(Results)
  BY TurnFacts
<1> QED
  BY <1>1, <1>2 DEF TurnOf

LEMMA PendingIsDue ==
    ASSUME answers \in Seq(Answer)
    PROVE  Pending = DueOf(answers, Len(answers) + 1)
<1>1. Len(answers) \in Nat /\ (answers = <<>> <=> Len(answers) = 0)
  OBVIOUS
<1>2. CASE answers = <<>>
  BY <1>1, <1>2 DEF Pending, DueOf
<1>3. CASE answers # <<>>
  <2>1. Len(answers) + 1 # 1 /\ (Len(answers) + 1) - 1 = Len(answers)
    BY <1>1, <1>3
  <2>2. Last(answers) = answers[Len(answers)]
    BY DEF Last
  <2> QED
    BY <1>3, <2>1, <2>2 DEF Pending, DueOf
<1> QED
  BY <1>2, <1>3

\* The inductive invariant: what the client will send next is, converted, the
\* conversation as it was; and the last request sent it after the prompt.
IInv ==
    /\ client \in Clients /\ system \in Prompts
    /\ pc \in {"client", "adapter", "provider", "rejected", "over"}
    /\ Known(client.proto, history)
    /\ Faithful(client, Converted(client.proto, history), turns, answers)
    /\ Len(turns) <= MaxTurns
    /\ Len(turns) = Len(answers) + (IF pc = "client" THEN 0 ELSE 1)
    /\ upstream \in Seq(Message)
    /\ Asked => upstream = Prompt \o Converted(client.proto, history)

LEMMA InitIInv == Init => IInv
<1> SUFFICES ASSUME Init PROVE IInv
  OBVIOUS
<1>1. /\ client \in Clients /\ system \in Prompts /\ pc = "client"
      /\ history = <<>> /\ turns = <<>> /\ answers = <<>> /\ upstream = <<>>
  BY DEF Init
<1>2. Known(client.proto, <<>>) /\ Converted(client.proto, <<>>) = <<>>
  BY ConvertedNone
<1>3. Faithful(client, <<>>, <<>>, <<>>)
  BY FaithfulInit
<1>4. 0 <= MaxTurns /\ <<>> \in Seq(Message) /\ Len(<<>>) = 0
  BY BoundAssumption
<1> QED
  BY <1>1, <1>2, <1>3, <1>4 DEF IInv, Asked

LEMMA SayIInv ==
    ASSUME IInv, NEW t \in Turns, Say(t) PROVE IInv'
<1> DEFINE h == IF client.proto = "anthropic" THEN AnthropicTurn(t) ELSE OpenAITurn(t)
           c == Converted(client.proto, history)  d == Converted(client.proto, h)
           proto == client.proto
<1>1. /\ client \in Clients /\ system \in Prompts /\ Known(client.proto, history)
      /\ Faithful(client, c, turns, answers) /\ upstream \in Seq(Message)
      /\ Len(turns) = Len(answers) + (IF pc = "client" THEN 0 ELSE 1)
  BY DEF IInv
<1>2. /\ pc = "client" /\ Len(turns) < MaxTurns /\ history' = history \o h
      /\ turns' = Append(turns, t) /\ pc' = "adapter"
      /\ client' = client /\ system' = system /\ answers' = answers /\ upstream' = upstream
  BY DEF Say
<1>3. answers \in Seq(Answer) /\ turns \in Seq(TurnOf)
  BY <1>1 DEF Faithful
<1>4. Known(client.proto, h) /\ Arrives(d, t)
  BY <1>1, <1>3, SaidArrives
<1>5. t \in TurnOf
  BY <1>3, TurnsAre
<1>6. Len(turns) = Len(answers)
  BY <1>1, <1>2, <1>3
<1>7. /\ d \in Seq(Message) /\ \A i \in 1 .. Len(d) : d[i].role \in {"user", "tool"}
      /\ Kept(client, d, t, DueOf(answers, Len(answers) + 1))
  <2> HIDE DEF d
  <2>1. /\ d \in Seq(Message) /\ \A i \in 1 .. Len(d) : d[i].role \in {"user", "tool"}
        /\ SameTurn(d, t, Pending) /\ InPlace(d, t)
    BY <1>4 DEF Arrives
  <2>2. Kept(client, d, t, Pending)
    BY <2>1, KeptIs
  <2> QED
    BY <1>3, <2>1, <2>2, PendingIsDue
<1> HIDE DEF h
<1>8. Known(client.proto, history \o h) /\ Converted(client.proto, history \o h) = c \o d
  BY <1>1, <1>4, ConvertedConcat
<1> HIDE DEF c, d
<1>9. Faithful(client, c \o d, Append(turns, t), answers)
  BY <1>1, <1>5, <1>6, <1>7, FaithfulSay
<1>10. Len(turns') = Len(turns) + 1 /\ Len(turns) \in Nat
  BY <1>2, <1>3, <1>5, AppendParts
<1>11. Len(turns') <= MaxTurns
  BY <1>2, <1>10, BoundAssumption
<1>12. Len(turns') = Len(answers') + (IF pc' = "client" THEN 0 ELSE 1)
  BY <1>2, <1>6, <1>10
<1>13. Known(client'.proto, history')
  BY <1>2, <1>8
<1>14. Faithful(client', Converted(client'.proto, history'), turns', answers')
  BY <1>2, <1>8, <1>9
<1>15. ~Asked'
  BY <1>2 DEF Asked
<1> QED
  BY <1>1, <1>2, <1>11, <1>12, <1>13, <1>14, <1>15 DEF IInv

LEMMA ParseRequestIInv ==
    ASSUME IInv, NEW model, NEW field, field = SystemField \/ field.form = "raw" \/ ~model,
           ParseRequest(model, field)
    PROVE  IInv'
<1> DEFINE c == Converted(client.proto, history)  req == Request(model, field)
           up == IF client.proto = "anthropic" THEN Anthropic!ParseRequest(req)
                                               ELSE OpenAI!ParseRequest(req)
<1>1. /\ client \in Clients /\ system \in Prompts /\ Known(client.proto, history)
      /\ Faithful(client, c, turns, answers) /\ upstream \in Seq(Message)
      /\ Len(turns) <= MaxTurns
      /\ Len(turns) = Len(answers) + (IF pc = "client" THEN 0 ELSE 1)
  BY DEF IInv
<1>2. /\ pc = "adapter" /\ client' = client /\ system' = system /\ turns' = turns
      /\ history' = history /\ answers' = answers
      /\ \/ Rejects(req) /\ pc' = "rejected" /\ upstream' = upstream
         \/ ~Rejects(req) /\ pc' = "provider" /\ upstream' = up
  BY DEF ParseRequest, said
<1>3. ~Rejects(req) => up = Prompt \o c
  BY <1>1, ParsedIs
<1>4. c \in Seq(Message) /\ Prompt \in Seq(Message)
  BY <1>1, PromptType DEF Faithful
<1>5. Prompt' = Prompt
  BY <1>2 DEF Prompt, Heard
<1> HIDE DEF req, up
<1>6. Known(client'.proto, history') /\ Converted(client'.proto, history') = c
  BY <1>1, <1>2
<1> HIDE DEF c
<1>7. Faithful(client', Converted(client'.proto, history'), turns', answers')
  BY <1>1, <1>2, <1>6
<1>8. Len(turns') <= MaxTurns /\ Len(turns') = Len(answers') + 1 /\ pc' # "client"
  BY <1>1, <1>2
<1>9. upstream' \in Seq(Message)
  <2>1. Prompt \o c \in Seq(Message)
    BY <1>4
  <2> QED
    BY <1>1, <1>2, <1>3, <2>1
<1>10. Asked' => upstream' = Prompt' \o Converted(client'.proto, history')
  BY <1>2, <1>3, <1>5, <1>6 DEF Asked
<1> QED
  BY <1>1, <1>2, <1>6, <1>7, <1>8, <1>9, <1>10 DEF IInv

LEMMA WriteResponseIInv ==
    ASSUME IInv, NEW m \in Answer, NEW resp, ResponseOf(resp, m), WriteResponse(resp)
    PROVE  IInv'
<1> DEFINE c == Converted(client.proto, history)  got == Received(resp)
<1>1. /\ client \in Clients /\ system \in Prompts /\ Known(client.proto, history)
      /\ Faithful(client, c, turns, answers) /\ upstream \in Seq(Message)
      /\ Len(turns) <= MaxTurns
      /\ Len(turns) = Len(answers) + (IF pc = "client" THEN 0 ELSE 1)
  BY DEF IInv
<1>2. /\ pc = "provider" /\ client' = client /\ system' = system /\ turns' = turns
      /\ history' = history \o got /\ upstream' = upstream
      /\ \/ got = <<>> /\ pc' = "over" /\ answers' = answers
         \/ /\ got # <<>> /\ pc' = "client"
            /\ answers' = Append(answers, IF resp.choices = <<>> THEN Blank("assistant")
                                                             ELSE resp.choices[1])
  BY DEF WriteResponse, said
<1>3. (IF resp.choices = <<>> THEN Blank("assistant") ELSE resp.choices[1]) = m
  BY DEF ResponseOf
<1>4. Len(turns) = Len(answers) + 1
  BY <1>1, <1>2
<1>5. answers \in Seq(Answer)
  BY <1>1 DEF Faithful
<1>6. CASE got = <<>>
  <2>1. history' = history
    <3>1. PICK H : history \in Seq(H)
      BY <1>1 DEF Known, Of
    <3> QED
      BY <1>2, <1>6, <3>1
  <2>2. pc' = "over" /\ answers' = answers
    BY <1>2, <1>6
  <2>3. Known(client'.proto, history')
    BY <1>1, <1>2, <2>1
  <2>4. Faithful(client', Converted(client'.proto, history'), turns', answers')
    BY <1>1, <1>2, <2>1, <2>2
  <2>5. Len(turns') <= MaxTurns /\ Len(turns') = Len(answers') + 1
    BY <1>1, <1>2, <1>4, <2>2
  <2> QED
    BY <1>1, <1>2, <2>2, <2>3, <2>4, <2>5 DEF IInv, Asked
<1>7. CASE got # <<>>
  <2> DEFINE r == Returned(client, m)
  <2>1. Known(client.proto, got) /\ Converted(client.proto, got) = <<r>>
    BY <1>1, <1>7, AnswerReturns
  <2> HIDE DEF got
  <2>2. pc' = "client" /\ answers' = Append(answers, m)
    BY <1>2, <1>3, <1>7
  <2>3. /\ Known(client.proto, history \o got)
        /\ Converted(client.proto, history \o got) = c \o <<r>>
    <3>1. /\ Known(client.proto, history \o got)
          /\ Converted(client.proto, history \o got) = c \o Converted(client.proto, got)
      BY <1>1, <2>1, ConvertedConcat
    <3> QED
      BY <2>1, <3>1
  <2> HIDE DEF c
  <2>4. Faithful(client, c \o <<r>>, turns, Append(answers, m))
    BY <1>1, <1>4, FaithfulAnswer
  <2> HIDE DEF r
  <2>5. Known(client'.proto, history')
    BY <1>2, <2>3
  <2>6. Faithful(client', Converted(client'.proto, history'), turns', answers')
    BY <1>2, <2>2, <2>3, <2>4
  <2>7. Len(answers') = Len(answers) + 1
    BY <1>5, <2>2, AppendParts
  <2>8. Len(turns') <= MaxTurns /\ Len(turns') = Len(answers') + 0
    <3>1. Len(answers') \in Nat
      BY <1>5, <2>7
    <3> QED
      BY <1>1, <1>2, <1>4, <2>7, <3>1
  <2> QED
    BY <1>1, <1>2, <2>2, <2>5, <2>6, <2>8 DEF IInv, Asked
<1> QED
  BY <1>6, <1>7

LEMMA StepIInv == IInv /\ [Next]_vars => IInv'
<1> SUFFICES ASSUME IInv, [Next]_vars PROVE IInv'
  OBVIOUS
<1>1. CASE \E t \in Turns : Say(t)
  BY <1>1, SayIInv
<1>2. CASE ParseRequest(TRUE, SystemField)
  BY <1>2, ParseRequestIInv
<1>3. CASE ParseRequest(FALSE, NoField)
  BY <1>3, ParseRequestIInv
<1>4. CASE ParseRequest(TRUE, OtherJSON)
  <2>1. OtherJSON.form = "raw"
    BY DEF OtherJSON
  <2> QED
    BY <1>4, <2>1, ParseRequestIInv
<1>5. CASE \E m \in Answers : WriteResponse([choices |-> <<m>>])
  <2>1. PICK m \in Answers : WriteResponse([choices |-> <<m>>])
    BY <1>5
  <2>2. m \in Answer
    BY AnswersAssumption
  <2>3. ResponseOf([choices |-> <<m>>], m)
    BY DEF ResponseOf
  <2> QED
    BY <2>1, <2>2, <2>3, WriteResponseIInv
<1>6. CASE WriteResponse([choices |-> <<>>])
  <2>1. ResponseOf([choices |-> <<>>], Blank("assistant"))
    BY DEF ResponseOf
  <2> QED
    BY <1>6, <2>1, BlankAnswers, WriteResponseIInv
<1>7. CASE UNCHANGED vars
  <2>1. /\ client' = client /\ system' = system /\ turns' = turns /\ history' = history
        /\ answers' = answers /\ upstream' = upstream /\ pc' = pc
    BY <1>7 DEF vars, said
  <2>2. Prompt' = Prompt
    BY <2>1 DEF Prompt, Heard
  <2>3. Known(client'.proto, history')
    BY <2>1 DEF IInv
  <2>4. Faithful(client', Converted(client'.proto, history'), turns', answers')
    BY <2>1 DEF IInv
  <2> QED
    BY <2>1, <2>2, <2>3, <2>4 DEF IInv, Asked
<1> QED
  BY <1>1, <1>2, <1>3, <1>4, <1>5, <1>6, <1>7 DEF Next

-----------------------------------------------------------------------------
(* The theorems.                                                           *)

\* At every step of a conversation the history, converted, is what was said
\* and answered so far, and what the provider was last sent (ParseRequest) is
\* the prompt and that.
THEOREM ConversationInvariant == Spec => []IInv
<1> QED
  BY InitIInv, StepIInv, PTL DEF Spec

\* What a message of lumin-client is, each position of a request has.
LEMMA MessageFields ==
    ASSUME NEW m \in Message
    PROVE  /\ DOMAIN m = DOMAIN Blank("user")
           /\ m.role \in {"system", "user", "assistant", "tool"}
           /\ m.tool # NoID <=> m.role = "tool"
BY DEF Message, Roles, Blank

LEMMA IInvTypeOK == IInv => TypeOK
<1> SUFFICES ASSUME IInv PROVE TypeOK
  OBVIOUS
<1>1. turns \in Seq(TurnOf) /\ answers \in Seq(Answer)
  BY DEF IInv, Faithful
<1>2. /\ Len(turns) <= MaxTurns /\ MaxTurns \in Nat
      /\ Len(turns) = Len(answers) \/ Len(turns) = Len(answers) + 1
  <2>1. Len(answers) \in Nat
    BY <1>1
  <2> QED
    BY <2>1, BoundAssumption DEF IInv
<1>3. Len(turns) \in 0 .. MaxTurns /\ Len(answers) \in 0 .. Len(turns)
  <2>1. Len(turns) \in Nat /\ Len(answers) \in Nat
    BY <1>1
  <2> QED
    BY <1>2, <2>1
<1>4. \A i \in DOMAIN upstream : upstream[i] \in Message
  BY DEF IInv
<1> QED
  BY <1>3, <1>4, MessageFields DEF IInv, TypeOK

\* The prompt in front changes neither answers nor turns.
LEMMA PromptAside ==
    ASSUME system \in Prompts, NEW c \in Seq(Message), NEW n \in Int
    PROVE  /\ Assistants(Prompt \o c) = Assistants(c)
           /\ Turn(Prompt \o c, n) = Turn(c, n)
<1> DEFINE p == Prompt
<1>1. p \in Seq(Message) /\ \A i \in 1 .. Len(p) : p[i].role = "system"
  <2>1. /\ p \in Seq(Message)
        /\ p = <<>> \/ (p = <<p[1]>> /\ p[1].role = "system")
    BY PromptType
  <2> HIDE DEF p
  <2>2. Len(p) = 0 \/ (Len(p) = 1 /\ p[1].role = "system")
    BY <2>1
  <2> QED
    BY <2>1, <2>2
<1> HIDE DEF p
<1>2. \A i \in 1 .. Len(p) : p[i].role # "assistant" /\ p[i].role \in {"assistant", "system"}
  BY <1>1
<1>3. Assistants(p) = <<>>
  BY <1>1, <1>2, OfRoleNone DEF Assistants
<1>4. Assistants(c) \in Seq(Message) /\ Turn(c, n) \in Seq(Message)
  BY OfRoleType, TurnType DEF Assistants
<1>5. Assistants(p \o c) = Assistants(c)
  <2>1. Assistants(p \o c) = Assistants(p) \o Assistants(c)
    BY <1>1, OfRoleConcat DEF Assistants
  <2> QED
    BY <1>3, <1>4, <2>1
<1>6. Turn(p \o c, n) = Turn(c, n)
  <2>1. Turn(p \o c, n) = Turn(p, n) \o Turn(c, n - Len(Assistants(p)))
    BY <1>1, TurnConcat
  <2>2. Turn(p, n) = <<>>
    BY <1>1, <1>2, TurnOfOthers
  <2>3. n - Len(Assistants(p)) = n
    <3>1. Len(Assistants(p)) = 0
      BY <1>3
    <3> QED
      BY <3>1
  <2> QED
    BY <1>4, <2>1, <2>2, <2>3
<1> QED
  BY <1>5, <1>6 DEF p

LEMMA IInvAnswersKept == IInv => AnswersKept
<1> SUFFICES ASSUME IInv, Asked PROVE SameAnswers(Assistants(upstream))
  BY DEF AnswersKept
<1> DEFINE c == Converted(client.proto, history)
<1>1. /\ system \in Prompts /\ upstream = Prompt \o c /\ c \in Seq(Message)
      /\ SeenAs(client, Assistants(c), answers)
  BY DEF IInv, Faithful
<1> HIDE DEF c
<1>2. Assistants(upstream) = Assistants(c)
  BY <1>1, PromptAside
<1>3. SeenAs(client, Assistants(upstream), answers)
  BY <1>1, <1>2
<1> QED
  BY <1>3, SeenIs

LEMMA IInvTurns ==
    ASSUME IInv, Asked, NEW n \in DOMAIN turns
    PROVE  /\ SameTurn(Turn(upstream, n), turns[n], Due(n))
           /\ InPlace(Turn(upstream, n), turns[n])
<1> DEFINE c == Converted(client.proto, history)
<1>1. /\ system \in Prompts /\ upstream = Prompt \o c /\ c \in Seq(Message)
      /\ turns \in Seq(TurnOf) /\ TurnsIn(client, c, turns, answers)
  BY DEF IInv, Faithful
<1> HIDE DEF c
<1>2. n \in 1 .. Len(turns) /\ n \in Int
  BY <1>1
<1>3. Turn(upstream, n) = Turn(c, n)
  BY <1>1, <1>2, PromptAside
<1>4. Kept(client, Turn(c, n), turns[n], DueOf(answers, n))
  BY <1>1, <1>2 DEF TurnsIn
<1>5. Kept(client, Turn(upstream, n), turns[n], Due(n))
  BY <1>3, <1>4, DueIs
<1> QED
  BY <1>5, KeptIs

LEMMA IInvSystemFirst == IInv => SystemFirst
<1> SUFFICES ASSUME IInv, Asked, NEW i \in DOMAIN upstream
             PROVE  /\ upstream[i].role = "system" <=> (i = 1 /\ Heard(system, TRUE) # <<>>)
                    /\ upstream[i].role = "system" => upstream[i].content = Heard(system, TRUE)
  BY DEF SystemFirst
<1> DEFINE c == Converted(client.proto, history)  p == Prompt  text == Heard(system, TRUE)
<1>1. /\ system \in Prompts /\ upstream = p \o c /\ c \in Seq(Message)
      /\ \A k \in 1 .. Len(c) : c[k].role # "system"
  BY DEF IInv, Faithful
<1>2. /\ p \in Seq(Message)
      /\ p = <<>> \/ (p = <<p[1]>> /\ p[1].role = "system")
      /\ p = <<>> <=> text = <<>>
      /\ p # <<>> => p[1].content = text
  BY <1>1, PromptType
<1> HIDE DEF c, p, text
<1>3. CASE p = <<>>
  <2>1. upstream = c
    BY <1>1, <1>3
  <2>2. upstream[i].role # "system"
    <3>1. i \in 1 .. Len(c)
      BY <1>1, <2>1
    <3> QED
      BY <1>1, <2>1, <3>1
  <2>3. text = <<>>
    BY <1>2, <1>3
  <2> QED
    BY <2>2, <2>3 DEF text
<1>4. CASE p # <<>>
  <2>1. Len(p) = 1 /\ p[1].role = "system"
    BY <1>2, <1>4
  <2>2. /\ p \o c \in Seq(Message) /\ Len(p \o c) = Len(p) + Len(c) /\ Len(c) \in Nat
        /\ \A k \in 1 .. Len(p) : (p \o c)[k] = p[k]
        /\ \A k \in 1 .. Len(c) : (p \o c)[Len(p) + k] = c[k]
    BY <1>1, <1>2, ConcatParts
  <2>3. i \in 1 .. 1 + Len(c)
    BY <1>1, <2>1, <2>2
  <2>4. CASE i = 1
    <3>1. upstream[i] = p[1]
      BY <1>1, <2>1, <2>2, <2>4
    <3> QED
      BY <1>2, <1>4, <2>1, <2>4, <3>1 DEF text
  <2>5. CASE i # 1
    <3>1. i - 1 \in 1 .. Len(c) /\ Len(p) + (i - 1) = i
      BY <2>1, <2>2, <2>3, <2>5
    <3>2. (p \o c)[Len(p) + (i - 1)] = c[i - 1]
      BY <2>2, <3>1
    <3>3. upstream[i].role # "system"
      BY <1>1, <3>1, <3>2
    <3> QED
      BY <2>5, <3>3
  <2> QED
    BY <2>4, <2>5
<1> QED
  BY <1>3, <1>4

\* Types: upstream holds messages of lumin-client, whatever the client, its
\* prompt, its turns and the answers are.
THEOREM ConversationTypes == Spec => []TypeOK
<1> QED
  BY ConversationInvariant, IInvTypeOK, PTL

\* A provider that is asked again sees its own answers as it gave them, in
\* order, after WriteResponse and ParseRequest: text, calls and arguments in
\* both protocols, whole or streamed; the thinking in the messages API only.
THEOREM AnswersComeBack == Spec => []AnswersKept
<1> QED
  BY ConversationInvariant, IInvAnswersKept, PTL

\* Every turn reaches the provider once and in order, in this and in all later
\* requests: its words, a result under the ID of each pending call, the image.
THEOREM TurnsComeThrough == Spec => []TurnsKept
<1>1. IInv => TurnsKept
  BY IInvTurns DEF TurnsKept
<1> QED
  BY <1>1, ConversationInvariant, PTL

\* The results of a turn stand together where the calls they answer end, but
\* for the text the Anthropic adapter moves before them.
THEOREM ResultsStayTogether == Spec => []ResultsNext
<1>1. IInv => ResultsNext
  BY IInvTurns DEF ResultsNext
<1> QED
  BY <1>1, ConversationInvariant, PTL

\* However long the history, the system prompt is the first message and the
\* only one of its kind, with its parts in order.
THEOREM PromptStaysFirst == Spec => []SystemFirst
<1> QED
  BY ConversationInvariant, IInvSystemFirst, PTL
=============================================================================
