----------------------------- MODULE ChatMessages -----------------------------
(***************************************************************************)
(* What both protocol adapters translate to and from: the messages of      *)
(* lumin-client (providers.Message) and the content of a JSON field that   *)
(* may be a string or a list of parts.                                     *)
(*                                                                         *)
(* A text is a sequence of words; joining texts is concatenation, and the  *)
(* empty string is the empty sequence.                                     *)
(***************************************************************************)
EXTENDS Naturals, Sequences, SequencesExt

CONSTANTS NoID,      \* the empty ID
          NotJSON,   \* a word no JSON text contains
          RawJSON    \* the word a field becomes whose JSON is taken as text

\* providers.Message; images are the ContentParts AddImageURL appends.
Blank(role) ==
    [role |-> role, content |-> <<>>, reasoning |-> <<>>, calls |-> <<>>,
     tool |-> NoID, images |-> <<>>]

\* A field read as json.RawMessage: absent, a string, a list, or anything else.
NoField      == [form |-> "none",   text |-> <<>>, parts |-> <<>>]
String(text) == [form |-> "string", text |-> text, parts |-> <<>>]
List(parts)  == [form |-> "list",   text |-> <<>>, parts |-> parts]
OtherJSON    == [form |-> "raw",    text |-> <<>>, parts |-> <<>>]

\* What a field that is no list is as text: the string, or its raw JSON.
AsText(field) == IF field.form = "raw" THEN <<RawJSON>> ELSE field.text

OfType(parts, type) ==
    FlattenSeq([i \in DOMAIN parts |->
        IF parts[i].type = type THEN <<parts[i]>> ELSE <<>>])

\* strings.Join over the texts of the parts of one type; empty texts add none.
JoinedText(parts, type) ==
    FlattenSeq([i \in DOMAIN parts |->
        IF parts[i].type = type THEN parts[i].text ELSE <<>>])

-----------------------------------------------------------------------------
(* Reading a list of messages.                                             *)

OfRole(msgs, role) ==
    FlattenSeq([i \in DOMAIN msgs |->
        IF msgs[i].role = role THEN <<msgs[i]>> ELSE <<>>])

Assistants(msgs) == OfRole(msgs, "assistant")

\* The turn before the n-th answer: the messages that n - 1 answers precede.
Turn(msgs, n) ==
    LET Given(i) == Len(Assistants(SubSeq(msgs, 1, i)))
    IN  FlattenSeq([i \in DOMAIN msgs |->
            IF Given(i) = n - 1 /\ msgs[i].role \notin {"assistant", "system"}
            THEN <<msgs[i]>> ELSE <<>>])
=============================================================================
