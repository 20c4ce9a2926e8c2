---------------------------- MODULE AnthropicPipe -----------------------------
(***************************************************************************)
(* The body that AnthropicStream writes is read by ParseSSEStream, as when *)
(* the upstream of one gateway is another: a goroutine scans the lines and *)
(* sends what they yield through a bounded channel to a reader, who may    *)
(* stop reading.  The connection may break, and a line may be too long for *)
(* bufio.Scanner.                                                          *)
(*                                                                         *)
(* Line 3i - 2 of the body is the event line of sse[i], 3i - 1 its data    *)
(* line, 3i the empty line (writeSSEEvent).                                *)
(***************************************************************************)
EXTENDS AnthropicStream

CONSTANTS Capacity,   \* places of the channel; 64 in the code
          Window      \* bound: events the transport holds

ASSUME PipeAssumption == Capacity \in Nat \ {0} /\ Window \in Nat \ {0}

VARIABLES
    goroutine,      \* of ParseSSEStream: "scan", "send", "done"
    read,           \* lines scanned
    currentEvent,
    item,           \* what the goroutine sends, or <<>>
    ch, closed,     \* the channel
    received,       \* what the reader has taken from it
    reader,         \* "reading", "stopped", "ended" (it saw the close)
    broken          \* the rest of the body never comes

scanner  == <<goroutine, read, currentEvent, item, ch, closed>>
others   == <<received, reader, broken>>
pipeVars == <<vars, scanner, others>>

PipeInit ==
    /\ Init
    /\ goroutine = "scan" /\ read = 0 /\ currentEvent = "" /\ item = <<>>
    /\ ch = <<>> /\ closed = FALSE
    /\ received = <<>> /\ reader = "reading" /\ broken = FALSE

-----------------------------------------------------------------------------
(* The goroutine of ParseSSEStream.                                        *)

Written == 3 * Len(sse)
LineEvent == sse[(read \div 3) + 1]

\* The next line, of the given place in its event.
Scan(place) ==
    /\ goroutine = "scan" /\ ~broken /\ read < Written /\ read % 3 = place
    /\ read' = read + 1
    /\ UNCHANGED <<vars, others, ch, closed>>

ScanEvent ==
    /\ Scan(0) /\ currentEvent' = LineEvent.type
    /\ UNCHANGED <<goroutine, item>>

\* parseSSEEventToResponse knows the event by the line before.
ScanData ==
    /\ Scan(1)
    /\ item' = parseSSEEventToResponse([LineEvent EXCEPT !.type = currentEvent])
    /\ goroutine' = IF item' = <<>> THEN "scan" ELSE "send"
    /\ UNCHANGED currentEvent

ScanEmpty ==
    /\ Scan(2) /\ currentEvent' = ""
    /\ UNCHANGED <<goroutine, item>>

\* Mutant of ScanEnds: the channel is not closed.
ScanEndsNoClose ==
    /\ goroutine = "scan"
    /\ \/ broken
       \/ pc = "done" /\ read = Written
    /\ goroutine' = "done"
    /\ UNCHANGED <<vars, others, read, currentEvent, item, ch, closed>>

\* Scan returns FALSE: end of the body, a broken connection, or a line of
\* more than 64 KB, and nobody asks scanner.Err.  The deferred close follows.
ScanEnds ==
    /\ goroutine = "scan"
    /\ \/ broken
       \/ pc = "done" /\ read = Written
    /\ goroutine' = "done" /\ closed' = TRUE
    /\ UNCHANGED <<vars, others, read, currentEvent, item, ch>>

TooLong ==
    /\ goroutine = "scan" /\ ~broken /\ read < Written /\ read % 3 = 1
    /\ LineEvent.type = "content_block_delta"
    /\ broken' = TRUE
    /\ UNCHANGED <<vars, scanner, received, reader>>

\* Mutant of Send: a full channel does not block, the response is dropped.
SendDrops ==
    /\ goroutine = "send"
    /\ ch' = IF Len(ch) < Capacity THEN ch \o item ELSE ch
    /\ item' = <<>> /\ goroutine' = "scan"
    /\ UNCHANGED <<vars, others, read, currentEvent, closed>>

\* Mutant of Send: the channel has no bound.
SendUnbounded ==
    /\ goroutine = "send"
    /\ ch' = ch \o item
    /\ item' = <<>> /\ goroutine' = "scan"
    /\ UNCHANGED <<vars, others, read, currentEvent, closed>>

Send ==
    /\ goroutine = "send" /\ Len(ch) < Capacity
    /\ ch' = ch \o item
    /\ item' = <<>> /\ goroutine' = "scan"
    /\ UNCHANGED <<vars, others, read, currentEvent, closed>>

-----------------------------------------------------------------------------
(* The reader of the channel, and the connection.                          *)

Receive ==
    /\ reader = "reading" /\ ch # <<>>
    /\ received' = Append(received, Head(ch)) /\ ch' = Tail(ch)
    /\ UNCHANGED <<vars, goroutine, read, currentEvent, item, closed, reader, broken>>

ReceiveClosed ==
    /\ reader = "reading" /\ ch = <<>> /\ closed
    /\ reader' = "ended"
    /\ UNCHANGED <<vars, scanner, received, broken>>

ReaderStops ==
    /\ reader = "reading"
    /\ reader' = "stopped"
    /\ UNCHANGED <<vars, scanner, received, broken>>

\* Breaks between two lines: of a line that comes in part no event is made.
Break ==
    /\ ~broken /\ goroutine # "done"
    /\ broken' = TRUE
    /\ UNCHANGED <<vars, scanner, received, reader>>

\* The writer waits while the transport is full; what it still writes when
\* nobody listens is left out.
Write ==
    /\ Next
    /\ Written - read < 3 * Window /\ ~broken /\ goroutine # "done"
    /\ UNCHANGED <<scanner, others>>

Reader    == Receive \/ ReceiveClosed
Goroutine == ScanEvent \/ ScanData \/ ScanEmpty \/ ScanEnds \/ Send

\* The channel is full and nobody will read it: the goroutine stays.
Stuck == goroutine = "send" /\ Len(ch) = Capacity /\ reader = "stopped"

Over ==
    /\ Stuck \/ (goroutine = "done" /\ reader # "reading")
    /\ UNCHANGED pipeVars

PipeNext == Write \/ Goroutine \/ Reader \/ TooLong \/ ReaderStops \/ Break \/ Over

PipeSpec == PipeInit /\ [][PipeNext]_pipeVars

\* The writer's stream ends by itself, and goroutines run.
PipeFairSpec ==
    PipeSpec /\ WF_pipeVars(Write) /\ WF_pipeVars(Goroutine) /\ WF_pipeVars(Reader)

-----------------------------------------------------------------------------
(* Properties.                                                             *)

\* At most Capacity responses wait, and an event yields at most one.
PipeShape ==
    /\ goroutine \in {"scan", "send", "done"} /\ closed \in BOOLEAN
    /\ read \in 0 .. Written
    /\ Len(ch) \in 0 .. Capacity
    /\ Len(item) = (IF goroutine = "send" THEN 1 ELSE 0)
    /\ reader \in {"reading", "stopped", "ended"}
    /\ broken \in BOOLEAN

\* Types, of the writer and of the pipe.
PipeTypeOK == TypeOK /\ PipeShape

\* Nothing is lost, doubled or reordered between the body and the reader,
\* however full the channel is and whoever is slower: what was received, waits
\* or is about to be sent is what the events read so far yield, each under its
\* own event line (ParseSSEStream).
NothingLost ==
    received \o ch \o item =
        FlattenSeq([i \in 1 .. (read + 1) \div 3 |-> parseSSEEventToResponse(sse[i])])

\* Done means the end of the body, not of the answer: whoever has a Done has
\* all that was written and nothing after it, but message_stop also ends a
\* failed or cut-off stream (adapter.go:170-177) and the error event yields
\* nothing, so only the finish reason tells whether the provider finished.  A
\* channel that closed without a Done lost the rest to a broken connection or
\* an over-long line, which nothing else tells.
DoneEndsBody ==
    /\ \A i \in DOMAIN received :
          received[i].kind = "done" =>
             /\ received = Parsed
             /\ (\E j \in DOMAIN received : received[j].kind = "finish")
                   <=> last = "finish"
    /\ reader = "ended" =>
          broken \/ (received # <<>> /\ Last(received).kind = "done")

\* The pipe comes to rest, whatever happens to the connection: a reader that
\* keeps reading sees the channel closed, and the goroutine outlives its
\* stream only if the reader stopped and left it a full channel.
PipeEnds == <>(reader # "reading" /\ (goroutine = "done" \/ Stuck))
=============================================================================
