---------------------------- MODULE DefaultProxy ----------------------------
(***************************************************************************)
(* One HTTP request through the gateway: ProxyHandler.ServeHTTP            *)
(* (router/router.go), DefaultProxy.Handle / HandleStream and hookedStream *)
(* (proxy/default_proxy.go), the writing half of a protocol adapter and    *)
(* the RecoveryFilter around them.  Each request runs in the goroutine     *)
(* net/http gives it; what the requests share is the account pool.         *)
(*                                                                         *)
(* Outside this module, modelled by what the code calls: the balancer of   *)
(* lumin-acpool (Pick takes a slot of an account, Report* gives one back,  *)
(* either may return an error), the provider (answers, answers with an     *)
(* error inside the response, fails, or streams chunks), the plugins       *)
(* (succeed, reject, panic).  Bodies, tokens and model names are left out. *)
(***************************************************************************)
EXTENDS Integers, FiniteSets, Errs

CONSTANTS Requests,    \* HTTP requests, one goroutine each
          Accounts,    \* accounts of the pool
          NoAccount,   \* "nothing picked yet"
          Limit,       \* concurrency slots per account (fixed_limit)
          HookErrors   \* errors a BeforeRequest hook rejects with

ASSUME RequestsAssumption == IsFiniteSet(Requests)
ASSUME NoAccountAssumption == NoAccount \notin Accounts
ASSUME LimitAssumption == Limit \in Nat \ {0}
ASSUME HookErrorsAssumption ==
    HookErrors \subseteq (Codes \cup {PlainError}) \ {CodeOK}

VARIABLES
    pc,         \* pc[r]: what r's goroutine does next
    stream,     \* stream[r]: the parsed Request.Stream
    acct,       \* acct[r]: pickResult.Account.ID
    resp,       \* resp[r]: what the provider answered
    chunk,      \* chunk[r]: the chunk being handled by the Each callback
    reported,   \* reported[r]: hookedStream.reported
    cancelled,  \* cancelled[r]: the request context is done
    status,     \* status[r]: status code sent to the client, 0 before
    occupied    \* occupied[a]: slots the OccupancyController counts for a

\* History of the calls the gateway makes; no guard reads them.
VARIABLES
    holding,    \* holding[r]: the slot r picked has not been given back
    lost,       \* lost[r]: the Report of r returned an error, which is dropped
    reports,    \* reports[r]: Report* calls made for r
    verdict,    \* verdict[r]: the last one, "success" or "failure"
    after,      \* after[r]: RunAfterResponse calls made for r
    exit        \* exit[r]: the way r's handler was left

pool    == <<occupied, holding, lost, reports, verdict>>
request == <<stream, acct, resp, chunk, reported>>
vars    == <<pc, request, cancelled, status, pool, after, exit>>

Chunks == [err : BOOLEAN, done : BOOLEAN]
NoChunk == [err |-> FALSE, done |-> FALSE]

TypeOK ==
    /\ pc \in [Requests -> {"idle", "parse", "before", "pick", "provider",
                            "invoke", "report", "after", "write", "open",
                            "each", "hook", "sreport", "safter", "fn",
                            "tail", "done"}]
    /\ stream \in [Requests -> BOOLEAN]
    /\ acct \in [Requests -> Accounts \cup {NoAccount}]
    /\ resp \in [Requests -> {"none", "ok", "error", "failed"}]
    /\ chunk \in [Requests -> Chunks]
    /\ reported \in [Requests -> BOOLEAN]
    /\ cancelled \in [Requests -> BOOLEAN]
    /\ status \in [Requests -> Statuses \cup {0}]
    /\ occupied \in [Accounts -> 0 .. Limit]
    /\ holding \in [Requests -> BOOLEAN]
    /\ lost \in [Requests -> BOOLEAN]
    /\ reports \in [Requests -> Nat]
    /\ verdict \in [Requests -> {"none", "success", "failure"}]
    /\ after \in [Requests -> Nat]
    /\ exit \in [Requests -> {"none", "parse", "hook", "pick", "provider",
                              "upstream", "written", "noflusher",
                              "streamed", "panic"}]

Init ==
    /\ pc = [r \in Requests |-> "idle"]
    /\ stream = [r \in Requests |-> FALSE]
    /\ acct = [r \in Requests |-> NoAccount]
    /\ resp = [r \in Requests |-> "none"]
    /\ chunk = [r \in Requests |-> NoChunk]
    /\ reported = [r \in Requests |-> FALSE]
    /\ cancelled = [r \in Requests |-> FALSE]
    /\ status = [r \in Requests |-> 0]
    /\ occupied = [a \in Accounts |-> 0]
    /\ holding = [r \in Requests |-> FALSE]
    /\ lost = [r \in Requests |-> FALSE]
    /\ reports = [r \in Requests |-> 0]
    /\ verdict = [r \in Requests |-> "none"]
    /\ after = [r \in Requests |-> 0]
    /\ exit = [r \in Requests |-> "none"]

-----------------------------------------------------------------------------
(* Steps common to the actions.                                            *)

At(r, from, to) == pc[r] = from /\ pc' = [pc EXCEPT ![r] = to]

\* The goroutine goes on to its next call and changes nothing else.
Move(r, from, to) ==
    /\ At(r, from, to)
    /\ UNCHANGED <<request, cancelled, status, pool, after, exit>>

\* The handler returns by way e, having answered code.
Leave(r, from, e, code) ==
    /\ At(r, from, "done")
    /\ exit' = [exit EXCEPT ![r] = e]
    /\ status' = [status EXCEPT ![r] = code]
    /\ UNCHANGED <<request, cancelled, pool, after>>

\* OccupancyController.Release: a counter, which does not know who held what.
Released(a) ==
    [occupied EXCEPT ![a] = IF occupied[a] > 0 THEN occupied[a] - 1 ELSE 0]

\* balancer.ReportSuccess / ReportFailure; the error it returns is assigned
\* to _, and a failed report leaves the slot taken.
Report(r, v) ==
    /\ reports' = [reports EXCEPT ![r] = @ + 1]
    /\ verdict' = [verdict EXCEPT ![r] = v]
    /\ \/ /\ occupied' = Released(acct[r])
          /\ holding' = [holding EXCEPT ![r] = FALSE]
          /\ UNCHANGED lost
       \/ /\ lost' = [lost EXCEPT ![r] = TRUE]
          /\ UNCHANGED <<occupied, holding>>

-----------------------------------------------------------------------------
(* ServeHTTP and prepare, common to both kinds of request.                 *)

Arrive(r) == Move(r, "idle", "parse")

ParseRequestFails(r) ==
    Leave(r, "parse", "parse", HTTPStatus(CodeInvalidRequest))

ParseRequest(r) ==
    /\ At(r, "parse", "before")
    /\ \E s \in BOOLEAN : stream' = [stream EXCEPT ![r] = s]
    /\ UNCHANGED <<acct, resp, chunk, reported, cancelled, status, pool,
                   after, exit>>

RunBeforeRequest(r) == Move(r, "before", "pick")

RunBeforeRequestRejects(r) ==
    \E e \in HookErrors : Leave(r, "before", "hook", ErrorStatus(e))

\* Mutant of Pick: the capacity of the account is not looked at.
PickUnbounded(r) ==
    /\ At(r, "pick", "provider")
    /\ \E a \in Accounts :
          /\ acct' = [acct EXCEPT ![r] = a]
          /\ occupied' = [occupied EXCEPT ![a] = @ + 1]
    /\ holding' = [holding EXCEPT ![r] = TRUE]
    /\ UNCHANGED <<stream, resp, chunk, reported, cancelled, status,
                   lost, reports, verdict, after, exit>>

Pick(r) ==
    /\ At(r, "pick", "provider")
    /\ \E a \in Accounts :
          /\ occupied[a] < Limit
          /\ acct' = [acct EXCEPT ![r] = a]
          /\ occupied' = [occupied EXCEPT ![a] = @ + 1]
    /\ holding' = [holding EXCEPT ![r] = TRUE]
    /\ UNCHANGED <<stream, resp, chunk, reported, cancelled, status,
                   lost, reports, verdict, after, exit>>

PickFails(r) == Leave(r, "pick", "pick", HTTPStatus(CodeNoAvailableAccount))

GetProvider(r) == Move(r, "provider", "invoke")

\* prepare returns the error without a Report: the slot stays taken.
GetProviderFails(r) ==
    Leave(r, "provider", "provider", HTTPStatus(CodeInternal))

-----------------------------------------------------------------------------
(* Calling the provider, and the report that follows.                      *)

GenerateContent(r) ==
    /\ ~stream[r]
    /\ At(r, "invoke", "report")
    /\ \E o \in {"ok", "error"} : resp' = [resp EXCEPT ![r] = o]
    /\ UNCHANGED <<stream, acct, chunk, reported, cancelled, status, pool,
                   after, exit>>

GenerateContentStream(r) ==
    /\ stream[r]
    /\ At(r, "invoke", "open")
    /\ resp' = [resp EXCEPT ![r] = "ok"]
    /\ UNCHANGED <<stream, acct, chunk, reported, cancelled, status, pool,
                   after, exit>>

\* Either call returns an error: upstream failure, or the context is done.
GenerateFails(r) ==
    /\ At(r, "invoke", "report")
    /\ resp' = [resp EXCEPT ![r] = "failed"]
    /\ UNCHANGED <<stream, acct, chunk, reported, cancelled, status, pool,
                   after, exit>>

\* Mutant of ReportError: the error is returned before it is reported.
ReportErrorForgotten(r) ==
    /\ resp[r] = "failed"
    /\ Leave(r, "report", "upstream", HTTPStatus(CodeUpstreamError))

ReportError(r) ==
    /\ resp[r] = "failed"
    /\ At(r, "report", "done")
    /\ Report(r, "failure")
    /\ status' = [status EXCEPT ![r] = HTTPStatus(CodeUpstreamError)]
    /\ exit' = [exit EXCEPT ![r] = "upstream"]
    /\ UNCHANGED <<request, cancelled, after>>

\* Mutant of ReportResponse: only the error return counts as a failure.
ReportResponseSuccess(r) ==
    /\ resp[r] # "failed"
    /\ At(r, "report", "after")
    /\ Report(r, "success")
    /\ UNCHANGED <<request, cancelled, status, after, exit>>

\* Mutant of ReportResponse: the report is left to the caller.
ReportResponseSkipped(r) ==
    /\ resp[r] # "failed"
    /\ At(r, "report", "after")
    /\ UNCHANGED <<request, cancelled, status, pool, after, exit>>

ReportResponse(r) ==
    /\ resp[r] # "failed"
    /\ At(r, "report", "after")
    /\ Report(r, IF resp[r] = "error" THEN "failure" ELSE "success")
    /\ UNCHANGED <<request, cancelled, status, after, exit>>

RunAfterResponse(r) ==
    /\ At(r, "after", "write")
    /\ after' = [after EXCEPT ![r] = @ + 1]
    /\ UNCHANGED <<request, cancelled, status, pool, exit>>

WriteResponse(r) ==
    Leave(r, "write", "written", IF resp[r] = "error" THEN 400 ELSE 200)

-----------------------------------------------------------------------------
(* A stream: WriteStreamResponse around hookedStream.Each.                 *)

\* The writer cannot flush: the error is only logged, the stream is never
\* read, and net/http answers 200 with an empty body.
WriteStreamResponseUnsupported(r) == Leave(r, "open", "noflusher", 200)

WriteStreamResponse(r) ==
    /\ At(r, "open", "each")
    /\ status' = [status EXCEPT ![r] = 200]
    /\ UNCHANGED <<request, cancelled, pool, after, exit>>

\* inner.Each hands the next chunk to the callback.
Each(r) ==
    /\ At(r, "each", "hook")
    /\ \E c \in Chunks : chunk' = [chunk EXCEPT ![r] = c]
    /\ UNCHANGED <<stream, acct, resp, reported, cancelled, status, pool,
                   after, exit>>

\* Mutant of EachReturns: the error of a done context is taken for an empty
\* queue, and the queue is read again.
EachRetries(r) == Move(r, "each", IF cancelled[r] THEN "each" ELSE "tail")

\* inner.Each returns: the upstream closed the queue, or the context is done.
EachReturns(r) == Move(r, "each", "tail")

\* Mutant of ProcessChunk: every Done chunk reports, not only the first.
ProcessChunkUnguarded(r) ==
    Move(r, "hook", IF chunk[r].done THEN "sreport" ELSE "fn")

ProcessChunk(r) ==
    Move(r, "hook", IF chunk[r].done /\ ~reported[r] THEN "sreport" ELSE "fn")

\* doReport, which is only ever called with a nil error.
DoReport(r) ==
    /\ At(r, "sreport", "safter")
    /\ reported' = [reported EXCEPT ![r] = TRUE]
    /\ Report(r, "success")
    /\ UNCHANGED <<stream, acct, resp, chunk, cancelled, status, after, exit>>

DoReportAfterResponse(r) ==
    /\ At(r, "safter", "fn")
    /\ after' = [after EXCEPT ![r] = @ + 1]
    /\ UNCHANGED <<request, cancelled, status, pool, exit>>

\* The adapter's callback writes the chunk (or its error) and returns nil: the
\* chunk types always marshal, and a failed write is not looked at.
WriteChunk(r) ==
    /\ At(r, "fn", "each")
    /\ chunk' = [chunk EXCEPT ![r] = NoChunk]
    /\ UNCHANGED <<stream, acct, resp, reported, cancelled, status, pool,
                   after, exit>>

\* The closing mark: [DONE] or message_stop, whatever ended the stream.
WriteStreamEnd(r) == Leave(r, "tail", "streamed", status[r])

-----------------------------------------------------------------------------
(* What happens to a request from outside.                                 *)

\* The client goes away, or the server's WriteTimeout ends the context.
Cancel(r) ==
    /\ pc[r] \notin {"idle", "done"}
    /\ ~cancelled[r]
    /\ cancelled' = [cancelled EXCEPT ![r] = TRUE]
    /\ UNCHANGED <<pc, request, status, pool, after, exit>>

\* A plugin or the provider panics (a nil response does too); RecoveryFilter
\* answers 500, which net/http ignores when the headers are already out.
Panic(r) ==
    /\ pc[r] \in {"before", "invoke", "after", "hook", "safter"}
    /\ Leave(r, pc[r], "panic", IF status[r] = 0 THEN 500 ELSE status[r])

\* The steps r's goroutine takes by itself.
Local(r) ==
    \/ ParseRequest(r)      \/ ParseRequestFails(r)
    \/ RunBeforeRequest(r)  \/ RunBeforeRequestRejects(r)
    \/ Pick(r)              \/ PickFails(r)
    \/ GetProvider(r)       \/ GetProviderFails(r)
    \/ ReportError(r)       \/ ReportResponse(r)
    \/ RunAfterResponse(r)  \/ WriteResponse(r)
    \/ WriteStreamResponse(r) \/ WriteStreamResponseUnsupported(r)
    \/ ProcessChunk(r)      \/ DoReport(r)
    \/ DoReportAfterResponse(r) \/ WriteChunk(r)
    \/ WriteStreamEnd(r)

\* The steps that wait for the provider.
Upstream(r) ==
    \/ GenerateContent(r) \/ GenerateContentStream(r) \/ GenerateFails(r)
    \/ Each(r) \/ EachReturns(r)

AllDone ==
    /\ \A r \in Requests : pc[r] = "done"
    /\ UNCHANGED vars

Next ==
    \/ \E r \in Requests :
          Arrive(r) \/ Local(r) \/ Upstream(r) \/ Cancel(r) \/ Panic(r)
    \/ AllDone

Spec == Init /\ [][Next]_vars

(***************************************************************************)
(* Fairness.  A goroutine that can run does run.  The server gives every   *)
(* request context a deadline (WriteTimeout), so Cancel happens.  Of the   *)
(* provider only this is assumed: once the context is done a pending call  *)
(* returns with an error, and Each, asked again and again, returns.        *)
(***************************************************************************)
Fairness ==
    \A r \in Requests :
        /\ WF_vars(Local(r))
        /\ WF_vars(Cancel(r))
        /\ WF_vars(cancelled[r] /\ GenerateFails(r))
        /\ SF_vars(cancelled[r] /\ EachReturns(r))

FairSpec == Spec /\ Fairness

-----------------------------------------------------------------------------
(* Properties.                                                             *)

\* Requests that hold a slot of account a.
Holders(a) == {r \in Requests : acct[r] = a /\ holding[r]}

\* The pool's counter of an account is the number of requests that picked it
\* and have not given it back: no exit of the handler, no second Done chunk
\* and no panic ever releases a slot another request holds.
OccupancyExact ==
    \A a \in Accounts : occupied[a] = Cardinality(Holders(a))

\* Requests with a call or a stream open at account a and not yet reported.
InFlight(a) ==
    {r \in Requests :
        /\ acct[r] = a
        /\ reports[r] = 0
        /\ pc[r] \in {"invoke", "report", "open", "each", "hook", "sreport",
                      "fn", "tail"}}

\* An account never serves more requests at once than its limit, whatever
\* the reports of other requests do to its counter.
UpstreamWithinLimit ==
    \A a \in Accounts : Cardinality(InFlight(a)) <= Limit

\* What the pool is told about an account is what the client is told: a
\* non-streaming request is reported a success exactly when it is answered
\* 200, and a failure exactly when the upstream is blamed (400 passed on from
\* the response, 502).  A panic may come between the two.
VerdictMatchesClient ==
    \A r \in Requests :
        (pc[r] = "done" /\ ~stream[r] /\ exit[r] # "panic") =>
            /\ verdict[r] = "success" <=> status[r] = 200
            /\ verdict[r] = "failure" <=>
                  exit[r] = "upstream" \/ resp[r] = "error"

\* AfterResponse hooks (billing, audit) run at most once per request and only
\* for a request the pool has been told about; a request that was answered
\* from a response has run them.
AfterFollowsReport ==
    \A r \in Requests :
        /\ after[r] <= reports[r]
        /\ reports[r] <= 1
        /\ exit[r] = "written" => after[r] = 1
        /\ exit[r] = "streamed" => after[r] = reports[r]

\* The only ways a finished request keeps its slot: the report failed and its
\* error was dropped, the provider is not registered, the writer cannot
\* flush, a panic, or a stream that ended without a Done chunk.
LeakExits ==
    \A r \in Requests :
        (pc[r] = "done" /\ holding[r]) =>
            \/ lost[r]
            \/ exit[r] \in {"provider", "noflusher", "panic"}
            \/ exit[r] = "streamed" /\ ~reported[r]

\* The gateway implements the promise of AccountLease: a request takes one
\* slot at most, gives it back once at most, and the limit is kept.
Lease == INSTANCE AccountLease WITH
            holder <- [r \in Requests |->
                          IF holding[r] THEN acct[r] ELSE NoAccount],
            spent  <- {r \in Requests : acct[r] # NoAccount}

LeaseSpec == Lease!Spec

\* Every request that arrives is answered or dropped: under a deadline no
\* provider, however slow or endless its stream, keeps a handler for ever.
RequestCompletes ==
    \A r \in Requests : pc[r] = "parse" ~> pc[r] = "done"

-----------------------------------------------------------------------------
(* Where a request stands with the pool, by the place its goroutine is at. *)

\* Nothing was picked for r.
Untouched(r) ==
    /\ acct[r] = NoAccount
    /\ ~holding[r] /\ ~lost[r] /\ ~reported[r]
    /\ reports[r] = 0 /\ after[r] = 0 /\ verdict[r] = "none"

\* r holds its slot and the pool has heard nothing of it.
Owing(r) ==
    /\ acct[r] \in Accounts
    /\ holding[r] /\ ~lost[r] /\ ~reported[r]
    /\ reports[r] = 0 /\ after[r] = 0 /\ verdict[r] = "none"

\* r was reported once; its slot is back unless that report failed.
Settled(r, hooks, v) ==
    /\ acct[r] \in Accounts
    /\ holding[r] <=> lost[r]
    /\ reports[r] = 1 /\ after[r] = hooks /\ verdict[r] = v

\* A stream between two chunks: reported with its hooks run, or owing.
Streaming(r) ==
    IF reported[r] THEN Settled(r, 1, "success") ELSE Owing(r)

AnswerVerdict(r) == IF resp[r] = "error" THEN "failure" ELSE "success"

RunningInv(r) ==
    /\ pc[r] \in {"idle", "parse", "before", "pick"} =>
          Untouched(r) /\ resp[r] = "none" /\ status[r] = 0
    /\ pc[r] \in {"provider", "invoke"} =>
          Owing(r) /\ resp[r] = "none" /\ status[r] = 0
    /\ pc[r] = "report" =>
          /\ Owing(r) /\ status[r] = 0
          /\ resp[r] # "none" /\ (stream[r] => resp[r] = "failed")
    /\ pc[r] \in {"after", "write"} =>
          /\ Settled(r, IF pc[r] = "after" THEN 0 ELSE 1, AnswerVerdict(r))
          /\ resp[r] \in {"ok", "error"} /\ status[r] = 0 /\ ~stream[r]
    /\ pc[r] \in {"open", "sreport"} => Owing(r) /\ stream[r]
    /\ pc[r] = "safter" => Settled(r, 0, "success") /\ reported[r] /\ stream[r]
    /\ pc[r] \in {"each", "hook", "fn", "tail"} => Streaming(r) /\ stream[r]

FinishedInv(r) ==
    /\ exit[r] = "none" <=> pc[r] # "done"
    /\ exit[r] \in {"parse", "hook", "pick"} =>
          Untouched(r) /\ resp[r] = "none" /\ status[r] # 200
    /\ exit[r] = "provider" => Owing(r) /\ resp[r] = "none" /\ status[r] = 500
    /\ exit[r] = "upstream" =>
          Settled(r, 0, "failure") /\ resp[r] = "failed" /\ status[r] = 502
    /\ exit[r] = "written" =>
          /\ Settled(r, 1, AnswerVerdict(r)) /\ resp[r] \in {"ok", "error"}
          /\ status[r] = IF resp[r] = "error" THEN 400 ELSE 200
    /\ exit[r] = "noflusher" => Owing(r) /\ stream[r]
    /\ exit[r] = "streamed" => Streaming(r) /\ stream[r]
    /\ exit[r] = "panic" =>
          \/ Untouched(r)
          \/ Owing(r)
          \/ \E n \in {0, 1}, v \in {"success", "failure"} : Settled(r, n, v)

\* The goroutine's place determines what the pool has been told of r and
\* whether r still occupies a slot (the inductive invariant of the proofs).
SlotInv == \A r \in Requests : RunningInv(r) /\ FinishedInv(r)

-----------------------------------------------------------------------------
(* What comments of the source say and the code does not do.               *)

\* default_proxy.go:17, "BeforeRequest -> Pick -> Invoke -> Report -> ...":
\* a request that picked an account reports it before it returns.  Broken by
\* the return of prepare when the provider is not registered.
PickIsReported ==
    \A r \in Requests :
        exit[r] \in {"provider", "upstream", "written"} => reports[r] = 1

\* default_proxy.go:124, "wrap the stream: inject hooks + automatic Report":
\* a stream that was read to its end has been reported.  Broken when the
\* upstream closes, or the context ends, before a Done chunk.
StreamIsReported ==
    \A r \in Requests : exit[r] = "streamed" => reports[r] = 1

=============================================================================
