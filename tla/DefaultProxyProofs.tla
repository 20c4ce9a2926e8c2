------------------------- MODULE DefaultProxyProofs -------------------------
(***************************************************************************)
(* Proofs about DefaultProxy, for every finite set of requests, every set  *)
(* of accounts and every limit.  The inductive invariant is TypeOK,        *)
(* SlotInv (where each goroutine stands with the pool) and OccupancyExact; *)
(* the other safety properties and the refinement follow from it.          *)
(***************************************************************************)
EXTENDS DefaultProxy, FiniteSetTheorems, TLAPS

\* Every coded error is answered with a status of the list.
LEMMA StatusOfCode ==
    ASSUME NEW c \in Codes
    PROVE  HTTPStatus(c) \in Statuses
BY DEF HTTPStatus, Statuses

\* No error but CodeOK is answered 200.
LEMMA ErrorIsNot200 ==
    ASSUME NEW e \in (Codes \cup {PlainError}) \ {CodeOK}
    PROVE  ErrorStatus(e) \in Statuses \ {200}
BY DEF ErrorStatus, HTTPStatus, Statuses, Codes, CodeOK, CodeUnknown,
       CodeInvalidRequest, CodeUnauthorized, CodeForbidden, CodeNotFound,
       CodeRateLimited, CodeNoAvailableAccount, CodeUpstreamError,
       CodeTimeout, CodeInternal, CodeProtocolError, CodeModelNotSupported,
       PlainError

\* The statuses of the codes the gateway itself answers with.
LEMMA GatewayStatus ==
    /\ HTTPStatus(CodeInvalidRequest) = 400
    /\ HTTPStatus(CodeNoAvailableAccount) = 503
    /\ HTTPStatus(CodeInternal) = 500
    /\ HTTPStatus(CodeUpstreamError) = 502
BY DEF HTTPStatus, CodeOK, CodeInvalidRequest, CodeUnauthorized,
   CodeForbidden,
       CodeNotFound, CodeRateLimited, CodeNoAvailableAccount,
       CodeUpstreamError, CodeTimeout, CodeInternal, CodeProtocolError,
       CodeModelNotSupported

-----------------------------------------------------------------------------
\* The typing invariant: in particular no counter of the pool leaves
\* 0 .. Limit, whatever is reported when.
LEMMA TypeInit == Init => TypeOK
BY LimitAssumption DEF Init, TypeOK, NoChunk, Chunks

\* Releasing, even an account nothing holds, keeps the counters in range.
LEMMA ReleasedType ==
    ASSUME TypeOK, NEW a PROVE Released(a) \in [Accounts -> 0 .. Limit]
<1>1. Released(a) =
        [b \in Accounts |-> IF b = a
                            THEN IF occupied[a] > 0 THEN occupied[a] - 1 ELSE 0
                            ELSE occupied[b]]
  BY DEF TypeOK, Released
<1>2. ASSUME NEW b \in Accounts PROVE occupied[b] \in 0 .. Limit
  BY DEF TypeOK
<1>3. ASSUME NEW n \in 0 .. Limit
      PROVE  (IF n > 0 THEN n - 1 ELSE 0) \in 0 .. Limit
  BY LimitAssumption
<1>4. QED
  BY <1>1, <1>2, <1>3

\* A report keeps the types of what it writes.
LEMMA ReportType ==
    ASSUME TypeOK, NEW r \in Requests, NEW v \in {"success", "failure"},
           Report(r, v)
    PROVE  /\ reports' \in [Requests -> Nat]
           /\ verdict' \in [Requests -> {"none", "success", "failure"}]
           /\ occupied' \in [Accounts -> 0 .. Limit]
           /\ holding' \in [Requests -> BOOLEAN]
           /\ lost' \in [Requests -> BOOLEAN]
<1>1. Released(acct[r]) \in [Accounts -> 0 .. Limit]
  BY ReleasedType
<1>2. /\ reports' \in [Requests -> Nat]
      /\ verdict' \in [Requests -> {"none", "success", "failure"}]
  BY DEF Report, TypeOK
<1>3. CASE UNCHANGED <<occupied, holding>> /\ lost' = [lost EXCEPT ![r] = TRUE]
  BY <1>2, <1>3 DEF TypeOK
<1>4. CASE /\ occupied' = Released(acct[r]) /\ UNCHANGED lost
           /\ holding' = [holding EXCEPT ![r] = FALSE]
  BY <1>1, <1>2, <1>4 DEF TypeOK
<1>5. QED
  BY <1>3, <1>4 DEF Report

LEMMA TypeStep == TypeOK /\ [Next]_vars => TypeOK'
<1> SUFFICES ASSUME TypeOK, [Next]_vars PROVE TypeOK'
  OBVIOUS
<1> USE LimitAssumption DEF TypeOK, request, pool
<1>1. ASSUME NEW r \in Requests, Arrive(r) PROVE TypeOK'
  BY <1>1 DEF Arrive, Move, At
<1>2. ASSUME NEW r \in Requests, ParseRequest(r) PROVE TypeOK'
  BY <1>2 DEF ParseRequest, At
<1>3. ASSUME NEW r \in Requests, ParseRequestFails(r) PROVE TypeOK'
  BY <1>3, GatewayStatus DEF ParseRequestFails, Leave, At, Statuses
<1>4. ASSUME NEW r \in Requests, RunBeforeRequest(r) PROVE TypeOK'
  BY <1>4 DEF RunBeforeRequest, Move, At
<1>5. ASSUME NEW r \in Requests, RunBeforeRequestRejects(r) PROVE TypeOK'
  BY <1>5, ErrorIsNot200, HookErrorsAssumption DEF RunBeforeRequestRejects,
     Leave, At, Statuses
<1>6. ASSUME NEW r \in Requests, Pick(r) PROVE TypeOK'
  BY <1>6 DEF Pick, At
<1>7. ASSUME NEW r \in Requests, PickFails(r) PROVE TypeOK'
  BY <1>7, GatewayStatus DEF PickFails, Leave, At, Statuses
<1>8. ASSUME NEW r \in Requests, GetProvider(r) PROVE TypeOK'
  BY <1>8 DEF GetProvider, Move, At
<1>9. ASSUME NEW r \in Requests, GetProviderFails(r) PROVE TypeOK'
  BY <1>9, GatewayStatus DEF GetProviderFails, Leave, At, Statuses
<1>10. ASSUME NEW r \in Requests, GenerateContent(r) PROVE TypeOK'
  BY <1>10 DEF GenerateContent, At
<1>11. ASSUME NEW r \in Requests, GenerateContentStream(r) PROVE TypeOK'
  BY <1>11 DEF GenerateContentStream, At
<1>12. ASSUME NEW r \in Requests, GenerateFails(r) PROVE TypeOK'
  BY <1>12 DEF GenerateFails, At
<1>13. ASSUME NEW r \in Requests, ReportError(r) PROVE TypeOK'
  BY <1>13, GatewayStatus, ReportType DEF ReportError, At, Statuses
<1>14. ASSUME NEW r \in Requests, ReportResponse(r) PROVE TypeOK'
  BY <1>14, ReportType DEF ReportResponse, At
<1>15. ASSUME NEW r \in Requests, RunAfterResponse(r) PROVE TypeOK'
  BY <1>15 DEF RunAfterResponse, At
<1>16. ASSUME NEW r \in Requests, WriteResponse(r) PROVE TypeOK'
  BY <1>16, GatewayStatus DEF WriteResponse, Leave, At, Statuses
<1>17. ASSUME NEW r \in Requests, WriteStreamResponseUnsupported(r)
      PROVE  TypeOK'
  BY <1>17, GatewayStatus DEF WriteStreamResponseUnsupported, Leave, At,
     Statuses
<1>18. ASSUME NEW r \in Requests, WriteStreamResponse(r) PROVE TypeOK'
  BY <1>18, GatewayStatus DEF WriteStreamResponse, At, Statuses
<1>19. ASSUME NEW r \in Requests, Each(r) PROVE TypeOK'
  BY <1>19 DEF Each, At, Chunks, NoChunk
<1>20. ASSUME NEW r \in Requests, EachReturns(r) PROVE TypeOK'
  BY <1>20 DEF EachReturns, Move, At
<1>21. ASSUME NEW r \in Requests, ProcessChunk(r) PROVE TypeOK'
  BY <1>21 DEF ProcessChunk, Move, At
<1>22. ASSUME NEW r \in Requests, DoReport(r) PROVE TypeOK'
  BY <1>22, ReportType DEF DoReport, At
<1>23. ASSUME NEW r \in Requests, DoReportAfterResponse(r) PROVE TypeOK'
  BY <1>23 DEF DoReportAfterResponse, At
<1>24. ASSUME NEW r \in Requests, WriteChunk(r) PROVE TypeOK'
  BY <1>24 DEF WriteChunk, At, Chunks, NoChunk
<1>25. ASSUME NEW r \in Requests, WriteStreamEnd(r) PROVE TypeOK'
  BY <1>25, GatewayStatus DEF WriteStreamEnd, Leave, At, Statuses
<1>26. ASSUME NEW r \in Requests, Cancel(r) PROVE TypeOK'
  BY <1>26 DEF Cancel
<1>27. ASSUME NEW r \in Requests, Panic(r) PROVE TypeOK'
  BY <1>27, GatewayStatus DEF Panic, Leave, At, Statuses
<1>28. CASE UNCHANGED vars
  BY <1>28 DEF vars
<1>29. QED
  BY <1>1, <1>2, <1>3, <1>4, <1>5, <1>6, <1>7, <1>8, <1>9, <1>10, <1>11,
     <1>12, <1>13, <1>14, <1>15, <1>16, <1>17, <1>18, <1>19, <1>20, <1>21,
     <1>22, <1>23, <1>24, <1>25, <1>26, <1>27, <1>28 DEF Next, Local,
     Upstream, AllDone

\* Every variable keeps its type.
THEOREM Typing == Spec => []TypeOK
<1>1. QED
  BY TypeInit, TypeStep, PTL DEF Spec

-----------------------------------------------------------------------------
\* The place of each goroutine tells where it stands with the pool.
LEMMA SlotInit == Init => SlotInv
BY DEF Init, SlotInv, RunningInv, FinishedInv, Untouched

LEMMA SlotStep == TypeOK /\ SlotInv /\ [Next]_vars => SlotInv'
<1> SUFFICES ASSUME TypeOK, SlotInv, [Next]_vars,
                    NEW q \in Requests
             PROVE  RunningInv(q)' /\ FinishedInv(q)'
  BY DEF SlotInv
<1>0. RunningInv(q) /\ FinishedInv(q)
  BY DEF SlotInv
<1> USE <1>0, NoAccountAssumption
    DEF TypeOK, request, pool, RunningInv, FinishedInv, Untouched, Owing,
        Settled, Streaming, AnswerVerdict
<1>1. ASSUME NEW r \in Requests, Arrive(r)
      PROVE  RunningInv(q)' /\ FinishedInv(q)'
  BY <1>1 DEF Arrive, Move, At
<1>2. ASSUME NEW r \in Requests, ParseRequest(r)
      PROVE  RunningInv(q)' /\ FinishedInv(q)'
  BY <1>2 DEF ParseRequest, At
<1>3. ASSUME NEW r \in Requests, ParseRequestFails(r)
      PROVE  RunningInv(q)' /\ FinishedInv(q)'
  BY <1>3, GatewayStatus DEF ParseRequestFails, Leave, At
<1>4. ASSUME NEW r \in Requests, RunBeforeRequest(r)
      PROVE  RunningInv(q)' /\ FinishedInv(q)'
  BY <1>4 DEF RunBeforeRequest, Move, At
<1>5. ASSUME NEW r \in Requests, RunBeforeRequestRejects(r)
      PROVE  RunningInv(q)' /\ FinishedInv(q)'
  BY <1>5, ErrorIsNot200, HookErrorsAssumption DEF RunBeforeRequestRejects,
     Leave, At
<1>6. ASSUME NEW r \in Requests, Pick(r)
      PROVE  RunningInv(q)' /\ FinishedInv(q)'
  BY <1>6 DEF Pick, At
<1>7. ASSUME NEW r \in Requests, PickFails(r)
      PROVE  RunningInv(q)' /\ FinishedInv(q)'
  BY <1>7, GatewayStatus DEF PickFails, Leave, At
<1>8. ASSUME NEW r \in Requests, GetProvider(r)
      PROVE  RunningInv(q)' /\ FinishedInv(q)'
  BY <1>8 DEF GetProvider, Move, At
<1>9. ASSUME NEW r \in Requests, GetProviderFails(r)
      PROVE  RunningInv(q)' /\ FinishedInv(q)'
  BY <1>9, GatewayStatus DEF GetProviderFails, Leave, At
<1>10. ASSUME NEW r \in Requests, GenerateContent(r)
      PROVE  RunningInv(q)' /\ FinishedInv(q)'
  BY <1>10 DEF GenerateContent, At
<1>11. ASSUME NEW r \in Requests, GenerateContentStream(r)
      PROVE  RunningInv(q)' /\ FinishedInv(q)'
  BY <1>11 DEF GenerateContentStream, At
<1>12. ASSUME NEW r \in Requests, GenerateFails(r)
      PROVE  RunningInv(q)' /\ FinishedInv(q)'
  BY <1>12 DEF GenerateFails, At
<1>13. ASSUME NEW r \in Requests, ReportError(r)
      PROVE  RunningInv(q)' /\ FinishedInv(q)'
  BY <1>13, GatewayStatus DEF ReportError, At, Report, Released
<1>14. ASSUME NEW r \in Requests, ReportResponse(r)
      PROVE  RunningInv(q)' /\ FinishedInv(q)'
  BY <1>14 DEF ReportResponse, At, Report, Released
<1>15. ASSUME NEW r \in Requests, RunAfterResponse(r)
      PROVE  RunningInv(q)' /\ FinishedInv(q)'
  BY <1>15 DEF RunAfterResponse, At
<1>16. ASSUME NEW r \in Requests, WriteResponse(r)
      PROVE  RunningInv(q)' /\ FinishedInv(q)'
  BY <1>16, GatewayStatus DEF WriteResponse, Leave, At
<1>17. ASSUME NEW r \in Requests, WriteStreamResponseUnsupported(r)
      PROVE  RunningInv(q)' /\ FinishedInv(q)'
  BY <1>17, GatewayStatus DEF WriteStreamResponseUnsupported, Leave, At
<1>18. ASSUME NEW r \in Requests, WriteStreamResponse(r)
      PROVE  RunningInv(q)' /\ FinishedInv(q)'
  BY <1>18, GatewayStatus DEF WriteStreamResponse, At
<1>19. ASSUME NEW r \in Requests, Each(r)
      PROVE  RunningInv(q)' /\ FinishedInv(q)'
  BY <1>19 DEF Each, At
<1>20. ASSUME NEW r \in Requests, EachReturns(r)
      PROVE  RunningInv(q)' /\ FinishedInv(q)'
  BY <1>20 DEF EachReturns, Move, At
<1>21. ASSUME NEW r \in Requests, ProcessChunk(r)
      PROVE  RunningInv(q)' /\ FinishedInv(q)'
  BY <1>21 DEF ProcessChunk, Move, At
<1>22. ASSUME NEW r \in Requests, DoReport(r)
      PROVE  RunningInv(q)' /\ FinishedInv(q)'
  BY <1>22 DEF DoReport, At, Report, Released
<1>23. ASSUME NEW r \in Requests, DoReportAfterResponse(r)
      PROVE  RunningInv(q)' /\ FinishedInv(q)'
  BY <1>23 DEF DoReportAfterResponse, At
<1>24. ASSUME NEW r \in Requests, WriteChunk(r)
      PROVE  RunningInv(q)' /\ FinishedInv(q)'
  BY <1>24 DEF WriteChunk, At
<1>25. ASSUME NEW r \in Requests, WriteStreamEnd(r)
      PROVE  RunningInv(q)' /\ FinishedInv(q)'
  BY <1>25, GatewayStatus DEF WriteStreamEnd, Leave, At
<1>26. ASSUME NEW r \in Requests, Cancel(r)
      PROVE  RunningInv(q)' /\ FinishedInv(q)'
  BY <1>26 DEF Cancel
<1>27. ASSUME NEW r \in Requests, Panic(r)
      PROVE  RunningInv(q)' /\ FinishedInv(q)'
  BY <1>27, GatewayStatus DEF Panic, Leave, At
<1>28. CASE UNCHANGED vars
  BY <1>28 DEF vars
<1>29. QED
  BY <1>1, <1>2, <1>3, <1>4, <1>5, <1>6, <1>7, <1>8, <1>9, <1>10, <1>11,
     <1>12, <1>13, <1>14, <1>15, <1>16, <1>17, <1>18, <1>19, <1>20, <1>21,
     <1>22, <1>23, <1>24, <1>25, <1>26, <1>27, <1>28 DEF Next, Local,
     Upstream, AllDone

-----------------------------------------------------------------------------
(* OccupancyExact: a Pick adds a holder, a Report that reaches the pool    *)
(* removes one, and SlotInv says that r is a holder when it reports.       *)

LEMMA HoldersFinite ==
    ASSUME NEW a \in Accounts
    PROVE  /\ IsFiniteSet(Holders(a))
           /\ Cardinality(Holders(a)) \in Nat
BY RequestsAssumption, FS_Subset, FS_CardinalityType DEF Holders

LEMMA OccupancyInit == Init => OccupancyExact
<1> SUFFICES ASSUME Init, NEW a \in Accounts
             PROVE  occupied[a] = Cardinality(Holders(a))
  BY DEF OccupancyExact
<1>1. Holders(a) = {}
  BY DEF Init, Holders
<1>2. occupied[a] = 0
  BY DEF Init
<1>3. QED
  BY <1>1, <1>2, FS_EmptySet

\* A step that touches neither slots nor counters keeps them equal.
LEMMA OccupancyFrame ==
    ASSUME OccupancyExact, UNCHANGED <<acct, holding, occupied>>
    PROVE  OccupancyExact'
BY DEF OccupancyExact, Holders

LEMMA OccupancyPick ==
    ASSUME TypeOK, SlotInv, OccupancyExact, NEW r \in Requests, Pick(r)
    PROVE  OccupancyExact'
<1> SUFFICES ASSUME NEW b \in Accounts
             PROVE  occupied'[b] = Cardinality(Holders(b)')
  BY DEF OccupancyExact
<1>1. PICK a \in Accounts : /\ acct' = [acct EXCEPT ![r] = a]
                            /\ occupied' = [occupied EXCEPT ![a] = @ + 1]
  BY DEF Pick
<1>2. /\ holding' = [holding EXCEPT ![r] = TRUE]
      /\ acct[r] = NoAccount /\ holding[r] = FALSE
  BY DEF Pick, At, SlotInv, RunningInv, Untouched, TypeOK
<1>3. occupied[b] = Cardinality(Holders(b))
  BY DEF OccupancyExact
<1>4. CASE b = a
  <2>1. Holders(b)' = Holders(b) \cup {r} /\ r \notin Holders(b)
    BY <1>1, <1>2, <1>4 DEF Holders, TypeOK
  <2>2. Cardinality(Holders(b)') = Cardinality(Holders(b)) + 1
    BY <2>1, HoldersFinite, FS_AddElement
  <2>3. occupied'[b] = occupied[b] + 1
    BY <1>1, <1>4 DEF TypeOK
  <2>4. QED
    BY <1>3, <2>2, <2>3
<1>5. CASE b # a
  <2>1. Holders(b)' = Holders(b)
    BY <1>1, <1>2, <1>5, NoAccountAssumption DEF Holders, TypeOK
  <2>2. occupied'[b] = occupied[b]
    BY <1>1, <1>5 DEF TypeOK
  <2>3. QED
    BY <1>3, <2>1, <2>2
<1>6. QED
  BY <1>4, <1>5

LEMMA OccupancyReport ==
    ASSUME TypeOK, OccupancyExact, NEW r \in Requests, Owing(r),
           NEW v, Report(r, v), UNCHANGED acct
    PROVE  OccupancyExact'
<1>1. CASE UNCHANGED <<occupied, holding>>
  BY <1>1, OccupancyFrame
<1>2. CASE /\ occupied' = Released(acct[r])
           /\ holding' = [holding EXCEPT ![r] = FALSE]
  <2> SUFFICES ASSUME NEW b \in Accounts
               PROVE  occupied'[b] = Cardinality(Holders(b)')
    BY DEF OccupancyExact
  <2>1. occupied[b] = Cardinality(Holders(b))
    BY DEF OccupancyExact
  <2>2. acct[r] \in Accounts /\ holding[r]
    BY DEF Owing
  <2>3. CASE b = acct[r]
    <3>1. Holders(b)' = Holders(b) \ {r} /\ r \in Holders(b)
      BY <1>2, <2>2, <2>3 DEF Holders, TypeOK
    <3>2. Cardinality(Holders(b)') = Cardinality(Holders(b)) - 1
      BY <3>1, HoldersFinite, FS_RemoveElement
    <3>3. Cardinality(Holders(b)) \in Nat \ {0}
      BY <3>1, HoldersFinite, FS_EmptySet
    <3>4. occupied'[b] = occupied[b] - 1
      BY <1>2, <2>1, <2>3, <3>3 DEF Released, TypeOK
    <3>5. QED
      BY <2>1, <3>2, <3>4
  <2>4. CASE b # acct[r]
    <3>1. Holders(b)' = Holders(b)
      BY <1>2, <2>4 DEF Holders, TypeOK
    <3>2. occupied'[b] = occupied[b]
      BY <1>2, <2>4 DEF Released, TypeOK
    <3>3. QED
      BY <2>1, <3>1, <3>2
  <2>5. QED
    BY <2>3, <2>4
<1>3. QED
  BY <1>1, <1>2 DEF Report

LEMMA OccupancyStep ==
    TypeOK /\ SlotInv /\ OccupancyExact /\ [Next]_vars => OccupancyExact'
<1> SUFFICES ASSUME TypeOK, SlotInv, OccupancyExact, [Next]_vars
             PROVE  OccupancyExact'
  OBVIOUS
<1> USE DEF request, pool
<1>1. ASSUME NEW r \in Requests, Arrive(r) PROVE OccupancyExact'
  BY <1>1, OccupancyFrame DEF Arrive, Move
<1>2. ASSUME NEW r \in Requests, ParseRequest(r) PROVE OccupancyExact'
  BY <1>2, OccupancyFrame DEF ParseRequest
<1>3. ASSUME NEW r \in Requests, ParseRequestFails(r) PROVE OccupancyExact'
  BY <1>3, OccupancyFrame DEF ParseRequestFails, Leave
<1>4. ASSUME NEW r \in Requests, RunBeforeRequest(r) PROVE OccupancyExact'
  BY <1>4, OccupancyFrame DEF RunBeforeRequest, Move
<1>5. ASSUME NEW r \in Requests, RunBeforeRequestRejects(r)
      PROVE  OccupancyExact'
  BY <1>5, OccupancyFrame DEF RunBeforeRequestRejects, Leave
<1>6. ASSUME NEW r \in Requests, Pick(r) PROVE OccupancyExact'
  BY <1>6, OccupancyPick
<1>7. ASSUME NEW r \in Requests, PickFails(r) PROVE OccupancyExact'
  BY <1>7, OccupancyFrame DEF PickFails, Leave
<1>8. ASSUME NEW r \in Requests, GetProvider(r) PROVE OccupancyExact'
  BY <1>8, OccupancyFrame DEF GetProvider, Move
<1>9. ASSUME NEW r \in Requests, GetProviderFails(r) PROVE OccupancyExact'
  BY <1>9, OccupancyFrame DEF GetProviderFails, Leave
<1>10. ASSUME NEW r \in Requests, GenerateContent(r) PROVE OccupancyExact'
  BY <1>10, OccupancyFrame DEF GenerateContent
<1>11. ASSUME NEW r \in Requests, GenerateContentStream(r)
      PROVE  OccupancyExact'
  BY <1>11, OccupancyFrame DEF GenerateContentStream
<1>12. ASSUME NEW r \in Requests, GenerateFails(r) PROVE OccupancyExact'
  BY <1>12, OccupancyFrame DEF GenerateFails
<1>13. ASSUME NEW r \in Requests, ReportError(r) PROVE OccupancyExact'
  BY <1>13, OccupancyReport DEF ReportError, At, SlotInv, RunningInv, request
<1>14. ASSUME NEW r \in Requests, ReportResponse(r) PROVE OccupancyExact'
  BY <1>14, OccupancyReport DEF ReportResponse, At, SlotInv, RunningInv,
     request
<1>15. ASSUME NEW r \in Requests, RunAfterResponse(r) PROVE OccupancyExact'
  BY <1>15, OccupancyFrame DEF RunAfterResponse
<1>16. ASSUME NEW r \in Requests, WriteResponse(r) PROVE OccupancyExact'
  BY <1>16, OccupancyFrame DEF WriteResponse, Leave
<1>17. ASSUME NEW r \in Requests, WriteStreamResponseUnsupported(r)
      PROVE  OccupancyExact'
  BY <1>17, OccupancyFrame DEF WriteStreamResponseUnsupported, Leave
<1>18. ASSUME NEW r \in Requests, WriteStreamResponse(r) PROVE OccupancyExact'
  BY <1>18, OccupancyFrame DEF WriteStreamResponse
<1>19. ASSUME NEW r \in Requests, Each(r) PROVE OccupancyExact'
  BY <1>19, OccupancyFrame DEF Each
<1>20. ASSUME NEW r \in Requests, EachReturns(r) PROVE OccupancyExact'
  BY <1>20, OccupancyFrame DEF EachReturns, Move
<1>21. ASSUME NEW r \in Requests, ProcessChunk(r) PROVE OccupancyExact'
  BY <1>21, OccupancyFrame DEF ProcessChunk, Move
<1>22. ASSUME NEW r \in Requests, DoReport(r) PROVE OccupancyExact'
  BY <1>22, OccupancyReport DEF DoReport, At, SlotInv, RunningInv, request
<1>23. ASSUME NEW r \in Requests, DoReportAfterResponse(r)
      PROVE  OccupancyExact'
  BY <1>23, OccupancyFrame DEF DoReportAfterResponse
<1>24. ASSUME NEW r \in Requests, WriteChunk(r) PROVE OccupancyExact'
  BY <1>24, OccupancyFrame DEF WriteChunk
<1>25. ASSUME NEW r \in Requests, WriteStreamEnd(r) PROVE OccupancyExact'
  BY <1>25, OccupancyFrame DEF WriteStreamEnd, Leave
<1>26. ASSUME NEW r \in Requests, Cancel(r) PROVE OccupancyExact'
  BY <1>26, OccupancyFrame DEF Cancel
<1>27. ASSUME NEW r \in Requests, Panic(r) PROVE OccupancyExact'
  BY <1>27, OccupancyFrame DEF Panic, Leave
<1>28. CASE UNCHANGED vars
  BY <1>28, OccupancyFrame DEF vars
<1>29. QED
  BY <1>1, <1>2, <1>3, <1>4, <1>5, <1>6, <1>7, <1>8, <1>9, <1>10, <1>11,
     <1>12, <1>13, <1>14, <1>15, <1>16, <1>17, <1>18, <1>19, <1>20, <1>21,
     <1>22, <1>23, <1>24, <1>25, <1>26, <1>27, <1>28 DEF Next, Local,
     Upstream, AllDone

-----------------------------------------------------------------------------
IInv == TypeOK /\ SlotInv /\ OccupancyExact

\* The inductive invariant.
THEOREM Inductive == Spec => []IInv
<1>1. Init => IInv
  BY TypeInit, SlotInit, OccupancyInit DEF IInv
<1>2. IInv /\ [Next]_vars => IInv'
  BY TypeStep, SlotStep, OccupancyStep DEF IInv
<1>3. QED
  BY <1>1, <1>2, PTL DEF Spec

\* Where a request stands tells what the pool has been told of it.
THEOREM SlotsFollowPlaces == Spec => []SlotInv
<1>1. IInv => SlotInv
  BY DEF IInv
<1>2. QED
  BY <1>1, Inductive, PTL

\* The pool's counters are exact: no exit of the handler, second Done chunk
\* or panic gives back a slot another request holds.
THEOREM CountersExact == Spec => []OccupancyExact
<1>1. IInv => OccupancyExact
  BY DEF IInv
<1>2. QED
  BY <1>1, Inductive, PTL

\* No account serves more unreported requests at once than its limit.
THEOREM LimitKept == Spec => []UpstreamWithinLimit
<1>1. ASSUME IInv, NEW a \in Accounts
      PROVE  Cardinality(InFlight(a)) <= Limit
  <2>1. InFlight(a) \subseteq Holders(a)
    BY <1>1 DEF IInv, SlotInv, RunningInv, InFlight, Holders, Owing,
       Streaming,
                Settled
  <2>2. Cardinality(InFlight(a)) <= Cardinality(Holders(a))
    BY <2>1, HoldersFinite, FS_Subset
  <2>3. Cardinality(Holders(a)) \in 0 .. Limit
    BY <1>1 DEF IInv, TypeOK, OccupancyExact
  <2>4. Cardinality(InFlight(a)) \in Nat
    BY <2>1, HoldersFinite, FS_Subset, FS_CardinalityType
  <2>5. QED
    BY <2>2, <2>3, <2>4, LimitAssumption
<1>2. IInv => UpstreamWithinLimit
  BY <1>1 DEF UpstreamWithinLimit
<1>3. QED
  BY <1>2, Inductive, PTL

\* The pool and the client are told the same of a non-streaming request.
THEOREM VerdictTold == Spec => []VerdictMatchesClient
<1>1. IInv => VerdictMatchesClient
  BY DEF IInv, TypeOK, SlotInv, FinishedInv, Untouched, Owing, Settled,
         AnswerVerdict, VerdictMatchesClient
<1>2. QED
  BY <1>1, Inductive, PTL

\* AfterResponse hooks run at most once, after the one report.
THEOREM HooksAfterReport == Spec => []AfterFollowsReport
<1>1. ASSUME IInv, NEW r \in Requests
      PROVE  /\ after[r] <= reports[r]
             /\ reports[r] <= 1
             /\ exit[r] = "written" => after[r] = 1
             /\ exit[r] = "streamed" => after[r] = reports[r]
  BY <1>1 DEF IInv, TypeOK, SlotInv, RunningInv, FinishedInv, Untouched,
              Owing, Settled, Streaming
<1>2. IInv => AfterFollowsReport
  BY <1>1 DEF AfterFollowsReport
<1>3. QED
  BY <1>2, Inductive, PTL

\* A finished request keeps its slot only by the exits LeakExits names.
THEOREM LeaksAreKnown == Spec => []LeakExits
<1>1. IInv => LeakExits
  BY DEF IInv, TypeOK, SlotInv, FinishedInv, Untouched, Settled, Streaming,
         LeakExits
<1>2. QED
  BY <1>1, Inductive, PTL

-----------------------------------------------------------------------------
(* The gateway implements AccountLease.                                    *)


\* The tenants of the abstract pool are the holders of this one.
LEMMA TenantsAreHolders ==
    ASSUME NEW a \in Accounts
    PROVE  Lease!Tenants(a) = Holders(a)
BY NoAccountAssumption DEF Lease!Tenants, Holders

\* A step that takes and gives back no slot is a stutter of the lease.
LEMMA LeaseFrame ==
    ASSUME UNCHANGED <<acct, holding>>
    PROVE  UNCHANGED Lease!vars
BY DEF Lease!vars

\* A Pick is an Acquire: the pool's guard is the bound of the lease because
\* the counter is exact.
LEMMA LeasePick ==
    ASSUME IInv, NEW r \in Requests, Pick(r)
    PROVE  \E a \in Accounts : Lease!Acquire(r, a)
<1>1. PICK a \in Accounts : /\ occupied[a] < Limit
                            /\ acct' = [acct EXCEPT ![r] = a]
  BY DEF Pick
<1>2. /\ holding' = [holding EXCEPT ![r] = TRUE]
      /\ acct[r] = NoAccount
  BY DEF Pick, At, IInv, SlotInv, RunningInv, Untouched
<1>3. Cardinality(Lease!Tenants(a)) < Limit
  BY <1>1, TenantsAreHolders DEF IInv, OccupancyExact
<1>4. [q \in Requests |-> IF holding[q] THEN acct[q] ELSE NoAccount]'
      = [[q \in Requests |-> IF holding[q] THEN acct[q] ELSE NoAccount]
            EXCEPT ![r] = a]
  BY <1>1, <1>2 DEF IInv, TypeOK
<1>5. {q \in Requests : acct[q] # NoAccount}'
      = {q \in Requests : acct[q] # NoAccount} \cup {r}
  BY <1>1, NoAccountAssumption DEF IInv, TypeOK
<1>6. QED
  BY <1>1, <1>2, <1>3, <1>4, <1>5 DEF Lease!Acquire, Lease!Cardinality,
     Cardinality

\* A Report is a Return, or a stutter when the pool did not hear of it.
LEMMA LeaseReport ==
    ASSUME IInv, NEW r \in Requests, Owing(r), NEW v, Report(r, v),
           UNCHANGED acct
    PROVE  Lease!Return(r) \/ UNCHANGED Lease!vars
<1>1. CASE UNCHANGED holding
  BY <1>1, LeaseFrame
<1>2. CASE holding' = [holding EXCEPT ![r] = FALSE]
  <2>1. [q \in Requests |-> IF holding[q] THEN acct[q] ELSE NoAccount]'
        = [[q \in Requests |-> IF holding[q] THEN acct[q] ELSE NoAccount]
              EXCEPT ![r] = NoAccount]
    BY <1>2 DEF IInv, TypeOK
  <2>2. QED
    BY <2>1, NoAccountAssumption DEF Lease!Return, Owing
<1>3. QED
  BY <1>1, <1>2 DEF Report

LEMMA LeaseStep == IInv /\ [Next]_vars => [Lease!Next]_(Lease!vars)
<1> SUFFICES ASSUME IInv, [Next]_vars
             PROVE  Lease!Next \/ UNCHANGED Lease!vars
  OBVIOUS
<1> USE DEF request, pool
<1>1. ASSUME NEW r \in Requests, Arrive(r)
      PROVE  Lease!Next \/ UNCHANGED Lease!vars
  BY <1>1, LeaseFrame DEF Arrive, Move
<1>2. ASSUME NEW r \in Requests, ParseRequest(r)
      PROVE  Lease!Next \/ UNCHANGED Lease!vars
  BY <1>2, LeaseFrame DEF ParseRequest
<1>3. ASSUME NEW r \in Requests, ParseRequestFails(r)
      PROVE  Lease!Next \/ UNCHANGED Lease!vars
  BY <1>3, LeaseFrame DEF ParseRequestFails, Leave
<1>4. ASSUME NEW r \in Requests, RunBeforeRequest(r)
      PROVE  Lease!Next \/ UNCHANGED Lease!vars
  BY <1>4, LeaseFrame DEF RunBeforeRequest, Move
<1>5. ASSUME NEW r \in Requests, RunBeforeRequestRejects(r)
      PROVE  Lease!Next \/ UNCHANGED Lease!vars
  BY <1>5, LeaseFrame DEF RunBeforeRequestRejects, Leave
<1>6. ASSUME NEW r \in Requests, Pick(r)
      PROVE  Lease!Next \/ UNCHANGED Lease!vars
  BY <1>6, LeasePick DEF Lease!Next
<1>7. ASSUME NEW r \in Requests, PickFails(r)
      PROVE  Lease!Next \/ UNCHANGED Lease!vars
  BY <1>7, LeaseFrame DEF PickFails, Leave
<1>8. ASSUME NEW r \in Requests, GetProvider(r)
      PROVE  Lease!Next \/ UNCHANGED Lease!vars
  BY <1>8, LeaseFrame DEF GetProvider, Move
<1>9. ASSUME NEW r \in Requests, GetProviderFails(r)
      PROVE  Lease!Next \/ UNCHANGED Lease!vars
  BY <1>9, LeaseFrame DEF GetProviderFails, Leave
<1>10. ASSUME NEW r \in Requests, GenerateContent(r)
      PROVE  Lease!Next \/ UNCHANGED Lease!vars
  BY <1>10, LeaseFrame DEF GenerateContent
<1>11. ASSUME NEW r \in Requests, GenerateContentStream(r)
      PROVE  Lease!Next \/ UNCHANGED Lease!vars
  BY <1>11, LeaseFrame DEF GenerateContentStream
<1>12. ASSUME NEW r \in Requests, GenerateFails(r)
      PROVE  Lease!Next \/ UNCHANGED Lease!vars
  BY <1>12, LeaseFrame DEF GenerateFails
<1>13. ASSUME NEW r \in Requests, ReportError(r)
      PROVE  Lease!Next \/ UNCHANGED Lease!vars
  <2>1. Owing(r) /\ UNCHANGED acct
    BY <1>13 DEF ReportError, At, IInv, SlotInv, RunningInv
  <2>2. Lease!Return(r) \/ UNCHANGED Lease!vars
    BY <1>13, <2>1, LeaseReport DEF ReportError
  <2>3. QED
    BY <2>2 DEF Lease!Next
<1>14. ASSUME NEW r \in Requests, ReportResponse(r)
      PROVE  Lease!Next \/ UNCHANGED Lease!vars
  <2>1. Owing(r) /\ UNCHANGED acct
    BY <1>14 DEF ReportResponse, At, IInv, SlotInv, RunningInv
  <2>2. Lease!Return(r) \/ UNCHANGED Lease!vars
    BY <1>14, <2>1, LeaseReport DEF ReportResponse
  <2>3. QED
    BY <2>2 DEF Lease!Next
<1>15. ASSUME NEW r \in Requests, RunAfterResponse(r)
      PROVE  Lease!Next \/ UNCHANGED Lease!vars
  BY <1>15, LeaseFrame DEF RunAfterResponse
<1>16. ASSUME NEW r \in Requests, WriteResponse(r)
      PROVE  Lease!Next \/ UNCHANGED Lease!vars
  BY <1>16, LeaseFrame DEF WriteResponse, Leave
<1>17. ASSUME NEW r \in Requests, WriteStreamResponseUnsupported(r)
      PROVE  Lease!Next \/ UNCHANGED Lease!vars
  BY <1>17, LeaseFrame DEF WriteStreamResponseUnsupported, Leave
<1>18. ASSUME NEW r \in Requests, WriteStreamResponse(r)
      PROVE  Lease!Next \/ UNCHANGED Lease!vars
  BY <1>18, LeaseFrame DEF WriteStreamResponse
<1>19. ASSUME NEW r \in Requests, Each(r)
      PROVE  Lease!Next \/ UNCHANGED Lease!vars
  BY <1>19, LeaseFrame DEF Each
<1>20. ASSUME NEW r \in Requests, EachReturns(r)
      PROVE  Lease!Next \/ UNCHANGED Lease!vars
  BY <1>20, LeaseFrame DEF EachReturns, Move
<1>21. ASSUME NEW r \in Requests, ProcessChunk(r)
      PROVE  Lease!Next \/ UNCHANGED Lease!vars
  BY <1>21, LeaseFrame DEF ProcessChunk, Move
<1>22. ASSUME NEW r \in Requests, DoReport(r)
      PROVE  Lease!Next \/ UNCHANGED Lease!vars
  <2>1. Owing(r) /\ UNCHANGED acct
    BY <1>22 DEF DoReport, At, IInv, SlotInv, RunningInv
  <2>2. Lease!Return(r) \/ UNCHANGED Lease!vars
    BY <1>22, <2>1, LeaseReport DEF DoReport
  <2>3. QED
    BY <2>2 DEF Lease!Next
<1>23. ASSUME NEW r \in Requests, DoReportAfterResponse(r)
      PROVE  Lease!Next \/ UNCHANGED Lease!vars
  BY <1>23, LeaseFrame DEF DoReportAfterResponse
<1>24. ASSUME NEW r \in Requests, WriteChunk(r)
      PROVE  Lease!Next \/ UNCHANGED Lease!vars
  BY <1>24, LeaseFrame DEF WriteChunk
<1>25. ASSUME NEW r \in Requests, WriteStreamEnd(r)
      PROVE  Lease!Next \/ UNCHANGED Lease!vars
  BY <1>25, LeaseFrame DEF WriteStreamEnd, Leave
<1>26. ASSUME NEW r \in Requests, Cancel(r)
      PROVE  Lease!Next \/ UNCHANGED Lease!vars
  BY <1>26, LeaseFrame DEF Cancel
<1>27. ASSUME NEW r \in Requests, Panic(r)
      PROVE  Lease!Next \/ UNCHANGED Lease!vars
  BY <1>27, LeaseFrame DEF Panic, Leave
<1>28. CASE UNCHANGED vars
  BY <1>28, LeaseFrame DEF vars
<1>29. QED
  BY <1>1, <1>2, <1>3, <1>4, <1>5, <1>6, <1>7, <1>8, <1>9, <1>10, <1>11,
     <1>12, <1>13, <1>14, <1>15, <1>16, <1>17, <1>18, <1>19, <1>20, <1>21,
     <1>22, <1>23, <1>24, <1>25, <1>26, <1>27, <1>28 DEF Next, Local,
     Upstream, AllDone

\* The gateway implements the lease: a request takes one slot at most, gives
\* it back once at most, and no account is over its limit.
THEOREM ImplementsLease == Spec => LeaseSpec
<1>1. Init => Lease!Init
  BY DEF Init, Lease!Init
<1>2. QED
  BY <1>1, LeaseStep, Inductive, PTL DEF Spec, LeaseSpec, Lease!Spec

=============================================================================
