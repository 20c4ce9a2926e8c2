-------------------------------- MODULE Errs --------------------------------
(***************************************************************************)
(* The error codes of package errs and the HTTP status each one is         *)
(* answered with.  An error that is not a *ProxyError (a plugin may return *)
(* any error) is PlainError: both adapters answer it with 500.             *)
(***************************************************************************)
EXTENDS Naturals

CodeOK                 == 0
CodeUnknown            == 1000
CodeInvalidRequest     == 1001
CodeUnauthorized       == 1002
CodeForbidden          == 1003
CodeNotFound           == 1004
CodeRateLimited        == 1005
CodeNoAvailableAccount == 1006
CodeUpstreamError      == 1007
CodeTimeout            == 1008
CodeInternal           == 1009
CodePluginError        == 1010
CodeProtocolError      == 1011
CodeModelNotSupported  == 1012

Codes == {CodeOK} \cup (CodeUnknown .. CodeModelNotSupported)

\* An error with no code of its own.
PlainError == 1

HTTPStatus(c) ==
    CASE c = CodeOK                                         -> 200
      [] c \in {CodeInvalidRequest, CodeProtocolError}      -> 400
      [] c = CodeUnauthorized                               -> 401
      [] c = CodeForbidden                                  -> 403
      [] c \in {CodeNotFound, CodeModelNotSupported}        -> 404
      [] c = CodeRateLimited                                -> 429
      [] c = CodeNoAvailableAccount                         -> 503
      [] c = CodeUpstreamError                              -> 502
      [] c = CodeTimeout                                    -> 504
      [] OTHER                                              -> 500

Statuses == {200, 400, 401, 403, 404, 429, 500, 502, 503, 504}

\* The status WriteError of either adapter answers error e with.
ErrorStatus(e) == IF e = PlainError THEN 500 ELSE HTTPStatus(e)

=============================================================================
