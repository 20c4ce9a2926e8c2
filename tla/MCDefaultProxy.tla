--------------------------- MODULE MCDefaultProxy ---------------------------
(* DefaultProxy on small instances; see README.md for the bounds.          *)
EXTENDS DefaultProxy

\* One coded rejection (the auth plugin's) and one error without a code.
MCHookErrors == {CodeUnauthorized, PlainError}

=============================================================================
