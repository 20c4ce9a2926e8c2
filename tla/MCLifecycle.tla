----------------------------- MODULE MCLifecycle -----------------------------
(* Lifecycle on small instances; see README.md for the bounds.             *)
EXTENDS Lifecycle

=============================================================================
