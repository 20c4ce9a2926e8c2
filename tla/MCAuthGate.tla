----------------------------- MODULE MCAuthGate ------------------------------
(* AuthGate on small instances; see README.md for the bounds.              *)
EXTENDS AuthGate, TLC

\* Keys are interchangeable.
KeySymmetry == Permutations(Keys)

=============================================================================
