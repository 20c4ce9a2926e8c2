---------------------------- MODULE AccountLease ----------------------------
(***************************************************************************)
(* What the account pool is promised by the proxy, whatever happens inside *)
(* a request: a request takes at most one concurrency slot of one account, *)
(* it gives a slot back at most once and only a slot it holds, and no      *)
(* account ever has more than Limit slots taken.                           *)
(*                                                                         *)
(* The proxy does not promise that every slot comes back: the exits that   *)
(* keep one are named by DefaultProxy!LeakExits.                           *)
(***************************************************************************)
EXTENDS Naturals, FiniteSets

CONSTANTS Requests,   \* HTTP requests
          Accounts,   \* upstream accounts of the pool
          NoAccount,  \* "holds no account"
          Limit       \* slots per account

VARIABLES holder,     \* holder[r]: the account r holds a slot of, or NoAccount
          spent       \* the requests that have taken their slot

vars == <<holder, spent>>

\* The requests that hold a slot of account a.
Tenants(a) == {r \in Requests : holder[r] = a}

Init ==
    /\ holder = [r \in Requests |-> NoAccount]
    /\ spent = {}

Acquire(r, a) ==
    /\ r \notin spent
    /\ Cardinality(Tenants(a)) < Limit
    /\ holder' = [holder EXCEPT ![r] = a]
    /\ spent' = spent \cup {r}

Return(r) ==
    /\ holder[r] # NoAccount
    /\ holder' = [holder EXCEPT ![r] = NoAccount]
    /\ UNCHANGED spent

Next ==
    \E r \in Requests :
        \/ \E a \in Accounts : Acquire(r, a)
        \/ Return(r)

Spec == Init /\ [][Next]_vars

=============================================================================
