------------------------------ MODULE AuthGate -------------------------------
(***************************************************************************)
(* The auth plugin (plugin/builtin/auth/auth.go): the HTTP middleware that *)
(* admits or rejects a request, the BeforeRequest hook that names its      *)
(* user, and Reload.  The middleware takes the read lock once per          *)
(* question, not once per request: a Reload may come between two answers,  *)
(* and a request may be judged by parts of two configurations.             *)
(***************************************************************************)
EXTENDS Naturals, Sequences, SequencesExt

CONSTANTS Requests,   \* HTTP requests, one goroutine each
          Keys,       \* API keys
          NoKey,      \* no key in the Authorization header; no user
          MaxReloads  \* bound: Reload calls

ASSUME NoKeyAssumption == NoKey \notin Keys
ASSUME MaxReloadsAssumption == MaxReloads \in Nat

\* AuthConfig; Enabled is a pointer, "unset" where it is nil.
AuthConfig == [Enabled : {"true", "false", "unset"}, Keys : SUBSET Keys]

\* What the plugin holds of it.
Configs == [enabled : BOOLEAN, keys : SUBSET Keys]

VARIABLES
    plugin,    \* AuthPlugin.enabled and .keys
    reloads,   \* Reload calls so far
    req,       \* the requests, see RequestRecords
    inForce    \* history: inForce[r], the configurations since r's first read

vars == <<plugin, reloads, req, inForce>>

RequestRecords ==
    [pc : {"idle", "enabled", "skip", "extract", "validate", "hook",
           "admitted", "rejected"},
     skipped : BOOLEAN,             \* its path has a prefix in skip_paths
     key : Keys \cup {NoKey},       \* its Authorization header
     claimed : Keys \cup {NoKey},   \* user_id of its metadata
     ctxKey : Keys \cup {NoKey},    \* the key the middleware left in its context
     user : Keys \cup {NoKey}]      \* RequestInfo.UserID after the hooks

TypeOK ==
    /\ plugin \in Configs
    /\ reloads \in 0 .. MaxReloads
    /\ req \in [Requests -> RequestRecords]
    /\ inForce \in [Requests -> Seq(Configs)]

\* enabled is true by default when the plugin is set up.
Setup(cfg) == [enabled |-> cfg.Enabled # "false", keys |-> cfg.Keys]

Init ==
    /\ \E cfg \in AuthConfig : plugin = Setup(cfg)
    /\ reloads = 0
    /\ req = [r \in Requests |->
                 [pc |-> "idle", skipped |-> FALSE, key |-> NoKey,
                  claimed |-> NoKey, ctxKey |-> NoKey, user |-> NoKey]]
    /\ inForce = [r \in Requests |-> <<>>]

-----------------------------------------------------------------------------

\* r's goroutine goes from one place to the next.
Step(r, from, to) ==
    /\ req[r].pc = from
    /\ req' = [req EXCEPT ![r].pc = to]
    /\ UNCHANGED <<plugin, reloads, inForce>>

Arrive(r) ==
    /\ req[r].pc = "idle"
    /\ \E s \in BOOLEAN, k, u \in Keys \cup {NoKey} :
          req' = [req EXCEPT ![r] = [@ EXCEPT !.pc = "enabled", !.skipped = s,
                                              !.key = k, !.claimed = u]]
    /\ UNCHANGED <<plugin, reloads, inForce>>

\* The first of the locked reads.
IsEnabled(r) ==
    /\ req[r].pc = "enabled"
    /\ req' = [req EXCEPT ![r].pc = IF plugin.enabled THEN "skip" ELSE "hook"]
    /\ inForce' = [inForce EXCEPT ![r] = <<plugin>>]
    /\ UNCHANGED <<plugin, reloads>>

\* skipPaths is set by Setup only.
ShouldSkip(r) == Step(r, "skip", IF req[r].skipped THEN "hook" ELSE "extract")

ExtractAPIKey(r) ==
    Step(r, "extract", IF req[r].key = NoKey THEN "rejected" ELSE "validate")

\* Mutant of ValidateKey: the key of a rejected request is let through.
ValidateKeyForgotten(r) ==
    /\ req[r].pc = "validate"
    /\ req' = [req EXCEPT ![r].pc = "hook", ![r].ctxKey = req[r].key]
    /\ UNCHANGED <<plugin, reloads, inForce>>

\* Mutant of ValidateKey: with no key configured, no request is let through.
ValidateKeyStrict(r) ==
    /\ req[r].pc = "validate"
    /\ req' = IF req[r].key \in plugin.keys
              THEN [req EXCEPT ![r].pc = "hook", ![r].ctxKey = req[r].key]
              ELSE [req EXCEPT ![r].pc = "rejected"]
    /\ UNCHANGED <<plugin, reloads, inForce>>

\* The last of the locked reads; with no key configured any key will do.
ValidateKey(r) ==
    /\ req[r].pc = "validate"
    /\ req' = IF plugin.keys = {} \/ req[r].key \in plugin.keys
              THEN [req EXCEPT ![r].pc = "hook", ![r].ctxKey = req[r].key]
              ELSE [req EXCEPT ![r].pc = "rejected"]
    /\ UNCHANGED <<plugin, reloads, inForce>>

\* Mutant of BeforeRequest: the user the body names comes first.
BeforeRequestTrusting(r) ==
    /\ req[r].pc = "hook"
    /\ req' = [req EXCEPT ![r].pc = "admitted",
                 ![r].user = IF req[r].claimed # NoKey THEN req[r].claimed
                                                       ELSE req[r].ctxKey]
    /\ UNCHANGED <<plugin, reloads, inForce>>

\* buildRequestInfo takes the user from metadata.user_id of the body (an
\* OpenAI body's user goes to metadata.user, which nobody reads); the hook
\* replaces it by the key of the context, if there is one.
BeforeRequest(r) ==
    /\ req[r].pc = "hook"
    /\ req' = [req EXCEPT ![r].pc = "admitted",
                 ![r].user = IF req[r].ctxKey # NoKey THEN req[r].ctxKey
                                                      ELSE req[r].claimed]
    /\ UNCHANGED <<plugin, reloads, inForce>>

\* A request whose check goes on lives through the configuration c too.
InForceToo(c) ==
    [r \in Requests |-> IF req[r].pc \in {"skip", "extract", "validate"}
                        THEN Append(inForce[r], c) ELSE inForce[r]]

\* Mutant of Reload: an empty list is read as one empty key.
ReloadEmptyKey(cfg) ==
    /\ reloads < MaxReloads /\ reloads' = reloads + 1
    /\ plugin' = [enabled |-> IF cfg.Enabled = "unset" THEN plugin.enabled
                              ELSE cfg.Enabled = "true",
                  keys |-> IF cfg.Keys = {} THEN {NoKey} ELSE cfg.Keys]
    /\ inForce' = InForceToo(plugin')
    /\ UNCHANGED req

\* Under the write lock; a switch that is not configured keeps its position.
Reload(cfg) ==
    /\ reloads < MaxReloads /\ reloads' = reloads + 1
    /\ plugin' = [enabled |-> IF cfg.Enabled = "unset" THEN plugin.enabled
                              ELSE cfg.Enabled = "true",
                  keys |-> cfg.Keys]
    /\ inForce' = InForceToo(plugin')
    /\ UNCHANGED req

Next ==
    \/ \E r \in Requests :
          \/ Arrive(r) \/ IsEnabled(r) \/ ShouldSkip(r) \/ ExtractAPIKey(r)
          \/ ValidateKey(r) \/ BeforeRequest(r)
    \/ \E cfg \in AuthConfig : Reload(cfg)

Spec == Init /\ [][Next]_vars

-----------------------------------------------------------------------------
(* Properties.                                                             *)

\* auth.go:180: "with no key configured, all requests are let through".
Allowed(c, q) == ~c.enabled \/ q.skipped \/ c.keys = {} \/ q.key \in c.keys

\* What the middleware adds (auth.go:97-101): it never asks validateKey about a
\* request without a key, and rejects it also where no key is configured.
KeyMissing(c, q) == c.enabled /\ ~q.skipped /\ q.key = NoKey

\* The answer configuration c, alone, gives to request q.
Admits(c, q) == Allowed(c, q) /\ ~KeyMissing(c, q)

\* However reloads fall between the reads of the middleware, a request is
\* admitted only if one of the configurations in force during its check,
\* taken whole, admits it: mixing two never admits what both would reject.
AdmittedByOne ==
    \A r \in Requests :
        req[r].pc \in {"hook", "admitted"} =>
            \E c \in ToSet(inForce[r]) : Admits(c, req[r])

\* The other way about is not so: a request may be rejected that every
\* configuration in force admits (auth was on when it was asked for, and off
\* under the keys that reject it).  What is left: a rejected request found
\* auth on in the first configuration, and a later one does not know its key.
RejectedInOrder ==
    \A r \in Requests :
        req[r].pc = "rejected" =>
            /\ inForce[r][1].enabled
            /\ \E i \in DOMAIN inForce[r] :
                  ~Admits([inForce[r][i] EXCEPT !.enabled = TRUE], req[r])

\* A request whose check no reload disturbs is decided by the configuration
\* it met, both ways: the reloads before it left nothing behind.  It is let
\* through exactly when auth.go:180 says so, except that a request without a
\* key is turned away, also where auth is on and no key is configured.
DecidedAlone ==
    \A r \in Requests :
        (Len(inForce[r]) = 1 /\ req[r].pc \in {"hook", "admitted", "rejected"}) =>
            (req[r].pc # "rejected" <=>
                /\ Allowed(inForce[r][1], req[r])
                /\ ~KeyMissing(inForce[r][1], req[r]))

\* A request that got in by its key is handled, and its account picked, as
\* that key's, whatever user its body names; only a request that was not
\* asked for a key speaks for itself.
UserIsKey ==
    \A r \in Requests :
        (req[r].pc = "admitted" /\ req[r].user # req[r].key) =>
            /\ req[r].user = req[r].claimed
            /\ req[r].skipped \/ ~inForce[r][1].enabled

=============================================================================
