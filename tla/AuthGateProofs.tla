--------------------------- MODULE AuthGateProofs ----------------------------
(***************************************************************************)
(* For any number of requests, keys and reloads: a request is admitted     *)
(* only by a configuration in force during its check, and handled as the   *)
(* key it was admitted by.                                                 *)
(*                                                                         *)
(* The inductive invariant Judged says, for each place of a request's      *)
(* goroutine, what the reads so far have shown: while the check goes on,   *)
(* the last configuration in force is the plugin's; when it is over, some  *)
(* configuration in force stands behind the answer.                        *)
(***************************************************************************)
EXTENDS AuthGate, TLAPS

Checking == {"skip", "extract", "validate"}
Passed   == {"hook", "admitted"}

\* Some configuration of h knows keys, and k is none of them.
Refuses(h, k) == \E i \in DOMAIN h : h[i].keys # {} /\ k \notin h[i].keys

\* Before and during the check.
Checked(r) ==
    LET q == req[r]
        h == inForce[r]
    IN  /\ q.pc \in {"idle", "enabled"} \cup Checking => q.ctxKey = NoKey
        /\ q.pc \in Checking => Len(h) >= 1 /\ h[1].enabled /\ h[Len(h)] = plugin
        /\ q.pc \in {"extract", "validate"} => ~q.skipped
        /\ q.pc = "validate" => q.key # NoKey

\* After it.
Decided(r) ==
    LET q == req[r]
        h == inForce[r]
    IN  /\ q.pc \in Passed =>
              /\ Len(h) >= 1
              /\ \E i \in DOMAIN h : Admits(h[i], q)
              /\ IF q.ctxKey = NoKey THEN q.skipped \/ ~h[1].enabled
                                     ELSE q.ctxKey = q.key
        /\ q.pc = "admitted" =>
              q.user = IF q.ctxKey # NoKey THEN q.ctxKey ELSE q.claimed
        /\ q.pc = "rejected" =>
              /\ Len(h) >= 1 /\ h[1].enabled /\ ~q.skipped
              /\ q.key = NoKey \/ Refuses(h, q.key)

Judged == \A r \in Requests : Checked(r) /\ Decided(r)

-----------------------------------------------------------------------------
(* Types.                                                                  *)

\* A plugin set up or reloaded holds a switch and keys.
LEMMA ReloadedConfig ==
    ASSUME TypeOK, NEW cfg \in AuthConfig, Reload(cfg)
    PROVE  plugin' \in Configs
BY DEF TypeOK, AuthConfig, Configs, Reload

LEMMA TypeInit == Init => TypeOK
<1> SUFFICES ASSUME Init PROVE TypeOK
  OBVIOUS
<1>1. plugin \in Configs
  BY DEF Init, AuthConfig, Configs, Setup
<1>2. inForce \in [Requests -> Seq(Configs)]
  BY DEF Init
<1>3. req \in [Requests -> RequestRecords]
  BY DEF Init, RequestRecords
<1>4. reloads \in 0 .. MaxReloads
  <2>1. reloads = 0
    BY DEF Init
  <2> QED
    BY <2>1, MaxReloadsAssumption
<1> QED
  BY <1>1, <1>2, <1>3, <1>4 DEF TypeOK

LEMMA TypeStep == TypeOK /\ [Next]_vars => TypeOK'
<1> SUFFICES ASSUME TypeOK, [Next]_vars PROVE TypeOK'
  OBVIOUS
<1> USE DEF TypeOK
<1>1. CASE UNCHANGED vars
  BY <1>1 DEF vars
<1>2. ASSUME NEW r \in Requests, Arrive(r) PROVE TypeOK'
  <2>1. PICK s \in BOOLEAN, k, u \in Keys \cup {NoKey} :
           req' = [req EXCEPT ![r] = [@ EXCEPT !.pc = "enabled", !.skipped = s,
                                               !.key = k, !.claimed = u]]
    BY <1>2 DEF Arrive
  <2>2. req' \in [Requests -> RequestRecords]
    BY <2>1 DEF RequestRecords
  <2> QED
    BY <1>2, <2>2 DEF Arrive
<1>3. ASSUME NEW r \in Requests, IsEnabled(r) PROVE TypeOK'
  <2>1. req' \in [Requests -> RequestRecords]
    BY <1>3 DEF IsEnabled, RequestRecords
  <2>2. inForce' \in [Requests -> Seq(Configs)]
    <3>1. <<plugin>> \in Seq(Configs)
      OBVIOUS
    <3> QED
      BY <1>3, <3>1 DEF IsEnabled
  <2> QED
    BY <1>3, <2>1, <2>2 DEF IsEnabled
<1>4. ASSUME NEW r \in Requests,
             ShouldSkip(r) \/ ExtractAPIKey(r) \/ ValidateKey(r) \/ BeforeRequest(r)
      PROVE  TypeOK'
  <2>1. req' \in [Requests -> RequestRecords]
    <3>1. ASSUME NEW from, NEW to \in {"hook", "extract", "rejected", "validate"},
                 Step(r, from, to)
          PROVE  req' \in [Requests -> RequestRecords]
      <4>1. req[r] \in RequestRecords
        OBVIOUS
      <4>2. [req[r] EXCEPT !.pc = to] \in RequestRecords
        BY <4>1 DEF RequestRecords
      <4>3. req' = [req EXCEPT ![r] = [req[r] EXCEPT !.pc = to]]
        BY <3>1 DEF Step
      <4> QED
        BY <4>2, <4>3
    <3>2. CASE ShouldSkip(r) \/ ExtractAPIKey(r)
      BY <3>1, <3>2 DEF ShouldSkip, ExtractAPIKey
    <3>3. CASE ValidateKey(r)
      BY <3>3 DEF ValidateKey, RequestRecords
    <3>4. CASE BeforeRequest(r)
      <4> DEFINE u == IF req[r].ctxKey # NoKey THEN req[r].ctxKey
                                               ELSE req[r].claimed
      <4>1. req[r] \in RequestRecords /\ u \in Keys \cup {NoKey}
        BY DEF RequestRecords
      <4>2. req' = [req EXCEPT ![r] = [@ EXCEPT !.pc = "admitted", !.user = u]]
        BY <3>4 DEF BeforeRequest
      <4> HIDE DEF u
      <4> QED
        BY <4>1, <4>2 DEF RequestRecords
    <3> QED
      BY <1>4, <3>1, <3>2, <3>3, <3>4
  <2> QED
    BY <1>4, <2>1
       DEF ShouldSkip, ExtractAPIKey, ValidateKey, BeforeRequest, Step
<1>5. ASSUME NEW cfg \in AuthConfig, Reload(cfg) PROVE TypeOK'
  <2>1. plugin' \in Configs
    BY <1>5, ReloadedConfig
  <2>2. inForce' \in [Requests -> Seq(Configs)]
    BY <1>5, <2>1 DEF Reload, InForceToo
  <2> QED
    BY <1>5, <2>1, <2>2, MaxReloadsAssumption DEF Reload
<1> QED
  BY <1>1, <1>2, <1>3, <1>4, <1>5 DEF Next

\* What the plugin holds and what a request remembers stay what they are.
THEOREM Typing == Spec => []TypeOK
BY TypeInit, TypeStep, PTL DEF Spec

-----------------------------------------------------------------------------
(* The invariant.                                                          *)

LEMMA JudgedInit == Init => Judged
BY DEF Init, Judged, Checked, Decided, Checking, Passed

\* The check of another request, and its history, are its own.
LEMMA OtherUntouched ==
    ASSUME NEW r \in Requests, Checked(r), Decided(r),
           req'[r] = req[r], inForce'[r] = inForce[r], plugin' = plugin
    PROVE  Checked(r)' /\ Decided(r)'
BY DEF Checked, Decided, Admits, Allowed, KeyMissing, Refuses

\* A reload appends to the history of a check under way, and ends none.
LEMMA ReloadKeeps ==
    ASSUME TypeOK, TypeOK', Judged, NEW cfg \in AuthConfig, Reload(cfg),
           NEW r \in Requests
    PROVE  Checked(r)' /\ Decided(r)'
<1>1. req' = req /\ Checked(r) /\ Decided(r)
  BY DEF Reload, Judged
<1>2. CASE req[r].pc \in Checking
  <2>1. inForce'[r] = Append(inForce[r], plugin')
    BY <1>2 DEF Reload, InForceToo, Checking
  <2>2. inForce[r] \in Seq(Configs) /\ plugin' \in Configs
    BY DEF TypeOK
  <2>3. Len(inForce[r]) >= 1
    BY <1>1, <1>2 DEF Checked
  <2>4. /\ Len(inForce'[r]) = Len(inForce[r]) + 1
        /\ inForce'[r][Len(inForce'[r])] = plugin'
        /\ inForce'[r][1] = inForce[r][1]
    BY <2>1, <2>2, <2>3
  <2>5. Checked(r)'
    BY <1>1, <1>2, <2>2, <2>3, <2>4 DEF Checked
  <2>6. Decided(r)'
    BY <1>1, <1>2 DEF Decided, Checking, Passed
  <2> QED
    BY <2>5, <2>6
<1>3. CASE req[r].pc \notin Checking
  <2>1. inForce'[r] = inForce[r]
    BY <1>3 DEF Reload, InForceToo, Checking
  <2> QED
    BY <1>1, <1>3, <2>1
       DEF Checked, Decided, Admits, Allowed, KeyMissing, Refuses
<1> QED
  BY <1>2, <1>3

LEMMA JudgedStep == TypeOK /\ Judged /\ [Next]_vars => Judged'
<1> SUFFICES ASSUME TypeOK, Judged, [Next]_vars, NEW q \in Requests
             PROVE  Checked(q)' /\ Decided(q)'
  BY DEF Judged
<1>0. /\ Checked(q) /\ Decided(q)
      /\ req[q] \in RequestRecords /\ inForce[q] \in Seq(Configs)
      /\ plugin \in Configs
  BY DEF Judged, TypeOK
<1>1. CASE UNCHANGED vars
  BY <1>0, <1>1, OtherUntouched DEF vars
<1>2. ASSUME NEW r \in Requests,
             \/ Arrive(r) \/ IsEnabled(r) \/ ShouldSkip(r) \/ ExtractAPIKey(r)
             \/ ValidateKey(r) \/ BeforeRequest(r),
             r # q
      PROVE  Checked(q)' /\ Decided(q)'
  <2>1. req'[q] = req[q] /\ inForce'[q] = inForce[q] /\ plugin' = plugin
    BY <1>2 DEF TypeOK, Arrive, IsEnabled, ShouldSkip, ExtractAPIKey,
                ValidateKey, BeforeRequest, Step
  <2> QED
    BY <1>0, <2>1, OtherUntouched
<1>3. CASE Arrive(q)
  <2>1. PICK s \in BOOLEAN, k, u \in Keys \cup {NoKey} :
           req'[q] = [req[q] EXCEPT !.pc = "enabled", !.skipped = s,
                                    !.key = k, !.claimed = u]
    BY <1>3 DEF Arrive, TypeOK
  <2>2. req'[q].pc = "enabled" /\ req'[q].ctxKey = NoKey
    BY <1>0, <1>3, <2>1 DEF Arrive, Checked, RequestRecords
  <2> QED
    BY <2>2 DEF Checked, Decided, Checking, Passed
<1>4. CASE IsEnabled(q)
  <2>1. /\ req'[q] = [req[q] EXCEPT !.pc = IF plugin.enabled THEN "skip" ELSE "hook"]
        /\ inForce'[q] = <<plugin>> /\ plugin' = plugin
        /\ req[q].ctxKey = NoKey
    BY <1>0, <1>4 DEF IsEnabled, TypeOK, Checked
  <2>2. Len(inForce'[q]) = 1 /\ inForce'[q][1] = plugin /\ 1 \in DOMAIN inForce'[q]
    BY <2>1
  <2>3. CASE plugin.enabled
    <3>1. req'[q].pc = "skip" /\ req'[q].ctxKey = NoKey
      BY <1>0, <2>1, <2>3 DEF RequestRecords
    <3> QED
      BY <2>1, <2>2, <2>3, <3>1 DEF Checked, Decided, Checking, Passed
  <2>4. CASE ~plugin.enabled
    <3>1. req'[q].pc = "hook" /\ req'[q].ctxKey = NoKey
      BY <1>0, <2>1, <2>4 DEF RequestRecords
    <3>2. Admits(inForce'[q][1], req'[q])
      BY <2>2, <2>4 DEF Admits, Allowed, KeyMissing
    <3> QED
      BY <2>1, <2>2, <2>4, <3>1, <3>2
         DEF Checked, Decided, Checking, Passed, Admits, Allowed, KeyMissing
  <2> QED
    BY <2>3, <2>4
<1>5. CASE ShouldSkip(q)
  <2>1. /\ req'[q] = [req[q] EXCEPT !.pc = IF req[q].skipped THEN "hook" ELSE "extract"]
        /\ inForce'[q] = inForce[q] /\ plugin' = plugin
        /\ req[q].pc = "skip"
    BY <1>5 DEF ShouldSkip, Step, TypeOK
  <2>2. /\ req[q].ctxKey = NoKey /\ Len(inForce[q]) >= 1 /\ inForce[q][1].enabled
        /\ inForce[q][Len(inForce[q])] = plugin
    BY <1>0, <2>1 DEF Checked, Checking
  <2>3. CASE req[q].skipped
    <3>1. /\ req'[q].pc = "hook" /\ req'[q].skipped
          /\ req'[q].ctxKey = NoKey
      BY <1>0, <2>1, <2>2, <2>3 DEF RequestRecords
    <3>2. 1 \in DOMAIN inForce'[q] /\ Admits(inForce'[q][1], req'[q])
      BY <1>0, <2>1, <2>2, <3>1 DEF Admits, Allowed, KeyMissing
    <3> QED
      BY <2>1, <2>2, <3>1, <3>2
         DEF Checked, Decided, Checking, Passed, Admits, Allowed, KeyMissing
  <2>4. CASE ~req[q].skipped
    <3>1. /\ req'[q].pc = "extract" /\ ~req'[q].skipped
          /\ req'[q].ctxKey = NoKey
      BY <1>0, <2>1, <2>2, <2>4 DEF RequestRecords
    <3> QED
      BY <2>1, <2>2, <3>1 DEF Checked, Decided, Checking, Passed
  <2> QED
    BY <2>3, <2>4
<1>6. CASE ExtractAPIKey(q)
  <2>1. /\ req'[q] = [req[q] EXCEPT !.pc = IF req[q].key = NoKey
                                           THEN "rejected" ELSE "validate"]
        /\ inForce'[q] = inForce[q] /\ plugin' = plugin
        /\ req[q].pc = "extract"
    BY <1>6 DEF ExtractAPIKey, Step, TypeOK
  <2>2. /\ req[q].ctxKey = NoKey /\ Len(inForce[q]) >= 1 /\ inForce[q][1].enabled
        /\ inForce[q][Len(inForce[q])] = plugin /\ ~req[q].skipped
    BY <1>0, <2>1 DEF Checked, Checking
  <2>3. /\ req'[q].pc = IF req[q].key = NoKey THEN "rejected" ELSE "validate"
        /\ req'[q].key = req[q].key /\ ~req'[q].skipped
        /\ req'[q].ctxKey = NoKey
    BY <1>0, <2>1, <2>2 DEF RequestRecords
  <2> QED
    BY <2>1, <2>2, <2>3 DEF Checked, Decided, Checking, Passed
<1>7. CASE ValidateKey(q)
  <2>1. /\ inForce'[q] = inForce[q] /\ plugin' = plugin
        /\ req[q].pc = "validate"
    BY <1>7 DEF ValidateKey, TypeOK
  <2>2. /\ Len(inForce[q]) >= 1 /\ inForce[q][1].enabled
        /\ inForce[q][Len(inForce[q])] = plugin /\ ~req[q].skipped
        /\ req[q].key # NoKey
        /\ Len(inForce[q]) \in DOMAIN inForce[q]
    BY <1>0, <2>1 DEF Checked, Checking
  <2>3. CASE plugin.keys = {} \/ req[q].key \in plugin.keys
    <3>1. /\ req'[q].pc = "hook" /\ req'[q].ctxKey = req[q].key
          /\ req'[q].key = req[q].key
      BY <1>0, <1>7, <2>3 DEF ValidateKey, TypeOK, RequestRecords
    <3>2. Admits(inForce'[q][Len(inForce[q])], req'[q])
      BY <2>1, <2>2, <2>3, <3>1 DEF Admits, Allowed, KeyMissing
    <3> QED
      BY <2>1, <2>2, <3>1, <3>2
         DEF Checked, Decided, Checking, Passed, Admits, Allowed, KeyMissing
  <2>4. CASE ~(plugin.keys = {} \/ req[q].key \in plugin.keys)
    <3>1. /\ req'[q].pc = "rejected" /\ req'[q].key = req[q].key
          /\ ~req'[q].skipped
      BY <1>0, <1>7, <2>2, <2>4 DEF ValidateKey, TypeOK, RequestRecords
    <3>2. Refuses(inForce'[q], req'[q].key)
      BY <2>1, <2>2, <2>4, <3>1 DEF Refuses
    <3> QED
      BY <2>1, <2>2, <3>1, <3>2 DEF Checked, Decided, Checking, Passed, Refuses
  <2> QED
    BY <2>3, <2>4
<1>8. CASE BeforeRequest(q)
  <2>1. /\ inForce'[q] = inForce[q] /\ plugin' = plugin
        /\ req[q].pc = "hook"
    BY <1>8 DEF BeforeRequest, TypeOK
  <2>2. /\ req'[q].pc = "admitted" /\ req'[q].skipped = req[q].skipped
        /\ req'[q].key = req[q].key /\ req'[q].ctxKey = req[q].ctxKey
        /\ req'[q].claimed = req[q].claimed
        /\ req'[q].user = IF req[q].ctxKey # NoKey THEN req[q].ctxKey
                                                    ELSE req[q].claimed
    BY <1>0, <1>8 DEF BeforeRequest, TypeOK, RequestRecords
  <2>3. \A i \in DOMAIN inForce[q] :
           Admits(inForce[q][i], req[q]) => Admits(inForce'[q][i], req'[q])
    BY <2>1, <2>2 DEF Admits, Allowed, KeyMissing
  <2> QED
    BY <1>0, <2>1, <2>2, <2>3 DEF Checked, Decided, Checking, Passed
<1>9. ASSUME NEW cfg \in AuthConfig, Reload(cfg)
      PROVE  Checked(q)' /\ Decided(q)'
  BY <1>9, ReloadKeeps, TypeStep
<1> QED
  BY <1>1, <1>2, <1>3, <1>4, <1>5, <1>6, <1>7, <1>8, <1>9 DEF Next

IInv == TypeOK /\ Judged

\* The invariant holds in every state.
THEOREM Inductive == Spec => []IInv
<1>1. Init => IInv
  BY TypeInit, JudgedInit DEF IInv
<1>2. IInv /\ [Next]_vars => IInv'
  BY TypeStep, JudgedStep DEF IInv
<1> QED
  BY <1>1, <1>2, PTL DEF Spec

-----------------------------------------------------------------------------
(* What follows.                                                           *)

\* Reloads between the reads of the middleware never let a request in that
\* every configuration in force would have kept out.
THEOREM AdmittedByAConfiguration == Spec => []AdmittedByOne
<1>1. IInv => AdmittedByOne
  <2> SUFFICES ASSUME IInv, NEW r \in Requests, req[r].pc \in Passed
               PROVE  \E c \in ToSet(inForce[r]) : Admits(c, req[r])
    BY DEF AdmittedByOne, Passed
  <2>1. PICK i \in DOMAIN inForce[r] : Admits(inForce[r][i], req[r])
    BY DEF IInv, Judged, Decided
  <2>2. inForce[r][i] \in ToSet(inForce[r])
    BY DEF ToSet
  <2> QED
    BY <2>1, <2>2
<1> QED
  BY <1>1, Inductive, PTL

\* A request is rejected only if auth was on when it came and some
\* configuration in force does not know its key.
THEOREM RejectedForAReason == Spec => []RejectedInOrder
<1>1. IInv => RejectedInOrder
  <2> SUFFICES ASSUME IInv, NEW r \in Requests, req[r].pc = "rejected"
               PROVE  /\ inForce[r][1].enabled
                      /\ \E i \in DOMAIN inForce[r] :
                            ~Admits([inForce[r][i] EXCEPT !.enabled = TRUE], req[r])
    BY DEF RejectedInOrder
  <2>1. /\ Len(inForce[r]) >= 1 /\ inForce[r][1].enabled /\ ~req[r].skipped
        /\ req[r].key = NoKey \/ Refuses(inForce[r], req[r].key)
        /\ inForce[r] \in Seq(Configs)
    BY DEF IInv, TypeOK, Judged, Decided
  <2>2. \A c \in Configs : /\ [c EXCEPT !.enabled = TRUE].enabled
                           /\ [c EXCEPT !.enabled = TRUE].keys = c.keys
    BY DEF Configs
  <2>3. CASE req[r].key = NoKey
    <3>1. 1 \in DOMAIN inForce[r] /\ inForce[r][1] \in Configs
      BY <2>1
    <3> QED
      BY <2>1, <2>2, <2>3, <3>1 DEF Admits, Allowed, KeyMissing
  <2>4. CASE Refuses(inForce[r], req[r].key)
    <3>1. PICK i \in DOMAIN inForce[r] :
             inForce[r][i].keys # {} /\ req[r].key \notin inForce[r][i].keys
      BY <2>4 DEF Refuses
    <3>2. inForce[r][i] \in Configs
      BY <2>1
    <3> QED
      BY <2>1, <2>2, <3>1, <3>2 DEF Admits, Allowed, KeyMissing
  <2> QED
    BY <2>1, <2>3, <2>4
<1> QED
  BY <1>1, Inductive, PTL

\* A request no reload disturbs gets the answer of its one configuration: what
\* validateKey would let through, less the requests without a key.
THEOREM UndisturbedIsExact == Spec => []DecidedAlone
<1>1. IInv => DecidedAlone
  <2> SUFFICES ASSUME IInv, NEW r \in Requests, Len(inForce[r]) = 1,
                      req[r].pc \in Passed \cup {"rejected"}
               PROVE  req[r].pc # "rejected" <=> Admits(inForce[r][1], req[r])
    BY DEF DecidedAlone, Passed, Admits
  <2>1. inForce[r] \in Seq(Configs) /\ Decided(r)
    BY DEF IInv, TypeOK, Judged
  <2>2. \A i \in DOMAIN inForce[r] : i = 1
    BY <2>1
  <2>3. CASE req[r].pc \in Passed
    BY <2>1, <2>2, <2>3 DEF Decided, Passed
  <2>4. CASE req[r].pc = "rejected"
    BY <2>1, <2>2, <2>4 DEF Decided, Refuses, Admits, Allowed, KeyMissing
  <2> QED
    BY <2>3, <2>4
<1> QED
  BY <1>1, Inductive, PTL

\* A request that was let in by its key is handled as that key's.
THEOREM KeyNamesUser == Spec => []UserIsKey
<1>1. IInv => UserIsKey
  BY DEF IInv, Judged, Decided, Passed, UserIsKey
<1> QED
  BY <1>1, Inductive, PTL
=============================================================================
