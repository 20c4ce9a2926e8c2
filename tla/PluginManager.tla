---------------------------- MODULE PluginManager ----------------------------
(***************************************************************************)
(* plugin.Manager: SetupAll, the Run* methods, ReloadAll and CloseAll.     *)
(* The four hook chains are built and run by the same code; chain stands   *)
(* for any one of them.                                                    *)
(*                                                                         *)
(* A chain is a Go slice: a length over a backing array.  A Run* method    *)
(* copies the slice under the read lock and walks the array after the      *)
(* unlock.  ReloadAll cuts the slice to length 0 and appends again, into   *)
(* the same array, so it writes where a run may still be reading.  A hook  *)
(* is one machine word: such a read returns the old or the new one.        *)
(***************************************************************************)
EXTENDS Naturals, Sequences, FiniteSets, SequencesExt

CONSTANTS Configured,   \* the number of entries of the plugins section
          Registered,   \* the entries whose name has a factory
          Runs,         \* concurrent calls of the Run* method
          MaxReloads,   \* bound: ReloadAll calls
          MayWithdraw   \* a reload may change what Hooks() returns

ASSUME ConfiguredAssumption == Configured \in Nat
ASSUME RegisteredAssumption == Registered \subseteq 1 .. Configured
ASSUME ReloadsAssumption == MaxReloads \in Nat
ASSUME MayWithdrawAssumption == MayWithdraw \in BOOLEAN

Entries == 1 .. Configured

\* A hook is the closure a plugin handed out at some configuration.
Hooks == [plugin : Entries, gen : 0 .. MaxReloads]

VARIABLES
    admin,        \* [pc, j]: the Setup / Reload / Close call, and its index
    initialized,  \* the plugins set up, in order
    offers,       \* the plugins whose Hooks() is not nil now
    gen,          \* gen[p]: reloads plugin p has taken
    arrays,       \* the backing arrays allocated so far
    chain,        \* [arr, len]: the slice header of the hook chain
    closed,       \* the plugins closed
    reloads,      \* ReloadAll calls so far
    run,          \* the Run* calls
    withdrawn     \* history: the plugins whose hook came or went in a reload

vars == <<admin, initialized, offers, gen, arrays, chain, closed, reloads,
          run, withdrawn>>

plugins == <<initialized, offers, gen>>
memory  == <<arrays, chain>>

Slices == [arr : Nat, len : 0 .. Configured]

RunRecords ==
    [pc : {"idle", "walk", "ok", "rejected"},
     slice : Slices, next : Nat, ran : Seq(Hooks), due : SUBSET Entries]

TypeOK ==
    /\ admin \in [pc : {"setup", "idle", "reload", "collect", "close",
                        "closed", "failed"}, j : 0 .. Configured + 1]
    /\ initialized \in Seq(Entries)
    /\ offers \subseteq Entries
    /\ gen \in [Entries -> 0 .. MaxReloads]
    /\ arrays \in Seq(Seq(Hooks))
    /\ chain \in Slices
    /\ closed \subseteq Entries
    /\ reloads \in 0 .. MaxReloads
    /\ run \in [Runs -> RunRecords]
    /\ withdrawn \subseteq Entries

NoSlice == [arr |-> 0, len |-> 0]

Init ==
    /\ admin = [pc |-> "setup", j |-> 1]
    /\ initialized = <<>>
    /\ offers = {}
    /\ gen = [p \in Entries |-> 0]
    /\ arrays = <<>>
    /\ chain = NoSlice
    /\ closed = {}
    /\ reloads = 0
    /\ run = [r \in Runs |-> [pc |-> "idle", slice |-> NoSlice, next |-> 1,
                              ran |-> <<>>, due |-> {}]]
    /\ withdrawn = {}

-----------------------------------------------------------------------------
(* Slices.                                                                 *)

\* The elements behind a slice header, as they are now.
Elements(s) == IF s.arr = 0 THEN <<>> ELSE SubSeq(arrays[s.arr], 1, s.len)

Capacity(s) == IF s.arr = 0 THEN 0 ELSE Len(arrays[s.arr])

\* append: in place while the capacity lasts, else into a new array of twice
\* the size (cells beyond the length repeat h; nothing reads them).
Append1(s, h) ==
    IF s.len < Capacity(s)
    THEN /\ arrays' = [arrays EXCEPT ![s.arr][s.len + 1] = h]
         /\ chain' = [s EXCEPT !.len = @ + 1]
    ELSE /\ arrays' = Append(arrays,
                 [i \in 1 .. (IF s.len = 0 THEN 1 ELSE 2 * s.len) |->
                     IF i <= s.len THEN Elements(s)[i] ELSE h])
         /\ chain' = [arr |-> Len(arrays) + 1, len |-> s.len + 1]

\* The hook plugin p hands out now is collected, if there is one.
CollectFrom(p, set) ==
    IF p \in set THEN Append1(chain, [plugin |-> p, gen |-> gen[p]])
                 ELSE UNCHANGED memory

-----------------------------------------------------------------------------
(* SetupAll, before the server starts.                                     *)

Goto(pc, j) == admin' = [pc |-> pc, j |-> j]

\* The call goes on and changes nothing else.
Only(pc, j) ==
    Goto(pc, j) /\ UNCHANGED <<plugins, memory, closed, reloads, run, withdrawn>>

\* The plugin is set up; whether it has a hook of this kind is its affair.
SetupOne ==
    /\ admin.pc = "setup" /\ admin.j \in Registered
    /\ initialized' = Append(initialized, admin.j)
    /\ \E o \in {offers, offers \cup {admin.j}} :
          /\ offers' = o
          /\ CollectFrom(admin.j, o)
    /\ Goto("setup", admin.j + 1)
    /\ UNCHANGED <<gen, closed, reloads, run, withdrawn>>

SkipUnregistered ==
    /\ admin.pc = "setup" /\ admin.j \in Entries \ Registered
    /\ Only("setup", admin.j + 1)

\* Setup returns an error, or SetupTimeout is over: SetupAll gives up and
\* leaves the plugins already set up as they are.
SetupFails ==
    /\ admin.pc = "setup" /\ admin.j \in Registered
    /\ Only("failed", 0)

SetupDone ==
    /\ admin.pc = "setup" /\ admin.j > Configured
    /\ Only("idle", 0)

-----------------------------------------------------------------------------
(* ReloadAll: the write lock is held from ReloadStart to the next "idle".  *)

ReloadStart ==
    /\ admin.pc = "idle" /\ reloads < MaxReloads
    /\ reloads' = reloads + 1
    /\ Goto("reload", 1)
    /\ UNCHANGED <<plugins, memory, closed, run, withdrawn>>

\* The plugin takes its new configuration, and may now offer a hook it did
\* not offer before, or offer none.
ReloadOne ==
    /\ admin.pc = "reload" /\ admin.j <= Len(initialized)
    /\ LET p == initialized[admin.j]
       IN  /\ gen' = [gen EXCEPT ![p] = reloads]
           /\ \E o \in IF MayWithdraw THEN {offers \ {p}, offers \cup {p}}
                                      ELSE {offers} :
                 /\ offers' = o
                 /\ withdrawn' = IF o = offers THEN withdrawn
                                               ELSE withdrawn \cup {p}
    /\ Goto("reload", admin.j + 1)
    /\ UNCHANGED <<initialized, memory, closed, reloads, run>>

\* The plugin is not Reloadable, or is not in the new configuration.
ReloadSkips ==
    /\ admin.pc = "reload" /\ admin.j <= Len(initialized)
    /\ Only("reload", admin.j + 1)

\* Reload returns an error: the hooks are not collected again, though the
\* plugins before this one already run with the new configuration.
ReloadFails ==
    /\ admin.pc = "reload" /\ admin.j <= Len(initialized)
    /\ Only("idle", 0)

\* Mutant of Truncate: the old hooks are kept, and collected once more.
TruncateForgotten ==
    /\ admin.pc = "reload" /\ admin.j > Len(initialized)
    /\ Only("collect", 1)

\* m.chain[:0] keeps the array.
Truncate ==
    /\ admin.pc = "reload" /\ admin.j > Len(initialized)
    /\ chain' = [chain EXCEPT !.len = 0]
    /\ Goto("collect", 1)
    /\ UNCHANGED <<plugins, arrays, closed, reloads, run, withdrawn>>

\* Mutant of CollectOne: hooks are collected last plugin first.
CollectReversed ==
    /\ admin.pc = "collect" /\ admin.j <= Len(initialized)
    /\ CollectFrom(Reverse(initialized)[admin.j], offers)
    /\ Goto("collect", admin.j + 1)
    /\ UNCHANGED <<plugins, closed, reloads, run, withdrawn>>

CollectOne ==
    /\ admin.pc = "collect" /\ admin.j <= Len(initialized)
    /\ CollectFrom(initialized[admin.j], offers)
    /\ Goto("collect", admin.j + 1)
    /\ UNCHANGED <<plugins, closed, reloads, run, withdrawn>>

ReloadDone ==
    /\ admin.pc = "collect" /\ admin.j > Len(initialized)
    /\ Only("idle", 0)

-----------------------------------------------------------------------------
(* CloseAll, also while a run of a handler that outlived the drain goes on.*)

CloseStart ==
    /\ admin.pc = "idle"
    /\ Only("close", Len(initialized))

\* Mutant of CloseOne: plugins are closed in the order they were set up.
CloseForward ==
    /\ admin.pc = "close" /\ admin.j > 0
    /\ closed' = closed \cup {Reverse(initialized)[admin.j]}
    /\ Goto("close", admin.j - 1)
    /\ UNCHANGED <<plugins, memory, reloads, run, withdrawn>>

\* The error of a Close is logged, and the others are closed all the same.
CloseOne ==
    /\ admin.pc = "close" /\ admin.j > 0
    /\ closed' = closed \cup {initialized[admin.j]}
    /\ Goto("close", admin.j - 1)
    /\ UNCHANGED <<plugins, memory, reloads, run, withdrawn>>

CloseDone ==
    /\ admin.pc = "close" /\ admin.j = 0
    /\ Only("closed", 0)

-----------------------------------------------------------------------------
(* RunBeforeRequest; the other Run* methods do not look for an error.      *)

\* The plugins a slice names, in order.
PluginsOf(hs) == [i \in DOMAIN hs |-> hs[i].plugin]

\* hooks := m.chain, under the read lock.
RunStart(r) ==
    /\ admin.pc \in {"idle", "closed"} /\ run[r].pc = "idle"
    /\ run' = [run EXCEPT ![r].pc = "walk", ![r].slice = chain,
                          ![r].due = ToSet(PluginsOf(Elements(chain)))]
    /\ UNCHANGED <<admin, plugins, memory, closed, reloads, withdrawn>>

\* The loop reads the next element of the array and calls it.
CallHook(r, outcome) ==
    /\ run[r].pc = "walk" /\ run[r].next <= run[r].slice.len
    /\ run' = [run EXCEPT
          ![r].ran = Append(@, arrays[run[r].slice.arr][run[r].next]),
          ![r].next = @ + 1,
          ![r].pc = outcome]
    /\ UNCHANGED <<admin, plugins, memory, closed, reloads, withdrawn>>

HookPasses(r) == CallHook(r, "walk")

HookRejects(r) == CallHook(r, "rejected")

RunDone(r) ==
    /\ run[r].pc = "walk" /\ run[r].next > run[r].slice.len
    /\ run' = [run EXCEPT ![r].pc = "ok"]
    /\ UNCHANGED <<admin, plugins, memory, closed, reloads, withdrawn>>

Admin ==
    \/ SetupOne \/ SkipUnregistered \/ SetupFails \/ SetupDone
    \/ ReloadStart \/ ReloadOne \/ ReloadSkips \/ ReloadFails
    \/ Truncate \/ CollectOne \/ ReloadDone
    \/ CloseStart \/ CloseOne \/ CloseDone

Next ==
    \/ Admin
    \/ \E r \in Runs :
          RunStart(r) \/ HookPasses(r) \/ HookRejects(r) \/ RunDone(r)

Spec == Init /\ [][Next]_vars

-----------------------------------------------------------------------------
(* Properties.                                                             *)

\* Each before the next in the configuration, so once at most.
InOrder(ps) == \A i, j \in DOMAIN ps : i < j => ps[i] < ps[j]

\* While nobody reloads, the chain holds the hook of every plugin that offers
\* one and of no other, once each and in configuration order, after any number
\* of successful and failed reloads.
ChainComplete ==
    (admin.pc = "idle" /\ withdrawn = {}) =>
        LET names == PluginsOf(Elements(chain))
        IN  ToSet(names) = offers /\ InOrder(names)

\* manager.go:119, 135, 146, "runs all hooks in order": of the plugins that have
\* not changed what they offer, a run calls those in the chain when it started,
\* each once and in order, a first part of them until it ends without an error
\* and all of them then.  Holds while reloads do not change which plugins offer
\* a hook, and is broken when they do: the hooks move to other cells of the
\* array a run is still walking.
RunsAllInOrder ==
    \A r \in Runs :
        LET called == PluginsOf(run[r].ran)
            counted == ToSet(called) \ withdrawn
        IN  /\ \A i, j \in DOMAIN called :
                  (i < j /\ {called[i], called[j]} \cap withdrawn = {})
                      => called[i] < called[j]
            /\ counted \subseteq run[r].due
            /\ \A p \in run[r].due \ (withdrawn \cup counted) :
                  run[r].pc # "ok" /\ \A q \in counted : q < p

\* A plugin is closed after every plugin that was set up after it, and so may
\* have been built on it.
ClosedInReverse ==
    \A i, j \in DOMAIN initialized :
        (i < j /\ initialized[i] \in closed) => initialized[j] \in closed

=============================================================================
