------------------------- MODULE PluginManagerProofs --------------------------
(***************************************************************************)
(* For any number of plugins, runs and reloads: hooks run in configuration *)
(* order, each once, although ReloadAll rewrites the array a run is        *)
(* walking, and plugins close in reverse order.                            *)
(*                                                                         *)
(* The reason is that a reload collects the same plugins in the same       *)
(* order: a cell is only ever overwritten with a hook of the plugin whose  *)
(* hook it held.  The invariant Whole says so: while the hooks are being   *)
(* collected, the cells up to chain.len name the offering plugins met so   *)
(* far, and the cells behind it still name the others.                     *)
(***************************************************************************)
EXTENDS PluginManager, TLAPS

\* What a slice header points at exists.
Valid(s) ==
    IF s.arr = 0 THEN s.len = 0
                 ELSE s.arr \in DOMAIN arrays /\ s.len <= Len(arrays[s.arr])

\* Where the calls of the admin stand.
Progress ==
    /\ InOrder(initialized) /\ Len(initialized) <= Configured
    /\ admin.pc = "setup" =>
          /\ admin.j >= 1 /\ Len(initialized) < admin.j /\ chain.len < admin.j
          /\ \A i \in DOMAIN initialized : initialized[i] < admin.j
    /\ admin.pc \in {"reload", "collect"} =>
          admin.j \in 1 .. Len(initialized) + 1
    /\ admin.pc = "collect" => chain.len < admin.j
    /\ admin.pc = "close" => admin.j <= Len(initialized)

Slicing ==
    /\ Valid(chain)
    /\ \A r \in Runs : Valid(run[r].slice) /\ run[r].next >= 1

Shape == TypeOK /\ Progress /\ Slicing

-----------------------------------------------------------------------------
(* append.                                                                 *)

\* A cell is added behind the slice, and those in front of it stay; an array
\* changes in that cell at most, and keeps its length.
Appended(h) ==
    /\ chain' \in [arr : Nat \ {0}, len : Nat] /\ chain'.len = chain.len + 1
    /\ arrays' \in Seq(Seq(Hooks))
    /\ chain'.arr \in DOMAIN arrays' /\ chain'.len <= Len(arrays'[chain'.arr])
    /\ arrays'[chain'.arr][chain.len + 1] = h
    /\ \A i \in 1 .. chain.len :
          arrays'[chain'.arr][i] = arrays[chain.arr][i]
    /\ \A a \in DOMAIN arrays :
          /\ a \in DOMAIN arrays'
          /\ Len(arrays'[a]) = Len(arrays[a])

LEMMA AppendInPlace ==
    ASSUME arrays \in Seq(Seq(Hooks)), chain \in Slices, Valid(chain),
           NEW h \in Hooks, Append1(chain, h), chain.len < Capacity(chain)
    PROVE  /\ Appended(h)
           /\ chain'.arr = chain.arr
           /\ \A a \in DOMAIN arrays : \A i \in DOMAIN arrays[a] :
                 arrays'[a][i] = IF a = chain.arr /\ i = chain.len + 1
                                 THEN h ELSE arrays[a][i]
<1> DEFINE c == chain.arr
           n == chain.len + 1
<1>1. c \in DOMAIN arrays /\ c # 0 /\ n \in 1 .. Len(arrays[c])
  BY ConfiguredAssumption DEF Valid, Capacity, Slices
<1>2. arrays' = [arrays EXCEPT ![c][n] = h] /\ chain' = [chain EXCEPT !.len = n]
  BY DEF Append1
<1>3. DOMAIN arrays' = DOMAIN arrays /\ Len(arrays') = Len(arrays)
  BY <1>2
<1>4. arrays[c] \in Seq(Hooks)
  BY <1>1
<1>5. arrays'[c] = [arrays[c] EXCEPT ![n] = h]
  BY <1>1, <1>2
<1>6. arrays'[c] \in Seq(Hooks) /\ Len(arrays'[c]) = Len(arrays[c])
  BY <1>1, <1>4, <1>5
<1>7. \A a \in DOMAIN arrays : a # c => arrays'[a] = arrays[a]
  BY <1>2
<1>8. arrays' \in Seq(Seq(Hooks))
  <2> DEFINE d == [arrays[c] EXCEPT ![n] = h]
  <2>1. d \in Seq(Hooks) /\ arrays' = [arrays EXCEPT ![c] = d]
    BY <1>2, <1>5, <1>6
  <2> HIDE DEF d
  <2> QED
    BY <1>1, <2>1
<1>9. chain' \in [arr : Nat \ {0}, len : Nat] /\ chain'.len = n /\ chain'.arr = c
  <2>1. chain.len \in Nat /\ c \in Nat
    BY ConfiguredAssumption DEF Slices
  <2>2. chain' = [arr |-> c, len |-> n]
    BY <1>2 DEF Slices
  <2> QED
    BY <1>1, <2>1, <2>2
<1>10. \A a \in DOMAIN arrays : \A i \in DOMAIN arrays[a] :
          arrays'[a][i] = IF a = c /\ i = n THEN h ELSE arrays[a][i]
  BY <1>5, <1>7
<1>11. \A i \in 1 .. chain.len : i \in DOMAIN arrays[c] /\ i # n
  BY <1>1, <1>4, ConfiguredAssumption DEF Slices
<1> QED
  <2>1. arrays'[c][n] = h
    BY <1>1, <1>10
  <2>2. \A i \in 1 .. chain.len : arrays'[c][i] = arrays[c][i]
    BY <1>1, <1>10, <1>11
  <2>3. \A a \in DOMAIN arrays : a \in DOMAIN arrays' /\ Len(arrays'[a]) = Len(arrays[a])
    BY <1>3, <1>6, <1>7
  <2>4. c \in DOMAIN arrays' /\ n <= Len(arrays'[c])
    BY <1>1, <1>3, <1>6
  <2> QED
    BY <1>8, <1>9, <1>10, <2>1, <2>2, <2>3, <2>4 DEF Appended

LEMMA AppendGrows ==
    ASSUME arrays \in Seq(Seq(Hooks)), chain \in Slices, Valid(chain),
           NEW h \in Hooks, Append1(chain, h), ~(chain.len < Capacity(chain))
    PROVE  Appended(h) /\ \A a \in DOMAIN arrays : arrays'[a] = arrays[a]
<1> DEFINE m == IF chain.len = 0 THEN 1 ELSE 2 * chain.len
           new == [i \in 1 .. m |-> IF i <= chain.len THEN Elements(chain)[i] ELSE h]
<1>1. chain.len \in Nat /\ m \in Nat /\ chain.len + 1 <= m
  BY ConfiguredAssumption DEF Slices
<1>2. \A i \in 1 .. chain.len :
         Elements(chain)[i] = arrays[chain.arr][i] /\ Elements(chain)[i] \in Hooks
  <2> SUFFICES ASSUME NEW i \in 1 .. chain.len
               PROVE  /\ Elements(chain)[i] = arrays[chain.arr][i]
                      /\ Elements(chain)[i] \in Hooks
    OBVIOUS
  <2>1. chain.arr \in DOMAIN arrays /\ chain.len <= Len(arrays[chain.arr])
        /\ chain.arr # 0
    BY <1>1 DEF Valid
  <2>2. arrays[chain.arr] \in Seq(Hooks)
    BY <2>1
  <2> QED
    BY <1>1, <2>1, <2>2 DEF Elements
<1>3. new \in Seq(Hooks) /\ Len(new) = m
  <2> HIDE DEF m
  <2>1. \A i \in 1 .. m : new[i] \in Hooks
    BY <1>1, <1>2
  <2> QED
    BY <1>1, <2>1
<1>4. \A i \in 1 .. chain.len : new[i] = arrays[chain.arr][i]
  BY <1>1, <1>2
<1>5. new[chain.len + 1] = h
  BY <1>1
<1>6. /\ arrays' = Append(arrays, new)
      /\ chain' = [arr |-> Len(arrays) + 1, len |-> chain.len + 1]
  BY DEF Append1
<1> HIDE DEF new, m
<1>7. /\ arrays' \in Seq(Seq(Hooks)) /\ Len(arrays') = Len(arrays) + 1
      /\ arrays'[Len(arrays) + 1] = new
      /\ \A a \in DOMAIN arrays : a \in DOMAIN arrays' /\ arrays'[a] = arrays[a]
  BY <1>3, <1>6
<1>8. arrays'[chain'.arr] = new /\ chain'.arr \in DOMAIN arrays'
  BY <1>6, <1>7
<1>9. chain' \in [arr : Nat \ {0}, len : Nat] /\ chain'.len = chain.len + 1
  BY <1>1, <1>6
<1> QED
  BY <1>1, <1>3, <1>4, <1>5, <1>7, <1>8, <1>9 DEF Appended

LEMMA Appending ==
    ASSUME arrays \in Seq(Seq(Hooks)), chain \in Slices, Valid(chain),
           NEW h \in Hooks, Append1(chain, h)
    PROVE  Appended(h)
BY AppendInPlace, AppendGrows

LEMMA Collecting ==
    ASSUME Shape, NEW p \in Entries, NEW set, CollectFrom(p, set)
    PROVE  \/ p \notin set /\ UNCHANGED memory
           \/ p \in set /\ Appended([plugin |-> p, gen |-> gen[p]])
<1>1. [plugin |-> p, gen |-> gen[p]] \in Hooks
  BY DEF Shape, TypeOK, Hooks
<1>2. arrays \in Seq(Seq(Hooks)) /\ chain \in Slices /\ Valid(chain)
  BY DEF Shape, TypeOK, Slicing
<1> QED
  BY <1>1, <1>2, Appending DEF CollectFrom

\* After a hook was collected, or not, every slice is valid.
LEMMA CollectingShape ==
    ASSUME Shape, NEW p \in Entries, NEW set, CollectFrom(p, set),
           chain.len < Configured, UNCHANGED run
    PROVE  /\ arrays' \in Seq(Seq(Hooks)) /\ chain' \in Slices /\ Slicing'
           /\ chain'.len <= chain.len + 1
<1>1. CASE UNCHANGED memory
  BY <1>1, ConfiguredAssumption
     DEF Shape, TypeOK, Slicing, Slices, Valid, memory
<1>2. CASE Appended([plugin |-> p, gen |-> gen[p]])
  <2>1. chain' \in Slices
    BY <1>2, ConfiguredAssumption DEF Appended, Shape, TypeOK, Slices
  <2>2. Valid(chain)'
    BY <1>2 DEF Appended, Valid
  <2>3. ASSUME NEW r \in Runs PROVE Valid(run[r].slice)' /\ run'[r].next >= 1
    BY <1>2 DEF Appended, Valid, Shape, Slicing
  <2> QED
    BY <1>2, <2>1, <2>2, <2>3, ConfiguredAssumption
       DEF Appended, Slicing, Shape, TypeOK, Slices
<1> QED
  BY <1>1, <1>2, Collecting

-----------------------------------------------------------------------------
(* Types.                                                                  *)

LEMMA ShapeInit == Init => Shape
<1> SUFFICES ASSUME Init PROVE Shape
  OBVIOUS
<1>1. 0 \in 0 .. Configured /\ 0 \in 0 .. MaxReloads /\ 1 \in 0 .. Configured + 1
  BY ConfiguredAssumption, ReloadsAssumption
<1>2. NoSlice \in Slices
  BY <1>1 DEF NoSlice, Slices
<1>3. run \in [Runs -> RunRecords]
  BY <1>2 DEF Init, RunRecords
<1>4. TypeOK
  <2>1. /\ initialized \in Seq(Entries) /\ arrays \in Seq(Seq(Hooks))
        /\ gen \in [Entries -> 0 .. MaxReloads]
    BY <1>1 DEF Init
  <2>2. admin \in [pc : {"setup", "idle", "reload", "collect", "close",
                         "closed", "failed"}, j : 0 .. Configured + 1]
    BY <1>1 DEF Init
  <2> QED
    BY <1>1, <1>2, <1>3, <2>1, <2>2 DEF Init, TypeOK
<1>5. Progress
  BY ConfiguredAssumption DEF Init, Progress, InOrder, NoSlice
<1>6. Slicing
  BY DEF Init, Slicing, Valid, NoSlice
<1> QED
  BY <1>4, <1>5, <1>6 DEF Shape

\* What the admin's calls do to everything but slices.
LEMMA AdminShape ==
    ASSUME Shape,
           \/ SkipUnregistered \/ SetupFails \/ SetupDone \/ ReloadStart
           \/ ReloadSkips \/ ReloadFails \/ ReloadDone \/ CloseStart \/ CloseDone
    PROVE  Shape'
<1> USE DEF Shape, Only, Goto, plugins, memory
<1>0. UNCHANGED <<initialized, offers, gen, arrays, chain, closed, run, withdrawn>>
  BY DEF SkipUnregistered, SetupFails, SetupDone, ReloadStart, ReloadSkips,
         ReloadFails, ReloadDone, CloseStart, CloseDone
<1>1. Slicing'
  BY <1>0 DEF Slicing, Valid
<1>2. Len(initialized) \in 0 .. Configured
  BY DEF TypeOK, Progress
<1>3. reloads' \in 0 .. MaxReloads
  BY ReloadsAssumption DEF TypeOK, SkipUnregistered, SetupFails, SetupDone,
     ReloadStart, ReloadSkips, ReloadFails, ReloadDone, CloseStart, CloseDone
<1>4. /\ admin' \in [pc : {"setup", "idle", "reload", "collect", "close",
                           "closed", "failed"}, j : 0 .. Configured + 1]
      /\ Progress'
  <2>1. CASE SkipUnregistered
    BY <1>0, <2>1, <1>2, ConfiguredAssumption
       DEF SkipUnregistered, TypeOK, Progress, InOrder, Entries, Slices
  <2>2. CASE SetupFails
    BY <1>0, <2>2, <1>2, ConfiguredAssumption
       DEF SetupFails, TypeOK, Progress, InOrder
  <2>3. CASE SetupDone
    BY <1>0, <2>3, <1>2, ConfiguredAssumption
       DEF SetupDone, TypeOK, Progress, InOrder
  <2>4. CASE ReloadStart
    BY <1>0, <2>4, <1>2, ConfiguredAssumption
       DEF ReloadStart, TypeOK, Progress, InOrder
  <2>5. CASE ReloadSkips
    BY <1>0, <2>5, <1>2, ConfiguredAssumption
       DEF ReloadSkips, TypeOK, Progress, InOrder
  <2>6. CASE ReloadFails \/ ReloadDone
    BY <1>0, <2>6, <1>2, ConfiguredAssumption
       DEF ReloadFails, ReloadDone, TypeOK, Progress, InOrder
  <2>7. CASE CloseStart
    BY <1>0, <2>7, <1>2, ConfiguredAssumption
       DEF CloseStart, TypeOK, Progress, InOrder
  <2>8. CASE CloseDone
    BY <1>0, <2>8, <1>2, ConfiguredAssumption
       DEF CloseDone, TypeOK, Progress, InOrder
  <2> QED
    BY <2>1, <2>2, <2>3, <2>4, <2>5, <2>6, <2>7, <2>8
<1> QED
  BY <1>0, <1>1, <1>3, <1>4 DEF TypeOK

LEMMA SetupShape == ASSUME Shape, SetupOne PROVE Shape'
<1> DEFINE p == admin.j
<1>1. p \in Entries /\ p \in 1 .. Configured /\ p + 1 \in 0 .. Configured + 1
  <2>1. p \in 1 .. Configured
    BY RegisteredAssumption DEF SetupOne
  <2> QED
    BY <2>1, ConfiguredAssumption DEF Entries
<1>2. PICK o \in {offers, offers \cup {p}} : offers' = o /\ CollectFrom(p, o)
  BY DEF SetupOne
<1>3. /\ admin.pc = "setup" /\ admin' = [pc |-> "setup", j |-> p + 1]
      /\ initialized' = Append(initialized, p)
      /\ UNCHANGED <<gen, closed, reloads, run, withdrawn>>
  BY DEF SetupOne, Goto
<1>4. /\ chain.len < p /\ chain.len \in Nat /\ Len(initialized) < p
      /\ \A i \in DOMAIN initialized : initialized[i] < p
      /\ initialized \in Seq(Entries) /\ InOrder(initialized)
  BY <1>3, ConfiguredAssumption DEF Shape, Progress, TypeOK, Slices
<1> HIDE DEF p
<1>5. /\ arrays' \in Seq(Seq(Hooks)) /\ chain' \in Slices /\ Slicing'
      /\ chain'.len <= chain.len + 1
  <2>1. chain.len < Configured
    BY <1>1, <1>4, ConfiguredAssumption
  <2> QED
    BY <1>1, <1>2, <1>3, <2>1, CollectingShape
<1>6. /\ initialized' \in Seq(Entries) /\ Len(initialized') = Len(initialized) + 1
      /\ \A i \in DOMAIN initialized' :
            initialized'[i] = IF i = Len(initialized) + 1 THEN p ELSE initialized[i]
      /\ \A i \in DOMAIN initialized' :
            i # Len(initialized) + 1 => i \in DOMAIN initialized
  BY <1>1, <1>3, <1>4
<1>7. /\ InOrder(initialized')
      /\ \A i \in DOMAIN initialized' : initialized'[i] < p + 1
  <2>1. \A i \in DOMAIN initialized : initialized[i] \in Int
    BY <1>4, ConfiguredAssumption DEF Entries
  <2>2. \A i \in DOMAIN initialized' : i \in Nat /\ i <= Len(initialized) + 1
    BY <1>6
  <2> QED
    BY <1>1, <1>4, <1>6, <2>1, <2>2 DEF InOrder
<1>8. Progress'
  <2>1. chain'.len \in Int /\ Len(initialized) \in Nat
    BY <1>4, <1>5, ConfiguredAssumption DEF Slices
  <2> QED
    BY <1>1, <1>3, <1>4, <1>5, <1>6, <1>7, <2>1, ConfiguredAssumption DEF Progress
<1>9. offers' \subseteq Entries
  BY <1>1, <1>2 DEF Shape, TypeOK
<1> QED
  BY <1>1, <1>3, <1>5, <1>6, <1>8, <1>9 DEF Shape, TypeOK

LEMMA ReloadShape ==
    ASSUME Shape, ReloadOne \/ Truncate \/ CloseOne
    PROVE  Shape'
<1>1. CASE ReloadOne
  <2>1. admin.j \in 1 .. Len(initialized) /\ initialized[admin.j] \in Entries
    BY <1>1, ConfiguredAssumption DEF Shape, TypeOK, Progress, ReloadOne
  <2>2. gen' \in [Entries -> 0 .. MaxReloads]
    BY <1>1, <2>1 DEF Shape, TypeOK, ReloadOne
  <2>3. offers' \subseteq Entries /\ withdrawn' \subseteq Entries
    BY <1>1, <2>1 DEF Shape, TypeOK, ReloadOne
  <2>4. /\ admin.pc = "reload" /\ admin' = [pc |-> "reload", j |-> admin.j + 1]
        /\ UNCHANGED <<initialized, arrays, chain, closed, reloads, run>>
    BY <1>1 DEF ReloadOne, Goto, memory
  <2>5. admin.j + 1 \in 1 .. Len(initialized) + 1 /\ Len(initialized) <= Configured
    BY <2>1 DEF Shape, Progress
  <2>6. admin.j + 1 \in 0 .. Configured + 1
    BY <2>5, ConfiguredAssumption DEF Shape, TypeOK
  <2>7. Progress'
    BY <2>4, <2>5 DEF Shape, Progress, InOrder
  <2>8. Slicing'
    BY <2>4 DEF Shape, Slicing, Valid
  <2> QED
    BY <2>2, <2>3, <2>4, <2>6, <2>7, <2>8 DEF Shape, TypeOK
<1>2. CASE Truncate
  <2>1. /\ admin.pc = "reload" /\ admin' = [pc |-> "collect", j |-> 1]
        /\ chain' = [chain EXCEPT !.len = 0]
        /\ UNCHANGED <<initialized, offers, gen, arrays, closed, reloads, run,
                       withdrawn>>
    BY <1>2 DEF Truncate, Goto, plugins
  <2>2. 1 \in 0 .. Configured + 1 /\ 0 \in 0 .. Configured
    BY ConfiguredAssumption
  <2>3. /\ chain' \in Slices /\ chain'.len = 0 /\ chain'.arr = chain.arr
        /\ chain.len \in Nat
    <3>1. chain.arr \in Nat /\ chain.len \in Nat
      BY ConfiguredAssumption DEF Shape, TypeOK, Slices
    <3>2. chain' = [arr |-> chain.arr, len |-> 0]
      BY <2>1 DEF Shape, TypeOK, Slices
    <3> QED
      BY <2>2, <3>1, <3>2 DEF Slices
  <2>4. Progress'
    <3>1. Len(initialized) \in Nat
      BY DEF Shape, TypeOK
    <3> QED
      BY <2>1, <2>3, <3>1 DEF Shape, Progress, InOrder
  <2>5. Slicing'
    <3>1. Valid(chain)'
      BY <2>1, <2>3 DEF Shape, TypeOK, Slicing, Valid
    <3>2. \A r \in Runs : Valid(run[r].slice)' /\ run'[r].next >= 1
      BY <2>1 DEF Shape, Slicing, Valid
    <3> QED
      BY <3>1, <3>2 DEF Slicing
  <2> QED
    BY <2>1, <2>2, <2>3, <2>4, <2>5 DEF Shape, TypeOK
<1>3. CASE CloseOne
  <2>1. /\ admin.pc = "close" /\ admin.j > 0
        /\ admin' = [pc |-> "close", j |-> admin.j - 1]
        /\ closed' = closed \cup {initialized[admin.j]}
        /\ UNCHANGED <<initialized, offers, gen, arrays, chain, reloads, run,
                       withdrawn>>
    BY <1>3 DEF CloseOne, Goto, plugins, memory
  <2>2. admin.j \in 1 .. Len(initialized) /\ initialized[admin.j] \in Entries
    BY <2>1, ConfiguredAssumption DEF Shape, TypeOK, Progress
  <2>3. admin.j - 1 \in 0 .. Configured + 1 /\ admin.j - 1 <= Len(initialized)
    BY <2>1, <2>2, ConfiguredAssumption DEF Shape, TypeOK
  <2>4. Progress'
    BY <2>1, <2>3 DEF Shape, Progress, InOrder
  <2>5. Slicing'
    BY <2>1 DEF Shape, Slicing, Valid
  <2> QED
    BY <2>1, <2>2, <2>3, <2>4, <2>5 DEF Shape, TypeOK
<1> QED
  BY <1>1, <1>2, <1>3

LEMMA CollectShape == ASSUME Shape, CollectOne PROVE Shape'
<1> DEFINE p == initialized[admin.j]
<1>1. /\ admin.pc = "collect" /\ admin' = [pc |-> "collect", j |-> admin.j + 1]
      /\ CollectFrom(p, offers)
      /\ UNCHANGED <<initialized, offers, gen, closed, reloads, run, withdrawn>>
  BY DEF CollectOne, Goto, plugins
<1>2. /\ admin.j \in 1 .. Len(initialized) /\ p \in Entries
      /\ Len(initialized) <= Configured /\ chain.len < admin.j /\ chain.len \in Nat
  BY ConfiguredAssumption DEF CollectOne, Shape, TypeOK, Progress, Slices
<1> HIDE DEF p
<1>3. /\ arrays' \in Seq(Seq(Hooks)) /\ chain' \in Slices /\ Slicing'
      /\ chain'.len <= chain.len + 1 /\ chain'.len \in Nat
  <2>1. chain.len < Configured
    BY <1>2, ConfiguredAssumption
  <2> QED
    BY <1>1, <1>2, <2>1, CollectingShape, ConfiguredAssumption DEF Slices
<1>4. /\ admin.j + 1 \in 1 .. Len(initialized) + 1 /\ chain'.len < admin.j + 1
      /\ admin.j + 1 \in 0 .. Configured + 1
  BY <1>2, <1>3, ConfiguredAssumption
<1>5. Progress'
  BY <1>1, <1>2, <1>4 DEF Shape, Progress, InOrder
<1> QED
  BY <1>1, <1>3, <1>4, <1>5 DEF Shape, TypeOK

LEMMA HookRead ==
    ASSUME Shape, NEW r \in Runs, NEW o, CallHook(r, o)
    PROVE  arrays[run[r].slice.arr][run[r].next] \in Hooks
<1>1. /\ run[r].slice \in Slices /\ Valid(run[r].slice) /\ run[r].next \in Nat
      /\ run[r].next >= 1 /\ run[r].next <= run[r].slice.len
  BY DEF CallHook, Shape, TypeOK, Slicing, RunRecords
<1>2. /\ run[r].slice.arr \in DOMAIN arrays
      /\ run[r].next \in 1 .. Len(arrays[run[r].slice.arr])
  BY <1>1, ConfiguredAssumption DEF Valid, Slices
<1>3. arrays[run[r].slice.arr] \in Seq(Hooks)
  BY <1>2 DEF Shape, TypeOK
<1> QED
  BY <1>2, <1>3

LEMMA RunShape ==
    ASSUME Shape, NEW r \in Runs,
           RunStart(r) \/ HookPasses(r) \/ HookRejects(r) \/ RunDone(r)
    PROVE  Shape'
<1>1. /\ UNCHANGED <<admin, initialized, offers, gen, arrays, chain, closed,
                     reloads, withdrawn>>
      /\ run' = [run EXCEPT ![r] = run'[r]]
  BY DEF Shape, TypeOK, RunStart, HookPasses, HookRejects, CallHook, RunDone,
         plugins, memory
<1>2. /\ run'[r] \in RunRecords /\ run'[r].next >= 1
      /\ run'[r].slice = chain \/ run'[r].slice = run[r].slice
  <2>1. run[r] \in RunRecords /\ run[r].next >= 1
    BY DEF Shape, TypeOK, Slicing
  <2>2. CASE RunStart(r)
    <3> DEFINE due == ToSet(PluginsOf(Elements(chain)))
    <3>1. due \subseteq Entries
      <4>1. chain \in Slices /\ Valid(chain) /\ arrays \in Seq(Seq(Hooks))
        BY DEF Shape, TypeOK, Slicing
      <4>2. \A i \in DOMAIN Elements(chain) : Elements(chain)[i] \in Hooks
        BY <4>1, ConfiguredAssumption DEF Valid, Elements, Slices
      <4> QED
        BY <4>2 DEF PluginsOf, ToSet, Hooks
    <3>2. run' = [run EXCEPT ![r] = [run[r] EXCEPT !.pc = "walk", !.slice = chain,
                                                   !.due = due]]
      BY <2>2 DEF RunStart
    <3> HIDE DEF due
    <3>3. chain \in Slices
      BY DEF Shape, TypeOK
    <3>4. run'[r] = [run[r] EXCEPT !.pc = "walk", !.slice = chain, !.due = due]
      BY <3>2 DEF Shape, TypeOK
    <3> QED
      BY <2>1, <3>1, <3>3, <3>4 DEF RunRecords
  <2>3. ASSUME NEW o \in {"walk", "rejected"}, CallHook(r, o)
        PROVE  /\ run'[r] \in RunRecords /\ run'[r].next >= 1
               /\ run'[r].slice = run[r].slice
    <3> DEFINE n == run[r].next
               h == arrays[run[r].slice.arr][n]
               ran == Append(run[r].ran, h)
    <3>1. n \in Nat /\ n >= 1 /\ n <= run[r].slice.len
      BY <2>1, <2>3 DEF CallHook, RunRecords
    <3>2. h \in Hooks
      BY <2>3, HookRead
    <3>3. run'[r] = [run[r] EXCEPT !.ran = ran, !.next = n + 1, !.pc = o]
      BY <2>3 DEF CallHook, Shape, TypeOK
    <3> HIDE DEF h
    <3>4. ran \in Seq(Hooks) /\ n + 1 \in Nat /\ n + 1 >= 1
      BY <2>1, <3>1, <3>2 DEF RunRecords
    <3> HIDE DEF ran, n
    <3> QED
      BY <2>1, <3>1, <3>3, <3>4 DEF RunRecords
  <2>4. CASE RunDone(r)
    BY <2>1, <2>4 DEF RunDone, Shape, TypeOK, RunRecords
  <2> QED
    BY <2>2, <2>3, <2>4 DEF HookPasses, HookRejects
<1>3. TypeOK'
  BY <1>1, <1>2 DEF Shape, TypeOK
<1>4. Progress'
  BY <1>1 DEF Shape, Progress, InOrder
<1>5. Slicing'
  <2>1. ASSUME NEW q \in Runs PROVE Valid(run[q].slice)' /\ run'[q].next >= 1
    BY <1>1, <1>2 DEF Shape, TypeOK, Slicing, Valid
  <2> QED
    BY <1>1, <2>1 DEF Shape, Slicing, Valid
<1> QED
  BY <1>3, <1>4, <1>5 DEF Shape

LEMMA ShapeStep == Shape /\ [Next]_vars => Shape'
<1> SUFFICES ASSUME Shape, [Next]_vars PROVE Shape'
  OBVIOUS
<1>1. CASE UNCHANGED vars
  BY <1>1 DEF vars, Shape, TypeOK, Progress, InOrder, Slicing, Valid
<1>2. CASE Admin
  BY <1>2, SetupShape, ReloadShape, CollectShape, AdminShape DEF Admin
<1>3. ASSUME NEW r \in Runs,
             RunStart(r) \/ HookPasses(r) \/ HookRejects(r) \/ RunDone(r)
      PROVE  Shape'
  BY <1>3, RunShape
<1> QED
  BY <1>1, <1>2, <1>3 DEF Next

THEOREM Typing == Spec => []TypeOK
<1>1. Shape => TypeOK
  BY DEF Shape
<1> QED
  BY <1>1, ShapeInit, ShapeStep, PTL DEF Spec

LEMMA Initialized ==
    ASSUME Shape
    PROVE  /\ initialized \in Seq(Entries) /\ InOrder(initialized)
           /\ DOMAIN initialized = 1 .. Len(initialized) /\ Len(initialized) \in Nat
           /\ \A k \in DOMAIN initialized : initialized[k] \in Int
<1>1. initialized \in Seq(Entries) /\ InOrder(initialized)
  BY DEF Shape, TypeOK, Progress
<1>2. \A k \in DOMAIN initialized : initialized[k] \in Entries
  BY <1>1
<1>3. \A e \in Entries : e \in Int
  BY ConfiguredAssumption DEF Entries
<1> QED
  BY <1>1, <1>2, <1>3

-----------------------------------------------------------------------------
(* Closing.                                                                *)

\* CloseAll has closed the plugins behind its index.
Closing ==
    /\ admin.pc \notin {"close", "closed"} => closed = {}
    /\ admin.pc = "close" =>
          closed = {initialized[k] : k \in admin.j + 1 .. Len(initialized)}
    /\ admin.pc = "closed" => closed = ToSet(initialized)

LEMMA ClosingInit == Init => Closing
BY DEF Init, Closing

LEMMA ClosingStep == Shape /\ Closing /\ [Next]_vars => Closing'
<1> SUFFICES ASSUME Shape, Closing, [Next]_vars PROVE Closing'
  OBVIOUS
<1>0. initialized \in Seq(Entries) /\ Len(initialized) \in Nat
  BY DEF Shape, TypeOK
<1>1. CASE UNCHANGED vars
  BY <1>1 DEF vars, Closing
<1>2. CASE CloseStart
  <2>1. \A k \in Int : k \notin Len(initialized) + 1 .. Len(initialized)
    BY <1>0
  <2>2. closed' = {} /\ initialized' = initialized
        /\ admin' = [pc |-> "close", j |-> Len(initialized)]
    BY <1>2 DEF CloseStart, Only, Goto, Closing, plugins
  <2> QED
    BY <1>0, <2>1, <2>2 DEF Closing
<1>3. CASE CloseOne
  <2>1. /\ admin.pc = "close" /\ admin.j > 0 /\ initialized' = initialized
        /\ admin' = [pc |-> "close", j |-> admin.j - 1]
        /\ closed' = closed \cup {initialized[admin.j]}
    BY <1>3 DEF CloseOne, Goto, plugins
  <2>2. admin.j \in Nat /\ admin.j <= Len(initialized)
    BY <2>1, ConfiguredAssumption DEF Shape, TypeOK, Progress
  <2>3. (admin.j - 1) + 1 .. Len(initialized)
           = (admin.j + 1 .. Len(initialized)) \cup {admin.j}
    BY <1>0, <2>1, <2>2
  <2> QED
    BY <2>1, <2>3 DEF Closing
<1>4. CASE CloseDone
  <2>1. /\ admin.pc = "close" /\ admin.j = 0 /\ initialized' = initialized
        /\ admin' = [pc |-> "closed", j |-> 0] /\ closed' = closed
    BY <1>4 DEF CloseDone, Only, Goto, plugins
  <2>2. closed = {initialized[k] : k \in 1 .. Len(initialized)}
    BY <2>1 DEF Closing
  <2>3. closed = ToSet(initialized)
    BY <1>0, <2>2 DEF ToSet
  <2> QED
    BY <2>1, <2>3 DEF Closing
<1>5. CASE /\ admin.pc \notin {"close", "closed"} /\ closed' = closed
           /\ admin'.pc \notin {"close", "closed"}
  BY <1>5 DEF Closing
<1>6. ASSUME NEW r \in Runs,
             RunStart(r) \/ HookPasses(r) \/ HookRejects(r) \/ RunDone(r)
      PROVE  Closing'
  BY <1>6 DEF RunStart, HookPasses, HookRejects, CallHook, RunDone, Closing, plugins
<1>7. CASE \/ SetupOne \/ SkipUnregistered \/ SetupFails \/ SetupDone
           \/ ReloadStart \/ ReloadOne \/ ReloadSkips \/ ReloadFails
           \/ Truncate \/ CollectOne \/ ReloadDone
  BY <1>5, <1>7 DEF SetupOne, SkipUnregistered, SetupFails, SetupDone, ReloadStart,
     ReloadOne, ReloadSkips, ReloadFails, Truncate, CollectOne, ReloadDone, Only, Goto
<1> QED
  BY <1>1, <1>2, <1>3, <1>4, <1>6, <1>7 DEF Next, Admin

\* A plugin closes after every plugin that was set up after it, in however
\* many steps and whatever runs meanwhile.
THEOREM ClosesInReverse == Spec => []ClosedInReverse
<1>1. Shape /\ Closing => ClosedInReverse
  <2> SUFFICES ASSUME Shape, Closing, NEW i \in DOMAIN initialized,
                      NEW j \in DOMAIN initialized, i < j,
                      initialized[i] \in closed
               PROVE  initialized[j] \in closed
    BY DEF ClosedInReverse
  <2>0. /\ initialized \in Seq(Entries) /\ InOrder(initialized)
        /\ DOMAIN initialized = 1 .. Len(initialized) /\ Len(initialized) \in Nat
        /\ \A k \in DOMAIN initialized : initialized[k] \in Int
    BY Initialized
  <2>1. CASE admin.pc = "close"
    <3>1. PICK k \in admin.j + 1 .. Len(initialized) :
             initialized[i] = initialized[k]
      BY <2>1 DEF Closing
    <3>2. admin.j \in Nat
      BY ConfiguredAssumption DEF Shape, TypeOK
    <3>3. k \in DOMAIN initialized
      BY <2>0, <3>1, <3>2
    <3>4. i = k
      <4>1. i \in Int /\ k \in Int
        BY <2>0, <3>3
      <4>2. ~(i < k) /\ ~(k < i)
        BY <2>0, <3>1, <3>3 DEF InOrder
      <4> QED
        BY <4>1, <4>2
    <3>5. j \in admin.j + 1 .. Len(initialized)
      BY <2>0, <3>1, <3>2, <3>4
    <3> QED
      BY <2>1, <3>5 DEF Closing
  <2>2. CASE admin.pc = "closed"
    BY <2>2 DEF Closing, ToSet
  <2> QED
    BY <2>1, <2>2 DEF Closing
<1> QED
  BY <1>1, ShapeInit, ShapeStep, ClosingInit, ClosingStep, PTL DEF Spec

-----------------------------------------------------------------------------
(* The chain.                                                              *)

\* The plugin cell i behind a slice names.
Name(s, i) == arrays[s.arr][i].plugin

\* The first n cells behind s name the plugins of set, each once and in order.
Lists(s, n, set) ==
    /\ \A i, k \in 1 .. n : i < k => Name(s, i) < Name(s, k)
    /\ {Name(s, i) : i \in 1 .. n} = set

\* The plugins whose hook the reload has asked for.
Asked == {initialized[i] : i \in 1 .. admin.j - 1}

ChainWhole ==
    /\ offers \subseteq ToSet(initialized)
    /\ admin.pc # "collect" => Lists(chain, chain.len, offers)
    /\ admin.pc = "collect" =>
          /\ Lists(chain, chain.len, offers \cap Asked)
          /\ \E n \in chain.len .. Capacity(chain) : Lists(chain, n, offers)

\* What a run has done is what the cells it walked name.
RunWhole(r) ==
    LET x == run[r]
    IN  /\ x.pc = "idle" => x.ran = <<>> /\ x.due = {} /\ x.next = 1
        /\ x.pc # "idle" =>
              /\ admin.pc \notin {"setup", "failed"}
              /\ Lists(x.slice, x.slice.len, offers)
              /\ x.due = offers /\ x.next <= x.slice.len + 1
              /\ x.pc = "ok" => x.next = x.slice.len + 1
        /\ Len(x.ran) = x.next - 1
        /\ \A i \in DOMAIN x.ran : x.ran[i].plugin = Name(x.slice, i)

Whole == withdrawn = {} => ChainWhole /\ \A r \in Runs : RunWhole(r)

\* Two states agree on what the cells of every array name.
SameNames ==
    \A a \in DOMAIN arrays :
        /\ a \in DOMAIN arrays' /\ Len(arrays'[a]) = Len(arrays[a])
        /\ \A i \in DOMAIN arrays[a] :
              arrays'[a][i].plugin = arrays[a][i].plugin

LEMMA WholeInit == Init => Whole
<1> SUFFICES ASSUME Init PROVE Whole
  OBVIOUS
<1>1. /\ chain.len = 0 /\ offers = {} /\ admin.pc = "setup"
      /\ \A r \in Runs : /\ run[r].pc = "idle" /\ run[r].ran = <<>>
                         /\ run[r].due = {} /\ run[r].next = 1
  BY DEF Init, NoSlice
<1>2. Lists(chain, 0, {})
  <2>1. 1 .. 0 = {}
    OBVIOUS
  <2> QED
    BY <2>1 DEF Lists
<1>3. Len(<<>>) = 0 /\ DOMAIN <<>> = {}
  OBVIOUS
<1> QED
  BY <1>1, <1>2, <1>3 DEF Whole, ChainWhole, RunWhole

LEMMA ChainKept ==
    ASSUME ChainWhole, UNCHANGED <<admin, initialized, offers, arrays, chain>>
    PROVE  ChainWhole'
<1>1. Asked' = Asked
  BY DEF Asked
<1>2. Capacity(chain)' = Capacity(chain)
  BY DEF Capacity
<1>3. CASE admin.pc # "collect"
  <2>1. Lists(chain, chain.len, offers)
    BY <1>3 DEF ChainWhole
  <2>2. Lists(chain, chain.len, offers)'
    BY <2>1 DEF Lists, Name
  <2> QED
    BY <1>3, <2>2 DEF ChainWhole
<1>4. CASE admin.pc = "collect"
  <2>1. Lists(chain, chain.len, offers \cap Asked)
    BY <1>4 DEF ChainWhole
  <2>2. Lists(chain, chain.len, offers \cap Asked)'
    BY <1>1, <2>1 DEF Lists, Name
  <2>3. PICK n \in chain.len .. Capacity(chain) : Lists(chain, n, offers)
    BY <1>4 DEF ChainWhole
  <2>4. n \in (chain.len .. Capacity(chain))' /\ Lists(chain, n, offers)'
    BY <1>2, <2>3 DEF Lists, Name
  <2> QED
    BY <1>4, <2>2, <2>4 DEF ChainWhole
<1> QED
  BY <1>3, <1>4

\* Nothing a run looks at changes.
LEMMA RunKept ==
    ASSUME Shape, NEW r \in Runs, RunWhole(r), run'[r] = run[r],
           offers' = offers, SameNames,
           run[r].pc # "idle" => admin'.pc \notin {"setup", "failed"}
    PROVE  RunWhole(r)'
<1> DEFINE x == run[r]
<1>1. x \in RunRecords /\ Valid(x.slice) /\ x.next >= 1
  BY DEF Shape, TypeOK, Slicing
<1>2. \A i \in 1 .. x.slice.len : Name(x.slice, i)' = Name(x.slice, i)
  <2> SUFFICES ASSUME NEW i \in 1 .. x.slice.len
               PROVE  Name(x.slice, i)' = Name(x.slice, i)
    OBVIOUS
  <2>1. x.slice.len \in Nat
    BY <1>1, ConfiguredAssumption DEF RunRecords, Slices
  <2>2. x.slice.arr \in DOMAIN arrays /\ i \in 1 .. Len(arrays[x.slice.arr])
    BY <1>1, <2>1 DEF Valid
  <2>3. arrays[x.slice.arr] \in Seq(Hooks)
    BY <2>2 DEF Shape, TypeOK
  <2> QED
    BY <2>2, <2>3 DEF SameNames, Name
<1>3. x.slice.len \in Nat /\ x.ran \in Seq(Hooks) /\ x.next \in Nat
  BY <1>1, ConfiguredAssumption DEF RunRecords, Slices
<1>4. CASE x.pc = "idle"
  BY <1>3, <1>4 DEF RunWhole
<1>5. CASE x.pc # "idle"
  <2>1. \A i \in DOMAIN x.ran : i \in 1 .. x.slice.len
    <3>1. Len(x.ran) = x.next - 1 /\ x.next <= x.slice.len + 1
      BY <1>5 DEF RunWhole
    <3>2. Len(x.ran) <= x.slice.len /\ DOMAIN x.ran = 1 .. Len(x.ran)
          /\ Len(x.ran) \in Nat
      BY <1>3, <3>1
    <3> QED
      BY <1>3, <3>2
  <2>2. Lists(x.slice, x.slice.len, offers)'
    BY <1>2, <1>3, <1>5 DEF RunWhole, Lists
  <2> QED
    BY <1>2, <1>5, <2>1, <2>2 DEF RunWhole
<1> QED
  BY <1>4, <1>5

\* Steps that leave chain, arrays and runs alone, outside of collecting.
LEMMA WholeAside ==
    ASSUME Shape, ChainWhole, \A r \in Runs : RunWhole(r),
           UNCHANGED <<initialized, offers, arrays, chain, run>>,
           admin.pc # "collect", admin'.pc # "collect",
           admin.pc \notin {"setup", "failed"} => admin'.pc \notin {"setup", "failed"}
    PROVE  ChainWhole' /\ \A r \in Runs : RunWhole(r)'
<1>1. ChainWhole'
  <2>1. Lists(chain, chain.len, offers)'
    BY DEF ChainWhole, Lists, Name
  <2> QED
    BY <2>1 DEF ChainWhole
<1>2. SameNames
  BY DEF SameNames
<1>3. ASSUME NEW r \in Runs PROVE RunWhole(r)'
  <2>1. run[r].pc # "idle" => admin'.pc \notin {"setup", "failed"}
    BY DEF RunWhole
  <2> QED
    BY <1>2, <2>1, RunKept
<1> QED
  BY <1>1, <1>3

LEMMA WholeSetup ==
    ASSUME Shape, ChainWhole, \A r \in Runs : RunWhole(r), SetupOne
    PROVE  ChainWhole' /\ \A r \in Runs : RunWhole(r)'
<1> DEFINE p == admin.j
<1>1. PICK o \in {offers, offers \cup {p}} : offers' = o /\ CollectFrom(p, o)
  BY DEF SetupOne
<1>2. /\ admin.pc = "setup" /\ admin'.pc = "setup" /\ run' = run
      /\ initialized' = Append(initialized, p)
  BY DEF SetupOne, Goto
<1>3. p \in Entries /\ p \in Int /\ chain.len \in Nat
  <2>1. p \in 1 .. Configured
    BY RegisteredAssumption DEF SetupOne
  <2> QED
    BY <2>1, ConfiguredAssumption DEF Entries, Shape, TypeOK, Slices
<1>4. \A i \in DOMAIN initialized : initialized[i] < p /\ initialized[i] \in Int
  BY <1>2, Initialized DEF Shape, Progress
<1>5. /\ \A e \in offers : e < p /\ e \in Int
      /\ p \notin offers
  BY <1>3, <1>4 DEF ChainWhole, ToSet
<1>6. ToSet(initialized') = ToSet(initialized) \cup {p}
  <2>1. /\ \A i \in DOMAIN initialized : /\ i \in DOMAIN initialized'
                                         /\ initialized'[i] = initialized[i]
        /\ Len(initialized) + 1 \in DOMAIN initialized'
        /\ initialized'[Len(initialized) + 1] = p
        /\ \A i \in DOMAIN initialized' :
              i \in DOMAIN initialized \/ i = Len(initialized) + 1
    BY <1>2, <1>3, Initialized
  <2> QED
    BY <2>1 DEF ToSet
<1>7. Lists(chain, chain.len, offers)
  BY <1>2 DEF ChainWhole
<1> HIDE DEF p
<1>8. Lists(chain, chain.len, offers)'
  <2>1. CASE p \notin o /\ UNCHANGED memory
    BY <1>1, <1>7, <2>1 DEF memory, Lists, Name
  <2>2. CASE p \in o /\ Appended([plugin |-> p, gen |-> gen[p]])
    <3> DEFINE c == chain'.arr
               n == chain.len
    <3>1. /\ chain'.len = n + 1 /\ arrays'[c][n + 1].plugin = p
          /\ \A i \in 1 .. n : arrays'[c][i].plugin = Name(chain, i)
      BY <2>2 DEF Appended, Name
    <3>2. o = offers \cup {p}
      BY <1>1, <1>5, <2>2
    <3>3. \A i \in 1 .. n : Name(chain, i) \in offers
      BY <1>7 DEF Lists
    <3>4. 1 .. n + 1 = (1 .. n) \cup {n + 1}
      BY <1>3
    <3>5. ASSUME NEW i \in 1 .. n + 1, NEW k \in 1 .. n + 1, i < k
          PROVE  arrays'[c][i].plugin < arrays'[c][k].plugin
      <4>1. i \in 1 .. n
        BY <1>3, <3>5
      <4>2. CASE k \in 1 .. n
        BY <1>7, <3>1, <3>5, <4>1, <4>2 DEF Lists
      <4>3. CASE k = n + 1
        BY <1>5, <3>1, <3>3, <4>1, <4>3
      <4> QED
        BY <3>4, <4>2, <4>3
    <3>6. {arrays'[c][i].plugin : i \in 1 .. n + 1} = offers \cup {p}
      <4>1. {Name(chain, i) : i \in 1 .. n} = offers
        BY <1>7 DEF Lists
      <4> HIDE DEF n, c
      <4> QED
        BY <3>1, <3>4, <4>1
    <3> QED
      BY <1>1, <3>1, <3>2, <3>5, <3>6 DEF Lists, Name
  <2> QED
    BY <1>1, <1>3, <2>1, <2>2, Collecting
<1>9. ChainWhole'
  BY <1>1, <1>2, <1>6, <1>8 DEF ChainWhole
<1>10. ASSUME NEW r \in Runs PROVE RunWhole(r)'
  <2>1. run[r].pc = "idle"
    BY <1>2 DEF RunWhole
  <2>2. run[r].ran = <<>>
    BY <2>1 DEF RunWhole
  <2> QED
    BY <1>2, <2>1, <2>2 DEF RunWhole
<1> QED
  BY <1>9, <1>10

LEMMA WholeTruncate ==
    ASSUME Shape, ChainWhole, \A r \in Runs : RunWhole(r), Truncate
    PROVE  ChainWhole' /\ \A r \in Runs : RunWhole(r)'
<1>1. /\ admin.pc = "reload" /\ admin' = [pc |-> "collect", j |-> 1]
      /\ UNCHANGED <<initialized, offers, arrays, run>>
  BY DEF Truncate, Goto, plugins
<1>2. /\ chain'.len = 0 /\ chain'.arr = chain.arr /\ chain.len \in Nat
      /\ chain.arr \in Nat
  BY ConfiguredAssumption DEF Truncate, Shape, TypeOK, Slices
<1>3. Lists(chain, 0, offers \cap Asked)'
  <2>1. 1 .. 0 = {} /\ 1 .. admin'.j - 1 = {}
    BY <1>1
  <2> QED
    BY <2>1 DEF Lists, Asked
<1>4. chain.len \in 0 .. Capacity(chain)
  BY <1>2 DEF Shape, Slicing, Valid, Capacity
<1>5. Capacity(chain)' = Capacity(chain)
  BY <1>1, <1>2 DEF Capacity
<1>6. Lists(chain, chain.len, offers)
  BY <1>1 DEF ChainWhole
<1>7. \E n \in 0 .. Capacity(chain)' : Lists(chain, n, offers)'
  <2>1. \A i \in 1 .. chain.len : Name(chain, i)' = Name(chain, i)
    BY <1>1, <1>2 DEF Name
  <2>2. ASSUME NEW n, n = chain.len PROVE Lists(chain, n, offers)'
    BY <1>1, <1>6, <2>1, <2>2 DEF Lists
  <2> QED
    BY <1>4, <1>5, <2>2
<1>8. ChainWhole'
  BY <1>1, <1>2, <1>3, <1>7 DEF ChainWhole
<1>9. ASSUME NEW r \in Runs PROVE RunWhole(r)'
  <2>1. SameNames
    BY <1>1 DEF SameNames
  <2> QED
    BY <1>1, <2>1, RunKept
<1> QED
  BY <1>8, <1>9

LEMMA CapacityType ==
    ASSUME Shape
    PROVE  chain.len \in Nat /\ Capacity(chain) \in Nat
<1>1. chain.len \in Nat /\ chain.arr \in Nat
  BY ConfiguredAssumption DEF Shape, TypeOK, Slices
<1>2. CASE chain.arr = 0
  BY <1>1, <1>2 DEF Capacity
<1>3. CASE chain.arr # 0
  <2>1. arrays[chain.arr] \in Seq(Hooks)
    BY <1>3 DEF Shape, TypeOK, Slicing, Valid
  <2> QED
    BY <1>1, <1>3, <2>1 DEF Capacity
<1> QED
  BY <1>2, <1>3

\* The heart of the matter: the cell a reload overwrites already names the
\* plugin whose hook it puts there, and it is in the array.
LEMMA CellAwaits ==
    ASSUME Shape, ChainWhole, CollectOne, initialized[admin.j] \in offers
    PROVE  /\ chain.len + 1 <= Capacity(chain)
           /\ Name(chain, chain.len + 1) = initialized[admin.j]
           /\ \E n \in chain.len + 1 .. Capacity(chain) : Lists(chain, n, offers)
<1> DEFINE p == initialized[admin.j]
           k == chain.len
<1>1. /\ admin.pc = "collect" /\ admin.j \in 1 .. Len(initialized)
      /\ k \in Nat /\ Capacity(chain) \in Nat
  BY CapacityType DEF CollectOne, Shape, Progress
<1>2. PICK n \in k .. Capacity(chain) : Lists(chain, n, offers)
  BY <1>1 DEF ChainWhole
<1>3. Lists(chain, k, offers \cap Asked)
  BY <1>1 DEF ChainWhole
<1>4. PICK m \in 1 .. n : Name(chain, m) = p
  BY <1>2 DEF Lists
<1>5. p \notin Asked
  <2> SUFFICES ASSUME p \in Asked PROVE FALSE
    OBVIOUS
  <2>1. PICK i \in 1 .. admin.j - 1 : initialized[i] = p
    BY DEF Asked
  <2>2. i \in DOMAIN initialized /\ admin.j \in DOMAIN initialized /\ i < admin.j
    BY <1>1, Initialized
  <2> QED
    BY <2>1, <2>2, Initialized DEF InOrder
<1>6. m > k
  <2>1. \A i \in 1 .. k : Name(chain, i) \in Asked
    BY <1>3 DEF Lists
  <2> QED
    BY <1>1, <1>4, <1>5, <2>1
<1>7. k + 1 \in 1 .. n
  BY <1>1, <1>2, <1>4, <1>6
<1>8. m = k + 1
  <2> SUFFICES ASSUME k + 1 < m PROVE FALSE
    BY <1>1, <1>2, <1>4, <1>6
  <2> DEFINE q == Name(chain, k + 1)
  <2>1. q \in offers /\ q < p
    BY <1>2, <1>4, <1>7 DEF Lists
  <2>2. PICK i \in DOMAIN initialized : initialized[i] = q
    BY <2>1 DEF ChainWhole, ToSet
  <2>3. i < admin.j
    <3>1. admin.j \in DOMAIN initialized /\ i \in Int /\ admin.j \in Int
      BY <1>1, Initialized
    <3>2. ~(admin.j < i) /\ i # admin.j
      BY <2>1, <2>2, <3>1, Initialized DEF InOrder
    <3> QED
      BY <3>1, <3>2
  <2>4. q \in Asked
    BY <1>1, <2>2, <2>3, Initialized DEF Asked
  <2>5. PICK i2 \in 1 .. k : Name(chain, i2) = q
    BY <1>3, <2>1, <2>4 DEF Lists
  <2>6. i2 \in 1 .. n /\ i2 < k + 1
    BY <1>1, <1>2
  <2>7. Name(chain, i2) < Name(chain, k + 1)
    BY <1>2, <1>7, <2>6 DEF Lists
  <2>8. q \in Int
    BY <2>2, Initialized
  <2> QED
    BY <2>5, <2>7, <2>8
<1>9. n \in k + 1 .. Capacity(chain)
  BY <1>1, <1>2, <1>7
<1> QED
  BY <1>1, <1>2, <1>4, <1>8, <1>9

LEMMA WholeCollect ==
    ASSUME Shape, ChainWhole, \A r \in Runs : RunWhole(r), CollectOne
    PROVE  ChainWhole' /\ \A r \in Runs : RunWhole(r)'
<1> DEFINE p == initialized[admin.j]
           k == chain.len
           h == [plugin |-> p, gen |-> gen[p]]
<1>1. /\ admin.pc = "collect" /\ admin'.pc = "collect" /\ admin'.j = admin.j + 1
      /\ admin.j \in 1 .. Len(initialized) /\ CollectFrom(p, offers)
      /\ UNCHANGED <<initialized, offers, run>>
  BY DEF CollectOne, Goto, plugins, Shape, Progress
<1>2. p \in Entries /\ h \in Hooks
  BY <1>1, Initialized DEF Shape, TypeOK, Hooks
<1>3. /\ k \in Nat /\ Capacity(chain) \in Nat
      /\ chain \in Slices /\ Valid(chain) /\ arrays \in Seq(Seq(Hooks))
  BY CapacityType DEF Shape, TypeOK, Slicing
<1>4. Asked' = Asked \cup {p}
  <2>1. 1 .. admin'.j - 1 = (1 .. admin.j - 1) \cup {admin.j}
    BY <1>1
  <2> QED
    BY <1>1, <2>1 DEF Asked
<1>5. Lists(chain, k, offers \cap Asked)
  BY <1>1 DEF ChainWhole
<1>6. CASE p \notin offers
  <2>1. UNCHANGED memory
    BY <1>1, <1>6 DEF CollectFrom
  <2>2. offers \cap Asked' = offers \cap Asked
    BY <1>4, <1>6
  <2>3. ChainWhole'
    BY <1>1, <1>5, <2>1, <2>2 DEF ChainWhole, Lists, Name, Capacity, memory
  <2>4. SameNames
    BY <2>1 DEF SameNames, memory
  <2> QED
    BY <1>1, <2>3, <2>4, RunKept
<1>7. CASE p \in offers
  <2>1. PICK n \in k + 1 .. Capacity(chain) : Lists(chain, n, offers)
    BY <1>7, CellAwaits
  <2>2. k + 1 <= Capacity(chain) /\ Name(chain, k + 1) = p /\ k < Capacity(chain)
    BY <1>3, <1>7, CellAwaits
  <2>3. Append1(chain, h)
    BY <1>1, <1>7 DEF CollectFrom
  <2> HIDE DEF h
  <2>4. /\ Appended(h) /\ chain'.arr = chain.arr
        /\ \A a \in DOMAIN arrays : \A i \in DOMAIN arrays[a] :
              arrays'[a][i] = IF a = chain.arr /\ i = k + 1 THEN h ELSE arrays[a][i]
    BY <1>2, <1>3, <2>2, <2>3, AppendInPlace
  <2>5. h.plugin = Name(chain, k + 1)
    BY <2>2 DEF h
  <2>6. SameNames
    BY <2>4, <2>5 DEF SameNames, Appended, Name
  <2>7. \A i \in 1 .. Capacity(chain) : Name(chain, i)' = Name(chain, i)
    <3>1. chain.arr \in DOMAIN arrays /\ Capacity(chain) = Len(arrays[chain.arr])
      BY <1>3, <2>2 DEF Capacity, Valid
    <3> QED
      BY <1>3, <2>4, <2>6, <3>1 DEF SameNames, Name
  <2>8. chain'.len = k + 1
    BY <2>4 DEF Appended
  <2>9. Lists(chain, n, offers)'
    <3>1. \A i \in 1 .. n : i \in 1 .. Capacity(chain)
      BY <1>3, <2>1 DEF Capacity, Valid
    <3> QED
      BY <1>1, <2>1, <2>7, <3>1 DEF Lists
  <2>10. Lists(chain, chain.len, offers \cap Asked)'
    <3>1. 1 .. k + 1 = (1 .. k) \cup {k + 1} /\ \A i \in 1 .. k + 1 : i \in 1 .. n
      BY <1>3, <2>1
    <3>2. \A i \in 1 .. k + 1 : Name(chain, i)' = Name(chain, i)
      BY <1>3, <2>1, <2>2, <2>7
    <3>3. {Name(chain, i) : i \in 1 .. k} = offers \cap Asked
      BY <1>5 DEF Lists
    <3>4. {Name(chain, i) : i \in 1 .. k + 1} = offers \cap Asked'
      BY <1>4, <1>7, <2>2, <3>1, <3>3
    <3> QED
      BY <1>1, <2>1, <2>8, <3>1, <3>2, <3>4 DEF Lists
  <2>11. n \in chain'.len .. Capacity(chain)'
    <3>1. Capacity(chain)' = Capacity(chain)
      BY <1>3, <2>2, <2>4 DEF Appended, Capacity, Valid
    <3> QED
      BY <2>1, <2>8, <3>1
  <2>12. ChainWhole'
    BY <1>1, <2>8, <2>9, <2>10, <2>11 DEF ChainWhole
  <2> QED
    BY <1>1, <2>6, <2>12, RunKept
<1> QED
  BY <1>6, <1>7

LEMMA WholeCollected ==
    ASSUME Shape, ChainWhole, \A r \in Runs : RunWhole(r), ReloadDone
    PROVE  ChainWhole' /\ \A r \in Runs : RunWhole(r)'
<1>1. /\ admin.pc = "collect" /\ admin'.pc = "idle"
      /\ admin.j = Len(initialized) + 1
      /\ UNCHANGED <<initialized, offers, arrays, chain, run>>
  BY Initialized DEF ReloadDone, Only, Goto, plugins, memory, Shape, Progress
<1>2. Asked = ToSet(initialized)
  <2>1. 1 .. admin.j - 1 = DOMAIN initialized
    BY <1>1, Initialized
  <2> QED
    BY <2>1 DEF Asked, ToSet
<1>3. offers \cap Asked = offers
  BY <1>2 DEF ChainWhole
<1>4. ChainWhole'
  BY <1>1, <1>3 DEF ChainWhole, Lists, Name
<1>5. SameNames
  BY <1>1 DEF SameNames
<1> QED
  BY <1>1, <1>4, <1>5, RunKept

LEMMA ElementNames ==
    ASSUME Shape
    PROVE  /\ DOMAIN PluginsOf(Elements(chain)) = 1 .. chain.len
           /\ \A i \in 1 .. chain.len : PluginsOf(Elements(chain))[i] = Name(chain, i)
<1>1. chain.len \in Nat /\ Valid(chain) /\ arrays \in Seq(Seq(Hooks))
  BY CapacityType DEF Shape, TypeOK, Slicing
<1>2. CASE chain.arr = 0
  BY <1>1, <1>2 DEF Valid, Elements, PluginsOf
<1>3. CASE chain.arr # 0
  <2>1. arrays[chain.arr] \in Seq(Hooks) /\ chain.len <= Len(arrays[chain.arr])
    BY <1>1, <1>3 DEF Valid
  <2>2. /\ DOMAIN Elements(chain) = 1 .. chain.len
        /\ \A i \in 1 .. chain.len : Elements(chain)[i] = arrays[chain.arr][i]
    BY <1>1, <1>3, <2>1 DEF Elements
  <2> QED
    BY <2>2 DEF PluginsOf, Name
<1> QED
  BY <1>2, <1>3

LEMMA WholeRun ==
    ASSUME Shape, ChainWhole, \A q \in Runs : RunWhole(q), NEW r \in Runs,
           RunStart(r) \/ HookPasses(r) \/ HookRejects(r) \/ RunDone(r)
    PROVE  ChainWhole' /\ \A q \in Runs : RunWhole(q)'
<1>1. /\ UNCHANGED <<admin, initialized, offers, arrays, chain>>
      /\ \A q \in Runs : q # r => run'[q] = run[q]
  BY DEF Shape, TypeOK, RunStart, HookPasses, HookRejects, CallHook, RunDone,
         plugins, memory
<1>2. ChainWhole'
  BY <1>1, ChainKept
<1>3. ASSUME NEW q \in Runs, q # r PROVE RunWhole(q)'
  <2>1. SameNames
    BY <1>1 DEF SameNames
  <2>2. run[q].pc # "idle" => admin'.pc \notin {"setup", "failed"}
    BY <1>1 DEF RunWhole
  <2> QED
    BY <1>1, <1>3, <2>1, <2>2, RunKept
<1>4. /\ run[r] \in RunRecords /\ run[r].ran \in Seq(Hooks) /\ run[r].next \in Nat
      /\ run[r].next >= 1 /\ run[r].slice.len \in Nat /\ RunWhole(r)
  BY ConfiguredAssumption DEF Shape, TypeOK, Slicing, RunRecords, Slices
<1>5. RunWhole(r)'
  <2>1. CASE RunStart(r)
    <3> DEFINE due == ToSet(PluginsOf(Elements(chain)))
    <3>1. admin.pc \in {"idle", "closed"} /\ Lists(chain, chain.len, offers)
      BY <2>1 DEF RunStart, ChainWhole
    <3>2. due = {Name(chain, i) : i \in 1 .. chain.len}
      BY ElementNames DEF ToSet
    <3>3. due = offers
      BY <3>1, <3>2 DEF Lists
    <3> HIDE DEF due
    <3>4. run' = [run EXCEPT ![r] = [run[r] EXCEPT !.pc = "walk", !.slice = chain,
                                                   !.due = due]]
      BY <2>1 DEF RunStart, due
    <3>5. /\ run'[r].pc = "walk" /\ run'[r].slice = chain /\ run'[r].due = due
          /\ run'[r].ran = run[r].ran /\ run'[r].next = run[r].next
      BY <1>4, <3>4 DEF Shape, TypeOK, RunRecords
    <3>6. run[r].ran = <<>> /\ run[r].next = 1
      BY <1>4, <2>1 DEF RunStart, RunWhole
    <3>7. Lists(run[r].slice, run[r].slice.len, offers)'
      BY <1>1, <3>1, <3>5 DEF Lists, Name
    <3>8. chain.len \in Nat
      BY CapacityType
    <3> QED
      BY <1>1, <3>1, <3>3, <3>5, <3>6, <3>7, <3>8 DEF RunWhole
  <2>2. ASSUME NEW o \in {"walk", "rejected"}, CallHook(r, o) PROVE RunWhole(r)'
    <3> DEFINE n == run[r].next
               h == arrays[run[r].slice.arr][n]
    <3>1. run[r].pc = "walk" /\ n <= run[r].slice.len
      BY <2>2 DEF CallHook
    <3>2. /\ run'[r].pc = o /\ run'[r].ran = Append(run[r].ran, h)
          /\ run'[r].next = n + 1 /\ run'[r].slice = run[r].slice
          /\ run'[r].due = run[r].due
      BY <1>4, <2>2 DEF CallHook, Shape, TypeOK, RunRecords
    <3>3. Len(run[r].ran) = n - 1
      BY <1>4 DEF RunWhole
    <3>4. h.plugin = Name(run[r].slice, n)
      BY DEF Name
    <3>5. h \in Hooks
      BY <2>2, HookRead
    <3> HIDE DEF h
    <3>6. /\ Len(run'[r].ran) = n
          /\ \A i \in DOMAIN run'[r].ran :
                \/ i \in DOMAIN run[r].ran /\ run'[r].ran[i] = run[r].ran[i]
                \/ i = n /\ run'[r].ran[i] = h
      BY <1>4, <3>2, <3>3, <3>5
    <3>7. \A i \in DOMAIN run'[r].ran :
             run'[r].ran[i].plugin = Name(run[r].slice, i)
      BY <1>4, <3>4, <3>6 DEF RunWhole
    <3>8. Lists(run[r].slice, run[r].slice.len, offers)'
      BY <1>1, <1>4, <3>1, <3>2 DEF RunWhole, Lists, Name
    <3>9. \A i \in DOMAIN run'[r].ran :
             Name(run[r].slice, i)' = Name(run[r].slice, i)
      BY <1>1, <3>2 DEF Name
    <3>10. /\ admin.pc \notin {"setup", "failed"} /\ run[r].due = offers
           /\ n + 1 <= run[r].slice.len + 1 /\ Len(run'[r].ran) = (n + 1) - 1
      BY <1>4, <3>1, <3>6 DEF RunWhole
    <3> HIDE DEF n
    <3> QED
      BY <1>1, <3>2, <3>7, <3>8, <3>9, <3>10 DEF RunWhole
  <2>3. CASE RunDone(r)
    <3>1. /\ run[r].pc = "walk" /\ run'[r].pc = "ok"
          /\ run[r].next > run[r].slice.len
          /\ run'[r].ran = run[r].ran /\ run'[r].next = run[r].next
          /\ run'[r].slice = run[r].slice /\ run'[r].due = run[r].due
      BY <1>4, <2>3 DEF RunDone, Shape, TypeOK, RunRecords
    <3>2. Lists(run[r].slice, run[r].slice.len, offers)'
      BY <1>1, <1>4, <3>1 DEF RunWhole, Lists, Name
    <3>3. run[r].next = run[r].slice.len + 1
      BY <1>4, <3>1 DEF RunWhole
    <3>4. \A i \in DOMAIN run[r].ran :
             Name(run[r].slice, i)' = Name(run[r].slice, i)
      BY <1>1, <3>1 DEF Name
    <3> QED
      BY <1>1, <1>4, <3>1, <3>2, <3>3, <3>4 DEF RunWhole
  <2> QED
    BY <2>1, <2>2, <2>3 DEF HookPasses, HookRejects
<1> QED
  BY <1>2, <1>3, <1>5

LEMMA WholeStep == Shape /\ Whole /\ [Next]_vars => Whole'
<1> SUFFICES ASSUME Shape, Whole, [Next]_vars, withdrawn' = {}
             PROVE  ChainWhole' /\ \A r \in Runs : RunWhole(r)'
  BY DEF Whole
<1>1. withdrawn = {}
  BY DEF Next, Admin, vars, SetupOne, SkipUnregistered, SetupFails, SetupDone,
     ReloadStart, ReloadOne, ReloadSkips, ReloadFails, Truncate, CollectOne,
     ReloadDone, CloseStart, CloseOne, CloseDone, Only, RunStart, HookPasses,
     HookRejects, CallHook, RunDone
<1>2. ChainWhole /\ \A r \in Runs : RunWhole(r)
  BY <1>1 DEF Whole
<1>3. CASE UNCHANGED vars
  <2>1. ChainWhole'
    BY <1>2, <1>3, ChainKept DEF vars
  <2>2. ASSUME NEW r \in Runs PROVE RunWhole(r)'
    BY <1>2, <1>3 DEF vars, RunWhole, Lists, Name
  <2> QED
    BY <2>1, <2>2
<1>4. CASE \/ SkipUnregistered \/ SetupFails \/ SetupDone \/ ReloadStart
           \/ ReloadSkips \/ ReloadFails \/ CloseStart \/ CloseOne \/ CloseDone
  <2>1. /\ UNCHANGED <<initialized, offers, arrays, chain, run>>
        /\ admin.pc # "collect" /\ admin'.pc # "collect"
        /\ admin.pc \notin {"setup", "failed"} => admin'.pc \notin {"setup", "failed"}
    BY <1>4 DEF SkipUnregistered, SetupFails, SetupDone, ReloadStart, ReloadSkips,
       ReloadFails, CloseStart, CloseOne, CloseDone, Only, Goto, plugins, memory
  <2> QED
    BY <1>2, <2>1, WholeAside
<1>5. CASE ReloadOne
  <2>1. offers' = offers
    BY <1>5 DEF ReloadOne
  <2>2. /\ UNCHANGED <<initialized, arrays, chain, run>>
        /\ admin.pc = "reload" /\ admin'.pc = "reload"
    BY <1>5 DEF ReloadOne, Goto, memory
  <2> QED
    BY <1>2, <2>1, <2>2, WholeAside
<1>6. CASE SetupOne \/ Truncate \/ CollectOne \/ ReloadDone
  BY <1>2, <1>6, WholeSetup, WholeTruncate, WholeCollect, WholeCollected
<1>7. ASSUME NEW r \in Runs,
             RunStart(r) \/ HookPasses(r) \/ HookRejects(r) \/ RunDone(r)
      PROVE  ChainWhole' /\ \A q \in Runs : RunWhole(q)'
  BY <1>2, <1>7, WholeRun
<1> QED
  BY <1>3, <1>4, <1>5, <1>6, <1>7 DEF Next, Admin

-----------------------------------------------------------------------------
(* What follows.                                                           *)

\* Types, the places of the calls and the chain, in every state.
IInv == Shape /\ Whole

THEOREM Inductive == Spec => []IInv
<1>1. Init => IInv
  BY ShapeInit, WholeInit DEF IInv
<1>2. IInv /\ [Next]_vars => IInv'
  BY ShapeStep, WholeStep DEF IInv
<1> QED
  BY <1>1, <1>2, PTL DEF Spec

\* After any reloads, failed ones included, the chain names the plugins that
\* offer a hook, each once and in configuration order.
THEOREM ChainStaysComplete == Spec => []ChainComplete
<1>1. IInv => ChainComplete
  <2> SUFFICES ASSUME IInv, admin.pc = "idle", withdrawn = {}
               PROVE  /\ ToSet(PluginsOf(Elements(chain))) = offers
                      /\ InOrder(PluginsOf(Elements(chain)))
    BY DEF ChainComplete
  <2>1. Lists(chain, chain.len, offers)
    BY DEF IInv, Whole, ChainWhole
  <2> QED
    BY <2>1, ElementNames DEF IInv, Lists, ToSet, InOrder
<1> QED
  BY <1>1, Inductive, PTL

\* Where a reload may not change which plugins offer a hook, none does.
LEMMA NothingWithdrawn ==
    ASSUME ~MayWithdraw PROVE Spec => [](withdrawn = {})
<1>1. Init => withdrawn = {}
  BY DEF Init
<1>2. withdrawn = {} /\ [Next]_vars => (withdrawn = {})'
  BY DEF Next, Admin, vars, SetupOne, SkipUnregistered, SetupFails, SetupDone,
     ReloadStart, ReloadOne, ReloadSkips, ReloadFails, Truncate, CollectOne,
     ReloadDone, CloseStart, CloseOne, CloseDone, Only, RunStart, HookPasses,
     HookRejects, CallHook, RunDone
<1> QED
  BY <1>1, <1>2, PTL DEF Spec

\* While reloads keep the set of plugins that offer a hook, a run calls the
\* hook of each once and in order, however many reloads rewrite the array
\* under it.
THEOREM RunsStayInOrder == ASSUME ~MayWithdraw PROVE Spec => []RunsAllInOrder
<1>1. IInv /\ withdrawn = {} => RunsAllInOrder
  <2> SUFFICES ASSUME IInv, withdrawn = {}, NEW r \in Runs
               PROVE  LET called == PluginsOf(run[r].ran)
                          counted == ToSet(called) \ withdrawn
                      IN  /\ \A i, j \in DOMAIN called :
                                (i < j /\ {called[i], called[j]} \cap withdrawn = {})
                                    => called[i] < called[j]
                          /\ counted \subseteq run[r].due
                          /\ \A p \in run[r].due \ (withdrawn \cup counted) :
                                run[r].pc # "ok" /\ \A q \in counted : q < p
    BY DEF RunsAllInOrder
  <2> DEFINE called == PluginsOf(run[r].ran)
             s == run[r].slice
  <2>1. /\ run[r].ran \in Seq(Hooks) /\ run[r].next \in Nat /\ run[r].next >= 1
        /\ s.len \in Nat
    BY ConfiguredAssumption DEF IInv, Shape, TypeOK, Slicing, RunRecords, Slices
  <2>2. RunWhole(r)
    BY DEF IInv, Whole
  <2>3. CASE run[r].pc = "idle"
    <3>1. run[r].ran = <<>> /\ run[r].due = {}
      BY <2>2, <2>3 DEF RunWhole
    <3>2. DOMAIN called = {} /\ ToSet(called) = {}
      BY <3>1 DEF PluginsOf, ToSet
    <3> QED
      BY <3>1, <3>2
  <2>4. CASE run[r].pc # "idle"
    <3> DEFINE n == run[r].next - 1
    <3>1. /\ Lists(s, s.len, run[r].due) /\ n \in Nat /\ n <= s.len
          /\ run[r].pc = "ok" => n = s.len
      BY <2>1, <2>2, <2>4 DEF RunWhole
    <3>2. DOMAIN called = 1 .. n /\ \A i \in 1 .. n : called[i] = Name(s, i)
      BY <2>1, <2>2 DEF RunWhole, PluginsOf
    <3>3. ToSet(called) = {Name(s, i) : i \in 1 .. n}
      BY <3>2 DEF ToSet
    <3>4. \A i \in 1 .. n : i \in 1 .. s.len
      BY <2>1, <3>1
    <3> HIDE DEF n, called, s
    <3>5. \A i, j \in 1 .. n : i < j => called[i] < called[j]
      BY <3>1, <3>2, <3>4 DEF Lists
    <3>6. ToSet(called) \subseteq run[r].due
      BY <3>1, <3>3, <3>4 DEF Lists
    <3>7. ASSUME NEW p \in run[r].due, p \notin ToSet(called)
          PROVE  run[r].pc # "ok" /\ \A q \in ToSet(called) : q < p
      <4>1. PICK k \in 1 .. s.len : Name(s, k) = p
        BY <3>1 DEF Lists
      <4>2. k \notin 1 .. n
        BY <3>3, <3>7, <4>1
      <4>3. \A i \in 1 .. n : i < k
        BY <2>1, <3>1, <4>2
      <4> QED
        BY <3>1, <3>3, <3>4, <4>1, <4>2, <4>3 DEF Lists
    <3> QED
      BY <3>2, <3>5, <3>6, <3>7 DEF called
  <2> QED
    BY <2>3, <2>4
<1> QED
  BY <1>1, Inductive, NothingWithdrawn, PTL

=============================================================================
