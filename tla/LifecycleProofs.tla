--------------------------- MODULE LifecycleProofs ---------------------------
(***************************************************************************)
(* For any number of processes, commands, crashes and requests: a hot      *)
(* restart never leaves the address unserved, two processes serve at once  *)
(* only during a hand-over, and plugins and pool close after the drain     *)
(* except where Ready could not reach a parent that died.                  *)
(*                                                                         *)
(* A process is Young until it has told its parent that it is ready, and   *)
(* Old from then until its Shutdown.  The invariant has three layers: what *)
(* the fields of one process say of each other (Local); that a process     *)
(* which upgrades, or has handed over, and its child know each other, and  *)
(* the child serves once it is ready (Cross); and that of two processes    *)
(* with the socket one is the other's current child (Paired).              *)
(***************************************************************************)
EXTENDS Lifecycle, TLAPS

Young == {"new", "listen", "start", "ready"}
Old   == {"pid", "run", "drain", "close"}

\* A process has died by itself: only then can a child lose its parent.
Crashed == crashes > 0

\* What p's record says by itself, and of the history and the PID file.
Local(p) ==
    LET x == proc[p]
    IN  /\ x.pc = "unborn" => x = Unborn
        /\ x.pc = "gone" => x.loop = "returned"
        /\ x.ready => x.pc \notin Young
        /\ x.stopping => x.loop = "returned"
        /\ x.pc \in {"drain", "close", "unlink"} => x.stopping \/ x.failed
        /\ x.pc \in {"close", "unlink"} =>
              x.handlers = 0 \/ x.late \/ x.failed
        /\ x.failed => Crashed /\ ending /\ x.pc \in {"close", "unlink", "gone"}
        /\ x.hup \/ pidFile = p =>
              x.pc \notin Young \cup {"unborn"} /\ ~x.failed
        /\ x.loop = "upgrade" =>
              x.ready /\ ~x.exitC /\ x.pc \in {"pid", "run"}
        /\ x.exitC => x.ready \/ x.pc \in {"unlink", "gone"}
        /\ x.term => ending

\* The child p forked last is another process, and knows p.
Child(p) ==
    LET c == proc[p].child
    IN  c \in Procs \ {p} /\ proc[c].parent = p /\ proc[c].pc # "unborn"

\* p serves, and has handed over to nobody.
Serves(p) == proc[p].ready /\ Accepting(p) /\ ~proc[p].exitC

\* p and its parent, p and its child.
Cross(p) ==
    LET x == proc[p]
    IN  /\ x.loop = "upgrade" => Child(p) /\ Gone(x.parent)
        /\ x.exitC /\ x.pc \in Old => Child(p)
        /\ (~ending \/ ~Crashed) /\ x.pc \in Young /\ x.parent # NoProc =>
              /\ x.parent \in Procs
              /\ proc[x.parent].loop = "upgrade"
              /\ proc[x.parent].child = p
        /\ ~ending =>
              /\ x.stopping => x.exitC
              /\ x.loop = "upgrade" /\ proc[x.child].ready => Serves(x.child)
              /\ x.exitC /\ x.pc \in Old => Serves(x.child)

\* q is the child p upgrades to, or has handed over to.
Pair(p, q) ==
    /\ proc[q].parent = p /\ proc[p].child = q
    /\ proc[p].loop = "upgrade" \/ proc[p].exitC

Locals == \A p \in Procs : Local(p)
Family == \A p \in Procs : Cross(p)
Paired ==
    \A p, q \in Procs :
        (p # q /\ HoldsSocket(p) /\ HoldsSocket(q)) => Pair(p, q) \/ Pair(q, p)

Served ==
    ((\E p \in Procs : proc[p].ready) /\ ~ending) => \E p \in Procs : Serves(p)

IInv == TypeOK /\ Locals /\ Family /\ Paired /\ Served

-----------------------------------------------------------------------------
(* Types.                                                                  *)

LEMMA TypeInit == Init => TypeOK
<1> SUFFICES ASSUME Init PROVE TypeOK
  OBVIOUS
<1>1. 0 \in 0 .. MaxHandlers /\ 0 \in 0 .. MaxCommands /\ 0 \in 0 .. MaxCrashes
  BY BoundsAssumption
<1>2. Unborn \in Process
  BY <1>1 DEF Unborn, Process
<1> QED
  BY <1>1, <1>2 DEF Init, TypeOK

\* A step of one process that leaves a record behind.
LEMMA OwnRecord ==
    ASSUME TypeOK, NEW p \in Procs, NEW r \in Process, Becomes(p, r)
    PROVE  TypeOK'
BY DEF TypeOK, Becomes, world

LEMMA EndedRecord ==
    ASSUME NEW r \in Process
    PROVE  Ended(r) \in Process
<1>1. 0 \in 0 .. MaxHandlers
  BY BoundsAssumption
<1> QED
  BY <1>1 DEF Ended, Process

\* main stays within its places.
LEMMA MainType ==
    ASSUME TypeOK, NEW p \in Procs, Main(p)
    PROVE  TypeOK'
<1>0. proc[p] \in Process
  BY DEF TypeOK
<1>1. \A place \in {"listen", "start", "ready", "pid", "run", "drain", "close"} :
         [proc[p] EXCEPT !.pc = place] \in Process
  BY <1>0 DEF Process
<1>2. CASE \/ NewDependencies(p) \/ Listen(p) \/ StartServer(p)
           \/ WritePIDFileFails(p) \/ DrainStarts(p) \/ Drained(p)
  BY <1>1, <1>2, OwnRecord
     DEF NewDependencies, Listen, StartServer, WritePIDFileFails, DrainStarts,
         Drained, MainStep
<1>3. CASE NewFails(p) \/ ListenFails(p) \/ RemovePIDFileFails(p)
  BY <1>0, <1>3, EndedRecord, OwnRecord DEF NewFails, ListenFails, RemovePIDFileFails
<1>4. CASE AfterStartReady(p)
  <2>1. [proc[p] EXCEPT !.pc = "pid", !.ready = TRUE] \in Process
    BY <1>0 DEF Process
  <2> QED
    BY <1>4, <2>1, OwnRecord DEF AfterStartReady
<1>5. CASE AfterStartReadyFails(p)
  <2>1. [proc[p] EXCEPT !.pc = "close", !.ready = TRUE, !.failed = TRUE]
           \in Process
    BY <1>0 DEF Process
  <2> QED
    BY <1>5, <2>1, OwnRecord DEF AfterStartReadyFails
<1>6. CASE WritePIDFile(p)
  <2>1. [proc[p] EXCEPT !.pc = "run"] \in Process
    BY <1>1
  <2>2. proc' = [proc EXCEPT ![p] = [proc[p] EXCEPT !.pc = "run"]]
    BY <1>6 DEF WritePIDFile
  <2> QED
    BY <1>6, <2>1, <2>2 DEF WritePIDFile, TypeOK, world
<1>7. CASE DrainTimesOut(p)
  <2>1. [proc[p] EXCEPT !.pc = "close", !.late = TRUE] \in Process
    BY <1>0 DEF Process
  <2> QED
    BY <1>7, <2>1, OwnRecord DEF DrainTimesOut
<1>8. CASE Shutdown(p)
  <2>1. [proc[p] EXCEPT !.pc = "unlink", !.exitC = TRUE] \in Process
    BY <1>0 DEF Process
  <2> QED
    BY <1>8, <2>1, OwnRecord DEF Shutdown
<1>9. CASE RemovePIDFile(p)
  <2>1. Ended(proc[p]) \in Process
    BY <1>0, EndedRecord
  <2> QED
    BY <1>9, <2>1 DEF RemovePIDFile, TypeOK, world
<1> QED
  BY <1>2, <1>3, <1>4, <1>5, <1>6, <1>7, <1>8, <1>9 DEF Main

\* So does waitForExit.
LEMMA LoopType ==
    ASSUME TypeOK, NEW p \in Procs,
           StartSignalLoop(p) \/ Upgrading(p) \/ Select(p)
    PROVE  TypeOK'
<1>0. proc[p] \in Process
  BY DEF TypeOK
<1>1. CASE StartSignalLoop(p) \/ UpgradeFails(p)
  <2>1. [proc[p] EXCEPT !.loop = "select"] \in Process
    BY <1>0 DEF Process
  <2> QED
    BY <1>1, <2>1, OwnRecord DEF StartSignalLoop, UpgradeFails
<1>2. CASE UpgradeSucceeds(p)
  <2>1. [proc[p] EXCEPT !.loop = "select", !.exitC = TRUE] \in Process
    BY <1>0 DEF Process
  <2> QED
    BY <1>2, <2>1, OwnRecord DEF UpgradeSucceeds
<1>3. CASE UpgradeTimesOut(p)
  <2> DEFINE mid == [proc EXCEPT ![proc[p].child] = Ended(@)]
  <2>1. mid \in [Procs -> Process]
    BY EndedRecord DEF TypeOK
  <2>2. [mid[p] EXCEPT !.loop = "select"] \in Process
    BY <2>1 DEF Process
  <2>3. proc' = [mid EXCEPT ![p] = [mid[p] EXCEPT !.loop = "select"]]
    BY <1>3 DEF UpgradeTimesOut
  <2> HIDE DEF mid
  <2>4. proc' \in [Procs -> Process]
    BY <2>1, <2>2, <2>3
  <2> QED
    BY <1>3, <2>4 DEF UpgradeTimesOut, TypeOK, world
<1>4. CASE SelectHUP(p)
  <2>1. PICK c \in Procs :
           /\ At(c, "unborn")
           /\ proc' = [proc EXCEPT
                ![p] = [@ EXCEPT !.hup = FALSE, !.loop = "upgrade", !.child = c],
                ![c] = [@ EXCEPT !.pc = "new", !.parent = p]]
    BY <1>4 DEF SelectHUP
  <2>2. c # p /\ proc[c] \in Process
    BY <1>4, <2>1 DEF SelectHUP, InSelect, Alive, At, TypeOK
  <2>3. [proc[p] EXCEPT !.hup = FALSE, !.loop = "upgrade", !.child = c] \in Process
    BY <1>0 DEF Process
  <2>4. [proc[c] EXCEPT !.pc = "new", !.parent = p] \in Process
    BY <2>2 DEF Process
  <2>5. proc' = [proc EXCEPT
                ![p] = [proc[p] EXCEPT !.hup = FALSE, !.loop = "upgrade", !.child = c],
                ![c] = [proc[c] EXCEPT !.pc = "new", !.parent = p]]
    BY <2>1, <2>2 DEF TypeOK
  <2>6. proc' \in [Procs -> Process]
    BY <2>3, <2>4, <2>5 DEF TypeOK
  <2> QED
    BY <1>4, <2>6 DEF SelectHUP, TypeOK, world
<1>5. CASE SelectHUPFails(p)
  <2>1. [proc[p] EXCEPT !.hup = FALSE] \in Process
    BY <1>0 DEF Process
  <2> QED
    BY <1>5, <2>1, OwnRecord DEF SelectHUPFails
<1>6. CASE SelectExit(p)
  <2>1. [proc[p] EXCEPT !.loop = "returned", !.stopping = TRUE] \in Process
    BY <1>0 DEF Process
  <2> QED
    BY <1>6, <2>1, OwnRecord DEF SelectExit
<1>7. CASE SelectTerm(p)
  <2>1. [proc[p] EXCEPT !.loop = "returned", !.term = FALSE, !.stopping = TRUE]
           \in Process
    BY <1>0 DEF Process
  <2> QED
    BY <1>7, <2>1, OwnRecord DEF SelectTerm
<1> QED
  BY <1>1, <1>2, <1>3, <1>4, <1>5, <1>6, <1>7 DEF Upgrading, Select

\* Commands, requests and crashes stay within their bounds.
LEMMA OutsideType ==
    ASSUME TypeOK, NEW p \in Procs, Outside(p)
    PROVE  TypeOK'
<1>0. proc[p] \in Process /\ Ended(proc[p]) \in Process
  BY EndedRecord DEF TypeOK
<1>1. CASE Launch(p)
  <2>1. [proc[p] EXCEPT !.pc = "new"] \in Process
    BY <1>0 DEF Process
  <2> QED
    BY <1>1, <2>1, OwnRecord DEF Launch, MainStep
<1>2. ASSUME NEW r \in Process, Signalled(p, r), ending' \in BOOLEAN
      PROVE  TypeOK'
  <2>1. commands' \in 0 .. MaxCommands
    BY <1>2, BoundsAssumption DEF Signalled, TypeOK
  <2> QED
    BY <1>2, <2>1 DEF Signalled, TypeOK
<1>3. CASE RestartCommand(p)
  <2>1. [proc[p] EXCEPT !.hup = TRUE] \in Process
    BY <1>0 DEF Process
  <2> QED
    BY <1>2, <1>3, <2>1 DEF RestartCommand, TypeOK
<1>4. CASE StopCommand(p)
  <2>1. [proc[p] EXCEPT !.term = TRUE] \in Process
    BY <1>0 DEF Process
  <2> QED
    BY <1>2, <1>4, <2>1 DEF StopCommand
<1>5. CASE CommandKills(p)
  BY <1>0, <1>2, <1>5 DEF CommandKills
<1>6. CASE AcceptRequest(p) \/ FinishRequest(p)
  <2>1. PICK n \in 0 .. MaxHandlers :
           Becomes(p, [proc[p] EXCEPT !.handlers = n])
    <3>1. proc[p].handlers \in 0 .. MaxHandlers
      BY <1>0 DEF Process
    <3>2. CASE AcceptRequest(p)
      <4>1. proc[p].handlers + 1 \in 0 .. MaxHandlers
        BY <3>1, <3>2, BoundsAssumption DEF AcceptRequest
      <4> QED
        BY <3>2, <4>1 DEF AcceptRequest
    <3>3. CASE FinishRequest(p)
      <4>1. proc[p].handlers - 1 \in 0 .. MaxHandlers
        BY <3>1, <3>3, BoundsAssumption DEF FinishRequest
      <4> QED
        BY <3>3, <4>1 DEF FinishRequest
    <3> QED
      BY <1>6, <3>2, <3>3
  <2>2. [proc[p] EXCEPT !.handlers = n] \in Process
    BY <1>0 DEF Process
  <2> QED
    BY <2>1, <2>2, OwnRecord
<1>7. CASE Crash(p)
  <2>1. crashes' \in 0 .. MaxCrashes
    BY <1>7, BoundsAssumption DEF Crash, TypeOK
  <2> QED
    BY <1>0, <1>7, <2>1 DEF Crash, TypeOK
<1> QED
  BY <1>1, <1>3, <1>4, <1>5, <1>6, <1>7 DEF Outside

LEMMA TypeStep == TypeOK /\ [Next]_vars => TypeOK'
<1> SUFFICES ASSUME TypeOK, [Next]_vars PROVE TypeOK'
  OBVIOUS
<1>1. CASE UNCHANGED vars
  BY <1>1 DEF vars, world, TypeOK
<1>2. CASE Next
  BY <1>2, MainType, LoopType, OutsideType DEF Next
<1> QED
  BY <1>1, <1>2

\* A process is always in one of its places, and no counter leaves its bounds.
THEOREM Typing == Spec => []TypeOK
BY TypeInit, TypeStep, PTL DEF Spec

-----------------------------------------------------------------------------
(* Steps of one process, and what they may do.                             *)

\* The other processes stay as they are, the PID file comes to name none of
\* them, and an end or a crash stays one.
Others(p) ==
    /\ \A q \in Procs \ {p} : proc'[q] = proc[q]
    /\ \A q \in Procs \ {p} : pidFile' = q => pidFile = q
    /\ ending => ending'
    /\ Crashed => Crashed'

\* What every step but those of an upgrade keeps for the rest of the family:
\* nothing is forked, handed over or taken back, the socket is only bound
\* where nobody has it, and nobody stops serving without need.
Quiet(p) ==
    LET x == proc[p]
        y == proc'[p]
    IN  /\ y.child = x.child
        /\ x.pc # "unborn" => y.parent = x.parent /\ y.pc # "unborn"
        /\ x.pc = "gone" => y.pc = "gone"
        /\ y.loop = "upgrade" => x.loop = "upgrade"
        /\ x.loop = "upgrade" /\ HoldsSocket(p)' => y.loop = "upgrade"
        /\ y.pc \in Young =>
              y.parent = x.parent /\ (x.pc \in Young \/ y.parent = NoProc)
        /\ y.pc \in Old /\ y.exitC => x.pc \in Old /\ x.exitC
        /\ x.exitC => y.exitC
        /\ x.ready => y.ready
        /\ HoldsSocket(p)' =>
              HoldsSocket(p) \/ \A q \in Procs \ {p} : ~HoldsSocket(q)
        /\ ~ending' \/ ~Crashed' => (x.loop = "upgrade" => y.loop = "upgrade")
        /\ ~ending' =>
              /\ y.stopping => x.stopping \/ y.exitC
              /\ y.ready => x.ready \/ Serves(p)'
              /\ Serves(p) => Serves(p)'

Good(p) == Others(p) /\ Local(p)' /\ Quiet(p)

\* Nothing outside the processes that the invariant speaks of changes.
Same == ending' = ending /\ pidFile' = pidFile /\ Crashed' = Crashed

LEMMA OwnFields ==
    ASSUME TypeOK, NEW p \in Procs, NEW r, Becomes(p, r)
    PROVE  /\ proc'[p] = r /\ Others(p)
           /\ Same
BY DEF TypeOK, Becomes, world, Others, Crashed, Same

LEMMA EndedFields ==
    ASSUME NEW r \in Process
    PROVE  LET e == Ended(r)
           IN  /\ e.pc = "gone" /\ e.loop = "returned" /\ e.handlers = 0
               /\ e.parent = r.parent /\ e.child = r.child /\ e.ready = r.ready
               /\ e.exitC = r.exitC /\ e.stopping = r.stopping
               /\ e.term = r.term /\ e.late = r.late
               /\ e.hup = r.hup /\ e.failed = r.failed
BY DEF Ended, Process

\* main's plain moves.
LEMMA MovesGood ==
    ASSUME TypeOK, Locals, Family, NEW p \in Procs, NEW to,
           \/ NewDependencies(p) /\ to = "listen"
           \/ Listen(p)          /\ to = "start"
           \/ StartServer(p)     /\ to = "ready"
           \/ WritePIDFile(p)    /\ to = "run"
           \/ WritePIDFileFails(p) /\ to = "run"
           \/ DrainStarts(p)     /\ to = "drain"
           \/ Drained(p)         /\ to = "close"
    PROVE  Good(p)
<1>0. proc[p] \in Process /\ Local(p) /\ Cross(p)
  BY DEF TypeOK, Locals, Family
<1>1. /\ proc'[p] = [proc[p] EXCEPT !.pc = to]
      /\ Others(p) /\ ending' = ending /\ Crashed' = Crashed
      /\ pidFile' = pidFile \/ to = "run"
  <2>1. CASE WritePIDFile(p) /\ to = "run"
    BY <2>1 DEF WritePIDFile, TypeOK, world, Others, Crashed
  <2>2. CASE MainStep(p, proc[p].pc, to)
    BY <2>2, OwnFields DEF MainStep, Same
  <2> QED
    BY <2>1, <2>2 DEF NewDependencies, Listen, StartServer, WritePIDFileFails,
                      DrainStarts, Drained, MainStep, At
<1>2. LET x == proc[p]
          y == proc'[p]
      IN  /\ y.pc = to /\ y.loop = x.loop /\ y.parent = x.parent
          /\ y.child = x.child /\ y.ready = x.ready /\ y.exitC = x.exitC
          /\ y.stopping = x.stopping /\ y.term = x.term
          /\ y.handlers = x.handlers /\ y.late = x.late
          /\ y.hup = x.hup /\ y.failed = x.failed
  BY <1>0, <1>1 DEF Process
<1>3. CASE NewDependencies(p) /\ to = "listen"
  <2>1. proc[p].pc = "new"
    BY <1>3 DEF NewDependencies, MainStep, At
  <2> QED
    BY <1>0, <1>1, <1>2, <1>3, <2>1
       DEF Good, Same, Local, Quiet, HoldsSocket, Serves, Accepting, Young, Old
<1>4. CASE Listen(p) /\ to = "start"
  <2>1. proc[p].pc = "listen" /\ ~AddressInUse(p)
    BY <1>4 DEF Listen, MainStep, At
  <2>2. HoldsSocket(p) \/ \A q \in Procs \ {p} : ~HoldsSocket(q)
    BY <2>1 DEF AddressInUse, HoldsSocket
  <2> QED
    BY <1>0, <1>1, <1>2, <1>4, <2>1, <2>2
       DEF Good, Same, Local, Quiet, Serves, Accepting, Young, Old
<1>5. CASE StartServer(p) /\ to = "ready"
  <2>1. proc[p].pc = "start"
    BY <1>5 DEF StartServer, MainStep, At
  <2> QED
    BY <1>0, <1>1, <1>2, <1>5, <2>1
       DEF Good, Same, Local, Quiet, HoldsSocket, Serves, Accepting, Young, Old
<1>6. CASE (WritePIDFile(p) \/ WritePIDFileFails(p)) /\ to = "run"
  <2>1. proc[p].pc = "pid"
    BY <1>6 DEF WritePIDFile, WritePIDFileFails, MainStep, At
  <2> QED
    BY <1>0, <1>1, <1>2, <1>6, <2>1
       DEF Good, Same, Local, Quiet, HoldsSocket, Serves, Accepting, Young, Old
<1>7. CASE DrainStarts(p) /\ to = "drain"
  <2>1. proc[p].pc = "run" /\ proc[p].stopping
    BY <1>7 DEF DrainStarts, MainStep, At
  <2> QED
    BY <1>0, <1>1, <1>2, <1>7, <2>1
       DEF Good, Same, Local, Quiet, HoldsSocket, Serves, Accepting, Young, Old
<1>8. CASE Drained(p) /\ to = "close"
  <2>1. proc[p].pc = "drain" /\ proc[p].handlers = 0
    BY <1>8 DEF Drained, MainStep, At
  <2> QED
    BY <1>0, <1>1, <1>2, <1>8, <2>1
       DEF Good, Same, Local, Quiet, HoldsSocket, Serves, Accepting, Young, Old
<1> QED
  BY <1>3, <1>4, <1>5, <1>6, <1>7, <1>8

\* A process may end where nobody is served, or where an end is recorded.
LEMMA EndsGood ==
    ASSUME TypeOK, Locals, NEW p \in Procs, Alive(p),
           proc'[p] = Ended(proc[p]), Others(p),
           pidFile' = p => pidFile = p,
           ending' \/ proc[p].pc \notin {"ready", "pid", "run"},
           Crashed' \/ proc[p].loop # "upgrade" \/ proc[p].pc = "unlink"
    PROVE  Good(p)
<1>1. proc[p] \in Process /\ Local(p)
  BY DEF TypeOK, Locals
<1>2. LET x == proc[p]
          y == proc'[p]
      IN  /\ y.pc = "gone" /\ y.loop = "returned" /\ y.handlers = 0
          /\ y.parent = x.parent /\ y.child = x.child /\ y.ready = x.ready
          /\ y.exitC = x.exitC /\ y.stopping = x.stopping
          /\ y.term = x.term /\ y.late = x.late
          /\ y.hup = x.hup /\ y.failed = x.failed
  BY <1>1, EndedFields
<1> QED
  BY <1>1, <1>2
     DEF Good, Others, Local, Quiet, Alive, HoldsSocket, Serves, Accepting, Young, Old

\* Of main, where it does more than move on.
LEMMA MainGood ==
    ASSUME TypeOK, Locals, Family, NEW p \in Procs, Main(p)
    PROVE  Good(p)
<1>0. proc[p] \in Process /\ Local(p) /\ Cross(p)
  BY DEF TypeOK, Locals, Family
<1>1. CASE \/ NewDependencies(p) \/ Listen(p) \/ StartServer(p) \/ WritePIDFile(p)
           \/ WritePIDFileFails(p) \/ DrainStarts(p) \/ Drained(p)
  BY <1>1, MovesGood
<1>2. CASE NewFails(p) \/ ListenFails(p) \/ RemovePIDFile(p) \/ RemovePIDFileFails(p)
  <2>1. /\ proc'[p] = Ended(proc[p]) /\ Others(p)
        /\ proc[p].pc \in {"new", "listen", "unlink"}
        /\ pidFile' = p => pidFile = p
    <3>1. CASE RemovePIDFile(p)
      BY <3>1, NoProcAssumption
         DEF RemovePIDFile, At, TypeOK, Others, Crashed, world
    <3>2. CASE NewFails(p) \/ ListenFails(p) \/ RemovePIDFileFails(p)
      BY <3>2, OwnFields DEF NewFails, ListenFails, RemovePIDFileFails, At, Same
    <3> QED
      BY <1>2, <3>1, <3>2
  <2>2. proc[p].loop # "upgrade"
    BY <1>0, <2>1 DEF Local
  <2> QED
    BY <2>1, <2>2, EndsGood DEF Alive
<1>3. CASE AfterStartReady(p)
  <2>1. /\ proc'[p] = [proc[p] EXCEPT !.pc = "pid", !.ready = TRUE]
        /\ Others(p) /\ Same /\ proc[p].pc = "ready"
    BY <1>3, OwnFields DEF AfterStartReady, At
  <2>2. ~proc[p].exitC /\ ~proc[p].ready /\ (proc[p].stopping => ending)
    BY <1>0, <2>1 DEF Local, Cross, Young
  <2>3. LET x == proc[p]
            y == proc'[p]
        IN  /\ y.pc = "pid" /\ y.loop = x.loop /\ y.parent = x.parent
            /\ y.child = x.child /\ y.ready /\ y.exitC = x.exitC
            /\ y.stopping = x.stopping /\ y.term = x.term
            /\ y.hup = x.hup /\ y.failed = x.failed
    BY <1>0, <2>1 DEF Process
  <2> QED
    BY <1>0, <2>1, <2>2, <2>3
       DEF Good, Same, Local, Quiet, HoldsSocket, Serves, Accepting, Young, Old
<1>4. CASE AfterStartReadyFails(p)
  <2>1. /\ proc'[p] = [proc[p] EXCEPT !.pc = "close", !.ready = TRUE,
                                      !.failed = TRUE]
        /\ Others(p) /\ Same /\ proc[p].pc = "ready"
        /\ proc[p].parent # NoProc /\ Gone(proc[p].parent)
    BY <1>4, OwnFields DEF AfterStartReadyFails, At
  <2>2. ending /\ Crashed
    <3> SUFFICES ASSUME ~ending \/ ~Crashed PROVE FALSE
      OBVIOUS
    <3>1. proc[p].parent \in Procs /\ proc[proc[p].parent].loop = "upgrade"
      BY <1>0, <2>1 DEF Cross, Young
    <3>2. proc[proc[p].parent].pc \in {"pid", "run"}
      BY <3>1 DEF Locals, Local
    <3> QED
      BY <2>1, <3>1, <3>2 DEF Gone
  <2>3. ~proc[p].exitC /\ ~proc[p].ready
    BY <1>0, <2>1 DEF Local, Young
  <2>4. LET x == proc[p]
            y == proc'[p]
        IN  /\ y.pc = "close" /\ y.loop = x.loop /\ y.parent = x.parent
            /\ y.child = x.child /\ y.ready /\ y.exitC = x.exitC
            /\ y.stopping = x.stopping /\ y.term = x.term
            /\ y.hup = x.hup /\ y.failed
    BY <1>0, <2>1 DEF Process
  <2> QED
    BY <1>0, <2>1, <2>2, <2>3, <2>4
       DEF Good, Same, Others, Local, Quiet, HoldsSocket, Serves, Accepting,
           Young, Old
<1>5. CASE DrainTimesOut(p)
  <2>1. /\ proc'[p] = [proc[p] EXCEPT !.pc = "close", !.late = TRUE]
        /\ Others(p) /\ Same /\ proc[p].pc = "drain"
    BY <1>5, OwnFields DEF DrainTimesOut, At
  <2>2. LET x == proc[p]
            y == proc'[p]
        IN  /\ y.pc = "close" /\ y.loop = x.loop /\ y.parent = x.parent
            /\ y.child = x.child /\ y.ready = x.ready /\ y.exitC = x.exitC
            /\ y.stopping = x.stopping /\ y.late /\ y.term = x.term
            /\ y.hup = x.hup /\ y.failed = x.failed
    BY <1>0, <2>1 DEF Process
  <2> QED
    BY <1>0, <2>1, <2>2
       DEF Good, Same, Local, Quiet, HoldsSocket, Serves, Accepting, Young, Old
<1>6. CASE Shutdown(p)
  <2>1. /\ proc'[p] = [proc[p] EXCEPT !.pc = "unlink", !.exitC = TRUE]
        /\ Others(p) /\ Same /\ proc[p].pc = "close"
    BY <1>6, OwnFields DEF Shutdown, At
  <2>2. LET x == proc[p]
            y == proc'[p]
        IN  /\ y.pc = "unlink" /\ y.loop = x.loop /\ y.parent = x.parent
            /\ y.child = x.child /\ y.ready = x.ready /\ y.exitC
            /\ y.stopping = x.stopping /\ y.term = x.term
            /\ y.handlers = x.handlers /\ y.late = x.late
            /\ y.hup = x.hup /\ y.failed = x.failed
    BY <1>0, <2>1 DEF Process
  <2> QED
    BY <1>0, <2>1, <2>2
       DEF Good, Same, Local, Quiet, HoldsSocket, Serves, Accepting, Young, Old
<1> QED
  BY <1>1, <1>2, <1>3, <1>4, <1>5, <1>6 DEF Main

\* Of waitForExit, where it does not upgrade.
LEMMA LoopGood ==
    ASSUME TypeOK, Locals, Family, NEW p \in Procs,
           \/ StartSignalLoop(p) \/ SelectHUPFails(p)
           \/ SelectExit(p) \/ SelectTerm(p)
    PROVE  Good(p)
<1>0. proc[p] \in Process /\ Local(p) /\ Cross(p)
  BY DEF TypeOK, Locals, Family
<1>1. CASE StartSignalLoop(p)
  <2>1. /\ proc'[p] = [proc[p] EXCEPT !.loop = "select"]
        /\ Others(p) /\ Same
        /\ proc[p].pc \in {"start", "ready", "pid", "run"} /\ proc[p].loop = "none"
    BY <1>1, OwnFields DEF StartSignalLoop
  <2>2. LET x == proc[p]
            y == proc'[p]
        IN  /\ y.pc = x.pc /\ y.loop = "select" /\ y.parent = x.parent
            /\ y.child = x.child /\ y.ready = x.ready /\ y.exitC = x.exitC
            /\ y.stopping = x.stopping /\ y.term = x.term
            /\ y.handlers = x.handlers /\ y.late = x.late
            /\ y.hup = x.hup /\ y.failed = x.failed
    BY <1>0, <2>1 DEF Process
  <2> QED
    BY <1>0, <2>1, <2>2
       DEF Good, Same, Local, Quiet, HoldsSocket, Serves, Accepting, Young, Old
<1>2. CASE SelectHUPFails(p)
  <2>1. /\ proc'[p] = [proc[p] EXCEPT !.hup = FALSE]
        /\ Others(p) /\ Same /\ Alive(p)
    BY <1>2, OwnFields DEF SelectHUPFails, InSelect
  <2>2. LET x == proc[p]
            y == proc'[p]
        IN  /\ y.pc = x.pc /\ y.loop = x.loop /\ y.parent = x.parent
            /\ y.child = x.child /\ y.ready = x.ready /\ y.exitC = x.exitC
            /\ y.stopping = x.stopping /\ y.term = x.term
            /\ y.handlers = x.handlers /\ y.late = x.late
            /\ ~y.hup /\ y.failed = x.failed
    BY <1>0, <2>1 DEF Process
  <2> QED
    BY <1>0, <2>1, <2>2
       DEF Good, Same, Local, Quiet, Alive, HoldsSocket, Serves, Accepting, Young, Old
<1>3. CASE SelectExit(p) \/ SelectTerm(p)
  <2>1. /\ \/ proc'[p] = [proc[p] EXCEPT !.loop = "returned", !.stopping = TRUE]
              /\ proc[p].exitC
           \/ proc'[p] = [proc[p] EXCEPT !.loop = "returned", !.term = FALSE,
                                         !.stopping = TRUE]
              /\ proc[p].term
        /\ Others(p) /\ Same /\ Alive(p) /\ proc[p].loop = "select"
    BY <1>3, OwnFields DEF SelectExit, SelectTerm, InSelect
  <2>2. LET x == proc[p]
            y == proc'[p]
        IN  /\ y.pc = x.pc /\ y.loop = "returned" /\ y.parent = x.parent
            /\ y.child = x.child /\ y.ready = x.ready /\ y.exitC = x.exitC
            /\ y.stopping /\ (y.term => x.term)
            /\ y.handlers = x.handlers /\ y.late = x.late
            /\ y.hup = x.hup /\ y.failed = x.failed
    BY <1>0, <2>1 DEF Process
  <2>3. proc[p].exitC \/ ending
    BY <1>0, <2>1 DEF Local
  <2> QED
    BY <1>0, <2>1, <2>2, <2>3
       DEF Good, Same, Others, Local, Quiet, Alive, HoldsSocket, Serves, Accepting,
           Young, Old
<1> QED
  BY <1>1, <1>2, <1>3

\* Of operators, clients and crashes.
LEMMA OutsideGood ==
    ASSUME TypeOK, Locals, Family, NEW p \in Procs, Outside(p)
    PROVE  Good(p)
<1>0. proc[p] \in Process /\ Local(p) /\ Cross(p)
  BY DEF TypeOK, Locals, Family
<1>1. CASE Launch(p)
  <2>1. /\ proc'[p] = [proc[p] EXCEPT !.pc = "new"]
        /\ Others(p) /\ Same /\ proc[p].pc = "unborn"
    BY <1>1, OwnFields DEF Launch, MainStep, At
  <2>2. proc[p] = Unborn
    BY <1>0, <2>1 DEF Local
  <2> QED
    BY <1>0, <2>1, <2>2
       DEF Good, Same, Local, Quiet, Unborn, HoldsSocket, Serves, Accepting, Young, Old
<1>2. CASE RestartCommand(p) \/ StopCommand(p)
  <2>1. /\ \/ proc'[p] = [proc[p] EXCEPT !.hup = TRUE] /\ ending' = ending
           \/ proc'[p] = [proc[p] EXCEPT !.term = TRUE] /\ ending'
        /\ Others(p) /\ Alive(p) /\ Crashed' = Crashed
        /\ pidFile = p /\ pidFile' = pidFile
    BY <1>2 DEF RestartCommand, StopCommand, Signalled, Others, Crashed, TypeOK
  <2>2. LET x == proc[p]
            y == proc'[p]
        IN  /\ y.pc = x.pc /\ y.loop = x.loop /\ y.parent = x.parent
            /\ y.child = x.child /\ y.ready = x.ready /\ y.exitC = x.exitC
            /\ y.stopping = x.stopping /\ (y.term => x.term \/ ending')
            /\ y.handlers = x.handlers /\ y.late = x.late
            /\ y.failed = x.failed
    BY <1>0, <2>1 DEF Process
  <2> QED
    BY <1>0, <2>1, <2>2
       DEF Good, Same, Others, Local, Quiet, Alive, HoldsSocket, Serves, Accepting,
           Young, Old
<1>3. CASE AcceptRequest(p) \/ FinishRequest(p)
  <2>1. PICK n : /\ proc'[p] = [proc[p] EXCEPT !.handlers = n]
                 /\ Others(p) /\ Same
                 /\ Accepting(p) \/ proc[p].handlers # 0
    <3>1. CASE AcceptRequest(p)
      BY <3>1, OwnFields DEF AcceptRequest
    <3>2. CASE FinishRequest(p)
      <4>1. proc[p].handlers # 0
        BY <1>0, <3>2 DEF FinishRequest, Process
      <4> QED
        BY <3>2, <4>1, OwnFields DEF FinishRequest
    <3> QED
      BY <1>3, <3>1, <3>2
  <2>2. LET x == proc[p]
            y == proc'[p]
        IN  /\ y.pc = x.pc /\ y.loop = x.loop /\ y.parent = x.parent
            /\ y.child = x.child /\ y.ready = x.ready /\ y.exitC = x.exitC
            /\ y.stopping = x.stopping /\ y.term = x.term /\ y.late = x.late
            /\ y.hup = x.hup /\ y.failed = x.failed
    BY <1>0, <2>1 DEF Process
  <2>3. proc[p].pc # "unborn"
    BY <1>0, <2>1 DEF Local, Unborn, Accepting
  <2> QED
    BY <1>0, <2>1, <2>2, <2>3
       DEF Good, Same, Local, Quiet, HoldsSocket, Serves, Accepting, Young, Old
<1>4. CASE CommandKills(p) \/ Crash(p)
  <2>1. /\ Alive(p) /\ proc'[p] = Ended(proc[p]) /\ ending' /\ Others(p)
        /\ pidFile' = pidFile /\ (Crashed' \/ proc[p].loop # "upgrade")
    <3>1. CASE CommandKills(p)
      BY <3>1 DEF CommandKills, Unprepared, Signalled, TypeOK, Others, Crashed
    <3>2. CASE Crash(p)
      BY <3>2 DEF Crash, TypeOK, Others, Crashed
    <3> QED
      BY <1>4, <3>1, <3>2
  <2> QED
    BY <2>1, EndsGood
<1> QED
  BY <1>1, <1>2, <1>3, <1>4 DEF Outside

-----------------------------------------------------------------------------
(* Quiet steps keep the invariant.                                         *)

LEMMA OthersLocal ==
    ASSUME NEW p \in Procs, Others(p), Locals, Local(p)'
    PROVE  Locals'
BY DEF Others, Locals, Local

\* Parents and children still know each other, and the heirs serve.
LEMMA QuietFamily ==
    ASSUME TypeOK, Locals, Family, Locals', NEW p \in Procs, Good(p)
    PROVE  Family'
<1> SUFFICES ASSUME NEW q \in Procs PROVE Cross(q)'
  BY DEF Family
<1>0. /\ Local(q) /\ Local(q)' /\ Cross(q)
      /\ Others(p) /\ Quiet(p) /\ Local(p) /\ Cross(p)
  BY DEF Locals, Family, Good
\* What p keeps, everybody keeps.
<1>1. ASSUME NEW z \in Procs
      PROVE  /\ proc'[z].child = proc[z].child
             /\ proc[z].pc # "unborn" =>
                   proc'[z].parent = proc[z].parent /\ proc'[z].pc # "unborn"
             /\ proc[z].pc = "gone" => proc'[z].pc = "gone"
             /\ proc'[z].loop = "upgrade" => proc[z].loop = "upgrade"
             /\ proc'[z].pc \in Young =>
                   /\ proc'[z].parent = proc[z].parent
                   /\ proc[z].pc \in Young \/ proc'[z].parent = NoProc
             /\ proc'[z].pc \in Old /\ proc'[z].exitC =>
                   proc[z].pc \in Old /\ proc[z].exitC
             /\ ~ending' \/ ~Crashed' =>
                   /\ ~ending \/ ~Crashed
                   /\ proc[z].loop = "upgrade" => proc'[z].loop = "upgrade"
             /\ ~ending' =>
                   /\ ~ending
                   /\ proc'[z].stopping => proc[z].stopping \/ proc'[z].exitC
                   /\ proc[z].exitC => proc'[z].exitC
                   /\ proc'[z].ready => proc[z].ready \/ Serves(z)'
                   /\ Serves(z) => Serves(z)'
  BY <1>0 DEF Others, Quiet, Serves, Accepting
<1>2. Child(q) => Child(q)'
  BY <1>1 DEF Child
<1>3. Gone(proc[q].parent) /\ proc[q].pc # "unborn" => Gone(proc[q].parent)'
  BY <1>1 DEF Gone
<1>4. proc'[q].loop = "upgrade" => Child(q)' /\ Gone(proc[q].parent)'
  BY <1>0, <1>1, <1>2, <1>3 DEF Cross, Local
<1>5. proc'[q].exitC /\ proc'[q].pc \in Old => Child(q)'
  BY <1>1, <1>2, <1>0 DEF Cross
<1>6. ASSUME ~ending' \/ ~Crashed', proc'[q].pc \in Young, proc'[q].parent # NoProc
      PROVE  LET x == proc'[q].parent
             IN  x \in Procs /\ proc'[x].loop = "upgrade" /\ proc'[x].child = q
  <2>1. LET x == proc[q].parent
        IN  x \in Procs /\ proc[x].loop = "upgrade" /\ proc[x].child = q
    BY <1>0, <1>1, <1>6 DEF Cross
  <2> QED
    BY <1>1, <1>6, <2>1
<1>7. ASSUME ~ending', proc'[q].stopping PROVE proc'[q].exitC
  BY <1>0, <1>1, <1>7 DEF Cross
<1>8. ASSUME ~ending', Child(q),
             \/ proc'[q].loop = "upgrade" /\ proc'[proc'[q].child].ready
             \/ proc'[q].exitC /\ proc'[q].pc \in Old
      PROVE  Serves(proc[q].child)'
  <2>1. proc[q].child \in Procs /\ proc'[q].child = proc[q].child
    BY <1>1, <1>8 DEF Child
  <2>2. Serves(proc[q].child) \/ Serves(proc[q].child)'
    BY <1>0, <1>1, <1>8, <2>1 DEF Cross
  <2> QED
    BY <1>1, <1>8, <2>1, <2>2
<1> QED
  BY <1>0, <1>1, <1>4, <1>5, <1>6, <1>7, <1>8 DEF Cross

\* Nobody gets the socket beside somebody.
LEMMA QuietPaired ==
    ASSUME TypeOK, Locals, Paired, NEW p \in Procs, Good(p)
    PROVE  Paired'
<1> SUFFICES ASSUME NEW q \in Procs, NEW z \in Procs, q # z,
                    HoldsSocket(q)', HoldsSocket(z)'
             PROVE  Pair(q, z)' \/ Pair(z, q)'
  BY DEF Paired
<1>1. \A y \in Procs \ {p} : (HoldsSocket(y)' <=> HoldsSocket(y))
  BY DEF Good, Others, HoldsSocket, Accepting
<1>2. HoldsSocket(q) /\ HoldsSocket(z)
  BY <1>1 DEF Good, Quiet
<1>3. ASSUME NEW a \in Procs, NEW b \in Procs, Pair(a, b),
             HoldsSocket(a), HoldsSocket(b), HoldsSocket(a)', HoldsSocket(b)'
      PROVE  Pair(a, b)'
  <2>1. proc[b].pc # "unborn"
    BY <1>3 DEF HoldsSocket, Accepting
  <2>2. proc'[b].parent = proc[b].parent
    BY <2>1 DEF Good, Others, Quiet
  <2>3. /\ proc'[a].child = proc[a].child
        /\ proc[a].loop = "upgrade" => proc'[a].loop = "upgrade"
        /\ proc[a].exitC => proc'[a].exitC
    BY <1>3 DEF Good, Others, Quiet
  <2> QED
    BY <1>3, <2>2, <2>3 DEF Pair
<1> QED
  BY <1>2, <1>3 DEF Paired

\* Somebody serves.
LEMMA QuietServed ==
    ASSUME Served, NEW p \in Procs, Good(p)
    PROVE  Served'
<1> SUFFICES ASSUME NEW q \in Procs, proc'[q].ready, ~ending'
             PROVE  \E z \in Procs : Serves(z)'
  BY DEF Served
<1>1. ~ending
  BY DEF Good, Others
<1>2. \A z \in Procs : Serves(z) => Serves(z)'
  BY DEF Good, Others, Quiet, Serves, Accepting
<1>3. proc[q].ready \/ Serves(q)'
  BY DEF Good, Others, Quiet
<1> QED
  BY <1>1, <1>2, <1>3 DEF Served

LEMMA GoodStep ==
    ASSUME IInv, TypeOK', NEW p \in Procs, Good(p)
    PROVE  IInv'
<1>1. Locals'
  BY OthersLocal DEF IInv, Good
<1> QED
  BY <1>1, QuietFamily, QuietPaired, QuietServed DEF IInv

-----------------------------------------------------------------------------
(* The steps of an upgrade.                                                *)

\* A process that upgrades is ready, was not told to stop, and serves.
LEMMA UpgraderServes ==
    ASSUME Locals, NEW p \in Procs, proc[p].loop = "upgrade"
    PROVE  Serves(p) /\ proc[p].pc \in {"pid", "run"} /\ ~proc[p].stopping
BY DEF Locals, Local, Serves, Accepting

\* The fork: p is not upgrading yet and its parent is gone, so it has the
\* socket alone.
LEMMA ForkStep ==
    ASSUME IInv, TypeOK', NEW p \in Procs, SelectHUP(p)
    PROVE  IInv'
<1>1. PICK c \in Procs :
         /\ At(c, "unborn")
         /\ proc' = [proc EXCEPT
                ![p] = [@ EXCEPT !.hup = FALSE, !.loop = "upgrade", !.child = c],
                ![c] = [@ EXCEPT !.pc = "new", !.parent = p]]
  BY DEF SelectHUP
<1>2. /\ Alive(p) /\ proc[p].loop = "select" /\ proc[p].ready
      /\ Gone(proc[p].parent) /\ ~proc[p].exitC
      /\ proc[p].hup /\ Same /\ c # p /\ proc[c] = Unborn
      /\ proc \in [Procs -> Process]
  BY <1>1 DEF SelectHUP, InSelect, MayUpgrade, Alive, At, world, IInv, TypeOK,
              Locals, Local, Same, Crashed
<1>3. /\ proc'[p] = [proc[p] EXCEPT !.hup = FALSE, !.loop = "upgrade", !.child = c]
      /\ proc'[c] = [Unborn EXCEPT !.pc = "new", !.parent = p]
      /\ \A q \in Procs \ {p, c} : proc'[q] = proc[q]
  BY <1>1, <1>2
<1>4. LET x == proc[p]
          y == proc'[p]
      IN  /\ y.pc = x.pc /\ y.loop = "upgrade" /\ y.parent = x.parent
          /\ y.child = c /\ y.ready /\ ~y.exitC
          /\ y.stopping = x.stopping /\ y.term = x.term
          /\ ~y.hup /\ y.failed = x.failed
  BY <1>2, <1>3 DEF Process
<1>5. LET y == proc'[c]
      IN  /\ y.pc = "new" /\ y.loop = "none" /\ y.parent = p
          /\ y.child = NoProc /\ ~y.ready /\ ~y.exitC
          /\ ~y.stopping /\ ~y.term /\ ~y.hup /\ ~y.failed
  BY <1>3 DEF Unborn
<1>6. proc[p].pc \in {"pid", "run"} /\ ~proc[p].stopping
  <2>1. proc[p] \in Process /\ Local(p)
    BY <1>2 DEF IInv, Locals
  <2> QED
    BY <1>2, <2>1 DEF Process, Local, Alive, Young
<1> proc[c].pc = "unborn" /\ ~proc[c].ready
  BY <1>2 DEF Unborn
<1>7. Locals'
  <2> SUFFICES ASSUME NEW q \in Procs PROVE Local(q)'
    BY DEF Locals
  <2>0. Local(p) /\ Local(q)
    BY DEF IInv, Locals
  <2>1. CASE q = p
    BY <1>2, <1>4, <1>6, <2>0, <2>1 DEF Local, Same, Young
  <2>2. CASE q = c
    <3>1. pidFile' # c
      BY <1>2, <2>0, <2>2 DEF Local, Same
    <3> QED
      BY <1>5, <2>2, <3>1 DEF Local, Young
  <2>3. CASE q \notin {p, c}
    BY <1>2, <1>3, <2>0, <2>3 DEF Local, Same
  <2> QED
    BY <2>1, <2>2, <2>3
\* Nobody else had c as his child or parent, nor p as one he upgrades.
<1>8. ASSUME NEW q \in Procs, Child(q) PROVE proc[q].child # c
  BY <1>2, <1>8 DEF Child, Unborn
<1>9. \A q \in Procs : proc[q].pc # "unborn" =>
         proc'[q].parent = proc[q].parent /\ proc'[q].pc = proc[q].pc
  <2> SUFFICES ASSUME NEW q \in Procs, proc[q].pc # "unborn"
               PROVE  proc'[q].parent = proc[q].parent /\ proc'[q].pc = proc[q].pc
    OBVIOUS
  <2>1. CASE q = p
    BY <1>4, <2>1
  <2>2. CASE q # p
    BY <1>3, <2>2
  <2> QED
    BY <2>1, <2>2
<1>10. \A x : Gone(x) => Gone(x)'
  BY <1>2, <1>9 DEF Gone, Unborn
<1>11. \A q \in Procs : Serves(q) => Serves(q)'
  <2> SUFFICES ASSUME NEW q \in Procs, Serves(q) PROVE Serves(q)'
    OBVIOUS
  <2>1. q # c
    BY DEF Serves
  <2>2. CASE q = p
    BY <1>4, <2>2 DEF Serves, Accepting
  <2>3. CASE q # p
    BY <1>3, <2>1, <2>3 DEF Serves, Accepting
  <2> QED
    BY <2>2, <2>3
<1>12. Family'
  <2> SUFFICES ASSUME NEW q \in Procs PROVE Cross(q)'
    BY DEF Family
  <2>0. Cross(p) /\ Cross(q) /\ Local(q)
    BY DEF IInv, Family, Locals
  <2>1. CASE q = p
    <3>1. Child(p)' /\ Gone(proc[p].parent)'
      BY <1>2, <1>4, <1>5, <1>10 DEF Child
    <3>2. ~ending' /\ proc'[p].stopping => proc'[p].exitC
      BY <1>4, <1>6
    <3>3. proc'[p].pc \notin Young /\ ~proc'[p].exitC /\ ~proc'[c].ready
      BY <1>4, <1>5, <1>6 DEF Young
    <3> QED
      BY <1>4, <2>1, <3>1, <3>2, <3>3 DEF Cross
  <2>2. CASE q = c
    BY <1>2, <1>4, <1>5, <2>2 DEF Cross, Old, Same
  <2>3. CASE q \notin {p, c}
    <3>1. proc'[q] = proc[q]
      BY <1>3, <2>3
    <3>2. Child(q) => Child(q)'
      BY <1>2, <1>9, <3>1 DEF Child
    <3>3. proc[q].parent \in Procs /\ proc[proc[q].parent].loop = "upgrade" =>
             /\ proc[q].parent \notin {p, c}
             /\ proc'[proc[q].parent] = proc[proc[q].parent]
      BY <1>2, <1>3 DEF Unborn
    <3>4. Child(q) => (proc'[proc[q].child].ready => proc[proc[q].child].ready)
      <4> SUFFICES ASSUME Child(q)
                   PROVE  proc'[proc[q].child].ready => proc[proc[q].child].ready
        OBVIOUS
      <4>1. proc[q].child \in Procs \ {c}
        BY <1>8 DEF Child
      <4>2. CASE proc[q].child = p
        BY <1>2, <1>4, <4>2
      <4>3. CASE proc[q].child # p
        BY <1>3, <4>1, <4>3
      <4> QED
        BY <4>2, <4>3
    <3>5. Child(q) => (Serves(proc[q].child) => Serves(proc[q].child)')
      BY <1>11, <3>1 DEF Child
    <3> QED
      BY <1>2, <1>10, <2>0, <3>1, <3>2, <3>3, <3>4, <3>5 DEF Cross, Same
  <2> QED
    BY <2>1, <2>2, <2>3
<1>13. Paired'
  <2>1. ASSUME NEW q \in Procs \ {p}, HoldsSocket(q) PROVE FALSE
    <3>1. HoldsSocket(p)
      BY <1>6 DEF HoldsSocket
    <3>2. Pair(p, q) \/ Pair(q, p)
      BY <2>1, <3>1 DEF IInv, Paired
    <3>3. ~Pair(p, q)
      BY <1>2 DEF Pair
    <3>4. ~Pair(q, p)
      BY <1>2, <2>1 DEF Pair, Gone, HoldsSocket, Accepting
    <3> QED
      BY <3>2, <3>3, <3>4
  <2>2. \A q \in Procs \ {p, c} : ~HoldsSocket(q)'
    BY <1>3, <2>1 DEF HoldsSocket, Accepting
  <2>3. Pair(p, c)'
    BY <1>4, <1>5 DEF Pair
  <2> QED
    BY <2>2, <2>3 DEF Paired
<1>14. Served'
  <2>1. Serves(p)'
    BY <1>4, <1>6 DEF Serves, Accepting
  <2> QED
    BY <2>1 DEF Served
<1> QED
  BY <1>7, <1>12, <1>13, <1>14 DEF IInv

\* The end of an upgrade: p's loop selects again.  Either its child is ready
\* and p hands over, or the child is gone, by itself or killed.
LEMMA UpgradeStep ==
    ASSUME IInv, TypeOK', NEW p \in Procs, Upgrading(p)
    PROVE  IInv'
<1>1. PICK c \in Procs \ {p} :
         /\ proc[p].loop = "upgrade" /\ proc \in [Procs -> Process]
         /\ proc[p].child = c /\ proc[c].parent = p /\ proc[c].pc # "unborn"
         /\ Gone(proc[p].parent)
  <2>1. proc[p].loop = "upgrade"
    BY DEF Upgrading, UpgradeSucceeds, UpgradeFails, UpgradeTimesOut, InUpgrade
  <2> QED
    BY <2>1 DEF IInv, TypeOK, Family, Cross, Child
<1>2. /\ Serves(p) /\ proc[p].pc \in {"pid", "run"} /\ ~proc[p].stopping
      /\ proc[p].ready /\ ~proc[p].exitC
  BY <1>1, UpgraderServes DEF IInv, Serves
<1>3. /\ Same
      /\ \A q \in Procs \ {p, c} : proc'[q] = proc[q]
      /\ \/ UpgradeSucceeds(p) /\ proc[c].ready /\ proc'[c] = proc[c]
            /\ proc'[p] = [proc[p] EXCEPT !.loop = "select", !.exitC = TRUE]
         \/ UpgradeFails(p) /\ proc[c].pc = "gone" /\ proc'[c] = proc[c]
            /\ proc'[p] = [proc[p] EXCEPT !.loop = "select"]
         \/ UpgradeTimesOut(p) /\ Alive(c) /\ proc'[c] = Ended(proc[c])
            /\ proc'[p] = [proc[p] EXCEPT !.loop = "select"]
  <2>1. CASE UpgradeSucceeds(p)
    BY <1>1, <2>1 DEF UpgradeSucceeds, Becomes, world, Same, Crashed
  <2>2. CASE UpgradeFails(p)
    BY <1>1, <2>2 DEF UpgradeFails, Becomes, Gone, world, Same, Crashed
  <2>3. CASE UpgradeTimesOut(p)
    BY <1>1, <2>3 DEF UpgradeTimesOut, world, Same, Crashed
  <2> QED
    BY <2>1, <2>2, <2>3 DEF Upgrading
<1>4. LET x == proc[p]
          y == proc'[p]
      IN  /\ y.pc = x.pc /\ y.loop = "select" /\ y.parent = x.parent
          /\ y.child = c /\ y.ready /\ y.stopping = x.stopping
          /\ y.term = x.term /\ y.hup = x.hup /\ y.failed = x.failed
  BY <1>1, <1>2, <1>3 DEF Process
<1>5. LET x == proc[c]
          y == proc'[c]
      IN  /\ y.parent = p /\ y.child = x.child /\ y.ready = x.ready
          /\ y.exitC = x.exitC /\ y.stopping = x.stopping /\ y.term = x.term
          /\ y.hup = x.hup /\ y.failed = x.failed
          /\ y = x \/ (y.pc = "gone" /\ y.loop = "returned")
  BY <1>1, <1>3, EndedFields
<1>6. proc'[p].exitC \/ proc'[c].pc = "gone"
  <2>1. CASE UpgradeSucceeds(p) /\ proc'[p] = [proc[p] EXCEPT !.loop = "select",
                                                             !.exitC = TRUE]
    BY <1>1, <2>1 DEF Process
  <2>2. CASE proc'[c].pc = "gone"
    BY <2>2
  <2> QED
    BY <1>1, <1>3, <2>1, <2>2, EndedFields
<1>7. proc'[p].exitC => proc[c].ready /\ proc'[c] = proc[c]
  BY <1>1, <1>2, <1>3 DEF Process
<1>8. Locals'
  <2> SUFFICES ASSUME NEW q \in Procs PROVE Local(q)'
    BY DEF Locals
  <2>0. Local(p) /\ Local(q) /\ Local(c)
    BY <1>1 DEF IInv, Locals
  <2>1. CASE q = p
    BY <1>2, <1>3, <1>4, <2>0, <2>1 DEF Local, Same, Young
  <2>2. CASE q = c
    BY <1>1, <1>3, <1>5, <2>0, <2>2 DEF Local, Same, Young
  <2>3. CASE q \notin {p, c}
    BY <1>3, <2>0, <2>3 DEF Local, Same
  <2> QED
    BY <2>1, <2>2, <2>3
\* Of all but p's loop and its Exit, and c's place.
<1>9. ASSUME NEW q \in Procs
      PROVE  /\ proc'[q].child = proc[q].child /\ proc'[q].parent = proc[q].parent
             /\ proc'[q].ready => proc[q].ready
             /\ proc'[q].stopping = proc[q].stopping
             /\ proc[q].exitC => proc'[q].exitC
             /\ proc'[q].exitC => proc[q].exitC \/ q = p
             /\ proc'[q].loop = "upgrade" => proc[q].loop = "upgrade" /\ q # p
             /\ proc'[q].pc = proc[q].pc \/ (q = c /\ proc'[q].pc = "gone")
             /\ proc'[q].loop = proc[q].loop \/ q \in {p, c}
  <2>1. CASE q = p
    BY <1>1, <1>2, <1>4, <2>1
  <2>2. CASE q = c
    BY <1>1, <1>5, <2>2
  <2>3. CASE q \notin {p, c}
    BY <1>3, <2>3
  <2> QED
    BY <2>1, <2>2, <2>3
<1>10. \A q \in Procs : Child(q) => Child(q)'
  BY <1>9 DEF Child
<1>11. \A x : Gone(x) => Gone(x)'
  BY <1>9 DEF Gone
\* Only p hands over, and only c may die.
<1>12. \A q \in Procs \ {p, c} : Serves(q) => Serves(q)'
  BY <1>3 DEF Serves, Accepting
<1>13. proc[c].loop # "upgrade"
  BY <1>1, <1>2 DEF IInv, Family, Cross, Gone
<1>14. ~ending' /\ proc'[p].exitC => Serves(c)'
  <2>1. ~ending' /\ proc'[p].exitC => Serves(c)
    BY <1>1, <1>3, <1>7 DEF IInv, Family, Cross, Same
  <2> QED
    BY <1>7, <2>1 DEF Serves, Accepting
<1>15. Family'
  <2> SUFFICES ASSUME NEW q \in Procs PROVE Cross(q)'
    BY DEF Family
  <2>0. Cross(q) /\ Local(q) /\ Cross(c) /\ Local(c)
    BY <1>1 DEF IInv, Family, Locals
  <2>1. CASE q = p
    <3>1. proc'[p].pc \notin Young /\ ~proc'[p].stopping
      BY <1>2, <1>4 DEF Young
    <3>2. Child(p)'
      BY <1>1, <1>9, <1>10 DEF Child
    <3> QED
      BY <1>4, <1>14, <2>1, <3>1, <3>2 DEF Cross
  <2>2. CASE q = c
    <3>1. proc'[c].loop # "upgrade"
      BY <1>1, <1>9, <1>13
    <3>2. proc'[c].pc \notin Young \/ (proc[c].pc \in Young /\ proc'[p].exitC)
      BY <1>1, <1>6, <1>9 DEF Young
    <3>3. proc'[c].pc \notin Young
      BY <1>7, <2>0, <3>2 DEF Local
    <3>4. proc'[c].exitC /\ proc'[c].pc \in Old => Child(c)' /\ ending
      <4> SUFFICES ASSUME proc'[c].exitC, proc'[c].pc \in Old
                   PROVE  Child(c)' /\ ending
        OBVIOUS
      <4>1. proc[c].exitC /\ proc[c].pc \in Old
        BY <1>1, <1>5, <1>9 DEF Old
      <4>2. Child(c)'
        BY <1>1, <1>10, <2>0, <4>1 DEF Cross
      <4>3. proc[c].ready
        BY <2>0, <4>1 DEF Local, Old
      <4>4. ending \/ Serves(c)
        BY <1>1, <4>3 DEF IInv, Family, Cross
      <4> QED
        BY <4>1, <4>2, <4>4 DEF Serves
    <3>5. ~ending' /\ proc'[c].stopping => proc'[c].exitC
      BY <1>1, <1>3, <1>9, <2>0 DEF Cross, Same
    <3> QED
      BY <1>3, <2>2, <3>1, <3>3, <3>4, <3>5 DEF Cross, Same
  <2>3. CASE q \notin {p, c}
    <3>1. proc'[q] = proc[q]
      BY <1>3, <2>3
    <3>2. \A r \in Procs : proc[r].loop = "upgrade" /\ proc[r].child = q =>
             proc'[r].loop = "upgrade" /\ proc'[r].child = q
      BY <1>1, <1>9, <1>13, <2>3
    <3>3. Child(q) /\ proc[q].pc # "gone" => proc[q].child \in Procs \ {p, c}
      BY <1>1, <2>3 DEF Child, Gone
    <3>4. Child(q) /\ proc[q].pc # "gone" =>
             /\ Serves(proc[q].child) => Serves(proc[q].child)'
             /\ proc'[proc[q].child].ready => proc[proc[q].child].ready
      BY <1>9, <1>12, <3>1, <3>3
    <3>5. proc[q].loop = "upgrade" => proc[q].pc # "gone"
      BY <2>0 DEF Local
    <3> QED
      BY <1>3, <1>10, <1>11, <2>0, <3>1, <3>2, <3>4, <3>5 DEF Cross, Same, Old
  <2> QED
    BY <2>1, <2>2, <2>3
<1>16. Paired'
  <2> SUFFICES ASSUME NEW q \in Procs, NEW z \in Procs, q # z,
                      HoldsSocket(q)', HoldsSocket(z)'
               PROVE  Pair(q, z)' \/ Pair(z, q)'
    BY DEF Paired
  <2>1. \A r \in Procs : HoldsSocket(r)' => HoldsSocket(r) /\ proc'[r].pc # "gone"
    BY <1>9 DEF HoldsSocket, Accepting
  <2>2. ASSUME NEW a \in Procs, NEW b \in Procs, Pair(a, b), proc'[b].pc # "gone"
        PROVE  Pair(a, b)'
    <3>1. CASE a = p
      BY <1>1, <1>6, <1>9, <2>2, <3>1 DEF Pair
    <3>2. CASE a # p
      BY <1>9, <1>13, <2>2, <3>2 DEF Pair
    <3> QED
      BY <3>1, <3>2
  <2> QED
    BY <2>1, <2>2 DEF IInv, Paired
<1>17. Served'
  <2>1. ~proc'[p].exitC => Serves(p)'
    BY <1>2, <1>4 DEF Serves, Accepting
  <2> QED
    BY <1>1, <1>14, <2>1 DEF Served
<1> QED
  BY <1>8, <1>15, <1>16, <1>17 DEF IInv

-----------------------------------------------------------------------------
(* The theorems.                                                           *)

LEMMA IInvInit == Init => IInv
<1> SUFFICES ASSUME Init PROVE IInv
  OBVIOUS
<1>1. \A p \in Procs : proc[p] = Unborn
  BY DEF Init
<1>2. \A p \in Procs :
         /\ proc[p].pc = "unborn" /\ proc[p].loop = "none" /\ ~proc[p].ready
         /\ ~proc[p].exitC /\ ~proc[p].stopping /\ ~proc[p].term
         /\ ~proc[p].hup /\ ~proc[p].failed
  BY <1>1 DEF Unborn
<1>3. Locals
  <2>1. \A p \in Procs : pidFile # p
    BY NoProcAssumption DEF Init
  <2> QED
    BY <1>1, <1>2, <2>1 DEF Locals, Local
<1>4. Family
  BY <1>2 DEF Family, Cross, Young
<1>5. Paired /\ Served
  BY <1>2 DEF Paired, Served, HoldsSocket, Accepting
<1> QED
  BY <1>3, <1>4, <1>5, TypeInit DEF IInv

LEMMA IInvStep == IInv /\ [Next]_vars => IInv'
<1> SUFFICES ASSUME IInv, [Next]_vars PROVE IInv'
  OBVIOUS
<1>0. TypeOK' /\ TypeOK /\ Locals /\ Family
  BY TypeStep DEF IInv
<1>1. CASE UNCHANGED vars
  <2>1. proc' = proc /\ Same
    BY <1>1 DEF vars, world, Same, Crashed
  <2> QED
    BY <1>0, <2>1
       DEF IInv, Same, Locals, Local, Family, Cross, Child, Gone, Paired, Pair,
           HoldsSocket, Served, Serves, Accepting
<1>2. ASSUME NEW p \in Procs, Main(p) PROVE IInv'
  BY <1>0, <1>2, MainGood, GoodStep
<1>3. ASSUME NEW p \in Procs, StartSignalLoop(p) PROVE IInv'
  BY <1>0, <1>3, LoopGood, GoodStep
<1>4. ASSUME NEW p \in Procs, Upgrading(p) PROVE IInv'
  BY <1>0, <1>4, UpgradeStep
<1>5. ASSUME NEW p \in Procs, Select(p) PROVE IInv'
  BY <1>0, <1>5, ForkStep, LoopGood, GoodStep DEF Select
<1>6. ASSUME NEW p \in Procs, Outside(p) PROVE IInv'
  BY <1>0, <1>6, OutsideGood, GoodStep
<1> QED
  BY <1>1, <1>2, <1>3, <1>4, <1>5, <1>6 DEF Next

\* The invariant holds in every state.
THEOREM Inductive == Spec => []IInv
BY IInvInit, IInvStep, PTL DEF Spec

\* However many restarts succeed, fail or time out, the address is served
\* until somebody ends the service or a process dies.
THEOREM RestartsKeepServing == Spec => []AlwaysServed
<1>1. IInv => AlwaysServed
  BY DEF IInv, Served, Serves, AlwaysServed
<1> QED
  BY <1>1, Inductive, PTL

\* Of two processes that serve, one is being handed over to.
THEOREM ServersArePaired == Spec => []OneServer
<1>1. IInv => OneServer
  <2> SUFFICES ASSUME IInv, NEW p \in Procs, NEW q \in Procs, p # q,
                      Accepting(p), ~proc[p].exitC, Accepting(q), ~proc[q].exitC
               PROVE  \/ InUpgrade(p) /\ proc[p].child = q
                      \/ InUpgrade(q) /\ proc[q].child = p
    BY DEF OneServer
  <2>1. Pair(p, q) \/ Pair(q, p)
    BY DEF IInv, Paired, HoldsSocket
  <2> QED
    BY <2>1 DEF Pair, InUpgrade, Alive, Accepting
<1> QED
  BY <1>1, Inductive, PTL

\* Plugins and pool are closed when the server has stopped, under a request
\* only if the drain was given up; a server that still accepts loses them only
\* in a child whose parent had died when it reported itself ready.
THEOREM ClosesAfterDrain == Spec => []ClosedAfterDrain
<1>1. IInv => ClosedAfterDrain
  BY DEF IInv, Locals, Local, ClosedAfterDrain, At, Crashed
<1> QED
  BY <1>1, Inductive, PTL
=============================================================================
