------------------------------ MODULE Lifecycle ------------------------------
(***************************************************************************)
(* The life of the gateway's processes (app/app.go): a cold start, hot     *)
(* restarts on SIGHUP through tableflip, shutdown on SIGTERM, the PID file *)
(* and the -s commands that read it.  A process runs two goroutines: main  *)
(* (New, kratosApp.Run, Shutdown) at pc, and waitForExit at loop.          *)
(*                                                                         *)
(* Outside this module, modelled by what app.go relies on: tableflip       *)
(* (Upgrade forks a child that inherits the listener, fails if the child   *)
(* dies or is late, and closes Exit when the child is ready), kratos (Run  *)
(* serves until Stop, then drains for StopTimeout at most), the kernel     *)
(* (signals, one listener per address).                                    *)
(***************************************************************************)
EXTENDS Naturals, FiniteSets

CONSTANTS Procs,        \* process ids
          NoProc,       \* no process: no parent, no PID file
          MaxCommands,  \* bound: -s commands the operator sends
          MaxCrashes,   \* bound: processes that die by themselves
          MaxHandlers,  \* bound: requests one process serves at a time
          Watched,      \* bound: the processes whose end is watched for
          DiskFails     \* writing and removing the PID file may fail

ASSUME NoProcAssumption == NoProc \notin Procs
ASSUME WatchedAssumption == Watched \subseteq Procs
ASSUME DiskFailsAssumption == DiskFails \in BOOLEAN
ASSUME BoundsAssumption ==
    MaxCommands \in Nat /\ MaxCrashes \in Nat /\ MaxHandlers \in Nat

VARIABLES
    proc,      \* the processes, see Process
    pidFile,   \* the process named by lumin-proxy.pid
    ending,    \* history: a stop was commanded or a process died
    commands,  \* commands sent so far
    crashes    \* crashes so far

world == <<ending, commands, crashes>>
vars  == <<proc, pidFile, world>>

Process ==
    [pc : {"unborn", "new", "listen", "start", "ready", "pid", "run", "drain",
           "close", "unlink", "gone"},       \* what main does next
     loop : {"none", "select", "upgrade", "returned"},
     parent : Procs \cup {NoProc},           \* who forked it
     child : Procs \cup {NoProc},            \* whom it forked last
     ready : BOOLEAN,                        \* tableflip's Ready was called
     exitC : BOOLEAN,                        \* tableflip's Exit is closed
     stopping : BOOLEAN,                     \* kratosApp.Stop was called
     hup : BOOLEAN, term : BOOLEAN,          \* a signal is in the channel
     handlers : 0 .. MaxHandlers,            \* requests being served
     late : BOOLEAN,                         \* history: the drain gave up
     failed : BOOLEAN]                       \* history: the AfterStart hook failed

TypeOK ==
    /\ proc \in [Procs -> Process]
    /\ pidFile \in Procs \cup {NoProc}
    /\ ending \in BOOLEAN
    /\ commands \in 0 .. MaxCommands
    /\ crashes \in 0 .. MaxCrashes

Unborn ==
    [pc |-> "unborn", loop |-> "none", parent |-> NoProc, child |-> NoProc,
     ready |-> FALSE, exitC |-> FALSE, stopping |-> FALSE, hup |-> FALSE,
     term |-> FALSE, handlers |-> 0, late |-> FALSE, failed |-> FALSE]

Init ==
    /\ proc = [p \in Procs |-> Unborn]
    /\ pidFile = NoProc
    /\ ending = FALSE
    /\ commands = 0
    /\ crashes = 0

-----------------------------------------------------------------------------

At(p, place) == proc[p].pc = place

Alive(p) == proc[p].pc \notin {"unborn", "gone"}

\* True of NoProc too.
Gone(p) == p \notin {q \in Procs : proc[q].pc # "gone"}

\* p's server accepts connections on the shared listener: from its start until
\* Stop, also while main cleans up after a Run that returned without Stop.
Accepting(p) ==
    /\ proc[p].pc \in {"ready", "pid", "run", "close", "unlink"}
    /\ ~proc[p].stopping

\* p has the listening socket open: a child from its fork on, the old process
\* until its server is stopped and tableflip has dropped its copy.
HoldsSocket(p) ==
    \/ proc[p].pc \in {"new", "listen"} /\ proc[p].parent # NoProc
    \/ proc[p].pc \in {"start", "ready", "pid", "run"}
    \/ proc[p].pc \in {"drain", "close"} /\ ~proc[p].exitC
    \/ Accepting(p)

\* A process that has ended: the kernel frees what it held.
Ended(r) == [r EXCEPT !.pc = "gone", !.loop = "returned", !.handlers = 0]

\* p's own record becomes r, and nothing outside it changes.
Becomes(p, r) == proc' = [proc EXCEPT ![p] = r] /\ UNCHANGED <<pidFile, world>>

\* p's main goes from one call to the next.
MainStep(p, from, to) == At(p, from) /\ Becomes(p, [proc[p] EXCEPT !.pc = to])

-----------------------------------------------------------------------------
(* main: New, Run, AfterStart, Shutdown.                                   *)

\* The operator starts a process.
Launch(p) == MainStep(p, "unborn", "new")

\* New builds plugins and pool; any failure ends the process at once.
NewDependencies(p) == MainStep(p, "new", "listen")

NewFails(p) == At(p, "new") /\ Becomes(p, Ended(proc[p]))

\* Mutant of Listen: the address may be bound by two processes (SO_REUSEPORT).
ListenShared(p) == MainStep(p, "listen", "start")

AddressInUse(p) ==
    proc[p].parent = NoProc /\ \E q \in Procs : HoldsSocket(q)

\* upg.Listen: a child finds the inherited socket, a cold start binds it.
Listen(p) == ~AddressInUse(p) /\ MainStep(p, "listen", "start")

ListenFails(p) ==
    At(p, "listen") /\ AddressInUse(p) /\ Becomes(p, Ended(proc[p]))

\* kratosApp.Run starts the server, then the AfterStart hook.
StartServer(p) == MainStep(p, "start", "ready")

AfterStartReady(p) ==
    /\ At(p, "ready")
    /\ Becomes(p, [proc[p] EXCEPT !.pc = "pid", !.ready = TRUE])

\* Ready cannot reach a parent that is gone: Run returns the error at once,
\* nobody calls Stop, and Shutdown follows while the server accepts.
AfterStartReadyFails(p) ==
    /\ At(p, "ready")
    /\ proc[p].parent # NoProc /\ Gone(proc[p].parent)
    /\ Becomes(p, [proc[p] EXCEPT !.pc = "close", !.ready = TRUE,
                                  !.failed = TRUE])

WritePIDFile(p) ==
    /\ At(p, "pid")
    /\ proc' = [proc EXCEPT ![p].pc = "run"]
    /\ pidFile' = p
    /\ UNCHANGED world

\* The failure is logged, the server goes on, and the file names whom it did.
WritePIDFileFails(p) == DiskFails /\ MainStep(p, "pid", "run")

\* Run leaves its wait once Stop was called; the server stops accepting.
DrainStarts(p) == proc[p].stopping /\ MainStep(p, "run", "drain")

\* Run returns when the last request is served ...
Drained(p) == proc[p].handlers = 0 /\ MainStep(p, "drain", "close")

\* ... or when StopTimeout is over.
DrainTimesOut(p) ==
    /\ At(p, "drain") /\ proc[p].handlers > 0
    /\ Becomes(p, [proc[p] EXCEPT !.pc = "close", !.late = TRUE])

\* Mutant of Shutdown: Run's return is not waited for.
ShutdownEarly(p) ==
    /\ At(p, "drain") \/ At(p, "close")
    /\ Becomes(p, [proc[p] EXCEPT !.pc = "unlink", !.exitC = TRUE])

\* Shutdown up to upg.Stop: plugins, pool and tableflip are closed.
Shutdown(p) ==
    /\ At(p, "close")
    /\ Becomes(p, [proc[p] EXCEPT !.pc = "unlink", !.exitC = TRUE])

\* removePIDFile removes the file whatever it says; then main returns.
RemovePIDFile(p) ==
    /\ At(p, "unlink")
    /\ proc' = [proc EXCEPT ![p] = Ended(@)]
    /\ pidFile' = NoProc
    /\ UNCHANGED world

\* The failure is logged, and the file stays.
RemovePIDFileFails(p) ==
    /\ DiskFails
    /\ At(p, "unlink") /\ Becomes(p, Ended(proc[p]))

-----------------------------------------------------------------------------
(* waitForExit and the tableflip upgrade it blocks on.                     *)

\* The goroutine runs and installs the signal channels.
StartSignalLoop(p) ==
    /\ proc[p].pc \in {"start", "ready", "pid", "run"}
    /\ proc[p].loop = "none"
    /\ Becomes(p, [proc[p] EXCEPT !.loop = "select"])

InSelect(p)  == Alive(p) /\ proc[p].loop = "select"
InUpgrade(p) == Alive(p) /\ proc[p].loop = "upgrade"

\* tableflip refuses to upgrade a process that is not ready, whose parent is
\* still there, or that has upgraded already.
MayUpgrade(p) == proc[p].ready /\ Gone(proc[p].parent) /\ ~proc[p].exitC

\* Upgrade forks a child, which inherits the listener, and waits.
SelectHUP(p) ==
    /\ InSelect(p) /\ proc[p].hup /\ MayUpgrade(p)
    /\ \E c \in Procs :
          /\ At(c, "unborn")
          /\ proc' = [proc EXCEPT
                ![p] = [@ EXCEPT !.hup = FALSE, !.loop = "upgrade", !.child = c],
                ![c] = [@ EXCEPT !.pc = "new", !.parent = p]]
    /\ UNCHANGED <<pidFile, world>>

\* Upgrade returns an error at once (refused, or the fork failed).
SelectHUPFails(p) ==
    /\ InSelect(p) /\ proc[p].hup
    /\ Becomes(p, [proc[p] EXCEPT !.hup = FALSE])

UpgradeSucceeds(p) ==
    /\ InUpgrade(p) /\ proc[proc[p].child].ready
    /\ Becomes(p, [proc[p] EXCEPT !.loop = "select", !.exitC = TRUE])

\* Mutant of UpgradeFails: the old process leaves though the child failed.
UpgradeFailsAndLeaves(p) ==
    /\ InUpgrade(p) /\ Gone(proc[p].child)
    /\ Becomes(p, [proc[p] EXCEPT !.loop = "returned", !.stopping = TRUE])

\* The child exited: the error is logged and the loop goes on.
UpgradeFails(p) ==
    /\ InUpgrade(p) /\ Gone(proc[p].child)
    /\ Becomes(p, [proc[p] EXCEPT !.loop = "select"])

\* UpgradeTimeout is over: the child is killed, even one whose Ready is on
\* its way, and Upgrade fails.
UpgradeTimesOut(p) ==
    /\ InUpgrade(p) /\ Alive(proc[p].child)
    /\ proc' = [proc EXCEPT ![proc[p].child] = Ended(@), ![p].loop = "select"]
    /\ UNCHANGED <<pidFile, world>>

\* Mutant of SelectExit: the loop returns without stopping the application.
SelectExitForgotten(p) ==
    /\ InSelect(p) /\ proc[p].exitC
    /\ Becomes(p, [proc[p] EXCEPT !.loop = "returned"])

\* The new process is ready: kratosApp.Stop, then waitForExit returns.
SelectExit(p) ==
    /\ InSelect(p) /\ proc[p].exitC
    /\ Becomes(p, [proc[p] EXCEPT !.loop = "returned", !.stopping = TRUE])

\* Mutant of SelectTerm: the loop returns without stopping the application.
SelectTermForgotten(p) ==
    /\ InSelect(p) /\ proc[p].term
    /\ Becomes(p, [proc[p] EXCEPT !.loop = "returned", !.term = FALSE])

SelectTerm(p) ==
    /\ InSelect(p) /\ proc[p].term
    /\ Becomes(p, [proc[p] EXCEPT !.loop = "returned", !.term = FALSE,
                                  !.stopping = TRUE])

-----------------------------------------------------------------------------
(* The operator's commands, requests and crashes.                          *)

\* handleSignalCommand signals the process the PID file names, if it is alive.
Signalled(p, r) ==
    /\ commands < MaxCommands
    /\ pidFile = p /\ Alive(p)
    /\ commands' = commands + 1
    /\ proc' = [proc EXCEPT ![p] = r]
    /\ UNCHANGED <<pidFile, crashes>>

\* A signal that comes before signal.Notify kills the process.
Unprepared(p) == proc[p].loop = "none"

RestartCommand(p) ==
    /\ ~Unprepared(p)
    /\ Signalled(p, [proc[p] EXCEPT !.hup = TRUE])
    /\ UNCHANGED ending

StopCommand(p) ==
    /\ ~Unprepared(p)
    /\ Signalled(p, [proc[p] EXCEPT !.term = TRUE])
    /\ ending' = TRUE

CommandKills(p) ==
    /\ Unprepared(p)
    /\ Signalled(p, Ended(proc[p]))
    /\ ending' = TRUE

AcceptRequest(p) ==
    /\ Accepting(p) /\ proc[p].handlers < MaxHandlers
    /\ Becomes(p, [proc[p] EXCEPT !.handlers = @ + 1])

\* Mutant of FinishRequest: a request is counted out twice.
FinishRequestTwice(p) ==
    /\ proc[p].handlers > 0
    /\ Becomes(p, [proc[p] EXCEPT !.handlers = @ - 2])

FinishRequest(p) ==
    /\ proc[p].handlers > 0
    /\ Becomes(p, [proc[p] EXCEPT !.handlers = @ - 1])

\* The process dies without running Shutdown.
Crash(p) ==
    /\ crashes < MaxCrashes /\ Alive(p)
    /\ proc' = [proc EXCEPT ![p] = Ended(@)]
    /\ crashes' = crashes + 1
    /\ ending' = TRUE
    /\ UNCHANGED <<pidFile, commands>>

Main(p) ==
    \/ NewDependencies(p) \/ NewFails(p)
    \/ Listen(p)          \/ ListenFails(p)
    \/ StartServer(p)
    \/ AfterStartReady(p) \/ AfterStartReadyFails(p)
    \/ WritePIDFile(p)    \/ WritePIDFileFails(p)
    \/ DrainStarts(p)     \/ Drained(p) \/ DrainTimesOut(p)
    \/ Shutdown(p)
    \/ RemovePIDFile(p)   \/ RemovePIDFileFails(p)

Upgrading(p) == UpgradeSucceeds(p) \/ UpgradeFails(p) \/ UpgradeTimesOut(p)

Select(p) == SelectHUP(p) \/ SelectHUPFails(p) \/ SelectExit(p) \/ SelectTerm(p)

Outside(p) ==
    \/ Launch(p)
    \/ RestartCommand(p) \/ StopCommand(p) \/ CommandKills(p)
    \/ AcceptRequest(p)  \/ FinishRequest(p)
    \/ Crash(p)

Next ==
    \E p \in Procs :
        Main(p) \/ StartSignalLoop(p) \/ Upgrading(p) \/ Select(p) \/ Outside(p)

Spec == Init /\ [][Next]_vars

(***************************************************************************)
(* Fairness.  Both goroutines of a living process run; a drain ends by     *)
(* StopTimeout and an upgrade by UpgradeTimeout; a Go select that finds a  *)
(* case ready again and again takes it.  Operators, requests and crashes   *)
(* promise nothing, nor do other processes: only those watched need run.   *)
(***************************************************************************)
Fairness ==
    \A p \in Watched :
        /\ WF_vars(Main(p))
        /\ WF_vars(StartSignalLoop(p))
        /\ WF_vars(Upgrading(p))
        /\ SF_vars(SelectExit(p))
        /\ SF_vars(SelectTerm(p))

FairSpec == Spec /\ Fairness

-----------------------------------------------------------------------------
(* Properties.                                                             *)

\* A hot restart never leaves the address unserved: from the first ready
\* process on, unless a stop was commanded or a process died, some process
\* accepts connections, whichever child fails, hangs or is killed.
AlwaysServed ==
    ((\E p \in Procs : proc[p].ready) /\ ~ending) =>
        \E p \in Procs : Accepting(p)

\* Plugins and pool are closed after the server has stopped, and under a
\* running request only if the drain timed out.  The exception is a child that
\* cannot tell its parent that it is ready: its Run returns without Stop, and
\* they are closed under a server that accepts.  It takes a crash: a parent
\* that does not die waits for its child, whatever it is commanded.
ClosedAfterDrain ==
    \A p \in Procs :
        At(p, "unlink") =>
            \/ proc[p].stopping /\ (proc[p].handlers = 0 \/ proc[p].late)
            \/ proc[p].failed /\ crashes > 0

\* Two processes serve at once only while one hands over to the other: of two
\* ready processes that accept and were not told to exit, one is the child
\* whose readiness the other has yet to hear of.
OneServer ==
    LET Serving == {p \in Procs :
                       Accepting(p) /\ proc[p].ready /\ ~proc[p].exitC}
    IN  \A p, q \in Serving :
            p # q => \/ InUpgrade(p) /\ proc[p].child = q
                     \/ InUpgrade(q) /\ proc[q].child = p

\* A process that was sent SIGTERM exits, even one blocked in Upgrade, and
\* however long its requests take.
TermExits == \A p \in Watched : proc[p].term ~> At(p, "gone")

\* Once the new process is ready and the old one has heard of it, the old
\* one goes.
HandoverCompletes == \A p \in Watched : proc[p].exitC ~> At(p, "gone")

-----------------------------------------------------------------------------
(* What the source says and the code does not do.                          *)

\* app.go:264 takes a missing PID file for "the service may not be running",
\* and app.go:153-158 has every started server write its own: while a process
\* that took over serves, there is a PID file.  Broken by every hot restart
\* in which the old process is the last to touch the file: its Shutdown
\* removes the one the new process wrote.
PidFileKept ==
    \A p \in Procs :
        (At(p, "run") /\ Accepting(p) /\ proc[p].parent # NoProc) =>
            pidFile # NoProc

\* main.go:31, "-s stop: graceful stop": a stop that reached a process ends
\* its service.  Broken when it arrives during an upgrade: it waits in sigTerm
\* of the old process, which was to leave anyway, and the child serves on.
StopEndsService ==
    \A p \in Procs :
        proc[p].term ~>
            ~\E q \in {p, proc[p].child} \cap Procs : Accepting(q)

=============================================================================
