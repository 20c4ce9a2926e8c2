------------------------------- MODULE Startup --------------------------------
(***************************************************************************)
(* One process of the gateway from its configuration file to its exit:     *)
(* config.Load, app.New with SetupAll, acpool.Build and initServer,        *)
(* router.Register, and Shutdown.  Any step may fail; what was built       *)
(* before it is then left to the kernel.  Lifecycle has the same process   *)
(* among others, with signals and requests, and this one as two actions.   *)
(***************************************************************************)
EXTENDS Integers, Sequences, SequencesExt

CONSTANTS Configs,      \* what a configuration file may say, see Config
          Registered    \* the plugins that have a factory

Databases         == {"mysql", "sqlite", "redis"}
Strategies        == {"round_robin", "priority", "weighted", "least_used", "affinity"}
GroupStrategies   == {"group_priority", "group_round_robin", "group_weighted",
                      "group_most_available", "group_affinity"}
OccupancyPolicies == {"unlimited", "fixed_limit", "adaptive_limit"}

\* protocol.adapters, and what their Routes serve; "list" is the handler of
\* /models, the others are the ProxyHandler of their adapter.
Adapters == {"openai", "anthropic"}
Routes(adapter) ==
    IF adapter = "openai"
    THEN <<[pattern |-> "/chat/completions", handler |-> "openai"],
           [pattern |-> "/models", handler |-> "list"]>>
    ELSE <<[pattern |-> "/messages", handler |-> "anthropic"]>>

Config(c) ==
    /\ DOMAIN c = {"address", "upgradeTimeout", "plugins", "protocols", "driver",
                   "selector", "group", "breaker", "cooldown", "tracker",
                   "occupancy", "limit", "retries", "failover", "command"}
    /\ c.plugins \in Seq(STRING)
    /\ c.protocols \in Seq([name : STRING, enable : BOOLEAN, prefix : STRING])
    /\ c.upgradeTimeout \in Int /\ c.limit \in Int /\ c.retries \in Int
    /\ {c.breaker, c.cooldown, c.tracker, c.failover, c.command} \subseteq BOOLEAN

ASSUME ConfigsAssumption == \A c \in Configs : Config(c)

VARIABLES
    cfg,         \* Config
    pc,          \* the step under way
    plugins,     \* Manager.initialized: what is set up, in order
    straggler,   \* a Setup that timed out is still running
    deps,        \* Dependencies: store, usage tracker, closers
    opts,        \* the options for balancer.New
    timeout,     \* App.upgradeTimeout
    mux,         \* the routes of the server, in order
    open,        \* databases with an open connection
    closed,      \* history: what was closed, in order
    fault        \* history: something outside the configuration failed

built == <<deps, opts, open>>
vars  == <<cfg, pc, plugins, straggler, built, timeout, mux, closed, fault>>

Init ==
    /\ cfg \in Configs
    /\ pc = "load" /\ plugins = <<>> /\ straggler = FALSE
    /\ deps = [store |-> "none", tracker |-> FALSE, closers |-> <<>>]
    /\ opts = {} /\ timeout = [n |-> 60, unit |-> "ns"]
    /\ mux = <<>> /\ open = {} /\ closed = <<>> /\ fault = FALSE

\* A step that returns an error: New returns it, and main exits with 1.
Fails(cause) == pc' = "failed" /\ fault' = (fault \/ cause = "outside")

Goto(place) == pc' = place /\ UNCHANGED fault

-----------------------------------------------------------------------------
(* main and New up to acpool.                                              *)

setDefaults(c) ==
    [c EXCEPT !.address = IF @ = "" THEN ":8080" ELSE @,
              !.upgradeTimeout = IF @ = 0 THEN 60 ELSE @]

\* After setDefaults nothing is left for Validate to find.
Load ==
    /\ pc = "load"
    /\ cfg' = setDefaults(cfg)
    /\ IF cfg'.address = "" THEN Fails("config") ELSE Goto("new")
    /\ UNCHANGED <<plugins, straggler, built, timeout, mux, closed>>

\* The file cannot be read, or is no YAML of this shape.
LoadFails ==
    /\ pc = "load" /\ Fails("outside")
    /\ UNCHANGED <<cfg, plugins, straggler, built, timeout, mux, closed>>

\* New's timeout is 60 ns unless the configuration says a positive number of
\* seconds.  A -s command builds nothing and ends with its signal.
New ==
    /\ pc = "new"
    /\ timeout' = IF cfg.upgradeTimeout > 0
                  THEN [n |-> cfg.upgradeTimeout, unit |-> "s"] ELSE timeout
    /\ Goto(IF cfg.command THEN "exited" ELSE "plugins")
    /\ UNCHANGED <<cfg, plugins, straggler, built, mux, closed>>

\* The registered plugins of the configuration; others are skipped.
Wanted ==
    FlattenSeq([i \in DOMAIN cfg.plugins |->
                  IF cfg.plugins[i] \in Registered THEN <<cfg.plugins[i]>> ELSE <<>>])

SetupOne ==
    /\ pc = "plugins" /\ Len(plugins) < Len(Wanted)
    /\ plugins' = Append(plugins, Wanted[Len(plugins) + 1])
    /\ UNCHANGED <<cfg, pc, straggler, built, timeout, mux, closed, fault>>

\* Mutant of SetupTimesOut: it is logged, and the next plugin is set up.
SetupTimesOutLogged ==
    /\ pc = "plugins" /\ Len(plugins) < Len(Wanted)
    /\ straggler' = TRUE
    /\ plugins' = Append(plugins, Wanted[Len(plugins) + 1])
    /\ UNCHANGED <<cfg, pc, built, timeout, mux, closed, fault>>

\* The goroutine that runs Setup is not stopped.
SetupTimesOut ==
    /\ pc = "plugins" /\ Len(plugins) < Len(Wanted)
    /\ straggler' = TRUE
    /\ Fails("outside")
    /\ UNCHANGED <<cfg, plugins, built, timeout, mux, closed>>

SetupFails ==
    /\ pc = "plugins" /\ Len(plugins) < Len(Wanted) /\ Fails("outside")
    /\ UNCHANGED <<cfg, plugins, straggler, built, timeout, mux, closed>>

SetupDone ==
    /\ pc = "plugins" /\ Len(plugins) = Len(Wanted)
    /\ Goto("storage")
    /\ UNCHANGED <<cfg, plugins, straggler, built, timeout, mux, closed>>

-----------------------------------------------------------------------------
(* acpool.Build.                                                           *)

Option(name, arg, n) == [name |-> name, arg |-> arg, n |-> n]
On(condition, option) == IF condition THEN {option} ELSE {}

\* One part of Build: from one place to the next with more options, or an
\* error that the configuration is to blame for.
Part(from, to, allowed, more) ==
    /\ pc = from
    /\ IF allowed THEN Goto(to) /\ opts' = opts \cup more
                  ELSE Fails("config") /\ UNCHANGED opts
    /\ UNCHANGED <<cfg, plugins, straggler, open, timeout, mux, closed>>

\* One store serves as all four; only a database has a closer.
buildStorage ==
    LET driver == IF cfg.driver = "" THEN "memory" ELSE cfg.driver
        dbs    == {driver} \cap Databases
    IN  /\ pc = "storage"
        /\ IF driver \notin Databases \cup {"memory"}
           THEN Fails("config") /\ UNCHANGED built
           ELSE /\ Goto("selector")
                /\ deps' = [deps EXCEPT !.store = driver, !.closers = SetToSeq(dbs)]
                /\ open' = open \cup dbs
                /\ opts' = {Option("accounts", driver, 0), Option("providers", driver, 0),
                            Option("stats", driver, 0)}
        /\ UNCHANGED <<cfg, plugins, straggler, timeout, mux, closed>>

\* NewStore cannot reach the database, or the library refuses the breaker or
\* the balancer, or tableflip.New or Listen fails.
OutsideFails ==
    /\ \/ pc = "storage" /\ cfg.driver \in Databases
       \/ pc = "guards" /\ cfg.breaker
       \/ pc \in {"balancer", "server"}
    /\ Fails("outside")
    /\ UNCHANGED <<cfg, plugins, straggler, built, timeout, mux, closed>>

buildSelector ==
    /\ Part("selector", "group",
            /\ cfg.selector \in Strategies \cup {""}
            /\ cfg.selector = "least_used" => deps.store # "none",
            On(cfg.selector # "", Option("selector", cfg.selector, 0)))
    /\ UNCHANGED deps

buildGroupSelector ==
    /\ Part("group", "guards", cfg.group \in GroupStrategies \cup {""},
            On(cfg.group # "", Option("group", cfg.group, 0)))
    /\ UNCHANGED deps

\* The breaker counts in the stats of the store; the cooldown stands alone.
buildCircuitBreakerAndCooldown ==
    /\ Part("guards", "tracker", TRUE,
            On(cfg.breaker /\ deps.store # "none", Option("breaker", deps.store, 0))
            \cup On(cfg.cooldown, Option("cooldown", "", 0)))
    /\ UNCHANGED deps

buildUsageTracker ==
    /\ Part("tracker", "occupancy", TRUE,
            On(cfg.tracker, Option("tracker", deps.store, 0)))
    /\ deps' = [deps EXCEPT !.tracker = cfg.tracker]

\* Mutant of buildOccupancy: a limit that is not configured stays 0.
buildOccupancyNoDefault ==
    /\ Part("occupancy", "balancer",
            /\ cfg.occupancy \in OccupancyPolicies \cup {""}
            /\ cfg.occupancy = "adaptive_limit" => deps.tracker,
            On(cfg.occupancy # "",
               Option("occupancy", cfg.occupancy,
                      IF cfg.occupancy = "fixed_limit" THEN cfg.limit ELSE 0)))
    /\ UNCHANGED deps

\* Mutant of buildOccupancy: adaptive_limit is built without a tracker.
buildOccupancyUntracked ==
    /\ Part("occupancy", "balancer", cfg.occupancy \in OccupancyPolicies \cup {""},
            On(cfg.occupancy # "",
               Option("occupancy", cfg.occupancy,
                      IF cfg.occupancy # "fixed_limit" THEN 0
                      ELSE IF cfg.limit <= 0 THEN 5 ELSE cfg.limit)))
    /\ UNCHANGED deps

\* adaptive_limit follows the tracker built before it; fixed_limit has 5 where
\* the configuration has no positive limit.
buildOccupancy ==
    /\ Part("occupancy", "balancer",
            /\ cfg.occupancy \in OccupancyPolicies \cup {""}
            /\ cfg.occupancy = "adaptive_limit" => deps.tracker,
            On(cfg.occupancy # "",
               Option("occupancy", cfg.occupancy,
                      IF cfg.occupancy # "fixed_limit" THEN 0
                      ELSE IF cfg.limit <= 0 THEN 5 ELSE cfg.limit)))
    /\ UNCHANGED deps

\* The default retries and failover, then balancer.New.
buildBalancer ==
    /\ Part("balancer", "server", TRUE,
            On(cfg.retries > 0, Option("retries", "", cfg.retries))
            \cup On(cfg.failover, Option("failover", "", 0)))
    /\ UNCHANGED deps

-----------------------------------------------------------------------------
(* initServer, Run and Shutdown.                                           *)

Prefix(p) == IF p.prefix = "" THEN "/" \o p.name ELSE p.prefix

\* Mutant of RoutesOf: a disabled protocol is served too.
RoutesOfDisabled(p) ==
    IF p.name \notin Adapters THEN <<>>
    ELSE [i \in DOMAIN Routes(p.name) |->
            [prefix |-> Prefix(p), pattern |-> Routes(p.name)[i].pattern,
             handler |-> Routes(p.name)[i].handler]]

\* A protocol that is disabled or has no adapter is skipped.
RoutesOf(p) ==
    IF ~p.enable \/ p.name \notin Adapters THEN <<>>
    ELSE [i \in DOMAIN Routes(p.name) |->
            [prefix |-> Prefix(p), pattern |-> Routes(p.name)[i].pattern,
             handler |-> Routes(p.name)[i].handler]]

\* The listener is open; Register fills the mux and adds /healthz last.
initServer ==
    /\ pc = "server"
    /\ mux' = FlattenSeq([i \in DOMAIN cfg.protocols |-> RoutesOf(cfg.protocols[i])])
              \o <<[prefix |-> "", pattern |-> "/healthz", handler |-> "health"]>>
    /\ Goto("run")
    /\ UNCHANGED <<cfg, plugins, straggler, built, timeout, closed>>

\* kratosApp.Run returns, on a signal or an error; Shutdown follows.
RunReturns ==
    /\ pc = "run"
    /\ Goto("closePlugins")
    /\ UNCHANGED <<cfg, plugins, straggler, built, timeout, mux, closed>>

\* CloseAll, last plugin first; an error is logged and the next one closed.
CloseAll ==
    /\ pc = "closePlugins"
    /\ closed' = closed \o Reverse(plugins)
    /\ Goto("closeDeps")
    /\ UNCHANGED <<cfg, plugins, straggler, built, timeout, mux>>

\* Mutant of DependenciesClose: databases are left to the kernel.
DependenciesCloseSkipped ==
    /\ pc = "closeDeps"
    /\ Goto("exited")
    /\ UNCHANGED <<cfg, plugins, straggler, built, timeout, mux, closed>>

\* Dependencies.Close closes every closer and keeps the first error.
DependenciesClose ==
    /\ pc = "closeDeps"
    /\ closed' = closed \o deps.closers
    /\ open' = open \ ToSet(deps.closers)
    /\ Goto("exited")
    /\ UNCHANGED <<cfg, plugins, straggler, deps, opts, timeout, mux>>

Ended == pc \in {"exited", "failed"} /\ UNCHANGED vars

Next ==
    \/ Load \/ LoadFails \/ New
    \/ SetupOne \/ SetupTimesOut \/ SetupFails \/ SetupDone
    \/ buildStorage \/ OutsideFails \/ buildSelector \/ buildGroupSelector
    \/ buildCircuitBreakerAndCooldown \/ buildUsageTracker \/ buildOccupancy
    \/ buildBalancer
    \/ initServer \/ RunReturns \/ CloseAll \/ DependenciesClose
    \/ Ended

Spec == Init /\ [][Next]_vars

-----------------------------------------------------------------------------
(* Properties.                                                             *)

Serving == pc = "run"

\* What config.go says of each key, in no order: a name it lists or none, and
\* adaptive_limit only with a usage tracker.
Acceptable(c) ==
    /\ c.driver \in Databases \cup {"", "memory"}
    /\ c.selector \in Strategies \cup {""}
    /\ c.group \in GroupStrategies \cup {""}
    /\ c.occupancy \in OccupancyPolicies \cup {""}
    /\ c.occupancy = "adaptive_limit" => c.tracker

\* A configuration is refused for what it says or not at all: a process
\* serves only under an acceptable one, and one that gave up had a bad one or
\* met a failure outside.  The order in which Build goes through the keys
\* never decides (Build, buildOccupancy).
StartsIff ==
    /\ Serving => Acceptable(cfg) /\ ~fault
    /\ pc = "failed" => fault \/ ~Acceptable(cfg)

\* The pool that serves is the one configured: one option per key that is set,
\* all stores, the breaker and the tracker on the same store, a fixed limit
\* that admits a request, whatever the file says of it (Build); the
\* upgrade timeout is in seconds unless the configuration has a negative
\* number, which leaves New's 60 ns.
Configured ==
    {"accounts", "providers", "stats"}
    \cup {name \in {"selector", "group", "occupancy"} : cfg[name] # ""}
    \cup {name \in {"breaker", "cooldown", "tracker", "failover"} : cfg[name]}
    \cup {name \in {"retries"} : cfg[name] > 0}

Wired ==
    Serving =>
        /\ {o.name : o \in opts} = Configured
        /\ \A o, p \in opts :
              /\ o.name = p.name => o = p
              /\ {o.name, p.name} \subseteq {"accounts", "providers", "stats",
                                             "breaker", "tracker"} => o.arg = p.arg
        /\ \A o \in opts : o.name = "occupancy" /\ o.arg = "fixed_limit" => o.n >= 1
        /\ timeout.unit = "ns" <=> cfg.upgradeTimeout < 0

\* No process serves with a plugin half set up: every registered plugin of the
\* configuration is, in its order, and no Setup that timed out runs on
\* (setupOne gives up, SetupAll and New with it).
PluginsWhole == Serving => plugins = Wanted /\ ~straggler

\* A process that served leaves nothing open, and closes its plugins, last
\* first, before the database they may use; one that failed closes nothing,
\* its plugins and its database included.
ClosedOnExit ==
    /\ pc = "exited" /\ ~cfg.command =>
          /\ open = {}
          /\ closed = Reverse(plugins) \o SetToSeq({cfg.driver} \cap Databases)
    /\ pc = "failed" => closed = <<>>

\* Every enabled protocol with an adapter is served by its own adapter under
\* its own prefix, and no other is (Register; the first route that matches
\* answers).  A path is a pair of prefix and pattern, which the router joins: of
\* a prefix that joins otherwise, such as "/" or one without a slash in front,
\* nothing is said.
Hits(prefix, pattern) ==
    {i \in DOMAIN mux : mux[i].prefix = prefix /\ mux[i].pattern = pattern}

Dispatch(prefix, pattern) ==
    LET hits == Hits(prefix, pattern)
    IN  IF hits = {} THEN "404"
        ELSE mux[CHOOSE i \in hits : \A j \in hits : i <= j].handler

EnabledAs(p) ==
    \E j \in DOMAIN cfg.protocols :
        /\ cfg.protocols[j].enable
        /\ cfg.protocols[j].name = p.name
        /\ Prefix(cfg.protocols[j]) = Prefix(p)

Answered(p) ==
    \A k \in DOMAIN Routes(p.name) :
        Dispatch(Prefix(p), Routes(p.name)[k].pattern) =
            IF EnabledAs(p) THEN Routes(p.name)[k].handler ELSE "404"

ServedByOwn ==
    Serving =>
        /\ Dispatch("", "/healthz") = "health"
        /\ \A i \in DOMAIN cfg.protocols :
              cfg.protocols[i].name \in Adapters => Answered(cfg.protocols[i])
=============================================================================
