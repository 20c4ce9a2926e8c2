---------------------------- MODULE StartupProofs -----------------------------
(***************************************************************************)
(* For any set of configurations and plugins: a process serves only under  *)
(* a configuration that is in order, with the pool the configuration       *)
(* describes, and one that served closes what it opened.                   *)
(*                                                                         *)
(* Build is a chain of parts, and the invariants say of each place in the  *)
(* chain which keys have been judged (Chosen), which options there are     *)
(* (Built), and what is open (Resources).                                  *)
(***************************************************************************)
EXTENDS Startup, SequenceFacts, FiniteSetTheorems, TLAPS

\* The places after a part of Build, until the process ends.
AfterOccupancy == {"balancer", "server", "run", "closePlugins", "closeDeps"}
AfterTracker   == AfterOccupancy \cup {"occupancy"}
AfterGuards    == AfterTracker \cup {"tracker"}
AfterGroup     == AfterGuards \cup {"guards"}
AfterSelector  == AfterGroup \cup {"group"}
AfterStorage   == AfterSelector \cup {"selector"}
BeforeStorage  == {"load", "new", "plugins", "storage"}

Driver == IF cfg.driver = "" THEN "memory" ELSE cfg.driver

\* Which keys have been judged, and found in order.
Chosen ==
    /\ Config(cfg)
    /\ deps \in [store : {Driver, "none"}, tracker : BOOLEAN, closers : {deps.closers}]
    /\ pc # "failed" => ~fault
    /\ pc = "failed" => fault \/ ~Acceptable(cfg)
    /\ pc \in AfterStorage =>
          deps.store = Driver /\ cfg.driver \in Databases \cup {"", "memory"}
    /\ pc \in AfterSelector => cfg.selector \in Strategies \cup {""}
    /\ pc \in AfterGroup => cfg.group \in GroupStrategies \cup {""}
    /\ pc \in AfterTracker => deps.tracker = cfg.tracker
    /\ pc \in AfterOccupancy =>
          /\ cfg.occupancy \in OccupancyPolicies \cup {""}
          /\ cfg.occupancy = "adaptive_limit" => cfg.tracker

\* A part does not fail, or the configuration was not in order.
LEMMA DriverKnown ==
    ASSUME Config(cfg), cfg.driver \in Databases \cup {"", "memory"}
    PROVE  Driver # "none"
BY DEF Driver, Databases

LEMMA ChosenInit == Init => Chosen
<1> SUFFICES ASSUME Init PROVE Chosen
  OBVIOUS
<1>1. Config(cfg)
  BY ConfigsAssumption DEF Init
<1>2. deps \in [store : {Driver, "none"}, tracker : BOOLEAN, closers : {deps.closers}]
  BY DEF Init
<1> QED
  BY <1>1, <1>2 DEF Init, Chosen, AfterOccupancy, AfterTracker, AfterGuards,
                    AfterGroup, AfterSelector, AfterStorage

LEMMA DefaultsKeepShape ==
    ASSUME NEW c, Config(c)
    PROVE  /\ Config(setDefaults(c)) /\ setDefaults(c).address # ""
           /\ setDefaults(c).upgradeTimeout # 0
           /\ setDefaults(c).driver = c.driver
<1> DEFINE d == setDefaults(c)
<1>1. /\ DOMAIN d = DOMAIN c
      /\ \A k \in DOMAIN c \ {"address", "upgradeTimeout"} : d[k] = c[k]
      /\ d.address = IF c.address = "" THEN ":8080" ELSE c.address
      /\ d.upgradeTimeout = IF c.upgradeTimeout = 0 THEN 60 ELSE c.upgradeTimeout
  BY DEF setDefaults, Config
<1> HIDE DEF d
<1>2. /\ d.limit = c.limit /\ d.retries = c.retries /\ d.driver = c.driver
      /\ d.breaker = c.breaker /\ d.cooldown = c.cooldown
      /\ d.tracker = c.tracker /\ d.failover = c.failover
      /\ d.command = c.command
  BY <1>1 DEF Config
<1>3. d.address # "" /\ d.upgradeTimeout # 0 /\ d.upgradeTimeout \in Int
  <2>1. d.address # ""
    BY <1>1
  <2>2. c.upgradeTimeout \in Int
    BY DEF Config
  <2>3. d.upgradeTimeout # 0 /\ d.upgradeTimeout \in Int
    <3>1. CASE c.upgradeTimeout = 0
      <4>1. d.upgradeTimeout = 60
        BY <1>1, <3>1
      <4> QED
        BY <4>1
    <3>2. CASE c.upgradeTimeout # 0
      <4>1. d.upgradeTimeout = c.upgradeTimeout
        BY <1>1, <3>2
      <4> QED
        BY <2>2, <3>2, <4>1
    <3> QED
      BY <3>1, <3>2
  <2> QED
    BY <2>1, <2>3
<1>4. Config(d)
  BY <1>1, <1>2, <1>3 DEF Config
<1> QED
  BY <1>2, <1>3, <1>4 DEF d

LEMMA ChosenStep == Chosen /\ [Next]_vars => Chosen'
<1> SUFFICES ASSUME Chosen, [Next]_vars PROVE Chosen'
  OBVIOUS
<1> USE DEF AfterOccupancy, AfterTracker, AfterGuards, AfterGroup, AfterSelector,
            AfterStorage
<1>1. CASE UNCHANGED vars
  BY <1>1 DEF vars, built, Chosen, Driver
<1>2. CASE Load
  <2>1. Config(cfg') /\ cfg'.address # "" /\ cfg'.driver = cfg.driver
    BY <1>2, DefaultsKeepShape DEF Load, Chosen
  <2>2. pc = "load" /\ pc' = "new" /\ fault' = fault /\ deps' = deps
    BY <1>2, <2>1 DEF Load, Goto, built
  <2> QED
    BY <2>1, <2>2 DEF Chosen, Driver
<1>3. CASE LoadFails \/ SetupTimesOut \/ SetupFails \/ OutsideFails
  <2>1. pc' = "failed" /\ fault' /\ UNCHANGED <<cfg, deps>>
    BY <1>3 DEF LoadFails, SetupTimesOut, SetupFails, OutsideFails, Fails, built
  <2> QED
    BY <2>1 DEF Chosen, Driver
<1>4. CASE New \/ SetupOne \/ SetupDone
  <2>1. /\ pc \in {"new", "plugins"} /\ pc' \in {"exited", "plugins", "storage"}
        /\ UNCHANGED <<cfg, deps, fault>>
    BY <1>4 DEF New, SetupOne, SetupDone, Goto, built
  <2> QED
    BY <2>1 DEF Chosen, Driver
<1>5. CASE buildStorage
  <2>1. cfg' = cfg /\ pc = "storage"
    BY <1>5 DEF buildStorage
  <2>2. CASE Driver \notin Databases \cup {"memory"}
    <3>1. pc' = "failed" /\ fault' = (fault \/ FALSE) /\ deps' = deps
      BY <1>5, <2>2 DEF buildStorage, Fails, built, Driver
    <3>2. ~Acceptable(cfg)'
      BY <2>1, <2>2 DEF Acceptable, Driver
    <3> QED
      BY <2>1, <3>1, <3>2 DEF Chosen, Driver
  <2>3. CASE Driver \in Databases \cup {"memory"}
    <3>1. /\ pc' = "selector" /\ fault' = fault
          /\ deps' = [deps EXCEPT !.store = Driver,
                                  !.closers = SetToSeq({Driver} \cap Databases)]
      BY <1>5, <2>3 DEF buildStorage, Goto, Driver
    <3>2. cfg.driver \in Databases \cup {"", "memory"}
      BY <2>3 DEF Driver
    <3> QED
      BY <2>1, <3>1, <3>2 DEF Chosen, Driver
  <2> QED
    BY <2>2, <2>3
<1>6. CASE buildSelector
  BY <1>6, DriverKnown DEF buildSelector, Part, Goto, Fails, Chosen, Acceptable, Driver
<1>7. CASE buildGroupSelector
  BY <1>7 DEF buildGroupSelector, Part, Goto, Fails, Chosen, Acceptable, Driver
<1>8. CASE buildCircuitBreakerAndCooldown
  BY <1>8 DEF buildCircuitBreakerAndCooldown, Part, Goto, Chosen, Driver
<1>9. CASE buildUsageTracker
  <2>1. /\ pc = "tracker" /\ pc' = "occupancy" /\ UNCHANGED <<cfg, fault>>
        /\ deps' = [deps EXCEPT !.tracker = cfg.tracker]
    BY <1>9 DEF buildUsageTracker, Part, Goto
  <2>2. cfg.tracker \in BOOLEAN
    BY DEF Chosen, Config
  <2> QED
    BY <2>1, <2>2 DEF Chosen, Driver
<1>10. CASE buildOccupancy
  BY <1>10 DEF buildOccupancy, Part, Goto, Fails, Chosen, Acceptable, Driver
<1>11. CASE buildBalancer
  BY <1>11 DEF buildBalancer, Part, Goto, Chosen, Driver
<1>12. CASE initServer \/ RunReturns \/ CloseAll \/ DependenciesClose
  <2>1. /\ pc \in {"server", "run", "closePlugins", "closeDeps"}
        /\ pc' \in {"run", "closePlugins", "closeDeps", "exited"}
        /\ UNCHANGED <<cfg, deps, fault>>
    BY <1>12 DEF initServer, RunReturns, CloseAll, DependenciesClose, Goto, built
  <2> QED
    BY <2>1 DEF Chosen, Driver
<1> QED
  BY <1>1, <1>2, <1>3, <1>4, <1>5, <1>6, <1>7, <1>8, <1>9, <1>10, <1>11, <1>12
     DEF Next, Ended

\* A process serves only under a configuration that is in order, and one that
\* gave up had a bad one or met a failure outside.
THEOREM StartsIffInOrder == Spec => []StartsIff
<1>1. Chosen => StartsIff
  BY DEF Chosen, StartsIff, Serving, Acceptable, AfterOccupancy, AfterTracker,
         AfterGuards, AfterGroup, AfterSelector, AfterStorage
<1> QED
  BY <1>1, ChosenInit, ChosenStep, PTL DEF Spec

-----------------------------------------------------------------------------
(* The options for the balancer.                                           *)

Stores == {Option("accounts", Driver, 0), Option("providers", Driver, 0),
           Option("stats", Driver, 0)}

OfSelector  == On(cfg.selector # "", Option("selector", cfg.selector, 0))
OfGroup     == On(cfg.group # "", Option("group", cfg.group, 0))
OfGuards    == On(cfg.breaker, Option("breaker", Driver, 0))
                  \cup On(cfg.cooldown, Option("cooldown", "", 0))
OfTracker   == On(cfg.tracker, Option("tracker", Driver, 0))
OfOccupancy == On(cfg.occupancy # "",
                  Option("occupancy", cfg.occupancy,
                         IF cfg.occupancy # "fixed_limit" THEN 0
                         ELSE IF cfg.limit <= 0 THEN 5 ELSE cfg.limit))
OfDefaults  == On(cfg.retries > 0, Option("retries", "", cfg.retries))
                  \cup On(cfg.failover, Option("failover", "", 0))

AllOptions == Stores \cup OfSelector \cup OfGroup \cup OfGuards \cup OfTracker
                     \cup OfOccupancy \cup OfDefaults

\* Which options there are, and the timeout New has set.
Built ==
    /\ pc = "selector" => opts = Stores
    /\ pc = "group" => opts = Stores \cup OfSelector
    /\ pc = "guards" => opts = Stores \cup OfSelector \cup OfGroup
    /\ pc = "tracker" => opts = Stores \cup OfSelector \cup OfGroup \cup OfGuards
    /\ pc = "occupancy" =>
          opts = Stores \cup OfSelector \cup OfGroup \cup OfGuards \cup OfTracker
    /\ pc = "balancer" =>
          opts = Stores \cup OfSelector \cup OfGroup \cup OfGuards \cup OfTracker
                        \cup OfOccupancy
    /\ pc \in {"server", "run"} => opts = AllOptions
    /\ pc \in {"load", "new"} => timeout = [n |-> 60, unit |-> "ns"]
    /\ pc \notin {"load", "failed"} => cfg.upgradeTimeout # 0
    /\ pc \notin {"load", "new", "failed"} =>
          timeout = IF cfg.upgradeTimeout > 0
                    THEN [n |-> cfg.upgradeTimeout, unit |-> "s"]
                    ELSE [n |-> 60, unit |-> "ns"]

LEMMA BuiltInit == Init => Built
BY DEF Init, Built

LEMMA BuiltStep == Chosen /\ Built /\ [Next]_vars => Built'
<1> SUFFICES ASSUME Chosen, Built, [Next]_vars PROVE Built'
  OBVIOUS
<1> USE DEF AfterOccupancy, AfterTracker, AfterGuards, AfterGroup, AfterSelector,
            AfterStorage
<1>0. cfg' = cfg => UNCHANGED <<Stores, OfSelector, OfGroup, OfGuards, OfTracker,
                                OfOccupancy, OfDefaults, AllOptions>>
  BY DEF Stores, OfSelector, OfGroup, OfGuards, OfTracker, OfOccupancy, OfDefaults,
         AllOptions, Driver
<1>1. CASE UNCHANGED vars
  BY <1>0, <1>1 DEF vars, built, Built
<1>2. CASE Load
  <2>1. cfg'.address # "" /\ cfg'.upgradeTimeout # 0
    BY <1>2, DefaultsKeepShape DEF Load, Chosen
  <2>2. pc = "load" /\ pc' = "new" /\ timeout' = timeout
    BY <1>2, <2>1 DEF Load, Goto
  <2> QED
    BY <2>1, <2>2 DEF Built
<1>3. CASE pc' = "failed"
  BY <1>3 DEF Built
<1>4. CASE New
  <2>1. /\ pc = "new" /\ pc' \in {"exited", "plugins"} /\ cfg' = cfg
        /\ timeout' = IF cfg.upgradeTimeout > 0
                      THEN [n |-> cfg.upgradeTimeout, unit |-> "s"] ELSE timeout
    BY <1>4 DEF New, Goto
  <2> QED
    BY <2>1 DEF Built
<1>5. CASE SetupOne \/ SetupDone
  <2>1. /\ pc = "plugins" /\ pc' \in {"plugins", "storage"}
        /\ UNCHANGED <<cfg, timeout>>
    BY <1>5 DEF SetupOne, SetupDone, Goto
  <2> QED
    BY <2>1 DEF Built
<1>6. CASE buildStorage /\ pc' # "failed"
  <2>1. pc = "storage" /\ pc' = "selector" /\ opts' = Stores /\ UNCHANGED <<cfg, timeout>>
    BY <1>6 DEF buildStorage, Stores, Driver, Goto, Fails
  <2> QED
    BY <1>0, <2>1 DEF Built
<1>7. CASE buildSelector /\ pc' # "failed"
  <2>1. /\ pc = "selector" /\ pc' = "group" /\ opts' = opts \cup OfSelector
        /\ UNCHANGED <<cfg, timeout>>
    BY <1>7 DEF buildSelector, Part, Goto, Fails, OfSelector
  <2> QED
    BY <1>0, <2>1 DEF Built
<1>8. CASE buildGroupSelector /\ pc' # "failed"
  <2>1. /\ pc = "group" /\ pc' = "guards" /\ opts' = opts \cup OfGroup
        /\ UNCHANGED <<cfg, timeout>>
    BY <1>8 DEF buildGroupSelector, Part, Goto, Fails, OfGroup
  <2> QED
    BY <1>0, <2>1 DEF Built
<1>9. CASE buildCircuitBreakerAndCooldown
  <2>1. deps.store = Driver /\ deps.store # "none"
    BY <1>9, DriverKnown DEF buildCircuitBreakerAndCooldown, Part, Chosen
  <2>2. On(cfg.breaker /\ deps.store # "none", Option("breaker", deps.store, 0))
           \cup On(cfg.cooldown, Option("cooldown", "", 0)) = OfGuards
    BY <2>1 DEF On, OfGuards
  <2>3. /\ pc = "guards" /\ pc' = "tracker" /\ opts' = opts \cup OfGuards
        /\ UNCHANGED <<cfg, timeout>>
    BY <1>9, <2>2 DEF buildCircuitBreakerAndCooldown, Part, Goto
  <2> QED
    BY <1>0, <2>3 DEF Built
<1>10. CASE buildUsageTracker
  <2>1. /\ pc = "tracker" /\ pc' = "occupancy" /\ opts' = opts \cup OfTracker
        /\ UNCHANGED <<cfg, timeout>>
    BY <1>10 DEF buildUsageTracker, Part, Goto, OfTracker, Chosen
  <2> QED
    BY <1>0, <2>1 DEF Built
<1>11. CASE buildOccupancy /\ pc' # "failed"
  <2>1. /\ pc = "occupancy" /\ pc' = "balancer" /\ opts' = opts \cup OfOccupancy
        /\ UNCHANGED <<cfg, timeout>>
    BY <1>11 DEF buildOccupancy, Part, Goto, Fails, OfOccupancy
  <2> QED
    BY <1>0, <2>1 DEF Built
<1>12. CASE buildBalancer
  <2>1. /\ pc = "balancer" /\ pc' = "server" /\ opts' = opts \cup OfDefaults
        /\ UNCHANGED <<cfg, timeout>>
    BY <1>12 DEF buildBalancer, Part, Goto, OfDefaults
  <2>2. opts' = AllOptions
    BY <2>1 DEF Built, AllOptions
  <2> QED
    BY <1>0, <2>1, <2>2 DEF Built
<1>13. CASE initServer \/ RunReturns \/ CloseAll \/ DependenciesClose
  <2>1. /\ \/ pc = "server" /\ pc' = "run" /\ opts' = opts
           \/ pc' \in {"closePlugins", "closeDeps", "exited"}
        /\ pc \in {"server", "run", "closePlugins", "closeDeps"}
        /\ UNCHANGED <<cfg, timeout>>
    BY <1>13 DEF initServer, RunReturns, CloseAll, DependenciesClose, Goto, built
  <2> QED
    BY <1>0, <2>1 DEF Built
<1>14. CASE LoadFails \/ SetupTimesOut \/ SetupFails \/ OutsideFails
  BY <1>3, <1>14 DEF LoadFails, SetupTimesOut, SetupFails, OutsideFails, Fails
<1> QED
  BY <1>1, <1>2, <1>3, <1>4, <1>5, <1>6, <1>7, <1>8, <1>9, <1>10, <1>11, <1>12,
     <1>13, <1>14 DEF Next, Ended

\* The argument and the number of the option of a name.
OnStore == {"accounts", "providers", "stats", "breaker", "tracker"}

ArgOf(name) ==
    IF name \in OnStore THEN Driver
    ELSE IF name \in {"selector", "group", "occupancy"} THEN cfg[name] ELSE ""

NumberOf(name) ==
    IF name = "retries" THEN cfg.retries
    ELSE IF name # "occupancy" \/ cfg.occupancy # "fixed_limit" THEN 0
    ELSE IF cfg.limit <= 0 THEN 5 ELSE cfg.limit

\* An option is determined by its name, and its key is set.
Proper(o) ==
    o.name \in Configured /\ o = Option(o.name, ArgOf(o.name), NumberOf(o.name))

LEMMA ProperOption ==
    ASSUME NEW name \in Configured, NEW o,
           o = Option(name, ArgOf(name), NumberOf(name))
    PROVE  Proper(o)
BY DEF Proper, Option

LEMMA OptionsByName == ASSUME NEW o \in AllOptions PROVE Proper(o)
<1> USE DEF ArgOf, OnStore, NumberOf, Configured
<1>1. CASE o \in Stores
  <2>1. ASSUME NEW name \in {"accounts", "providers", "stats"}
        PROVE  name \in Configured /\ ArgOf(name) = Driver /\ NumberOf(name) = 0
    OBVIOUS
  <2>2. PICK name \in {"accounts", "providers", "stats"} : o = Option(name, Driver, 0)
    BY <1>1 DEF Stores
  <2> QED
    BY <2>1, <2>2, ProperOption
<1>2. CASE o \in OfSelector
  <2>1. o = Option("selector", cfg.selector, 0) /\ cfg.selector # ""
    BY <1>2 DEF OfSelector, On
  <2>2. /\ "selector" \in Configured
        /\ ArgOf("selector") = cfg.selector /\ NumberOf("selector") = 0
    BY <2>1
  <2> QED
    BY <2>1, <2>2, ProperOption
<1>3. CASE o \in OfGroup
  <2>1. o = Option("group", cfg.group, 0) /\ cfg.group # ""
    BY <1>3 DEF OfGroup, On
  <2>2. /\ "group" \in Configured
        /\ ArgOf("group") = cfg.group /\ NumberOf("group") = 0
    BY <2>1
  <2> QED
    BY <2>1, <2>2, ProperOption
<1>4. CASE o \in OfGuards
  <2>1. CASE cfg.breaker /\ o = Option("breaker", Driver, 0)
    <3>1. /\ "breaker" \in Configured
          /\ ArgOf("breaker") = Driver /\ NumberOf("breaker") = 0
      BY <2>1
    <3> QED
      BY <2>1, <3>1, ProperOption
  <2>2. CASE cfg.cooldown /\ o = Option("cooldown", "", 0)
    <3>1. /\ "cooldown" \in Configured
          /\ ArgOf("cooldown") = "" /\ NumberOf("cooldown") = 0
      BY <2>2
    <3> QED
      BY <2>2, <3>1, ProperOption
  <2> QED
    BY <1>4, <2>1, <2>2 DEF OfGuards, On
<1>5. CASE o \in OfTracker
  <2>1. o = Option("tracker", Driver, 0) /\ cfg.tracker
    BY <1>5 DEF OfTracker, On
  <2>2. /\ "tracker" \in Configured
        /\ ArgOf("tracker") = Driver /\ NumberOf("tracker") = 0
    BY <2>1
  <2> QED
    BY <2>1, <2>2, ProperOption
<1>6. CASE o \in OfOccupancy
  <2>1. /\ o = Option("occupancy", cfg.occupancy, NumberOf("occupancy"))
        /\ cfg.occupancy # ""
    BY <1>6 DEF OfOccupancy, On
  <2>2. "occupancy" \in Configured /\ ArgOf("occupancy") = cfg.occupancy
    BY <2>1
  <2> QED
    BY <2>1, <2>2, ProperOption
<1>7. CASE o \in OfDefaults
  <2>1. CASE cfg.retries > 0 /\ o = Option("retries", "", cfg.retries)
    <3>1. /\ "retries" \in Configured
          /\ ArgOf("retries") = "" /\ NumberOf("retries") = cfg.retries
      BY <2>1
    <3> QED
      BY <2>1, <3>1, ProperOption
  <2>2. CASE cfg.failover /\ o = Option("failover", "", 0)
    <3>1. /\ "failover" \in Configured
          /\ ArgOf("failover") = "" /\ NumberOf("failover") = 0
      BY <2>2
    <3> QED
      BY <2>2, <3>1, ProperOption
  <2> QED
    BY <1>7, <2>1, <2>2 DEF OfDefaults, On
<1> QED
  BY <1>1, <1>2, <1>3, <1>4, <1>5, <1>6, <1>7 DEF AllOptions

\* For every key that is set there is an option.
LEMMA ConfiguredHasOption ==
    ASSUME NEW name \in Configured
    PROVE  \E o \in AllOptions : o.name = name
<1>0. \A n, a, k : Option(n, a, k).name = n
  BY DEF Option
<1>1. CASE name \in {"accounts", "providers", "stats"}
  <2>1. Option(name, Driver, 0) \in AllOptions
    BY <1>1 DEF AllOptions, Stores
  <2> QED
    BY <1>0, <2>1
<1>2. CASE name = "selector" /\ cfg.selector # ""
  <2>1. Option("selector", cfg.selector, 0) \in AllOptions
    BY <1>2 DEF AllOptions, OfSelector, On
  <2> QED
    BY <1>0, <1>2, <2>1
<1>3. CASE name = "group" /\ cfg.group # ""
  <2>1. Option("group", cfg.group, 0) \in AllOptions
    BY <1>3 DEF AllOptions, OfGroup, On
  <2> QED
    BY <1>0, <1>3, <2>1
<1>4. CASE name = "breaker" /\ cfg.breaker
  <2>1. Option("breaker", Driver, 0) \in AllOptions
    BY <1>4 DEF AllOptions, OfGuards, On
  <2> QED
    BY <1>0, <1>4, <2>1
<1>5. CASE name = "cooldown" /\ cfg.cooldown
  <2>1. Option("cooldown", "", 0) \in AllOptions
    BY <1>5 DEF AllOptions, OfGuards, On
  <2> QED
    BY <1>0, <1>5, <2>1
<1>6. CASE name = "tracker" /\ cfg.tracker
  <2>1. Option("tracker", Driver, 0) \in AllOptions
    BY <1>6 DEF AllOptions, OfTracker, On
  <2> QED
    BY <1>0, <1>6, <2>1
<1>7. CASE name = "occupancy" /\ cfg.occupancy # ""
  <2>1. \E k : Option("occupancy", cfg.occupancy, k) \in AllOptions
    BY <1>7 DEF AllOptions, OfOccupancy, On
  <2> QED
    BY <1>0, <1>7, <2>1
<1>8. CASE name = "retries" /\ cfg.retries > 0
  <2>1. Option("retries", "", cfg.retries) \in AllOptions
    BY <1>8 DEF AllOptions, OfDefaults, On
  <2> QED
    BY <1>0, <1>8, <2>1
<1>9. CASE name = "failover" /\ cfg.failover
  <2>1. Option("failover", "", 0) \in AllOptions
    BY <1>9 DEF AllOptions, OfDefaults, On
  <2> QED
    BY <1>0, <1>9, <2>1
<1> QED
  BY <1>1, <1>2, <1>3, <1>4, <1>5, <1>6, <1>7, <1>8, <1>9 DEF Configured

\* The pool that serves is the one configured, on one store, with a fixed limit
\* that admits a request.
THEOREM PoolIsWired == Spec => []Wired
<1>1. Chosen /\ Built => Wired
  <2> SUFFICES ASSUME Chosen, Built, pc = "run" PROVE Wired
    BY DEF Wired, Serving
  <2>1. opts = AllOptions
    BY DEF Built
  <2>2. {o.name : o \in opts} = Configured
    BY <2>1, OptionsByName, ConfiguredHasOption DEF Proper
  <2>3. \A o, p \in opts :
           /\ o.name = p.name => o = p
           /\ {o.name, p.name} \subseteq OnStore => o.arg = p.arg
    <3> SUFFICES ASSUME NEW o \in AllOptions, NEW p \in AllOptions
                 PROVE  /\ o.name = p.name => o = p
                        /\ {o.name, p.name} \subseteq OnStore => o.arg = p.arg
      BY <2>1
    <3>1. /\ o = Option(o.name, ArgOf(o.name), NumberOf(o.name))
          /\ p = Option(p.name, ArgOf(p.name), NumberOf(p.name))
      BY OptionsByName DEF Proper
    <3>2. o.arg = ArgOf(o.name) /\ p.arg = ArgOf(p.name)
      BY <3>1 DEF Option
    <3>3. o.name = p.name => o = p
      BY <3>1
    <3>4. {o.name, p.name} \subseteq OnStore => o.arg = p.arg
      BY <3>2 DEF ArgOf
    <3> QED
      BY <3>3, <3>4
  <2>4. ASSUME NEW o \in opts, o.name = "occupancy", o.arg = "fixed_limit"
        PROVE  o.n >= 1
    <3>1. o = Option(o.name, ArgOf(o.name), NumberOf(o.name))
      BY <2>1, OptionsByName DEF Proper
    <3>2. o.arg = ArgOf("occupancy") /\ o.n = NumberOf("occupancy")
      BY <2>4, <3>1 DEF Option
    <3>3. cfg.occupancy = "fixed_limit"
      BY <2>4, <3>2 DEF ArgOf, OnStore
    <3>4. o.n = IF cfg.limit <= 0 THEN 5 ELSE cfg.limit
      BY <3>2, <3>3 DEF NumberOf
    <3>5. cfg.limit \in Int
      BY DEF Chosen, Config
    <3> QED
      BY <3>4, <3>5
  <2>5. timeout.unit = "ns" <=> cfg.upgradeTimeout < 0
    <3>1. cfg.upgradeTimeout \in Int /\ cfg.upgradeTimeout # 0
      BY DEF Chosen, Config, Built
    <3>2. timeout = IF cfg.upgradeTimeout > 0
                    THEN [n |-> cfg.upgradeTimeout, unit |-> "s"]
                    ELSE [n |-> 60, unit |-> "ns"]
      BY DEF Built
    <3>3. CASE cfg.upgradeTimeout > 0
      BY <3>1, <3>2, <3>3
    <3>4. CASE cfg.upgradeTimeout < 0
      BY <3>1, <3>2, <3>4
    <3> QED
      BY <3>1, <3>3, <3>4
  <2> QED
    BY <2>2, <2>3, <2>4, <2>5 DEF Wired, OnStore
<1> QED
  BY <1>1, ChosenInit, ChosenStep, BuiltInit, BuiltStep, PTL DEF Spec

-----------------------------------------------------------------------------
(* What is open, and what was closed.                                      *)

Database == {cfg.driver} \cap Databases

\* From buildStorage to Dependencies.Close the pool is open, and closers list it;
\* nothing is closed before CloseAll.
Resources ==
    /\ plugins \in Seq(Elements(plugins))
    /\ pc \in BeforeStorage => open = {}
    /\ pc \in AfterStorage => open = Database /\ deps.closers = SetToSeq(Database)
    /\ pc \notin {"closeDeps", "exited"} => closed = <<>>
    /\ pc = "closeDeps" => closed = Reverse(plugins)
    /\ pc = "exited" /\ ~cfg.command =>
          open = {} /\ closed = Reverse(plugins) \o SetToSeq(Database)

\* A database that is open has a closer.
LEMMA EachHasCloser == Database \subseteq ToSet(SetToSeq(Database))
<1>1. SUFFICES ASSUME NEW d \in Database
               PROVE  d \in ToSet(SetToSeq(Database))
  OBVIOUS
<1>2. Database = {d}
  BY DEF Database
<1>3. Cardinality({d}) = 1
  BY FS_Singleton
<1>4. [i \in 1..1 |-> d] \in [1..1 -> {d}] /\ IsInjective([i \in 1..1 |-> d])
  BY DEF IsInjective
<1>5. SetToSeq({d}) \in [1..1 -> {d}]
  BY <1>3, <1>4 DEF SetToSeq
<1> QED
  BY <1>2, <1>5 DEF ToSet

LEMMA ResourcesInit == Init => Resources
BY DEF Init, Resources, Elements, BeforeStorage, AfterStorage, AfterSelector, AfterGroup,
       AfterGuards, AfterTracker, AfterOccupancy

LEMMA ResourcesStep == Chosen /\ Resources /\ [Next]_vars => Resources'
<1> SUFFICES ASSUME Chosen, Resources, [Next]_vars PROVE Resources'
  OBVIOUS
<1> USE DEF AfterOccupancy, AfterTracker, AfterGuards, AfterGroup, AfterSelector,
            AfterStorage, BeforeStorage
<1>0. cfg' = cfg => UNCHANGED Database
  BY DEF Database
<1>1. CASE UNCHANGED vars
  BY <1>0, <1>1 DEF vars, built, Resources
<1>2. CASE Load
  <2>1. cfg'.address # ""
    BY <1>2, DefaultsKeepShape DEF Load, Chosen
  <2>2. pc = "load" /\ pc' = "new" /\ UNCHANGED <<plugins, open, closed>>
    BY <1>2, <2>1 DEF Load, Goto, built
  <2> QED
    BY <2>2 DEF Resources
<1>3. CASE LoadFails \/ SetupTimesOut \/ SetupFails \/ OutsideFails
  <2>1. /\ pc \in BeforeStorage \cup {"guards", "balancer", "server"}
        /\ pc' = "failed" /\ UNCHANGED <<cfg, plugins, open, closed>>
    BY <1>3 DEF LoadFails, SetupTimesOut, SetupFails, OutsideFails, Fails, built
  <2> QED
    BY <1>0, <2>1 DEF Resources
<1>4. CASE New
  <2>1. /\ pc = "new" /\ UNCHANGED <<cfg, plugins, open, closed>>
        /\ pc' = IF cfg.command THEN "exited" ELSE "plugins"
    BY <1>4 DEF New, Goto, built
  <2> QED
    BY <1>0, <2>1 DEF Resources
<1>5. CASE SetupOne
  <2>1. /\ pc = "plugins" /\ UNCHANGED <<pc, cfg, open, closed>>
        /\ plugins' = Append(plugins, Wanted[Len(plugins) + 1])
    BY <1>5 DEF SetupOne, built
  <2>2. plugins' \in Seq(Elements(plugins) \cup {Wanted[Len(plugins) + 1]})
    BY <2>1 DEF Resources
  <2>3. plugins' \in Seq(Elements(plugins'))
    BY <2>2, SequenceOfItsElements
  <2> QED
    BY <1>0, <2>1, <2>3 DEF Resources
<1>6. CASE SetupDone
  <2>1. /\ pc = "plugins" /\ pc' = "storage" /\ UNCHANGED <<cfg, plugins, open, closed>>
    BY <1>6 DEF SetupDone, Goto, built
  <2> QED
    BY <1>0, <2>1 DEF Resources
<1>7. CASE buildStorage
  <2>1. pc = "storage" /\ UNCHANGED <<cfg, plugins, closed>>
    BY <1>7 DEF buildStorage
  <2>2. CASE Driver \notin Databases \cup {"memory"}
    <3>1. pc' = "failed" /\ open' = open
      BY <1>7, <2>2 DEF buildStorage, Fails, built, Driver
    <3> QED
      BY <1>0, <2>1, <3>1 DEF Resources
  <2>3. CASE Driver \in Databases \cup {"memory"}
    <3>1. {Driver} \cap Databases = Database
      BY DEF Driver, Database, Databases
    <3>2. /\ pc' = "selector" /\ open' = open \cup Database
          /\ deps' = [deps EXCEPT !.store = Driver, !.closers = SetToSeq(Database)]
      BY <1>7, <2>3, <3>1 DEF buildStorage, Goto, Driver
    <3>3. deps'.closers = SetToSeq(Database)
      BY <3>2 DEF Chosen
    <3> QED
      BY <1>0, <2>1, <3>2, <3>3 DEF Resources
  <2> QED
    BY <2>2, <2>3
<1>8. CASE \/ buildSelector \/ buildGroupSelector \/ buildCircuitBreakerAndCooldown
           \/ buildUsageTracker \/ buildOccupancy \/ buildBalancer
  <2>1. /\ pc \in AfterStorage \ {"run", "closePlugins", "closeDeps"}
        /\ pc' \in (AfterStorage \ {"run", "closePlugins", "closeDeps"}) \cup {"failed"}
        /\ UNCHANGED <<cfg, plugins, open, closed>>
    BY <1>8 DEF buildSelector, buildGroupSelector, buildCircuitBreakerAndCooldown,
                buildUsageTracker, buildOccupancy, buildBalancer, Part, Goto, Fails
  <2>2. deps'.closers = deps.closers
    BY <1>8 DEF buildSelector, buildGroupSelector, buildCircuitBreakerAndCooldown,
                buildUsageTracker, buildOccupancy, buildBalancer, Chosen
  <2> QED
    BY <1>0, <2>1, <2>2 DEF Resources
<1>9. CASE initServer \/ RunReturns
  <2>1. /\ pc \in {"server", "run"} /\ pc' \in {"run", "closePlugins"}
        /\ UNCHANGED <<cfg, plugins, deps, open, closed>>
    BY <1>9 DEF initServer, RunReturns, Goto, built
  <2> QED
    BY <1>0, <2>1 DEF Resources
<1>10. CASE CloseAll
  <2>1. /\ pc = "closePlugins" /\ pc' = "closeDeps" /\ closed = <<>>
        /\ closed' = closed \o Reverse(plugins)
        /\ UNCHANGED <<cfg, plugins, deps, open>>
    BY <1>10 DEF CloseAll, Goto, built, Resources
  <2>2. Reverse(plugins) \in Seq(Elements(plugins))
    BY DEF Reverse, Resources
  <2>3. closed' = Reverse(plugins)
    BY <2>1, <2>2
  <2> QED
    BY <1>0, <2>1, <2>3 DEF Resources
<1>11. CASE DependenciesClose
  <2>1. /\ pc = "closeDeps" /\ pc' = "exited" /\ UNCHANGED <<cfg, plugins>>
        /\ closed' = closed \o deps.closers
        /\ open' = open \ ToSet(deps.closers)
    BY <1>11 DEF DependenciesClose, Goto
  <2>2. /\ open = Database /\ deps.closers = SetToSeq(Database)
        /\ closed = Reverse(plugins)
    BY <2>1 DEF Resources
  <2>3. open' = {} /\ closed' = Reverse(plugins) \o SetToSeq(Database)
    BY <2>1, <2>2, EachHasCloser
  <2> QED
    BY <1>0, <2>1, <2>3 DEF Resources
<1> QED
  BY <1>1, <1>2, <1>3, <1>4, <1>5, <1>6, <1>7, <1>8, <1>9, <1>10, <1>11
     DEF Next, Ended

\* A process that served leaves nothing open, and closes its plugins before the
\* database; one that failed closes nothing.
THEOREM ClosesWhatItOpened == Spec => []ClosedOnExit
<1>1. Resources => ClosedOnExit
  BY DEF Resources, ClosedOnExit, Database
<1> QED
  BY <1>1, ChosenInit, ChosenStep, ResourcesInit, ResourcesStep, PTL DEF Spec

-----------------------------------------------------------------------------
(* The plugins that are set up.                                            *)

WantedOf(c) ==
    FlattenSeq([i \in DOMAIN c.plugins |->
                  IF c.plugins[i] \in Registered THEN <<c.plugins[i]>> ELSE <<>>])

LEMMA WantedType == ASSUME NEW c, Config(c) PROVE WantedOf(c) \in Seq(STRING)
<1> DEFINE parts == [i \in DOMAIN c.plugins |->
                       IF c.plugins[i] \in Registered THEN <<c.plugins[i]>> ELSE <<>>]
<1>1. c.plugins \in Seq(STRING)
  BY DEF Config
<1>2. parts \in Seq(Seq(STRING))
  <2>1. /\ Len(c.plugins) \in Nat /\ DOMAIN c.plugins = 1 .. Len(c.plugins)
        /\ \A i \in DOMAIN c.plugins : c.plugins[i] \in STRING
    BY <1>1
  <2>2. <<>> \in Seq(STRING) /\ \A name \in STRING : <<name>> \in Seq(STRING)
    BY ShortSequences
  <2>3. \A i \in DOMAIN c.plugins : parts[i] \in Seq(STRING)
    BY <2>1, <2>2
  <2>4. parts \in [1 .. Len(c.plugins) -> Seq(STRING)]
    BY <2>1, <2>3
  <2> QED
    BY <2>1, <2>4
<1> HIDE DEF parts
<1>3. FlattenSeq(parts) \in Seq(STRING)
  BY <1>2, FlattenType
<1> QED
  BY <1>3 DEF parts, WantedOf

\* What is set up is the front of what is wanted, all of it from storage on, and
\* a Setup runs on only where New has failed.
Whole ==
    /\ plugins \in Seq(STRING)
    /\ Len(plugins) <= Len(Wanted)
    /\ \A i \in 1 .. Len(plugins) : plugins[i] = Wanted[i]
    /\ pc \in {"load", "new"} => plugins = <<>>
    /\ pc \in {"storage"} \cup AfterStorage => Len(plugins) = Len(Wanted)
    /\ pc # "failed" => ~straggler

LEMMA WholeInit == Init => Whole
<1> SUFFICES ASSUME Init PROVE Whole
  OBVIOUS
<1>1. Config(cfg)
  BY ConfigsAssumption DEF Init
<1>2. Wanted \in Seq(STRING)
  BY <1>1, WantedType DEF Wanted, WantedOf
<1>3. Len(Wanted) \in Nat /\ Len(<<>>) = 0 /\ <<>> \in Seq(STRING) /\ 1 .. Len(<<>>) = {}
  BY <1>2
<1>4. plugins = <<>> /\ pc = "load" /\ straggler = FALSE
  BY DEF Init
<1> QED
  BY <1>3, <1>4 DEF Whole, AfterStorage, AfterSelector, AfterGroup, AfterGuards,
                    AfterTracker, AfterOccupancy

LEMMA WholeStep == Chosen /\ Whole /\ [Next]_vars => Whole'
<1> SUFFICES ASSUME Chosen, Whole, [Next]_vars PROVE Whole'
  OBVIOUS
<1> USE DEF AfterOccupancy, AfterTracker, AfterGuards, AfterGroup, AfterSelector,
            AfterStorage
<1>0. cfg' = cfg => Wanted' = Wanted
  BY DEF Wanted
<1>1. CASE UNCHANGED vars
  BY <1>0, <1>1 DEF vars, Whole
<1>2. CASE Load
  <2>1. Config(cfg') /\ cfg'.address # ""
    BY <1>2, DefaultsKeepShape DEF Load, Chosen
  <2>2. pc = "load" /\ pc' = "new" /\ UNCHANGED <<plugins, straggler>>
    BY <1>2, <2>1 DEF Load, Goto
  <2>3. Wanted' \in Seq(STRING)
    <3>1. WantedOf(cfg') \in Seq(STRING)
      BY <2>1, WantedType
    <3> QED
      BY <3>1 DEF Wanted, WantedOf
  <2>4. plugins = <<>> /\ ~straggler
    BY <2>2 DEF Whole
  <2>5. Len(Wanted') \in Nat /\ Len(<<>>) = 0 /\ <<>> \in Seq(STRING) /\ 1 .. Len(<<>>) = {}
    BY <2>3
  <2> QED
    BY <2>2, <2>4, <2>5 DEF Whole
<1>3. CASE LoadFails \/ SetupTimesOut \/ SetupFails \/ OutsideFails
  <2>1. pc' = "failed" /\ UNCHANGED <<cfg, plugins>>
    BY <1>3 DEF LoadFails, SetupTimesOut, SetupFails, OutsideFails, Fails
  <2> QED
    BY <1>0, <2>1 DEF Whole
<1>4. CASE New
  <2>1. /\ pc = "new" /\ pc' \in {"exited", "plugins"}
        /\ UNCHANGED <<cfg, plugins, straggler>>
    BY <1>4 DEF New, Goto
  <2> QED
    BY <1>0, <2>1 DEF Whole
<1>5. CASE SetupOne
  <2>1. /\ pc = "plugins" /\ UNCHANGED <<pc, cfg, straggler>>
        /\ Len(plugins) < Len(Wanted)
        /\ plugins' = Append(plugins, Wanted[Len(plugins) + 1])
    BY <1>5 DEF SetupOne
  <2>2. Wanted \in Seq(STRING) /\ plugins \in Seq(STRING)
    BY WantedType DEF Chosen, Whole, Wanted, WantedOf
  <2>3. Wanted[Len(plugins) + 1] \in STRING
    BY <2>1, <2>2
  <2>4. /\ plugins' \in Seq(STRING) /\ Len(plugins') = Len(plugins) + 1
        /\ plugins'[Len(plugins) + 1] = Wanted[Len(plugins) + 1]
        /\ \A i \in 1 .. Len(plugins) : plugins'[i] = plugins[i]
    BY <2>1, <2>2, <2>3
  <2>5. \A i \in 1 .. Len(plugins') : i \in 1 .. Len(plugins) \/ i = Len(plugins) + 1
    BY <2>2, <2>4
  <2>6. Len(plugins') <= Len(Wanted)
    BY <2>1, <2>2, <2>4
  <2>7. \A i \in 1 .. Len(plugins') : plugins'[i] = Wanted[i]
    BY <2>4, <2>5 DEF Whole
  <2> QED
    BY <1>0, <2>1, <2>4, <2>6, <2>7 DEF Whole
<1>6. CASE SetupDone
  <2>1. /\ pc = "plugins" /\ pc' = "storage" /\ Len(plugins) = Len(Wanted)
        /\ UNCHANGED <<cfg, plugins, straggler>>
    BY <1>6 DEF SetupDone, Goto
  <2> QED
    BY <1>0, <2>1 DEF Whole
<1>7. CASE \/ buildStorage \/ buildSelector \/ buildGroupSelector
           \/ buildCircuitBreakerAndCooldown \/ buildUsageTracker \/ buildOccupancy
           \/ buildBalancer
  <2>1. /\ pc \in {"storage"} \cup AfterStorage /\ pc' \in {"failed"} \cup AfterStorage
        /\ UNCHANGED <<cfg, plugins, straggler>>
    BY <1>7 DEF buildStorage, buildSelector, buildGroupSelector,
                buildCircuitBreakerAndCooldown, buildUsageTracker, buildOccupancy,
                buildBalancer, Part, Goto, Fails
  <2> QED
    BY <1>0, <2>1 DEF Whole
<1>8. CASE initServer \/ RunReturns \/ CloseAll \/ DependenciesClose
  <2>1. /\ pc \in AfterStorage /\ pc' \in {"exited"} \cup AfterStorage
        /\ UNCHANGED <<cfg, plugins, straggler>>
    BY <1>8 DEF initServer, RunReturns, CloseAll, DependenciesClose, Goto
  <2> QED
    BY <1>0, <2>1 DEF Whole
<1> QED
  BY <1>1, <1>2, <1>3, <1>4, <1>5, <1>6, <1>7, <1>8 DEF Next, Ended

\* No process serves with a plugin half set up.
THEOREM PluginsAreWhole == Spec => []PluginsWhole
<1>1. Chosen /\ Whole => PluginsWhole
  <2> SUFFICES ASSUME Chosen, Whole, pc = "run" PROVE plugins = Wanted /\ ~straggler
    BY DEF PluginsWhole, Serving
  <2>1. Wanted \in Seq(STRING) /\ plugins \in Seq(STRING)
    BY WantedType DEF Chosen, Whole, Wanted, WantedOf
  <2>2. Len(plugins) = Len(Wanted) /\ ~straggler
    BY DEF Whole, AfterOccupancy, AfterTracker, AfterGuards, AfterGroup,
           AfterSelector, AfterStorage
  <2>3. \A i \in 1 .. Len(plugins) : plugins[i] = Wanted[i]
    BY DEF Whole
  <2>4. plugins = Wanted
    BY <2>1, <2>2, <2>3
  <2> QED
    BY <2>2, <2>4
<1> QED
  BY <1>1, ChosenInit, ChosenStep, WholeInit, WholeStep, PTL DEF Spec

-----------------------------------------------------------------------------
(* The routes.                                                             *)

Route(p, k) ==
    [prefix |-> Prefix(p), pattern |-> Routes(p.name)[k].pattern,
     handler |-> Routes(p.name)[k].handler]

Healthz == [prefix |-> "", pattern |-> "/healthz", handler |-> "health"]

LEMMA RouteFields ==
    /\ \A p, k : /\ Route(p, k).prefix = Prefix(p)
                 /\ Route(p, k).pattern = Routes(p.name)[k].pattern
                 /\ Route(p, k).handler = Routes(p.name)[k].handler
    /\ Healthz.prefix = "" /\ Healthz.pattern = "/healthz" /\ Healthz.handler = "health"
BY DEF Route, Healthz

\* Routes are told apart by their pattern.
LEMMA PatternOfOne ==
    /\ \A m, n \in Adapters : \A k \in DOMAIN Routes(m), l \in DOMAIN Routes(n) :
          Routes(m)[k].pattern = Routes(n)[l].pattern =>
              m = n /\ Routes(m)[k].handler = Routes(n)[l].handler
    /\ \A m \in Adapters : \A k \in DOMAIN Routes(m) : Routes(m)[k].pattern # "/healthz"
<1>1. /\ DOMAIN Routes("openai") = {1, 2}
      /\ Routes("openai")[1] = [pattern |-> "/chat/completions", handler |-> "openai"]
      /\ Routes("openai")[2] = [pattern |-> "/models", handler |-> "list"]
  BY DEF Routes
<1>2. /\ DOMAIN Routes("anthropic") = {1}
      /\ Routes("anthropic")[1] = [pattern |-> "/messages", handler |-> "anthropic"]
  BY DEF Routes
<1> QED
  BY <1>1, <1>2 DEF Adapters

LEMMA HealthzApart ==
    \A m \in Adapters : \A k \in DOMAIN Routes(m) : Routes(m)[k].pattern # "/healthz"
BY PatternOfOne

LEMMA RoutesCount ==
    ASSUME NEW m \in Adapters
    PROVE  \E n \in {1, 2} : DOMAIN Routes(m) = 1 .. n
BY DEF Adapters, Routes

\* The part of the mux for one protocol.
LEMMA RoutesOfOne ==
    ASSUME NEW p, NEW S,
           p.enable /\ p.name \in Adapters =>
               \A k \in DOMAIN Routes(p.name) : Route(p, k) \in S
    PROVE  /\ RoutesOf(p) \in Seq(S)
           /\ \A r : Holds(RoutesOf(p), r) <=>
                     /\ p.enable /\ p.name \in Adapters
                     /\ \E k \in DOMAIN Routes(p.name) : r = Route(p, k)
<1>1. CASE ~(p.enable /\ p.name \in Adapters)
  <2>1. RoutesOf(p) = <<>>
    BY <1>1 DEF RoutesOf
  <2> QED
    BY <1>1, <2>1, ShortSequences DEF Holds
<1>2. CASE p.enable /\ p.name \in Adapters
  <2>1. PICK n \in {1, 2} : DOMAIN Routes(p.name) = 1 .. n
    BY <1>2, RoutesCount
  <2>2. RoutesOf(p) = [k \in 1 .. n |-> Route(p, k)]
    BY <1>2, <2>1 DEF RoutesOf, Route
  <2>3. \A k \in 1 .. n : Route(p, k) \in S
    BY <1>2, <2>1
  <2>4. RoutesOf(p) \in Seq(S) /\ Len(RoutesOf(p)) = n
    BY <2>1, <2>2, <2>3
  <2>5. \A k \in 1 .. n : RoutesOf(p)[k] = Route(p, k)
    BY <2>2
  <2> QED
    BY <1>2, <2>1, <2>4, <2>5 DEF Holds
<1> QED
  BY <1>1, <1>2

Table ==
    FlattenSeq([i \in DOMAIN cfg.protocols |-> RoutesOf(cfg.protocols[i])])
        \o <<Healthz>>

\* A route of the mux is the health check or a route of an enabled protocol with
\* an adapter, and each of these is there.
LEMMA TableHolds ==
    ASSUME Config(cfg)
    PROVE  /\ \E S : Table \in Seq(S)
           /\ \A r : Holds(Table, r) <=>
                     \/ r = Healthz
                     \/ \E i \in DOMAIN cfg.protocols :
                           /\ cfg.protocols[i].enable /\ cfg.protocols[i].name \in Adapters
                           /\ \E k \in DOMAIN Routes(cfg.protocols[i].name) :
                                 r = Route(cfg.protocols[i], k)
<1> DEFINE P == cfg.protocols  D == DOMAIN P
           S == {Route(P[i], k) : i \in D, k \in {1, 2}} \cup {Healthz}
           parts == [i \in D |-> RoutesOf(P[i])]
           Of(i, r) == /\ P[i].enable /\ P[i].name \in Adapters
                       /\ \E k \in DOMAIN Routes(P[i].name) : r = Route(P[i], k)
<1>1. D = 1 .. Len(P) /\ Len(P) \in Nat
  BY DEF Config
<1>2. ASSUME NEW i \in D
      PROVE  /\ RoutesOf(P[i]) \in Seq(S)
             /\ \A r : Holds(RoutesOf(P[i]), r) <=> Of(i, r)
  <2>1. P[i].name \in Adapters =>
            \A k \in DOMAIN Routes(P[i].name) : k \in {1, 2}
    BY RoutesCount
  <2>2. P[i].enable /\ P[i].name \in Adapters =>
            \A k \in DOMAIN Routes(P[i].name) : Route(P[i], k) \in S
    BY <2>1
  <2> DEFINE p == P[i]
  <2> HIDE DEF S, p
  <2> QED
    BY <2>2, RoutesOfOne DEF p
<1>3. parts \in Seq(Seq(S)) /\ Len(parts) = Len(P) /\ \A i \in D : parts[i] = RoutesOf(P[i])
  <2> HIDE DEF S
  <2>1. parts \in [1 .. Len(P) -> Seq(S)]
    BY <1>1, <1>2
  <2> QED
    BY <1>1, <2>1
<1> DEFINE front == FlattenSeq(parts)
<1>4. \A r : Holds(front, r) <=> \E i \in D : Of(i, r)
  <2> TAKE r
  <2> HIDE DEF S, parts, D, Of
  <2>1. Holds(front, r) <=> \E i \in 1 .. Len(parts) : Holds(parts[i], r)
    BY <1>3, FlattenHolds
  <2>2. \A i \in D : Holds(parts[i], r) <=> Of(i, r)
    BY <1>2, <1>3
  <2> QED
    BY <1>1, <1>3, <2>1, <2>2
<1>5. front \in Seq(S) /\ <<Healthz>> \in Seq(S)
  <2>1. Healthz \in S
    OBVIOUS
  <2> HIDE DEF S, parts
  <2> QED
    BY <1>3, <2>1, FlattenType, ShortSequences
<1>6. Table = front \o <<Healthz>>
  BY DEF Table
<1> HIDE DEF front, S, parts, D, Of
<1>7. Table \in Seq(S)
  BY <1>5, <1>6
<1>8. /\ Len(Table) = Len(front) + 1 /\ Len(front) \in Nat
      /\ Table[Len(front) + 1] = Healthz
      /\ \A k \in 1 .. Len(front) : Table[k] = front[k]
  BY <1>5, <1>6
<1>9. ASSUME NEW r PROVE Holds(Table, r) <=> r = Healthz \/ Holds(front, r)
  <2>1. 1 .. Len(Table) = 1 .. Len(front) \cup {Len(front) + 1}
    BY <1>8
  <2> QED
    BY <1>8, <2>1 DEF Holds
<1>10. ASSUME NEW r PROVE Holds(Table, r) <=> r = Healthz \/ \E i \in D : Of(i, r)
  BY <1>4, <1>9
<1> QED
  BY <1>7, <1>10 DEF D, Of

\* The first hit answers: where all of them agree, with what they say.
LEMMA DispatchIs ==
    ASSUME NEW prefix, NEW pattern, NEW h, DOMAIN mux \subseteq Nat,
           Hits(prefix, pattern) # {},
           \A i \in Hits(prefix, pattern) : mux[i].handler = h
    PROVE  Dispatch(prefix, pattern) = h
<1> DEFINE hits == Hits(prefix, pattern)
<1>1. hits \subseteq Nat
  BY DEF Hits
<1>2. \E i \in hits : \A j \in hits : i <= j
  <2> HIDE DEF hits
  <2>1. hits # {}
    BY DEF hits
  <2> QED
    BY <1>1, <2>1, Least
<1> DEFINE first == CHOOSE i \in hits : \A j \in hits : i <= j
<1>3. first \in hits
  BY <1>2
<1>4. Dispatch(prefix, pattern) = mux[first].handler
  BY DEF Dispatch
<1> QED
  BY <1>3, <1>4

\* The mux is filled before the process serves.
Routed == pc = "run" => mux = Table

LEMMA RoutedInit == Init => Routed
BY DEF Init, Routed

LEMMA RoutedStep == Routed /\ [Next]_vars => Routed'
<1> SUFFICES ASSUME Routed, [Next]_vars, pc' = "run" PROVE mux' = Table'
  BY DEF Routed
<1>0. cfg' = cfg => Table' = Table
  BY DEF Table
<1>1. CASE UNCHANGED vars
  BY <1>0, <1>1 DEF vars, Routed
<1>2. CASE initServer
  <2>1. mux' = Table /\ cfg' = cfg
    BY <1>2 DEF initServer, Table, Healthz
  <2> QED
    BY <1>0, <2>1
<1>3. CASE \/ Load \/ LoadFails \/ New \/ SetupOne \/ SetupTimesOut \/ SetupFails
           \/ SetupDone \/ buildStorage \/ OutsideFails \/ buildSelector
           \/ buildGroupSelector \/ buildCircuitBreakerAndCooldown
           \/ buildUsageTracker \/ buildOccupancy \/ buildBalancer
           \/ RunReturns \/ CloseAll \/ DependenciesClose
  <2>1. pc' # "run"
    BY <1>3 DEF Load, LoadFails, New, SetupOne, SetupTimesOut, SetupFails, SetupDone,
                buildStorage, OutsideFails, buildSelector, buildGroupSelector,
                buildCircuitBreakerAndCooldown, buildUsageTracker, buildOccupancy,
                buildBalancer, Part, RunReturns, CloseAll, DependenciesClose, Goto, Fails
  <2> QED
    BY <2>1
<1> QED
  BY <1>1, <1>2, <1>3 DEF Next, Ended

\* Every enabled protocol with an adapter is served by its own adapter under its
\* own prefix, and no other is.
THEOREM EachServedByItsOwn == Spec => []ServedByOwn
<1>1. Chosen /\ Routed => ServedByOwn
  <2> SUFFICES ASSUME Chosen, Routed, pc = "run" PROVE ServedByOwn
    BY DEF ServedByOwn, Serving
  <2> DEFINE P == cfg.protocols  D == DOMAIN P
             Of(i, r) == /\ P[i].enable /\ P[i].name \in Adapters
                         /\ \E k \in DOMAIN Routes(P[i].name) : r = Route(P[i], k)
  <2>1. mux = Table /\ Config(cfg)
    BY DEF Routed, Chosen
  <2>2. DOMAIN mux = 1 .. Len(mux) /\ DOMAIN mux \subseteq Nat
    <3>1. \E S : mux \in Seq(S)
      BY <2>1, TableHolds
    <3> QED
      BY <3>1
  <2>3. ASSUME NEW r
        PROVE  (\E i \in DOMAIN mux : mux[i] = r) <=> r = Healthz \/ \E i \in D : Of(i, r)
    <3>1. Holds(Table, r) <=> r = Healthz \/ \E i \in D : Of(i, r)
      BY <2>1, TableHolds
    <3> QED
      BY <2>1, <2>2, <3>1 DEF Holds
  <2>4. Dispatch("", "/healthz") = "health"
    <3>1. PICK h \in DOMAIN mux : mux[h] = Healthz
      BY <2>3
    <3>2. h \in Hits("", "/healthz")
      BY <3>1, RouteFields DEF Hits
    <3>3. ASSUME NEW i \in Hits("", "/healthz") PROVE mux[i].handler = "health"
      <4>1. i \in DOMAIN mux /\ mux[i].pattern = "/healthz"
        BY DEF Hits
      <4>2. mux[i] = Healthz \/ \E j \in D : Of(j, mux[i])
        BY <2>3, <4>1
      <4>3. ASSUME NEW j \in D, Of(j, mux[i]) PROVE FALSE
        <5>1. PICK k \in DOMAIN Routes(P[j].name) : mux[i] = Route(P[j], k)
          BY <4>3
        <5>2. mux[i].pattern = Routes(P[j].name)[k].pattern
          BY <5>1, RouteFields
        <5>3. P[j].name \in Adapters
          BY <4>3
        <5> HIDE DEF Of, P
        <5> QED
          BY <4>1, <5>2, <5>3, HealthzApart
      <4>4. mux[i] = Healthz
        BY <4>2, <4>3
      <4> QED
        BY <4>4, RouteFields
    <3> QED
      BY <2>2, <3>2, <3>3, DispatchIs
  <2>5. ASSUME NEW i \in D, P[i].name \in Adapters, NEW k \in DOMAIN Routes(P[i].name)
        PROVE  Dispatch(Prefix(P[i]), Routes(P[i].name)[k].pattern) =
                   IF \E j \in D : /\ P[j].enable /\ P[j].name = P[i].name
                                   /\ Prefix(P[j]) = Prefix(P[i])
                   THEN Routes(P[i].name)[k].handler ELSE "404"
    <3> DEFINE prefix == Prefix(P[i])  pattern == Routes(P[i].name)[k].pattern
               Twin(j) == /\ P[j].enable /\ P[j].name = P[i].name
                          /\ Prefix(P[j]) = prefix
    <3>1. ASSUME NEW n \in Hits(prefix, pattern)
          PROVE  /\ mux[n].handler = Routes(P[i].name)[k].handler
                 /\ \E j \in D : Twin(j)
      <4>1. n \in DOMAIN mux /\ mux[n].pattern = pattern /\ mux[n].prefix = prefix
        BY DEF Hits
      <4>2. mux[n] = Healthz \/ \E j \in D : Of(j, mux[n])
        BY <2>3, <4>1
      <4>3. mux[n] # Healthz
        <5>1. pattern # "/healthz"
          BY <2>5, PatternOfOne
        <5> QED
          BY <4>1, <5>1, RouteFields
      <4>4. PICK j \in D : Of(j, mux[n])
        BY <4>2, <4>3
      <4>5. PICK l \in DOMAIN Routes(P[j].name) : mux[n] = Route(P[j], l)
        BY <4>4
      <4>6. /\ mux[n].pattern = Routes(P[j].name)[l].pattern
            /\ mux[n].handler = Routes(P[j].name)[l].handler
            /\ mux[n].prefix = Prefix(P[j])
        BY <4>5, RouteFields
      <4>7. P[j].name = P[i].name /\ Routes(P[j].name)[l].handler = Routes(P[i].name)[k].handler
        BY <2>5, <4>1, <4>4, <4>6, PatternOfOne
      <4> QED
        BY <4>1, <4>4, <4>6, <4>7
    <3>2. CASE \E j \in D : Twin(j)
      <4>1. PICK j \in D : Twin(j)
        BY <3>2
      <4>2. k \in DOMAIN Routes(P[j].name) /\ Of(j, Route(P[j], k))
        BY <2>5, <4>1
      <4>3. PICK n \in DOMAIN mux : mux[n] = Route(P[j], k)
        BY <2>3, <4>2
      <4>4. n \in Hits(prefix, pattern)
        <5>1. /\ Route(P[j], k).prefix = prefix
              /\ Route(P[j], k).pattern = Routes(P[j].name)[k].pattern
          BY <4>1, RouteFields
        <5>2. Routes(P[j].name)[k].pattern = pattern
          BY <4>1
        <5>3. mux[n].prefix = prefix /\ mux[n].pattern = pattern
          BY <4>3, <5>1, <5>2
        <5> HIDE DEF prefix, pattern
        <5> QED
          BY <5>3 DEF Hits
      <4>5. Dispatch(prefix, pattern) = Routes(P[i].name)[k].handler
        <5> DEFINE h == Routes(P[i].name)[k].handler
        <5>1. \A m \in Hits(prefix, pattern) : mux[m].handler = h
          BY <3>1
        <5> HIDE DEF prefix, pattern, h
        <5>2. Hits(prefix, pattern) # {}
          BY <4>4
        <5>3. Dispatch(prefix, pattern) = h
          BY <2>2, <5>1, <5>2, DispatchIs
        <5> QED
          BY <5>3 DEF h
      <4> QED
        BY <3>2, <4>5
    <3>3. CASE ~\E j \in D : Twin(j)
      <4>1. Hits(prefix, pattern) = {}
        BY <3>1, <3>3
      <4> QED
        BY <3>3, <4>1 DEF Dispatch
    <3> QED
      BY <3>2, <3>3
  <2>6. ASSUME NEW i \in D, P[i].name \in Adapters PROVE Answered(P[i])
    BY <2>5, <2>6 DEF Answered, EnabledAs
  <2> QED
    BY <2>4, <2>6 DEF ServedByOwn
<1> QED
  BY <1>1, ChosenInit, ChosenStep, RoutedInit, RoutedStep, PTL DEF Spec
=============================================================================
