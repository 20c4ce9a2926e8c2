------------------------------ MODULE MCStartup -------------------------------
(* Startup on configurations that vary a few keys at a time.               *)
EXTENDS Startup

Protocol(name, enable, prefix) == [name |-> name, enable |-> enable, prefix |-> prefix]

\* The repository's own file (lumin_proxy.yaml).
Base ==
    [address |-> ":8080", upgradeTimeout |-> 3, plugins |-> <<"auth">>,
     protocols |-> <<Protocol("openai", TRUE, "/v1"),
                     Protocol("anthropic", FALSE, "/anthropic")>>,
     driver |-> "sqlite", selector |-> "round_robin", group |-> "group_priority",
     breaker |-> TRUE, cooldown |-> TRUE, tracker |-> TRUE,
     occupancy |-> "fixed_limit", limit |-> 10, retries |-> 3, failover |-> TRUE,
     command |-> FALSE]

\* Every combination of what the parts of Build decide on.
Pools ==
    {[Base EXCEPT !.driver = d, !.selector = s, !.group = g, !.occupancy = o,
                  !.tracker = t, !.breaker = b, !.limit = l] :
        d \in {"", "memory", "mysql", "oracle"}, s \in {"", "least_used", "best"},
        g \in {"", "group_weighted", "best"},
        o \in {"", "unlimited", "fixed_limit", "adaptive_limit", "none"},
        t \in BOOLEAN, b \in BOOLEAN, l \in {-1, 2}}

Outsides ==
    {[Base EXCEPT !.address = a, !.upgradeTimeout = u, !.plugins = p,
                  !.protocols = r, !.driver = d, !.cooldown = c, !.retries = n,
                  !.failover = c, !.command = m] :
        a \in {"", ":80"}, u \in {-1, 0, 5},
        p \in {<<>>, <<"audit", "gone", "auth">>, <<"auth", "auth">>},
        r \in {<<>>, <<Protocol("openai", TRUE, ""), Protocol("anthropic", TRUE, "")>>,
               <<Protocol("anthropic", TRUE, "/v1"), Protocol("openai", FALSE, "/v1"),
                 Protocol("gemini", TRUE, "/v1"), Protocol("openai", TRUE, "/v1")>>},
        d \in {"", "redis"}, c \in BOOLEAN, n \in {0, 3}, m \in BOOLEAN}

MCConfigs == {Base} \cup Pools \cup Outsides
=============================================================================
