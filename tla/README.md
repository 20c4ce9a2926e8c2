# lumin-proxy in TLA+

lumin-proxy is an HTTP gateway in Go. It takes OpenAI and Anthropic requests,
picks an upstream account from a pool (lumin-acpool), calls the account's
provider (lumin-client), answers the client in the protocol it spoke, and tells
the pool how the account did. Plugins hook into a request, and the process
restarts without closing its listener (tableflip).

This directory holds a TLA+ model of it, the TLC configurations that check the
model on small instances, and TLAPS proofs of what matters most for instances
of any size. Line numbers below are those of the repository's `src/` tree.

    tlc -config DefaultProxy_proxy.cfg MCDefaultProxy
    tlapm DefaultProxyProofs.tla

## 1. Inventory

| component | code | state | operations | interacts with |
|---|---|---|---|---|
| proxy core | `proxy/default_proxy.go` | per request: where it is, the account picked, `hookedStream.reported` | Handle, HandleStream, the stream's Each | pool, provider, plugin manager, adapters |
| request handler | `router/router.go` | the mux, once filled | Register; ServeHTTP: parse, proxy, write | adapter, proxy core |
| error codes | `errs/errors.go` | none | HTTPStatus | adapters |
| Anthropic adapter | `protocol/anthropic/adapter.go` | per stream: `streamState`; per parsed body: a goroutine, a channel | ParseRequest, WriteResponse, WriteStreamResponse, ParseSSEStream | client, proxy core |
| OpenAI adapter | `protocol/openai/adapter.go` | none | ParseRequest, WriteResponse, WriteStreamResponse | client, proxy core |
| HTTP transport | `transport/http/server.go` | none | RecoveryFilter, request deadline | kratos |
| plugin manager | `plugin/manager.go` | plugins set up, hook slices, one RWMutex | SetupAll, Run*, ReloadAll, CloseAll | plugins; called from every request |
| auth plugin | `plugin/builtin/auth/auth.go` | switch, keys, skipped paths, one RWMutex | middleware, hook, Setup, Reload | plugin manager |
| lifecycle | `app/app.go` | tableflip, server, PID file | New, Run, waitForExit, Shutdown, `-s` | kernel, tableflip, kratos, other processes |
| acpool builder | `acpool/builder.go` | stores, tracker, closers | Build, Close | called once by New, once by Shutdown |
| configuration | `config/config.go` | none | Load, setDefaults, Validate | main |
| registries | `plugin/plugin.go`, `protocol/registry.go` | names to factories and adapters, filled before main | Register, Get | SetupAll, router.Register |

What is hard in it:

* **Slots of the pool.** `Pick` takes a concurrency slot of an account and the
  `Report` calls give it back (the repository's `README.md:225-243`). The pool keeps a counter
  per account and does not know who holds what, so correctness rests on every
  path of every request reporting exactly once - under errors, panics, streams
  that end early, repeated `Done` chunks and reports that fail.
* **Streams.** The Anthropic writer cuts a flow of chunks into content blocks
  with indices. Its state survives from chunk to chunk.
* **Reload against running requests.** The plugin manager hands out slices and
  rewrites their arrays; the auth plugin answers one request under three locks.
* **Histories.** A chat protocol sends the whole conversation with each request,
  so every answer passes two conversions, out and back in, before the provider
  sees it again; what one of them loses is lost for all later turns.
* **A body parsed by a goroutine.** ParseSSEStream promises a channel; the
  connection may break, a line may be too long, the reader may stop.
* **Startup.** Some thirty keys decide what is built, in an order that matters;
  any step may fail half-way.
* **Hot restart.** Two processes share a listener and a PID file; signals,
  failing children, timeouts and drains come in any order.

What makes each component correct is the list of properties in section 4; the
full list of hazards, each at its line, is in `PROJECT.json`.

## 2. Modules

    Errs --> DefaultProxy --(implements)--> AccountLease
             |-- MCDefaultProxy             3 runs
             `-- DefaultProxyProofs         9 theorems
    AnthropicStream
             |-- AnthropicPipe -- MCAnthropicPipe         1 run
             `-- AnthropicProofs            13 theorems, of both
    ChatMessages --> AnthropicMessages, OpenAIMessages
             `-- Conversation (an INSTANCE of each)
                 |-- MCConversation         1 run
                 `-- ConversationProofs     6 theorems
    PluginManager
             |-- MCPluginManager            2 runs
             `-- PluginManagerProofs        5 theorems
    AuthGate
             |-- MCAuthGate                 1 run
             `-- AuthGateProofs             6 theorems
    Startup
             |-- MCStartup                  1 run
             `-- StartupProofs              5 theorems
    Lifecycle
             |-- MCLifecycle                3 runs
             `-- LifecycleProofs            5 theorems
    SequenceFacts, of FlattenSeq and of sequences, which the proofs about
    AnthropicStream, AnthropicPipe, Conversation and Startup use

**DefaultProxy** is one action per call a request makes. `pc[r]` is the place
of r's goroutine:

| `pc` | next call | code |
|---|---|---|
| parse | adapter.ParseRequest | `router.go:86` |
| before, pick, provider | RunBeforeRequest, balancer.Pick, providerRegistry | `prepare`, 140-164 |
| invoke | GenerateContent / GenerateContentStream | 80, 118 |
| report, after | Report*, RunAfterResponse | 83-91, 120, 103 |
| write | adapter.WriteResponse | `router.go:110` |
| open, each, fn, tail | adapter.WriteStreamResponse: flusher, Each, callback, end mark | `openai/adapter.go:136-184`, `anthropic/adapter.go:136-177` |
| hook, sreport, safter | RunOnStreamChunk, doReport's report, its hooks | 211-216, 240-265 |

`occupied` is the counter of the external OccupancyController. `holding`,
`lost`, `reports`, `verdict`, `after` and `exit` are history: no guard reads
them. A report may fail (`lost`); its error is dropped as in the code. A hook or
the provider may panic at each place one is called. **AccountLease** is what the
pool is promised: one slot per request, given back at most once, never more than
`Limit` taken.

**AnthropicStream** writes one SSE event per action. `w` is `streamState`
(`w.open` is `blockStarted`, which the code sets again with the start that
follows a stop; the model has it FALSE between the two). `sse` is the body
written so far. Every event goes to `client`, an observer that knows what a
client of the messages API expects; `Parsed` is what `parseSSEEventToResponse`
makes of the body, and `fed` is what the provider has sent. A chunk says which
fields are set; texts are left out.

**AnthropicPipe** extends it by ParseSSEStream: the goroutine scans the body line
by line (event line, data line, empty line), keeps the event name between the
lines, and sends into a bounded channel. Writer, connection, goroutine and reader
interleave; the connection may break between any two lines, a data line may be
too long for the scanner, the reader may stop. No code of the repository calls
ParseSSEStream yet; its comment says it is for an upstream that speaks this
protocol (`anthropic/adapter.go:754`), which another gateway does.

**ChatMessages**, **AnthropicMessages** and **OpenAIMessages** are the conversions
of the two adapters as operators of the same names. A text is a sequence of
words, so joining is concatenation (the separator is left out); a JSON field that
may be a string or a list of parts is a record with its form. **Conversation**
runs them: `Say` lets the client add a turn to its history in its protocol,
`ParseRequest` converts the whole history for the provider, `WriteResponse`
converts the answer, whole or as chunks the client merges, and the client keeps
what it received. How a client writes a turn, and merges chunks, is external; the
two conversions in between are the code's.

**PluginManager** has one chain stand for the four of the manager. A slice is a
header over an array in `arrays`; `Append1` is Go's append. A run copies the
header under the lock and reads the array one hook at a time without it, and
ReloadAll truncates and collects plugin by plugin, so the two interleave as in
the code. That a read of a cell gives the old or the new hook is what the race
can do: a func value is one word.

**AuthGate** has one action per locked read of the middleware, and Reload as one
action (it holds the write lock throughout). `inForce[r]` is the history of the
configurations since r's first read.

**Lifecycle** is a record per process: `pc` for main (New, Run, Shutdown) and
`loop` for the waitForExit goroutine. tableflip, kratos and the kernel are
modelled by what `app.go` relies on. Timeouts may strike at any time, so the
results hold for any value of `upgrade_timeout`, also for one that is over at
once.

**Startup** is main, one action per step of `New`, `SetupAll` and `Build`, with
the configuration read once in `Load`. `opts` is what `balancer.New` is given,
`mux` the routes, `open` the open databases, `closed` the history of what was
closed. Any step that reaches outside (a file, a database, a plugin, the
listener) may fail. Lifecycle has the same steps as `NewDependencies` and
`NewFails`, and what Startup leaves out: other processes, signals, requests.

**Errs** is the table of codes and statuses.

## 3. Bounds

| run | bounds | why they are enough |
|---|---|---|
| proxy | 2 requests, 2 accounts, limit 1 | a second request competes for the slot the first holds, leaks or releases; accounts do not share a counter, and requests meet only there; DefaultProxyProofs has any number of both |
| proxy_pick, _stream | 1 request | the shortest counterexamples |
| anthropic_stream | 3 chunks out of 12 shapes, 2 call IDs, channel of 1 place, 1 event in transit | every pair of block kinds in either order, a call continued, a chunk with everything in it; a channel of one place is full after every response |
| conversation | 3 turns, 5 answers, 3 system prompts and 3 texts (none, an empty one, two parts), images of either kind, both protocols, streams | two answers come back in the third request, with no, one and two calls to answer; ConversationProofs has any number of all of them |
| startup | 2300 configurations | every combination of what the parts of Build decide on, and every combination of the keys outside Build, with bad values of each |
| plugins_stable | 4 entries, 3 registered, 2 runs, 2 reloads | the array grows twice (1, 2, 4); two runs meet different reloads |
| plugins_withdraw | 3 entries, 1 run, 1 reload | one hook that leaves moves the one behind it |
| auth_reload | 1 request, 2 keys, 2 reloads | requests do not influence each other; three reads can meet three configurations |
| lifecycle | 3 processes, 2 commands, 1 crash, 1 request each, disk may fail | two hot restarts, a restart and a stop, or one and a cold start |
| lifecycle_pidfile, _stop | 2 processes, 1 and 2 commands | one restart; one restart and a stop |

`MaxChunks`, `MaxTurns`, `MaxReloads`, `MaxCommands`, `MaxCrashes`, `MaxHandlers`
and `Window` are bounds of the model and not of the code; `Capacity` is 64 in the
code. DefaultProxy and Startup need none.
`DiskFails` and `MayWithdraw` switch a fault on: the first is off where the run is
about a file that was written and lost all the same. Deadlock is
checked where a system never stops by itself (DefaultProxy, AnthropicPipe and
Startup stutter explicitly when done); the others stop when bounds or requests
are used up, and their configurations say so.

## 4. What the runs show

*proxy.* `OccupancyExact`: the counter of an account is the number of
requests that hold a slot. `UpstreamWithinLimit`: never more open calls at an
account than its limit. `VerdictMatchesClient`: the pool hears "success" exactly
when the client gets 200, "failure" exactly when the upstream is blamed.
`AfterFollowsReport`: hooks once, and never for a request the pool was not told
about. `LeakExits`: the only exits that keep a slot are a failed report, a failed
provider lookup, a writer that cannot flush, a panic, and a stream that ended
without `Done`. `LeaseSpec`: DefaultProxy implements AccountLease.
`RequestCompletes`: every request ends.

*anthropic_stream.* `BlockDiscipline`: events nest, indices are consecutive,
deltas fit their block. `RoundTrip`: parsing the events gives back what was sent,
in order, the finish reason up to those Anthropic has no name for.
`ToolsReassemble`: merged by index, arguments end up with their call.
`NothingLost`: what the reader received, what waits and what is about to be sent
is what the lines read so far say, each under its own event. `DoneEndsBody`: a
reader that has a Done has the whole body and nothing after it. That is not the
whole answer: `message_stop`, which becomes the Done, is also written after a
stream that failed or was cut off (`anthropic/adapter.go:170-177`), and the parser
skips the `error` event before it; what tells is the finish reason, which the
reader has exactly if the provider sent one. A channel that closed without a Done
was cut off itself, which nothing else tells the reader. `PipeEnds`: both ends
learn of the end, unless the reader stopped and left the goroutine a full channel.

*conversation.* `AnswersKept`: the provider sees its own answers again as it gave
them, except for the thinking in chat completions: it goes out as
`reasoning_content`, whole or in deltas, but a request has no field it could come
back in. `TurnsKept`: what the
client says reaches the provider once, in its turn, in order; an image by URL
never does through the Anthropic adapter, and a list of nothing but empty texts
reaches the provider of an OpenAI client as the JSON it was written in (`Heard`;
`openai/adapter.go:438` speaks of a content that cannot be parsed, but such a
list can). `ResultsNext`: tool results stay
together after the calls they answer; the Anthropic adapter puts the text of the
turn before them. `SystemFirst`: one system message, in front.

*startup.* `StartsIff`: a process serves only under a configuration that is in
order, and one that gives up had a bad one or met a failure outside; the order
of Build never decides. `Wired`: the pool that serves is the one configured, on
one store, with a fixed limit that admits a request. `PluginsWhole`: nobody is
served with a plugin half set up. `ClosedOnExit`: a process that served closes
plugins, then database; one that failed closes nothing. `ServedByOwn`: each path
is answered by the adapter of its own protocol, for prefixes that the router
library joins to the patterns as they are (section 7).

*plugins_stable.* `ChainComplete`: after any reloads, failed ones included, the
chain is the hooks of the plugins in configured order (by name: which
configuration a plugin was last set up with is not looked at). `RunsAllInOrder`: a run
that overlaps reloads calls each hook once, in order. `ClosedInReverse`.

*auth_reload.* `AdmittedByOne`: nobody is admitted whom every configuration in
force would reject. `RejectedInOrder`: what a rejection under reload means.
`DecidedAlone`: without a reload in between, the decision is exactly the
configuration's, where a request that should have a key and has none is turned
away even if no key is configured (see below). `UserIsKey`: who got in by a key is handled as that key.

*lifecycle.* `AlwaysServed`: whichever child fails, hangs or is killed,
somebody accepts connections. `OneServer`: two processes serve only during a
hand-over. `ClosedAfterDrain`: pool and plugins close after the server has stopped
and its requests are drained, or the drain timed out, with one exception: a child
whose `Ready` fails because the old process has died. Its AfterStart hook returns
the error, kratos returns it from Run without a Stop, and Shutdown closes plugins
and pool while the server goroutine still accepts (`app.go:153-157`, `180-210`),
until main exits. The property names that exception and says that it takes a
crash. `TermExits`: who was sent SIGTERM exits, even if blocked in Upgrade.
`HandoverCompletes`: who handed over exits.

### Disagreements found

The order itself is told in two ways: `proxy.go:2` has the hooks before the
report, `default_proxy.go:17` and the code after it; `AfterFollowsReport` is
stated for the code's order.

`auth.go:180` says that with no key configured **all** requests are let through
("如果没有配置任何 key，则放行所有请求"). They are not where auth is enabled: a
request without a key in its Authorization header is rejected before
`validateKey` is asked (`auth.go:97-101`). `Allowed` in AuthGate is the comment's
rule, `KeyMissing` the earlier return that overrides it; `DecidedAlone` states
both and holds, so the disagreement is in its second conjunct and has no run of
its own.

Each of these runs checks one sentence of the source and violates it.

| run | the source says | the code does |
|---|---|---|
| proxy_pick | BeforeRequest, Pick, Invoke, **Report**, AfterResponse (`default_proxy.go:17`) | a failed provider lookup returns without a report and keeps the slot (`:162`) |
| proxy_stream | hooks and **automatic report** (`default_proxy.go:124`) | no report when a stream ends without a Done chunk (`:214`) |
| plugins_withdraw | runs all hooks **in order** (`manager.go:119`) | a reload that changes the set of hooks moves them under a run (`:226`); no caller in the repository reloads yet |
| lifecycle_pidfile | no PID file means the service **may not be running** (`app.go:264`) | the old process removes the new one's file (`:213`) |
| lifecycle_stop | `-s stop` is a graceful **stop** (`main.go:31`) | a stop during an upgrade ends the old process and leaves the new one (`app.go:237`) |

## 5. Fairness

*DefaultProxy.* A goroutine that can run runs (weak fairness of its own steps).
Request contexts have a deadline: `NewServer` passes `WriteTimeout` to kratos and
`setDefaults` makes it 120 s where it is not set, so Cancel happens. Of the
provider only this is assumed: once the context is done a pending call returns an
error, and Each returns if asked again and again (strong fairness, as every chunk
disables it for a while). A provider that ignores its context would keep the
handler; that is outside this repository.

*Lifecycle.* Both goroutines of a living process run; StopTimeout and
UpgradeTimeout end drains and upgrades; a Go `select` whose case is ready again
and again takes it (strong fairness: an upgrade may come in between). This is assumed
of the processes in `Watched` only, the ones the two properties are about: their
end must not depend on another process that may hang. Nothing is assumed of
operators, clients or crashes.

*AnthropicPipe.* The writer's stream ends by itself (it does in DefaultProxy),
the goroutine of ParseSSEStream runs, and a reader that reads goes on reading.
Whether the reader stops and whether the connection breaks is left open.

## 6. Proofs

Every theorem holds for all values of the constants that the named assumptions
allow, and for behaviours of any length.

*DefaultProxyProofs*: every finite set of requests, every set of accounts, every
limit of at least 1 and every set of hook errors. `OccupancyExact` is not
inductive by itself: that a report releases a slot its request holds follows only
from where the goroutine is. `SlotInv` says that: for each place, whether the pool
has been told (`Untouched`, `Owing`, `Settled`, `Streaming`), and what an exit
leaves behind. `IInv == TypeOK /\ SlotInv /\ OccupancyExact` is inductive (theorem
`Inductive`; one lemma per conjunct, one step per action, cardinality lemmas for
adding and removing a holder). From it follow `UpstreamWithinLimit` (unreported
requests are among the holders, which the counter bounds), `VerdictMatchesClient`,
`AfterFollowsReport`, `LeakExits`, and `ImplementsLease`: Init maps to Init; Pick
maps to Acquire, a report that succeeds to Return, all else to stuttering.
`SlotsFollowPlaces` states `SlotInv` itself; no run repeats it.

*AnthropicProofs*, the stream: any set of chunks, any length. `BlockInv` says
that the client's open block, its type and the next index it expects are the
writer's (`Mirror`), and that arguments without an ID find the block of their call
open (`CallOpen`). `StreamInvariant` proves it with `Types`, a typing invariant
weaker than `TypeOK`; `BlocksNest` follows.

What the body says is proved on top of it. `RoundTrip` speaks of the moments when
no chunk is in hand, and is not inductive: within a chunk the body is behind.
`Rest` says by how much: the items of the chunk that are still to be written, from
the section the writer is in (`RestOf`). `Owed` says that what was sent is a part
that was given, item by item, and `Rest`; every step takes in a chunk, moves the
first item of `Rest` to the body, or leaves both (`Progress`). Between two chunks
`Rest` is empty, which is `ItemsComeBack`. For the tool calls `Numbered` says that
no call has an index the client still expects, and that while a call is open the
last item is a piece of it; `CallsReassemble` follows. `Counted` says that every
block was started for an item, given or owed, from which come the bounds of
`TypeOK` (`StreamTypes`). `StreamIsFaithful` has all three.

*AnthropicProofs*, the pipe: any capacity of the channel and any transport.
`PipeImplementsStream` shows that the pipe never steers the writer, so
`BlockDiscipline` carries over (`BlocksNestInPipe`). `Scanner` follows the
goroutine through lines that are still being added to: `EachUnderItsEvent` says
that a data line is always read under its own event line, and that at most
`Capacity` responses wait. `Queue` adds up what was received, what waits and what
is about to be sent to what the data lines read so far yield, of a body that
grows meanwhile: `NothingIsLost`. `Closing` says when the channel may be closed
and `Ending` that `message_stop`, the one event that yields a Done, is the last of
a body; with `Queue` they give `DoneEndsTheBody`, for a Done in hand leaves nothing
waiting. That such a body names a finish reason exactly if the provider sent one
is `BodyFinishes`: `FinishSent` says that the last thing with content was the
finish reason if one was sent at all, and of a complete body nothing is owed. `PipeRoundTrip` and `PipeTypes` carry over what is proved of a stream.

*ConversationProofs*: any words, call IDs, prompts, turns, results and answers, any
number of turns, both protocols, whole answers or streams. The properties speak of
the request the provider was last sent, and say nothing while the client is
talking; the invariant `IInv` is about the request to come. `Faithful` says that
the history as the client keeps it, converted, is what was said and answered,
turn by turn. It is kept because an adapter converts message by message
(`ConvertedConcat`): a turn or an answer more in the history is what it converts
to more in the request, and a turn stays where it was because turns are counted
by the answers before them (`TurnConcat`). What remains is one fact per step,
each for any turn or answer: what a turn converts to (`AnthropicTurnArrives` and
`OpenAITurnArrives`, where texts are joined, results split off and, in the
messages API, text moved before the results), and that what the client keeps of
an answer converts back to that answer (`AnswerReturns`). A streamed answer is cut
into pieces and merged by index, and is then the whole one (`StreamedIs`). The
five properties follow from `ConversationInvariant`. The assumptions: the two
outcomes of an unparsable content are words, no call has the empty ID or the ID
the model gives to images, and texts and answers have their types.

*AuthGateProofs*: any set of requests, paths, keys and users, any number of
reloads. The properties speak of a request that has been decided, and its
decision rests on three reads at three moments. `Judged` closes the gap: `Checked`
says, for each place between the reads, that some configuration in `inForce`
agrees with what has been read so far, and with the configuration of the moment
when no reload came in between; `Decided` says the same of each verdict. A reload
only adds to `inForce`, so what is checked stays checked.

*LifecycleProofs*: any set of processes, any number of commands and crashes. Its
invariant has layers. `Local` relates the two goroutines of one process and its
flags; `Cross` says that a process which upgrades, or has handed over, and its
child know each other, and that the child serves once it is ready; `Paired`
says that of two processes with the socket one is the other's current child;
`Served` that somebody serves once somebody did. A hot restart moves service from
an `Old` process to a `Young` one, and each layer is preserved with the help of
those before it. `AlwaysServed`, `OneServer` and `ClosedAfterDrain` follow; for the
last, `Local` also says that a child which failed to tell its parent has seen a
crash, and `Cross` that without one the parent of a starting child waits in Upgrade.

*PluginManagerProofs*: any number of configured plugins, of which any are
registered, any number of runs and reloads. A run walks an array without the
lock while reloads rewrite it, so what it finds at a place cannot be said from
the run alone. `Shape` (`TypeOK`, where the admin stands in its loops, and that
every slice points into an array that exists) proves `Typing` and, with the order
of `initialized`, `ClosesInReverse`. `Whole` carries the rest: while a reload
collects, the cells up to the chain's length name the offering plugins met so
far, and those behind it still name the others, in order; so a reload overwrites
a cell only with a hook of the plugin that cell already names (`CellAwaits`), and
a slice that a run took at any time keeps naming every plugin once.
`ChainStaysComplete` and `RunsStayInOrder` follow, the second while the set of
plugins that offer a hook does not change (`~MayWithdraw`): plugins_withdraw
shows that it needs this.

*StartupProofs*: any set of configurations and any registered plugins. Build is
a chain of parts, and each invariant follows it: `Chosen` says which keys have
been judged at each place, `Built` which options there are, `Resources` what is
open and closed. `StartsIffInOrder`, `PoolIsWired` and `ClosesWhatItOpened`
follow. `PluginsAreWhole` relates the plugins set up so far to the configured
ones that are registered, in their order; `EachServedByItsOwn` says of the mux,
for any list of protocols, that the first route to match a path is one of the
protocol enabled under it.

*SequenceFacts* has what these proofs need of FlattenSeq: its type, what it makes
of a concatenation, which elements it holds. Each needs an induction over
sequences. The induction theorems of the library take operators, which cannot be
given here; `Induction` and `SequenceInduction` speak of sets instead, and rest on
the least element of a set of naturals. Models that are proved about state a
filter as a FlattenSeq of sequences of one element or none; the lemmas about
`Collect` say of every such filter what it makes of the empty sequence, of one
element and of a concatenation.

Only model-checked is liveness, which is out of the prover's reach:
`RequestCompletes`, `TermExits`, `HandoverCompletes` and `PipeEnds`.

## 7. What the models assume, and what is left out

Assumed of what is outside the repository:

* The pool's counter is a per-account integer with Limit as its bound
  (fixed_limit). Adaptive limits, cooldown and the circuit breaker belong to
  lumin-acpool; Startup models that they are configured, not what they do.
* `Orderly` in AnthropicStream describes the provider: nothing with content
  follows the finish reason, and a call's arguments follow it directly. Without
  the first the writer would reuse a block index (`:670`), without the second it
  would put arguments into the wrong block.
* `RequestCompletes` assumes a request deadline. With a `write_timeout` below 0,
  which passes `setDefaults`, `NewServer` gives kratos no Timeout option
  (`server.go:45`), and what applies is the default of kratos.
* `ServedByOwn` takes a path for a pair of prefix and pattern. Register joins the
  two as strings (`router.go:49-53`); a prefix like `/` or `v1` gives a path that
  the router library matches otherwise or not at all, and is not among the
  configurations.
* A fork that fails, or is refused, is `SelectHUPFails`.

Left out of a module that models the rest of its file:

* Conversions: the separators of joined texts, tool declarations
  (`convertTools`, `convertProperties`: a tool without properties loses its
  schema at `:430`, a property that cannot be decoded is dropped at `:455`),
  generation parameters, token counts, and the metadata of a request (the OpenAI
  adapter stores the user as `user`, `openai/adapter.go:97`, while the proxy looks
  for `user_id`, `default_proxy.go:282`): data that no modelled guard reads.
* `message_stop` is sent after a stream that failed too (`anthropic:173`); the
  observer accepts it, as the protocol's clients do.
* Configuration keys no code reads (TLS, read and idle timeouts, admin, pool
  sizes), flag parsing, and names given twice in the plugins section, which
  set up the plugin twice.
* `skip_paths` is a constant of AuthGate: Reload never replaces it
  (`auth.go:137`).
* The tracker is built without a callback (`builder.go:119`), so with cooldown
  on nothing tells the cooldown about a quota: behaviour of the library.

Not modelled: editor and assistant files; `ToMap` (the map of plugin nodes that
ReloadAll looks its plugins up in, `manager.go:208`) and the accessors of types;
`Closed`, `Len` and `Pop` of interfaces that nothing in the repository calls;
logging.

## 8. Plan

Done: every module of section 2, and the proofs of section 6.

Left is *Gateway*: DefaultProxy composed with PluginManager and AuthGate in one
request, against a reload and a shutdown whose drain times out. Today each is
checked against the most general behaviour of the others: any hook may pass,
reject or panic in DefaultProxy, any call may overlap a reload in PluginManager.
