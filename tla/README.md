# FustAPI in TLA+

FustAPI is a gateway: clients speak the OpenAI, Anthropic or Responses protocol
to it, and it passes their requests on to the providers its routes name,
converting where a provider does not speak the client's protocol.  This
directory models the parts of it that have state and that are hard to test, and
says what they promise.

## The system

| component | source | state | operations |
|---|---|---|---|
| request lifecycle | `server.rs`, `protocol/mod.rs`, `protocol/stream_dispatch.rs`, `metrics/guard.rs` | a request's place in its handler, and who owns the duty to report its end | accept, refuse, call the upstream, fail, answer, stream, break, stop short, end, client leaves |
| metrics pipeline | `metrics/` | a bounded channel, counters, a published snapshot | emit, receive, tick |
| configuration | `config.rs`, `config/db.rs` | two SQLite tables | load, save |
| control plane | `web.rs`, `main.rs` | the router in use, each handler's copy of the configuration | the forms of the admin API and the command line, stop, start |
| routing | `router/mod.rs`, `protocol/mod.rs` | the router a request took on arrival | resolve, override, chat_stream, the three handlers |
| upstream stream parser | `provider/cloud/sse_parser.rs` | the tool call held back | a line, the end, an error |
| tool emulation | `capability/` | text held back while it may be a tool call | a chunk, the end |
| stream serializers | `protocol/serializer.rs`, `stream_dispatch.rs` | the open content block and its index, the open output items, whether the role was sent | a chunk, the message's beginning and end |
| request parsing, answer conversion | `protocol/anthropic.rs`, `openai.rs`, `responses.rs`, `provider/cloud/openai.rs` | none: the client keeps the conversation | a request, an answer |
| dashboard | `metrics/counters.rs`, `snapshot.rs` | counters per provider and model, samples of the last minute, series | an event, a tick |
| probes | `web.rs`, `provider/health.rs`, `health_prober.rs`, `provider/cloud/openai.rs` | a task per provider, with the query it waits for | ask, hear, time out, answer |
| provider adapters | `provider/` | none that outlives a call | a call |

How they interact: an endpoint takes the router of the moment (`ArcSwap`), opens
a `RequestGuard` and gives both to the handler of the protocol.  The handler
looks the model up, up to four times, and calls the provider; its answer, or its
chunk stream and what the serializer makes of it, is the response's body.  The
guard, or the `StreamTracker` it was turned into, goes along and emits one event
when it is consumed or dropped.  One task receives the events and publishes
their sums once a second.  The admin API's handlers load the configuration from
SQLite, change their copy, save it whole, and exchange the router; so do the
command line's commands, in processes of their own and but for the exchange.  The
server loads in the same way before it listens.

What is hard here: duties discharged by `Drop`, at whatever point a future is
cancelled; a channel that loses; handlers that overlap between load and save,
and loads that are two reads, the starting server's too; a crash between save
and exchange; a router
exchanged under a request; the same lookup made in several places; tool calls
and text held back in a stream and let go out of step with what surrounds them;
conversations that nobody but the client remembers; a wall clock that may be
set; upstreams that never answer.
`PROJECT.json` lists these hazards line by line with the property that covers
each.

## The modules

| module | models | its state and actions in the code |
|---|---|---|
| `Metrics` | the metrics pipeline | `queue` is the mpsc channel, `counters` is `GlobalCounters`, `snapshot` what `MetricsReader` reads; `Emit` is `try_send` with its result dropped, `Receive` and `Tick` are the two branches of the aggregator's `select!`.  `fate` is a history variable: what became of each request's two events |
| `RequestLifecycle` | a request from the endpoint to the last byte | `pc` is where it is, `path` the way it takes (protocol, streaming, native or converted), `holder` the `RequestGuard` or `StreamTracker`, `flag` the tracker's `success`.  One action for each thing that can happen at an await; extends `Metrics` |
| `RequestLifecycleProofs` | | the proofs about both |
| `Config` | the configuration and the forms | pure operators: `Allowed` is the early returns of the handlers, `Result` what they do to their copy |
| `AtomicControlPlane` | what an administrator expects | one configuration, changed in single steps; the server follows |
| `ControlPlane` | handlers, shells, database, router | `seen` is a handler's copy; `LoadProviders` and `LoadRoutes` are the two SELECTs, `Save` the transaction, `Store` the exchange.  `server` is whether the process runs, and `start` what it has read when it is between its two SELECTs (`StartLoads`, `StartServes`).  `committed`, `owed` and `strays` are history variables |
| `ControlPlaneProofs` | | the proofs about it |
| `Routing` | a request's way to a provider | `served` is the `RouterStore`, `snapshot` the `Arc` a request took; `ForwardTarget`, `ChatTarget` and `ResponsesTarget` are the ways the handlers look a model up |
| `RoutingProofs` | | the proofs about it |
| `SseParser` | an upstream's lines and the parser | `pending` is `pending_tool`, `parsed` the chunk that `process_line` or the end of the bytes yields; one action for each kind of line, `Unheard` what else of a delta is lost; `half` is the calls the upstream has yet to finish.  `said`, `lost` and `spoilt` are history variables |
| `ToolEmulation` | `ToolEmulationStream` | `emu` is its fields, `out` what a poll returns; `CallIn` is `parse_tool_call_from_text`, over pieces of text that carry braces and tags |
| `AnthropicStream` | `AnthropicStreamState` and its wrapper | `ser` is the serializer's fields, `wire` the events sent |
| `ResponsesStream` | `ResponsesStreamState` | the items that are open; `feed` is the events sent |
| `OpenAIStream` | `serialize_openai_chunk` | whether the role was sent; `lines` is the lines sent |
| `ClientStreams` | all five together | a line, what the parser makes of it, the transform of that, and the serializer of that are one step, as in the polled stream; the three serializers are fed the same chunks side by side |
| `ClientStreamsProofs` | | the proofs about it: its events, and its text |
| `Conversation` | parsers, body builder and answer conversion | `history` is the client's, `request` what the upstream receives; `Parsed`, `Described`, `Built` and `Received` are the stations on the way and back, `Raw` and `Written` the way of a whole OpenAI request past them |
| `ConversationProofs` | | the proofs about it |
| `Dashboard` | `ProviderStatsMap` and `SnapshotBuilder` | the fields of both; `Tick` is `build`, `SetClock` what an operator or NTP does to `now_secs` |
| `DashboardProofs` | | the proofs about it |
| `Probes` | `/api/balance` and `/api/providers/:id/models` | `at` is the await a task is in; `Account` and `Probed` are the parsers and `probe_balance` |
| `ProbesProofs` | | the proofs about it |
| `Induction` | | lemmas for the proofs: least elements, induction, recursion |
| `MC...` | | instances for TLC; `ClientStreams` and `Conversation` need none |

Operators called `X_Something` just before an operator `X` are variants of it,
each with a slip such as the code might have had (a forgotten clamp, a stale
copy, a dropped flag).  They are in no specification.  Put in the place of `X`
they make the property named for them in `PROJECT.json` fail, which shows that
the property depends on what the code does there.

Abstractions shared by the modules: request and response bodies are reduced to
what is decided by them; names are model values; a timer may fire at any moment,
and time appears only in `Dashboard`, whose rates are about it.

## What is checked

| run | bounds | what it shows |
|---|---|---|
| `lifecycle` | two requests, every path, a channel of two | `StartsAndEndsPair`, `CountersAddUp`, `InFlightExact`, `InFlightBoundedByLoss`, `SnapshotPlausible`, `NeverWaitsForMetrics`, `CarefulVerdicts`, `DashboardSettles`.  One request can fill the channel alone and two make every combination of lost events happen |
| `control_plane` | two web handlers and a shell, three forms, two providers, one model; loads and saves fail, the server stops and starts, any number of times | `RouterServesCommitted`, `ClosedUnlessStray`.  Three forms are enough for one handler, or a start, to be overtaken by two others within one load, and for create, route, delete |
| `control_serial` | one web interface and one shell, four forms one at a time, and no command while the server starts; saves fail, the server stops at any moment and starts, no load fails | `SavedPersists`, `QuietMeansInSync`, `ChangesAreServed`, and the refinement `ImplementsAtomic`.  Four forms are create, create, route and any other |
| `routing` | one request of any kind, the router exchanged at any moment among twelve configurations, four model names, one with the suffix and one with two | `AllButMisledSentToFirst`, `LabelTellsProvider`, `RoutedIsSent`.  Requests do not meet, so one is enough |
| `streams` | four deltas and tool calls in any order, three of them calls, and what is lost of a delta with several things in it; fragments of calls interleaved; or five pieces of text with braces and tags under emulation, with a buffer of four; errors and cuts anywhere; the upstream sends its usage if it was asked to | for the Anthropic client `BlocksWellFormed`, `ThinkingSigned`, `ToolsAnnounced`, `EndsProperly`; for the Responses client `ItemsWellFormed`; for the OpenAI client of an emulated stream `LinesWellFormed`; and for all of them `ArgumentsWhole`, `ToldAsSaid`, `CallsFound`.  Four deltas give every transition between kinds of block, and a lost call among others; three tool calls give a first, a middle and a last; five pieces are the least with a call between tags, and outgrow the buffer |
| `conversation` | two answers with up to two calls each, clients of every protocol, whole (for OpenAI clients on the raw path) or streamed, upstreams with and without tools and ids; a user's turn is a text, an image, two of them or a mixture with a link; a system message only before a text or a result | `AnswersComeBack`, `ResultsPaired`, `QuestionsKept`, `PromptFirst`.  Two answers are the least that can be taken for one another, and three requests go out for them |
| `dashboard` | three pairs of provider and model, two of which share a key; two starts and two ends, three snapshots, three seconds, a window of one second (60 in the code), two points (300 in the code); the clock set once to anything up to the bound | `StatsAttributed`, `SumsAgree`, `RateHeals`, `SeriesIsLast`.  The window can be left, the series can overflow, and the clock can be set before, between and after samples |
| `probes` | five providers, one of every strategy and place, up to two configured | `EntriesTrue`, `AllAnswered`.  Tasks share nothing, so two are enough for one to be late for the other's sake |

Bounds appear as `MaxForms` (ControlPlane), `MaxPieces`, `MaxTools` and
`MaxSpelled` (SseParser), `MaxRounds` and `MaxCalls` (Conversation), `MaxEvents`, `MaxTicks`,
`MaxTime` and `MaxClock` (Dashboard) and `MaxStored` (Probes).  `Capacity`
(Metrics, 4096 in the code), `MaxBuffer` (ToolEmulation, 32 KiB), `Window` and
`MaxPoints` (Dashboard) are bounds the code has too, made small so that they are
reached.  Nothing else is capped.  Deadlock is not checked: a run stops when its
requests, forms, stream or rounds are used up.

Four more runs state what a comment or a document says of the program and the
code does not do.  TLC finds the behaviour:

| run | what happens |
|---|---|
| `verdicts` | a streaming OpenAI or converted Anthropic request whose upstream fails is counted as a success, because the tracker was taken before the call; so is one whose answer cannot be converted, and, on every path, a stream that stops short because the connection ended without `[DONE]` or the tool emulation panicked |
| `lost_update` | of two creates that overlap, the later save deletes the earlier's provider, which was acknowledged |
| `responses_override` | a converted Responses request with an override is routed by the override's name |
| `parallel_tools` | without a usage line the last of two tool calls is merged into the block before |

The passing runs state around these what does hold: `CarefulVerdicts` for the
other paths, `SavedPersists` for forms submitted one at a time,
`AllButMisledSentToFirst` for all other requests, `ToolsAnnounced` for upstreams
that send their usage.

### Where documents promise more

In the cases below a document or a comment of the repository says more than the
code does.  The property about the matter quotes it, and states what the code
does and that it does no less:

- *Fall-through.*  `docs/specs/user-manual.md:166`, `docs/specs/design.md:298`,
  `CHANGELOG.md:133` and the first line of `router/mod.rs` say that the next
  provider of a route is tried when the first fails.  None is:
  `AllButMisledSentToFirst` says that a request goes to the first provider of its
  route and to no other; `Return` has the failure that is the client's answer.
- *Images.*  `docs/specs/user-manual.md:334-337` and `docs/specs/design.md:231-241`
  say that images are passed through, or refused with a clear error.
  `QuestionsKept` excepts, where a body is built, an image that is a message of
  its own (it arrives as a text that is a data URL), an image by link (wrapped as
  if it were data, or left out), and those of a Responses client (dropped).  On
  the raw path of a whole OpenAI request it excepts nothing.
- *Emulated tools.*  `docs/specs/user-manual.md:327` says that the tools are put
  into the system prompt for providers without tools of their own.  A whole OpenAI
  request goes out as it came in, with its tools, whatever the provider knows
  (`Raw`); `PromptFirst` says that they are told once, in the body's field or in
  the prompt, and does not say which.
- *Open items.*  `protocol/serializer.rs:275` and
  `docs/superpowers/specs/2026-06-16-responses-api-design.md:155-157` say that items
  are closed when the stream ends.  Reasoning that nothing came after is not, and
  `ItemsWellFormed` excepts it.
- *Offline and error.*
  `docs/superpowers/specs/2026-05-10-providers-ui-redesign.md:96-101` calls
  "offline" a connection that failed and "error" an error that the API returned,
  and `health_prober.rs:25` speaks of offline "if nothing is reachable".
  `EntriesTrue` excepts `ErrorTakenForOffline` (an error, or something that cannot
  be read, was the only answer) and `ErrorTakenForOnline` (an error to `/health`,
  and an error again to the models).
- *Failed requests.*  `metrics/guard.rs:74` speaks of an end with `success=false`
  for a failed request.  A stream that stops short is counted as a success on
  every path: `CarefulVerdicts` excepts it, `AllVerdicts` finds it.
- *Parallel tool calls.*  `CHANGELOG.md:18` promises each call its own block.
  `ToolsAnnounced` excepts the calls the parser never hears (`lost`, below).

### What else the properties except

Where the code does less than one might expect and no document speaks of it, the
property names the case instead of hiding it:

- `AllButMisledSentToFirst`: every lookup strips the suffix "[1m]" anew, and a
  name that carries it twice (`Doubled`) is stripped once by some and twice by
  others, so that `chat_stream` can take the provider of one route and the model
  of another.
- `RouterServesCommitted`, `ClosedUnlessStray`: a starting server reads providers
  and routes by two SELECTs, and a shell may save between them (`overtaken`); then
  it serves a mix that was never saved.  Handlers read in the same way (`torn`),
  and save what they read.
- `ToolsAnnounced`, `ArgumentsWhole`, `ToldAsSaid`: of a delta the parser takes
  its reasoning, or else its text, or else the first of its tool calls.  A call
  whose beginning is lost so is in `lost`, one that lost a fragment, or was given
  another's because the parser ignores `index`, in `spoilt`, and text lost beside
  reasoning is `drowned`.  `ArgumentsWhole` says that spoilt calls do not have
  their arguments and all others do.
- `BlocksWellFormed`: an answer without any piece stops a block that was never
  started (`Empty`), and the empty text that ends a stream whose buffer was
  outgrown by a call is put into the call's block, since no usage line comes
  between them: the providers whose tools are emulated are never asked for one.
- `CallsFound`: once the buffer was outgrown, text is judged in portions.
- `ToldAsSaid`: what stands around calls in the emulation's buffer is dropped:
  the pieces beside a call, or others that were dropped, up to it.
- `Over`: text whose last closing brace is ahead of its first opening one, or
  whose last `</tool_use>` is ahead of its first `<tool_use>`, makes the parser of
  calls panic, and the stream ends there.
- `AnswersComeBack`, `ResultsPaired`: of what a Responses client sends, only the
  text of messages is converted.
- `StatsAttributed`: pairs of provider and model with the same key, which takes a
  provider with a colon in its name, are added up as one.

A renamed provider leaves its overrides behind under its old name; `Config` and
`Routing` have that as it is.

### Fairness

`lifecycle` assumes that the aggregator's task runs: a waiting event is received
and the interval ticks.  The task is spawned in `init` and loops for ever; both
branches of its `select!` are polled in random order, so neither starves the
other.  Nothing is assumed of clients and upstreams: the code sets no limit on
the time a request takes, and `DashboardSettles` is stated of the requests that
are still in flight.  `control_serial` assumes that a handler that has begun goes
on: it has no await in it; that a server that stopped is started
(`WF_vars(StartLoads)`); and that, however often it stops, it gets through its
start now and then (`SF_vars(StartServes)`: stops may come between its two reads,
but not for ever).  Stops, failures and new forms need never happen.
`probes` assumes that a time limit that has run out fires and that a handler
whose tasks have ended goes on (`TimesOut`, `ModelsTimeOut`, `Answer`): tokio's
timers and scheduler do that.  Upstreams may be silent for ever.  The other runs
state safety only.

## What is proved

The theorems hold for any requests, paths, capacities, forms, configurations and
upstream answers, for streams and conversations of any length, and for any
window, buffer and series.  They cover every property the passing runs check but those listed under
"Only model-checked".

Each invariant below is inductive, or is together with types and with the ones
named before it; the lemmas about the single actions end in `Init`, `Next` and
`Steps`, and the last step of a theorem is temporal.

**Induction.**  The operators that run along a sequence are recursive functions
here (`Told`, `Kept`, `Others`, `Flat`), not recursive operators, so that
something can be proved of what they compute.  `Least`, that a set of numbers
has a least element, comes from the well-founded order of the naturals;
`InductionOnNat` and `InductionUpTo` are induction with the property given as a
set; `Recursion` says that a step given as a function has a function that
follows it, which is what the CHOOSE behind a recursive definition needs.

**`RequestLifecycleProofs`.**  `IInv` adds to the stated invariants what they need
to be inductive: the channel holds exactly the events whose fate is "queued",
each once (`ChannelFaithful`), and a request's start ahead of its end
(`ChannelOrdered`).  Without the first, receiving an event could count one that
was counted before; without the second, the in-flight number could go below
zero with nothing lost.  From it follow `TypeCorrect`, `Pairing`, `Counting`,
`NeverFarBelowZero` (the ends counted are of requests whose starts were counted
or lost, and a cardinality argument) and `ExactWhenQuiet`.
Assumed: the requests are finitely many, and the capacity is positive.

Two more invariants follow from the same facts.  `Plausible` needs that a lost
start stays lost (`LossesStay`), so that a published snapshot keeps its bound
while the counters go on.  `VerdictsRight` needs `CarefulInv`: on the careful
paths a tracker is held only with an open stream, and its flag tells whether the
stream has broken, which is why a stream that stops without breaking is excepted.

**`ControlPlaneProofs`.**  `ServesCommitted` needs that a handler which has saved
holds what it saved, and that what a starting server has read of the providers
is still the database's unless a shell overtook it (`CommittedInv`): while the
server starts no web handler runs, so only a shell can.  It holds however handlers
overlap, fail and are stopped.  So do `TypeCorrect`, which needs that a form makes a
configuration of a configuration, for each form, and `StaysClosed`, that no
route is empty or names a provider that is gone: `ClosedInv` says it of all that
the database ever held and of every handler's copy, unless there were strays.
Removing a provider from a route is the function `Others`, of which
the proof needs that what is left is of the route and that nothing else goes.

The other three are stated under `Serial`, that forms are submitted one at a
time, the server is started while no command runs, and loads do not fail; without it they are false (run `lost_update`).
`SerialInv` says that the one handler under way is alone with the database: its
copy is what the database holds.  `InSync` follows, and `Persists` with a lemma
on what a form takes away (`ResultKeeps`), and with `AtomicSteps`, that every
step is one of `AtomicControlPlane` or none, the `Refinement`.  That both
specifications mean the same by a form is `SameForms`.

**`RoutingProofs`.**  The first part is about the lookups alone: `ResolveFound` and
`OverrideFound` say what resolve and the override come to, `WaysAgree` that both
ways to send a request send it to the route's first provider, if the name carries at most
one suffix.  The second is `RoutingInv`: a request's label and target are those
of the router it arrived at.  From both follow `FirstChosen`, `LabelRight` and
`NotRefused`, and from the types of the lookups `TypeCorrect`.  Assumed: the
configurations are well typed, and no provider is called "unknown", the name
that stands for none.

**`ClientStreamsProofs`.**  What an Anthropic client receives is read as a
sequence with one block open or none: `Writes(s, w, o)` says that the
serializer's state `s` and the events `w` belong together with block `o` open,
and one lemma for each kind of chunk says how `w` grows.  With it, `Base` (types,
the parser's and the transform's fields, and `Writes`) is inductive for every
upstream, and `ThinkingAlwaysSigned` follows.  `AlwaysEndsProperly` adds
`EndInv`: nothing ends the message before the upstream is done, then only its
very end is left to tell.

`BlocksAlwaysWellFormed` and `ToolsAlwaysAnnounced` are stated of upstreams that
send their usage (`UsageLine`), and are false of others (run
`parallel_tools`).  `BlockInv` says where the reason lies: a tool's block is
open only while something is held back that will come after it.  `PendInv` and
`HalfInv` say which call the parser holds back (the last whose beginning it
heard) and what its arguments are, whatever was lost or misled in between,
`AnnouncedInv` that the calls due are those a block was started for.

`LinesAlwaysWellFormed` (`LinesInv`) is about the OpenAI client.  For the
Responses client, `At(f, item, tool)` says that the events `f` are in order with
`item` open, `Moves` what the events of one chunk do to that, and `FeedInv` that
the feed is in order and the response goes on, or that it was completed and the
streams have nothing left to tell; `ItemsAlwaysWellFormed` follows.
`ArgumentsAlwaysWhole` (`ArgsInv`) is about both clients at once: of a stream
that no error cuts, every call that is due was told to both, with its own
arguments if all their fragments, and no others, were heard while it was held
back, and with none if not (`WholeKept`: that is settled once it is told).  `TypeCorrect` is the type invariant of all five components.

Of the text, `EverythingTold`: `TextInv` says that what was heard (`Heard`),
without what is held back, is what each client was told, or that (`CutOut`) what was
told is the rest of what was said once the pieces around calls are left out, in
order, by an embedding of the one sequence in the other; and in the end nothing
is held back.  `CallsAlwaysFound`: `CallInv` says that text that begins like a
call and fits the buffer is held back as long as it comes, and that then it is
a call if there is one in it, between tags or not, and nothing else is begun.  An earlier form of
`ToldAsSaid` allowed the pieces beside one call to be missing; the proof failed
on streams longer than the run's, where several calls stand in one text and what
was dropped lies beside what was dropped before.
Assumed in this module: a buffer of at least one piece.

**`ConversationProofs`.**  All that happens to a history on its way to the upstream
is of one form: each element becomes a sequence, and the sequences are put one
after another (`Gather`).  That this is typed, splits where the history does and
composes (`GatherJoined`, `GatherTwice`) is proved once, by induction over
sequences from their end (`InductionOnSeq`).  `Pipe` then says that whoever
ignores system messages sees of a request just what the single entries of the
history become, wherever system messages were moved to and tools described, and
`RolePipe` says it of the messages with one role.  On the raw path the pipe is
shorter (`Written` for `Built`, and nothing described); the lemmas cover both.

`KnownInv` is the common invariant: the types, with the shapes a history's
entries can have under each protocol (`EntrySet`), that the upstream's request is
made of the whole history, and that an answer is of its round.  It is all that
`PromptComesFirst` needs, where `SystemsUpTo` and `TellsOnlyAt` follow the system
messages and the description of the tools through the stations, and all that
`QuestionsAlwaysKept` needs, which compares entry by entry what the user said
with what is sent of it.  `AnswersAlwaysComeBack` adds `BackInv`, that the
history holds the answers given and no others, and that an answer survives the
way back and forth (`WholeBack`).  `ResultsAlwaysPaired` adds `PairInv`: no call
in the history is of a round to come, and what is sent of the history is paired,
or is so up to a last message whose calls are the open ones (`Waits`).
`PairedUnit` says that the results of the open calls complete it, whatever text
comes after them; that ids tell the calls of an answer apart, `IdsDistinct`.
Nothing is assumed but that the numbers of rounds and of calls are naturals.

**`ProbesProofs`.**  `EntriesAlwaysTrue`: an entry is made once, of what its own task
heard, by a parser that marks what it says (`ProbesInv`).  `CompleteWhenDone` is
the safety half of `AllAnswered`: an answer has the entry of every provider
configured, once, in the order of names (`AnswerInv`, and what `Sorted` makes of
a finite set).  Assumed: finitely many providers, with numbers for the order of
their names.

**`DashboardProofs`.**  `RateAlwaysHeals`: `RateInv` says that the samples of the
totals are, in order, exactly those of the snapshots that have been within the
window at every snapshot since; times and totals only grow.  With the clock not
set, or what was sampled before that out of the window, these are the snapshots
of the last window by true time, and the first is the lowest of them.
`SeriesAlwaysLast` is inductive with the types alone.  `StatsAlwaysAttributed`
needs `PairInv`, that a pair with its key for itself is counted under it, and
`SplitOfKey`, that splitting at the first colon gives the pair back if there is
none in the provider's name.  `SumsAlwaysAgree` needs `SumInv`: a sum is the
cardinality of its units, one more request is one more unit (`OneMore`), and
rows or points that have the numbers of the keys, each key once, add up to the
same (`SameSum`, a bijection), which holds since no two keys split alike
(`KeyOfSplit`).  Assumed: names are sequences of words, and at least one point.

## Only model-checked

Three liveness properties, `DashboardSettles`, `ChangesAreServed` and
`AllAnswered`, and `NeverWaitsForMetrics`, which is stated with ENABLED, are
beyond the prover.  The safety part of the first three is proved:
`ExactWhenQuiet`, `InSync` and `CompleteWhenDone`.

## Not modelled

- Numbers that ride along: token usage and latencies, and the averages made of
  them; temperature and other scalar parameters of a request.
- JSON syntax and the bytes of the streams: how they are cut into lines, UTF-8.
  That parsing may fail is a step of `RequestLifecycle`.
- The arm that collects a chunk stream into a whole answer, and the OpenAI
  serializer of whole answers behind it: no provider the gateway ships reaches
  them.
- Inside a provider's call: headers, URLs, and the one retry after a connection
  that failed; from outside it is one call that answers or fails.
- The web page, the build and the installation scripts: no state of their own.

## Plan

1. `RequestLifecycle` with `Metrics`, `ControlPlane` with its abstract
   specification, `Routing`: done, with proofs.
2. `SseParser`, `ToolEmulation`, the three serializers, `ClientStreams`: done.
3. `Conversation`, `Dashboard`, `Probes`: done.
4. Proofs of what the runs of all these check: done, but for liveness.

What the model could take in next is listed under "Not modelled"; first the retry
inside a provider's call, if it becomes more than one.
