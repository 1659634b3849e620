# SAP AI Core proxy: a TLA+ model of its shared state

The proxy turns OpenAI, Anthropic, Gemini and LiteLLM requests into calls to SAP AI Core
deployments. Each request is a goroutine that runs a handler from top to bottom; what makes it
hard to test is the state the handlers share: the deployment list and its blacklist, the bearer
token, what was learned about the deployments, the routes of stored responses, the
cache-attribution store and the memo of compressed texts. Its other half is conversions between
four protocols, of whole bodies and of streams, which have no state but many cases, and a command
that edits the files of other programs. This directory models that state, those conversions and the
code that touches them, checks them with TLC on small instances, and proves most of the safety
properties with TLAPS for every instance. File names below are relative to `src/internal/` unless they start with `src/`.

## The system

| Part | State | Operations | What is hard |
|---|---|---|---|
| Deployment pool, `sapclient/deployments.go` | deployment list with its age, time of the last recovery refresh, blacklist | `findDeployment`, `FindAndCall`, `CallStreaming`, `findReplacement`, `GetOrchestrationDeployment`, `ListAll`, `MarkUnhealthy` | a lock held across a network call, double-checked refresh, failover while other requests mark and refresh, clients that disconnect |
| Token manager, `sapclient/auth.go` | token and expiry, one exchange in flight | `GetToken`, `fetchToken`, `InvalidateToken` | shared exchange, clocks of two sides, a 401 racing an exchange |
| Signed client, `sapclient/client.go` | none of its own | `Do`, `DoStreaming` | one retry after a 401, two after DNS errors, idle timeout of a stream |
| Capability caches, `handler/openai/capability_cache.go`, `thinking_cache.go` | what deployments rejected, for an hour | `has`, `mark` | expiry racing a new mark, decisions of one request applied to another |
| Request fallbacks, `handler/openai/execute.go`, `chat.go`, `qwen.go`, `handler/anthropic/messages.go` | local to a request | drop a parameter and repeat, bridge tools to `/responses` | three fallbacks in a row that read the caches in between |
| Responses routes, `handler/openai/responses.go` | id to deployment, 24 h, 10,000 entries | `remember`, `lookup`, `forget` under `CreateResponse`, `GetResponse`, `DeleteResponse` | failover between resolving and registering, eviction, lost answers of a DELETE |
| Cache attribution, `diagnostics/` | last observation of each conversation (LRU, 30 min), counters | `observe` (get, classify, put, countBump, Add), `Snapshot` | two locks, three critical sections, digests in place of histories |
| Usage accounting, `usage/` | per-request accumulator, aggregates | observe events, commit once | the last event decides, order of middlewares |
| Stream converters, `stream/` | local to a request | one per pair of protocols | exactly one end of stream, no success after a broken upstream |
| Transformations and provider bridges, `transform/`, `handler/openai/*_bridge.go` | none | conversion of bodies, and of answers back | pairing of tool calls and results, what is promoted, merged, dropped or refused on the way |
| Catalogue, `catalogue/` | a fixed table | `Normalize`, `LatestFamily` | names must keep their model |
| Compression, `compress/` | LRU of compressed texts, settings, counters | `CompressRequest`, `CompressLog`, `Configure`, `Observe` | a cache that must not change results, two requests that fill it at once, settings that change during a request |
| Agent configuration, `agentconfig/` | files of other programs, their backups | `Plan`, `Apply`, one editor per format | crash or failure between backup and replacement, edits by others meanwhile, text that is the user's |
| Router, config, CLI, TUI, dashboard, cache probe | none or display only | | |

Handlers call the pool, the pool calls the signed client for discovery, and both the client of a
handler and that of the pool ask the token manager. The capability fallbacks run *inside* the
callback a handler passes to `FindAndCall` or `CallStreaming`; the route registry is fed by the
same callbacks and by the stream converter `PipeResponses`. Attribution and usage are middlewares
that run after the handler returned. `/anthropic` compresses a body before it converts it. Since these parts meet only through calls with plain
results, each is modelled with the others reduced to the results they can give: any instance of
the model (for the pool), any answer or error (for the client), any token lifetime, stated or not.

## Modules

| Module | Models |
|---|---|
| `DeploymentPool` | the pool; five kinds of requests (`call`, `stream`, `direct`, `orchestrate`, `models`) |
| `MCDeploymentPool` | a catalogue with aliases, vendor prefixes and two versions of a family |
| `TokenCache`, `MCTokenCache` | token manager and the loops of `do` and `doOnce` |
| `CapabilityFallback`, `MCCapabilityFallback` | the three caches and the fallbacks of the GPT, thinking and Qwen paths |
| `ResponseRoutes`, `MCResponseRoutes` | the registry, the handlers around it, what deployments store |
| `CacheAttribution`, `MCCacheAttribution` | session store, classification and counters of `observe` |
| `UsageAccumulator` | the accumulator of a request as operators: what each observer makes of a usage block, `Report`, the counter `Add` raises |
| `StreamPipe` | what all pipes share: reading frames, writes that may fail, `streamError`, the end of the loop, the commit |
| `AnthropicToOpenAI`, `ResponsesToOpenAI`, `OrchestrationToOpenAI`, `GeminiToOpenAI` | one converter each, with the upstream that feeds it |
| `NativePipes` | the five pipes that forward their own protocol |
| `Streams`, `MCStreams` | one streaming request through any pipe; the properties |
| `ChatShapes` | contents, messages, tools and choices that the conversions translate between |
| `OpenAIToAnthropic` | a chat request as a Bedrock body: tool messages, tools, promoted system prompts, images, cache marker, thinking budget |
| `AnthropicToOpenAIRequest` | `/anthropic/v1/messages` for other models, and their answers back |
| `ChatToResponses`, `ChatToGemini` | the bridges of GPT models with function tools and of Gemini models, with validation and answers |
| `LogCompressor` | `LooksLikeLog` and `CompressLog` over classes of lines |
| `Bodies`, `MCBodies` | the inputs of the six modules above, and the properties of what comes out |
| `Compression`, `MCCompression` | requests that share the memo, the settings and the collector |
| `PureTransform` | compression without a memo: the abstract specification that `Compression` implements |
| `ConfigFiles` | the editors of JSON, TOML and JSONC files |
| `AgentConfig`, `MCAgentConfig` | runs of `configure`, among other writers, failing renames and kills |
| `DeploymentPoolProofs`, `RequestProofs`, `CapabilityFallbackProofs`, `ResponseRoutesProofs`, `CacheAttributionProofs`, `StreamsProofs`, `CompressionProofs`, `AgentConfigProofs` | the theorems |

Conventions. A request is a process with a program counter; an action ends where the code takes or
releases a lock, calls the network or reads shared state again, so that everything between is one
step as it is in the code. Names are those of the source. A definition introduced by a comment
"Mutant:" is not part of the specification: it is a plausible error of the definition after it,
kept to show that each property fails when the code does.

*Time.* Every clock is a small counter that `Tick` moves; a timer that reached its limit stays there.
Only the order of deadlines matters to the properties, so one to four ticks stand for an hour or a
day. `Tick` may happen between any two steps, with one exception: `CapabilityFallback` lets no time
pass between a mark and building the repeated body, which follow each other without a call (an hour
would have to pass there).

*Deployment pool.* `LoopTop` is the head of both retry loops, `ListRead`, `ListAcquire` and
`FetchSucceeds`/`FetchFails` are `list` with its read lock, write lock and network call,
`Resolve` is the scan of `findDeployment` (`Passes` gives its five passes in order),
`Recover` is the rest of `findReplacement`, `AnswerReturned` and `InstanceRetired` are the two ways a
call ends. The platform lists instances in an order of its own, so any match of the first pass
with one may be taken. `stage` says which look-up of a failover runs. Expired blacklist entries
count as none; deleting them when read has no other effect. `isBlacklisted` is asked instance by
instance in the code and for the whole list at once in the model: an entry that appears or
expires during a scan of memory is taken to have done so before or after it.

*Token cache.* `left` is the client's view of the expiry, `serverLeft` the endpoint's; `latency` runs
while an answer is on its way. `stated` is `expires_in` as the endpoint sent it, zero when there is none or one of
zero or less: then the client keeps the token for `DefaultLifetime` (`auth.go:114`) while the endpoint lets it live as long as it
likes, and the cache may hand out an expired token. `CacheHitUnexpired` is about tokens with a stated lifetime and says so. `Shares` are the callers one singleflight call answers; the step
`stored` lies between storing the token and leaving singleflight, where an invalidation may fall.

*Capability fallback.* A worker runs requests for ever. Their data are the deployment, `reasoning_effort`
(absent, `none`, or set), and whether there are tools. What deployments reject is chosen at the start,
and so is `mix`, the kinds of request that run together: GPT requests share no cache entry with
the other two kinds, so the runs take `{"gpt"}` or `{"thinking", "qwen"}`.
`Has` and `Drop` are the two halves of `has`: loading an entry and deleting it when it expired.
The thinking kind covers `thinkingStream` and the Claude calls of `chat.go` and `messages.go`, which
are written out there but make the same steps; for them `effort` is the `thinking` or `reasoning_effort`
field. A `400` for other reasons is an "error": no fallback reacts to it.

*Response routes.* `dep` is the variable of that name in the handlers, `target` the instance the call
goes to; they differ once a stream failed over. `owner` and `gone` are what the platform stores,
`recency` the time a route would have if nothing were ever evicted.

*Cache attribution.* Digests are the things they digest, which takes SHA-256 to be injective. `holder` is the
collector's lock; the session store's lock is held inside single operations, which are atomic
here. System prompt and tools are one field, as both only mark a request busted before messages
are compared. `before` and `since` are history variables that hold the real previous messages and
the number of requests of a session.

*Streams.* One behaviour is one request through one pipe. An action is one frame: the upstream
sends it, the callback given to `readSSE` observes and converts it, and all its writes follow. `up` is what
the upstream has said so far and is used by the properties only, `local` are the variables of the
pipe's closure, `out` is what the client received. `Reply` lets the client leave before any of the
writes; a pipe notices at the next write, as the code does. `ScannerEnds` stands for an upstream that closes, a connection
that breaks or stays idle, and a frame above 8 MiB, and may happen after any frame. Text,
names and arguments are reduced to the number of fragments. The upstream keeps to the order of its
protocol where the converter relies on it (Anthropic's blocks come one after the other) and may
break it where the converter checks (unknown items, arguments that disagree, an early `[DONE]`, unreadable events).
An upstream that answered with an error status before the stream began never reaches a pipe
(`CheckStream`), hence `Fresh(200)`. The accumulator has a lock of its own, but one goroutine feeds it.

*Bodies.* A text is the sequence of the passages it was put together from, so that joining is
concatenation and a passage can be followed from the client to the upstream; tool calls are an id and a
function. Arguments, schemas and images are passed through unread by the code and are left out or
opaque. One behaviour is one body that grows: a conversation by one legal message at a time (every call gets
its result before the next turn), an answer by one item, the output of a tool by one line; the properties are
judged whenever the body is complete. `kind` says which. A line of output has the class the patterns
recognise, an indentation, a size, and a key that tells one warning from another.

*Compression.* A request is the flat sequence of the pieces of its messages. `Shrunk` is the transform of a log
as a constant and digests are constants that are injective (`cache.go` relies on that). The memo's lock is
held for `get` and `put` and free while the transform runs, so `Look`, `Hit`/`Miss` and `Remember` are steps of their
own. `Configure` may change both settings between any two steps. `PureTransform` has the requests and
settings only; its step `Decide` is the moment a text is looked at.

*Agent configuration.* `config.toml` is a sequence of lines, `opencode.jsonc` a sequence of tokens (members,
commas, comments) or a bare `{}` behind comments, a JSON file a function. The clock is the second in the name of a backup. A file that is being
written holds `Part` of its content. `Stop` stands for every error and for a kill, at any step; `Edit` for the user
and the agents, who may write between any two steps but not in the middle of a write in place.

## Runs

| Run | Shows | Bounds |
|---|---|---|
| `pool_failover` | `FailoverKeepsModel` | one cancellable request, three instances in two versions, asked by alias and by `-latest` |
| `pool_shared` | `OnlyRetiredBlacklisted`, `NeverRecalled`, `FreshListStable`, `FailoverBlacklists`, `Termination` | two requests of any of the five kinds, one instance |
| `token_cache` | `OneExchange`, `CacheHitUnexpired`, `RejectedLeavesCache`, `Termination` | two requests, three tokens, a lifetime above the margin or none stated |
| `token_retry` | violation: the retry after a 401 can carry the rejected token | as above |
| `capability` | `MarksAreTrue`, `ServedWhenPossible`, `LiveMarkKept`, `RequestsEnd` | two workers, one deployment with any set of rejections, entries that expire, both groups of kinds |
| `routes` | `Bounded`, `RecentKept`, `RoutesToOwner`, `CallsOwner`, `DeletedComesBackByStreamOnly` | two requests, three responses, two instances of one model, room for two routes, routes that expire |
| `attribution` | `JudgedByPredecessor`, `ClassifiedRight`, `BumpsKept` | three requests, two at a time, histories of up to three messages of two kinds, room for two sessions |
| `streams` | `EndTold`, `FailureCounted`, `ToolCallsWhole`, `UsageToldIsRecorded` | each of the nine pipes, up to eight Anthropic frames, six Responses frames, two Gemini packets, three frames else; two calls, two choices, two candidates |
| `bodies` | `ToolTurnsWhole`, `NothingLost`, `BreakpointsKept`, `ChoiceSurvives`, `ThinkingFits`, `AnswersTold`, `LogFaithful` | four messages, two functions, four calls, every combination of options, four answer items, five lines of output |
| `tool_results` | violation: the results of parallel calls of one function do not all arrive | three messages |
| `compression` | `MemoBounded`, `HistoryStable`, `BytesMoved`, `MemoUnseen` | two conversations of two turns with five texts, room for two, one change of settings |
| `agents` | `SavedFirst`, `UserKept`, `Settled` | two runs over four kinds of files, `config.toml` and `opencode.jsonc` of one to three parts (those in `MCAgentConfig`), one edit by others, two seconds |

Type correctness is not repeated by the runs where it is proved (pool, token, capability, routes, compression).

`FailoverBlacklists` is about `FindAndCall` only: `CallStreaming` judges the failure before the
stream begins and cannot see a retirement that arrives with status 200, and the handlers that call
an instance themselves do not report it (see below). `ServedWhenPossible` names the two kinds of requests
that no rejection can reach: the Qwen branch repeats a call without asking the cache a second time, and a
request that switches reasoning off stays on chat. The other branches are left out on purpose.

What the properties of `bodies` leave out is named in their comments: turns that call one function
twice and conversations that mix results by id and by name (which lose track of a call, `tool_results`), conversations
whose only system message is empty, results by name on the way to Responses and Gemini, and answers
cut by a filter from Bedrock. `NothingLost` compares every passage and every text of a result in all four forms a
conversation takes: Bedrock messages, chat messages, the input of Responses and the contents of Gemini. `BreakpointsKept`
puts marks on texts everywhere a client may, and on tools; it says which of them arrive and that those on instructions among the messages, on
tool messages and on OpenAI tool declarations do not. Marks on other blocks are not modelled, and `ToolTurnsWhole` does not ask
that ids differ between turns. `ThinkingFits` gives both look-ups of the thinking mark one answer.

`UserKept` leaves out three kinds of files that the code does damage (see below): a bare `{}` behind comments, which
`MCAgentConfig` has, a list of OpenCode rules that ends in a comment, and TOML headers or keys in a spelling the editor does not
recognise, which are no lines of the model. Comments of TOML are not asked for. A table of an array (`[[x]]`) may stand in the model
once. `SavedFirst` leaves out content that came after the plan was made and backups whose name two runs shared. `BytesMoved` is about
reports of requests whose messages were rewritten; the paths that hand a message back after counting
(`compress.go:249`, `compress.go:351`) are not modelled.

Why the bounds are enough. Two requests give every pair of interleaved operations, and all the
hazards named in `PROJECT.json` need two. Each limit is small enough to be reached: `MaxRetries`
is one or two so that the last attempt is covered; capacities are below the number of keys; every
clock runs out within a behaviour. Three messages are the shortest history with a first, a middle
and a last message, and the comparisons look at those. In `pool_shared` the single instance is what two requests fight over:
one retires it while the other is choosing, refreshing or calling it, and recovery has to find it
again; three instances and two versions are left to `pool_failover`, and more of both to the
proofs. In `routes` both instances serve the same model, so that failover moves a response
between them; the refusal of a response by a request that names another model occurs with more
models, which only the proofs cover.

The frame bounds of `streams` hold two tool calls with arguments, in overlapping order where the protocol allows it, and a
regular end; a Gemini packet may have both candidates, a part and a finish reason each, so two of them
cover a candidate that begins late or finishes early. Counts up to one tell apart adding,
keeping the first and taking the largest. A usage block may lack any of its counts, those of `message_start` and
`message_delta` too. `UsageToldIsRecorded` has two exceptions. When a `message_start` had no count of the input side, the accumulator
takes it from a `message_delta` and the client is told zero; the property then asks for that zero. It leaves out Gemini streams in which a later packet
lacks a count of an earlier one: the client is told the sum of the largest counts, the
accumulator keeps the largest sum. `FailureCounted` leaves out what the accumulator cannot see: error
elements of a Gemini array, and an Anthropic event that is an error by its SSE name alone.

Four messages hold a turn of two calls with both results and what the user says next, or two turns of one
call; the conversions look at one turn and its results at a time. The thinking budgets are below, at and above the
default limit. Five lines hold a traceback with more frames than are kept, or an error with lines before and
after its context; limits of the compressor are scaled down so that each is reached. In `compression` the two
conversations share one text and need four, twice the capacity, so that a text is evicted between two turns and two requests
miss the same one. In `agents` every order of the sections and members an editor looks for occurs with and without
something between, a list of rules may end in a comment or in a comment and a comma, and the second run meets what the
first left.

`CHECK_DEADLOCK FALSE` is given where every process ends and nothing is left to do (the pool,
token and stream runs, bodies that reached their bound) or where a bound on requests, turns or runs ends the
behaviour (attribution, compression, agents). Only `routes` and `attribution`, which check
no liveness, use symmetry.

*Fairness.* `WF_vars(Step(r))` for each request in `DeploymentPool`, `TokenCache` and `CapabilityFallback`: the Go scheduler
runs every runnable goroutine, locks
of `sync` do not starve, and a call to the network ends because the client has a timeout or its
context is cancelled. Nothing is assumed of the environment: instances need not come back, tokens
need not be issued, clients need not disconnect, time need not pass.

### Where code and documentation differ

Two runs are expected to find a violation; `findings` in `PROJECT.json` quotes the lines.

1. After `InvalidateToken`, `GetToken` may join an exchange that already stored the rejected token
   and hand it out again (`token_retry`).
2. Of two calls of one function in a turn, `openai_tools.go` remembers the id of the last; the result of the
   first is dropped, where the comments promise the results of a turn together (`tool_results`).

The following were met while modelling and have no run. The models behave as the code does.

* Embeddings, images, transcription and non-streaming Responses resolve an instance and call it
  themselves; a retirement they receive does not blacklist it (`src/README.md:241`, `embeddings.go:36`).
* A recovery refresh discards the list before fetching. When the fetch fails, each following
  request fetches again, several times in the minute that allows one (`deployments.go:277`).
* Of two GPT requests rejected for the same parameter at the same time, the second finds the first
  one's mark when it asks the cache again, and returns the 400 (`execute.go:36`).
* A Gemini array stream is parsed for usage after it ended and never for an error element, so that a
  stream that failed midway is counted as a success (`accumulator.go:498`, `src/README.md:227`).
* `Snapshot`, "a consistent copy of all counters", may fall between `countBump` and `Add` and lists a
  conversation with more busted requests than the totals.
* An Anthropic tool call whose only fragment is the empty string reaches an OpenAI client with empty
  arguments instead of `{}`, because the fragment sets `argsSeen`.
* Results by id do not use up the queue that results by name are served from (`openai_tools.go:186`), and an assistant
  message with the legacy `function_call` field is not converted.
* A conversation whose only system message is empty keeps its system role on the way to Bedrock (`anthropic.go:72`).
* On `/anthropic/v1/messages` an answer a filter cut is told as `tool_use` when it has calls
  (`openai.go:147`), and Bedrock's "refusal" as `stop` on the chat endpoint.
* `validateClaudeChat` and `openAIToBedrockBody` look up the thinking mark separately (`chat.go:526`); a mark made in
  between changes the budget that was validated. No property covers that.
* `CompressLog`: the budget counts lines that must be kept although a comment says otherwise (`log.go:205`), stacks
  whose header comes before their frames are not attached to it (`log.go:352`), and "a single marker is never
  enough" (`detect.go:90`) is not so when the ratio of signal lines suffices.
* `Observe` counts a skipped reason for a request without blocks, which `metrics.go:64` excludes, and
  `BlocksConsidered` counts more than its comment says (`compress.go:74`).
* `addPolicyAllows` puts its comma behind a trailing line comment (`edit_jsonc.go:262`), where it is part of the
  comment; `patchSection` drops comments between the managed section and the next table although
  `edit_toml.go:10` keeps them; a line of a TOML array that starts with `[` is taken for a table.
* `patchJSONC` replaces a text that ends in a bare `{}` by `{}`, so that the comments before it are lost (`edit_jsonc.go:325`), although
  everything else "stays byte-for-byte intact" (`edit_jsonc.go:10`). `UserKept` fails for that file without its exception.
* A managed TOML header with a comment behind it, or a root key in quotes, is not recognised (`edit_toml.go:48`, `edit_toml.go:80`): a second one
  is written, and the file does not parse.
* A token that comes without `expires_in`, or with one of zero or less, is kept for an hour (`auth.go:115`), also when it has expired, although "GetToken
  returns a valid access token" (`auth.go:51`); the 401 that follows asks for another one.
* An Anthropic upstream that sends its input count in `message_delta` only is accounted for it (`accumulator.go:360`), and the client of a
  chat stream is told zero (`anthropic_to_openai.go:59`, `:81`).
* Cache marks on system and developer messages (`anthropic.go:100`), tool messages (`openai_tools.go:358`) and OpenAI tool declarations
  (`openai_tools.go:434`) are dropped; `anthropic.go:31` explains why the mark of the system field must survive, which it does.
* `configure --discover` without a GPT deployment writes `model = ""`; choosing "1 1" interactively plans an
  agent twice; a choice of models replaces the `--models` override. A kill can leave the temporary file.

## Proofs

Each proof module states an inductive invariant `IInv`, proves `Init => IInv`,
`IInv /\ [Next]_vars => IInv'` by one step per action, and concludes with PTL.

* **DeploymentPoolProofs**: `TypeOK`, `OnlyRetiredBlacklisted`, `NeverRecalled`, `FailoverKeepsModel`,
  `FreshListStable`, `FailoverBlacklists`. `NeverRecalled` is not inductive: it needs that an instance a request tried
  has an entry on the blacklist while it counts as tried, and that a request about to call one
  that it tried has passed the scan of healthy instances since. `FailoverKeepsModel` needs that
  the name a request looks for has, after the first answer, the bare form of its instance's model;
  it rests on `DeployedNameAssumption`: a deployed name is no moving alias and `Normalize` keeps
  its bare form. `FailoverBlacklists` needs that only the request itself can end its call.
* **RequestProofs**, what the messages of a request become. `BreakpointsKept`, for conversations of any
  length in either protocol: the fold over messages is followed one message at a time, with what has been put out so far
  (`Out`) and the marks in it; then the marks are followed through the promotion of instructions, images, the system field and
  the mark the proxy puts on a tool. `TalkInv` says of every message what the handlers rely on (`Shaped`): its content is
  null, a string or parts, and calls have functions of `CallLists` (`CallListsAssumption`).
  `NothingLost`, for conversations of any length in either protocol and towards every upstream. The conversions to
  Bedrock and to Gemini are folds, so the result for a conversation that grows is one more step of the fold (`ConvertedStep`, `GeminiRunStep`). Three invariants
  beside `TalkInv` say what the handlers know then: `AwaitInv`, that the conversion to Bedrock knows every call that is open, by
  its id or, as long as no result came by id, in the queue of its function, and has said all that was said; `AnthropicInv`,
  the forms a turn of the Anthropic protocol takes (`AnthropicTurn`), from which each turn becomes messages that say
  the same (`Becomes`); `GeminiInv`, that the conversion to Gemini knows the functions of all ids that were used, unless it
  has met a part it refuses, so that it refuses for nothing else. The last one rests on `CallIdsAssumption`: the ids an
  upstream gives its calls are distinct and not empty. The texts of the Responses input are followed message by message
  (`CarriesBoth`), those of the Gemini contents along the fold, with the results that join the last content.
* **CapabilityFallbackProofs**: `TypeOK`, `MarksAreTrue`, `ServedWhenPossible`, `LiveMarkKept`. The invariant says
  of each worker what its place in the handler implies: what it has learned is true, a repeated
  request has dropped its field, and a Qwen request that was rejected twice cannot be served.
* **ResponseRoutesProofs**: `TypeOK`, `RoutesToOwner`, `CallsOwner`, `Bounded`, `RecentKept`,
  `DeletedComesBackByStreamOnly`. The invariant says
  for every stage of a request what its `dep` and `target` are; a call for a known response survives
  eviction and renewal because `owner` never changes once set. `RecentKept` needs that a route that is
  there is as old as the latest registration of its response, and that one which makes room is among the oldest.
  The last one needs that a response which is about to be registered for the first time is new: it was never
  deleted, has no route, and no other request knows its id.
* **CacheAttributionProofs**: `JudgedByPredecessor`, from the ownership of the lock between get and
  put; `DivergenceAddsUp`, for histories of any length, from the fact that the first message is
  part of the session key, so that a rewrite always has a predecessor of two messages or more;
  `BumpsKept`, for any finite set of requests: the counts plus the bumps that are under way are the number of busted
  requests of a session; `ClassifiedRight`, for histories of any length, from what one classification says of
  an observation and its predecessor.
* **StreamsProofs**: `EndTold`, `FailureCounted`, `UsageToldIsRecorded` and `ToolCallsWhole`, for every pipe, any numbers of
  frames, any token counts, any items and choices and any finite set of candidates. None is inductive, for each is
  about the request when it has ended. `IInv` says for every phase of the loop what may have been written (`Quiet`
  before the pipe has decided, `EndedOnce` afterwards), that the accumulator has noted a failure just when the pipe
  told one, and what the closures of the two pipes that judge completeness themselves know: which choices the upstream
  has finished, which candidates it began. Beside it stand two invariants that use it:
  `UsageInv` relates three records of the same counts, those of the closure, of the accumulator and of the last usage
  chunk, where the upstream keeps running totals; `ToolsInv` relates the calls the upstream sent, the closure's numbers
  (the current block of an Anthropic stream, the map from items to numbers of a Responses stream, the counts of Gemini
  candidates) and the positions of announcements and fragments in what was written. The proofs rest on
  `PipeAssumption` and `CandidateAssumption` (an answer has finitely many candidates).
  The last part is about `TokenCache`: `TokenTypeOK`, `OneExchange`, `CacheHitUnexpired`,
  `RejectedLeavesCache`. The third needs the relation of the two clocks, that for a token with a stated lifetime the client's view exceeds the
  endpoint's by at most the latency of the exchange, and the assumption `FetchTimeout < Margin` (30 s and 60 s).
* **CompressionProofs**: `TypeOK`, `MemoBounded`, `HistoryStable`, `BytesMoved`, and `MemoUnseen`, the refinement: every behaviour of
  `Compression` is one of `PureTransform`, so that hits, misses, concurrent fills and evictions cannot be seen.
  `IInv` adds that a remembered outcome is that of the transform for every text with its digest
  (`MemoTrue`), which rests on `TextsAssumption`, digests that are injective. `HistoryStable` needs a
  history of the settings at every change, which the invariant asserts to exist.
  `LogFaithful`, for output of any length and lines of any size and class: what a compression shows holds the lines it must keep and
  their context whatever the budget; the scan that finds tracebacks is followed line by line, so that one that begins at a header
  ends at its exception; markers stand for disjoint runs, so that their counts and the lines shown add up; and a text
  that would not get shorter is handed back unchanged. It rests on `LogAssumption` (the limits are numbers, and a
  stack keeps at most as many lines as it may have) and `DialectsAssumption` (a line has a size and is indented or not).
  The proof corrected the property twice. Two of its clauses held only because no dialect of the run was rich enough:
  a header that is indented itself goes on with the traceback it is found in (`log.go` takes every indented line as a frame), and indented lines
  count against the budget as lines that tell something. TLC refuted both old clauses once a dialect of `MCBodies` had such lines,
  and the run keeps that dialect.
  Here are also the theorems about the options of a request, which `Bodies` carries beside the messages:
  `ThinkingFits`, for any budgets, limits, default and headroom of which `BudgetAssumption` asks that every effort but
  "none" has a budget above zero; and `ChoiceSurvives`, for any functions with a name (`FunctionsAssumption`). Both
  follow from the options alone (`OptionsInv`): each declaration survives the way there and back
  (`DeclarationsSurvive`), and so does each choice (`ChoiceReturns`, and `ChoiceTold` for Responses and Gemini).
  `AnswersTold`, for answers of any length: the items of an answer, put into the form of each upstream, are selected,
  mapped and joined by the converters, and the proof moves each selection through each map (`PickFacts`, `FlatPick`).
  It needs no invariant but that an answer has only texts, thoughts and calls.
* **AgentConfigProofs**: `SavedFirst`, with the exceptions its comment names, for any editors, files, bounds and orders of edits: a run that is about to
  replace a file holds the content it read in a backup, and the name of a backup being written is new, or
  counted as used twice. `UserKept`, with its exceptions, for files of any length. `KeptInv` says that
  the disk holds only documents an editor can meet (`IsDocument`), that each change of the plan is what `Planned`
  makes of such a document, and that the change being applied is one of them; it needs the assumptions about
  `Found` and `Selections`, and that what a refused rename leaves half written is a document again. `PlannedKept` is the larger
  part, one argument for each editor. For `opencode.jsonc` it follows the places of tokens through each splice:
  the user's tokens stay in order, and a comma goes where members and commas still alternate (`SetInserts`). For
  `config.toml` it cuts the text at the managed section and at the first table: an entry stays in its table when
  what is joined behind it begins with a header (`EntriesJoin`, `ValidJoin`).
  `Settled`, from `SettledInv`: a file a run has been through holds what `Planned` made of some document. That such a
  text points to the proxy and is planned to stay as it is (`MadeSettles`) says that every editor finds what it wrote
  at the first place it looks. A JSON value merged twice is merged once. A member of `opencode.jsonc` that is set is
  the first of its name, and the other edits leave it so (`Says`, `SetSays`, `SetLeaves`); rules that allow both
  providers are left alone (`AllowedOnce`). In `config.toml` the managed section is the first of its name and
  ends at the next header, also after root keys were put before it (`Sectioned`), and the root keys are written over with
  themselves (`RootSettled`).

Induction over data is done with the instance of well-founded induction that takes a set (`NatSetInduction`), which
needs a lemma for every recursive operator of its own: sums in `CompressionProofs`, `FlattenSeq` and the positions of
a sequence that grows in `StreamsProofs`, the folds of the converters in `RequestProofs`, and the scan of a log in
`CompressionProofs`. Where the definitions of the community modules recurse over sets, the lemma unfolds that definition once
and the induction is over the size. To be reasoned about, definitions were written without `@@` and without
`SelectSeq` where the code allows it (`Over`, `PatchRoot`; `Select` of `ChatShapes` joins sequences of one element or
none), and the calls of a stream are described by the positions of their chunks. TLC takes the first arm of a CASE that is
true, but in TLA+ a CASE whose arms overlap may take any of them: the proof of `NothingLost` found such a CASE in `GeminiMessage`,
whose arms now exclude each other as the early returns of the code do.

Only model-checked:

* liveness (`Termination` of two runs, `RequestsEnd`), which with fairness and ENABLED is beyond the prover;
* `ToolTurnsWhole` of `bodies`, which relates every call to its result in the protocols of four upstreams at once: its proof
  would need, beside the invariants of `NothingLost`, where each result stands among the messages put out so far.

## What is not modelled, and the plan

In the order they would be added:

1. **Bodies**: a theorem for `ToolTurnsWhole`, on the invariants and the fold lemmas of `NothingLost`.
2. **Usage aggregates**: the sums of `Add` over concurrent requests, label caps, `observeJSON`, and the
   order of the attribution and usage middlewares.
3. **Catalogue**: the shape rules of `Normalize` as an operator that satisfies `DeployedNameAssumption`.
4. **Idle stream body** of the signed client, with its timer and cancellation.
5. **Abstract specifications**: a failover that only promises an instance of the model or an error, a
   register of owners, and a token service, with the modules above shown to refine them.
6. **Small bridges**: the GLM, Perplexity and Titan bodies, which copy fields, and the interactive selection of `configure`.

Left out for good: rendering (Prometheus text, dashboard, TUI, CLI), configuration loading, logging, and the
regular expressions that tell the classes of log lines and volatile prompt parts, which have no state and are
decided by their text.
