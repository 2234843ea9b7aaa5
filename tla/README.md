# Formal models of pricing-optimizer-api

TLA+ models of the service under `src/`, the TLC runs that check them on small
instances, and theorems about them that TLAPS checks for every value of the
constants. `PROJECT.json` holds the machine-readable side: the components, the
runs, a mutant of the code for every property, the source lines each definition
stands for, the findings, the hazards and the theorems.

    tlc -workers 2 -config generate_safety.cfg MCGenerateVariations
    tlapm GenerateVariationsProofs.tla

## The system

A Go HTTP service. A client analyzes a web site (`POST /v1/analyze`), asks for
one to three pricing-page variations of it, which are streamed to it as
server-sent events (`POST /v1/generate`), fetches the result later
(`GET /v1/generations/{id}`) and exports a variation (`POST /v1/export/{id}`).

| component | state | operations | hard because of |
| --- | --- | --- | --- |
| GenerateVariations use case | a `Generation`, slots of variations, the first error, one channel of events | `Execute`, `run`, `streamStrategy` | a goroutine per strategy and per adapter, unbuffered channels, a context that may be done at any step, two Saves |
| streaming LLM adapters | one channel of chunks per call, the tool call assembled so far | `StreamStructured`, `sendChunk`, `toolCallDeltas` | a call arrives in fragments; they stop without a word when the context is done |
| SSE handler | headers sent or not, mapping saved or not | `streamSSE`, `reportStreamErrorToSentry` | the client may leave, a write may fail, a stream may end before it begins |
| idempotency | one Redis key per client key or per content hash | `Reserve`, `Get`, `Save`, `Release`, `checkIdempotency`, `resolveIdempotencyConflict` | requests that race, Redis calls that fail after they were applied, TTLs, crashes |
| rate limiter | one Redis counter with an expiry per client IP | the EVAL script, `Allow`, `checkRateLimit` | window boundaries, rounding, EVAL errors |
| generation repository | the `generations` table | `Save` (upsert), `Get` | fails, applied or not |
| analyze use case, response cache, scrapers | a cache entry per URL | `AnalyzeSite`, `Scrape`, `ClassifySite` | two scrapers, timeouts, cache errors |
| reads and export | none | `GetGeneration`, `ExportVariation` | they read rows that are still streaming |
| a variation's mappings | none: decoding, validation, a JSONB column, two answers, three exports | `toDomainVariation`, `toAPIVariation`, `formatPrice`, `renderHTML`, `renderJSX`, `renderStripe` | written by hand side by side; nil and empty, cents, absent fields |
| content key | none: a hash of what was asked | `toGenerateVariationsInput`, `contentIdempotencyKey` | must tell apart what the prompt does and nothing else, across a profile's trip through the client |
| process lifecycle | the server, the pool, the Redis client | `main.run` | goroutines that outlive their handlers and the process |
| router, configuration, telemetry, generated code | none the system reads back | | |

How they interact. The handler calls `checkRateLimit`, then
`checkIdempotency`, then `Execute`, which saves the row as `streaming` and
starts `run`; `run` and its strategy goroutines send events on one unbuffered
channel that `streamSSE` reads; on the first event `streamSSE` maps the key to
the generation, and on every way out that leaves it unmapped it releases the
key. `run` saves the row a second time under a context that outlives the
request's. All of them share the request's context, which `net/http` cancels
when the client disconnects and when the handler returns.

What makes each correct:

- *generation*: the row is `completed` only with every variation; the client is
  told `done` only over such a row; no goroutine is left behind; a disconnect
  leaves a settled row.
- *stream*: the frames of a strategy are in order, nothing follows the verdict,
  one incident is one exception in Sentry.
- *idempotency*: a replay is of a completed generation; one handler owns the
  key; a reservation ends; a mapping does not answer 409 for ever.
- *rate limiter*: at most twice the limit in a window's length, no refusal that
  is not earned, a Retry-After that covers the window.
- *analyze*: an answer, cached or not, is an analysis of that URL that succeeded
  on a page worth classifying; an error names who failed, and that is never the
  cache; a client that leaves takes its handler with it.
- *adapters*: the tokens are the text that is decoded; the end of a stream says
  what `GenerateStructured` would have; nothing follows it.
- *reads and export*: an answer is whole or empty as its status says, an export
  is of a completed row, and no answer takes back what another said.
- *mappings*: every view of a variation shows the same offer, to the cent.
- *content key*: one key for one question to the model.
- *lifecycle*: success that was told outlives any end of the process; a clean
  stop cuts off no one who stayed; every row left in streaming has its cause.

## Modules

| module | what it is |
| --- | --- |
| `GenerationRecord` | what `POST /v1/generate` promises from outside: a row and an outcome |
| `RunStages` | the life of one run goroutine and the row it leaves, as those who start it count on it |
| `GenerateVariations` | one generation in full: handler loop, `run`, strategies, adapters |
| `GenerateVariationsInvariant` | its inductive invariant, in named parts |
| `GenerateVariationsProofs` | the theorems about it |
| `MCGenerateVariations` | its TLC instance (symmetry of the strategies) |
| `IdempotentGenerate` | several requests with one idempotency key |
| `IdempotentGenerateProofs` | the theorems about it |
| `MCIdempotentGenerate` | its TLC instance (symmetry of the requests) |
| `ChunkStream` | what a streaming adapter's channel promises whoever reads it |
| `ToolCallStream` | one `StreamStructured` by events and fragments |
| `ToolCallStreamProofs` | the theorems about it |
| `ReadGeneration` | readers of one generation while it is written |
| `ReadGenerationProofs` | the theorems about it |
| `Offer` | one variation from the tool call to the views made of it |
| `OfferProofs` | the theorems about it |
| `MCOffer` | its TLC instance: the tool calls |
| `ContentKey` | a profile's way to the prompt, and the keys of requests without one |
| `ContentKeyInvariant` | its inductive invariant, in named parts (the theorems are in `IdempotentGenerateProofs`) |
| `MCContentKey` | its TLC instance: what requests ask |
| `Service` | the process, its resources and the generations in it |
| `ServiceProofs` | the theorems about it |
| `RateLimiter` | the callers behind one client IP, with Redis's clock |
| `RateLimiterProofs` | the theorems about it |
| `AnalyzeSite` | several requests for several URLs, with their cache and scrapers |
| `AnalyzeSiteProofs` | the theorems about it |

### GenerateVariations

One process per goroutine, each with a program counter: `run` (`execute`,
`started`, `wait`, `save`, `report`, `returned`), `worker[s]` for
`streamStrategy`, `adapter[s]` for the goroutine of `StreamStructured`, and
`handler` for `streamSSE`. A send on an unbuffered channel and its receive are
one step: `Send`, `FanOut` and `Report` use `Receive`, `TakeChunk` takes what
the adapter offers. Every `select` against `ctx.Done()` is a second action with
the guard `ctxDone` (`GiveUp`, `AbandonStart`, `DropReport`, `StopSilently`,
`HandlerReturns`). `db` is the row, `gen` the local `Generation`, `variations`
and `firstErr` what the closures of `run` share under their mutex. Each Save
has a failing twin that may or may not have been applied (`CreateFails`,
`SaveTerminalFails`). `input` says what is wrong with the request or its
connection: refused by `Validate` (422), a currency that only the adapters
check, a `ResponseWriter` that cannot flush. `input.stays` says of the client
that it will stay: a choice made in `Init` that `Disconnect` and `WriteFails`
keep to, so that `ClientIsTold` can demand a verdict for such a client and
accept nothing in its stead.

Abstracted: the text of deltas and variations (a chunk has a type and an
error), errors down to nil, canceled and anything else, which is all that
`mapGroqError` and `reportStreamErrorToSentry` tell apart between them. A worker
whose `setVariation` or `recordErr` and the following send are separated by the
mutex only is one step up to its offer. The two adapters are one machine; they
differ in how they read deltas from their SDK.

Properties: `CompletedIsWhole`, `DoneIsBacked`, `StrategyInOrder`,
`SentryOnce`, `SentryIsFailure`, `NothingAfterVerdict`, `ImplementsRecord`
(refinement of `GenerationRecord`: `db` is the record, the last aggregate frame
the outcome), and under fairness `NoGoroutineLeaks`, `DisconnectSettles`,
`ClientIsTold`. Two more are established by proof alone: `StuckHasItsCause`,
why a row may be left in `streaming`, and `Stages`, the refinement of
`RunStages`.

`RunStages` is what the next two modules that have generations need of this one:
`none`, `offering` generation_started, `working`, `completing` or `failing` from
the decision to the terminal Save, `ended`; which of these steps writes the row
and with what; and which of them a context that is done forces. Its constants
say whether a Save may fail and whether the process may end under the goroutine.
`GenerateVariations` implements it with its strategies and adapters in the stage
`working`, `IdempotentGenerate` and `Service` with every generation they have,
so the stages those two work with are the ones this module's goroutines go
through.

### IdempotentGenerate

`key` is the value in Redis: free, the pending sentinel, or the id of a
generation, named by its request. `writer` remembers who wrote it, which Redis
does not know: only properties, and the guard of `Expire`, read it. `pc[r]`
steps through the store calls of the handler, and `run[r]` through the stages of
the run goroutine that `GenerateVariations` models in full. A call under the
request's context fails once that context is done (`StoreMayFail`,
`RepoMayFail`), possibly after it was applied; mapping and release run under a
context of their own and fail only with the store. `claim[r]` tells apart a
handler that won the key from one that goes on without it (`bypass`), which the
code does when Reserve errs, when the key has gone since, and when the mapped
generation is failed, missing or unreadable. `Crash` ends a handler and its run
goroutine where they are. `Expire` is the TTL, which is hours long (24 h in the
deployment, against a stream of minutes), so it waits until the handler that
wrote the value has ended; the run goroutine of that handler may still be
working. Each request's row implements `GenerationRecord` (`Record`, where the
word of success is a replay), and each goroutine `RunStages` (`Run`).

Not in this module: a writer that cannot flush, which ends a handler before the
first event without a disconnect (it is in `GenerateVariations`), and requests
without a store, which the deployment does not have.

### RateLimiter

Redis runs the script whole and its clock stands still meanwhile, so INCR,
PEXPIRE and PTTL are one step. `count` and `expires` are the key, `allowed`,
`opened` and `refused` a log the code does not keep, which the properties read.
A counter above `Limit + 1` is not told apart from `Limit + 1`. Redis's clock
does not run backwards here and Redis evicts no keys. The window is a whole
number of milliseconds, as `Milliseconds()` makes it, and may be 0: PEXPIRE then
deletes the key (`Kept`). Redis keeps a key through the millisecond it expires
in, so PTTL may be 0 and is never negative there, which is why the script's
guard against a negative answer is not an action.

### AnalyzeSite

`stage[r]` is where the handler is, from the rate limiter to the answer: the
lookup, `validateAnalyzeURL`, the static fetch, the browser, `ClassifySite`, the
save. A call of a dependency is the step in which it returns, with an action per
outcome; under a context that is done it returns an error. `page[r]` and
`profile[r]` are the locals of `Execute`; a profile is told by the request whose
analysis made it, so a cached one remembers its author. `failed`, `saved` and
`served` are history that only the properties read. `cache[u]` is the Redis key
of a URL, with the moment it expires; `now` is the clock.

Abstracted: a URL is one that `validateAnalyzeURL` accepts or not; a page is
known by its scraper and by whether its text reaches `minStaticTextLength`;
refused addresses, timeouts and empty pages are one error of a scraper; the
provider's errors, which all answer 500, are one. A SET that fails is applied at
once or never. The handler without a cache, which the deployment does not have,
is left out, and so is what a 500 or 502 reports to Sentry.

Properties: `AnswersAreAnalyses`, across the requests that share the
cache; `FailureHasItsCause`; `ServedWithinTtl`; and `DisconnectEnds`.

### ToolCallStream

The goroutine of one `StreamStructured`. The tool call's text is the pieces 1 to
`Pieces`; an event of the provider (`NextFragments`) carries up to `PerEvent` of
them, one for Anthropic, several for Groq, or none that matters (`NextIdle`: no
choice, a ping, an empty delta). `TakeFragment` appends a piece to the text
before `SendToken` relays it; `GiveUpToken` and `GiveUpTerminal` are the other
branch of `sendChunk`. `NextFalse` ends the stream whole, cut short or with an
error, and `Verdict` looks at the error before it decodes. `Structured` is what
`GenerateStructured` makes of the same response, its errors included.

Left out are several calls in one response and a call of another tool, which
`decodeGroqToolCall` and `decodeAnthropicToolUse` pass over by name and the
streams do not look at: both requests force the choice of the one tool
(`newParams`), which the comments on `toolCallDeltas` and `inputJSONDelta` name as
what the streams rely on. Were a provider to ignore it, the two ways could
differ, and `SameAsStructured` says nothing of that.

`ChunkStream` is the promise to the reader: tokens in order, at most one
terminal chunk and nothing after it, a variation only after all of its text, and
no terminal chunk only when the context is done. `KeepsPromise` is the
refinement. `ports.go` promises more, which is among the findings. `GenerateVariations`
reads channels that keep this promise; its adapters have the same steps with the
fragments abstracted to a number of tokens.

### ReadGeneration

The writer is `Execute` and `run` by their two Saves and the three kinds of event
that show the generation: `SaveNew`, `Start` (generation_started, "streaming"),
`SaveTerminal`, `Tell` (done or error, with the status the row was given). Each
Save has a failing twin; an error after a failed terminal Save shows no
generation (`SaveTerminalFails`). `GiveUp` is a `send` that found the context
done. The row is its columns (`Upsert`, `Column`), so that null and the empty
array are what the code makes of them. Each
client sends one request at a time, well formed or not: `Refuse` is what the
generated wrapper and the handlers refuse, `GetFails`, `GetMisses` and
`GetFinds` are `repo.Get`, and what was loaded is answered in a later step, when
the row may have changed. `told` and `knows[c]` are history: what the stream
has shown last, and what a client knew when it asked. A variation goes by the
strategy it was generated for, its id being given once and stored with it.

Properties: `ReadIsWhole`, which the proofs alone establish, `ExportIsBacked`
and `ToldStaysTrue` (what the stream, a GET or an export said is not taken
back). Nothing here is under fairness: a query ends when it ends.

### Offer

One tool call becomes a variation (`toDomainVariation`), is validated, streamed,
saved as JSON (`Marshal`), read back (`Unmarshal`) and shown to five readers: the
event of the stream, the answer of GET, the HTML page, the JSX component and
the Stripe table. A page is a sequence of elements with a tag and a text, in the
order the template writes them; a price's text is its parts, digits of the cents
included. An optional JSON field is `<<>>` or its value in a sequence of one, a
slice says whether it is nil. `ReadPrice` reads a text back as a person does, and
`PricesAgree` compares it with what Stripe would charge.

Abstracted: escaping, layout, class names that do not vary, ids, the strategy,
file names. `strings.ToLower` is a constant function. The code formats an amount
as a float with two decimals, which is exact up to far beyond any price here;
it counts every currency in hundredths, zero-decimal ones included, as does the
model: what Stripe makes of those is not a question the code answers.

`PriceFaults` says where a price leaves `openapi.yaml`: its amount, its currency
or its interval. `Validate` looks at the amount and the interval of a price
without a label, at no more of its currency than that there is one, and at
nothing of a labelled price. `OnlyPricesLeaveTheSchema` is what is left of "an
answer is in the schema's form" then, and the two findings on `Offer` what is
not: `ContractAccepts` and `UnlabelledAccepted`.

### ContentKey

Requests come one by one, each in one step with its lookup, since
`IdempotentGenerate` has their interleavings. A client has a site analyzed, is
answered a profile (`toAPISiteProfile`), and sends it back as it is, with empty
values in place of absent fields, or without its url (`Spellings`), with
strategies and a currency that may be left out. `KeyOf` is the client's own key or
the content key, which stands for its hash: SHA-256 does not collide here.
`Prompt` is what of a request reaches the model. `kept` remembers with each
mapping, as history, what the request for it said.

`ReplayIsWhatWasAsked` is the side of a key that covers too little,
`ResendIsReplayed` that of one that covers too much, `AnalysisIsWhatIsPriced` the
profile's round trip. Observations that are not properties: the lookup comes
before validation, so a request that would be refused, its strategies doubled,
is replayed if a client's own key is mapped; and keywords that are absent and
keywords that are empty give two keys for one prompt, which `Said` allows for.
Requests whose generation fails leave nothing to replay and are left out.

### Service

`run` of `main.go`: `acquired` is its stack of defers, `Acquire` puts telemetry,
the pool and the Redis client on it, and every way out (`ConfigFails`,
`WiringFails`, `ServeFails`, `ShutdownDone`, `ShutdownTimesOut`) gives them back
last in first out. `open` says that the server may have connections, which
outlives `run`'s wait for them: a request may still arrive while `Shutdown` waits
(`Request`), and a handler goes on when `Shutdown` has timed out or `Serve` has
failed. `ShutdownTimesOut` needs no generation, since a handler of any other
route holds `Shutdown` up as well. `HandlerGivesUp` is a write that fails.
`pool.Close` gives out no more connections and waits for those
that are out (`PoolCloses`, `PoolClosed`). A generation is here its two Saves,
each of which takes a connection (`TakeConnection`) and may fail; the first runs
under the request's context, the terminal one under none that is ever done.
`Kill` is SIGKILL, the platform, or a panic in a goroutine, which has no
`Recoverer` above it; a query that is under way then has been applied or not.
`Restart` starts an instance over the same rows. `row` and `failed` are history
in that the process does not keep them. Across restarts each generation's row
implements `GenerationRecord` (`Record`) and its goroutine `RunStages` (`Run`),
the boot that has it ending being that goroutine's crash.

Properties: `ResourcesOutlastTheirUsers` (the order of `Shutdown` and of the
defers: until `run` gives up on its handlers they have Redis and their Saves the
pool, and a query that is under way has the telemetry its tracer reports to
even then), `CleanStopSparesWhoStayed`, `DoneIsDurable`,
`StuckHasItsCause` (the complete list of why a row may stay in `streaming`), and
`StopEnds`, for which a query that was sent has to return: nothing in the code
bounds the terminal Save's.

## Runs

| run | instance | states | shows |
| --- | --- | --- | --- |
| `generate_safety` | 3 strategies, 1 delta each, Saves may fail | 903 000 | the safety properties and the refinement of `GenerationRecord` |
| `generate_liveness` | 2 strategies, Saves do not fail | 60 000 | goroutines end, rows settle, clients are told |
| `generate_early_disconnect` | 2 strategies, Saves do not fail | | the first finding, below |
| `idempotency_faults` | 3 requests, every fault | 1 810 000 | replays, single ownership |
| `idempotency_reliable` | 2 requests, Redis may fail but for the release, expiry | 37 500 | mappings settle, reservations end |
| `ratelimit_windows` | limit 2, window 3, second 2, 8 ms, 6 calls | 1 940 000 | bursts, refusals, Retry-After |
| `analyze_faults` | 2 requests, an accepted and a refused URL, TTL 2, 3 ticks | 101 000 | cache, blame, TTL, handlers that end |
| `read_faults` | 2 strategies, 1 client with 3 requests, Get may fail | 69 000 | what readers are answered around two Saves |
| `offer_views` | 234 tool calls, of 0, 1, 2, 5 and 6 tiers | 5 800 | five views of one offer |
| `service_stops` | 2 generations, 2 boots, queries may fail | 320 000 | stops, kills and restarts |
| `stream_fragments` | 5 pieces, up to 3 an event, 2 idle events | 1 130 | fragments, verdicts, the channel's promise |
| `content_key` | 12 profiles, 8 asks, 3 headers, 2 keys kept | 103 000 | keys, resends, the profile's round trip |

Bounds. Three strategies are all the service knows (`maxStrategies`), so the
safety run is exact in that respect; two are enough for liveness, where a
second strategy already shows one that blocks while another goes on, and
liveness allows no symmetry. One delta per stream (`MaxTokens`) separates a
first chunk, a chunk after a chunk, and a terminal one; more deltas repeat the
same loop. Three requests are an owner, one that overtakes it and one that is
misled by both. Six calls let a limit of two fill a window, be refused, fill the next
and go past twice the limit; eight milliseconds hold two windows and the
millisecond that both share. Two requests for an analysis are one that fills the cache and one
that finds it, or two that race to fill it, and three ticks outlast a TTL of two;
the theorems cover any number of both. 
One client that reads three times sees the row before, between and after the
Saves in any order, and clients share nothing but the row; two strategies make
"all" and "one" different. The tool calls of `offer_views` take one tier through every
combination of a price that is negative, zero, below ten cents, without and with
one or two decimals, and of optional fields, and the number of tiers to both
sides of its limits. Two generations are one whose client stays and one whose client
leaves, in one process or one after the other. Five pieces in events of up to three
split unevenly in every way. Two kept keys are the least that can be one too
many. Every bound is a guard on an action of the
environment, never on one of the program. `CHECK_DEADLOCK` stays on: a state in
which everything has ended has the step `Rest`, so any other state without a step
is reported.

Fairness. `FairSpec` of `GenerateVariations` has the Go scheduler run every
goroutine that can proceed, `select`s included, so the process is assumed to
keep its CPU. A model never has to answer and a client never has to read, but
once the context is done the SDK's read and the write to the connection return.
`ClientIsTold` adds, as its hypothesis, models that answer, a client that
reads, and that it stays: what ends its wait is a verdict, not the end of the
context, which the server brings about itself when the handler returns. `ThrottledSpec` is the same scheduler as Cloud Run grants it without CPU
always allocated: only while the handler has not returned. `FairSpec` of
`IdempotentGenerate` has handlers and run goroutines proceed (Redis calls are
bounded by a timeout or a context, a model answers or its client leaves) and a
request's context end once its handler is over. A request may never arrive.
`FairSpec` of `AnalyzeSite` has handlers proceed through Redis calls and scrapes,
which have timeouts, but leaves out the provider's answer: `ClassifySite` has no
timeout of its own, so `DisconnectEnds` rests on the request's context alone.
`FairSpec` of `ToolCallStream` runs the goroutine and ends the provider's stream once its
context is done; neither the provider nor the reader has to go on. `FairSpec` of
`Service` has `run` go on, the timer of `Shutdown` fire and a query that was sent
return; no client has to leave and no generation to make progress.

## Findings

A run of its own shows the first:

1. *A disconnect before the first event leaves the row in streaming*
   (`generate_early_disconnect`, `EarlyDisconnectSettles`). `run` returns from its
   first `send` without a terminal Save (`generate_variations.go:92`), against the
   comment on `Execute`.

The others are further places where the code and what is written about it part.
Each has a property that says what is written and a configuration with which TLC
finds it violated; none of them is among the runs above.

| configuration, module | property | what the code does |
| --- | --- | --- |
| `generate_throttled`, `MCGenerateVariations` | `DisconnectSettles` | The terminal Save is left to a goroutine that outlives the handler, while the repository documents that Cloud Run gives CPU only to requests in flight: what holds under `FairSpec` fails under `ThrottledSpec`. |
| `idempotency_release`, `IdempotentGenerate` | `ReleaseDeletesOwn` | A request releases a key it does not own, against the comment on `Release` that justifies its plain DEL. Until a handler goes on without the key it holds (`ReleasesOwnUnlessBypassed`). |
| `idempotency_retry`, `IdempotentGenerate` | `OneStreamPerKey` | Two requests with one key stream at once, against the comment on the store and the API description; the code calls the path narrow. Until a handler takes it the property holds (`OneStreamUnlessBypassed`). |
| `service_clean_stop`, `Service` | `CleanStopSettles` | `Shutdown` waits for connections and not for run goroutines (`main.go:143`), so the terminal Save of a client that left may find the process gone, against the comment on that Save. |
| `read_missing_id`, `ReadGeneration` | `MissingIdIsRefused` | A missing variationId is 404, not 400: it decodes to the nil UUID, never to the empty string `Validate` tests for. |
| `offer_contract`, `MCOffer` | `ContractAccepts` | With a custom label any amount, currency and interval pass (`variation.go:52`), and are answered outside the contract. |
| `offer_currency`, `MCOffer` | `UnlabelledAccepted` | Without one, any currency that is not empty passes (`variation.go:53`), "usd" say, which the contract refuses (`openapi.yaml:440`). |
| `stream_unterminated`, `ToolCallStream` | `ClosedAfterTerminal` | A channel closes without a terminal chunk when its context is done, where `ports.go` promises exactly one; the consumer knows. |
| `ratelimit_retry_now`, `RateLimiter` | `RetryIsLater` | Retry-After is 0 in the millisecond a key expires in, where a comment says that it never is. |
| `ratelimit_submillisecond`, `RateLimiter` | `FewPerMillisecond` | A window below a millisecond limits nothing, though `validate` accepts it. |

## Proofs

`GenerateVariationsProofs`, for any set of strategies, any bound on deltas and
a repository that may or may not fail: `Typing`; `Invariance` of `IInv`; from
it `CompletedIsWholeHolds`, `DoneIsBackedHolds`, `SentryOnceHolds`,
`StrategyInOrderHolds`, `SentryIsFailureHolds`, `StuckHasItsCauseHolds`,
`NothingAfterVerdictHolds`, and the refinements `Refinement` and
`StagesRefinement`. None of these properties is inductive: what the client has
read depends on what an event in a goroutine's hand says, and that on what the
adapter offered. `IInv` has one named part per reason. `FanInv` says when
workers exist; `EventInv` who an event speaks for; `ErrorInv` that an error is
in `firstErr` before anyone hears of it; `SlotInv` that an empty slot is given
up only with an error or a done context; `RowInv` ties the row to the local
generation; `DeliveryInv` says that a variation that counts has been handed
over unless the context is done; `VerdictInv` that the verdict is the last act
and is backed; `OrderInv` that a worker still holding an event has written no
result, so the result is last when it comes, and only the announcement is
first; `BlameInv` that what Sentry was told of is in `firstErr` or is the
terminal Save's; `StuckInv` what a goroutine that has returned leaves behind.
Each part has a lemma of its own, which looks only at the actions that touch
it.

`IdempotentGenerateProofs`, for any number of requests and any combination of
faults: `Typing`, `ReplayIsCompletedHolds` (a settled row never changes, because
each row has one writer), `OneOwnerUnlessBypassedHolds` (the owner's sentinel or
mapping stays until it is done) and `MappedWillSettleHolds`. From the same
invariant, `OneStreamUnlessBypassed` and `ReleasesOwnUnlessBypassed` say how far
two of the findings reach: both hold until a handler goes on without the key.
`RowsFollowRecord` and `RunsHaveStages` are the refinements, one request at a time,
with the steps of all others as stutters.

The same module holds the theorems about `ContentKey`, for any profiles and
requests (it extends both, whose definitions share no name): `ContentTyping`,
`ReplayIsWhatWasAskedHolds`, `AnalysisIsWhatIsPricedHolds` and
`ResendIsReplayedHolds`. `ContentKeyInvariant` says what a client holds of its
analysis (`HeldInv`) and what each kept mapping was made for (`KeptInv`): a
generation under a content key is the prompts of its strategies, so a request
with that key asks the same. A sorted list is modelled as the bag of its
elements, which is what sorting leaves of a list.

`RateLimiterProofs`, for every limit and window: `Typing`,
`BurstAtMostTwiceHolds` (for a window that is not 0, which it assumes), by an
invariant that places the calls of the current window and of the one before;
`RefusalIsEarnedHolds`, by one that counts the logged calls of the key's window;
and `RetryAfterCoversHolds`.

`AnalyzeSiteProofs`, for any number of requests and URLs and any TTL: `Typing`,
`AnswersTraceToAnalyses`, `StatusTellsCause` and `CacheHonoursTtl`. A cached
profile says nothing of how it was made, so the invariant follows its author:
`StageInv` says what a handler has behind it at each stage, `AnalysisLasts` that
an analysis and the moment it was saved never change again, and `EntryInv` ties
an entry's expiry to that moment. Every entry and every hit then inherits what
holds of the request that saved it.

`ToolCallStreamProofs`, for a call of any length in events of any size: `Typing`,
`TokensAreTheTextHolds`, `SameAsStructuredHolds` (whatever ends the response) and `PromiseKept`, the refinement
of `ChunkStream`. The invariant is a ledger: what is left of the event follows
what was received, and both together are what the provider has sent.

`ReadGenerationProofs`, for any strategies, clients and requests: `Typing`,
`ReadsAreWhole`, `ExportsAreBacked` and `WhatWasToldStaysTrue`. The row has three
shapes, which go with where the writer is, and the verdict's is its last
(`RowInv`), so what a handler has loaded is the row or what it was before.

`OfferProofs`, for any tool calls: `Typing`, `AnswersAgreeHolds`,
`OnlyPricesLeaveTheSchemaHolds`, `PricesAgreeHolds` and `PagesShowTheAnswerHolds`. Each
view is a function of one variation (`ViewInv`), the column gives back what it
was made of (`SliceRoundTrip` and the lemmas on it), and a price's text reads
back as its amount, by division and remainder. What a page shows under a tag
(`Shows`) is given by the positions of the elements with that tag, so that a
page put together from parts shows what its parts show (`ShowsConcat`).

`ServiceProofs`, for any number of generations and boots: `Typing`,
`ResourcesOutlastTheirUsersHolds`, `CleanStopSparesWhoStayedHolds`,
`DoneIsDurableHolds`, `StuckHasItsCauseHolds`, and per generation
`RowsFollowRecord` and `RunsHaveStages`. `GenInv` ties each row and verdict to
where its handler and goroutine are; `ProcInv` says that the server has
connections only while `run` holds all its resources or has given up, and that
a handler needs one; `ConnectionsHaveAPool` that `pool.Close` waits.

The assumptions are the named ones on constants, evaluated by TLC in every run.
`TypeOK` of each of these modules is part of its inductive invariant and is
established by `Typing` (`ContentTypeOK` of `ContentKey` by `ContentTyping`),
so the runs do not repeat it.

Every safety invariant and action property of the runs is a theorem. Only
model-checked is liveness, since the prover has no rule for `WF` and `ENABLED`:
`NoGoroutineLeaks`, `DisconnectSettles`, `ClientIsTold`, `ReservationEnds`,
`DisconnectEnds`, `StopEnds` and `CancelCloses`. What only the proofs establish,
no run having it: `StuckHasItsCause` of `GenerateVariations`, the refinements of
`RunStages`, those of `GenerationRecord` by `IdempotentGenerate` and `Service`, and
`ReadIsWhole`. TLC checks one of these refinements, on the instance of any run of
its module, as the property `[][\A r \in Requests : Run(r)!Next \/ UNCHANGED
Run(r)!vars]_vars`, say.

## Not modelled

- The router and its third-party middleware: the client IP, whose derivation from
  the proxies' headers is the middleware's, is the rate limiter's key and taken as
  given; CORS, request ids and spans have no state.
- The browser and HTTP drivers behind the scrapers and the check of addresses: a
  scrape is a page or an error, and which address is refused is not told apart.
- Configuration beyond what `validate` guarantees of the limit and the window, and
  that it may fail; telemetry beyond its place among the defers and the number of
  exceptions a request reports.
- The wording of prompts, the SDKs' requests, generated types and routing; escaping
  and layout of exports. They are data or text that no other step reads.
- Postgres and Redis themselves, beyond an upsert or a command that is applied
  whole, or not, and may report an error either way.

## Plan

1. `AnalyzeSite` over a page that changes, and a third request that overwrites an
   entry, to say how old an answer may be.
2. The derivation of the client IP from trusted proxy hops, composed with
   `RateLimiter` for several callers.
