# inf-api: TLA+ models, checks and proofs

inf-api is a gateway: clients speak the Anthropic or OpenAI message API to it,
and it forwards each request to one of several upstream accounts, of the
providers Puter, Codebuff and Kimchi. Its own logic is the *choice* of an
account, the *retries* on other accounts, the *state* of accounts (cooldowns,
tokens, quotas), the *suppression of duplicate* requests, and the *conversion of
event streams*. This directory models that logic in TLA+, checks it with TLC and
proves part of it with TLAPS.

Paths below are relative to the repository's root. `PROJECT.json` maps every
definition to the lines it stands for, and lists the hazards with the properties
that watch them.

1. [Inventory](#1-inventory)
2. [Plan](#2-plan)
3. [The modules and the code](#3-the-modules-and-the-code)
4. [Runs](#4-runs): what is checked, bounds, fairness
5. [Proofs](#5-proofs)
6. [Where the code and its documentation part](#6-where-the-code-and-its-documentation-part)
7. [What is not modelled](#7-what-is-not-modelled)

## 1. Inventory

### How a request flows

```
client --> handler.HandleMessages
             | DedupStore.Register (exact key, semantic key)
             | LoadBalancer.GetNextAccount...  <-- cached list <-- Store (Redis)
             | ConnTracker.Acquire
             | SendRequestWithPayload --> Puter client --> events --> streamHandler
             |   on error: classify, MarkAccountStatus --> Store.UpdateAccount
             |             release, select another, back off, again
             | deferred: ConnTracker.Release, DedupStore.Finish, recover
background: token refresh loop, admin session sweep, daily reset of Codebuff quotas
admin API:  accounts, models, model refresh, keys, configuration
```

Only `/puter/` channels go through the run loop of `HandleMessages`;
`/codebuff/` and `/kimchi/` go through `handlePassthroughProvider`, a second
loop with rules of its own.

### Components

| Component | Source | State | Operations | What is hard | What makes it correct |
|---|---|---|---|---|---|
| Request dispatch loop | `internal/handler/handler.go` | locals of one request; shared: dedup keys, connection counters, availability | admit, select, acquire, call, mark, switch, retry, back off, end, unwind | interleaved requests, panics, disconnects, early returns | nothing leaks; one answer; no retry after output; no refused account twice; ends |
| Error classes | `internal/errors/classify.go` | none | classify, mark | order of overlapping markers | the loop's two decisions agree with the tables |
| Dedup store | `internal/handler/dedup_store.go` | per key: last time, in-flight count | Register, Finish, cleaner | late clocks, key expiry, failing scripts | count exact; accepted requests a window apart |
| Connection tracker | `internal/loadbalancer/conn_tracker.go` | a counter per account | Acquire, Release, GetCount | lost updates in the CAS loop | atomic counter |
| Account cache and cooldowns | `internal/loadbalancer/loadbalancer.go` | cached list, shared `Account` objects | list, singleflight reload, mark, clear | stale list, objects shared by pointer | a mark is neither lost nor eternal |
| Account records | `internal/store/redis_store.go` | one JSON value per account and an id set | create, get, read-modify-write update, delete, counters | lost updates, revival of a deleted account | updates never undo a newer decision |
| Token refresh loop | `cmd/server/background.go` | a snapshot of accounts | refresh, mark, write back | stale snapshot | newer status kept |
| Account admin API | `internal/api/api.go` | none of its own | check, edit, delete, create, import | concurrent with all of the above | as above |
| Stream handler | `internal/handler/stream_handler.go` | blocks, tool calls, buffers, usage | one handler per event, finish, reset | event order, repeated text, write errors, retries | a stream a strict reader accepts, one end, the same answer in both modes |
| Tool calls | `internal/handler/stream_handler.go`, `internal/toolname/` | effects asked for in this reply and before | rename, rewrite paths, filter | invented paths, repeated side effects | writes stay in the project; nothing dropped that was not done |
| Passthrough loop | `internal/handler/handler.go:1418` | locals of one request; affinity | as the dispatch loop, on raw frames | retry after a partial body, errors after the headers | one attempt reaches the client; every end is told |
| Codebuff provider and sessions | `internal/codebuff/provider.go`, `session.go`, `client.go` | a cached session and a lock per model | look up, create, poll, evict, one more cycle | lock expiry, sessions taken away by another model | an undisturbed request succeeds |
| Codebuff quotas | `internal/codebuff/quotastore.go` | blocks and snapshots with expiry | record, select, clear daily, clear orphans | stale scans, day boundaries | a refused model waits; figures are of today |
| Codebuff telemetry | `internal/codebuff/telemetry.go` | counters by minute and in total, recent times | record, sum over a range | expiry, the first minute of a range | figures neither invented nor missing |
| Codebuff runs and ads | `internal/codebuff/runs.go` | two upstream runs | start, book steps, finish, show ads | goroutines before and after the chat | a run is finished with all its steps |
| Puter client | `internal/puter/client.go` | none | build request, parse reply, emit | calls hidden in text, broken streams | a reply whole or not at all |
| Kimchi client | `internal/kimchi/` | none | one call, copy frames | | errors reach the passthrough loop |
| Model records and refresh | `internal/store/`, `cmd/server/model_refresh.go` | records, two indexes, the ids | create, update, delete, repair, discover, apply | several calls per change | what is listed is found |
| API key records | `internal/store/`, `internal/api/api.go` | records, ids, index of hashes | create, enable, delete | a deletion between a read and a write | list and index agree |
| Sessions (workdir) | `internal/handler/session_store.go`, `utils.go` | a directory per conversation | get, set, delete, expire, evict | overlapping requests of a conversation | the directory is the one named last |
| Prompt cache | `internal/tokencache/prompt_cache.go` | entries with expiry, a size | check, renew, store, evict, prune, clear | found under one lock and renewed under another | what is billed as read was billed as written |
| Client cache, session registry, estimate cache | `internal/handler/`, `internal/loadbalancer/`, `internal/tokencache/` | bounded maps | get, set, sweep | | |
| Concurrency and rate limits | `internal/middleware/` | weighted semaphore, buckets | acquire with a deadline, release | adaptive wait, cancellation | permits conserved |
| Breakers, retry transport | `internal/upstream/` | breakers by name | get, sweep, call | | |
| Configuration | `internal/config/`, `internal/api/api.go` | one shared pointer | read, overwrite | overwritten in place | readers see one version |
| Admin sessions | `internal/auth/`, `internal/middleware/session.go` | tokens with expiry | create, validate, sweep | | expired tokens refused |
| Adapters, prompts | `internal/adapter/`, `internal/prompt/` | none | convert | | |
| Logging, metrics, audit, UI | various | output only | | | |

Some parts are written but not wired into the server: tiered selection
(`internal/loadbalancer/tier.go`) and `markAccountStatus`, called by tests only;
the Redis connection tracker (installed in the load balancer, while the handler
counts in a memory tracker of its own); the session registry, the map of account
breakers and the rate limiter; `Spec.Pipeline`; Kimchi's `completeUpstream`,
`SendJSON` and `ClassifyError`; the client-side stream parser of Codebuff
(`StreamParser`, `CompletionAccumulator`) and its daily counters, which are written
and never read; the API keys themselves, which no request is checked against
(`GetApiKeyByHash`, `UpdateApiKeyLastUsed`); the conversation id of a session
(`GetConvID`); `internal/openai`, imported by nothing.

The full list with the status of each part is `components` in `PROJECT.json`.

## 2. Plan

The order is that of the consequences for a client: first the loop that calls
the upstreams and spends money, then the state it is decided from, then the
providers, then the stream, then the records and background jobs.

| # | Modules | Abstract specification | Runs | Theorems | State |
|---|---|---|---|---|---|
| 1 | `ErrorClasses`, `RequestLoop` | | `accounts`, `dedup`, `ends` | types, phases, connections, keys, refusals, answers, attempts, output | done |
| 2 | `ConnTracker`, `MemoryConnTracker` | `ConnTracker` | `components` | types, counters, refinement | done |
| 3 | `DedupStore` | | `components`, `dedup_redis` | types, exact count in memory, no count invented in either, accepted requests apart | done |
| 4 | `AccountState` | | `account_*` | `RevivedOnlyByOverlap`, `NotSelectedOnceExpired` | done |
| 5 | `StreamHandler`, `ToolCalls` | a strict reader of the stream; the other mode of the same handler | `stream`, `components`, `stream_tools` | a well-formed stream, its end, no trace of a retry; the same answer in both modes, reasons that fit, dropped calls were given; what becomes of a call | done |
| 6 | `Passthrough`, on `ErrorClasses` | | `components`, `passthrough_body` | one answer, every end told | done |
| 7 | `CodebuffProvider`, `CodebuffQuota`, `CodebuffTelemetry`, `CodebuffRuns` | | `components` | one creator under a lock that holds, the undisturbed request succeeds; figures of the day, refusals respected; runs accounted; the sums of telemetry | done |
| 8 | `PuterClient`, `ModelRecords`, `ApiKeys`, `Sessions`, `PromptCache` | | `components` | keys agree, listed models are found, reads were charged, the directory is the one stored last | done but for `PuterClient` |
| 9 | `ConcurrencyLimiter`, account creation and usage counters | permits conserved | | conservation | left out, see section 7 |

Modules are parameterised by CONSTANTS with named assumptions, have one action
per operation. None contains a RECURSIVE operator but `PuterClient`, whose calls nest
to any depth and about which nothing is proved. TLC instances are in `MC<Module>`, proofs
in the modules `*_proofs` of section 5. Runs of one module with different questions
differ only in their `.cfg`. The small components, which meet only through the
loops above them, are put together in one module, `MCComponents`, and one run.

`RequestLoop` composes what a request meets: the dedup store, the connection
counters and the availability of accounts, each reduced to what it promises.
`MemoryConnTracker` and `DedupStore` show how far those promises are kept by the
code behind them; `AccountState` shows what availability really depends on.

## 3. The modules and the code

### ErrorClasses

`internal/errors/classify.go` finds an upstream error's class and the status of
its account by searching its text for markers in a fixed order. An error is a
set of markers; `ClassifyUpstreamError` and `ClassifyAccountStatus` are the two
ordered tables, written as the first entry that the error carries. The loop
derives `Retryable`, `RetriesSameAccount` and `MarksAccount`. The two tables do
not agree: "forbidden" alone marks the account and lets the same account be
retried, "unauthorized" alone condemns the account without marking it. The model
has this, and the runs use errors of each kind.

### RequestLoop

`HandleMessages` from admission to its deferred functions, for any number of
concurrent requests. `pc` names the place between two accesses to something
shared.

| Model | Code |
|---|---|
| `RegisterExact`, `ExactDuplicate`, `RegisterSemantic`, `SemanticDuplicate`, `FinishRejected`, `BypassDedup` | registration of the two keys, and what a duplicate gives back before its answer |
| `SelectAccount`, `SelectFails`, `Acquire` | `selectAccount`, then `acquireTrackedAccount`: two steps, because other requests act between |
| `StartAttempt`, `Emit`, `EmitFinish`, `WriteFails`, `Succeed`, `Fail`, `Panic` | `resetRoundState`, `SendRequestWithPayload` and its events |
| `AbortAfterOutput`, `MarkAccount`, `GiveUp`, `SwitchAccount`, `Reselect`, `RetrySame`, `NoAccountLeft`, `Backoff`, `BackoffCancelled` | the error branch of `run` |
| `Finalize`, `ReleaseConn`, `FinishHeld`, `Return` | the end and the deferred functions, last registered first |
| `Disconnect`, `WindowPasses`, `CooldownEnds` | the client's context and the passing of time |

`refusedBy` is a history variable: the accounts that refused the request for
reasons of their own. `returned` is the guard of `finishResponse`, `replies`
counts what the client sees as an end: a JSON error, a finished stream, or the
error event of `recover`, which is written last. `Return` resets the locals.

The loop assumes the dedup store that keeps its promise (the memory one);
`DedupStore` shows where the Redis one does not. Keys, accounts' weights and
errors are parameters. Prompt building, fast paths (one action,
`AnswerLocally`), the keep-alive writer and the audit record are left out.

### DedupStore

One key, either backend. A call is two steps because its time is read before
the script or `Compute` runs. The Redis record dies `Expiry` after its last
write, in flight or not; the memory cleaner removes idle records only.
A failed script lets the request pass (`RegisterError`) and loses a decrement
(`FinishError`). `told` records whether a duplicate was told the truth.

### ConnTracker, MemoryConnTracker

`ConnTracker` is the promise: a counter per account, one step per operation.
`MemoryConnTracker` is `conn_tracker.go` at the grain of its atomic operations:
`LoadOrStore`, `Add`, `Load`, and the compare-and-swap loop of `Release`.
`ImplementsTracker` is the refinement. Its environment is the discipline that
`RequestLoop` establishes (`ConnsExact`): a goroutine releases what it acquired.

### AccountState

One account: accounts meet only in the shared list. Three copies of it matter:
the record in Redis, the object in the load balancer's cached list, shared by
pointer by every request that selected from it, and objects of a snapshot or of
an admin request. `heap` holds the objects, `ref` who points to which; an
object nobody can reach returns to its initial value, which keeps the state
space finite without changing what anybody sees. `UpdateAccount` is four steps,
because it reads the record, copies first the status and later the times from
an object others may be changing, and then writes.

A *mark* stands for the pair `LastAttempt`, `QuotaResetAt`. `age` takes it from
"fresh" over "expired" (a list cached when it was set has expired) to "over"
(its cooldown is). `gone` and `overlaps` are history: what is left of a deleted
account, and which updates had already found it. A list may have the account when it
is deleted, or a shared read that found it may be in flight; such a read is installed
for a whole life of a list all the same. In either case `gone` is "deleted" until that
list expires, and "expired" from then on, or at once if there was neither.

The account's 429 does not keep it from selection if it is one of Codebuff
(`LimitsByModel`), where the quota of the model decides. A goroutine is assumed not to
stall for the life of a list between reading the clock and taking the list.

| Model | Code |
|---|---|
| `TakeList`, `JoinFlight`, `FlightReads`, `FlightLands`, `FlightFails` | `getEnabledAccounts` and its singleflight (the check repeated inside is merged into `JoinFlight`) |
| `Available`, `Unavailable`, `TakenAnyway`, `CooledDown`, `Clear` | `isAccountAvailable`, its result disregarded after a 429 of a codebuff account, `clearAccountStatus` |
| `Mark` | `MarkAccountStatus`, by a request or by the refresh loop |
| `Get`, `NotFound`, `CopyStatus`, `CopyTimes`, `Put`, `UpdateFails` | `UpdateAccount` |
| `Snapshot`, `RefreshOK`, `RefreshSkips` | `refreshAccounts` |
| `Check`, `Edit`, `Delete` | handlers of `/api/accounts/{id}` |

### StreamHandler

`streamHandler` receives the events of a client of one of three dialects (Puter's
`model.*` events, the older agents' events, and blocks written directly) and
writes Anthropic events or OpenAI chunks. One callback runs at a time, under a
lock, so a handler is a record and every method an operator from records to
records. The module runs two handlers on the same events: `live`, which streams,
and `body`, which collects a JSON answer. `view` is a client that reads the frames
and never forgives: it is what `WellFormed` speaks of.

| Model | Code |
|---|---|
| `EnsureBlock`, `CloseActiveBlock`, `EmitDelta`, `EmitFinalTextBlock` | blocks of text and thinking |
| `Accepts`, `Remember`, `AcceptToolCall`, `Postpone`, `FlushPendingToolCalls` | the filter of tool calls, and when they are written |
| `FinishResponse`, `ForceFinishIfMissing`, `HasAnyOutput`, `ResetRoundState` | the end of an attempt and of the response |
| `PuterText` ... `PuterFinish`, `AgentReasoning` ... `AgentUsage`, `DirectBlockStart` ... `DirectEnd` | `handleMessage`, by event |
| `AttemptSucceeds`, `AttemptFails`, `KeepAliveTick` | what the dispatch loop does with the handler |

Texts and calls are model values; what the code reads out of them (a greeting, a
hidden tool, an effect) is a function of the value. Token counts are reduced to
whether something was counted, because only that decides a retry.

### ToolCalls

What happens to one tool call before `AcceptToolCall`: `normalizeUpstreamToolCall`
gives the client's name and fields, paths of the sandbox, of another machine or of a
drive are rebased, incomplete calls go, and so do side effects asked for
before. A path is its root and parts; `Existing` is what the file system
holds, because some rules ask it. The conversation is a sequence of calls and
results, from which `seedSideEffectDedupFromMessages` computes what
is not repeated.

### Passthrough

`handlePassthroughProvider` for one request; what other requests do to accounts
is `Others`. `wire` is what the client has been sent, `writers` which attempts
contributed. The two clients differ in what they hand to the writer (`Hands`),
in what their errors say (`Speaks`) and in whether a refusal becomes a quota block
(`RecordsBlock`). The tables of errors are those of `ErrorClasses`.

### CodebuffProvider, CodebuffQuota, CodebuffTelemetry, CodebuffRuns

Four parts of the Codebuff client that share nothing but the account. In
`CodebuffProvider` every call to Redis or upstream of `SendRequestWithPayload` is a
step, for any number of requests with one token: session cache, lock by model,
creation, queue, the deletion of a session that is in the way, eviction and the
one more cycle. A session is "live" if upstream has it, "dead" if the server only
remembers it; `disturbed` names the requests that were met by a fault or by
another user of the token.

`CodebuffQuota` has the blocks and snapshots with
their expiry on a clock of days, and the two jobs, each a scan and a later
deletion. The filter asks for the block of the model that the request names; a block is
stored under the model that the body of a 429 names, which may be another or none.
Upstream counts a request under a model of its own (`SessionModel`), so two models may
share a quota and only one of them be blocked. If the read of the block fails, the account is
selected, blocked or not ("calling unchecked"). `nextResetTTL` is a minute (`Grace`) at
least, and a block lasts a minute beyond the reset that upstream tells. `refused` is
history: until when upstream has told to wait, by the model it named.

 `CodebuffTelemetry` has the counters and the sums over them; each
recording is one Redis transaction, hence one step. `CodebuffRuns` has the goroutines
around a chat that book its runs, and the ads.

### PuterClient

One call: the conversation is turned into a request (`buildRequest`, with the
tool prompt and what is said of a missing path), the reply is read line by line
and parsed into text and calls (`parseToolCalls`), paths of calls are repaired, and
events are emitted when everything has been read. A line carries one piece:
prose, a pseudo result, or JSON that is tagged, fenced or bare. A tag is looked into
only if it holds an object (`toolCallPattern`). The system prompt has a part each for the
working directory, the tools, a path that failed and the client's own instructions;
any of them may be missing, and so may all, in which case the conversation is
cut until it begins with the user. No character is modelled.

### ModelRecords, ApiKeys

Records in Redis with indexes kept by hand. A request of the administration is a
list of calls, and other clients' calls come in between; each pipeline is one step.
`ModelRecords` has creation, change and deletion (two reads, either of which may fail
and is then taken for nothing found, and a pipeline), the clearing of defaults, lookups with their repair, and the refresh: discovery, verification of
every model with every account, and the calls that apply the result. `ApiKeys` has
creation, enabling (read, write, reread) and deletion, where every call may fail.
`crossed` names the ids two requests were about at the same time; `modelsCrossed` says
that two changes came to one model record, or that a read of one failed.

### Sessions

Where a request names its working directory, what either session store remembers
of it, and what a change does: the history is cut and the session is deleted.
Lookup, storing, deletion and naming are steps, so requests of one conversation
interleave. Any call to the Redis store may fail: a read is then taken for no session,
a write is ignored. `gone` and `excused` record that a session was lost or dropped since a
directory was last stored in it, or could not be read.

### PromptCache

The lookup that decides how many tokens are reported as read from the prompt
cache: found under the read lock, renewed or stored under the write lock, with the
time at which the request came; eviction of a full cache, pruning, clearing, and a
change of the strategy, which the live configuration makes without clearing.
`charged` and `unpaid` record what was billed.

### MCComponents

The instance of the components that meet only through the loops. It EXTENDS the
modules about which there are theorems, so that their properties are checked under
their own names and their assumptions with the values of the constants, and takes
`PuterClient` as an instance. Every one has its own variables; `part` chooses in the initial state which of them moves, the rest
stand still. So the run explores the sum of their state spaces, not the
product: nothing is lost, because no part reads another's variables, and a
property of a part that stands still is that of its initial state.

## 4. Runs

| Run | Question | Instance | States |
|---|---|---|---|
| `accounts` | Are connections and refusals right while requests switch accounts? | 2 requests, 2 accounts, 1 retry, 3 kinds of error | about 3.5 million |
| `dedup` | Are keys given back and every request answered once? | 2 requests, both keys shared, 1 account, 1 retry, 2 kinds of error | about 440 thousand |
| `ends` | Does every admitted request end? | 2 requests, one key, 1 account, 1 retry, 2 kinds of error; fairness | about 350 thousand |
| `components` | Does each of thirteen parts keep its promise? | see the bounds below | about 1.3 million |
| `stream` | Is the response well-formed, complete and the same in both modes? | 3 dialects, 7 modes, 2 attempts | about 1.2 million |
| `account_delete` | Does a deleted account stay away? | 1 request, 1 administrator | about 160 thousand |
| `account_recover` | Is every cooldown temporary? | 1 request, the refresh loop; fairness | about 180 thousand |
| `dedup_redis`, `account_refresh`, `account_stuck`, `stream_tools`, `passthrough_body` | see section 6 | | violation |

### What the passing runs show

- `accounts`: `ConnsExact` (a counter is the number of requests holding the
  account), `CallIsCounted` (every call is made on an account counted for it),
  `RefusedNeverCalledAgain`, `NoRetryAfterOutput`.
- `dedup`: `InFlightExact` (a key's count is the number of requests that must
  still finish it), `NothingHeldWhenDone`, `OneReply`, `AttemptsBounded`.
- `ends`: `Termination`, without symmetry and with one dedup key.
- `stream`: `WellFormed` (blocks open and close in order, nothing after the end),
  `EndsOnce` (who is still connected is told the end), `ReasonFits` (a client told
  to run tools has some, and the reverse), `DroppedWasDelivered` (what is dropped as
  repeated was given to the client), `SameAnswer` (streamed and collected
  answers agree), `RetryLeavesNoTrace`.
- `account_delete`: `NotSelectedOnceExpired` (a deleted account is in one list at most:
  the one cached at the time, or that of the shared read which found it before and which
  is kept for a whole life; once that list has expired the account is not selected),
  `RevivedOnlyByOverlap` (only an update that had found the record can bring it back).
- `account_recover`: `Recovers`.
- `components`:

| Part | Properties |
|---|---|
| dedup store | `CountExactInMemory`; `AcceptedApart`: accepted requests are a window apart, less the delay between reading the clock and running the call |
| connections | `CounterExact`, and the refinement `ImplementsTracker` |
| keys | `KeysAgree`: list and index agree whatever fails or crosses |
| prompt cache | `ReadWasCharged`: what is billed as read was billed as written; the size is exact and bounded |
| passthrough | `OneAnswer`: the frames of one attempt only; `EndIsTold`: a failure is told and the connection given back |
| provider | `UndisturbedSucceeds`: stale sessions cost one cycle at most; `OneCreator`, until a lock expires |
| quota | `FiguresOfToday`: a figure of yesterday is shown for less than a minute (a snapshot after 07:05 only if it was taken within that minute, a block's count only in the minute after the reset or the refusal, or for a day if upstream told no reset); `RefusedNotSelected`: a model named in a recorded refusal waits for the time upstream told, unless the read of its block fails or the daily clearing lifts it |
| telemetry | `FiguresFit`: the sum over a range is the requests of that range, up to its first minute |
| runs | `RunsAccounted`: runs are finished with all their steps, in any order of the goroutines |
| puter | `CallsComeThrough`, `PathsKeepTheirPlace`, `RequestIsConversation` |
| tools | `RewrittenStaysInside`, `RepeatedEffectsDropped`, `OnlySuccessHoldsBack` |
| models | `ListedIsFound`: what is listed can be asked for, unless two changes of one record crossed or a read failed |
| sessions | `WorkdirFollowsSession`: the directory is the one stored last, history is cut only for another, and a change is overlooked only if the session was not found |

Where a property has an exception ("until", "unless"), the exception is what the
code does; section 6 lists those.

### Bounds, and why they are enough

- *Requests, callers, goroutines.* Two requests are the least that interfere;
  the interesting interleavings are between one that changes something shared
  and one that read it. Three callers of a dedup key are needed: one that runs
  past the expiry, one that registers anew, one that is told.
- *Accounts.* Two: one to leave and one to switch to; with one the loop runs
  out of accounts. Equal weights make the two interchangeable, so that symmetry
  is sound. What other weights do to the choice is in `LeastLoaded`, for which
  no property depends on the weight; the theorems hold for all weights.
- *`MaxRetries` = 1*: a retry and its exhaustion both happen. The theorems hold
  for every `MaxRetries`.
- *Errors*: `http404` is no account's fault, `http401` condemns and marks the
  account, `forbidden` marks it and lets it be retried, `network` only lets it
  be retried.
- *Dedup store*: `Window` 2 and `Expiry` 4 keep the order of 2 s and 10 s;
  `MaxDelay` 1 bounds how late a clock may be. In `components` two callers and
  `MaxTime` 6 let a record expire and be registered again; in `dedup_redis` three
  callers and `MaxTime` 7 let it be asked for once more: one runs past the
  expiry, one registers anew, one is told.
- *Connections*: three goroutines and two accounts, so that two of them race for a
  counter a third one changes.
- *Marks*: two, because a mark matters against an older one. *Objects*: one per
  actor, one in the list, one in the read in flight.
- *Stream*: at most 4 events of Puter, 3 of the agents and 5 direct ones in an
  attempt, and two attempts: a call, its repetition, a text and an end fit. Seven
  modes: both formats, each with a connection that breaks after 4 frames; no
  thinking; no tools; an effect carried out in an earlier turn. Four tools, two of
  which have the same effect, and three texts: plain, a greeting, a hidden tool.
- *Keys*: two ids, two hashes, two administrators: the deletion of one key may
  cross its enabling and the creation of the other.
- *Prompt cache*: one entry at most, a time to live of one tick, three lookups,
  strategies "1" and "3", a renewal at every second hit (eight in the code).
- *Passthrough*: one retry, two frames in an attempt, and five errors: retried
  elsewhere, retried here too, final, and two of a quota.
- *Codebuff*: two requests of two models for the session; for the quotas one request at a time, which
  shares nothing with others but the keys in Redis that the two jobs and the page change
  meanwhile (the theorems are of any number), two models of which one is counted under the
  other, a limit of one request a day, days of five ticks, a minute of two and seven ticks in all,
  so that a reset, a clearing and another reset pass and a synchronisation may come in the last
  minute before the clearing; minutes of three ticks, a retention of six and eleven ticks for the
  counters; two models where sums run over models.
- *Puter*: three lines of a reply and three messages of a conversation, so that two may be
  cut off; calls nested in lists and in calls, tagged objects and tagged lists; three working
  directories, with and without tools and instructions.
- *Tool calls*: two calls in a reply and five turns before it; paths inside,
  outside, of the sandbox, of another machine, on a drive, and going up in each of them.
- *Models*: two channels, two names, two records to begin with and two more, two statuses, two
  changes, each of several calls, that two clients may interleave or one client make in a row; a refresh whose accounts are good or have no money (any other answer
  verifies nothing and adds no step).
- *Sessions*: three requests, two conversations, one place in memory.

`components` and the runs of `RequestLoop` and `StreamHandler` stop at these
bounds or when all requests are served, so deadlock is checked only in the
runs `account_*`, whose system never stops.

Symmetry (requests and, where their weights are equal, accounts; in `components`
two of the actors and two of the things they act on) is used only in runs
without liveness.

### Fairness

- `RequestLoop`: weak fairness of each request's `Progress`. A goroutine that
  can run does, and every upstream call returns, because each client has a
  timeout and the concurrency limiter cancels the request's context. Nothing is
  assumed of the clients, the dedup window or the cooldowns.
- `AccountState`: weak fairness of requests (they keep coming), of updates, of
  a read landing and of the list expiring; strong fairness of `FlightReads`
  (Redis may fail any number of reads but not all) and of `CooldownEnds` (time
  passes even if the account is marked in between).

## 5. Proofs

TLAPS proves the following for all values of the constants that satisfy the
assumptions named in the modules. TLC evaluates each assumption in a run.

- *Sets and "none" values.* `ConstantsAssumption`, `TrackerAssumption`,
  `StoreAssumption`, `ActorsAssumption`, `RecordAssumption`, `KeysAssumption`,
  `PromptCacheAssumption`, `PassthroughAssumption`, `ProviderAssumption`,
  `SessionsAssumption`, `HandlerAssumption`, `ModelRecordsAssumption`, `TelemetryAssumption`: sets that are
  counted are finite, the first models have numbers, values that stand for
  "none" are outside the sets they complete, the two keys of a request differ, a
  failed session is retried at least once.
- *Times.* `DelayAssumption`: a call reaches the dedup store within 8 s of reading
  the clock, the difference between window and expiry. `QuotaAssumption`: the reset
  comes before the clearing, both within a day, as 07:00 before 07:05; the clamp is not
  zero; requests for a model are counted under one model.
- *Calls.* `ToolCallsAssumption`: the working directory is clean (the code cleans it
  before it uses it) and below the root; calls are of the shapes that the
  decoder gives, and an edit or a write of an earlier reply, which the client carried out,
  named its file.
- *Memory.* `MemoryAssumption`: `AccountState` has an object for every actor, for the
  list and for the read in flight. Go allocates; the model takes the objects from
  a set.

| Module | Theorem | States |
|---|---|---|
| `RequestLoop_proofs` | `TypeCorrect` | `Spec => []TypeOK` |
| | `PhasesCorrect` | what each phase guarantees |
| | `ConnsCorrect`, `CallsCounted`, `NothingHeld` | connections |
| | `InFlightCorrect` | dedup keys |
| | `RefusalCorrect`, `AttemptsCorrect`, `ReplyCorrect`, `OutputCorrect` | retries and answers |
| `Admission_proofs` | `TrackerTypeCorrect`, `CountersCorrect`, `TrackerImplemented` | counters and refinement |
| | `StoreTypeCorrect`, `MemoryCountCorrect` | the memory store's count |
| | `NeverOver` | either store never counts a request too many |
| | `ApartCorrect` | `Spec => AcceptedApart`, either store |
| `AccountState_proofs` | `AccountInvariant` | the inductive invariant |
| | `RevivalCorrect`, `SelectionCorrect` | what may follow a deletion |
| `Handler_proofs` | `PassthroughInvariant` | the inductive invariant of `Passthrough` |
| | `AnswerCorrect`, `EndCorrect` | one attempt's frames, every end told |
| | `RewrittenAlwaysInside` | `ToolsSpec => []RewrittenStaysInside` |
| | `RepeatedEffectsAlwaysDropped` | `ToolsSpec => []RepeatedEffectsDropped` |
| | `OnlySuccessAlwaysHoldsBack` | `ToolsSpec => []OnlySuccessHoldsBack` |
| `StreamHandler_proofs` | `HandlerInvariant` | the inductive invariant |
| | `StreamIsWellFormed`, `RequestEndsOnce`, `RetriesLeaveNoTrace` | what a streaming client reads |
| | `AnswerInvariant` | the inductive invariant of both answers |
| | `ReasonAlwaysFits`, `DroppedAlwaysDelivered`, `AnswersAlwaysSame` | `Spec => []ReasonFits`, `[]DroppedWasDelivered`, `[]SameAnswer` |
| `Codebuff_proofs` | `CreatorCorrect`, `UndisturbedCorrect` | sessions |
| | `FiguresCorrect`, `RefusalsCorrect` | quota |
| | `RunsCorrect` | agent runs |
| | `FiguresAlwaysFit` | telemetry |
| `Caches_proofs` | `WorkdirCorrect` | `SessionsSpec => []WorkdirFollowsSession` |
| | `ChargedCorrect` | `CacheSpec => []ReadWasCharged` |
| `Records_proofs` | `RecordsInvariant` | the inductive invariant of the models |
| | `ListedModelsAreFound` | `RecordsSpec => []ListedIsFound` |
| | `AgreementCorrect` | `KeysSpec => []KeysAgree` |

*RequestLoop.* None of the safety properties is inductive alone. `Phases` says
for each value of `pc` what the request has: which account, which keys it
still has to finish, how `attempt` relates to `retries`, whether it is
tracked. The bound on attempts, for one, holds because `attempt + retries` never
exceeds `MaxRetries` between two calls, and a call on a refused account is
impossible because `refusedBy` is part of `failed`, from which the selection
keeps away, and a retry of the same account happens only after an error that
refused nothing. `Replies` ties the number of answers to `hasReturn`: before
the first answer `returned` is false, or the client is gone. `TypeOK`, `Phases`
and `Replies` together are inductive (`InitOK`, `TypeStep`, `PhasesStep`,
`RepliesStep`).

`ConnsExact` and `InFlightExact` equate a counter with a cardinality. A lemma
says how one request joining or leaving the set changes its cardinality
(`CountAdded`, `CountRemoved`); three actions move connections, four move keys,
and a lemma shows that all the others leave both sides alone.

*MemoryConnTracker.* `CounterExact` is inductive with the types. It makes the
early exit of `Release` at zero unreachable for a holder, which the refinement
needs: every `Swap` is then one release of the abstract counter, every other
step a stutter.

*DedupStore.* In memory, the record exists while a request runs, because the
cleaner keeps busy records, so the count is the cardinality of `Running`. In
either store the count is at most that: expiry and late clocks lose counts,
registrations that failed add none, and only a Finish that failed (`lost`) leaves
one too many. `CountNeverOver` is inductive with `TypeOK`; it is part of no run any
more, but was checked with three callers before it was proved.

`AcceptedApart` rests on two facts of time. `InTime`: a call that is on its way has
read the clock at most `MaxDelay` ago. `Remembered`: while there is a record, it
carries a time that is at most a delay before the latest accepted registration, and
it outlives that registration by `Expiry`; when there is none, so much time has
passed. Here `DelayAssumption` is needed: a call that came later than window and
expiry allow could find no record of a registration that its window still covers.

*AccountState.* `Deleted` says what is left of a deleted account. Once the list that has
it has expired, neither a list that may be used nor a read in flight
contains it; and who is between the check that the record exists and the write has
found it before the deletion, so that `overlaps` names it. The first half needs
`FlightNeeded`: the store is read only while there is no list to take, so a list that may be used
and a read in flight never both have the account, and one expiry is enough. A read in flight
that has it is not over when some list expires but when its own does. The second
half needs that `Get` is the only way into `UpdateAccount`. `ObjectsHeld` says that an actor has an object while it is in a
call. It matters because objects are given back: with it and the
assumption on memory, a free object always exists (`FreeObject`) and no two
actors are given the same one.

*Passthrough.* `OneAnswer` and `EndIsTold` speak of the frames on the wire, in
order. `OneWriter`: without output, the wire has at most the headers, so that another
attempt may begin; with output, the request is in the attempt that wrote it or at its
end. `StopsFirst`: the writer remembers that it sent tool calls and then never says
"stop". `OneError` keeps a second error event away, `OutputIsTold` relates what the loop
remembers (`hasOutput`, `sawTools`) to what is on the wire.

*ToolCalls.* What the module computes it computes along sequences: a path is cleaned part
by part, the results of a conversation are applied one after another. The induction
theorems of the library take an operator, which the provers cannot instantiate; stated
over sets (`NumberInduction`, `AppendInduction`: what holds of a number or a sequence
is given as the set of those it holds of) induction is within reach, and `Least` proves
it from well-foundedness. A fold is handled through its trace: `Recursion` says that a
function that is defined by its predecessor exists, so that the fold over a longer
sequence is one more step of it.

Of a clean path little has to be known. It is a number of ".." and then names
(none, if it is rooted), and cleaning two paths one after the other is cleaning them
together, so a path below the working directory remains there unless its own
part climbs. `RewrittenStaysInside` then goes through the rewritings in the order
in which the code tries them. Its first version claimed this of every path
and was false: TLC found a drive path with dots, which is left as it is, a write to
the root itself, and a second pass that takes a directory of the project for
a placeholder. The exceptions are now in the property.

`RepeatedEffectsDropped` needs that two paths with the same target have the same key. The
key of a relative path is that path cleaned, the target the path below the
working directory, and the two agree unless the path goes up: `../w/a` and `a` are one
file with two keys. That is an exception too. `OnlySuccessHoldsBack` follows the
conversation: after each turn the keys remembered are those whose last result since
the user spoke was a success, because `seedSideEffectDedupFromMessages` applies results
in order and a later failure takes the key away again.

*StreamHandler: the stream.* The first three theorems speak of the streaming handler,
for any texts, tools, modes, numbers of events and of attempts, and wherever writing
breaks. `HandlerInv` says where the attempt is and what the client knows of it. `Going`: the blocks that the client has
open are the handler's active one (`Active`), it has seen no index above the handler's,
and it has been told no reason. `Reasoned`: an upstream that ends the message itself
has given its reason, and the client waits for the end. `Done`: the client has been told,
unless writing failed or an OpenAI stream lacks its `[DONE]`. `Follows` relates the
handler to such an upstream: which block both have open, what is skipped, which tool is
kept back, and that the next index is new to the client. `Noticed` is what makes
`RetryLeavesNoTrace` true: whatever the client was shown left a mark
(`hasText`, `emitted` or `content`) that `HasAnyOutput` looks at. It does not hold for
direct events: `HasAnyOutput` does not see them, and nothing in the loop would keep an attempt
that sent some from being retried. No client that the server has speaks that dialect, so the
guard of `AttemptFails` that lets a direct stream be retried only before its first event is
an assumption of the model, not a check of the code.

The proof goes from frames to events. `Writing` says what one write leaves alone and
which frame keeps the client's reading in step (`WriteStart`, `WriteDelta`,
`WriteStop`); `Leads` is a step within an attempt, and a lemma for each operation
of the handler shows that it leads on, `Finished` or, for direct events, `Follow`s.
`Step` then serves every event, because after the return none of them changes anything
(`Untouched`). Two definitions of the model were changed for it: the arms of
`FailedAttempt` overlapped, so that an attempt with output that was cancelled had two
readings, of which TLC took the first, the code's; and `With` writes out
the map that the operators of the TLC module built.

*StreamHandler: the answers.* The other three compare what a client of the stream has been
given with what the body collects, again for any constants. The two handlers have little
in common while they run: the stream has open blocks and a client that may be gone, the
body has builders and calls that wait for the end. So each is reduced to its `Ledger`:
the texts and the calls that its client has or will be given (`Says`, `Calls`), and the fields
that decide how later events are taken (greetings, the last delta, the side effects
remembered, inputs not yet complete). The texts of the body are those of its blocks,
joined; that adding a piece to the last text block adds it at the end of all of them
(`FlatInto`), and that thoughts between them add nothing, is induction over the sequence
of blocks, stated over sets as for `ToolCalls`. It holds because of `Kept`: the builder
of a text belongs to the last text block of the content.

`Acts(h, g, x)` says that an operation leads from `h` to `g` with the ledger `x`, where
`x` is computed from the ledger of `h` alone, and nothing is said once writing has failed;
there is a lemma for every operation, for both handlers at once. Equal ledgers thus stay
equal, except where the code looks at the mode: `WriteChunk` (hence `~up.coding` in
`SameAnswer`) and the retries in which only one handler had output (hence round 1
or Puter, which sends nothing before its answer is complete). `Ends` does the same for the
operations that return, and `Goes` says of the ledger that it stays `Covered`:
every side effect that is remembered or was dropped comes from an earlier turn or
from a call in the ledger. A retry keeps that, because `resetRoundState` restores
the side effects accepted so far and takes back no call: an attempt with a call is
never retried.

`AnswerInv` puts this together: `Good` for each handler (before the return `Ready`, after
it `Fit`, that is, the reason fits the calls), `Placing` (the block that an upstream of
Anthropic events has open is the one that the body is at) and `Twin`. `Marked` is needed for
Puter: `ModelFinish` decides from what this attempt has emitted, which is all that the
client has been given because nothing of an earlier attempt was.

*CodebuffProvider.* `Locked` says that who is between SETNX and the
deferred DEL finds the lock of its model set and is alone there, unless a lock
has expired under somebody. Taking a free lock and dropping one's own keep it;
every other step of a request leaves the locks alone and never begins a creation
(`Moves`), so one lemma serves them all.

`UndisturbedSucceeds` needs to follow a request that nobody disturbs
(`OnCourse`): what it creates is live when it saves it, what it finds in the cache may be
dead in its first cycle only, and the second begins by forgetting it. Every step of
another request either disturbs it or leaves alone what it relies on
(`LeavesAlone`). The first attempt at this proof failed at `SaveSession`: a request
may save a session that has died meanwhile, and who then finds it in the
cache is disturbed. The model now says so (section 6).

*CodebuffQuota.* A block lasts at least until the time that upstream told of the model it is
stored under (`BlocksLast`), whichever model was asked for: a later refusal replaces both
the block and what was told, and only the clearing takes both away. A request that is
"calling" has seen no block of its model; one whose read failed is "calling unchecked".
`BlocksEnd` says when a block ends: a minute after the reset that follows its recording, or after
the recording itself if that reset was due, or a day after it if none was told. A snapshot ends at
the first clearing after it was taken, or a minute after it was taken
(`SnapshotOfDay`), for which the lemmas `NextTime` and `OnceADay` say what the next
07:05 is: the division that computes it is replaced by quotient and remainder
(`Euclid`), because the provers do no arithmetic with `%` and a variable divisor.

*CodebuffTelemetry.* `served`, the history of all requests, is what the counters are
compared with. `BucketsCount` says that the counter of a minute is at most the number of its
requests and at least that of those younger than the retention, because by `CountersLast`
a counter is kept as long as the last of what it counts; no range reaches further back. `SumAtLeast` and `SumAtMost` compare a sum over minutes
and models with the cardinality of a union: minutes are disjoint, those that begin in the
range hold nothing older, and the one in which it begins is what the figures may be
too high by.

*CodebuffRuns.* `PlanKept`: until a call fails, what a chat has to book is booked or
still in one of the queues of its goroutines, and nothing else is ever booked. So
the order in which the goroutines run does not matter at the end.

*Sessions.* `Stored` relates what the store has to the directory stored last; `Followed`
says of every request on its way what it knew when it looked, and that its history
was cut if and only if that differs from what it names. A read that failed knew nothing and
excuses the request; a write that failed leaves both the store and the history
variables as they were. `FirstOf`, which takes the
first directory of many, is defined by the least position; that there is one
(`MinIsIn`) is the well-foundedness of the natural numbers.

*PromptCache.* The invariant behind `ReadWasCharged` says of every entry that
somebody was charged for it at the time from which its life runs: then a hit is
paid for. A renewal changes the access time only, and only of an entry that is
there, which is what keeps the size exact between the two locks.

*ModelRecords.* While no two changes came to one record and no read failed
(`modelsCrossed`), the two indexes are exact at every step, not only between requests: an entry that is not 0
names a record that has that channel and name (`ByChannelExact`), or that name unless
one was renamed away from it (`ByNameExact`). That needs to know what a client that
has read and not yet written relies on (`Fresh`: the record is still as it was, and an
entry of its name that is its own was seen to be, once the second read has said who owns
it: `known`) and that nobody else, lookups under
repair included, is at the same record (`Alone`). Between the two reads only the first
half holds, which is why `GetOwner` has a lemma of its own (`GetsOwner`). `ListedIsFound` follows: the entry
leads to a record of the name, and without an entry the search of the list finds one.
What the lists and the refresh do to sequences is taken from positions in ascending
order (`Ascending`, `Only`) instead of the recursive operators of the library; that
finite sets of numbers have such an order (`EnumerationExists`) is proved by a least
counterexample.

*ApiKeys.* `KeysInv` has five parts besides types. `Issued`: an id and a hash
belong together for good, in a record and in what any administrator still holds of
it. `Indexed`: the list and the index of hashes point at each other. `Crossings`:
two administrators at one id have marked it. `Holds`: what an administrator who is
about to write may rely on (who patches an unmarked id finds it listed, who
rereads one finds what was written). `Answered`: what was told. Without `Issued` a
deletion that crossed an enabling could empty the index entry of another key;
without `Crossings` the answer of a reread could not be related to the request.

### Only model-checked

- *Liveness*: `Termination` and `Recovers`, which is out of the provers' reach.
- *The three properties of `PuterClient`*: its calls nest in lists and in calls
  to any depth, and what is taken out of them is defined by recursion over that depth.
- The violations of section 6 are traces of TLC.

## 6. Where the code and its documentation part

Five runs end in a violation that TLC reports with a trace.

- **`dedup_redis`** (`ToldRight`). `dedup_store.go:13` promises that Register
  "Returns isDuplicate and hasInFlight". The Redis record lives 10 s from its last write;
  requests may run for minutes. Once it expired, a new registration counts 1,
  the end of the first request takes it to 0, and a duplicate is told that the
  request "was already handled recently" while one is running.
- **`account_refresh`** (`RefreshKeepsMark`). The comment at `background.go:33`
  wants the refresh loop to keep newer status markers;
  `preserveLatestAccountStatus` does so, and only its test calls it. A refresh
  that succeeds writes its snapshot over a newer mark.
- **`account_stuck`** (`NeverStuck`). `UpdateAccount` copies status and time
  one after the other from an object another request may be clearing. The record
  can keep a status without a time, for which `isAccountAvailable` is false for
  ever, against the comments at `loadbalancer.go:265` and `:324`.
- **`stream_tools`** (`ToolIndexesApart`). `openai_sse.go:388` calls the index of a
  tool chunk "per-chunk". The handler takes it from a hint whose setter,
  `setToolIndexHint`, nothing calls: all tool calls of an OpenAI stream have index 0,
  and a client that assembles calls by index merges them.
- **`passthrough_body`** (`NonStreamAnswered`). `handler.go:1558` says a provider
  sends one "body" event to a caller that asked for no stream, and `:1694` that the
  response would otherwise be "200 + 0 bytes". Codebuff's `completeChat` gives its
  result to a callback that the loop passes as nil, so this is what a success
  sends.

`Recovers` is checked with one request at a time, where the last case cannot
arise; that is why the two runs do not contradict one another.

The models also show the following, which no statement of the repository rules
out. Where a property of a run needs it, the property names it as its exception.

*Dispatch and passthrough.* Kimchi's stream is forced: a caller who asked for none
and whose attempt fails after output gets two attempts one after the other. After
headers of 200 an error's status comes too late. `lastErrStr` survives an attempt
that succeeds, so that only `hasOutput` keeps an error from following it.
`trySessionAffinity` says "first match that is healthy" and looks at `Enabled` only.
Its key is the model as the user wrote it, while sessions are saved under
`SessionID()`. Kimchi's errors match no status marker and mark no account.

*Stream.* A body whose only tools were hidden in a text ends with `end_turn`. Blocks
written directly are not seen by `hasAnyOutput`; after a direct `message_stop` an
OpenAI stream has no `[DONE]`. Puter's usage is never read. `resetRoundState` keeps
the block index, the greetings and the accepted side effects.

*Tool calls.* A relative path that goes up counts as another file than the same one
by its other names. A path of a drive is not cleaned of its dots. A second pass
would move a file that the project has below a directory named like the sandbox. The filter remembers effects, not what happened between them: of write
A1, write A2, write A1 the third is dropped, and so is a second `go test` after an
edit. A sandbox path that leaves the project by ".." may point outside the
working directory. A write to any absolute path outside goes to its base name in
it. A Windows path without a match becomes a file named with backslashes.

*Codebuff.* The lock has no owner, so a holder whose lock expired deletes the next
one's. A session that died while its creator was saving it goes into the cache all
the same and costs the request that finds it there its one further cycle, with which
that request has none left for a fault of its own. `model_locked` deletes the session that another request may be using. A
429 without a model's name records no block, and one during `StartRunChain` none
either. A chat that is refused leaves its runs open. Step 1 of the parent may be
booked after its end. Requests of one second are one member of the sorted set, so
that the rate is too low; `last_unix` is incremented by a time; every error of a chat
counts as a 429; a total first created by a session event does not expire; a
snapshot of yesterday is visible from 07:00 to 07:05, and one that is taken in the last
minute before 07:05 up to a minute longer, because `nextResetTTL` is a minute at least. A
block without a reset time shows its count for 24 h. If the read of a block fails, the account is
selected for a model that it is blocked for. A block is stored under the name that the 429
gives, so that a request that asks for the same quota by another name is not
held back.

*Puter.* A tag that holds a list of calls is not recognised, because the pattern of
`client.go:39` takes objects only: the calls are left in the text and lost. Once a tagged call parses, all tagged blocks go, those that do not parse too;
a fenced call beside a tagged one is lost. A compressed body of 200 is read
undecoded and gives an empty success. A Windows path is not cleaned of "..".

*Models and keys.* A PUT revives a deleted model, and one of an id never issued is
overwritten by a later creation. A rename leaves the old entry of the global
index. Defaults are cleared by exact channel and looked up by normalised channel, so
that two may remain. Models missing from the source are kept
(`docs/architecture.md:140` says they are deleted). Refreshing "codebuff" is
accepted by one check and refused by the next. An enabling that crossed a deletion
leaves a record that neither the list nor the index shows. `UpdateModel` takes a failed read of the
record for no record and writes all the same: after a change of channel or name the
former channel's entry remains and leads to a record of another channel or name.

*Sessions.* A change of directory stores the new one and then deletes the session:
changing there and back is noticed the first time only, and a request in between that names no
directory gets none. A Redis read that fails is taken for a session without a directory. Two conversations of one
`user_id` share a session.

*Prompt cache.* Two first requests both pay for creation. A late store shortens the
life of a newer entry. Access is renewed at one hit of eight, so that eviction is not
of the least recently used. `persistConfig` overwrites the configuration before it
compares it with the new one (`api.go:1547`), so the caches are never cleared.

*Accounts.* `UpdateAccount` writes `Enabled`, tokens and usage of the caller's copy:
marking an account undoes an administrator's change the list has not seen, and
increments of the usage counters (`redis_store.go:219`) made in between are lost.
`clearAccountStatus` does not look again whether what it clears is what it saw.
A read of the accounts that is slower than a deletion is installed with the deleted account
for another 5 s.

## 7. What is not modelled

- *Reduced:* `isAccountAvailable`'s several cooldown lengths are one mark that is
  over at some time; a quota time left over from an earlier marking is part of
  that mark; cooldowns are assumed longer than the 5 s life of a cached list,
  as the code's are (a minute and more). Redis pipelines are one step. A call
  to Redis that failed is taken as not done, except in the dedup store, where both
  are possible. Reads whose errors the code swallows are modelled as lost where that
  decides something: the filter of quotas, the two reads of a model's change, the lookup
  of a directory.
- *External:* Redis commands and scripts are atomic; upstreams return any of the
  errors of `Errors`, or events and success.
- *Account creation and usage counters*: nothing is decided from them; the increments
  that are lost are described in section 6.
- *Concurrency limiter*: a weighted semaphore of a library with a deadline; the
  fairness of `RequestLoop` rests on its cancelling of the request. The rate
  limiter is not installed.
- *Client cache*: a client built twice is dropped and has no state. *Admin sessions*:
  one map under one lock.
- *Configuration*: constants of the modules, but for what a change does to the prompt
  cache. *Token estimates*: the handler always computes a count itself, so that
  the cache of estimates is not reached.
- *Unused by the server*: session registry, breakers by account, tiered selection,
  stream hooks, `internal/openai`, and the others of section 1.
- *Left aside:* prompt and format conversion, logs, metrics, audit, templates
  and the web UI, whose results no other component reads back; transports, proxies,
  start and shutdown; the benchmark, a program of its own. The Redis connection
  tracker is one command or script per operation; the server selects with the
  handler's own memory tracker.
