# Veil: a verification project

Veil is a gateway: LLM clients send requests in three formats (Anthropic
Messages, OpenAI Chat Completions, OpenAI Responses) with a `vl_live_` key, and
Veil answers them with one upstream, DeepSeek, while it meters tokens per
account. This directory holds TLA+ specifications of its parts, the TLC
configurations that check them on small instances, and proofs of some of their
properties for every instance. Paths below are under `src/` of the repository;
`PROJECT.json` maps every definition to the lines it stands for.

    tlc -config MC_Admission.cfg MC_Admission    model-check a run
    tlapm AdmissionProofs.tla                    check proofs

## 1. Inventory

State lives in PostgreSQL (`users`, `api_keys`, `plans`, `requests`), in Redis
(`auth:key:<hash>`, `usage:<user>`, `device:code:<d>`, `device:user:<c>`, the
stream `veil:analytics`, the channels `logs:<user>`) and, for a request, in
goroutines and one channel. Nothing relies on there being one server process:
all shared state is in the two stores, and no step holds a lock across two of
them but the migrations, which run under an advisory lock of PostgreSQL.

| Component | State | Operations | Interacts through |
|---|---|---|---|
| API key validation (`internal/auth/{service,repository,apikey}.go`) | cache entries with a TTL of 5 minutes | `ValidateKey`: format, cache, SQL join, cache fill, quota; `touchKey` | `/v1/*` middleware; rows of the keys dashboard; counter of the meter |
| Keys dashboard (`internal/api/keys`) | rows of `api_keys` | create, list, revoke | PostgreSQL only: it never touches the cache |
| Dashboard sign-in (`internal/auth/{middleware,interface}.go`, `auth/clerk`, `api/resolver.go`) | rows of `users` | verify a Clerk token, upsert an account | every `/api/*` request |
| Metering (`internal/billing/{meter,quota,service}.go`) | `usage:<user>` and its deadline | `increment` in a goroutine, `GetUsage` | the gateway after an answer; the quota check before a request |
| Gateway (`internal/gateway`) | none; a goroutine and a channel of 32 events per stream | blocking and streaming completions, errors to statuses, recording of usage | provider, translators, meter, analytics |
| Provider (`internal/provider`) | none | `buildRequest`, `Complete`, `CompleteStream` | HTTP, 90 s timeout |
| Translators (`internal/translator`) | per stream, the map of open blocks | `ParseRequest`, `WriteResponse`, `StreamEvents` | client bodies, the events channel, the buffered writer |
| Device sign-in (`internal/auth/device*.go`) | two Redis keys per session, 10 minutes | create, poll, show pending, confirm | keys repository (a confirmation inserts a key), mailer |
| Analytics (`internal/analytics`) and live logs (`internal/api/v1handler`) | stream, channel, subscriptions | `Track` (XADD, then PUBLISH), `StreamLogs` | the gateway; `/v1/logs` clients |
| Usage and billing views (`internal/api/usage`, `internal/api/billing`, `/v1/usage`, `/v1/billing/plan`) | none; two more copies of the plans' quotas | read counter, plan, history | meter, PostgreSQL |
| Payment webhooks (`internal/billing/webhook.go`, `stripe`) | none yet | verify a signature, log | |
| Mailer (`internal/mailer`) | none | send | called in a goroutine by the confirmation |
| Schema (`migrations`, `internal/migrate`, `sqlc`) | the schema, its version and its dirty flag | `Up` at start | every process that starts |
| Server (`cmd/server/main.go`) | the pools | migrate, connect, serve; drain for 10 s, close, exit | signals; everything that runs in the process |
| Configuration, models, utilities, seeder, generated docs | none | | |

What is hard in it:

* **Stale reads.** The cache answers for a key after its row has changed, and a
  slow lookup can fill the cache with what it read before the change.
* **Check and act apart.** The quota is read at admission and charged after the
  answer, by a goroutine nobody waits for, whose errors are only logged and whose
  commands go-redis sends again when a reply is lost.
* **Pipelines that are not transactions** (INCRBY and EXPIREAT; the two SETs of
  a device session), and deadlines computed before they are used.
* **Two goroutines and a bounded channel** per stream, with a client that may
  leave, and write errors that two of three translators treat differently from
  the third.
* **Interleaved tool calls** in one event stream, and conversations in which a
  client echoes what it recorded, or words what it says as the code does not
  expect.
* **Failure between two stores**: a key inserted for a session that is never
  stored; an event in the stream and not in the logs.
* **Processes that start and stop together**: migrations raced and interrupted,
  a shutdown among connections that never end, goroutines nobody waits for.
* **Errors on their way to a status**, through an error type that several
  failures share, and around a stream whose status is sent before anything can
  fail.
* **One number kept in three places**: the quota of a plan, which the check, the
  usage page and the plan page each take from elsewhere.

The list of hazards, each with its line and the properties aimed at it, is in
`PROJECT.json`.

## 2. Modules

| Module | Models | Extended or instantiated by |
|---|---|---|
| `KeyAuth` | key validation, keys dashboard, account upsert | `Admission`, `MC_KeyAuth` |
| `Admission` | key validation with the quota's counters, the usage and plan pages | `AdmissionProofs`, `MC_Admission` |
| `Metering` | admission, completion, metering goroutine, calendar | `MeteringProofs`, `MC_Metering` |
| `Relay` | what a client may rely on in a stream (abstract) | instantiated by `StreamPipe` |
| `StreamPipe` | producer, channel, writer, client of one stream | `Gateway` |
| `Gateway` | one request, from the middleware to its answer, its charge or its stream | `GatewayProofs` |
| `StreamTranslate` | the three `StreamEvents` event by event, and `parseResponse`, `WriteResponse` | `StreamTranslateProofs`, `MC_StreamTranslate` |
| `Conversation` | `ParseRequest`, `buildRequest`, and what clients record and send back | `ConversationProofs` |
| `DeviceAuth` | device sign-in | `DeviceAuthProofs`, `MC_DeviceAuth` |
| `LogStream` | analytics and live logs | `Server` |
| `Server` | start, migrations, shutdown and crash of several processes around `LogStream` | `ServerProofs`, `MC_Server` |
| `SequenceLemmas` | no code: lemmas about flattened and collected sequences | the proof modules |

`Admission`, `Gateway` and `Server` compose: each adds variables and actions to
the module it extends, lets that module's actions happen under conditions of its
own, and adds to them what they do to its own variables. Each is proved to
implement the module it extends, so what is proved of the part holds of the
whole. The runs check the composed modules; the parts have runs of their own
only where a disagreement with the documentation is shown on them. `Metering`
has its own simple admission, and `Admission` its own simple counters: each is
exact about its half. The calendar's races and the cache's races have no state
in common but the counter's value, which `Admission` lets rise and start over at
any time, as `Metering` shows it may.

Operators named after a definition with a suffix (`CacheHitSliding`,
`TouchKeyUpsert`, ...) are mutants: plausible mistakes in the code, used to show
that a property would notice them. They are part of no specification.

### KeyAuth

`plan`, `owner`, `rows` are PostgreSQL (`owner` remembers whose a deleted key
was), `cache` and `ttl` are Redis, `pc`, `key`, `seen`, `held` a handler's
progress, key, credentials read and the age of the read. Every round trip of
`ValidateKey` is an action, so that a revocation falls between any two:
`CacheHit`/`CacheMiss`, `QueryFound`/`QueryFailed`, `SetCache`/`SetCacheLost`,
`CheckQuota`. `CreateAPIKey`, `RevokeAPIKey`, `SignIn` are whole dashboard
handlers (one SQL statement changes state in each, after the account upsert).
`UpdateUserPlan` is a query that no handler calls yet; an operator may.
A Redis error and a missing entry are the same to the code, and to the model.
Keys are random, so a key is created once. Time is counted in ticks: `TTL` is
the cache's, and `MaxLag` bounds the time between a handler's read and its use.
The code does not bound it, which makes `MaxLag` an assumption about the
environment; the results are stated in terms of it.

`BoundedStaleness` (with `FreshCache`, `FreshFill`, `FreshVerdict`) says how old
anything untrue can be, wherever it is kept; `AcceptedRecently` what a client
sees of it; `Attribution` that a key's data is always its owner's;
`NoResurrection` that nothing brings a revoked key back; `RevokedDies` that a
revoked key stops working for good, even under a stream of requests that
present it.

### Admission

The counter of each account (`usage`, in units of the free quota) beside the
steps of `KeyAuth`: the last step of a validation, a free choice there, is
decided here by the counter and the plan of the credentials (`Decided`), or is
a failure of Redis. `Spend` and `StartOver` are what `Metering` does to a
counter, in one step. `PlanQuota`, `planQuota` and `TokenQuota` are the three
copies of the quotas, each translated from its own place in the source, and
`GetCurrentUsage`, `GetUsage`, `GetUserPlan` the pages that show them.

`VerdictMatchesPages`: a request is refused exactly when the usage page would
show the quota as spent, and that page shows the quota the plan page shows,
unless the key or the plan changed within the last `TTL + MaxLag`. A plan
without a row in `plans` is an error of the plan page only. `UpgradeHelps`: an
account that from some time on is below the quota of the plan it keeps is at
last refused no more, even if its key is used all the time. How long that
takes is the window again: the quota mail's "restore access immediately"
(`internal/mailer/resend/provider.go:101`) is not what the code does. The CLI's
`GET /v1/usage` is behind the same check, so that who has spent the quota cannot
see it there.

### Metering

`usage` and `expiry` are the counter and its deadline, and a slot is a request
in flight until its metering goroutine is done. `Admit` is the middleware's
check, `Complete` a blocking answer (it spawns the goroutine), `Stamp` the
computation of `endOfMonth()`, `IncrBy` and `ExpireAt` the two commands of the
pipeline, `NewMonth` the passing of a month's end, which deletes counters whose
deadline it is. `stale` marks a deadline computed in a month that is over:
`ExpireAt` with it deletes the counter, as Redis does for a time that is past.
`PipelineLost`, `ExpireAtLost`, `Resend` and `Crash` are the faults, switched by
the constant `Faults`: a pipeline that fails, one that is cut between its
commands, one whose reply is lost and which go-redis sends again, with the
deadline it has, and the end of the process, after which Redis may still execute
what it was sent (`detached`). `repeats` counts the increments that were executed
and sent again. `StreamEnd` and `EmptyResponse` are the two ways tokens are spent
and never recorded.

`OvershootBound` bounds the counter by the quota plus what requests in flight can
spend, and one completion more for each repeated increment. `ExpiryPending` says
that a counter without deadline is a transient or a known fault.
`OnlyLateIncrementsDrop`: within a month a counter only falls by a late
`EXPIREAT`. `QuotaResets`: who used up the quota can send again some time later,
unless a fault took the counter's deadline. That increments are lost, by a failed
pipeline, a stopped process or an answer without content, is in the model and no
property forbids it.

### Relay and StreamPipe

`Relay` is the abstract promise: the events the client's format has, in order,
each once, none skipped, [DONE] after the last of them, or the connection is cut
after a prefix. `StreamPipe` has the producer goroutine (`Post`, `Scan`, `Send`,
`Finish`) and the body-stream writer (`Receive`, `Write`, `Flush`, `Drained`,
`Mark`) around a channel of capacity `Cap`. `sticky` is the bufio.Writer's error,
which it keeps. The OpenAI and Anthropic loops return on a write error, the
Responses loop goes on. A flush after the client left may succeed, since fasthttp
has a pipe below. `ImplementsRelay` is the refinement `R!Spec` under the mapping
in the module, in which an event is dealt with when it has left the producer's
hand, the channel and the writer (`Taken`). `RelayGoesOn` is the relay's
fairness, which the pipe has if it runs: a client that stays gets everything and
then [DONE]. `NothingLost` says where every event is meanwhile.

### Gateway

One request around that pipe: `Admit` is the middleware, with the four ways it
fails; `HandleCompletion` parses and chooses; `CallFails` and `CallSucceeds` are a
blocking call upstream, by its outcome, and a good one spawns the goroutine that
charges. `RecordUsage` is one attempt of that goroutine at its pipeline, which
Redis executes or not and whose reply arrives or not; go-redis sends it up to
`MaxSends` times, and an error that remains is logged. `Shutdown` is the end of
the process while the goroutine is under way. `sends` and `charges` count the
attempts and those that Redis executed. `PostStream`, `Produce`, `Consume`,
`Leave` are the pipe's steps, of which the upstream's status allows `Scan` only
without an error: the code does not look at the status of a stream, and an error
body has no data lines. `ValidateKey`, `respondAuthError`, `ClientStatus`,
`mapErrorToResponse` are the way from an error to a status, as functions; `cause`
remembers the truth.

`StatusTellsFault`: 5xx when Veil, Redis or the upstream failed, 4xx when the
request was refused, 200 when there is an answer. Its two exceptions are the
code's: a failed lookup in PostgreSQL is a 401, and a malformed body is a 500, as
no error is ever a `fiber.ErrBadRequest`. `ChargedIfServed`: only an answer
that was good is charged, whoever is still there to read it, at most once for each
time its pipeline was sent; and a good answer is uncharged only while the
goroutine is under way, after an error that was logged, or when the process has
stopped. `RequestEnds`: every request is answered, and its goroutine ends one way
or another, or it is streamed to its end; a producer stays behind only if its
writer has abandoned it (see `stream_drain`).

### StreamTranslate

The upstream (external) sends blocks; tool blocks may overlap. `Forward` is what
each translator writes for an event and `Track` the Responses translator's map.
`Content`, `WriteOpenAI`, `WriteResponses` are the answer to the same message
without streaming. `DoneRepeatsDeltas`: the two ways a client learns a call's
arguments agree, however calls interleave and wherever the stream is cut.
`SameAnswer`: a whole stream gives what the unstreamed answer gives, with the
two exceptions the code has (the OpenAI answer has the first block's text only;
a call without arguments is "" in a stream and "{}" otherwise). `CutIsVisible`:
[DONE] ends every stream, so a client must look for its format's last event,
which comes if and only if the upstream's did.

### Conversation

The client keeps the history in its format (`Recorded` is what an answer leaves
in it), answers calls (`ToolResults`) and sends everything again; `ParseRequest`
and `BuildRequest` make the upstream request of it. Blocks carry tags, so that a
lost, repeated or reordered block shows. The loops of `parseResponsesInput` are the
recursive function in `Parsed`, a step of which is `Item` and whose accumulator
remembers the type of the run of items it is in.
`NothingRejected`: no request has what the source says the upstream rejects
(echoed reasoning, a temperature beside an effort), or calls without tools.
`HistoryKept`: everything else is told once and in order, with two exceptions, both
of the Responses route: images, and what an item without a type says. A user's
turn there may be such an item (`Untyped`), since the documented body of the route
has messages of a role and a content only; the loop skips it. `Heard` is what the
gateway makes of an entry, `Said` what the client said by it, and they differ for
these items alone: `HistoryKept` compares the request with the first, and
`InputIsTold` with the second, which does not hold (`conversation_untyped`).
`ToolTurns`: calls and their results are grouped as the upstream's protocol wants,
and the user speaks last, unless its last words were skipped. A hosted tool of an
Anthropic client loses its type, as `models.Tool` has no field for it (`Bare`).

### DeviceAuth

A session's value, its TTL, the TTL of its user code, and `left`, the time to the
deadline inside the value, which is computed earlier than the TTL starts
(`MaxDelay`). `PollFetch` and `PollAnswer` are a poll; `CreateKey`, `FindCode`,
`ReadSession`, `CheckDeadline`, `ComputeTTL`, `StoreSession` are the steps of a
confirmation, each of which another approval, a tick or `Abandon` (a failure or a
stop) may follow. The time that remains is computed (`until`) before it is sent,
and go-redis may send it again after a lost reply. `StoreSession` stores without a
TTL when it is not positive, as go-redis sends none then (`Lifetime`; exactly -1
ns, which means KEEPTTL, is left out). `KeyOfApprover`, `ForeverIsExpired`,
`NoLateAuthorization` and `PollingEnds` are stated in the module.

### LogStream

`Track` spawns a goroutine per event, `XAdd` and `Publish` are its commands,
`Executed` the outcomes of a command (reply, lost reply, sent again), `Timeout`
its failure, which ends the goroutine: go-redis's read timeout bounds a command
that hangs, and the context's 3 seconds bound its retries. `Write` is one turn of
the loop in `StreamLogs`, which learns of a lost client only there. `Kill` is what
the end of a process does to goroutines and handlers. `LogIsRecorded` relates the
two stores, `InPublishOrder` the log to the order of publication, and
`GoroutinesEnd` says that a Redis that hangs for good holds no goroutine.

### Server

Processes built with different numbers of migrations (`Known`), as when a new
version is rolled out. `phase` is where `main` is: `Lock`, `MarkDirty`,
`RunBody`, `MarkClean`, `Migrated` are golang-migrate's `Up` (external, modelled
as it is documented to work and as `migrate.Run` uses it: a session lock, the
version marked dirty before a body and clean after it); `Connect` the two pings
and `Listen`; `Signal`, `StopDraining`, `QueriesDone`, `Close` the shutdown, which
goes on after 10 seconds whatever still runs. `Crash` may come at any point, and
stands for every `log.Fatal` too. `schema` records the bodies that ran. The
steps of `LogStream` happen in the process they belong to (`home`, `host`), and
`Kill` ends them with it.

`ServesCompleteSchema`: however many processes start at once and wherever one
stopped, a process that serves finds its migrations applied once each and in
order; the last one could not be run twice. `InterruptedForGood` is the price: a
migration that was interrupted leaves its mark, and no process started after
that ever serves until somebody repairs the schema by hand. `Run`'s comment,
"Safe to call on every startup" (`internal/migrate/migrate.go:16`), is true of
repeating it and of racing it, and not of interrupting it. A rollback shows the
other edge of `Lock`: an older binary fails on a version it does not know.
`ShutdownEnds`: a process that is told to stop stops, though live logs never end
by themselves.

## 3. Runs

Every passing run names its properties in its `.cfg`; each property has a mutant
in `PROJECT.json` that violates it.

| Run | Instance | Distinct states | Shows |
|---|---|---|---|
| `key_auth` | Admission: 2 accounts, 1 key, 1 bad token, 2 plans, TTL 2, lag 1; 2 requests with counters that stay, or 1 with counters at 0, 1, 20 | 381,198 | the properties of KeyAuth and of Admission |
| `key_auth_immediate` | KeyAuth: same, 2 requests | violation | a revoked key is still accepted from the cache, against `api/keys/handler.go:114` |
| `metering` | 2 accounts, 2 slots, quota 2, up to 1 token, all faults, 1 repeated increment per account | 371,108 | the properties of Metering |
| `metering_rollover` | same, up to 2 tokens, no faults | violation | a late EXPIREAT deletes what another request counted in the new month, against the comment at `billing/meter.go:35` |
| `stream_pipe` | Gateway: capacity 2, 5 events, 3 translators, 6 upstream statuses, a pipeline sent up to 4 times | 181,435 | the stream refines Relay and goes on; nothing lost; statuses, charges and the end of a request |
| `stream_drain` | StreamPipe: capacity 2, 5 events | violation | a writer that fails returns with an event left in the channel, against `translator/interface.go:15` |
| `device_auth` | 1 session, 2 accounts, 3 keys, 2 approvals, life 2, delay 1 | 1,046,706 | the properties of DeviceAuth |
| `device_orphan` | same | violation | a code without a session leaves a key that no session holds, against `auth/device_handler.go:149` |
| `stream_translate` | 2 blocks of 2 fragments, 2 calls | 235,367 | the properties of StreamTranslate |
| `conversation` | 2 answers of 2 blocks, 3 formats, all tool sets | 1,271,816 | the properties of Conversation |
| `conversation_untyped` | 1 answer of 1 block | violation | what a user says in an item without a type is not told, against `translator/responses.go:68` and the route's documented body |
| `log_stream` | Server: 2 users, 1 client, buffer 2, each command sent up to twice; 2 processes of 1 and 2 migrations: one alone with 2 events, or both with 1 event, started once and twice | 260,424 | the properties of LogStream and of Server |

Why the bounds are enough. The races have two actors: two requests on one key,
two approvals of one code, two requests under one quota, a producer and a
writer; the third actor (dashboard, clock, client, Redis) is always present.
Accounts only matter as "mine" and "another's". A TTL of 2 with a lag of 1 lets
a fill, a revocation and a hit fall into different ticks; a channel of 2 with 4
events is empty, half full, full and overrun; a life of 2 with a delay of
1 puts the deadline, and the end of a TTL, between any two steps of a
confirmation. Two blocks are what two calls need to
overlap; two answers are what a conversation needs to echo one and to follow a
tool turn by another. Two events, one of them published twice, fill a buffer of
2 and would overrun it. A quota of 2 with completions of 1 token is reached by the
second request and passed by one that was admitted beside it, or by one that was
counted twice; go-redis sends a pipeline once and retries it three times.

`Admission` and `Server` take their bounds from a constant set `Budgets`, of which
a behaviour chooses one: the whole instance would not be checked in reasonable
time, and its two dimensions do not need each other. The races of a cache fill
need two requests and no counter that moves, which decides one step of one
request; those of a counter and a plan change need one request. The levels 1
and 20 are the quotas of the two plans, so a counter is below both, between them
and at the higher. Racing and interrupted migrations need two processes and a
restart, and an event to be lost with one of them; a log's order needs two
events and one process. Two migrations are what an older process can be behind,
and what an interruption can fall between. The proofs do not depend on any of
this: they hold for every set of budgets. Six upstream statuses have one of each
kind that `ClientStatus` tells apart.

`CHECK_DEADLOCK FALSE` is set where the modelled thing ends: a stream, a bounded
conversation.

Fairness. `KeyAuth` and `Admission`: time passes and a running handler takes its
next step (a goroutine of the Go runtime; all its calls return). `Metering`: the
calendar goes on, and a request is served: upstream calls end by the 90 s client
timeout, goroutines run. `Gateway`: the handler, the producer and the writer run;
a call and the upstream's lines end by the same timeout, and a blocked flush by
the server's write timeout; PostgreSQL and Redis answer the middleware. Nothing
is assumed of the client. `DeviceAuth`: time passes and a waiting CLI polls, as
the answer's `interval` tells it. `LogStream` and `Server`: the context's
deadline is kept, `main` runs, the shutdown's timer fires, and PostgreSQL ends
the queries that `db.Close` waits for. Redis and clients owe nothing, and neither
`Signal` nor `Crash` has to come.

## 4. Proofs

The proof modules extend the component's module, and state their assumptions by
name there: constants' types, that slots are finite, that quotas are positive.

`AdmissionProofs` begins with key validation alone (BoundedStaleness, Attribution,
AcceptedRecently, NoResurrection). The inductive invariant adds to these that a
cache entry has time left exactly if it holds something (`EntryHasTime`), that a
row's owner has an account (`RowHasUser`) and that a handler past its lookup has a
key (`HandlerHasKey`). Staleness is the interesting part: `BoundedStaleness` has to
name all three places where old credentials are kept, because each bound
follows from the one before it: a fill is as old as its read (`held`), an entry
inherits that and ages with its TTL, and a verdict inherits the entry's and adds
its own lag. `AcceptedRecently` is then a step property of the last one.

The second part is about the counters (AdmissionImplementsKeyAuth,
AdmissionTypeOK, VerdictMatchesPages). A step with counters is a step of `KeyAuth`
or leaves it alone, so `KeyAuth`'s invariant holds. `CurrentCredentials` takes from
`BoundedStaleness` that credentials outside the window are PostgreSQL's present
answer, `SameQuotas` says that the three copies of the quotas agree, and the
verdict follows from the two.

`MeteringProofs` (TypeOK, OvershootBound, ExpiryPending,
OnlyLateIncrementsDrop). `OvershootBound` counts what is already in the counter
together with what every admitted request may still add, which makes it
inductive: a request moves its share from one to the other, and is admitted
only below the quota. A repeated increment is counted in the bound, since `Resend`
gives a request its share back. The arithmetic with cardinalities is in the lemmas
at the top.

`GatewayProofs` has two parts. The first is about the stream alone
(`PipeInvariant`, ImplementsRelay, NothingLost). Its inductive invariant says
which steps hold an event and when the channel is closed (`Stages`), and which
event each place holds, by its number (`InOrder`). `NothingLost` compares two
filtered sequences; each of its parts is cut out of the whole stream at a
position `InOrder` gives, and the parts of a cut sequence join up to it. `RelayStep`
goes through the pipe's steps and names for each the step of `Relay` it is, or a
stutter. The second part is about the request around it (ImplementsRelay again,
GatewayTypeOK, StatusTellsFault, ChargedIfServed). The pipe's invariants carry
over. The two invariants of the answer are inductive together with `Unanswered`: a
request that has no answer has no cause and no goroutine, and one that has a
goroutine was served. Each attempt adds one to `sends` and at most one to
`charges`, and only an attempt that was executed ends in "done".

`StreamTranslateProofs` (TypeOK, DoneRepeatsDeltas, CutIsVisible, SameAnswer).
The invariant follows the client and the message side by side, after each event:
the text in what was sent is the text of the blocks (`TextInv`), the calls in it
are the blocks' calls (`CallsInv`), the table of the Responses translator holds a
row exactly for each open tool block, with its fragments so far (`TableInv`), and
a call that no block has announced yet appears nowhere (`FreshInv`), without which
a new block could take over the deltas of an older one. `Steps` says that every
action is one of five: a block starts, grows or closes, the message ends, or the
stream is drained. The proof treats each conjunct for these five. `SameAnswer` is
then about a finished stream only: no block is open, so that what the client put
together is what `parseResponse` keeps.

`ConversationProofs` (TypeOK, NothingRejected, HistoryKept, ToolTurns), for any
number of turns and answers of any length. Half of the invariant `IInv` is one
formula for the three formats, `Owes(format, history, Pending)`: the messages that
are told of the history (`ToldIn`) obey the rule for tools, and the calls of their
last turn are exactly the calls that no result of the history names. The two sides
are computed differently, one from the roles of the told messages and the other
from the tags in the client's entries, and that they agree is what each action has
to keep: an answer's call tags are new, so no earlier result names them; a
client's results in any order cover all of `Pending` (`OrdersAll`) and, for
Responses, fall into one message (`OutputsAnswer`), because while a call waits the
run of items that `Item` is in cannot be one of outputs (`IsAcc`). The rest of
`IInv`: while a request is made no call waits, and a user speaks last unless by an
item without a type (`UserSpokeLast`); calls in the history mean that the client
has function tools; an OpenAI client's system prompt stays first; and the request
is made of the history as it is. An item without a type leaves what is told as it
was (`UntypedOwes`). The lemmas before it follow the loop
item by item (`ParsedAppend`, `ItemAdds`), and say that what is told of an item is
told wherever its block is put (`ParsedTold`) and that stripping reasoning touches
nothing else (`StrippedTold`, `StrippedTurns`).

`DeviceAuthProofs` (TypeOK, KeyOfApprover, ForeverIsExpired,
NoLateAuthorization). The invariant adds that an approval past `CreateKey` holds a
key its account owns (`ApprovalOwnsKey`) and that a fetched poll holds a session
(`PollHasSession`). Its third part is why the race with the clock is harmless: a
remaining time computed as none means that the deadline is past, and it stays so.

`ServerProofs` starts with the live logs (LogIsRecorded, InPublishOrder).
`StoredFirst` says that a goroutine that gets to PUBLISH has stored its event, and
`OwnOnly` that every buffer and log has stored events of its own user only; a
client's user never changes once it has anything (`Clients`). For the order, what
a client has and what waits in its buffer are together taken, in order, from what
was published to it, which a full buffer leaves true: it drops the new event.
Then it goes on to the processes (ServesCompleteSchema, InterruptedForGood,
ServerImplementsLogStream, ServerTypeOK, and the two properties of the logs among
starts and crashes), for any number of processes and migrations.
`Exclusive` says that who works on the schema holds the lock, `Counted` that the
version counts the bodies that ran except while it is dirty, when only the
process that holds the lock knows whether the last one ran. `InterruptedForGood`
rests on two steps: while the flag is set and nobody holds the lock, both stay
so, and a process that is off gets no further than waiting for the lock.

`SequenceLemmas` says what flattening and collecting do to an appended or a joined
sequence. `FlattenSeq` is a recursive function, and a lemma about it needs
induction over the length, which the theorems of the library state for an operator
that the provers cannot instantiate. The induction is done for a set instead
(`NatInductionSet`, `SeqInductionSet`): a set of sequences that has the empty one
and is closed under `Append` has all.

Only model-checked: liveness (`RevokedDies`, `UpgradeHelps`, `QuotaResets`,
`RelayGoesOn`, `RequestEnds`, `PollingEnds`, `GoroutinesEnd`, `ShutdownEnds`), which
needs fairness and ENABLED.

## 5. Findings

The five violation runs are disagreements between what the repository says and
what its code does; each is described in `PROJECT.json` with the line it quotes.

Two more are plain in the code and need no run: `handleStream` never calls
`recordUsage`, although "Token usage is recorded" (`README.md:74`), so the tokens of
a streamed answer reach no counter (`StreamEnd` in `Metering`); and a migration
that was interrupted is not repaired by another start (see `Server`).

## 6. Left out

* Bodies and wording of errors, logging, layouts of answers; statuses outside the
  completion routes.
* Hashing and random generation: keys and codes are distinct, except in the
  mutant of `CreateAPIKey`.
* Views that only read (key list, pending device, history). The history reads
  the table `requests`, which no code writes, so it is always empty.
* The payment webhook verifies a signature and logs: no plan changes. The mailer
  is one call whose outcome nothing depends on. `max_api_keys` is in the plans
  table and no code compares anything with it.
* Token verification, which is Clerk's. An account without a primary address
  resolves to the empty email and shares its user with others like it; in the
  model the email is the identity of an account.
* The inner life of golang-migrate, Redis, PostgreSQL and fasthttp, which appear
  as far as the code uses them. The wait of a migration for the lock ends, in
  golang-migrate, after 15 seconds; that is a `Crash` here.
* An input of the Responses route that is a plain string, which becomes one user
  message. Token limits, `top_p` and the model name in requests.
* The seeder and the generated API documentation.

## 7. Plan

Done in the order planned: key validation and its cache, metering, the stream
pipe, device sign-in, translation, conversations, live logs; then key validation
with quotas and pages, the request around the stream, the processes around the
logs, and the proofs of each. Next:

1. `Metering` composed with `Server`, so that a shutdown's lost increments are those
   of its process.
2. A run for error events, whose body the Anthropic translator drops.
