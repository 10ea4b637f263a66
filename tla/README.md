# Semantic Validator in TLA+

Semantic Validator answers questions about texts ("is this a plausible
name?") by asking Jev, an external model, and charges its callers for it. It
consists of an HTTP server in Go, an administration CLI that shares the server's
key file, and SDKs in Go, TypeScript, Java and Python that call either the server
or Jev itself.

This directory models the parts in which order, failure and concurrency decide
whether the program is right: the key store, the path of a request, the server
process, the rate limiter, and both kinds of SDK clients. TLC checks each model on
small instances, and TLAPS proves their safety properties for every value of the
constants. Paths below are relative to the repository's root, `src/`.

## 1. Inventory

| Part | State it keeps | Operations | Where |
|---|---|---|---|
| Access store | a JSON file of keys (limit, day, units used, attempts, revoked), a mutex per `Store`, a lock file | Create, Revoke, List, Authenticate, Reserve, RecordProviderAttempt, all through `transaction` | `internal/access/store.go` |
| Keys CLI | none; opens the same file from another process | create, revoke, list | `cmd/keys/main.go` |
| Access HTTP layer | identity in the request's context | Middleware, ReserveRequest, CountProviderAttempt | `internal/access/http.go` |
| HTTP handlers | none | validate, check, batch | `internal/api/handler.go` |
| Validation service | none; a goroutine and a result slot per item of a batch | Validate, Check, ValidateBatch, evaluateAndCache | `internal/validation/service.go` |
| Result cache | a map behind an RWMutex | Get, Set | `internal/cache/memory.go` |
| Rule registry | a map that is fixed at start | Get | `internal/rules` |
| Provider client | none; one `http.Client` with a timeout | Evaluate, parseResponse | `internal/providers/jev/client.go` |
| Rate limiter | a bucket per address, the time of the last cleanup, a mutex | Middleware, allow, clientIP | `internal/ratelimit/middleware.go` |
| Direct SDK clients | per batch: a pool of up to 4 workers, an index, a results array | check, validate, validateBatch | `sdk/*` |
| Remote SDK clients | none; one HTTP exchange with the server per call | validate, check, validateBatch, post | `sdk/*` |
| Metrics | six atomic counters | Observe*, Snapshot | `internal/metrics/metrics.go` |
| Server process | listener, signal handling, the chain of middlewares | Load, buildHandler, start, Shutdown | `cmd/server/main.go` |
| Configuration | none after start: one of three modes (paused, a shared key, a file of keys) | Load | `internal/config` |
| Legacy authentication | none | Middleware, matches | `internal/auth` |
| Docs and health | none | – | `internal/api` |
| Evaluation and release tools | none between runs | – | `tools` |

How they interact. A request passes metrics, then `Store.Middleware` (one
read-only transaction), then the limiter, then its handler, which decodes it and
reserves its units (one transaction that writes). A batch starts one goroutine
per item. Each worker looks into the shared cache; on a miss it records an attempt
(another transaction) and only then calls Jev and stores the answer. The CLI
writes to the same file at any time, from a process of its own. The SDKs' direct
clients bypass all this: they are the whole program, with a pool of workers
that share a batch. Their remote clients send one request to the server, through
nginx, and give up after a time of their own.

What is hard about it, and what makes each part correct:

* **Access store.** Two kinds of locks (a mutex inside a process, `flock` between
  processes), a read-modify-write of a whole file, a dozen I/O calls that each may
  fail, a rename that takes effect before it is durable, midnight between
  two calls. It is correct if no update is lost, no key gets more than
  its limit in a day, nothing that a caller was told is forgotten in a crash or
  power cut, a revocation is final, and every call returns.
* **A request.** Its key may be revoked, the day may end, storage may fail and the
  server may die between any two of its steps; its items race with each other and
  with other requests for one cache, whose keys are texts joined with a character
  that the texts may hold. It is correct if units cover calls, answers belong to their
  question, refused keys cost nothing, and, once its client has sent its body, it is
  answered whatever Jev does.
* **Rate limiter.** The clock is read before the mutex is taken, and again to
  compute Retry-After; buckets are cleaned up by whoever comes next. It is correct
  if a client is charged for its own requests only, gets a bounded number of
  requests, is refused only when it had them, can rely on Retry-After, and leaves
  no bucket behind for ever.
* **A direct batch.** The same pool was written four times, on goroutines, on an
  event loop, on an ExecutorService and on a ThreadPoolExecutor, each with its own
  notion of failure, cancellation and timeouts. It is correct if each item has one
  result from at most one call, no call outlives the batch, the batch ends, and
  the languages agree.
* **A remote call.** Client and server are two programs that agree on nothing but the
  response. It is correct if what the application is told tells it what the call has
  cost, in every language and whatever was lost on the way, and if the call returns.
* **The server process.** Its environment decides who may call; signals come at
  any time; a scrape reads counters while they change. It is correct if only the
  configured tokens get anything evaluated, a signal ends it, and what a scrape
  shows is consistent as far as it can be.

`PROJECT.json` lists every hazard at its line with the properties that cover
it; those without one say why.

## 2. Modules

| Module | Models | Extends |
|---|---|---|
| `AccessOps` | what each operation does to the key map, as pure operators | |
| `AccessLedger` | abstract: a ledger on which every call is one indivisible step that, once acknowledged, lasts | `AccessOps` |
| `AccessStore` | `transaction` step by step, in several processes | `AccessOps` |
| `AccessRefinement` | the mapping from `AccessStore` to `AccessLedger` | `AccessStore` |
| `AccessOpsProofs`, `AccessStoreProofs` | proofs | |
| `CacheKey`, `CacheKeyProofs` | the keys of the result cache; proofs | |
| `SemanticService`, `SemanticServiceProofs` | a request from authentication to answer; proofs | `AccessOps`, `CacheKey` |
| `ServiceContract` | abstract: what a request costs, seen from outside | |
| `RemoteClient`, `RemoteClientProofs` | calls of the remote SDKs to the server of `ServiceContract`; proofs | |
| `ServerProcess`, `ServerProcessProofs` | configuration, start, shutdown, modes, metrics; proofs | |
| `RateLimiter`, `RateLimiterProofs` | the limiter; proofs | |
| `DirectAnswer` | how the SDKs and the server read an answer | |
| `DirectBatch`, `DirectBatchProofs` | the batch of a direct client; proofs | `DirectAnswer` |
| `MC*` | constants and inputs for TLC (each extends its module) | |

Definitions named as mutants in their comment (`FlockShared`, `ReserveOne`, ...)
are no part of any specification. They are mistakes one could make in the code;
each is paired in `PROJECT.json` with the property that finds it.

### AccessOps, AccessStore, AccessLedger

A key's record is `[status, limit, day, used, attempts]`; its name and hash are
left out, and a token is identified with its key. `Verdict` and `Updated` are the
closures that the operations pass to `transaction`, with the daily reset inside
them (`store.go:149-156`). Days are numbers; 0 is the empty day of a new key.

`AccessStore` gives each thread (a goroutine, or a run of the CLI) a program
counter for `transaction` (`store.go:49-111`):

| `pc` | the thread is about to | code |
|---|---|---|
| `mu` | take the mutex of its `Store` | 50 |
| `flock` | open and lock the lock file, or fail | 52-58 |
| `load` | read, decode and check the file, or fail | 61-78 |
| `apply` | run its closure on its own copy, with today's date | 79-81 |
| `save` | write and sync a temporary file, or fail | 82-101 |
| `rename` | rename it into place, or fail | 102-104 |
| `sync` | sync the directory, or fail after the fact | 105-110 |
| `release`, `unlock` | run its deferred unlocks and return | 51, 60 |

`file` is what a process reads; `survivors` are the contents the file may have
after a power cut, which grows with each rename and shrinks to one with each
sync of the directory. `Crash` ends all threads of a process and frees what they
hold; `PowerLoss` ends all processes and picks a survivor. A rename that was not
synced returns an error although it took effect: callers are not *told*, and the
history variables `granted`, `counted`, `printed`, `withdrawn` record just what
they are told.

`AccessLedger` is the promise, durable linearizability: between its invocation and
its return each call takes effect at one instant (`Execute`, or `Look` for one that
only reads or is refused), or fails, or (`Doubt`) reports an error for an effect it
had. `undo` is what the ledger may be after a power cut; a call that wrote returns
successfully only after `Settle`, by which its effect and all before it can no more
be undone. A process may die (`Abort`), and a `PowerCut` ends every call and may go
back to a state in `undo`. What a reader has seen may still be undone, since the
store gives its answer without a sync of its own. `AccessRefinement` maps `file` to
the ledger, `survivors` to `undo` and the program counters to phases (`Phase`); the
instant of a call that writes is its rename, and `sync` is where it is done and not
yet sure.

### CacheKey, SemanticService

`CacheKey` is the text that `cacheKey` hashes: operation, rule or question, version and
value, with a NUL between each two (`service.go:167-170`). SHA-256 is taken to tell
texts apart. The join does not tell its parts apart if they hold a NUL themselves,
which `validText` lets pass in questions and values: the check of `b` by the question
`q NUL 1 NUL a` and the check of `a NUL 1 NUL b` by the question `q` have one key, and
the second is answered with the result of the first. The models have such keys and
such pairs. `UniqueKey` proves that this is all: the key of a validation (rule IDs come
from the catalogue) and of a check without NULs is nobody else's. `SharedKey` proves
that it does happen.

`SemanticService` has one record of progress per request (`stage`) and one per item
(`at`). The stages are `auth`, `limit`, `decode` (the handler waits for the client's
body), `reserve`, `work`, `reply`. Each store
call is one step on `ledger`, as `AccessLedger` allows it, and may fail, also
after its effect. The steps of an item follow `evaluateAndCache`: look up, count
the attempt, send, wait for headers, wait for the body, store, done. What is evaluated
(`Subject`) is a set of records of operation, rule or question, version and value, and
the cache is a function on their keys. An answer is one of the three results, for
valid and invalid with a confidence of 0.80 at least and uncertain; the numbers
themselves are the business of `DirectAnswer`. The limiter may let any request
through or not (`Admit`, `Throttle`), since it is modelled by itself. `units` and `calls`
count for each key, over its whole life, what it was charged and what left for Jev;
`QuotaCoversCalls` ties the calls to the daily limit and the days that have begun.

`AnswersAreOwn` says of every item that its answer, fresh or from the cache, was given
by the provider for that very item, and of an item that shares its key (`Unmistakable`
is false of it) that it was given for one with the same key.

### ServiceContract, RemoteClient

`ServiceContract` has four phases of a request: `idle`, `open` (not charged),
`charged`, `done`. A refusal (401, 429, 400) is free, an answer (200, or an error of
its item or of the provider) is paid for in full, a 503 may be the one or the other.
`SemanticService` implements it (`ImplementsContract`, with `Phase` and `Price` as
the refinement mapping; an item does not show, nor does the day), and `RemoteClient`
is built on it: `Server == INSTANCE ServiceContract`, so that what is shown of
clients rests on a contract the server is proved to keep, and not on a second model
of the server.

`RemoteClient` chooses an SDK in its initial state. `at` is where the client is,
`net` what is left of its connection, `response` what was sent; `phase` and the rest
belong to the server. A client that gives up leaves its request on the way
(`End`), the proxy answers with a page of its own (`Proxy`), anything may be lost
(`Cut`), the server may die (`Die`). Where the languages differ they have an operator
each: `BodyFirst` and `StatusFirst` (TypeScript and Java parse the body before they
look at the status), `GoBreaks`, `TypeScriptBreaks`, `JavaBreaks`, `PythonBreaks`
(what an application is told of a timeout and of a connection that breaks, before and
after the headers). No SDK and none of their transports repeats a POST whose response
is lost, and nginx has one upstream to send it to; a repetition by the application is
another `Call`.

### ServerProcess

`env` is the environment by what `config.Load` makes of it, and `Mode` the result:
refused, documentation only, one shared key, keys of a file. `main` follows
`cmd/server/main.go`: `load`, `built`, `listen` (the signal handler is installed),
`bind` and `serve` (inside `ListenAndServe`, before and after it has registered its
listener), `return`, `exited`. `Signal` may come anywhere; before
`signal.NotifyContext` it kills. `closing` is what Shutdown leaves in the
`http.Server`: `ListenAndServe` refuses to start, and a running one returns.

A request takes each step that counts something by itself (`CountMiss`, `CountCall`,
`CountError`, `CountRequest`), and a scrape loads a counter per step (`LoadNext`, in
the order of `LoadOrder`). The ledger, the limiter and the results are in the other
modules; here a request may be refused at any time before its work starts.

### RateLimiter

A request reads the clock in one step (`Arrive`, which also chooses its address
from the forwarding headers) and enters `allow` in another. In between, `Tick` and
other handlers may overtake it. `Start`, `Fill` and `Refuse` are the three ways
through `allow`, each with the cleanup in front of it. Refuse reads the clock
again for Retry-After. The proxy appends the peer's address to the header
(`deploy/nginx`), which is external.

The history is that of one client, `Watched`: `admitted[x]` is how many of its requests
were let through at time `x` or later (`allow` returned true with the clock at that
time), so that what falls into a stretch of time is a difference of two of them
(`Burst`), without any sum. `Buckets` is how many buckets a stretch as long as a window
may meet: three, or four if a handler may be overtaken by more than half a
window. With a window of 4 and handlers overtaken by 3, for instance, the stretch
from 6 to 9 meets four.

### DirectAnswer, DirectBatch

An answer is a choice, a confidence and a probability of the choice, each of which
may be missing, `null`, a string, or a number (in hundredths). Each language has
an operator for what it makes of that, and so has the server. What the server
finds in documents of other forms is left open (`ServerReads` is a set).

`DirectBatch` chooses one of the four SDKs in its initial state and runs a batch.
Shared steps are written once; where languages differ, an operator or a guard
says so: what breaks off a call and how it is reported (`GoBreaks`,
`TypeScriptBreaks`, ...), the caller's context (Go), interruption (Java), an
exception that fails the whole batch (Java, Python). The context of a Go caller may be
canceled (`Cancel`) or reach its deadline (`Expire`); `Do` then returns at once, so that
items not sent yet become `provider_error` or `provider_timeout` without any call
(`BreakOff`, `Unsent`). The threshold of 0.80 is one constant in `Judge`, although
each language writes its own: a threshold that drifts in one of them shows in the
comparison with the source, not in `AnswersReadAlike`. The behaviours of the
runtimes are external: that the timeout of Java's HttpClient covers a
response up to its headers, that urllib wraps only the errors of sending a
request, that ThreadPoolExecutor waits for its threads when its `with` ends.

## 3. Runs

Deadlock is checked, except where the system comes to an end: the limiter's clock
reaches its bound, a batch or the calls of a client are over, the server process has
ended.

| Run | Instance | Shows |
|---|---|---|
| `store_power` | a goroutine and a CLI run, one key with limit 2 or 3, requests of 2 units, two days, one attempt, no new write while a power cut has more than two outcomes | `NoLostUpdate`, `QuotaKept`, `Remembered`, `RevocationIsFinal`, `CountersFollowTheDay`, `ImplementsLedger`, `IInv`, with every I/O error, crash and power cut |
| `store_threads` | two goroutines that share a mutex, and the CLI; one day | `NoLostUpdate` between three actors; `CallsReturn`: no error path keeps a lock, nobody waits for ever |
| `service` | a batch of one or two items and a single request, one key with limit 2; two rules, and two checks that share a key | `UnitsCoverCalls`, `AnswersAreOwn`, `LateIsRefused`, `RevocationStopsCharges`, `ImplementsContract` |
| `service_liveness` | a batch of two over midnight, one key with limit 2 | `RequestsAreAnswered`, `QuotaCoversCalls` |
| `service_revocation` | few jobs, no faults | *violated:* a call leaves after its key's revocation was reported |
| `service_unavailable` | few jobs, no faults | *violated:* a 503 although no storage failed |
| `service_timeout` | few jobs, no faults | *violated:* a timeout reported as a provider error |
| `limiter` | two handlers, two clients, limit 2, window of 3 ticks, 7 instants | `ChargedToPeer`, `BoundedBurst`, `PromiseKept`, `RefusedOnlyWhenFull`, `OldBucketsGo`, `IInv` |
| `direct_batch` | two workers; all batches of 2 or 3 items of six kinds, or one item with any answer; all SDKs | `EveryItemOnce`, `NothingLeftRunning`, `AnswersReadAlike`, `BatchEnds`, `IInv` |
| `direct_errors` | the same | *violated:* one broken connection, or one text that cannot be encoded, fails a Python batch |
| `server_process` | any environment; two requests at a time and in all, of one or two items or a scrape | `Balance`, `ScrapeAgrees`, `OnlyConfiguredTokens`, `SignalEndsProcess` |
| `remote_client` | a single call and a batch of two, any SDK | `CostIsKnown`, `CallReturns`, `IInv` |

The four violated properties quote the sentence of the repository that says
otherwise; `findings` in `PROJECT.json` explains each. Three are details of wording
or of timing that the code could well mean; the Python one loses the results of a
whole batch (and in the remote client lets an exception through that is not the
SDK's: the outcome `Thrown`).

Why the bounds are enough:

* *Store.* A lost update needs two threads, and a third makes the mutex and the
  file lock interact. Two days give one midnight, at which the reset can go wrong
  in either direction. Of requests of 2 units, one fits under limits of 2 and 3 and two
  do not, and a limit of 3 leaves a unit that no request gets. Renames not confirmed may pile up after failed syncs, so
  `MaxUnsynced` is above 1 in the run with power cuts. One key is enough, since
  an operation touches its own key only; that other keys survive it is part of
  the proof, which has any number of them.
* *Service.* Two items in a batch and one request beside it give every race on the
  cache: the same item twice in one batch, and once in another request; two checks with
  one key, asked one after the other. A limit of 2 is exactly a batch of two, or a batch
  of one and the single request, so that whatever comes next runs out of it.
* *Limiter.* Two handlers suffice for one to overtake the other; seven instants are
  two windows, so that a bucket is started, expires, is cleaned up
  and is started again. A second client cleans up the first one's bucket. Here a handler
  is overtaken by a third of a window; a bucket too many, which takes a delay of
  more than half of it, is the matter of the proof.
* *Batch.* Two workers and three items: one worker must come back for more, while
  the other is anywhere.
* *Server process.* A scrape is torn by one other request, and two items of it count
  in between each other. Connections are independent of each other but for the counters.
* *Remote client.* Calls meet only in the ledger and in a server that dies; two of them
  with different prices show a charge that goes to the wrong one.

Bounds that are part of a module are its constants `MaxDay`, `MaxAttempts`,
`MaxUnsynced` (AccessStore), `MaxItems` (SemanticService; 100 in the code),
`MaxTime` and `Delay` (RateLimiter),
`MaxItems` and `MaxRequests` (ServerProcess), `MaxItems` (ServiceContract,
RemoteClient). `Delay < Window` says that a handler does
not wait a whole minute for the mutex.

Fairness:

* `AccessStore`: a goroutine inside `transaction` goes on (weak); a waiter gets the
  mutex and the file lock in the end (strong): `sync.Mutex` hands itself over to a
  waiter that starves, and the `flock` is contended by a handful of processes that
  each hold it for one file write. Nothing is assumed of failures, callers or the clock.
* `SemanticService`: handlers, workers and `http.Client.Timeout` run (weak), and calls of
  the store return, with an error or without (`CallsReturn` of `AccessStore`). The provider
  is free to do nothing, and so is a client: the server limits the time for a request's
  header only (`ReadHeaderTimeout`, `cmd/server/main.go:39-43`), so that a body which does
  not come holds its handler for ever. `Decode`, `Malformed` and `Deliver`, which take the
  client, are not fair (`Exchange`), and `RequestsAreAnswered` speaks of a request up to
  its body and of one whose body was read.
* `DirectBatch`: workers and timeouts run (weak). Nothing is assumed of Jev or the
  network. That is why `BatchEnds` is stated for Go and Python: TypeScript clears
  its timer with the headers, and Java's covers no body, so that a body that never
  comes keeps their batches for ever. The timeout of urllib is one of each read from the
  connection; the direct client reads 2 MiB at most, and headers have a limit as well,
  so that its waits come to an end (unless Jev sends interim responses without end, which
  the model leaves out).
* `RemoteClient`: timeouts expire (weak); nothing is assumed of network, proxy and
  server. In TypeScript and Java they end with the headers. In Python each read has its
  own, and the remote client reads the body without a limit: one that trickles in
  may last for ever, so that the timeout is fair there only until the headers are in.
  `CallReturns` therefore promises an end in Go, and of all four that they do not wait for
  the headers for ever. (The clients are those that the SDKs make by default, with a
  timeout.)
* `ServerProcess`: `main` and the goroutine that waits for the signal go on (weak);
  nothing is assumed of the requests in progress, which may wait for ever.
* `RateLimiter`: none; it has no liveness property.

The clock never steps back in any model. The limiter compares monotonic times; the
store uses the UTC date, and a date that is set back would reset the counters again,
of which the repository promises nothing.

## 4. Proofs

Each of these holds for every value of the constants that satisfies the module's
assumption; tlapm checks it down to the last leaf.

| Module | Theorem | Says |
|---|---|---|
| `AccessStoreProofs` | `Invariance`, `TypeCorrect` | `PowerSpec => []IInv`, `[]TypeOK` |
| | `NoUpdateIsLost`, `QuotaIsKept`, `NothingIsForgotten` | `PowerSpec => []NoLostUpdate`, `[]QuotaKept`, `[]Remembered` |
| | `RevocationHolds` | `PowerSpec => RevocationIsFinal` |
| | `CountersAreDaily` | `PowerSpec => CountersFollowTheDay` (only a power cut itself may move a day back, to one that was not confirmed) |
| | `Linearizable` | `PowerSpec => ImplementsLedger` |
| `RateLimiterProofs` | `LimiterInvariance`, `LimiterTypes`, `LimiterChargesPeer` | `Spec => []IInv`, `[]TypeOK`, `[]ChargedToPeer` |
| | `LimiterKeepsPromise`, `LimiterForgets` | `Spec => []PromiseKept`, `Spec => OldBucketsGo` |
| | `BurstsAreBounded`, `LimiterRefusesWhenFull` | `Spec => []BoundedBurst`, `Spec => RefusedOnlyWhenFull` |
| `CacheKeyProofs` | `UniqueKey` | a validation, or a check without NULs, shares its cache key with nothing else |
| | `SharedKey` | two checks with NULs do share one |
| `SemanticServiceProofs` | `ServiceInvariance`, `ServiceTypes` | `Spec => []IInv`, `[]TypeOK` |
| | `CallsAreCovered`, `AnswersBelong`, `LateRequestsAreRefused` | `Spec => []UnitsCoverCalls`, `[]AnswersAreOwn`, `[]LateIsRefused` |
| | `CallsStayInBudget` | `Spec => []QuotaCoversCalls` |
| | `NoChargeOnceRevoked` | `Spec => RevocationStopsCharges` |
| | `ContractKept` | `Spec => ImplementsContract` |
| `RemoteClientProofs` | `CallInvariance`, `CallTypes`, `PriceIsKnown` | `Spec => []IInv`, `[]TypeOK`, `[]CostIsKnown` |
| `ServerProcessProofs` | `ProcessInvariance`, `ProcessTypes` | `Spec => []IInv`, `[]TypeOK` |
| | `CountersBalance`, `ScrapesAgree`, `TokensAreConfigured` | `Spec => []Balance`, `[]ScrapeAgrees`, `[]OnlyConfiguredTokens` |
| `DirectBatchProofs` | `BatchInvariance`, `BatchTypes`, `ItemsAreAnsweredOnce`, `NoCallIsLeft` | `Spec => []IInv`, `[]TypeOK`, `[]EveryItemOnce`, `[]NothingLeftRunning` |
| | `AnswersAgree` | `Spec => AnswersReadAlike` |

Assumptions: keys exist and limits are positive (`OpsAssumption`); the CLI's
threads are threads, each thread has a store (`StoreAssumption`); limit, window and
second are positive and a handler is overtaken by less than a window
(`LimiterAssumption`); there is a worker, and batches are not empty
(`BatchAssumption`); requests are finitely many and batches bounded
(`ServiceAssumption`, `ProcessAssumption`); NUL is a character, and the two operations
are different texts without it (`CharAssumption`); a call carries at least one item and at
most as many as the server takes (`CallAssumption`).

*The store.* `NoLostUpdate` alone is not inductive: it says that a thread between
`load` and `rename` works on the current file, which the next step keeps only if
nobody else can rename. `IInv` adds `Exclusive` (the thread that holds the flock is
exactly the one inside), which gives just that. `QuotaKept` and `Remembered` speak of
what callers are told, at the end of a transaction, so the invariant needs
to know before that what the file will say then: `InFlight` and `Due` hold it for
the thread about to sync. For power cuts all of this must hold of every disk
that may survive, not only of the file: `DiskSound`, `Remembered` and `Settled`
quantify over `survivors`. The lemmas of `AccessOpsProofs` say what each operation
does to a record; each step of `Next` has a lemma of its own; the steps that
leave the file alone share one (`QuietStep`).

*The ledger.* `LedgerStep` shows that each step of the store, a power cut included, is
one of the ledger or leaves its variables alone. The interesting steps are the rename
(`Execute`, by `Prepared`: the file is what it was when the closure ran), the closure of
a call that does not write (`Look`), the sync of the directory (`Settle`), its failure
(`Doubt`), and the power cut itself, which picks one of the survivors. Steps that only
move a call on before its effect, or after its answer, are stutters (`HiddenStep`).

*The limiter.* `Overtaken` bounds how old the time of a handler is, `Table` says
that a bucket is not older than a window at the last cleanup, `Owed` that the
promise outlasts the bucket it was made for. Rounding to seconds is in
`RoundedUp`.

`BoundedBurst` says nothing of buckets, only how much was let through between two
times; `Filled` ties the history to the table. It bounds the requests that were let
through after the last request of the current bucket, of the one before it, and of
those before that, by how old the bucket and the last cleanup are. It has two chains of
bounds, since a bucket may follow another in two ways: by expiry, a window after the
other was started, or after a cleanup, which may have been overtaken by a handler that
read its time earlier. That is also where the fourth bucket comes from: an overtaken
handler that finds no bucket starts one with the time of *its* clock. `Cleaned`,
`Start` and `Fill` each have a lemma about `Filled` (`FilledCleaned`, `FilledStarted`,
`FilledFilled`), stated of numbers and not of states, and so has the mere passing of
time (`FilledKept`). `FilledBounds` reads off it the bound on a stretch of time that is
not over; of one that is over the history no longer changes (`HistoryGrows`).
`RefusedOnlyWhenFull` rests on the other half of `Filled`: as many requests as a bucket
counts were let through after it was started.

*Cache keys.* Reading two joined texts from the left, the first NUL is at the same place
in both, so that parts without a NUL are the same one after the other (`SameParts`); what
is left at the end is the value. A check that holds a NUL in its question would need one
more NUL than a check without any has room for (`NoSpareNul`).

*The service.* `UnitsCoverCalls` counts workers that have yet to record or to send, so
that most of the proof is about how the cardinality of `Workers` changes when one item
moves on (`Moved`, and the lemmas on counting). `AnswersAreOwn` needs to know before an
item is stored that its result is the provider's, which `Evaluated` holds along with
what may be evaluated at all; `AnswersGiven` says of the cache and of answers, by keys,
what `UniqueKey` then turns into a statement about items. `RevocationStopsCharges` follows from `Withdrawn`: a key
whose revocation was reported is revoked in the ledger, and the ledger's verdict on it
is no. `QuotaCoversCalls` is proved of units first, which cover the calls. `Budgeted` says
that all units ever charged to a key are its limit for each day before the one it
was last stamped with, and what it has used on that one; the reset at midnight
gives up what was left of the old day and starts the next, and a reservation fits
into what is left of today's. For `ImplementsContract` each step is mapped to one of the contract or to a
stutter; the interesting ones are the reservation (`Charge`, or `Fail` when the store
fails after the fact), the end of the work (`Respond`), and a restart (`Die`).

*A remote call.* `CostIsKnown` speaks of the end of a call and says nothing of how it
got there; `Tally` says for each stage, at the server, on the wire and at the client,
what has been paid by then, and that nothing can be charged any more for a call whose
response is under way (`Settled`). A client that gives up earlier has no such claim,
which is why timeouts and lost connections are in neither `Refusal` nor `Answer`.

*The server process.* `Balance` counts the items that are between a miss and their
count. `Scrapes` is what makes a torn snapshot right: what was loaded of calls and
errors stays below the misses, which only grow and are loaded last. `Configured` keeps
requests from the middlewares when there are none.

*The batch.* `Handed` says that items which were handed out are with exactly one
worker or have a result, `Asked` counts the calls on the way, `Settled` ties a
result to its item and its call, or to the end of the context if there was no call.
`NothingLeftRunning` leaves out the Java caller that
is interrupted: `invokeAll` cancels its calls and does not wait for them.

## 5. What is model-checked only

* Liveness: `CallsReturn`, `RequestsAreAnswered`, `BatchEnds`, `SignalEndsProcess`,
  `CallReturns`. The prover does not reach liveness under fairness, nor `ENABLED`.
* The violated properties, by their nature.

## 6. What is not modelled

* Names, tokens and hashes; the JSON of files, requests and responses beyond well-formed
  or not; headers other than Retry-After and the forwarding header; what is logged or
  printed beyond the fact.
* The contents of documentation pages and of the rule catalogue: they are fixed.
* Quota headers (X-Quota-*, and Retry-After of a refused quota): nothing says what a
  client may rely on.
* The sum of latencies among the metrics.
* What the server makes of a document that is not of Jev's form: left open.
* Of the remote clients, the check of a result's fields and ids; of the direct ones,
  their constructors. A proxy that answers 200 by itself, and the 503 of a server in
  documentation-only mode: both come without a charge and are told as an invalid
  response or an error of their own.
* That requests in progress are drained when the server ends: they are not, and nothing
  promises it (`ServerProcess` ends at once, `SemanticService` has `Restart`,
  `RemoteClient` has `Die`).
* An access file damaged or edited by hand: it is refused by every operation.
* Tools, examples, deployment files.

## 7. Plan

Done, in this order: the store and its ledger with proofs; the path of a request; the
limiter with proofs; the direct batch with proofs; the server process with its metrics,
the remote clients on the contract of the server, and the proofs about a request; the
limiter's bounds over time, the budget of a key, and the ledger with power cuts, by proof.

What is left, the most important first:

1. *The two refinements composed*: that a request's view of the ledger in
   `SemanticService` is that of `AccessLedger`, by theorem instead of by construction
   (both use the operators of `AccessOps`).
2. *The server's reading of other documents* (`responseNode`), in which a member
   is chosen in the random order of a map.
3. *Quota headers*: Retry-After of a refused quota, whose day and
   time are read apart (`internal/access/http.go:33`).
