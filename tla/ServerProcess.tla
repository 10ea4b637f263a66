--------------------------- MODULE ServerProcess ---------------------------
(***************************************************************************)
(* The server as a process: the environment it is configured by, start and *)
(* shutdown, the three ways it serves /v1 (paused, one shared key, keys of *)
(* a file), and its metrics -- atomic counters that every request adds to  *)
(* one by one and that a scrape loads one by one (the sum of the latencies *)
(* is left out).                                                           *)
(* (cmd/server/main.go, internal/config, auth, metrics, api/paused.go)     *)
(*                                                                         *)
(* What a request does to the ledger, the cache and the provider is in     *)
(* SemanticService; here each of its items only passes the counters.       *)
(***************************************************************************)
EXTENDS Naturals, FiniteSets

CONSTANTS
  Conn,         \* the requests the server may be handling at one time
  MaxItems,     \* bound: items in a batch (100 in handler.go:121)
  MaxRequests   \* bound: requests in all

ASSUME ProcessAssumption ==
  IsFiniteSet(Conn) /\ MaxItems \in Nat \ {0} /\ MaxRequests \in Nat

VARIABLES
  env,        \* the environment variables
  main,       \* where main is
  exit,       \* how the process has ended, or "none"
  signalled,  \* SIGINT or SIGTERM has cancelled ctx
  closing,    \* Shutdown has been called
  stage,      \* [Conn -> where its handler is]
  token,      \* [Conn -> its bearer token; "" if it has none]
  at,         \* [Item -> where the evaluation of an item is, or "none"]
  stored,     \* there is a result in the cache
  metrics,    \* the counters
  snap,       \* [Conn -> the counters its Snapshot has loaded]
  loaded      \* [Conn -> how many these are]

process == <<env, main, exit, signalled, closing>>
scrape == <<snap, loaded>>
vars == <<process, stage, token, at, stored, metrics, scrape>>

\* By what the program makes of them: `always` stands for PORT and
\* TRUST_PROXY_HEADERS, `jev` for TYPESAFE_API_KEY and JEV_TIMEOUT, `shared`
\* for SEMANTIC_VALIDATOR_API_KEY and `file` for API_KEYS_FILE.
Env == [docsOnly : {"", "true", "junk"}, always : {"good", "bad"},
        jev : {"good", "bad"}, shared : {"", "shared"}, file : {"", "file"}]

Token == {"", "shared", "own", "wrong"}
Item == Conn \X (1..MaxItems)
Main == {"load", "built", "listen", "bind", "serve", "return", "exited"}
Stage == {"idle", "gate", "work", "scrape", "observe"}
At == {"none", "todo", "hit", "miss", "attempt", "call", "failed", "answered",
       "error", "read", "done"}

\* Mutant: the cache is loaded before the provider.
CacheFirst == <<"requests", "cacheHits", "cacheMisses", "jevRequests", "jevErrors">>

\* In the order of Snapshot.
LoadOrder == <<"requests", "jevRequests", "jevErrors", "cacheHits", "cacheMisses">>

Counter == {"requests", "jevRequests", "jevErrors", "cacheHits", "cacheMisses"}
NoCounts == [x \in Counter |-> 0]

TypeOK ==
  /\ env \in Env
  /\ main \in Main
  /\ exit \in {"none", "0", "1", "killed"}
  /\ signalled \in BOOLEAN /\ closing \in BOOLEAN /\ stored \in BOOLEAN
  /\ stage \in [Conn -> Stage]
  /\ token \in [Conn -> Token]
  /\ at \in [Item -> At]
  /\ \A e \in Item : at[e] # "none" => stage[e[1]] = "work"
  /\ metrics \in [Counter -> Nat]
  /\ snap \in [Conn -> [Counter -> Nat]]
  /\ loaded \in [Conn -> 0..5]

Init ==
  /\ env \in Env
  /\ main = "load" /\ exit = "none"
  /\ signalled = FALSE /\ closing = FALSE
  /\ stage = [c \in Conn |-> "idle"]
  /\ token = [c \in Conn |-> ""]
  /\ at = [e \in Item |-> "none"]
  /\ stored = FALSE
  /\ metrics = NoCounts
  /\ snap = [c \in Conn |-> NoCounts]
  /\ loaded = [c \in Conn |-> 0]
-----------------------------------------------------------------------------
(***************************************************************************)
(* main.                                                                   *)
(***************************************************************************)
\* config.Load: whatever is not needed to serve documentation is not read then.
Mode ==
  CASE env.docsOnly = "junk" \/ env.always = "bad" -> "refused"
    [] env.docsOnly = "true" /\ env.always = "good" -> "docs"
    [] env.docsOnly = "" /\ env.always = "good" ->
         IF env.jev = "bad" \/ (env.shared = "" /\ env.file = "")
         THEN "refused"
         ELSE IF env.file = "" THEN "shared" ELSE "keys"

Goto(m) == main' = m /\ UNCHANGED exit
Exit(how) ==
  /\ main' = "exited" /\ exit' = how
  /\ stage' = [c \in Conn |-> "idle"]
  /\ token' = [c \in Conn |-> ""]
  /\ at' = [e \in Item |-> "none"]
  /\ stored' = FALSE
  /\ metrics' = NoCounts
  /\ snap' = [c \in Conn |-> NoCounts]
  /\ loaded' = [c \in Conn |-> 0]

requests == <<stage, token, at, stored, metrics, scrape>>

Start ==
  /\ main = "load" /\ Mode # "refused"
  /\ Goto("built")
  /\ UNCHANGED <<env, signalled, closing, requests>>

\* log.Fatal: the configuration is refused, or access.Open fails.
StartFails ==
  /\ main = "load" /\ Mode \in {"refused", "keys"}
  /\ Exit("1")
  /\ UNCHANGED <<env, signalled, closing>>

\* signal.NotifyContext, and the goroutine that waits for it.
Notify ==
  /\ main = "built" /\ Goto("listen")
  /\ UNCHANGED <<env, signalled, closing, requests>>

\* Until then a signal kills the process.
Signal ==
  /\ main # "exited" /\ ~ signalled
  /\ IF main \in {"load", "built"}
     THEN Exit("killed") /\ UNCHANGED signalled
     ELSE signalled' = TRUE /\ UNCHANGED <<main, exit, requests>>
  /\ UNCHANGED <<env, closing>>

\* server.Shutdown closes the listener, then waits up to 5 seconds for the
\* requests in progress; nobody waits for it.
Shutdown ==
  /\ main \notin {"load", "built", "exited"} /\ signalled /\ ~ closing
  /\ closing' = TRUE
  /\ UNCHANGED <<env, main, exit, signalled, requests>>

\* ListenAndServe: not after Shutdown.
Listen ==
  /\ main = "listen" /\ ~ closing
  /\ Goto("bind")
  /\ UNCHANGED <<env, signalled, closing, requests>>

Bind ==
  /\ main = "bind" /\ Goto("serve")
  /\ UNCHANGED <<env, signalled, closing, requests>>

\* The port is taken, or Accept reports an error: os.Exit(1).
ListenFails ==
  /\ main = "bind" \/ (main = "serve" /\ ~ closing)
  /\ Exit("1")
  /\ UNCHANGED <<env, signalled, closing>>

\* Mutant: main waits until the requests in progress are done.
ServeDrained ==
  /\ main \in {"listen", "serve"} /\ closing
  /\ \A c \in Conn : stage[c] = "idle"
  /\ Goto("return")
  /\ UNCHANGED <<env, signalled, closing, requests>>

\* ListenAndServe returns ErrServerClosed as soon as Shutdown is called.
ServeReturns ==
  /\ main \in {"listen", "serve"} /\ closing
  /\ Goto("return")
  /\ UNCHANGED <<env, signalled, closing, requests>>

\* main returns: every goroutine is gone with it.
Return ==
  /\ main = "return" /\ Exit("0")
  /\ UNCHANGED <<env, signalled, closing>>
-----------------------------------------------------------------------------
(***************************************************************************)
(* Requests.  Each counts its own steps, in the middle of those of others. *)
(***************************************************************************)
Enter(c, s) == stage' = [stage EXCEPT ![c] = s]
\* The handler is done, and its token forgotten.
Finish(c) == Enter(c, "observe") /\ token' = [token EXCEPT ![c] = ""]
Move(e, p) == at' = [at EXCEPT ![e] = p]
Add(x) == metrics' = [metrics EXCEPT ![x] = @ + 1]

matches(provided, expected) == expected # "" /\ provided = expected

\* Mutant: the shared key is good beside the keys of the file.
AcceptsShared(t) == t = "own" \/ matches(t, env.shared)

\* Store.Middleware, when there is a file of keys, or else auth.Middleware.
Accepts(t) == IF Mode = "keys" THEN t = "own" ELSE matches(t, env.shared)

\* The mux: /metrics; static pages and, in documentation-only mode, /v1 are
\* answered at once; /v1 goes to the middlewares otherwise.
Route(path) ==
  CASE path = "metrics" -> "scrape"
    [] path = "page" -> "observe"
    [] path = "v1" -> IF Mode = "docs" THEN "observe" ELSE "gate"

Accept(c, path, t) ==
  /\ main = "serve" /\ ~ closing
  /\ stage[c] = "idle"
  /\ metrics.requests + Cardinality({d \in Conn : stage[d] # "idle"}) < MaxRequests
  /\ Enter(c, Route(path))
  /\ token' = [token EXCEPT ![c] = t]
  /\ UNCHANGED <<process, at, stored, metrics, scrape>>

\* The token is wrong, the client has used up its rate or its quota, or the
\* request is malformed.
Refuse(c) ==
  /\ stage[c] = "gate" /\ Finish(c)
  /\ UNCHANGED <<process, at, stored, metrics, scrape>>

\* The handler sets to work on n items.
Work(c, n) ==
  /\ stage[c] = "gate" /\ Accepts(token[c])
  /\ Enter(c, "work")
  /\ at' = [e \in Item |-> IF e[1] = c /\ e[2] <= n THEN "todo" ELSE at[e]]
  /\ UNCHANGED <<process, token, stored, metrics, scrape>>

itemFrame == <<process, stage, token, scrape>>

\* Memory.Get; an unknown rule or an invalid value does not get that far.
Get(e) ==
  /\ at[e] = "todo"
  /\ \/ Move(e, "done") \/ Move(e, "miss")
     \/ stored /\ Move(e, "hit")
  /\ UNCHANGED <<itemFrame, stored, metrics>>

CountHit(e) ==
  /\ at[e] = "hit" /\ Move(e, "done") /\ Add("cacheHits")
  /\ UNCHANGED <<itemFrame, stored>>

CountMiss(e) ==
  /\ at[e] = "miss" /\ Move(e, "attempt") /\ Add("cacheMisses")
  /\ UNCHANGED <<itemFrame, stored>>

\* CountProviderAttempt; without keys of their own nobody is counted.
Attempt(e) ==
  /\ at[e] = "attempt"
  /\ Move(e, "call") \/ (Mode = "keys" /\ Move(e, "done"))
  /\ UNCHANGED <<itemFrame, stored, metrics>>

\* httpClient.Do returns, with an error or without; or no request can be made
\* of TYPESAFE_BASE_URL.
Do(e) ==
  /\ at[e] = "call"
  /\ \E p \in {"failed", "answered", "done"} : Move(e, p)
  /\ UNCHANGED <<itemFrame, stored, metrics>>

\* Mutant: an error is counted in place of the request.
CountEither(e) ==
  /\ at[e] \in {"failed", "answered"}
  /\ Move(e, IF at[e] = "failed" THEN "error" ELSE "read")
  /\ IF at[e] = "failed" THEN UNCHANGED metrics ELSE Add("jevRequests")
  /\ UNCHANGED <<itemFrame, stored>>

\* ObserveJevRequest counts the request ...
CountCall(e) ==
  /\ at[e] \in {"failed", "answered"}
  /\ Move(e, IF at[e] = "failed" THEN "error" ELSE "read")
  /\ Add("jevRequests")
  /\ UNCHANGED <<itemFrame, stored>>

\* ... and then its error; what is wrong with an answer is no error here.
CountError(e) ==
  /\ at[e] = "error" /\ Move(e, "done") /\ Add("jevErrors")
  /\ UNCHANGED <<itemFrame, stored>>

Read(e) ==
  /\ at[e] = "read" /\ Move(e, "done") /\ stored' \in {stored, TRUE}
  /\ UNCHANGED <<itemFrame, metrics>>

\* Mutant: the batch is answered without a waitGroup.Wait().
RespondEarly(c) ==
  /\ stage[c] = "work" /\ Finish(c)
  /\ UNCHANGED <<process, at, stored, metrics, scrape>>

\* waitGroup.Wait() returns, or the single operation does.
Respond(c) ==
  /\ stage[c] = "work"
  /\ \A e \in Item : e[1] = c => at[e] \in {"none", "done"}
  /\ Finish(c)
  /\ at' = [e \in Item |-> IF e[1] = c THEN "none" ELSE at[e]]
  /\ UNCHANGED <<process, stored, metrics, scrape>>

\* Snapshot loads the next counter.
LoadNext(c) ==
  LET x == LoadOrder[loaded[c] + 1] IN
  /\ stage[c] = "scrape" /\ loaded[c] < 5
  /\ snap' = [snap EXCEPT ![c][x] = metrics[x]]
  /\ loaded' = [loaded EXCEPT ![c] = @ + 1]
  /\ UNCHANGED <<process, stage, token, at, stored, metrics>>

Scraped(c) ==
  /\ stage[c] = "scrape" /\ loaded[c] = 5 /\ Finish(c)
  /\ snap' = [snap EXCEPT ![c] = NoCounts]
  /\ loaded' = [loaded EXCEPT ![c] = 0]
  /\ UNCHANGED <<process, at, stored, metrics>>

\* ObserveRequest, of every request, a scrape included, when it is over.
CountRequest(c) ==
  /\ stage[c] = "observe" /\ Enter(c, "idle") /\ Add("requests")
  /\ UNCHANGED <<process, token, at, stored, scrape>>

MainStep ==
  \/ Start \/ StartFails \/ Notify \/ Listen \/ Bind \/ ListenFails
  \/ ServeReturns \/ Return

Evaluate(e) ==
  \/ Get(e) \/ CountHit(e) \/ CountMiss(e) \/ Attempt(e) \/ Do(e)
  \/ CountCall(e) \/ CountError(e) \/ Read(e)

Handle(c) ==
  \/ Refuse(c) \/ \E n \in 1..MaxItems : Work(c, n)
  \/ Respond(c) \/ LoadNext(c) \/ Scraped(c)
  \/ CountRequest(c)

Next ==
  \/ MainStep \/ Signal \/ Shutdown
  \/ \E c \in Conn :
       \/ Accept(c, "metrics", "") \/ Accept(c, "page", "")
       \/ \E t \in Token : Accept(c, "v1", t)
       \/ Handle(c)
  \/ \E e \in Item : Evaluate(e)

Spec == Init /\ [][Next]_vars

\* main and the goroutine that waits for the signal go on when they can;
\* nothing is assumed of the requests in progress.
Fairness == WF_vars(MainStep) /\ WF_vars(Shutdown)

FairSpec == Spec /\ Fairness
-----------------------------------------------------------------------------
(***************************************************************************)
(* Properties.                                                             *)
(***************************************************************************)
In(P) == Cardinality({e \in Item : at[e] \in P})

\* Every call counted has its miss, every error its call, and those that are
\* yet to be counted will have (cache/memory.go:27-35, metrics.go:37-42).
Balance ==
  /\ metrics.jevRequests + In({"attempt", "call", "failed", "answered"})
       <= metrics.cacheMisses
  /\ metrics.jevErrors + In({"error"}) <= metrics.jevRequests

\* A scrape, torn as it is, never shows more calls or more errors of the
\* provider than misses of the cache (metrics.go:52-61): a ratio of the two
\* stays a ratio.
ScrapeAgrees ==
  \A c \in Conn :
    loaded[c] = 5 =>
      /\ snap[c].jevRequests <= snap[c].cacheMisses
      /\ snap[c].jevErrors <= snap[c].cacheMisses

\* Nothing is evaluated in documentation-only mode, nor for a token other than
\* the environment asks for (config.go:22-66, main.go:66-90, auth/middleware.go:34-38).
OnlyConfiguredTokens ==
  \A e \in Item :
    at[e] # "none" =>
      /\ env.docsOnly = ""
      /\ token[e[1]] = IF env.file = "" THEN env.shared ELSE "own"
      /\ token[e[1]] # ""

\* A server that is asked to end does, whatever its requests are waiting for and
\* however early it is asked (main.go:41-60).
SignalEndsProcess == signalled ~> main = "exited"

\* What a scrape has loaded so far will agree with what it has yet to load.
Scrapes ==
  \A c \in Conn :
    loaded[c] < 5 =>
      /\ snap[c].jevRequests <= metrics.cacheMisses
      /\ snap[c].jevErrors <= metrics.cacheMisses

\* A server that takes requests has a valid configuration, and no request comes
\* near the middlewares in documentation-only mode.
Configured ==
  /\ main \notin {"load", "exited"} => Mode # "refused"
  /\ \A c \in Conn :
       stage[c] # "idle" => main \notin {"load", "exited"}
       /\ (stage[c] = "gate" => Mode # "docs")

\* The inductive strengthening of the invariants above.
IInv ==
  /\ TypeOK /\ Balance /\ Scrapes /\ ScrapeAgrees
  /\ Configured /\ OnlyConfiguredTokens
=============================================================================
