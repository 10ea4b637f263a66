-------------------------- MODULE SemanticService --------------------------
(***************************************************************************)
(* A request through the server: authentication, rate limiter, handler,    *)
(* reservation, then one worker per item -- the handler itself for         *)
(* validate and check, a goroutine each for a batch -- that looks into the *)
(* cache, records an attempt, calls the provider and stores its answer.    *)
(* (internal/access/http.go, internal/api/handler.go,                      *)
(* internal/validation/service.go, internal/cache, providers/jev/client.go)*)
(*                                                                         *)
(* Each call of the access store is one step on `ledger`, which is what    *)
(* AccessStore implements; it may also fail, with or without its effect.   *)
(***************************************************************************)
EXTENDS AccessOps, CacheKey, FiniteSets

CONSTANTS
  Conn,           \* the requests the server may be handling at one time
  Single,         \* those of them to validate or check; the others to batch
  Subject,        \* what may be evaluated
  Bad,            \* an item with an invalid value or an unknown rule
  Jobs,           \* [Conn -> the sets of item sequences it may carry]
  MaxItems,       \* bound: items in a batch (100 in handler.go:121)
  DailyLimit,     \* the limit of every key
  StorageFaults   \* whether the access store's I/O may fail

ASSUME ServiceAssumption ==
  /\ Subject \subseteq Evaluation
  /\ Bad \notin Subject
  /\ DailyLimit \in Nat \ {0}
  /\ MaxItems \in Nat \ {0}
  /\ IsFiniteSet(Conn)
  /\ StorageFaults \in BOOLEAN
  /\ Single \subseteq Conn
  /\ \A r \in Conn : \A js \in Jobs[r] :
       /\ js \in Seq(Subject \cup {Bad}) /\ js # <<>>
       /\ Len(js) <= IF r \in Single THEN 1 ELSE MaxItems

VARIABLES
  ledger,     \* the key map of the access store
  day,        \* today
  cache,      \* [CacheKeys -> the result kept in memory, or "none"]
  stage,      \* [Conn -> where its handler is]
  key,        \* [Conn -> the key it came with]
  items,      \* [Conn -> its items; <<>> is one the handler finds malformed]
  at,         \* [Conn -> [item -> where its worker is]]
  out,        \* [Conn -> [item -> its result or error]]
  status,     \* [Conn -> the HTTP status and code it is answered with]
  \* History, read by no action:
  revoked,    \* keys whose revocation the CLI has reported
  late,       \* requests that arrived after their key's revocation
  faulty,     \* requests that met a fault of the access store
  overdue,    \* requests and items whose provider call ran out of time
  answered,   \* [Subject -> results the provider has given for it]
  units,      \* [KeyId -> units ever reserved]
  attempts,   \* [KeyId -> attempts ever recorded]
  calls       \* [KeyId -> provider calls ever sent]

history == <<revoked, late, faulty, overdue, answered, units, attempts, calls>>
vars == <<ledger, day, cache, stage, key, items, at, out, status, history>>

\* What evaluateAndCache makes of an answer, by its value and confidence.
Result == {"valid", "invalid", "uncertain"}
Error == {"invalid_item", "usage_unavailable", "provider_timeout",
          "provider_error"}
Stage == {"idle", "auth", "limit", "decode", "reserve", "work", "reply"}
At == {"todo", "count", "call", "sent", "body", "store", "done"}
Status == {"none", "200", "400", "401", "429_rate", "429_quota", "503"} \cup Error

CacheKeys == {cacheKey(s) : s \in Subject}

TypeOK ==
  /\ ledger \in KeyMap
  /\ day \in Day
  /\ cache \in [CacheKeys -> Result \cup {"none"}]
  /\ stage \in [Conn -> Stage]
  /\ key \in [Conn -> KeyId]
  /\ \A r \in Conn :
       /\ items[r] \in Jobs[r] \cup {<<>>}
       /\ at[r] \in [DOMAIN items[r] -> At]
       /\ out[r] \in [DOMAIN items[r] -> Result \cup Error \cup {"none"}]
  /\ status \in [Conn -> Status]

\* A key that was created before the server started and is unused.  A key
\* that does not exist stands for a token that is missing or wrong.
Fresh == [status |-> "active", limit |-> DailyLimit, day |-> 0,
          used |-> 0, attempts |-> 0]

Init ==
  /\ ledger \in [KeyId -> {Fresh, Absent}]
  /\ day = 1
  /\ cache = [k \in CacheKeys |-> "none"]
  /\ stage = [r \in Conn |-> "idle"]
  /\ key \in [Conn -> {CHOOSE k \in KeyId : TRUE}]
  /\ items = [r \in Conn |-> <<>>]
  /\ at = [r \in Conn |-> <<>>]
  /\ out = [r \in Conn |-> <<>>]
  /\ status = [r \in Conn |-> "none"]
  /\ revoked = {} /\ late = {} /\ faulty = {} /\ overdue = {}
  /\ answered = [s \in Subject |-> {}]
  /\ units = [k \in KeyId |-> 0]
  /\ attempts = [k \in KeyId |-> 0]
  /\ calls = [k \in KeyId |-> 0]
-----------------------------------------------------------------------------
(***************************************************************************)
(* Up to the reservation.                                                  *)
(***************************************************************************)
request == <<key, items>>
work == <<at, out>>
counts == <<units, attempts, calls>>

Enter(r, s) == stage' = [stage EXCEPT ![r] = s]

\* The handler of r writes its answer.
Answer(r, s) ==
  Enter(r, "reply") /\ status' = [status EXCEPT ![r] = s]

Ask(o, r, n) == [op |-> o, key |-> key[r], arg |-> n]

\* A request comes in with a token of key k, carrying the items js.
Arrive(r, k, js) ==
  /\ stage[r] = "idle"
  /\ Enter(r, "auth")
  /\ key' = [key EXCEPT ![r] = k]
  /\ items' = [items EXCEPT ![r] = js]
  /\ at' = [at EXCEPT ![r] = [i \in DOMAIN js |-> "todo"]]
  /\ out' = [out EXCEPT ![r] = [i \in DOMAIN js |-> "none"]]
  /\ late' = IF k \in revoked THEN late \cup {r} ELSE late
  /\ UNCHANGED <<ledger, day, cache, status, revoked, faulty, overdue,
                 answered, counts>>

\* Mutant: a token is good once its key exists, revoked or not.
AuthenticateAny(r) ==
  /\ stage[r] = "auth"
  /\ IF ledger[key[r]].status # "absent"
     THEN Enter(r, "limit") /\ UNCHANGED status
     ELSE Answer(r, "401")
  /\ UNCHANGED <<ledger, day, cache, request, work, history>>

\* Store.Middleware: the token's key must exist and not be revoked.
Authenticate(r) ==
  /\ stage[r] = "auth"
  /\ IF Verdict(Ask("authenticate", r, 0), ledger, day) = "ok"
     THEN Enter(r, "limit") /\ UNCHANGED status
     ELSE Answer(r, "401")
  /\ UNCHANGED <<ledger, day, cache, request, work, history>>

\* The rate limiter lets the request through to its handler, or not.
Admit(r) ==
  /\ stage[r] = "limit"
  /\ Enter(r, "decode")
  /\ UNCHANGED <<ledger, day, cache, request, work, status, history>>

Throttle(r) ==
  /\ stage[r] = "limit"
  /\ Answer(r, "429_rate")
  /\ UNCHANGED <<ledger, day, cache, request, work, history>>

\* Mutant: a unit is reserved before the body is decoded.
MalformedCharged(r) ==
  LET q == Ask("reserve", r, 1) IN
  /\ stage[r] = "decode"
  /\ items[r] = <<>>
  /\ Verdict(q, ledger, day) = "ok"
  /\ ledger' = Updated(q, ledger, day)
  /\ units' = [units EXCEPT ![key[r]] = @ + 1]
  /\ Answer(r, "400")
  /\ UNCHANGED <<day, cache, request, work, revoked, late, faulty, overdue,
                 answered, attempts, calls>>

\* Method, rule, number of items or item IDs are wrong, or the body is, or it
\* breaks off: nothing is reserved.
Malformed(r) ==
  /\ stage[r] = "decode"
  /\ items[r] = <<>>
  /\ Answer(r, "400")
  /\ UNCHANGED <<ledger, day, cache, request, work, history>>

\* The client has sent its body, and it is well-formed.
Decode(r) ==
  /\ stage[r] = "decode"
  /\ items[r] # <<>>
  /\ Enter(r, "reserve")
  /\ UNCHANGED <<ledger, day, cache, request, work, status, history>>

\* Mutant: a batch is charged one unit, like a single operation.
ReserveOne(r) ==
  LET q == Ask("reserve", r, 1) IN
  /\ stage[r] = "reserve"
  /\ Verdict(q, ledger, day) = "ok"
  /\ ledger' = Updated(q, ledger, day)
  /\ units' = [units EXCEPT ![key[r]] = @ + 1]
  /\ Enter(r, "work")
  /\ UNCHANGED <<day, cache, request, work, status, revoked, late, faulty,
                 overdue, answered, attempts, calls>>

\* ReserveRequest: a unit for each item, or none at all.
Reserve(r) ==
  LET q == Ask("reserve", r, Len(items[r])) IN
  /\ stage[r] = "reserve"
  /\ Verdict(q, ledger, day) = "ok"
  /\ ledger' = Updated(q, ledger, day)
  /\ units' = [units EXCEPT ![key[r]] = @ + Len(items[r])]
  /\ Enter(r, "work")
  /\ UNCHANGED <<day, cache, request, work, status, revoked, late, faulty,
                 overdue, answered, attempts, calls>>

\* The quota does not suffice, or the key was revoked since Authenticate.
Refuse(r) ==
  LET v == Verdict(Ask("reserve", r, Len(items[r])), ledger, day) IN
  /\ stage[r] = "reserve"
  /\ v # "ok"
  /\ Answer(r, IF v = "quota" THEN "429_quota" ELSE "401")
  /\ UNCHANGED <<ledger, day, cache, request, work, history>>

\* The access store reports an error to Authenticate or to Reserve.  When its
\* last sync failed, the units are charged all the same.
StoreFails(r) ==
  LET q == Ask("reserve", r, Len(items[r])) IN
  /\ StorageFaults
  /\ \/ stage[r] = "auth" /\ UNCHANGED <<ledger, units>>
     \/ stage[r] = "reserve" /\ UNCHANGED <<ledger, units>>
     \/ /\ stage[r] = "reserve"
        /\ Verdict(q, ledger, day) = "ok"
        /\ ledger' = Updated(q, ledger, day)
        /\ units' = [units EXCEPT ![key[r]] = @ + Len(items[r])]
  /\ Answer(r, "503")
  /\ faulty' = faulty \cup {r}
  /\ UNCHANGED <<day, cache, request, work, revoked, late, overdue, answered,
                 attempts, calls>>
-----------------------------------------------------------------------------
(***************************************************************************)
(* The worker of item i of request r.                                      *)
(***************************************************************************)
Working(r, i, p) ==
  stage[r] = "work" /\ i \in DOMAIN items[r] /\ at[r][i] = p

Move(r, i, p) == at' = [at EXCEPT ![r][i] = p]

Finish(r, i, o) ==
  Move(r, i, "done") /\ out' = [out EXCEPT ![r][i] = o]

frame == <<day, stage, request, status>>

\* Validate and Check: the item is checked and looked up in the cache.
Lookup(r, i) ==
  LET s == items[r][i]
      kept == cache[cacheKey(s)]
  IN
  /\ Working(r, i, "todo")
  /\ \/ s = Bad /\ Finish(r, i, "invalid_item")
     \/ s # Bad /\ kept # "none" /\ Finish(r, i, kept)
     \/ s # Bad /\ kept = "none" /\ Move(r, i, "count") /\ UNCHANGED out
  /\ UNCHANGED <<ledger, cache, frame, history>>

\* Mutant: the attempt is recorded for a revoked key, too.
CountRevoked(r, i) ==
  LET q == Ask("attempt", r, 0) IN
  /\ Working(r, i, "count")
  /\ ledger' = Updated(q, ledger, day)
  /\ attempts' = [attempts EXCEPT ![key[r]] = @ + 1]
  /\ Move(r, i, "call")
  /\ UNCHANGED <<cache, out, frame, revoked, late, faulty, overdue, answered,
                 units, calls>>

\* CountProviderAttempt: recorded before the provider is called.
Count(r, i) ==
  LET q == Ask("attempt", r, 0) IN
  /\ Working(r, i, "count")
  /\ Verdict(q, ledger, day) = "ok"
  /\ ledger' = Updated(q, ledger, day)
  /\ attempts' = [attempts EXCEPT ![key[r]] = @ + 1]
  /\ Move(r, i, "call")
  /\ UNCHANGED <<cache, out, frame, revoked, late, faulty, overdue, answered,
                 units, calls>>

\* Any error of the store, a revoked key included, is ErrAccounting.
CountRefused(r, i) ==
  /\ Working(r, i, "count")
  /\ Verdict(Ask("attempt", r, 0), ledger, day) # "ok"
  /\ Finish(r, i, "usage_unavailable")
  /\ UNCHANGED <<ledger, cache, frame, history>>

CountFails(r, i) ==
  LET q == Ask("attempt", r, 0) IN
  /\ StorageFaults
  /\ Working(r, i, "count")
  /\ \/ UNCHANGED <<ledger, attempts>>
     \/ /\ Verdict(q, ledger, day) = "ok"
        /\ ledger' = Updated(q, ledger, day)
        /\ attempts' = [attempts EXCEPT ![key[r]] = @ + 1]
  /\ Finish(r, i, "usage_unavailable")
  /\ faulty' = faulty \cup {r}
  /\ UNCHANGED <<cache, frame, revoked, late, overdue, answered, units, calls>>

\* httpClient.Do sends the request to the provider.
Send(r, i) ==
  /\ Working(r, i, "call")
  /\ Move(r, i, "sent")
  /\ calls' = [calls EXCEPT ![key[r]] = @ + 1]
  /\ UNCHANGED <<ledger, cache, out, frame, revoked, late, faulty, overdue,
                 answered, units, attempts>>

\* The response's header is in, and Do returns.
Header(r, i) ==
  /\ Working(r, i, "sent")
  /\ Move(r, i, "body")
  /\ UNCHANGED <<ledger, cache, out, frame, history>>

\* The connection fails or the client goes away; the status is no 2xx; or the
\* body has no answer with a confidence between 0 and 1.
CallFails(r, i) ==
  /\ Working(r, i, "sent") \/ Working(r, i, "body")
  /\ Finish(r, i, "provider_error")
  /\ UNCHANGED <<ledger, cache, frame, history>>

\* Mutant: nothing limits the time that the body may take.
TimesOutBeforeHeader(r, i) ==
  /\ Working(r, i, "sent") /\ Finish(r, i, "provider_timeout")
  /\ overdue' = overdue \cup {<<r, i>>}
  /\ UNCHANGED <<ledger, cache, frame, revoked, late, faulty, answered, counts>>

\* httpClient.Timeout runs out, before the header or while the body is read.
TimesOut(r, i) ==
  /\ \/ Working(r, i, "sent") /\ Finish(r, i, "provider_timeout")
     \/ Working(r, i, "body") /\ Finish(r, i, "provider_error")
  /\ overdue' = overdue \cup {<<r, i>>}
  /\ UNCHANGED <<ledger, cache, frame, revoked, late, faulty, answered, counts>>

\* The provider has answered with result o.
Receive(r, i, o) ==
  /\ Working(r, i, "body")
  /\ Move(r, i, "store")
  /\ out' = [out EXCEPT ![r][i] = o]
  /\ answered' = [answered EXCEPT ![items[r][i]] = @ \cup {o}]
  /\ UNCHANGED <<ledger, cache, frame, revoked, late, faulty, overdue, counts>>

\* setCached: the last answer stored wins.
Store(r, i) ==
  /\ Working(r, i, "store")
  /\ cache' = [cache EXCEPT ![cacheKey(items[r][i])] = out[r][i]]
  /\ Move(r, i, "done")
  /\ UNCHANGED <<ledger, out, frame, history>>

\* writeServiceError and writeResult.
Code(o) ==
  IF o = "usage_unavailable" THEN "503" ELSE IF o \in Error THEN o ELSE "200"

\* waitGroup.Wait() returns: every item of the batch has its result or error.
\* A single operation is answered with its own.
Respond(r) ==
  /\ stage[r] = "work"
  /\ \A i \in DOMAIN items[r] : at[r][i] = "done"
  /\ Answer(r, IF r \in Single THEN Code(out[r][1]) ELSE "200")
  /\ UNCHANGED <<ledger, day, cache, request, work, history>>

\* The answer is delivered (or its client is gone), the request forgotten.
Forget(R) ==
  /\ stage' = [r \in Conn |-> IF r \in R THEN "idle" ELSE stage[r]]
  /\ key' = [r \in Conn |->
               IF r \in R THEN CHOOSE k \in KeyId : TRUE ELSE key[r]]
  /\ items' = [r \in Conn |-> IF r \in R THEN <<>> ELSE items[r]]
  /\ at' = [r \in Conn |-> IF r \in R THEN <<>> ELSE at[r]]
  /\ out' = [r \in Conn |-> IF r \in R THEN <<>> ELSE out[r]]
  /\ status' = [r \in Conn |-> IF r \in R THEN "none" ELSE status[r]]
  /\ late' = late \ R
  /\ faulty' = faulty \ R
  /\ overdue' = {e \in overdue : e[1] \notin R}

Deliver(r) ==
  /\ stage[r] = "reply"
  /\ Forget({r})
  /\ UNCHANGED <<ledger, day, cache, revoked, answered, counts>>
-----------------------------------------------------------------------------
\* `keys revoke` of the CLI, and its report.
Revoke(k) ==
  /\ k \notin revoked /\ ledger[k].status # "absent"
  /\ ledger' = Updated([op |-> "revoke", key |-> k, arg |-> 0], ledger, day)
  /\ revoked' = revoked \cup {k}
  /\ UNCHANGED <<day, cache, stage, request, work, status, late, faulty,
                 overdue, answered, counts>>

Tick ==
  /\ day < MaxDay
  /\ day' = day + 1
  /\ UNCHANGED <<ledger, cache, stage, request, work, status, history>>

\* The server is killed and started again: the cache is empty, the ledger is
\* not.
Restart ==
  /\ Forget(Conn)
  /\ cache' = [k \in CacheKeys |-> "none"]
  /\ UNCHANGED <<ledger, day, revoked, answered, counts>>

\* What the handler does by itself, and what takes its client as well.
Gate(r) ==
  \/ Authenticate(r) \/ Admit(r) \/ Throttle(r)
  \/ Reserve(r) \/ Refuse(r) \/ StoreFails(r) \/ Respond(r)

Exchange(r) ==
  Decode(r) \/ Malformed(r) \/ Deliver(r)

\* What the worker does by itself, and what the provider does to it.
Local(r, i) ==
  \/ Lookup(r, i) \/ Count(r, i) \/ CountRefused(r, i) \/ CountFails(r, i)
  \/ Send(r, i) \/ TimesOut(r, i) \/ Store(r, i)

Remote(r, i) ==
  \/ Header(r, i) \/ CallFails(r, i) \/ \E o \in Result : Receive(r, i, o)

Next ==
  \/ \E r \in Conn :
       \/ \E k \in KeyId, js \in Jobs[r] \cup {<<>>} : Arrive(r, k, js)
       \/ Gate(r) \/ Exchange(r)
       \/ \E i \in DOMAIN items[r] : Local(r, i) \/ Remote(r, i)
  \/ \E k \in KeyId : Revoke(k)
  \/ Tick
  \/ Restart

Spec == Init /\ [][Next]_vars

\* A handler or worker that can go on by itself does, and http.Client.Timeout
\* runs out.  The calls of the store return, with an error or without (that is
\* CallsReturn of AccessStore).  Nothing is assumed of the provider, of
\* revocations, of the clock or of clients: one may keep its handler waiting for
\* its body for ever, since the server limits the time for the header only
\* (cmd/server/main.go:39-43).
Fairness ==
  \A r \in Conn :
    /\ WF_vars(Gate(r))
    /\ \A i \in 1..MaxItems : WF_vars(i \in DOMAIN items[r] /\ Local(r, i))

FairSpec == Spec /\ Fairness
-----------------------------------------------------------------------------
(***************************************************************************)
(* Properties.                                                             *)
(***************************************************************************)
Workers(k, P) ==
  {e \in Conn \X (1..MaxItems) :
     stage[e[1]] = "work" /\ key[e[1]] = k /\ e[2] \in DOMAIN items[e[1]]
     /\ at[e[1]][e[2]] \in P}

\* Units cover attempts and attempts cover calls, what workers may still do
\* included: no call leaves unrecorded, no attempt is recorded that no unit was
\* reserved for, over retries, crashes and midnight (service.go:122-126).
UnitsCoverCalls ==
  \A k \in KeyId :
    /\ calls[k] + Cardinality(Workers(k, {"call"})) <= attempts[k]
    /\ attempts[k] + Cardinality(Workers(k, {"todo", "count"})) <= units[k]

\* What a key can cost: no more provider calls leave for it than its daily limit
\* allows since its first day, whatever is killed, fails, is revoked or goes on
\* over midnight (http.go:59-86, store.go:149-156, 195, service.go:122-126).
QuotaCoversCalls == \A k \in KeyId : calls[k] <= DailyLimit * day

\* The answers in f for all that has the key of s.
Given(f, s) ==
  UNION {f[u] : u \in {v \in Subject : cacheKey(v) = cacheKey(s)}}

\* What an item is answered with, from the cache or from the provider, and
\* what the cache keeps, is a result the provider gave for that very item;
\* failures are never kept.  Only an item that shares its key, a check of texts
\* with a NUL, may get an answer given for another (service.go:75-79, 91-95,
\* 103-116, 167-170).
AnswersAreOwn ==
  LET Own(s) == IF Unmistakable(s) THEN answered[s] ELSE Given(answered, s) IN
  /\ \A s \in Subject : cache[cacheKey(s)] # "none" => cache[cacheKey(s)] \in Own(s)
  /\ \A r \in Conn : \A i \in DOMAIN items[r] :
       out[r][i] \in Result => items[r][i] # Bad /\ out[r][i] \in Own(items[r][i])

\* A request that arrives after its key's revocation was reported is refused:
\* it reaches neither limiter nor handler (http.go:42-57).
LateIsRefused ==
  \A r \in late : stage[r] \in {"auth", "reply"} /\ status[r] \in {"none", "401", "503"}

\* From then on no unit and no attempt is charged to that key, for requests
\* that were already past Authenticate either (store.go:190, 209).
RevocationStopsCharges ==
  [][\A k \in revoked : units'[k] = units[k] /\ attempts'[k] = attempts[k]]_vars

\* Every request gets as far as its body, or is refused; and once the body is
\* read it is answered, whatever the provider does, unless the server dies
\* (http.go:42-57, handler.go:59-150, service.go:118).
RequestsAreAnswered ==
  \A r \in Conn :
    /\ stage[r] \in {"auth", "limit"} ~> stage[r] \in {"decode", "reply", "idle"}
    /\ stage[r] \in {"reserve", "work"} ~> stage[r] \in {"reply", "idle"}

\* What a client may tell of where its handler is.
Seen(s) ==
  CASE s \in {"auth", "limit", "decode", "reserve"} -> "open"
    [] s = "work" -> "charged"
    [] s = "reply" -> "done"
    [] OTHER -> "idle"

Phase == [r \in Conn |-> Seen(stage[r])]
Price == [r \in Conn |-> Len(items[r])]

Contract == INSTANCE ServiceContract
  WITH phase <- Phase, price <- Price

\* A refusal is free and an answer is paid for, once and in full, whatever fails
\* or is killed in between (http.go:42-74, handler.go:59-150).
ImplementsContract == Contract!Spec

\* "Revoking prevents new requests and new provider calls"
\* (deploy/individual-keys.md:48-49): no call leaves once it was reported.
RevocationStopsCalls == [][\A k \in revoked : calls'[k] = calls[k]]_vars

\* "Key or usage storage unavailable" (internal/api/openapi.yaml:420): a 503
\* tells of a fault of the storage.
UnavailableMeansFault == \A r \in Conn : status[r] = "503" => r \in faulty

\* "The semantic provider timed out" (internal/api/openapi.yaml:436): a call
\* that ran out of time is reported as such.
TimeoutIsReported ==
  \A e \in overdue : out[e[1]][e[2]] = "provider_timeout"
=============================================================================
