----------------------------- MODULE DirectBatch -----------------------------
(***************************************************************************)
(* A batch that one of the four SDKs sends straight to Jev, one call per   *)
(* item, from a pool of workers: goroutines that receive indices from a    *)
(* channel (sdk/go/direct.go), async functions that share a counter        *)
(* (sdk/typescript/src/index.ts), or a thread pool with a queue            *)
(* (DirectValidator.java, sdk/python/.../client.py).                       *)
(*                                                                         *)
(* The network and Jev are external: they may do anything, or nothing.     *)
(***************************************************************************)
EXTENDS Sequences, DirectAnswer

CONSTANTS
  Worker,   \* the pool (at most 4 in the code)
  Batches   \* the batches that may be asked for

VARIABLES
  sdk,      \* which SDK it is
  items,    \* the batch: each item's text and rule, and what Jev would answer
  next,     \* the items that were handed out
  at,       \* [Worker -> the item it is at, or 0]
  call,     \* [Worker -> where its call is]
  results,  \* per item: what its evaluation came to, or None
  sent,     \* per item: the calls that left for Jev
  batch,    \* where the caller of validateBatch is
  context   \* Go: the caller's context, which may be canceled or run out of time

work == <<next, at, call>>
vars == <<sdk, items, work, results, sent, batch, context>>

SDK == {"go", "typescript", "java", "python"}
Call == {"none", "taken", "asked", "reading"}
Verdict == {"true", "false", "uncertain"}
LocalError == {"invalid_request", "unknown_rule"}
Error == LocalError \cup {"provider_error", "provider_timeout", "invalid_response"}
Thrown == "thrown"  \* an exception that the worker does not catch
None == "none"
Outcome == Verdict \cup Error \cup {Thrown}

\* An item is fine or not ("no rule": its rule is null; "surrogate": its text has
\* a surrogate without its pair), and Jev has an answer.
Item ==
  [local : {"fine", "bad text", "unknown rule", "no rule", "surrogate"},
   answer : Document]

ASSUME BatchAssumption == Worker # {} /\ Batches \subseteq Seq(Item) \ {<<>>}

TypeOK ==
  /\ sdk \in SDK
  /\ items \in Batches
  /\ next \in 0 .. Len(items)
  /\ at \in [Worker -> 0 .. Len(items)]
  /\ call \in [Worker -> Call]
  /\ results \in [1 .. Len(items) -> Outcome \cup {None}]
  /\ sent \in [1 .. Len(items) -> Nat]
  /\ batch \in {"running", "raising", "returned", "raised", "interrupted"}
  /\ context \in {"live", "canceled", "expired"}

\* Batches of the wrong size or with ids that are not unique are refused at
\* once; so is a null rule, except by Java.  Go's rules are never null.  Only
\* Python fails to encode a surrogate.
Init ==
  /\ sdk \in SDK
  /\ items \in Batches
  /\ \A i \in 1 .. Len(items) :
       /\ items[i].local = "no rule" => sdk = "java"
       /\ items[i].local = "surrogate" => sdk = "python"
  /\ next = 0
  /\ at = [w \in Worker |-> 0]
  /\ call = [w \in Worker |-> "none"]
  /\ results = [i \in 1 .. Len(items) |-> None]
  /\ sent = [i \in 1 .. Len(items) |-> 0]
  /\ batch = "running"
  /\ context = "live"
-----------------------------------------------------------------------------
\* Mutant: one item too far.
TakePast(w) ==
  /\ batch = "running" /\ call[w] = "none" /\ next <= Len(items)
  /\ at' = [at EXCEPT ![w] = next + 1]
  /\ call' = [call EXCEPT ![w] = "taken"]
  /\ next' = next + 1
  /\ UNCHANGED <<sdk, items, results, sent, batch, context>>

\* Mutant: two workers read the counter before either advances it.
TakeTwice(w) ==
  /\ batch = "running" /\ call[w] = "none" /\ next < Len(items)
  /\ at' = [at EXCEPT ![w] = next + 1]
  /\ call' = [call EXCEPT ![w] = "taken"]
  /\ next' \in {next, next + 1}
  /\ UNCHANGED <<sdk, items, results, sent, batch, context>>

\* A worker gets the next item from the channel, the counter or the queue.
Take(w) ==
  /\ batch = "running" /\ call[w] = "none" /\ next < Len(items)
  /\ at' = [at EXCEPT ![w] = next + 1]
  /\ call' = [call EXCEPT ![w] = "taken"]
  /\ next' = next + 1
  /\ UNCHANGED <<sdk, items, results, sent, batch, context>>

\* The worker is through with its item.
Done(w, outcome) ==
  /\ at' = [at EXCEPT ![w] = 0]
  /\ call' = [call EXCEPT ![w] = "none"]
  /\ results' = [results EXCEPT ![at[w]] = outcome]
  /\ UNCHANGED <<sdk, items, next, sent, batch, context>>

\* What validate finds before it calls Jev: the text first, then the rule,
\* which Map.of of Java does not look up if it is null.  Python encodes the body
\* outside the try.
Local(item) ==
  CASE item.local = "bad text"     -> "invalid_request"
    [] item.local = "unknown rule" -> "unknown_rule"
    [] item.local \in {"no rule", "surrogate"} -> Thrown
    [] OTHER                       -> None

Reject(w) ==
  /\ call[w] = "taken" /\ Local(items[at[w]]) # None
  /\ Done(w, Local(items[at[w]]))

Send(w) ==
  /\ call[w] = "taken" /\ Local(items[at[w]]) = None /\ context = "live"
  /\ call' = [call EXCEPT ![w] = "asked"]
  /\ sent' = [sent EXCEPT ![at[w]] = @ + 1]
  /\ UNCHANGED <<sdk, items, next, at, results, batch, context>>

\* The response begins: its status and headers are there.
Header(w) ==
  /\ call[w] = "asked"
  /\ call' = [call EXCEPT ![w] = "reading"]
  /\ UNCHANGED <<sdk, items, next, at, results, sent, batch, context>>

\* A status other than 2xx.  Java reads the body first, to the same effect.
Status(w) ==
  /\ call[w] = "asked"
  /\ Done(w, "provider_error")

Receive(w) ==
  /\ call[w] = "reading"
  /\ Done(w, Read(sdk, items[at[w]].answer))

\* What breaks off a call: no connection, a connection that is closed or reset,
\* time that runs out.
Cause == {"refused", "closed", "reset", "timeout"}

\* Do returns an error, which is asked whether it is a timeout of the client or
\* of the caller's context; whatever ReadAll returns is an invalid response.
GoBreaks(stage, cause) ==
  IF stage = "reading" THEN "invalid_response"
  ELSE IF cause \in {"timeout", "expired"} THEN "provider_timeout"
  ELSE "provider_error"

\* The timer is stopped when the headers are there.
TypeScriptBreaks(stage, cause) ==
  IF stage = "reading" THEN (IF cause = "timeout" THEN None ELSE "invalid_response")
  ELSE IF cause = "timeout" THEN "provider_timeout" ELSE "provider_error"

\* So it is in HttpClient, which reads the body as part of send.
JavaBreaks(stage, cause) ==
  IF cause # "timeout" THEN "provider_error"
  ELSE IF stage = "reading" THEN None ELSE "provider_timeout"

\* urlopen wraps what goes wrong until the request is written; later a timeout
\* is caught, a connection that is closed or reset is not.  A body that is cut
\* short is no JSON.
PythonBreaks(stage, cause) ==
  CASE cause = "timeout" -> "provider_timeout"
    [] cause = "closed" /\ stage = "reading" -> "invalid_response"
    [] cause \in {"closed", "reset"} -> Thrown
    [] OTHER -> "provider_error"

Breaks(stage, cause) ==
  CASE sdk = "go"         -> GoBreaks(stage, cause)
    [] sdk = "typescript" -> TypeScriptBreaks(stage, cause)
    [] sdk = "java"       -> JavaBreaks(stage, cause)
    [] sdk = "python"     -> PythonBreaks(stage, cause)

Lost(w) ==
  \E cause \in Cause \ {"timeout"} :
    /\ call[w] \in {"asked", "reading"}
    /\ cause = "refused" => call[w] = "asked"
    /\ Done(w, Breaks(call[w], cause))

\* Mutant: no client bounds the body.
TimesOutEarly(w) ==
  /\ call[w] = "asked"
  /\ Done(w, Breaks(call[w], "timeout"))

\* The timeout of the call, where there is one.
TimesOut(w) ==
  /\ call[w] \in {"asked", "reading"}
  /\ Breaks(call[w], "timeout") # None
  /\ Done(w, Breaks(call[w], "timeout"))

\* Go: the caller cancels its context, or the deadline of the context passes;
\* calls that run are broken off, others are not made, and every item gets its
\* result all the same.
Cancel ==
  /\ sdk = "go" /\ batch = "running" /\ context = "live"
  /\ context' = "canceled"
  /\ UNCHANGED <<sdk, items, work, results, sent, batch>>

Expire ==
  /\ sdk = "go" /\ batch = "running" /\ context = "live"
  /\ context' = "expired"
  /\ UNCHANGED <<sdk, items, work, results, sent, batch>>

\* Do returns before it sends anything, if the context is over already.
BreakOff(w) ==
  /\ context # "live" /\ call[w] # "none"
  /\ call[w] = "taken" => Local(items[at[w]]) = None
  /\ Done(w, GoBreaks(call[w], context))

Busy == {w \in Worker : call[w] # "none"}

\* Mutant: nobody waits for the workers.
ReturnUnwaited ==
  /\ batch = "running" /\ next = Len(items)
  /\ \A i \in 1 .. next : results[i] # Thrown
  /\ batch' = "returned"
  /\ UNCHANGED <<sdk, items, work, results, sent, context>>

\* workers.Wait, Promise.all or invokeAll is through, or the last result of
\* pool.map is there.
Return ==
  /\ batch = "running" /\ next = Len(items) /\ Busy = {}
  /\ \A i \in 1 .. next : results[i] # Thrown
  /\ batch' = "returned"
  /\ UNCHANGED <<sdk, items, work, results, sent, context>>

\* Java: get of a worker that failed throws, once invokeAll is through.
Rethrow ==
  /\ sdk = "java" /\ batch = "running" /\ next = Len(items) /\ Busy = {}
  /\ \E i \in 1 .. next : results[i] = Thrown
  /\ batch' = "raised"
  /\ UNCHANGED <<sdk, items, work, results, sent, context>>

\* Python: the results are taken in order; the first that is an exception
\* cancels the items that are not begun.
Collapse ==
  /\ sdk = "python" /\ batch = "running"
  /\ \E i \in 1 .. next :
       results[i] = Thrown /\ \A j \in 1 .. i - 1 : results[j] # None
  /\ batch' = "raising"
  /\ UNCHANGED <<sdk, items, work, results, sent, context>>

\* The with statement waits for the others.
Raise ==
  /\ batch = "raising" /\ Busy = {}
  /\ batch' = "raised"
  /\ UNCHANGED <<sdk, items, work, results, sent, context>>

\* Java: the calling thread is interrupted; invokeAll cancels what is left and
\* does not wait.
Interrupt ==
  /\ sdk = "java" /\ batch = "running"
  /\ batch' = "interrupted"
  /\ UNCHANGED <<sdk, items, work, results, sent, context>>

\* The interrupted worker leaves its call.
Abandon(w) ==
  /\ batch = "interrupted" /\ call[w] # "none"
  /\ at' = [at EXCEPT ![w] = 0]
  /\ call' = [call EXCEPT ![w] = "none"]
  /\ UNCHANGED <<sdk, items, next, results, sent, batch, context>>

\* What the client does by itself, and what takes the network, Jev or the caller.
Advance(w) == Take(w) \/ Reject(w) \/ Send(w) \/ BreakOff(w) \/ Abandon(w)
Conclude == Return \/ Rethrow \/ Collapse \/ Raise
Outside(w) == Header(w) \/ Status(w) \/ Receive(w) \/ Lost(w)

Next ==
  \/ \E w \in Worker : Advance(w) \/ TimesOut(w) \/ Outside(w)
  \/ Conclude \/ Cancel \/ Expire \/ Interrupt

Spec == Init /\ [][Next]_vars

\* Workers run, and timeouts expire; nothing is assumed of Jev.
Fairness ==
  /\ \A w \in Worker : WF_vars(Advance(w)) /\ WF_vars(TimesOut(w))
  /\ WF_vars(Conclude)

FairSpec == Spec /\ Fairness
-----------------------------------------------------------------------------
\* What the end of the caller's context makes of an item that is not sent.
Unsent == IF context = "expired" THEN "provider_timeout" ELSE "provider_error"

\* A batch that returns has one result for each of its items.  It is the item's
\* own error if the item is not fine; then no call was made for it.  Else it is
\* what came of the one call, which was made unless the caller's context ended
\* first (direct.go:178-227, index.ts:310-333, DirectValidator.java:119-147,
\* client.py:255-274).
EveryItemOnce ==
  batch = "returned" =>
    \A i \in 1 .. Len(items) :
      /\ results[i] \in Verdict \cup Error
      /\ sent[i] <= 1
      /\ results[i] \in LocalError <=> items[i].local # "fine"
      /\ results[i] \in LocalError => sent[i] = 0
      /\ results[i] \notin LocalError /\ sent[i] = 0 =>
           context # "live" /\ results[i] = Unsent

\* Each item that was handed out is with one worker, or has its result; or, if
\* it was interrupted, neither.
Handed ==
  /\ \A w \in Worker : call[w] = "none" <=> at[w] = 0
  /\ \A w \in Worker : at[w] <= next
  /\ \A w, v \in Worker : at[w] = at[v] /\ at[w] # 0 => w = v
  /\ \A i \in 1 .. Len(items) :
       /\ results[i] # None => i <= next /\ \A w \in Worker : at[w] # i
       /\ i <= next /\ batch # "interrupted" /\ (\A w \in Worker : at[w] # i)
            => results[i] # None

\* An item is not sent before its worker asks, and then once.
Asked ==
  /\ \A i \in 1 .. Len(items) : i > next => sent[i] = 0
  /\ \A w \in Worker :
       /\ call[w] = "taken" => sent[at[w]] = 0
       /\ call[w] \in {"asked", "reading"} =>
            sent[at[w]] = 1 /\ Local(items[at[w]]) = None

\* A result agrees with its item and with whether it was sent; an item that is
\* fine and was not sent fell to the end of the context.
Settled ==
  \A i \in 1 .. Len(items) :
    results[i] # None =>
      /\ sent[i] <= 1
      /\ items[i].local # "fine" => results[i] = Local(items[i]) /\ sent[i] = 0
      /\ items[i].local = "fine" => results[i] \notin LocalError
      /\ items[i].local = "fine" /\ sent[i] = 0 =>
           context # "live" /\ results[i] = Unsent

\* A batch that has returned has a result for every item.
Complete ==
  batch = "returned" =>
    next = Len(items) /\ \A i \in 1 .. Len(items) : results[i] # Thrown

\* When validateBatch has returned or thrown, none of its calls is left in
\* flight, unless a Java caller was interrupted.
NothingLeftRunning == batch \in {"returned", "raised"} => Busy = {}

\* The inductive strengthening of the two.
IInv == TypeOK /\ Handed /\ Asked /\ Settled /\ Complete /\ NothingLeftRunning

\* An answer of the form that Jev gives is read the same way by every SDK and by
\* the server: the item's own choice if its score is 0.80 at least
\* (direct.go:142-174, index.ts:291-307, DirectValidator.java:98-116,
\* client.py:239-253; jev/client.go:97-176, validation/service.go:130-146).
AnswersReadAlike ==
  [][\A w \in Worker :
       Receive(w) /\ Regular(items[at[w]].answer) =>
         LET d == items[at[w]].answer
         IN /\ results'[at[w]] = IF Score(d) >= 80 THEN d.choice ELSE "uncertain"
            /\ ServerReads(d) = {results'[at[w]]}]_vars

\* In Go and Python a batch comes to its end whatever Jev does; the clients of
\* TypeScript and Java may wait for a body for ever.
BatchEnds == sdk \in {"go", "python"} => <>(batch \notin {"running", "raising"})

\* "Items can have their own errors" (sdk/python/README.md): the failure of an
\* item does not fail the batch.
ItemsHaveTheirOwnErrors == sdk = "python" => batch # "raised"
=============================================================================
