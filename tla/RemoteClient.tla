---------------------------- MODULE RemoteClient ----------------------------
(***************************************************************************)
(* Calls that an application makes through the remote client of one of the *)
(* four SDKs, over a network and a proxy, to the server of ServiceContract *)
(* (sdk/go/client.go, sdk/typescript/src/index.ts, sdk/python/.../client.py,*)
(* SemanticValidatorClient.java).  A client may give up while its request  *)
(* is on its way or in work: the server does not care.  No SDK repeats a   *)
(* call by itself; to the server an application that does so is another    *)
(* call.                                                                   *)
(*                                                                         *)
(* Network and proxy are external; the server is SemanticService.          *)
(***************************************************************************)
EXTENDS Naturals

CONSTANTS
  Call,       \* the calls the application makes
  Items,      \* [Call -> how many items it carries]
  KeyId,      \* the keys of the server
  MaxItems    \* bound: items in a batch (100 in the code)

ASSUME CallAssumption ==
  MaxItems \in Nat \ {0} /\ KeyId # {} /\ Items \in [Call -> 1..MaxItems]

VARIABLES
  sdk,        \* which SDK it is
  at,         \* [Call -> where the client is]
  net,        \* [Call -> what is left of its connection]
  response,   \* [Call -> the response that was sent to it]
  outcome,    \* [Call -> what the application gets]
  phase, key, price, status, units,   \* the server's
  paid        \* history: [Call -> units charged for it]

Server == INSTANCE ServiceContract WITH Conn <- Call

server == <<phase, key, price, status, units>>
client == <<at, outcome>>
wire == <<net, response>>
vars == <<sdk, client, wire, server, paid>>

SDK == {"go", "typescript", "java", "python"}
At == {"ready", "asked", "reading", "over"}
Net == {"none", "request", "server", "response", "refused", "lost"}

\* A response: its status is 2xx, its body is JSON, the code it gives of an error.
Nothing == [ok |-> FALSE, json |-> FALSE, code |-> ""]
Page == Nothing

\* writeError, writeResult and reply.
Written(s) ==
  CASE s = "200"       -> {[ok |-> TRUE, json |-> TRUE, code |-> ""]}
    [] s = "401"       -> {[ok |-> FALSE, json |-> TRUE, code |-> "unauthorized"]}
    [] s = "429_rate"  -> {[ok |-> FALSE, json |-> TRUE, code |-> "rate_limited"]}
    [] s = "429_quota" -> {[ok |-> FALSE, json |-> TRUE, code |-> "quota_exceeded"]}
    [] s = "400"       -> {[ok |-> FALSE, json |-> TRUE, code |-> "invalid_request"]}
    [] s = "503"       -> {[ok |-> FALSE, json |-> TRUE, code |-> "usage_unavailable"]}
    [] s = "invalid_item" -> {[ok |-> FALSE, json |-> TRUE, code |-> c] :
                                c \in {"invalid_request", "unknown_rule"}}
    [] OTHER           -> {[ok |-> FALSE, json |-> TRUE, code |-> s]}

Sent == {Nothing} \cup UNION {Written(s) : s \in Server!Status}

\* What an application may conclude from.
Refusal == {"rejected", "unauthorized", "rate_limited", "quota_exceeded"}
Answer == {"result", "unknown_rule", "provider_timeout", "provider_error"}
Local == {"timeout", "transport_error", "invalid_response", "http_error", "canceled"}
Thrown == "thrown"  \* an exception that is not the SDK's
Outcome == {"none", "invalid_request", "usage_unavailable", Thrown}
             \cup Refusal \cup Answer \cup Local

TypeOK ==
  /\ sdk \in SDK
  /\ at \in [Call -> At]
  /\ net \in [Call -> Net]
  /\ response \in [Call -> Sent]
  /\ outcome \in [Call -> Outcome]
  /\ phase \in [Call -> Server!Phase]
  /\ key \in [Call -> KeyId]
  /\ price \in [Call -> 0..MaxItems]
  /\ status \in [Call -> Server!Status]
  /\ units \in [KeyId -> Nat]
  /\ paid \in [Call -> 0..MaxItems]

Init ==
  /\ sdk \in SDK
  /\ at = [c \in Call |-> "ready"]
  /\ net = [c \in Call |-> "none"]
  /\ response = [c \in Call |-> Nothing]
  /\ outcome = [c \in Call |-> "none"]
  /\ Server!Init
  /\ paid = [c \in Call |-> 0]
-----------------------------------------------------------------------------
(***************************************************************************)
(* The network, the proxy and the server.                                  *)
(***************************************************************************)
Turn(c, n) == net' = [net EXCEPT ![c] = n]

\* Mutant: the proxy sends the request again.
ArriveAgain(c, k) ==
  /\ net[c] = "request" /\ net' \in {net, [net EXCEPT ![c] = "server"]}
  /\ \E n \in {0, Items[c]} : Server!Open(c, k, n)
  /\ UNCHANGED <<sdk, client, response, paid>>

\* The request gets there, perhaps when its client is gone; its JSON may be one
\* that the handler refuses.
Arrive(c, k) ==
  /\ net[c] = "request" /\ Turn(c, IF at[c] = "over" THEN "none" ELSE "server")
  /\ \E n \in {0, Items[c]} : Server!Open(c, k, n)
  /\ UNCHANGED <<sdk, client, response, paid>>

Handle(c) ==
  /\ Server!Refuse(c) \/ Server!Charge(c) \/ Server!Fail(c) \/ Server!Respond(c)
  /\ paid' = [paid EXCEPT ![c] = @ + (units'[key[c]] - units[key[c]])]
  /\ UNCHANGED <<sdk, client, wire>>

\* The answer is written, to a connection or to nobody.
Deliver(c) ==
  /\ Server!Deliver(c)
  /\ IF net[c] = "server"
     THEN Turn(c, "response")
          /\ \E p \in Written(status[c]) : response' = [response EXCEPT ![c] = p]
     ELSE UNCHANGED wire
  /\ UNCHANGED <<sdk, client, paid>>

\* 502 or 504 of the proxy: the server is not there, or takes too long.
Proxy(c) ==
  /\ at[c] # "over" /\ net[c] \in {"request", "server"} /\ Turn(c, "response")
  /\ response' = [response EXCEPT ![c] = Page]
  /\ UNCHANGED <<sdk, client, server, paid>>

\* The connection is refused, closed or reset; what the server does goes on.
Cut(c) ==
  /\ \/ at[c] = "over" /\ net[c] = "request" /\ Turn(c, "none")
     \/ at[c] # "over" /\ net[c] = "request" /\ Turn(c, "refused")
     \/ at[c] # "over" /\ net[c] \in {"request", "server", "response"}
        /\ Turn(c, "lost")
  /\ UNCHANGED <<sdk, client, response, server, paid>>

\* The server is killed, or told to end (main.go:57).
Die ==
  /\ Server!Die
  /\ net' = [c \in Call |-> IF net[c] = "server" THEN "lost" ELSE net[c]]
  /\ UNCHANGED <<sdk, client, response, paid>>
-----------------------------------------------------------------------------
(***************************************************************************)
(* The client.                                                             *)
(***************************************************************************)
\* The client closes its connection; a request that is on its way may get there.
End(c, o) ==
  /\ at' = [at EXCEPT ![c] = "over"]
  /\ outcome' = [outcome EXCEPT ![c] = o]
  /\ Turn(c, IF net[c] = "request" THEN "request" ELSE "none")
  /\ response' = [response EXCEPT ![c] = Nothing]
  /\ UNCHANGED <<sdk, server, paid>>

\* No key, no item or too many of them, ids that are missing or not unique; or,
\* in Python, a text that cannot be encoded.
Reject(c) ==
  /\ at[c] = "ready"
  /\ End(c, "rejected") \/ (sdk = "python" /\ End(c, Thrown))

Ask(c) ==
  /\ at[c] = "ready"
  /\ at' = [at EXCEPT ![c] = "asked"]
  /\ Turn(c, "request")
  /\ UNCHANGED <<sdk, outcome, response, server, paid>>

\* Status and headers are there.
Header(c) ==
  /\ at[c] = "asked" /\ net[c] = "response"
  /\ at' = [at EXCEPT ![c] = "reading"]
  /\ UNCHANGED <<sdk, outcome, wire, server, paid>>

\* Mutant: whatever is JSON is a result.
AnyJSON(p) ==
  IF ~ p.json THEN "invalid_response" ELSE "result"

\* TypeScript and Java parse the body before they look at the status ...
BodyFirst(p) ==
  CASE ~ p.json -> "invalid_response"
    [] p.json /\ p.ok -> "result"
    [] p.json /\ ~ p.ok -> IF p.code = "" THEN "http_error" ELSE p.code

\* ... Go and Python look at the status first.
StatusFirst(p) ==
  CASE ~ p.ok -> IF p.json /\ p.code # "" THEN p.code ELSE "http_error"
    [] p.ok -> IF p.json THEN "result" ELSE "invalid_response"

Reads(p) == IF sdk \in {"typescript", "java"} THEN BodyFirst(p) ELSE StatusFirst(p)

Read(c) ==
  /\ at[c] = "reading" /\ net[c] = "response"
  /\ End(c, Reads(response[c]))

\* Mutant: errors are passed on as they are.
GoPasses(stage, how) == how

\* Every error of Do and of ReadAll is wrapped.
GoBreaks(stage, how) == IF how = "timeout" THEN "timeout" ELSE "transport_error"

\* fetch fails; later response.json does, but the timer is cleared then.
TypeScriptBreaks(stage, how) ==
  IF stage = "asked" THEN (IF how = "timeout" THEN "timeout" ELSE "transport_error")
  ELSE IF how = "timeout" THEN "none" ELSE "invalid_response"

\* send throws an IOException; its timeout ends with the headers.
JavaBreaks(stage, how) ==
  IF how # "timeout" THEN "transport_error"
  ELSE IF stage = "asked" THEN "timeout" ELSE "none"

\* urlopen wraps what goes wrong until the request is written (a connection that
\* times out is "refused" here), and _post catches a timeout; but neither
\* RemoteDisconnected, ConnectionResetError and IncompleteRead, nor anything that
\* befalls the body of an error.
PythonBreaks(stage, how, ok) ==
  CASE how = "refused" -> "transport_error"
    [] how = "timeout" -> IF stage = "reading" /\ ~ ok THEN Thrown ELSE "timeout"
    [] OTHER -> Thrown

Breaks(c, how) ==
  CASE sdk = "go"         -> GoBreaks(at[c], how)
    [] sdk = "typescript" -> TypeScriptBreaks(at[c], how)
    [] sdk = "java"       -> JavaBreaks(at[c], how)
    [] sdk = "python"     -> PythonBreaks(at[c], how, response[c].ok)

Break(c) ==
  /\ at[c] \in {"asked", "reading"} /\ net[c] \in {"refused", "lost"}
  /\ End(c, Breaks(c, net[c]))

\* Mutant: the timeout does not reach the body.
TimesOutEarly(c) ==
  at[c] = "asked" /\ End(c, Breaks(c, "timeout"))

\* The timeout of the call, where there is one.  That of Python is one of each
\* read from the connection: it ends a silence.
TimesOut(c) ==
  /\ at[c] \in {"asked", "reading"}
  /\ Breaks(c, "timeout") # "none"
  /\ End(c, Breaks(c, "timeout"))

\* The context of a Go caller is canceled, a Java caller is interrupted.
Cancel(c) ==
  /\ sdk \in {"go", "java"} /\ at[c] \in {"asked", "reading"}
  /\ End(c, "canceled")

Next ==
  \/ \E c \in Call :
       \/ \E k \in KeyId : Arrive(c, k)
       \/ Handle(c) \/ Deliver(c) \/ Proxy(c) \/ Cut(c)
       \/ Reject(c) \/ Ask(c) \/ Header(c) \/ Read(c) \/ Break(c)
       \/ TimesOut(c) \/ Cancel(c)
  \/ Die

Spec == Init /\ [][Next]_vars

\* Timeouts expire; nothing is assumed of network, proxy and server.  Python reads
\* the headers up to a limit, but a body that trickles in for ever without ever
\* running into the timeout.
Fairness ==
  \A c \in Call : WF_vars((sdk = "python" => at[c] = "asked") /\ TimesOut(c))

FairSpec == Spec /\ Fairness
-----------------------------------------------------------------------------
(***************************************************************************)
(* Properties.                                                             *)
(***************************************************************************)
\* From its outcome an application knows the price of a call, in every SDK and
\* whatever was lost: a refusal was and stays free, an answer was paid for, and
\* no call is paid for twice or in part.  Of every other outcome it may be the
\* one or the other, or yet to come: only after a refusal can a call be repeated
\* without paying twice (client.go:180-225, index.ts:108-153, client.py:131-174,
\* SemanticValidatorClient.java:123-151; http.go:59-74, handler.go:59-150).
CostIsKnown ==
  \A c \in Call :
    /\ paid[c] \in {0, Items[c]}
    /\ outcome[c] \in Refusal => paid[c] = 0
    /\ outcome[c] \in Answer => paid[c] = Items[c]

\* Nothing is left that could still be charged for c.
Settled(c) == at[c] # "ready" /\ net[c] # "request" /\ phase[c] = "idle"

\* What every stage of a call, at the server and back, says of its price.
Tally(c) ==
  /\ at[c] = "ready" \/ net[c] = "request" => phase[c] = "idle" /\ paid[c] = 0
  /\ at[c] = "ready" => net[c] = "none"
  /\ net[c] = "server" => phase[c] # "idle"
  /\ phase[c] = "open" => paid[c] = 0 /\ price[c] \in {0, Items[c]}
  /\ phase[c] = "charged" => paid[c] = Items[c]
  /\ phase[c] = "done" =>
       /\ status[c] # "none"
       /\ status[c] \in Server!Free => paid[c] = 0
       /\ status[c] \in Server!Paid => paid[c] = Items[c]
  /\ response[c].json =>
       /\ Settled(c)
       /\ response[c].code \in Refusal => paid[c] = 0
       /\ response[c].ok \/ response[c].code \in Answer => paid[c] = Items[c]
  /\ outcome[c] \in Refusal => Settled(c)

\* The inductive strengthening.
IInv == TypeOK /\ CostIsKnown /\ \A c \in Call : Tally(c)

\* A call does not wait for the headers of a response for ever in any SDK; in Go
\* it ends, for there the timeout reaches the body (client.go:102-105,
\* index.ts:109-131, client.py:143-147, SemanticValidatorClient.java:123-135).
CallReturns ==
  \A c \in Call :
    /\ at[c] = "asked" ~> at[c] \in {"reading", "over"}
    /\ (sdk = "go" /\ at[c] = "asked") ~> at[c] = "over"
=============================================================================
