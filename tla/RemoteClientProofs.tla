------------------------- MODULE RemoteClientProofs -------------------------
(***************************************************************************)
(* Proofs about RemoteClient, for any number of calls, keys and items.     *)
(* IInv relates every stage of a call to its price; an action changes the  *)
(* stage of one call (OneCall), but for Die.                               *)
(***************************************************************************)
EXTENDS RemoteClient, TLAPS

\* What the server writes: a refusal for what was free, a result or the error of
\* an evaluation for what was paid.
LEMMA WrittenFacts ==
  ASSUME NEW s \in Server!Status \ {"none"}, NEW p \in Written(s)
  PROVE  /\ p \in Sent /\ p.json
         /\ p.code \in Refusal => s \in Server!Free
         /\ p.ok \/ p.code \in Answer => s \in Server!Paid
<1>1. s \in {"503", "401", "429_rate", "429_quota", "400", "200", "invalid_item",
             "provider_timeout", "provider_error"}
  BY DEF Server!Status, Server!Free, Server!Paid
<1>2. p \in Sent
  BY DEF Sent
<1> DEFINE Error(c) == [ok |-> FALSE, json |-> TRUE, code |-> c]
<1>3. CASE s = "200"
  <2>1. p = [ok |-> TRUE, json |-> TRUE, code |-> ""]
    BY <1>3 DEF Written
  <2> QED
    BY <1>2, <1>3, <2>1 DEF Refusal, Answer, Server!Free, Server!Paid
<1>4. ASSUME NEW c, p = Error(c)
      PROVE  p.json /\ ~ p.ok /\ p.code = c
  BY <1>4
<1>5. CASE s = "401"
  BY <1>2, <1>4, <1>5 DEF Written, Refusal, Answer, Server!Free, Server!Paid
<1>6. CASE s \in {"429_rate", "429_quota"}
  BY <1>2, <1>4, <1>6 DEF Written, Refusal, Answer, Server!Free, Server!Paid
<1>7. CASE s \in {"400", "503"}
  BY <1>2, <1>4, <1>7 DEF Written, Refusal, Answer, Server!Free, Server!Paid
<1>8. CASE s = "invalid_item"
  BY <1>2, <1>4, <1>8 DEF Written, Refusal, Answer, Server!Free, Server!Paid
<1>9. CASE s \in {"provider_timeout", "provider_error"}
  BY <1>2, <1>4, <1>9 DEF Written, Refusal, Answer, Server!Free, Server!Paid
<1> QED
  BY <1>1, <1>3, <1>5, <1>6, <1>7, <1>8, <1>9

LEMMA NoAnswer == ~ Nothing.json
BY DEF Nothing

\* What a client makes of it: the same in all four SDKs.
LEMMA ReadFacts ==
  ASSUME NEW p \in Sent, sdk \in SDK
  PROVE  /\ Reads(p) \in Outcome
         /\ Reads(p) \in Refusal => p.json /\ p.code \in Refusal
         /\ Reads(p) \in Answer => p.json /\ (p.ok \/ p.code \in Answer)
<1> DEFINE Error(c) == [ok |-> FALSE, json |-> TRUE, code |-> c]
<1>1. \/ p = Nothing
      \/ p = [ok |-> TRUE, json |-> TRUE, code |-> ""]
      \/ \E c \in {"unauthorized", "rate_limited", "quota_exceeded", "invalid_request",
                   "usage_unavailable", "unknown_rule", "provider_timeout",
                   "provider_error", "none"} : p = Error(c)
  BY DEF Sent, Written, Server!Status, Server!Free, Server!Paid
<1>2. CASE p = Nothing
  BY <1>2 DEF Nothing, Reads, BodyFirst, StatusFirst, Outcome, Local, Refusal, Answer
<1>3. CASE p = [ok |-> TRUE, json |-> TRUE, code |-> ""]
  BY <1>3 DEF Reads, BodyFirst, StatusFirst, Outcome, Local, Refusal, Answer
<1>4. ASSUME NEW c \in {"unauthorized", "rate_limited", "quota_exceeded", "invalid_request",
                        "usage_unavailable", "unknown_rule", "provider_timeout",
                        "provider_error", "none"}, p = Error(c)
      PROVE  /\ Reads(p) = c /\ p.json /\ p.code = c
  BY <1>4 DEF Reads, BodyFirst, StatusFirst
<1>5. CASE \E c \in {"unauthorized", "rate_limited", "quota_exceeded", "invalid_request",
                     "usage_unavailable", "unknown_rule", "provider_timeout",
                     "provider_error", "none"} : p = Error(c)
  BY <1>4, <1>5 DEF Outcome, Refusal, Answer
<1> QED
  BY <1>1, <1>2, <1>3, <1>5

\* The units of a call are what changes its server's count.
LEMMA Charged ==
  ASSUME TypeOK, NEW c \in Call
  PROVE  /\ UNCHANGED units => units'[key[c]] - units[key[c]] = 0
         /\ Server!Pay(c) => /\ units'[key[c]] - units[key[c]] = price[c]
                             /\ units' \in [KeyId -> Nat]
<1>1. key[c] \in KeyId /\ units \in [KeyId -> Nat] /\ price[c] \in Nat
  BY DEF TypeOK
<1>2. units[key[c]] \in Nat
  BY <1>1
<1>3. ASSUME Server!Pay(c)
      PROVE  /\ units'[key[c]] - units[key[c]] = price[c]
             /\ units' \in [KeyId -> Nat]
  <2>1. units' = [units EXCEPT ![key[c]] = units[key[c]] + price[c]]
    BY <1>3 DEF Server!Pay
  <2>2. units'[key[c]] = units[key[c]] + price[c]
    BY <1>1, <2>1
  <2>3. units' \in [KeyId -> Nat]
    BY <1>1, <1>2, <2>1
  <2> QED
    BY <1>1, <1>2, <2>2, <2>3
<1> QED
  BY <1>2, <1>3
-----------------------------------------------------------------------------
LEMMA InitInv == Init => IInv
<1> SUFFICES ASSUME Init PROVE IInv
  OBVIOUS
<1>1. (CHOOSE k \in KeyId : TRUE) \in KeyId /\ MaxItems \in Nat /\ Items \in [Call -> 1..MaxItems]
  BY CallAssumption
<1>2. TypeOK
  BY <1>1
  DEF Init, Server!Init, TypeOK, SDK, At, Net, Sent, Outcome, Server!Phase, Server!Status
<1> QED
  BY <1>2
  DEF Init, Server!Init, IInv, CostIsKnown, Tally, Nothing, Refusal, Answer

\* An action that changes one call.
LEMMA OneCall ==
  ASSUME IInv, TypeOK', NEW c \in Call,
         \A d \in Call \ {c} :
           /\ at'[d] = at[d] /\ net'[d] = net[d] /\ response'[d] = response[d]
           /\ outcome'[d] = outcome[d] /\ paid'[d] = paid[d]
           /\ phase'[d] = phase[d] /\ price'[d] = price[d] /\ status'[d] = status[d],
         Tally(c)',
         /\ paid'[c] \in {0, Items[c]}
         /\ outcome'[c] \in Refusal => paid'[c] = 0
         /\ outcome'[c] \in Answer => paid'[c] = Items[c]
  PROVE  IInv'
<1>1. ASSUME NEW d \in Call PROVE Tally(d)'
  <2>1. CASE d = c
    BY <2>1
  <2>2. CASE d # c
    BY <2>2 DEF IInv, Tally, Settled
  <2> QED
    BY <2>1, <2>2
<1>2. CostIsKnown'
  BY DEF IInv, CostIsKnown
<1> QED
  BY <1>1, <1>2 DEF IInv

\* The request arrives: it is open, and nothing is paid.
LEMMA ArriveInv ==
  ASSUME IInv, NEW c \in Call, NEW k \in KeyId, Arrive(c, k)
  PROVE  IInv'
<1>1. PICK n \in {0, Items[c]} : Server!Open(c, k, n)
  BY DEF Arrive
<1>6. n \in 0..MaxItems
  <2>1. Items[c] \in 1..MaxItems /\ MaxItems \in Nat
    BY CallAssumption
  <2> QED
    BY <2>1
<1>2. /\ net[c] = "request" /\ phase[c] = "idle" /\ paid[c] = 0
      /\ at[c] # "ready" /\ ~ response[c].json /\ outcome[c] \notin Refusal
      /\ outcome[c] \notin Answer
  <2>1. net[c] = "request"
    BY DEF Arrive
  <2>2. Items[c] # 0
    BY CallAssumption
  <2> QED
    BY <2>1, <2>2 DEF IInv, Tally, Settled, CostIsKnown
<1>3. /\ phase' = [phase EXCEPT ![c] = "open"] /\ price' = [price EXCEPT ![c] = n]
      /\ key' = [key EXCEPT ![c] = k]
      /\ net' = [net EXCEPT ![c] = IF at[c] = "over" THEN "none" ELSE "server"]
      /\ UNCHANGED <<sdk, at, outcome, response, status, units, paid>>
  BY <1>1 DEF Arrive, Server!Open, Server!Goto, Turn, client
<1>4. TypeOK'
  BY <1>3, <1>6 DEF IInv, TypeOK, Net, Server!Phase
<1>5. Tally(c)'
  BY <1>2, <1>3 DEF IInv, TypeOK, Tally
<1> QED
  BY <1>2, <1>3, <1>4, <1>5, OneCall DEF IInv, TypeOK

\* The server takes a request one stage further.
LEMMA HandleInv ==
  ASSUME IInv, NEW c \in Call, Handle(c)
  PROVE  IInv'
<1> DEFINE n == units'[key[c]] - units[key[c]]
<1>1. /\ paid' = [paid EXCEPT ![c] = paid[c] + n]
      /\ UNCHANGED <<sdk, at, outcome, net, response>>
  BY DEF Handle, client, wire
<1>2. /\ UNCHANGED <<key, price>> /\ phase[c] \in {"open", "charged"}
      /\ \/ UNCHANGED units /\ phase[c] = "open" /\ phase' = [phase EXCEPT ![c] = "done"]
            /\ \E s \in Server!Free : status' = [status EXCEPT ![c] = s]
         \/ Server!Pay(c) /\ phase[c] = "open" /\ phase' = [phase EXCEPT ![c] = "charged"]
            /\ price[c] > 0 /\ UNCHANGED status
         \/ (UNCHANGED units \/ Server!Pay(c)) /\ phase[c] = "open"
            /\ phase' = [phase EXCEPT ![c] = "done"]
            /\ status' = [status EXCEPT ![c] = "503"]
         \/ UNCHANGED units /\ phase[c] = "charged"
            /\ phase' = [phase EXCEPT ![c] = "done"]
            /\ \E s \in Server!Paid \cup {"503"} : status' = [status EXCEPT ![c] = s]
  BY DEF Handle, Server!Refuse, Server!Charge, Server!Fail, Server!Respond,
         Server!Answer, Server!Goto
<1>3. units' \in [KeyId -> Nat] /\ (n = 0 \/ (n = price[c] /\ phase[c] = "open"))
  BY <1>2, Charged DEF IInv, TypeOK
<1>4. /\ at[c] # "ready" /\ net[c] # "request" /\ ~ response[c].json
      /\ outcome[c] \notin Refusal
  BY <1>2 DEF IInv, Tally, Settled
<1>5. Items[c] \in 1..MaxItems /\ MaxItems \in Nat
  BY CallAssumption
<1>6. /\ paid'[c] = paid[c] + n /\ paid[c] \in {0, Items[c]}
      /\ phase[c] = "open" => paid[c] = 0 /\ price[c] \in {0, Items[c]}
      /\ phase[c] = "charged" => paid[c] = Items[c]
  BY <1>1, <1>2 DEF IInv, TypeOK, Tally, CostIsKnown
<1> HIDE DEF n
<1>7. paid'[c] \in {0, Items[c]} /\ (phase[c] = "charged" => paid'[c] = Items[c])
  BY <1>3, <1>5, <1>6, <1>2
<1>8. status' \in [Call -> Server!Status] /\ phase' \in [Call -> Server!Phase]
  BY <1>2 DEF IInv, TypeOK, Server!Status, Server!Phase
<1>9. TypeOK'
  <2>1. paid' \in [Call -> 0..MaxItems]
    BY <1>1, <1>5, <1>6, <1>7 DEF IInv, TypeOK
  <2> QED
    BY <1>1, <1>2, <1>3, <1>8, <2>1 DEF IInv, TypeOK
<1>10. ASSUME NEW d \in Call \ {c}
       PROVE  /\ paid'[d] = paid[d] /\ phase'[d] = phase[d] /\ status'[d] = status[d]
  BY <1>1, <1>2 DEF IInv, TypeOK
<1>11. Tally(c)'
  <2>1. /\ phase'[c] = "charged" => paid'[c] = Items[c]
        /\ phase'[c] # "open" /\ phase'[c] # "idle"
        /\ phase'[c] = "done" =>
             /\ status'[c] # "none"
             /\ status'[c] \in Server!Free => paid'[c] = 0
             /\ status'[c] \in Server!Paid => paid'[c] = Items[c]
    <3>1. ASSUME NEW s \in Server!Free, UNCHANGED units, phase[c] = "open",
                 phase' = [phase EXCEPT ![c] = "done"],
                 status' = [status EXCEPT ![c] = s]
          PROVE  phase'[c] = "done" /\ status'[c] = s /\ paid'[c] = 0
      BY <3>1, <1>6, Charged DEF IInv, TypeOK, n
    <3>2. ASSUME Server!Pay(c), phase[c] = "open", price[c] > 0,
                 phase' = [phase EXCEPT ![c] = "charged"]
          PROVE  phase'[c] = "charged" /\ paid'[c] = Items[c]
      BY <3>2, <1>5, <1>6, Charged DEF IInv, TypeOK, n
    <3>3. ASSUME phase' = [phase EXCEPT ![c] = "done"],
                 status' = [status EXCEPT ![c] = "503"]
          PROVE  phase'[c] = "done" /\ status'[c] = "503"
      BY <3>3 DEF IInv, TypeOK
    <3>4. ASSUME NEW s \in Server!Paid \cup {"503"}, phase[c] = "charged",
                 phase' = [phase EXCEPT ![c] = "done"],
                 status' = [status EXCEPT ![c] = s]
          PROVE  phase'[c] = "done" /\ status'[c] = s /\ paid'[c] = Items[c]
      BY <3>4, <1>7 DEF IInv, TypeOK
    <3> QED
      BY <1>2, <3>1, <3>2, <3>3, <3>4 DEF Server!Free, Server!Paid
  <2> QED
    BY <1>1, <1>4, <2>1 DEF Tally
<1>12. outcome[c] \in Answer => paid'[c] = Items[c]
  <2>1. CASE outcome[c] \in Answer
    <3>1. paid[c] = Items[c]
      BY <2>1 DEF IInv, CostIsKnown
    <3>2. phase[c] = "charged"
      BY <1>2, <1>5, <1>6, <3>1
    <3> QED
      BY <1>7, <3>2
  <2> QED
    BY <2>1
<1> QED
  BY <1>1, <1>2, <1>4, <1>7, <1>9, <1>10, <1>11, <1>12, OneCall
-----------------------------------------------------------------------------
\* The server forgets some requests.
LEMMA Forgotten ==
  ASSUME IInv, NEW R \in SUBSET Call, Server!Forget(R)
  PROVE  /\ phase' \in [Call -> Server!Phase] /\ key' \in [Call -> KeyId]
         /\ price' \in [Call -> 0..MaxItems] /\ status' \in [Call -> Server!Status]
         /\ UNCHANGED units
         /\ \A d \in R : phase'[d] = "idle"
         /\ \A d \in Call \ R : phase'[d] = phase[d] /\ price'[d] = price[d]
                                /\ status'[d] = status[d]
<1>1. (CHOOSE k \in KeyId : TRUE) \in KeyId /\ MaxItems \in Nat
  BY CallAssumption
<1> QED
  BY <1>1 DEF Server!Forget, IInv, TypeOK, Server!Phase, Server!Status

\* The answer is written: nothing more can be charged.
LEMMA DeliverInv ==
  ASSUME IInv, NEW c \in Call, Deliver(c)
  PROVE  IInv'
<1>1. /\ phase[c] = "done" /\ Server!Forget({c})
      /\ UNCHANGED <<sdk, at, outcome, paid>>
  BY DEF Deliver, Server!Deliver, client
<1>2. /\ at[c] # "ready" /\ net[c] # "request" /\ ~ response[c].json
      /\ outcome[c] \notin Refusal
      /\ status[c] \in Server!Status \ {"none"}
      /\ status[c] \in Server!Free => paid[c] = 0
      /\ status[c] \in Server!Paid => paid[c] = Items[c]
  BY <1>1 DEF IInv, TypeOK, Tally, Settled
<1>3. \/ UNCHANGED <<net, response>> /\ net[c] # "server"
      \/ /\ net' = [net EXCEPT ![c] = "response"]
         /\ \E p \in Written(status[c]) : response' = [response EXCEPT ![c] = p]
  BY DEF Deliver, Turn, wire
<1>4. /\ net' \in [Call -> Net] /\ response' \in [Call -> Sent]
      /\ \A d \in Call \ {c} : net'[d] = net[d] /\ response'[d] = response[d]
      /\ net'[c] # "request" /\ net'[c] # "server"
      /\ response'[c].json => response'[c] \in Written(status[c])
  BY <1>2, <1>3, WrittenFacts DEF IInv, TypeOK, Net
<1>5. TypeOK'
  BY <1>1, <1>4, Forgotten DEF IInv, TypeOK
<1>6. phase'[c] = "idle"
  BY <1>1, Forgotten
<1>7. Settled(c)'
  BY <1>1, <1>2, <1>4, <1>6 DEF Settled
<1>8. response'[c].json =>
        /\ response'[c].code \in Refusal => paid[c] = 0
        /\ response'[c].ok \/ response'[c].code \in Answer => paid[c] = Items[c]
  BY <1>2, <1>4, WrittenFacts
<1>9. Tally(c)'
  BY <1>1, <1>2, <1>4, <1>6, <1>7, <1>8 DEF Tally
<1>10. /\ paid[c] \in {0, Items[c]}
       /\ outcome[c] \in Refusal => paid[c] = 0
       /\ outcome[c] \in Answer => paid[c] = Items[c]
  BY DEF IInv, CostIsKnown
<1>11. \A d \in Call \ {c} : phase'[d] = phase[d] /\ price'[d] = price[d]
                             /\ status'[d] = status[d]
  BY <1>1, Forgotten
<1> QED
  BY <1>1, <1>4, <1>5, <1>9, <1>10, <1>11, OneCall

\* The process ends: every request is idle, no connection is left.
LEMMA DieInv ==
  ASSUME IInv, Die
  PROVE  IInv'
<1>1. /\ Server!Forget(Call)
      /\ net' = [c \in Call |-> IF net[c] = "server" THEN "lost" ELSE net[c]]
      /\ UNCHANGED <<sdk, at, outcome, response, paid>>
  BY DEF Die, Server!Die, client
<1>2. TypeOK' /\ \A c \in Call : phase'[c] = "idle"
  BY <1>1, Forgotten DEF IInv, TypeOK, Net
<1>3. ASSUME NEW c \in Call PROVE Tally(c)'
  BY <1>1, <1>2 DEF IInv, TypeOK, Tally, Settled
<1>4. CostIsKnown'
  BY <1>1 DEF IInv, CostIsKnown
<1> QED
  BY <1>2, <1>3, <1>4 DEF IInv

\* Steps of the network: nothing is charged, and no answer comes of them.
LEMMA NetInv ==
  ASSUME IInv, NEW c \in Call, Proxy(c) \/ Cut(c)
  PROVE  IInv'
<1>1. /\ UNCHANGED <<sdk, at, outcome, phase, key, price, status, units, paid>>
      /\ \E x \in Net \ {"request", "server"} : net' = [net EXCEPT ![c] = x]
      /\ UNCHANGED response \/ response' = [response EXCEPT ![c] = Page]
      /\ at[c] = "ready" => net[c] # "none"
  BY DEF Proxy, Cut, Turn, client, server, Net
<1>2. TypeOK'
  BY <1>1 DEF IInv, TypeOK, Page, Sent
<1>3. Tally(c)'
  <2>1. /\ at[c] # "ready" /\ net'[c] \notin {"request", "server"}
    BY <1>1 DEF IInv, TypeOK, Tally, Net
  <2>2. response'[c].json => response'[c] = response[c]
    BY <1>1, NoAnswer DEF IInv, TypeOK, Page
  <2> QED
    BY <1>1, <2>1, <2>2 DEF IInv, Tally, Settled
<1>4. \A d \in Call \ {c} : net'[d] = net[d] /\ response'[d] = response[d]
  BY <1>1 DEF IInv, TypeOK
<1> QED
  BY <1>1, <1>2, <1>3, <1>4, OneCall DEF IInv, CostIsKnown
-----------------------------------------------------------------------------
\* The client is over with a call: what it concludes is true.
LEMMA EndInv ==
  ASSUME IInv, NEW c \in Call, NEW o \in Outcome, End(c, o),
         o \in Refusal => paid[c] = 0 /\ phase[c] = "idle" /\ net[c] # "request",
         o \in Answer => paid[c] = Items[c]
  PROVE  IInv'
<1>1. /\ at' = [at EXCEPT ![c] = "over"] /\ outcome' = [outcome EXCEPT ![c] = o]
      /\ net' = [net EXCEPT ![c] = IF net[c] = "request" THEN "request" ELSE "none"]
      /\ response' = [response EXCEPT ![c] = Nothing]
      /\ UNCHANGED <<sdk, phase, key, price, status, units, paid>>
  BY DEF End, Turn, server
<1>2. TypeOK'
  BY <1>1 DEF IInv, TypeOK, At, Net, Sent
<1>3. /\ at'[c] = "over" /\ outcome'[c] = o /\ response'[c] = Nothing
      /\ net'[c] = (IF net[c] = "request" THEN "request" ELSE "none")
      /\ \A d \in Call \ {c} : /\ at'[d] = at[d] /\ outcome'[d] = outcome[d]
                               /\ response'[d] = response[d] /\ net'[d] = net[d]
  BY <1>1 DEF IInv, TypeOK
<1>4. Tally(c)'
  <2>1. ~ response'[c].json
    BY <1>3, NoAnswer
  <2> QED
    BY <1>1, <1>3, <2>1 DEF IInv, Tally, Settled
<1> QED
  BY <1>1, <1>2, <1>3, <1>4, OneCall DEF IInv, CostIsKnown

\* Whatever breaks a call tells nothing of its price.
LEMMA BreakFacts ==
  ASSUME TypeOK, NEW c \in Call, NEW how \in {"refused", "lost", "timeout"}
  PROVE  /\ Breaks(c, how) \in Outcome
         /\ Breaks(c, how) \notin Refusal \cup Answer
BY DEF TypeOK, SDK, Breaks, GoBreaks, TypeScriptBreaks, JavaBreaks, PythonBreaks,
       Outcome, Local, Thrown, Refusal, Answer

LEMMA ClientInv ==
  ASSUME IInv, NEW c \in Call,
         Reject(c) \/ Read(c) \/ Break(c) \/ TimesOut(c) \/ Cancel(c)
  PROVE  IInv'
<1>1. CASE Reject(c)
  <2>1. PICK o \in {"rejected", Thrown} : at[c] = "ready" /\ End(c, o)
    BY <1>1 DEF Reject
  <2>2. o \in Outcome /\ o \notin Answer
    BY <2>1 DEF Thrown, Outcome, Refusal, Answer
  <2>3. paid[c] = 0 /\ phase[c] = "idle" /\ net[c] # "request"
    BY <2>1 DEF IInv, Tally
  <2> QED
    BY <2>1, <2>2, <2>3, EndInv
<1>2. CASE Read(c)
  <2>1. /\ at[c] = "reading" /\ End(c, Reads(response[c]))
        /\ response[c] \in Sent /\ sdk \in SDK
    BY <1>2 DEF Read, IInv, TypeOK
  <2>2. response[c].json =>
          /\ phase[c] = "idle" /\ net[c] # "request"
          /\ response[c].code \in Refusal => paid[c] = 0
          /\ response[c].ok \/ response[c].code \in Answer => paid[c] = Items[c]
    BY DEF IInv, Tally, Settled
  <2> QED
    BY <2>1, <2>2, ReadFacts, EndInv
<1>3. CASE Break(c) \/ TimesOut(c)
  <2>1. PICK how \in {"refused", "lost", "timeout"} :
          at[c] # "ready" /\ End(c, Breaks(c, how))
    BY <1>3 DEF Break, TimesOut
  <2> QED
    BY <2>1, BreakFacts, EndInv DEF IInv
<1>4. CASE Cancel(c)
  BY <1>4, EndInv DEF Cancel, Outcome, Local, Refusal, Answer
<1> QED
  BY <1>1, <1>2, <1>3, <1>4

LEMMA AskInv ==
  ASSUME IInv, NEW c \in Call, Ask(c) \/ Header(c)
  PROVE  IInv'
<1>1. /\ UNCHANGED <<sdk, outcome, response, phase, key, price, status, units, paid>>
      /\ \/ at[c] = "ready" /\ at' = [at EXCEPT ![c] = "asked"]
            /\ net' = [net EXCEPT ![c] = "request"]
         \/ at[c] = "asked" /\ at' = [at EXCEPT ![c] = "reading"] /\ UNCHANGED net
  BY DEF Ask, Header, Turn, wire, server
<1>2. TypeOK'
  BY <1>1 DEF IInv, TypeOK, At, Net
<1>3. Tally(c)'
  BY <1>1 DEF IInv, TypeOK, Tally, Settled
<1>4. \A d \in Call \ {c} : at'[d] = at[d] /\ net'[d] = net[d]
  BY <1>1 DEF IInv, TypeOK
<1> QED
  BY <1>1, <1>2, <1>3, <1>4, OneCall DEF IInv, CostIsKnown

LEMMA NextInv == IInv /\ [Next]_vars => IInv'
<1>1. ASSUME IInv, UNCHANGED vars PROVE IInv'
  BY <1>1 DEF vars, client, wire, server, IInv, TypeOK, CostIsKnown, Tally, Settled
<1> QED
  BY <1>1, ArriveInv, HandleInv, DeliverInv, NetInv, ClientInv, AskInv, DieInv DEF Next
-----------------------------------------------------------------------------
\* Theorem: the inductive invariant holds in every reachable state.
THEOREM CallInvariance == Spec => []IInv
BY InitInv, NextInv, PTL DEF Spec

\* Theorem: every variable keeps its type.
THEOREM CallTypes == Spec => []TypeOK
<1>1. IInv => TypeOK
  BY DEF IInv
<1> QED
  BY <1>1, CallInvariance, PTL

\* Theorem: for any number of concurrent calls, lost, given up or repeated, an
\* outcome tells the price where it says so (client.go:166-221, http.go:59-74).
THEOREM PriceIsKnown == Spec => []CostIsKnown
<1>1. IInv => CostIsKnown
  BY DEF IInv
<1> QED
  BY <1>1, CallInvariance, PTL
=============================================================================
