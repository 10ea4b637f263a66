-------------------------- MODULE ServiceContract --------------------------
(***************************************************************************)
(* What the server promises about the price of a request, whatever happens *)
(* inside it: a refusal is free, an answer is paid for in full, and of a   *)
(* 503 nobody can tell.  SemanticService implements it (ImplementsContract *)
(* there), and RemoteClient is built on it.                                *)
(* (internal/access/http.go, internal/api/handler.go)                      *)
(***************************************************************************)
EXTENDS Naturals

CONSTANTS
  Conn,       \* the requests the server may be handling at one time
  KeyId,      \* the keys they may come with
  MaxItems    \* bound: items in a batch (100 in handler.go:121)

VARIABLES
  phase,      \* [Conn -> where its handler is]
  key,        \* [Conn -> the key it came with]
  price,      \* [Conn -> its units; 0 if the handler finds it malformed]
  status,     \* [Conn -> the HTTP status and code it is answered with]
  units       \* [KeyId -> units ever charged]

contract == <<phase, key, price, status, units>>

Phase == {"idle", "open", "charged", "done"}
Free == {"401", "429_rate", "429_quota", "400"}
Paid == {"200", "invalid_item", "provider_timeout", "provider_error"}
Status == {"none", "503"} \cup Free \cup Paid

Init ==
  /\ phase = [r \in Conn |-> "idle"]
  /\ key = [r \in Conn |-> CHOOSE k \in KeyId : TRUE]
  /\ price = [r \in Conn |-> 0]
  /\ status = [r \in Conn |-> "none"]
  /\ units = [k \in KeyId |-> 0]

Goto(r, p) == phase' = [phase EXCEPT ![r] = p]
Answer(r, s) == Goto(r, "done") /\ status' = [status EXCEPT ![r] = s]
Pay(r) == units' = [units EXCEPT ![key[r]] = @ + price[r]]

Open(r, k, n) ==
  /\ phase[r] = "idle" /\ Goto(r, "open")
  /\ key' = [key EXCEPT ![r] = k]
  /\ price' = [price EXCEPT ![r] = n]
  /\ UNCHANGED <<status, units>>

\* 401, 429, or the 400 of a request that the handler finds malformed.
Refuse(r) ==
  /\ phase[r] = "open"
  /\ \E s \in Free : Answer(r, s)
  /\ UNCHANGED <<key, price, units>>

\* ReserveRequest: the price of the request, before any work starts.
Charge(r) ==
  /\ phase[r] = "open" /\ price[r] > 0
  /\ Goto(r, "charged") /\ Pay(r)
  /\ UNCHANGED <<key, price, status>>

\* The access store fails, before or after it has charged the request.
Fail(r) ==
  /\ phase[r] = "open" /\ Answer(r, "503")
  /\ UNCHANGED units \/ Pay(r)
  /\ UNCHANGED <<key, price>>

\* 503 here is an attempt that was not recorded.
Respond(r) ==
  /\ phase[r] = "charged"
  /\ \E s \in Paid \cup {"503"} : Answer(r, s)
  /\ UNCHANGED <<key, price, units>>

Forget(R) ==
  /\ phase' = [r \in Conn |-> IF r \in R THEN "idle" ELSE phase[r]]
  /\ key' = [r \in Conn |-> IF r \in R THEN CHOOSE k \in KeyId : TRUE ELSE key[r]]
  /\ price' = [r \in Conn |-> IF r \in R THEN 0 ELSE price[r]]
  /\ status' = [r \in Conn |-> IF r \in R THEN "none" ELSE status[r]]
  /\ UNCHANGED units

\* The answer is written, or its client is gone.
Deliver(r) == phase[r] = "done" /\ Forget({r})

\* The process ends, with whatever it was doing; the charges stay.
Die == Forget(Conn)

Next ==
  \/ \E r \in Conn :
       \/ \E k \in KeyId, n \in 0..MaxItems : Open(r, k, n)
       \/ Refuse(r) \/ Charge(r) \/ Fail(r) \/ Respond(r) \/ Deliver(r)
  \/ Die

Spec == Init /\ [][Next]_contract
=============================================================================
