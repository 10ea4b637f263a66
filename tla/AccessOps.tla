----------------------------- MODULE AccessOps -----------------------------
(***************************************************************************)
(* The functions that internal/access/store.go runs inside a transaction,  *)
(* as pure operators on the decoded key map: what each operation answers   *)
(* (Verdict) and the map it leaves behind (Updated).                       *)
(*                                                                         *)
(* A key's name and hash are left out: a token is identified with the key  *)
(* it was issued for (digest is injective on the tokens that exist).  A    *)
(* UTC date is a number in 1..MaxDay, and 0 is the empty string that a     *)
(* new key has in its Day field.                                           *)
(***************************************************************************)
EXTENDS Integers

CONSTANTS
  KeyId,        \* the key IDs that rand.Read may produce
  Limit,        \* daily limits given to keys create
  Units,        \* numbers of units a request reserves
  MaxDay        \* bound: the last day the clock reaches

ASSUME OpsAssumption ==
  /\ KeyId # {}
  /\ Limit \subseteq Nat \ {0}
  /\ Units \subseteq Nat
  /\ MaxDay \in Nat \ {0}

Day == 1..MaxDay

\* The fields of Key that decide anything.  "absent" is the missing map entry.
Record == [status   : {"absent", "active", "revoked"},
           limit    : Nat,
           day      : 0..MaxDay,
           used     : Nat,
           attempts : Nat]

Absent == [status |-> "absent", limit |-> 0, day |-> 0,
           used |-> 0, attempts |-> 0]

\* A decoded key map, and the map of a file that does not exist yet.
KeyMap == [KeyId -> Record]
NoKeys == [k \in KeyId |-> Absent]

Request ==
  [op : {"create", "revoke", "list", "authenticate", "reserve", "attempt"},
   key : KeyId, arg : Nat]

\* `keys create` and `keys revoke` of the administration CLI, and the list of
\* either; Open runs the same read-only transaction as List.
AdminRequest ==
       [op : {"create"}, key : KeyId, arg : Limit]
  \cup [op : {"revoke", "list"}, key : KeyId, arg : {0}]

\* What the HTTP server asks of the store.
ServerRequest ==
       [op : {"reserve"}, key : KeyId, arg : Units]
  \cup [op : {"authenticate", "attempt"}, key : KeyId, arg : {0}]

\* The request of a thread that is in no call.
NoRequest == [op |-> "list", key |-> CHOOSE k \in KeyId : TRUE, arg |-> 0]

Reply == {"none", "ok", "unauthorized", "quota", "rejected", "unavailable"}

\* The operations that call transaction with write = true.
Writes(q) == q.op \in {"create", "revoke", "reserve", "attempt"}
-----------------------------------------------------------------------------
\* Mutant: the daily reset forgets the attempts.
ResetUsedOnly(r, d) ==
  IF r.day # d THEN [r EXCEPT !.day = d, !.used = 0] ELSE r

\* Mutant: every call starts the day anew.
ResetAlways(r, d) == [r EXCEPT !.day = d, !.used = 0, !.attempts = 0]

Reset(r, d) ==
  IF r.day # d
    THEN [r EXCEPT !.day = d, !.used = 0, !.attempts = 0]
    ELSE r

Fits(r, u, d) == u >= 1 /\ u <= r.limit - Reset(r, d).used

\* The error that fn returns ("ok" for nil) on map m, when today is d.
Verdict(q, m, d) ==
  LET r == m[q.key] IN
  CASE q.op = "create" -> IF r.status = "absent" THEN "ok" ELSE "rejected"
    [] q.op = "revoke" -> IF r.status = "absent" THEN "rejected" ELSE "ok"
    [] q.op = "reserve" -> IF r.status # "active" THEN "unauthorized"
                           ELSE IF Fits(r, q.arg, d) THEN "ok" ELSE "quota"
    [] q.op \in {"authenticate", "attempt"} ->
         IF r.status = "active" THEN "ok" ELSE "unauthorized"
    [] OTHER -> "ok"

\* Mutant: units are taken off the count, as if it were what remains.
WrittenDown(q, r, d) ==
  CASE q.op = "create" -> [status |-> "active", limit |-> q.arg, day |-> 0,
                           used |-> 0, attempts |-> 0]
    [] q.op = "revoke" -> [r EXCEPT !.status = "revoked"]
    [] q.op = "reserve" -> [Reset(r, d) EXCEPT !.used = @ - q.arg]
    [] q.op = "attempt" -> [Reset(r, d) EXCEPT !.attempts = @ + 1]
    [] OTHER -> r

\* The record of q's key after fn succeeded.
Written(q, r, d) ==
  CASE q.op = "create" -> [status |-> "active", limit |-> q.arg, day |-> 0,
                           used |-> 0, attempts |-> 0]
    [] q.op = "revoke" -> [r EXCEPT !.status = "revoked"]
    [] q.op = "reserve" -> [Reset(r, d) EXCEPT !.used = @ + q.arg]
    [] q.op = "attempt" -> [Reset(r, d) EXCEPT !.attempts = @ + 1]
    [] OTHER -> r

Updated(q, m, d) == [m EXCEPT ![q.key] = Written(q, m[q.key], d)]

\* A record as every disk should hold it: stamped no later than day n, charged
\* at most to its limit, and blank while its key is missing.
Sound(r, n) ==
  /\ r.day <= n
  /\ r.used <= r.limit
  /\ r.status = "absent" => r.day = 0 /\ r.used = 0 /\ r.attempts = 0
=============================================================================
