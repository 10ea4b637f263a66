---------------------------- MODULE AccessLedger ----------------------------
(***************************************************************************)
(* What internal/access promises its callers: a ledger of keys on which    *)
(* every call takes effect in one indivisible step between its invocation  *)
(* and its return, whatever goroutine or process it comes from.            *)
(*                                                                         *)
(* A call that changed the ledger is done once its effect is there, and    *)
(* returns once it is sure: its effect, and all before it, can no more be  *)
(* undone.  A call may also fail, before its effect (Fail) or, reporting   *)
(* an error all the same, after it (Doubt); its process may die (Abort);   *)
(* and a power cut kills all of them and may undo what is not sure.        *)
(***************************************************************************)
EXTENDS AccessOps

CONSTANTS Thread,   \* goroutines and CLI processes that call the store
          Admin     \* those that run the administration CLI

VARIABLES ledger,   \* [KeyId -> Record]
          undo,     \* what it may be after a power cut
          day,      \* today's UTC date
          phase,    \* [Thread -> {"idle", "pending", "done", "sure"}]
          req,      \* [Thread -> Request], the call in progress
          reply     \* [Thread -> Reply], "none" until the call took effect

vars == <<ledger, undo, day, phase, req, reply>>

Init ==
  /\ ledger = NoKeys
  /\ undo = {NoKeys}
  /\ day = 1
  /\ phase = [t \in Thread |-> "idle"]
  /\ req = [t \in Thread |-> NoRequest]
  /\ reply = [t \in Thread |-> "none"]

Enter(t, p) == phase' = [phase EXCEPT ![t] = p]
Answer(t, a) == reply' = [reply EXCEPT ![t] = a]

Invoke(t, q) ==
  /\ phase[t] = "idle"
  /\ q \in IF t \in Admin THEN AdminRequest ELSE ServerRequest
  /\ req' = [req EXCEPT ![t] = q]
  /\ Enter(t, "pending")
  /\ UNCHANGED <<ledger, undo, day, reply>>

\* Day d is no earlier than the day t's key was last stamped with and no later
\* than today.
Current(t, d) == ledger[req[t].key].day <= d /\ d <= day

\* A call that writes takes effect.
Execute(t, d) ==
  /\ phase[t] = "pending"
  /\ Current(t, d)
  /\ Verdict(req[t], ledger, d) = "ok" /\ Writes(req[t])
  /\ ledger' = Updated(req[t], ledger, d)
  /\ undo' = undo \cup {ledger'}
  /\ Answer(t, "ok")
  /\ Enter(t, "done")
  /\ UNCHANGED <<day, req>>

\* A call that only reads, or is refused, has its answer; what it saw may still
\* be undone.
Look(t, d) ==
  /\ phase[t] = "pending"
  /\ Current(t, d)
  /\ ~ (Verdict(req[t], ledger, d) = "ok" /\ Writes(req[t]))
  /\ Answer(t, Verdict(req[t], ledger, d))
  /\ Enter(t, "sure")
  /\ UNCHANGED <<ledger, undo, day, req>>

\* The ledger, as it is now, survives a power cut.
Settle(t) ==
  /\ phase[t] = "done"
  /\ undo' = {ledger}
  /\ Enter(t, "sure")
  /\ UNCHANGED <<ledger, day, req, reply>>

Fail(t) ==
  /\ phase[t] = "pending"
  /\ Answer(t, "unavailable")
  /\ Enter(t, "sure")
  /\ UNCHANGED <<ledger, undo, day, req>>

Doubt(t) ==
  /\ phase[t] = "done"
  /\ Answer(t, "unavailable")
  /\ Enter(t, "sure")
  /\ UNCHANGED <<ledger, undo, day, req>>

Return(t) ==
  /\ phase[t] = "sure"
  /\ req' = [req EXCEPT ![t] = NoRequest]
  /\ Answer(t, "none")
  /\ Enter(t, "idle")
  /\ UNCHANGED <<ledger, undo, day>>

Vanish(T) ==
  /\ req' = [t \in Thread |-> IF t \in T THEN NoRequest ELSE req[t]]
  /\ reply' = [t \in Thread |-> IF t \in T THEN "none" ELSE reply[t]]
  /\ phase' = [t \in Thread |-> IF t \in T THEN "idle" ELSE phase[t]]
  /\ UNCHANGED day

Abort(T) == UNCHANGED <<ledger, undo>> /\ Vanish(T)

PowerCut ==
  /\ ledger' \in undo
  /\ undo' = {ledger'}
  /\ Vanish(Thread)

Tick ==
  /\ day < MaxDay
  /\ day' = day + 1
  /\ UNCHANGED <<ledger, undo, phase, req, reply>>

Next ==
  \/ \E t \in Thread :
       \/ \E q \in AdminRequest \cup ServerRequest : Invoke(t, q)
       \/ \E d \in Day : Execute(t, d) \/ Look(t, d)
       \/ Settle(t) \/ Fail(t) \/ Doubt(t) \/ Return(t)
  \/ \E T \in SUBSET Thread : Abort(T)
  \/ PowerCut
  \/ Tick

Spec == Init /\ [][Next]_vars
=============================================================================
