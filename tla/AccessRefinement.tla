-------------------------- MODULE AccessRefinement --------------------------
(***************************************************************************)
(* The store implements the ledger: seen from its callers, the whole of    *)
(* `transaction` happens at one instant, that of the rename for a call     *)
(* that writes and that of fn for one that does not; and by the time a     *)
(* call has succeeded, what it wrote survives a power cut.                 *)
(***************************************************************************)
EXTENDS AccessStore

\* Before its effect a call is pending; it is sure with its last word.
Phase ==
  [t \in Thread |->
     CASE pc[t] = "idle" -> "idle"
       [] pc[t] = "sync" -> "done"
       [] pc[t] \in {"release", "unlock"} -> "sure"
       [] OTHER -> "pending"]

Ledger == INSTANCE AccessLedger
  WITH ledger <- file, undo <- survivors, phase <- Phase

\* Every behaviour of the store is one of the ledger, power cuts included: calls
\* are linearizable, and those that were acknowledged are durable
\* (store.go:47-111).
ImplementsLedger == Ledger!Spec
=============================================================================
