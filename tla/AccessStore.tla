---------------------------- MODULE AccessStore ----------------------------
(***************************************************************************)
(* The key and quota store of internal/access/store.go as it runs: threads *)
(* of one or more processes, each process with its own Store (and mutex)   *)
(* on the same path, going through `transaction` step by step -- mutex,    *)
(* flock, read, fn, temporary file, rename, directory sync, unlock -- with *)
(* every I/O call that may fail, processes that die anywhere and, in       *)
(* PowerSpec, power cuts that may undo renames that no sync confirmed.     *)
(***************************************************************************)
EXTENDS AccessOps, FiniteSets

CONSTANTS
  Thread,       \* goroutines of the servers and runs of the CLI
  Admin,        \* the threads that are CLI runs
  Store,        \* Store values, one in each process
  StoreOf,      \* the Store each thread calls
  NoThread,     \* the holder of a lock that is free
  MaxAttempts,  \* bound: no attempt is called for once a key has this many
  MaxUnsynced   \* bound: nor any write while a power cut has more outcomes

ASSUME StoreAssumption ==
  /\ Admin \subseteq Thread
  /\ StoreOf \in [Thread -> Store]
  /\ NoThread \notin Thread
  /\ MaxAttempts \in Nat
  /\ MaxUnsynced \in Nat

VARIABLES
  file,       \* the key map in the file at s.path, as a process reads it
  survivors,  \* the key maps that file may hold after a power cut
  day,        \* today, as s.now().UTC() tells
  mu,         \* [Store -> holder of s.mu]
  flock,      \* the holder of the exclusive lock on s.path + ".lock"
  pc,         \* [Thread -> where the thread is inside transaction]
  req,        \* [Thread -> Request], the call the thread is in
  keys,       \* [Thread -> KeyMap], its local `keys`
  reply,      \* [Thread -> Reply], the error transaction will return
  \* What callers are told (history, read by no action), from the moment the
  \* transaction is certain to return no error:
  granted,    \* [KeyId -> [Day -> units reserved]]
  counted,    \* [KeyId -> [Day -> provider attempts recorded]]
  printed,    \* keys created, whose token `keys create` prints
  withdrawn   \* keys revoked, as `keys revoke` reports

disk == <<file, survivors>>
told == <<granted, counted, printed, withdrawn>>
vars == <<disk, day, mu, flock, pc, req, keys, reply, told>>

Pc == {"idle", "mu", "flock", "load", "apply", "save", "rename", "sync",
       "release", "unlock"}

\* The steps between a granted flock and its release.
Critical == {"load", "apply", "save", "rename", "sync", "release"}

TypeOK ==
  /\ file \in KeyMap
  /\ survivors \in SUBSET KeyMap
  /\ day \in Day
  /\ mu \in [Store -> Thread \cup {NoThread}]
  /\ flock \in Thread \cup {NoThread}
  /\ pc \in [Thread -> Pc]
  /\ req \in [Thread -> Request]
  /\ keys \in [Thread -> KeyMap]
  /\ reply \in [Thread -> Reply]
  /\ granted \in [KeyId -> [Day -> Nat]]
  /\ counted \in [KeyId -> [Day -> Nat]]
  /\ printed \subseteq KeyId
  /\ withdrawn \subseteq KeyId

Init ==
  /\ file = NoKeys
  /\ survivors = {NoKeys}
  /\ day = 1
  /\ mu = [s \in Store |-> NoThread]
  /\ flock = NoThread
  /\ pc = [t \in Thread |-> "idle"]
  /\ req = [t \in Thread |-> NoRequest]
  /\ keys = [t \in Thread |-> NoKeys]
  /\ reply = [t \in Thread |-> "none"]
  /\ granted = [k \in KeyId |-> [d \in Day |-> 0]]
  /\ counted = [k \in KeyId |-> [d \in Day |-> 0]]
  /\ printed = {}
  /\ withdrawn = {}
-----------------------------------------------------------------------------
(***************************************************************************)
(* transaction, step by step.                                              *)
(***************************************************************************)
Goto(t, l) == pc' = [pc EXCEPT ![t] = l]
Answer(t, a) == reply' = [reply EXCEPT ![t] = a]

\* An operation is called (within the bounds).
Call(t, q) ==
  /\ pc[t] = "idle"
  /\ q \in IF t \in Admin THEN AdminRequest ELSE ServerRequest
  /\ q.op = "attempt" => file[q.key].attempts < MaxAttempts
  /\ Writes(q) => Cardinality(survivors) <= MaxUnsynced
  /\ Goto(t, "mu")
  /\ req' = [req EXCEPT ![t] = q]
  /\ UNCHANGED <<disk, day, mu, flock, keys, reply, told>>

\* s.mu.Lock()
LockMu(t) ==
  /\ pc[t] = "mu"
  /\ mu[StoreOf[t]] = NoThread
  /\ mu' = [mu EXCEPT ![StoreOf[t]] = t]
  /\ Goto(t, "flock")
  /\ UNCHANGED <<disk, day, flock, req, keys, reply, told>>

\* Mutant: the lock file is opened and never locked.
FlockShared(t) ==
  /\ pc[t] = "flock"
  /\ flock' = t
  /\ Goto(t, "load")
  /\ UNCHANGED <<disk, day, mu, req, keys, reply, told>>

\* syscall.Flock(LOCK_EX) on a lock file opened for this transaction.
Flock(t) ==
  /\ pc[t] = "flock"
  /\ flock = NoThread
  /\ flock' = t
  /\ Goto(t, "load")
  /\ UNCHANGED <<disk, day, mu, req, keys, reply, told>>

\* Opening the lock file, or locking it, fails.
FlockFails(t) ==
  /\ pc[t] = "flock"
  /\ Goto(t, "unlock")
  /\ Answer(t, "unavailable")
  /\ UNCHANGED <<disk, day, mu, flock, req, keys, told>>

\* The file is read, decoded and validated (a missing file is an empty map).
Load(t) ==
  /\ pc[t] = "load"
  /\ keys' = [keys EXCEPT ![t] = file]
  /\ Goto(t, "apply")
  /\ UNCHANGED <<disk, day, mu, flock, req, reply, told>>

\* A read error, or content that is no valid access store.
LoadFails(t) ==
  /\ pc[t] = "load"
  /\ Goto(t, "release")
  /\ Answer(t, "unavailable")
  /\ UNCHANGED <<disk, day, mu, flock, req, keys, told>>

\* fn(keys) succeeds and the map is to be written back.
Apply(t) ==
  /\ pc[t] = "apply"
  /\ Verdict(req[t], keys[t], day) = "ok"
  /\ Writes(req[t])
  /\ keys' = [keys EXCEPT ![t] = Updated(req[t], keys[t], day)]
  /\ Goto(t, "save")
  /\ UNCHANGED <<disk, day, mu, flock, req, reply, told>>

\* fn fails, or only read: transaction returns what fn returned.
ApplyOnly(t) ==
  /\ pc[t] = "apply"
  /\ ~ (Verdict(req[t], keys[t], day) = "ok" /\ Writes(req[t]))
  /\ Answer(t, Verdict(req[t], keys[t], day))
  /\ Goto(t, "release")
  /\ UNCHANGED <<disk, day, mu, flock, req, keys, told>>

\* Mutant: the flock is given back before the rename.
SaveAndUnlock(t) ==
  /\ pc[t] = "save"
  /\ flock' = NoThread
  /\ Goto(t, "rename")
  /\ UNCHANGED <<disk, day, mu, req, keys, reply, told>>

\* CreateTemp, Write, Sync and Close of the temporary file.
Save(t) ==
  /\ pc[t] = "save"
  /\ Goto(t, "rename")
  /\ UNCHANGED <<disk, day, mu, flock, req, keys, reply, told>>

\* One of the four fails, or the rename does: the file is as it was.
WriteFails(t) ==
  /\ pc[t] \in {"save", "rename"}
  /\ Goto(t, "release")
  /\ Answer(t, "unavailable")
  /\ UNCHANGED <<disk, day, mu, flock, req, keys, told>>

\* The transaction of t has succeeded: its caller will be told so.
Tell(t) ==
  LET k == req[t].key
      d == keys[t][k].day
      n == req[t].arg
      op == req[t].op
  IN
  /\ granted' = IF op = "reserve"
                THEN [granted EXCEPT ![k][d] = @ + n] ELSE granted
  /\ counted' = IF op = "attempt"
                THEN [counted EXCEPT ![k][d] = @ + 1] ELSE counted
  /\ printed' = IF op = "create" THEN printed \cup {k} ELSE printed
  /\ withdrawn' = IF op = "revoke" THEN withdrawn \cup {k} ELSE withdrawn

\* os.Rename puts the new map in place; a power cut may still undo it.
Rename(t) ==
  /\ pc[t] = "rename"
  /\ file' = keys[t]
  /\ survivors' = survivors \cup {keys[t]}
  /\ Goto(t, "sync")
  /\ Answer(t, "ok")
  /\ UNCHANGED <<day, mu, flock, req, keys, told>>

\* Mutant: success is returned without a sync of the directory.
ReturnUnsynced(t) ==
  /\ pc[t] = "sync"
  /\ Tell(t)
  /\ Goto(t, "release")
  /\ UNCHANGED <<disk, day, mu, flock, req, keys, reply>>

\* dir.Sync() makes the rename, and those before it, permanent.
SyncDir(t) ==
  /\ pc[t] = "sync"
  /\ survivors' = {file}
  /\ Tell(t)
  /\ Goto(t, "release")
  /\ UNCHANGED <<file, day, mu, flock, req, keys, reply>>

\* The directory cannot be opened or synced: an error is returned although
\* the new map is in place.
SyncFails(t) ==
  /\ pc[t] = "sync"
  /\ Goto(t, "release")
  /\ Answer(t, "unavailable")
  /\ UNCHANGED <<disk, day, mu, flock, req, keys, told>>

\* Mutant: an error path that returns without the deferred LOCK_UN and Close.
ReleaseOnSuccess(t) ==
  /\ pc[t] = "release"
  /\ flock' = IF reply[t] = "ok" THEN NoThread ELSE flock
  /\ keys' = [keys EXCEPT ![t] = NoKeys]
  /\ Goto(t, "unlock")
  /\ UNCHANGED <<disk, day, mu, req, reply, told>>

\* The deferred LOCK_UN and lock.Close(), the last use of `keys`.
Release(t) ==
  /\ pc[t] = "release"
  /\ flock' = NoThread
  /\ keys' = [keys EXCEPT ![t] = NoKeys]
  /\ Goto(t, "unlock")
  /\ UNCHANGED <<disk, day, mu, req, reply, told>>

\* The deferred s.mu.Unlock(), and the return to the caller.
Return(t) ==
  /\ pc[t] = "unlock"
  /\ mu' = [mu EXCEPT ![StoreOf[t]] = NoThread]
  /\ Goto(t, "idle")
  /\ req' = [req EXCEPT ![t] = NoRequest]
  /\ Answer(t, "none")
  /\ UNCHANGED <<disk, day, flock, keys, told>>
-----------------------------------------------------------------------------
(***************************************************************************)
(* The world around the threads.                                           *)
(***************************************************************************)
\* The threads of T vanish with their process; the kernel drops their locks.
Vanish(T) ==
  /\ mu' = [s \in Store |-> IF mu[s] \in T THEN NoThread ELSE mu[s]]
  /\ flock' = IF flock \in T THEN NoThread ELSE flock
  /\ pc' = [t \in Thread |-> IF t \in T THEN "idle" ELSE pc[t]]
  /\ req' = [t \in Thread |-> IF t \in T THEN NoRequest ELSE req[t]]
  /\ keys' = [t \in Thread |-> IF t \in T THEN NoKeys ELSE keys[t]]
  /\ reply' = [t \in Thread |-> IF t \in T THEN "none" ELSE reply[t]]
  /\ UNCHANGED <<day, told>>

\* A process is killed, and may be started again: any step can be its last.
Crash(s) == Vanish({t \in Thread : StoreOf[t] = s}) /\ UNCHANGED disk

\* The host loses power: only what was synced is certain to be there.
PowerLoss ==
  /\ Vanish(Thread)
  /\ \E m \in survivors : file' = m /\ survivors' = {m}

\* Midnight UTC.
Tick ==
  /\ day < MaxDay
  /\ day' = day + 1
  /\ UNCHANGED <<disk, mu, flock, pc, req, keys, reply, told>>

\* The steps of a transaction that wait for nobody.
Proceed(t) ==
  \/ Load(t) \/ LoadFails(t) \/ Apply(t) \/ ApplyOnly(t)
  \/ Save(t) \/ WriteFails(t) \/ Rename(t) \/ SyncDir(t) \/ SyncFails(t)
  \/ Release(t) \/ Return(t)

Step(t) == LockMu(t) \/ Flock(t) \/ FlockFails(t) \/ Proceed(t)

Next ==
  \/ \E t \in Thread :
       Step(t) \/ \E q \in AdminRequest \cup ServerRequest : Call(t, q)
  \/ \E s \in Store : Crash(s)
  \/ Tick

Spec == Init /\ [][Next]_vars

\* The same system on a host that may lose power.
PowerNext == Next \/ PowerLoss
PowerSpec == Init /\ [][PowerNext]_vars

\* A running goroutine is scheduled; sync.Mutex hands itself to a waiter that
\* starves; flock reaches a waiter between the few processes that compete.
\* Nothing is assumed of callers, failures, crashes or the clock.
Fairness ==
  \A t \in Thread :
    WF_vars(Proceed(t)) /\ SF_vars(LockMu(t)) /\ SF_vars(Flock(t))

FairSpec == Spec /\ Fairness
-----------------------------------------------------------------------------
(***************************************************************************)
(* Properties.                                                             *)
(***************************************************************************)
\* What t is about to write is the result of its own request on the file as
\* it is now, on a day between the key's last day and today.
Prepared(t) ==
  \E d \in Day :
    /\ file[req[t].key].day <= d /\ d <= day
    /\ Verdict(req[t], file, d) = "ok"
    /\ keys[t] = Updated(req[t], file, d)

\* No transaction overwrites what another goroutine or process wrote after it
\* read (store.go:47-57, the lock file that coordinates server and CLI).
NoLostUpdate ==
  \A t \in Thread :
    /\ pc[t] = "apply" => keys[t] = file
    /\ pc[t] \in {"save", "rename"} => Prepared(t)

\* The units handed out for a key on a day never exceed its daily limit,
\* whatever fails, crashes or loses power (store.go:195).
QuotaKept ==
  \A k \in KeyId, d \in Day : granted[k][d] <= file[k].limit

\* A record r of key k accounts for everything a caller was told of k: the
\* units and attempts of r's day, no unit or attempt of a later day, that k was
\* printed, that k was revoked.
Accounts(r, k) ==
  /\ \A d \in Day : r.day = d =>
       granted[k][d] <= r.used /\ counted[k][d] <= r.attempts
  /\ \A d \in Day : r.day < d => granted[k][d] = 0 /\ counted[k][d] = 0
  /\ k \in printed => r.status # "absent"
  /\ k \in withdrawn => r.status = "revoked"

\* Whatever a power cut may leave on the disk accounts for everything callers
\* were told (store.go:95-110, Sync before Rename and dir.Sync after it).
Remembered == \A m \in survivors, k \in KeyId : Accounts(m[k], k)

\* Exactly the thread that holds the flock is between Flock and Release.
Exclusive == \A t \in Thread : pc[t] \in Critical <=> flock = t

\* Every disk a power cut may leave is sound.
DiskSound ==
  /\ file \in survivors
  /\ \A m \in survivors, k \in KeyId : Sound(m[k], day)

\* Once t has renamed, the file holds what its caller is about to be told.
Due(t) ==
  LET k == req[t].key
      r == file[k]
      op == req[t].op
  IN
  /\ keys[t] = file /\ reply[t] = "ok" /\ Writes(req[t])
  /\ op = "reserve" =>
       r.day \in Day /\ granted[k][r.day] + req[t].arg <= r.used
  /\ op = "attempt" =>
       r.day \in Day /\ counted[k][r.day] + 1 <= r.attempts
  /\ op = "create" => r.status # "absent"
  /\ op = "revoke" => r.status = "revoked"

\* QuotaKept and RevocationIsFinal of every disk a power cut may leave.
Settled ==
  \A m \in survivors, k \in KeyId :
    /\ \A d \in Day : granted[k][d] <= m[k].limit
    /\ k \in withdrawn => m[k] = file[k]

\* A thread that is about to rename, or has renamed, is in a call that writes.
InFlight(t) ==
  /\ pc[t] \in {"save", "rename"} => Writes(req[t])
  /\ pc[t] = "sync" => Due(t)

\* The inductive strengthening of the invariants above: what each step of a
\* transaction relies on.
IInv ==
  /\ TypeOK
  /\ Exclusive
  /\ NoLostUpdate
  /\ \A t \in Thread : InFlight(t)
  /\ DiskSound
  /\ Remembered
  /\ Settled

\* Once its revocation has been acknowledged, a key's record never changes
\* again: no unit, no attempt, no revival (store.go:138-147, 190, 209).
RevocationIsFinal ==
  [][\A k \in withdrawn : file'[k] = file[k]]_vars

\* Key k's day never moves back, its counters never fall within a day and carry
\* nothing into the next (the first call of a day counts one thing only), and k
\* never disappears or changes its limit.
Grows(k) ==
  /\ file'[k].day >= file[k].day
  /\ file'[k].day = file[k].day =>
       file'[k].used >= file[k].used /\ file'[k].attempts >= file[k].attempts
  /\ file'[k].day > file[k].day =>
       file'[k].used = 0 \/ file'[k].attempts = 0
  /\ file[k].status # "absent" =>
       file'[k].status # "absent" /\ file'[k].limit = file[k].limit

\* Every step but a power cut lets the counters of every key follow the day
\* (store.go:149-156, 194-198, 212-213).
CountersFollowTheDay == [][PowerLoss \/ \A k \in KeyId : Grows(k)]_vars

\* A call always returns to its caller (or its process dies): no error path
\* keeps a lock, and the two locks are never waited for in a circle.
CallsReturn == \A t \in Thread : pc[t] # "idle" ~> pc[t] = "idle"
=============================================================================
