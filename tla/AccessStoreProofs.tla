-------------------------- MODULE AccessStoreProofs --------------------------
(***************************************************************************)
(* Theorems about AccessStore for every set of threads, processes, keys    *)
(* and limits, power cuts included.  Each action is shown to preserve the  *)
(* inductive invariant IInv; the theorems at the end collect the rest.     *)
(***************************************************************************)
EXTENDS AccessRefinement, AccessOpsProofs

\* What no step of a transaction other than Rename and SyncDir touches.
Still == UNCHANGED <<file, survivors, day, granted, counted, printed, withdrawn>>

\* Lemma: while the disk, the day and the history stand still, so does what
\* IInv says of them.
LEMMA StillFacts ==
  ASSUME DiskSound, Remembered, Settled, Still
  PROVE  DiskSound' /\ Remembered' /\ Settled'
  BY DEF Still, DiskSound, Remembered, Accounts, Settled

\* Lemma: nor does a thread whose own variables stand still notice.
LEMMA StillThread ==
  ASSUME NEW u \in Thread, Still,
         pc'[u] = pc[u], req'[u] = req[u], keys'[u] = keys[u],
         reply'[u] = reply[u]
  PROVE  /\ InFlight(u) => InFlight(u)'
         /\ (pc[u] = "apply" => keys[u] = file)
              => (pc'[u] = "apply" => keys'[u] = file')
         /\ (pc[u] \in {"save", "rename"} => Prepared(u))
              => (pc'[u] \in {"save", "rename"} => Prepared(u)')
  <1>1. Prepared(u) => Prepared(u)'
    BY DEF Still, Prepared
  <1>2. Due(u) => Due(u)'
    BY DEF Still, Due
  <1> QED
    BY <1>1, <1>2 DEF Still, InFlight

\* Lemma: a step of t that changes neither disk nor history, and leaves the
\* locals of every other thread alone, preserves IInv if it does so for t.
LEMMA QuietStep ==
  ASSUME IInv, NEW t \in Thread, Still, TypeOK', Exclusive',
         \A u \in Thread \ {t} :
           pc'[u] = pc[u] /\ req'[u] = req[u] /\ keys'[u] = keys[u]
           /\ reply'[u] = reply[u],
         InFlight(t)',
         pc'[t] = "apply" => keys'[t] = file',
         pc'[t] \in {"save", "rename"} => Prepared(t)'
  PROVE  IInv'
  <1>1. DiskSound' /\ Remembered' /\ Settled'
    BY StillFacts DEF IInv
  <1>2. \A u \in Thread : InFlight(u)'
    BY StillThread DEF IInv
  <1>3. NoLostUpdate'
    <2> SUFFICES ASSUME NEW u \in Thread
                 PROVE  /\ pc'[u] = "apply" => keys'[u] = file'
                        /\ pc'[u] \in {"save", "rename"} => Prepared(u)'
      BY DEF NoLostUpdate
    <2>1. /\ pc[u] = "apply" => keys[u] = file
          /\ pc[u] \in {"save", "rename"} => Prepared(u)
      BY DEF IInv, NoLostUpdate
    <2> QED
      BY <2>1, StillThread
  <1> QED
    BY <1>1, <1>2, <1>3 DEF IInv

\* Lemma: the values that stand for "no call" and "no file" are of their types.
LEMMA NoRequestType == NoRequest \in Request
  <1>1. \E k \in KeyId : TRUE
    BY OpsAssumption DEF OpsAssumption
  <1>2. (CHOOSE k \in KeyId : TRUE) \in KeyId
    BY <1>1
  <1> QED
    BY <1>2 DEF NoRequest, Request

\* Lemma: what callers ask for are requests.
LEMMA RequestTypes == AdminRequest \cup ServerRequest \subseteq Request
  <1>1. Limit \subseteq Nat /\ Units \subseteq Nat /\ 0 \in Nat
    BY OpsAssumption DEF OpsAssumption
  <1>2. [op : {"create"}, key : KeyId, arg : Limit] \subseteq Request
    BY <1>1 DEF Request
  <1>3. [op : {"revoke", "list"}, key : KeyId, arg : {0}] \subseteq Request
    BY <1>1 DEF Request
  <1>4. [op : {"reserve"}, key : KeyId, arg : Units] \subseteq Request
    BY <1>1 DEF Request
  <1>5. [op : {"authenticate", "attempt"}, key : KeyId, arg : {0}]
          \subseteq Request
    BY <1>1 DEF Request
  <1> QED
    BY <1>2, <1>3, <1>4, <1>5 DEF AdminRequest, ServerRequest

\* Lemma: the same of the empty map.
LEMMA NoKeysType == NoKeys \in KeyMap
  <1>1. Absent \in Record
    BY OpsAssumption DEF OpsAssumption, Absent, Record
  <1> QED
    BY <1>1 DEF NoKeys, KeyMap

\* Lemma: the initial state satisfies IInv.
LEMMA InitIInv == Init => IInv
  <1> SUFFICES ASSUME Init PROVE IInv
    OBVIOUS
  <1>1. 1 \in Day /\ 0 \in Nat
    BY OpsAssumption DEF OpsAssumption, Day
  <1>2. NoRequest \in Request /\ NoKeys \in KeyMap
    BY NoRequestType, NoKeysType
  <1>3. TypeOK
    BY <1>1, <1>2 DEF Init, TypeOK, Pc, Reply
  <1>4. Exclusive /\ NoLostUpdate /\ (\A t \in Thread : InFlight(t))
    BY StoreAssumption
    DEF Init, StoreAssumption, Exclusive, Critical, NoLostUpdate, InFlight
  <1>5. \A k \in KeyId :
          /\ NoKeys[k].status = "absent" /\ NoKeys[k].limit = 0
          /\ NoKeys[k].day = 0 /\ NoKeys[k].used = 0
          /\ NoKeys[k].attempts = 0
    BY DEF NoKeys, Absent
  <1>6. DiskSound
    <2>1. \A k \in KeyId : Sound(NoKeys[k], 1)
      <3> SUFFICES ASSUME NEW k \in KeyId PROVE Sound(NoKeys[k], 1)
        OBVIOUS
      <3>1. 0 <= 0 /\ 0 <= 1
        OBVIOUS
      <3>2. NoKeys[k].day <= 1 /\ NoKeys[k].used <= NoKeys[k].limit
        BY <1>5, <3>1, Zenon
      <3> QED
        BY <1>5, <3>2 DEF Sound
    <2> QED
      BY <2>1 DEF Init, DiskSound
  <1>7. Remembered
    <2>1. \A k \in KeyId, d \in Day : granted[k][d] = 0 /\ counted[k][d] = 0
      BY DEF Init
    <2>2. \A d \in Day : d # 0
      BY DEF Day
    <2>3. \A k \in KeyId : Accounts(NoKeys[k], k)
      BY <1>5, <2>1, <2>2 DEF Init, Accounts
    <2> QED
      BY <2>3 DEF Init, Remembered
  <1>8. Settled
    <2> SUFFICES ASSUME NEW k \in KeyId, NEW d \in Day
                 PROVE  granted[k][d] <= NoKeys[k].limit
      BY DEF Init, Settled
    <2>1. granted[k][d] = 0 /\ NoKeys[k].limit = 0
      BY <1>5 DEF Init
    <2>2. 0 <= 0
      OBVIOUS
    <2> QED
      BY <2>1, <2>2, Zenon
  <1> QED
    BY <1>3, <1>4, <1>6, <1>7, <1>8 DEF IInv
-----------------------------------------------------------------------------
(***************************************************************************)
(* Each action preserves IInv.                                             *)
(***************************************************************************)
\* Lemma: a call begins outside the critical section.
LEMMA CallIInv ==
  ASSUME IInv, NEW t \in Thread, NEW q \in AdminRequest \cup ServerRequest, Call(t, q)
  PROVE  IInv'
  <1>0. q \in Request
    BY RequestTypes
  <1>1. Still
    BY DEF Call, disk, told, Still
  <1>2. TypeOK'
    BY <1>0, StoreAssumption
    DEF IInv, TypeOK, Call, Goto, Answer, Pc, Reply, disk, told, StoreAssumption
  <1>3. Exclusive'
    BY StoreAssumption
    DEF IInv, TypeOK, Exclusive, Call, Goto, Critical, Pc, StoreAssumption
  <1>4. \A u \in Thread \ {t} :
          pc'[u] = pc[u] /\ req'[u] = req[u] /\ keys'[u] = keys[u]
          /\ reply'[u] = reply[u]
    BY DEF IInv, TypeOK, Call, Goto, Answer
  <1>5. InFlight(t)' /\ (pc'[t] = "apply" => keys'[t] = file')
        /\ (pc'[t] \in {"save", "rename"} => Prepared(t)')
    BY DEF IInv, TypeOK, InFlight, Call, Goto, disk
  <1> QED
    BY <1>1, <1>2, <1>3, <1>4, <1>5, QuietStep

\* Lemma: taking the mutex changes nothing the invariant speaks of.
LEMMA LockMuIInv ==
  ASSUME IInv, NEW t \in Thread, LockMu(t)
  PROVE  IInv'
  <1>1. Still
    BY DEF LockMu, disk, told, Still
  <1>2. TypeOK'
    BY StoreAssumption
    DEF IInv, TypeOK, LockMu, Goto, Answer, Pc, Reply, disk, told, StoreAssumption
  <1>3. Exclusive'
    BY StoreAssumption
    DEF IInv, TypeOK, Exclusive, LockMu, Goto, Critical, Pc, StoreAssumption
  <1>4. \A u \in Thread \ {t} :
          pc'[u] = pc[u] /\ req'[u] = req[u] /\ keys'[u] = keys[u]
          /\ reply'[u] = reply[u]
    BY DEF IInv, TypeOK, LockMu, Goto, Answer
  <1>5. InFlight(t)' /\ (pc'[t] = "apply" => keys'[t] = file')
        /\ (pc'[t] \in {"save", "rename"} => Prepared(t)')
    BY DEF IInv, TypeOK, InFlight, LockMu, Goto, disk
  <1> QED
    BY <1>1, <1>2, <1>3, <1>4, <1>5, QuietStep

\* Lemma: the flock goes to the only thread past it.
LEMMA FlockIInv ==
  ASSUME IInv, NEW t \in Thread, Flock(t)
  PROVE  IInv'
  <1>1. Still
    BY DEF Flock, disk, told, Still
  <1>2. TypeOK'
    BY StoreAssumption
    DEF IInv, TypeOK, Flock, Goto, Answer, Pc, Reply, disk, told, StoreAssumption
  <1>3. Exclusive'
    BY StoreAssumption
    DEF IInv, TypeOK, Exclusive, Flock, Goto, Critical, Pc, StoreAssumption
  <1>4. \A u \in Thread \ {t} :
          pc'[u] = pc[u] /\ req'[u] = req[u] /\ keys'[u] = keys[u]
          /\ reply'[u] = reply[u]
    BY DEF IInv, TypeOK, Flock, Goto, Answer
  <1>5. InFlight(t)' /\ (pc'[t] = "apply" => keys'[t] = file')
        /\ (pc'[t] \in {"save", "rename"} => Prepared(t)')
    BY DEF IInv, TypeOK, InFlight, Flock, Goto, disk
  <1> QED
    BY <1>1, <1>2, <1>3, <1>4, <1>5, QuietStep

\* Lemma: a thread refused the flock stays out.
LEMMA FlockFailsIInv ==
  ASSUME IInv, NEW t \in Thread, FlockFails(t)
  PROVE  IInv'
  <1>1. Still
    BY DEF FlockFails, disk, told, Still
  <1>2. TypeOK'
    BY StoreAssumption
    DEF IInv, TypeOK, FlockFails, Goto, Answer, Pc, Reply, disk, told, StoreAssumption
  <1>3. Exclusive'
    BY StoreAssumption
    DEF IInv, TypeOK, Exclusive, FlockFails, Goto, Critical, Pc, StoreAssumption
  <1>4. \A u \in Thread \ {t} :
          pc'[u] = pc[u] /\ req'[u] = req[u] /\ keys'[u] = keys[u]
          /\ reply'[u] = reply[u]
    BY DEF IInv, TypeOK, FlockFails, Goto, Answer
  <1>5. InFlight(t)' /\ (pc'[t] = "apply" => keys'[t] = file')
        /\ (pc'[t] \in {"save", "rename"} => Prepared(t)')
    BY DEF IInv, TypeOK, InFlight, FlockFails, Goto, disk
  <1> QED
    BY <1>1, <1>2, <1>3, <1>4, <1>5, QuietStep

\* Lemma: what is read under the flock is the file.
LEMMA LoadIInv ==
  ASSUME IInv, NEW t \in Thread, Load(t)
  PROVE  IInv'
  <1>1. Still
    BY DEF Load, disk, told, Still
  <1>2. TypeOK'
    BY StoreAssumption
    DEF IInv, TypeOK, Load, Goto, Answer, Pc, Reply, disk, told, StoreAssumption
  <1>3. Exclusive'
    BY StoreAssumption
    DEF IInv, TypeOK, Exclusive, Load, Goto, Critical, Pc, StoreAssumption
  <1>4. \A u \in Thread \ {t} :
          pc'[u] = pc[u] /\ req'[u] = req[u] /\ keys'[u] = keys[u]
          /\ reply'[u] = reply[u]
    BY DEF IInv, TypeOK, Load, Goto, Answer
  <1>5. InFlight(t)' /\ (pc'[t] = "apply" => keys'[t] = file')
        /\ (pc'[t] \in {"save", "rename"} => Prepared(t)')
    BY DEF IInv, TypeOK, InFlight, Load, Goto, disk
  <1> QED
    BY <1>1, <1>2, <1>3, <1>4, <1>5, QuietStep

\* Lemma: a failed read leaves the transaction.
LEMMA LoadFailsIInv ==
  ASSUME IInv, NEW t \in Thread, LoadFails(t)
  PROVE  IInv'
  <1>1. Still
    BY DEF LoadFails, disk, told, Still
  <1>2. TypeOK'
    BY StoreAssumption
    DEF IInv, TypeOK, LoadFails, Goto, Answer, Pc, Reply, disk, told, StoreAssumption
  <1>3. Exclusive'
    BY StoreAssumption
    DEF IInv, TypeOK, Exclusive, LoadFails, Goto, Critical, Pc, StoreAssumption
  <1>4. \A u \in Thread \ {t} :
          pc'[u] = pc[u] /\ req'[u] = req[u] /\ keys'[u] = keys[u]
          /\ reply'[u] = reply[u]
    BY DEF IInv, TypeOK, LoadFails, Goto, Answer
  <1>5. InFlight(t)' /\ (pc'[t] = "apply" => keys'[t] = file')
        /\ (pc'[t] \in {"save", "rename"} => Prepared(t)')
    BY DEF IInv, TypeOK, InFlight, LoadFails, Goto, disk
  <1> QED
    BY <1>1, <1>2, <1>3, <1>4, <1>5, QuietStep

\* Lemma: a refused or read-only call leaves the transaction.
LEMMA ApplyOnlyIInv ==
  ASSUME IInv, NEW t \in Thread, ApplyOnly(t)
  PROVE  IInv'
  <1>0. Verdict(req[t], keys[t], day) \in Reply
    BY DEF Verdict, Reply
  <1>1. Still
    BY DEF ApplyOnly, disk, told, Still
  <1>2. TypeOK'
    BY <1>0, StoreAssumption
    DEF IInv, TypeOK, ApplyOnly, Goto, Answer, Pc, Reply, disk, told, StoreAssumption
  <1>3. Exclusive'
    BY StoreAssumption
    DEF IInv, TypeOK, Exclusive, ApplyOnly, Goto, Critical, Pc, StoreAssumption
  <1>4. \A u \in Thread \ {t} :
          pc'[u] = pc[u] /\ req'[u] = req[u] /\ keys'[u] = keys[u]
          /\ reply'[u] = reply[u]
    BY DEF IInv, TypeOK, ApplyOnly, Goto, Answer
  <1>5. InFlight(t)' /\ (pc'[t] = "apply" => keys'[t] = file')
        /\ (pc'[t] \in {"save", "rename"} => Prepared(t)')
    BY DEF IInv, TypeOK, InFlight, ApplyOnly, Goto, disk
  <1> QED
    BY <1>1, <1>2, <1>3, <1>4, <1>5, QuietStep

\* Lemma: the temporary file is no one else's.
LEMMA SaveIInv ==
  ASSUME IInv, NEW t \in Thread, Save(t)
  PROVE  IInv'
  <1>1. Still
    BY DEF Save, disk, told, Still
  <1>2. TypeOK'
    BY StoreAssumption
    DEF IInv, TypeOK, Save, Goto, Answer, Pc, Reply, disk, told, StoreAssumption
  <1>3. Exclusive'
    BY StoreAssumption
    DEF IInv, TypeOK, Exclusive, Save, Goto, Critical, Pc, StoreAssumption
  <1>4. \A u \in Thread \ {t} :
          pc'[u] = pc[u] /\ req'[u] = req[u] /\ keys'[u] = keys[u]
          /\ reply'[u] = reply[u]
    BY DEF IInv, TypeOK, Save, Goto, Answer
  <1>5. InFlight(t)' /\ (pc'[t] = "apply" => keys'[t] = file')
        /\ (pc'[t] \in {"save", "rename"} => Prepared(t)')
    BY DEF IInv, TypeOK, NoLostUpdate, InFlight, Prepared, Save, Goto, disk, told
  <1> QED
    BY <1>1, <1>2, <1>3, <1>4, <1>5, QuietStep

\* Lemma: a failed write leaves the file as it was.
LEMMA WriteFailsIInv ==
  ASSUME IInv, NEW t \in Thread, WriteFails(t)
  PROVE  IInv'
  <1>1. Still
    BY DEF WriteFails, disk, told, Still
  <1>2. TypeOK'
    BY StoreAssumption
    DEF IInv, TypeOK, WriteFails, Goto, Answer, Pc, Reply, disk, told, StoreAssumption
  <1>3. Exclusive'
    BY StoreAssumption
    DEF IInv, TypeOK, Exclusive, WriteFails, Goto, Critical, Pc, StoreAssumption
  <1>4. \A u \in Thread \ {t} :
          pc'[u] = pc[u] /\ req'[u] = req[u] /\ keys'[u] = keys[u]
          /\ reply'[u] = reply[u]
    BY DEF IInv, TypeOK, WriteFails, Goto, Answer
  <1>5. InFlight(t)' /\ (pc'[t] = "apply" => keys'[t] = file')
        /\ (pc'[t] \in {"save", "rename"} => Prepared(t)')
    BY DEF IInv, TypeOK, InFlight, WriteFails, Goto, disk
  <1> QED
    BY <1>1, <1>2, <1>3, <1>4, <1>5, QuietStep

\* Lemma: a failed sync acknowledges nothing.
LEMMA SyncFailsIInv ==
  ASSUME IInv, NEW t \in Thread, SyncFails(t)
  PROVE  IInv'
  <1>1. Still
    BY DEF SyncFails, disk, told, Still
  <1>2. TypeOK'
    BY StoreAssumption
    DEF IInv, TypeOK, SyncFails, Goto, Answer, Pc, Reply, disk, told, StoreAssumption
  <1>3. Exclusive'
    BY StoreAssumption
    DEF IInv, TypeOK, Exclusive, SyncFails, Goto, Critical, Pc, StoreAssumption
  <1>4. \A u \in Thread \ {t} :
          pc'[u] = pc[u] /\ req'[u] = req[u] /\ keys'[u] = keys[u]
          /\ reply'[u] = reply[u]
    BY DEF IInv, TypeOK, SyncFails, Goto, Answer
  <1>5. InFlight(t)' /\ (pc'[t] = "apply" => keys'[t] = file')
        /\ (pc'[t] \in {"save", "rename"} => Prepared(t)')
    BY DEF IInv, TypeOK, InFlight, SyncFails, Goto, disk
  <1> QED
    BY <1>1, <1>2, <1>3, <1>4, <1>5, QuietStep

\* Lemma: the flock is given back by its holder.
LEMMA ReleaseIInv ==
  ASSUME IInv, NEW t \in Thread, Release(t)
  PROVE  IInv'
  <1>0. NoKeys \in KeyMap
    BY NoKeysType
  <1>1. Still
    BY DEF Release, disk, told, Still
  <1>2. TypeOK'
    BY <1>0, StoreAssumption
    DEF IInv, TypeOK, Release, Goto, Answer, Pc, Reply, disk, told, StoreAssumption
  <1>3. Exclusive'
    BY StoreAssumption
    DEF IInv, TypeOK, Exclusive, Release, Goto, Critical, Pc, StoreAssumption
  <1>4. \A u \in Thread \ {t} :
          pc'[u] = pc[u] /\ req'[u] = req[u] /\ keys'[u] = keys[u]
          /\ reply'[u] = reply[u]
    BY DEF IInv, TypeOK, Release, Goto, Answer
  <1>5. InFlight(t)' /\ (pc'[t] = "apply" => keys'[t] = file')
        /\ (pc'[t] \in {"save", "rename"} => Prepared(t)')
    BY DEF IInv, TypeOK, InFlight, Release, Goto, disk
  <1> QED
    BY <1>1, <1>2, <1>3, <1>4, <1>5, QuietStep

\* Lemma: the mutex is given back after the flock.
LEMMA ReturnIInv ==
  ASSUME IInv, NEW t \in Thread, Return(t)
  PROVE  IInv'
  <1>0. NoRequest \in Request
    BY NoRequestType
  <1>1. Still
    BY DEF Return, disk, told, Still
  <1>2. TypeOK'
    BY <1>0, StoreAssumption
    DEF IInv, TypeOK, Return, Goto, Answer, Pc, Reply, disk, told, StoreAssumption
  <1>3. Exclusive'
    BY StoreAssumption
    DEF IInv, TypeOK, Exclusive, Return, Goto, Critical, Pc, StoreAssumption
  <1>4. \A u \in Thread \ {t} :
          pc'[u] = pc[u] /\ req'[u] = req[u] /\ keys'[u] = keys[u]
          /\ reply'[u] = reply[u]
    BY DEF IInv, TypeOK, Return, Goto, Answer
  <1>5. InFlight(t)' /\ (pc'[t] = "apply" => keys'[t] = file')
        /\ (pc'[t] \in {"save", "rename"} => Prepared(t)')
    BY DEF IInv, TypeOK, InFlight, Return, Goto, disk
  <1> QED
    BY <1>1, <1>2, <1>3, <1>4, <1>5, QuietStep

\* Lemma: the map that fn leaves is the caller's own change of the file.
LEMMA ApplyIInv ==
  ASSUME IInv, NEW t \in Thread, Apply(t)
  PROVE  IInv'
  <1>1. Still
    BY DEF Apply, disk, told, Still
  <1>2. keys[t] = file /\ keys[t] \in KeyMap /\ req[t] \in Request
        /\ day \in Day /\ day \in Nat
    BY OpsAssumption
    DEF OpsAssumption, IInv, TypeOK, NoLostUpdate, Apply, Day
  <1>3. Updated(req[t], keys[t], day) \in KeyMap
    BY <1>2, UpdatedFacts DEF Apply
  <1>4. TypeOK'
    BY <1>3 DEF IInv, TypeOK, Apply, Goto, Pc, disk, told
  <1>5. Exclusive'
    BY DEF IInv, TypeOK, Exclusive, Apply, Goto, Critical, Pc
  <1>6. \A u \in Thread \ {t} :
          pc'[u] = pc[u] /\ req'[u] = req[u] /\ keys'[u] = keys[u]
          /\ reply'[u] = reply[u]
    BY DEF IInv, TypeOK, Apply, Goto
  <1>7. Prepared(t)'
    <2>1. file[req[t].key].day <= day
      BY <1>2 DEF IInv, DiskSound, Sound, Request
    <2>2. day <= day
      BY <1>2
    <2> QED
      BY <1>2, <2>1, <2>2 DEF Prepared, Apply, IInv, TypeOK, disk
  <1>8. InFlight(t)' /\ pc'[t] = "save"
    BY DEF IInv, TypeOK, InFlight, Apply, Goto
  <1> QED
    BY <1>1, <1>4, <1>5, <1>6, <1>7, <1>8, QuietStep

\* Lemma: a prepared map is sound, accounts for everything told so far and for
\* what its own caller will be told, and keeps revoked keys as they are.
LEMMA PreparedFacts ==
  ASSUME IInv, NEW t \in Thread, Writes(req[t]), Prepared(t)
  PROVE  /\ keys[t] \in KeyMap
         /\ \A k \in KeyId :
              /\ Sound(keys[t][k], day)
              /\ Accounts(keys[t][k], k)
              /\ \A d \in Day : granted[k][d] <= keys[t][k].limit
              /\ k \in withdrawn => keys[t][k] = file[k]
         /\ LET k == req[t].key
                r == keys[t][k]
                op == req[t].op
            IN  /\ op = "reserve" =>
                     r.day \in Day /\ granted[k][r.day] + req[t].arg <= r.used
                /\ op = "attempt" =>
                     r.day \in Day /\ counted[k][r.day] + 1 <= r.attempts
                /\ op = "create" => r.status # "absent"
                /\ op = "revoke" => r.status = "revoked"
  <1> DEFINE q == req[t]
             k0 == q.key
             r == file[k0]
  <1>1. PICK d \in Day : /\ r.day <= d /\ d <= day
                         /\ Verdict(q, file, d) = "ok"
                         /\ keys[t] = Updated(q, file, d)
    BY DEF Prepared
  <1> DEFINE w == Written(q, r, d)
  <1>2. /\ q \in Request /\ k0 \in KeyId /\ q.arg \in Nat
        /\ file \in KeyMap /\ r \in Record /\ day \in Day
    BY DEF IInv, TypeOK, Request, KeyMap
  <1>3. /\ keys[t] \in KeyMap
        /\ keys[t][k0] = w
        /\ \A k \in KeyId \ {k0} : keys[t][k] = file[k]
    BY <1>1, <1>2, UpdatedFacts
  <1>4. \A k \in KeyId :
          /\ Sound(file[k], day)
          /\ Accounts(file[k], k)
          /\ \A e \in Day : granted[k][e] <= file[k].limit
    BY DEF IInv, DiskSound, Remembered, Settled
  <1>5. /\ Sound(w, day)
        /\ w.status # "absent"
        /\ r.day <= w.day
        /\ r.status # "absent" => w.limit = r.limit
        /\ r.status = "revoked" => w = r
        /\ w.day = r.day => w.used >= r.used /\ w.attempts >= r.attempts
    BY <1>1, <1>2, <1>4, SoundStep
  <1>6. /\ \A e \in Day : granted[k0][e] \in Nat /\ counted[k0][e] \in Nat /\ e \in Nat
        /\ r.day \in Nat /\ r.used \in Nat /\ r.limit \in Nat /\ r.attempts \in Nat
        /\ \A e \in Day : 0 < e
    <2>1. \A e \in Day : e \in Nat /\ 0 < e
      BY DEF Day
    <2>2. \A e \in Day : granted[k0][e] \in Nat /\ counted[k0][e] \in Nat
      BY <1>2 DEF IInv, TypeOK
    <2>3. /\ r.day \in Nat /\ r.used \in Nat
          /\ r.limit \in Nat /\ r.attempts \in Nat
      BY <1>2, OpsAssumption DEF OpsAssumption, Record
    <2> QED
      BY <2>1, <2>2, <2>3
  <1>7. w \in Record
    BY <1>2, <1>3 DEF KeyMap
  <1>8. /\ w.day \in Nat /\ w.used \in Nat /\ w.limit \in Nat /\ w.attempts \in Nat
    BY <1>7, OpsAssumption DEF OpsAssumption, Record
  <1>9. k0 \in withdrawn => r.status = "revoked"
    BY <1>2, <1>4 DEF Accounts
  <1>10. k0 \in withdrawn => w = r
    BY <1>5, <1>9
  <1>11. \A e \in Day : w.day < e => granted[k0][e] = 0 /\ counted[k0][e] = 0
    BY <1>2, <1>4, <1>5, <1>6, <1>8 DEF Accounts
  <1>12. \A e \in Day : w.day = e =>
           granted[k0][e] <= w.used /\ counted[k0][e] <= w.attempts
    <2> SUFFICES ASSUME w.day \in Day
                 PROVE  /\ granted[k0][w.day] <= w.used
                        /\ counted[k0][w.day] <= w.attempts
      OBVIOUS
    <2>1. CASE w.day = r.day
      BY <1>2, <1>4, <1>5, <1>6, <1>8, <2>1 DEF Accounts
    <2>2. CASE w.day # r.day
      <3>1. r.day < w.day
        BY <1>5, <1>6, <1>8, <2>2
      <3>2. granted[k0][w.day] = 0 /\ counted[k0][w.day] = 0
        BY <1>2, <1>4, <3>1 DEF Accounts
      <3> QED
        BY <1>8, <3>2
    <2> QED
      BY <2>1, <2>2
  <1>13. k0 \in withdrawn => w.status = "revoked"
    BY <1>9, <1>10
  <1>14. Accounts(w, k0)
    BY <1>5, <1>11, <1>12, <1>13 DEF Accounts
  <1>15. \A e \in Day : granted[k0][e] <= w.limit
    <2>1. CASE r.status = "absent"
      <3>1. \A e \in Day : granted[k0][e] = 0
        BY <1>2, <1>4, <1>6, <2>1 DEF Accounts, Sound
      <3> QED
        BY <1>8, <3>1
    <2>2. CASE r.status # "absent"
      BY <1>2, <1>4, <1>5, <2>2
    <2> QED
      BY <2>1, <2>2
  <1>16. q.op = "reserve" =>
           w.day \in Day /\ granted[k0][w.day] + q.arg <= w.used
    <2> SUFFICES ASSUME q.op = "reserve"
                 PROVE  w.day \in Day /\ granted[k0][w.day] + q.arg <= w.used
      OBVIOUS
    <2>1. w.day = d /\ w.used = Reset(r, d).used + q.arg
      BY <1>2, ReserveFacts
    <2>2. /\ r.day = d => Reset(r, d) = r
          /\ r.day # d => Reset(r, d).used = 0
          /\ Reset(r, d).used \in Nat
      BY <1>2, ResetFacts DEF Record
    <2>3. granted[k0][d] <= Reset(r, d).used
      BY <1>1, <1>2, <1>4, <1>6, <2>2 DEF Accounts
    <2> QED
      BY <1>2, <1>6, <2>1, <2>2, <2>3
  <1>17. q.op = "attempt" =>
           w.day \in Day /\ counted[k0][w.day] + 1 <= w.attempts
    <2> SUFFICES ASSUME q.op = "attempt"
                 PROVE  w.day \in Day /\ counted[k0][w.day] + 1 <= w.attempts
      OBVIOUS
    <2>1. w.day = d /\ w.attempts = Reset(r, d).attempts + 1
      BY <1>2, AttemptFacts
    <2>2. /\ r.day = d => Reset(r, d) = r
          /\ r.day # d => Reset(r, d).attempts = 0
          /\ Reset(r, d).attempts \in Nat
      BY <1>2, ResetFacts DEF Record
    <2>3. counted[k0][d] <= Reset(r, d).attempts
      BY <1>1, <1>2, <1>4, <1>6, <2>2 DEF Accounts
    <2> QED
      BY <1>6, <2>1, <2>2, <2>3
  <1>18. q.op = "revoke" => w.status = "revoked"
    BY <1>2, RevokeFacts
  <1>19. \A k \in KeyId :
           /\ Sound(keys[t][k], day)
           /\ Accounts(keys[t][k], k)
           /\ \A e \in Day : granted[k][e] <= keys[t][k].limit
           /\ k \in withdrawn => keys[t][k] = file[k]
    <2> HIDE DEF w, r, k0
    <2> SUFFICES ASSUME NEW k \in KeyId
                 PROVE  /\ Sound(keys[t][k], day)
                        /\ Accounts(keys[t][k], k)
                        /\ \A e \in Day : granted[k][e] <= keys[t][k].limit
                        /\ k \in withdrawn => keys[t][k] = file[k]
      OBVIOUS
    <2>1. CASE k = k0
      BY <1>3, <1>5, <1>10, <1>14, <1>15, <2>1 DEF r
    <2>2. CASE k # k0
      BY <1>3, <1>4, <2>2
    <2> QED
      BY <2>1, <2>2
  <1> HIDE DEF w
  <1> QED
    BY <1>3, <1>5, <1>16, <1>17, <1>18, <1>19

\* Lemma: under the flock no other thread is inside its transaction.
LEMMA Alone ==
  ASSUME IInv, NEW t \in Thread, pc[t] \in Critical
  PROVE  \A u \in Thread \ {t} : pc[u] \notin Critical
  BY DEF IInv, Exclusive

\* Lemma: the rename puts a sound map in place that forgets nothing.
LEMMA RenameIInv ==
  ASSUME IInv, NEW t \in Thread, Rename(t)
  PROVE  IInv'
  <1>1. /\ Writes(req[t]) /\ Prepared(t)
        /\ req[t] \in Request /\ req[t].key \in KeyId
    BY DEF IInv, TypeOK, InFlight, NoLostUpdate, Rename, Request
  <1>2. \A u \in Thread \ {t} : pc'[u] = pc[u] /\ pc[u] \notin Critical
    BY Alone DEF IInv, TypeOK, Rename, Goto, Critical
  <1>3. pc'[t] = "sync" /\ reply'[t] = "ok"
    BY DEF IInv, TypeOK, Rename, Goto, Answer
  <1>4. keys[t] \in KeyMap
    BY <1>1, PreparedFacts
  <1>5. TypeOK'
    BY <1>4 DEF IInv, TypeOK, Rename, Goto, Answer, Pc, Reply, told
  <1>6. Exclusive'
    BY <1>2, <1>3 DEF IInv, Exclusive, Rename, Critical
  <1>7. NoLostUpdate'
    BY <1>2, <1>3 DEF NoLostUpdate, Critical
  <1>8. Due(t)'
    BY <1>1, <1>3, PreparedFacts DEF Due, Rename, told
  <1>9. \A u \in Thread : InFlight(u)'
    BY <1>2, <1>3, <1>8 DEF InFlight, Critical
  <1>10. DiskSound'
    BY <1>1, PreparedFacts DEF IInv, DiskSound, Rename
  <1>11. Remembered'
    BY <1>1, PreparedFacts DEF IInv, Remembered, Accounts, Rename, told
  <1>12. Settled'
    BY <1>1, PreparedFacts DEF IInv, DiskSound, Settled, Rename, told
  <1> QED
    BY <1>5, <1>6, <1>7, <1>9, <1>10, <1>11, <1>12 DEF IInv

\* Lemma: what the caller is told after the sync is on the only disk left.
LEMMA SyncDirIInv ==
  ASSUME IInv, NEW t \in Thread, SyncDir(t)
  PROVE  IInv'
  <1> DEFINE k0 == req[t].key
             r == file[k0]
             n == req[t].arg
             op == req[t].op
  <1>1. /\ Due(t) /\ keys[t] = file
        /\ k0 \in KeyId /\ n \in Nat /\ r \in Record /\ file \in KeyMap
    BY DEF IInv, InFlight, Due, TypeOK, SyncDir, Request, KeyMap
  <1>2. \A u \in Thread \ {t} : pc'[u] = pc[u] /\ pc[u] \notin Critical
    BY Alone DEF IInv, TypeOK, SyncDir, Goto, Critical
  <1>3. pc'[t] = "release"
    BY DEF IInv, TypeOK, SyncDir, Goto
  <1>4. /\ granted' = IF op = "reserve"
                      THEN [granted EXCEPT ![k0][r.day] = @ + n] ELSE granted
        /\ counted' = IF op = "attempt"
                      THEN [counted EXCEPT ![k0][r.day] = @ + 1] ELSE counted
        /\ printed' = IF op = "create" THEN printed \cup {k0} ELSE printed
        /\ withdrawn' = IF op = "revoke" THEN withdrawn \cup {k0} ELSE withdrawn
    BY <1>1 DEF SyncDir, Tell
  <1>5. /\ op = "reserve" => r.day \in Day /\ granted[k0][r.day] + n <= r.used
        /\ op = "attempt" => r.day \in Day /\ counted[k0][r.day] + 1 <= r.attempts
        /\ op = "create" => r.status # "absent"
        /\ op = "revoke" => r.status = "revoked"
    BY <1>1 DEF Due
  <1>6. \A k \in KeyId : /\ Sound(file[k], day)
                         /\ Accounts(file[k], k)
                         /\ \A d \in Day : granted[k][d] <= file[k].limit
    BY DEF IInv, DiskSound, Remembered, Settled
  <1>7. /\ granted \in [KeyId -> [Day -> Nat]]
        /\ counted \in [KeyId -> [Day -> Nat]]
    BY DEF IInv, TypeOK
  <1>8. /\ \A k \in KeyId, d \in Day :
             /\ granted'[k][d] =
                  IF op = "reserve" /\ k = k0 /\ d = r.day
                    THEN granted[k][d] + n ELSE granted[k][d]
             /\ counted'[k][d] =
                  IF op = "attempt" /\ k = k0 /\ d = r.day
                    THEN counted[k][d] + 1 ELSE counted[k][d]
        /\ granted' \in [KeyId -> [Day -> Nat]]
        /\ counted' \in [KeyId -> [Day -> Nat]]
    <2> HIDE DEF k0, r, n, op
    <2>1. CASE op = "reserve"
      <3>1. /\ granted' = [granted EXCEPT ![k0][r.day] = @ + n]
            /\ counted' = counted /\ r.day \in Day
        BY <1>4, <1>5, <2>1
      <3> QED
        BY <1>1, <1>7, <2>1, <3>1
    <2>2. CASE op = "attempt"
      <3>1. /\ counted' = [counted EXCEPT ![k0][r.day] = @ + 1]
            /\ granted' = granted /\ r.day \in Day
        BY <1>4, <1>5, <2>2
      <3> QED
        BY <1>1, <1>7, <2>2, <3>1
    <2>3. CASE op \notin {"reserve", "attempt"}
      BY <1>4, <1>7, <2>3
    <2> QED
      BY <2>1, <2>2, <2>3
  <1>9. TypeOK'
    BY <1>1, <1>4, <1>8 DEF IInv, TypeOK, SyncDir, Goto, Pc
  <1>10. Exclusive'
    BY <1>2, <1>3 DEF IInv, Exclusive, SyncDir, Critical
  <1>11. NoLostUpdate' /\ \A u \in Thread : InFlight(u)'
    BY <1>2, <1>3 DEF NoLostUpdate, InFlight, Critical
  <1>12. DiskSound'
    BY <1>6 DEF SyncDir, DiskSound
  <1>13. /\ r.used \in Nat /\ r.attempts \in Nat /\ r.limit \in Nat
         /\ r.used <= r.limit
    BY <1>1, <1>6 DEF Record, Sound
  <1>14. \A k \in KeyId : Accounts(file[k], k)'
    <2> SUFFICES ASSUME NEW k \in KeyId PROVE Accounts(file[k], k)'
      OBVIOUS
    <2>1. file' = file
      BY DEF SyncDir
    <2>2. CASE k # k0
      BY <1>4, <1>6, <1>8, <2>1, <2>2 DEF Accounts
    <2>3. CASE k = k0
      <3>1. \A d \in Day : r.day = d =>
              granted'[k0][d] <= r.used /\ counted'[k0][d] <= r.attempts
        BY <1>1, <1>5, <1>6, <1>8 DEF Accounts
      <3>2. \A d \in Day : r.day < d => d # r.day
        BY OpsAssumption, <1>1 DEF OpsAssumption, Day, Record
      <3>3. \A d \in Day : r.day < d =>
              granted'[k0][d] = 0 /\ counted'[k0][d] = 0
        <4> SUFFICES ASSUME NEW d \in Day, r.day < d
                     PROVE  granted'[k0][d] = 0 /\ counted'[k0][d] = 0
          OBVIOUS
        <4>1. granted'[k0][d] = granted[k0][d] /\ counted'[k0][d] = counted[k0][d]
          BY <1>1, <1>8, <3>2
        <4>2. granted[k0][d] = 0 /\ counted[k0][d] = 0
          BY <1>1, <1>6 DEF Accounts
        <4> QED
          BY <4>1, <4>2
      <3>4. /\ k0 \in printed' => r.status # "absent"
            /\ k0 \in withdrawn' => r.status = "revoked"
        BY <1>1, <1>4, <1>5, <1>6 DEF Accounts
      <3> QED
        BY <2>1, <2>3, <3>1, <3>3, <3>4 DEF Accounts
    <2> QED
      BY <2>2, <2>3
  <1>15. Remembered'
    BY <1>14 DEF Remembered, SyncDir
  <1>16. \A k \in KeyId, d \in Day : granted'[k][d] <= file[k].limit
    <2> SUFFICES ASSUME NEW k \in KeyId, NEW d \in Day
                 PROVE  granted'[k][d] <= file[k].limit
      OBVIOUS
    <2>1. CASE op = "reserve" /\ k = k0 /\ d = r.day
      BY <1>1, <1>5, <1>7, <1>8, <1>13, <2>1
    <2>2. CASE ~ (op = "reserve" /\ k = k0 /\ d = r.day)
      BY <1>6, <1>8, <2>2
    <2> QED
      BY <2>1, <2>2
  <1>17. Settled'
    BY <1>16 DEF Settled, SyncDir
  <1> QED
    BY <1>9, <1>10, <1>11, <1>12, <1>15, <1>17 DEF IInv

\* Lemma: threads that vanish leave no lock and nothing in flight.
LEMMA VanishFacts ==
  ASSUME IInv, NEW T \in SUBSET Thread, Vanish(T)
  PROVE  /\ Exclusive'
         /\ \A t \in Thread : pc'[t] \in Critical =>
              /\ t \notin T
              /\ pc'[t] = pc[t] /\ req'[t] = req[t]
              /\ keys'[t] = keys[t] /\ reply'[t] = reply[t]
         /\ mu' \in [Store -> Thread \cup {NoThread}]
         /\ flock' \in Thread \cup {NoThread}
         /\ pc' \in [Thread -> Pc]
         /\ req' \in [Thread -> Request]
         /\ keys' \in [Thread -> KeyMap]
         /\ reply' \in [Thread -> Reply]
  <1>1. pc' \in [Thread -> Pc]
    BY DEF IInv, TypeOK, Vanish, Pc
  <1>2. /\ req' \in [Thread -> Request] /\ keys' \in [Thread -> KeyMap]
        /\ reply' \in [Thread -> Reply]
    BY NoRequestType, NoKeysType DEF IInv, TypeOK, Vanish, Reply
  <1>3. /\ mu' \in [Store -> Thread \cup {NoThread}]
        /\ flock' \in Thread \cup {NoThread}
    BY DEF IInv, TypeOK, Vanish
  <1>4. \A t \in Thread : pc'[t] \in Critical =>
          /\ t \notin T
          /\ pc'[t] = pc[t] /\ req'[t] = req[t]
          /\ keys'[t] = keys[t] /\ reply'[t] = reply[t]
    BY DEF Vanish, Critical
  <1>5. Exclusive'
    BY StoreAssumption
    DEF StoreAssumption, IInv, TypeOK, Exclusive, Vanish, Critical
  <1> QED
    BY <1>1, <1>2, <1>3, <1>4, <1>5

\* Lemma: a process may die anywhere.
LEMMA CrashIInv ==
  ASSUME IInv, NEW s \in Store, Crash(s)
  PROVE  IInv'
  <1> DEFINE T == {t \in Thread : StoreOf[t] = s}
  <1>1. Vanish(T) /\ T \in SUBSET Thread
    BY DEF Crash
  <1>2. Still
    BY DEF Crash, Vanish, disk, told, Still
  <1> HIDE DEF T
  <1>3. DiskSound' /\ Remembered' /\ Settled'
    BY <1>2, StillFacts DEF IInv
  <1>4. TypeOK'
    BY <1>1, <1>2, VanishFacts DEF IInv, TypeOK, Still
  <1>5. \A u \in Thread : InFlight(u)'
    BY <1>1, <1>2, VanishFacts, StillThread DEF IInv, InFlight, Critical
  <1>6. NoLostUpdate'
    <2> SUFFICES ASSUME NEW u \in Thread, pc'[u] \in Critical
                 PROVE  /\ pc'[u] = "apply" => keys'[u] = file'
                        /\ pc'[u] \in {"save", "rename"} => Prepared(u)'
      BY DEF NoLostUpdate, Critical
    <2>1. /\ pc[u] = "apply" => keys[u] = file
          /\ pc[u] \in {"save", "rename"} => Prepared(u)
      BY DEF IInv, NoLostUpdate
    <2> QED
      BY <1>1, <1>2, <2>1, VanishFacts, StillThread
  <1> QED
    BY <1>1, <1>3, <1>4, <1>5, <1>6, VanishFacts DEF IInv

\* Lemma: whatever map a power cut leaves, it accounts for what callers know.
LEMMA PowerLossIInv ==
  ASSUME IInv, PowerLoss
  PROVE  IInv'
  <1>1. Vanish(Thread) /\ Thread \in SUBSET Thread
    BY DEF PowerLoss
  <1>2. PICK m \in survivors : file' = m /\ survivors' = {m}
    BY DEF PowerLoss
  <1>3. /\ day' = day /\ granted' = granted /\ counted' = counted
        /\ printed' = printed /\ withdrawn' = withdrawn
    BY <1>1 DEF Vanish, told
  <1>4. \A u \in Thread : pc'[u] = "idle"
    BY <1>1 DEF Vanish
  <1>5. TypeOK'
    BY <1>1, <1>2, <1>3, VanishFacts DEF IInv, TypeOK
  <1>6. NoLostUpdate' /\ \A u \in Thread : InFlight(u)'
    BY <1>4 DEF NoLostUpdate, InFlight
  <1>7. DiskSound'
    BY <1>2, <1>3 DEF IInv, DiskSound
  <1>8. Remembered'
    BY <1>2, <1>3 DEF IInv, Remembered, Accounts
  <1>9. Settled'
    BY <1>2, <1>3 DEF IInv, Settled
  <1> QED
    BY <1>1, <1>5, <1>6, <1>7, <1>8, <1>9, VanishFacts DEF IInv

\* Lemma: midnight disturbs no record and no prepared map.
LEMMA TickIInv ==
  ASSUME IInv, Tick
  PROVE  IInv'
  <1>1. /\ day \in Nat /\ day' = day + 1 /\ day' \in Day
    BY OpsAssumption DEF OpsAssumption, IInv, TypeOK, Tick, Day
  <1>2. TypeOK'
    BY <1>1 DEF IInv, TypeOK, Tick, disk, told
  <1>3. Exclusive'
    BY DEF IInv, Exclusive, Tick
  <1>4. NoLostUpdate'
    <2> SUFFICES ASSUME NEW t \in Thread,
                        pc[t] \in {"save", "rename"}
                 PROVE  Prepared(t)'
      BY DEF IInv, NoLostUpdate, Tick, disk
    <2>1. PICK d \in Day : /\ file[req[t].key].day <= d /\ d <= day
                           /\ Verdict(req[t], file, d) = "ok"
                           /\ keys[t] = Updated(req[t], file, d)
      BY DEF IInv, NoLostUpdate, Prepared
    <2>2. d <= day'
      BY <1>1, <2>1 DEF Day
    <2> QED
      BY <2>1, <2>2 DEF Prepared, Tick, disk
  <1>5. \A t \in Thread : InFlight(t)'
    BY DEF IInv, InFlight, Due, Tick, disk, told
  <1>6. DiskSound'
    <2> SUFFICES ASSUME NEW m \in survivors, NEW k \in KeyId
                 PROVE  Sound(m[k], day')
      BY DEF IInv, DiskSound, Tick, disk
    <2>1. Sound(m[k], day) /\ m[k].day \in Nat
      BY OpsAssumption
      DEF OpsAssumption, IInv, DiskSound, TypeOK, KeyMap, Record
    <2>2. m[k].day <= day'
      BY <1>1, <2>1 DEF Sound
    <2> QED
      BY <2>1, <2>2 DEF Sound
  <1>7. Remembered' /\ Settled'
    BY DEF IInv, Remembered, Accounts, Settled, Tick, disk, told
  <1> QED
    BY <1>2, <1>3, <1>4, <1>5, <1>6, <1>7 DEF IInv

-----------------------------------------------------------------------------
(***************************************************************************)
(* The theorems.                                                           *)
(***************************************************************************)
\* Lemma: every step of the store, power cuts included, preserves IInv.
LEMMA NextIInv == IInv /\ [PowerNext]_vars => IInv'
  <1> SUFFICES ASSUME IInv, [PowerNext]_vars PROVE IInv'
    OBVIOUS
  <1>1. CASE PowerLoss
    BY <1>1, PowerLossIInv
  <1>2. CASE Tick
    BY <1>2, TickIInv
  <1>3. ASSUME NEW s \in Store, Crash(s) PROVE IInv'
    BY <1>3, CrashIInv
  <1>4. ASSUME NEW t \in Thread, NEW q \in AdminRequest \cup ServerRequest,
               Call(t, q)
        PROVE  IInv'
    BY <1>4, CallIInv
  <1>5. ASSUME NEW t \in Thread, Step(t) PROVE IInv'
    BY <1>5, LockMuIInv, FlockIInv, FlockFailsIInv, LoadIInv, LoadFailsIInv,
       ApplyIInv, ApplyOnlyIInv, SaveIInv, WriteFailsIInv, RenameIInv,
       SyncDirIInv, SyncFailsIInv, ReleaseIInv, ReturnIInv
    DEF Step, Proceed
  <1>6. CASE UNCHANGED vars
    <2>1. Still
      BY <1>6 DEF vars, disk, told, Still
    <2>2. DiskSound' /\ Remembered' /\ Settled'
      BY <2>1, StillFacts DEF IInv
    <2>3. TypeOK' /\ Exclusive'
      BY <1>6 DEF vars, disk, told, IInv, TypeOK, Exclusive
    <2>4. \A u \in Thread :
            pc'[u] = pc[u] /\ req'[u] = req[u] /\ keys'[u] = keys[u]
            /\ reply'[u] = reply[u]
      BY <1>6 DEF vars
    <2>5. \A u \in Thread : InFlight(u)'
      BY <2>1, <2>4, StillThread DEF IInv
    <2>6. NoLostUpdate'
      BY <2>1, <2>4, StillThread DEF IInv, NoLostUpdate
    <2> QED
      BY <2>2, <2>3, <2>5, <2>6 DEF IInv
  <1> QED
    BY <1>1, <1>2, <1>3, <1>4, <1>5, <1>6 DEF PowerNext, Next

\* Theorem: IInv holds throughout, whatever fails, dies or loses power.
THEOREM Invariance == PowerSpec => []IInv
  BY InitIInv, NextIInv, PTL DEF PowerSpec

\* Theorem: the variables keep their types.
THEOREM TypeCorrect == PowerSpec => []TypeOK
  <1>1. IInv => TypeOK
    BY DEF IInv
  <1> QED
    BY <1>1, Invariance, PTL

\* Theorem: no transaction of any goroutine or process overwrites what another
\* wrote after it read (store.go:47-57).
THEOREM NoUpdateIsLost == PowerSpec => []NoLostUpdate
  <1>1. IInv => NoLostUpdate
    BY DEF IInv
  <1> QED
    BY <1>1, Invariance, PTL

\* Theorem: no key is ever granted more units in a day than its daily limit
\* (store.go:195), through crashes and power cuts.
THEOREM QuotaIsKept == PowerSpec => []QuotaKept
  <1>1. IInv => QuotaKept
    BY DEF IInv, DiskSound, Settled, QuotaKept
  <1> QED
    BY <1>1, Invariance, PTL

\* Theorem: what a caller was told survives every crash and every power cut
\* (store.go:95-110).
THEOREM NothingIsForgotten == PowerSpec => []Remembered
  <1>1. IInv => Remembered
    BY DEF IInv
  <1> QED
    BY <1>1, Invariance, PTL

\* Theorem: an acknowledged revocation freezes its key (store.go:138-147).
THEOREM RevocationHolds == PowerSpec => RevocationIsFinal
  <1>1. IInv /\ [PowerNext]_vars =>
          [\A k \in withdrawn : file'[k] = file[k]]_vars
    <2> SUFFICES ASSUME IInv, [PowerNext]_vars, NEW k \in withdrawn
                 PROVE  file'[k] = file[k]
      BY DEF vars
    <2>1. k \in KeyId /\ \A m \in survivors : m[k] = file[k]
      BY DEF IInv, TypeOK, Settled
    <2>2. CASE PowerLoss
      BY <2>1, <2>2 DEF PowerLoss
    <2>3. ASSUME NEW t \in Thread, Rename(t) PROVE file'[k] = file[k]
      <3>1. Writes(req[t]) /\ Prepared(t)
        BY <2>3 DEF IInv, InFlight, NoLostUpdate, Rename
      <3> QED
        BY <2>1, <2>3, <3>1, PreparedFacts DEF Rename
    <2>4. ASSUME file' = file PROVE file'[k] = file[k]
      BY <2>4
    <2> QED
      BY <2>2, <2>3, <2>4
      DEF PowerNext, Next, Step, Proceed, Call, LockMu, Flock, FlockFails,
          Load, LoadFails, Apply, ApplyOnly, Save, WriteFails, SyncDir,
          SyncFails, Release, Return, Crash, Tick, vars, disk
  <1> QED
    BY <1>1, Invariance, PTL DEF PowerSpec, RevocationIsFinal

\* Theorem: short of a power cut, days and counters only move forward
\* (store.go:149-156, 194-198, 212-213).
THEOREM CountersAreDaily == PowerSpec => CountersFollowTheDay
  <1>1. IInv /\ [PowerNext]_vars => [PowerLoss \/ \A k \in KeyId : Grows(k)]_vars
    <2> SUFFICES ASSUME IInv, Next \/ UNCHANGED vars, NEW k \in KeyId
                 PROVE  Grows(k)
      BY DEF PowerNext
    <2>1. /\ file \in KeyMap /\ file[k].day \in Nat
          /\ file[k].used \in Nat /\ file[k].attempts \in Nat
      BY OpsAssumption DEF OpsAssumption, IInv, TypeOK, KeyMap, Record
    <2>2. ASSUME file' = file PROVE Grows(k)
      BY <2>1, <2>2 DEF Grows
    <2>3. ASSUME NEW t \in Thread, Rename(t) PROVE Grows(k)
      <3>1. Writes(req[t]) /\ Prepared(t) /\ file' = keys[t] /\ req[t] \in Request
        BY <2>3 DEF IInv, TypeOK, InFlight, NoLostUpdate, Rename
      <3>2. PICK d \in Day : /\ file[req[t].key].day <= d /\ d <= day
                             /\ Verdict(req[t], file, d) = "ok"
                             /\ keys[t] = Updated(req[t], file, d)
        BY <3>1 DEF Prepared
      <3>3. /\ file'[req[t].key] = Written(req[t], file[req[t].key], d)
            /\ \A j \in KeyId \ {req[t].key} : file'[j] = file[j]
        BY <2>1, <3>1, <3>2, UpdatedFacts
      <3>4. CASE k # req[t].key
        BY <2>1, <3>3, <3>4 DEF Grows
      <3>5. CASE k = req[t].key
        <4>1. Sound(file[k], day) /\ day \in Day
          BY DEF IInv, DiskSound, TypeOK
        <4> DEFINE r == file[k]
                   w == Written(req[t], r, d)
        <4>2. /\ w.status # "absent"
              /\ r.day <= w.day
              /\ r.status # "absent" => w.limit = r.limit
              /\ w.day = r.day => w.used >= r.used /\ w.attempts >= r.attempts
              /\ w.day > r.day => w.used = 0 \/ w.attempts = 0
          BY <2>1, <3>1, <3>2, <3>5, <4>1, SoundStep
        <4>3. w \in Record
          BY <2>1, <3>1, <3>2, <3>3, <3>5, UpdatedFacts DEF KeyMap
        <4>4. w.day \in Nat
          BY <4>3, OpsAssumption DEF OpsAssumption, Record
        <4>5. file'[k] = w
          BY <3>3, <3>5
        <4> HIDE DEF w
        <4> QED
          BY <2>1, <4>2, <4>4, <4>5 DEF Grows
      <3> QED
        BY <3>4, <3>5
    <2> QED
      BY <2>2, <2>3
      DEF Next, Step, Proceed, Call, LockMu, Flock, FlockFails,
          Load, LoadFails, Apply, ApplyOnly, Save, WriteFails, SyncDir,
          SyncFails, Release, Return, Crash, Tick, vars, disk
  <1> QED
    BY <1>1, Invariance, PTL DEF PowerSpec, CountersFollowTheDay
-----------------------------------------------------------------------------
(***************************************************************************)
(* The refinement.                                                         *)
(***************************************************************************)
\* Lemma: the ledger's operators are the store's.
LEMMA SameOps ==
  /\ \A q, m, d : Ledger!Verdict(q, m, d) = Verdict(q, m, d)
  /\ \A q, m, d : Ledger!Updated(q, m, d) = Updated(q, m, d)
  /\ \A q : Ledger!Writes(q) = Writes(q)
  /\ Ledger!AdminRequest = AdminRequest
  /\ Ledger!ServerRequest = ServerRequest
  /\ Ledger!NoRequest = NoRequest
  /\ Ledger!NoKeys = NoKeys
  /\ Ledger!Day = Day
  BY DEF Ledger!Verdict, Verdict, Ledger!Updated, Updated, Ledger!Written,
         Written, Ledger!Reset, Reset, Ledger!Fits, Fits, Ledger!Writes,
         Writes, Ledger!AdminRequest, AdminRequest, Ledger!ServerRequest,
         ServerRequest, Ledger!NoRequest, NoRequest, Ledger!NoKeys, NoKeys,
         Ledger!Absent, Absent, Ledger!Day, Day

\* Lemma: where t's call is, once t goes on to l.
LEMMA PhaseStep ==
  ASSUME TypeOK, NEW t \in Thread, NEW l \in Pc, Goto(t, l)
  PROVE  /\ l = "idle" => Phase' = [Phase EXCEPT ![t] = "idle"]
         /\ l = "sync" => Phase' = [Phase EXCEPT ![t] = "done"]
         /\ l \in {"release", "unlock"} => Phase' = [Phase EXCEPT ![t] = "sure"]
         /\ l \in {"mu", "flock", "load", "apply", "save", "rename"} =>
              Phase' = [Phase EXCEPT ![t] = "pending"]
  <1>1. pc' = [pc EXCEPT ![t] = l] /\ pc \in [Thread -> Pc]
    BY DEF Goto, TypeOK
  <1> QED
    BY <1>1 DEF Phase

\* Lemma: the steps the ledger does not see.
LEMMA HiddenStep ==
  ASSUME IInv, NEW t \in Thread,
         LockMu(t) \/ Flock(t) \/ Load(t) \/ Apply(t) \/ Save(t) \/ Release(t)
  PROVE  UNCHANGED Ledger!vars
  <1>1. UNCHANGED <<file, survivors, day, req, reply>>
    BY DEF LockMu, Flock, Load, Apply, Save, Release, disk
  <1>2. Phase' = Phase
    BY DEF IInv, TypeOK, Phase, LockMu, Flock, Load, Apply, Save, Release, Goto
  <1> QED
    BY <1>1, <1>2 DEF Ledger!vars

\* Lemma: a failure before the rename is a failure without effect.
LEMMA FailStep ==
  ASSUME IInv, NEW t \in Thread, FlockFails(t) \/ LoadFails(t) \/ WriteFails(t)
  PROVE  Ledger!Fail(t)
  <1>1. Phase[t] = "pending"
    BY DEF Phase, FlockFails, LoadFails, WriteFails
  <1>2. Phase' = [Phase EXCEPT ![t] = "sure"]
    BY PhaseStep DEF IInv, Pc, FlockFails, LoadFails, WriteFails
  <1>3. /\ reply' = [reply EXCEPT ![t] = "unavailable"]
        /\ UNCHANGED <<file, survivors, day, req>>
    BY DEF FlockFails, LoadFails, WriteFails, Answer, disk
  <1> QED
    BY <1>1, <1>2, <1>3 DEF Ledger!Fail, Ledger!Answer, Ledger!Enter

\* Lemma: a call that does not write takes effect when fn runs.
LEMMA LookStep ==
  ASSUME IInv, NEW t \in Thread, ApplyOnly(t)
  PROVE  Ledger!Look(t, day)
  <1>1. /\ keys[t] = file /\ file \in KeyMap /\ req[t] \in Request
        /\ day \in Day /\ day \in Nat
    BY DEF IInv, TypeOK, NoLostUpdate, ApplyOnly, Day
  <1>2. file[req[t].key].day <= day /\ day <= day
    BY <1>1 DEF IInv, DiskSound, Sound, Request
  <1>3. Phase[t] = "pending" /\ Phase' = [Phase EXCEPT ![t] = "sure"]
    BY PhaseStep DEF IInv, Pc, Phase, ApplyOnly
  <1>4. UNCHANGED <<file, survivors, day, req>>
    BY DEF ApplyOnly, disk
  <1>5. /\ reply' = [reply EXCEPT ![t] = Verdict(req[t], file, day)]
        /\ ~ (Verdict(req[t], file, day) = "ok" /\ Writes(req[t]))
    BY <1>1 DEF ApplyOnly, Answer
  <1> QED
    BY <1>2, <1>3, <1>4, <1>5, SameOps
    DEF Ledger!Look, Ledger!Current, Ledger!Answer, Ledger!Enter

\* Lemma: a call that writes takes effect at its rename.
LEMMA RenameStep ==
  ASSUME IInv, NEW t \in Thread, Rename(t)
  PROVE  \E d \in Day : Ledger!Execute(t, d)
  <1>1. PICK d \in Day : /\ file[req[t].key].day <= d /\ d <= day
                         /\ Verdict(req[t], file, d) = "ok"
                         /\ keys[t] = Updated(req[t], file, d)
    BY DEF IInv, NoLostUpdate, Prepared, Rename
  <1>2. Phase[t] = "pending" /\ Phase' = [Phase EXCEPT ![t] = "done"]
    BY PhaseStep DEF IInv, Pc, Phase, Rename
  <1>3. /\ file' = keys[t] /\ survivors' = survivors \cup {file'}
        /\ day' = day /\ req' = req /\ Writes(req[t])
        /\ reply' = [reply EXCEPT ![t] = "ok"]
    BY DEF Rename, Answer, IInv, InFlight
  <1>4. Ledger!Execute(t, d)
    BY <1>1, <1>2, <1>3, SameOps
    DEF Ledger!Execute, Ledger!Current, Ledger!Answer, Ledger!Enter
  <1> QED
    BY <1>4

\* Lemma: with the directory synced, the call has settled.
LEMMA SettleStep ==
  ASSUME IInv, NEW t \in Thread, SyncDir(t)
  PROVE  Ledger!Settle(t)
  <1>1. Phase[t] = "done" /\ Phase' = [Phase EXCEPT ![t] = "sure"]
    BY PhaseStep DEF IInv, Pc, Phase, SyncDir
  <1> QED
    BY <1>1 DEF Ledger!Settle, Ledger!Enter, SyncDir

\* Lemma: the calls of T vanish from the ledger with their threads.
LEMMA VanishStep ==
  ASSUME NEW T \in SUBSET Thread, Vanish(T)
  PROVE  Ledger!Vanish(T)
  <1>1. Phase' = [t \in Thread |-> IF t \in T THEN "idle" ELSE Phase[t]]
    BY DEF Vanish, Phase
  <1> QED
    BY <1>1, SameOps DEF Vanish, Ledger!Vanish

\* Lemma: every step of the store is a step of the ledger, or hidden from it.
LEMMA LedgerStep == IInv /\ [PowerNext]_vars => [Ledger!Next]_(Ledger!vars)
  <1> SUFFICES ASSUME IInv, [PowerNext]_vars
               PROVE  Ledger!Next \/ UNCHANGED Ledger!vars
    OBVIOUS
  <1>1. CASE Tick
    <2>1. Phase' = Phase
      BY <1>1 DEF Tick, Phase
    <2>2. Ledger!Tick
      BY <1>1, <2>1 DEF Tick, Ledger!Tick, disk
    <2> QED
      BY <2>2 DEF Ledger!Next
  <1>2. ASSUME NEW s \in Store, Crash(s)
        PROVE  Ledger!Next
    <2> DEFINE T == {t \in Thread : StoreOf[t] = s}
    <2>1. T \in SUBSET Thread /\ Vanish(T) /\ UNCHANGED <<file, survivors>>
      BY <1>2 DEF Crash, disk
    <2> HIDE DEF T
    <2>2. Ledger!Abort(T)
      BY <2>1, VanishStep DEF Ledger!Abort
    <2> QED
      BY <2>1, <2>2 DEF Ledger!Next
  <1>3. CASE PowerLoss
    <2>1. PICK m \in survivors : file' = m /\ survivors' = {m}
      BY <1>3 DEF PowerLoss
    <2>2. Ledger!Vanish(Thread)
      BY <1>3, VanishStep DEF PowerLoss
    <2>3. Ledger!PowerCut
      BY <2>1, <2>2 DEF Ledger!PowerCut
    <2> QED
      BY <2>3 DEF Ledger!Next
  <1>4. ASSUME NEW t \in Thread, NEW q \in AdminRequest \cup ServerRequest,
               Call(t, q)
        PROVE  Ledger!Next
    <2>1. Phase[t] = "idle" /\ Phase' = [Phase EXCEPT ![t] = "pending"]
      BY <1>4, PhaseStep DEF IInv, Pc, Phase, Call
    <2>2. Ledger!Invoke(t, q)
      BY <1>4, <2>1, SameOps DEF Ledger!Invoke, Ledger!Enter, Call, disk
    <2> QED
      BY <2>2, SameOps DEF Ledger!Next
  <1>5. ASSUME NEW t \in Thread, Step(t)
        PROVE  Ledger!Next \/ UNCHANGED Ledger!vars
    <2>1. CASE LockMu(t) \/ Flock(t) \/ Load(t) \/ Apply(t) \/ Save(t) \/ Release(t)
      BY <2>1, HiddenStep
    <2>2. CASE FlockFails(t) \/ LoadFails(t) \/ WriteFails(t)
      BY <2>2, FailStep DEF Ledger!Next
    <2>3. CASE ApplyOnly(t)
      <3>1. day \in Ledger!Day
        BY SameOps DEF IInv, TypeOK
      <3> QED
        BY <2>3, <3>1, LookStep DEF Ledger!Next
    <2>4. CASE Rename(t)
      BY <2>4, RenameStep, SameOps DEF Ledger!Next
    <2>5. CASE SyncDir(t)
      BY <2>5, SettleStep DEF Ledger!Next
    <2>6. CASE SyncFails(t)
      <3>1. Phase[t] = "done" /\ Phase' = [Phase EXCEPT ![t] = "sure"]
        BY <2>6, PhaseStep DEF IInv, Pc, Phase, SyncFails
      <3>2. Ledger!Doubt(t)
        BY <2>6, <3>1
        DEF Ledger!Doubt, Ledger!Answer, Ledger!Enter, SyncFails, Answer, disk
      <3> QED
        BY <3>2 DEF Ledger!Next
    <2>7. CASE Return(t)
      <3>1. Phase[t] = "sure" /\ Phase' = [Phase EXCEPT ![t] = "idle"]
        BY <2>7, PhaseStep DEF IInv, Pc, Phase, Return
      <3>2. Ledger!Return(t)
        BY <2>7, <3>1, SameOps
        DEF Ledger!Return, Ledger!Answer, Ledger!Enter, Return, Answer, disk
      <3> QED
        BY <3>2 DEF Ledger!Next
    <2> QED
      BY <1>5, <2>1, <2>2, <2>3, <2>4, <2>5, <2>6, <2>7 DEF Step, Proceed
  <1>6. CASE UNCHANGED vars
    BY <1>6 DEF vars, disk, Phase, Ledger!vars
  <1> QED
    BY <1>1, <1>2, <1>3, <1>4, <1>5, <1>6 DEF PowerNext, Next

\* Theorem: the store implements the ledger, on which every call is one
\* indivisible step, and a call that has succeeded can no more be undone: for its
\* callers, of whatever goroutine or process, transaction is linearizable and
\* durable over crashes and power cuts (store.go:47-111).
THEOREM Linearizable == PowerSpec => ImplementsLedger
  <1>1. Init => Ledger!Init
    BY SameOps DEF Init, Ledger!Init, Phase
  <1> QED
    BY <1>1, LedgerStep, Invariance, PTL DEF PowerSpec, Ledger!Spec, ImplementsLedger
=============================================================================
