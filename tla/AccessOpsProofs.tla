--------------------------- MODULE AccessOpsProofs ---------------------------
(***************************************************************************)
(* What the operations of AccessOps do to a record and to a key map, for   *)
(* every key, limit, number of units and day: the lemmas that the proofs   *)
(* about the store cite.                                                   *)
(***************************************************************************)
EXTENDS AccessOps, TLAPS

\* Lemma: a day is one of the stamps a record may carry (0 is the empty stamp).
LEMMA DayRange == ASSUME NEW d \in Day
  PROVE  d \in 0..MaxDay /\ d \in Nat /\ d > 0 /\ 0 \in 0..MaxDay
  BY OpsAssumption DEF OpsAssumption, Day

\* Lemma: the daily reset keeps a record's status and limit, stamps it with
\* the day, and touches the counters only when the day is another
\* (store.go:149-156).
LEMMA ResetFacts ==
  ASSUME NEW r \in Record, NEW d \in Day
  PROVE  /\ Reset(r, d) \in Record
         /\ Reset(r, d).day = d
         /\ Reset(r, d).status = r.status
         /\ Reset(r, d).limit = r.limit
         /\ r.day = d => Reset(r, d) = r
         /\ r.day # d => Reset(r, d).used = 0 /\ Reset(r, d).attempts = 0
  <1>1. CASE r.day = d
    BY <1>1 DEF Reset
  <1>2. CASE r.day # d
    <2> DEFINE e == [r EXCEPT !.day = d, !.used = 0, !.attempts = 0]
    <2>1. Reset(r, d) = e
      BY <1>2 DEF Reset
    <2>2. /\ e \in Record
          /\ e.day = d
          /\ e.status = r.status
          /\ e.limit = r.limit
          /\ e.used = 0
          /\ e.attempts = 0
      BY DayRange DEF Record
    <2> HIDE DEF e
    <2> QED
      BY <1>2, <2>1, <2>2
  <1> QED
    BY <1>1, <1>2

\* Lemma: the record keys create writes (store.go:132).
LEMMA CreateFacts ==
  ASSUME NEW q \in Request, NEW r \in Record, NEW d \in Day, q.op = "create"
  PROVE  /\ Written(q, r, d) \in Record
         /\ Written(q, r, d).status = "active"
         /\ Written(q, r, d).limit = q.arg
         /\ Written(q, r, d).day = 0
         /\ Written(q, r, d).used = 0
         /\ Written(q, r, d).attempts = 0
  <1> DEFINE e == [status |-> "active", limit |-> q.arg, day |-> 0, used |-> 0, attempts |-> 0]
  <1>1. Written(q, r, d) = e
    BY DEF Written
  <1>2. e \in Record
    BY DayRange DEF Record, Request
  <1>3. /\ e.status = "active" /\ e.limit = q.arg /\ e.day = 0
        /\ e.used = 0 /\ e.attempts = 0
    OBVIOUS
  <1> HIDE DEF e
  <1> QED
    BY <1>1, <1>2, <1>3

\* Lemma: revoking changes the status alone (store.go:144).
LEMMA RevokeFacts ==
  ASSUME NEW q \in Request, NEW r \in Record, NEW d \in Day, q.op = "revoke"
  PROVE  /\ Written(q, r, d) \in Record
         /\ Written(q, r, d).status = "revoked"
         /\ Written(q, r, d).limit = r.limit
         /\ Written(q, r, d).day = r.day
         /\ Written(q, r, d).used = r.used
         /\ Written(q, r, d).attempts = r.attempts
         /\ r.status = "revoked" => Written(q, r, d) = r
  <1> DEFINE e == [r EXCEPT !.status = "revoked"]
  <1>1. Written(q, r, d) = e
    BY DEF Written
  <1>2. /\ e \in Record
        /\ e.status = "revoked" /\ e.limit = r.limit /\ e.day = r.day
        /\ e.used = r.used /\ e.attempts = r.attempts
    BY DEF Record
  <1>3. r.status = "revoked" => e = r
    BY DEF Record
  <1> HIDE DEF e
  <1> QED
    BY <1>1, <1>2, <1>3

\* Lemma: reserving adds its units to what the reset left (store.go:194-198).
LEMMA ReserveFacts ==
  ASSUME NEW q \in Request, NEW r \in Record, NEW d \in Day, q.op = "reserve"
  PROVE  /\ Written(q, r, d) \in Record
         /\ Written(q, r, d).status = r.status
         /\ Written(q, r, d).limit = r.limit
         /\ Written(q, r, d).day = d
         /\ Written(q, r, d).used = Reset(r, d).used + q.arg
         /\ Written(q, r, d).attempts = Reset(r, d).attempts
  <1> DEFINE b == Reset(r, d)
             e == [b EXCEPT !.used = @ + q.arg]
  <1>1. Written(q, r, d) = e
    BY DEF Written
  <1>2. b \in Record /\ b.status = r.status /\ b.limit = r.limit /\ b.day = d
    BY ResetFacts
  <1>3. q.arg \in Nat
    BY DEF Request
  <1> HIDE DEF b
  <1>4. b.used + q.arg \in Nat
    BY <1>2, <1>3 DEF Record
  <1>5. /\ e \in Record
        /\ e.status = b.status /\ e.limit = b.limit /\ e.day = b.day
        /\ e.used = b.used + q.arg /\ e.attempts = b.attempts
    BY <1>2, <1>4 DEF Record
  <1> HIDE DEF e
  <1> QED
    BY <1>1, <1>2, <1>5 DEF b

\* Lemma: recording an attempt adds one to what the reset left
\* (store.go:212-213).
LEMMA AttemptFacts ==
  ASSUME NEW q \in Request, NEW r \in Record, NEW d \in Day, q.op = "attempt"
  PROVE  /\ Written(q, r, d) \in Record
         /\ Written(q, r, d).status = r.status
         /\ Written(q, r, d).limit = r.limit
         /\ Written(q, r, d).day = d
         /\ Written(q, r, d).used = Reset(r, d).used
         /\ Written(q, r, d).attempts = Reset(r, d).attempts + 1
  <1> DEFINE b == Reset(r, d)
             e == [b EXCEPT !.attempts = @ + 1]
  <1>1. Written(q, r, d) = e
    BY DEF Written
  <1>2. b \in Record /\ b.status = r.status /\ b.limit = r.limit /\ b.day = d
    BY ResetFacts
  <1> HIDE DEF b
  <1>3. b.attempts + 1 \in Nat
    BY <1>2 DEF Record
  <1>4. /\ e \in Record
        /\ e.status = b.status /\ e.limit = b.limit /\ e.day = b.day
        /\ e.used = b.used /\ e.attempts = b.attempts + 1
    BY <1>2, <1>3 DEF Record
  <1> HIDE DEF e
  <1> QED
    BY <1>1, <1>2, <1>4 DEF b

\* Lemma: a map whose operation succeeded is a map that differs at the key of
\* the operation alone.
LEMMA UpdatedFacts ==
  ASSUME NEW q \in Request, NEW m \in KeyMap, NEW d \in Day, Writes(q)
  PROVE  /\ Updated(q, m, d) \in KeyMap
         /\ Updated(q, m, d)[q.key] = Written(q, m[q.key], d)
         /\ \A k \in KeyId \ {q.key} : Updated(q, m, d)[k] = m[k]
  <1>1. q.key \in KeyId /\ m[q.key] \in Record
    BY DEF Request, KeyMap
  <1>2. Written(q, m[q.key], d) \in Record
    BY <1>1, CreateFacts, RevokeFacts, ReserveFacts, AttemptFacts DEF Writes
  <1> QED
    BY <1>1, <1>2 DEF Updated, KeyMap

\* Lemma: an operation that succeeds on a sound record leaves a sound record
\* that is not absent, and whose day did not move back unless it is new.
LEMMA SoundStep ==
  ASSUME NEW q \in Request, NEW m \in KeyMap, NEW d \in Day, NEW n \in Day,
         Writes(q), Verdict(q, m, d) = "ok", d <= n,
         Sound(m[q.key], n), m[q.key].day <= d
  PROVE  LET r == m[q.key]
             w == Written(q, r, d)
         IN  /\ Sound(w, n)
             /\ w.status # "absent"
             /\ r.day <= w.day
             /\ r.status # "absent" => w.limit = r.limit
             /\ r.status = "revoked" => w = r
             /\ w.day = r.day => w.used >= r.used /\ w.attempts >= r.attempts
             /\ w.day > r.day => w.used = 0 \/ w.attempts = 0
  <1> DEFINE r == m[q.key]
             w == Written(q, r, d)
  <1>1. /\ r \in Record /\ q.arg \in Nat /\ d \in Nat /\ n \in Nat
        /\ r.day \in Nat /\ r.used \in Nat /\ r.limit \in Nat /\ r.attempts \in Nat
    BY OpsAssumption DEF OpsAssumption, KeyMap, Request, Record, Day
  <1>2. CASE q.op = "create"
    <2>1. r.status = "absent"
      BY <1>2 DEF Verdict
    <2>2. /\ w.status = "active" /\ w.limit = q.arg /\ w.day = 0
          /\ w.used = 0 /\ w.attempts = 0
      BY <1>1, <1>2, CreateFacts
    <2>3. r.day = 0 /\ r.used = 0 /\ r.attempts = 0
      BY <2>1 DEF Sound
    <2>4. Sound(w, n) /\ w.status # "absent" /\ r.day <= w.day
      BY <1>1, <2>2, <2>3 DEF Sound
    <2> QED
      BY <1>1, <2>1, <2>2, <2>3, <2>4
  <1>3. CASE q.op = "revoke"
    <2>1. r.status # "absent"
      BY <1>3 DEF Verdict
    <2>2. /\ w.status = "revoked" /\ w.limit = r.limit /\ w.day = r.day
          /\ w.used = r.used /\ w.attempts = r.attempts
          /\ r.status = "revoked" => w = r
      BY <1>1, <1>3, RevokeFacts
    <2>3. Sound(r, n)
      OBVIOUS
    <2> HIDE DEF r, w
    <2>4. Sound(w, n) /\ w.status # "absent"
      BY <1>1, <2>2, <2>3 DEF Sound
    <2>5. r.day <= w.day /\ w.used >= r.used /\ w.attempts >= r.attempts
          /\ ~ (w.day > r.day)
      BY <1>1, <2>2
    <2> QED
      BY <2>2, <2>4, <2>5 DEF w, r
  <1> DEFINE b == Reset(r, d)
  <1>4. /\ b.used \in Nat /\ b.attempts \in Nat
        /\ b.day = d /\ b.limit = r.limit
        /\ r.day = d => b = r
        /\ r.day # d => b.used = 0 /\ b.attempts = 0
    BY <1>1, ResetFacts DEF Record
  <1>5. CASE q.op = "reserve"
    <2>1. r.status = "active" /\ q.arg <= r.limit - b.used
      BY <1>5 DEF Verdict, Fits
    <2>2. /\ w.status = r.status /\ w.limit = r.limit /\ w.day = d
          /\ w.used = b.used + q.arg /\ w.attempts = b.attempts
      BY <1>1, <1>5, ReserveFacts
    <2>3. r.day <= d
      OBVIOUS
    <2> HIDE DEF r, w, b
    <2>4. Sound(w, n) /\ w.status # "absent" /\ r.day <= w.day
      BY <1>1, <1>4, <2>1, <2>2, <2>3 DEF Sound
    <2>5. /\ w.day = r.day => w.used >= r.used /\ w.attempts >= r.attempts
          /\ w.day > r.day => w.used = 0 \/ w.attempts = 0
      BY <1>1, <1>4, <2>2
    <2> QED
      BY <2>1, <2>2, <2>4, <2>5 DEF w, r
  <1>6. CASE q.op = "attempt"
    <2>1. r.status = "active"
      BY <1>6 DEF Verdict
    <2>2. /\ w.status = r.status /\ w.limit = r.limit /\ w.day = d
          /\ w.used = b.used /\ w.attempts = b.attempts + 1
      BY <1>1, <1>6, AttemptFacts
    <2>3. Sound(r, n) /\ r.day <= d
      OBVIOUS
    <2> HIDE DEF r, w, b
    <2>4. Sound(w, n) /\ w.status # "absent" /\ r.day <= w.day
      BY <1>1, <1>4, <2>1, <2>2, <2>3 DEF Sound
    <2>5. /\ w.day = r.day => w.used >= r.used /\ w.attempts >= r.attempts
          /\ w.day > r.day => w.used = 0 \/ w.attempts = 0
      BY <1>1, <1>4, <2>2
    <2> QED
      BY <2>1, <2>2, <2>4, <2>5 DEF w, r
  <1> QED
    BY <1>2, <1>3, <1>5, <1>6 DEF Writes
=============================================================================
