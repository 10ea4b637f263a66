----------------------- MODULE SemanticServiceProofs -----------------------
(***************************************************************************)
(* What holds of the server for any requests, keys, subjects and faults:   *)
(* its safety properties, and that it implements ServiceContract.          *)
(*                                                                         *)
(* Most steps are a worker's: one item moves on (Moved, Counted), and what *)
(* it brings must be true of that item (ItemInv).                          *)
(***************************************************************************)
EXTENDS SemanticService, AccessOpsProofs, CacheKeyProofs, FiniteSetTheorems

Shape ==
  /\ DOMAIN items = Conn /\ DOMAIN at = Conn /\ DOMAIN out = Conn
  /\ revoked \subseteq KeyId /\ late \subseteq Conn
  /\ answered \in [Subject -> SUBSET Result]
  /\ units \in [KeyId -> Nat] /\ attempts \in [KeyId -> Nat]
  /\ calls \in [KeyId -> Nat]

\* The store remembers what the CLI has reported.
Withdrawn == \A k \in revoked : ledger[k].status = "revoked"

\* No item is touched before the reservation, which needs one, and no status
\* written before the reply.
Waiting ==
  \A r \in Conn :
    /\ stage[r] # "reply" => status[r] = "none"
    /\ r \in late => key[r] \in revoked
    /\ stage[r] \in {"auth", "limit", "decode", "reserve"} =>
         \A i \in DOMAIN items[r] : at[r][i] = "todo"
    /\ stage[r] = "reserve" => items[r] # <<>>

\* An item under evaluation is one that may be evaluated.
Evaluated ==
  \A r \in Conn : \A i \in DOMAIN items[r] :
    /\ at[r][i] \in {"count", "call", "sent", "body", "store"} => items[r][i] # Bad
    /\ at[r][i] = "store" => out[r][i] \in Result

\* Answers and cache entries were given for what has the same key.
AnswersGiven ==
  /\ \A s \in Subject : cache[cacheKey(s)] # "none" => cache[cacheKey(s)] \in Given(answered, s)
  /\ \A r \in Conn : \A i \in DOMAIN items[r] :
       out[r][i] \in Result => items[r][i] # Bad /\ out[r][i] \in Given(answered, items[r][i])

\* The inductive invariant.
IInv ==
  /\ TypeOK /\ Shape /\ Withdrawn /\ Waiting /\ Evaluated
  /\ AnswersGiven /\ LateIsRefused /\ UnitsCoverCalls
-----------------------------------------------------------------------------
\* Lemma: the items a request may carry.
LEMMA JobFacts ==
  ASSUME NEW r \in Conn, NEW js \in Jobs[r] \cup {<<>>}
  PROVE  /\ js \in Seq(Subject \cup {Bad}) /\ Len(js) \in 0..MaxItems
         /\ DOMAIN js = 1..Len(js) /\ MaxItems \in Nat
         /\ \A i \in DOMAIN js : i \in 1..MaxItems /\ js[i] \in Subject \cup {Bad}
<1>1. MaxItems \in Nat \ {0}
  BY ServiceAssumption
<1>2. CASE js = <<>>
  BY <1>1, <1>2
<1>3. CASE js \in Jobs[r]
  <2>1. js \in Seq(Subject \cup {Bad}) /\ Len(js) <= IF r \in Single THEN 1 ELSE MaxItems
    BY <1>3, ServiceAssumption
  <2>2. Len(js) \in Nat /\ DOMAIN js = 1..Len(js)
    BY <2>1
  <2>3. Len(js) \in 0..MaxItems
    BY <1>1, <2>1, <2>2
  <2> QED
    BY <1>1, <2>1, <2>2, <2>3
<1> QED
  BY <1>2, <1>3

\* Lemma: what the store makes of a request; no key that was revoked comes back.
LEMMA LedgerFacts ==
  ASSUME TypeOK, NEW q \in Request, q.op \in {"reserve", "attempt", "revoke"}
  PROVE  /\ Updated(q, ledger, day) \in KeyMap
         /\ \A k \in KeyId : ledger[k].status = "revoked" =>
                               Updated(q, ledger, day)[k].status = "revoked"
         /\ q.op = "revoke" => Updated(q, ledger, day)[q.key].status = "revoked"
<1>1. ledger \in KeyMap /\ day \in Day /\ q.key \in KeyId /\ ledger[q.key] \in Record
      /\ Writes(q)
  BY DEF TypeOK, KeyMap, Request, Writes
<1>2. Written(q, ledger[q.key], day).status =
        IF q.op = "revoke" THEN "revoked" ELSE ledger[q.key].status
  BY <1>1, RevokeFacts, ReserveFacts, AttemptFacts
<1> QED
  BY <1>1, <1>2, UpdatedFacts

\* Lemma: what is asked of the store, and that it charges no revoked key.
LEMMA AskFacts ==
  ASSUME IInv, NEW r \in Conn, NEW o \in {"authenticate", "reserve", "attempt"}, NEW n \in Nat
  PROVE  /\ Ask(o, r, n) \in Request
         /\ Ask(o, r, n).op = o /\ Ask(o, r, n).key = key[r] /\ Ask(o, r, n).arg = n
         /\ key[r] \in KeyId
         /\ Verdict(Ask(o, r, n), ledger, day) = "ok" => key[r] \notin revoked
<1>1. key[r] \in KeyId
  BY DEF IInv, TypeOK
<1>2. /\ Ask(o, r, n) \in Request
      /\ Ask(o, r, n).op = o /\ Ask(o, r, n).key = key[r] /\ Ask(o, r, n).arg = n
  BY <1>1 DEF Ask, Request
<1>3. Verdict(Ask(o, r, n), ledger, day) = "ok" => ledger[key[r]].status = "active"
  BY <1>2 DEF Verdict
<1> QED
  BY <1>1, <1>2, <1>3 DEF IInv, Withdrawn

\* Lemma: what is given for a subject is given for all that have its key, and
\* stays given.
LEMMA GivenFacts ==
  ASSUME NEW f \in [Subject -> SUBSET Result], NEW g \in [Subject -> SUBSET Result],
         \A s \in Subject : f[s] \subseteq g[s]
  PROVE  /\ \A s : Given(f, s) \subseteq Given(g, s)
         /\ \A s \in Subject : f[s] \subseteq Given(f, s)
         /\ \A s, u : cacheKey(s) = cacheKey(u) => Given(f, s) = Given(f, u)
  BY DEF Given

-----------------------------------------------------------------------------
(***************************************************************************)
(* Counting workers.                                                       *)
(***************************************************************************)
One(b) == IF b THEN 1 ELSE 0

\* Lemma: there are finitely many, so they can be counted.
LEMMA WorkersFinite ==
  ASSUME NEW k, NEW P
  PROVE  IsFiniteSet(Workers(k, P)) /\ Cardinality(Workers(k, P)) \in Nat
<1>1. IsFiniteSet(Conn \X (1..MaxItems))
  <2>1. IsFiniteSet(Conn) /\ MaxItems \in Int
    BY ServiceAssumption
  <2>2. IsFiniteSet(1..MaxItems)
    BY <2>1, FS_Interval
  <2> QED
    BY <2>1, <2>2, FS_Product
<1>2. Workers(k, P) \in SUBSET (Conn \X (1..MaxItems))
  BY DEF Workers
<1> QED
  BY <1>1, <1>2, FS_Subset, FS_CardinalityType

\* Lemma: the count when no worker comes in.
LEMMA WorkersShrink ==
  ASSUME NEW k, NEW P, Workers(k, P)' \subseteq Workers(k, P)
  PROVE  /\ Cardinality(Workers(k, P))' \in Nat /\ Cardinality(Workers(k, P)) \in Nat
         /\ Cardinality(Workers(k, P))' <= Cardinality(Workers(k, P))
<1>1. IsFiniteSet(Workers(k, P)) /\ Workers(k, P)' \in SUBSET Workers(k, P)
  BY WorkersFinite
<1> HIDE DEF Workers
<1>2. /\ IsFiniteSet(Workers(k, P)')
      /\ Cardinality(Workers(k, P)') <= Cardinality(Workers(k, P))
  BY <1>1, FS_Subset
<1> QED
  BY <1>1, <1>2, FS_CardinalityType

\* Lemma: one item moves on, and no other.
LEMMA Moved ==
  ASSUME TypeOK, DOMAIN at = Conn, NEW r \in Conn, NEW i \in DOMAIN items[r], NEW p,
         Move(r, i, p)
  PROVE  /\ DOMAIN at' = Conn
         /\ at'[r][i] = p
         /\ \A j \in DOMAIN items[r] : j # i => at'[r][j] = at[r][j]
         /\ \A d \in Conn : d # r => at'[d] = at[d]
         /\ p \in At => at'[r] \in [DOMAIN items[r] -> At]
<1>1. at' = [at EXCEPT ![r] = [at[r] EXCEPT ![i] = p]]
  BY DEF Move
<1>2. at[r] \in [DOMAIN items[r] -> At]
  BY DEF TypeOK
<1>3. at'[r] = [at[r] EXCEPT ![i] = p] /\ DOMAIN at' = Conn
      /\ \A d \in Conn : d # r => at'[d] = at[d]
  BY <1>1
<1>4. /\ [at[r] EXCEPT ![i] = p][i] = p
      /\ \A j \in DOMAIN items[r] : j # i => [at[r] EXCEPT ![i] = p][j] = at[r][j]
      /\ p \in At => [at[r] EXCEPT ![i] = p] \in [DOMAIN items[r] -> At]
  BY <1>2
<1> QED
  BY <1>3, <1>4

\* Lemma: one item has its outcome, and no other changes its own.
LEMMA Outcomes ==
  ASSUME TypeOK, DOMAIN out = Conn, NEW r \in Conn, NEW i \in DOMAIN items[r],
         NEW o \in Result \cup Error, out' = [out EXCEPT ![r][i] = o]
  PROVE  /\ DOMAIN out' = Conn
         /\ out'[r][i] = o
         /\ \A j \in DOMAIN items[r] : j # i => out'[r][j] = out[r][j]
         /\ \A d \in Conn : d # r => out'[d] = out[d]
         /\ out'[r] \in [DOMAIN items[r] -> Result \cup Error \cup {"none"}]
<1> DEFINE S == Result \cup Error \cup {"none"}
<1>1. out' = [out EXCEPT ![r] = [out[r] EXCEPT ![i] = o]]
  OBVIOUS
<1>2. out[r] \in [DOMAIN items[r] -> S] /\ o \in S
  BY DEF TypeOK
<1>3. out'[r] = [out[r] EXCEPT ![i] = o] /\ DOMAIN out' = Conn
      /\ \A d \in Conn : d # r => out'[d] = out[d]
  BY <1>1
<1> HIDE DEF S
<1>4. /\ [out[r] EXCEPT ![i] = o][i] = o
      /\ \A j \in DOMAIN items[r] : j # i => [out[r] EXCEPT ![i] = o][j] = out[r][j]
      /\ [out[r] EXCEPT ![i] = o] \in [DOMAIN items[r] -> S]
  BY <1>2
<1> QED
  BY <1>3, <1>4 DEF S

\* Lemma: the count when one worker moves from a place to place p.
LEMMA Counted ==
  ASSUME TypeOK, DOMAIN at = Conn, NEW r \in Conn, NEW i \in DOMAIN items[r], NEW p,
         stage[r] = "work", Move(r, i, p), UNCHANGED <<stage, key, items>>,
         NEW k, NEW P
  PROVE  /\ Cardinality(Workers(k, P))' \in Nat /\ Cardinality(Workers(k, P)) \in Nat
         /\ Cardinality(Workers(k, P))' =
              Cardinality(Workers(k, P))
                + (IF k = key[r] /\ p \in P THEN 1 ELSE 0)
                - (IF k = key[r] /\ at[r][i] \in P THEN 1 ELSE 0)
<1> DEFINE S == Workers(k, P)
           T == Workers(k, P)'
           e == <<r, i>>
<1>1. i \in 1..MaxItems /\ e \in Conn \X (1..MaxItems)
  BY JobFacts DEF TypeOK
<1>2. /\ IsFiniteSet(S) /\ Cardinality(S) \in Nat
      /\ Cardinality(Workers(k, P))' = Cardinality(T)
  BY WorkersFinite
<1>3. e \in S <=> k = key[r] /\ at[r][i] \in P
  BY <1>1 DEF Workers
<1>4. e \in T <=> k = key[r] /\ p \in P
  BY <1>1, Moved DEF Workers
<1>5. \A f \in Conn \X (1..MaxItems) : f # e => (f \in T <=> f \in S)
  <2> SUFFICES ASSUME NEW d \in Conn, NEW j \in 1..MaxItems, <<d, j>> # e
               PROVE  <<d, j>> \in T <=> <<d, j>> \in S
    OBVIOUS
  <2>1. j \in DOMAIN items[d] => at'[d][j] = at[d][j]
    BY Moved
  <2> QED
    BY <2>1 DEF Workers
<1>6. S \subseteq Conn \X (1..MaxItems) /\ T \subseteq Conn \X (1..MaxItems)
  BY DEF Workers
<1>7. CASE e \in T
  <2>1. T = S \cup {e}
    BY <1>5, <1>6, <1>7
  <2> HIDE DEF S, T, e
  <2>2. IsFiniteSet(T) /\ Cardinality(T) = IF e \in S THEN Cardinality(S) ELSE Cardinality(S) + 1
    BY <1>2, <2>1, FS_AddElement
  <2> QED
    BY <1>2, <1>3, <1>4, <1>7, <2>2 DEF S
<1>8. CASE e \notin T
  <2>1. T = S \ {e}
    BY <1>5, <1>6, <1>8
  <2> HIDE DEF S, T, e
  <2>2. IsFiniteSet(T) /\ Cardinality(T) = IF e \in S THEN Cardinality(S) - 1 ELSE Cardinality(S)
    BY <1>2, <2>1, FS_RemoveElement
  <2>3. Cardinality(T) \in Nat
    BY <2>2, FS_CardinalityType
  <2> QED
    BY <1>2, <1>3, <1>4, <1>8, <2>2, <2>3 DEF S
<1> QED
  BY <1>7, <1>8

\* Lemma: units cover attempts and attempts cover calls, when a worker moves to p,
\* makes a new attempts and sends c new calls.
LEMMA CoverInv ==
  ASSUME IInv, NEW r \in Conn, NEW i \in DOMAIN items[r], NEW p,
         stage[r] = "work", Move(r, i, p), UNCHANGED <<stage, key, items, units>>,
         NEW a \in {0, 1}, NEW c \in {0, 1},
         \A k \in KeyId : /\ attempts'[k] = attempts[k] + (IF k = key[r] THEN a ELSE 0)
                         /\ calls'[k] = calls[k] + (IF k = key[r] THEN c ELSE 0),
         c + One(p = "call") - One(at[r][i] = "call") <= a,
         a + One(p \in {"todo", "count"}) - One(at[r][i] \in {"todo", "count"}) <= 0
  PROVE  UnitsCoverCalls'
<1> SUFFICES ASSUME NEW k \in KeyId
             PROVE  /\ calls'[k] + Cardinality(Workers(k, {"call"}))' <= attempts'[k]
                    /\ attempts'[k] + Cardinality(Workers(k, {"todo", "count"}))' <= units'[k]
  BY DEF UnitsCoverCalls
<1> DEFINE W1 == Cardinality(Workers(k, {"call"}))
           W2 == Cardinality(Workers(k, {"todo", "count"}))
<1>1. /\ calls[k] + W1 <= attempts[k] /\ attempts[k] + W2 <= units[k]
      /\ calls[k] \in Nat /\ attempts[k] \in Nat /\ units[k] \in Nat
  BY DEF IInv, UnitsCoverCalls, Shape
<1>2. /\ W1' \in Nat /\ W1 \in Nat
      /\ W1' = W1 + (IF k = key[r] /\ p \in {"call"} THEN 1 ELSE 0)
                  - (IF k = key[r] /\ at[r][i] \in {"call"} THEN 1 ELSE 0)
  BY Counted DEF IInv, Shape
<1>3. /\ W2' \in Nat /\ W2 \in Nat
      /\ W2' = W2 + (IF k = key[r] /\ p \in {"todo", "count"} THEN 1 ELSE 0)
                  - (IF k = key[r] /\ at[r][i] \in {"todo", "count"} THEN 1 ELSE 0)
  BY Counted DEF IInv, Shape
<1> HIDE DEF W1, W2
<1>4. /\ attempts'[k] = attempts[k] + (IF k = key[r] THEN a ELSE 0)
      /\ calls'[k] = calls[k] + (IF k = key[r] THEN c ELSE 0)
      /\ units'[k] = units[k]
  OBVIOUS
<1>5. /\ c + (IF p \in {"call"} THEN 1 ELSE 0) - (IF at[r][i] \in {"call"} THEN 1 ELSE 0) <= a
      /\ a + (IF p \in {"todo", "count"} THEN 1 ELSE 0)
           - (IF at[r][i] \in {"todo", "count"} THEN 1 ELSE 0) <= 0
  BY DEF One
<1>6. ASSUME k = key[r]
      PROVE  calls'[k] + W1' <= attempts'[k] /\ attempts'[k] + W2' <= units'[k]
  <2>1. W1' = W1 + (IF p \in {"call"} THEN 1 ELSE 0) - (IF at[r][i] \in {"call"} THEN 1 ELSE 0)
    BY <1>2, <1>6
  <2>2. W2' = W2 + (IF p \in {"todo", "count"} THEN 1 ELSE 0)
                 - (IF at[r][i] \in {"todo", "count"} THEN 1 ELSE 0)
    BY <1>3, <1>6
  <2>3. attempts'[k] = attempts[k] + a /\ calls'[k] = calls[k] + c
    BY <1>4, <1>6
  <2> QED
    BY <1>1, <1>2, <1>3, <1>4, <1>5, <2>1, <2>2, <2>3
<1>7. ASSUME k # key[r]
      PROVE  calls'[k] + W1' <= attempts'[k] /\ attempts'[k] + W2' <= units'[k]
  <2>1. W1' = W1 /\ W2' = W2 /\ attempts'[k] = attempts[k] /\ calls'[k] = calls[k]
    BY <1>1, <1>2, <1>3, <1>4, <1>7
  <2> QED
    BY <1>1, <1>4, <2>1
<1> QED
  BY <1>6, <1>7 DEF W1, W2

\* Lemma: a step of a worker that moves to p with the outcome o.
LEMMA ItemInv ==
  ASSUME IInv, NEW r \in Conn, NEW i \in DOMAIN items[r], NEW p \in At,
         NEW o \in Result \cup Error \cup {"none"},
         stage[r] = "work", Move(r, i, p),
         UNCHANGED <<day, stage, key, items, status, revoked, late>>,
         \/ UNCHANGED out /\ o = out[r][i]
         \/ o \in Result \cup Error /\ out' = [out EXCEPT ![r][i] = o],
         ledger' \in KeyMap, Withdrawn',
         answered' \in [Subject -> SUBSET Result],
         \A s \in Subject : answered[s] \subseteq answered'[s],
         cache' \in [CacheKeys -> Result \cup {"none"}],
         \A s \in Subject : cache'[cacheKey(s)] # "none" => cache'[cacheKey(s)] \in Given(answered', s),
         p \in {"count", "call", "sent", "body", "store"} => items[r][i] # Bad,
         p = "store" => o \in Result,
         o \in Result => items[r][i] # Bad /\ o \in Given(answered', items[r][i]),
         units' \in [KeyId -> Nat], attempts' \in [KeyId -> Nat],
         calls' \in [KeyId -> Nat], UnitsCoverCalls'
  PROVE  IInv'
<1>1. TypeOK /\ DOMAIN at = Conn /\ DOMAIN out = Conn
  BY DEF IInv, Shape
<1>2. /\ DOMAIN at' = Conn /\ at'[r][i] = p
      /\ \A j \in DOMAIN items[r] : j # i => at'[r][j] = at[r][j]
      /\ \A d \in Conn : d # r => at'[d] = at[d]
      /\ at'[r] \in [DOMAIN items[r] -> At]
  BY <1>1, Moved
<1>3. /\ DOMAIN out' = Conn /\ out'[r][i] = o
      /\ \A j \in DOMAIN items[r] : j # i => out'[r][j] = out[r][j]
      /\ \A d \in Conn : d # r => out'[d] = out[d]
      /\ out'[r] \in [DOMAIN items[r] -> Result \cup Error \cup {"none"}]
  <2>1. CASE UNCHANGED out /\ o = out[r][i]
    BY <1>1, <2>1 DEF TypeOK
  <2>2. CASE o \in Result \cup Error /\ out' = [out EXCEPT ![r][i] = o]
    BY <1>1, <2>2, Outcomes
  <2> QED
    BY <2>1, <2>2
<1>4. TypeOK'
  <2>1. ASSUME NEW d \in Conn
        PROVE  /\ items'[d] \in Jobs[d] \cup {<<>>}
               /\ at'[d] \in [DOMAIN items'[d] -> At]
               /\ out'[d] \in [DOMAIN items'[d] -> Result \cup Error \cup {"none"}]
    <3>1. CASE d = r
      BY <1>1, <1>2, <1>3, <3>1 DEF TypeOK
    <3>2. CASE d # r
      BY <1>1, <1>2, <1>3, <3>2 DEF TypeOK
    <3> QED
      BY <3>1, <3>2
  <2> QED
    BY <1>1, <2>1 DEF TypeOK
<1>5. Shape'
  BY <1>2, <1>3 DEF IInv, Shape
<1>6. Waiting'
  <2>1. \A d \in Conn : d # r => at'[d] = at[d]
    BY <1>2
  <2> QED
    BY <2>1 DEF IInv, Waiting
<1>7. ASSUME NEW d \in Conn, NEW j \in DOMAIN items[d]
      PROVE  /\ at'[d][j] \in {"count", "call", "sent", "body", "store"} => items[d][j] # Bad
             /\ at'[d][j] = "store" => out'[d][j] \in Result
             /\ out'[d][j] \in Result =>
                  items[d][j] # Bad /\ out'[d][j] \in Given(answered', items[d][j])
  <2>1. CASE d = r /\ j = i
    BY <1>2, <1>3, <2>1
  <2>2. CASE d # r \/ j # i
    <3>1. at'[d][j] = at[d][j] /\ out'[d][j] = out[d][j]
      BY <1>2, <1>3, <2>2
    <3>2. Given(answered, items[d][j]) \subseteq Given(answered', items[d][j])
      BY GivenFacts DEF IInv, Shape
    <3> QED
      BY <3>1, <3>2 DEF IInv, Evaluated, AnswersGiven
  <2> QED
    BY <2>1, <2>2
<1>8. Evaluated' /\ AnswersGiven'
  BY <1>7 DEF Evaluated, AnswersGiven
<1>9. LateIsRefused'
  BY DEF IInv, LateIsRefused
<1> QED
  BY <1>4, <1>5, <1>6, <1>8, <1>9 DEF IInv
-----------------------------------------------------------------------------
(***************************************************************************)
(* The steps of a worker.                                                  *)
(***************************************************************************)
\* Lemma: what is known of an item under way.
LEMMA ItemFacts ==
  ASSUME IInv, NEW r \in Conn, NEW i \in DOMAIN items[r]
  PROVE  /\ key[r] \in KeyId
         /\ items[r][i] \in Subject \cup {Bad}
         /\ out[r][i] \in Result \cup Error \cup {"none"}
         /\ out[r][i] \in Result =>
              items[r][i] \in Subject /\ items[r][i] # Bad /\ out[r][i] \in Given(answered, items[r][i])
         /\ at[r][i] \in {"count", "call", "sent", "body", "store"} =>
              items[r][i] \in Subject /\ items[r][i] # Bad
<1>1. items[r] \in Jobs[r] \cup {<<>>} /\ key[r] \in KeyId
      /\ out[r] \in [DOMAIN items[r] -> Result \cup Error \cup {"none"}]
  BY DEF IInv, TypeOK
<1>2. items[r][i] \in Subject \cup {Bad}
  BY <1>1, JobFacts
<1> QED
  BY <1>1, <1>2 DEF IInv, AnswersGiven, Evaluated

\* Lemma: one more on the count of a key.
LEMMA CountFacts ==
  ASSUME NEW f \in [KeyId -> Nat], NEW k \in KeyId, NEW n \in Nat
  PROVE  /\ [f EXCEPT ![k] = @ + n] \in [KeyId -> Nat]
         /\ \A j \in KeyId : [f EXCEPT ![k] = @ + n][j] = f[j] + (IF j = k THEN n ELSE 0)
<1>1. \A j \in KeyId : f[j] \in Nat
  OBVIOUS
<1> QED
  BY <1>1

\* Lemma: a worker whose step touches neither store nor cache.
LEMMA QuietInv ==
  ASSUME IInv, NEW r \in Conn, NEW i \in DOMAIN items[r], NEW p \in At,
         NEW o \in Result \cup Error \cup {"none"},
         stage[r] = "work", Move(r, i, p),
         UNCHANGED <<ledger, cache, frame, revoked, late, answered, units, attempts>>,
         \/ UNCHANGED out /\ o = out[r][i]
         \/ o \in Result \cup Error /\ out' = [out EXCEPT ![r][i] = o],
         p \in {"count", "call", "sent", "body", "store"} => items[r][i] # Bad,
         p = "store" => o \in Result,
         o \in Result => items[r][i] # Bad /\ o \in Given(answered, items[r][i]),
         calls' \in [KeyId -> Nat], UnitsCoverCalls'
  PROVE  IInv'
<1>1. UNCHANGED <<day, stage, key, items, status, revoked, late>>
  BY DEF frame, request
<1>2. ledger' \in KeyMap /\ Withdrawn'
  BY DEF IInv, TypeOK, Withdrawn
<1>3. /\ answered' \in [Subject -> SUBSET Result]
      /\ \A s \in Subject : answered[s] \subseteq answered'[s]
      /\ units' \in [KeyId -> Nat] /\ attempts' \in [KeyId -> Nat]
  BY DEF IInv, Shape
<1>4. /\ cache' \in [CacheKeys -> Result \cup {"none"}]
      /\ \A s \in Subject : cache'[cacheKey(s)] # "none" => cache'[cacheKey(s)] \in Given(answered', s)
  BY DEF IInv, TypeOK, AnswersGiven
<1>5. o \in Result => items[r][i] # Bad /\ o \in Given(answered', items[r][i])
  OBVIOUS
<1> QED
  BY <1>1, <1>2, <1>3, <1>4, <1>5, ItemInv

LEMMA LookupInv ==
  ASSUME IInv, NEW r \in Conn, NEW i \in DOMAIN items[r], Lookup(r, i)
  PROVE  IInv'
<1> DEFINE s == items[r][i]
<1>1. /\ stage[r] = "work" /\ at[r][i] = "todo"
      /\ UNCHANGED <<ledger, cache, frame, history>>
  BY DEF Lookup, Working
<1>2. UNCHANGED <<stage, key, items, units, attempts, calls, revoked, late, answered>>
  BY <1>1 DEF frame, request, history
<1>3. attempts \in [KeyId -> Nat] /\ calls \in [KeyId -> Nat] /\ key[r] \in KeyId
  BY ItemFacts DEF IInv, Shape
<1>4. \A k \in KeyId : /\ attempts'[k] = attempts[k] + (IF k = key[r] THEN 0 ELSE 0)
                       /\ calls'[k] = calls[k] + (IF k = key[r] THEN 0 ELSE 0)
  BY <1>2, <1>3
<1>5. ASSUME NEW o \in Result \cup Error, Finish(r, i, o),
             o \in Result => s # Bad /\ o \in Given(answered, s)
      PROVE  IInv'
  <2>1. Move(r, i, "done") /\ out' = [out EXCEPT ![r][i] = o] /\ "done" \in At
    BY <1>5 DEF Finish, At
  <2>2. UnitsCoverCalls'
    BY <1>1, <1>2, <1>4, <2>1, CoverInv DEF One
  <2> QED
    BY <1>1, <1>2, <1>3, <1>5, <2>1, <2>2, QuietInv
<1>6. CASE s = Bad /\ Finish(r, i, "invalid_item")
  BY <1>5, <1>6 DEF Result, Error
<1>7. CASE s # Bad /\ cache[cacheKey(s)] # "none" /\ Finish(r, i, cache[cacheKey(s)])
  <2>1. s \in Subject
    BY <1>7, ItemFacts
  <2>2. cache[cacheKey(s)] \in Result /\ cache[cacheKey(s)] \in Given(answered, s)
    BY <1>7, <2>1 DEF IInv, TypeOK, AnswersGiven, CacheKeys
  <2> QED
    BY <1>5, <1>7, <2>2
<1>8. CASE s # Bad /\ cache[cacheKey(s)] = "none" /\ Move(r, i, "count") /\ UNCHANGED out
  <2>1. UnitsCoverCalls'
    BY <1>1, <1>2, <1>4, <1>8, CoverInv DEF One
  <2>2. out[r][i] \in Result \cup Error \cup {"none"} /\ "count" \in At
        /\ (out[r][i] \in Result => s # Bad /\ out[r][i] \in Given(answered, s))
    BY ItemFacts DEF At
  <2> QED
    BY <1>1, <1>2, <1>3, <1>8, <2>1, <2>2, QuietInv
<1> QED
  BY <1>6, <1>7, <1>8 DEF Lookup

\* Lemma: an attempt that the store records, whatever becomes of the item.
LEMMA AttemptInv ==
  ASSUME IInv, NEW r \in Conn, NEW i \in DOMAIN items[r], Working(r, i, "count"),
         NEW p \in {"call", "done"}, NEW o \in Result \cup Error \cup {"none"},
         Move(r, i, p),
         \/ p = "call" /\ UNCHANGED out /\ o = out[r][i]
         \/ p = "done" /\ o \in Error /\ out' = [out EXCEPT ![r][i] = o],
         ledger' = Updated(Ask("attempt", r, 0), ledger, day),
         attempts' = [attempts EXCEPT ![key[r]] = @ + 1],
         UNCHANGED <<cache, frame, revoked, late, answered, units, calls>>
  PROVE  IInv'
<1> DEFINE q == Ask("attempt", r, 0)
<1>1. /\ stage[r] = "work" /\ at[r][i] = "count" /\ p \in At
      /\ UNCHANGED <<day, stage, key, items, status, revoked, late>>
  BY DEF Working, frame, request, At
<1>2. /\ attempts \in [KeyId -> Nat] /\ calls \in [KeyId -> Nat] /\ units \in [KeyId -> Nat]
      /\ key[r] \in KeyId /\ items[r][i] # Bad
      /\ answered \in [Subject -> SUBSET Result]
  BY <1>1, ItemFacts DEF IInv, Shape
<1>3. q \in Request /\ q.op = "attempt"
  BY AskFacts
<1>4. ledger' \in KeyMap /\ Withdrawn'
  BY <1>1, <1>3, LedgerFacts DEF IInv, Withdrawn, Shape
<1>5. /\ attempts' \in [KeyId -> Nat]
      /\ \A k \in KeyId : /\ attempts'[k] = attempts[k] + (IF k = key[r] THEN 1 ELSE 0)
                          /\ calls'[k] = calls[k] + (IF k = key[r] THEN 0 ELSE 0)
  BY <1>2, CountFacts
<1>6. UnitsCoverCalls'
  BY <1>1, <1>5, CoverInv DEF One
<1>7. /\ cache' \in [CacheKeys -> Result \cup {"none"}]
      /\ \A s \in Subject : cache'[cacheKey(s)] # "none" => cache'[cacheKey(s)] \in Given(answered', s)
  BY DEF IInv, TypeOK, AnswersGiven
<1>8. o \in Result => items[r][i] # Bad /\ o \in Given(answered', items[r][i])
  BY ItemFacts DEF Error, Result
<1>9. /\ \/ UNCHANGED out /\ o = out[r][i]
         \/ o \in Result \cup Error /\ out' = [out EXCEPT ![r][i] = o]
      /\ p = "store" => o \in Result
  OBVIOUS
<1> QED
  BY <1>1, <1>2, <1>4, <1>5, <1>6, <1>7, <1>8, <1>9, ItemInv

LEMMA CountInv ==
  ASSUME IInv, NEW r \in Conn, NEW i \in DOMAIN items[r], Count(r, i)
  PROVE  IInv'
<1>1. /\ Working(r, i, "count") /\ Move(r, i, "call") /\ UNCHANGED out
      /\ ledger' = Updated(Ask("attempt", r, 0), ledger, day)
      /\ attempts' = [attempts EXCEPT ![key[r]] = @ + 1]
      /\ UNCHANGED <<cache, frame, revoked, late, answered, units, calls>>
  BY DEF Count
<1>2. out[r][i] \in Result \cup Error \cup {"none"}
  BY ItemFacts
<1> QED
  BY <1>1, <1>2, AttemptInv

\* Lemma: a worker that ends with an error, and nothing else happens.
LEMMA ErrorInv ==
  ASSUME IInv, NEW r \in Conn, NEW i \in DOMAIN items[r], NEW o \in Error,
         stage[r] = "work", Finish(r, i, o),
         UNCHANGED <<ledger, cache, frame, revoked, late, answered, units, attempts, calls>>
  PROVE  IInv'
<1>1. Move(r, i, "done") /\ out' = [out EXCEPT ![r][i] = o] /\ "done" \in At
  BY DEF Finish, At
<1>2. UNCHANGED <<stage, key, items>>
  BY DEF frame, request
<1>3. attempts \in [KeyId -> Nat] /\ calls \in [KeyId -> Nat] /\ key[r] \in KeyId
  BY ItemFacts DEF IInv, Shape
<1>4. \A k \in KeyId : /\ attempts'[k] = attempts[k] + (IF k = key[r] THEN 0 ELSE 0)
                       /\ calls'[k] = calls[k] + (IF k = key[r] THEN 0 ELSE 0)
  BY <1>3
<1>5. UnitsCoverCalls'
  BY <1>1, <1>2, <1>4, CoverInv DEF One
<1>6. o \notin Result
  BY DEF Error, Result
<1> QED
  BY <1>1, <1>3, <1>5, <1>6, QuietInv

LEMMA CountRefusedInv ==
  ASSUME IInv, NEW r \in Conn, NEW i \in DOMAIN items[r], CountRefused(r, i)
  PROVE  IInv'
  BY ErrorInv DEF CountRefused, Working, Error, history

LEMMA CountFailsInv ==
  ASSUME IInv, NEW r \in Conn, NEW i \in DOMAIN items[r], CountFails(r, i)
  PROVE  IInv'
<1>1. /\ Working(r, i, "count") /\ Finish(r, i, "usage_unavailable")
      /\ UNCHANGED <<cache, frame, revoked, late, answered, units, calls>>
      /\ "usage_unavailable" \in Error
  BY DEF CountFails, Error
<1>2. CASE UNCHANGED <<ledger, attempts>>
  BY <1>1, <1>2, ErrorInv DEF Working
<1>3. CASE /\ ledger' = Updated(Ask("attempt", r, 0), ledger, day)
           /\ attempts' = [attempts EXCEPT ![key[r]] = @ + 1]
  BY <1>1, <1>3, AttemptInv DEF Finish
<1> QED
  BY <1>2, <1>3 DEF CountFails

LEMMA SendInv ==
  ASSUME IInv, NEW r \in Conn, NEW i \in DOMAIN items[r], Send(r, i)
  PROVE  IInv'
<1>1. /\ stage[r] = "work" /\ at[r][i] = "call" /\ Move(r, i, "sent") /\ UNCHANGED out
      /\ calls' = [calls EXCEPT ![key[r]] = @ + 1]
      /\ UNCHANGED <<ledger, cache, frame, revoked, late, answered, units, attempts>>
      /\ "sent" \in At
  BY DEF Send, Working, At
<1>2. UNCHANGED <<stage, key, items>>
  BY <1>1 DEF frame, request
<1>3. attempts \in [KeyId -> Nat] /\ calls \in [KeyId -> Nat] /\ key[r] \in KeyId
  BY ItemFacts DEF IInv, Shape
<1>4. /\ calls' \in [KeyId -> Nat]
      /\ \A k \in KeyId : /\ attempts'[k] = attempts[k] + (IF k = key[r] THEN 0 ELSE 0)
                          /\ calls'[k] = calls[k] + (IF k = key[r] THEN 1 ELSE 0)
  BY <1>1, <1>3, CountFacts
<1>5. UnitsCoverCalls'
  BY <1>1, <1>2, <1>4, CoverInv DEF One
<1> QED
  BY <1>1, <1>4, <1>5, QuietInv, ItemFacts

LEMMA HeaderInv ==
  ASSUME IInv, NEW r \in Conn, NEW i \in DOMAIN items[r], Header(r, i)
  PROVE  IInv'
<1>1. /\ stage[r] = "work" /\ at[r][i] = "sent" /\ Move(r, i, "body") /\ UNCHANGED out
      /\ UNCHANGED <<ledger, cache, frame, revoked, late, answered, units, attempts, calls>>
      /\ "body" \in At
  BY DEF Header, Working, At, history
<1>2. UNCHANGED <<stage, key, items>>
  BY <1>1 DEF frame, request
<1>3. attempts \in [KeyId -> Nat] /\ calls \in [KeyId -> Nat] /\ key[r] \in KeyId
  BY ItemFacts DEF IInv, Shape
<1>4. \A k \in KeyId : /\ attempts'[k] = attempts[k] + (IF k = key[r] THEN 0 ELSE 0)
                       /\ calls'[k] = calls[k] + (IF k = key[r] THEN 0 ELSE 0)
  BY <1>1, <1>3
<1>5. UnitsCoverCalls'
  BY <1>1, <1>2, <1>4, CoverInv DEF One
<1> QED
  BY <1>1, <1>3, <1>5, QuietInv, ItemFacts

LEMMA CallEndsInv ==
  ASSUME IInv, NEW r \in Conn, NEW i \in DOMAIN items[r],
         CallFails(r, i) \/ TimesOut(r, i)
  PROVE  IInv'
<1>1. /\ stage[r] = "work"
      /\ \E o \in {"provider_error", "provider_timeout"} : Finish(r, i, o)
      /\ UNCHANGED <<ledger, cache, frame, revoked, late, answered, units, attempts, calls>>
  BY DEF CallFails, TimesOut, Working, history, counts
<1> QED
  BY <1>1, ErrorInv DEF Error

LEMMA ReceiveInv ==
  ASSUME IInv, NEW r \in Conn, NEW i \in DOMAIN items[r], NEW o \in Result, Receive(r, i, o)
  PROVE  IInv'
<1> DEFINE s == items[r][i]
<1>1. /\ stage[r] = "work" /\ at[r][i] = "body" /\ Move(r, i, "store") /\ "store" \in At
      /\ out' = [out EXCEPT ![r][i] = o]
      /\ answered' = [answered EXCEPT ![s] = @ \cup {o}]
      /\ UNCHANGED <<ledger, cache, frame, revoked, late, units, attempts, calls>>
  BY DEF Receive, Working, At, counts
<1>2. UNCHANGED <<day, stage, key, items, status, revoked, late>>
  BY <1>1 DEF frame, request
<1>3. /\ attempts \in [KeyId -> Nat] /\ calls \in [KeyId -> Nat] /\ units \in [KeyId -> Nat]
      /\ key[r] \in KeyId /\ s \in Subject /\ s # Bad
      /\ answered \in [Subject -> SUBSET Result]
  BY <1>1, ItemFacts DEF IInv, Shape
<1>4. \A k \in KeyId : /\ attempts'[k] = attempts[k] + (IF k = key[r] THEN 0 ELSE 0)
                       /\ calls'[k] = calls[k] + (IF k = key[r] THEN 0 ELSE 0)
  BY <1>1, <1>3
<1>5. UnitsCoverCalls'
  BY <1>1, <1>2, <1>4, CoverInv DEF One
<1>6. /\ answered' \in [Subject -> SUBSET Result] /\ o \in answered'[s]
      /\ \A t \in Subject : answered[t] \subseteq answered'[t]
  BY <1>1, <1>3
<1>9. /\ o \in Given(answered', s)
      /\ \A t \in Subject : Given(answered, t) \subseteq Given(answered', t)
  BY <1>3, <1>6, GivenFacts
<1>7. /\ cache' \in [CacheKeys -> Result \cup {"none"}]
      /\ \A t \in Subject : cache'[cacheKey(t)] # "none" => cache'[cacheKey(t)] \in Given(answered', t)
  BY <1>1, <1>9 DEF IInv, TypeOK, AnswersGiven
<1>8. ledger' \in KeyMap /\ Withdrawn'
  BY <1>1 DEF IInv, TypeOK, Withdrawn
<1> QED
  BY <1>1, <1>2, <1>3, <1>5, <1>6, <1>7, <1>8, <1>9, ItemInv

LEMMA StoreInv ==
  ASSUME IInv, NEW r \in Conn, NEW i \in DOMAIN items[r], Store(r, i)
  PROVE  IInv'
<1> DEFINE s == items[r][i]
<1>1. /\ stage[r] = "work" /\ at[r][i] = "store" /\ Move(r, i, "done") /\ "done" \in At
      /\ cache' = [cache EXCEPT ![cacheKey(s)] = out[r][i]] /\ UNCHANGED out
      /\ UNCHANGED <<ledger, frame, revoked, late, answered, units, attempts, calls>>
  BY DEF Store, Working, At, history
<1>2. UNCHANGED <<day, stage, key, items, status, revoked, late>>
  BY <1>1 DEF frame, request
<1>3. /\ attempts \in [KeyId -> Nat] /\ calls \in [KeyId -> Nat] /\ units \in [KeyId -> Nat]
      /\ key[r] \in KeyId /\ s \in Subject /\ s # Bad
      /\ answered \in [Subject -> SUBSET Result]
  BY <1>1, ItemFacts DEF IInv, Shape
<1>4. \A k \in KeyId : /\ attempts'[k] = attempts[k] + (IF k = key[r] THEN 0 ELSE 0)
                       /\ calls'[k] = calls[k] + (IF k = key[r] THEN 0 ELSE 0)
  BY <1>1, <1>3
<1>5. UnitsCoverCalls'
  BY <1>1, <1>2, <1>4, CoverInv DEF One
<1>6. out[r][i] \in Result /\ out[r][i] \in Given(answered, s)
  BY <1>1, ItemFacts DEF IInv, Evaluated
<1>7. /\ cache' \in [CacheKeys -> Result \cup {"none"}]
      /\ \A t \in Subject : cache'[cacheKey(t)] # "none" => cache'[cacheKey(t)] \in Given(answered', t)
  <2>1. cache \in [CacheKeys -> Result \cup {"none"}] /\ cacheKey(s) \in CacheKeys
    BY <1>3 DEF IInv, TypeOK, CacheKeys
  <2>2. ASSUME NEW t \in Subject, cache'[cacheKey(t)] # "none"
        PROVE  cache'[cacheKey(t)] \in Given(answered', t)
    <3>1. CASE cacheKey(t) = cacheKey(s)
      <4>1. cache'[cacheKey(t)] = out[r][i]
        BY <1>1, <2>1, <3>1
      <4>2. Given(answered, t) = Given(answered, s)
        BY <1>3, <3>1, GivenFacts
      <4> QED
        BY <1>1, <1>6, <4>1, <4>2
    <3>2. CASE cacheKey(t) # cacheKey(s)
      <4>1. cache'[cacheKey(t)] = cache[cacheKey(t)]
        BY <1>1, <2>1, <3>2 DEF CacheKeys
      <4> QED
        BY <1>1, <2>2, <4>1 DEF IInv, AnswersGiven
    <3> QED
      BY <3>1, <3>2
  <2> QED
    BY <1>1, <1>6, <2>1, <2>2
<1>8. ledger' \in KeyMap /\ Withdrawn'
  BY <1>1 DEF IInv, TypeOK, Withdrawn
<1>9. \A t \in Subject : answered[t] \subseteq answered'[t]
  BY <1>1
<1> QED
  BY <1>1, <1>2, <1>3, <1>5, <1>6, <1>7, <1>8, <1>9, ItemInv
-----------------------------------------------------------------------------
(***************************************************************************)
(* The steps of a handler.                                                 *)
(***************************************************************************)
\* Lemma: no worker comes in, and no unit is given back.
LEMMA StillCovered ==
  ASSUME IInv,
         \A k \in KeyId : /\ Workers(k, {"call"})' \subseteq Workers(k, {"call"})
                         /\ Workers(k, {"todo", "count"})' \subseteq Workers(k, {"todo", "count"})
                         /\ attempts'[k] = attempts[k] /\ calls'[k] = calls[k]
                         /\ units'[k] \in Nat /\ units[k] <= units'[k]
  PROVE  UnitsCoverCalls'
<1> SUFFICES ASSUME NEW k \in KeyId
             PROVE  /\ calls'[k] + Cardinality(Workers(k, {"call"}))' <= attempts'[k]
                    /\ attempts'[k] + Cardinality(Workers(k, {"todo", "count"}))' <= units'[k]
  BY DEF UnitsCoverCalls
<1> DEFINE W1 == Cardinality(Workers(k, {"call"}))
           W2 == Cardinality(Workers(k, {"todo", "count"}))
<1>1. /\ calls[k] + W1 <= attempts[k] /\ attempts[k] + W2 <= units[k]
      /\ calls[k] \in Nat /\ attempts[k] \in Nat /\ units[k] \in Nat
  BY DEF IInv, UnitsCoverCalls, Shape
<1>2. W1' \in Nat /\ W1 \in Nat /\ W1' <= W1
  BY WorkersShrink
<1>3. W2' \in Nat /\ W2 \in Nat /\ W2' <= W2
  BY WorkersShrink
<1> HIDE DEF W1, W2
<1>4. calls'[k] + W1' <= attempts'[k] /\ attempts'[k] + W2' <= units'[k]
  BY <1>1, <1>2, <1>3
<1> QED
  BY <1>4 DEF W1, W2

\* Lemma: a handler that goes on to s, with the status c.
LEMMA HandlerInv ==
  ASSUME IInv, NEW r \in Conn, NEW s \in Stage, NEW c \in Status,
         stage' = [stage EXCEPT ![r] = s], status' = [status EXCEPT ![r] = c],
         s # "reply" => c = "none",
         r \in late => s = "reply" /\ c \in {"401", "503"},
         s \in {"auth", "limit", "decode", "reserve"} => stage[r] \in {"auth", "limit", "decode", "reserve"},
         s = "reserve" => items[r] # <<>>,
         UNCHANGED <<day, cache, request, work, revoked, late, answered, attempts, calls>>,
         ledger' \in KeyMap, Withdrawn', units' \in [KeyId -> Nat], UnitsCoverCalls'
  PROVE  IInv'
<1>1. UNCHANGED <<key, items, at, out>>
  BY DEF request, work
<1>2. /\ stage'[r] = s /\ status'[r] = c
      /\ \A d \in Conn : d # r => stage'[d] = stage[d] /\ status'[d] = status[d]
      /\ stage' \in [Conn -> Stage] /\ status' \in [Conn -> Status]
  BY DEF IInv, TypeOK
<1>3. TypeOK'
  BY <1>1, <1>2 DEF IInv, TypeOK
<1>4. Shape'
  BY <1>1 DEF IInv, Shape
<1>5. Waiting'
  BY <1>1, <1>2 DEF IInv, Waiting
<1>6. Evaluated' /\ AnswersGiven'
  BY <1>1 DEF IInv, Evaluated, AnswersGiven
<1>7. LateIsRefused'
  BY <1>2 DEF IInv, LateIsRefused
<1> QED
  BY <1>3, <1>4, <1>5, <1>6, <1>7 DEF IInv

\* Lemma: a handler that charges nothing.
LEMMA FreeInv ==
  ASSUME IInv, NEW r \in Conn, NEW s \in Stage \ {"work"}, NEW c \in Status,
         stage' = [stage EXCEPT ![r] = s], status' = [status EXCEPT ![r] = c],
         s # "reply" => c = "none",
         r \in late => s = "reply" /\ c \in {"401", "503"},
         s \in {"auth", "limit", "decode", "reserve"} => stage[r] \in {"auth", "limit", "decode", "reserve"},
         s = "reserve" => items[r] # <<>>,
         UNCHANGED <<ledger, day, cache, request, work, revoked, late, answered, counts>>
  PROVE  IInv'
<1>1. \A k \in KeyId : /\ attempts'[k] = attempts[k] /\ calls'[k] = calls[k]
                       /\ units'[k] \in Nat /\ units[k] <= units'[k]
  BY DEF IInv, Shape, counts
<1>2. \A d \in Conn : stage'[d] = "work" => stage[d] = "work"
  BY DEF IInv, TypeOK
<1>3. \A k \in KeyId : /\ Workers(k, {"call"})' \subseteq Workers(k, {"call"})
                       /\ Workers(k, {"todo", "count"})' \subseteq Workers(k, {"todo", "count"})
  BY <1>2 DEF Workers, request, work
<1>4. UnitsCoverCalls'
  BY <1>1, <1>3, StillCovered
<1>5. ledger' \in KeyMap /\ Withdrawn' /\ units' \in [KeyId -> Nat]
      /\ UNCHANGED <<attempts, calls>>
  BY DEF IInv, TypeOK, Withdrawn, Shape, counts
<1> QED
  BY <1>4, <1>5, HandlerInv

LEMMA AuthenticateInv ==
  ASSUME IInv, NEW r \in Conn, Authenticate(r)
  PROVE  IInv'
<1>1. /\ stage[r] = "auth" /\ status[r] = "none" /\ status \in [Conn -> Status]
      /\ UNCHANGED <<ledger, day, cache, request, work, revoked, late, answered, counts>>
  BY DEF Authenticate, history, counts, IInv, Waiting, TypeOK
<1>2. CASE Verdict(Ask("authenticate", r, 0), ledger, day) = "ok"
  <2>1. key[r] \notin revoked
    BY <1>2, AskFacts
  <2>2. r \notin late
    BY <2>1 DEF IInv, Waiting
  <2>3. stage' = [stage EXCEPT ![r] = "limit"] /\ status' = [status EXCEPT ![r] = "none"]
    BY <1>1, <1>2 DEF Authenticate, Enter
  <2> QED
    BY <1>1, <2>2, <2>3, FreeInv DEF Stage, Status
<1>3. CASE Verdict(Ask("authenticate", r, 0), ledger, day) # "ok"
  BY <1>1, <1>3, FreeInv DEF Authenticate, Answer, Enter, Stage, Status
<1> QED
  BY <1>2, <1>3

LEMMA AdmitInv ==
  ASSUME IInv, NEW r \in Conn, Admit(r)
  PROVE  IInv'
<1>1. /\ stage[r] = "limit" /\ status[r] = "none" /\ status \in [Conn -> Status]
      /\ r \notin late
      /\ UNCHANGED <<ledger, day, cache, request, work, revoked, late, answered, counts>>
  BY DEF Admit, history, counts, IInv, Waiting, TypeOK, LateIsRefused
<1>2. stage' = [stage EXCEPT ![r] = "decode"] /\ status' = [status EXCEPT ![r] = "none"]
  BY <1>1 DEF Admit, Enter
<1> QED
  BY <1>1, <1>2, FreeInv DEF Stage, Status

LEMMA DecodeInv ==
  ASSUME IInv, NEW r \in Conn, Decode(r)
  PROVE  IInv'
<1>1. /\ stage[r] = "decode" /\ status[r] = "none" /\ status \in [Conn -> Status]
      /\ r \notin late /\ items[r] # <<>>
      /\ UNCHANGED <<ledger, day, cache, request, work, revoked, late, answered, counts>>
  BY DEF Decode, history, counts, IInv, Waiting, TypeOK, LateIsRefused
<1>2. stage' = [stage EXCEPT ![r] = "reserve"] /\ status' = [status EXCEPT ![r] = "none"]
  BY <1>1 DEF Decode, Enter
<1> QED
  BY <1>1, <1>2, FreeInv DEF Stage, Status

\* Lemma: a request past authentication is answered free of charge.
LEMMA AnswerInv ==
  ASSUME IInv, NEW r \in Conn, NEW c \in Status, stage[r] \in {"limit", "decode", "reserve", "work"},
         Answer(r, c),
         UNCHANGED <<ledger, day, cache, request, work, revoked, late, answered, counts>>
  PROVE  IInv'
<1>1. r \notin late
  BY DEF IInv, LateIsRefused
<1> QED
  BY <1>1, FreeInv DEF Answer, Enter, Stage

LEMMA RefusalInv ==
  ASSUME IInv, NEW r \in Conn, Throttle(r) \/ Malformed(r) \/ Refuse(r)
  PROVE  IInv'
<1>1. CASE Throttle(r)
  BY <1>1, AnswerInv DEF Throttle, Status, history, counts
<1>2. CASE Malformed(r)
  BY <1>2, AnswerInv DEF Malformed, Status, history, counts
<1>3. CASE Refuse(r)
  <2>1. \E c \in {"429_quota", "401"} : Answer(r, c)
    BY <1>3 DEF Refuse
  <2> QED
    BY <1>3, <2>1, AnswerInv DEF Refuse, Status, history, counts
<1> QED
  BY <1>1, <1>2, <1>3

LEMMA RespondInv ==
  ASSUME IInv, NEW r \in Conn, Respond(r)
  PROVE  IInv'
<1>1. \A o : Code(o) \in Status
  BY DEF Code, Status
<1>2. \E c \in Status : Answer(r, c)
  BY <1>1 DEF Respond, Status
<1> QED
  BY <1>2, AnswerInv DEF Respond, history, counts

\* Lemma: the workers that a reservation for items js starts.
LEMMA JobSize ==
  ASSUME NEW r \in Conn, NEW js \in Jobs[r] \cup {<<>>}
  PROVE  /\ IsFiniteSet({r} \X (1..Len(js)))
         /\ Cardinality({r} \X (1..Len(js))) = Len(js)
         /\ Len(js) \in Nat
<1>1. Len(js) \in Nat
  BY JobFacts
<1>2. IsFiniteSet(1..Len(js)) /\ Cardinality(1..Len(js)) = Len(js)
  <2>1. /\ IsFiniteSet(1..Len(js))
        /\ Cardinality(1..Len(js)) = IF 1 > Len(js) THEN 0 ELSE Len(js) - 1 + 1
    <3>1. 1 \in Int /\ Len(js) \in Int
      BY <1>1
    <3> QED
      BY <3>1, FS_Interval
  <2> QED
    BY <1>1, <2>1
<1>3. IsFiniteSet({r}) /\ Cardinality({r}) = 1
  BY FS_Singleton
<1>4. /\ IsFiniteSet({r} \X (1..Len(js)))
      /\ Cardinality({r} \X (1..Len(js))) = Cardinality({r}) * Cardinality(1..Len(js))
  BY <1>2, <1>3, FS_Product
<1>5. Cardinality({r}) * Cardinality(1..Len(js)) = Len(js)
  BY <1>1, <1>2, <1>3
<1> QED
  BY <1>1, <1>4, <1>5

\* Lemma: a reservation covers the work it starts.
LEMMA ReservedCover ==
  ASSUME IInv, NEW r \in Conn, stage[r] = "reserve",
         stage' = [stage EXCEPT ![r] = "work"],
         units' = [units EXCEPT ![key[r]] = @ + Len(items[r])],
         UNCHANGED <<key, items, at, attempts, calls>>
  PROVE  units' \in [KeyId -> Nat] /\ UnitsCoverCalls'
<1> DEFINE n == Len(items[r])
<1>1. /\ key[r] \in KeyId /\ units \in [KeyId -> Nat]
      /\ n \in Nat /\ items[r] \in Jobs[r] \cup {<<>>}
  BY JobSize DEF IInv, TypeOK, Shape
<1>2. /\ units' \in [KeyId -> Nat]
      /\ \A k \in KeyId : units'[k] = units[k] + (IF k = key[r] THEN n ELSE 0)
  BY <1>1, CountFacts
<1>3. SUFFICES ASSUME NEW k \in KeyId
               PROVE  /\ calls'[k] + Cardinality(Workers(k, {"call"}))' <= attempts'[k]
                      /\ attempts'[k] + Cardinality(Workers(k, {"todo", "count"}))' <= units'[k]
  BY <1>2 DEF UnitsCoverCalls
<1> DEFINE A == Workers(k, {"todo", "count"})
           B == Workers(k, {"todo", "count"})'
           T == {r} \X (1..n)
           W1 == Cardinality(Workers(k, {"call"}))
           W2 == Cardinality(A)
<1>4. /\ calls[k] + W1 <= attempts[k] /\ attempts[k] + W2 <= units[k]
      /\ calls[k] \in Nat /\ attempts[k] \in Nat /\ units[k] \in Nat
  BY DEF IInv, UnitsCoverCalls, Shape
<1>5. \A d \in Conn : (d # r /\ stage'[d] = "work") => stage[d] = "work"
  BY DEF IInv, TypeOK
<1>6. Workers(k, {"call"})' \subseteq Workers(k, {"call"})
  <2>1. \A i \in DOMAIN items[r] : at[r][i] = "todo"
    BY DEF IInv, Waiting
  <2> QED
    BY <1>5, <2>1 DEF Workers
<1>7. B \subseteq A \cup (IF k = key[r] THEN T ELSE {})
  <2>1. DOMAIN items[r] = 1..n
    BY <1>1, JobFacts
  <2> QED
    BY <1>5, <2>1 DEF Workers
<1>8. W1' \in Nat /\ W1 \in Nat /\ W1' <= W1
  BY <1>6, WorkersShrink
<1>9. IsFiniteSet(A) /\ IsFiniteSet(T) /\ Cardinality(T) = n
  BY <1>1, WorkersFinite, JobSize
<1>10. /\ Cardinality(B) \in Nat /\ W2 \in Nat
       /\ Cardinality(B) <= W2 + (IF k = key[r] THEN n ELSE 0)
  <2> HIDE DEF A, B, T, n
  <2>1. CASE k = key[r]
    <3>1. /\ IsFiniteSet(A \cup T) /\ IsFiniteSet(A \cap T)
          /\ Cardinality(A \cup T) = Cardinality(A) + Cardinality(T) - Cardinality(A \cap T)
      BY <1>9, FS_Union, FS_Subset
    <3>2. B \in SUBSET (A \cup T)
      BY <1>7, <2>1
    <3>3. IsFiniteSet(B) /\ Cardinality(B) <= Cardinality(A \cup T)
      BY <3>1, <3>2, FS_Subset
    <3>4. /\ Cardinality(A) \in Nat /\ Cardinality(A \cap T) \in Nat /\ Cardinality(B) \in Nat
          /\ Cardinality(A \cup T) \in Nat
      BY <1>9, <3>1, <3>3, FS_CardinalityType
    <3> QED
      BY <1>1, <1>9, <2>1, <3>1, <3>3, <3>4
  <2>2. CASE k # key[r]
    <3>1. B \in SUBSET A
      BY <1>7, <2>2
    <3>2. IsFiniteSet(B) /\ Cardinality(B) <= Cardinality(A)
      BY <1>9, <3>1, FS_Subset
    <3> QED
      BY <1>9, <2>2, <3>2, FS_CardinalityType
  <2> QED
    BY <2>1, <2>2
<1>11. Cardinality(Workers(k, {"todo", "count"}))' = Cardinality(B)
  OBVIOUS
<1>12. UNCHANGED <<attempts, calls>>
  OBVIOUS
<1> HIDE DEF W1, W2, A, B, T, n
<1>13. calls'[k] + W1' <= attempts'[k]
  BY <1>4, <1>8, <1>12
<1>14. attempts'[k] + Cardinality(B) <= units'[k]
  <2>1. /\ attempts'[k] = attempts[k]
        /\ units'[k] = units[k] + (IF k = key[r] THEN n ELSE 0)
    BY <1>2, <1>12
  <2> QED
    BY <1>1, <1>4, <1>10, <2>1
<1> QED
  BY <1>11, <1>13, <1>14 DEF W1

LEMMA ReserveInv ==
  ASSUME IInv, NEW r \in Conn, Reserve(r)
  PROVE  IInv'
<1> DEFINE q == Ask("reserve", r, Len(items[r]))
<1>1. /\ stage[r] = "reserve" /\ status[r] = "none" /\ status \in [Conn -> Status]
      /\ r \notin late /\ Len(items[r]) \in Nat
      /\ stage' = [stage EXCEPT ![r] = "work"]
      /\ units' = [units EXCEPT ![key[r]] = @ + Len(items[r])]
      /\ ledger' = Updated(q, ledger, day)
      /\ UNCHANGED <<day, cache, request, work, status, revoked, late, answered, attempts, calls>>
  BY JobSize DEF Reserve, Enter, IInv, Waiting, TypeOK, LateIsRefused
<1>2. q \in Request /\ q.op = "reserve"
  BY <1>1, AskFacts
<1>3. ledger' \in KeyMap /\ Withdrawn'
  BY <1>1, <1>2, LedgerFacts DEF IInv, Withdrawn, Shape
<1>4. units' \in [KeyId -> Nat] /\ UnitsCoverCalls'
  BY <1>1, ReservedCover DEF request, work
<1>5. status' = [status EXCEPT ![r] = "none"]
  BY <1>1
<1> QED
  BY <1>1, <1>3, <1>4, <1>5, HandlerInv DEF Stage, Status

LEMMA StoreFailsInv ==
  ASSUME IInv, NEW r \in Conn, StoreFails(r)
  PROVE  IInv'
<1> DEFINE q == Ask("reserve", r, Len(items[r]))
<1>1. /\ stage' = [stage EXCEPT ![r] = "reply"] /\ status' = [status EXCEPT ![r] = "503"]
      /\ UNCHANGED <<day, cache, request, work, revoked, late, answered, attempts, calls>>
      /\ "503" \in Status /\ "reply" \in Stage /\ "reply" # "work"
  BY DEF StoreFails, Answer, Enter, Status, Stage
<1>2. CASE UNCHANGED <<ledger, units>>
  BY <1>1, <1>2, FreeInv DEF counts
<1>3. CASE /\ stage[r] = "reserve"
           /\ ledger' = Updated(q, ledger, day)
           /\ units' = [units EXCEPT ![key[r]] = @ + Len(items[r])]
  <2>1. key[r] \in KeyId /\ units \in [KeyId -> Nat] /\ Len(items[r]) \in Nat
    BY JobSize DEF IInv, TypeOK, Shape
  <2>2. q \in Request /\ q.op = "reserve"
    BY <2>1, AskFacts
  <2>3. ledger' \in KeyMap /\ Withdrawn'
    BY <1>1, <1>3, <2>2, LedgerFacts DEF IInv, Withdrawn, Shape
  <2>4. /\ units' \in [KeyId -> Nat]
        /\ \A k \in KeyId : units'[k] = units[k] + (IF k = key[r] THEN Len(items[r]) ELSE 0)
    BY <1>3, <2>1, CountFacts
  <2>5. \A k \in KeyId : /\ attempts'[k] = attempts[k] /\ calls'[k] = calls[k]
                         /\ units'[k] \in Nat /\ units[k] <= units'[k]
    BY <1>1, <2>1, <2>4
  <2>6. \A d \in Conn : stage'[d] = "work" => stage[d] = "work"
    BY <1>1 DEF IInv, TypeOK
  <2>7. \A k \in KeyId : /\ Workers(k, {"call"})' \subseteq Workers(k, {"call"})
                         /\ Workers(k, {"todo", "count"})' \subseteq Workers(k, {"todo", "count"})
    BY <1>1, <2>6 DEF Workers, request, work
  <2>8. UnitsCoverCalls'
    BY <2>5, <2>7, StillCovered
  <2> QED
    BY <1>1, <2>3, <2>4, <2>8, HandlerInv
<1> QED
  BY <1>2, <1>3 DEF StoreFails
-----------------------------------------------------------------------------
(***************************************************************************)
(* Requests that come and go, and what happens around them.                *)
(***************************************************************************)
\* Lemma: a request that has no items.
LEMMA NoItems ==
  ASSUME NEW S
  PROVE  DOMAIN <<>> = {} /\ <<>> \in [DOMAIN <<>> -> S]
<1>1. DOMAIN <<>> = {}
  OBVIOUS
<1> QED
  BY <1>1

LEMMA ArriveInv ==
  ASSUME IInv, NEW r \in Conn, NEW k \in KeyId, NEW js \in Jobs[r] \cup {<<>>},
         Arrive(r, k, js)
  PROVE  IInv'
<1>1. /\ stage[r] = "idle" /\ status[r] = "none" /\ r \notin late
      /\ stage' = [stage EXCEPT ![r] = "auth"] /\ key' = [key EXCEPT ![r] = k]
      /\ items' = [items EXCEPT ![r] = js]
      /\ at' = [at EXCEPT ![r] = [i \in DOMAIN js |-> "todo"]]
      /\ out' = [out EXCEPT ![r] = [i \in DOMAIN js |-> "none"]]
      /\ late' = IF k \in revoked THEN late \cup {r} ELSE late
      /\ UNCHANGED <<ledger, day, cache, status, revoked, answered, units, attempts, calls>>
  BY DEF Arrive, Enter, counts, IInv, Waiting, LateIsRefused
<1>2. /\ DOMAIN items' = Conn /\ DOMAIN at' = Conn /\ DOMAIN out' = Conn
      /\ stage'[r] = "auth" /\ key'[r] = k /\ items'[r] = js
      /\ at'[r] = [i \in DOMAIN js |-> "todo"] /\ out'[r] = [i \in DOMAIN js |-> "none"]
      /\ \A d \in Conn : d # r => /\ stage'[d] = stage[d] /\ key'[d] = key[d]
                                  /\ items'[d] = items[d] /\ at'[d] = at[d] /\ out'[d] = out[d]
  BY <1>1 DEF IInv, TypeOK, Shape
<1>3. /\ stage' \in [Conn -> Stage] /\ key' \in [Conn -> KeyId]
      /\ at'[r] \in [DOMAIN js -> At]
      /\ out'[r] \in [DOMAIN js -> Result \cup Error \cup {"none"}]
  BY <1>1, <1>2 DEF IInv, TypeOK, Stage, At
<1>4. TypeOK'
  BY <1>1, <1>2, <1>3 DEF IInv, TypeOK
<1>5. Shape'
  BY <1>1, <1>2 DEF IInv, Shape
<1>6. Withdrawn' /\ Waiting'
  BY <1>1, <1>2 DEF IInv, Withdrawn, Waiting
<1>7. ASSUME NEW d \in Conn, NEW i \in DOMAIN items'[d]
      PROVE  /\ at'[d][i] \in {"count", "call", "sent", "body", "store"} => items'[d][i] # Bad
             /\ at'[d][i] = "store" => out'[d][i] \in Result
             /\ out'[d][i] \in Result => items'[d][i] # Bad /\ out'[d][i] \in Given(answered', items'[d][i])
  BY <1>1, <1>2 DEF IInv, Evaluated, AnswersGiven, Result
<1>8. Evaluated' /\ AnswersGiven'
  BY <1>1, <1>7 DEF IInv, Evaluated, AnswersGiven
<1>9. LateIsRefused'
  BY <1>1, <1>2 DEF IInv, LateIsRefused
<1>10. UnitsCoverCalls'
  <2>1. \A j \in KeyId : /\ Workers(j, {"call"})' \subseteq Workers(j, {"call"})
                         /\ Workers(j, {"todo", "count"})' \subseteq Workers(j, {"todo", "count"})
    BY <1>2 DEF Workers
  <2> QED
    BY <1>1, <2>1, StillCovered DEF IInv, Shape
<1> QED
  BY <1>4, <1>5, <1>6, <1>8, <1>9, <1>10 DEF IInv

\* Lemma: requests that are forgotten, be it with the whole process.
LEMMA ForgetInv ==
  ASSUME IInv, NEW R \in SUBSET Conn, Forget(R),
         cache' \in {cache, [k \in CacheKeys |-> "none"]},
         UNCHANGED <<ledger, day, revoked, answered, counts>>
  PROVE  IInv'
<1>1. UNCHANGED <<units, attempts, calls>> /\ late' = late \ R
  BY DEF counts, Forget
<1>2. ASSUME NEW d \in Conn
      PROVE  /\ d \in R => /\ stage'[d] = "idle" /\ key'[d] \in KeyId /\ items'[d] = <<>>
                           /\ at'[d] = <<>> /\ out'[d] = <<>> /\ status'[d] = "none"
             /\ d \notin R => /\ stage'[d] = stage[d] /\ key'[d] = key[d]
                              /\ items'[d] = items[d] /\ at'[d] = at[d]
                              /\ out'[d] = out[d] /\ status'[d] = status[d]
  BY OpsAssumption DEF Forget
<1>3. /\ DOMAIN items' = Conn /\ DOMAIN at' = Conn /\ DOMAIN out' = Conn
      /\ DOMAIN stage' = Conn /\ DOMAIN key' = Conn /\ DOMAIN status' = Conn
      /\ stage' = [d \in Conn |-> stage'[d]] /\ key' = [d \in Conn |-> key'[d]]
      /\ status' = [d \in Conn |-> status'[d]]
  BY DEF Forget
<1>4. /\ cache' \in [CacheKeys -> Result \cup {"none"}]
      /\ \A s \in Subject : cache'[cacheKey(s)] # "none" => cache'[cacheKey(s)] \in Given(answered', s)
  BY DEF IInv, TypeOK, AnswersGiven, CacheKeys
<1>5. TypeOK'
  <2>1. /\ \A d \in Conn : stage'[d] \in Stage /\ key'[d] \in KeyId /\ status'[d] \in Status
    BY <1>2 DEF IInv, TypeOK, Stage, Status
  <2>2. /\ stage' \in [Conn -> Stage] /\ key' \in [Conn -> KeyId] /\ status' \in [Conn -> Status]
    BY <1>3, <2>1
  <2>3. ASSUME NEW d \in Conn
        PROVE  /\ items'[d] \in Jobs[d] \cup {<<>>}
               /\ at'[d] \in [DOMAIN items'[d] -> At]
               /\ out'[d] \in [DOMAIN items'[d] -> Result \cup Error \cup {"none"}]
    <3>1. CASE d \in R
      <4>1. items'[d] = <<>> /\ at'[d] = <<>> /\ out'[d] = <<>>
        BY <1>2, <3>1
      <4> QED
        BY <4>1, NoItems
    <3>2. CASE d \notin R
      BY <1>2, <3>2 DEF IInv, TypeOK
    <3> QED
      BY <3>1, <3>2
  <2> QED
    BY <1>4, <2>2, <2>3 DEF IInv, TypeOK
<1>6. Shape'
  BY <1>1, <1>3 DEF IInv, Shape
<1>7. Withdrawn'
  BY DEF IInv, Withdrawn
<1>8. ASSUME NEW d \in Conn
      PROVE  /\ stage'[d] # "reply" => status'[d] = "none"
             /\ stage'[d] = "reserve" => items'[d] # <<>>
             /\ d \in late' => key'[d] \in revoked
             /\ \A i \in DOMAIN items'[d] :
                  /\ stage'[d] \in {"auth", "limit", "decode", "reserve"} => at'[d][i] = "todo"
                  /\ at'[d][i] \in {"count", "call", "sent", "body", "store"} => items'[d][i] # Bad
                  /\ at'[d][i] = "store" => out'[d][i] \in Result
                  /\ out'[d][i] \in Result =>
                       items'[d][i] # Bad /\ out'[d][i] \in Given(answered', items'[d][i])
  <2>1. CASE d \in R
    BY <1>1, <1>2, <2>1, NoItems
  <2>2. CASE d \notin R
    BY <1>1, <1>2, <2>2 DEF IInv, Waiting, Evaluated, AnswersGiven
  <2> QED
    BY <2>1, <2>2
<1>9. Waiting' /\ Evaluated' /\ AnswersGiven'
  BY <1>4, <1>8 DEF Waiting, Evaluated, AnswersGiven
<1>10. LateIsRefused'
  BY <1>1, <1>2 DEF IInv, LateIsRefused, Shape
<1>11. UnitsCoverCalls'
  <2>1. \A j \in KeyId : /\ Workers(j, {"call"})' \subseteq Workers(j, {"call"})
                         /\ Workers(j, {"todo", "count"})' \subseteq Workers(j, {"todo", "count"})
    BY <1>2 DEF Workers
  <2> QED
    BY <1>1, <2>1, StillCovered DEF IInv, Shape
<1> QED
  BY <1>5, <1>6, <1>7, <1>9, <1>10, <1>11 DEF IInv

\* Lemma: a step that only concerns the store's records or the date.
LEMMA AroundInv ==
  ASSUME IInv, ledger' \in KeyMap, day' \in Day, revoked' \in SUBSET KeyId,
         revoked \subseteq revoked', Withdrawn',
         UNCHANGED <<cache, stage, request, work, status, late, answered, counts>>
  PROVE  IInv'
<1>1. UNCHANGED <<key, items, at, out, units, attempts, calls>>
  BY DEF request, work, counts
<1>2. TypeOK' /\ Shape'
  BY <1>1 DEF IInv, TypeOK, Shape
<1>3. Waiting' /\ Evaluated' /\ AnswersGiven' /\ LateIsRefused'
  BY <1>1 DEF IInv, Waiting, Evaluated, AnswersGiven, LateIsRefused
<1>4. UnitsCoverCalls'
  BY <1>1 DEF IInv, UnitsCoverCalls, Workers
<1> QED
  BY <1>2, <1>3, <1>4 DEF IInv

LEMMA RevokeInv ==
  ASSUME IInv, NEW k \in KeyId, Revoke(k)
  PROVE  IInv'
<1> DEFINE q == [op |-> "revoke", key |-> k, arg |-> 0]
<1>1. q \in Request /\ q.op = "revoke" /\ q.key = k
  BY DEF Request
<1>2. ledger' = Updated(q, ledger, day) /\ revoked' = revoked \cup {k}
  BY DEF Revoke
<1>3. /\ ledger' \in KeyMap /\ ledger'[k].status = "revoked"
      /\ \A j \in KeyId : ledger[j].status = "revoked" => ledger'[j].status = "revoked"
  BY <1>1, <1>2, LedgerFacts DEF IInv
<1>4. revoked' \in SUBSET KeyId /\ revoked \subseteq revoked' /\ Withdrawn'
  BY <1>2, <1>3 DEF IInv, Shape, Withdrawn
<1>5. day' \in Day
  BY DEF Revoke, IInv, TypeOK
<1> QED
  BY <1>3, <1>4, <1>5, AroundInv DEF Revoke

LEMMA TickInv ==
  ASSUME IInv, Tick
  PROVE  IInv'
<1>1. day' \in Day
  BY OpsAssumption DEF Tick, IInv, TypeOK, Day
<1>2. ledger' \in KeyMap /\ revoked' \in SUBSET KeyId /\ Withdrawn' /\ revoked \subseteq revoked'
  BY DEF Tick, history, IInv, TypeOK, Shape, Withdrawn
<1> QED
  BY <1>1, <1>2, AroundInv DEF Tick, history, counts
-----------------------------------------------------------------------------
(***************************************************************************)
(* The invariant and what follows from it.                                 *)
(***************************************************************************)
LEMMA InitInv == Init => IInv
<1> SUFFICES ASSUME Init PROVE IInv
  OBVIOUS
<1>1. (CHOOSE k \in KeyId : TRUE) \in KeyId
  BY OpsAssumption
<1>2. /\ \A d \in Conn : /\ items[d] = <<>> /\ at[d] = <<>> /\ out[d] = <<>>
                         /\ stage[d] = "idle" /\ status[d] = "none"
      /\ DOMAIN items = Conn /\ DOMAIN at = Conn /\ DOMAIN out = Conn
  BY DEF Init
<1>3. ledger \in KeyMap
  <2>1. Fresh \in Record /\ Absent \in Record
    BY OpsAssumption, ServiceAssumption DEF Fresh, Absent, Record
  <2> QED
    BY <2>1 DEF Init, KeyMap
<1>4. TypeOK
  <2>1. /\ day \in Day /\ cache \in [CacheKeys -> Result \cup {"none"}]
        /\ stage \in [Conn -> Stage] /\ key \in [Conn -> KeyId] /\ status \in [Conn -> Status]
    BY <1>1, OpsAssumption DEF Init, Day, Stage, Status
  <2> QED
    BY <1>2, <1>3, <2>1, NoItems DEF TypeOK
<1>5. Shape
  BY <1>2 DEF Init, Shape
<1>6. Withdrawn /\ Waiting /\ Evaluated /\ AnswersGiven /\ LateIsRefused
  BY <1>2, NoItems DEF Init, Withdrawn, Waiting, Evaluated, AnswersGiven, LateIsRefused, CacheKeys
<1>7. UnitsCoverCalls
  <2> SUFFICES ASSUME NEW k \in KeyId
               PROVE  /\ calls[k] + Cardinality(Workers(k, {"call"})) <= attempts[k]
                      /\ attempts[k] + Cardinality(Workers(k, {"todo", "count"})) <= units[k]
    BY DEF UnitsCoverCalls
  <2>1. Workers(k, {"call"}) = {} /\ Workers(k, {"todo", "count"}) = {}
    BY <1>2 DEF Workers
  <2>2. Cardinality(Workers(k, {"call"})) = 0 /\ Cardinality(Workers(k, {"todo", "count"})) = 0
    BY <2>1, FS_EmptySet
  <2>3. calls[k] = 0 /\ attempts[k] = 0 /\ units[k] = 0
    BY DEF Init
  <2> QED
    BY <2>2, <2>3
<1> QED
  BY <1>4, <1>5, <1>6, <1>7 DEF IInv

LEMMA NextInv == IInv /\ [Next]_vars => IInv'
<1> SUFFICES ASSUME IInv, [Next]_vars PROVE IInv'
  OBVIOUS
<1>1. ASSUME NEW r \in Conn, NEW k \in KeyId, NEW js \in Jobs[r] \cup {<<>>}, Arrive(r, k, js)
      PROVE  IInv'
  BY <1>1, ArriveInv
<1>2. ASSUME NEW r \in Conn, Gate(r)
      PROVE  IInv'
  BY <1>2, AuthenticateInv, AdmitInv, RefusalInv, ReserveInv, StoreFailsInv, RespondInv DEF Gate
<1>9. ASSUME NEW r \in Conn, Exchange(r)
      PROVE  IInv'
  <2>1. ASSUME Deliver(r) PROVE IInv'
    BY <2>1, ForgetInv DEF Deliver
  <2> QED
    BY <1>9, <2>1, DecodeInv, RefusalInv DEF Exchange
<1>3. ASSUME NEW r \in Conn, NEW i \in DOMAIN items[r], Local(r, i)
      PROVE  IInv'
  BY <1>3, LookupInv, CountInv, CountRefusedInv, CountFailsInv, SendInv, CallEndsInv, StoreInv
  DEF Local
<1>4. ASSUME NEW r \in Conn, NEW i \in DOMAIN items[r], Remote(r, i)
      PROVE  IInv'
  BY <1>4, HeaderInv, CallEndsInv, ReceiveInv DEF Remote
<1>5. ASSUME NEW k \in KeyId, Revoke(k) PROVE IInv'
  BY <1>5, RevokeInv
<1>6. CASE Tick
  BY <1>6, TickInv
<1>7. CASE Restart
  BY <1>7, ForgetInv DEF Restart
<1>8. CASE UNCHANGED vars
  <2>1. /\ UNCHANGED <<cache, stage, request, work, status, late, answered, counts>>
        /\ UNCHANGED <<ledger, day, revoked>>
    BY <1>8 DEF vars, history, request, work, counts
  <2>2. ledger' \in KeyMap /\ day' \in Day /\ revoked' \in SUBSET KeyId /\ Withdrawn'
    BY <2>1 DEF IInv, TypeOK, Shape, Withdrawn
  <2> QED
    BY <2>1, <2>2, AroundInv
<1> QED
  BY <1>1, <1>2, <1>3, <1>4, <1>5, <1>6, <1>7, <1>8, <1>9 DEF Next

\* Theorem: the inductive invariant holds in every reachable state.
THEOREM ServiceInvariance == Spec => []IInv
  BY InitInv, NextInv, PTL DEF Spec

\* Theorem: every variable of the server keeps its type.
THEOREM ServiceTypes == Spec => []TypeOK
<1>1. IInv => TypeOK
  BY DEF IInv
<1> QED
  BY <1>1, ServiceInvariance, PTL

\* Theorem: no call leaves unrecorded and no attempt is recorded without its
\* unit, over retries, crashes and midnight (service.go:122-126).
THEOREM CallsAreCovered == Spec => []UnitsCoverCalls
<1>1. IInv => UnitsCoverCalls
  BY DEF IInv
<1> QED
  BY <1>1, ServiceInvariance, PTL

\* Theorem: an item is answered with what the provider said of that very item,
\* and the cache keeps nothing else, unless its key is shared (service.go:75-79,
\* 91-95, 103-116, 167-170).
THEOREM AnswersBelong == Spec => []AnswersAreOwn
<1>1. ASSUME NEW f, NEW s \in Subject, Unmistakable(s) PROVE Given(f, s) = f[s]
  <2>1. s \in Evaluation /\ \A u \in Subject : u \in Evaluation
    BY ServiceAssumption
  <2>2. {u \in Subject : cacheKey(u) = cacheKey(s)} = {s}
    BY <1>1, <2>1, UniqueKey
  <2> QED
    BY <2>2 DEF Given
<1>2. ASSUME IInv PROVE AnswersAreOwn
  <2>1. ASSUME NEW r \in Conn, NEW i \in DOMAIN items[r], out[r][i] \in Result
        PROVE  /\ items[r][i] # Bad /\ items[r][i] \in Subject
               /\ out[r][i] \in Given(answered, items[r][i])
    BY <1>2, <2>1, ItemFacts
  <2> QED
    BY <1>1, <1>2, <2>1 DEF IInv, AnswersGiven, AnswersAreOwn
<1> QED
  BY <1>2, ServiceInvariance, PTL

\* Theorem: a request that arrives after its key's revocation was reported goes
\* no further than authentication (http.go:42-57).
THEOREM LateRequestsAreRefused == Spec => []LateIsRefused
<1>1. IInv => LateIsRefused
  BY DEF IInv
<1> QED
  BY <1>1, ServiceInvariance, PTL

-----------------------------------------------------------------------------
(***************************************************************************)
(* What a key can cost.                                                    *)
(***************************************************************************)
\* By day d, a key with record r has been charged u units: a limit for every day
\* that its record has left behind, and what is used of the day it is stamped
\* with.
Budget(r, u, d) ==
  /\ r.day <= d
  /\ r.status # "absent" => r.limit = DailyLimit
  /\ r.used <= DailyLimit
  /\ r.day = 0 => r.used = 0 /\ u = 0
  /\ r.day > 0 => u <= DailyLimit * (r.day - 1) + r.used

Budgeted == \A k \in KeyId : Budget(ledger[k], units[k], day)

\* Lemma: the limits of a stretch of days.
LEMMA Limits ==
  ASSUME NEW c \in Nat, NEW d \in Nat, c <= d
  PROVE  /\ DailyLimit * c \in Nat /\ DailyLimit * d \in Nat
         /\ DailyLimit * c <= DailyLimit * d
         /\ DailyLimit * (c - 1) + DailyLimit = DailyLimit * c
<1>1. DailyLimit \in Nat
  BY ServiceAssumption
<1>2. DailyLimit * d = DailyLimit * c + DailyLimit * (d - c)
  BY <1>1
<1>3. DailyLimit * (d - c) \in Nat
  <2>1. d - c \in Nat
    OBVIOUS
  <2> DEFINE e == d - c
  <2> HIDE DEF e
  <2>2. DailyLimit * e \in Nat
    BY <1>1, <2>1 DEF e
  <2> QED
    BY <2>2 DEF e
<1>4. DailyLimit * c \in Nat /\ DailyLimit * d \in Nat
  BY <1>1
<1>5. DailyLimit * (c - 1) + DailyLimit = DailyLimit * c
  BY <1>1
<1> QED
  BY <1>2, <1>3, <1>4, <1>5

\* Lemma: no more is charged by day d than d times the limit.
LEMMA BudgetBound ==
  ASSUME NEW r \in Record, NEW u \in Nat, NEW d \in Nat, Budget(r, u, d)
  PROVE  u <= DailyLimit * d
<1>1. r.day \in Nat /\ r.used \in Nat /\ DailyLimit \in Nat
  BY ServiceAssumption DEF Record
<1>2. CASE r.day = 0
  BY <1>1, <1>2, Limits DEF Budget
<1>3. CASE r.day > 0
  <2> DEFINE c == r.day
  <2>1. /\ c \in Nat /\ c <= d /\ r.used <= DailyLimit
        /\ u <= DailyLimit * (c - 1) + r.used
    BY <1>1, <1>3 DEF Budget
  <2> HIDE DEF c
  <2>2. /\ DailyLimit * c \in Nat /\ DailyLimit * d \in Nat
        /\ DailyLimit * c <= DailyLimit * d
        /\ DailyLimit * (c - 1) + DailyLimit = DailyLimit * c
    BY <2>1, Limits
  <2>3. c - 1 \in Int /\ DailyLimit * (c - 1) \in Int
    BY <1>1, <2>1
  <2> QED
    BY <1>1, <2>1, <2>2, <2>3
<1> QED
  BY <1>1, <1>2, <1>3

\* Lemma: what the first call of a day finds used, and what was charged before it.
LEMMA BudgetReset ==
  ASSUME NEW r \in Record, NEW u \in Nat, NEW d \in Day, Budget(r, u, d)
  PROVE  /\ Reset(r, d).used \in Nat /\ Reset(r, d).used <= DailyLimit
         /\ u <= DailyLimit * (d - 1) + Reset(r, d).used
<1>1. /\ DailyLimit \in Nat /\ d \in Nat /\ d > 0 /\ d - 1 \in Nat
      /\ Reset(r, d) \in Record
      /\ r.day \in Nat /\ r.used \in Nat
  BY ServiceAssumption, DayRange, ResetFacts DEF Record
<1>2. Reset(r, d).used \in Nat
  BY <1>1 DEF Record
<1>3. CASE r.day = d
  BY <1>1, <1>3, ResetFacts DEF Budget
<1>4. CASE r.day # d
  <2>1. Reset(r, d).used = 0
    BY <1>4, ResetFacts
  <2>2. r.day <= d - 1
    <3>1. \A a, e \in Nat : a <= e /\ a # e => a <= e - 1
      OBVIOUS
    <3> QED
      BY <1>1, <1>4, <3>1 DEF Budget
  <2>3. Budget(r, u, d - 1)
    BY <2>2 DEF Budget
  <2>4. u <= DailyLimit * (d - 1)
    BY <1>1, <2>3, BudgetBound
  <2>5. DailyLimit * (d - 1) \in Int
    BY <1>1
  <2> QED
    BY <1>1, <2>1, <2>4, <2>5
<1> QED
  BY <1>2, <1>3, <1>4

\* Lemma: what the store charges for a request stays within the budget.
LEMMA BudgetStep ==
  ASSUME NEW r \in Record, NEW u \in Nat, NEW d \in Day, Budget(r, u, d),
         NEW q \in Request, NEW n \in Nat,
         \/ q.op = "attempt" /\ n = 0
         \/ q.op = "revoke" /\ n = 0 /\ r.status # "absent"
         \/ q.op = "reserve" /\ n = q.arg /\ r.status # "absent" /\ Fits(r, n, d)
  PROVE  Budget(Written(q, r, d), u + n, d)
<1> DEFINE w == Written(q, r, d)
           b == Reset(r, d)
<1>1. /\ DailyLimit \in Nat /\ d \in Nat /\ d > 0 /\ DailyLimit * (d - 1) \in Int
      /\ b.used \in Nat /\ b.used <= DailyLimit
      /\ u <= DailyLimit * (d - 1) + b.used
  BY BudgetReset, ServiceAssumption, DayRange
<1>2. CASE q.op = "revoke"
  <2>1. w.limit = r.limit /\ w.day = r.day /\ w.used = r.used /\ u + n = u
    BY <1>2, RevokeFacts
  <2>2. w.limit = DailyLimit
    BY <1>2, <2>1 DEF Budget
  <2> HIDE DEF w
  <2> QED
    BY <2>1, <2>2 DEF Budget, w
<1>3. CASE q.op = "attempt"
  <2>1. /\ w.status = r.status /\ w.limit = r.limit /\ w.day = d
        /\ w.used = b.used /\ u + n = u
    BY <1>3, AttemptFacts
  <2> HIDE DEF w, b
  <2> QED
    BY <1>1, <2>1 DEF Budget, w
<1>4. CASE q.op = "reserve"
  <2>1. /\ w.status = r.status /\ w.limit = r.limit /\ w.day = d
        /\ w.used = b.used + n
    BY <1>4, ReserveFacts
  <2>2. r.limit = DailyLimit /\ n <= r.limit - b.used
    BY <1>4 DEF Budget, Fits
  <2> HIDE DEF w, b
  <2>3. b.used + n <= DailyLimit
    BY <1>1, <2>2
  <2>4. u + n <= DailyLimit * (d - 1) + (b.used + n)
    BY <1>1
  <2> QED
    BY <1>1, <2>1, <2>3, <2>4 DEF Budget, w
<1> QED
  BY <1>2, <1>3, <1>4

\* Lemma: one of the store's writes, and the n units it adds.
LEMMA BudgetKept ==
  ASSUME IInv, Budgeted, NEW q \in Request, NEW n \in Nat,
         q.op = "reserve" \/ (q.op \in {"revoke", "attempt"} /\ n = 0),
         q.op = "reserve" => n = q.arg,
         q.op \in {"reserve", "revoke"} => Verdict(q, ledger, day) = "ok",
         ledger' = Updated(q, ledger, day), day' = day,
         units' = [units EXCEPT ![q.key] = @ + n]
  PROVE  Budgeted'
<1>1. /\ ledger \in KeyMap /\ day \in Day /\ units \in [KeyId -> Nat]
      /\ q.key \in KeyId
  BY DEF IInv, TypeOK, Shape, Request
<1>2. /\ Updated(q, ledger, day)[q.key] = Written(q, ledger[q.key], day)
      /\ \A k \in KeyId \ {q.key} : Updated(q, ledger, day)[k] = ledger[k]
  BY <1>1, UpdatedFacts DEF Writes
<1>3. ASSUME NEW k \in KeyId, k # q.key
      PROVE  Budget(ledger'[k], units'[k], day')
  <2>1. ledger'[k] = ledger[k] /\ units'[k] = units[k]
    BY <1>1, <1>2, <1>3
  <2> QED
    BY <1>3, <2>1 DEF Budgeted
<1>4. Budget(ledger'[q.key], units'[q.key], day')
  <2> DEFINE r == ledger[q.key]
             u == units[q.key]
  <2>1. r \in Record /\ u \in Nat /\ Budget(r, u, day)
    BY <1>1 DEF KeyMap, Budgeted
  <2>2. /\ q.op = "reserve" => r.status # "absent" /\ Fits(r, q.arg, day)
        /\ q.op = "revoke" => r.status # "absent"
    BY DEF Verdict
  <2>3. ledger'[q.key] = Written(q, r, day) /\ units'[q.key] = u + n
    BY <1>1, <1>2
  <2> HIDE DEF r, u
  <2>4. Budget(Written(q, r, day), u + n, day)
    BY <1>1, <2>1, <2>2, BudgetStep
  <2> QED
    BY <2>3, <2>4
<1> QED
  BY <1>3, <1>4 DEF Budgeted

\* Lemma: every step stays within the budget of every key.
LEMMA BudgetNext ==
  ASSUME IInv, Budgeted, [Next]_vars
  PROVE  Budgeted'
<1>0. units \in [KeyId -> Nat] /\ day \in Nat
  BY DayRange DEF IInv, Shape, TypeOK
<1>1. ASSUME UNCHANGED <<ledger, day, units>> PROVE Budgeted'
  BY <1>1 DEF Budgeted
<1>2. ASSUME NEW r \in Conn, Reserve(r) \/ StoreFails(r)
      PROVE  Budgeted'
  <2> DEFINE n == Len(items[r])
             q == Ask("reserve", r, n)
  <2>1. n \in Nat
    BY JobSize DEF IInv, TypeOK
  <2>2. /\ day' = day
        /\ \/ UNCHANGED <<ledger, units>>
           \/ /\ Verdict(q, ledger, day) = "ok"
              /\ ledger' = Updated(q, ledger, day)
              /\ units' = [units EXCEPT ![key[r]] = @ + n]
    BY <1>2 DEF Reserve, StoreFails
  <2>3. q \in Request /\ q.op = "reserve" /\ q.key = key[r] /\ q.arg = n
    BY <2>1, AskFacts
  <2> HIDE DEF n, q
  <2>4. CASE UNCHANGED <<ledger, units>>
    BY <1>1, <2>2, <2>4
  <2>5. CASE /\ Verdict(q, ledger, day) = "ok"
             /\ ledger' = Updated(q, ledger, day)
             /\ units' = [units EXCEPT ![key[r]] = @ + n]
    <3>1. units' = [units EXCEPT ![q.key] = @ + n]
      BY <2>3, <2>5
    <3>2. q.op = "reserve" \/ (q.op \in {"revoke", "attempt"} /\ n = 0)
      BY <2>3
    <3> QED
      BY <2>1, <2>2, <2>3, <2>5, <3>1, <3>2, BudgetKept
  <2> QED
    BY <2>2, <2>4, <2>5
<1>3. ASSUME NEW r \in Conn, NEW i \in DOMAIN items[r], Count(r, i) \/ CountFails(r, i)
      PROVE  Budgeted'
  <2> DEFINE q == Ask("attempt", r, 0)
  <2>1. day' = day /\ UNCHANGED units /\ (UNCHANGED ledger \/ ledger' = Updated(q, ledger, day))
    BY <1>3 DEF Count, CountFails, frame
  <2>2. q \in Request /\ q.op = "attempt" /\ q.key = key[r] /\ key[r] \in KeyId
    BY AskFacts
  <2>3. units' = [units EXCEPT ![key[r]] = @ + 0]
    BY <1>0, <2>1, <2>2
  <2> HIDE DEF q
  <2> QED
    BY <1>1, <2>1, <2>2, <2>3, BudgetKept
<1>4. ASSUME NEW k \in KeyId, Revoke(k)
      PROVE  Budgeted'
  <2> DEFINE q == [op |-> "revoke", key |-> k, arg |-> 0]
  <2>1. day' = day /\ UNCHANGED units /\ ledger' = Updated(q, ledger, day)
    BY <1>4 DEF Revoke, counts
  <2>2. q \in Request /\ q.op = "revoke" /\ q.key = k
    BY DEF Request
  <2>3. units' = [units EXCEPT ![k] = @ + 0]
    BY <1>0, <2>1
  <2>4. Verdict(q, ledger, day) = "ok"
    BY <1>4 DEF Revoke, Verdict
  <2> HIDE DEF q
  <2> QED
    BY <2>1, <2>2, <2>3, <2>4, BudgetKept
<1>5. CASE Tick
  <2>1. day' = day + 1 /\ UNCHANGED <<ledger, units>>
    BY <1>5 DEF Tick, history, counts
  <2>2. ASSUME NEW k \in KeyId PROVE ledger[k].day <= day + 1
    <3>1. ledger[k].day \in Nat
      BY OpsAssumption DEF IInv, TypeOK, KeyMap, Record
    <3>2. ledger[k].day <= day
      BY DEF Budgeted, Budget
    <3> QED
      BY <1>0, <3>1, <3>2
  <2> QED
    BY <2>1, <2>2 DEF Budgeted, Budget
<1>6. ASSUME NEW r \in Conn, NEW i \in DOMAIN items[r],
             \/ Lookup(r, i) \/ CountRefused(r, i) \/ Send(r, i) \/ TimesOut(r, i) \/ Store(r, i)
             \/ Remote(r, i)
      PROVE  UNCHANGED <<ledger, day, units>>
  BY <1>6 DEF Lookup, CountRefused, Send, TimesOut, Store, Remote, Header, CallFails, Receive,
              history, counts, frame
<1>7. ASSUME NEW r \in Conn,
             \/ \E j \in KeyId, js \in Jobs[r] \cup {<<>>} : Arrive(r, j, js)
             \/ Authenticate(r) \/ Admit(r) \/ Throttle(r) \/ Refuse(r)
             \/ Respond(r) \/ Exchange(r)
      PROVE  UNCHANGED <<ledger, day, units>>
  BY <1>7 DEF Arrive, Authenticate, Admit, Throttle, Refuse, Respond, Exchange, Decode,
              Malformed, Deliver,
              history, counts
<1>8. CASE Restart \/ UNCHANGED vars
  BY <1>1, <1>8 DEF Restart, vars, history, counts
<1> QED
  BY <1>1, <1>2, <1>3, <1>4, <1>5, <1>6, <1>7, <1>8 DEF Next, Gate, Local

\* Lemma: at first nothing is charged.
LEMMA BudgetInit == Init => Budgeted
<1> SUFFICES ASSUME Init, NEW k \in KeyId PROVE Budget(ledger[k], units[k], day)
  BY DEF Budgeted
<1>1. ledger[k] \in {Fresh, Absent} /\ units[k] = 0 /\ day = 1
  BY DEF Init
<1>2. DailyLimit \in Nat
  BY ServiceAssumption
<1> QED
  BY <1>1, <1>2 DEF Budget, Fresh, Absent

\* Theorem: what a key can cost is its daily limit for every day, whatever its
\* requests, faults, revocations and restarts are (http.go:59-86,
\* store.go:149-156, 195, service.go:122-126).
THEOREM CallsStayInBudget == Spec => []QuotaCoversCalls
<1>1. ASSUME IInv, Budgeted PROVE QuotaCoversCalls
  <2> SUFFICES ASSUME NEW k \in KeyId PROVE calls[k] <= DailyLimit * day
    BY DEF QuotaCoversCalls
  <2>1. calls[k] \in Nat /\ attempts[k] \in Nat /\ units[k] \in Nat
    BY <1>1 DEF IInv, Shape
  <2>2. /\ calls[k] + Cardinality(Workers(k, {"call"})) <= attempts[k]
        /\ attempts[k] + Cardinality(Workers(k, {"todo", "count"})) <= units[k]
    BY <1>1 DEF IInv, UnitsCoverCalls
  <2>3. /\ Cardinality(Workers(k, {"call"})) \in Nat
        /\ Cardinality(Workers(k, {"todo", "count"})) \in Nat
    BY WorkersFinite
  <2>4. calls[k] <= units[k]
    <3> HIDE DEF Workers
    <3> QED
      BY <2>1, <2>2, <2>3
  <2>5. ledger[k] \in Record /\ day \in Nat /\ Budget(ledger[k], units[k], day)
    BY <1>1, DayRange DEF IInv, TypeOK, KeyMap, Budgeted
  <2>6. units[k] <= DailyLimit * day
    BY <2>1, <2>5, BudgetBound
  <2>7. DailyLimit * day \in Int
    BY <2>5, ServiceAssumption
  <2> QED
    BY <2>1, <2>4, <2>6, <2>7
<1>2. IInv /\ Budgeted /\ [Next]_vars => Budgeted'
  BY BudgetNext
<1> QED
  BY <1>1, <1>2, BudgetInit, ServiceInvariance, PTL DEF Spec

\* Lemma: only a key that the store finds active is charged.
LEMMA ChargeStep ==
  ASSUME IInv, [Next]_vars, NEW k \in revoked
  PROVE  units'[k] = units[k] /\ attempts'[k] = attempts[k]
<1>1. k \in KeyId
  BY DEF IInv, Shape
<1>2. ASSUME NEW r \in Conn, NEW n \in Nat, NEW f, NEW f2, f = [f2 EXCEPT ![key[r]] = @ + n],
             NEW o \in {"reserve", "attempt"}, NEW a \in Nat,
             Verdict(Ask(o, r, a), ledger, day) = "ok"
      PROVE  f[k] = f2[k]
  BY <1>1, <1>2, AskFacts
<1>3. ASSUME NEW r \in Conn, Reserve(r) \/ StoreFails(r)
      PROVE  units'[k] = units[k] /\ attempts'[k] = attempts[k]
  <2>1. Len(items[r]) \in Nat
    BY JobSize DEF IInv, TypeOK
  <2>2. \/ UNCHANGED units
        \/ /\ Verdict(Ask("reserve", r, Len(items[r])), ledger, day) = "ok"
           /\ units' = [units EXCEPT ![key[r]] = @ + Len(items[r])]
    BY <1>3 DEF Reserve, StoreFails
  <2>3. UNCHANGED attempts
    BY <1>3 DEF Reserve, StoreFails
  <2> QED
    BY <1>2, <2>1, <2>2, <2>3
<1>4. ASSUME NEW r \in Conn, NEW i \in DOMAIN items[r], Count(r, i) \/ CountFails(r, i)
      PROVE  units'[k] = units[k] /\ attempts'[k] = attempts[k]
  <2>1. \/ UNCHANGED attempts
        \/ /\ Verdict(Ask("attempt", r, 0), ledger, day) = "ok"
           /\ attempts' = [attempts EXCEPT ![key[r]] = @ + 1]
    BY <1>4 DEF Count, CountFails
  <2>2. UNCHANGED units
    BY <1>4 DEF Count, CountFails
  <2> QED
    BY <1>2, <2>1, <2>2
<1>5. ASSUME NEW r \in Conn, NEW i \in DOMAIN items[r],
             \/ Lookup(r, i) \/ CountRefused(r, i) \/ Send(r, i) \/ TimesOut(r, i) \/ Store(r, i)
             \/ Remote(r, i)
      PROVE  UNCHANGED <<units, attempts>>
  BY <1>5 DEF Lookup, CountRefused, Send, TimesOut, Store, Remote, Header, CallFails, Receive,
              history, counts
<1>6. ASSUME NEW r \in Conn,
             \/ \E j \in KeyId, js \in Jobs[r] \cup {<<>>} : Arrive(r, j, js)
             \/ Authenticate(r) \/ Admit(r) \/ Throttle(r) \/ Refuse(r)
             \/ Respond(r) \/ Exchange(r)
      PROVE  UNCHANGED <<units, attempts>>
  BY <1>6 DEF Arrive, Authenticate, Admit, Throttle, Refuse, Respond, Exchange, Decode,
              Malformed, Deliver,
              history, counts
<1>7. CASE (\E j \in KeyId : Revoke(j)) \/ Tick \/ Restart \/ UNCHANGED vars
  BY <1>7 DEF Revoke, Tick, Restart, vars, history, counts
<1> QED
  BY <1>3, <1>4, <1>5, <1>6, <1>7 DEF Next, Gate, Local

\* Theorem: once a revocation is reported, no unit and no attempt is charged to
\* its key, for requests under way either (store.go:190, 209).
THEOREM NoChargeOnceRevoked == Spec => RevocationStopsCharges
<1>1. IInv /\ [Next]_vars =>
        [\A k \in revoked : units'[k] = units[k] /\ attempts'[k] = attempts[k]]_vars
  BY ChargeStep
<1> QED
  BY <1>1, ServiceInvariance, PTL DEF Spec, RevocationStopsCharges
-----------------------------------------------------------------------------
(***************************************************************************)
(* The server implements its contract.                                     *)
(***************************************************************************)
\* Lemma: a handler that goes on to s.
LEMMA PhaseMoves ==
  ASSUME IInv, NEW r \in Conn, NEW s, stage' = [stage EXCEPT ![r] = s],
         NEW o, NEW p, o = Seen(stage[r]), p = Seen(s)
  PROVE  /\ Phase[r] = o
         /\ Phase' = [Phase EXCEPT ![r] = p]
<1>1. stage \in [Conn -> Stage]
  BY DEF IInv, TypeOK
<1>2. Phase = [d \in Conn |-> Seen(stage[d])] /\ Phase' = [d \in Conn |-> Seen(stage'[d])]
  BY DEF Phase
<1> QED
  BY <1>1, <1>2

\* Lemma: what the contract calls a refusal, an answer, and what it costs.
LEMMA SeenFacts ==
  /\ \A s \in {"auth", "limit", "decode", "reserve"} : Seen(s) = "open"
  /\ Seen("idle") = "idle" /\ Seen("work") = "charged" /\ Seen("reply") = "done"
  BY DEF Seen

\* Lemma: a step that the contract does not see.
LEMMA Unseen ==
  ASSUME IInv, NEW r \in Conn, NEW s, UNCHANGED <<key, items, status, units>>,
         \/ stage' = stage
         \/ stage' = [stage EXCEPT ![r] = s] /\ Seen(s) = Seen(stage[r])
  PROVE  UNCHANGED Contract!contract
<1>1. Phase' = Phase
  <2>1. CASE stage' = stage
    BY <2>1 DEF Phase
  <2>2. CASE stage' = [stage EXCEPT ![r] = s] /\ Seen(s) = Seen(stage[r])
    <3>1. Phase[r] = Seen(stage[r]) /\ Phase' = [Phase EXCEPT ![r] = Seen(s)]
      BY <2>2, PhaseMoves
    <3>2. Phase = [d \in Conn |-> Phase[d]]
      BY DEF Phase
    <3> QED
      BY <2>2, <3>1, <3>2
  <2> QED
    BY <2>1, <2>2
<1>2. Price' = Price
  BY DEF Price
<1> QED
  BY <1>1, <1>2 DEF Contract!contract

\* Lemma: an answer to a request that is not charged for.
LEMMA RefusalStep ==
  ASSUME IInv, NEW r \in Conn, NEW c \in {"401", "429_rate", "429_quota", "400"},
         stage[r] \in {"auth", "limit", "decode", "reserve"},
         stage' = [stage EXCEPT ![r] = "reply"], status' = [status EXCEPT ![r] = c],
         UNCHANGED <<key, items, units>>
  PROVE  Contract!Refuse(r)
<1>1. Phase[r] = "open" /\ Phase' = [Phase EXCEPT ![r] = "done"]
  <2>1. "open" = Seen(stage[r]) /\ "done" = Seen("reply")
    BY SeenFacts
  <2>2. Phase[r] = Seen(stage[r]) /\ Phase' = [Phase EXCEPT ![r] = Seen("reply")]
    BY PhaseMoves
  <2> QED
    BY <2>1, <2>2
<1>2. Price' = Price
  BY DEF Price
<1>3. Contract!Answer(r, c)
  BY <1>1 DEF Contract!Answer, Contract!Goto
<1> QED
  BY <1>1, <1>2, <1>3 DEF Contract!Refuse, Contract!Free

\* Lemma: a unit for each item.
LEMMA PayStep ==
  ASSUME NEW r \in Conn, units' = [units EXCEPT ![key[r]] = @ + Len(items[r])]
  PROVE  Contract!Pay(r)
  BY DEF Contract!Pay, Price

LEMMA ArriveStep ==
  ASSUME IInv, NEW r \in Conn, NEW k \in KeyId, NEW js \in Jobs[r] \cup {<<>>},
         Arrive(r, k, js)
  PROVE  Contract!Open(r, k, Len(js)) /\ Len(js) \in 0..MaxItems
<1>1. /\ stage[r] = "idle" /\ stage' = [stage EXCEPT ![r] = "auth"]
      /\ items' = [items EXCEPT ![r] = js] /\ key' = [key EXCEPT ![r] = k]
      /\ UNCHANGED <<status, units>>
  BY DEF Arrive, Enter, counts
<1>2. Phase[r] = "idle" /\ Phase' = [Phase EXCEPT ![r] = "open"]
  <2>1. "idle" = Seen(stage[r]) /\ "open" = Seen("auth")
    BY <1>1, SeenFacts
  <2>2. stage' = [stage EXCEPT ![r] = "auth"]
    BY <1>1
  <2> QED
    BY <2>1, <2>2, PhaseMoves
<1>3. Price' = [Price EXCEPT ![r] = Len(js)]
  BY <1>1 DEF Price, IInv, Shape
<1>4. Len(js) \in 0..MaxItems
  BY JobFacts
<1> QED
  BY <1>1, <1>2, <1>3, <1>4 DEF Contract!Open, Contract!Goto

LEMMA ReserveStep ==
  ASSUME IInv, NEW r \in Conn, Reserve(r)
  PROVE  Contract!Charge(r)
<1>1. /\ stage[r] = "reserve" /\ stage' = [stage EXCEPT ![r] = "work"]
      /\ units' = [units EXCEPT ![key[r]] = @ + Len(items[r])] /\ items[r] # <<>>
      /\ UNCHANGED <<key, items, status>>
  BY DEF Reserve, Enter, request, IInv, Waiting
<1>2. Phase[r] = "open" /\ Phase' = [Phase EXCEPT ![r] = "charged"]
  <2>1. "open" = Seen(stage[r]) /\ "charged" = Seen("work")
    BY <1>1, SeenFacts
  <2>2. stage' = [stage EXCEPT ![r] = "work"]
    BY <1>1
  <2> QED
    BY <2>1, <2>2, PhaseMoves
<1>3. Price[r] > 0
  <2>1. items[r] \in Seq(Subject \cup {Bad})
    BY JobFacts DEF IInv, TypeOK
  <2>2. Len(items[r]) > 0
    BY <1>1, <2>1
  <2> QED
    BY <2>2 DEF Price
<1>4. Price' = Price
  BY <1>1 DEF Price
<1>5. Contract!Pay(r)
  BY <1>1, PayStep
<1> QED
  BY <1>1, <1>2, <1>3, <1>4, <1>5 DEF Contract!Charge, Contract!Goto

LEMMA StoreFailsStep ==
  ASSUME IInv, NEW r \in Conn, StoreFails(r)
  PROVE  Contract!Fail(r)
<1>1. /\ stage[r] \in {"auth", "reserve"} /\ stage' = [stage EXCEPT ![r] = "reply"]
      /\ status' = [status EXCEPT ![r] = "503"]
      /\ UNCHANGED <<key, items>>
      /\ \/ UNCHANGED units
         \/ units' = [units EXCEPT ![key[r]] = @ + Len(items[r])]
  BY DEF StoreFails, Answer, Enter, request
<1>2. Phase[r] = "open" /\ Phase' = [Phase EXCEPT ![r] = "done"]
  <2>1. "open" = Seen(stage[r]) /\ "done" = Seen("reply")
    BY <1>1, SeenFacts
  <2>2. stage' = [stage EXCEPT ![r] = "reply"]
    BY <1>1
  <2> QED
    BY <2>1, <2>2, PhaseMoves
<1>3. Price' = Price
  BY <1>1 DEF Price
<1>4. UNCHANGED units \/ Contract!Pay(r)
  BY <1>1, PayStep
<1> QED
  BY <1>1, <1>2, <1>3, <1>4 DEF Contract!Fail, Contract!Answer, Contract!Goto

LEMMA RespondStep ==
  ASSUME IInv, NEW r \in Conn, Respond(r)
  PROVE  Contract!Respond(r)
<1>1. \A o : Code(o) \in {"200", "503", "invalid_item", "provider_timeout", "provider_error"}
  BY DEF Code, Error
<1>2. PICK c \in {"200", "503", "invalid_item", "provider_timeout", "provider_error"} :
        /\ stage' = [stage EXCEPT ![r] = "reply"]
        /\ status' = [status EXCEPT ![r] = c]
  BY <1>1 DEF Respond, Answer, Enter
<1>3. stage[r] = "work" /\ UNCHANGED <<key, items, units>>
  BY DEF Respond, request, history
<1>4. Phase[r] = "charged" /\ Phase' = [Phase EXCEPT ![r] = "done"]
  <2>1. "charged" = Seen(stage[r]) /\ "done" = Seen("reply")
    BY <1>2, <1>3, SeenFacts
  <2>2. stage' = [stage EXCEPT ![r] = "reply"]
    BY <1>2, <1>3
  <2> QED
    BY <2>1, <2>2, PhaseMoves
<1>5. Price' = Price
  BY <1>3 DEF Price
<1> QED
  BY <1>2, <1>3, <1>4, <1>5 DEF Contract!Respond, Contract!Answer, Contract!Goto, Contract!Paid

LEMMA ForgetStep ==
  ASSUME IInv, NEW R \in SUBSET Conn, Forget(R), UNCHANGED units
  PROVE  Contract!Forget(R)
<1>1. Phase' = [d \in Conn |-> IF d \in R THEN "idle" ELSE Phase[d]]
  BY SeenFacts DEF Forget, Phase
<1>2. Price' = [d \in Conn |-> IF d \in R THEN 0 ELSE Price[d]]
  <2>1. Len(<<>>) = 0
    OBVIOUS
  <2> QED
    BY <2>1 DEF Forget, Price
<1> QED
  BY <1>1, <1>2 DEF Contract!Forget, Forget

LEMMA GateStep ==
  ASSUME IInv, NEW r \in Conn, Gate(r) \/ Exchange(r)
  PROVE  Contract!Next \/ UNCHANGED Contract!contract
<1>1. ASSUME Contract!Refuse(r) \/ Contract!Charge(r) \/ Contract!Fail(r)
               \/ Contract!Respond(r) \/ Contract!Deliver(r)
      PROVE  Contract!Next
  BY <1>1 DEF Contract!Next
<1>2. CASE Authenticate(r)
  <2>1. stage[r] = "auth" /\ UNCHANGED <<key, items, units>>
    BY <1>2 DEF Authenticate, request, history
  <2>2. CASE stage' = [stage EXCEPT ![r] = "limit"] /\ UNCHANGED status
    <3>1. Seen("limit") = Seen(stage[r])
      BY <2>1, SeenFacts
    <3> QED
      BY <2>1, <2>2, <3>1, Unseen
  <2>3. CASE Answer(r, "401")
    BY <1>1, <2>1, <2>3, RefusalStep DEF Answer, Enter
  <2> QED
    BY <1>2, <2>2, <2>3 DEF Authenticate, Enter
<1>3. CASE Admit(r)
  <2>1. /\ stage[r] = "limit" /\ UNCHANGED <<key, items, status, units>>
        /\ stage' = [stage EXCEPT ![r] = "decode"]
    BY <1>3 DEF Admit, Enter, request, history
  <2>2. Seen("decode") = Seen(stage[r])
    BY <2>1, SeenFacts
  <2> QED
    BY <2>1, <2>2, Unseen
<1>7. CASE Decode(r)
  <2>1. /\ stage[r] = "decode" /\ UNCHANGED <<key, items, status, units>>
        /\ stage' = [stage EXCEPT ![r] = "reserve"]
    BY <1>7 DEF Decode, Enter, request, history
  <2>2. Seen("reserve") = Seen(stage[r])
    BY <2>1, SeenFacts
  <2> QED
    BY <2>1, <2>2, Unseen
<1>4. CASE Throttle(r) \/ Malformed(r) \/ Refuse(r)
  <2>1. stage[r] \in {"limit", "decode", "reserve"} /\ UNCHANGED <<key, items, units>>
    BY <1>4 DEF Throttle, Malformed, Refuse, request, history
  <2>2. PICK c \in {"401", "429_rate", "429_quota", "400"} : Answer(r, c)
    BY <1>4 DEF Throttle, Malformed, Refuse
  <2> QED
    BY <1>1, <2>1, <2>2, RefusalStep DEF Answer, Enter
<1>5. CASE Reserve(r) \/ StoreFails(r) \/ Respond(r)
  BY <1>1, <1>5, ReserveStep, StoreFailsStep, RespondStep
<1>6. CASE Deliver(r)
  <2>1. stage[r] = "reply" /\ Forget({r}) /\ UNCHANGED units
    BY <1>6 DEF Deliver, counts
  <2>2. Phase[r] = "done"
    BY <2>1, SeenFacts DEF Phase
  <2>3. Contract!Forget({r})
    BY <2>1, ForgetStep
  <2> QED
    BY <1>1, <2>2, <2>3 DEF Contract!Deliver
<1> QED
  BY <1>2, <1>3, <1>4, <1>5, <1>6, <1>7 DEF Gate, Exchange

LEMMA ContractStep ==
  ASSUME IInv, [Next]_vars
  PROVE  Contract!Next \/ UNCHANGED Contract!contract
<1>1. ASSUME NEW r \in Conn, NEW k \in KeyId, NEW js \in Jobs[r] \cup {<<>>}, Arrive(r, k, js)
      PROVE  Contract!Next
  <2>1. Contract!Open(r, k, Len(js)) /\ Len(js) \in 0..MaxItems
    BY <1>1, ArriveStep
  <2> QED
    BY <2>1 DEF Contract!Next
<1>2. ASSUME UNCHANGED <<stage, key, items, status, units>>
      PROVE  UNCHANGED Contract!contract
  BY <1>2 DEF Phase, Price, Contract!contract
<1>3. ASSUME NEW r \in Conn, NEW i \in DOMAIN items[r], Local(r, i) \/ Remote(r, i)
      PROVE  UNCHANGED Contract!contract
  <2>1. UNCHANGED <<frame, units>>
    BY <1>3 DEF Local, Remote, Lookup, Count, CountRefused, CountFails, Send, TimesOut, Store,
                Header, CallFails, Receive, history, counts
  <2> QED
    BY <1>2, <2>1 DEF frame, request
<1>4. CASE (\E k \in KeyId : Revoke(k)) \/ Tick \/ UNCHANGED vars
  <2>1. UNCHANGED <<stage, key, items, status, units>>
    BY <1>4 DEF Revoke, Tick, vars, history, counts, request
  <2> QED
    BY <1>2, <2>1
<1>5. CASE Restart
  <2>1. Contract!Forget(Conn)
    BY <1>5, ForgetStep DEF Restart, counts
  <2> QED
    BY <2>1 DEF Contract!Next, Contract!Die
<1> QED
  BY <1>1, <1>3, <1>4, <1>5, GateStep DEF Next

LEMMA ContractInit == Init => Contract!Init
<1> SUFFICES ASSUME Init PROVE Contract!Init
  OBVIOUS
<1>1. Phase = [d \in Conn |-> "idle"]
  BY SeenFacts DEF Init, Phase
<1>2. Price = [d \in Conn |-> 0]
  <2>1. Len(<<>>) = 0
    OBVIOUS
  <2> QED
    BY <2>1 DEF Init, Price
<1>3. key = [d \in Conn |-> CHOOSE k \in KeyId : TRUE]
  BY DEF Init
<1> QED
  BY <1>1, <1>2, <1>3 DEF Init, Contract!Init

\* Theorem: a refusal is free and an answer is paid for, once and in full,
\* whatever the store and the provider do and whenever the server is killed
\* (http.go:42-74, handler.go:59-150).
THEOREM ContractKept == Spec => ImplementsContract
<1>1. IInv /\ [Next]_vars => [Contract!Next]_(Contract!contract)
  BY ContractStep
<1> QED
  BY <1>1, ContractInit, ServiceInvariance, PTL DEF Spec, Contract!Spec, ImplementsContract
=============================================================================
