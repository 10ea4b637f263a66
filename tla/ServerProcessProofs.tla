------------------------ MODULE ServerProcessProofs ------------------------
(***************************************************************************)
(* What holds of the process for any number of requests, of items in a     *)
(* batch, and for every environment.                                       *)
(***************************************************************************)
EXTENDS ServerProcess, FiniteSetTheorems, TLAPS

-----------------------------------------------------------------------------
(***************************************************************************)
(* Counting items.                                                         *)
(***************************************************************************)
\* Lemma: there are finitely many items, so those in some places can be counted.
LEMMA InFinite ==
  ASSUME NEW P
  PROVE  IsFiniteSet({e \in Item : at[e] \in P}) /\ In(P) \in Nat
<1>1. IsFiniteSet(Item)
  <2>1. IsFiniteSet(Conn) /\ IsFiniteSet(1..MaxItems)
    BY ProcessAssumption, FS_Interval DEF ProcessAssumption
  <2> QED
    BY <2>1, FS_Product DEF Item
<1>2. {e \in Item : at[e] \in P} \in SUBSET Item
  OBVIOUS
<1>3. IsFiniteSet({e \in Item : at[e] \in P})
  BY <1>1, <1>2, FS_Subset
<1> QED
  BY <1>3, FS_CardinalityType DEF In

\* Lemma: the count when item e moves from p to q.
LEMMA InMoved ==
  ASSUME NEW P, NEW e \in Item, NEW q, at \in [Item -> At], Move(e, q)
  PROVE  /\ In(P)' \in Nat
         /\ In(P)' = IF at[e] \in P
                     THEN IF q \in P THEN In(P) ELSE In(P) - 1
                     ELSE IF q \in P THEN In(P) + 1 ELSE In(P)
<1> DEFINE S == {i \in Item : at[i] \in P}
           T == {i \in Item : at'[i] \in P}
<1>1. at' = [at EXCEPT ![e] = q]
  BY DEF Move
<1>2. IsFiniteSet(S) /\ In(P) = Cardinality(S) /\ In(P)' = Cardinality(T)
  BY InFinite DEF In
<1>3. e \in S <=> at[e] \in P
  OBVIOUS
<1>4. CASE q \in P
  <2>1. T = S \cup {e}
    BY <1>1, <1>4
  <2> HIDE DEF S, T
  <2>2. IsFiniteSet(T)
    BY <1>2, <2>1, FS_AddElement
  <2>3. Cardinality(T) \in Nat
    BY <2>2, FS_CardinalityType
  <2> QED
    BY <1>2, <1>3, <1>4, <2>1, <2>3, FS_AddElement
<1>5. CASE q \notin P
  <2>1. T = S \ {e}
    BY <1>1, <1>5
  <2> HIDE DEF S, T
  <2>2. IsFiniteSet(T)
    BY <1>2, <2>1, FS_RemoveElement
  <2>3. Cardinality(T) \in Nat
    BY <2>2, FS_CardinalityType
  <2> QED
    BY <1>2, <1>3, <1>5, <2>1, <2>3, FS_RemoveElement
<1> QED
  BY <1>4, <1>5

\* Lemma: the count when no item comes in.
LEMMA InFewer ==
  ASSUME NEW P, \A e \in Item : at'[e] \in P => at[e] \in P
  PROVE  In(P)' \in Nat /\ In(P)' <= In(P)
<1> DEFINE S == {i \in Item : at[i] \in P}
           T == {i \in Item : at'[i] \in P}
<1>1. IsFiniteSet(S) /\ In(P) = Cardinality(S) /\ In(P)' = Cardinality(T)
  BY InFinite DEF In
<1>2. T \in SUBSET S
  OBVIOUS
<1> QED
  BY <1>1, <1>2, FS_Subset, FS_CardinalityType

Pending == {"attempt", "call", "failed", "answered"}

-----------------------------------------------------------------------------
(***************************************************************************)
(* The steps.                                                              *)
(***************************************************************************)
LEMMA NoCount ==
  /\ NoCounts \in [Counter -> Nat]
  /\ NoCounts.jevRequests = 0 /\ NoCounts.jevErrors = 0
  /\ NoCounts.cacheMisses = 0
BY DEF NoCounts, Counter

LEMMA InitInv == Init => IInv
<1> SUFFICES ASSUME Init PROVE IInv
  OBVIOUS
<1>1. TypeOK
  <2>1. 0 \in 0..5
    OBVIOUS
  <2>2. loaded \in [Conn -> 0..5]
    BY <2>1 DEF Init
  <2>3. snap \in [Conn -> [Counter -> Nat]] /\ metrics \in [Counter -> Nat]
    BY NoCount DEF Init
  <2>4. \A e \in Item : at[e] = "none"
    BY DEF Init
  <2> QED
    BY <2>2, <2>3, <2>4 DEF Init, TypeOK, Main, Stage, Token, At
<1>2. \A P : "none" \notin P => In(P) = 0
  <2> SUFFICES ASSUME NEW P, "none" \notin P PROVE In(P) = 0
    OBVIOUS
  <2>1. {e \in Item : at[e] \in P} = {}
    BY DEF Init
  <2> QED
    BY <2>1, FS_EmptySet DEF In
<1>3. Balance
  <2>1. In({"attempt", "call", "failed", "answered"}) = 0 /\ In({"error"}) = 0
    BY <1>2
  <2>2. metrics = NoCounts
    BY DEF Init
  <2> QED
    BY <2>1, <2>2, NoCount DEF Balance
<1>4. ASSUME NEW c \in Conn PROVE loaded[c] = 0 /\ snap[c] = NoCounts
  BY DEF Init
<1>5. Scrapes /\ ScrapeAgrees
  <2>1. metrics = NoCounts
    BY DEF Init
  <2>2. Scrapes
    BY <1>4, <2>1, NoCount DEF Scrapes
  <2>3. ScrapeAgrees
    BY <1>4 DEF ScrapeAgrees
  <2> QED
    BY <2>2, <2>3
<1>6. Configured /\ OnlyConfiguredTokens
  BY DEF Init, Configured, OnlyConfiguredTokens
<1> QED
  BY <1>1, <1>3, <1>5, <1>6 DEF IInv

\* The end of the process leaves nothing behind.
LEMMA ExitInv ==
  ASSUME IInv, NEW how \in {"0", "1", "killed"}, Exit(how),
         UNCHANGED <<env, signalled, closing>>
  PROVE  IInv'
<1>1. /\ main' = "exited" /\ exit' = how
      /\ stage' = [c \in Conn |-> "idle"]
      /\ token' = [c \in Conn |-> ""]
      /\ at' = [e \in Item |-> "none"]
      /\ stored' = FALSE /\ metrics' = NoCounts
      /\ snap' = [c \in Conn |-> NoCounts]
      /\ loaded' = [c \in Conn |-> 0]
  BY DEF Exit
<1>2. TypeOK'
  <2>1. 0 \in 0..5
    OBVIOUS
  <2>2. loaded' \in [Conn -> 0..5]
    BY <1>1, <2>1
  <2>3. snap' \in [Conn -> [Counter -> Nat]] /\ metrics' \in [Counter -> Nat]
    BY <1>1, NoCount
  <2>4. \A e \in Item : at'[e] = "none"
    BY <1>1
  <2> QED
    BY <1>1, <2>2, <2>3, <2>4 DEF IInv, TypeOK, Main, Stage, Token, At
<1>3. \A P : "none" \notin P => In(P)' = 0
  <2> SUFFICES ASSUME NEW P, "none" \notin P PROVE In(P)' = 0
    OBVIOUS
  <2>1. {e \in Item : at'[e] \in P} = {}
    BY <1>1
  <2> QED
    BY <2>1, FS_EmptySet DEF In
<1>4. Balance'
  <2>1. /\ In({"attempt", "call", "failed", "answered"})' = 0
        /\ In({"error"})' = 0
    BY <1>3
  <2>2. metrics' = NoCounts
    BY <1>1
  <2> QED
    BY <2>1, <2>2, NoCount DEF Balance
<1>5. ASSUME NEW c \in Conn PROVE loaded'[c] = 0 /\ snap'[c] = NoCounts
  BY <1>1
<1>6. Scrapes' /\ ScrapeAgrees'
  <2>1. metrics' = NoCounts
    BY <1>1
  <2>2. Scrapes'
    BY <1>5, <2>1, NoCount DEF Scrapes
  <2>3. ScrapeAgrees'
    BY <1>5 DEF ScrapeAgrees
  <2> QED
    BY <2>2, <2>3
<1>7. Configured' /\ OnlyConfiguredTokens'
  BY <1>1 DEF Configured, OnlyConfiguredTokens
<1> QED
  BY <1>2, <1>4, <1>6, <1>7 DEF IInv

\* Lemma: the way the server runs is settled by its environment.
LEMMA Modes ==
  ASSUME env \in Env
  PROVE  /\ Mode = "keys" => env.docsOnly = "" /\ env.file = "file"
         /\ Mode = "shared" =>
              env.docsOnly = "" /\ env.file = "" /\ env.shared = "shared"
         /\ Mode \in {"refused", "docs", "shared", "keys"}
BY DEF Env, Mode

\* Steps of main that end nothing touch neither requests nor counters.
LEMMA MainInv ==
  ASSUME IInv,
         \/ Start \/ Notify \/ Listen \/ Bind \/ ServeReturns \/ Shutdown
         \/ Signal /\ UNCHANGED main
  PROVE  IInv'
<1>1. /\ UNCHANGED <<env, exit, requests>>
      /\ main' \in Main \ {"load", "exited"}
      /\ main = "load" => Mode # "refused"
      /\ main # "exited"
      /\ signalled' \in BOOLEAN /\ closing' \in BOOLEAN
  BY DEF Start, Notify, Listen, Bind, ServeReturns, Shutdown, Signal, Exit, Goto,
         Main, IInv, TypeOK
<1>2. /\ UNCHANGED <<stage, token, at, stored, metrics, snap, loaded>>
  BY <1>1 DEF requests, scrape
<1>3. TypeOK'
  BY <1>1, <1>2 DEF IInv, TypeOK
<1>4. Balance' /\ Scrapes' /\ ScrapeAgrees' /\ OnlyConfiguredTokens'
  BY <1>1, <1>2
  DEF IInv, Balance, In, Scrapes, ScrapeAgrees, OnlyConfiguredTokens
<1>5. Configured'
  BY <1>1, <1>2 DEF IInv, Configured, Mode
<1> QED
  BY <1>3, <1>4, <1>5 DEF IInv

\* Lemma: a request that goes on, or is taken by a server that serves, leaves
\* the configuration it was taken under.
LEMMA StageInv ==
  ASSUME IInv, NEW c \in Conn, NEW s \in Stage, Enter(c, s), UNCHANGED process,
         \/ s = "idle" \/ (s # "gate" /\ stage[c] # "idle")
         \/ main = "serve" /\ (s = "gate" => Mode # "docs")
  PROVE  Configured' /\ stage' \in [Conn -> Stage]
<1>1. stage' = [stage EXCEPT ![c] = s] /\ stage \in [Conn -> Stage]
  BY DEF Enter, IInv, TypeOK
<1>2. UNCHANGED <<env, main>> /\ Mode' = Mode
  BY DEF process, Mode
<1>3. main \notin {"load", "exited"} => Mode # "refused"
  BY DEF IInv, Configured
<1>4. ASSUME NEW d \in Conn, stage'[d] # "idle"
      PROVE  main \notin {"load", "exited"} /\ (stage'[d] = "gate" => Mode # "docs")
  <2>1. CASE d # c
    BY <1>1, <1>4, <2>1 DEF IInv, Configured
  <2>2. CASE d = c
    BY <1>1, <1>4, <2>2 DEF IInv, Configured
  <2> QED
    BY <2>1, <2>2
<1> QED
  BY <1>1, <1>2, <1>3, <1>4 DEF Configured

\* Lemma: an item that goes on, from one place to another, only has to keep the
\* balance of the counters.
LEMMA ItemInv ==
  ASSUME IInv, NEW e \in Item, NEW q \in At \ {"none"}, at[e] # "none", Move(e, q),
         UNCHANGED itemFrame, stored' \in BOOLEAN,
         metrics' \in [Counter -> Nat], metrics'.cacheMisses >= metrics.cacheMisses,
         Balance'
  PROVE  IInv'
<1>1. /\ UNCHANGED <<env, main, exit, signalled, closing, stage, token, snap, loaded>>
      /\ at' = [at EXCEPT ![e] = q] /\ at \in [Item -> At]
  BY DEF itemFrame, process, scrape, Move, IInv, TypeOK
<1>2. ASSUME NEW d \in Item PROVE at'[d] # "none" <=> at[d] # "none"
  BY <1>1
<1>3. TypeOK'
  BY <1>1, <1>2 DEF IInv, TypeOK
<1>4. OnlyConfiguredTokens'
  BY <1>1, <1>2 DEF IInv, OnlyConfiguredTokens
<1>5. Configured' /\ ScrapeAgrees'
  BY <1>1 DEF IInv, Configured, Mode, ScrapeAgrees
<1>6. Scrapes'
  <2> SUFFICES ASSUME NEW c \in Conn, loaded[c] < 5
               PROVE  /\ snap[c].jevRequests <= metrics'.cacheMisses
                      /\ snap[c].jevErrors <= metrics'.cacheMisses
    BY <1>1 DEF Scrapes
  <2>1. /\ snap[c].jevRequests <= metrics.cacheMisses
        /\ snap[c].jevErrors <= metrics.cacheMisses
    BY DEF IInv, Scrapes
  <2>2. /\ snap[c].jevRequests \in Nat /\ snap[c].jevErrors \in Nat
        /\ metrics.cacheMisses \in Nat /\ metrics'.cacheMisses \in Nat
    BY DEF IInv, TypeOK, Counter
  <2> QED
    BY <2>1, <2>2
<1> QED
  BY <1>3, <1>4, <1>5, <1>6 DEF IInv

\* Lemma: adding one to a counter.
LEMMA Added ==
  ASSUME TypeOK, NEW x \in Counter, Add(x)
  PROVE  /\ metrics' \in [Counter -> Nat] /\ metrics'[x] = metrics[x] + 1
         /\ \A y \in Counter \ {x} : metrics'[y] = metrics[y]
BY DEF TypeOK, Add

\* Lemma: the counters are numbers.
LEMMA Numbers ==
  ASSUME TypeOK
  PROVE  /\ metrics["jevRequests"] \in Nat /\ metrics["jevErrors"] \in Nat
         /\ metrics["cacheMisses"] \in Nat
BY DEF TypeOK, Counter

\* Each step of an item keeps the balance: a miss is counted before its call,
\* and a call before its error.
LEMMA EvaluateInv ==
  ASSUME IInv, NEW e \in Item, Evaluate(e)
  PROVE  IInv'
<1> DEFINE Error == {"error"}
<1>1. TypeOK /\ Balance /\ at \in [Item -> At] /\ stored \in BOOLEAN
  BY DEF IInv, TypeOK
<1>2. In(Pending) \in Nat /\ In(Error) \in Nat
  BY InFinite
<1>3. /\ metrics["jevRequests"] + In(Pending) <= metrics["cacheMisses"]
      /\ metrics["jevErrors"] + In(Error) <= metrics["jevRequests"]
  BY <1>1 DEF Balance, Pending
<1>4. ASSUME metrics'["jevRequests"] + In(Pending)' <= metrics'["cacheMisses"],
             metrics'["jevErrors"] + In(Error)' <= metrics'["jevRequests"]
      PROVE  Balance'
  BY <1>4 DEF Balance, Pending
<1>5. ASSUME NEW q \in At, Move(e, q)
      PROVE  /\ In(Pending)' \in Nat /\ In(Error)' \in Nat
             /\ In(Pending)' = IF at[e] \in Pending
                               THEN IF q \in Pending THEN In(Pending) ELSE In(Pending) - 1
                               ELSE IF q \in Pending THEN In(Pending) + 1 ELSE In(Pending)
             /\ In(Error)' = IF at[e] \in Error
                             THEN IF q \in Error THEN In(Error) ELSE In(Error) - 1
                             ELSE IF q \in Error THEN In(Error) + 1 ELSE In(Error)
  BY <1>1, <1>5, InMoved
<1> HIDE DEF Error
<1>6. ASSUME NEW q \in At \ {"none", "error"}, Move(e, q),
             at[e] \notin {"none", "error"}, q \in Pending => at[e] \in Pending,
             UNCHANGED itemFrame, UNCHANGED metrics, stored' \in BOOLEAN
      PROVE  IInv'
  <2>1. In(Pending)' \in Nat /\ In(Pending)' <= In(Pending) /\ In(Error)' = In(Error)
    BY <1>2, <1>5, <1>6 DEF Error, At
  <2>2. metrics' = metrics
    BY <1>6
  <2>3. Balance'
    <3>1. /\ metrics'["jevRequests"] + In(Pending)' <= metrics'["cacheMisses"]
          /\ metrics'["jevErrors"] + In(Error)' <= metrics'["jevRequests"]
      BY <1>1, <1>2, <1>3, <2>1, <2>2, Numbers
    <3> QED
      BY <1>4, <3>1
  <2>4. metrics' \in [Counter -> Nat] /\ metrics'.cacheMisses >= metrics.cacheMisses
    BY <1>1, <2>2, Numbers DEF TypeOK
  <2> QED
    BY <1>6, <2>3, <2>4, ItemInv
<1>7. CASE Get(e)
  <2>1. PICK q \in {"done", "miss", "hit"} : Move(e, q)
    BY <1>7 DEF Get
  <2> QED
    BY <1>1, <1>6, <1>7, <2>1 DEF Get, At, Pending
<1>8. CASE Attempt(e)
  <2>1. PICK q \in {"call", "done"} : Move(e, q)
    BY <1>8 DEF Attempt
  <2> QED
    BY <1>1, <1>6, <1>8, <2>1 DEF Attempt, At, Pending
<1>9. CASE Do(e)
  <2>1. PICK q \in {"failed", "answered", "done"} : Move(e, q)
    BY <1>9 DEF Do
  <2> QED
    BY <1>1, <1>6, <1>9, <2>1 DEF Do, At, Pending
<1>10. CASE Read(e)
  BY <1>1, <1>6, <1>10 DEF Read, At, Pending
<1>11. CASE CountHit(e)
  <2>1. /\ at[e] = "hit" /\ Move(e, "done") /\ Add("cacheHits")
        /\ UNCHANGED <<itemFrame, stored>>
    BY <1>11 DEF CountHit
  <2>2. In(Pending)' = In(Pending) /\ In(Error)' = In(Error)
    BY <1>5, <2>1 DEF Pending, Error, At
  <2>3. /\ metrics' \in [Counter -> Nat]
        /\ metrics'["jevRequests"] = metrics["jevRequests"]
        /\ metrics'["jevErrors"] = metrics["jevErrors"]
        /\ metrics'["cacheMisses"] = metrics["cacheMisses"]
    BY <1>1, <2>1, Added DEF Counter
  <2>4. Balance'
    BY <1>3, <1>4, <2>2, <2>3
  <2>5. metrics'.cacheMisses >= metrics.cacheMisses
    BY <1>1, <2>3, Numbers
  <2> QED
    BY <1>1, <2>1, <2>3, <2>4, <2>5, ItemInv DEF At
<1>12. CASE CountMiss(e)
  <2>1. /\ at[e] = "miss" /\ Move(e, "attempt") /\ Add("cacheMisses")
        /\ UNCHANGED <<itemFrame, stored>>
    BY <1>12 DEF CountMiss
  <2>2. In(Pending)' = In(Pending) + 1 /\ In(Error)' = In(Error)
    BY <1>5, <2>1 DEF Pending, Error, At
  <2>3. /\ metrics' \in [Counter -> Nat]
        /\ metrics'["jevRequests"] = metrics["jevRequests"]
        /\ metrics'["jevErrors"] = metrics["jevErrors"]
        /\ metrics'["cacheMisses"] = metrics["cacheMisses"] + 1
    BY <1>1, <2>1, Added DEF Counter
  <2>4. Balance'
    <3>1. /\ metrics'["jevRequests"] + In(Pending)' <= metrics'["cacheMisses"]
          /\ metrics'["jevErrors"] + In(Error)' <= metrics'["jevRequests"]
      BY <1>1, <1>2, <1>3, <2>2, <2>3, Numbers
    <3> QED
      BY <1>4, <3>1
  <2>5. metrics'.cacheMisses >= metrics.cacheMisses
    BY <1>1, <2>3, Numbers
  <2> QED
    BY <1>1, <2>1, <2>3, <2>4, <2>5, ItemInv DEF At
<1>13. CASE CountCall(e)
  <2> DEFINE q == IF at[e] = "failed" THEN "error" ELSE "read"
  <2>1. /\ at[e] \in {"failed", "answered"} /\ Move(e, q) /\ Add("jevRequests")
        /\ UNCHANGED <<itemFrame, stored>>
    BY <1>13 DEF CountCall
  <2>2. /\ In(Pending)' = In(Pending) - 1
        /\ In(Error)' \in {In(Error), In(Error) + 1}
    BY <1>5, <2>1 DEF Pending, Error, At
  <2>3. /\ metrics' \in [Counter -> Nat]
        /\ metrics'["jevRequests"] = metrics["jevRequests"] + 1
        /\ metrics'["jevErrors"] = metrics["jevErrors"]
        /\ metrics'["cacheMisses"] = metrics["cacheMisses"]
    BY <1>1, <2>1, Added DEF Counter
  <2>4. Balance'
    <3>1. /\ metrics'["jevRequests"] + In(Pending)' <= metrics'["cacheMisses"]
          /\ metrics'["jevErrors"] + In(Error)' <= metrics'["jevRequests"]
      BY <1>1, <1>2, <1>3, <2>2, <2>3, Numbers
    <3> QED
      BY <1>4, <3>1
  <2>5. metrics'.cacheMisses >= metrics.cacheMisses
    BY <1>1, <2>3, Numbers
  <2> QED
    BY <1>1, <2>1, <2>3, <2>4, <2>5, ItemInv DEF At
<1>14. CASE CountError(e)
  <2>1. /\ at[e] = "error" /\ Move(e, "done") /\ Add("jevErrors")
        /\ UNCHANGED <<itemFrame, stored>>
    BY <1>14 DEF CountError
  <2>2. In(Pending)' = In(Pending) /\ In(Error)' = In(Error) - 1
    BY <1>5, <2>1 DEF Pending, Error, At
  <2>3. /\ metrics' \in [Counter -> Nat]
        /\ metrics'["jevRequests"] = metrics["jevRequests"]
        /\ metrics'["jevErrors"] = metrics["jevErrors"] + 1
        /\ metrics'["cacheMisses"] = metrics["cacheMisses"]
    BY <1>1, <2>1, Added DEF Counter
  <2>4. Balance'
    <3>1. /\ metrics'["jevRequests"] + In(Pending)' <= metrics'["cacheMisses"]
          /\ metrics'["jevErrors"] + In(Error)' <= metrics'["jevRequests"]
      BY <1>1, <1>2, <1>3, <2>2, <2>3, Numbers
    <3> QED
      BY <1>4, <3>1
  <2>5. metrics'.cacheMisses >= metrics.cacheMisses
    BY <1>1, <2>3, Numbers
  <2> QED
    BY <1>1, <2>1, <2>3, <2>4, <2>5, ItemInv DEF At
<1> QED
  BY <1>7, <1>8, <1>9, <1>10, <1>11, <1>12, <1>13, <1>14 DEF Evaluate

\* Each step of a handler: what it does to its request's place, items and token
\* keeps the rest of the invariant, and so does each load of a scrape.
LEMMA AcceptInv ==
  ASSUME IInv, NEW c \in Conn, NEW path \in {"metrics", "page", "v1"},
         NEW t \in Token, Accept(c, path, t)
  PROVE  IInv'
<1>1. /\ main = "serve" /\ stage[c] = "idle"
      /\ Enter(c, Route(path)) /\ token' = [token EXCEPT ![c] = t]
      /\ UNCHANGED <<process, at, stored, metrics, scrape>>
  BY DEF Accept
<1>2. UNCHANGED <<env, main, exit, signalled, closing, at, stored, metrics, snap, loaded>>
  BY <1>1 DEF process, scrape
<1>3. Route(path) \in Stage /\ (Route(path) = "gate" => Mode # "docs")
  BY DEF Route, Stage
<1>4. Configured' /\ stage' \in [Conn -> Stage]
  BY <1>1, <1>3, StageInv
<1>5. ASSUME NEW e \in Item, at[e] # "none"
      PROVE  stage'[e[1]] = stage[e[1]] /\ token'[e[1]] = token[e[1]]
  BY <1>1, <1>5 DEF IInv, TypeOK, Item, Enter
<1>6. TypeOK'
  <2>1. token' \in [Conn -> Token]
    BY <1>1 DEF IInv, TypeOK
  <2> QED
    BY <1>2, <1>4, <1>5, <2>1 DEF IInv, TypeOK
<1>7. OnlyConfiguredTokens'
  BY <1>2, <1>5 DEF IInv, OnlyConfiguredTokens
<1>8. Balance' /\ Scrapes' /\ ScrapeAgrees'
  BY <1>2 DEF IInv, Balance, In, Scrapes, ScrapeAgrees
<1> QED
  BY <1>4, <1>6, <1>7, <1>8 DEF IInv

\* Lemma: a handler that is done, with nothing left of its items.
LEMMA FinishInv ==
  ASSUME IInv, NEW c \in Conn, stage[c] # "idle", Finish(c),
         UNCHANGED <<process, stored, metrics>>,
         at' = [e \in Item |-> IF e[1] = c THEN "none" ELSE at[e]],
         \/ UNCHANGED scrape
         \/ /\ snap' = [snap EXCEPT ![c] = NoCounts]
            /\ loaded' = [loaded EXCEPT ![c] = 0]
  PROVE  IInv'
<1>1. /\ UNCHANGED <<env, main, exit, signalled, closing, stored, metrics>>
      /\ Enter(c, "observe") /\ token' = [token EXCEPT ![c] = ""]
  BY DEF process, Finish
<1>2. Configured' /\ stage' \in [Conn -> Stage]
  BY <1>1, StageInv DEF Stage
<1>3. ASSUME NEW e \in Item, at'[e] # "none"
      PROVE  /\ stage'[e[1]] = stage[e[1]] /\ token'[e[1]] = token[e[1]]
             /\ at'[e] = at[e]
  BY <1>1, <1>3 DEF IInv, TypeOK, Item, Enter
<1>4. ASSUME NEW d \in Conn
      PROVE  \/ loaded'[d] = loaded[d] /\ snap'[d] = snap[d]
             \/ loaded'[d] = 0 /\ snap'[d] = NoCounts
  <2>1. snap \in [Conn -> [Counter -> Nat]] /\ loaded \in [Conn -> 0..5]
    BY DEF IInv, TypeOK
  <2>2. CASE UNCHANGED scrape
    BY <2>2 DEF scrape
  <2>3. CASE d = c /\ ~ UNCHANGED scrape
    BY <2>1, <2>3
  <2>4. CASE d # c /\ ~ UNCHANGED scrape
    BY <2>1, <2>4
  <2> QED
    BY <2>2, <2>3, <2>4
<1>5. TypeOK'
  <2>1. token' \in [Conn -> Token] /\ at' \in [Item -> At]
    BY <1>1 DEF IInv, TypeOK, Token, At
  <2>2. 0 \in 0..5 /\ NoCounts \in [Counter -> Nat]
    BY NoCount
  <2>3. snap' \in [Conn -> [Counter -> Nat]] /\ loaded' \in [Conn -> 0..5]
    BY <2>2 DEF IInv, TypeOK, scrape
  <2>4. \A e \in Item : at'[e] # "none" => stage'[e[1]] = "work"
    BY <1>3 DEF IInv, TypeOK
  <2> QED
    BY <1>1, <1>2, <2>1, <2>3, <2>4 DEF IInv, TypeOK
<1>6. OnlyConfiguredTokens'
  BY <1>1, <1>3 DEF IInv, OnlyConfiguredTokens
<1>7. Balance'
  <2>1. /\ In(Pending)' <= In(Pending) /\ In({"error"})' <= In({"error"})
        /\ In(Pending)' \in Nat /\ In({"error"})' \in Nat
    BY <1>3, InFewer DEF Pending
  <2>2. In(Pending) \in Nat /\ In({"error"}) \in Nat
    BY InFinite
  <2>3. /\ metrics["jevRequests"] + In(Pending) <= metrics["cacheMisses"]
        /\ metrics["jevErrors"] + In({"error"}) <= metrics["jevRequests"]
    BY DEF IInv, Balance, Pending
  <2>4. /\ metrics["jevRequests"] + In(Pending)' <= metrics["cacheMisses"]
        /\ metrics["jevErrors"] + In({"error"})' <= metrics["jevRequests"]
    BY <2>1, <2>2, <2>3, Numbers DEF IInv
  <2> QED
    BY <1>1, <2>4 DEF Balance, Pending
<1>8. Scrapes' /\ ScrapeAgrees'
  <2> SUFFICES ASSUME NEW d \in Conn
               PROVE  /\ loaded'[d] < 5 =>
                           /\ snap'[d].jevRequests <= metrics.cacheMisses
                           /\ snap'[d].jevErrors <= metrics.cacheMisses
                      /\ loaded'[d] = 5 =>
                           /\ snap'[d].jevRequests <= snap'[d].cacheMisses
                           /\ snap'[d].jevErrors <= snap'[d].cacheMisses
    BY <1>1 DEF Scrapes, ScrapeAgrees
  <2>1. CASE loaded'[d] = loaded[d] /\ snap'[d] = snap[d]
    BY <2>1 DEF IInv, Scrapes, ScrapeAgrees
  <2>2. CASE loaded'[d] = 0 /\ snap'[d] = NoCounts
    BY <2>2, NoCount, Numbers DEF IInv
  <2> QED
    BY <1>4, <2>1, <2>2
<1> QED
  BY <1>2, <1>5, <1>6, <1>7, <1>8 DEF IInv

LEMMA WorkInv ==
  ASSUME IInv, NEW c \in Conn, NEW n \in 1..MaxItems, Work(c, n)
  PROVE  IInv'
<1>1. /\ stage[c] = "gate" /\ Accepts(token[c]) /\ Enter(c, "work")
      /\ at' = [e \in Item |-> IF e[1] = c /\ e[2] <= n THEN "todo" ELSE at[e]]
      /\ UNCHANGED <<env, main, exit, signalled, closing, token, stored, metrics,
                     snap, loaded>>
  BY DEF Work, process, scrape
<1>2. Configured' /\ stage' \in [Conn -> Stage]
  BY <1>1, StageInv DEF Stage, process
<1>3. ASSUME NEW e \in Item
      PROVE  \/ at'[e] = at[e] /\ (at[e] # "none" => stage'[e[1]] = stage[e[1]])
             \/ e[1] = c /\ at'[e] = "todo" /\ stage'[e[1]] = "work"
  BY <1>1 DEF Enter, IInv, TypeOK, Item
<1>4. TypeOK'
  <2>1. at' \in [Item -> At]
    BY <1>1 DEF IInv, TypeOK, At
  <2>2. \A e \in Item : at'[e] # "none" => stage'[e[1]] = "work"
    BY <1>3 DEF IInv, TypeOK
  <2> QED
    BY <1>1, <1>2, <2>1, <2>2 DEF IInv, TypeOK
<1>5. OnlyConfiguredTokens'
  <2>1. Mode \in {"shared", "keys"}
    BY <1>1, Modes DEF IInv, Configured, TypeOK
  <2>2. /\ env.docsOnly = ""
        /\ token[c] = IF env.file = "" THEN env.shared ELSE "own"
        /\ token[c] # ""
    BY <1>1, <2>1, Modes DEF Accepts, matches, IInv, TypeOK
  <2> SUFFICES ASSUME NEW e \in Item, at'[e] # "none"
               PROVE  /\ env.docsOnly = ""
                      /\ token[e[1]] = IF env.file = "" THEN env.shared ELSE "own"
                      /\ token[e[1]] # ""
    BY <1>1 DEF OnlyConfiguredTokens
  <2>3. CASE at'[e] = at[e]
    BY <2>3 DEF IInv, OnlyConfiguredTokens
  <2>4. CASE e[1] = c
    BY <2>2, <2>4
  <2> QED
    BY <1>3, <2>3, <2>4
<1>6. Balance'
  <2>1. \A P \in {Pending, {"error"}} : \A e \in Item : at'[e] \in P => at[e] \in P
    BY <1>3 DEF Pending
  <2>2. /\ In(Pending)' <= In(Pending) /\ In({"error"})' <= In({"error"})
        /\ In(Pending)' \in Nat /\ In({"error"})' \in Nat
    BY <2>1, InFewer
  <2>3. In(Pending) \in Nat /\ In({"error"}) \in Nat
    BY InFinite
  <2>4. /\ metrics["jevRequests"] + In(Pending) <= metrics["cacheMisses"]
        /\ metrics["jevErrors"] + In({"error"}) <= metrics["jevRequests"]
    BY DEF IInv, Balance, Pending
  <2>5. /\ metrics["jevRequests"] + In(Pending)' <= metrics["cacheMisses"]
        /\ metrics["jevErrors"] + In({"error"})' <= metrics["jevRequests"]
    BY <2>2, <2>3, <2>4, Numbers DEF IInv
  <2> QED
    BY <1>1, <2>5 DEF Balance, Pending
<1>7. Scrapes' /\ ScrapeAgrees'
  BY <1>1 DEF IInv, Scrapes, ScrapeAgrees
<1> QED
  BY <1>2, <1>4, <1>5, <1>6, <1>7 DEF IInv

\* The load of a counter: calls and errors are loaded before the misses, which
\* only grow in between.
LEMMA LoadInv ==
  ASSUME IInv, NEW c \in Conn, LoadNext(c)
  PROVE  IInv'
<1> DEFINE k == loaded[c]
           x == LoadOrder[k + 1]
<1>1. /\ k \in 0..4 /\ loaded' = [loaded EXCEPT ![c] = k + 1]
      /\ snap' = [snap EXCEPT ![c][x] = metrics[x]]
      /\ UNCHANGED <<env, main, exit, signalled, closing, stage, token, at, stored, metrics>>
  BY DEF LoadNext, process, IInv, TypeOK
<1>2. \/ k = 0 /\ x = "requests"
      \/ k = 1 /\ x = "jevRequests"
      \/ k = 2 /\ x = "jevErrors"
      \/ k = 3 /\ x = "cacheHits"
      \/ k = 4 /\ x = "cacheMisses"
  <2>1. k = 0 \/ k = 1 \/ k = 2 \/ k = 3 \/ k = 4
    BY <1>1
  <2> QED
    BY <2>1 DEF LoadOrder
<1>3. /\ x \in Counter /\ metrics[x] \in Nat /\ snap[c] \in [Counter -> Nat]
      /\ loaded \in [Conn -> 0..5] /\ snap \in [Conn -> [Counter -> Nat]]
  BY <1>2 DEF Counter, IInv, TypeOK
<1> HIDE DEF x, k
<1>4. /\ loaded'[c] = k + 1 /\ k + 1 \in 0..5
      /\ snap'[c] = [snap[c] EXCEPT ![x] = metrics[x]]
      /\ \A d \in Conn \ {c} : loaded'[d] = loaded[d] /\ snap'[d] = snap[d]
  BY <1>1, <1>3
<1>5. TypeOK'
  <2>1. snap' \in [Conn -> [Counter -> Nat]]
    BY <1>1, <1>3
  <2>2. loaded' \in [Conn -> 0..5]
    BY <1>1, <1>3, <1>4
  <2> QED
    BY <1>1, <2>1, <2>2 DEF IInv, TypeOK
<1>6. Balance' /\ Configured' /\ OnlyConfiguredTokens'
  BY <1>1 DEF IInv, Balance, In, Configured, Mode, OnlyConfiguredTokens
<1>7. /\ metrics["jevRequests"] <= metrics["cacheMisses"]
      /\ metrics["jevErrors"] <= metrics["cacheMisses"]
  <2>1. In(Pending) \in Nat /\ In({"error"}) \in Nat
    BY InFinite
  <2>2. /\ metrics["jevRequests"] + In(Pending) <= metrics["cacheMisses"]
        /\ metrics["jevErrors"] + In({"error"}) <= metrics["jevRequests"]
    BY DEF IInv, Balance, Pending
  <2> QED
    BY <2>1, <2>2, Numbers DEF IInv
<1>8. /\ snap[c]["jevRequests"] <= metrics["cacheMisses"]
      /\ snap[c]["jevErrors"] <= metrics["cacheMisses"]
  BY <1>1 DEF IInv, Scrapes, k
<1>9. /\ snap'[c]["jevRequests"] <= metrics["cacheMisses"]
      /\ snap'[c]["jevErrors"] <= metrics["cacheMisses"]
      /\ k = 4 => snap'[c]["cacheMisses"] = metrics["cacheMisses"]
  BY <1>2, <1>3, <1>4, <1>7, <1>8 DEF Counter
<1>10. Scrapes'
  BY <1>1, <1>4, <1>9 DEF IInv, Scrapes
<1>11. ScrapeAgrees'
  <2> SUFFICES ASSUME NEW d \in Conn, loaded'[d] = 5
               PROVE  /\ snap'[d].jevRequests <= snap'[d].cacheMisses
                      /\ snap'[d].jevErrors <= snap'[d].cacheMisses
    BY DEF ScrapeAgrees
  <2>1. CASE d = c
    <3>1. k = 4
      BY <1>1, <1>4, <2>1
    <3> QED
      BY <1>9, <2>1, <3>1
  <2>2. CASE d # c
    BY <1>4, <2>2 DEF IInv, ScrapeAgrees
  <2> QED
    BY <2>1, <2>2
<1> QED
  BY <1>5, <1>6, <1>10, <1>11 DEF IInv

LEMMA CountRequestInv ==
  ASSUME IInv, NEW c \in Conn, CountRequest(c)
  PROVE  IInv'
<1>1. /\ stage[c] = "observe" /\ Enter(c, "idle") /\ Add("requests")
      /\ UNCHANGED <<env, main, exit, signalled, closing, token, at, stored, snap, loaded>>
      /\ UNCHANGED process
  BY DEF CountRequest, process, scrape
<1>2. Configured' /\ stage' \in [Conn -> Stage]
  BY <1>1, StageInv DEF Stage
<1>3. ASSUME NEW e \in Item, at[e] # "none"
      PROVE  stage'[e[1]] = stage[e[1]]
  BY <1>1, <1>3 DEF IInv, TypeOK, Item, Enter
<1>4. /\ metrics' \in [Counter -> Nat]
      /\ metrics'["jevRequests"] = metrics["jevRequests"]
      /\ metrics'["jevErrors"] = metrics["jevErrors"]
      /\ metrics'["cacheMisses"] = metrics["cacheMisses"]
  BY <1>1, Added DEF IInv, Counter
<1>5. TypeOK'
  BY <1>1, <1>2, <1>3, <1>4 DEF IInv, TypeOK
<1>6. Balance' /\ Scrapes' /\ ScrapeAgrees' /\ OnlyConfiguredTokens'
  BY <1>1, <1>4
  DEF IInv, Balance, In, Scrapes, ScrapeAgrees, OnlyConfiguredTokens
<1> QED
  BY <1>2, <1>5, <1>6 DEF IInv

LEMMA HandleInv ==
  ASSUME IInv, NEW c \in Conn, Handle(c)
  PROVE  IInv'
<1>1. ASSUME stage[c] # "work"
      PROVE  at = [e \in Item |-> IF e[1] = c THEN "none" ELSE at[e]]
  BY <1>1 DEF IInv, TypeOK
<1>2. CASE Refuse(c)
  BY <1>1, <1>2, FinishInv DEF Refuse
<1>3. CASE Respond(c)
  BY <1>3, FinishInv DEF Respond
<1>4. CASE Scraped(c)
  BY <1>1, <1>4, FinishInv DEF Scraped
<1> QED
  BY <1>2, <1>3, <1>4, WorkInv, LoadInv, CountRequestInv DEF Handle

LEMMA NextInv == IInv /\ [Next]_vars => IInv'
<1>1. ASSUME IInv, MainStep \/ Signal \/ Shutdown PROVE IInv'
  <2>1. CASE StartFails \/ ListenFails \/ Return
    BY <1>1, <2>1, ExitInv DEF StartFails, ListenFails, Return
  <2>2. CASE Signal /\ ~ UNCHANGED main
    BY <1>1, <2>2, ExitInv DEF Signal
  <2> QED
    BY <1>1, <2>1, <2>2, MainInv DEF MainStep
<1>2. ASSUME IInv, UNCHANGED vars PROVE IInv'
  BY <1>2
  DEF vars, process, scrape, IInv, TypeOK, Balance, In, Scrapes, ScrapeAgrees,
      Configured, Mode, OnlyConfiguredTokens
<1> QED
  BY <1>1, <1>2, AcceptInv, HandleInv, EvaluateInv DEF Next, Token
-----------------------------------------------------------------------------
\* Theorem: the inductive invariant holds in every reachable state.
THEOREM ProcessInvariance == Spec => []IInv
BY InitInv, NextInv, PTL DEF Spec

\* Theorem: every variable of the process keeps its type.
THEOREM ProcessTypes == Spec => []TypeOK
<1>1. IInv => TypeOK
  BY DEF IInv
<1> QED
  BY <1>1, ProcessInvariance, PTL

\* Theorem: calls have their misses and errors their calls, for any number of
\* items under evaluation (metrics.go:37-50, cache/memory.go:24-36).
THEOREM CountersBalance == Spec => []Balance
<1>1. IInv => Balance
  BY DEF IInv
<1> QED
  BY <1>1, ProcessInvariance, PTL

\* Theorem: no scrape shows more calls or errors than misses, however the loads
\* are interleaved with the counting (metrics.go:52-61).
THEOREM ScrapesAgree == Spec => []ScrapeAgrees
<1>1. IInv => ScrapeAgrees
  BY DEF IInv
<1> QED
  BY <1>1, ProcessInvariance, PTL

\* Theorem: whatever the environment, items are evaluated only for the token it
\* asks for, and none in documentation-only mode (config.go:22-66, main.go:66-90).
THEOREM TokensAreConfigured == Spec => []OnlyConfiguredTokens
<1>1. IInv => OnlyConfiguredTokens
  BY DEF IInv
<1> QED
  BY <1>1, ProcessInvariance, PTL
=============================================================================
