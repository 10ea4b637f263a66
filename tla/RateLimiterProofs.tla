------------------------- MODULE RateLimiterProofs -------------------------
(***************************************************************************)
(* What holds of the limiter for every number of handlers and clients, and *)
(* every limit, window and delay shorter than a window.                    *)
(***************************************************************************)
EXTENDS RateLimiter, TLAPS

\* A whole number of seconds, rounded up, lasts as long as what it stands for.
LEMMA RoundedUp ==
  ASSUME NEW x \in Int
  PROVE  Seconds(x) \in Nat /\ Second * Seconds(x) >= x
<1>0. Second \in Nat /\ Second >= 1
  BY LimiterAssumption
<1>1. CASE x < Second
  BY <1>0, <1>1 DEF Seconds
<1>2. CASE x >= Second
  <2> DEFINE q == (x + Second - 1) \div Second
  <2>1. q \in Nat
    BY <1>0, <1>2
  <2>2. x + Second - 1 = Second * q + ((x + Second - 1) % Second)
    BY <1>0, <1>2
  <2>3. (x + Second - 1) % Second \in 0 .. (Second - 1)
    BY <1>0, <1>2
  <2>4. Second * q \in Nat
    BY <1>0, <2>1
  <2>5. Second * q >= x
    BY <1>0, <1>2, <2>2, <2>3, <2>4
  <2> QED
    BY <1>0, <1>2, <2>1, <2>5 DEF Seconds
<1> QED
  BY <1>0, <1>1, <1>2

\* Behind the proxy, the last forwarded address is the one the proxy appended.
LEMMA LastIsPeer ==
  ASSUME NEW p \in Client, NEW h \in Header
  PROVE  (IF Trust THEN clientIP(Proxy, Append(h, p)) ELSE clientIP(p, h)) = p
<1>1. h \in Seq(Client \cup {Junk})
  <2>1. CASE h = <<>>
    BY <2>1
  <2>2. CASE h \in {<<x>> : x \in Client \cup {Junk}}
    <3>1. PICK x \in Client \cup {Junk} : h = <<x>>
      BY <2>2
    <3> QED
      BY <3>1
  <2> QED
    BY <2>1, <2>2 DEF Header
<1>2. Append(h, p) # <<>> /\ Last(Append(h, p)) = p
  BY <1>1 DEF Last
<1>3. p # Junk /\ Trust \in BOOLEAN
  BY LimiterAssumption
<1> QED
  BY <1>2, <1>3 DEF clientIP

\* What deleting expired buckets leaves: the same buckets or none.
LEMMA CleanedFacts ==
  ASSUME TypeOK, Table, NEW n \in Time
  PROVE  /\ Cleaned(n) \in [Client -> Bucket]
         /\ \A c \in Client :
              /\ Cleaned(n)[c] \in {bucket[c], NoBucket}
              /\ Cleaned(n)[c].count > 0 /\ n - lastCleanup >= Window
                   => Cleaned(n)[c].started > n - Window
              /\ Cleaned(n)[c].count > 0
                   => Cleaned(n)[c] = bucket[c]
<1>1. MaxTime \in Nat /\ Requests \in Nat /\ Window \in Nat
  BY LimiterAssumption
<1>2. NoBucket \in Bucket
  BY <1>1 DEF NoBucket, Bucket, Time
<1>3. lastCleanup \in Int /\ n \in Int
  BY <1>1 DEF TypeOK, Time
<1>4. Expired([started |-> lastCleanup], n) <=> n - lastCleanup >= Window
  BY DEF Expired
<1>5. \A c \in Client : bucket[c] \in Bucket /\ bucket[c].started \in Int
  BY <1>1 DEF TypeOK, Bucket, Time
<1>6. CASE n - lastCleanup >= Window
  <2>1. Cleaned(n) = [c \in Client |->
                        IF Expired(bucket[c], n) THEN NoBucket ELSE bucket[c]]
    BY <1>4, <1>6 DEF Cleaned
  <2>2. \A c \in Client : ~ Expired(bucket[c], n) => bucket[c].started > n - Window
    BY <1>1, <1>3, <1>5 DEF Expired
  <2>3. ~ (NoBucket.count > 0)
    BY DEF NoBucket
  <2> QED
    BY <1>2, <1>5, <2>1, <2>2, <2>3
<1>7. CASE ~ (n - lastCleanup >= Window)
  BY <1>4, <1>7 DEF Cleaned, TypeOK
<1> QED
  BY <1>6, <1>7

\* Filled, of any history f, any bucket started at s that holds k requests, any
\* last cleanup at l and any clock at c.
LetThrough(f, m, k) == \A x \in Time : x > m => f[x] <= k

FilledAt(f, s, k, l, c) ==
  LET z == IF s < l THEN l ELSE s IN
  /\ LetThrough(f, c, 0)
  /\ k = 0 =>
       /\ LetThrough(f, l - Window + Delay, Requests)
       /\ LetThrough(f, l - 2 * Window + Delay, 2 * Requests)
       /\ LetThrough(f, l - 3 * Window + 2 * Delay, 3 * Requests)
  /\ k > 0 =>
       /\ s <= c
       /\ \A x \in Time : x <= s => f[x] >= k
       /\ LetThrough(f, s + Delay, k)
       /\ LetThrough(f, s - Window + 2 * Delay, k + Requests)
       /\ LetThrough(f, z - Window + Delay, k + Requests)
       /\ LetThrough(f, s - 2 * Window + 2 * Delay, k + 2 * Requests)
       /\ LetThrough(f, z - 3 * Window + 2 * Delay, k + 3 * Requests)

LEMMA FilledIsFilledAt ==
  /\ Filled <=> FilledAt(admitted, bucket[Watched].started, bucket[Watched].count,
                         lastCleanup, clock)
  /\ Filled' <=> FilledAt(admitted', bucket'[Watched].started, bucket'[Watched].count,
                          lastCleanup', clock')
BY DEF Filled, FilledAt, After, LetThrough

\* Later, no more has been let through.
LEMMA LetThroughLater ==
  ASSUME NEW f \in [Time -> Nat], NEW m \in Int, NEW j \in Int, m <= j,
         NEW k \in Int, NEW i \in Int, k <= i, LetThrough(f, m, k)
  PROVE  LetThrough(f, j, i)
BY LimiterAssumption DEF LetThrough, Time

\* The history stays true as the clock goes on, and after a cleanup that leaves
\* the bucket.
LEMMA FilledKept ==
  ASSUME NEW f \in [Time -> Nat], NEW s \in Nat, NEW k \in Nat,
         NEW l \in Nat, NEW l2 \in Nat, NEW c \in Nat, NEW c2 \in Nat,
         l <= l2, c <= c2, FilledAt(f, s, k, l, c)
  PROVE  FilledAt(f, s, k, l2, c2)
<1> DEFINE z == IF s < l THEN l ELSE s
           z2 == IF s < l2 THEN l2 ELSE s
<1>1. Window \in Nat /\ Delay \in Nat /\ Requests \in Nat
  BY LimiterAssumption
<1>2. z \in Nat /\ z2 \in Nat /\ z <= z2
  OBVIOUS
<1>3. LetThrough(f, c2, 0)
  BY LetThroughLater DEF FilledAt
<1>4. CASE k = 0
  <2>1. /\ LetThrough(f, l - Window + Delay, Requests)
        /\ LetThrough(f, l - 2 * Window + Delay, 2 * Requests)
        /\ LetThrough(f, l - 3 * Window + 2 * Delay, 3 * Requests)
    BY <1>4 DEF FilledAt
  <2>2. LetThrough(f, l2 - Window + Delay, Requests)
    BY <1>1, <2>1, LetThroughLater
  <2>3. LetThrough(f, l2 - 2 * Window + Delay, 2 * Requests)
    BY <1>1, <2>1, LetThroughLater
  <2>4. LetThrough(f, l2 - 3 * Window + 2 * Delay, 3 * Requests)
    BY <1>1, <2>1, LetThroughLater
  <2> QED
    BY <1>3, <1>4, <2>2, <2>3, <2>4 DEF FilledAt
<1>5. CASE k > 0
  <2>1. /\ s <= c
        /\ \A x \in Time : x <= s => f[x] >= k
        /\ LetThrough(f, s + Delay, k)
        /\ LetThrough(f, s - Window + 2 * Delay, k + Requests)
        /\ LetThrough(f, z - Window + Delay, k + Requests)
        /\ LetThrough(f, s - 2 * Window + 2 * Delay, k + 2 * Requests)
        /\ LetThrough(f, z - 3 * Window + 2 * Delay, k + 3 * Requests)
    BY <1>5 DEF FilledAt
  <2> HIDE DEF z, z2
  <2>2. LetThrough(f, z2 - Window + Delay, k + Requests)
    BY <1>1, <1>2, <2>1, LetThroughLater
  <2>3. LetThrough(f, z2 - 3 * Window + 2 * Delay, k + 3 * Requests)
    BY <1>1, <1>2, <2>1, LetThroughLater
  <2> QED
    BY <1>3, <1>5, <2>1, <2>2, <2>3 DEF FilledAt, z2
<1> QED
  BY <1>4, <1>5

\* A cleanup at n takes the bucket away: it, and the last cleanup, were a window
\* ago.
LEMMA FilledCleaned ==
  ASSUME NEW f \in [Time -> Nat], NEW s \in Nat, NEW k \in Nat, k <= Requests,
         NEW l \in Nat, NEW n \in Nat, NEW c \in Nat, NEW s2 \in Nat,
         n - l >= Window, k = 0 \/ n - s >= Window, FilledAt(f, s, k, l, c)
  PROVE  FilledAt(f, s2, 0, n, c)
<1> DEFINE z == IF s < l THEN l ELSE s
<1>1. Window \in Nat /\ Delay \in Nat /\ Requests \in Nat
  BY LimiterAssumption
<1>2. LetThrough(f, c, 0)
  BY DEF FilledAt
<1>3. CASE k = 0
  <2>1. FilledAt(f, s, k, n, c)
    BY <1>1, FilledKept
  <2> QED
    BY <1>3, <2>1 DEF FilledAt
<1>4. CASE k > 0
  <2>1. /\ LetThrough(f, s + Delay, k)
        /\ LetThrough(f, z - Window + Delay, k + Requests)
        /\ LetThrough(f, s - 2 * Window + 2 * Delay, k + 2 * Requests)
    BY <1>4 DEF FilledAt
  <2>2. n - s >= Window /\ z \in Nat /\ n - z >= Window
    BY <1>4
  <2> HIDE DEF z
  <2>3. LetThrough(f, n - Window + Delay, Requests)
    BY <1>1, <2>1, <2>2, LetThroughLater
  <2>4. LetThrough(f, n - 2 * Window + Delay, 2 * Requests)
    BY <1>1, <2>1, <2>2, LetThroughLater
  <2>5. LetThrough(f, n - 3 * Window + 2 * Delay, 3 * Requests)
    BY <1>1, <2>1, <2>2, LetThroughLater
  <2> QED
    BY <1>2, <2>3, <2>4, <2>5 DEF FilledAt
<1> QED
  BY <1>3, <1>4

\* One request more, at time c, in any bound on what has been let through.
OneMore(f, c) == [x \in Time |-> f[x] + IF x <= c THEN 1 ELSE 0]

LEMMA OneMoreThrough ==
  ASSUME NEW f \in [Time -> Nat], NEW c \in Nat
  PROVE  /\ OneMore(f, c) \in [Time -> Nat]
         /\ \A x \in Time : x <= c => OneMore(f, c)[x] = f[x] + 1
         /\ LetThrough(f, c, 0) => LetThrough(OneMore(f, c), c, 0)
         /\ \A m, j, k, i \in Int :
              m <= j /\ k + 1 <= i /\ LetThrough(f, m, k)
                => LetThrough(OneMore(f, c), j, i)
<1>1. Time \subseteq Int
  BY LimiterAssumption DEF Time
<1>2. \A x \in Time : /\ f[x] \in Nat
                      /\ OneMore(f, c)[x] \in {f[x], f[x] + 1}
                      /\ x <= c => OneMore(f, c)[x] = f[x] + 1
                      /\ x > c => OneMore(f, c)[x] = f[x]
  BY <1>1 DEF OneMore
<1>3. OneMore(f, c) \in [Time -> Nat]
  BY DEF OneMore
<1> QED
  BY <1>1, <1>2, <1>3 DEF LetThrough

\* A request that was read at n and let through at c starts a bucket.
LEMMA FilledStarted ==
  ASSUME NEW f \in [Time -> Nat], NEW s \in Nat, NEW k \in Nat, k <= Requests,
         NEW l \in Nat, NEW n \in Nat, NEW c \in Nat,
         l <= c, n <= c, c - n <= Delay,
         k = 0 \/ n - s >= Window, FilledAt(f, s, k, l, c)
  PROVE  FilledAt(OneMore(f, c), n, 1, l, c)
<1> DEFINE z == IF n < l THEN l ELSE n
           g == OneMore(f, c)
<1>1. Window \in Nat /\ Delay \in Nat /\ Requests \in Nat \ {0} /\ Time \subseteq Int
  BY LimiterAssumption DEF Time
<1>2. /\ \A m, j, h, i \in Int :
           m <= j /\ h + 1 <= i /\ LetThrough(f, m, h) => LetThrough(g, j, i)
      /\ \A x \in Time : x <= c => g[x] = f[x] + 1 /\ f[x] \in Nat
  BY OneMoreThrough
<1>3. LetThrough(f, c, 0) /\ LetThrough(g, c, 0)
  BY OneMoreThrough DEF FilledAt
<1>4. z \in Nat /\ z >= l /\ z >= n
  OBVIOUS
<1> HIDE DEF z, g
<1>5. \A x \in Time : x <= n => g[x] >= 1
  BY <1>1, <1>2
<1>6. LetThrough(g, n + Delay, 1)
  BY <1>1, <1>2, <1>3
<1>7. CASE k = 0
  <2>1. /\ LetThrough(f, l - Window + Delay, Requests)
        /\ LetThrough(f, l - 2 * Window + Delay, 2 * Requests)
        /\ LetThrough(f, l - 3 * Window + 2 * Delay, 3 * Requests)
    BY <1>7 DEF FilledAt
  <2>2. LetThrough(g, n - Window + 2 * Delay, 1 + Requests)
    BY <1>1, <1>2, <2>1
  <2>3. LetThrough(g, z - Window + Delay, 1 + Requests)
    BY <1>1, <1>2, <1>4, <2>1
  <2>4. LetThrough(g, n - 2 * Window + 2 * Delay, 1 + 2 * Requests)
    BY <1>1, <1>2, <2>1
  <2>5. LetThrough(g, z - 3 * Window + 2 * Delay, 1 + 3 * Requests)
    BY <1>1, <1>2, <1>4, <2>1
  <2> QED
    BY <1>3, <1>5, <1>6, <2>2, <2>3, <2>4, <2>5 DEF FilledAt, z, g
<1>8. CASE k > 0
  <2>1. /\ LetThrough(f, s + Delay, k)
        /\ LetThrough(f, s - Window + 2 * Delay, k + Requests)
        /\ LetThrough(f, s - 2 * Window + 2 * Delay, k + 2 * Requests)
    BY <1>8 DEF FilledAt
  <2>2. n - s >= Window /\ z - s >= Window
    BY <1>1, <1>4, <1>8
  <2>3. LetThrough(g, n - Window + 2 * Delay, 1 + Requests)
    BY <1>1, <1>2, <2>1, <2>2
  <2>4. LetThrough(g, z - Window + Delay, 1 + Requests)
    BY <1>1, <1>2, <1>4, <2>1, <2>2
  <2>5. LetThrough(g, n - 2 * Window + 2 * Delay, 1 + 2 * Requests)
    BY <1>1, <1>2, <2>1, <2>2
  <2>6. LetThrough(g, z - 3 * Window + 2 * Delay, 1 + 3 * Requests)
    BY <1>1, <1>2, <1>4, <2>1, <2>2
  <2> QED
    BY <1>3, <1>5, <1>6, <2>3, <2>4, <2>5, <2>6 DEF FilledAt, z, g
<1> QED
  BY <1>7, <1>8

\* A request that is let through at c goes to the bucket there is.
LEMMA FilledFilled ==
  ASSUME NEW f \in [Time -> Nat], NEW s \in Nat, NEW k \in Nat, k > 0,
         NEW l \in Nat, NEW c \in Nat, FilledAt(f, s, k, l, c)
  PROVE  FilledAt(OneMore(f, c), s, k + 1, l, c)
<1> DEFINE z == IF s < l THEN l ELSE s
           g == OneMore(f, c)
<1>1. Window \in Nat /\ Delay \in Nat /\ Requests \in Nat \ {0} /\ Time \subseteq Int
  BY LimiterAssumption DEF Time
<1>2. /\ \A m, j, h, i \in Int :
           m <= j /\ h + 1 <= i /\ LetThrough(f, m, h) => LetThrough(g, j, i)
      /\ \A x \in Time : x <= c => g[x] = f[x] + 1 /\ f[x] \in Nat
      /\ LetThrough(g, c, 0)
  BY OneMoreThrough DEF FilledAt
<1>3. /\ s <= c
      /\ \A x \in Time : x <= s => f[x] >= k
      /\ LetThrough(f, s + Delay, k)
      /\ LetThrough(f, s - Window + 2 * Delay, k + Requests)
      /\ LetThrough(f, z - Window + Delay, k + Requests)
      /\ LetThrough(f, s - 2 * Window + 2 * Delay, k + 2 * Requests)
      /\ LetThrough(f, z - 3 * Window + 2 * Delay, k + 3 * Requests)
  BY DEF FilledAt
<1>4. z \in Nat
  OBVIOUS
<1> HIDE DEF z, g
<1>5. \A x \in Time : x <= s => g[x] >= k + 1
  BY <1>1, <1>2, <1>3
<1>6. LetThrough(g, s + Delay, k + 1)
  BY <1>1, <1>2, <1>3
<1>7. LetThrough(g, s - Window + 2 * Delay, k + 1 + Requests)
  BY <1>1, <1>2, <1>3
<1>8. LetThrough(g, z - Window + Delay, k + 1 + Requests)
  BY <1>1, <1>2, <1>3, <1>4
<1>9. LetThrough(g, s - 2 * Window + 2 * Delay, k + 1 + 2 * Requests)
  BY <1>1, <1>2, <1>3
<1>10. LetThrough(g, z - 3 * Window + 2 * Delay, k + 1 + 3 * Requests)
  BY <1>1, <1>2, <1>3, <1>4
<1> QED
  BY <1>2, <1>3, <1>5, <1>6, <1>7, <1>8, <1>9, <1>10 DEF FilledAt, z, g

LEMMA InitInv == Init => IInv
<1> SUFFICES ASSUME Init PROVE IInv
  OBVIOUS
<1>1. MaxTime \in Nat /\ Requests \in Nat /\ Window \in Nat \ {0} /\ 0 \in Time
  BY LimiterAssumption DEF Time
<1>2. NoBucket \in Bucket /\ ~ (NoBucket.count > 0)
  BY <1>1 DEF NoBucket, Bucket
<1>3. TypeOK
  BY <1>1, <1>2 DEF Init, TypeOK, Never
<1>4. ChargedToPeer /\ Overtaken
  BY DEF Init, ChargedToPeer, Overtaken
<1>5. Table
  BY <1>1, <1>2 DEF Init, Table
<1>6. Owed
  BY DEF Init, Owed
<1>7. Filled
  <2>1. \A x \in Time : admitted[x] = 0
    BY DEF Init
  <2>2. bucket[Watched].count = 0
    BY LimiterAssumption DEF Init, NoBucket
  <2>3. \A m : After(m, 0) /\ After(m, Requests) /\ After(m, 2 * Requests)
              /\ After(m, 3 * Requests)
    BY <1>1, <2>1 DEF After
  <2> QED
    BY <2>2, <2>3 DEF Filled
<1> QED
  BY <1>3, <1>4, <1>5, <1>6, <1>7 DEF IInv

LEMMA ArriveInv ==
  ASSUME IInv, NEW t \in Thread, NEW p \in Client, NEW h \in Header, Arrive(t, p, h)
  PROVE  IInv'
<1>1. /\ UNCHANGED <<clock, bucket, lastCleanup, traffic>>
      /\ peer' = [peer EXCEPT ![t] = p]
      /\ who' = [who EXCEPT ![t] = p]
      /\ now' = [now EXCEPT ![t] = clock]
  BY LastIsPeer DEF Arrive
<1>2. clock \in Nat /\ Delay \in Nat
  BY LimiterAssumption DEF IInv, TypeOK, Time
<1>3. TypeOK'
  BY <1>1 DEF IInv, TypeOK, traffic
<1>4. ChargedToPeer'
  BY <1>1 DEF IInv, TypeOK, ChargedToPeer
<1>5. Overtaken'
  BY <1>1, <1>2 DEF IInv, TypeOK, Overtaken
<1>6. Table' /\ Owed' /\ Filled'
  BY <1>1 DEF IInv, Table, Owed, Filled, After, traffic
<1> QED
  BY <1>3, <1>4, <1>5, <1>6 DEF IInv

\* What every request does to the state that the four outcomes share.
LEMMA EnterFacts ==
  ASSUME IInv, NEW t \in Thread, Enter(t)
  PROVE  /\ who[t] = peer[t] /\ who[t] \in Client
         /\ now[t] \in Time /\ now[t] <= clock /\ clock - now[t] <= Delay
         /\ clock' = clock
         /\ lastCleanup' \in {lastCleanup, now[t]}
         /\ now[t] - lastCleanup >= Window => lastCleanup' = now[t]
         /\ ~ (now[t] - lastCleanup >= Window) => lastCleanup' = lastCleanup
         /\ peer' \in [Thread -> Client \cup {Nobody}]
         /\ who' \in [Thread -> Client \cup {Proxy, Nobody}]
         /\ now' \in [Thread -> Time]
         /\ ChargedToPeer' /\ Overtaken'
         /\ lastCleanup' \in Time /\ lastCleanup' <= clock
<1>1. /\ MaxTime \in Nat /\ Delay \in Nat /\ Window \in Nat
      /\ 0 \in Time /\ Time \subseteq Nat
  BY LimiterAssumption DEF Time
<1>2. /\ lastCleanup' = IF Expired([started |-> lastCleanup], now[t])
                         THEN now[t] ELSE lastCleanup
      /\ peer[t] # Nobody
      /\ peer' = [peer EXCEPT ![t] = Nobody]
      /\ who' = [who EXCEPT ![t] = Nobody]
      /\ now' = [now EXCEPT ![t] = 0]
      /\ clock' = clock
  BY DEF Enter
<1>3. /\ who[t] = peer[t] /\ who[t] \in Client
      /\ now[t] \in Time /\ now[t] <= clock /\ clock - now[t] <= Delay
  BY <1>2 DEF IInv, TypeOK, ChargedToPeer, Overtaken
<1>4. /\ peer' \in [Thread -> Client \cup {Nobody}]
      /\ who' \in [Thread -> Client \cup {Proxy, Nobody}]
      /\ now' \in [Thread -> Time]
  BY <1>1, <1>2 DEF IInv, TypeOK
<1>5. ChargedToPeer' /\ Overtaken'
  BY <1>2 DEF IInv, TypeOK, ChargedToPeer, Overtaken
<1>6. lastCleanup \in Time /\ lastCleanup <= clock
  BY DEF IInv, TypeOK, Table
<1>7. Expired([started |-> lastCleanup], now[t]) <=> now[t] - lastCleanup >= Window
  BY DEF Expired
<1> QED
  BY <1>1, <1>2, <1>3, <1>4, <1>5, <1>6, <1>7

\* The table of buckets after a request of c that came at n, whose own bucket
\* is b, and no older than one window.
LEMMA TableKept ==
  ASSUME IInv, NEW t \in Thread, Enter(t), NEW c \in Client, NEW b \in Bucket,
         b.count > 0, b.started > lastCleanup' - Window,
         bucket' = [Cleaned(now[t]) EXCEPT ![c] = b]
  PROVE  bucket' \in [Client -> Bucket] /\ Table'
<1>1. TypeOK /\ Table /\ now[t] \in Time
  BY EnterFacts DEF IInv
<1>2. Cleaned(now[t]) \in [Client -> Bucket]
  BY <1>1, CleanedFacts
<1>3. bucket' \in [Client -> Bucket]
  BY <1>2
<1>4. Window \in Nat /\ Time \subseteq Nat /\ lastCleanup \in Time
  BY LimiterAssumption DEF Time, IInv, TypeOK
<1>5. ASSUME NEW d \in Client, bucket'[d].count > 0
      PROVE  bucket'[d].started > lastCleanup' - Window
  <2>1. CASE d = c
    BY <1>2, <2>1
  <2>2. CASE d # c
    <3>1. bucket'[d] = Cleaned(now[t])[d]
      BY <1>2, <2>2
    <3>2. CASE now[t] - lastCleanup >= Window
      <4>1. Cleaned(now[t])[d].started > now[t] - Window
        BY <1>1, <1>5, <3>1, <3>2, CleanedFacts
      <4>2. lastCleanup' = now[t]
        BY <3>2, EnterFacts
      <4> QED
        BY <3>1, <4>1, <4>2
    <3>3. CASE ~ (now[t] - lastCleanup >= Window)
      <4>1. bucket'[d] = bucket[d]
        BY <1>1, <1>5, <3>1, CleanedFacts
      <4>2. lastCleanup' = lastCleanup
        BY <1>1, <1>4, <3>3, EnterFacts
      <4> QED
        BY <1>1, <1>5, <4>1, <4>2 DEF Table
    <3> QED
      BY <3>2, <3>3
  <2> QED
    BY <2>1, <2>2
<1>6. lastCleanup' <= clock'
  BY EnterFacts
<1> QED
  BY <1>3, <1>5, <1>6 DEF Table

\* The history is true of the bucket that the cleanup leaves.
LEMMA EnterFilled ==
  ASSUME IInv, NEW t \in Thread, Enter(t)
  PROVE  /\ Cleaned(now[t])[Watched].started \in Nat
         /\ Cleaned(now[t])[Watched].count \in 0..Requests
         /\ FilledAt(admitted, Cleaned(now[t])[Watched].started,
                     Cleaned(now[t])[Watched].count, lastCleanup', clock)
<1> DEFINE n == now[t]
           b == bucket[Watched]
           d == Cleaned(n)[Watched]
<1>1. /\ MaxTime \in Nat /\ Requests \in Nat /\ Window \in Nat
      /\ Watched \in Client /\ Time \subseteq Nat
  BY LimiterAssumption DEF Time
<1>2. TypeOK /\ Table /\ n \in Time /\ clock \in Nat /\ lastCleanup \in Nat
  BY <1>1, EnterFacts DEF IInv, TypeOK
<1>3. /\ b \in Bucket /\ d \in Bucket
  BY <1>1, <1>2, CleanedFacts DEF TypeOK
<1>4. \A e \in Bucket : /\ e.started \in Nat /\ e.count \in Nat
                        /\ e.count \in 0..Requests /\ e.count <= Requests
  <2>1. \A e \in Bucket : e.started \in Time /\ e.count \in 0..Requests
    BY DEF Bucket
  <2>2. \A k \in 0..Requests : k \in Nat /\ k <= Requests
    BY <1>1
  <2> QED
    BY <1>1, <2>1, <2>2
<1>5. FilledAt(admitted, b.started, b.count, lastCleanup, clock)
  BY FilledIsFilledAt DEF IInv
<1>6. admitted \in [Time -> Nat]
  BY <1>2 DEF TypeOK
<1>7. CASE n - lastCleanup >= Window
  <2>1. lastCleanup' = n
    BY <1>7, EnterFacts
  <2>2. d = IF Expired(b, n) THEN NoBucket ELSE b
    BY <1>1, <1>7 DEF Cleaned, Expired
  <2>3. CASE Expired(b, n)
    <3>1. n - b.started >= Window
      BY <2>3 DEF Expired
    <3>2. d.started = 0 /\ d.count = 0
      BY <2>2, <2>3 DEF NoBucket
    <3> HIDE DEF n, b, d
    <3>3. /\ n \in Nat /\ b.started \in Nat /\ b.count \in Nat
          /\ b.count <= Requests
      BY <1>1, <1>2, <1>3, <1>4
    <3>4. FilledAt(admitted, 0, 0, n, clock)
      BY <1>2, <1>5, <1>6, <1>7, <3>1, <3>3, FilledCleaned
    <3> QED
      BY <1>3, <1>4, <2>1, <3>2, <3>4 DEF n, d
  <2>4. CASE ~ Expired(b, n)
    <3>1. d = b
      BY <2>2, <2>4
    <3> HIDE DEF n, b, d
    <3>2. n \in Nat /\ b.started \in Nat /\ b.count \in Nat
      BY <1>1, <1>2, <1>3, <1>4
    <3>3. lastCleanup <= n /\ clock <= clock
      BY <1>1, <1>2, <1>7, <3>2
    <3>4. FilledAt(admitted, b.started, b.count, n, clock)
      BY <1>2, <1>5, <1>6, <3>2, <3>3, FilledKept
    <3> QED
      BY <1>3, <1>4, <2>1, <3>1, <3>4 DEF n, d
  <2> QED
    BY <2>3, <2>4
<1>8. CASE ~ (n - lastCleanup >= Window)
  <2>1. lastCleanup' = lastCleanup /\ d = b
    BY <1>8, EnterFacts DEF Cleaned, Expired
  <2> QED
    BY <1>3, <1>4, <1>5, <2>1
<1> QED
  BY <1>7, <1>8

\* What a request that lets c through makes of the history.
LEMMA AdmitFilled ==
  ASSUME IInv, NEW t \in Thread, Enter(t), NEW c \in Client, Admit(c),
         c # Watched => bucket'[Watched] = Cleaned(now[t])[Watched],
         c = Watched =>
           FilledAt(OneMore(admitted, clock), bucket'[Watched].started,
                    bucket'[Watched].count, lastCleanup', clock)
  PROVE  Filled'
<1>1. clock' = clock
  BY EnterFacts
<1>2. CASE c = Watched
  <2>1. admitted' = OneMore(admitted, clock)
    BY <1>2 DEF Admit, OneMore
  <2> QED
    BY <1>1, <1>2, <2>1, FilledIsFilledAt
<1>3. CASE c # Watched
  <2>1. admitted' = admitted
    BY <1>3 DEF Admit
  <2> QED
    BY <1>1, <1>3, <2>1, EnterFilled, FilledIsFilledAt
<1> QED
  BY <1>2, <1>3

\* The history stays well typed when a request is let through.
LEMMA AdmitTypes ==
  ASSUME TypeOK, NEW c, Admit(c)
  PROVE  admitted' \in [Time -> Nat] /\ promise' \in Nat \cup {Never}
<1>1. clock \in Time /\ admitted \in [Time -> Nat] /\ promise \in Nat \cup {Never}
  BY DEF TypeOK
<1>2. CASE c = Watched
  <2>1. admitted' = OneMore(admitted, clock) /\ promise' = Never
    BY <1>2 DEF Admit, OneMore
  <2>2. clock \in Nat
    BY <1>1, LimiterAssumption DEF Time
  <2> QED
    BY <1>1, <2>1, <2>2, OneMoreThrough
<1>3. CASE c # Watched
  BY <1>1, <1>3 DEF Admit
<1> QED
  BY <1>2, <1>3

LEMMA StartFilled ==
  ASSUME IInv, NEW t \in Thread, Start(t)
  PROVE  Filled'
<1> DEFINE n == now[t]
           d == Cleaned(n)[Watched]
<1>1. /\ Enter(t)
      /\ MustStart(Cleaned(n)[who[t]], n)
      /\ bucket' = [Cleaned(n) EXCEPT ![who[t]] = [started |-> n, count |-> 1]]
      /\ Admit(who[t])
  BY DEF Start
<1>2. /\ MaxTime \in Nat /\ Time \subseteq Nat /\ Watched \in Client
      /\ Window \in Nat /\ Requests \in Nat
  BY LimiterAssumption DEF Time
<1>3. /\ who[t] \in Client /\ n \in Nat /\ clock \in Nat /\ lastCleanup' \in Nat
      /\ n <= clock /\ clock - n <= Delay /\ lastCleanup' <= clock
  BY <1>1, <1>2, EnterFacts DEF IInv, TypeOK
<1>4. Cleaned(n) \in [Client -> Bucket]
  BY <1>1, CleanedFacts, EnterFacts DEF IInv
<1>5. CASE who[t] = Watched
  <2>1. bucket'[Watched].started = n /\ bucket'[Watched].count = 1
    BY <1>1, <1>2, <1>4, <1>5
  <2>2. d.count = 0 \/ n - d.started >= Window
    BY <1>1, <1>5 DEF MustStart, Expired
  <2>3. /\ d.started \in Nat /\ d.count \in Nat /\ d.count <= Requests
        /\ FilledAt(admitted, d.started, d.count, lastCleanup', clock)
    BY <1>1, <1>2, EnterFilled
  <2>4. admitted \in [Time -> Nat]
    BY DEF IInv, TypeOK
  <2> HIDE DEF n, d
  <2>5. FilledAt(OneMore(admitted, clock), n, 1, lastCleanup', clock)
    BY <1>3, <2>2, <2>3, <2>4, FilledStarted
  <2> QED
    BY <1>1, <1>3, <1>5, <2>1, <2>5, AdmitFilled
<1>6. CASE who[t] # Watched
  <2>1. bucket'[Watched] = Cleaned(n)[Watched]
    BY <1>1, <1>2, <1>4, <1>6
  <2> QED
    BY <1>1, <1>3, <1>6, <2>1, AdmitFilled
<1> QED
  BY <1>5, <1>6

LEMMA StartInv ==
  ASSUME IInv, NEW t \in Thread, Start(t)
  PROVE  IInv'
<1> DEFINE c == who[t]
           n == now[t]
           b == [started |-> n, count |-> 1]
<1>1. /\ Enter(t)
      /\ bucket' = [Cleaned(n) EXCEPT ![c] = b]
      /\ Admit(c)
  BY DEF Start
<1>2. /\ MaxTime \in Nat /\ Delay \in Nat /\ Window \in Nat /\ Delay < Window
      /\ Requests \in Nat \ {0} /\ Time \subseteq Nat
      /\ clock \in Time /\ lastCleanup \in Time /\ lastCleanup <= clock
  BY LimiterAssumption DEF Time, IInv, TypeOK, Table
<1>3. /\ c \in Client /\ n \in Time /\ clock - n <= Delay /\ clock' = clock
      /\ lastCleanup' \in {lastCleanup, n}
  BY <1>1, EnterFacts
<1>4. b \in Bucket /\ b.count > 0
  BY <1>2, <1>3 DEF Bucket
<1>5. b.started > lastCleanup' - Window
  <2>1. n \in Nat /\ clock \in Nat /\ lastCleanup \in Nat
    BY <1>2, <1>3
  <2>2. n > clock - Window
    BY <1>2, <1>3, <2>1
  <2>3. n > lastCleanup - Window /\ n > n - Window
    BY <1>2, <2>1, <2>2
  <2> QED
    BY <1>3, <2>3
<1>6. bucket' \in [Client -> Bucket] /\ Table'
  BY <1>1, <1>3, <1>4, <1>5, TableKept
<1>7. admitted' \in [Time -> Nat] /\ promise' \in Nat \cup {Never}
  BY <1>1, AdmitTypes DEF IInv
<1>8. TypeOK'
  BY <1>1, <1>2, <1>3, <1>6, <1>7, EnterFacts DEF TypeOK
<1>9. Owed'
  <2>1. CASE c = Watched
    BY <1>1, <2>1 DEF Admit, Owed
  <2>2. CASE c # Watched
    <3>1. promise' = promise
      BY <1>1, <2>2 DEF Admit
    <3>2. /\ Watched \in Client /\ bucket'[Watched] = Cleaned(n)[Watched]
          /\ Cleaned(n)[Watched] \in {bucket[Watched], NoBucket}
      BY <1>1, <1>3, <2>2, CleanedFacts, LimiterAssumption DEF IInv
    <3> QED
      BY <3>1, <3>2 DEF Owed, NoBucket, IInv
  <2> QED
    BY <2>1, <2>2
<1> QED
  BY <1>1, <1>6, <1>8, <1>9, EnterFacts, StartFilled DEF IInv

LEMMA FillInv ==
  ASSUME IInv, NEW t \in Thread, Fill(t)
  PROVE  IInv'
<1> DEFINE c == who[t]
           n == now[t]
           b == [bucket[c] EXCEPT !.count = @ + 1]
<1>1. /\ Enter(t)
      /\ ~ MustStart(Cleaned(n)[c], n)
      /\ ~ Full(Cleaned(n)[c])
      /\ bucket' = [Cleaned(n) EXCEPT ![c].count = @ + 1]
      /\ Admit(c)
  BY DEF Fill
<1>2. /\ MaxTime \in Nat /\ Window \in Nat /\ Requests \in Nat /\ Time \subseteq Nat
      /\ clock \in Time /\ lastCleanup \in Time
  BY LimiterAssumption DEF Time, IInv, TypeOK
<1>3. c \in Client /\ n \in Time /\ clock' = clock
  BY <1>1, EnterFacts
<1>4. bucket[c] \in Bucket /\ bucket[c].started \in Nat /\ bucket[c].count \in Nat
  BY <1>2, <1>3 DEF IInv, TypeOK, Bucket, Time
<1>5. Cleaned(n)[c] = bucket[c]
  <2>1. Cleaned(n)[c] \in {bucket[c], NoBucket}
    BY <1>3, CleanedFacts DEF IInv
  <2>2. Cleaned(n)[c].count # 0
    BY <1>1 DEF MustStart
  <2> QED
    BY <2>1, <2>2 DEF NoBucket
<1>6. bucket[c].count > 0 /\ bucket[c].count < Requests
  BY <1>1, <1>2, <1>4, <1>5 DEF MustStart, Full
<1>7. b \in Bucket /\ b.count > 0 /\ b.started = bucket[c].started
  BY <1>2, <1>4, <1>6 DEF Bucket
<1>8. bucket' = [Cleaned(n) EXCEPT ![c] = b]
  BY <1>1, <1>5
<1>9. b.started > lastCleanup' - Window
  <2>1. CASE n - lastCleanup >= Window
    BY <1>1, <1>3, <1>5, <1>6, <1>7, <2>1, CleanedFacts, EnterFacts DEF IInv
  <2>2. CASE ~ (n - lastCleanup >= Window)
    <3>1. lastCleanup' = lastCleanup
      BY <1>1, <1>2, <1>3, <2>2, EnterFacts
    <3> QED
      BY <1>3, <1>6, <1>7, <3>1 DEF IInv, Table
  <2> QED
    BY <2>1, <2>2
<1>10. bucket' \in [Client -> Bucket] /\ Table'
  BY <1>1, <1>3, <1>7, <1>8, <1>9, TableKept
<1>11. admitted' \in [Time -> Nat] /\ promise' \in Nat \cup {Never}
  BY <1>1, AdmitTypes DEF IInv
<1>12. TypeOK'
  BY <1>1, <1>2, <1>3, <1>10, <1>11, EnterFacts DEF TypeOK
<1>13. Owed'
  <2>1. CASE c = Watched
    BY <1>1, <2>1 DEF Admit, Owed
  <2>2. CASE c # Watched
    <3>1. promise' = promise
      BY <1>1, <2>2 DEF Admit
    <3>2. /\ Watched \in Client /\ bucket'[Watched] = Cleaned(n)[Watched]
          /\ Cleaned(n)[Watched] \in {bucket[Watched], NoBucket}
      BY <1>3, <1>8, <2>2, CleanedFacts, LimiterAssumption DEF IInv
    <3> QED
      BY <3>1, <3>2 DEF Owed, NoBucket, IInv
  <2> QED
    BY <2>1, <2>2
<1>14. Filled'
  <2>1. CASE c = Watched
    <3>1. /\ bucket'[Watched].started = bucket[c].started
          /\ bucket'[Watched].count = bucket[c].count + 1
      BY <1>3, <1>4, <1>8, <2>1, CleanedFacts DEF IInv
    <3>2. /\ clock \in Nat /\ lastCleanup' \in Nat /\ admitted \in [Time -> Nat]
      BY <1>1, <1>2, EnterFacts DEF IInv, TypeOK
    <3>3. FilledAt(admitted, bucket[c].started, bucket[c].count, lastCleanup', clock)
      BY <1>1, <1>5, <2>1, EnterFilled
    <3>4. FilledAt(OneMore(admitted, clock), bucket[c].started, bucket[c].count + 1,
                   lastCleanup', clock)
      BY <1>4, <1>6, <3>2, <3>3, FilledFilled
    <3> QED
      BY <1>1, <1>3, <2>1, <3>1, <3>4, AdmitFilled
  <2>2. CASE c # Watched
    <3>1. bucket'[Watched] = Cleaned(n)[Watched]
      BY <1>3, <1>8, <2>2, CleanedFacts, LimiterAssumption DEF IInv
    <3> QED
      BY <1>1, <1>3, <2>2, <3>1, AdmitFilled
  <2> QED
    BY <2>1, <2>2
<1> QED
  BY <1>1, <1>10, <1>12, <1>13, <1>14, EnterFacts DEF IInv

LEMMA RefuseInv ==
  ASSUME IInv, NEW t \in Thread, Refuse(t)
  PROVE  IInv'
<1> DEFINE c == who[t]
           n == now[t]
           b == Cleaned(n)[c]
           wait == b.started + Window - clock
<1>1. /\ Enter(t)
      /\ ~ MustStart(b, n)
      /\ bucket' = Cleaned(n)
      /\ promise' = IF c # Watched THEN promise
                    ELSE clock + Second * Seconds(wait)
      /\ UNCHANGED admitted
  BY DEF Refuse
<1>2. /\ MaxTime \in Nat /\ Window \in Nat /\ Requests \in Nat /\ Time \subseteq Nat
      /\ clock \in Time /\ lastCleanup \in Time /\ Second \in Nat
  BY LimiterAssumption DEF Time, IInv, TypeOK
<1>3. c \in Client /\ n \in Time /\ clock' = clock
  BY <1>1, EnterFacts
<1>4. bucket' \in [Client -> Bucket] /\ b \in Bucket
  BY <1>1, <1>3, CleanedFacts DEF IInv
<1>5. b.count > 0 /\ b.started \in Nat
  BY <1>1, <1>2, <1>4 DEF MustStart, Bucket, Time
<1>6. b = bucket[c] /\ (n - lastCleanup >= Window => b.started > n - Window)
  BY <1>3, <1>5, CleanedFacts DEF IInv
<1>7. b.started > lastCleanup' - Window
  <2>1. CASE n - lastCleanup >= Window
    BY <1>1, <1>6, <2>1, EnterFacts
  <2>2. CASE ~ (n - lastCleanup >= Window)
    <3>1. lastCleanup' = lastCleanup
      BY <1>1, <1>2, <1>3, <2>2, EnterFacts
    <3> QED
      BY <1>3, <1>5, <1>6, <3>1 DEF IInv, Table
  <2> QED
    BY <2>1, <2>2
<1>8. Table'
  <2>1. bucket' = [Cleaned(n) EXCEPT ![c] = b]
    BY <1>1, <1>4
  <2> QED
    BY <1>1, <1>3, <1>4, <1>5, <1>7, <2>1, TableKept
<1>9. /\ Seconds(wait) \in Nat /\ Second * Seconds(wait) \in Nat
      /\ Second * Seconds(wait) >= wait
  <2>1. wait \in Int
    <3>1. clock \in Nat /\ Window \in Nat /\ b.started \in Nat
      BY <1>2, <1>5
    <3> HIDE DEF b
    <3> QED
      BY <3>1
  <2>2. Seconds(wait) \in Nat /\ Second * Seconds(wait) >= wait
    BY <2>1, RoundedUp
  <2> QED
    BY <1>2, <2>2
<1>10. promise' \in Nat \cup {Never}
  BY <1>1, <1>2, <1>9 DEF IInv, TypeOK
<1>11. TypeOK'
  BY <1>1, <1>3, <1>4, <1>10, EnterFacts DEF IInv, TypeOK
<1>12. Owed'
  <2>1. CASE c = Watched
    <3>1. promise' = clock + Second * Seconds(wait) /\ bucket'[Watched] = b
      BY <1>1, <2>1
    <3>2. promise' >= b.started + Window
      <4>1. ASSUME NEW x \in Int, NEW y \in Int, NEW z \in Int, NEW w \in Int,
                   y >= z + w - x
            PROVE  x + y >= z + w
        BY <4>1
      <4> QED
        BY <1>2, <1>5, <1>9, <3>1, <4>1
    <3> QED
      BY <3>1, <3>2 DEF Owed
  <2>2. CASE c # Watched
    <3>1. promise' = promise
      BY <1>1, <2>2
    <3>2. /\ Watched \in Client /\ bucket'[Watched] = Cleaned(n)[Watched]
          /\ Cleaned(n)[Watched] \in {bucket[Watched], NoBucket}
      BY <1>1, <1>3, CleanedFacts, LimiterAssumption DEF IInv
    <3> QED
      BY <3>1, <3>2 DEF Owed, NoBucket, IInv
  <2> QED
    BY <2>1, <2>2
<1>13. Filled'
  BY <1>1, <1>3, EnterFilled, FilledIsFilledAt
<1> QED
  BY <1>1, <1>8, <1>11, <1>12, <1>13, EnterFacts DEF IInv

LEMMA TickInv ==
  ASSUME IInv, Tick
  PROVE  IInv'
<1>1. /\ clock < MaxTime /\ clock' = clock + 1
      /\ \A t \in Thread : peer[t] # Nobody => clock + 1 - now[t] <= Delay
      /\ UNCHANGED <<bucket, lastCleanup, peer, who, now, admitted, promise>>
  BY DEF Tick, traffic
<1>2. /\ MaxTime \in Nat /\ Delay \in Nat /\ clock \in Time /\ clock \in Nat
      /\ clock + 1 \in Time
  BY <1>1, LimiterAssumption DEF IInv, TypeOK, Time
<1>3. TypeOK'
  BY <1>1, <1>2 DEF IInv, TypeOK
<1>4. ChargedToPeer' /\ Owed'
  BY <1>1 DEF IInv, ChargedToPeer, Owed
<1>5. Overtaken'
  <2>1. ASSUME NEW t \in Thread, peer'[t] # Nobody
        PROVE  now'[t] <= clock' /\ clock' - now'[t] <= Delay
    <3>1. peer[t] # Nobody /\ now'[t] = now[t] /\ clock' = clock + 1
      BY <1>1, <2>1
    <3>2. now[t] <= clock /\ now[t] \in Int
      BY <3>1 DEF IInv, TypeOK, Time, Overtaken
    <3>3. clock + 1 - now[t] <= Delay
      BY <1>1, <3>1
    <3> QED
      BY <1>2, <3>1, <3>2, <3>3
  <2> QED
    BY <2>1 DEF Overtaken
<1>6. Table'
  BY <1>1, <1>2 DEF IInv, TypeOK, Time, Table
<1>7. Filled'
  <2>1. /\ admitted \in [Time -> Nat] /\ lastCleanup \in Nat
        /\ bucket[Watched].started \in Nat /\ bucket[Watched].count \in Nat
    BY LimiterAssumption DEF IInv, TypeOK, Bucket, Time
  <2>2. FilledAt(admitted, bucket[Watched].started, bucket[Watched].count,
                 lastCleanup, clock)
    BY FilledIsFilledAt DEF IInv
  <2>3. clock + 1 \in Nat /\ clock <= clock + 1 /\ lastCleanup <= lastCleanup
    BY <1>2, <2>1
  <2>4. FilledAt(admitted, bucket[Watched].started, bucket[Watched].count,
                 lastCleanup, clock + 1)
    BY <1>2, <2>1, <2>2, <2>3, FilledKept
  <2> QED
    BY <1>1, <2>4, FilledIsFilledAt
<1> QED
  BY <1>3, <1>4, <1>5, <1>6, <1>7 DEF IInv

LEMMA NextInv == IInv /\ [Next]_vars => IInv'
<1> SUFFICES ASSUME IInv, [Next]_vars PROVE IInv'
  OBVIOUS
<1>1. ASSUME NEW t \in Thread, NEW p \in Client, NEW h \in Header, Arrive(t, p, h)
      PROVE  IInv'
  BY <1>1, ArriveInv
<1>2. ASSUME NEW t \in Thread, Start(t) PROVE IInv'
  BY <1>2, StartInv
<1>3. ASSUME NEW t \in Thread, Fill(t) PROVE IInv'
  BY <1>3, FillInv
<1>4. ASSUME NEW t \in Thread, Refuse(t) PROVE IInv'
  BY <1>4, RefuseInv
<1>5. CASE Tick
  BY <1>5, TickInv
<1>6. CASE UNCHANGED vars
  BY <1>6 DEF vars, traffic, IInv, TypeOK, ChargedToPeer, Overtaken, Table, Owed,
                   Filled, After
<1> QED
  BY <1>1, <1>2, <1>3, <1>4, <1>5, <1>6 DEF Next

\* The invariant of the limiter: its types, that a request is charged to the
\* address it comes from, how far handlers are overtaken, what the cleanups
\* leave, that a promise outlasts its bucket, and how long ago the requests were
\* that are in no bucket any more (middleware.go:51-116).
THEOREM LimiterInvariance == Spec => []IInv
BY InitInv, NextInv, PTL DEF Spec

\* Every variable of the limiter keeps its type.
THEOREM LimiterTypes == Spec => []TypeOK
<1>1. IInv => TypeOK
  BY DEF IInv
<1> QED
  BY LimiterInvariance, <1>1, PTL

\* Whatever a client claims to be forwarded for, its requests are charged to
\* the address they come from (middleware.go:101-116).
THEOREM LimiterChargesPeer == Spec => []ChargedToPeer
<1>1. IInv => ChargedToPeer
  BY DEF IInv
<1> QED
  BY LimiterInvariance, <1>1, PTL

\* Retry-After is never too short: at the time it names, the bucket that was
\* full has expired (middleware.go:90-94, 118-127).
THEOREM LimiterKeepsPromise == Spec => []PromiseKept
<1>1. ASSUME IInv, NEW t \in Thread, promise # Never, now[t] >= promise
      PROVE  MustStart(bucket[Watched], now[t])
  <2>1. /\ bucket[Watched] \in Bucket /\ promise \in Int /\ now[t] \in Int
        /\ bucket[Watched].started \in Int /\ Window \in Int
    BY <1>1, LimiterAssumption DEF IInv, TypeOK, Bucket, Time
  <2>2. CASE bucket[Watched].count = 0
    BY <2>2 DEF MustStart
  <2>3. CASE promise >= bucket[Watched].started + Window
    <3>1. now[t] - bucket[Watched].started >= Window
      BY <1>1, <2>1, <2>3
    <3> QED
      BY <3>1 DEF MustStart, Expired
  <2> QED
    BY <1>1, <2>2, <2>3 DEF IInv, Owed
<1>2. IInv => PromiseKept
  BY <1>1 DEF PromiseKept
<1> QED
  BY LimiterInvariance, <1>2, PTL

\* Every request leaves a table of buckets less than two windows older than it,
\* so that the table holds no more than the clients of the last two windows
\* (middleware.go:75-82).
THEOREM LimiterForgets == Spec => OldBucketsGo
<1> DEFINE Forgets == \A t \in Thread, c \in Client :
       peer[t] # Nobody /\ peer'[t] = Nobody /\ bucket'[c].count > 0
         => bucket'[c].started > now[t] - 2 * Window
<1>1. ASSUME IInv, IInv', [Next]_vars, NEW t \in Thread, NEW c \in Client,
             peer[t] # Nobody, peer'[t] = Nobody, bucket'[c].count > 0
      PROVE  bucket'[c].started > now[t] - 2 * Window
  <2>1. Enter(t)
    <3>1. ASSUME NEW u \in Thread, Enter(u) PROVE u = t
      BY <1>1, <3>1 DEF Enter, IInv, TypeOK
    <3>2. ASSUME NEW u \in Thread, NEW p \in Client, NEW h \in Header,
                 Arrive(u, p, h)
          PROVE  FALSE
      <4>1. peer' = [peer EXCEPT ![u] = p] /\ p # Nobody
        BY <3>2, LimiterAssumption DEF Arrive, Nobody
      <4> QED
        BY <1>1, <4>1 DEF IInv, TypeOK
    <3>3. ~ Tick /\ ~ UNCHANGED vars
      BY <1>1 DEF Tick, vars
    <3>4. PICK u \in Thread : Start(u) \/ Fill(u) \/ Refuse(u)
      BY <1>1, <3>2, <3>3 DEF Next
    <3>5. Enter(u)
      BY <3>4 DEF Start, Fill, Refuse
    <3> QED
      BY <3>1, <3>5
  <2>2. /\ now[t] - lastCleanup >= Window => lastCleanup' = now[t]
        /\ ~ (now[t] - lastCleanup >= Window) => lastCleanup' = lastCleanup
        /\ now[t] \in Time /\ lastCleanup' \in Time
    BY <1>1, <2>1, EnterFacts
  <2>3. /\ Window \in Nat /\ Window > 0 /\ Time \subseteq Int
        /\ lastCleanup \in Time /\ bucket'[c].started \in Time
    <3>1. bucket' \in [Client -> Bucket] /\ lastCleanup \in Time
      BY <1>1 DEF IInv, TypeOK
    <3>2. bucket'[c].started \in Time
      BY <3>1 DEF Bucket
    <3>3. Window \in Nat /\ Window > 0 /\ Time \subseteq Int
      BY LimiterAssumption DEF Time
    <3> QED
      BY <3>1, <3>2, <3>3
  <2>4. lastCleanup' > now[t] - Window
    <3>1. now[t] \in Int /\ lastCleanup \in Int
      BY <2>2, <2>3
    <3>2. CASE now[t] - lastCleanup >= Window
      <4>1. lastCleanup' = now[t]
        BY <2>2, <3>2
      <4> QED
        BY <2>3, <3>1, <4>1
    <3>3. CASE ~ (now[t] - lastCleanup >= Window)
      <4>1. lastCleanup' = lastCleanup
        BY <2>2, <3>3
      <4>2. lastCleanup > now[t] - Window
        BY <2>3, <3>1, <3>3
      <4> QED
        BY <4>1, <4>2
    <3> QED
      BY <3>2, <3>3
  <2>5. bucket'[c].started > lastCleanup' - Window
    BY <1>1 DEF IInv, Table
  <2> DEFINE s == bucket'[c].started
  <2>6. s \in Int /\ now[t] \in Int /\ lastCleanup' \in Int /\ s > lastCleanup' - Window
    BY <2>2, <2>3, <2>5
  <2> HIDE DEF s
  <2>7. s > now[t] - 2 * Window
    BY <2>3, <2>4, <2>6
  <2> QED
    BY <2>7 DEF s
<1>2. IInv /\ IInv' /\ [Next]_vars => [Forgets]_vars
  BY <1>1
<1>3. Spec => [][Forgets]_vars
  <2> HIDE DEF Forgets
  <2> QED
    BY LimiterInvariance, <1>2, PTL DEF Spec
<1> QED
  BY <1>3 DEF OldBucketsGo

\* A window that reaches to the present meets no more buckets than there are.
LEMMA FilledBounds ==
  ASSUME NEW f \in [Time -> Nat], NEW s \in Nat, NEW k \in Nat, k <= Requests,
         NEW l \in Nat, NEW c \in Nat, l <= c, FilledAt(f, s, k, l, c),
         NEW x \in Time, x + Window > c
  PROVE  f[x] <= Buckets * Requests
<1> DEFINE z == IF s < l THEN l ELSE s
<1>1. /\ Window \in Nat /\ Delay \in Nat /\ Delay < Window /\ Requests \in Nat
      /\ x \in Int /\ f[x] \in Nat
  BY LimiterAssumption DEF Time
<1>2. Buckets * Requests >= 3 * Requests
  <2>1. CASE 2 * Delay <= Window
    BY <1>1, <2>1 DEF Buckets
  <2>2. CASE ~ (2 * Delay <= Window)
    BY <1>1, <2>2 DEF Buckets
  <2> QED
    BY <2>1, <2>2
<1>3. \A m, h \in Int : LetThrough(f, m, h) /\ m < x => f[x] <= h
  BY DEF LetThrough
<1>4. CASE k = 0
  <2>1. LetThrough(f, l - 2 * Window + Delay, 2 * Requests)
    BY <1>4 DEF FilledAt
  <2>2. l - 2 * Window + Delay < x
    BY <1>1
  <2>3. f[x] <= 2 * Requests
    BY <1>1, <1>3, <2>1, <2>2
  <2> HIDE DEF Buckets
  <2>4. 3 * Requests >= 2 * Requests
    BY <1>1
  <2>5. Buckets \in Int
    BY DEF Buckets
  <2> QED
    BY <1>1, <1>2, <2>3, <2>4, <2>5
<1>5. CASE k > 0
  <2>1. /\ s <= c
        /\ LetThrough(f, s - 2 * Window + 2 * Delay, k + 2 * Requests)
        /\ LetThrough(f, z - 3 * Window + 2 * Delay, k + 3 * Requests)
    BY <1>5 DEF FilledAt
  <2>2. z \in Nat /\ z <= c
    BY <2>1
  <2> HIDE DEF z
  <2>3. CASE 2 * Delay <= Window
    <3>1. s - 2 * Window + 2 * Delay < x
      BY <1>1, <2>1, <2>3
    <3>2. f[x] <= k + 2 * Requests
      BY <1>1, <1>3, <2>1, <3>1
    <3> QED
      BY <1>1, <2>3, <3>2 DEF Buckets
  <2>4. CASE ~ (2 * Delay <= Window)
    <3>1. z - 3 * Window + 2 * Delay < x
      BY <1>1, <2>2
    <3>2. f[x] <= k + 3 * Requests
      BY <1>1, <1>3, <2>1, <2>2, <3>1
    <3> QED
      BY <1>1, <2>4, <3>2 DEF Buckets
  <2> QED
    BY <2>3, <2>4
<1> QED
  BY <1>4, <1>5

\* A step changes the history by one request at most, of the present.
LEMMA HistoryGrows ==
  ASSUME IInv, [Next]_vars
  PROVE  \/ admitted' = admitted
         \/ admitted' = OneMore(admitted, clock) /\ clock' = clock
<1>1. ASSUME NEW c, Admit(c)
      PROVE  admitted' \in {admitted, OneMore(admitted, clock)}
  BY <1>1 DEF Admit, OneMore
<1>2. ASSUME NEW t \in Thread, Start(t) \/ Fill(t)
      PROVE  admitted' \in {admitted, OneMore(admitted, clock)} /\ clock' = clock
  BY <1>1, <1>2 DEF Start, Fill, Enter
<1>3. ASSUME NEW t \in Thread, NEW p \in Client, NEW h \in Header, Arrive(t, p, h)
      PROVE  admitted' = admitted
  BY <1>3 DEF Arrive, traffic
<1>4. ASSUME NEW t \in Thread, Refuse(t)
      PROVE  admitted' = admitted
  BY <1>4 DEF Refuse
<1>5. CASE Tick
  BY <1>5 DEF Tick, traffic
<1>6. CASE UNCHANGED vars
  BY <1>6 DEF vars, traffic
<1> QED
  BY <1>2, <1>3, <1>4, <1>5, <1>6 DEF Next

\* No client gets more in any stretch of time as long as a window than Buckets
\* buckets hold, whatever handlers are overtaken between the clock and the mutex
\* (middleware.go:54-98).
THEOREM BurstsAreBounded == Spec => []BoundedBurst
<1> DEFINE Bound == Buckets * Requests
<1>1. /\ MaxTime \in Nat /\ Window \in Nat /\ Window > 0 /\ Requests \in Nat
      /\ Time \subseteq Int /\ 0 \in Time /\ Bound \in Nat
      /\ \A x \in Time : x >= 0
  BY LimiterAssumption DEF Time, Buckets
<1>2. Init => BoundedBurst
  BY <1>1 DEF Init, BoundedBurst, Burst, Since
<1>3. ASSUME IInv, IInv', BoundedBurst, [Next]_vars, NEW x \in Time
      PROVE  Burst(x)' <= Bound
  <2>1. /\ admitted \in [Time -> Nat] /\ admitted' \in [Time -> Nat]
        /\ clock \in Time /\ clock' \in Time
    BY <1>3 DEF IInv, TypeOK
  <2> DEFINE later(f) == IF x + Window \in Time THEN f[x + Window] ELSE 0
  <2>2. /\ Burst(x) = admitted[x] - later(admitted)
        /\ Burst(x)' = admitted'[x] - later(admitted')
    <3>1. x \in Int /\ x >= 0 /\ ~ (x + Window <= 0)
      BY <1>1
    <3>2. x <= 0 => x = 0
      BY <3>1
    <3> QED
      BY <3>1, <3>2 DEF Burst, Since
  <2>3. CASE x + Window > clock'
    <3>1. /\ bucket'[Watched].started \in Nat
          /\ bucket'[Watched].count \in Nat /\ bucket'[Watched].count <= Requests
          /\ lastCleanup' \in Nat /\ clock' \in Nat /\ lastCleanup' <= clock'
      <4>1. bucket'[Watched] \in Bucket /\ lastCleanup' \in Time
        BY <1>3, LimiterAssumption DEF IInv, TypeOK
      <4>2. bucket'[Watched].started \in Time /\ bucket'[Watched].count \in 0..Requests
        BY <4>1 DEF Bucket
      <4>3. lastCleanup' <= clock'
        BY <1>3 DEF IInv, Table
      <4>4. \A k \in 0..Requests : k \in Nat /\ k <= Requests
        BY <1>1
      <4>5. \A y \in Time : y \in Nat
        BY LimiterAssumption DEF Time
      <4> QED
        BY <2>1, <4>1, <4>2, <4>3, <4>4, <4>5
    <3>2. FilledAt(admitted', bucket'[Watched].started, bucket'[Watched].count,
                   lastCleanup', clock')
      BY <1>3, FilledIsFilledAt DEF IInv
    <3>3. admitted'[x] <= Bound
      BY <2>1, <2>3, <3>1, <3>2, FilledBounds
    <3>4. later(admitted') \in Nat /\ admitted'[x] \in Nat
      BY <2>1
    <3> HIDE DEF later, Bound
    <3> QED
      BY <1>1, <2>2, <3>3, <3>4
  <2>4. CASE x + Window <= clock'
    <3>1. Burst(x) <= Bound
      BY <1>3 DEF BoundedBurst
    <3>2. x + Window \in Time
      BY <1>1, <2>1, <2>4 DEF Time
    <3>3. CASE admitted' = admitted
      BY <2>2, <3>1, <3>3
    <3>4. CASE admitted' = OneMore(admitted, clock) /\ clock' = clock
      <4>1. x <= clock /\ x + Window <= clock
        BY <1>1, <2>1, <2>4, <3>4
      <4>2. /\ admitted'[x] = admitted[x] + 1
            /\ admitted'[x + Window] = admitted[x + Window] + 1
        BY <3>2, <3>4, <4>1 DEF OneMore
      <4>3. admitted[x] \in Nat /\ admitted[x + Window] \in Nat
        BY <2>1, <3>2
      <4> HIDE DEF Bound
      <4>4. Burst(x)' = Burst(x)
        BY <2>2, <3>2, <4>2, <4>3
      <4> QED
        BY <3>1, <4>4
    <3> QED
      BY <1>3, <3>3, <3>4, HistoryGrows
  <2> QED
    BY <1>1, <2>1, <2>3, <2>4
<1>4. IInv /\ IInv' /\ BoundedBurst /\ [Next]_vars => BoundedBurst'
  BY <1>3 DEF BoundedBurst, Buckets
<1> QED
  BY LimiterInvariance, <1>2, <1>4, PTL DEF Spec

\* A client is refused only when it has had its Requests within the window
\* before, or within Delay before that (middleware.go:84-95).
THEOREM LimiterRefusesWhenFull == Spec => RefusedOnlyWhenFull
<1> DEFINE Deserved == \A t \in Thread :
       Refuse(t) /\ who[t] = Watched =>
         Since(clock - Delay - Window + 1) >= Requests
<1>1. ASSUME IInv, NEW t \in Thread, Refuse(t), who[t] = Watched
      PROVE  Since(clock - Delay - Window + 1) >= Requests
  <2> DEFINE n == now[t]
             b == Cleaned(n)[Watched]
             x == clock - Delay - Window + 1
  <2>1. Enter(t) /\ ~ MustStart(b, n) /\ b.count >= Requests
    BY <1>1 DEF Refuse, Full
  <2>2. /\ MaxTime \in Nat /\ Window \in Nat /\ Requests \in Nat \ {0}
        /\ Delay \in Nat /\ Time \subseteq Nat /\ 0 \in Time
    BY LimiterAssumption DEF Time
  <2>3. /\ n \in Nat /\ clock \in Nat /\ clock \in Time /\ clock - n <= Delay
        /\ admitted \in [Time -> Nat]
    BY <1>1, <2>1, <2>2, EnterFacts DEF IInv, TypeOK
  <2>4. /\ b.started \in Nat /\ b.count \in 0..Requests
        /\ FilledAt(admitted, b.started, b.count, lastCleanup', clock)
    BY <1>1, <2>1, EnterFilled
  <2>5. ~ (n - b.started >= Window)
    BY <2>1 DEF MustStart, Expired
  <2> HIDE DEF n, b
  <2>6. b.count \in Nat /\ b.count > 0
    BY <2>1, <2>2, <2>4
  <2>7. /\ b.started <= clock
        /\ \A y \in Time : y <= b.started => admitted[y] >= b.count
    BY <2>4, <2>6 DEF FilledAt
  <2>8. x \in Int /\ x <= b.started
    BY <2>2, <2>3, <2>4, <2>5
  <2>9. CASE x <= 0
    <3>1. admitted[0] >= b.count /\ admitted[0] \in Nat
      BY <2>2, <2>3, <2>4, <2>7
    <3>2. Since(x) = admitted[0]
      BY <2>9 DEF Since
    <3> HIDE DEF x
    <3>3. Since(x) >= Requests
      BY <2>1, <2>2, <2>6, <3>1, <3>2
    <3> QED
      BY <3>3 DEF x
  <2>10. CASE x > 0
    <3>1. x \in Time
      BY <2>2, <2>3, <2>4, <2>7, <2>8, <2>10 DEF Time
    <3>2. admitted[x] >= b.count /\ admitted[x] \in Nat
      BY <2>3, <2>7, <2>8, <3>1
    <3>3. Since(x) = admitted[x]
      BY <2>8, <2>10, <3>1 DEF Since
    <3> HIDE DEF x
    <3>4. Since(x) >= Requests
      BY <2>1, <2>2, <2>6, <3>2, <3>3
    <3> QED
      BY <3>4 DEF x
  <2> QED
    BY <2>8, <2>9, <2>10
<1>2. IInv /\ [Next]_vars => [Deserved]_vars
  BY <1>1
<1>3. Spec => [][Deserved]_vars
  <2> HIDE DEF Deserved
  <2> QED
    BY LimiterInvariance, <1>2, PTL DEF Spec
<1> QED
  BY <1>3 DEF RefusedOnlyWhenFull
=============================================================================
