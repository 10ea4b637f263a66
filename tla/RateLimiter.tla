---------------------------- MODULE RateLimiter ----------------------------
(***************************************************************************)
(* The per-client limiter of internal/ratelimit/middleware.go.  A handler  *)
(* reads the clock, and only then waits for the mutex under which its      *)
(* client's bucket is looked up, started anew, filled or found full; in    *)
(* between, the clock and other handlers may overtake it.                  *)
(*                                                                         *)
(* Time is counted in ticks, Second ticks to a second.                     *)
(***************************************************************************)
EXTENDS Sequences, SequencesExt

CONSTANTS
  Thread,     \* the handlers at work at one time
  Client,     \* the addresses that requests come from
  Watched,    \* the one of them that the history is about
  Proxy,      \* the address of the reverse proxy
  Junk,       \* what a forwarding header may hold that is no IP address
  Trust,      \* trustProxyHeaders: all requests come through the proxy
  Requests,   \* requests that a bucket takes (60 in main.go:74)
  Window,     \* its length (a minute)
  Second,     \* ticks in a second
  Delay,      \* bound: the ticks by which a handler may be overtaken
  MaxTime     \* bound: the last tick

ASSUME LimiterAssumption ==
  /\ Trust \in BOOLEAN
  /\ Watched \in Client
  /\ Proxy \notin Client /\ Junk \notin Client \cup {Proxy}
  /\ {Requests, Window, Second} \subseteq Nat \ {0}
  /\ {Delay, MaxTime} \subseteq Nat
  /\ Delay < Window

VARIABLES
  clock,        \* time.Now(); monotonic, as Sub and Until use it
  bucket,       \* l.clients: [Client -> a Bucket; count 0 if it has none]
  lastCleanup,  \* l.lastCleanup
  peer,         \* [Thread -> where its request comes from, or Nobody]
  who,          \* [Thread -> the client it is charged to]
  now,          \* [Thread -> the time it has read]
  \* History of the watched client, read by no action:
  admitted,     \* [Time -> its requests let through at that time or later]
  promise       \* when its last refusal told it to come back, or Never if a
                \* request of its has been let through since

traffic == <<admitted, promise>>
vars == <<clock, bucket, lastCleanup, peer, who, now, traffic>>

Time == 0..MaxTime
Bucket == [started : Time, count : 0..Requests]
NoBucket == [started |-> 0, count |-> 0]
Nobody == Junk
Never == -1

TypeOK ==
  /\ clock \in Time
  /\ bucket \in [Client -> Bucket]
  /\ lastCleanup \in Time
  /\ peer \in [Thread -> Client \cup {Nobody}]
  /\ who \in [Thread -> Client \cup {Proxy, Nobody}]
  /\ now \in [Thread -> Time]
  /\ admitted \in [Time -> Nat]
  /\ promise \in Nat \cup {Never}

\* NewWithTrustedProxy.
Init ==
  /\ clock = 0
  /\ bucket = [c \in Client |-> NoBucket]
  /\ lastCleanup = 0
  /\ peer = [t \in Thread |-> Nobody]
  /\ who = [t \in Thread |-> Nobody]
  /\ now = [t \in Thread |-> 0]
  /\ admitted = [x \in Time |-> 0]
  /\ promise = Never
-----------------------------------------------------------------------------
\* Mutant: the address that the client itself has put first.
FirstIP(remote, forwarded) ==
  IF Trust /\ forwarded # <<>> /\ Head(forwarded) # Junk
  THEN Head(forwarded) ELSE remote

\* The address a request is charged to: that of its connection, or the last
\* one that the proxy has appended to X-Forwarded-For.
clientIP(remote, forwarded) ==
  IF Trust /\ forwarded # <<>> /\ Last(forwarded) # Junk
  THEN Last(forwarded) ELSE remote

\* A request of p comes in, with header h; the proxy appends p to it.  The
\* handler reads the clock.
Arrive(t, p, h) ==
  /\ peer[t] = Nobody
  /\ peer' = [peer EXCEPT ![t] = p]
  /\ who' = [who EXCEPT ![t] = IF Trust THEN clientIP(Proxy, Append(h, p))
                               ELSE clientIP(p, h)]
  /\ now' = [now EXCEPT ![t] = clock]
  /\ UNCHANGED <<clock, bucket, lastCleanup, traffic>>

Expired(b, n) == n - b.started >= Window

\* Mutant: buckets are never cleaned up.
NeverCleaned(n) == bucket

\* Once in a window, buckets that have expired are deleted.
Cleaned(n) ==
  IF Expired([started |-> lastCleanup], n)
  THEN [c \in Client |-> IF Expired(bucket[c], n) THEN NoBucket ELSE bucket[c]]
  ELSE bucket

\* The mutex is taken, and given back at the end of allow.
Enter(t) ==
  /\ peer[t] # Nobody
  /\ lastCleanup' = IF Expired([started |-> lastCleanup], now[t])
                    THEN now[t] ELSE lastCleanup
  /\ peer' = [peer EXCEPT ![t] = Nobody]
  /\ who' = [who EXCEPT ![t] = Nobody]
  /\ now' = [now EXCEPT ![t] = 0]
  /\ UNCHANGED clock

\* A request of c is let through.
Admit(c) ==
  IF c = Watched
  THEN /\ admitted' = [x \in Time |-> admitted[x] + IF x <= clock THEN 1 ELSE 0]
       /\ promise' = Never
  ELSE UNCHANGED <<admitted, promise>>

\* Mutant: only a bucket that was cleaned up is started anew.
StartCleaned(b, n) == b.count = 0

\* The client has no bucket, or an expired one.
MustStart(b, n) == b.count = 0 \/ Expired(b, n)

\* Mutant: one request too many.
FullLate(b) == b.count > Requests

Full(b) == b.count >= Requests

Start(t) ==
  LET c == who[t]
      n == now[t]
  IN
  /\ Enter(t)
  /\ MustStart(Cleaned(n)[c], n)
  /\ bucket' = [Cleaned(n) EXCEPT ![c] = [started |-> n, count |-> 1]]
  /\ Admit(c)

Fill(t) ==
  LET c == who[t]
      n == now[t]
  IN
  /\ Enter(t)
  /\ ~ MustStart(Cleaned(n)[c], n)
  /\ ~ Full(Cleaned(n)[c])
  /\ bucket' = [Cleaned(n) EXCEPT ![c].count = @ + 1]
  /\ Admit(c)

\* Mutant: the seconds are cut off.
SecondsCutOff(ticks) == ticks \div Second

\* formatSeconds rounds up; a refusal asks for a second at least.
Seconds(ticks) ==
  IF ticks < Second THEN 1 ELSE (ticks + Second - 1) \div Second

\* 429, with Retry-After as seen from the clock of this moment.
Refuse(t) ==
  LET c == who[t]
      b == Cleaned(now[t])[c]
  IN
  /\ Enter(t)
  /\ ~ MustStart(b, now[t])
  /\ Full(b)
  /\ bucket' = Cleaned(now[t])
  /\ promise' = IF c # Watched THEN promise
                 ELSE clock + Second * Seconds(b.started + Window - clock)
  /\ UNCHANGED admitted

\* Time goes by.
Tick ==
  /\ clock < MaxTime
  /\ \A t \in Thread : peer[t] # Nobody => clock + 1 - now[t] <= Delay
  /\ clock' = clock + 1
  /\ UNCHANGED <<bucket, lastCleanup, peer, who, now, traffic>>

\* What a client may send as X-Forwarded-For.
Header == {<<>>} \cup {<<x>> : x \in Client \cup {Junk}}

Next ==
  \/ \E t \in Thread :
       \/ \E p \in Client, h \in Header : Arrive(t, p, h)
       \/ Start(t) \/ Fill(t) \/ Refuse(t)
  \/ Tick

Spec == Init /\ [][Next]_vars
-----------------------------------------------------------------------------
\* The watched client's requests let through at time x or later; and those of
\* the window that begins with x.
Since(x) == IF x <= 0 THEN admitted[0] ELSE IF x \in Time THEN admitted[x] ELSE 0
Burst(x) == Since(x) - Since(x + Window)

\* A request is charged to the address it comes from, whatever it claims to
\* have been forwarded for (middleware.go:101-116).
ChargedToPeer == \A t \in Thread : who[t] = peer[t]

\* How many buckets a window may meet: one that is being filled up when it
\* begins, and two that are started in it.  A handler that is overtaken by more
\* than half a window can start one more, after a cleanup that it came before.
Buckets == IF 2 * Delay <= Window THEN 3 ELSE 4

\* What the limiter does bound: in no stretch of time as long as a window does
\* a client get more than so many buckets hold, although handlers are overtaken
\* between reading the clock and the mutex (middleware.go:54-98).
BoundedBurst == \A x \in Time : Burst(x) <= Buckets * Requests

\* No client is refused unless Requests requests of its were let through within
\* the window before, or as much earlier as a handler may be overtaken
\* (middleware.go:84-95).
RefusedOnlyWhenFull ==
  [][\A t \in Thread :
       Refuse(t) /\ who[t] = Watched =>
         Since(clock - Delay - Window + 1) >= Requests]_vars

\* A client that comes back when Retry-After said is let through, unless other
\* requests of its were in the meantime (middleware.go:90-94, 118-127).
PromiseKept ==
  \A t \in Thread :
    who[t] = Watched /\ promise # Never /\ now[t] >= promise
      => MustStart(bucket[Watched], now[t])

\* A handler is not overtaken by more than Delay.
Overtaken ==
  \A t \in Thread :
    peer[t] # Nobody => now[t] <= clock /\ clock - now[t] <= Delay

\* What the last cleanup found expired is gone, and not come back with a
\* request that it had overtaken.
Table ==
  /\ lastCleanup <= clock
  /\ \A c \in Client :
       bucket[c].count > 0 => bucket[c].started > lastCleanup - Window

\* The promise outlasts the bucket that it was made for.
Owed ==
  promise # Never =>
    bucket[Watched].count = 0 \/ promise >= bucket[Watched].started + Window

\* After time m, at most k requests have been let through.
After(m, k) == \A x \in Time : x > m => admitted[x] <= k

\* What the watched client has got is in its bucket or in earlier ones, and how
\* long ago these took their last request follows from when the bucket was
\* started and from the last cleanup: a bucket is followed by one that is a
\* window younger, unless a cleanup was overtaken in between, and cleanups are a
\* window apart.
Filled ==
  LET b == bucket[Watched]
      s == b.started
      z == IF s < lastCleanup THEN lastCleanup ELSE s
  IN
  /\ After(clock, 0)
  /\ b.count = 0 =>
       /\ After(lastCleanup - Window + Delay, Requests)
       /\ After(lastCleanup - 2 * Window + Delay, 2 * Requests)
       /\ After(lastCleanup - 3 * Window + 2 * Delay, 3 * Requests)
  /\ b.count > 0 =>
       /\ s <= clock
       /\ \A x \in Time : x <= s => admitted[x] >= b.count
       /\ After(s + Delay, b.count)
       /\ After(s - Window + 2 * Delay, b.count + Requests)
       /\ After(z - Window + Delay, b.count + Requests)
       /\ After(s - 2 * Window + 2 * Delay, b.count + 2 * Requests)
       /\ After(z - 3 * Window + 2 * Delay, b.count + 3 * Requests)

\* The inductive strengthening of the properties.
IInv == TypeOK /\ ChargedToPeer /\ Overtaken /\ Table /\ Owed /\ Filled

\* After a request, no bucket is left that is two windows older than it: the
\* table holds no more than the clients of the last two windows
\* (middleware.go:75-82).
OldBucketsGo ==
  [][\A t \in Thread, c \in Client :
       peer[t] # Nobody /\ peer'[t] = Nobody /\ bucket'[c].count > 0
         => bucket'[c].started > now[t] - 2 * Window]_vars
=============================================================================
