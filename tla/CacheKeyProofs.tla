--------------------------- MODULE CacheKeyProofs ---------------------------
(***************************************************************************)
(* Which evaluations the cache cannot mistake for another.  The first NUL  *)
(* of a joined text ends its first part, when that part holds none; with   *)
(* no NUL in any part there is no choice left for the second one either.   *)
(***************************************************************************)
EXTENDS CacheKey, Integers, SequenceTheorems, TLAPS

\* Text s is a, a NUL and b.
Joined(s, a, b) ==
  /\ s \in Text
  /\ Len(a) \in Nat /\ Len(b) \in Nat /\ Len(s) = Len(a) + 1 + Len(b)
  /\ \A i \in 1..Len(a) : s[i] = a[i]
  /\ s[Len(a) + 1] = NUL
  /\ \A i \in 1..Len(b) : s[Len(a) + 1 + i] = b[i]

\* Lemma: where the characters of a joined text are.
LEMMA JoinFacts ==
  ASSUME NEW a \in Text, NEW b \in Text
  PROVE  Join(a, b) \in Text /\ Joined(Join(a, b), a, b)
<1>1. NUL \in Char
  BY CharAssumption
<1>2. <<NUL>> \in Text /\ Len(<<NUL>>) = 1 /\ <<NUL>>[1] = NUL
  BY <1>1 DEF Text
<1> DEFINE c == a \o <<NUL>>
<1>3. /\ c \in Text /\ Len(c) = Len(a) + 1 /\ Len(a) \in Nat /\ Len(b) \in Nat
      /\ \A i \in 1..Len(a) : c[i] = a[i]
      /\ c[Len(a) + 1] = NUL
  BY <1>2 DEF Text
<1> HIDE DEF c
<1>4. /\ c \o b \in Text /\ Len(c \o b) = Len(c) + Len(b)
      /\ \A i \in 1..Len(c) : (c \o b)[i] = c[i]
      /\ \A i \in 1..Len(b) : (c \o b)[Len(c) + i] = b[i]
  BY <1>3 DEF Text
<1>5. Join(a, b) = c \o b
  BY DEF Join, c
<1> QED
  BY <1>3, <1>4, <1>5 DEF Joined

\* Lemma: texts of one length and with the same characters are one text.
LEMMA SameText ==
  ASSUME NEW a \in Text, NEW b \in Text, Len(a) = Len(b),
         \A i \in 1..Len(a) : a[i] = b[i]
  PROVE  a = b
  BY DEF Text

\* Lemma: the characters of a text without a NUL.
LEMMA NoNul ==
  ASSUME NEW a \in Text
  PROVE  NulFree(a) <=> \A i \in 1..Len(a) : a[i] # NUL
  BY DEF NulFree, Text

\* Lemma: a first part without a NUL is no longer than another.
LEMMA FirstNul ==
  ASSUME NEW s, NEW a \in Text, NEW b \in Text, NEW c \in Text, NEW d \in Text,
         Joined(s, a, b), Joined(s, c, d), NulFree(a)
  PROVE  Len(a) <= Len(c)
<1>1. /\ Len(a) \in Nat /\ Len(c) \in Nat
      /\ \A i \in 1..Len(a) : s[i] = a[i]
      /\ s[Len(c) + 1] = NUL
  BY DEF Joined
<1>2. \A i \in 1..Len(a) : a[i] # NUL
  BY NoNul
<1>3. ASSUME Len(c) < Len(a) PROVE FALSE
  <2>1. Len(c) + 1 \in 1..Len(a)
    BY <1>1, <1>3
  <2> QED
    BY <1>1, <1>2, <2>1
<1> QED
  BY <1>1, <1>3

\* Lemma: and when neither holds a NUL, the parts are the same.
LEMMA SameParts ==
  ASSUME NEW a \in Text, NEW b \in Text, NEW c \in Text, NEW d \in Text,
         Join(a, b) = Join(c, d), NulFree(a), NulFree(c)
  PROVE  a = c /\ b = d
<1> DEFINE s == Join(a, b)
<1>1. Joined(s, a, b) /\ Joined(s, c, d)
  BY JoinFacts
<1> HIDE DEF s
<1>2. /\ Len(a) \in Nat /\ Len(c) \in Nat /\ Len(b) \in Nat /\ Len(d) \in Nat
      /\ Len(a) + 1 + Len(b) = Len(c) + 1 + Len(d)
  BY <1>1 DEF Joined
<1>3. Len(a) = Len(c)
  <2>1. Len(a) <= Len(c) /\ Len(c) <= Len(a)
    BY <1>1, FirstNul
  <2> QED
    BY <1>2, <2>1
<1>4. Len(b) = Len(d)
  BY <1>2, <1>3
<1>5. \A i \in 1..Len(a) : a[i] = c[i]
  BY <1>1, <1>3 DEF Joined
<1>6. \A i \in 1..Len(b) : b[i] = d[i]
  BY <1>1, <1>3, <1>4 DEF Joined
<1> QED
  BY <1>3, <1>4, <1>5, <1>6, SameText

\* Lemma: three parts without a NUL leave no NUL for another first part.
LEMMA NoSpareNul ==
  ASSUME NEW a \in Text, NEW b \in Text, NEW c \in Text,
         NEW d \in Text, NEW e \in Text, NEW f \in Text,
         Join(a, Join(b, c)) = Join(d, Join(e, f)),
         NulFree(a), NulFree(b), NulFree(c)
  PROVE  NulFree(d)
<1> DEFINE s == Join(a, Join(b, c))
           u == Join(b, c)
           v == Join(e, f)
           p == Len(a) + 1
           q == Len(a) + 1 + (Len(b) + 1)
           m == Len(d) + 1
           n == Len(d) + 1 + (Len(e) + 1)
<1>1. /\ u \in Text /\ v \in Text
      /\ Joined(u, b, c) /\ Joined(v, e, f)
  BY JoinFacts
<1>2. Joined(s, a, u) /\ Joined(s, d, v)
  BY <1>1, JoinFacts
<1>3. /\ \A i \in 1..Len(a) : a[i] # NUL
      /\ \A i \in 1..Len(b) : b[i] # NUL
      /\ \A i \in 1..Len(c) : c[i] # NUL
  BY NoNul
<1> HIDE DEF s, u, v
<1>4. /\ Len(a) \in Nat /\ Len(b) \in Nat /\ Len(c) \in Nat
      /\ Len(d) \in Nat /\ Len(e) \in Nat /\ Len(f) \in Nat
      /\ Len(u) = Len(b) + 1 + Len(c) /\ Len(v) = Len(e) + 1 + Len(f)
      /\ Len(s) = Len(a) + 1 + Len(u) /\ Len(s) = Len(d) + 1 + Len(v)
  BY <1>1, <1>2 DEF Joined
<1>5. s[m] = NUL /\ s[n] = NUL
  <2>1. s[m] = NUL /\ \A i \in 1..Len(v) : s[Len(d) + 1 + i] = v[i]
    BY <1>2 DEF Joined
  <2>2. v[Len(e) + 1] = NUL /\ Len(e) + 1 \in 1..Len(v)
    BY <1>1, <1>4 DEF Joined
  <2> QED
    BY <2>1, <2>2
<1>6. ASSUME NEW i \in 1..Len(s), i # p, i # q PROVE s[i] # NUL
  <2>1. CASE i \in 1..Len(a)
    BY <1>2, <1>3, <2>1 DEF Joined
  <2>2. CASE i > Len(a)
    <3> DEFINE j == i - (Len(a) + 1)
    <3>1. j \in 1..Len(u) /\ i = Len(a) + 1 + j /\ j # Len(b) + 1
      BY <1>4, <1>6, <2>2
    <3> HIDE DEF j
    <3>2. s[i] = u[j]
      BY <1>2, <3>1 DEF Joined
    <3>3. CASE j \in 1..Len(b)
      BY <1>1, <1>3, <3>2, <3>3 DEF Joined
    <3>4. CASE j > Len(b)
      <4> DEFINE k == j - (Len(b) + 1)
      <4>1. k \in 1..Len(c) /\ j = Len(b) + 1 + k
        BY <1>4, <3>1, <3>4
      <4> HIDE DEF k
      <4> QED
        BY <1>1, <1>3, <3>2, <4>1 DEF Joined
    <3> QED
      BY <1>4, <3>1, <3>3, <3>4
  <2> QED
    BY <1>4, <2>1, <2>2
<1>7. m = p
  <2>1. m \in 1..Len(s) /\ n \in 1..Len(s) /\ m < n /\ p < q
    BY <1>4
  <2>2. (m = p \/ m = q) /\ (n = p \/ n = q)
    BY <1>5, <1>6, <2>1
  <2>3. m \in Int /\ n \in Int /\ p \in Int /\ q \in Int
    BY <1>4
  <2> HIDE DEF p, q, m, n
  <2> QED
    BY <2>1, <2>2, <2>3
<1>8. ASSUME NEW i \in 1..Len(d) PROVE d[i] # NUL
  <2>1. s[i] = d[i]
    BY <1>2 DEF Joined
  <2>2. i \in 1..Len(s) /\ i # p /\ i # q
    BY <1>4, <1>7
  <2> QED
    BY <1>6, <2>1, <2>2
<1> QED
  BY <1>8, NoNul

\* Theorem: no other evaluation shares the key of a validation, nor that of a
\* question about a value when neither holds a NUL (service.go:75, 91, 167-170).
THEOREM UniqueKey ==
  ASSUME NEW s \in Evaluation, NEW t \in Evaluation, Unmistakable(s),
         cacheKey(s) = cacheKey(t)
  PROVE  s = t
<1>1. /\ s = [operation |-> s.operation, subject |-> s.subject,
              version |-> s.version, value |-> s.value]
      /\ t = [operation |-> t.operation, subject |-> t.subject,
              version |-> t.version, value |-> t.value]
  BY DEF Evaluation
<1>2. /\ s.operation \in Text /\ s.subject \in Text /\ s.version \in Text /\ s.value \in Text
      /\ t.operation \in Text /\ t.subject \in Text /\ t.version \in Text /\ t.value \in Text
      /\ NulFree(s.operation) /\ NulFree(t.operation)
      /\ NulFree(s.version) /\ NulFree(t.version)
  BY CharAssumption DEF Evaluation
<1> DEFINE S == Join(s.subject, Join(s.version, s.value))
           T == Join(t.subject, Join(t.version, t.value))
<1>3. /\ Join(s.version, s.value) \in Text /\ Join(t.version, t.value) \in Text
      /\ S \in Text /\ T \in Text
  BY <1>2, JoinFacts
<1>4. s.operation = t.operation /\ S = T
  <2>1. Join(s.operation, S) = Join(t.operation, T)
    BY DEF cacheKey
  <2> HIDE DEF S, T
  <2> QED
    BY <1>2, <1>3, <2>1, SameParts
<1>5. NulFree(s.subject) /\ NulFree(t.subject)
  <2>1. CASE s.operation = Validate
    BY <1>4, <2>1 DEF Evaluation
  <2>2. CASE NulFree(s.subject) /\ NulFree(s.value)
    <3> DEFINE a == s.subject  b == s.version  c == s.value
               d == t.subject  e == t.version  f == t.value
    <3>1. /\ a \in Text /\ b \in Text /\ c \in Text
          /\ d \in Text /\ e \in Text /\ f \in Text
          /\ NulFree(a) /\ NulFree(b) /\ NulFree(c)
          /\ Join(a, Join(b, c)) = Join(d, Join(e, f))
      BY <1>2, <1>4, <2>2
    <3> HIDE DEF a, b, c, d, e, f
    <3>2. NulFree(d)
      BY <3>1, NoSpareNul
    <3> QED
      BY <2>2, <3>2 DEF d
  <2> QED
    BY <2>1, <2>2 DEF Unmistakable
<1>6. s.subject = t.subject /\ Join(s.version, s.value) = Join(t.version, t.value)
  BY <1>2, <1>3, <1>4, <1>5, SameParts
<1>7. s.version = t.version /\ s.value = t.value
  BY <1>2, <1>6, SameParts
<1> QED
  BY <1>1, <1>4, <1>6, <1>7

\* Lemma: texts are joined from the left or from the right.
LEMMA JoinAssociative ==
  ASSUME NEW a \in Text, NEW b \in Text, NEW c \in Text
  PROVE  Join(Join(a, b), c) = Join(a, Join(b, c))
<1> DEFINE n == <<NUL>>
<1>1. n \in Seq(Char) /\ a \in Seq(Char) /\ b \in Seq(Char) /\ c \in Seq(Char)
  BY CharAssumption DEF Text
<1> HIDE DEF n
<1>2. b \o n \in Seq(Char)
  BY <1>1
<1>3. ((a \o n) \o b) \o n = (a \o n) \o (b \o n)
  BY <1>1, ConcatAssociative
<1>4. ((a \o n) \o (b \o n)) \o c = (a \o n) \o ((b \o n) \o c)
  <2> DEFINE x == a \o n
             y == b \o n
  <2>1. x \in Seq(Char) /\ y \in Seq(Char)
    BY <1>1, <1>2
  <2> HIDE DEF x, y
  <2>2. (x \o y) \o c = x \o (y \o c)
    BY <1>1, <2>1, ConcatAssociative
  <2> QED
    BY <2>2 DEF x, y
<1> QED
  BY <1>3, <1>4 DEF Join, n

\* Theorem: two checks share a key when the question of the one ends like the
\* value of the other begins, after a NUL and the version: what UniqueKey leaves
\* out does happen (service.go:91, 149-152, 167-170).
THEOREM SharedKey ==
  ASSUME NEW q \in Text, NEW n \in Text, NulFree(n), NEW a \in Text, NEW b \in Text,
         NEW s, s = [operation |-> Check, subject |-> Join(q, Join(n, a)),
                     version |-> n, value |-> b],
         NEW t, t = [operation |-> Check, subject |-> q,
                     version |-> n, value |-> Join(a, Join(n, b))]
  PROVE  s \in Evaluation /\ t \in Evaluation /\ s # t /\ cacheKey(s) = cacheKey(t)
<1>1. /\ Join(n, a) \in Text /\ Join(n, b) \in Text
      /\ Join(q, Join(n, a)) \in Text /\ Join(a, Join(n, b)) \in Text
      /\ Check \in Text
  BY JoinFacts, CharAssumption
<1>2. s \in Evaluation /\ t \in Evaluation
  BY <1>1, CharAssumption DEF Evaluation
<1>3. s # t
  <2>1. Joined(Join(q, Join(n, a)), q, Join(n, a))
    BY <1>1, JoinFacts
  <2>2. Len(Join(q, Join(n, a))) # Len(q)
    BY <2>1 DEF Joined
  <2> QED
    BY <2>2
<1>4. Join(Join(q, Join(n, a)), Join(n, b)) = Join(q, Join(n, Join(a, Join(n, b))))
  <2>1. Join(Join(q, Join(n, a)), Join(n, b)) = Join(q, Join(Join(n, a), Join(n, b)))
    BY <1>1, JoinAssociative
  <2>2. Join(Join(n, a), Join(n, b)) = Join(n, Join(a, Join(n, b)))
    BY <1>1, JoinAssociative
  <2> QED
    BY <2>1, <2>2
<1> QED
  BY <1>2, <1>3, <1>4 DEF cacheKey
=============================================================================
