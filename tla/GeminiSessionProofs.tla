---- MODULE GeminiSessionProofs ----
(***************************************************************************)
(* Proofs about ConversationHistory and GeminiSession, for any bounds: the *)
(* types of both; that what is remembered is the longest row of the latest *)
(* messages that fits; that an answer is the text of one try; and that     *)
(* nothing is left open between turns. For these two the loop's place must *)
(* be tied to the backend: it has a prompt only where the loop awaits the  *)
(* answer, so that all that may come at another place adds nothing to the  *)
(* turn, and where the loop waits to try again the failure was heard,      *)
(* unless the backend is disposed of and takes no other prompt.            *)
(***************************************************************************)
EXTENDS GeminiSession, ConversationHistory, SharedLemmas, FiniteSetTheorems, SequenceTheorems

---------------------------------------------------------------------------
(* ConversationHistory. *)

\* The sums there are.
LEMMA SumsExist ==
    ASSUME NEW q \in Seq(Remembered)
    PROVE  \E f : f = [i \in 0..Len(q) |-> IF i = 0 THEN 0 ELSE f[i - 1] + q[i].length]
<1> DEFINE Sum(f, i) == IF i = 0 THEN 0 ELSE f[i - 1] + q[i].length
           E(f, n) == f = [i \in 0..n |-> Sum(f, i)]
           S == {n \in Nat : \E f : E(f, n)}
<1>1. 0 \in S
  <2> DEFINE f == [i \in 0..0 |-> 0]
  <2>1. E(f, 0)
    OBVIOUS
  <2>2. QED
    BY <2>1
<1>2. ASSUME NEW n \in Nat, n \in S PROVE n + 1 \in S
  <2>1. PICK f : E(f, n)
    BY <1>2
  <2> DEFINE g == [i \in 0..(n + 1) |-> IF i = n + 1 THEN f[n] + q[n + 1].length ELSE f[i]]
  <2>2. ASSUME NEW i \in 0..(n + 1) PROVE g[i] = Sum(g, i)
    <3>1. CASE i = 0
      BY <2>1, <3>1
    <3>2. CASE i \in 1..n
      <4>1. g[i] = f[i] /\ g[i - 1] = f[i - 1]
        BY <3>2
      <4>2. f[i] = Sum(f, i)
        BY <2>1, <3>2
      <4>3. QED
        BY <3>2, <4>1, <4>2
    <3>3. CASE i = n + 1
      <4>1. g[i] = f[n] + q[n + 1].length /\ g[i - 1] = f[n]
        BY <3>3
      <4>2. QED
        BY <3>3, <4>1
    <3>4. QED
      BY <3>1, <3>2, <3>3
  <2>3. g = [i \in 0..(n + 1) |-> g[i]]
    OBVIOUS
  <2> HIDE DEF g, Sum
  <2>4. E(g, n + 1)
    BY <2>2, <2>3
  <2>5. QED
    BY <2>4
<1>3. Len(q) \in Nat
  OBVIOUS
<1>4. PICK f : E(f, Len(q))
  <2> HIDE DEF S
  <2>1. Len(q) \in S
    BY <1>1, <1>2, <1>3, SetInduction
  <2>2. QED
    BY <2>1 DEF S
<1>5. QED
  BY <1>4

\* Characters is the last of them.
LEMMA CharactersAreSummed ==
    ASSUME NEW q \in Seq(Remembered)
    PROVE  \E f : /\ f[0] = 0
                  /\ \A i \in 1..Len(q) : f[i] = f[i - 1] + q[i].length
                  /\ Characters(q) = f[Len(q)]
<1> DEFINE E(f) == f = [i \in 0..Len(q) |-> IF i = 0 THEN 0 ELSE f[i - 1] + q[i].length]
           h == CHOOSE f : E(f)
<1>1. \E f : E(f)
  BY SumsExist
<1>2. E(h)
  <2> HIDE DEF E
  <2>1. QED
    BY <1>1
<1>3. Characters(q) = h[Len(q)]
  BY DEF Characters
<1> HIDE DEF h
<1>4. Len(q) \in Nat
  OBVIOUS
<1>5. h[0] = 0 /\ \A i \in 1..Len(q) : h[i] = h[i - 1] + q[i].length
  BY <1>2, <1>4
<1>6. QED
  BY <1>3, <1>5

\* Lengths are numbers.
LEMMA LengthsAreNumbers ==
    ASSUME NEW q \in Seq(Remembered)
    PROVE  Len(q) \in Nat /\ \A i \in 1..Len(q) : q[i] \in Remembered /\ q[i].length \in Nat
<1>1. Len(q) \in Nat /\ \A i \in 1..Len(q) : q[i] \in Remembered
  OBVIOUS
<1>2. \A m \in Remembered : m.length \in Nat
  BY HistoryAssumption DEF Remembered
<1>3. QED
  BY <1>1, <1>2

\* A message adds its length to the characters.
LEMMA CharactersAdd ==
    ASSUME NEW q \in Seq(Remembered), NEW m \in Remembered
    PROVE  /\ Characters(q) \in Nat /\ m.length \in Nat
           /\ Characters(Append(q, m)) = Characters(q) + m.length
<1> DEFINE r == Append(q, m)
<1>1. r \in Seq(Remembered) /\ Len(r) = Len(q) + 1 /\ Len(q) \in Nat
      /\ (\A i \in 1..Len(q) : r[i] = q[i]) /\ r[Len(q) + 1] = m
  OBVIOUS
<1> HIDE DEF r
<1>2. PICK f : /\ f[0] = 0
               /\ \A i \in 1..Len(q) : f[i] = f[i - 1] + q[i].length
               /\ Characters(q) = f[Len(q)]
  BY CharactersAreSummed
<1>3. PICK g : /\ g[0] = 0
               /\ \A i \in 1..Len(r) : g[i] = g[i - 1] + r[i].length
               /\ Characters(r) = g[Len(r)]
  BY <1>1, CharactersAreSummed
<1> DEFINE S == {n \in Nat : n <= Len(q) => f[n] = g[n] /\ f[n] \in Nat}
<1>4. 0 \in S
  BY <1>2, <1>3
<1>5. ASSUME NEW n \in Nat, n \in S PROVE n + 1 \in S
  <2> SUFFICES ASSUME n + 1 <= Len(q) PROVE f[n + 1] = g[n + 1] /\ f[n + 1] \in Nat
    OBVIOUS
  <2>1. f[n] = g[n] /\ f[n] \in Nat /\ n + 1 \in 1..Len(q) /\ n + 1 \in 1..Len(r) /\ (n + 1) - 1 = n
    BY <1>1, <1>5
  <2>2. q[n + 1].length \in Nat /\ r[n + 1] = q[n + 1]
    BY <1>1, <2>1, LengthsAreNumbers
  <2>3. f[n + 1] = f[n] + q[n + 1].length /\ g[n + 1] = g[n] + r[n + 1].length
    BY <1>2, <1>3, <2>1
  <2>4. QED
    BY <2>1, <2>2, <2>3
<1>6. f[Len(q)] = g[Len(q)] /\ f[Len(q)] \in Nat
  <2> HIDE DEF S
  <2>1. Len(q) \in S
    BY <1>1, <1>4, <1>5, SetInduction
  <2>2. QED
    BY <1>1, <2>1 DEF S
<1>7. g[Len(r)] = g[Len(q)] + m.length
  <2>1. Len(r) \in 1..Len(r) /\ Len(r) - 1 = Len(q)
    BY <1>1
  <2>2. QED
    BY <1>1, <1>3, <2>1
<1>8. m.length \in Nat
  BY HistoryAssumption DEF Remembered
<1>9. QED
  BY <1>2, <1>3, <1>6, <1>7, <1>8 DEF r

---------------------------------------------------------------------------
(* Suffixes. *)

\* Two sequences with the same elements are one.
LEMMA SeqsAreEqual ==
    ASSUME NEW T, NEW s \in Seq(T), NEW t \in Seq(T), Len(s) = Len(t), \A i \in 1..Len(s) : s[i] = t[i]
    PROVE  s = t
OBVIOUS

\* The last k of q.
Latest(q, k) == SubSeq(q, Len(q) - k + 1, Len(q))
Within(ms) == InNumber(ms) /\ InLength(ms)

LEMMA LatestOf ==
    ASSUME NEW q \in Seq(Remembered), NEW k \in 0..Len(q)
    PROVE  /\ Latest(q, k) \in Seq(Remembered) /\ Len(Latest(q, k)) = k
           /\ \A i \in 1..k : Latest(q, k)[i] = q[Len(q) - k + i]
<1>1. Len(q) \in Nat /\ Len(q) - k + 1 \in 1..(Len(q) + 1) /\ \A i \in 1..Len(q) : q[i] \in Remembered
  OBVIOUS
<1>2. QED
  BY <1>1 DEF Latest

\* A longer run with the new message is the run with it.
LEMMA LatestAppend ==
    ASSUME NEW q \in Seq(Remembered), NEW m \in Remembered, NEW k \in 0..Len(q)
    PROVE  Latest(Append(q, m), k + 1) = Append(Latest(q, k), m)
<1> DEFINE r == Append(q, m)
<1>1. r \in Seq(Remembered) /\ Len(r) = Len(q) + 1 /\ Len(q) \in Nat
      /\ (\A i \in 1..Len(q) : r[i] = q[i]) /\ r[Len(q) + 1] = m
  OBVIOUS
<1> HIDE DEF r
<1>2. /\ Latest(q, k) \in Seq(Remembered) /\ Len(Latest(q, k)) = k
      /\ \A i \in 1..k : Latest(q, k)[i] = q[Len(q) - k + i]
  BY LatestOf
<1>3. k + 1 \in 0..Len(r)
  BY <1>1
<1>4. /\ Latest(r, k + 1) \in Seq(Remembered) /\ Len(Latest(r, k + 1)) = k + 1
      /\ \A i \in 1..(k + 1) : Latest(r, k + 1)[i] = r[Len(r) - (k + 1) + i]
  BY <1>1, <1>3, LatestOf
<1> DEFINE u == Latest(r, k + 1)
           v == Append(Latest(q, k), m)
<1>5. v \in Seq(Remembered) /\ Len(v) = k + 1 /\ v[k + 1] = m /\ \A i \in 1..k : v[i] = Latest(q, k)[i]
  BY <1>2
<1>6. \A i \in 1..(k + 1) : u[i] = v[i]
  <2> SUFFICES ASSUME NEW i \in 1..(k + 1) PROVE u[i] = v[i]
    OBVIOUS
  <2>1. CASE i = k + 1
    <3>1. Len(r) - (k + 1) + (k + 1) = Len(q) + 1 /\ k + 1 \in 1..(k + 1)
      BY <1>1
    <3>2. u[k + 1] = r[Len(q) + 1]
      BY <1>4, <3>1
    <3>3. QED
      BY <1>1, <1>5, <2>1, <3>2
  <2>2. CASE i \in 1..k
    <3>1. u[i] = r[Len(q) - k + i] /\ Len(q) - k + i \in 1..Len(q)
      <4>1. Len(r) - (k + 1) + i = Len(q) - k + i /\ i \in 1..(k + 1) /\ Len(q) - k + i \in 1..Len(q)
        BY <1>1, <2>2
      <4>2. QED
        BY <1>4, <4>1
    <3>2. QED
      BY <1>1, <1>2, <1>5, <2>2, <3>1
  <2>3. i = k + 1 \/ i \in 1..k
    BY <1>1
  <2>4. QED
    BY <2>1, <2>2, <2>3, Zenon
<1>7. u = v
  <2> HIDE DEF u, v
  <2>1. u \in Seq(Remembered) /\ Len(u) = k + 1
    BY <1>4 DEF u
  <2>2. QED
    BY <1>5, <1>6, <2>1, SeqsAreEqual
<1>8. QED
  BY <1>7 DEF r

\* The latest of the latest.
LEMMA LatestOfLatest ==
    ASSUME NEW q \in Seq(Remembered), NEW n \in 0..Len(q), NEW k \in 0..n
    PROVE  Latest(Latest(q, n), k) = Latest(q, k)
<1> DEFINE r == Latest(q, n)
<1>1. r \in Seq(Remembered) /\ Len(r) = n /\ (\A i \in 1..n : r[i] = q[Len(q) - n + i])
      /\ Len(q) \in Nat /\ k \in 0..Len(q)
  BY LatestOf
<1> HIDE DEF r
<1>2. /\ Latest(r, k) \in Seq(Remembered) /\ Len(Latest(r, k)) = k
      /\ \A i \in 1..k : Latest(r, k)[i] = r[Len(r) - k + i]
  BY <1>1, LatestOf
<1>3. /\ Latest(q, k) \in Seq(Remembered) /\ Len(Latest(q, k)) = k
      /\ \A i \in 1..k : Latest(q, k)[i] = q[Len(q) - k + i]
  BY <1>1, LatestOf
<1>4. ASSUME NEW i \in 1..k PROVE Latest(r, k)[i] = Latest(q, k)[i]
  <2>1. Latest(r, k)[i] = r[n - k + i] /\ n - k + i \in 1..n
    BY <1>1, <1>2
  <2>2. r[n - k + i] = q[Len(q) - n + (n - k + i)] /\ Len(q) - n + (n - k + i) = Len(q) - k + i
    BY <1>1, <2>1
  <2>3. QED
    BY <1>3, <2>1, <2>2
<1>5. Latest(r, k) = Latest(q, k)
  <2> DEFINE u == Latest(r, k)
             v == Latest(q, k)
  <2>1. u \in Seq(Remembered) /\ v \in Seq(Remembered) /\ Len(u) = k /\ Len(v) = k
        /\ \A i \in 1..k : u[i] = v[i]
    BY <1>2, <1>3, <1>4
  <2> HIDE DEF u, v
  <2>2. u = v
    BY <2>1, SeqsAreEqual
  <2>3. QED
    BY <2>2 DEF u, v
<1>6. QED
  BY <1>5 DEF r

\* What is left of q from i on is the latest of q.
LEMMA RestIsLatest ==
    ASSUME NEW q \in Seq(Remembered), NEW i \in 1..(Len(q) + 1)
    PROVE  /\ Len(q) - i + 1 \in 0..Len(q) /\ SubSeq(q, i, Len(q)) = Latest(q, Len(q) - i + 1)
           /\ Len(SubSeq(q, i, Len(q))) = Len(q) - i + 1
<1>1. Len(q) \in Nat /\ Len(q) - i + 1 \in 0..Len(q) /\ Len(q) - (Len(q) - i + 1) + 1 = i
  OBVIOUS
<1>2. SubSeq(q, i, Len(q)) = Latest(q, Len(q) - i + 1)
  BY <1>1 DEF Latest
<1>3. QED
  BY <1>1, <1>2, LatestOf

\* Both loops of the trimming stop, and leave the longest run of the latest messages that is
\* within both limits.
LEMMA TrimLeavesTheLongest ==
    ASSUME NEW ms \in Seq(Remembered)
    PROVE  \E n \in 0..Len(ms) :
              /\ TrimHistory(ms) = Latest(ms, n)
              /\ Within(Latest(ms, n))
              /\ \A k \in (n + 1)..Len(ms) : ~Within(Latest(ms, k))
<1> DEFINE ByNumber(i) == /\ InNumber(SubSeq(ms, i, Len(ms)))
                          /\ \A k \in 1..(i - 1) : ~InNumber(SubSeq(ms, k, Len(ms)))
           i1 == CHOOSE i \in 1..(Len(ms) + 1) : ByNumber(i)
           s1 == SubSeq(ms, i1, Len(ms))
           ByLength(i) == /\ InLength(SubSeq(s1, i, Len(s1)))
                          /\ \A k \in 1..(i - 1) : ~InLength(SubSeq(s1, k, Len(s1)))
           i2 == CHOOSE i \in 1..(Len(s1) + 1) : ByLength(i)
<1>1. TrimHistory(ms) = SubSeq(s1, i2, Len(s1))
  BY DEF TrimHistory
<1>2. Len(ms) \in Nat /\ Len(ms) + 1 \in 1..(Len(ms) + 1)
  OBVIOUS
<1>3. i1 \in 1..(Len(ms) + 1) /\ ByNumber(i1)
  <2> DEFINE S == {i \in 1..(Len(ms) + 1) : InNumber(SubSeq(ms, i, Len(ms)))}
  <2>1. Len(ms) + 1 \in S
    BY <1>2, RestIsLatest, HistoryAssumption DEF InNumber
  <2>2. S \subseteq Nat /\ S \subseteq 1..(Len(ms) + 1)
    BY <1>2
  <2>3. PICK m \in S : \A k \in S : m <= k
    <3> HIDE DEF S
    <3>1. QED
      BY <2>1, <2>2, LeastOf
  <2>4. m \in 1..(Len(ms) + 1) /\ ByNumber(m)
    <3>1. \A k \in 1..(m - 1) : k \notin S /\ k \in 1..(Len(ms) + 1)
      BY <1>2, <2>2, <2>3
    <3>2. QED
      BY <2>3, <3>1
  <2> HIDE DEF ByNumber
  <2>5. QED
    BY <2>4
<1> HIDE DEF i1
<1> DEFINE n1 == Len(ms) - i1 + 1
<1>4. n1 \in 0..Len(ms) /\ s1 = Latest(ms, n1) /\ Len(s1) = n1 /\ s1 \in Seq(Remembered)
  BY <1>3, RestIsLatest, LatestOf
<1>5. n1 <= MaxMessages /\ \A k \in (n1 + 1)..Len(ms) : ~InNumber(Latest(ms, k))
  <2>1. n1 <= MaxMessages
    BY <1>3, <1>4 DEF InNumber
  <2>2. ASSUME NEW k \in (n1 + 1)..Len(ms) PROVE ~InNumber(Latest(ms, k))
    <3>1. Len(ms) - k + 1 \in 1..(i1 - 1)
      BY <1>2, <1>3
    <3>2. QED
      BY <1>3, <3>1 DEF Latest
  <2>3. QED
    BY <2>1, <2>2
<1> HIDE DEF s1, n1
<1>6. i2 \in 1..(Len(s1) + 1) /\ ByLength(i2)
  <2> DEFINE S == {i \in 1..(Len(s1) + 1) : InLength(SubSeq(s1, i, Len(s1)))}
  <2>1. Len(s1) \in Nat /\ Len(s1) + 1 \in 1..(Len(s1) + 1)
    BY <1>4
  <2>2. Len(s1) + 1 \in S
    BY <1>4, <2>1, RestIsLatest DEF InLength
  <2>3. S \subseteq Nat /\ S \subseteq 1..(Len(s1) + 1)
    BY <2>1
  <2>4. PICK m \in S : \A k \in S : m <= k
    <3> HIDE DEF S
    <3>1. QED
      BY <2>2, <2>3, LeastOf
  <2>5. m \in 1..(Len(s1) + 1) /\ ByLength(m)
    <3>1. \A k \in 1..(m - 1) : k \notin S /\ k \in 1..(Len(s1) + 1)
      BY <2>1, <2>3, <2>4
    <3>2. QED
      BY <2>4, <3>1
  <2> HIDE DEF ByLength
  <2>6. QED
    BY <2>5
<1> HIDE DEF i2
<1> DEFINE n2 == Len(s1) - i2 + 1
<1>7. n2 \in 0..n1 /\ SubSeq(s1, i2, Len(s1)) = Latest(s1, n2)
  BY <1>4, <1>6, RestIsLatest
<1>8. InLength(Latest(s1, n2)) /\ \A k \in (n2 + 1)..n1 : ~InLength(Latest(s1, k))
  <2>1. InLength(Latest(s1, n2))
    BY <1>6, <1>7
  <2>2. ASSUME NEW k \in (n2 + 1)..n1 PROVE ~InLength(Latest(s1, k))
    <3>1. Len(s1) - k + 1 \in 1..(i2 - 1)
      BY <1>4, <1>6, <1>7
    <3>2. QED
      BY <1>6, <3>1 DEF Latest
  <2>3. QED
    BY <2>1, <2>2
<1> HIDE DEF n2, ByNumber, ByLength
<1>9. \A k \in 0..n1 : Latest(s1, k) = Latest(ms, k) /\ k \in 0..Len(ms) /\ Len(Latest(ms, k)) = k
  BY <1>2, <1>4, LatestOfLatest, LatestOf
<1>10. TrimHistory(ms) = Latest(ms, n2) /\ n2 \in 0..Len(ms)
  BY <1>1, <1>7, <1>9
<1>11. Within(Latest(ms, n2))
  <2>1. Len(Latest(ms, n2)) <= MaxMessages
    BY <1>4, <1>5, <1>7, <1>9, HistoryAssumption
  <2>2. QED
    BY <1>7, <1>8, <1>9, <2>1 DEF Within, InNumber
<1>12. ASSUME NEW k \in (n2 + 1)..Len(ms) PROVE ~Within(Latest(ms, k))
  <2>1. CASE k \in (n2 + 1)..n1
    <3>1. k \in 0..n1
      BY <1>4, <1>7, <2>1
    <3>2. QED
      BY <1>8, <1>9, <2>1, <3>1 DEF Within
  <2>2. CASE k \in (n1 + 1)..Len(ms)
    BY <1>5, <2>2 DEF Within
  <2>3. QED
    BY <1>2, <1>4, <1>7, <2>1, <2>2
<1>13. QED
  BY <1>10, <1>11, <1>12

---------------------------------------------------------------------------
(* The history. *)

Numbers ==
    /\ currentModel \in Model
    /\ injectHistoryContext \in BOOLEAN
    /\ \A i \in DOMAIN context : context[i].length <= MaxQuoted

LongestLatest(ms, q) ==
    \E n \in 0..Len(q) :
        /\ ms = Latest(q, n) /\ Within(Latest(q, n))
        /\ \A k \in (n + 1)..Len(q) : ~Within(Latest(q, k))

HistoryInv ==
    /\ Numbers
    /\ messages \in Seq(Remembered)
    /\ remembered \in Seq(Remembered) /\ Len(remembered) <= MaxRemembered
    /\ LongestLatest(messages, remembered)

\* With one message more, the longest run of the latest is trimmed out of the one before
\* and the message: a longer one was too long without it.
LEMMA TrimmedOfAll ==
    ASSUME NEW q \in Seq(Remembered), NEW ms, LongestLatest(ms, q), NEW m \in Remembered
    PROVE  /\ TrimHistory(Append(ms, m)) \in Seq(Remembered)
           /\ LongestLatest(TrimHistory(Append(ms, m)), Append(q, m))
<1>1. PICK n \in 0..Len(q) : /\ ms = Latest(q, n) /\ Within(Latest(q, n))
                             /\ \A k \in (n + 1)..Len(q) : ~Within(Latest(q, k))
  BY DEF LongestLatest
<1> DEFINE r == Append(q, m)
           a == Append(ms, m)
<1>2. ms \in Seq(Remembered) /\ Len(ms) = n /\ Len(q) \in Nat
  BY <1>1, LatestOf
<1>3. a \in Seq(Remembered) /\ Len(a) = n + 1 /\ r \in Seq(Remembered) /\ Len(r) = Len(q) + 1
  BY <1>2
<1>4. a = Latest(r, n + 1)
  BY <1>1, LatestAppend
<1>5. PICK t \in 0..Len(a) : /\ TrimHistory(a) = Latest(a, t)
                             /\ Within(Latest(a, t))
                             /\ \A k \in (t + 1)..Len(a) : ~Within(Latest(a, k))
  <2> HIDE DEF a
  <2>1. QED
    BY <1>3, TrimLeavesTheLongest
<1>6. ASSUME NEW k \in (n + 2)..Len(r) PROVE ~Within(Latest(r, k))
  <2>1. k - 1 \in (n + 1)..Len(q) /\ k - 1 \in 0..Len(q) /\ (k - 1) + 1 = k
    BY <1>2, <1>3
  <2> DEFINE l == Latest(q, k - 1)
  <2>2. l \in Seq(Remembered) /\ Len(l) = k - 1
    BY <2>1, LatestOf
  <2>3. Latest(r, k) = Append(l, m)
    BY <2>1, LatestAppend
  <2>4. ~Within(l)
    BY <1>1, <2>1
  <2> HIDE DEF l, r
  <2>5. Characters(l) \in Nat /\ m.length \in Nat /\ Characters(Append(l, m)) = Characters(l) + m.length
        /\ Len(Append(l, m)) = Len(l) + 1 /\ Len(l) \in Nat
    BY <2>2, CharactersAdd
  <2>6. MaxMessages \in Nat /\ MaxCharacters \in Nat
    BY HistoryAssumption
  <2>7. CASE ~InNumber(l)
    <3>1. ~InNumber(Append(l, m))
      BY <2>5, <2>6, <2>7 DEF InNumber
    <3>2. QED
      BY <2>3, <3>1 DEF Within
  <2>8. CASE ~InLength(l)
    <3>1. ~InLength(Append(l, m))
      BY <2>5, <2>6, <2>8 DEF InLength
    <3>2. QED
      BY <2>3, <3>1 DEF Within
  <2>9. QED
    BY <2>4, <2>7, <2>8 DEF Within
<1> HIDE DEF a, r
<1>7. \A k \in 0..(n + 1) : Latest(a, k) = Latest(r, k)
  <2>1. n + 1 \in 0..Len(r)
    BY <1>2, <1>3
  <2>2. QED
    BY <1>3, <1>4, <2>1, LatestOfLatest
<1>8. t \in 0..Len(r) /\ TrimHistory(a) = Latest(r, t) /\ Within(Latest(r, t))
  BY <1>2, <1>3, <1>5, <1>7
<1>9. ASSUME NEW k \in (t + 1)..Len(r) PROVE ~Within(Latest(r, k))
  <2>1. CASE k \in (t + 1)..(n + 1)
    <3>1. k \in 0..(n + 1) /\ k \in (t + 1)..Len(a)
      BY <1>3, <1>5, <2>1
    <3>2. QED
      BY <1>5, <1>7, <3>1
  <2>2. CASE k \in (n + 2)..Len(r)
    BY <1>6, <2>2
  <2>3. QED
    BY <1>2, <1>3, <1>5, <2>1, <2>2
<1>10. TrimHistory(a) \in Seq(Remembered)
  BY <1>3, <1>8, LatestOf
<1>11. QED
  BY <1>8, <1>9, <1>10 DEF LongestLatest, a, r

\* At the start there is none.
LEMMA HistoryInitInv == ConversationInit => HistoryInv
<1> SUFFICES ASSUME ConversationInit PROVE HistoryInv
  OBVIOUS
<1>1. Numbers
  <2>1. \A i \in DOMAIN context : context[i].length <= MaxQuoted
    BY DEF ConversationInit
  <2>2. QED
    BY <2>1, Zenon DEF ConversationInit, Numbers
<1>2. messages = << >> /\ remembered = << >>
  BY DEF ConversationInit
<1> DEFINE e == << >>
<1>3. e \in Seq(Remembered) /\ Len(e) = 0
  OBVIOUS
<1>4. Latest(e, 0) \in Seq(Remembered) /\ Len(Latest(e, 0)) = 0
  <2> HIDE DEF e
  <2>1. 0 \in 0..Len(e)
    BY <1>3
  <2>2. QED
    BY <1>3, <2>1, LatestOf
<1>5. Latest(e, 0) = e
  BY <1>4
<1>6. Within(e)
  BY <1>3, HistoryAssumption DEF Within, InNumber, InLength
<1>7. LongestLatest(e, e)
  <2> HIDE DEF e
  <2>1. QED
    BY <1>3, <1>5, <1>6 DEF LongestLatest
<1>8. QED
  BY <1>1, <1>2, <1>3, <1>7, HistoryAssumption DEF HistoryInv

\* A message, of the user or of the agent.
LEMMA AddKeeps ==
    ASSUME HistoryInv, NEW role \in Roles, NEW text \in Said \union {"blank"}, NEW length \in Length,
           NEW model \in Model \union {"none"}, Len(remembered) < MaxRemembered,
           Add(role, text, length, model),
           UNCHANGED <<currentModel, injectHistoryContext, context>>
    PROVE  HistoryInv'
<1>1. Numbers'
  BY DEF HistoryInv, Numbers
<1>2. CASE UNCHANGED <<messages, remembered>>
  BY <1>1, <1>2 DEF HistoryInv
<1>3. CASE ~UNCHANGED <<messages, remembered>>
  <2> DEFINE m == [role |-> role, text |-> text, length |-> length, model |-> model]
  <2>1. text # "blank" /\ messages' = TrimHistory(Append(messages, m)) /\ remembered' = Append(remembered, m)
    BY <1>3 DEF Add
  <2>2. m \in Remembered
    BY <2>1 DEF Remembered
  <2> HIDE DEF m
  <2>3. remembered' \in Seq(Remembered) /\ Len(remembered') = Len(remembered) + 1 /\ Len(remembered) \in Nat
    BY <2>1, <2>2 DEF HistoryInv
  <2>4. messages' \in Seq(Remembered) /\ LongestLatest(messages', remembered')
    BY <2>1, <2>2, TrimmedOfAll DEF HistoryInv
  <2>5. Len(remembered') <= MaxRemembered
    BY <2>3, HistoryAssumption
  <2>6. QED
    BY <1>1, <2>3, <2>4, <2>5 DEF HistoryInv
<1>4. QED
  BY <1>2, <1>3

\* Every step keeps the history the longest run.
LEMMA HistoryNextInv ==
    ASSUME HistoryInv, [ConversationNext]_conversationVars
    PROVE  HistoryInv'
<1>1. ASSUME NEW text \in Said \union {"blank"}, NEW length \in Length,
             AddUserMessage(text, length) \/ AddAssistantMessage(text, length)
      PROVE  HistoryInv'
  <2>1. currentModel \in Model \union {"none"} /\ "none" \in Model \union {"none"}
        /\ "user" \in Roles /\ "assistant" \in Roles
    BY DEF HistoryInv, Numbers, Roles
  <2>2. QED
    BY <1>1, <2>1, AddKeeps DEF AddUserMessage, AddAssistantMessage
<1>2. ASSUME NEW model \in Model, SwitchModel(model) PROVE HistoryInv'
  <2>1. Numbers'
    BY <1>2, Zenon DEF SwitchModel, HistoryInv, Numbers
  <2>2. QED
    BY <1>2, <2>1 DEF SwitchModel, HistoryInv
<1>3. CASE SendsPrompt
  <2>1. \A i \in DOMAIN context' : context'[i].length <= MaxQuoted
    <3>1. CASE context' = << >>
      BY <3>1
    <3>2. CASE context' = GetContextForNewSession
      <4>1. \A i \in DOMAIN messages : messages[i].length \in Nat
        <5>1. messages \in Seq(Remembered)
          BY DEF HistoryInv
        <5>2. QED
          BY <5>1, LengthsAreNumbers
      <4>2. QED
        BY <3>2, <4>1, HistoryAssumption DEF GetContextForNewSession, Quoted
    <3>3. QED
      BY <1>3, <3>1, <3>2 DEF SendsPrompt
  <2>2. Numbers'
    BY <1>3, <2>1 DEF SendsPrompt, HistoryInv, Numbers
  <2>3. QED
    BY <1>3, <2>2 DEF SendsPrompt, HistoryInv
<1>4. CASE UNCHANGED conversationVars
  BY <1>4 DEF conversationVars, HistoryInv, Numbers
<1>5. QED
  BY <1>1, <1>2, <1>3, <1>4 DEF ConversationNext

LEMMA HistoryInvariance == ConversationSpec => []HistoryInv
BY HistoryInitInv, HistoryNextInv, PTL DEF ConversationSpec

\* The history, the quotations and the flags keep their types.
THEOREM ConversationTypeCorrect == ConversationSpec => []ConversationTypeOK
<1>1. HistoryInv => ConversationTypeOK
  BY DEF HistoryInv, Numbers, ConversationTypeOK
<1>2. QED
  BY <1>1, HistoryInvariance, PTL

\* Trimmed at every message, by number and then by length, the history is still the longest
\* run of all that was ever said that is within both limits.
THEOREM TheLatestAreKept == ConversationSpec => []HistoryIsRecent
<1>1. HistoryInv => HistoryIsRecent
  BY DEF HistoryInv, LongestLatest, Latest, Within, HistoryIsRecent
<1>2. QED
  BY <1>1, HistoryInvariance, PTL

---------------------------------------------------------------------------
(* GeminiSession. *)

LoopTypes ==
    /\ pc \in {"wait", "disposing", "restarting", "starting", "prompt", "prompting",
               "responding", "delaying", "turnEnd", "cleanup", "closing", "exited"}
    /\ mode \in Mode \union {NoMode} /\ geminiBackend \in Mode \union {NoMode}
    /\ currentModeHash \in Mode \union {NoMode} /\ permissionMode \in Mode \union {NoMode}
    /\ wasSessionCreated \in BOOLEAN
    /\ aborted \in BOOLEAN /\ aborting \in BOOLEAN /\ shouldExit \in BOOLEAN
    /\ killing \in {"no", "aborting", "disposing", "exiting"}
    /\ pendingRequests \subseteq Tool

\* Prompts are numbered as they come.
PromptTypes ==
    /\ messageQueue \in Seq(Prompt)
    /\ \A i \in DOMAIN messageQueue : messageQueue[i].id \in 1..pushed
    /\ batch \subseteq 1..pushed /\ settled \subseteq 1..pushed
    /\ pushed \in 0..MaxPrompts
    /\ aborts \in 0..MaxAborts

\* A turn's thoughts are closed but for its section's, and its answer is of one try.
TurnKept(u) ==
    /\ u \in Turn
    /\ ThoughtsClosed(u.section, u.shown)
    /\ u.output \subseteq {u.tries}

\* The agent has a prompt only while the loop awaits the answer. Between turns nothing is
\* open; before another try the answer is empty.
TurnFits ==
    /\ prompt => pc \in {"prompting", "exited"}
    /\ pc = "wait" => pendingRequests = {} /\ turn.section = NoSection /\ turn.thinking = FALSE
    /\ pc = "delaying" => /\ turn.tries < MaxTries
                          /\ disposal = "no" => turn.output = {}

GeminiInv ==
    /\ AcpTypeOK
    /\ LoopTypes
    /\ PromptTypes
    /\ TurnKept(turn)
    /\ TurnFits

---------------------------------------------------------------------------
(* What a turn hears. *)

\* Nothing is emitted.
LEMMA HeardNone == ASSUME NEW u PROVE HeardAll(u, << >>) = u
<1> DEFINE E(f) == f = [n \in 0..Len(<< >>) |-> IF n = 0 THEN u ELSE HearOne(f[n - 1], << >>[n])]
           g == [n \in 0..0 |-> u]
           f == CHOOSE f : E(f)
<1>1. HeardAll(u, << >>) = f[Len(<< >>)]
  BY DEF HeardAll
<1>2. E(g)
  OBVIOUS
<1> HIDE DEF g
<1>3. E(f)
  <2> HIDE DEF E
  <2>1. QED
    BY <1>2
<1> HIDE DEF f
<1>4. f[0] = u
  BY <1>3
<1>5. QED
  BY <1>1, <1>4

\* One message is.
LEMMA HeardOne == ASSUME NEW u, NEW a PROVE HeardAll(u, <<a>>) = HearOne(u, a)
<1> DEFINE E(f) == f = [n \in 0..Len(<<a>>) |-> IF n = 0 THEN u ELSE HearOne(f[n - 1], <<a>>[n])]
           g == [n \in 0..1 |-> IF n = 0 THEN u ELSE HearOne(u, a)]
           f == CHOOSE f : E(f)
<1>1. HeardAll(u, <<a>>) = f[Len(<<a>>)]
  BY DEF HeardAll
<1>2. E(g)
  <2>1. ASSUME NEW n \in 0..1 PROVE g[n] = IF n = 0 THEN u ELSE HearOne(g[n - 1], <<a>>[n])
    <3>1. n = 0 \/ n = 1
      OBVIOUS
    <3>2. QED
      BY <3>1
  <2>2. Len(<<a>>) = 1 /\ g = [n \in 0..1 |-> g[n]]
    OBVIOUS
  <2> HIDE DEF g
  <2>3. QED
    BY <2>1, <2>2
<1> HIDE DEF g
<1>3. E(f)
  <2> HIDE DEF E
  <2>1. QED
    BY <1>2
<1> HIDE DEF f
<1>4. f[0] = u /\ f[1] = HearOne(f[0], a)
  BY <1>3
<1>5. QED
  BY <1>1, <1>4

\* Two are.
LEMMA HeardTwo == ASSUME NEW u, NEW a, NEW b PROVE HeardAll(u, <<a, b>>) = HearOne(HearOne(u, a), b)
<1> DEFINE E(f) == f = [n \in 0..Len(<<a, b>>) |-> IF n = 0 THEN u ELSE HearOne(f[n - 1], <<a, b>>[n])]
           g == [n \in 0..2 |-> IF n = 0 THEN u ELSE IF n = 1 THEN HearOne(u, a) ELSE HearOne(HearOne(u, a), b)]
           f == CHOOSE f : E(f)
<1>1. HeardAll(u, <<a, b>>) = f[Len(<<a, b>>)]
  BY DEF HeardAll
<1>2. E(g)
  <2>1. ASSUME NEW n \in 0..2 PROVE g[n] = IF n = 0 THEN u ELSE HearOne(g[n - 1], <<a, b>>[n])
    <3>1. n = 0 \/ n = 1 \/ n = 2
      OBVIOUS
    <3>2. QED
      BY <3>1
  <2>2. Len(<<a, b>>) = 2 /\ g = [n \in 0..2 |-> g[n]]
    OBVIOUS
  <2> HIDE DEF g
  <2>3. QED
    BY <2>1, <2>2
<1> HIDE DEF g
<1>3. E(f)
  <2> HIDE DEF E
  <2>1. QED
    BY <1>2
<1> HIDE DEF f
<1>4. f[0] = u /\ f[1] = HearOne(f[0], a) /\ f[2] = HearOne(f[1], b)
  BY <1>3
<1>5. QED
  BY <1>1, <1>4

\* The processor's part of a turn.
LEMMA ReasonedKeeps ==
    ASSUME NEW u, TurnKept(u), NEW s, NEW ms, ThoughtsClosed(s, SeenAll(u.shown, ms))
    PROVE  LET v == Reasoned(u, s, ms)
           IN  /\ TurnKept(v) /\ v.section = s
               /\ v.tries = u.tries /\ v.thinking = u.thinking /\ v.output = u.output
<1> DEFINE sh == SeenAll(u.shown, ms)
<1>1. s \in Section /\ sh \in Seq(Nat)
  BY DEF ThoughtsClosed
<1>2. Reasoned(u, s, ms) = [u EXCEPT !.section = s, !.shown = sh]
  BY DEF Reasoned, TurnKept, Turn
<1>3. ThoughtsClosed(s, sh)
  OBVIOUS
<1> HIDE DEF sh
<1> DEFINE v == [u EXCEPT !.section = s, !.shown = sh]
<1>4. /\ v \in Turn /\ v.section = s /\ v.shown = sh
      /\ v.tries = u.tries /\ v.thinking = u.thinking /\ v.output = u.output
  BY <1>1 DEF TurnKept, Turn
<1> HIDE DEF v
<1>5. TurnKept(v)
  BY <1>3, <1>4 DEF TurnKept
<1>6. QED
  BY <1>2, <1>4, <1>5 DEF v

\* A turn that ends with nothing open has no thoughts.
LEMMA BrokenOffKeeps ==
    ASSUME NEW u, TurnKept(u)
    PROVE  LET v == BrokenOff(u)
           IN  /\ TurnKept(v) /\ v.section = NoSection
               /\ v.tries = u.tries /\ v.thinking = u.thinking /\ v.output = u.output
<1>1. ThoughtsClosed(NoSection, SeenAll(u.shown, SentByBreakingOff(u.section)))
  BY BreakingOffKeeps DEF TurnKept
<1>2. QED
  BY <1>1, ReasonedKeeps DEF BrokenOff

\* A turn that goes on: the same try.
Kept(u, v) == TurnKept(v) /\ v.tries = u.tries

\* One to which nothing is added.
Calmed(u, v) ==
    /\ Kept(u, v)
    /\ v.output \subseteq u.output
    /\ u.thinking = FALSE => v.thinking = FALSE
    /\ u.section = NoSection => v.section = NoSection

\* Messages that add nothing to the answer or to the thoughts.
Calm == {m \in Message : m.type \notin {"output", "running", "thought"}}

\* The end of a section of thoughts adds nothing.
LEMMA IdleHeardCalms ==
    ASSUME NEW u, TurnKept(u) PROVE Calmed(u, IdleHeard(u))
<1>1. u.section \in Section /\ u.section.text \in Text
  BY DEF TurnKept, ThoughtsClosed, Section
<1>2. ThoughtsClosed(Completed(u.section, u.section.text),
                     SeenAll(u.shown, SentByCompleting(u.section, u.section.text, Fresh(u.shown))))
  BY <1>1, CompletingKeeps DEF TurnKept
<1> DEFINE v == IdleHeard(u)
<1>3. /\ TurnKept(v) /\ v.section = Completed(u.section, u.section.text)
      /\ v.tries = u.tries /\ v.thinking = u.thinking /\ v.output = u.output
  BY <1>2, ReasonedKeeps DEF IdleHeard
<1> HIDE DEF v
<1>4. u.section = NoSection => Completed(u.section, u.section.text) = NoSection
  BY DEF Completed
<1>5. Calmed(u, v)
  BY <1>3, <1>4 DEF Calmed, Kept
<1>6. QED
  BY <1>5 DEF v

\* An error throws the answer away.
LEMMA ErrorHeardCalms ==
    ASSUME NEW u, TurnKept(u) PROVE Calmed(u, ErrorHeard(u)) /\ ErrorHeard(u).output = {}
<1>1. /\ ErrorHeard(u) \in Turn /\ ErrorHeard(u).output = {} /\ ErrorHeard(u).thinking = FALSE
      /\ ErrorHeard(u).section = u.section /\ ErrorHeard(u).shown = u.shown
      /\ ErrorHeard(u).tries = u.tries
  BY DEF ErrorHeard, TurnKept, Turn
<1>2. QED
  BY <1>1 DEF Calmed, Kept, TurnKept

\* A chunk of thought.
LEMMA ThoughtHeardKeeps ==
    ASSUME NEW u, TurnKept(u), NEW chunk \in Chunk PROVE Kept(u, ThoughtHeard(u, chunk))
<1>1. ThoughtsClosed(Processed(u.section, chunk, Fresh(u.shown)),
                     SeenAll(u.shown, SentByProcessing(u.section, chunk, Fresh(u.shown))))
  BY ProcessingKeeps DEF TurnKept
<1>2. QED
  BY <1>1, ReasonedKeeps DEF ThoughtHeard, Kept

\* A calm message adds nothing.
LEMMA HearOneCalms ==
    ASSUME NEW u, TurnKept(u), NEW m \in Calm PROVE Calmed(u, HearOne(u, m))
<1>1. CASE m.type \in {"idle", "stopped"}
  BY <1>1, IdleHeardCalms DEF HearOne, Calm
<1>2. CASE m.type = "error"
  BY <1>2, ErrorHeardCalms DEF HearOne, Calm
<1>3. CASE m.type \notin {"idle", "stopped", "error"}
  <2>1. HearOne(u, m) = u
    BY <1>3 DEF HearOne, Calm, PassedOn
  <2>2. QED
    BY <2>1 DEF Calmed, Kept
<1>4. QED
  BY <1>1, <1>2, <1>3

\* No message starts another try, or leaves a call open without its section.
LEMMA HearOneKeeps ==
    ASSUME NEW u, TurnKept(u), NEW m \in Message PROVE Kept(u, HearOne(u, m))
<1>1. CASE m.type = "output"
  <2> DEFINE v == [u EXCEPT !.output = @ \union {u.tries}]
  <2>1. /\ v \in Turn /\ v.output = u.output \union {u.tries} /\ v.section = u.section
        /\ v.shown = u.shown /\ v.tries = u.tries
    BY DEF TurnKept, Turn
  <2>2. HearOne(u, m) = v
    BY <1>1 DEF HearOne
  <2> HIDE DEF v
  <2>3. QED
    BY <2>1, <2>2 DEF Kept, TurnKept
<1>2. CASE m.type = "running"
  <2> DEFINE v == [u EXCEPT !.thinking = TRUE, !.taskStarted = TRUE]
  <2>1. /\ v \in Turn /\ v.output = u.output /\ v.section = u.section
        /\ v.shown = u.shown /\ v.tries = u.tries
    BY DEF TurnKept, Turn
  <2>2. HearOne(u, m) = v
    BY <1>2 DEF HearOne
  <2> HIDE DEF v
  <2>3. QED
    BY <2>1, <2>2 DEF Kept, TurnKept
<1>3. CASE m.type = "thought"
  <2>1. m.chunk \in Chunk
    BY <1>3 DEF Message, Status, Chunk
  <2>2. HearOne(u, m) = ThoughtHeard(u, m.chunk)
    BY <1>3 DEF HearOne
  <2>3. QED
    BY <2>1, <2>2, ThoughtHeardKeeps
<1>4. CASE m \in Calm
  BY <1>4, HearOneCalms DEF Calmed
<1>5. QED
  BY <1>1, <1>2, <1>3, <1>4 DEF Calm

\* What the backend emits at once: two messages at most.
AtMostTwo(Ms) == {<< >>} \union {<<a>> : a \in Ms} \union {<<x[1], x[2]>> : x \in Ms \X Ms}

\* So it is with what is emitted at once.
LEMMA HeardKeeps ==
    ASSUME NEW u, TurnKept(u), NEW ms \in AtMostTwo(Message) PROVE Kept(u, HeardAll(u, ms))
<1>1. CASE ms = << >>
  BY <1>1, HeardNone DEF Kept
<1>2. CASE \E a \in Message : ms = <<a>>
  BY <1>2, HeardOne, HearOneKeeps
<1>3. CASE \E a \in Message, b \in Message : ms = <<a, b>>
  <2>1. PICK a \in Message, b \in Message : ms = <<a, b>>
    BY <1>3
  <2>2. Kept(u, HearOne(u, a))
    BY HearOneKeeps
  <2>3. Kept(HearOne(u, a), HearOne(HearOne(u, a), b))
    BY <2>2, HearOneKeeps DEF Kept
  <2>4. HeardAll(u, ms) = HearOne(HearOne(u, a), b)
    BY <2>1, HeardTwo
  <2>5. QED
    BY <2>2, <2>3, <2>4 DEF Kept
<1>4. QED
  BY <1>1, <1>2, <1>3 DEF AtMostTwo

\* And calm messages add nothing.
LEMMA HeardCalms ==
    ASSUME NEW u, TurnKept(u), NEW ms \in AtMostTwo(Calm) PROVE Calmed(u, HeardAll(u, ms))
<1>1. CASE ms = << >>
  BY <1>1, HeardNone DEF Calmed, Kept
<1>2. CASE \E a \in Calm : ms = <<a>>
  BY <1>2, HeardOne, HearOneCalms
<1>3. CASE \E a \in Calm, b \in Calm : ms = <<a, b>>
  <2>1. PICK a \in Calm, b \in Calm : ms = <<a, b>>
    BY <1>3
  <2>2. Calmed(u, HearOne(u, a))
    BY HearOneCalms
  <2>3. Calmed(HearOne(u, a), HearOne(HearOne(u, a), b))
    BY <2>2, HearOneCalms DEF Calmed, Kept
  <2>4. HeardAll(u, ms) = HearOne(HearOne(u, a), b)
    BY <2>1, HeardTwo
  <2>5. QED
    BY <2>2, <2>3, <2>4 DEF Calmed, Kept
<1>4. QED
  BY <1>1, <1>2, <1>3 DEF AtMostTwo

\* Messages of the kinds there are.
LEMMA TheMessages ==
    /\ \A type \in Status \union {"output", "plan"} : M(type) \in Message
    /\ \A type \in {"starting", "idle", "stopped", "error", "plan"} : M(type) \in Calm
    /\ \A chunk \in {"plain", "whole"} : [type |-> "thought", chunk |-> chunk] \in Message
    /\ \A t \in Tool : /\ [type |-> "tool-call", call |-> t] \in Calm
                       /\ [type |-> "tool-result", call |-> t] \in Calm
                       /\ [type |-> "permission-request", call |-> t] \in Calm
BY DEF Message, Status, Calm, M

---------------------------------------------------------------------------
(* What the backend does to its own state and to the turn. *)

Keeps == Kept(turn, turn')
Calms == Calmed(turn, turn')

\* A message is emitted to the turn, if the backend is not disposed of.
LEMMA EmitKeeps ==
    ASSUME TurnKept(turn), NEW ms \in AtMostTwo(Message), Emit(ms) PROVE Keeps
<1>1. CASE disposal = "no"
  BY <1>1, HeardKeeps DEF Emit, EmitTo, Keeps
<1>2. CASE disposal # "no"
  BY <1>2 DEF Emit, EmitTo, Keeps, Kept
<1>3. QED
  BY <1>1, <1>2

\* A turn that is left alone.
LEMMA QuietCalms == ASSUME TurnKept(turn), turn' = turn PROVE Calms
BY DEF Calms, Calmed, Kept

\* Calm messages.
LEMMA EmitCalms ==
    ASSUME TurnKept(turn), NEW ms \in AtMostTwo(Calm), Emit(ms) PROVE Calms
<1>1. CASE disposal = "no"
  BY <1>1, HeardCalms DEF Emit, EmitTo, Calms
<1>2. CASE disposal # "no"
  BY <1>2, QuietCalms DEF Emit, EmitTo
<1>3. QED
  BY <1>1, <1>2

\* The sequences of messages that the backend emits.
LEMMA AtMostTwoHas ==
    ASSUME NEW Ms
    PROVE  /\ << >> \in AtMostTwo(Ms)
           /\ \A a \in Ms : <<a>> \in AtMostTwo(Ms)
           /\ \A a \in Ms, b \in Ms : <<a, b>> \in AtMostTwo(Ms)
<1>1. ASSUME NEW a \in Ms, NEW b \in Ms PROVE <<a, b>> \in AtMostTwo(Ms)
  <2>1. <<a, b>> \in Ms \X Ms /\ <<a, b>>[1] = a /\ <<a, b>>[2] = b
    OBVIOUS
  <2>2. QED
    BY <2>1, Zenon DEF AtMostTwo
<1>2. QED
  BY <1>1 DEF AtMostTwo

\* What is appended comes last.
LEMMA AppendedIsLast ==
    ASSUME NEW S, NEW s \in Seq(S), NEW b \in S
    PROVE  /\ Append(s, b) \in Seq(S) /\ Len(Append(s, b)) = Len(s) + 1
           /\ Append(s, b)[Len(s) + 1] = b
           /\ \A i \in 1..Len(s) : Append(s, b)[i] = s[i]
OBVIOUS

\* A second one.
LEMMA AppendOne == ASSUME NEW a, NEW b PROVE Append(<<a>>, b) = <<a, b>>
<1> DEFINE s == <<a>>
           S == {a, b}
           t == Append(s, b)
<1>1. s \in Seq(S) /\ b \in S
  OBVIOUS
<1>2. Len(s) + 1 = 2 /\ 1 \in 1..Len(s) /\ s[1] = a
  OBVIOUS
<1> HIDE DEF s, S
<1>3. /\ t \in Seq(S) /\ Len(t) = Len(s) + 1 /\ t[Len(s) + 1] = b
      /\ \A i \in 1..Len(s) : t[i] = s[i]
  BY <1>1, AppendedIsLast
<1> HIDE DEF t
<1>4. Len(t) = 2 /\ t[1] = a /\ t[2] = b
  BY <1>2, <1>3, Zenon
<1>5. t = [i \in 1..2 |-> t[i]]
  <2>1. Len(t) = 2
    BY <1>4
  <2>2. t \in Seq(S)
    BY <1>3, Zenon
  <2>3. QED
    BY <2>1, <2>2
<1>6. \A i \in 1..2 : t[i] = <<a, b>>[i]
  BY <1>4
<1>7. t = <<a, b>>
  <2>1. <<a, b>> = [i \in 1..2 |-> <<a, b>>[i]] 
    OBVIOUS
  <2>2. QED
    BY <1>5, <1>6, <2>1
<1>8. QED
  BY <1>7 DEF t, s

\* Sequences put together.
LEMMA ConcatNone == ASSUME NEW a PROVE <<a>> \o << >> = <<a>>
OBVIOUS

\* Two of them.
LEMMA ConcatOne == ASSUME NEW a, NEW b PROVE <<a>> \o <<b>> = <<a, b>>
<1> DEFINE s == <<a>>
           S == {a, b}
<1>1. s \in Seq(S) /\ b \in S
  OBVIOUS
<1> HIDE DEF S, s
<1>2. Append(s, b) = s \o <<b>>
  BY <1>1, AppendIsConcat
<1>3. QED
  BY <1>2, AppendOne DEF s

\* Emitting one message, and the idle status after it or not.
LEMMA IdleCalms ==
    ASSUME TurnKept(turn), waitingForResponse \in BOOLEAN, idleResolver \in BOOLEAN,
           NEW ms, ms = << >> \/ (\E a \in Calm : ms = <<a>>), NEW idle, EmitAndIdle(ms, idle)
    PROVE  Calms /\ waitingForResponse' \in BOOLEAN /\ idleResolver' \in BOOLEAN
<1>1. M("idle") \in Calm
  BY TheMessages
<1>2. CASE idle
  <2>1. Append(ms, M("idle")) \in AtMostTwo(Calm)
    <3>1. CASE ms = << >>
      <4>1. Append(ms, M("idle")) = <<M("idle")>>
        BY <3>1
      <4>2. QED
        BY <1>1, <4>1, AtMostTwoHas
    <3>2. CASE \E a \in Calm : ms = <<a>>
      <4>1. PICK a \in Calm : ms = <<a>>
        BY <3>2
      <4>2. Append(ms, M("idle")) = <<a, M("idle")>>
        BY <4>1, AppendOne
      <4>3. QED
        BY <1>1, <4>2, AtMostTwoHas
    <3>3. QED
      BY <3>1, <3>2
  <2>2. Emit(Append(ms, M("idle"))) /\ idleResolver' = FALSE
        /\ waitingForResponse' = (waitingForResponse /\ ~idleResolver)
    BY <1>2 DEF EmitAndIdle
  <2>3. waitingForResponse' \in BOOLEAN /\ idleResolver' \in BOOLEAN
    BY <2>2, Zenon
  <2>4. QED
    BY <2>1, <2>2, <2>3, EmitCalms
<1>3. CASE ~idle
  <2>1. Emit(ms) /\ UNCHANGED waitVars
    BY <1>3 DEF EmitAndIdle
  <2>2. ms \in AtMostTwo(Calm)
    BY AtMostTwoHas
  <2>3. QED
    BY <2>1, <2>2, EmitCalms DEF waitVars
<1>4. QED
  BY <1>2, <1>3

\* The types in parts: of the process,
ProcessTypes ==
    /\ starting \in {"no", "initialize", "newSession"}
    /\ attempt \in 1..MaxAttempts
    /\ process \in 0..MaxProcesses /\ alive \subseteq 1..MaxProcesses

\* of the prompt and the calls,
AgentTypes ==
    /\ activeToolCalls \subseteq Tool /\ toolCallTimeouts \subseteq Tool
    /\ asking \subseteq Tool
    /\ disposal \in {"no", "cancelling", "killing", "disposed"}
    /\ updates \in 0..MaxUpdates

\* and the flags.
Flags ==
    /\ acpSession \in BOOLEAN
    /\ idleTimeout \in BOOLEAN
    /\ waitingForResponse \in BOOLEAN /\ idleResolver \in BOOLEAN
    /\ prompt \in BOOLEAN
    /\ cancelled \in BOOLEAN

LEMMA AcpTypes == AcpTypeOK <=> ProcessTypes /\ AgentTypes /\ Flags
BY DEF AcpTypeOK, ProcessTypes, AgentTypes, Flags

LEMMA AcpTypesNext == AcpTypeOK' <=> ProcessTypes' /\ AgentTypes' /\ Flags'
BY DEF AcpTypeOK, ProcessTypes, AgentTypes, Flags

USE DEF startVars, toolVars, waitVars, agentVars, quietVars, acpVars, Quiet

---------------------------------------------------------------------------
(* The backend's steps. *)

\* Starting a session. A process that is spawned is one that does not run yet.
LEMMA SpawnKeeps ==
    ASSUME AcpTypeOK, TurnKept(turn), NEW others \in SUBSET alive, Spawn(others)
    PROVE  ProcessTypes' /\ Calms
<1>1. ProcessTypes /\ MaxProcesses \in Nat /\ MaxAttempts \in Nat \ {0}
  BY AcpTypes, AcpBackendAssumption
<1>2. \E p \in 1..MaxProcesses : p \notin others
  <2>1. ASSUME 1..MaxProcesses \subseteq others PROVE FALSE
    <3>1. others = 1..MaxProcesses
      BY <1>1, <2>1 DEF ProcessTypes
    <3>2. Cardinality(1..MaxProcesses) = MaxProcesses
      BY <1>1, FS_Interval
    <3>3. Cardinality(others) < MaxProcesses
      BY DEF Spawn
    <3>4. QED
      BY <1>1, <3>1, <3>2, <3>3
  <2>2. QED
    BY <2>1
<1>3. process' \in 1..MaxProcesses
  BY <1>2 DEF Spawn
<1>4. process' \in 0..MaxProcesses /\ alive' \subseteq 1..MaxProcesses
  <2>1. others \subseteq 1..MaxProcesses
    BY <1>1 DEF ProcessTypes
  <2>2. alive' = others \union {process'}
    BY DEF Spawn
  <2>3. process' \in 0..MaxProcesses
    BY <1>1, <1>3
  <2>4. QED
    BY <1>3, <2>1, <2>2, <2>3
<1>5. starting' = "initialize" /\ attempt' \in 1..MaxAttempts
  BY <1>1 DEF Spawn
<1>6. <<M("starting")>> \in AtMostTwo(Calm)
  BY TheMessages, AtMostTwoHas
<1>7. Calms
  BY <1>6, HeardCalms DEF Spawn, Calms
<1>8. QED
  BY <1>4, <1>5, <1>7 DEF ProcessTypes

LEMMA StartSessionKeeps ==
    ASSUME AcpTypeOK, TurnKept(turn), StartSession
    PROVE  AcpTypeOK' /\ Calms /\ UNCHANGED <<prompt, disposal>>
<1>1. Spawn(alive) /\ UNCHANGED <<acpSession, disposal, toolVars, waitVars, agentVars>>
  BY DEF StartSession
<1>2. ProcessTypes' /\ Calms
  BY <1>1, SpawnKeeps
<1>3. AgentTypes' /\ Flags' /\ UNCHANGED prompt
  BY <1>1, AcpTypes DEF AgentTypes, Flags
<1>4. QED
  BY <1>1, <1>2, <1>3, AcpTypesNext

\* Nothing of the backend before is left.
LEMMA StartAnewKeeps ==
    ASSUME AcpTypeOK, TurnKept(turn), StartAnew
    PROVE  AcpTypeOK' /\ Calms /\ prompt' = FALSE
<1>1. /\ disposal' = "no" /\ acpSession' = FALSE /\ idleTimeout' = FALSE
      /\ activeToolCalls' = {} /\ toolCallTimeouts' = {}
      /\ waitingForResponse' = FALSE /\ idleResolver' = FALSE
      /\ prompt' = FALSE /\ asking' = {} /\ UNCHANGED <<cancelled, updates>>
  BY DEF StartAnew
<1>2. ProcessTypes' /\ Calms
  <2>1. alive \ {process} \in SUBSET alive
    OBVIOUS
  <2>2. Spawn(alive \ {process})
    BY DEF StartAnew
  <2>3. QED
    BY <2>1, <2>2, SpawnKeeps
<1>3. AgentTypes'
  BY <1>1, AcpTypes DEF AgentTypes
<1>4. Flags'
  BY <1>1, AcpTypes DEF Flags
<1>5. QED
  BY <1>1, <1>2, <1>3, <1>4, AcpTypesNext

LEMMA StartsKeep ==
    ASSUME AcpTypeOK, TurnKept(turn), Initialized \/ StartRetried
    PROVE  AcpTypeOK' /\ Calms /\ UNCHANGED <<prompt, disposal>>
<1>1. MaxAttempts \in Nat \ {0}
  BY AcpBackendAssumption
<1>2. Calms /\ UNCHANGED <<prompt, disposal>>
  BY QuietCalms DEF Initialized, StartRetried
<1>3. ProcessTypes'
  BY <1>1, AcpTypes DEF ProcessTypes, Initialized, StartRetried
<1>4. AgentTypes'
  BY AcpTypes DEF AgentTypes, Initialized, StartRetried
<1>5. Flags'
  BY AcpTypes DEF Flags, Initialized, StartRetried
<1>6. QED
  BY <1>2, <1>3, <1>4, <1>5, AcpTypesNext

LEMMA StartGivesUpKeeps ==
    ASSUME AcpTypeOK, TurnKept(turn), StartGivesUp
    PROVE  AcpTypeOK' /\ Calms /\ UNCHANGED <<prompt, disposal>>
<1>1. MaxAttempts \in Nat \ {0}
  BY AcpBackendAssumption
<1>2. <<M("error")>> \in AtMostTwo(Calm)
  BY TheMessages, AtMostTwoHas
<1>3. Calms /\ UNCHANGED <<prompt, disposal>>
  BY <1>2, EmitCalms DEF StartGivesUp
<1>4. ProcessTypes'
  BY <1>1, AcpTypes DEF ProcessTypes, StartGivesUp
<1>5. AgentTypes'
  BY AcpTypes DEF AgentTypes, StartGivesUp
<1>6. Flags'
  BY AcpTypes DEF Flags, StartGivesUp
<1>7. QED
  BY <1>3, <1>4, <1>5, <1>6, AcpTypesNext

LEMMA SpawnFailsKeeps ==
    ASSUME AcpTypeOK, TurnKept(turn), SpawnFails
    PROVE  AcpTypeOK' /\ Calms /\ UNCHANGED <<prompt, disposal>>
<1>1. <<M("error")>> \in AtMostTwo(Calm)
  BY TheMessages, AtMostTwoHas
<1>2. Calms /\ UNCHANGED <<prompt, disposal>>
  BY <1>1, EmitCalms DEF SpawnFails
<1>3. ProcessTypes'
  BY AcpTypes DEF ProcessTypes, SpawnFails
<1>4. AgentTypes'
  BY AcpTypes DEF AgentTypes, SpawnFails
<1>5. Flags'
  BY AcpTypes DEF Flags, SpawnFails
<1>6. QED
  BY <1>2, <1>3, <1>4, <1>5, AcpTypesNext

LEMMA SessionCreatedKeeps ==
    ASSUME AcpTypeOK, TurnKept(turn), SessionCreated
    PROVE  AcpTypeOK' /\ Calms /\ UNCHANGED <<prompt, disposal>>
<1>1. MaxAttempts \in Nat \ {0}
  BY AcpBackendAssumption
<1>2. EmitAndIdle(<< >>, TRUE) /\ UNCHANGED <<prompt, disposal>>
  BY DEF SessionCreated
<1>3. waitingForResponse \in BOOLEAN /\ idleResolver \in BOOLEAN
  BY AcpTypes DEF Flags
<1>4. Calms /\ waitingForResponse' \in BOOLEAN /\ idleResolver' \in BOOLEAN
  BY <1>2, <1>3, IdleCalms
<1>5. ProcessTypes'
  BY <1>1, AcpTypes DEF ProcessTypes, SessionCreated
<1>6. AgentTypes'
  BY AcpTypes DEF AgentTypes, SessionCreated
<1>7. Flags'
  BY <1>4, AcpTypes DEF Flags, SessionCreated
<1>8. QED
  BY <1>2, <1>4, <1>5, <1>6, <1>7, AcpTypesNext

\* The agent's updates, while it has a prompt.
LEMMA UpdatesKeep ==
    ASSUME AcpTypeOK, TurnKept(turn), AgentUpdates
    PROVE  AcpTypeOK' /\ Keeps /\ prompt /\ UNCHANGED <<prompt, disposal>>
<1>1. \A type \in {"output", "error", "plan"} : <<M(type)>> \in AtMostTwo(Message)
  BY TheMessages, AtMostTwoHas DEF Status
<1>2. MaxUpdates \in Nat
  BY AcpBackendAssumption
<1>3. CASE MessageChunk \/ LegacyMessageChunk \/ ModelNotFound
  <2>1. Keeps
    BY <1>1, <1>3, EmitKeeps DEF MessageChunk, LegacyMessageChunk, ModelNotFound
  <2>2. ProcessTypes' /\ prompt /\ UNCHANGED <<prompt, disposal>>
    BY <1>3, AcpTypes DEF ProcessTypes, MessageChunk, LegacyMessageChunk, ModelNotFound, Update
  <2>3. AgentTypes'
    BY <1>2, <1>3, AcpTypes DEF AgentTypes, MessageChunk, LegacyMessageChunk, ModelNotFound, Update
  <2>4. Flags'
    BY <1>3, AcpTypes DEF Flags, MessageChunk, LegacyMessageChunk, ModelNotFound, Update
  <2>5. QED
    BY <2>1, <2>2, <2>3, <2>4, AcpTypesNext
<1>4. CASE ThoughtChunk
  <2>1. PICK chunk \in {"plain", "whole"} : Emit(<<[type |-> "thought", chunk |-> chunk]>>)
    BY <1>4 DEF ThoughtChunk
  <2>2. <<[type |-> "thought", chunk |-> chunk]>> \in AtMostTwo(Message)
    BY TheMessages, AtMostTwoHas
  <2>3. Keeps
    BY <2>1, <2>2, EmitKeeps
  <2>4. ProcessTypes' /\ prompt /\ UNCHANGED <<prompt, disposal>>
    BY <1>4, AcpTypes DEF ProcessTypes, ThoughtChunk, Update
  <2>5. AgentTypes'
    BY <1>2, <1>4, AcpTypes DEF AgentTypes, ThoughtChunk, Update
  <2>6. Flags'
    BY <1>4, AcpTypes DEF Flags, ThoughtChunk, Update
  <2>7. QED
    BY <2>3, <2>4, <2>5, <2>6, AcpTypesNext
<1>5. CASE PlanUpdate
  <2>1. Keeps
    BY <1>1, <1>5, EmitKeeps DEF PlanUpdate
  <2>2. ProcessTypes' /\ prompt /\ UNCHANGED <<prompt, disposal>>
    BY <1>5, AcpTypes DEF ProcessTypes, PlanUpdate
  <2>3. AgentTypes'
    BY <1>5, AcpTypes DEF AgentTypes, PlanUpdate
  <2>4. Flags'
    BY <1>5, AcpTypes DEF Flags, PlanUpdate
  <2>5. QED
    BY <2>1, <2>2, <2>3, <2>4, AcpTypesNext
<1>6. ASSUME NEW t \in Tool, StartToolCall(t)
      PROVE  AcpTypeOK' /\ Keeps /\ prompt /\ UNCHANGED <<prompt, disposal>>
  <2>1. M("running") \in Message /\ [type |-> "tool-call", call |-> t] \in Message
    BY TheMessages DEF Status, Calm
  <2>2. <<M("running"), [type |-> "tool-call", call |-> t]>> \in AtMostTwo(Message)
    BY <2>1, AtMostTwoHas
  <2>3. Keeps
    BY <1>6, <2>2, EmitKeeps DEF StartToolCall
  <2>4. ProcessTypes' /\ prompt /\ UNCHANGED <<prompt, disposal>>
    BY <1>6, AcpTypes DEF ProcessTypes, StartToolCall, Update
  <2>5. AgentTypes'
    BY <1>2, <1>6, AcpTypes DEF AgentTypes, StartToolCall, Update
  <2>6. Flags'
    BY <1>6, AcpTypes DEF Flags, StartToolCall, Update
  <2>7. QED
    BY <2>3, <2>4, <2>5, <2>6, AcpTypesNext
<1>7. ASSUME NEW t \in Tool, EndToolCall(t)
      PROVE  AcpTypeOK' /\ Keeps /\ prompt /\ UNCHANGED <<prompt, disposal>>
  <2>1. [type |-> "tool-result", call |-> t] \in Calm
    BY TheMessages
  <2>2. /\ EmitAndIdle(<<[type |-> "tool-result", call |-> t]>>, activeToolCalls' = {})
        /\ Update /\ UNCHANGED asking
        /\ activeToolCalls' = activeToolCalls \ {t}
        /\ toolCallTimeouts' = toolCallTimeouts \ {t}
        /\ idleTimeout' = (idleTimeout /\ activeToolCalls' # {})
    BY <1>7 DEF EndToolCall, EndToolCallLeaving
  <2>3. waitingForResponse \in BOOLEAN /\ idleResolver \in BOOLEAN
    BY AcpTypes DEF Flags
  <2>4. Calms /\ waitingForResponse' \in BOOLEAN /\ idleResolver' \in BOOLEAN
    BY <2>1, <2>2, <2>3, IdleCalms
  <2>5. ProcessTypes' /\ prompt /\ UNCHANGED <<prompt, disposal>>
    BY <2>2, AcpTypes DEF ProcessTypes, Update
  <2>6. AgentTypes'
    BY <1>2, <2>2, AcpTypes DEF AgentTypes, Update
  <2>7. idleTimeout' \in BOOLEAN
    BY <2>2, Zenon
  <2>8. Flags'
    BY <2>2, <2>4, <2>7, AcpTypes DEF Flags, Update
  <2>9. QED
    BY <2>4, <2>5, <2>6, <2>8, AcpTypesNext DEF Calms, Calmed, Keeps
<1>8. QED
  BY <1>3, <1>4, <1>5, <1>6, <1>7 DEF AgentUpdates

\* A request for a permission is one too.
LEMMA RequestKeeps ==
    ASSUME AcpTypeOK, TurnKept(turn), NEW t \in Tool, NEW byItself, RequestPermission(t, byItself)
    PROVE  AcpTypeOK' /\ Keeps /\ prompt /\ UNCHANGED <<prompt, disposal>>
<1>1. MaxUpdates \in Nat
  BY AcpBackendAssumption
<1> DEFINE a == [type |-> "permission-request", call |-> t]
           b == [type |-> "tool-result", call |-> t]
<1>2. a \in Message /\ b \in Message
  BY TheMessages DEF Calm
<1> HIDE DEF a, b
<1>3. <<a>> \o (IF byItself THEN <<b>> ELSE << >>) \in AtMostTwo(Message)
  <2>1. CASE byItself
    <3>1. <<a>> \o <<b>> = <<a, b>>
      BY ConcatOne
    <3>2. QED
      BY <1>2, <2>1, <3>1, AtMostTwoHas
  <2>2. CASE ~byItself
    <3>1. <<a>> \o << >> = <<a>>
      BY ConcatNone
    <3>2. QED
      BY <1>2, <2>2, <3>1, AtMostTwoHas
  <2>3. QED
    BY <2>1, <2>2
<1>4. Emit(<<a>> \o IF byItself THEN <<b>> ELSE << >>)
  BY DEF RequestPermission, a, b
<1>5. Keeps
  BY <1>3, <1>4, EmitKeeps
<1>6. ProcessTypes' /\ prompt /\ UNCHANGED <<prompt, disposal>>
  BY AcpTypes DEF ProcessTypes, RequestPermission, Update
<1>7. AgentTypes'
  BY <1>1, AcpTypes DEF AgentTypes, RequestPermission, Update
<1>8. Flags'
  BY AcpTypes DEF Flags, RequestPermission, Update
<1>9. QED
  BY <1>5, <1>6, <1>7, <1>8, AcpTypesNext

\* The timers of a tool call and of silence.
LEMMA TimersKeep ==
    ASSUME AcpTypeOK, TurnKept(turn), Timers
    PROVE  AcpTypeOK' /\ Calms /\ UNCHANGED <<prompt, disposal>>
<1>1. waitingForResponse \in BOOLEAN /\ idleResolver \in BOOLEAN
  BY AcpTypes DEF Flags
<1>2. CASE IdleTimeoutFires
  <2>1. /\ EmitAndIdle(<< >>, activeToolCalls = {}) /\ idleTimeout' = FALSE
        /\ UNCHANGED <<startVars, acpSession, disposal, activeToolCalls, toolCallTimeouts, agentVars>>
    BY <1>2 DEF IdleTimeoutFires
  <2>2. Calms /\ waitingForResponse' \in BOOLEAN /\ idleResolver' \in BOOLEAN
    BY <1>1, <2>1, IdleCalms
  <2>3. ProcessTypes' /\ AgentTypes' /\ UNCHANGED <<prompt, disposal>>
    BY <2>1, AcpTypes DEF ProcessTypes, AgentTypes
  <2>4. Flags'
    BY <2>1, <2>2, AcpTypes DEF Flags
  <2>5. QED
    BY <2>2, <2>3, <2>4, AcpTypesNext
<1>3. ASSUME NEW t \in Tool, ToolCallTimesOut(t)
      PROVE  AcpTypeOK' /\ Calms /\ UNCHANGED <<prompt, disposal>>
  <2>1. /\ EmitAndIdle(<< >>, activeToolCalls' = {})
        /\ activeToolCalls' = activeToolCalls \ {t}
        /\ toolCallTimeouts' = toolCallTimeouts \ {t}
        /\ UNCHANGED <<startVars, acpSession, disposal, idleTimeout, agentVars>>
    BY <1>3 DEF ToolCallTimesOut
  <2>2. Calms /\ waitingForResponse' \in BOOLEAN /\ idleResolver' \in BOOLEAN
    BY <1>1, <2>1, IdleCalms
  <2>3. ProcessTypes' /\ AgentTypes' /\ UNCHANGED <<prompt, disposal>>
    BY <2>1, AcpTypes DEF ProcessTypes, AgentTypes
  <2>4. Flags'
    BY <2>1, <2>2, AcpTypes DEF Flags
  <2>5. QED
    BY <2>2, <2>3, <2>4, AcpTypesNext
<1>4. QED
  BY <1>2, <1>3 DEF Timers

\* A decision of the user's.
LEMMA DecisionKeeps ==
    ASSUME AcpTypeOK, TurnKept(turn), NEW t \in Tool, PermissionDecided(t)
    PROVE  AcpTypeOK' /\ Calms /\ UNCHANGED <<prompt, disposal>>
<1>1. <<[type |-> "tool-result", call |-> t]>> \in AtMostTwo(Calm)
  BY TheMessages, AtMostTwoHas
<1>2. Calms
  BY <1>1, EmitCalms DEF PermissionDecided
<1>3. ProcessTypes' /\ AgentTypes' /\ UNCHANGED <<prompt, disposal>>
  BY AcpTypes DEF ProcessTypes, AgentTypes, PermissionDecided
<1>4. Flags'
  BY AcpTypes DEF Flags, PermissionDecided
<1>5. QED
  BY <1>2, <1>3, <1>4, AcpTypesNext

\* The process exits.
LEMMA ExitKeeps ==
    ASSUME AcpTypeOK, TurnKept(turn), ProcessExits
    PROVE  AcpTypeOK' /\ Calms /\ UNCHANGED <<prompt, disposal>>
<1>1. <<M("stopped")>> \in AtMostTwo(Calm)
  BY TheMessages, AtMostTwoHas
<1>2. Calms
  <2>1. Emit(<<M("stopped")>>) \/ turn' = turn
    BY DEF ProcessExits
  <2>2. QED
    BY <1>1, <2>1, EmitCalms, QuietCalms
<1>3. ProcessTypes' /\ AgentTypes' /\ UNCHANGED <<prompt, disposal>>
  BY AcpTypes DEF ProcessTypes, AgentTypes, ProcessExits
<1>4. Flags'
  BY AcpTypes DEF Flags, ProcessExits
<1>5. QED
  BY <1>2, <1>3, <1>4, AcpTypesNext

\* A prompt is sent to a backend that is not disposed of, for the turn u.
LEMMA SendPromptKeeps ==
    ASSUME AcpTypeOK, NEW u, TurnKept(u), SendPrompt(u)
    PROVE  AcpTypeOK' /\ TurnKept(turn') /\ disposal = "no" /\ UNCHANGED disposal
<1>1. M("running") \in Message
  BY TheMessages DEF Status
<1>2. <<M("running")>> \in AtMostTwo(Message)
  BY <1>1, AtMostTwoHas
<1>3. disposal = "no" /\ UNCHANGED disposal /\ turn' = HeardAll(u, <<M("running")>>)
  BY DEF SendPrompt, EmitTo
<1>4. TurnKept(turn')
  BY <1>2, <1>3, HeardKeeps DEF Kept
<1>5. ProcessTypes' /\ AgentTypes'
  BY AcpTypes DEF ProcessTypes, AgentTypes, SendPrompt
<1>6. Flags'
  BY AcpTypes DEF Flags, SendPrompt
<1>7. QED
  BY <1>3, <1>4, <1>5, <1>6, AcpTypesNext

\* Its answer.
LEMMA PromptAnsweredKeeps ==
    ASSUME AcpTypeOK, TurnKept(turn), PromptAnswered
    PROVE  AcpTypeOK' /\ Calms /\ prompt' = FALSE /\ UNCHANGED disposal
<1>1. Calms
  BY QuietCalms DEF PromptAnswered
<1>2. ProcessTypes' /\ AgentTypes' /\ prompt' = FALSE /\ UNCHANGED disposal
  BY AcpTypes DEF ProcessTypes, AgentTypes, PromptAnswered
<1>3. Flags'
  BY AcpTypes DEF Flags, PromptAnswered
<1>4. QED
  BY <1>1, <1>2, <1>3, AcpTypesNext

\* Its failure, of which a backend that is not disposed of tells: the answer is thrown away.
LEMMA PromptFailsKeeps ==
    ASSUME AcpTypeOK, TurnKept(turn), PromptFails
    PROVE  /\ AcpTypeOK' /\ Calms /\ prompt' = FALSE /\ UNCHANGED disposal
           /\ disposal = "no" => turn'.output = {}
<1>1. <<M("error")>> \in AtMostTwo(Calm)
  BY TheMessages, AtMostTwoHas
<1>2. Calms /\ Emit(<<M("error")>>)
  BY <1>1, EmitCalms DEF PromptFails
<1>3. ASSUME disposal = "no" PROVE turn'.output = {}
  <2>1. turn' = HearOne(turn, M("error"))
    BY <1>2, <1>3, HeardOne DEF Emit, EmitTo
  <2>2. HearOne(turn, M("error")) = ErrorHeard(turn)
    BY DEF HearOne, M
  <2>3. QED
    BY <2>1, <2>2, ErrorHeardCalms
<1>4. ProcessTypes' /\ AgentTypes' /\ prompt' = FALSE /\ UNCHANGED disposal
  BY AcpTypes DEF ProcessTypes, AgentTypes, PromptFails
<1>5. Flags'
  BY AcpTypes DEF Flags, PromptFails
<1>6. QED
  BY <1>2, <1>3, <1>4, <1>5, AcpTypesNext

\* What waits for a response gives up.
LEMMA ResponseTimesOutKeeps ==
    ASSUME AcpTypeOK, TurnKept(turn), ResponseTimesOut
    PROVE  AcpTypeOK' /\ Calms /\ UNCHANGED <<prompt, disposal>>
<1>1. Calms
  BY QuietCalms DEF ResponseTimesOut
<1>2. ProcessTypes' /\ AgentTypes' /\ UNCHANGED <<prompt, disposal>>
  BY AcpTypes DEF ProcessTypes, AgentTypes, ResponseTimesOut
<1>3. Flags'
  BY AcpTypes DEF Flags, ResponseTimesOut
<1>4. QED
  BY <1>1, <1>2, <1>3, AcpTypesNext

\* A cancellation, heard by the turn u.
LEMMA CancelledKeeps ==
    ASSUME AcpTypeOK, NEW u, TurnKept(u), Cancelled(u)
    PROVE  AcpTypeOK' /\ Calmed(u, turn') /\ UNCHANGED <<prompt, disposal>>
<1>1. << >> \in AtMostTwo(Calm) /\ <<M("stopped")>> \in AtMostTwo(Calm)
  BY TheMessages, AtMostTwoHas
<1>2. PICK ms \in AtMostTwo(Calm) : EmitTo(u, ms)
  BY <1>1 DEF Cancelled
<1>3. Calmed(u, turn')
  <2>1. CASE disposal = "no"
    BY <1>2, <2>1, HeardCalms DEF EmitTo
  <2>2. CASE disposal # "no"
    BY <1>2, <2>2 DEF EmitTo, Calmed, Kept
  <2>3. QED
    BY <2>1, <2>2
<1>4. ProcessTypes' /\ AgentTypes' /\ UNCHANGED <<prompt, disposal>>
  BY AcpTypes DEF ProcessTypes, AgentTypes, Cancelled
<1>5. Flags'
  BY AcpTypes DEF Flags, Cancelled
<1>6. QED
  BY <1>3, <1>4, <1>5, AcpTypesNext

\* dispose: nobody is told, and no other backend takes the place.
LEMMA DisposeKeeps ==
    ASSUME AcpTypeOK, TurnKept(turn), Dispose \/ DisposeKills \/ Disposed
    PROVE  AcpTypeOK' /\ Calms /\ (prompt' => prompt) /\ disposal' # "no"
<1>1. Calms
  BY QuietCalms DEF Dispose, DisposeKills, Disposed
<1>2. MaxProcesses \in Nat
  BY AcpBackendAssumption
<1>3. ProcessTypes'
  BY <1>2, AcpTypes DEF ProcessTypes, Dispose, DisposeKills, Disposed
<1>4. AgentTypes' /\ disposal' # "no"
  BY AcpTypes DEF AgentTypes, Dispose, DisposeKills, Disposed
<1>5. Flags' /\ (prompt' => prompt)
  <2>1. prompt' = prompt \/ prompt' = FALSE
    BY DEF Dispose, DisposeKills, Disposed
  <2>2. Flags'
    BY AcpTypes DEF Flags, Dispose, DisposeKills, Disposed
  <2>3. QED
    BY <2>1, <2>2
<1>6. QED
  BY <1>1, <1>3, <1>4, <1>5, AcpTypesNext

---------------------------------------------------------------------------
(* The session's steps. *)

USE DEF loopVars, backendVars, abortVars, historyVars, LoopUnchanged, OthersUnchanged

\* Three ways for a step to keep the invariant's last part: it leaves the loop where it is
\* and adds nothing to the turn;
LEMMA FitsWhenCalm ==
    ASSUME TurnFits, TurnKept(turn), pc' = pc, Calms, pendingRequests' \subseteq pendingRequests,
           prompt' => prompt, disposal' = "no" => disposal = "no"
    PROVE  TurnFits'
<1>1. prompt' => pc' \in {"prompting", "exited"}
  BY DEF TurnFits
<1>2. pc' = "wait" => pendingRequests' = {} /\ turn'.section = NoSection /\ turn'.thinking = FALSE
  BY DEF TurnFits, Calms, Calmed
<1>3. pc' = "delaying" => turn'.tries < MaxTries /\ (disposal' = "no" => turn'.output = {})
  BY DEF TurnFits, Calms, Calmed, Kept
<1>4. QED
  BY <1>1, <1>2, <1>3 DEF TurnFits

\* it leaves the loop where a prompt is answered;
LEMMA FitsWhilePrompted ==
    ASSUME TurnFits, prompt, pc' = pc PROVE TurnFits'
BY DEF TurnFits

\* or it takes the loop to where nothing is asked of the turn.
LEMMA FitsElsewhere ==
    ASSUME TurnFits, pc' \notin {"wait", "delaying"},
           prompt' => pc' \in {"prompting", "exited"}
    PROVE  TurnFits'
BY DEF TurnFits

\* The prompt is there only where the loop awaits its answer.
LEMMA NoPrompt ==
    ASSUME TurnFits, prompt \in BOOLEAN, pc \notin {"prompting", "exited"} PROVE prompt = FALSE
BY Zenon DEF TurnFits

\* What is asked of the agent, the invariant's parts together.
LEMMA InvNext ==
    ASSUME AcpTypeOK', LoopTypes', PromptTypes', TurnKept(turn'), TurnFits'
    PROVE  GeminiInv'
BY DEF GeminiInv

\* Init.
LEMMA GeminiInit == Init => GeminiInv
<1> SUFFICES ASSUME Init PROVE GeminiInv
  OBVIOUS
<1>1. AcpTypeOK
  <2>1. ProcessTypes
    BY AcpBackendAssumption DEF Init, AcpInit, ProcessTypes
  <2>2. AgentTypes
    BY AcpBackendAssumption DEF Init, AcpInit, AgentTypes
  <2>3. Flags
    BY DEF Init, AcpInit, Flags
  <2>4. QED
    BY <2>1, <2>2, <2>3, AcpTypes
<1>2. LoopTypes
  BY DEF Init, LoopTypes
<1>3. PromptTypes
  BY GeminiSessionAssumption DEF Init, PromptTypes
<1>4. /\ NoTurn \in Turn /\ NoTurn.section = NoSection /\ NoTurn.shown = << >>
      /\ NoTurn.output = {} /\ NoTurn.thinking = FALSE
  BY GeminiTurnAssumption, NoSectionIsSection DEF NoTurn, Turn
<1>5. TurnKept(turn)
  BY <1>4, NothingThought DEF Init, TurnKept
<1>6. TurnFits
  BY <1>4 DEF Init, AcpInit, TurnFits
<1>7. QED
  BY <1>1, <1>2, <1>3, <1>5, <1>6 DEF GeminiInv

\* What leaves the loop and the prompts alone.
LEMMA TypesStay ==
    ASSUME LoopTypes, PromptTypes, UNCHANGED <<loopVars, backendVars, permissionMode, abortVars, historyVars>>,
           pendingRequests' \subseteq Tool
    PROVE  LoopTypes' /\ PromptTypes'
BY DEF LoopTypes, PromptTypes

\* What the backend, its agent and its deadlines do by themselves.
LEMMA BackendStepsKeep ==
    ASSUME GeminiInv, BackendSteps \/ Deadlines PROVE GeminiInv'
<1>1. AcpTypeOK /\ LoopTypes /\ PromptTypes /\ TurnKept(turn) /\ TurnFits
  BY DEF GeminiInv
<1>2. OthersUnchanged
  BY DEF BackendSteps, Deadlines
<1>3. pc' = pc /\ pendingRequests' = pendingRequests
  BY <1>2
<1>4. LoopTypes' /\ PromptTypes'
  BY <1>1, <1>2, TypesStay DEF LoopTypes
<1>5. CASE AgentUpdates
  <2>1. AcpTypeOK' /\ Keeps /\ prompt
    BY <1>1, <1>5, UpdatesKeep
  <2>2. TurnFits'
    BY <1>1, <1>3, <2>1, FitsWhilePrompted
  <2>3. QED
    BY <1>4, <2>1, <2>2, InvNext DEF Keeps, Kept
<1>6. CASE Timers \/ ProcessExits \/ SpawnFails \/ ResponseTimesOut \/ DisposeKills \/ Disposed
  <2>1. AcpTypeOK' /\ Calms /\ (prompt' => prompt) /\ (disposal' = "no" => disposal = "no")
    BY <1>1, <1>6, TimersKeep, ExitKeeps, SpawnFailsKeeps, ResponseTimesOutKeeps, DisposeKeeps
  <2>2. TurnFits'
    BY <1>1, <1>3, <2>1, FitsWhenCalm
  <2>3. QED
    BY <1>4, <2>1, <2>2, InvNext DEF Calms, Calmed, Kept
<1>7. QED
  BY <1>5, <1>6 DEF BackendSteps, Deadlines

\* The user's prompts.
LEMMA PushKeeps ==
    ASSUME GeminiInv, NEW m \in Mode, Push(m) PROVE GeminiInv'
<1>1. AcpTypeOK /\ LoopTypes /\ PromptTypes /\ TurnKept(turn) /\ TurnFits
  BY DEF GeminiInv
<1>2. /\ UNCHANGED <<quietVars, pc, batch, mode, backendVars, pendingRequests, turn, abortVars, settled, aborts>>
      /\ permissionMode' = m
  BY DEF Push
<1>3. AcpTypeOK' /\ Calms
  BY <1>1, <1>2, QuietCalms DEF AcpTypeOK
<1>4. LoopTypes'
  BY <1>1, <1>2 DEF LoopTypes
<1>5. PromptTypes'
  <2>1. MaxPrompts \in Nat /\ pushed \in 0..MaxPrompts /\ pushed < MaxPrompts /\ pushed' = pushed + 1
    BY <1>1, GeminiSessionAssumption DEF PromptTypes, Push
  <2> DEFINE x == [id |-> pushed', mode |-> m]
  <2>2. x \in Prompt /\ x.id = pushed'
    BY <2>1 DEF Prompt
  <2>3. messageQueue' = Append(messageQueue, x) /\ messageQueue \in Seq(Prompt)
    BY <1>1 DEF PromptTypes, Push
  <2> HIDE DEF x
  <2>4. /\ messageQueue' \in Seq(Prompt) /\ Len(messageQueue') = Len(messageQueue) + 1
        /\ messageQueue'[Len(messageQueue) + 1] = x
        /\ \A i \in 1..Len(messageQueue) : messageQueue'[i] = messageQueue[i]
    BY <2>2, <2>3, AppendedIsLast
  <2>5. \A i \in 1..Len(messageQueue) : messageQueue[i].id \in 1..pushed
    BY <1>1, <2>3 DEF PromptTypes
  <2>6. Len(messageQueue) \in Nat
    BY <2>3
  <2>7. \A i \in 1..Len(messageQueue') : messageQueue'[i].id \in 1..pushed'
    <3>1. TAKE i \in 1..Len(messageQueue')
    <3>2. CASE i = Len(messageQueue) + 1
      BY <2>1, <2>2, <2>4, <3>2
    <3>3. CASE i \in 1..Len(messageQueue)
      <4>1. messageQueue'[i].id \in 1..pushed
        BY <2>4, <2>5, <3>3
      <4>2. QED
        BY <2>1, <4>1
    <3>4. QED
      BY <2>4, <2>6, <3>2, <3>3
  <2>8. batch' \subseteq 1..pushed' /\ settled' \subseteq 1..pushed' /\ pushed' \in 0..MaxPrompts
    <3>1. batch \subseteq 1..pushed /\ settled \subseteq 1..pushed /\ batch' = batch /\ settled' = settled
      BY <1>1, <1>2 DEF PromptTypes
    <3>2. 1..pushed \subseteq 1..pushed' /\ pushed' \in 0..MaxPrompts
      BY <2>1
    <3>3. QED
      BY <3>1, <3>2
  <2>9. aborts' \in 0..MaxAborts
    BY <1>1, <1>2 DEF PromptTypes
  <2>10. DOMAIN messageQueue' = 1..Len(messageQueue')
    BY <2>4
  <2>11. QED
    BY <2>4, <2>7, <2>8, <2>9, <2>10 DEF PromptTypes
<1>6. TurnFits'
  BY <1>1, <1>2, <1>3, FitsWhenCalm
<1>7. QED
  BY <1>3, <1>4, <1>5, <1>6, InvNext DEF Calms, Calmed, Kept

\* Permissions: answered, and asked for.
LEMMA PermissionsKeep ==
    ASSUME GeminiInv, NEW t \in Tool, AnswerPermission(t) \/ HandleToolCall(t) PROVE GeminiInv'
<1>1. AcpTypeOK /\ LoopTypes /\ PromptTypes /\ TurnKept(turn) /\ TurnFits
  BY DEF GeminiInv
<1>2. UNCHANGED <<loopVars, backendVars, permissionMode, abortVars, historyVars>>
  BY DEF AnswerPermission, HandleToolCall
<1>3. pendingRequests' \subseteq Tool
  BY <1>1 DEF AnswerPermission, HandleToolCall, LoopTypes
<1>4. LoopTypes' /\ PromptTypes'
  BY <1>1, <1>2, <1>3, TypesStay
<1>5. CASE AnswerPermission(t)
  <2>1. AcpTypeOK' /\ Calms /\ UNCHANGED <<prompt, disposal>>
    BY <1>1, <1>5, DecisionKeeps DEF AnswerPermission
  <2>2. pendingRequests' \subseteq pendingRequests
    BY <1>5 DEF AnswerPermission
  <2>3. TurnFits'
    BY <1>1, <1>2, <2>1, <2>2, FitsWhenCalm
  <2>4. QED
    BY <1>4, <2>1, <2>3, InvNext DEF Calms, Calmed, Kept
<1>6. CASE HandleToolCall(t)
  <2>1. AcpTypeOK' /\ Keeps /\ prompt
    BY <1>1, <1>6, RequestKeeps DEF HandleToolCall
  <2>2. TurnFits'
    BY <1>1, <1>2, <2>1, FitsWhilePrompted
  <2>3. QED
    BY <1>4, <2>1, <2>2, InvNext DEF Keeps, Kept
<1>7. QED
  BY <1>5, <1>6

\* Aborts.
LEMMA BeginAbortKeeps ==
    ASSUME GeminiInv, NEW atOnce \in BOOLEAN, BeginAbort(atOnce)
    PROVE  /\ AcpTypeOK' /\ PromptTypes' /\ Calms /\ UNCHANGED <<prompt, disposal>>
           /\ aborted' \in BOOLEAN /\ aborting' \in BOOLEAN
           /\ UNCHANGED <<mode, backendVars, permissionMode, pendingRequests>>
<1>1. AcpTypeOK /\ LoopTypes /\ PromptTypes /\ TurnKept(turn) /\ TurnFits
  BY DEF GeminiInv
<1> DEFINE u == BrokenOff(turn)
<1>2. Calmed(turn, u) /\ TurnKept(u)
  BY <1>1, BrokenOffKeeps DEF Calmed, Kept
<1> HIDE DEF u
<1>3. AcpTypeOK' /\ Calmed(u, turn') /\ UNCHANGED <<prompt, disposal>>
  <2>1. CASE Cancelled(u)
    BY <1>1, <1>2, <2>1, CancelledKeeps
  <2>2. CASE turn' = u /\ UNCHANGED quietVars
    BY <1>1, <1>2, <2>2 DEF AcpTypeOK, Calmed, Kept
  <2>3. QED
    BY <2>1, <2>2 DEF BeginAbort, u
<1>4. Calms
  BY <1>2, <1>3 DEF Calms, Calmed, Kept
<1>5. aborted' \in BOOLEAN /\ aborting' \in BOOLEAN
  BY <1>1 DEF BeginAbort, LoopTypes
<1>6. PromptTypes'
  <2>1. \A i \in 1..Len(messageQueue) : messageQueue[i].id \in 1..pushed
    BY <1>1 DEF PromptTypes
  <2>2. settled' \subseteq 1..pushed
    BY <1>1, <2>1 DEF BeginAbort, Drop, PromptTypes
  <2>3. messageQueue' = << >> /\ pushed' = pushed /\ batch' = batch
    BY DEF BeginAbort
  <2>4. aborts' \in 0..MaxAborts
    BY <1>1, GeminiSessionAssumption DEF BeginAbort, PromptTypes
  <2>5. QED
    BY <1>1, <2>2, <2>3, <2>4 DEF PromptTypes
<1>7. QED
  BY <1>3, <1>4, <1>5, <1>6 DEF BeginAbort

LEMMA AbortsKeep ==
    ASSUME GeminiInv, NEW atOnce \in BOOLEAN, Abort(atOnce) \/ Exit(atOnce) \/ Kill(atOnce)
    PROVE  GeminiInv'
<1>1. AcpTypeOK /\ LoopTypes /\ PromptTypes /\ TurnKept(turn) /\ TurnFits
  BY DEF GeminiInv
<1>2. BeginAbort(atOnce)
  BY DEF Abort, Exit, Kill
<1>3. /\ AcpTypeOK' /\ PromptTypes' /\ Calms /\ UNCHANGED <<prompt, disposal>>
      /\ aborted' \in BOOLEAN /\ aborting' \in BOOLEAN
      /\ UNCHANGED <<mode, backendVars, permissionMode, pendingRequests>>
  BY <1>2, BeginAbortKeeps
<1>4. pc' = pc \/ (pc = "wait" /\ pc' = "cleanup")
  BY DEF Abort, Exit, Kill
<1>5. LoopTypes'
  <2>1. shouldExit' \in BOOLEAN
    BY <1>1, Zenon DEF Abort, Exit, Kill, LoopTypes
  <2>2. killing' \in {"no", "aborting", "disposing", "exiting"}
    BY <1>1 DEF Abort, Exit, Kill, LoopTypes
  <2>3. QED
    BY <1>1, <1>3, <1>4, <2>1, <2>2 DEF LoopTypes
<1>6. TurnFits'
  <2>1. CASE pc' = pc
    BY <1>1, <1>3, <2>1, FitsWhenCalm
  <2>2. CASE pc = "wait" /\ pc' = "cleanup"
    <3>1. prompt = FALSE
      BY <1>1, <2>2, NoPrompt DEF AcpTypeOK
    <3>2. QED
      BY <1>1, <1>3, <2>2, <3>1, FitsElsewhere
  <2>3. QED
    BY <1>4, <2>1, <2>2
<1>7. QED
  BY <1>3, <1>5, <1>6, InvNext DEF Calms, Calmed, Kept

\* The end of an abort, and the disposal that ends the session.
LEMMA AbortEndsKeeps ==
    ASSUME GeminiInv, AbortEnds \/ KillDisposes PROVE GeminiInv'
<1>1. AcpTypeOK /\ LoopTypes /\ PromptTypes /\ TurnKept(turn) /\ TurnFits
  BY DEF GeminiInv
<1>2. AcpTypeOK' /\ Calms /\ (prompt' => prompt) /\ (disposal' = "no" => disposal = "no")
  <2>1. Cancelled(turn) \/ Dispose \/ UNCHANGED acpVars
    BY DEF AbortEnds, KillDisposes
  <2>2. CASE Cancelled(turn)
    BY <1>1, <2>2, CancelledKeeps DEF Calms
  <2>3. CASE Dispose
    BY <1>1, <2>3, DisposeKeeps
  <2>4. CASE UNCHANGED acpVars
    BY <1>1, <2>4, QuietCalms DEF AcpTypeOK
  <2>5. QED
    BY <2>1, <2>2, <2>3, <2>4
<1>3. PromptTypes' /\ pc' = pc /\ pendingRequests' = pendingRequests
  BY <1>1 DEF AbortEnds, KillDisposes, PromptTypes
<1>4. LoopTypes'
  <2>1. killing' \in {"no", "aborting", "disposing", "exiting"}
    BY <1>1 DEF AbortEnds, KillDisposes, LoopTypes
  <2>2. UNCHANGED <<loopVars, backendVars, permissionMode, pendingRequests, shouldExit>>
    BY DEF AbortEnds, KillDisposes
  <2>3. aborted' \in BOOLEAN /\ aborting' \in BOOLEAN
    BY <1>1 DEF AbortEnds, KillDisposes, LoopTypes
  <2>4. QED
    BY <1>1, <2>1, <2>2, <2>3 DEF LoopTypes
<1>5. TurnFits'
  BY <1>1, <1>2, <1>3, FitsWhenCalm
<1>6. QED
  BY <1>2, <1>3, <1>4, <1>5, InvNext DEF Calms, Calmed, Kept

\* A batch of prompts is taken from the queue's front.
LEMMA TakeKeeps ==
    ASSUME GeminiInv, Take
    PROVE  /\ messageQueue' \in Seq(Prompt)
           /\ \A i \in DOMAIN messageQueue' : messageQueue'[i].id \in 1..pushed
           /\ batch' \subseteq 1..pushed /\ mode' \in Mode
           /\ pc = "wait" /\ prompt = FALSE
<1>1. AcpTypeOK /\ PromptTypes /\ TurnFits
  BY DEF GeminiInv
<1>2. messageQueue \in Seq(Prompt) /\ Len(messageQueue) \in Nat /\ messageQueue # << >>
  BY <1>1 DEF PromptTypes, Take
<1>3. \A i \in 1..Len(messageQueue) : messageQueue[i].id \in 1..pushed /\ messageQueue[i].mode \in Mode
  <2>1. TAKE i \in 1..Len(messageQueue)
  <2>2. messageQueue[i] \in Prompt
    BY <1>2
  <2>3. messageQueue[i].id \in 1..pushed
    BY <1>1, <1>2 DEF PromptTypes
  <2>4. QED
    BY <2>2, <2>3 DEF Prompt
<1>4. Batch \subseteq 1..Len(messageQueue)
  BY DEF Batch
<1>5. Cardinality(Batch) \in 0..Len(messageQueue)
  <2>1. IsFiniteSet(1..Len(messageQueue)) /\ Cardinality(1..Len(messageQueue)) = Len(messageQueue)
    BY <1>2, FS_Interval
  <2>2. Cardinality(Batch) <= Cardinality(1..Len(messageQueue)) /\ IsFiniteSet(Batch)
    BY <1>4, <2>1, FS_Subset
  <2>3. Cardinality(Batch) \in Nat
    BY <2>2, FS_CardinalityType
  <2>4. QED
    BY <1>2, <2>1, <2>2, <2>3
<1> DEFINE n == Cardinality(Batch)
           q == SubSeq(messageQueue, n + 1, Len(messageQueue))
<1>6. messageQueue' = q
  BY DEF Take
<1> HIDE DEF n
<1>7. n \in 0..Len(messageQueue)
  BY <1>5 DEF n
<1>8. q \in Seq(Prompt) /\ Len(q) = Len(messageQueue) - n
  BY <1>2, <1>7
<1>9. \A i \in 1..Len(q) : q[i] = messageQueue[n + i] /\ n + i \in 1..Len(messageQueue)
  BY <1>2, <1>7, <1>8
<1> HIDE DEF q
<1>10. \A i \in DOMAIN q : q[i].id \in 1..pushed
  BY <1>3, <1>8, <1>9
<1>11. batch' \subseteq 1..pushed
  BY <1>3, <1>4 DEF Take
<1>12. mode' \in Mode
  BY <1>2, <1>3 DEF Take
<1>13. pc = "wait" /\ prompt = FALSE
  <2>1. pc = "wait"
    BY DEF Take
  <2>2. QED
    BY <1>1, <2>1, NoPrompt DEF AcpTypeOK
<1>14. QED
  BY <1>6, <1>8, <1>10, <1>11, <1>12, <1>13

LEMMA TakesKeep ==
    ASSUME GeminiInv, TakeAndDispose \/ TakeAndPrompt \/ TakeAndStart \/ TakeInVain
    PROVE  GeminiInv'
<1>1. AcpTypeOK /\ LoopTypes /\ PromptTypes /\ TurnKept(turn) /\ TurnFits
  BY DEF GeminiInv
<1>2. Take
  BY DEF TakeAndDispose, TakeAndPrompt, TakeAndStart, TakeInVain
<1>3. /\ messageQueue' \in Seq(Prompt)
      /\ \A i \in DOMAIN messageQueue' : messageQueue'[i].id \in 1..pushed
      /\ batch' \subseteq 1..pushed /\ mode' \in Mode
      /\ pc = "wait" /\ prompt = FALSE
  BY <1>2, TakeKeeps
<1>4. UNCHANGED <<abortVars, pushed, settled, aborts, wasSessionCreated>>
  BY DEF TakeAndDispose, TakeAndPrompt, TakeAndStart, TakeInVain
<1>5. PromptTypes'
  BY <1>1, <1>3, <1>4 DEF PromptTypes
<1>6. pc' \in {"disposing", "prompt", "starting", "turnEnd"}
  BY DEF TakeAndDispose, TakeAndPrompt, TakeAndStart, TakeInVain
<1>7. LoopTypes'
  <2>1. /\ geminiBackend' \in Mode \union {NoMode} /\ currentModeHash' \in Mode \union {NoMode}
        /\ permissionMode' \in Mode \union {NoMode} /\ pendingRequests' \subseteq Tool
    BY <1>1, <1>3 DEF TakeAndDispose, TakeAndPrompt, TakeAndStart, TakeInVain, LoopTypes,
                      CreateGeminiBackend
  <2>2. pc' \in {"wait", "disposing", "restarting", "starting", "prompt", "prompting",
                 "responding", "delaying", "turnEnd", "cleanup", "closing", "exited"}
    BY <1>6
  <2>3. QED
    BY <1>1, <1>3, <1>4, <2>1, <2>2 DEF LoopTypes
<1>8. AcpTypeOK' /\ TurnKept(turn') /\ prompt' = prompt
  <2>1. CASE TakeAndDispose
    <3>1. ProcessTypes' /\ prompt' = prompt
      BY <1>1, <2>1, AcpTypes DEF TakeAndDispose, ProcessTypes
    <3>2. AgentTypes'
      BY <1>1, <2>1, AcpTypes DEF TakeAndDispose, AgentTypes
    <3>3. Flags'
      BY <1>1, <2>1, AcpTypes DEF TakeAndDispose, Flags
    <3>4. TurnKept(turn')
      BY <1>1, <2>1, BrokenOffKeeps DEF TakeAndDispose
    <3>5. QED
      BY <3>1, <3>2, <3>3, <3>4, AcpTypesNext
  <2>2. CASE TakeAndPrompt \/ TakeInVain
    <3>1. CASE TakeAndPrompt
      BY <1>1, <3>1 DEF TakeAndPrompt, AcpTypeOK
    <3>2. CASE TakeInVain
      BY <1>1, <3>2 DEF TakeInVain, AcpTypeOK
    <3>3. QED
      BY <2>2, <3>1, <3>2
  <2>3. CASE TakeAndStart
    BY <1>1, <2>3, StartSessionKeeps DEF TakeAndStart, Calms, Calmed, Kept
  <2>4. QED
    BY <2>1, <2>2, <2>3
<1>9. TurnFits'
  BY <1>1, <1>3, <1>6, <1>8, FitsElsewhere
<1>10. QED
  BY <1>5, <1>7, <1>8, <1>9, InvNext

\* What leaves the prompts and the batch alone.
LEMMA PromptTypesStay ==
    ASSUME PromptTypes, UNCHANGED <<messageQueue, batch, historyVars>> PROVE PromptTypes'
BY DEF PromptTypes

\* The session is there, or another backend's is begun, or it is not there.
LEMMA SessionStartsKeep ==
    ASSUME GeminiInv, Restart \/ Started \/ StartFails PROVE GeminiInv'
<1>1. AcpTypeOK /\ LoopTypes /\ PromptTypes /\ TurnKept(turn) /\ TurnFits
  BY DEF GeminiInv
<1>2. pc \in {"disposing", "starting", "restarting"}
      /\ pc' \in {"restarting", "prompt", "cleanup", "turnEnd"}
  BY DEF Restart, Started, StartFails
<1>3. prompt = FALSE
  BY <1>1, <1>2, NoPrompt DEF AcpTypeOK
<1>4. UNCHANGED <<messageQueue, batch, mode, aborted, aborting, shouldExit, historyVars, pendingRequests>>
  BY DEF Restart, Started, StartFails, abortVars
<1>5. PromptTypes'
  BY <1>1, <1>4, PromptTypesStay
<1>6. LoopTypes'
  <2>1. /\ geminiBackend' \in Mode \union {NoMode} /\ currentModeHash' \in Mode \union {NoMode}
        /\ permissionMode' \in Mode \union {NoMode} /\ wasSessionCreated' \in BOOLEAN
    BY <1>1 DEF Restart, Started, StartFails, LoopTypes, CreateGeminiBackend
  <2>2. pc' \in {"wait", "disposing", "restarting", "starting", "prompt", "prompting",
                 "responding", "delaying", "turnEnd", "cleanup", "closing", "exited"}
    BY <1>2
  <2>3. killing' \in {"no", "aborting", "disposing", "exiting"}
    BY <1>1 DEF Restart, Started, StartFails, abortVars, LoopTypes
  <2>4. QED
    BY <1>1, <1>4, <2>1, <2>2, <2>3 DEF LoopTypes
<1>7. AcpTypeOK' /\ TurnKept(turn') /\ prompt' = prompt
  <2>1. CASE Restart
    <3>1. AcpTypeOK' /\ Calms /\ prompt' = FALSE
      BY <1>1, <2>1, StartAnewKeeps DEF Restart
    <3>2. QED
      BY <1>3, <3>1 DEF Calms, Calmed, Kept
  <2>2. CASE Started
    BY <1>1, <2>2, SessionCreatedKeeps DEF Started, Calms, Calmed, Kept
  <2>3. CASE StartFails
    BY <1>1, <2>3, StartGivesUpKeeps DEF StartFails, Calms, Calmed, Kept
  <2>4. QED
    BY <2>1, <2>2, <2>3
<1>8. TurnFits'
  BY <1>1, <1>2, <1>3, <1>7, FitsElsewhere
<1>9. QED
  BY <1>5, <1>6, <1>7, <1>8, InvNext

LEMMA WaitingForASessionKeeps ==
    ASSUME GeminiInv, Starts PROVE GeminiInv'
<1>1. AcpTypeOK /\ LoopTypes /\ PromptTypes /\ TurnKept(turn) /\ TurnFits
  BY DEF GeminiInv
<1>2. UNCHANGED <<loopVars, backendVars, permissionMode, pendingRequests, abortVars, historyVars>>
  BY DEF Starts
<1>3. LoopTypes' /\ PromptTypes'
  BY <1>1, <1>2, TypesStay DEF LoopTypes
<1>4. AcpTypeOK' /\ Calms /\ UNCHANGED <<prompt, disposal>>
  BY <1>1, StartsKeep DEF Starts
<1>5. TurnFits'
  BY <1>1, <1>2, <1>4, FitsWhenCalm
<1>6. QED
  BY <1>3, <1>4, <1>5, InvNext DEF Calms, Calmed, Kept

\* A turn that begins, and another try of one that has no answer.
LEMMA BegunKeeps ==
    ASSUME TurnKept(turn)
    PROVE  /\ TurnKept(Begun(turn))
           /\ turn.tries < MaxTries /\ turn.output = {} => TurnKept([turn EXCEPT !.tries = @ + 1])
<1>1. MaxTries \in Nat \ {0}
  BY GeminiTurnAssumption
<1> DEFINE b == Begun(turn)
           v == [turn EXCEPT !.tries = @ + 1]
<1>2. b \in Turn /\ b.output = {} /\ b.section = turn.section /\ b.shown = turn.shown
  <2>1. 1 \in 1..MaxTries
    BY <1>1
  <2>2. b = [turn EXCEPT !.tries = 1, !.output = {}, !.taskStarted = FALSE] /\ turn \in Turn
    BY DEF Begun, TurnKept
  <2>3. QED
    BY <2>1, <2>2 DEF Turn
<1>3. ASSUME turn.tries < MaxTries
      PROVE  v \in Turn /\ v.output = turn.output /\ v.section = turn.section /\ v.shown = turn.shown
  BY <1>1, <1>3 DEF TurnKept, Turn
<1> HIDE DEF b, v
<1>4. TurnKept(b)
  BY <1>2 DEF TurnKept
<1>5. ASSUME turn.tries < MaxTries, turn.output = {} PROVE TurnKept(v)
  BY <1>3, <1>5 DEF TurnKept
<1>6. QED
  BY <1>4, <1>5 DEF b, v

LEMMA GivingKeeps ==
    ASSUME GeminiInv, GivePrompt \/ GiveInVain PROVE GeminiInv'
<1>1. AcpTypeOK /\ LoopTypes /\ PromptTypes /\ TurnKept(turn) /\ TurnFits
  BY DEF GeminiInv
<1>2. pc \in {"prompt", "delaying"} /\ pc' \in {"prompting", "turnEnd"}
  BY DEF GivePrompt, GiveInVain
<1>3. prompt = FALSE
  BY <1>1, <1>2, NoPrompt DEF AcpTypeOK
<1>4. UNCHANGED <<messageQueue, batch, mode, backendVars, pendingRequests, permissionMode, abortVars, historyVars>>
  BY DEF GivePrompt, GiveInVain
<1>5. PromptTypes'
  BY <1>1, <1>4, PromptTypesStay
<1>6. LoopTypes'
  BY <1>1, <1>2, <1>4 DEF LoopTypes
<1>7. TurnKept(Begun(turn))
  BY <1>1, BegunKeeps
<1>8. CASE GivePrompt
  <2> DEFINE u == IF pc = "prompt" THEN Begun(turn) ELSE [turn EXCEPT !.tries = @ + 1]
  <2>1. SendPrompt(u) /\ pc' = "prompting"
    BY <1>8 DEF GivePrompt
  <2>2. disposal = "no"
    BY <2>1 DEF SendPrompt
  <2>3. TurnKept(u)
    <3>1. CASE pc = "prompt"
      BY <1>7, <3>1
    <3>2. CASE pc = "delaying"
      <4>1. turn.tries < MaxTries /\ turn.output = {}
        BY <1>1, <2>2, <3>2 DEF TurnFits
      <4>2. QED
        BY <1>1, <3>2, <4>1, BegunKeeps
    <3>3. QED
      BY <1>2, <3>1, <3>2
  <2> HIDE DEF u
  <2>4. AcpTypeOK' /\ TurnKept(turn')
    BY <1>1, <2>1, <2>3, SendPromptKeeps
  <2>5. TurnFits'
    BY <1>1, <2>1, FitsElsewhere
  <2>6. QED
    BY <1>5, <1>6, <2>4, <2>5, InvNext
<1>9. CASE GiveInVain
  <2>1. AcpTypeOK' /\ prompt' = prompt /\ pc' = "turnEnd"
    BY <1>1, <1>9 DEF GiveInVain, AcpTypeOK
  <2>2. TurnKept(turn')
    BY <1>1, <1>7, <1>9 DEF GiveInVain
  <2>3. TurnFits'
    BY <1>1, <1>3, <2>1, FitsElsewhere
  <2>4. QED
    BY <1>5, <1>6, <2>1, <2>2, <2>3, InvNext
<1>10. QED
  BY <1>8, <1>9

\* The prompt is answered, or fails.
LEMMA AnswersKeep ==
    ASSUME GeminiInv, Answers PROVE GeminiInv'
<1>1. AcpTypeOK /\ LoopTypes /\ PromptTypes /\ TurnKept(turn) /\ TurnFits
  BY DEF GeminiInv
<1>2. UNCHANGED <<messageQueue, batch, mode, backendVars, pendingRequests, permissionMode, abortVars, historyVars>>
  BY DEF Answers, Answered, PromptError, PromptErrorUpTo
<1>3. PromptTypes'
  BY <1>1, <1>2, PromptTypesStay
<1>4. CASE Answered
  <2>1. AcpTypeOK' /\ Calms /\ prompt' = FALSE
    BY <1>1, <1>4, PromptAnsweredKeeps DEF Answered
  <2>2. pc' = "responding"
    BY <1>4 DEF Answered
  <2>3. LoopTypes'
    BY <1>1, <1>2, <2>2 DEF LoopTypes
  <2>4. TurnFits'
    BY <1>1, <2>1, <2>2, FitsElsewhere
  <2>5. QED
    BY <1>3, <2>1, <2>3, <2>4, InvNext DEF Calms, Calmed, Kept
<1>5. ASSUME NEW retryable \in BOOLEAN, PromptError(retryable) PROVE GeminiInv'
  <2>1. AcpTypeOK' /\ Calms /\ prompt' = FALSE /\ UNCHANGED disposal
        /\ (disposal = "no" => turn'.output = {})
    BY <1>1, <1>5, PromptFailsKeeps DEF PromptError, PromptErrorUpTo
  <2>2. \/ pc' = "turnEnd"
        \/ pc' = "delaying" /\ turn.tries < MaxTries
    BY <1>5 DEF PromptError, PromptErrorUpTo
  <2>3. LoopTypes'
    BY <1>1, <1>2, <2>2 DEF LoopTypes
  <2>4. TurnFits'
    <3>1. turn'.tries = turn.tries
      BY <2>1 DEF Calms, Calmed, Kept
    <3>2. QED
      BY <2>1, <2>2, <3>1 DEF TurnFits
  <2>5. QED
    BY <1>3, <2>1, <2>3, <2>4, InvNext DEF Calms, Calmed, Kept
<1>6. QED
  BY <1>4, <1>5 DEF Answers

\* The turn's end: nothing is left open.
LEMMA TurnEndKeeps ==
    ASSUME GeminiInv, TurnEnd PROVE GeminiInv'
<1>1. AcpTypeOK /\ LoopTypes /\ PromptTypes /\ TurnKept(turn) /\ TurnFits
  BY DEF GeminiInv
<1>2. /\ pc = "turnEnd" /\ pc' \in {"cleanup", "wait"} /\ pendingRequests' = {}
      /\ turn' = Ended(turn) /\ prompt' = prompt
      /\ batch' = {} /\ mode' = NoMode /\ settled' = settled \union batch
  BY DEF TurnEnd
<1>3. prompt' = FALSE
  BY <1>1, <1>2, NoPrompt DEF AcpTypeOK
<1>4. TurnKept(turn') /\ turn'.section = NoSection /\ turn'.thinking = FALSE
  <2> DEFINE u == BrokenOff(turn)
             v == [u EXCEPT !.tries = 1, !.output = {}, !.taskStarted = FALSE, !.thinking = FALSE]
  <2>1. TurnKept(u) /\ u.section = NoSection
    BY <1>1, BrokenOffKeeps
  <2>2. turn' = v
    BY <1>2 DEF Ended
  <2> HIDE DEF u
  <2>3. /\ v \in Turn /\ v.section = NoSection /\ v.thinking = FALSE /\ v.output = {}
        /\ v.shown = u.shown
    <3>1. 1 \in 1..MaxTries
      BY GeminiTurnAssumption
    <3>2. u \in Turn
      BY <2>1 DEF TurnKept
    <3>3. QED
      BY <2>1, <3>1, <3>2 DEF Turn
  <2> HIDE DEF v
  <2>4. TurnKept(v)
    BY <2>1, <2>3 DEF TurnKept
  <2>5. QED
    BY <2>2, <2>3, <2>4
<1>5. AcpTypeOK'
  <2>1. ProcessTypes'
    BY <1>1, AcpTypes DEF TurnEnd, ProcessTypes
  <2>2. AgentTypes'
    BY <1>1, AcpTypes DEF TurnEnd, AgentTypes
  <2>3. Flags'
    BY <1>1, AcpTypes DEF TurnEnd, Flags
  <2>4. QED
    BY <2>1, <2>2, <2>3, AcpTypesNext
<1>6. PromptTypes'
  BY <1>1, <1>2 DEF TurnEnd, PromptTypes
<1>7. LoopTypes'
  BY <1>1, <1>2 DEF TurnEnd, LoopTypes
<1>8. TurnFits'
  BY <1>2, <1>3, <1>4 DEF TurnFits
<1>9. QED
  BY <1>4, <1>5, <1>6, <1>7, <1>8, InvNext

\* The response is complete, and the ends of the session.
LEMMA EndsKeep ==
    ASSUME GeminiInv, ResponseComplete \/ Cleanup \/ CleanedUp \/ KillEnds PROVE GeminiInv'
<1>1. AcpTypeOK /\ LoopTypes /\ PromptTypes /\ TurnKept(turn) /\ TurnFits
  BY DEF GeminiInv
<1>2. UNCHANGED <<messageQueue, batch, mode, backendVars, pendingRequests, permissionMode, turn, abortVars, historyVars>>
  BY DEF ResponseComplete, Cleanup, CleanedUp, KillEnds
<1>3. PromptTypes'
  BY <1>1, <1>2, PromptTypesStay
<1>4. pc' \in {"turnEnd", "closing", "exited"}
  BY DEF ResponseComplete, Cleanup, CleanedUp, KillEnds
<1>5. LoopTypes'
  BY <1>1, <1>2, <1>4 DEF LoopTypes
<1>6. AcpTypeOK' /\ (prompt' => prompt)
  <2>1. Dispose \/ UNCHANGED quietVars
    BY DEF ResponseComplete, Cleanup, CleanedUp, KillEnds
  <2>2. CASE Dispose
    BY <1>1, <2>2, DisposeKeeps
  <2>3. CASE UNCHANGED quietVars
    BY <1>1, <2>3 DEF AcpTypeOK
  <2>4. QED
    BY <2>1, <2>2, <2>3
<1>7. pc' = "exited" \/ pc \in {"responding", "cleanup"}
  BY DEF ResponseComplete, Cleanup, CleanedUp, KillEnds
<1>8. pc' = "exited" \/ prompt = FALSE
  <2>1. CASE pc \in {"responding", "cleanup"}
    BY <1>1, <2>1, NoPrompt DEF AcpTypeOK
  <2>2. QED
    BY <1>7, <2>1
<1>9. TurnFits'
  BY <1>1, <1>4, <1>6, <1>8, FitsElsewhere
<1>10. TurnKept(turn')
  BY <1>1, <1>2
<1>11. QED
  BY <1>3, <1>5, <1>6, <1>9, <1>10, InvNext

LEMMA GeminiStops ==
    ASSUME GeminiInv, UNCHANGED vars PROVE GeminiInv'
<1>1. AcpTypeOK /\ LoopTypes /\ PromptTypes /\ TurnKept(turn) /\ TurnFits
  BY DEF GeminiInv
<1>2. AcpTypeOK' /\ LoopTypes' /\ PromptTypes' /\ turn' = turn /\ TurnFits'
  BY <1>1 DEF vars, AcpTypeOK, LoopTypes, PromptTypes, TurnFits
<1>3. QED
  BY <1>1, <1>2, InvNext

\* The invariant holds.
LEMMA GeminiInvariant == Spec => []GeminiInv
<1>1. GeminiInv /\ [Next]_vars => GeminiInv'
  <2> SUFFICES ASSUME GeminiInv, [Next]_vars PROVE GeminiInv'
    OBVIOUS
  <2>1. CASE Turns
    BY <2>1, TakesKeep, SessionStartsKeep, WaitingForASessionKeeps, GivingKeeps, TurnEndKeeps, EndsKeep
       DEF Turns
  <2>2. CASE Answers
    BY <2>2, AnswersKeep
  <2>3. CASE UserSteps
    BY <2>3, PushKeeps, PermissionsKeep, AbortsKeep DEF UserSteps
  <2>4. CASE BackendSteps \/ Deadlines
    BY <2>4, BackendStepsKeep
  <2>5. CASE \E t \in Tool : HandleToolCall(t)
    BY <2>5, PermissionsKeep
  <2>6. CASE AbortEnds \/ KillDisposes
    BY <2>6, AbortEndsKeeps
  <2>7. CASE KillEnds
    BY <2>7, EndsKeep
  <2>8. CASE UNCHANGED vars
    BY <2>8, GeminiStops
  <2>9. QED
    BY <2>1, <2>2, <2>3, <2>4, <2>5, <2>6, <2>7, <2>8 DEF Next, Stops
<1>2. QED
  BY GeminiInit, <1>1, PTL DEF Spec

---------------------------------------------------------------------------

\* Every variable of a Gemini session keeps its type.
THEOREM GeminiTypeCorrect == Spec => []TypeOK
<1>1. GeminiInv => TypeOK
  <2> SUFFICES ASSUME GeminiInv PROVE TypeOK
    OBVIOUS
  <2>1. AcpTypeOK /\ LoopTypes /\ PromptTypes /\ turn \in Turn
    BY DEF GeminiInv, TurnKept
  <2>2. {aborted, aborting, shouldExit} \subseteq BOOLEAN
    <3>1. aborted \in BOOLEAN /\ aborting \in BOOLEAN /\ shouldExit \in BOOLEAN
      BY <2>1 DEF LoopTypes
    <3>2. QED
      BY <3>1, Zenon
  <2>3. {mode, geminiBackend, currentModeHash} \subseteq Mode \union {NoMode}
    BY <2>1 DEF LoopTypes
  <2>4. batch \subseteq 1..MaxPrompts
    BY <2>1, GeminiSessionAssumption DEF PromptTypes
  <2>5. QED
    BY <2>1, <2>2, <2>3, <2>4 DEF TypeOK, LoopTypes, PromptTypes
<1>2. QED
  BY GeminiInvariant, <1>1, PTL

\* An answer is the text of one try, whatever updates, errors, aborts and disposals come
\* between the tries (setupGeminiMessageHandler, and the loop over the tries in runGemini).
THEOREM AnswersAreOneTrys == Spec => []AnswerIsOneTrys
<1>1. GeminiInv => AnswerIsOneTrys
  BY DEF GeminiInv, TurnKept, AnswerIsOneTrys
<1>2. QED
  BY GeminiInvariant, <1>1, PTL

\* Between turns no permission is asked for, every thought shown as a call has had one
\* result, and the agent is not shown as thinking (the turn's finally in runGemini).
THEOREM NothingIsLeftOpen == Spec => []TurnLeavesNothingOpen
<1>1. GeminiInv => TurnLeavesNothingOpen
  <2> SUFFICES ASSUME GeminiInv, pc = "wait" PROVE /\ pendingRequests = {} /\ turn.section.call = 0
                                                   /\ \A call \in 1..Len(turn.shown) : turn.shown[call] = 1
                                                   /\ ~turn.thinking
    BY DEF TurnLeavesNothingOpen
  <2>1. pendingRequests = {} /\ turn.section = NoSection /\ turn.thinking = FALSE
    BY DEF GeminiInv, TurnFits
  <2>2. turn.section.call = 0
    BY <2>1, NoSectionIsSection
  <2>3. \A call \in 1..Len(turn.shown) : turn.shown[call] = 1
    BY <2>2 DEF GeminiInv, TurnKept, ThoughtsClosed
  <2>4. ~turn.thinking
    BY <2>1, Zenon
  <2>5. QED
    BY <2>1, <2>2, <2>3, <2>4
<1>2. QED
  BY GeminiInvariant, <1>1, PTL
====
