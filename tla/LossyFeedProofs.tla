---------------------------- MODULE LossyFeedProofs ----------------------------
(***************************************************************************)
(* Proofs about LossyFeed, for any set of topics and any least batch.      *)
(***************************************************************************)
EXTENDS LossyFeed, Integers, SequenceTheorems, TLAPS

-------------------------------------------------------------------------------
(* What a LossyFeed guarantees: the numbers delivered, and then those pending, *)
(* are increasing and below the next one.                                      *)

Increasing(s) == \A i, j \in 1..Len(s) : i < j => s[i] < s[j]

Sorted(d, p, n) ==
  /\ Increasing(d) /\ Increasing(p)
  /\ \A i \in 1..Len(d) : d[i] < n
  /\ \A j \in 1..Len(p) : p[j] < n
  /\ \A i \in 1..Len(d), j \in 1..Len(p) : d[i] < p[j]

FeedInv ==
  /\ next \in Nat \ {0}
  /\ pending \in [Topic -> Seq(Nat)] /\ delivered \in [Topic -> Seq(Nat)]
  /\ \A t \in Topic : Sorted(delivered[t], pending[t], next)

\* The first n numbers of a sequence.
LEMMA FirstNumbers ==
  ASSUME NEW c \in Seq(Nat), NEW n \in Nat, n <= Len(c)
  PROVE  /\ SubSeq(c, 1, n) \in Seq(Nat)
         /\ Len(SubSeq(c, 1, n)) = n
         /\ \A i \in 1..n : SubSeq(c, 1, n)[i] = c[i]
<1>1. Len(c) \in Nat /\ \A i \in 1..Len(c) : c[i] \in Nat
  OBVIOUS
<1>2. \A i \in 1..n : c[i] \in Nat
  BY <1>1
<1> DEFINE v == SubSeq(c, 1, n)
<1>3. /\ v \in Seq(Nat)
      /\ Len(v) = IF 1 <= n THEN n - 1 + 1 ELSE 0
      /\ \A i \in 1..n - 1 + 1 : v[i] = c[1 + i - 1]
  BY <1>2, SubSeqProperties, SMTT(30)
<1> HIDE DEF v
<1>4. Len(v) = n /\ \A i \in 1..n : v[i] = c[i]
  BY <1>3
<1> QED
  BY <1>3, <1>4 DEF v

\* The numbers after the first n.
LEMMA LastNumbers ==
  ASSUME NEW c \in Seq(Nat), NEW n \in Nat, n <= Len(c)
  PROVE  /\ SubSeq(c, n + 1, Len(c)) \in Seq(Nat)
         /\ Len(SubSeq(c, n + 1, Len(c))) = Len(c) - n
         /\ \A i \in 1..Len(c) - n : SubSeq(c, n + 1, Len(c))[i] = c[n + i]
<1>1. PICK k \in Nat : k = Len(c) /\ \A i \in 1..k : c[i] \in Nat
  OBVIOUS
<1>2. \A i \in n + 1..k : c[i] \in Nat
  BY <1>1
<1> DEFINE v == SubSeq(c, n + 1, k)
<1>3. /\ v \in Seq(Nat)
      /\ Len(v) = IF n + 1 <= k THEN k - (n + 1) + 1 ELSE 0
      /\ \A i \in 1..k - (n + 1) + 1 : v[i] = c[n + 1 + i - 1]
  BY <1>2, SubSeqProperties, SMTT(30)
<1> HIDE DEF v
<1>4. Len(v) = k - n
  BY <1>1, <1>3
<1>5. ASSUME NEW i \in 1..k - n PROVE v[i] = c[n + i]
  <2>1. i \in 1..k - (n + 1) + 1 /\ n + 1 + i - 1 = n + i
    OBVIOUS
  <2> QED
    BY <1>3, <2>1
<1> QED
  BY <1>1, <1>3, <1>4, <1>5 DEF v

\* What is sorted below a number is sorted below the next.
LEMMA SortedLater ==
  ASSUME NEW d \in Seq(Nat), NEW p \in Seq(Nat), NEW n \in Nat, Sorted(d, p, n)
  PROVE  Sorted(d, p, n + 1)
<1>1. (\A i \in 1..Len(d) : d[i] \in Nat) /\ \A j \in 1..Len(p) : p[j] \in Nat
  OBVIOUS
<1>2. (\A i \in 1..Len(d) : d[i] < n) /\ \A j \in 1..Len(p) : p[j] < n
  BY DEF Sorted
<1>3. \A i \in 1..Len(d) : d[i] < n + 1
  BY <1>1, <1>2
<1>4. \A j \in 1..Len(p) : p[j] < n + 1
  BY <1>1, <1>2
<1> QED
  BY <1>3, <1>4 DEF Sorted

\* q is p with the next number n and only its first m numbers kept.
Grows(d, p, n, m, q) ==
  /\ q = SubSeq(Append(p, n), 1, m)
  /\ Sorted(d, q, n + 1)
  /\ \A j \in 1..Len(q) : q[j] = n \/ \E i \in 1..Len(p) : q[j] = p[i]

\* The next number goes to the end, and a tail is cut off.
LEMMA SortedGrown ==
  ASSUME NEW d \in Seq(Nat), NEW p \in Seq(Nat), NEW n \in Nat, Sorted(d, p, n),
         NEW m \in Nat, m <= Len(p) + 1
  PROVE  \E q \in Seq(Nat) : Grows(d, p, n, m, q)
<1> DEFINE g == Append(p, n)
           q == SubSeq(g, 1, m)
<1>1. Len(p) \in Nat
  OBVIOUS
<1>2. /\ g \in Seq(Nat) /\ Len(g) = Len(p) + 1
      /\ \A i \in 1..Len(p) : g[i] = p[i]
      /\ g[Len(p) + 1] = n
  BY AppendProperties
<1> HIDE DEF g
<1>3. \A i \in 1..m : g[i] = IF i <= Len(p) THEN p[i] ELSE n
  <2> TAKE i \in 1..m
  <2>1. i \in 1..Len(p) \/ i = Len(p) + 1
    BY <1>1
  <2> QED
    BY <1>1, <1>2, <2>1
<1>4. m <= Len(g)
  BY <1>2
<1>5. q \in Seq(Nat) /\ Len(q) = m /\ \A i \in 1..m : q[i] = g[i]
  BY <1>2, <1>4, FirstNumbers
<1> HIDE DEF q
<1>6. \A j \in 1..Len(q) : q[j] = IF j <= Len(p) THEN p[j] ELSE n
  BY <1>3, <1>5
<1>7. \A j \in 1..Len(p) : p[j] \in Nat /\ p[j] < n
  BY DEF Sorted
<1>8. Increasing(q)
  <2> SUFFICES ASSUME NEW i \in 1..Len(q), NEW j \in 1..Len(q), i < j PROVE q[i] < q[j]
    BY DEF Increasing
  <2>1. i \in 1..Len(p) /\ q[i] = p[i]
    BY <1>1, <1>5, <1>6
  <2>2. CASE j <= Len(p)
    <3>1. j \in 1..Len(p) /\ q[j] = p[j]
      BY <1>1, <1>5, <1>6, <2>2
    <3> QED
      BY <2>1, <3>1 DEF Sorted, Increasing
  <2>3. CASE ~(j <= Len(p))
    BY <1>6, <1>7, <2>1, <2>3
  <2> QED
    BY <2>2, <2>3
<1>9. ASSUME NEW j \in 1..Len(q) PROVE q[j] < n + 1 /\ \A i \in 1..Len(d) : d[i] < q[j]
  <2>1. CASE j <= Len(p)
    <3>1. j \in 1..Len(p) /\ q[j] = p[j]
      BY <1>1, <1>5, <1>6, <2>1
    <3> QED
      BY <1>7, <3>1 DEF Sorted
  <2>2. CASE ~(j <= Len(p))
    BY <1>6, <2>2 DEF Sorted
  <2> QED
    BY <2>1, <2>2
<1>10. Sorted(d, q, n + 1)
  BY <1>8, <1>9, SortedLater DEF Sorted
<1>11. \A j \in 1..Len(q) : q[j] = n \/ \E i \in 1..Len(p) : q[j] = p[i]
  BY <1>1, <1>5, <1>6
<1>12. Grows(d, p, n, m, q)
  BY <1>10, <1>11 DEF Grows, q, g
<1> QED
  BY <1>5, <1>12

\* f is d with the first m numbers of p, and r is the rest of p.
Settles(d, p, n, m, f, r) ==
  /\ f = d \o SubSeq(p, 1, m) /\ r = SubSeq(p, m + 1, Len(p))
  /\ Sorted(d, r, n) /\ Sorted(f, r, n)
  /\ \A j \in 1..Len(r) : \E i \in 1..Len(p) : r[j] = p[i]
  /\ \A j \in 1..Len(f) : \/ \E i \in 1..Len(d) : f[j] = d[i]
                          \/ \E i \in 1..Len(p) : f[j] = p[i]

\* The oldest numbers leave what is pending and may be delivered.
LEMMA SortedSettled ==
  ASSUME NEW d \in Seq(Nat), NEW p \in Seq(Nat), NEW n \in Nat, Sorted(d, p, n),
         NEW m \in Nat, m <= Len(p)
  PROVE  \E f, r \in Seq(Nat) : Settles(d, p, n, m, f, r)
<1> DEFINE b == SubSeq(p, 1, m)
           f == d \o b
           r == SubSeq(p, m + 1, Len(p))
<1>1. Len(p) \in Nat /\ Len(d) \in Nat
  OBVIOUS
<1>2. \A i \in 1..Len(p) : p[i] \in Nat
  OBVIOUS
<1>3. b \in Seq(Nat) /\ Len(b) = m /\ \A i \in 1..m : b[i] = p[i]
  BY FirstNumbers
<1>4. /\ r \in Seq(Nat) /\ Len(r) = Len(p) - m
      /\ \A i \in 1..Len(p) - m : r[i] = p[m + i]
  BY LastNumbers
<1> HIDE DEF b, r
<1>5. /\ f \in Seq(Nat) /\ Len(f) = Len(d) + m
      /\ \A i \in 1..Len(d) + m : f[i] = IF i <= Len(d) THEN d[i] ELSE b[i - Len(d)]
  BY <1>3, ConcatProperties
<1> HIDE DEF f
<1>6. ASSUME NEW j \in 1..Len(r) PROVE m + j \in 1..Len(p) /\ r[j] = p[m + j]
  <2>1. j \in 1..Len(p) - m
    BY <1>4
  <2>2. m + j \in 1..Len(p)
    BY <1>1, <2>1
  <2> QED
    BY <1>4, <2>1, <2>2
<1>7. \A i \in 1..Len(f) :
         \/ i \in 1..Len(d) /\ f[i] = d[i]
         \/ i - Len(d) \in 1..m /\ i - Len(d) \in 1..Len(p) /\ f[i] = p[i - Len(d)]
  <2> TAKE i \in 1..Len(f)
  <2>1. CASE i <= Len(d)
    BY <1>1, <1>5, <2>1
  <2>2. CASE ~(i <= Len(d))
    <3>1. i - Len(d) \in 1..m /\ i - Len(d) \in 1..Len(p)
      BY <1>1, <1>5, <2>2
    <3> QED
      BY <1>3, <1>5, <2>2, <3>1
  <2> QED
    BY <2>1, <2>2
<1>8. /\ \A i, j \in 1..Len(p) : i < j => p[i] < p[j]
      /\ \A i, j \in 1..Len(d) : i < j => d[i] < d[j]
      /\ \A i \in 1..Len(d) : d[i] < n
      /\ \A j \in 1..Len(p) : p[j] < n
      /\ \A i \in 1..Len(d), j \in 1..Len(p) : d[i] < p[j]
  BY DEF Sorted, Increasing
<1>9. Sorted(d, r, n)
  <2>1. ASSUME NEW i \in 1..Len(r), NEW j \in 1..Len(r), i < j PROVE r[i] < r[j]
    <3>1. m + i < m + j
      BY <2>1
    <3> QED
      BY <1>6, <1>8, <3>1
  <2>2. \A j \in 1..Len(r) : r[j] < n
    BY <1>6, <1>8
  <2>3. \A i \in 1..Len(d), j \in 1..Len(r) : d[i] < r[j]
    BY <1>6, <1>8
  <2> QED
    BY <1>8, <2>1, <2>2, <2>3 DEF Sorted, Increasing
<1>10. Sorted(f, r, n)
  <2>1. ASSUME NEW i \in 1..Len(f), NEW j \in 1..Len(f), i < j PROVE f[i] < f[j]
    <3>1. CASE i \in 1..Len(d) /\ f[i] = d[i] /\ j \in 1..Len(d) /\ f[j] = d[j]
      BY <1>8, <2>1, <3>1
    <3>2. CASE i \in 1..Len(d) /\ f[i] = d[i]
               /\ j - Len(d) \in 1..Len(p) /\ f[j] = p[j - Len(d)]
      BY <1>8, <3>2
    <3>3. CASE i - Len(d) \in 1..Len(p) /\ f[i] = p[i - Len(d)]
               /\ j - Len(d) \in 1..Len(p) /\ f[j] = p[j - Len(d)]
      <4>1. i - Len(d) < j - Len(d)
        BY <1>1, <2>1
      <4> QED
        BY <1>8, <3>3, <4>1
    <3>4. ~(i - Len(d) \in 1..m /\ j \in 1..Len(d))
      BY <1>1, <2>1
    <3> QED
      BY <1>7, <3>1, <3>2, <3>3, <3>4
  <2>2. \A i \in 1..Len(f) : f[i] < n
    BY <1>7, <1>8
  <2>3. ASSUME NEW i \in 1..Len(f), NEW j \in 1..Len(r) PROVE f[i] < r[j]
    <3>1. CASE i \in 1..Len(d) /\ f[i] = d[i]
      BY <1>6, <1>8, <3>1
    <3>2. CASE i - Len(d) \in 1..m /\ i - Len(d) \in 1..Len(p) /\ f[i] = p[i - Len(d)]
      <4>1. i - Len(d) < m + j
        BY <1>1, <3>2
      <4> QED
        BY <1>6, <1>8, <3>2, <4>1
    <3> QED
      BY <1>7, <3>1, <3>2
  <2> QED
    BY <1>9, <2>1, <2>2, <2>3 DEF Sorted, Increasing
<1>11. \A j \in 1..Len(r) : \E i \in 1..Len(p) : r[j] = p[i]
  BY <1>6
<1>12. \A j \in 1..Len(f) : \/ \E i \in 1..Len(d) : f[j] = d[i]
                            \/ \E i \in 1..Len(p) : f[j] = p[i]
  BY <1>7
<1>13. f = d \o SubSeq(p, 1, m) /\ r = SubSeq(p, m + 1, Len(p))
  BY DEF f, b, r
<1>14. Settles(d, p, n, m, f, r)
  BY <1>9, <1>10, <1>11, <1>12, <1>13 DEF Settles
<1> QED
  BY <1>4, <1>5, <1>14

-------------------------------------------------------------------------------
(* The steps of a LossyFeed *)

\* Event number k is delivered or pending on topic t.
Carries(t, k) ==
  \/ \E i \in 1..Len(delivered[t]) : delivered[t][i] = k
  \/ \E j \in 1..Len(pending[t]) : pending[t][j] = k

\* At first the feed is empty.
LEMMA InitFeed == FeedInit => FeedInv /\ \A t \in Topic : \A k : ~Carries(t, k)
<1> SUFFICES ASSUME FeedInit PROVE FeedInv /\ \A t \in Topic : \A k : ~Carries(t, k)
  OBVIOUS
<1>1. \A t \in Topic : pending[t] = <<>> /\ delivered[t] = <<>>
  BY DEF FeedInit
<1>2. <<>> \in Seq(Nat) /\ Len(<<>>) = 0
  BY EmptySeq
<1>3. \A t \in Topic : \A k : ~Carries(t, k)
  BY <1>1, <1>2 DEF Carries
<1> QED
  BY <1>1, <1>2, <1>3 DEF FeedInit, FeedInv, Sorted, Increasing

\* Accepting an event adds its number, the next one, to one topic.
LEMMA AcceptStep ==
  ASSUME FeedInv, MinSlice \in Nat, NEW t \in Topic, Accept(t)
  PROVE  /\ FeedInv'
         /\ next' = next + 1
         /\ \A u \in Topic : \A k : Carries(u, k)' => Carries(u, k) \/ (u = t /\ k = next)
<1>1. /\ next \in Nat \ {0} /\ pending \in [Topic -> Seq(Nat)]
      /\ delivered \in [Topic -> Seq(Nat)]
      /\ \A u \in Topic : Sorted(delivered[u], pending[u], next)
  BY DEF FeedInv
<1>2. next' = next + 1 /\ delivered' = delivered
  BY DEF Accept
<1>p. PICK d, p \in Seq(Nat) : d = delivered[t] /\ p = pending[t] /\ Sorted(d, p, next)
  BY <1>1
<1>3. PICK n \in {0} \cup MinSlice..Len(Append(p, next)) :
        pending' = [pending EXCEPT ![t] =
                      SubSeq(Append(p, next), 1, Len(Append(p, next)) - n)]
  BY <1>p DEF Accept
<1>4. Len(Append(p, next)) = Len(p) + 1 /\ Len(p) \in Nat
  BY <1>1, AppendProperties
<1>5. n \in Nat /\ n <= Len(p) + 1
  BY <1>3, <1>4
<1>6. Len(p) + 1 - n \in Nat /\ Len(p) + 1 - n <= Len(p) + 1
  BY <1>4, <1>5
<1>q. PICK q \in Seq(Nat) : Grows(d, p, next, Len(p) + 1 - n, q)
  <2>1. next \in Nat /\ Sorted(d, p, next)
    BY <1>1, <1>p
  <2> QED
    BY <1>6, <2>1, SortedGrown
<1>7. /\ q = SubSeq(Append(p, next), 1, Len(p) + 1 - n)
      /\ Sorted(d, q, next + 1)
      /\ \A j \in 1..Len(q) : q[j] = next \/ \E i \in 1..Len(p) : q[j] = p[i]
  BY <1>q DEF Grows
<1>8. pending' = [pending EXCEPT ![t] = q]
  BY <1>3, <1>4, <1>7
<1>9. /\ pending' \in [Topic -> Seq(Nat)] /\ pending'[t] = q
      /\ \A u \in Topic \ {t} : pending'[u] = pending[u]
  BY <1>1, <1>8
<1>10. ASSUME NEW u \in Topic PROVE Sorted(delivered'[u], pending'[u], next')
  <2>1. Sorted(delivered[u], pending[u], next + 1)
    BY <1>1, SortedLater
  <2> QED
    BY <1>2, <1>7, <1>9, <1>p, <2>1
<1>11. ASSUME NEW u \in Topic, NEW k, Carries(u, k)'
       PROVE  Carries(u, k) \/ (u = t /\ k = next)
  <2>1. CASE u = t
    <3>1. CASE \E i \in 1..Len(d) : d[i] = k
      BY <1>p, <2>1, <3>1 DEF Carries
    <3>2. ASSUME NEW j \in 1..Len(q), q[j] = k
          PROVE  k = next \/ \E i \in 1..Len(p) : p[i] = k
      BY <1>7, <3>2
    <3>3. CASE \E j \in 1..Len(q) : q[j] = k
      BY <1>p, <2>1, <3>2, <3>3 DEF Carries
    <3> QED
      BY <1>2, <1>9, <1>11, <1>p, <2>1, <3>1, <3>3 DEF Carries
  <2>2. CASE u # t
    BY <1>2, <1>9, <1>11, <2>2 DEF Carries
  <2> QED
    BY <2>1, <2>2
<1>12. FeedInv'
  BY <1>1, <1>2, <1>9, <1>10 DEF FeedInv
<1> QED
  BY <1>2, <1>11, <1>12

\* Delivering or losing events adds no number to any topic.
LEMMA SettleStep ==
  ASSUME FeedInv, MinSlice \in Nat, NEW t \in Topic, Settle(t)
  PROVE  /\ FeedInv' /\ UNCHANGED next
         /\ \A u \in Topic : \A k : Carries(u, k)' => Carries(u, k)
<1>1. /\ next \in Nat \ {0} /\ pending \in [Topic -> Seq(Nat)]
      /\ delivered \in [Topic -> Seq(Nat)]
      /\ \A u \in Topic : Sorted(delivered[u], pending[u], next)
  BY DEF FeedInv
<1>p. PICK d, p \in Seq(Nat) : d = delivered[t] /\ p = pending[t] /\ Sorted(d, p, next)
  BY <1>1
<1>2. PICK n \in MinSlice..Len(p) :
        /\ pending' = [pending EXCEPT ![t] = SubSeq(p, n + 1, Len(p))]
        /\ \/ delivered' = [delivered EXCEPT ![t] = d \o SubSeq(p, 1, n)]
           \/ UNCHANGED delivered
        /\ UNCHANGED next
  BY <1>p DEF Settle
<1>3. n \in Nat /\ n <= Len(p)
  BY <1>1, <1>2
<1>s. PICK f \in Seq(Nat), r \in Seq(Nat) : Settles(d, p, next, n, f, r)
  <2>1. next \in Nat /\ Sorted(d, p, next)
    BY <1>1, <1>p
  <2> QED
    BY <1>3, <2>1, SortedSettled
<1>4. /\ f = d \o SubSeq(p, 1, n) /\ r = SubSeq(p, n + 1, Len(p))
      /\ Sorted(d, r, next) /\ Sorted(f, r, next)
      /\ \A j \in 1..Len(r) : \E i \in 1..Len(p) : r[j] = p[i]
      /\ \A j \in 1..Len(f) : \/ \E i \in 1..Len(d) : f[j] = d[i]
                              \/ \E i \in 1..Len(p) : f[j] = p[i]
  BY <1>s DEF Settles
<1>5. /\ pending' \in [Topic -> Seq(Nat)] /\ pending'[t] = r
      /\ \A u \in Topic \ {t} : pending'[u] = pending[u]
  <2>1. pending' = [pending EXCEPT ![t] = r]
    BY <1>2, <1>4
  <2> QED
    BY <1>1, <2>1
<1>6. /\ delivered' \in [Topic -> Seq(Nat)] /\ delivered'[t] \in {d, f}
      /\ \A u \in Topic \ {t} : delivered'[u] = delivered[u]
  <2>1. delivered' = [delivered EXCEPT ![t] = f] \/ delivered' = delivered
    BY <1>2, <1>4
  <2> QED
    BY <1>1, <1>p, <2>1
<1>7. ASSUME NEW u \in Topic PROVE Sorted(delivered'[u], pending'[u], next)
  <2>1. CASE u = t
    <3>1. Sorted(d, r, next) /\ Sorted(f, r, next)
      BY <1>4
    <3> QED
      BY <1>5, <1>6, <2>1, <3>1
  <2>2. CASE u # t
    <3>1. Sorted(delivered[u], pending[u], next)
      BY <1>1
    <3> QED
      BY <1>5, <1>6, <2>2, <3>1
  <2> QED
    BY <2>1, <2>2
<1>8. ASSUME NEW u \in Topic, NEW k, Carries(u, k)' PROVE Carries(u, k)
  <2>1. CASE u = t
    <3>1. CASE \E j \in 1..Len(r) : r[j] = k
      <4>1. \E i \in 1..Len(p) : p[i] = k
        BY <1>4, <3>1
      <4> QED
        BY <1>p, <2>1, <4>1 DEF Carries
    <3>2. CASE \E j \in 1..Len(f) : f[j] = k
      <4>1. (\E i \in 1..Len(d) : d[i] = k) \/ \E i \in 1..Len(p) : p[i] = k
        BY <1>4, <3>2
      <4> QED
        BY <1>p, <2>1, <4>1 DEF Carries
    <3>3. CASE \E j \in 1..Len(d) : d[j] = k
      BY <1>p, <2>1, <3>3 DEF Carries
    <3> QED
      BY <1>5, <1>6, <1>8, <2>1, <3>1, <3>2, <3>3 DEF Carries
  <2>2. CASE u # t
    BY <1>5, <1>6, <1>8, <2>2 DEF Carries
  <2> QED
    BY <2>1, <2>2
<1> QED
  BY <1>1, <1>2, <1>5, <1>6, <1>7, <1>8 DEF FeedInv

\* On every topic of a feed the numbers delivered, and then those pending, increase:
\* nothing is delivered twice or after something newer.
THEOREM FeedStaysInOrder == ASSUME MinSlice \in Nat PROVE FeedSpec => []FeedInv
<1>1. FeedInv /\ [FeedNext]_feedVars => FeedInv'
  <2>1. ASSUME FeedInv, UNCHANGED feedVars PROVE FeedInv'
    BY <2>1 DEF feedVars, FeedInv
  <2> QED
    BY <2>1, AcceptStep, SettleStep DEF FeedNext
<1> QED
  BY <1>1, InitFeed, PTL DEF FeedSpec

\* An event is on one topic, and it is one that was accepted.
Once ==
  \A t \in Topic : \A k : Carries(t, k) =>
    /\ k \in 1..next - 1
    /\ \A u \in Topic : Carries(u, k) => u = t

\* An event of a feed is delivered or pending on one topic only, and nothing is that was
\* not accepted.
THEOREM FeedAddsNothing == ASSUME MinSlice \in Nat PROVE FeedSpec => []Once
<1>1. FeedInit => Once
  BY InitFeed DEF Once
<1>2. ASSUME FeedInv, Once, NEW t \in Topic, Accept(t) PROVE Once'
  <2>1. next \in Nat \ {0} /\ next' = next + 1
    BY <1>2, AcceptStep DEF FeedInv
  <2>2. \A u \in Topic : \A k : Carries(u, k)' => Carries(u, k) \/ (u = t /\ k = next)
    BY <1>2, AcceptStep
  <2>3. ASSUME NEW u \in Topic, NEW k, Carries(u, k)'
        PROVE  k \in 1..next' - 1
    <3>1. CASE Carries(u, k)
      BY <1>2, <2>1, <3>1 DEF Once
    <3>2. CASE k = next
      BY <2>1, <3>2
    <3> QED
      BY <2>2, <2>3, <3>1, <3>2
  <2>4. ASSUME NEW u \in Topic, NEW v \in Topic, NEW k, Carries(u, k)', Carries(v, k)'
        PROVE  v = u
    <3>1. CASE k = next
      <4>1. ~(next \in 1..next - 1)
        BY <2>1
      <4>2. ~Carries(u, k) /\ ~Carries(v, k)
        BY <1>2, <3>1, <4>1 DEF Once
      <4> QED
        BY <2>2, <2>4, <4>2
    <3>2. CASE k # next
      BY <1>2, <2>2, <2>4, <3>2 DEF Once
    <3> QED
      BY <3>1, <3>2
  <2> QED
    BY <2>3, <2>4 DEF Once
<1>3. ASSUME FeedInv, Once, NEW t \in Topic, Settle(t) PROVE Once'
  BY <1>3, SettleStep DEF Once
<1>4. ASSUME Once, UNCHANGED feedVars PROVE Once'
  BY <1>4 DEF Once, Carries, feedVars
<1>5. FeedInv /\ Once /\ [FeedNext]_feedVars => Once'
  BY <1>2, <1>3, <1>4 DEF FeedNext
<1>6. FeedSpec => []FeedInv
  BY FeedStaysInOrder
<1> QED
  BY <1>1, <1>5, <1>6, PTL DEF FeedSpec
================================================================================
