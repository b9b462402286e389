--------------------------- MODULE DecodingProofs ---------------------------
(***************************************************************************)
(* What Decoding promises for any wires, frames, losses and orders of      *)
(* arrival: the connections and the directions of streams, the handoffs,   *)
(* where decoding was lost, which frames a record cites, that records are  *)
(* the messages in a row, and what a rebuild finds.                        *)
(***************************************************************************)
EXTENDS Decoding, SequenceTheorems, FiniteSetTheorems, WellFoundedInduction, TLAPS

-----------------------------------------------------------------------------
(* Induction over a set, and sums                                          *)

Less == {e \in Nat \X Nat : e[1] < e[2]}

\* A nonempty set of naturals has a least element.
LEMMA Least ==
  ASSUME NEW S, S \subseteq Nat, S # {}
  PROVE  \E m \in S : \A n \in S : m <= n
<1>1. IsWellFoundedOn(Less, Nat)
  <2>1. Less = OpToRel(<, Nat)
    BY Zenon DEF Less, OpToRel
  <2> QED
    BY <2>1, NatLessThanWellFounded, Zenon
<1>2. PICK m \in S : \A n \in S : <<n, m>> \notin Less
  BY <1>1, WFMin
<1>3. ASSUME NEW n \in S PROVE m <= n
  <2>1. m \in Nat /\ n \in Nat /\ <<n, m>> \notin Less
    BY <1>2
  <2> QED
    BY <2>1 DEF Less
<1> QED
  BY <1>3

\* A set that has 0, and with each number the next, has them all up to n.
LEMMA Upward ==
  ASSUME NEW n \in Nat, NEW S, 0 \in S,
         \A k \in 1 .. n : k - 1 \in S => k \in S
  PROVE  \A k \in 0 .. n : k \in S
<1> DEFINE Rest == {k \in 0 .. n : k \notin S}
<1>1. SUFFICES ASSUME Rest # {} PROVE FALSE
  BY <1>1
<1>2. Rest \subseteq Nat
  OBVIOUS
<1> HIDE DEF Rest
<1>3. PICK k \in Rest : \A j \in Rest : k <= j
  BY <1>1, <1>2, Least
<1>4. k \in 0 .. n /\ k \notin S
  BY DEF Rest
<1>5. k \in 1 .. n /\ k - 1 \in 0 .. n /\ k - 1 \notin Rest
  BY <1>2, <1>3, <1>4
<1> QED
  BY <1>4, <1>5 DEF Rest

\* The recursion of Sums up to n, as a relation.
AreSums(f, s, n) == f = [k \in 0 .. n |-> IF k = 0 THEN 0 ELSE f[k - 1] + s[k]]

\* The recursion of Sums has a solution.
LEMMA SumsExist ==
  ASSUME NEW s, NEW n \in Nat
  PROVE  \E f : AreSums(f, s, n)
<1> DEFINE S == {k \in Nat : \E f : AreSums(f, s, k)}
<1>1. 0 \in S
  <2> DEFINE f == [k \in 0 .. 0 |-> 0]
  <2>1. \A k \in 0 .. 0 : f[k] = IF k = 0 THEN 0 ELSE f[k - 1] + s[k]
    OBVIOUS
  <2>2. AreSums(f, s, 0)
    BY <2>1 DEF AreSums
  <2> QED
    BY <2>2
<1>2. ASSUME NEW k \in 1 .. n, k - 1 \in S PROVE k \in S
  <2>1. PICK f : AreSums(f, s, k - 1)
    BY <1>2
  <2> DEFINE g == [j \in 0 .. k |-> IF j = k THEN f[k - 1] + s[k] ELSE f[j]]
  <2>2. \A j \in 0 .. k - 1 : f[j] = IF j = 0 THEN 0 ELSE f[j - 1] + s[j]
    BY <2>1 DEF AreSums
  <2>3. \A j \in 0 .. k : g[j] = IF j = 0 THEN 0 ELSE g[j - 1] + s[j]
    BY <1>2, <2>2
  <2>4. g = [j \in 0 .. k |-> g[j]]
    OBVIOUS
  <2> HIDE DEF g
  <2>5. AreSums(g, s, k)
    BY <2>3, <2>4 DEF AreSums
  <2> QED
    BY <2>5
<1> HIDE DEF S
<1>3. n \in S
  BY <1>1, <1>2, Upward
<1> QED
  BY <1>3 DEF S

\* What Sums computes.
LEMMA SumsOf ==
  ASSUME NEW s \in Seq(Nat)
  PROVE  /\ Sums(s)[0] = 0
         /\ \A k \in 1 .. Len(s) : Sums(s)[k] = Sums(s)[k - 1] + s[k]
         /\ \A k \in 0 .. Len(s) : Sums(s)[k] \in Nat
         /\ \A j, k \in 0 .. Len(s) : j <= k => Sums(s)[j] <= Sums(s)[k]
<1> DEFINE f == Sums(s)
           n == Len(s)
<1>1. n \in Nat /\ \A k \in 1 .. n : s[k] \in Nat
  OBVIOUS
<1>2. AreSums(f, s, n)
  <2>1. \E g : AreSums(g, s, n)
    BY <1>1, SumsExist
  <2>2. AreSums(CHOOSE g : AreSums(g, s, n), s, n)
    BY <2>1
  <2> QED
    BY <2>2 DEF Sums, AreSums
<1> HIDE DEF f
<1>3. f[0] = 0 /\ \A k \in 1 .. n : f[k] = f[k - 1] + s[k]
  BY <1>1, <1>2 DEF AreSums
<1>4. \A k \in 0 .. n : f[k] \in Nat
  <2> DEFINE S == {k \in 0 .. n : f[k] \in Nat}
  <2>3. 0 \in S
    BY <1>1, <1>3
  <2>4. ASSUME NEW k \in 1 .. n, k - 1 \in S PROVE k \in S
    <3>1. f[k - 1] \in Nat /\ s[k] \in Nat /\ k \in 0 .. n
      BY <1>1, <2>4
    <3>2. f[k] = f[k - 1] + s[k]
      BY <1>3
    <3> QED
      BY <3>1, <3>2
  <2>1. 0 \in S /\ \A k \in 1 .. n : k - 1 \in S => k \in S
    BY <2>3, <2>4
  <2> HIDE DEF S
  <2>2. \A k \in 0 .. n : k \in S
    BY <1>1, <2>1, Upward
  <2> QED
    BY <2>2 DEF S
<1>5. ASSUME NEW j \in 0 .. n PROVE \A k \in 0 .. n : j <= k => f[j] <= f[k]
  <2> DEFINE S == {k \in 0 .. n : j <= k => f[j] <= f[k]}
  <2>1. 0 \in S
    BY <1>1, <1>4
  <2>2. ASSUME NEW k \in 1 .. n, k - 1 \in S PROVE k \in S
    <3>1. f[k] = f[k - 1] + s[k] /\ f[k - 1] \in Nat /\ s[k] \in Nat /\ f[j] \in Nat /\ f[k] \in Nat
      BY <1>1, <1>3, <1>4
    <3>2. j <= k - 1 => f[j] <= f[k - 1]
      BY <2>2
    <3> QED
      BY <1>1, <3>1, <3>2
  <2> HIDE DEF S
  <2>3. \A k \in 0 .. n : k \in S
    BY <1>1, <2>1, <2>2, Upward
  <2> QED
    BY <2>3 DEF S
<1> QED
  BY <1>3, <1>4, <1>5 DEF f

-----------------------------------------------------------------------------
(* Wires                                                                   *)

\* What Run lists.
LEMMA RunOf ==
  ASSUME NEW from \in Int, NEW to \in Int, from <= to + 1
  PROVE  /\ Run(from, to) \in Seq(Int)
         /\ Len(Run(from, to)) = to - from + 1
         /\ \A k \in 1 .. to - from + 1 : Run(from, to)[k] = from + k - 1
  BY DEF Run

\* Two runs are the same only if they begin alike.
LEMMA RunsDiffer ==
  ASSUME NEW a \in Int, NEW b \in Int, a <= b, NEW c \in Int, NEW d \in Int, c <= d,
         Run(a, b) = Run(c, d)
  PROVE  a = c /\ b = d
<1>1. a <= b + 1 /\ c <= d + 1
  OBVIOUS
<1>2. Len(Run(a, b)) = b - a + 1 /\ Len(Run(c, d)) = d - c + 1
  BY <1>1, RunOf
<1>3. Run(a, b)[1] = a /\ Run(c, d)[1] = c
  <2>1. 1 \in 1 .. b - a + 1 /\ 1 \in 1 .. d - c + 1
    OBVIOUS
  <2> QED
    BY <1>1, <2>1 DEF Run
<1> QED
  BY <1>2, <1>3

\* The messages of a wire follow each other and cut up its units.
LEMMA WireEnds ==
  ASSUME NEW w, IsWire(w)
  PROVE  /\ Len(w.sizes) \in Nat /\ DOMAIN w.sizes = 1 .. Len(w.sizes)
         /\ EndOf(w, 0) = 0
         /\ \A m \in 0 .. Len(w.sizes) : EndOf(w, m) \in Nat
         /\ \A m \in DOMAIN w.sizes :
              /\ StartOf(w, m) \in Nat \ {0}
              /\ EndOf(w, m) >= StartOf(w, m) + HeaderSize - 1
              /\ w.sizes[m] = EndOf(w, m) - StartOf(w, m) + 1
              /\ w.sizes[m] \in Nat /\ w.sizes[m] >= HeaderSize
         /\ \A m, n \in 0 .. Len(w.sizes) : m <= n => EndOf(w, m) <= EndOf(w, n)
         /\ \A m, n \in DOMAIN w.sizes : m < n => EndOf(w, m) < StartOf(w, n)
<1> DEFINE N == Len(w.sizes)
<1>1. w.sizes \in Seq({n \in Nat : n >= HeaderSize})
  BY DEF IsWire
<1>2. w.sizes \in Seq(Nat) /\ N \in Nat /\ DOMAIN w.sizes = 1 .. N
  BY <1>1
<1>3. \A m \in 1 .. N : w.sizes[m] \in Nat /\ w.sizes[m] >= HeaderSize
  BY <1>1
<1>4. EndOf(w, 0) = 0 /\ \A m \in 0 .. N : EndOf(w, m) \in Nat
  BY <1>2, SumsOf DEF EndOf
<1>5. \A m \in 1 .. N : EndOf(w, m) = EndOf(w, m - 1) + w.sizes[m]
  BY <1>2, SumsOf DEF EndOf
<1>6. \A m, n \in 0 .. N : m <= n => EndOf(w, m) <= EndOf(w, n)
  BY <1>2, SumsOf DEF EndOf
<1>7. ASSUME NEW m \in 1 .. N
      PROVE  /\ StartOf(w, m) \in Nat \ {0}
             /\ EndOf(w, m) >= StartOf(w, m) + HeaderSize - 1
             /\ w.sizes[m] = EndOf(w, m) - StartOf(w, m) + 1
  <2>1. m - 1 \in 0 .. N
    BY <1>2
  <2>2. EndOf(w, m - 1) \in Nat
    BY <1>4, <2>1
  <2> QED
    BY <1>3, <1>5, <2>2 DEF StartOf, HeaderSize
<1>8. ASSUME NEW m \in 1 .. N, NEW n \in 1 .. N, m < n PROVE EndOf(w, m) < StartOf(w, n)
  <2>1. m \in 0 .. N /\ n - 1 \in 0 .. N /\ m <= n - 1
    BY <1>2, <1>8
  <2>2. EndOf(w, m) <= EndOf(w, n - 1) /\ EndOf(w, m) \in Nat /\ EndOf(w, n - 1) \in Nat
    BY <1>4, <1>6, <2>1
  <2> QED
    BY <2>2 DEF StartOf
<1> QED
  BY <1>2, <1>3, <1>4, <1>6, <1>7, <1>8

\* A message begins where no other begins, lies on the wire, and asks for itself
\* or is a sentinel.
LEMMA MessagesApart ==
  ASSUME NEW w, IsWire(w), NEW m \in DOMAIN w.sizes
  PROVE  /\ \A n \in DOMAIN w.sizes : StartOf(w, n) = StartOf(w, m) => n = m
         /\ StartOf(w, m) .. EndOf(w, m) \subseteq Units(w)
         /\ \/ w.asks[StartOf(w, m)] = w.sizes[m]
            \/ IsSentinel(w, m) /\ w.sizes[m] = HeaderSize
<1> DEFINE N == Len(w.sizes)
<1>1. N \in Nat /\ m \in 1 .. N /\ DOMAIN w.sizes = 1 .. N
  BY WireEnds
<1>2. \A n \in DOMAIN w.sizes : EndOf(w, n) >= StartOf(w, n) /\ EndOf(w, n) \in Nat /\ StartOf(w, n) \in Nat
  BY <1>1, WireEnds DEF HeaderSize
<1>3. ASSUME NEW n \in DOMAIN w.sizes, StartOf(w, n) = StartOf(w, m) PROVE n = m
  <2>1. m < n => EndOf(w, m) < StartOf(w, n)
    BY WireEnds
  <2>2. n < m => EndOf(w, n) < StartOf(w, m)
    BY WireEnds
  <2> QED
    BY <1>1, <1>2, <1>3, <2>1, <2>2
<1>4. EndOf(w, m) <= EndOf(w, N) /\ EndOf(w, N) \in Nat /\ StartOf(w, m) \in Nat \ {0} /\ EndOf(w, m) \in Nat
  BY <1>1, WireEnds
<1>5. StartOf(w, m) .. EndOf(w, m) \subseteq Units(w)
  BY <1>4 DEF Units
<1>6. \/ w.asks[StartOf(w, m)] = w.sizes[m]
      \/ IsSentinel(w, m) /\ w.sizes[m] = HeaderSize
  BY DEF IsWire
<1> QED
  BY <1>3, <1>5, <1>6

-----------------------------------------------------------------------------
(* The ledger                                                              *)

Entry == [ref : Nat, n : Nat \ {0}]

\* How many units the first frames of a ledger cover.
LEMMA CoveredOf ==
  ASSUME NEW l \in Seq(Entry)
  PROVE  /\ Covered(l, 0) = 0
         /\ \A k \in 1 .. Len(l) : Covered(l, k) = Covered(l, k - 1) + l[k].n
         /\ \A k \in 0 .. Len(l) : Covered(l, k) \in Nat
         /\ \A j, k \in 0 .. Len(l) : j <= k => Covered(l, j) <= Covered(l, k)
         /\ \A k \in 1 .. Len(l) : l[k].n \in Nat \ {0} /\ l[k].ref \in Nat
<1> DEFINE s == [j \in DOMAIN l |-> l[j].n]
<1>1. DOMAIN l = 1 .. Len(l) /\ Len(l) \in Nat
  OBVIOUS
<1>2. \A k \in 1 .. Len(l) : l[k] \in Entry
  OBVIOUS
<1>3. \A k \in 1 .. Len(l) : l[k].n \in Nat \ {0} /\ l[k].ref \in Nat
  BY <1>2 DEF Entry
<1>4. s \in Seq(Nat) /\ Len(s) = Len(l)
  <2>1. s \in [1 .. Len(l) -> Nat]
    BY <1>1, <1>3
  <2> HIDE DEF s
  <2> QED
    BY <1>1, <2>1
<1>5. \A k \in 1 .. Len(l) : s[k] = l[k].n
  BY <1>1
<1>6. \A k : Covered(l, k) = Sums(s)[k]
  BY DEF Covered
<1> HIDE DEF s
<1>7. /\ Sums(s)[0] = 0
      /\ \A k \in 1 .. Len(s) : Sums(s)[k] = Sums(s)[k - 1] + s[k]
      /\ \A k \in 0 .. Len(s) : Sums(s)[k] \in Nat
      /\ \A j, k \in 0 .. Len(s) : j <= k => Sums(s)[j] <= Sums(s)[k]
  BY <1>4, SumsOf
<1>8. Covered(l, 0) = 0 /\ \A k \in 0 .. Len(l) : Covered(l, k) \in Nat
  BY <1>4, <1>6, <1>7
<1>9. \A k \in 1 .. Len(l) : Covered(l, k) = Covered(l, k - 1) + l[k].n
  BY <1>4, <1>5, <1>6, <1>7
<1>10. \A j, k \in 0 .. Len(l) : j <= k => Covered(l, j) <= Covered(l, k)
  <2> TAKE j, k \in 0 .. Len(l)
  <2>1. j <= k => Sums(s)[j] <= Sums(s)[k]
    BY <1>4, <1>7
  <2>2. Covered(l, j) = Sums(s)[j] /\ Covered(l, k) = Sums(s)[k]
    BY <1>6
  <2> QED
    BY <2>1, <2>2
<1> QED
  BY <1>3, <1>8, <1>9, <1>10

\* One frame more.
LEMMA CoveredMore ==
  ASSUME NEW l \in Seq(Entry), NEW e \in Entry
  PROVE  /\ Append(l, e) \in Seq(Entry)
         /\ \A k \in 0 .. Len(l) : Covered(Append(l, e), k) = Covered(l, k)
         /\ Covered(Append(l, e), Len(l) + 1) = Covered(l, Len(l)) + e.n
<1> DEFINE m == Append(l, e)
           S == {k \in 0 .. Len(l) : Covered(m, k) = Covered(l, k)}
<1>1. /\ m \in Seq(Entry) /\ Len(m) = Len(l) + 1 /\ m[Len(l) + 1] = e
      /\ \A k \in 1 .. Len(l) : m[k] = l[k]
      /\ Len(l) \in Nat
  OBVIOUS
<1> HIDE DEF m
<1>2. 0 \in S
  <2>1. Covered(m, 0) = 0 /\ Covered(l, 0) = 0
    BY <1>1, CoveredOf
  <2> QED
    BY <1>1, <2>1
<1>3. ASSUME NEW k \in 1 .. Len(l), k - 1 \in S PROVE k \in S
  <2>1. k \in 1 .. Len(m) /\ k \in 0 .. Len(l)
    BY <1>1
  <2>2. Covered(m, k) = Covered(m, k - 1) + m[k].n
    BY <1>1, <2>1, CoveredOf
  <2>3. Covered(l, k) = Covered(l, k - 1) + l[k].n
    BY CoveredOf
  <2> QED
    BY <1>1, <1>3, <2>1, <2>2, <2>3
<1> HIDE DEF S
<1>4. \A k \in 0 .. Len(l) : k \in S
  BY <1>1, <1>2, <1>3, Upward
<1>5. \A k \in 0 .. Len(l) : Covered(m, k) = Covered(l, k)
  BY <1>4 DEF S
<1>6. Covered(m, Len(l) + 1) = Covered(m, Len(l) + 1 - 1) + m[Len(l) + 1].n
  <2>1. Len(l) + 1 \in 1 .. Len(m)
    BY <1>1
  <2> QED
    BY <1>1, <2>1, CoveredOf
<1>7. Covered(m, Len(l) + 1) = Covered(l, Len(l)) + e.n
  <2>1. Len(l) + 1 - 1 = Len(l) /\ Len(l) \in 0 .. Len(l)
    BY <1>1
  <2> QED
    BY <1>1, <1>5, <1>6, <2>1
<1> QED
  BY <1>1, <1>5, <1>7 DEF m

\* Every covered unit is in the share of one frame.
LEMMA CoveredBy ==
  ASSUME NEW l \in Seq(Entry), NEW i \in 1 .. Covered(l, Len(l))
  PROVE  \E k \in 1 .. Len(l) : Covered(l, k - 1) < i /\ i <= Covered(l, k)
<1> DEFINE S == {k \in 0 .. Len(l) : i <= Covered(l, k)}
<1>1. Len(l) \in Nat /\ \A k \in 0 .. Len(l) : Covered(l, k) \in Nat
  BY CoveredOf
<1>2. Len(l) \in S /\ S \subseteq Nat
  BY <1>1
<1>3. PICK k \in S : \A j \in S : k <= j
  <2> HIDE DEF S
  <2> QED
    BY <1>2, Least
<1>4. k # 0
  <2>1. Covered(l, 0) = 0
    BY CoveredOf
  <2> QED
    BY <1>1, <2>1
<1>5. k \in 1 .. Len(l) /\ k - 1 \in 0 .. Len(l) /\ k - 1 \notin S
  BY <1>1, <1>3, <1>4
<1> QED
  BY <1>1, <1>5

\* What is used up by a message of n units, and by whom.
LEMMA UsedOf ==
  ASSUME NEW l \in Seq(Entry), NEW n \in 1 .. Covered(l, Len(l))
  PROVE  /\ Used(l, n) \in 1 .. Len(l)
         /\ Covered(l, Used(l, n) - 1) < n /\ n <= Covered(l, Used(l, n))
         /\ Covered(l, Used(l, n)) \in Nat
<1>1. Len(l) \in Nat /\ DOMAIN l = 1 .. Len(l) /\ \A k \in 0 .. Len(l) : Covered(l, k) \in Nat
  BY CoveredOf
<1>2. \E k \in 1 .. Len(l) : Covered(l, k - 1) < n /\ n <= Covered(l, k)
  BY CoveredBy
<1>3. ~(Covered(l, Len(l)) < n)
  BY <1>1
<1> QED
  BY <1>1, <1>2, <1>3 DEF Used

\* The frames that n units leave in the ledger cover what they covered, n
\* places earlier.
LEMMA LedgerShifts ==
  ASSUME NEW l \in Seq(Entry), NEW n \in 1 .. Covered(l, Len(l))
  PROVE  /\ LedgerAfter(l, n) \in Seq(Entry)
         /\ \E z \in 0 .. Len(l) :
              /\ Len(LedgerAfter(l, n)) = Len(l) - z
              /\ Covered(l, z) <= n
              /\ \A j \in 1 .. Len(l) - z :
                   /\ LedgerAfter(l, n)[j].ref = l[z + j].ref
                   /\ Covered(LedgerAfter(l, n), j) = Covered(l, z + j) - n
<1> DEFINE k == Used(l, n)
           rest == Covered(l, k) - n
           after == LedgerAfter(l, n)
           tail == SubSeq(l, k + 1, Len(l))
           z == IF rest > 0 THEN k - 1 ELSE k
<1>1. /\ Len(l) \in Nat /\ k \in 1 .. Len(l)
      /\ Covered(l, k - 1) < n /\ n <= Covered(l, k)
      /\ Covered(l, k) \in Nat
  BY UsedOf, CoveredOf
<1>2. /\ \A j \in 1 .. Len(l) : l[j] \in Entry
      /\ \A j \in 0 .. Len(l) : Covered(l, j) \in Nat
      /\ \A j \in 1 .. Len(l) : Covered(l, j) = Covered(l, j - 1) + l[j].n
  BY CoveredOf
<1> HIDE DEF k
<1>3. rest \in Nat
  BY <1>1
<1>4. /\ tail \in Seq(Entry) /\ Len(tail) = Len(l) - k
      /\ \A j \in 1 .. Len(l) - k : tail[j] = l[k + j]
  <2>1. \A i \in k + 1 .. Len(l) : l[i] \in Entry
    BY <1>1, <1>2
  <2>2. /\ tail \in Seq(Entry)
        /\ Len(tail) = IF k + 1 <= Len(l) THEN Len(l) - (k + 1) + 1 ELSE 0
        /\ \A i \in 1 .. Len(l) - (k + 1) + 1 : tail[i] = l[k + 1 + i - 1]
    <3>1. k + 1 \in Int /\ Len(l) \in Int
      BY <1>1
    <3> QED
      BY <2>1, <3>1, SubSeqProperties
  <2> HIDE DEF tail
  <2>3. Len(tail) = Len(l) - k
    BY <1>1, <2>2
  <2>4. \A j \in 1 .. Len(l) - k : tail[j] = l[k + j]
    BY <1>1, <2>2
  <2> QED
    BY <2>2, <2>3, <2>4
<1> HIDE DEF tail
<1>5. after = (IF rest > 0 THEN <<[l[k] EXCEPT !.n = rest]>> ELSE <<>>) \o tail
  BY DEF LedgerAfter, k, tail
<1> DEFINE e == [l[k] EXCEPT !.n = rest]
<1>6. l[k] \in Entry
  BY <1>1, <1>2
<1>7. rest > 0 => e \in Entry /\ e.ref = l[k].ref /\ e.n = rest
  <2> HIDE DEF rest
  <2> QED
    BY <1>3, <1>6 DEF Entry
<1> HIDE DEF e
<1>8. /\ after \in Seq(Entry) /\ Len(after) = Len(l) - z
      /\ \A j \in 1 .. Len(l) - z :
           after[j] = IF rest > 0 /\ j = 1 THEN e ELSE l[z + j]
  <2>1. CASE rest > 0
    <3>1. after = <<e>> \o tail
      BY <1>5, <2>1 DEF e
    <3>2. <<e>> \in Seq(Entry) /\ Len(<<e>>) = 1 /\ <<e>>[1] = e
      BY <1>7, <2>1
    <3>3. /\ after \in Seq(Entry) /\ Len(after) = 1 + (Len(l) - k)
          /\ \A j \in 1 .. 1 + (Len(l) - k) : after[j] = IF j <= 1 THEN <<e>>[j] ELSE tail[j - 1]
      <4> HIDE DEF after
      <4> QED
        BY <1>4, <3>1, <3>2, ConcatProperties
    <3> HIDE DEF after
    <3>4. \A j \in 1 .. Len(l) - (k - 1) : after[j] = IF j = 1 THEN e ELSE l[k - 1 + j]
      <4> TAKE j \in 1 .. Len(l) - (k - 1)
      <4>1. j \in 1 .. 1 + (Len(l) - k)
        BY <1>1
      <4>2. CASE j = 1
        BY <3>2, <3>3, <4>1, <4>2
      <4>3. CASE j # 1
        <5>1. j - 1 \in 1 .. Len(l) - k /\ ~(j <= 1) /\ k + (j - 1) = k - 1 + j
          BY <1>1, <4>1, <4>3
        <5> QED
          BY <1>4, <3>3, <4>1, <4>3, <5>1
      <4> QED
        BY <4>2, <4>3
    <3> QED
      BY <1>1, <2>1, <3>3, <3>4
  <2>2. CASE ~(rest > 0)
    <3>1. after = tail
      BY <1>4, <1>5, <2>2, ConcatEmptySeq
    <3> QED
      BY <1>4, <2>2, <3>1
  <2> QED
    BY <2>1, <2>2
<1> HIDE DEF after, rest
<1>9. z \in 0 .. Len(l) /\ Covered(l, z) <= n
  <2>1. CASE rest > 0
    BY <1>1, <1>2, <2>1
  <2>2. CASE ~(rest > 0)
    BY <1>1, <1>2, <1>3, <2>2 DEF rest
  <2> QED
    BY <2>1, <2>2
<1> DEFINE S == {j \in 0 .. Len(l) - z : j # 0 => Covered(after, j) = Covered(l, z + j) - n}
<1>10. 0 \in S
  BY <1>1, <1>9
<1>11. ASSUME NEW j \in 1 .. Len(l) - z, j - 1 \in S PROVE j \in S
  <2>1. j \in 1 .. Len(after) /\ z + j \in 1 .. Len(l) /\ z + j - 1 \in 0 .. Len(l)
    BY <1>1, <1>8, <1>9
  <2>2. Covered(after, j) = Covered(after, j - 1) + after[j].n
    BY <1>8, <2>1, CoveredOf
  <2>3. Covered(after, 0) = 0
    BY <1>8, CoveredOf
  <2>4. Covered(l, z + j) = Covered(l, z + j - 1) + l[z + j].n
    <3> HIDE DEF z
    <3>1. PICK i \in 1 .. Len(l) : i = z + j
      BY <2>1
    <3>2. Covered(l, i) = Covered(l, i - 1) + l[i].n
      BY <1>2
    <3>3. z \in Nat /\ z + j = i /\ z + j - 1 = i - 1
      BY <1>1, <1>9, <3>1
    <3> QED
      BY <3>2, <3>3
  <2>5. Covered(l, z + j) \in Nat /\ Covered(l, z + j - 1) \in Nat /\ l[z + j].n \in Nat
    <3>1. l[z + j] \in Entry
      BY <1>2, <2>1
    <3>2. z + j \in 0 .. Len(l)
      BY <2>1
    <3> QED
      BY <1>2, <2>1, <3>1, <3>2 DEF Entry
  <2>6. CASE j = 1 /\ rest > 0
    <3>1. after[j] = e /\ e.n = rest /\ z + j = k
      BY <1>1, <1>7, <1>8, <2>6
    <3> QED
      BY <1>1, <2>1, <2>2, <2>3, <2>6, <3>1 DEF rest
  <2>7. CASE j = 1 /\ ~(rest > 0)
    <3>1. after[j] = l[z + j] /\ z = k /\ rest = 0
      BY <1>3, <1>8, <2>7 DEF rest
    <3>2. Covered(l, z + j - 1) = n
      BY <1>1, <2>7, <3>1 DEF rest
    <3> QED
      BY <2>1, <2>2, <2>3, <2>4, <2>5, <2>7, <3>1, <3>2
  <2>8. CASE j # 1
    <3>1. after[j] = l[z + j]
      BY <1>8, <2>8
    <3>2. Covered(after, j - 1) = Covered(l, z + (j - 1)) - n
      BY <1>11, <2>1, <2>8
    <3>3. z + (j - 1) = z + j - 1
      BY <1>1, <1>9
    <3> QED
      BY <2>1, <2>2, <2>4, <2>5, <3>1, <3>2, <3>3
  <2> QED
    BY <2>6, <2>7, <2>8
<1>12. \A j \in 0 .. Len(l) - z : j \in S
  <2>1. Len(l) - z \in Nat
    BY <1>1, <1>9
  <2> HIDE DEF S, z
  <2> QED
    BY <1>10, <1>11, <2>1, Upward
<1>13. \A j \in 1 .. Len(l) - z : after[j].ref = l[z + j].ref
  BY <1>1, <1>7, <1>8
<1>14. \A j \in 1 .. Len(l) - z : Covered(after, j) = Covered(l, z + j) - n
  BY <1>1, <1>9, <1>12
<1> HIDE DEF z
<1> QED
  BY <1>8, <1>9, <1>13, <1>14 DEF after

-----------------------------------------------------------------------------
(* One stream                                                              *)

\* What a scanner can hold: units of the wire, and the poison.
Buffered(w) == Units(w) \cup {PoisonHead, PoisonTail}

Stream(w) ==
  [started : BOOLEAN, nextSeq : 0 .. Modulus - 1, buf : Seq(Buffered(w)),
   desync : BOOLEAN, ledger : Seq(Entry)]

\* The ledger accounts for what is buffered, unit by unit; who is a set of
\* pairs of a reference and a unit that this frame carried.
Clean(w, s, who) ==
  /\ s.buf \in Seq(Units(w))
  /\ Covered(s.ledger, Len(s.ledger)) = Len(s.buf)
  /\ \A k \in 1 .. Len(s.ledger), i \in 1 .. Len(s.buf) :
       Covered(s.ledger, k - 1) < i /\ i <= Covered(s.ledger, k) =>
         <<s.ledger[k].ref, s.buf[i]>> \in who

\* The message at the front is not a sentinel and has poison in it.
Doomed(w, b) ==
  /\ Len(b) > 0 /\ Asks(w, b[1]) # 0
  /\ \E j \in 1 .. Len(b) : j <= Asks(w, b[1]) /\ b[j] \in {PoisonHead, PoisonTail}

StreamInv(w, s, who) ==
  /\ s \in Stream(w)
  /\ s.desync \/ Clean(w, s, who) \/ Doomed(w, s.buf)

\* There is no message to take.
Idle(w, s) == s.desync \/ Complete(w, s.buf) = 0

\* A message whose units are on the wire and whose frames are those that carried
\* it.
Good(w, m, who) ==
  /\ m.units \in Seq(Units(w)) /\ Len(m.units) > 0 /\ Intact(w, m.units)
  /\ m.frames \in Seq(Nat)
  /\ \A k \in 1 .. Len(m.frames) :
       \E i \in 1 .. Len(m.units) : <<m.frames[k], m.units[i]>> \in who
  /\ \A i \in 1 .. Len(m.units) :
       \E k \in 1 .. Len(m.frames) : <<m.frames[k], m.units[i]>> \in who

GoodOut(w, out, who) ==
  /\ DOMAIN out = 1 .. Len(out) /\ Len(out) \in Nat
  /\ \A k \in 1 .. Len(out) : Good(w, out[k], who)

\* Where units and the poison ask for.
LEMMA AsksOf ==
  ASSUME NEW w, IsWire(w), NEW u \in Buffered(w)
  PROVE  /\ Asks(w, u) \in Nat /\ (Asks(w, u) = 0 \/ Asks(w, u) >= HeaderSize)
         /\ u \in Units(w) => u \notin {PoisonHead, PoisonTail} /\ Asks(w, u) = w.asks[u]
<1>1. EndOf(w, Len(w.sizes)) \in Nat
  BY WireEnds
<1>2. u \in Units(w) => u \in Nat \ {0}
  BY <1>1 DEF Units
<1>3. u \in Units(w) => w.asks[u] \in {0} \cup {n \in Nat : n >= HeaderSize}
  BY DEF IsWire
<1> QED
  BY <1>2, <1>3 DEF Buffered, Asks, PoisonHead, PoisonTail, HeaderSize

\* What Complete finds.
LEMMA CompleteOf ==
  ASSUME NEW w, IsWire(w), NEW b \in Seq(Buffered(w))
  PROVE  /\ Complete(w, b) \in 0 .. Len(b)
         /\ Complete(w, b) # 0 =>
              /\ Complete(w, b) >= HeaderSize
              /\ Complete(w, b) = IF Special(w, b) THEN HeaderSize ELSE Asks(w, b[1])
         /\ Complete(w, b) = 0 =>
              Len(b) < HeaderSize \/ (~Special(w, b) /\ Len(b) < Asks(w, b[1]))
<1>1. CASE Len(b) < HeaderSize
  BY <1>1 DEF Complete
<1>2. CASE Len(b) >= HeaderSize
  <2>1. b[1] \in Buffered(w)
    BY <1>2 DEF HeaderSize
  <2>2. Asks(w, b[1]) \in Nat /\ (Asks(w, b[1]) = 0 \/ Asks(w, b[1]) >= HeaderSize)
    BY <2>1, AsksOf
  <2> QED
    BY <1>2, <2>2 DEF Complete, Special, HeaderSize
<1> QED
  BY <1>1, <1>2 DEF HeaderSize

\* A message taken from the front is part of what is buffered.
LEMMA Taken ==
  ASSUME NEW S, NEW b \in Seq(S), NEW n \in 0 .. Len(b)
  PROVE  /\ SubSeq(b, 1, n) \in Seq(S) /\ Len(SubSeq(b, 1, n)) = n
         /\ \A i \in 1 .. n : SubSeq(b, 1, n)[i] = b[i]
         /\ SubSeq(b, n + 1, Len(b)) \in Seq(S) /\ Len(SubSeq(b, n + 1, Len(b))) = Len(b) - n
         /\ \A i \in 1 .. Len(b) - n : SubSeq(b, n + 1, Len(b))[i] = b[n + i]
<1>1. Len(b) \in Nat /\ \A i \in 1 .. Len(b) : b[i] \in S
  OBVIOUS
<1>2. /\ SubSeq(b, 1, n) \in Seq(S)
      /\ Len(SubSeq(b, 1, n)) = IF 1 <= n THEN n - 1 + 1 ELSE 0
      /\ \A i \in 1 .. n - 1 + 1 : SubSeq(b, 1, n)[i] = b[1 + i - 1]
  <2>1. \A i \in 1 .. n : b[i] \in S
    BY <1>1
  <2> QED
    BY <1>1, <2>1, SubSeqProperties
<1>3. /\ SubSeq(b, n + 1, Len(b)) \in Seq(S)
      /\ Len(SubSeq(b, n + 1, Len(b))) = IF n + 1 <= Len(b) THEN Len(b) - (n + 1) + 1 ELSE 0
      /\ \A i \in 1 .. Len(b) - (n + 1) + 1 : SubSeq(b, n + 1, Len(b))[i] = b[n + 1 + i - 1]
  <2>1. \A i \in n + 1 .. Len(b) : b[i] \in S
    BY <1>1
  <2>2. n + 1 \in Int /\ Len(b) \in Int
    BY <1>1
  <2> QED
    BY <2>1, <2>2, SubSeqProperties
<1>4. \A i \in 1 .. n : SubSeq(b, 1, n)[i] = b[i]
  BY <1>1, <1>2
<1>5. \A i \in 1 .. Len(b) - n : SubSeq(b, n + 1, Len(b))[i] = b[n + i]
  BY <1>1, <1>3
<1>6. Len(SubSeq(b, 1, n)) = n /\ Len(SubSeq(b, n + 1, Len(b))) = Len(b) - n
  BY <1>1, <1>2, <1>3
<1> QED
  BY <1>2, <1>3, <1>4, <1>5, <1>6

\* An undamaged message that is not a sentinel has no poison in it.
LEMMA IntactIsClean ==
  ASSUME NEW w, IsWire(w), NEW raw, Intact(w, raw), ~Special(w, raw), NEW n \in Nat,
         Len(raw) = n
  PROVE  \A j \in 1 .. n : raw[j] \in Units(w)
<1>1. PICK m \in DOMAIN w.sizes : raw = Run(StartOf(w, m), EndOf(w, m))
  BY DEF Intact
<1>2. /\ StartOf(w, m) \in Nat /\ EndOf(w, m) \in Nat /\ StartOf(w, m) <= EndOf(w, m) + 1
      /\ StartOf(w, m) .. EndOf(w, m) \subseteq Units(w)
  <2>1. m \in 0 .. Len(w.sizes)
    BY WireEnds
  <2> QED
    BY <2>1, WireEnds, MessagesApart DEF HeaderSize
<1>3. /\ n = EndOf(w, m) - StartOf(w, m) + 1
      /\ \A j \in 1 .. n : raw[j] = StartOf(w, m) + j - 1
  <2>1. StartOf(w, m) \in Int /\ EndOf(w, m) \in Int /\ StartOf(w, m) <= EndOf(w, m) + 1
    BY <1>2
  <2> HIDE <1>1
  <2>2. /\ Len(Run(StartOf(w, m), EndOf(w, m))) = EndOf(w, m) - StartOf(w, m) + 1
        /\ \A k \in 1 .. EndOf(w, m) - StartOf(w, m) + 1 :
             Run(StartOf(w, m), EndOf(w, m))[k] = StartOf(w, m) + k - 1
    BY <2>1, RunOf
  <2> QED
    BY <1>1, <2>2
<1>4. \A j \in 1 .. n : raw[j] \in StartOf(w, m) .. EndOf(w, m)
  BY <1>2, <1>3
<1> QED
  BY <1>2, <1>4

\* What is doomed yields no message.
LEMMA DoomedYieldsNothing ==
  ASSUME NEW w, IsWire(w), NEW b \in Seq(Buffered(w)), Doomed(w, b), Complete(w, b) # 0
  PROVE  ~Intact(w, SubSeq(b, 1, Complete(w, b)))
<1> DEFINE n == Complete(w, b)
           raw == SubSeq(b, 1, n)
<1>1. n \in 1 .. Len(b) /\ n = Asks(w, b[1]) /\ Len(b) \in Nat
  BY CompleteOf DEF Doomed, Special
<1> HIDE DEF n
<1>2. Len(raw) = n /\ \A i \in 1 .. n : raw[i] = b[i]
  BY <1>1, Taken
<1>3. PICK j \in 1 .. Len(b) : j <= Asks(w, b[1]) /\ b[j] \in {PoisonHead, PoisonTail}
  BY DEF Doomed
<1>4. j \in 1 .. n /\ raw[j] \notin Units(w) /\ n \in Nat
  <2>1. j \in 1 .. n
    BY <1>1, <1>3
  <2>2. b[j] \in Buffered(w)
    BY <1>3 DEF Buffered
  <2>3. b[j] \notin Units(w)
    BY <1>3, <2>2, AsksOf
  <2>4. raw[j] = b[j] /\ n \in Nat
    BY <1>1, <1>2, <2>1
  <2> QED
    BY <2>1, <2>3, <2>4
<1>5. ~Special(w, raw)
  <2>1. raw[1] = b[1]
    BY <1>1, <1>2
  <2> QED
    BY <2>1 DEF Doomed, Special
<1> HIDE DEF raw
<1>6. ~Intact(w, raw)
  BY <1>2, <1>4, <1>5, IntactIsClean
<1> QED
  BY <1>6 DEF n, raw

\* A message that is taken whole is good, and its units leave the ledger with it.
LEMMA TakesGood ==
  ASSUME NEW w, IsWire(w), NEW who, NEW s \in Stream(w), Clean(w, s, who),
         NEW n \in 1 .. Len(s.buf), Intact(w, SubSeq(s.buf, 1, n)),
         NEW t, t = [s EXCEPT !.buf = SubSeq(@, n + 1, Len(@)), !.ledger = LedgerAfter(@, n)]
  PROVE  /\ t \in Stream(w) /\ Clean(w, t, who) /\ t.desync = s.desync
         /\ Len(t.buf) = Len(s.buf) - n
         /\ Good(w, [units |-> SubSeq(s.buf, 1, n), frames |-> Cited(s.ledger, n)], who)
<1> DEFINE b == s.buf
           l == s.ledger
           raw == SubSeq(b, 1, n)
           rest == SubSeq(b, n + 1, Len(b))
           after == LedgerAfter(l, n)
           k == Used(l, n)
<1>1. /\ l \in Seq(Entry) /\ b \in Seq(Units(w)) /\ Len(b) \in Nat /\ Covered(l, Len(l)) = Len(b)
      /\ \A j \in 1 .. Len(l), i \in 1 .. Len(b) :
           Covered(l, j - 1) < i /\ i <= Covered(l, j) => <<l[j].ref, b[i]>> \in who
      /\ s \in Stream(w)
  BY DEF Clean, Stream
<1>2. /\ t.buf = rest /\ t.ledger = after /\ t.desync = s.desync
      /\ t = [started |-> s.started, nextSeq |-> s.nextSeq, buf |-> rest,
              desync |-> s.desync, ledger |-> after]
  BY DEF Stream
<1> HIDE DEF b, l
<1>3. n \in 1 .. Covered(l, Len(l)) /\ n \in 0 .. Len(b)
  BY <1>1 DEF b
<1>4. /\ raw \in Seq(Units(w)) /\ Len(raw) = n
      /\ \A i \in 1 .. n : raw[i] = b[i]
      /\ rest \in Seq(Units(w)) /\ Len(rest) = Len(b) - n
      /\ \A i \in 1 .. Len(b) - n : rest[i] = b[n + i]
  BY <1>1, <1>3, Taken
<1>5. after \in Seq(Entry)
  BY <1>1, <1>3, LedgerShifts
<1>6. PICK z \in 0 .. Len(l) :
        /\ Len(after) = Len(l) - z
        /\ Covered(l, z) <= n
        /\ \A j \in 1 .. Len(l) - z :
             /\ after[j].ref = l[z + j].ref
             /\ Covered(after, j) = Covered(l, z + j) - n
  BY <1>1, <1>3, LedgerShifts
<1>7. k \in 1 .. Len(l) /\ Covered(l, k - 1) < n /\ n <= Covered(l, k)
  BY <1>1, <1>3, UsedOf
<1>8. /\ Len(l) \in Nat
      /\ \A j \in 0 .. Len(l) : Covered(l, j) \in Nat
      /\ \A j \in 1 .. Len(l) : Covered(l, j) = Covered(l, j - 1) + l[j].n
      /\ \A i, j \in 0 .. Len(l) : i <= j => Covered(l, i) <= Covered(l, j)
      /\ \A j \in 1 .. Len(l) : l[j].n \in Nat \ {0} /\ l[j].ref \in Nat
  BY <1>1, CoveredOf
<1> HIDE DEF raw, rest, after, k
<1>9. t \in Stream(w)
  <2>1. rest \in Seq(Buffered(w))
    BY <1>4, SeqMonotonic DEF Buffered
  <2> QED
    BY <1>1, <1>2, <1>5, <2>1 DEF Stream
<1>10. Covered(after, Len(after)) = Len(rest)
  <2>1. CASE z = Len(l)
    <3>1. Covered(after, 0) = 0
      BY <1>5, CoveredOf
    <3>3. Len(after) = 0
      BY <1>6, <1>8, <2>1
    <3>2. n = Len(b)
      BY <1>1, <1>3, <1>6, <2>1
    <3> QED
      BY <1>1, <1>4, <3>1, <3>2, <3>3
  <2>2. CASE z # Len(l)
    <3>1. Len(l) - z \in 1 .. Len(l) - z /\ z + (Len(l) - z) = Len(l)
      BY <1>6, <1>8, <2>2
    <3> QED
      BY <1>1, <1>4, <1>6, <3>1
  <2> QED
    BY <2>1, <2>2
<1>11. ASSUME NEW j \in 1 .. Len(after), NEW i \in 1 .. Len(rest),
              Covered(after, j - 1) < i, i <= Covered(after, j)
       PROVE  <<after[j].ref, rest[i]>> \in who
  <2>1. /\ j \in 1 .. Len(l) - z /\ i \in 1 .. Len(b) - n
        /\ z + j \in 1 .. Len(l) /\ n + i \in 1 .. Len(b)
        /\ z + j - 1 = z + (j - 1) /\ j - 1 \in 0 .. Len(after)
        /\ z + j \in 0 .. Len(l) /\ z + j - 1 \in 0 .. Len(l)
        /\ i \in Nat /\ i >= 1 /\ z \in Nat /\ j \in Nat
    <3>1. /\ z \in Nat /\ Len(l) \in Nat /\ z <= Len(l) /\ Len(after) = Len(l) - z
          /\ Len(b) \in Nat /\ Len(rest) = Len(b) - n /\ n \in Nat /\ n <= Len(b)
      BY <1>1, <1>3, <1>4, <1>6, <1>8
    <3>2. j \in 1 .. Len(l) - z /\ i \in 1 .. Len(b) - n
      BY <3>1
    <3>3. /\ j \in Nat /\ j >= 1 /\ j <= Len(l) - z
          /\ i \in Nat /\ i >= 1 /\ i <= Len(b) - n
      BY <3>1, <3>2
    <3> DEFINE ll == Len(l)
               bb == Len(b)
               aa == Len(after)
    <3>4. /\ z \in Nat /\ ll \in Nat /\ aa = ll - z /\ bb \in Nat /\ n \in Nat
          /\ j \in Nat /\ j >= 1 /\ j <= ll - z
          /\ i \in Nat /\ i >= 1 /\ i <= bb - n
      BY <3>1, <3>3
    <3> HIDE DEF ll, bb, aa
    <3>5. z + j \in 1 .. ll /\ n + i \in 1 .. bb
      BY ONLY <3>4
    <3>6. z + j - 1 = z + (j - 1) /\ j - 1 \in 0 .. aa
      BY ONLY <3>4
    <3>7. z + j \in 0 .. ll /\ z + j - 1 \in 0 .. ll
      BY ONLY <3>4
    <3> QED
      BY <3>2, <3>3, <3>4, <3>5, <3>6, <3>7 DEF ll, bb, aa
  <2>2. after[j].ref = l[z + j].ref /\ rest[i] = b[n + i]
    BY <1>4, <1>6, <2>1
  <2>6. /\ Covered(l, z + j) \in Nat /\ Covered(l, z + j - 1) \in Nat /\ Covered(l, z) \in Nat
        /\ n \in Nat /\ i \in Nat /\ i >= 1 /\ z \in Nat /\ j \in Nat
        /\ Covered(l, z) <= n
    <3>1. n \in Nat /\ z \in 0 .. Len(l) /\ Covered(l, z) <= n
      BY <1>3, <1>6
    <3>2. Covered(l, z + j) \in Nat /\ Covered(l, z + j - 1) \in Nat /\ Covered(l, z) \in Nat
      BY <1>8, <2>1, <3>1
    <3>3. i \in Nat /\ i >= 1 /\ z \in Nat /\ j \in Nat
      BY <2>1
    <3> QED
      BY <3>1, <3>2, <3>3
  <2>3. n + i <= Covered(l, z + j)
    <3>1. Covered(after, j) = Covered(l, z + j) - n
      BY <1>6, <2>1
    <3> QED
      BY <1>11, <2>6, <3>1
  <2>4. Covered(l, z + j - 1) < n + i
    <3>1. CASE j = 1
      <4>1. z + j - 1 = z
        BY ONLY <2>6, <3>1
      <4>2. Covered(l, z + j - 1) = Covered(l, z)
        BY <4>1
      <4> DEFINE c == Covered(l, z)
      <4>3. c \in Nat /\ c <= n /\ n \in Nat /\ i \in Nat /\ i >= 1
        BY ONLY <2>6
      <4> HIDE DEF c
      <4>4. c < n + i
        BY ONLY <4>3
      <4> QED
        BY <4>2, <4>4 DEF c
    <3>2. CASE j # 1
      <4>0. j - 1 \in 0 .. Len(after) /\ j - 1 # 0
        BY <2>1, <3>2
      <4>1. Covered(after, j - 1) = Covered(l, z + (j - 1)) - n
        BY <1>6, <4>0
      <4>2. Covered(l, z + (j - 1)) = Covered(l, z + j - 1)
        BY <2>1
      <4>3. Covered(l, z + j - 1) - n < i
        BY <1>11, <4>1, <4>2
      <4> QED
        BY <2>6, <4>3
    <3> QED
      BY <3>1, <3>2
  <2>5. <<l[z + j].ref, b[n + i]>> \in who
    <3>1. PICK jj \in 1 .. Len(l), ii \in 1 .. Len(b) : jj = z + j /\ ii = n + i
      BY <2>1
    <3>2. jj - 1 = z + j - 1
      BY <2>1, <3>1
    <3> QED
      BY <1>1, <2>3, <2>4, <3>1, <3>2
  <2> QED
    BY <2>2, <2>5
<1>12. Clean(w, t, who)
  BY <1>2, <1>4, <1>10, <1>11 DEF Clean
<1> DEFINE frames == Cited(l, n)
           m == [units |-> raw, frames |-> frames]
<1>13. /\ frames \in Seq(Nat) /\ Len(frames) = k
       /\ \A j \in 1 .. k : frames[j] = l[j].ref
  <2>1. frames = [j \in 1 .. k |-> l[j].ref]
    BY DEF Cited, k
  <2>2. \A j \in 1 .. k : l[j].ref \in Nat
    BY <1>7, <1>8
  <2>3. k \in Nat
    BY <1>7
  <2> HIDE DEF frames
  <2> QED
    BY <2>1, <2>2, <2>3
<1> HIDE DEF frames
<1>14. \A j \in 1 .. k : \E i \in 1 .. n : <<frames[j], raw[i]>> \in who
  <2> TAKE j \in 1 .. k
  <2>1. /\ j \in 1 .. Len(l) /\ j - 1 \in 0 .. Len(l) /\ k - 1 \in 0 .. Len(l)
        /\ j - 1 <= k - 1 /\ j \in 0 .. Len(l)
    BY <1>7, <1>8
  <2>2. Covered(l, j - 1) <= Covered(l, k - 1) /\ Covered(l, j - 1) \in Nat /\ Covered(l, k - 1) \in Nat
    BY <1>8, <2>1
  <2> DEFINE i == Covered(l, j - 1) + 1
  <2>3. i \in 1 .. n
    BY <1>7, <2>2
  <2>4. i <= Covered(l, j)
    <3>1. Covered(l, j) = Covered(l, j - 1) + l[j].n /\ l[j].n \in Nat \ {0}
      BY <1>8, <2>1
    <3> QED
      BY <2>2, <3>1
  <2>5. Covered(l, j - 1) < i /\ i \in 1 .. Len(b)
    BY <1>1, <1>3, <2>2, <2>3
  <2> HIDE DEF i
  <2>6. <<l[j].ref, b[i]>> \in who
    BY <1>1, <2>1, <2>4, <2>5
  <2> QED
    BY <1>4, <1>13, <2>3, <2>6
<1>15. \A i \in 1 .. n : \E j \in 1 .. k : <<frames[j], raw[i]>> \in who
  <2> TAKE i \in 1 .. n
  <2>1. i \in 1 .. Covered(l, Len(l)) /\ i \in 1 .. Len(b)
    BY <1>1, <1>3
  <2>2. PICK j \in 1 .. Len(l) : Covered(l, j - 1) < i /\ i <= Covered(l, j)
    BY <1>1, <2>1, CoveredBy
  <2>3. j \in 1 .. k
    <3>1. SUFFICES ASSUME j > k PROVE FALSE
      BY <1>7, <3>1
    <3>2. k \in 0 .. Len(l) /\ j - 1 \in 0 .. Len(l) /\ k <= j - 1
      BY <1>7, <1>8, <3>1
    <3>3. Covered(l, k) <= Covered(l, j - 1) /\ Covered(l, k) \in Nat /\ Covered(l, j - 1) \in Nat
      BY <1>8, <3>2
    <3> QED
      BY <1>7, <2>2, <3>3
  <2>4. <<l[j].ref, b[i]>> \in who
    BY <1>1, <2>1, <2>2
  <2> QED
    BY <1>4, <1>13, <2>3, <2>4
<1>16. Good(w, m, who)
  <2>1. Intact(w, raw) /\ n > 0
    BY DEF raw, b
  <2> QED
    BY <1>4, <1>13, <1>14, <1>15, <2>1 DEF Good
<1> QED
  BY <1>2, <1>4, <1>9, <1>12, <1>16 DEF b, l, raw, m, frames

-----------------------------------------------------------------------------
(* The scanner's loop                                                      *)

\* What holds between two turns: what came out is good, and framing was lost
\* exactly if the scanner has stopped.
ScanInv(w, o, who) ==
  /\ StreamInv(w, o.stream, who)
  /\ GoodOut(w, o.out, who)
  /\ o.lost = o.stream.desync

\* A turn keeps it, and has nothing to do or shortens what is buffered.
LEMMA TurnKeeps ==
  ASSUME NEW w, IsWire(w), NEW who, NEW o, ScanInv(w, o, who)
  PROVE  /\ ScanInv(w, Turn(w, o), who)
         /\ \/ Idle(w, o.stream) /\ Turn(w, o) = o
            \/ Idle(w, Turn(w, o).stream)
            \/ Len(Turn(w, o).stream.buf) <= Len(o.stream.buf) - 1
<1> DEFINE s == o.stream
           n == Complete(w, s.buf)
           raw == SubSeq(s.buf, 1, n)
<1>1. s \in Stream(w) /\ s.buf \in Seq(Buffered(w)) /\ Len(s.buf) \in Nat
  BY DEF ScanInv, StreamInv, Stream
<1>2. n \in 0 .. Len(s.buf)
  BY <1>1, CompleteOf
<1>3. CASE s.desync \/ n = 0
  <2>1. Turn(w, o) = o
    BY <1>3 DEF Turn
  <2> QED
    BY <1>3, <2>1 DEF Idle
<1>4. CASE ~s.desync /\ n # 0 /\ ~Intact(w, raw)
  <2>1. Turn(w, o) = Outcome([s EXCEPT !.desync = TRUE], o.out, TRUE)
    BY <1>4 DEF Turn
  <2>2. [s EXCEPT !.desync = TRUE] \in Stream(w) /\ [s EXCEPT !.desync = TRUE].desync
    BY <1>1 DEF Stream
  <2> HIDE DEF s
  <2>3. /\ Turn(w, o).stream = [s EXCEPT !.desync = TRUE] /\ Turn(w, o).out = o.out
        /\ Turn(w, o).lost = TRUE
    BY <2>1 DEF Outcome
  <2> QED
    BY <2>2, <2>3 DEF ScanInv, StreamInv, Idle
<1>5. CASE ~s.desync /\ n # 0 /\ Intact(w, raw)
  <2> DEFINE t == [s EXCEPT !.buf = SubSeq(@, n + 1, Len(@)), !.ledger = LedgerAfter(@, n)]
             m == [units |-> raw, frames |-> Cited(s.ledger, n)]
  <2>1. Turn(w, o) = Outcome(t, Append(o.out, m), FALSE)
    BY <1>5 DEF Turn
  <2>2. Clean(w, s, who)
    BY <1>1, <1>5, DoomedYieldsNothing DEF ScanInv, StreamInv
  <2>3. n \in 1 .. Len(s.buf)
    BY <1>2, <1>5
  <2>4. /\ t \in Stream(w) /\ Clean(w, t, who) /\ t.desync = s.desync
        /\ Len(t.buf) = Len(s.buf) - n
        /\ Good(w, m, who)
    <3> HIDE DEF s, n
    <3>1. Intact(w, SubSeq(s.buf, 1, n))
      BY <1>5
    <3> QED
      BY <1>1, <2>2, <2>3, <3>1, TakesGood
  <2> HIDE DEF t, m, s
  <2>5. Turn(w, o).stream = t /\ Turn(w, o).out = Append(o.out, m) /\ Turn(w, o).lost = FALSE
    BY <2>1 DEF Outcome
  <2>6. GoodOut(w, Append(o.out, m), who)
    <3> DEFINE out == o.out
    <3>1. DOMAIN out = 1 .. Len(out) /\ Len(out) \in Nat /\ \A k \in 1 .. Len(out) : Good(w, out[k], who)
      BY DEF ScanInv, GoodOut
    <3> HIDE DEF out
    <3>2. /\ DOMAIN Append(out, m) = 1 .. Len(out) + 1 /\ Len(Append(out, m)) = Len(out) + 1
          /\ Append(out, m)[Len(out) + 1] = m
          /\ \A k \in 1 .. Len(out) : Append(out, m)[k] = out[k]
      BY <3>1
    <3> QED
      BY <2>4, <3>1, <3>2 DEF GoodOut, out
  <2>7. t.desync = FALSE
    <3>1. s.desync \in BOOLEAN
      BY <1>1 DEF Stream
    <3> QED
      BY <1>5, <2>4, <3>1
  <2>8. ScanInv(w, Turn(w, o), who)
    BY <2>4, <2>5, <2>6, <2>7 DEF ScanInv, StreamInv
  <2>9. Len(Turn(w, o).stream.buf) <= Len(o.stream.buf) - 1
    <3>1. Len(s.buf) \in Nat /\ n \in 1 .. Len(s.buf) /\ Len(t.buf) = Len(s.buf) - n
      BY <1>1, <2>3, <2>4
    <3> HIDE DEF n
    <3>2. Len(t.buf) <= Len(s.buf) - 1
      BY <3>1
    <3> QED
      BY <2>5, <3>2 DEF s
  <2> QED
    BY <2>8, <2>9
<1> QED
  BY <1>3, <1>4, <1>5

\* The recursion of Scanned up to n, as a relation.
AreTurns(f, w, s, n) ==
  f = [k \in 0 .. n |-> IF k = 0 THEN Outcome(s, <<>>, FALSE) ELSE Turn(w, f[k - 1])]

\* The recursion of Scanned has a solution.
LEMMA TurnsExist ==
  ASSUME NEW w, NEW s, NEW n \in Nat
  PROVE  \E f : AreTurns(f, w, s, n)
<1> DEFINE S == {k \in Nat : \E f : AreTurns(f, w, s, k)}
<1>1. 0 \in S
  <2> DEFINE f == [k \in 0 .. 0 |-> Outcome(s, <<>>, FALSE)]
  <2>1. \A k \in 0 .. 0 : f[k] = IF k = 0 THEN Outcome(s, <<>>, FALSE) ELSE Turn(w, f[k - 1])
    OBVIOUS
  <2>2. AreTurns(f, w, s, 0)
    BY <2>1 DEF AreTurns
  <2> QED
    BY <2>2
<1>2. ASSUME NEW k \in 1 .. n, k - 1 \in S PROVE k \in S
  <2>1. PICK f : AreTurns(f, w, s, k - 1)
    BY <1>2
  <2> DEFINE g == [j \in 0 .. k |-> IF j = k THEN Turn(w, f[k - 1]) ELSE f[j]]
  <2>2. \A j \in 0 .. k - 1 : f[j] = IF j = 0 THEN Outcome(s, <<>>, FALSE) ELSE Turn(w, f[j - 1])
    BY <2>1 DEF AreTurns
  <2>3. \A j \in 0 .. k : g[j] = IF j = 0 THEN Outcome(s, <<>>, FALSE) ELSE Turn(w, g[j - 1])
    <3> TAKE j \in 0 .. k
    <3>1. CASE j = k
      <4>1. g[j] = Turn(w, f[k - 1]) /\ g[j - 1] = f[k - 1] /\ j # 0
        BY <1>2, <3>1
      <4> QED
        BY <3>1, <4>1
    <3>2. CASE j # k
      <4>1. j \in 0 .. k - 1 /\ g[j] = f[j] /\ (j # 0 => g[j - 1] = f[j - 1])
        BY <1>2, <3>2
      <4> QED
        BY <2>2, <4>1
    <3> QED
      BY <3>1, <3>2
  <2>4. g = [j \in 0 .. k |-> g[j]]
    OBVIOUS
  <2> HIDE DEF g
  <2>5. AreTurns(g, w, s, k)
    BY <2>3, <2>4 DEF AreTurns
  <2> QED
    BY <2>5
<1> HIDE DEF S
<1>3. n \in S
  BY <1>1, <1>2, Upward
<1> QED
  BY <1>3 DEF S

\* f is the loop over the buffer of s, turn by turn.
Loop(f, w, s) ==
  /\ Scanned(w, s) = f[Len(s.buf)]
  /\ f[0] = Outcome(s, <<>>, FALSE)
  /\ \A k \in 1 .. Len(s.buf) : f[k] = Turn(w, f[k - 1])

\* Scanned is the last of as many turns as there are units.
LEMMA ScannedOf ==
  ASSUME NEW w, NEW s, Len(s.buf) \in Nat
  PROVE  \E f : Loop(f, w, s)
<1> DEFINE n == Len(s.buf)
           f == CHOOSE g : AreTurns(g, w, s, n)
<1>1. \E g : AreTurns(g, w, s, n)
  BY TurnsExist
<1>2. AreTurns(f, w, s, n)
  BY <1>1
<1>3. Scanned(w, s) = f[n]
  BY DEF Scanned, AreTurns
<1> HIDE DEF f
<1>4. \A k \in 0 .. n : f[k] = IF k = 0 THEN Outcome(s, <<>>, FALSE) ELSE Turn(w, f[k - 1])
  BY <1>2 DEF AreTurns
<1>5. f[0] = Outcome(s, <<>>, FALSE)
  <2>1. 0 \in 0 .. n
    OBVIOUS
  <2> QED
    BY <1>4, <2>1
<1>6. \A k \in 1 .. n : f[k] = Turn(w, f[k - 1])
  <2> TAKE k \in 1 .. n
  <2>1. k \in 0 .. n /\ k # 0
    OBVIOUS
  <2> QED
    BY <1>4, <2>1
<1>7. Loop(f, w, s)
  BY <1>3, <1>5, <1>6 DEF Loop
<1> QED
  BY <1>7

\* After the loop no message is left.
LEMMA ScanKeeps ==
  ASSUME NEW w, IsWire(w), NEW who, NEW s, StreamInv(w, s, who), ~s.desync
  PROVE  ScanInv(w, Scanned(w, s), who) /\ Idle(w, Scanned(w, s).stream)
<1> DEFINE n == Len(s.buf)
<1>1. n \in Nat /\ s.desync = FALSE
  BY DEF StreamInv, Stream
<1>0. PICK f : Loop(f, w, s)
  BY <1>1, ScannedOf
<1>2. /\ Scanned(w, s) = f[n]
      /\ f[0] = Outcome(s, <<>>, FALSE)
      /\ \A k \in 1 .. n : f[k] = Turn(w, f[k - 1])
  BY <1>0, Zenon DEF Loop
<1> DEFINE S == {k \in 0 .. n :
                  /\ ScanInv(w, f[k], who)
                  /\ Idle(w, f[k].stream) \/ Len(f[k].stream.buf) <= n - k}
<1>3. 0 \in S
  <2>1. f[0].stream = s /\ f[0].out = <<>> /\ f[0].lost = FALSE
    BY <1>2 DEF Outcome
  <2>2. GoodOut(w, <<>>, who)
    BY DEF GoodOut
  <2>3. ScanInv(w, f[0], who)
    BY <1>1, <2>1, <2>2 DEF ScanInv
  <2>4. Len(f[0].stream.buf) <= n - 0 /\ 0 \in 0 .. n
    BY <1>1, <2>1
  <2> QED
    BY <2>3, <2>4
<1>4. ASSUME NEW k \in 1 .. n, k - 1 \in S PROVE k \in S
  <2>1. /\ ScanInv(w, f[k - 1], who) /\ f[k] = Turn(w, f[k - 1])
        /\ Idle(w, f[k - 1].stream) \/ Len(f[k - 1].stream.buf) <= n - (k - 1)
    BY <1>2, <1>4
  <2>2. ScanInv(w, f[k], who)
    BY <2>1, TurnKeeps
  <2>3. Len(f[k].stream.buf) \in Nat /\ Len(f[k - 1].stream.buf) \in Nat
    BY <2>1, <2>2 DEF ScanInv, StreamInv, Stream
  <2>4. \/ Idle(w, f[k - 1].stream) /\ f[k] = f[k - 1]
        \/ Idle(w, f[k].stream)
        \/ Len(f[k].stream.buf) <= Len(f[k - 1].stream.buf) - 1
    BY <2>1, TurnKeeps
  <2>5. Idle(w, f[k].stream) \/ Len(f[k].stream.buf) <= n - k
    <3>1. CASE Idle(w, f[k].stream)
      BY <3>1
    <3>2. CASE ~Idle(w, f[k].stream)
      <4>1. CASE Idle(w, f[k - 1].stream)
        <5>1. ~(f[k] = f[k - 1])
          BY <3>2, <4>1
        <5>2. f[k - 1].stream.desync \/ Complete(w, f[k - 1].stream.buf) = 0
          BY <4>1 DEF Idle
        <5>3. Turn(w, f[k - 1]) = f[k - 1]
          BY <5>2 DEF Turn
        <5> QED
          BY <2>1, <5>1, <5>3
      <4>2. CASE ~Idle(w, f[k - 1].stream)
        <5>1. /\ Len(f[k].stream.buf) <= Len(f[k - 1].stream.buf) - 1
              /\ Len(f[k - 1].stream.buf) <= n - (k - 1)
          BY <2>1, <2>4, <3>2, <4>2
        <5> HIDE DEF n
        <5>2. k \in Nat /\ n \in Nat
          BY <1>1
        <5>3. ASSUME NEW x \in Nat, NEW y \in Nat, x <= y - 1, y <= n - (k - 1)
              PROVE  x <= n - k
          BY <5>2, <5>3
        <5>4. Len(f[k].stream.buf) <= n - k
          BY <2>3, <5>1, <5>3
        <5> QED
          BY <5>4
      <4> QED
        BY <4>1, <4>2
    <3> QED
      BY <3>1, <3>2
  <2> QED
    BY <2>2, <2>5
<1> HIDE DEF S
<1>5. n \in S
  <2>1. \A k \in 0 .. n : k \in S
    <3> HIDE DEF n
    <3> QED
      BY <1>1, <1>3, <1>4, Upward
  <2> QED
    BY <1>1, <2>1
<1>6. ScanInv(w, f[n], who) /\ (Idle(w, f[n].stream) \/ Len(f[n].stream.buf) <= n - n)
  BY <1>5 DEF S
<1>7. Idle(w, f[n].stream)
  <2>1. CASE Len(f[n].stream.buf) <= n - n
    <3>1. Len(f[n].stream.buf) \in Nat
      BY <1>6 DEF ScanInv, StreamInv, Stream
    <3>2. Len(f[n].stream.buf) < HeaderSize
      BY <1>1, <2>1, <3>1 DEF HeaderSize
    <3> QED
      BY <3>2 DEF Idle, Complete
  <2> QED
    BY <1>6, <2>1
<1> QED
  BY <1>2, <1>6, <1>7

-----------------------------------------------------------------------------
(* What a payload does to a stream                                         *)

\* Residues.
LEMMA Residue ==
  ASSUME NEW x \in Int
  PROVE  x % Modulus \in 0 .. Modulus - 1
  BY ModulusAssumption

\* The sequence number of a unit is one.
LEMMA NumberOf ==
  ASSUME NEW w, IsWire(w), NEW u \in Int
  PROVE  WireSeq(w, u) \in 0 .. Modulus - 1
<1>1. w.base \in 0 .. Modulus - 1
  BY DEF IsWire
<1>2. w.base + u \in Int
  BY <1>1, ModulusAssumption
<1> QED
  BY <1>2, Residue DEF WireSeq

\* More units behind them do not save what is doomed.
LEMMA DoomedStays ==
  ASSUME NEW w, NEW b \in Seq(Int), NEW c \in Seq(Int), Doomed(w, b)
  PROVE  Doomed(w, b \o c)
<1>1. /\ Len(b \o c) = Len(b) + Len(c) /\ Len(b) \in Nat /\ Len(c) \in Nat
      /\ \A i \in 1 .. Len(b) : (b \o c)[i] = b[i]
  OBVIOUS
<1>2. PICK j \in 1 .. Len(b) : j <= Asks(w, b[1]) /\ b[j] \in {PoisonHead, PoisonTail}
  BY DEF Doomed
<1>3. Asks(w, b[1]) # 0 /\ 1 \in 1 .. Len(b)
  BY <1>1, <1>2 DEF Doomed
<1>4. (b \o c)[1] = b[1] /\ (b \o c)[j] = b[j] /\ j \in 1 .. Len(b \o c)
  BY <1>1, <1>2, <1>3
<1> HIDE <1>1
<1>5. Len(b \o c) > 0
  BY <1>1, <1>3
<1> QED
  BY <1>2, <1>3, <1>4, <1>5 DEF Doomed

\* What a scanner can hold are integers.
LEMMA BufferedAreIntegers ==
  ASSUME NEW w, IsWire(w)
  PROVE  Buffered(w) \subseteq Int
<1>1. EndOf(w, Len(w.sizes)) \in Nat
  BY WireEnds
<1> QED
  BY <1>1 DEF Buffered, Units, PoisonHead, PoisonTail

\* The payload is buffered behind what the stream s holds.
Buffers(w, s, t, from, to) ==
  /\ ~t.desync /\ t.started = TRUE
  /\ t.nextSeq = WireSeq(w, to + 1) /\ t.buf = s.buf \o Run(from, to)

\* What Accept scans: the stream with the payload buffered, and its frame.
LEMMA BufferKeeps ==
  ASSUME NEW w, IsWire(w), NEW who, NEW s, StreamInv(w, s, who), ~s.desync,
         NEW from \in Nat, NEW to \in Nat, from <= to, from .. to \subseteq Units(w),
         NEW ref \in Nat, \A u \in from .. to : <<ref, u>> \in who
  PROVE  \E t :
           /\ Accept(w, s, from, to, ref) = Scanned(w, t)
           /\ StreamInv(w, t, who) /\ Buffers(w, s, t, from, to)
<1> DEFINE b == s.buf
           l == s.ledger
           run == Run(from, to)
           e == [ref |-> ref, n |-> to - from + 1]
           t == [s EXCEPT !.started = TRUE, !.nextSeq = WireSeq(w, to + 1),
                          !.buf = @ \o run, !.ledger = Append(@, e)]
<1>1. /\ s \in Stream(w) /\ b \in Seq(Buffered(w)) /\ l \in Seq(Entry) /\ Len(b) \in Nat
      /\ Len(l) \in Nat /\ s.desync = FALSE
  BY DEF StreamInv, Stream
<1>2. e \in Entry /\ e.n = to - from + 1 /\ e.ref = ref
  BY DEF Entry
<1>3. /\ run \in Seq(Units(w)) /\ Len(run) = to - from + 1
      /\ \A k \in 1 .. to - from + 1 : run[k] \in from .. to
  <2>1. /\ run \in Seq(Int) /\ Len(run) = to - from + 1
        /\ \A k \in 1 .. to - from + 1 : run[k] = from + k - 1
    BY RunOf
  <2>2. \A k \in 1 .. to - from + 1 : run[k] \in from .. to
    BY <2>1
  <2> HIDE DEF run
  <2> DEFINE size == to - from + 1
  <2>4. size \in Nat
    OBVIOUS
  <2>6. from .. to \subseteq Units(w)
    OBVIOUS
  <2>7. /\ \A k \in 1 .. size : run[k] \in Units(w)
        /\ run \in Seq(Int) /\ Len(run) = size
    BY <2>1, <2>2, <2>6
  <2> HIDE DEF size
  <2>3. run \in [1 .. size -> Units(w)]
    BY ONLY <2>7
  <2>5. run \in Seq(Units(w))
    BY ONLY <2>3, <2>4
  <2> QED
    BY <2>1, <2>2, <2>5
<1> HIDE DEF run, e
<1>4. /\ t.buf = b \o run /\ t.ledger = Append(l, e) /\ t.desync = FALSE
      /\ t.started = TRUE /\ t.nextSeq = WireSeq(w, to + 1)
  BY <1>1 DEF Stream
<1> HIDE DEF b, l
<1>5. t \in Stream(w)
  <2>1. WireSeq(w, to + 1) \in 0 .. Modulus - 1
    <3>1. to + 1 \in Int
      OBVIOUS
    <3> QED
      BY <3>1, NumberOf
  <2>2. run \in Seq(Buffered(w))
    BY <1>3, SeqMonotonic DEF Buffered
  <2>3. s.buf \o run \in Seq(Buffered(w)) /\ Append(s.ledger, e) \in Seq(Entry)
    BY <1>1, <1>2, <2>2, ConcatProperties, AppendProperties DEF b, l
  <2> QED
    BY <1>1, <2>1, <2>3 DEF Stream, t
<1> HIDE DEF t
<1>6. ASSUME Doomed(w, b) PROVE StreamInv(w, t, who)
  <2>1. b \in Seq(Int) /\ run \in Seq(Int)
    <3>1. Buffered(w) \subseteq Int /\ Units(w) \subseteq Int
      BY BufferedAreIntegers DEF Buffered
    <3> QED
      BY <1>1, <1>3, <3>1, SeqMonotonic
  <2>2. Doomed(w, b \o run)
    BY <1>6, <2>1, DoomedStays
  <2> QED
    BY <1>4, <1>5, <2>2 DEF StreamInv
<1>7. ASSUME Clean(w, s, who) PROVE StreamInv(w, t, who)
  <2>1. /\ b \in Seq(Units(w)) /\ Covered(l, Len(l)) = Len(b)
        /\ \A k \in 1 .. Len(l), i \in 1 .. Len(b) :
             Covered(l, k - 1) < i /\ i <= Covered(l, k) => <<l[k].ref, b[i]>> \in who
    BY <1>7 DEF Clean, b, l
  <2>2. /\ b \o run \in Seq(Units(w)) /\ Len(b \o run) = Len(b) + (to - from + 1)
        /\ \A i \in 1 .. Len(b) + (to - from + 1) :
             (b \o run)[i] = IF i <= Len(b) THEN b[i] ELSE run[i - Len(b)]
    <3>1. run \in Seq(Units(w)) /\ Len(run) = to - from + 1
      BY <1>3
    <3>2. /\ b \o run \in Seq(Units(w)) /\ Len(b \o run) = Len(b) + Len(run)
          /\ \A i \in 1 .. Len(b) + Len(run) :
               (b \o run)[i] = IF i <= Len(b) THEN b[i] ELSE run[i - Len(b)]
      BY <2>1, <3>1, ConcatProperties
    <3> QED
      BY <3>1, <3>2
  <2> DEFINE m == Append(l, e)
             c == b \o run
  <2>3. /\ Len(m) = Len(l) + 1 /\ m[Len(l) + 1] = e
        /\ \A k \in 1 .. Len(l) : m[k] = l[k]
    BY <1>1, <1>2, AppendProperties
  <2>4. /\ \A k \in 0 .. Len(l) : Covered(m, k) = Covered(l, k)
        /\ Covered(m, Len(l) + 1) = Len(b) + (to - from + 1)
    BY <1>1, <1>2, <2>1, CoveredMore
  <2> HIDE DEF m, c
  <2>5. ASSUME NEW k \in 1 .. Len(m), NEW i \in 1 .. Len(c), Covered(m, k - 1) < i, i <= Covered(m, k)
        PROVE  <<m[k].ref, c[i]>> \in who
    <3>1. /\ k \in 1 .. Len(l) + 1 /\ i \in 1 .. Len(b) + (to - from + 1)
          /\ k - 1 \in 0 .. Len(l)
      BY <1>1, <2>2, <2>3 DEF c
    <3>2. CASE k = Len(l) + 1
      <4>1. m[k].ref = ref /\ Covered(m, k - 1) = Len(b)
        <5>1. k - 1 = Len(l) /\ Len(l) \in 0 .. Len(l)
          BY <1>1, <3>2
        <5> QED
          BY <1>2, <2>1, <2>3, <2>4, <3>2, <5>1
      <4>2. c[i] = run[i - Len(b)] /\ i - Len(b) \in 1 .. to - from + 1
        <5>1. ~(i <= Len(b)) /\ i - Len(b) \in 1 .. to - from + 1
          BY <1>1, <2>5, <3>1, <4>1
        <5> QED
          BY <2>2, <3>1, <5>1 DEF c
      <4> QED
        BY <1>3, <4>1, <4>2
    <3>3. CASE k \in 1 .. Len(l)
      <4>1. Covered(m, k) = Covered(l, k) /\ Covered(m, k - 1) = Covered(l, k - 1) /\ m[k] = l[k]
        BY <1>1, <2>3, <2>4, <3>1, <3>3
      <4>2. Covered(l, k) <= Len(b) /\ Covered(l, k) \in Nat
        <5>1. k \in 0 .. Len(l) /\ Len(l) \in 0 .. Len(l) /\ k <= Len(l)
          BY <1>1, <3>3
        <5> QED
          BY <1>1, <2>1, <5>1, CoveredOf
      <4>3. i \in 1 .. Len(b)
        BY <1>1, <2>5, <3>1, <4>1, <4>2
      <4>4. c[i] = b[i]
        BY <1>1, <2>2, <3>1, <4>3 DEF c
      <4> QED
        BY <2>1, <2>5, <3>3, <4>1, <4>3, <4>4
    <3> QED
      BY <1>1, <3>1, <3>2, <3>3
  <2>6. Clean(w, t, who)
    <3>1. Covered(m, Len(m)) = Len(c)
      BY <2>2, <2>3, <2>4 DEF c
    <3> QED
      BY <1>4, <2>2, <2>5, <3>1 DEF Clean, m, c
  <2> QED
    BY <1>5, <2>6 DEF StreamInv
<1>8. StreamInv(w, t, who)
  BY <1>1, <1>6, <1>7 DEF StreamInv, b
<1>9. Accept(w, s, from, to, ref) = Scanned(w, t)
  BY DEF Accept, t, run, e
<1> QED
  BY <1>4, <1>8, <1>9 DEF b, run, Buffers

\* A payload that is accepted is buffered, with its frame, and scanned.
LEMMA AcceptKeeps ==
  ASSUME NEW w, IsWire(w), NEW who, NEW s, StreamInv(w, s, who), ~s.desync,
         NEW from \in Nat, NEW to \in Nat, from <= to, from .. to \subseteq Units(w),
         NEW ref \in Nat, \A u \in from .. to : <<ref, u>> \in who
  PROVE  /\ ScanInv(w, Accept(w, s, from, to, ref), who)
         /\ Idle(w, Accept(w, s, from, to, ref).stream)
<1>1. PICK t :
        /\ Accept(w, s, from, to, ref) = Scanned(w, t)
        /\ StreamInv(w, t, who) /\ Buffers(w, s, t, from, to)
  BY BufferKeeps
<1> QED
  BY <1>1, ScanKeeps DEF Buffers

\* The poison stops the scanner, dooms what is buffered, or, if nothing was
\* buffered, is taken for a sentinel and gone.
LEMMA PoisonKeeps ==
  ASSUME NEW w, IsWire(w), NEW who, NEW s, StreamInv(w, s, who), ~s.desync, Idle(w, s)
  PROVE  StreamInv(w, Poisoned(w, s), who) /\ Idle(w, Poisoned(w, s))
<1> DEFINE old == s.buf
           b == old \o <<PoisonHead, PoisonTail>>
           n == Complete(w, b)
           rest == SubSeq(b, n + 1, Len(b))
<1>1. s \in Stream(w) /\ old \in Seq(Buffered(w)) /\ Len(old) \in Nat
  BY DEF StreamInv, Stream
<1>2. Complete(w, old) = 0
  BY DEF Idle
<1>3. /\ b \in Seq(Buffered(w)) /\ Len(b) = Len(old) + 2
      /\ \A i \in 1 .. Len(old) : b[i] = old[i]
      /\ b[Len(old) + 1] = PoisonHead /\ b[Len(old) + 2] = PoisonTail
  <2> DEFINE p == <<PoisonHead, PoisonTail>>
  <2>1. p \in Seq(Buffered(w)) /\ Len(p) = 2 /\ p[1] = PoisonHead /\ p[2] = PoisonTail
    BY DEF Buffered
  <2> HIDE DEF p
  <2>2. /\ old \o p \in Seq(Buffered(w)) /\ Len(old \o p) = Len(old) + Len(p)
        /\ \A i \in 1 .. Len(old) + Len(p) :
             (old \o p)[i] = IF i <= Len(old) THEN old[i] ELSE p[i - Len(old)]
    BY <1>1, <2>1, ConcatProperties
  <2>3. b = old \o p
    BY DEF p
  <2> HIDE DEF b, old
  <2>4. \A i \in 1 .. Len(old) : b[i] = old[i]
    BY <1>1, <2>1, <2>2, <2>3
  <2>5. b[Len(old) + 1] = p[1] /\ b[Len(old) + 2] = p[2]
    <3>1. /\ Len(old) + 1 \in 1 .. Len(old) + Len(p) /\ ~(Len(old) + 1 <= Len(old))
          /\ Len(old) + 2 \in 1 .. Len(old) + Len(p) /\ ~(Len(old) + 2 <= Len(old))
          /\ Len(old) + 1 - Len(old) = 1 /\ Len(old) + 2 - Len(old) = 2
      BY <1>1, <2>1
    <3> QED
      BY <2>2, <2>3, <3>1
  <2> QED
    BY <2>1, <2>2, <2>3, <2>4, <2>5
<1>4. Poisoned(w, s) = IF n > 0 /\ ~Intact(w, SubSeq(b, 1, n))
                       THEN [s EXCEPT !.buf = b, !.desync = TRUE]
                       ELSE [s EXCEPT !.buf = rest]
  BY DEF Poisoned
<1> HIDE DEF b
<1>5. n \in 0 .. Len(b)
  BY <1>3, CompleteOf
<1>6. CASE n > 0 /\ ~Intact(w, SubSeq(b, 1, n))
  <2>1. Poisoned(w, s) = [s EXCEPT !.buf = b, !.desync = TRUE]
    BY <1>4, <1>6
  <2>2. [s EXCEPT !.buf = b, !.desync = TRUE] \in Stream(w)
    BY <1>1, <1>3 DEF Stream
  <2>3. [s EXCEPT !.buf = b, !.desync = TRUE].desync
    BY <1>1 DEF Stream
  <2> QED
    BY <2>1, <2>2, <2>3 DEF StreamInv, Idle
<1>7. CASE ~(n > 0 /\ ~Intact(w, SubSeq(b, 1, n)))
  <2> DEFINE t == [s EXCEPT !.buf = rest]
  <2>1. Poisoned(w, s) = t
    BY <1>4, <1>7
  <2>2. rest \in Seq(Buffered(w)) /\ Len(rest) = Len(b) - n
        /\ \A i \in 1 .. Len(b) - n : rest[i] = b[n + i]
    BY <1>3, <1>5, Taken
  <2> HIDE DEF rest, n, old
  <2>3. t \in Stream(w) /\ t.buf = rest /\ t.ledger = s.ledger /\ t.desync = s.desync
    BY <1>1, <2>2 DEF Stream
  <2> HIDE DEF t
  <2>4. ASSUME Doomed(w, b), n # 0 PROVE FALSE
    <3>1. ~Intact(w, SubSeq(b, 1, n))
      BY <1>3, <2>4, DoomedYieldsNothing DEF n
    <3> QED
      BY <1>3, <1>5, <1>7, <2>4, <3>1, <1>1
  <2>5. ASSUME Doomed(w, old) PROVE Doomed(w, b)
    <3>1. PICK j \in 1 .. Len(old) : j <= Asks(w, old[1]) /\ old[j] \in {PoisonHead, PoisonTail}
      BY <2>5 DEF Doomed
    <3>2. 1 \in 1 .. Len(old) /\ Asks(w, old[1]) # 0
      BY <1>1, <2>5 DEF Doomed
    <3>3. b[1] = old[1] /\ b[j] = old[j] /\ j \in 1 .. Len(b) /\ Len(b) > 0
      BY <1>1, <1>3, <3>2
    <3> QED
      BY <3>1, <3>2, <3>3 DEF Doomed
  <2>6. CASE n = 0
    <3>1. rest = b
      BY <1>3, <2>6, SubSeqFull DEF rest
    <3>2. Complete(w, b) = 0
      BY <2>6 DEF n
    <3>3. ~Special(w, b) /\ Len(b) < Asks(w, b[1])
      <4>1. ~(Len(b) < HeaderSize)
        BY <1>1, <1>3 DEF HeaderSize
      <4> QED
        BY <1>3, <3>2, <4>1, CompleteOf
    <3>4. Len(b) \in 1 .. Len(b) /\ b[Len(b)] = PoisonTail /\ Len(b) > 0
      BY <1>1, <1>3
    <3>5. b[1] \in Buffered(w)
      BY <1>1, <1>3
    <3>6. Asks(w, b[1]) \in Nat /\ Len(b) \in Nat
      BY <1>1, <1>3, <3>5, AsksOf
    <3>7. Doomed(w, b)
      BY <3>3, <3>4, <3>6 DEF Doomed, Special
    <3> QED
      BY <2>1, <2>3, <3>1, <3>2, <3>7 DEF StreamInv, Idle
  <2>7. CASE n # 0 /\ Len(old) = 0
    <3>1. b[1] = PoisonHead /\ Len(b) = 2
      BY <1>1, <1>3, <2>7
    <3>2. Special(w, b)
      BY <3>1 DEF Special, Asks
    <3>3. n = 2
      BY <3>1, <3>2 DEF n, Complete, HeaderSize
    <3>4. Len(rest) = 0
      BY <2>2, <3>1, <3>3
    <3>5. Idle(w, t)
      BY <2>3, <3>4 DEF Idle, Complete, HeaderSize
    <3>6. rest = <<>> /\ old = <<>>
      BY <1>1, <2>2, <2>7, <3>4, EmptySeq
    <3>7. ~Doomed(w, old)
      BY <2>7 DEF Doomed
    <3>8. Clean(w, s, who)
      BY <3>7 DEF StreamInv, old
    <3>9. Clean(w, t, who)
      BY <2>3, <3>6, <3>8 DEF Clean, old
    <3> QED
      BY <2>1, <2>3, <3>5, <3>9 DEF StreamInv
  <2>8. CASE n # 0 /\ Len(old) = 1
    <3>1. Len(b) = 3 /\ b[1] = old[1] /\ b[2] = PoisonHead /\ b[3] = PoisonTail
      BY <1>1, <1>3, <2>8
    <3>2. old[1] \in Buffered(w)
      BY <1>1, <2>8
    <3>3. Asks(w, b[1]) \in Nat /\ (Asks(w, b[1]) = 0 \/ Asks(w, b[1]) >= 2)
      BY <3>1, <3>2, AsksOf DEF HeaderSize
    <3>4. Special(w, b)
      <4>1. SUFFICES ASSUME ~Special(w, b) PROVE FALSE
        OBVIOUS
      <4>2. Asks(w, b[1]) # 0
        BY <4>1 DEF Special
      <4>3. Doomed(w, b)
        <5>1. 2 \in 1 .. Len(b) /\ Len(b) > 0 /\ 2 <= Asks(w, b[1])
          BY <3>1, <3>3, <4>2
        <5> QED
          BY <3>1, <4>2, <5>1 DEF Doomed
      <4> QED
        BY <2>4, <2>8, <4>3
    <3>5. n = 2
      BY <3>1, <3>4 DEF n, Complete, HeaderSize
    <3>6. Len(rest) = 1 /\ rest[1] = PoisonTail
      BY <2>2, <3>1, <3>5
    <3>7. Idle(w, t)
      BY <2>3, <3>6 DEF Idle, Complete, HeaderSize
    <3>8. Asks(w, rest[1]) = 2
      BY <3>6 DEF Asks, PoisonTail, PoisonHead, HeaderSize
    <3>9. Doomed(w, rest)
      BY <3>6, <3>8 DEF Doomed
    <3> QED
      BY <2>1, <2>3, <3>7, <3>9 DEF StreamInv
  <2>9. CASE n # 0 /\ Len(old) >= 2
    <3>1. ~Special(w, old) /\ Len(old) < Asks(w, old[1])
      <4>1. ~(Len(old) < HeaderSize)
        BY <1>1, <2>9 DEF HeaderSize
      <4> QED
        BY <1>1, <1>2, <4>1, CompleteOf
    <3>2. b[1] = old[1] /\ old[1] \in Buffered(w)
      BY <1>1, <1>3, <2>9
    <3>3. Asks(w, b[1]) \in Nat
      BY <3>2, AsksOf
    <3>4. /\ Len(old) + 1 \in 1 .. Len(b) /\ Len(old) + 1 <= Asks(w, b[1])
          /\ b[Len(old) + 1] \in {PoisonHead, PoisonTail} /\ Len(b) > 0
      BY <1>1, <1>3, <3>1, <3>2, <3>3
    <3>5. Doomed(w, b)
      BY <3>1, <3>2, <3>4 DEF Doomed, Special
    <3> QED
      BY <2>4, <2>9, <3>5
  <2>10. Len(old) = 0 \/ Len(old) = 1 \/ Len(old) >= 2
    <3>1. \A x \in Nat : x = 0 \/ x = 1 \/ x >= 2
      OBVIOUS
    <3>2. Len(old) \in Nat
      BY <1>1
    <3> QED
      BY <3>1, <3>2, Zenon
  <2> QED
    BY <2>6, <2>7, <2>8, <2>9, <2>10
<1> QED
  BY <1>6, <1>7

\* A frame that is beyond what the stream expects.
Beyond(w, s, from) ==
  /\ s.started /\ ~s.desync
  /\ WireSeq(w, from) # s.nextSeq /\ ~SeqLess(WireSeq(w, from), s.nextSeq)

\* What holds when a payload has been fed: what came out is good, and framing
\* was lost exactly if the stream stopped just now or the payload was beyond.
FedInv(w, s, from, o, who) ==
  /\ StreamInv(w, o.stream, who) /\ Idle(w, o.stream)
  /\ GoodOut(w, o.out, who)
  /\ o.lost <=> ~s.desync /\ (o.stream.desync \/ Beyond(w, s, from))
  /\ s.desync => o.stream = s
  /\ o.lost \in BOOLEAN

\* Feeding a payload to a stream (feedTCP) keeps what is known of it, whichever of
\* its branches is taken.
LEMMA FeedTCPKeeps ==
  ASSUME NEW w, IsWire(w), NEW who, NEW s, StreamInv(w, s, who), Idle(w, s),
         NEW from \in Nat, NEW to \in Nat, from <= to, from .. to \subseteq Units(w),
         NEW ref \in Nat, \A u \in from .. to : <<ref, u>> \in who
  PROVE  FedInv(w, s, from, FeedTCP(w, s, from, to, ref), who)
<1> DEFINE seq == WireSeq(w, from)
           skip == Skip(w, s, from)
           o == FeedTCP(w, s, from, to, ref)
<1>1. s \in Stream(w) /\ s.desync \in BOOLEAN /\ s.nextSeq \in 0 .. Modulus - 1
  BY DEF StreamInv, Stream
<1>2. GoodOut(w, <<>>, who)
  BY DEF GoodOut
<1>3. ASSUME s.desync PROVE FedInv(w, s, from, o, who)
  <2>1. o.stream = s /\ o.out = <<>> /\ o.lost = FALSE
    BY <1>3 DEF FeedTCP, Outcome
  <2> QED
    BY <1>2, <1>3, <2>1 DEF FedInv
<1>4. ASSUME NEW first \in Nat, first <= to, first >= from, ~s.desync, ~Beyond(w, s, from),
             o = Accept(w, s, first, to, ref)
      PROVE  FedInv(w, s, from, o, who)
  <2>1. first .. to \subseteq from .. to
    BY <1>4
  <2>2. ScanInv(w, o, who) /\ Idle(w, o.stream)
    BY <1>4, <2>1, AcceptKeeps
  <2>3. o.lost = o.stream.desync /\ o.stream.desync \in BOOLEAN
    BY <2>2 DEF ScanInv, StreamInv, Stream
  <2> HIDE DEF o
  <2> QED
    BY <1>4, <2>2, <2>3 DEF ScanInv, FedInv
<1>5. CASE ~s.desync /\ (~s.started \/ seq = s.nextSeq)
  <2>1. o = Accept(w, s, from, to, ref)
    BY <1>5 DEF FeedTCP
  <2>2. ~Beyond(w, s, from)
    BY <1>5 DEF Beyond
  <2> QED
    BY <1>4, <1>5, <2>1, <2>2
<1>6. CASE ~s.desync /\ ~(~s.started \/ seq = s.nextSeq) /\ SeqLess(seq, s.nextSeq)
  <2>1. ~Beyond(w, s, from)
    BY <1>6 DEF Beyond
  <2>2. CASE skip >= to - from + 1
    <3>1. o.stream = s /\ o.out = <<>> /\ o.lost = FALSE
      BY <1>6, <2>2 DEF FeedTCP, Outcome
    <3> QED
      BY <1>2, <1>6, <2>1, <3>1 DEF FedInv
  <2>3. CASE ~(skip >= to - from + 1)
    <3>1. skip \in Nat
      <4>1. seq \in 0 .. Modulus - 1
        BY NumberOf
      <4>2. s.nextSeq - seq \in Int
        BY <1>1, <4>1, ModulusAssumption
      <4>3. skip \in 0 .. Modulus - 1
        BY <4>2, Residue DEF Skip
      <4> QED
        BY <4>3, ModulusAssumption
    <3>2. o = Accept(w, s, from + skip, to, ref)
      BY <1>6, <2>3 DEF FeedTCP
    <3>3. from + skip \in Nat /\ from + skip <= to /\ from + skip >= from
      <4> HIDE DEF skip
      <4> QED
        BY <2>3, <3>1
    <3> QED
      BY <1>4, <1>6, <2>1, <3>2, <3>3
  <2> QED
    BY <2>2, <2>3
<1>7. CASE ~s.desync /\ ~(~s.started \/ seq = s.nextSeq) /\ ~SeqLess(seq, s.nextSeq)
  <2>1. Beyond(w, s, from)
    BY <1>7 DEF Beyond
  <2>2. o.stream = Poisoned(w, s) /\ o.out = <<>> /\ o.lost = TRUE
    BY <1>7 DEF FeedTCP, Outcome
  <2> HIDE DEF o
  <2>3. StreamInv(w, o.stream, who) /\ Idle(w, o.stream)
    BY <1>7, <2>2, PoisonKeeps
  <2>4. FedInv(w, s, from, o, who)
    BY <1>2, <1>7, <2>1, <2>2, <2>3 DEF FedInv
  <2> QED
    BY <2>4 DEF o
<1> QED
  BY <1>3, <1>5, <1>6, <1>7

-----------------------------------------------------------------------------
(* The connection table                                                    *)

Conn ==
  [key : [a : Endpoints, b : Endpoints, udp : BOOLEAN],
   client : Endpoints, server : Endpoints,
   service : {"dedicated", "well-known", "unknown"},
   evidence : {"handoff", "port", "heuristic"}, desyncAt : Nat]

KeyOf(link) == NewKey(link.src, link.dst, link.udp)

\* A connection has a key of its own, its server is one of its ends, and it is
\* classified by handoff exactly if that end was announced.
TableInv(t) ==
  /\ t \in [conns : Seq(Conn), dedicated : SUBSET Endpoints]
  /\ \A m, n \in 1 .. Len(t.conns) : t.conns[m].key = t.conns[n].key => m = n
  /\ \A n \in 1 .. Len(t.conns) :
       /\ t.conns[n].server \in {t.conns[n].key.a, t.conns[n].key.b}
       /\ t.conns[n].evidence = "handoff" <=> t.conns[n].server \in t.dedicated

\* No two connections of a table have the same key.
LEMMA KeysApart ==
  ASSUME NEW t, TableInv(t), NEW m \in 1 .. Len(t.conns), NEW n \in 1 .. Len(t.conns),
         t.conns[m].key = t.conns[n].key
  PROVE  m = n
  BY Zenon DEF TableInv

\* u has the connections of t, with the same ends.
SameEnds(t, u) ==
  /\ Len(u.conns) = Len(t.conns)
  /\ \A n \in 1 .. Len(t.conns) :
       u.conns[n].key = t.conns[n].key /\ u.conns[n].server = t.conns[n].server

\* A link, and the key it is looked up by.
LEMMA LinkOf ==
  ASSUME NEW link \in Links
  PROVE  /\ link.src \in Endpoints /\ link.dst \in Endpoints /\ link.udp \in BOOLEAN
         /\ link = [src |-> link.src, dst |-> link.dst, udp |-> link.udp]
         /\ KeyOf(link) \in [a : Endpoints, b : Endpoints, udp : BOOLEAN]
         /\ {KeyOf(link).a, KeyOf(link).b} = {link.src, link.dst}
         /\ KeyOf(link).udp = link.udp
<1>1. link \in [src : Endpoints, dst : Endpoints, udp : BOOLEAN]
  BY DecodingAssumption DEF DecodingAssumption
<1>2. /\ link.src \in Endpoints /\ link.dst \in Endpoints /\ link.udp \in BOOLEAN
      /\ link = [src |-> link.src, dst |-> link.dst, udp |-> link.udp]
  BY <1>1
<1>3. \/ KeyOf(link) = [a |-> link.src, b |-> link.dst, udp |-> link.udp]
      \/ KeyOf(link) = [a |-> link.dst, b |-> link.src, udp |-> link.udp]
  BY DEF KeyOf, NewKey
<1> QED
  BY <1>2, <1>3

\* Two ends are the same if neither comes before the other.
LEMMA OneOrder ==
  ASSUME NEW x \in Endpoints, NEW y \in Endpoints, NEW udp
  PROVE  NewKey(x, y, udp) = NewKey(y, x, udp)
<1>1. /\ x \in [ip : Nat, port : Nat] /\ y \in [ip : Nat, port : Nat]
  BY DecodingAssumption DEF DecodingAssumption
<1>2. x.ip \in Nat /\ x.port \in Nat /\ y.ip \in Nat /\ y.port \in Nat
  BY <1>1
<1>3. CASE x.ip = y.ip /\ x.port = y.port
  <2>1. x = y
    BY <1>1, <1>3
  <2> QED
    BY <2>1
<1>4. CASE ~(x.ip = y.ip /\ x.port = y.port)
  BY <1>2, <1>4 DEF NewKey
<1> QED
  BY <1>3, <1>4

\* Two links have one key exactly if they are the two directions of one flow.
LEMMA KeyIsFlow ==
  ASSUME NEW l \in Links, NEW k \in Links
  PROVE  KeyOf(l) = KeyOf(k) <=>
           l = k \/ (l.src = k.dst /\ l.dst = k.src /\ l.udp = k.udp)
<1>1. ASSUME KeyOf(l) = KeyOf(k)
      PROVE  l = k \/ (l.src = k.dst /\ l.dst = k.src /\ l.udp = k.udp)
  <2>1. {l.src, l.dst} = {k.src, k.dst} /\ l.udp = k.udp
    BY <1>1, LinkOf
  <2>2. CASE l.src = k.src
    <3>1. l.dst = k.dst
      BY <2>1, <2>2
    <3> QED
      BY <2>1, <2>2, <3>1, LinkOf
  <2>3. CASE l.src # k.src
    <3>1. l.src = k.dst /\ l.dst = k.src
      BY <2>1, <2>3
    <3> QED
      BY <2>1, <3>1
  <2> QED
    BY <2>2, <2>3
<1>2. ASSUME l.src = k.dst, l.dst = k.src, l.udp = k.udp PROVE KeyOf(l) = KeyOf(k)
  <2>1. k.src \in Endpoints /\ k.dst \in Endpoints
    BY LinkOf
  <2>2. NewKey(k.src, k.dst, k.udp) = NewKey(k.dst, k.src, k.udp)
    BY <2>1, OneOrder
  <2> QED
    BY <1>2, <2>2 DEF KeyOf
<1> QED
  BY <1>1, <1>2

\* Where a link is looked up.
LEMMA LookupOf ==
  ASSUME NEW t, TableInv(t), NEW link
  PROVE  /\ Lookup(t, link) = {n \in 1 .. Len(t.conns) : t.conns[n].key = KeyOf(link)}
         /\ \A n \in Lookup(t, link) : Lookup(t, link) = {n} /\ ConnOf(t, link) = n
         /\ Len(t.conns) \in Nat /\ DOMAIN t.conns = 1 .. Len(t.conns)
         /\ \A n \in 1 .. Len(t.conns) : t.conns[n] \in Conn
<1>1. t.conns \in Seq(Conn)
  BY DEF TableInv
<1>2. /\ Len(t.conns) \in Nat /\ DOMAIN t.conns = 1 .. Len(t.conns)
      /\ \A n \in 1 .. Len(t.conns) : t.conns[n] \in Conn
  BY <1>1
<1>3. Lookup(t, link) = {n \in 1 .. Len(t.conns) : t.conns[n].key = KeyOf(link)}
  BY <1>2 DEF Lookup, KeyOf
<1>4. \A n \in Lookup(t, link) : Lookup(t, link) = {n}
  BY <1>3 DEF TableInv
<1>5. \A n \in Lookup(t, link) : ConnOf(t, link) = n
  BY <1>4 DEF ConnOf
<1> QED
  BY <1>2, <1>3, <1>4, <1>5

\* Tables that have the same ends find the same connections.
LEMMA SameLookup ==
  ASSUME NEW t, TableInv(t), NEW u, TableInv(u), SameEnds(t, u), NEW link
  PROVE  Lookup(u, link) = Lookup(t, link) /\ ConnOf(u, link) = ConnOf(t, link)
<1>1. Lookup(t, link) = {n \in 1 .. Len(t.conns) : t.conns[n].key = KeyOf(link)}
  BY LookupOf
<1>2. Lookup(u, link) = {n \in 1 .. Len(u.conns) : u.conns[n].key = KeyOf(link)}
  BY LookupOf
<1>3. Lookup(u, link) = Lookup(t, link)
  BY <1>1, <1>2 DEF SameEnds
<1> QED
  BY <1>3 DEF ConnOf

\* Observe finds a connection or appends it; the others stay.
LEMMA ObserveKeeps ==
  ASSUME NEW t, TableInv(t), NEW link \in Links, NEW u, u = Observe(t, link)
  PROVE  /\ TableInv(u)
         /\ u.dedicated = t.dedicated
         /\ Len(u.conns) >= Len(t.conns)
         /\ \A n \in 1 .. Len(t.conns) : u.conns[n] = t.conns[n]
         /\ \A n \in 1 .. Len(u.conns) : n > Len(t.conns) =>
              u.conns[n].desyncAt = 0 /\ u.conns[n].key = KeyOf(link)
         /\ Lookup(u, link) = {ConnOf(u, link)} /\ ConnOf(u, link) \in 1 .. Len(u.conns)
<1> DEFINE new == Classify(t, link.src, link.dst)
           conn == [key |-> KeyOf(link), client |-> new.client, server |-> new.server,
                    service |-> new.service, evidence |-> new.evidence, desyncAt |-> 0]
<1>1. /\ Len(t.conns) \in Nat /\ t.conns \in Seq(Conn) /\ t.dedicated \subseteq Endpoints
      /\ t \in [conns : Seq(Conn), dedicated : SUBSET Endpoints]
  BY LookupOf DEF TableInv
<1>2. ASSUME Lookup(t, link) # {}
      PROVE  u = t /\ Lookup(u, link) = {ConnOf(u, link)} /\ ConnOf(u, link) \in 1 .. Len(u.conns)
  <2>1. u = t
    BY <1>2 DEF Observe
  <2> QED
    BY <1>2, <2>1, LookupOf
<1>3. CASE Lookup(t, link) # {}
  <2>1. u = t /\ Lookup(u, link) = {ConnOf(u, link)} /\ ConnOf(u, link) \in 1 .. Len(u.conns)
    BY <1>2, <1>3
  <2> QED
    BY <1>1, <2>1
<1>4. CASE Lookup(t, link) = {}
  <2>1. u = [t EXCEPT !.conns = Append(t.conns, conn)]
    BY <1>4 DEF Observe, KeyOf
  <2>2. /\ new.client \in Endpoints /\ new.server \in {link.src, link.dst}
        /\ new.service \in {"dedicated", "well-known", "unknown"}
        /\ new.evidence \in {"handoff", "port", "heuristic"}
        /\ new.evidence = "handoff" <=> new.server \in t.dedicated
    <3>1. CASE link.dst \in t.dedicated
      <4>1. new = Classified(link.src, link.dst, "dedicated", "handoff")
        BY <3>1 DEF Classify
      <4> QED
        BY <3>1, <4>1, LinkOf DEF Classified
    <3>2. CASE link.dst \notin t.dedicated /\ link.src \in t.dedicated
      <4>1. new = Classified(link.dst, link.src, "dedicated", "handoff")
        BY <3>2 DEF Classify
      <4> QED
        BY <3>2, <4>1, LinkOf DEF Classified
    <3>3. CASE link.dst \notin t.dedicated /\ link.src \notin t.dedicated
      <4>1. {link.src, link.dst} \cap t.dedicated = {}
        BY <3>3
      <4>2. \/ new = Classified(link.src, link.dst, "well-known", "port")
            \/ new = Classified(link.dst, link.src, "well-known", "port")
            \/ new = Classified(link.src, link.dst, "unknown", "heuristic")
            \/ new = Classified(link.dst, link.src, "unknown", "heuristic")
        BY <3>3, <4>1 DEF Classify
      <4> HIDE DEF new
      <4> QED
        BY <3>3, <4>2, LinkOf DEF Classified
    <3> QED
      BY <3>1, <3>2, <3>3
  <2> HIDE DEF new
  <2>3. KeyOf(link) \in [a : Endpoints, b : Endpoints, udp : BOOLEAN] /\ new.server \in Endpoints
    BY <2>2, LinkOf
  <2>4. conn \in Conn
    BY <2>2, <2>3 DEF Conn
  <2>5. /\ conn.key = KeyOf(link) /\ conn.desyncAt = 0 /\ conn.server = new.server
        /\ conn.evidence = new.evidence
    OBVIOUS
  <2>6. conn.server \in {conn.key.a, conn.key.b}
    BY <2>2, <2>5, LinkOf
  <2> HIDE DEF conn
  <2>7. /\ Append(t.conns, conn) \in Seq(Conn) /\ Len(Append(t.conns, conn)) = Len(t.conns) + 1
        /\ \A n \in 1 .. Len(t.conns) : Append(t.conns, conn)[n] = t.conns[n]
        /\ Append(t.conns, conn)[Len(t.conns) + 1] = conn
    BY <1>1, <2>4, AppendProperties
  <2>8. /\ u.conns = Append(t.conns, conn) /\ u.dedicated = t.dedicated
        /\ u \in [conns : Seq(Conn), dedicated : SUBSET Endpoints]
    BY <1>1, <2>1, <2>7
  <2>9. \A n \in 1 .. Len(t.conns) : t.conns[n].key # KeyOf(link)
    BY <1>4, LookupOf
  <2>10. /\ Len(u.conns) = Len(t.conns) + 1
         /\ \A n \in 1 .. Len(t.conns) : u.conns[n] = t.conns[n]
         /\ u.conns[Len(t.conns) + 1] = conn
    BY <2>7, <2>8
  <2>11. \A n \in 1 .. Len(u.conns) : n \in 1 .. Len(t.conns) \/ n = Len(t.conns) + 1
    BY <1>1, <2>10
  <2>12. TableInv(u)
    <3>1. \A m, n \in 1 .. Len(u.conns) : u.conns[m].key = u.conns[n].key => m = n
      BY <2>5, <2>9, <2>10, <2>11 DEF TableInv
    <3>2. \A n \in 1 .. Len(u.conns) :
            /\ u.conns[n].server \in {u.conns[n].key.a, u.conns[n].key.b}
            /\ u.conns[n].evidence = "handoff" <=> u.conns[n].server \in u.dedicated
      BY <2>2, <2>5, <2>6, <2>8, <2>10, <2>11 DEF TableInv
    <3> QED
      BY <2>8, <3>1, <3>2 DEF TableInv
  <2>13. Len(t.conns) + 1 \in Lookup(u, link)
    <3>1. Len(t.conns) + 1 \in 1 .. Len(u.conns)
      BY <1>1, <2>10
    <3> QED
      BY <2>5, <2>10, <2>12, <3>1, LookupOf
  <2>14. Lookup(u, link) = {ConnOf(u, link)} /\ ConnOf(u, link) \in 1 .. Len(u.conns)
    BY <2>12, <2>13, LookupOf
  <2> QED
    BY <1>1, <2>5, <2>8, <2>10, <2>11, <2>12, <2>14
<1> QED
  BY <1>3, <1>4

\* What a handoff announces becomes a classification by handoff wherever it is
\* the server, and nothing else changes.
LEMMA AnnounceKeeps ==
  ASSUME NEW t, TableInv(t), NEW announced \in SUBSET Endpoints,
         NEW u, u = AnnounceDedicated(t, announced)
  PROVE  /\ TableInv(u) /\ SameEnds(t, u)
         /\ u.dedicated = t.dedicated \cup announced
         /\ \A n \in 1 .. Len(t.conns) : u.conns[n].desyncAt = t.conns[n].desyncAt
<1> DEFINE N == Len(t.conns)
           Next(c) == IF c.server \in announced
                      THEN [c EXCEPT !.service = "dedicated", !.evidence = "handoff"] ELSE c
<1>1. /\ N \in Nat /\ DOMAIN t.conns = 1 .. N /\ t.dedicated \subseteq Endpoints
      /\ \A n \in 1 .. N : t.conns[n] \in Conn
  BY LookupOf DEF TableInv
<1>2. ASSUME NEW c \in Conn
      PROVE  /\ Next(c) \in Conn /\ Next(c).key = c.key /\ Next(c).server = c.server
             /\ Next(c).desyncAt = c.desyncAt
             /\ Next(c).evidence = "handoff" <=> c.evidence = "handoff" \/ c.server \in announced
  <2>1. CASE c.server \in announced
    BY <2>1 DEF Conn
  <2>2. CASE c.server \notin announced
    BY <2>2
  <2> QED
    BY <2>1, <2>2
<1>3. u = [conns |-> [n \in 1 .. N |-> Next(t.conns[n])],
           dedicated |-> t.dedicated \cup announced]
  BY <1>1 DEF AnnounceDedicated
<1> HIDE DEF Next, N
<1>4. u.conns = [n \in 1 .. N |-> Next(t.conns[n])] /\ u.dedicated = t.dedicated \cup announced
  BY <1>3
<1>5. \A n \in 1 .. N : u.conns[n] = Next(t.conns[n])
  BY <1>4
<1>6. u.conns \in Seq(Conn) /\ Len(u.conns) = N
  <2>1. u.conns \in [1 .. N -> Conn]
    BY <1>1, <1>2, <1>4
  <2> QED
    BY <1>1, <2>1
<1>7. u \in [conns : Seq(Conn), dedicated : SUBSET Endpoints]
  BY <1>1, <1>3, <1>4, <1>6
<1>8. \A n \in 1 .. N :
        /\ u.conns[n].key = t.conns[n].key /\ u.conns[n].server = t.conns[n].server
        /\ u.conns[n].desyncAt = t.conns[n].desyncAt
        /\ u.conns[n].evidence = "handoff" <=>
             t.conns[n].evidence = "handoff" \/ t.conns[n].server \in announced
  BY <1>1, <1>2, <1>5
<1>9. TableInv(u)
  <2>1. \A m, n \in 1 .. N : t.conns[m].key = t.conns[n].key => m = n
    BY DEF TableInv, N
  <2>2. \A n \in 1 .. N :
       /\ t.conns[n].server \in {t.conns[n].key.a, t.conns[n].key.b}
       /\ t.conns[n].evidence = "handoff" <=> t.conns[n].server \in t.dedicated
    BY DEF TableInv, N
  <2>3. \A n \in 1 .. N :
       /\ u.conns[n].server \in {u.conns[n].key.a, u.conns[n].key.b}
       /\ u.conns[n].evidence = "handoff" <=> u.conns[n].server \in u.dedicated
    BY <1>4, <1>8, <2>2
  <2>4. \A m, n \in 1 .. N : u.conns[m].key = u.conns[n].key => m = n
    BY <1>8, <2>1
  <2> QED
    BY <1>6, <1>7, <2>3, <2>4 DEF TableInv
<1> QED
  BY <1>4, <1>6, <1>8, <1>9 DEF SameEnds, N

\* A desync is recorded where none was, and nothing else changes.
LEMMA MarkKeeps ==
  ASSUME NEW t, TableInv(t), NEW k, NEW ref \in Nat, NEW u, u = MarkDesync(t, k, ref)
  PROVE  /\ TableInv(u) /\ SameEnds(t, u)
         /\ u.dedicated = t.dedicated
         /\ \A n \in 1 .. Len(t.conns) :
              u.conns[n].desyncAt = IF n = k /\ t.conns[n].desyncAt = 0 THEN ref
                                    ELSE t.conns[n].desyncAt
<1> DEFINE N == Len(t.conns)
           Next(n, c) == IF n = k /\ c.desyncAt = 0 THEN [c EXCEPT !.desyncAt = ref] ELSE c
<1>1. /\ N \in Nat /\ DOMAIN t.conns = 1 .. N /\ t.dedicated \subseteq Endpoints
      /\ \A n \in 1 .. N : t.conns[n] \in Conn
      /\ t \in [conns : Seq(Conn), dedicated : SUBSET Endpoints]
  BY LookupOf DEF TableInv
<1>2. ASSUME NEW c \in Conn, NEW n
      PROVE  /\ Next(n, c) \in Conn /\ Next(n, c).key = c.key /\ Next(n, c).server = c.server
             /\ Next(n, c).desyncAt = IF n = k /\ c.desyncAt = 0 THEN ref ELSE c.desyncAt
             /\ Next(n, c).evidence = c.evidence
  <2>1. CASE n = k /\ c.desyncAt = 0
    BY <2>1 DEF Conn
  <2>2. CASE ~(n = k /\ c.desyncAt = 0)
    BY <2>2
  <2> QED
    BY <2>1, <2>2
<1>3. u = [t EXCEPT !.conns = [n \in 1 .. N |-> Next(n, t.conns[n])]]
  BY <1>1 DEF MarkDesync
<1> HIDE DEF Next, N
<1>4. u.conns = [n \in 1 .. N |-> Next(n, t.conns[n])] /\ u.dedicated = t.dedicated
  BY <1>1, <1>3
<1>5. \A n \in 1 .. N : u.conns[n] = Next(n, t.conns[n])
  BY <1>4
<1>6. u.conns \in Seq(Conn) /\ Len(u.conns) = N
  <2>1. u.conns \in [1 .. N -> Conn]
    BY <1>1, <1>2, <1>4
  <2> QED
    BY <1>1, <2>1
<1>7. u \in [conns : Seq(Conn), dedicated : SUBSET Endpoints]
  BY <1>1, <1>3, <1>4, <1>6
<1>8. \A n \in 1 .. N :
        /\ u.conns[n].key = t.conns[n].key /\ u.conns[n].server = t.conns[n].server
        /\ u.conns[n].desyncAt = IF n = k /\ t.conns[n].desyncAt = 0 THEN ref
                                 ELSE t.conns[n].desyncAt
        /\ u.conns[n].evidence = t.conns[n].evidence
  BY <1>1, <1>2, <1>5
<1>9. TableInv(u)
  <2>1. \A m, n \in 1 .. N : t.conns[m].key = t.conns[n].key => m = n
    BY DEF TableInv, N
  <2>2. \A n \in 1 .. N :
       /\ t.conns[n].server \in {t.conns[n].key.a, t.conns[n].key.b}
       /\ t.conns[n].evidence = "handoff" <=> t.conns[n].server \in t.dedicated
    BY DEF TableInv, N
  <2>3. \A n \in 1 .. N :
       /\ u.conns[n].server \in {u.conns[n].key.a, u.conns[n].key.b}
       /\ u.conns[n].evidence = "handoff" <=> u.conns[n].server \in u.dedicated
    BY <1>4, <1>8, <2>2
  <2>4. \A m, n \in 1 .. N : u.conns[m].key = u.conns[n].key => m = n
    BY <1>8, <2>1
  <2> QED
    BY <1>6, <1>7, <2>3, <2>4 DEF TableInv
<1> QED
  BY <1>4, <1>6, <1>8, <1>9 DEF SameEnds, N

-----------------------------------------------------------------------------
(* A pipeline                                                              *)

Statuses == {"decoded", "undecoded", "failed", "opcode", "unknown"}

Types ==
  UNION {{Wire[link].says[m].type : m \in DOMAIN Wire[link].sizes} : link \in TCPLinks}

Records == [link : Links, units : Seq(Int), frames : Seq(Nat), status : Statuses]

Pipeline ==
  [table : [conns : Seq(Conn), dedicated : SUBSET Endpoints],
   streams : [TCPLinks -> UNION {Stream(Wire[link]) : link \in TCPLinks}],
   began : [TCPLinks -> Nat],
   records : Seq(Records),
   observed : SUBSET [type : Types, decoded : BOOLEAN],
   novel : SUBSET Types]

\* Each unit of a record was in a frame that it cites, and each such frame
\* carried one of its units; on a stream it is an undamaged message.
Cites(r, who) ==
  /\ \A k \in 1 .. Len(r.frames) :
       \E i \in 1 .. Len(r.units) : <<r.frames[k], r.units[i]>> \in who
  /\ \A i \in 1 .. Len(r.units) :
       \E k \in 1 .. Len(r.frames) : <<r.frames[k], r.units[i]>> \in who

\* The record r is one of a message that announces e.
Tells(r, e) ==
  /\ ~r.link.udp
  /\ \E m \in DOMAIN Wire[r.link].sizes :
       /\ r.units = Run(StartOf(Wire[r.link], m), EndOf(Wire[r.link], m))
       /\ e \in Wire[r.link].says[m].announces

Recorded(records, who) ==
  \A n \in 1 .. Len(records) :
    LET r == records[n]
    IN  Cites(r, who[r.link]) /\ (~r.link.udp => Good(Wire[r.link], r, who[r.link]))

\* What holds of any pipeline between two frames; who has for each link the
\* pairs of a reference and a unit that this frame carried.
PipelineInv(p, who) ==
  /\ p \in Pipeline
  /\ TableInv(p.table)
  /\ \A link \in TCPLinks :
       /\ StreamInv(Wire[link], p.streams[link], who[link])
       /\ Idle(Wire[link], p.streams[link])
       /\ Lookup(p.table, link) = {} => p.streams[link] = NewStream
  /\ Recorded(p.records, who)
  /\ \A e : e \in p.table.dedicated <=> \E n \in 1 .. Len(p.records) : Tells(p.records[n], e)

\* What the constants say of a TCP link.
LEMMA WireOf ==
  ASSUME NEW link \in TCPLinks
  PROVE  /\ link \in Links /\ link.udp = FALSE /\ IsWire(Wire[link])
         /\ \A m \in DOMAIN Wire[link].sizes :
              /\ Wire[link].says[m].status \in Statuses
              /\ Wire[link].says[m].announces \in SUBSET Endpoints
              /\ Wire[link].says[m].type \in Types
              /\ IsSentinel(Wire[link], m) => Wire[link].says[m].announces = {}
<1>1. link \in Links /\ ~link.udp
  BY DEF TCPLinks
<1>2. link.udp = FALSE
  BY <1>1, LinkOf
<1>3. IsWire(Wire[link])
  BY DecodingAssumption DEF DecodingAssumption
<1>4. ASSUME NEW m \in DOMAIN Wire[link].sizes
      PROVE  /\ Wire[link].says[m].status \in Statuses
             /\ Wire[link].says[m].announces \in SUBSET Endpoints
             /\ IsSentinel(Wire[link], m) => Wire[link].says[m].announces = {}
  BY DecodingAssumption DEF DecodingAssumption, Statuses
<1>5. \A m \in DOMAIN Wire[link].sizes : Wire[link].says[m].type \in Types
  BY DEF Types
<1> QED
  BY <1>1, <1>2, <1>3, <1>4, <1>5

\* The message that an undamaged run of units is.
LEMMA MessageFound ==
  ASSUME NEW w, IsWire(w), NEW raw \in Seq(Units(w)), Len(raw) > 0, Intact(w, raw)
  PROVE  /\ ~Special(w, raw) =>
              /\ MessageOf(w, raw) \in DOMAIN w.sizes
              /\ raw = Run(StartOf(w, MessageOf(w, raw)), EndOf(w, MessageOf(w, raw)))
         /\ \A m \in DOMAIN w.sizes :
              raw = Run(StartOf(w, m), EndOf(w, m)) =>
                (Special(w, raw) <=> IsSentinel(w, m)) /\ m = MessageOf(w, raw)
<1>1. ASSUME NEW m \in DOMAIN w.sizes, raw = Run(StartOf(w, m), EndOf(w, m))
      PROVE  /\ raw[1] = StartOf(w, m) /\ m = MessageOf(w, raw)
             /\ Special(w, raw) <=> IsSentinel(w, m)
  <2>1. StartOf(w, m) \in Nat /\ EndOf(w, m) \in Nat /\ StartOf(w, m) <= EndOf(w, m)
        /\ w.sizes[m] \in Nat /\ w.sizes[m] >= HeaderSize
    <3>1. m \in 0 .. Len(w.sizes)
      BY WireEnds
    <3> QED
      BY <3>1, WireEnds DEF HeaderSize
  <2>2. 1 \in 1 .. EndOf(w, m) - StartOf(w, m) + 1
    BY <2>1
  <2>3. raw[1] = StartOf(w, m)
    BY <1>1, <2>1, <2>2 DEF Run
  <2>4. w.asks[raw[1]] = 0 <=> IsSentinel(w, m)
    BY <2>3 DEF IsSentinel
  <2>5. raw[1] \in Units(w)
    OBVIOUS
  <2>6. Special(w, raw) <=> IsSentinel(w, m)
    <3>1. raw[1] \in Buffered(w)
      BY <2>5 DEF Buffered
    <3> QED
      BY <2>4, <2>5, <3>1, AsksOf DEF Special
  <2>7. \A n \in DOMAIN w.sizes : StartOf(w, n) = raw[1] => n = m
    BY <2>3, MessagesApart
  <2>8. MessageOf(w, raw) = m
    BY <2>3, <2>7 DEF MessageOf
  <2> QED
    BY <2>3, <2>6, <2>8
<1>2. ASSUME ~Special(w, raw)
      PROVE  /\ MessageOf(w, raw) \in DOMAIN w.sizes
             /\ raw = Run(StartOf(w, MessageOf(w, raw)), EndOf(w, MessageOf(w, raw)))
  <2>1. PICK m \in DOMAIN w.sizes : raw = Run(StartOf(w, m), EndOf(w, m))
    BY <1>2 DEF Intact
  <2>2. m = MessageOf(w, raw)
    BY <1>1, <2>1
  <2> QED
    BY <2>1, <2>2
<1> QED
  BY <1>1, <1>2

\* One record more.
LEMMA RecordAdds ==
  ASSUME NEW records \in Seq(Records), NEW r \in Records, NEW who, Recorded(records, who),
         Cites(r, who[r.link]), ~r.link.udp => Good(Wire[r.link], r, who[r.link])
  PROVE  /\ Append(records, r) \in Seq(Records) /\ Recorded(Append(records, r), who)
         /\ \A e : (\E n \in 1 .. Len(Append(records, r)) : Tells(Append(records, r)[n], e)) <=>
              Tells(r, e) \/ \E n \in 1 .. Len(records) : Tells(records[n], e)
<1> DEFINE more == Append(records, r)
<1>1. /\ more \in Seq(Records) /\ Len(more) = Len(records) + 1 /\ more[Len(records) + 1] = r
      /\ \A n \in 1 .. Len(records) : more[n] = records[n]
      /\ Len(records) \in Nat
  OBVIOUS
<1> HIDE DEF more
<1>2. \A n \in 1 .. Len(more) : n \in 1 .. Len(records) \/ n = Len(records) + 1
  BY <1>1
<1>3. Recorded(more, who)
  <2> SUFFICES ASSUME NEW n \in 1 .. Len(more)
               PROVE  /\ Cites(more[n], who[more[n].link])
                      /\ ~more[n].link.udp => Good(Wire[more[n].link], more[n], who[more[n].link])
    BY DEF Recorded
  <2>1. CASE n \in 1 .. Len(records)
    BY <1>1, <2>1 DEF Recorded
  <2>2. CASE n = Len(records) + 1
    BY <1>1, <2>2
  <2> QED
    BY <1>2, <2>1, <2>2
<1>4. ASSUME NEW e
      PROVE  (\E n \in 1 .. Len(more) : Tells(more[n], e)) <=>
               Tells(r, e) \/ \E n \in 1 .. Len(records) : Tells(records[n], e)
  <2>1. Len(records) + 1 \in 1 .. Len(more) /\ \A n \in 1 .. Len(records) : n \in 1 .. Len(more)
    BY <1>1
  <2> QED
    BY <1>1, <1>2, <2>1
<1> QED
  BY <1>1, <1>3, <1>4 DEF more

\* What interpreting a message may change: the table's classifications, and
\* one record more.
Interprets(p, q) ==
  /\ q.streams = p.streams /\ q.began = p.began
  /\ SameEnds(p.table, q.table)
  /\ \A n \in 1 .. Len(p.table.conns) :
       q.table.conns[n].desyncAt = p.table.conns[n].desyncAt

\* Interpreting one good message leaves a good pipeline.
LEMMA InterpretKeeps ==
  ASSUME NEW who, NEW p, PipelineInv(p, who), NEW link \in TCPLinks,
         NEW message, Good(Wire[link], message, who[link])
  PROVE  PipelineInv(Interpret(p, link, message), who) /\ Interprets(p, Interpret(p, link, message))
<1> DEFINE w == Wire[link]
           raw == message.units
           say == w.says[MessageOf(w, raw)]
           q == Interpret(p, link, message)
           r == Record(link, raw, message.frames, IF Special(w, raw) THEN "decoded" ELSE say.status)
           announced == IF Special(w, raw) THEN {} ELSE say.announces
           more == Append(p.records, r)
<1>1. /\ link \in Links /\ link.udp = FALSE /\ IsWire(w)
      /\ \A m \in DOMAIN w.sizes :
           /\ w.says[m].status \in Statuses /\ w.says[m].announces \in SUBSET Endpoints
           /\ w.says[m].type \in Types
           /\ IsSentinel(w, m) => w.says[m].announces = {}
  BY WireOf
<1>2. /\ raw \in Seq(Units(w)) /\ Len(raw) > 0 /\ Intact(w, raw) /\ message.frames \in Seq(Nat)
  BY DEF Good
<1>3. p \in Pipeline /\ TableInv(p.table) /\ Recorded(p.records, who) /\ p.records \in Seq(Records)
  BY DEF PipelineInv, Pipeline
<1> HIDE DEF w, raw
<1>4. ~Special(w, raw) =>
        say.status \in Statuses /\ say.announces \in SUBSET Endpoints /\ say.type \in Types
  BY <1>1, <1>2, MessageFound
<1>5. announced \in SUBSET Endpoints
  BY <1>4
<1>6. raw \in Seq(Int)
  <2>1. Units(w) \subseteq Int
    BY <1>1, BufferedAreIntegers DEF Buffered
  <2> QED
    BY <1>2, <2>1, SeqMonotonic
<1>7. /\ r \in Records /\ r.link = link /\ r.units = raw /\ r.frames = message.frames
  <2>1. (IF Special(w, raw) THEN "decoded" ELSE say.status) \in Statuses
    BY <1>4 DEF Statuses
  <2> HIDE DEF say
  <2> QED
    BY <1>1, <1>2, <1>6, <2>1 DEF Record, Records
<1> HIDE DEF r
<1>8. Cites(r, who[r.link]) /\ (~r.link.udp => Good(Wire[r.link], r, who[r.link]))
  BY <1>7 DEF Good, Cites, raw, w
<1>9. /\ more \in Seq(Records) /\ Recorded(more, who)
      /\ \A e : (\E n \in 1 .. Len(more) : Tells(more[n], e)) <=>
           Tells(r, e) \/ \E n \in 1 .. Len(p.records) : Tells(p.records[n], e)
  BY <1>3, <1>7, <1>8, RecordAdds
<1>10. \A e : Tells(r, e) <=> e \in announced
  <2>1. ASSUME NEW e, Tells(r, e) PROVE e \in announced
    <3>1. PICK m \in DOMAIN w.sizes : raw = Run(StartOf(w, m), EndOf(w, m)) /\ e \in w.says[m].announces
      BY <1>7, <2>1 DEF Tells, w
    <3>2. ~Special(w, raw) /\ m = MessageOf(w, raw)
      <4>1. ~IsSentinel(w, m)
        BY <1>1, <3>1
      <4> QED
        BY <1>1, <1>2, <3>1, <4>1, MessageFound
    <3> QED
      BY <3>1, <3>2
  <2>2. ASSUME NEW e \in announced PROVE Tells(r, e)
    <3>1. ~Special(w, raw) /\ e \in say.announces
      BY <2>2
    <3>2. /\ MessageOf(w, raw) \in DOMAIN w.sizes
          /\ raw = Run(StartOf(w, MessageOf(w, raw)), EndOf(w, MessageOf(w, raw)))
      BY <1>1, <1>2, <3>1, MessageFound
    <3> QED
      BY <1>1, <1>7, <3>1, <3>2 DEF Tells, w
  <2> QED
    BY <2>1, <2>2
<1>11. /\ q \in Pipeline /\ q.records = more /\ q.streams = p.streams /\ q.began = p.began
       /\ TableInv(q.table) /\ SameEnds(p.table, q.table)
       /\ q.table.dedicated = p.table.dedicated \cup announced
       /\ \A n \in 1 .. Len(p.table.conns) :
            q.table.conns[n].desyncAt = p.table.conns[n].desyncAt
  <2>1. CASE Special(w, raw)
    <3>1. q = [p EXCEPT !.records = more]
      BY <2>1 DEF Interpret, r, w, raw
    <3> HIDE DEF q, more
    <3>2. q \in Pipeline /\ q.records = more /\ q.streams = p.streams /\ q.began = p.began
          /\ q.table = p.table
      BY <1>3, <1>9, <3>1 DEF Pipeline
    <3>3. SameEnds(p.table, p.table)
      BY DEF SameEnds
    <3> QED
      BY <1>3, <2>1, <3>2, <3>3
  <2>2. CASE ~Special(w, raw)
    <3> DEFINE t == AnnounceDedicated(p.table, announced)
               observed == IF say.status = "unknown" THEN p.observed
                           ELSE p.observed \cup {[type |-> say.type, decoded |-> d] :
                                                   d \in {FALSE, say.status = "decoded"}}
               novel == IF say.status \in {"opcode", "unknown"} THEN p.novel \cup {say.type} ELSE p.novel
    <3>1. q = [p EXCEPT !.table = t, !.records = more, !.observed = observed, !.novel = novel]
      BY <2>2 DEF Interpret, r, w, raw
    <3>2. say.type \in Types /\ (say.status = "decoded") \in BOOLEAN
      BY <1>4, <2>2
    <3>3. observed \in SUBSET [type : Types, decoded : BOOLEAN] /\ novel \in SUBSET Types
      <4>1. p.observed \in SUBSET [type : Types, decoded : BOOLEAN] /\ p.novel \in SUBSET Types
        BY <1>3 DEF Pipeline
      <4> HIDE DEF say
      <4>2. {[type |-> say.type, decoded |-> d] : d \in {FALSE, say.status = "decoded"}}
              \in SUBSET [type : Types, decoded : BOOLEAN]
        <5>1. \A d \in {FALSE, say.status = "decoded"} :
                [type |-> say.type, decoded |-> d] \in [type : Types, decoded : BOOLEAN]
          <6>1. \A d \in {FALSE, say.status = "decoded"} : d \in BOOLEAN
            OBVIOUS
          <6> QED
            BY <3>2, <6>1, Zenon
        <5> QED
          BY <5>1, Zenon
      <4> QED
        BY <3>2, <4>1, <4>2
    <3>4. /\ TableInv(t) /\ SameEnds(p.table, t)
          /\ t.dedicated = p.table.dedicated \cup announced
          /\ \A n \in 1 .. Len(p.table.conns) :
               t.conns[n].desyncAt = p.table.conns[n].desyncAt
      <4> HIDE DEF announced
      <4> QED
        BY <1>3, <1>5, AnnounceKeeps
    <3> HIDE DEF q, more, t, observed, novel
    <3>5. t \in [conns : Seq(Conn), dedicated : SUBSET Endpoints]
      BY <3>4 DEF TableInv
    <3>6. q \in Pipeline /\ q.records = more /\ q.streams = p.streams /\ q.began = p.began
          /\ q.table = t
      BY <1>3, <1>9, <3>1, <3>3, <3>5 DEF Pipeline
    <3> QED
      BY <3>4, <3>6
  <2> QED
    BY <2>1, <2>2
<1> HIDE DEF q, more, announced
<1>12. \A e : e \in q.table.dedicated <=> \E n \in 1 .. Len(q.records) : Tells(q.records[n], e)
  BY <1>9, <1>10, <1>11 DEF PipelineInv
<1>13. ASSUME NEW k \in TCPLinks
       PROVE  /\ StreamInv(Wire[k], q.streams[k], who[k])
              /\ Idle(Wire[k], q.streams[k])
              /\ Lookup(q.table, k) = {} => q.streams[k] = NewStream
  <2>1. Lookup(q.table, k) = Lookup(p.table, k)
    BY <1>3, <1>11, SameLookup
  <2> QED
    BY <1>11, <2>1 DEF PipelineInv
<1>14. PipelineInv(q, who)
  BY <1>9, <1>11, <1>12, <1>13 DEF PipelineInv
<1> QED
  BY <1>11, <1>14 DEF Interprets, q

\* The recursion of Interpreted up to n, as a relation.
AreInterpreted(f, p, link, messages, n) ==
  f = [k \in 0 .. n |-> IF k = 0 THEN p ELSE Interpret(f[k - 1], link, messages[k])]

\* The recursion of Interpreted has a solution.
LEMMA InterpretedExist ==
  ASSUME NEW p, NEW link, NEW messages, NEW n \in Nat
  PROVE  \E f : AreInterpreted(f, p, link, messages, n)
<1> DEFINE S == {k \in Nat : \E f : AreInterpreted(f, p, link, messages, k)}
<1>1. 0 \in S
  <2> DEFINE f == [k \in 0 .. 0 |-> p]
  <2>1. \A k \in 0 .. 0 : f[k] = IF k = 0 THEN p ELSE Interpret(f[k - 1], link, messages[k])
    OBVIOUS
  <2>2. AreInterpreted(f, p, link, messages, 0)
    BY <2>1 DEF AreInterpreted
  <2> QED
    BY <2>2
<1>2. ASSUME NEW k \in 1 .. n, k - 1 \in S PROVE k \in S
  <2>1. PICK f : AreInterpreted(f, p, link, messages, k - 1)
    BY <1>2
  <2> DEFINE g == [j \in 0 .. k |-> IF j = k THEN Interpret(f[k - 1], link, messages[k]) ELSE f[j]]
  <2>2. \A j \in 0 .. k - 1 : f[j] = IF j = 0 THEN p ELSE Interpret(f[j - 1], link, messages[j])
    BY <2>1 DEF AreInterpreted
  <2>3. \A j \in 0 .. k : g[j] = IF j = 0 THEN p ELSE Interpret(g[j - 1], link, messages[j])
    <3> TAKE j \in 0 .. k
    <3>1. CASE j = k
      <4>1. g[j] = Interpret(f[k - 1], link, messages[k]) /\ g[j - 1] = f[k - 1] /\ j # 0
        BY <1>2, <3>1
      <4> QED
        BY <3>1, <4>1
    <3>2. CASE j # k
      <4>1. j \in 0 .. k - 1 /\ g[j] = f[j] /\ (j # 0 => g[j - 1] = f[j - 1])
        BY <1>2, <3>2
      <4> QED
        BY <2>2, <4>1
    <3> QED
      BY <3>1, <3>2
  <2>4. g = [j \in 0 .. k |-> g[j]]
    OBVIOUS
  <2> HIDE DEF g
  <2>5. AreInterpreted(g, p, link, messages, k)
    BY <2>3, <2>4 DEF AreInterpreted
  <2> QED
    BY <2>5
<1> HIDE DEF S
<1>3. n \in S
  BY <1>1, <1>2, Upward
<1> QED
  BY <1>3 DEF S

\* Interpreting messages one after the other.
LEMMA InterpretedOf ==
  ASSUME NEW p, NEW link, NEW messages, Len(messages) \in Nat
  PROVE  \E f :
           /\ Interpreted(p, link, messages) = f[Len(messages)]
           /\ f[0] = p
           /\ \A k \in 1 .. Len(messages) : f[k] = Interpret(f[k - 1], link, messages[k])
<1> DEFINE n == Len(messages)
           f == CHOOSE g : AreInterpreted(g, p, link, messages, n)
<1>1. \E g : AreInterpreted(g, p, link, messages, n)
  BY InterpretedExist
<1>2. AreInterpreted(f, p, link, messages, n)
  BY <1>1
<1>3. Interpreted(p, link, messages) = f[n]
  BY DEF Interpreted, AreInterpreted
<1> HIDE DEF f
<1>4. \A k \in 0 .. n : f[k] = IF k = 0 THEN p ELSE Interpret(f[k - 1], link, messages[k])
  BY <1>2 DEF AreInterpreted
<1>5. f[0] = p
  <2>1. 0 \in 0 .. n
    OBVIOUS
  <2> QED
    BY <1>4, <2>1
<1>6. \A k \in 1 .. n : f[k] = Interpret(f[k - 1], link, messages[k])
  <2> TAKE k \in 1 .. n
  <2>1. k \in 0 .. n /\ k # 0
    OBVIOUS
  <2> QED
    BY <1>4, <2>1
<1> QED
  BY <1>3, <1>5, <1>6

\* Whatever came out of a stream, interpreting it leaves a good pipeline.
LEMMA InterpretedKeeps ==
  ASSUME NEW who, NEW p, PipelineInv(p, who), NEW link \in TCPLinks,
         NEW messages, GoodOut(Wire[link], messages, who[link])
  PROVE  /\ PipelineInv(Interpreted(p, link, messages), who)
         /\ Interprets(p, Interpreted(p, link, messages))
<1> DEFINE n == Len(messages)
<1>1. n \in Nat /\ \A k \in 1 .. n : Good(Wire[link], messages[k], who[link])
  BY DEF GoodOut
<1>2. PICK f :
        /\ Interpreted(p, link, messages) = f[n]
        /\ f[0] = p
        /\ \A k \in 1 .. n : f[k] = Interpret(f[k - 1], link, messages[k])
  BY <1>1, InterpretedOf
<1> HIDE DEF n
<1> DEFINE S == {k \in 0 .. n : PipelineInv(f[k], who) /\ Interprets(p, f[k])}
<1>3. 0 \in S
  <2>1. Interprets(p, p)
    BY DEF Interprets, SameEnds
  <2> QED
    BY <1>1, <1>2, <2>1
<1>4. ASSUME NEW k \in 1 .. n, k - 1 \in S PROVE k \in S
  <2>1. PipelineInv(f[k - 1], who) /\ Interprets(p, f[k - 1])
    BY <1>4
  <2>2. f[k] = Interpret(f[k - 1], link, messages[k]) /\ Good(Wire[link], messages[k], who[link])
    BY <1>1, <1>2
  <2>3. PipelineInv(f[k], who) /\ Interprets(f[k - 1], f[k])
    BY <2>1, <2>2, InterpretKeeps
  <2>4. Interprets(p, f[k])
    BY <2>1, <2>3 DEF Interprets, SameEnds
  <2> QED
    BY <1>1, <2>3, <2>4
<1> HIDE DEF S
<1>5. \A k \in 0 .. n : k \in S
  BY <1>1, <1>3, <1>4, Upward
<1>6. n \in S
  BY <1>1, <1>5
<1> QED
  BY <1>2, <1>6 DEF S

\* What is fed to a stream is lost for framing.
LostAt(p, q, f) ==
  /\ ~f.link.udp /\ f.from <= f.to
  /\ ~p.streams[f.link].desync
  /\ q.streams[f.link].desync \/ Beyond(Wire[f.link], p.streams[f.link], f.from)

\* What a frame does to the pipeline whose table has its connection: the
\* connection keeps its ends and remembers the frame if framing was lost; the
\* other streams stay.
Feeds(p, q, ref, f) ==
  /\ SameEnds(p.table, q.table)
  /\ \A n \in 1 .. Len(p.table.conns) :
       q.table.conns[n].desyncAt =
         IF LostAt(p, q, f) /\ n = ConnOf(p.table, f.link) /\ p.table.conns[n].desyncAt = 0
         THEN ref ELSE p.table.conns[n].desyncAt
  /\ \A link \in TCPLinks :
       /\ link # f.link \/ f.to < f.from => q.streams[link] = p.streams[link]
       /\ p.streams[link].desync => q.streams[link].desync

\* The outcome of feeding a frame to its stream, and the pipeline with the stream
\* after it.
OutcomeOf(p, ref, f) == FeedTCP(Wire[f.link], p.streams[f.link], f.from, f.to, ref)

Streamed(p, ref, f) ==
  [p EXCEPT !.streams[f.link] = OutcomeOf(p, ref, f).stream,
            !.began[f.link] = IF @ = 0 THEN f.from ELSE @]

\* A payload that can be fed to a stream of p; who has what it carries.
Payload(p, who, ref, f) ==
  /\ PipelineInv(p, who)
  /\ f \in Frames /\ f.link \in TCPLinks /\ f.from <= f.to
  /\ Lookup(p.table, f.link) # {}
  /\ ref \in Nat \ {0}
  /\ \A u \in f.from .. f.to : <<ref, u>> \in who[f.link]

\* What the stream of a payload is after it.
StreamedInv(p, who, ref, f) ==
  LET o == OutcomeOf(p, ref, f)
      q == Streamed(p, ref, f)
  IN  /\ FedInv(Wire[f.link], p.streams[f.link], f.from, o, who[f.link])
      /\ PipelineInv(q, who) /\ q.table = p.table /\ q.records = p.records
      /\ q.streams = [p.streams EXCEPT ![f.link] = o.stream]
      /\ q.began = [p.began EXCEPT ![f.link] = IF @ = 0 THEN f.from ELSE @]
      /\ q.observed = p.observed /\ q.novel = p.novel

\* A payload that is fed to its stream leaves a good pipeline.
LEMMA StreamedKeeps ==
  ASSUME NEW p, NEW who, NEW ref, NEW f, Payload(p, who, ref, f)
  PROVE  StreamedInv(p, who, ref, f)
<1> SUFFICES ASSUME NEW o, o = OutcomeOf(p, ref, f), NEW q, q = Streamed(p, ref, f)
             PROVE  /\ FedInv(Wire[f.link], p.streams[f.link], f.from, o, who[f.link])
                    /\ PipelineInv(q, who) /\ q.table = p.table /\ q.records = p.records
                    /\ q.streams = [p.streams EXCEPT ![f.link] = o.stream]
                    /\ q.began = [p.began EXCEPT ![f.link] = IF @ = 0 THEN f.from ELSE @]
                    /\ q.observed = p.observed /\ q.novel = p.novel
  BY DEF StreamedInv
<1>0. /\ PipelineInv(p, who) /\ f \in Frames /\ f.link \in TCPLinks /\ f.from <= f.to
      /\ Lookup(p.table, f.link) # {} /\ ref \in Nat
      /\ \A u \in f.from .. f.to : <<ref, u>> \in who[f.link]
  BY DEF Payload
<1> DEFINE link == f.link
           w == Wire[link]
           s == p.streams[link]
<1>1. /\ f \in [link : Links, from : Nat, to : Nat] /\ f.from .. f.to \subseteq Units(w)
      /\ link \in Links /\ link.udp = FALSE /\ IsWire(w)
  <2>1. f \in [link : Links, from : Nat, to : Nat]
    BY <1>0, DecodingAssumption DEF DecodingAssumption
  <2>2. f.link \in Links /\ f.link.udp = FALSE /\ IsWire(Wire[f.link])
    BY <1>0, WireOf
  <2>3. f.from .. f.to \subseteq Units(Wire[f.link])
    BY <1>0, <2>2, DecodingAssumption DEF DecodingAssumption
  <2> QED
    BY <2>1, <2>2, <2>3
<1>2. /\ p \in Pipeline /\ TableInv(p.table)
      /\ StreamInv(w, s, who[link]) /\ Idle(w, s)
  BY <1>0 DEF PipelineInv
<1>3. FedInv(w, s, f.from, o, who[link])
  <2>1. f.from \in Nat /\ f.to \in Nat
    BY <1>1
  <2>2. o = FeedTCP(w, s, f.from, f.to, ref)
    BY DEF OutcomeOf
  <2> HIDE DEF w, s
  <2> QED
    BY <1>0, <1>1, <1>2, <2>1, <2>2, FeedTCPKeeps
<1>4. /\ StreamInv(w, o.stream, who[link]) /\ Idle(w, o.stream) /\ o.stream \in Stream(w)
  BY <1>3 DEF FedInv, StreamInv
<1> DEFINE streams == [p.streams EXCEPT ![link] = o.stream]
           began == [p.began EXCEPT ![link] = IF @ = 0 THEN f.from ELSE @]
<1>5. /\ q \in Pipeline /\ q.table = p.table /\ q.records = p.records
      /\ q.streams = streams /\ q.began = began
      /\ q.observed = p.observed /\ q.novel = p.novel
  <2>1. /\ p.streams \in [TCPLinks -> UNION {Stream(Wire[k]) : k \in TCPLinks}]
        /\ p.began \in [TCPLinks -> Nat]
    BY <1>0, <1>2 DEF Pipeline
  <2>2. streams \in [TCPLinks -> UNION {Stream(Wire[k]) : k \in TCPLinks}]
    BY <1>0, <1>4, <2>1
  <2>3. began \in [TCPLinks -> Nat]
    BY <1>0, <1>1, <2>1
  <2>4. q = [p EXCEPT !.streams = streams, !.began = began]
    BY <1>2 DEF Pipeline, Streamed
  <2> HIDE DEF streams, began
  <2> QED
    BY <1>2, <2>2, <2>3, <2>4 DEF Pipeline
<1>6. streams[link] = o.stream /\ \A k \in TCPLinks : k # link => streams[k] = p.streams[k]
  BY <1>0, <1>2 DEF Pipeline
<1>7. PipelineInv(q, who)
  <2> HIDE DEF streams, began
  <2>1. ASSUME NEW k \in TCPLinks
        PROVE  /\ StreamInv(Wire[k], q.streams[k], who[k])
               /\ Idle(Wire[k], q.streams[k])
               /\ Lookup(q.table, k) = {} => q.streams[k] = NewStream
    <3>1. CASE k = link
      BY <1>0, <1>4, <1>5, <1>6, <3>1
    <3>2. CASE k # link
      BY <1>0, <1>5, <1>6, <3>2 DEF PipelineInv
    <3> QED
      BY <3>1, <3>2
  <2> QED
    BY <1>0, <1>5, <2>1 DEF PipelineInv
<1> QED
  BY <1>3, <1>5, <1>7

\* A payload on a TCP link leaves a good pipeline.
LEMMA FedTCPKeeps ==
  ASSUME NEW p, NEW who, NEW ref, NEW f, Payload(p, who, ref, f)
  PROVE  PipelineInv(FedTCP(p, ref, f), who) /\ Feeds(p, FedTCP(p, ref, f), ref, f)
<1> DEFINE link == f.link
           w == Wire[link]
           s == p.streams[link]
           o == OutcomeOf(p, ref, f)
           q == Streamed(p, ref, f)
           read == Interpreted(q, link, o.out)
           after == FedTCP(p, ref, f)
<1>0. /\ PipelineInv(p, who) /\ f \in Frames /\ link \in TCPLinks /\ f.from <= f.to
      /\ Lookup(p.table, link) # {} /\ ref \in Nat
      /\ \A u \in f.from .. f.to : <<ref, u>> \in who[link]
  BY DEF Payload
<1>6. StreamedInv(p, who, ref, f)
  BY StreamedKeeps
<1> HIDE DEF o, q
<1>1. f.from \in Nat /\ f.to \in Nat /\ link.udp = FALSE
  <2>1. f \in [link : Links, from : Nat, to : Nat]
    BY <1>0, DecodingAssumption DEF DecodingAssumption
  <2> QED
    BY <1>0, <2>1, WireOf
<1>2. p \in Pipeline /\ TableInv(p.table)
  BY <1>0 DEF PipelineInv
<1>3. /\ FedInv(w, s, f.from, o, who[link]) /\ PipelineInv(q, who)
      /\ q.table = p.table /\ q.records = p.records
      /\ q.streams = [p.streams EXCEPT ![link] = o.stream]
  BY <1>6 DEF StreamedInv, o, q
<1>4. GoodOut(w, o.out, who[link])
  BY <1>3 DEF FedInv
<1>5. q.streams[link] = o.stream /\ \A k \in TCPLinks : k # link => q.streams[k] = p.streams[k]
  BY <1>0, <1>2, <1>3 DEF Pipeline
<1>7. PipelineInv(read, who) /\ Interprets(q, read)
  BY <1>0, <1>3, <1>4, InterpretedKeeps
<1> HIDE DEF read
<1>8. /\ TableInv(read.table) /\ SameEnds(p.table, read.table) /\ read.streams = q.streams
      /\ \A n \in 1 .. Len(p.table.conns) :
           read.table.conns[n].desyncAt = p.table.conns[n].desyncAt
      /\ ConnOf(read.table, link) = ConnOf(p.table, link)
  <2>1. /\ TableInv(read.table) /\ SameEnds(p.table, read.table) /\ read.streams = q.streams
        /\ \A n \in 1 .. Len(p.table.conns) :
             read.table.conns[n].desyncAt = p.table.conns[n].desyncAt
    BY <1>3, <1>7 DEF Interprets, PipelineInv
  <2> QED
    BY <1>2, <2>1, SameLookup
<1>9. after = IF o.lost THEN [read EXCEPT !.table = MarkDesync(@, ConnOf(@, link), ref)] ELSE read
  BY DEF FedTCP, Streamed, OutcomeOf, read, q, o
<1> DEFINE t == MarkDesync(read.table, ConnOf(read.table, link), ref)
<1>10. /\ TableInv(t) /\ SameEnds(read.table, t) /\ t.dedicated = read.table.dedicated
       /\ \A n \in 1 .. Len(read.table.conns) :
            t.conns[n].desyncAt =
              IF n = ConnOf(read.table, link) /\ read.table.conns[n].desyncAt = 0
              THEN ref ELSE read.table.conns[n].desyncAt
  BY <1>0, <1>8, MarkKeeps
<1> HIDE DEF t, after
<1>11. /\ PipelineInv(after, who) /\ after.streams = q.streams
       /\ SameEnds(p.table, after.table)
       /\ \A n \in 1 .. Len(p.table.conns) :
            after.table.conns[n].desyncAt =
              IF o.lost /\ n = ConnOf(p.table, link) /\ p.table.conns[n].desyncAt = 0
              THEN ref ELSE p.table.conns[n].desyncAt
  <2>1. CASE ~o.lost
    <3>1. after = read
      BY <1>9, <2>1
    <3> QED
      BY <1>7, <1>8, <2>1, <3>1
  <2>2. CASE o.lost
    <3>1. after = [read EXCEPT !.table = t]
      BY <1>9, <2>2 DEF t
    <3>2. read \in Pipeline /\ t \in [conns : Seq(Conn), dedicated : SUBSET Endpoints]
      BY <1>7, <1>10 DEF PipelineInv, TableInv
    <3>3. /\ after \in Pipeline /\ after.table = t /\ after.streams = read.streams
          /\ after.records = read.records
      BY <3>1, <3>2 DEF Pipeline
    <3>4. ASSUME NEW k \in TCPLinks PROVE Lookup(t, k) = Lookup(read.table, k)
      BY <1>8, <1>10, SameLookup
    <3>5. PipelineInv(after, who)
      <4>1. \A k \in TCPLinks :
              /\ StreamInv(Wire[k], after.streams[k], who[k])
              /\ Idle(Wire[k], after.streams[k])
              /\ Lookup(after.table, k) = {} => after.streams[k] = NewStream
        BY <1>7, <3>3, <3>4 DEF PipelineInv
      <4> QED
        BY <1>7, <1>10, <3>3, <4>1 DEF PipelineInv
    <3>6. SameEnds(p.table, after.table)
      BY <1>8, <1>10, <3>3 DEF SameEnds
    <3>7. Len(read.table.conns) = Len(p.table.conns)
      BY <1>8 DEF SameEnds
    <3> QED
      BY <1>8, <1>10, <2>2, <3>3, <3>5, <3>6, <3>7
  <2> QED
    BY <2>1, <2>2
<1>12. o.lost <=> LostAt(p, after, f)
  BY <1>0, <1>1, <1>3, <1>5, <1>11 DEF FedInv, LostAt
<1>13. ASSUME NEW k \in TCPLinks
       PROVE  /\ k # link \/ f.to < f.from => after.streams[k] = p.streams[k]
              /\ p.streams[k].desync => after.streams[k].desync
  <2>1. k # link => after.streams[k] = p.streams[k]
    BY <1>5, <1>11
  <2>2. ~(f.to < f.from)
    BY <1>0, <1>1
  <2>3. k = link => (p.streams[k].desync => after.streams[k].desync)
    BY <1>3, <1>5, <1>11 DEF FedInv
  <2> QED
    BY <2>1, <2>2, <2>3
<1>14. Feeds(p, after, ref, f)
  BY <1>11, <1>12, <1>13 DEF Feeds
<1> QED
  BY <1>11, <1>14 DEF after

\* A datagram is a record of its own that cites its frame.
LEMMA FedUDPKeeps ==
  ASSUME NEW who, NEW p, PipelineInv(p, who), NEW f \in Frames, f.link \notin TCPLinks,
         f.from <= f.to, NEW ref \in Nat, \A u \in f.from .. f.to : <<ref, u>> \in who[f.link]
  PROVE  PipelineInv(FedUDP(p, ref, f), who) /\ Feeds(p, FedUDP(p, ref, f), ref, f)
<1> DEFINE r == Record(f.link, Run(f.from, f.to), <<ref>>, "undecoded")
           more == Append(p.records, r)
           q == FedUDP(p, ref, f)
<1>1. f \in [link : Links, from : Nat, to : Nat]
  BY DecodingAssumption DEF DecodingAssumption
<1>2. f.link \in Links /\ f.from \in Nat /\ f.to \in Nat /\ f.link.udp = TRUE
  BY <1>1, LinkOf DEF TCPLinks
<1>3. p \in Pipeline /\ TableInv(p.table) /\ Recorded(p.records, who) /\ p.records \in Seq(Records)
  BY DEF PipelineInv, Pipeline
<1>4. /\ Run(f.from, f.to) \in Seq(Int) /\ Len(Run(f.from, f.to)) = f.to - f.from + 1
      /\ \A i \in 1 .. f.to - f.from + 1 : Run(f.from, f.to)[i] = f.from + i - 1
  <2>1. f.to - f.from + 1 \in Nat
    BY <1>2
  <2> QED
    BY <1>2, <2>1 DEF Run
<1>5. /\ r \in Records /\ r.link = f.link /\ r.units = Run(f.from, f.to) /\ r.frames = <<ref>>
  BY <1>2, <1>4 DEF Record, Records, Statuses
<1>6. Cites(r, who[r.link])
  <2>1. ASSUME NEW i \in 1 .. Len(r.units) PROVE r.units[i] \in f.from .. f.to
    <3>1. i \in 1 .. f.to - f.from + 1 /\ r.units[i] = f.from + i - 1
      BY <1>4, <1>5
    <3> QED
      BY <1>2, <3>1
  <2>2. Len(r.frames) = 1 /\ r.frames[1] = ref
    BY <1>5
  <2>3. \A i \in 1 .. Len(r.units) : <<r.frames[1], r.units[i]>> \in who[r.link]
    BY <1>5, <2>1, <2>2
  <2>5. Len(r.units) = f.to - f.from + 1
    BY <1>4, <1>5
  <2> HIDE DEF r
  <2>4. 1 \in 1 .. Len(r.frames) /\ \A k \in 1 .. Len(r.frames) : k = 1
    BY <2>2
  <2>6. 1 \in 1 .. Len(r.units)
    BY <1>2, <2>5
  <2> QED
    BY <2>3, <2>4, <2>6 DEF Cites
<1>7. \A e : ~Tells(r, e)
  BY <1>2, <1>5 DEF Tells
<1>8. q = [p EXCEPT !.records = more]
  BY DEF FedUDP
<1> HIDE DEF r
<1>9. /\ more \in Seq(Records) /\ Recorded(more, who)
      /\ \A e : (\E n \in 1 .. Len(more) : Tells(more[n], e)) <=>
           Tells(r, e) \/ \E n \in 1 .. Len(p.records) : Tells(p.records[n], e)
  BY <1>2, <1>3, <1>5, <1>6, RecordAdds
<1> HIDE DEF more, q
<1>10. /\ q \in Pipeline /\ q.table = p.table /\ q.streams = p.streams /\ q.records = more
  BY <1>3, <1>8, <1>9 DEF Pipeline
<1>11. PipelineInv(q, who)
  BY <1>7, <1>9, <1>10 DEF PipelineInv
<1>12. Feeds(p, q, ref, f)
  BY <1>2, <1>10 DEF Feeds, SameEnds, LostAt
<1> QED
  BY <1>11, <1>12 DEF q

\* A pipeline that has found or made the connection of a frame.
Observing(p, link) == [p EXCEPT !.table = Observe(@, link)]

\* Observing a connection leaves a good pipeline.
LEMMA ObservingKeeps ==
  ASSUME NEW who, NEW p, PipelineInv(p, who), NEW link \in Links, NEW q, q = Observing(p, link)
  PROVE  /\ PipelineInv(q, who) /\ q.table = Observe(p.table, link)
         /\ q.streams = p.streams
<1>1. p \in Pipeline /\ TableInv(p.table)
  BY DEF PipelineInv
<1> DEFINE t == Observe(p.table, link)
<1>2. /\ TableInv(t) /\ t.dedicated = p.table.dedicated
      /\ Len(t.conns) >= Len(p.table.conns)
      /\ \A n \in 1 .. Len(p.table.conns) : t.conns[n] = p.table.conns[n]
  BY <1>1, ObserveKeeps
<1>3. q = [p EXCEPT !.table = t]
  BY DEF Observing
<1> HIDE DEF t
<1>4. t \in [conns : Seq(Conn), dedicated : SUBSET Endpoints]
  BY <1>2 DEF TableInv
<1>5. q \in Pipeline /\ q.table = t /\ q.streams = p.streams /\ q.records = p.records
  BY <1>1, <1>3, <1>4 DEF Pipeline
<1>6. ASSUME NEW k \in TCPLinks, Lookup(t, k) = {} PROVE Lookup(p.table, k) = {}
  <2>1. Len(t.conns) \in Nat /\ Len(p.table.conns) \in Nat
    BY <1>1, <1>2, LookupOf
  <2>2. /\ Lookup(t, k) = {n \in 1 .. Len(t.conns) : t.conns[n].key = KeyOf(k)}
        /\ Lookup(p.table, k) =
             {n \in 1 .. Len(p.table.conns) : p.table.conns[n].key = KeyOf(k)}
    BY <1>1, <1>2, LookupOf
  <2> QED
    BY <1>2, <1>6, <2>1, <2>2
<1>7. PipelineInv(q, who)
  BY <1>2, <1>5, <1>6 DEF PipelineInv
<1> QED
  BY <1>5, <1>7 DEF t

\* A frame leaves a good pipeline, if who has what it carried.
LEMMA FeedKeeps ==
  ASSUME NEW who, NEW p, PipelineInv(p, who), NEW f \in Frames, NEW ref \in Nat \ {0},
         \A u \in f.from .. f.to : <<ref, u>> \in who[f.link]
  PROVE  /\ PipelineInv(Feed(p, ref, f), who)
         /\ Feeds(Observing(p, f.link), Feed(p, ref, f), ref, f)
<1> DEFINE q == Observing(p, f.link)
<1>1. f.link \in Links /\ f.from \in Nat /\ f.to \in Nat
  <2>1. f \in [link : Links, from : Nat, to : Nat]
    BY DecodingAssumption DEF DecodingAssumption
  <2> QED
    BY <2>1
<1>2. PipelineInv(q, who) /\ q.table = Observe(p.table, f.link)
  BY <1>1, ObservingKeeps
<1>3. Lookup(q.table, f.link) # {}
  <2>1. Lookup(Observe(p.table, f.link), f.link) = {ConnOf(Observe(p.table, f.link), f.link)}
    BY <1>1, ObserveKeeps DEF PipelineInv
  <2> QED
    BY <1>2, <2>1
<1>4. f.link.udp <=> f.link \notin TCPLinks
  BY <1>1 DEF TCPLinks
<1>5. Feed(p, ref, f) = IF f.to < f.from THEN q
                        ELSE IF f.link.udp THEN FedUDP(q, ref, f) ELSE FedTCP(q, ref, f)
  BY DEF Feed, Observing
<1> HIDE DEF q
<1>6. CASE f.to < f.from
  <2>1. ~LostAt(q, q, f)
    BY <1>1, <1>6 DEF LostAt
  <2>2. Feeds(q, q, ref, f)
    BY <1>6, <2>1 DEF Feeds, SameEnds
  <2> QED
    BY <1>2, <1>5, <1>6, <2>2 DEF q
<1>7. CASE ~(f.to < f.from) /\ f.link.udp
  <2>1. f.from <= f.to
    BY <1>1, <1>7
  <2>2. PipelineInv(FedUDP(q, ref, f), who) /\ Feeds(q, FedUDP(q, ref, f), ref, f)
    BY <1>2, <1>4, <1>7, <2>1, FedUDPKeeps
  <2> QED
    BY <1>5, <1>7, <2>2 DEF q
<1>8. CASE ~(f.to < f.from) /\ ~f.link.udp
  <2>1. f.from <= f.to
    BY <1>1, <1>8
  <2>2. PipelineInv(FedTCP(q, ref, f), who) /\ Feeds(q, FedTCP(q, ref, f), ref, f)
    <3>1. Payload(q, who, ref, f)
      BY <1>2, <1>3, <1>4, <1>8, <2>1 DEF Payload
    <3> QED
      BY <3>1, FedTCPKeeps
  <2> QED
    BY <1>5, <1>8, <2>2 DEF q
<1> QED
  BY <1>6, <1>7, <1>8

\* What was carried was carried also when more has been.
LEMMA MoreCarried ==
  ASSUME NEW who, NEW more, \A link \in Links : who[link] \subseteq more[link],
         NEW p, PipelineInv(p, who)
  PROVE  PipelineInv(p, more)
<1>1. p \in Pipeline /\ p.records \in Seq(Records)
  BY DEF PipelineInv, Pipeline
<1>2. ASSUME NEW link \in TCPLinks PROVE StreamInv(Wire[link], p.streams[link], more[link])
  <2>1. link \in Links /\ who[link] \subseteq more[link]
    BY WireOf
  <2>2. StreamInv(Wire[link], p.streams[link], who[link])
    BY DEF PipelineInv
  <2>3. Clean(Wire[link], p.streams[link], who[link]) =>
          Clean(Wire[link], p.streams[link], more[link])
    BY <2>1 DEF Clean
  <2> QED
    BY <2>2, <2>3 DEF StreamInv
<1>3. ASSUME NEW n \in 1 .. Len(p.records)
      PROVE  /\ Cites(p.records[n], more[p.records[n].link])
             /\ ~p.records[n].link.udp =>
                  Good(Wire[p.records[n].link], p.records[n], more[p.records[n].link])
  <2> DEFINE r == p.records[n]
  <2>1. r \in Records
    BY <1>1
  <2>2. r.link \in Links
    BY <2>1 DEF Records
  <2>3. Cites(r, who[r.link]) /\ (~r.link.udp => Good(Wire[r.link], r, who[r.link]))
    BY DEF PipelineInv, Recorded
  <2>4. who[r.link] \subseteq more[r.link]
    BY <2>2
  <2> HIDE DEF r
  <2>5. Cites(r, more[r.link])
    BY <2>3, <2>4 DEF Cites
  <2>6. ~r.link.udp => Good(Wire[r.link], r, more[r.link])
    BY <2>3, <2>4 DEF Good
  <2> QED
    BY <2>5, <2>6 DEF r
<1> QED
  BY <1>2, <1>3 DEF PipelineInv, Recorded

-----------------------------------------------------------------------------
(* The invariant                                                           *)

\* Which frames carried which units of a link, of those that were decoded.
WhoOf(frames, missed) ==
  [link \in Links |->
     {c \in ((1 .. Len(frames)) \ missed) \X Nat :
        frames[c[1]].link = link /\ frames[c[1]].from <= c[2] /\ c[2] <= frames[c[1]].to}]

\* The stream of a link stopped or met a gap.
Off(p, gaps, link) == p.streams[link].desync \/ gaps[link] # -1

\* A connection names a frame exactly if one of its streams is off.
MarkedOff(p, gaps) ==
  /\ \A n \in 1 .. Len(p.table.conns) :
       p.table.conns[n].desyncAt # 0 <=>
         \E link \in TCPLinks : n \in Lookup(p.table, link) /\ Off(p, gaps, link)
  /\ \A link \in TCPLinks : Lookup(p.table, link) = {} => gaps[link] = -1

\* Observe reported the connection of the link, and the end that is its server.
SeenInv(S, t) ==
  \A o \in S :
    /\ o.link \in Links /\ o.conn \in 1 .. Len(t.conns)
    /\ t.conns[o.conn].key = KeyOf(o.link)
    /\ o.dir = DirOf(t.conns[o.conn], o.link.dst)

DecodingInv ==
  /\ journal \in Seq(Frames) /\ dropped \subseteq 1 .. Len(journal)
  /\ gapAt \in [TCPLinks -> Int]
  /\ PipelineInv(live, WhoOf(journal, dropped))
  /\ SeenInv(seen, live.table)
  /\ MarkedOff(live, gapAt)

\* A new pipeline is good.
LEMMA NewIsGood ==
  ASSUME NEW who, NEW p, p = NewPipeline
  PROVE  PipelineInv(p, who)
<1>2. /\ p.table = NewTable /\ p.records = <<>> /\ p.observed = {} /\ p.novel = {}
      /\ p.streams = [link \in TCPLinks |-> NewStream]
      /\ p.began = [link \in TCPLinks |-> 0]
      /\ p = [table |-> p.table, streams |-> p.streams, began |-> p.began,
              records |-> p.records, observed |-> p.observed, novel |-> p.novel]
  BY DEF NewPipeline
<1>3. /\ NewTable \in [conns : Seq(Conn), dedicated : SUBSET Endpoints]
      /\ NewTable.conns = <<>> /\ NewTable.dedicated = {} /\ Len(NewTable.conns) = 0
  BY DEF NewTable
<1>4. TableInv(NewTable)
  BY <1>3 DEF TableInv
<1>5. ASSUME NEW link \in TCPLinks
      PROVE  /\ NewStream \in Stream(Wire[link])
             /\ StreamInv(Wire[link], NewStream, who[link]) /\ Idle(Wire[link], NewStream)
  <2>1. IsWire(Wire[link])
    BY WireOf
  <2>2. NewStream \in Stream(Wire[link])
    BY ModulusAssumption DEF NewStream, Stream
  <2>3. Len(NewStream.buf) = 0 /\ NewStream.buf = <<>> /\ NewStream.ledger = <<>>
        /\ Len(NewStream.ledger) = 0
    BY DEF NewStream
  <2>4. Covered(NewStream.ledger, Len(NewStream.ledger)) = 0
    <3>1. <<>> \in Seq(Entry)
      OBVIOUS
    <3> QED
      BY <2>3, <3>1, CoveredOf
  <2>5. Clean(Wire[link], NewStream, who[link])
    <3>1. NewStream.buf \in Seq(Units(Wire[link]))
      BY <2>3
    <3> QED
      BY <2>3, <2>4, <3>1 DEF Clean
  <2>6. Complete(Wire[link], NewStream.buf) = 0
    BY <2>3 DEF Complete, HeaderSize
  <2> QED
    BY <2>2, <2>5, <2>6 DEF StreamInv, Idle
<1>6. p \in Pipeline
  <2>1. p.streams \in [TCPLinks -> UNION {Stream(Wire[link]) : link \in TCPLinks}]
    BY <1>2, <1>5
  <2>2. p.began \in [TCPLinks -> Nat]
    BY <1>2
  <2> QED
    BY <1>2, <1>3, <2>1, <2>2 DEF Pipeline
<1>7. PipelineInv(p, who)
  <2>1. Recorded(p.records, who) /\ ~\E n \in 1 .. Len(p.records) : TRUE
    BY <1>2 DEF Recorded
  <2>2. \A link \in TCPLinks : p.streams[link] = NewStream
    BY <1>2
  <2> QED
    BY <1>2, <1>3, <1>4, <1>5, <1>6, <2>1, <2>2 DEF PipelineInv
<1> QED
  BY <1>7

\* The invariant holds before the first frame.
LEMMA StartsGood ==
  DecodingInit => DecodingInv
<1> SUFFICES ASSUME DecodingInit PROVE DecodingInv
  OBVIOUS
<1>1. /\ journal = <<>> /\ dropped = {} /\ live = NewPipeline /\ seen = {}
      /\ gapAt = [link \in TCPLinks |-> -1]
  BY DEF DecodingInit
<1>2. PipelineInv(live, WhoOf(journal, dropped))
  BY <1>1, NewIsGood
<1>3. MarkedOff(live, gapAt)
  <2>1. Len(live.table.conns) = 0
    BY <1>1 DEF NewPipeline, NewTable
  <2> QED
    BY <1>1, <2>1 DEF MarkedOff
<1>4. SeenInv(seen, live.table)
  BY <1>1 DEF SeenInv
<1>5. gapAt \in [TCPLinks -> Int]
  BY <1>1
<1>6. journal \in Seq(Frames) /\ dropped \subseteq 1 .. Len(journal)
  BY <1>1
<1> QED
  BY <1>2, <1>3, <1>4, <1>5, <1>6 DEF DecodingInv

\* A frame more, which is decoded if `missed` stays.
LEMMA WhoGrows ==
  ASSUME NEW frames \in Seq(Frames), NEW missed, missed \subseteq 1 .. Len(frames),
         NEW f \in Frames, NEW missed2, missed2 \in {missed, missed \cup {Len(frames) + 1}}
  PROVE  LET was == WhoOf(frames, missed)
             is == WhoOf(Append(frames, f), missed2)
         IN  /\ \A link \in Links : was[link] \subseteq is[link]
             /\ missed2 = missed =>
                  \A u \in f.from .. f.to : <<Len(frames) + 1, u>> \in is[f.link]
<1> DEFINE more == Append(frames, f)
           was == WhoOf(frames, missed)
           is == WhoOf(more, missed2)
<1>1. /\ Len(frames) \in Nat /\ Len(more) = Len(frames) + 1 /\ more[Len(frames) + 1] = f
      /\ \A n \in 1 .. Len(frames) : more[n] = frames[n]
  OBVIOUS
<1>2. f.link \in Links /\ f.from \in Nat /\ f.to \in Nat
  <2>1. f \in [link : Links, from : Nat, to : Nat]
    BY DecodingAssumption DEF DecodingAssumption
  <2> QED
    BY <2>1
<1> HIDE DEF more
<1>3. ASSUME NEW link \in Links, NEW c \in was[link] PROVE c \in is[link]
  <2>1. /\ c \in ((1 .. Len(frames)) \ missed) \X Nat
        /\ frames[c[1]].link = link /\ frames[c[1]].from <= c[2] /\ c[2] <= frames[c[1]].to
    BY <1>3 DEF WhoOf
  <2>2. c[1] \in 1 .. Len(frames) /\ c[1] \notin missed /\ c[2] \in Nat /\ c = <<c[1], c[2]>>
    BY <2>1
  <2>3. c[1] \in (1 .. Len(more)) \ missed2 /\ more[c[1]] = frames[c[1]]
    BY <1>1, <2>2
  <2>4. c \in ((1 .. Len(more)) \ missed2) \X Nat
    BY <2>2, <2>3
  <2> QED
    BY <2>1, <2>3, <2>4 DEF WhoOf
<1>4. ASSUME missed2 = missed, NEW u \in f.from .. f.to
      PROVE  <<Len(frames) + 1, u>> \in is[f.link]
  <2>1. Len(frames) + 1 \in (1 .. Len(more)) \ missed2 /\ u \in Nat
    BY <1>1, <1>2, <1>4
  <2> QED
    BY <1>1, <1>2, <2>1 DEF WhoOf
<1> QED
  BY <1>3, <1>4 DEF more

\* What a decoded frame does to the marks.
LEMMA MarksFollow ==
  ASSUME NEW who, NEW p, PipelineInv(p, who), NEW gaps \in [TCPLinks -> Int],
         MarkedOff(p, gaps), NEW f \in Frames, NEW ref \in Nat \ {0}, NEW q,
         TableInv(q.table), Feeds(Observing(p, f.link), q, ref, f),
         NEW gaps2, NEW n0 \in Nat,
         gaps2 = IF ~f.link.udp /\ f.from <= f.to
                 THEN [gaps EXCEPT ![f.link] = IF @ = -1 /\ IsGap(p.streams[f.link], f) THEN n0 ELSE @]
                 ELSE gaps
  PROVE  MarkedOff(q, gaps2) /\ gaps2 \in [TCPLinks -> Int]
<1> DEFINE o == Observing(p, f.link)
           t == o.table
           lost == LostAt(o, q, f)
<1>1. /\ f.link \in Links /\ f.from \in Nat /\ f.to \in Nat /\ f.link.udp \in BOOLEAN
      /\ f.link.udp <=> f.link \notin TCPLinks
  <2>1. f \in [link : Links, from : Nat, to : Nat]
    BY DecodingAssumption DEF DecodingAssumption
  <2> QED
    BY <2>1, LinkOf DEF TCPLinks
<1>2. /\ PipelineInv(o, who) /\ t = Observe(p.table, f.link) /\ o.streams = p.streams
      /\ TableInv(t) /\ TableInv(p.table)
  <2>1. PipelineInv(o, who) /\ o.table = Observe(p.table, f.link) /\ o.streams = p.streams
    BY <1>1, ObservingKeeps
  <2> HIDE DEF o
  <2> QED
    BY <2>1 DEF PipelineInv
<1>3. /\ Len(t.conns) >= Len(p.table.conns)
      /\ \A n \in 1 .. Len(p.table.conns) : t.conns[n] = p.table.conns[n]
      /\ \A n \in 1 .. Len(t.conns) : n > Len(p.table.conns) => t.conns[n].desyncAt = 0
      /\ Lookup(t, f.link) = {ConnOf(t, f.link)} /\ ConnOf(t, f.link) \in 1 .. Len(t.conns)
  <2> DEFINE u == Observe(p.table, f.link)
  <2>1. /\ Len(u.conns) >= Len(p.table.conns)
        /\ \A n \in 1 .. Len(p.table.conns) : u.conns[n] = p.table.conns[n]
        /\ \A n \in 1 .. Len(u.conns) : n > Len(p.table.conns) => u.conns[n].desyncAt = 0
        /\ Lookup(u, f.link) = {ConnOf(u, f.link)} /\ ConnOf(u, f.link) \in 1 .. Len(u.conns)
    <3>1. TableInv(p.table) /\ f.link \in Links
      BY <1>1, <1>2
    <3> QED
      BY <3>1, ObserveKeeps
  <2> HIDE DEF o, u
  <2>2. t = u
    BY <1>2 DEF u
  <2> QED
    BY <2>1, <2>2
<1>4. /\ SameEnds(t, q.table)
      /\ \A n \in 1 .. Len(t.conns) :
           q.table.conns[n].desyncAt =
             IF lost /\ n = ConnOf(t, f.link) /\ t.conns[n].desyncAt = 0
             THEN ref ELSE t.conns[n].desyncAt
      /\ \A link \in TCPLinks :
           /\ link # f.link \/ f.to < f.from => q.streams[link] = p.streams[link]
           /\ p.streams[link].desync => q.streams[link].desync
  BY <1>2 DEF Feeds
<1>5. lost <=> /\ ~f.link.udp /\ f.from <= f.to
               /\ ~p.streams[f.link].desync
               /\ q.streams[f.link].desync \/ Beyond(Wire[f.link], p.streams[f.link], f.from)
  BY <1>2 DEF LostAt
<1> HIDE DEF lost, o
<1>6. gaps2 \in [TCPLinks -> Int]
  BY <1>1
<1>7. \A k \in TCPLinks :
        gaps2[k] = IF k = f.link /\ f.from <= f.to /\ gaps[k] = -1 /\ IsGap(p.streams[k], f)
                   THEN n0 ELSE gaps[k]
  BY <1>1
<1>8. ASSUME NEW k \in TCPLinks
      PROVE  Off(q, gaps2, k) <=> Off(p, gaps, k) \/ (k = f.link /\ lost)
  <2>1. p.streams[k].desync \in BOOLEAN
    BY <1>2 DEF PipelineInv, StreamInv, Stream
  <2>2. CASE k # f.link
    <3>1. q.streams[k] = p.streams[k] /\ gaps2[k] = gaps[k]
      BY <1>4, <1>7, <2>2
    <3> QED
      BY <2>2, <3>1 DEF Off
  <2>3. CASE k = f.link /\ f.to < f.from
    <3>1. q.streams[k] = p.streams[k] /\ gaps2[k] = gaps[k] /\ ~lost
      BY <1>1, <1>4, <1>5, <1>7, <2>3
    <3> QED
      BY <3>1 DEF Off
  <2>4. CASE k = f.link /\ ~(f.to < f.from)
    <3>1. f.from <= f.to /\ ~f.link.udp
      BY <1>1, <2>4
    <3>2. IsGap(p.streams[k], f) <=> Beyond(Wire[k], p.streams[k], f.from)
      BY <2>4, Zenon DEF IsGap, Beyond
    <3>3. gaps2[k] # -1 <=> gaps[k] # -1 \/ Beyond(Wire[k], p.streams[k], f.from)
      BY <1>7, <2>4, <3>1, <3>2
    <3>4. p.streams[k].desync => ~Beyond(Wire[k], p.streams[k], f.from)
      BY DEF Beyond
    <3>5. p.streams[k].desync => q.streams[k].desync
      BY <1>4
    <3>6. lost <=> /\ ~p.streams[k].desync
                   /\ q.streams[k].desync \/ Beyond(Wire[k], p.streams[k], f.from)
      BY <1>5, <2>4, <3>1
    <3> QED
      BY <2>4, <3>3, <3>4, <3>5, <3>6, Zenon DEF Off
  <2> QED
    BY <2>2, <2>3, <2>4
<1>9. ASSUME NEW k \in TCPLinks
      PROVE  /\ Lookup(q.table, k) = Lookup(t, k)
             /\ Lookup(t, k) = {n \in 1 .. Len(t.conns) : t.conns[n].key = KeyOf(k)}
             /\ Lookup(p.table, k) =
                  {n \in 1 .. Len(p.table.conns) : p.table.conns[n].key = KeyOf(k)}
  BY <1>2, <1>4, SameLookup, LookupOf
<1>10. Len(t.conns) \in Nat /\ Len(p.table.conns) \in Nat /\ Len(q.table.conns) = Len(t.conns)
  BY <1>2, <1>4, LookupOf DEF SameEnds
<1>11. ASSUME NEW k \in TCPLinks, Lookup(p.table, k) = {} PROVE ~Off(p, gaps, k)
  <2>1. p.streams[k] = NewStream /\ gaps[k] = -1
    BY <1>11 DEF PipelineInv, MarkedOff
  <2> QED
    BY <2>1 DEF NewStream, Off
<1>12. ASSUME NEW n \in 1 .. Len(t.conns)
       PROVE  t.conns[n].desyncAt # 0 <=> \E k \in TCPLinks : n \in Lookup(t, k) /\ Off(p, gaps, k)
  <2>1. CASE n \in 1 .. Len(p.table.conns)
    <3>1. ASSUME NEW k \in TCPLinks PROVE n \in Lookup(t, k) <=> n \in Lookup(p.table, k)
      <4>1. t.conns[n] = p.table.conns[n]
        BY <1>3, <2>1
      <4>2. n \in Lookup(t, k) <=> t.conns[n].key = KeyOf(k)
        BY <1>9, Zenon
      <4>3. n \in Lookup(p.table, k) <=> p.table.conns[n].key = KeyOf(k)
        BY <1>9, <2>1, Zenon
      <4> QED
        BY <4>1, <4>2, <4>3, Zenon
    <3> QED
      BY <1>3, <2>1, <3>1 DEF MarkedOff
  <2>2. CASE n \notin 1 .. Len(p.table.conns)
    <3>1. n > Len(p.table.conns) /\ t.conns[n].desyncAt = 0
      BY <1>3, <1>10, <2>2
    <3>2. ASSUME NEW k \in TCPLinks, n \in Lookup(t, k) PROVE ~Off(p, gaps, k)
      <4>1. Lookup(p.table, k) = {}
        <5>1. t.conns[n].key = KeyOf(k)
          BY <1>9, <3>2
        <5>2. ASSUME NEW m \in 1 .. Len(p.table.conns), p.table.conns[m].key = KeyOf(k)
              PROVE  FALSE
          <6>1. m \in 1 .. Len(t.conns) /\ t.conns[m].key = KeyOf(k)
            <7>1. m \in 1 .. Len(t.conns)
              BY <1>3, <1>10
            <7> QED
              BY <1>3, <5>2, <7>1
          <6>2. m = n
            BY <1>2, <5>1, <6>1, KeysApart
          <6> QED
            BY <2>2, <6>2
        <5> QED
          BY <1>9, <5>2
      <4> QED
        BY <1>11, <4>1
    <3> QED
      BY <3>1, <3>2
  <2> QED
    BY <2>1, <2>2
<1>13. ASSUME NEW n \in 1 .. Len(q.table.conns)
       PROVE  q.table.conns[n].desyncAt # 0 <=>
                \E k \in TCPLinks : n \in Lookup(q.table, k) /\ Off(q, gaps2, k)
  <2>1. n \in 1 .. Len(t.conns)
    BY <1>10
  <2>2. q.table.conns[n].desyncAt # 0 <=> t.conns[n].desyncAt # 0 \/ (lost /\ n = ConnOf(t, f.link))
    BY <1>4, <2>1
  <2>3. lost => f.link \in TCPLinks
    BY <1>1, <1>5
  <2>4. n = ConnOf(t, f.link) <=> n \in Lookup(t, f.link)
    BY <1>3
  <2>5. ASSUME NEW k \in TCPLinks
        PROVE  n \in Lookup(q.table, k) /\ Off(q, gaps2, k) <=>
                 \/ n \in Lookup(t, k) /\ Off(p, gaps, k)
                 \/ n \in Lookup(t, k) /\ k = f.link /\ lost
    <3>1. Lookup(q.table, k) = Lookup(t, k)
      BY <1>9
    <3>2. Off(q, gaps2, k) <=> Off(p, gaps, k) \/ (k = f.link /\ lost)
      BY <1>8
    <3> QED
      BY ONLY <3>1, <3>2
  <2>6. t.conns[n].desyncAt # 0 <=> \E k \in TCPLinks : n \in Lookup(t, k) /\ Off(p, gaps, k)
    BY <1>12, <2>1
  <2>7. lost /\ n = ConnOf(t, f.link) <=>
          \E k \in TCPLinks : n \in Lookup(t, k) /\ k = f.link /\ lost
    BY ONLY <2>3, <2>4
  <2> QED
    BY ONLY <2>2, <2>5, <2>6, <2>7
<1>14. ASSUME NEW k \in TCPLinks, Lookup(q.table, k) = {} PROVE gaps2[k] = -1
  <2>1. Lookup(t, k) = {} /\ k # f.link
    <3>1. Lookup(t, k) = {}
      BY <1>9, <1>14
    <3>2. ConnOf(t, f.link) \in Lookup(t, f.link)
      BY <1>3
    <3> QED
      BY ONLY <3>1, <3>2
  <2>2. Lookup(p.table, k) = {}
    <3>1. SUFFICES ASSUME NEW m \in 1 .. Len(p.table.conns), p.table.conns[m].key = KeyOf(k)
                   PROVE  FALSE
      BY <1>9, Zenon
    <3>2. m \in 1 .. Len(t.conns)
      BY <1>3, <1>10
    <3>3. t.conns[m].key = KeyOf(k)
      BY <1>3, <3>1
    <3>4. m \in Lookup(t, k)
      BY <1>9, <3>2, <3>3
    <3> QED
      BY <2>1, <3>4
  <2>3. gaps[k] = -1
    BY <2>2 DEF MarkedOff
  <2> QED
    BY <1>7, <2>1, <2>3
<1> QED
  BY <1>6, <1>13, <1>14 DEF MarkedOff

\* What Observe returned stays true, and what it returns for a frame is true.
LEMMA SeenFollows ==
  ASSUME NEW t, TableInv(t), NEW S, SeenInv(S, t), NEW link \in Links,
         NEW q, TableInv(q), SameEnds(Observe(t, link), q)
  PROVE  LET u == Observe(t, link)
             n == ConnOf(u, link)
         IN  SeenInv(S \cup {[link |-> link, conn |-> n, dir |-> DirOf(u.conns[n], link.dst)]}, q)
<1> DEFINE u == Observe(t, link)
           n == ConnOf(u, link)
           new == [link |-> link, conn |-> n, dir |-> DirOf(u.conns[n], link.dst)]
<1>1. /\ TableInv(u) /\ Len(u.conns) >= Len(t.conns)
      /\ \A k \in 1 .. Len(t.conns) : u.conns[k] = t.conns[k]
      /\ Lookup(u, link) = {n} /\ n \in 1 .. Len(u.conns)
  BY ObserveKeeps
<1>2. new.link = link /\ new.conn = n /\ new.dir = DirOf(u.conns[n], link.dst)
  OBVIOUS
<1>3. SameEnds(u, q)
  OBVIOUS
<1> HIDE DEF new, n, u
<1>4. Len(u.conns) \in Nat /\ Len(t.conns) \in Nat
  BY <1>1, LookupOf
<1>5. u.conns[n].key = KeyOf(link)
  BY <1>1, LookupOf
<1>6. /\ Len(q.conns) = Len(u.conns)
      /\ \A k \in 1 .. Len(u.conns) :
           q.conns[k].key = u.conns[k].key /\ q.conns[k].server = u.conns[k].server
  BY <1>3 DEF SameEnds
<1>7. ASSUME NEW o \in S
      PROVE  /\ o.link \in Links /\ o.conn \in 1 .. Len(q.conns)
             /\ q.conns[o.conn].key = KeyOf(o.link)
             /\ o.dir = DirOf(q.conns[o.conn], o.link.dst)
  <2>1. /\ o.link \in Links /\ o.conn \in 1 .. Len(t.conns)
        /\ t.conns[o.conn].key = KeyOf(o.link)
        /\ o.dir = DirOf(t.conns[o.conn], o.link.dst)
    BY DEF SeenInv
  <2>2. o.conn \in 1 .. Len(u.conns)
    BY <1>1, <1>4, <2>1
  <2>3. u.conns[o.conn] = t.conns[o.conn]
    BY <1>1, <2>1
  <2> QED
    BY <1>6, <2>1, <2>2, <2>3 DEF DirOf
<1>8. /\ new.link \in Links /\ new.conn \in 1 .. Len(q.conns)
      /\ q.conns[new.conn].key = KeyOf(new.link)
      /\ new.dir = DirOf(q.conns[new.conn], new.link.dst)
  BY <1>1, <1>2, <1>5, <1>6 DEF DirOf
<1>9. SeenInv(S \cup {new}, q)
  BY <1>7, <1>8 DEF SeenInv
<1> QED
  BY <1>9 DEF new, n, u

\* How many records a link has.
LEMMA RecordsCounted ==
  ASSUME NEW p, p \in Pipeline, NEW link
  PROVE  Cardinality(RecordsOf(p, link)) \in Nat
<1>1. DOMAIN p.records = 1 .. Len(p.records) /\ Len(p.records) \in Nat
  BY DEF Pipeline
<1>2. IsFiniteSet(1 .. Len(p.records)) /\ RecordsOf(p, link) \subseteq 1 .. Len(p.records)
  BY <1>1, FS_Interval DEF RecordsOf
<1>3. IsFiniteSet(RecordsOf(p, link))
  BY <1>2, FS_Subset
<1> QED
  BY <1>3, FS_CardinalityType

\* What a frame leaves as it is, in the connections that were there.
KeepsMarks(t, u) ==
  \A n \in 1 .. Len(t.conns) :
    t.conns[n].desyncAt # 0 => u.conns[n].desyncAt = t.conns[n].desyncAt

\* A frame keeps the invariant, and the frame that a connection names.
LEMMA DecodingStep ==
  DecodingInv /\ [DecodingNext]_decodingVars =>
    DecodingInv' /\ KeepsMarks(live.table, live'.table)
<1> SUFFICES ASSUME DecodingInv, [DecodingNext]_decodingVars
             PROVE  DecodingInv' /\ KeepsMarks(live.table, live'.table)
  OBVIOUS
<1> DEFINE who == WhoOf(journal, dropped)
           more == WhoOf(journal', dropped')
<1>1. /\ journal \in Seq(Frames) /\ dropped \subseteq 1 .. Len(journal)
      /\ gapAt \in [TCPLinks -> Int] /\ PipelineInv(live, who)
      /\ SeenInv(seen, live.table) /\ MarkedOff(live, gapAt)
      /\ live \in Pipeline /\ TableInv(live.table)
  BY DEF DecodingInv, PipelineInv
<1>2. CASE UNCHANGED decodingVars
  <2>1. /\ journal' = journal /\ dropped' = dropped /\ live' = live /\ seen' = seen
        /\ gapAt' = gapAt
    BY <1>2 DEF decodingVars
  <2>2. DecodingInv'
    BY <1>1, <2>1 DEF DecodingInv
  <2> QED
    BY <2>1, <2>2 DEF KeepsMarks
<1>3. ASSUME NEW f \in Frames, Journals(f)
      PROVE  /\ journal' = Append(journal, f) /\ journal' \in Seq(Frames)
             /\ Len(journal') = Len(journal) + 1 /\ Len(journal) \in Nat
  BY <1>1, <1>3 DEF Journals
<1>4. ASSUME NEW f \in Frames, Journals(f), Drops
      PROVE  DecodingInv' /\ KeepsMarks(live.table, live'.table)
  <2>1. /\ dropped' = dropped \cup {Len(journal) + 1}
        /\ live' = live /\ seen' = seen /\ gapAt' = gapAt
    BY <1>4 DEF Drops
  <2>2. /\ journal' = Append(journal, f) /\ journal' \in Seq(Frames)
        /\ Len(journal') = Len(journal) + 1 /\ Len(journal) \in Nat
    BY <1>3, <1>4
  <2>3. dropped' \subseteq 1 .. Len(journal')
    <3>1. 1 .. Len(journal') = 1 .. Len(journal) \cup {Len(journal) + 1}
      BY <2>2
    <3> QED
      BY <1>1, <2>1, <3>1
  <2>4. \A link \in Links : who[link] \subseteq more[link]
    BY <1>1, <2>1, <2>2, WhoGrows
  <2> HIDE DEF who, more
  <2>5. PipelineInv(live, more)
    BY <1>1, <2>4, MoreCarried
  <2> QED
    BY <1>1, <2>1, <2>2, <2>3, <2>5 DEF DecodingInv, KeepsMarks, more
<1>5. ASSUME NEW f \in Frames, Journals(f), Decodes(f)
      PROVE  DecodingInv' /\ KeepsMarks(live.table, live'.table)
  <2> DEFINE ref == Len(journal) + 1
             t == Observe(live.table, f.link)
             o == Observing(live, f.link)
             q == Feed(live, ref, f)
             n0 == Cardinality(RecordsOf(live, f.link))
  <2>1. /\ live' = q /\ dropped' = dropped
        /\ seen' = seen \cup {[link |-> f.link, conn |-> ConnOf(t, f.link),
                              dir |-> DirOf(t.conns[ConnOf(t, f.link)], f.link.dst)]}
        /\ gapAt' = IF ~f.link.udp /\ f.from <= f.to
                    THEN [gapAt EXCEPT ![f.link] =
                           IF @ = -1 /\ IsGap(live.streams[f.link], f) THEN n0 ELSE @]
                    ELSE gapAt
    BY <1>5 DEF Decodes
  <2>2. /\ journal' = Append(journal, f) /\ journal' \in Seq(Frames)
        /\ Len(journal') = Len(journal) + 1 /\ Len(journal) \in Nat
    BY <1>3, <1>5
  <2>3. dropped' \subseteq 1 .. Len(journal')
    <3>1. dropped' = dropped
      BY <2>1
    <3> QED
      BY <1>1, <2>2, <3>1
  <2>4. /\ \A link \in Links : who[link] \subseteq more[link]
        /\ \A u \in f.from .. f.to : <<ref, u>> \in more[f.link]
    BY <1>1, <2>1, <2>2, WhoGrows
  <2>5. ref \in Nat \ {0} /\ n0 \in Nat
    BY <1>1, <2>2, RecordsCounted
  <2>6. f.link \in Links
    <3>1. f \in [link : Links, from : Nat, to : Nat]
      BY DecodingAssumption DEF DecodingAssumption
    <3> QED
      BY <3>1
  <2> HIDE DEF who, more, ref, n0
  <2>7. PipelineInv(live, more)
    BY <1>1, <2>4, MoreCarried
  <2>8. PipelineInv(q, more) /\ Feeds(o, q, ref, f)
    BY <2>4, <2>5, <2>7, FeedKeeps
  <2> HIDE DEF q
  <2>9. TableInv(q.table) /\ SameEnds(o.table, q.table)
    BY <2>8 DEF PipelineInv, Feeds
  <2>10. o.table = t
    BY <1>1, <2>6, ObservingKeeps
  <2>11. MarkedOff(q, gapAt') /\ gapAt' \in [TCPLinks -> Int]
    BY <1>1, <2>1, <2>5, <2>8, <2>9, MarksFollow
  <2>12. SeenInv(seen', q.table)
    BY <1>1, <2>1, <2>6, <2>9, <2>10, SeenFollows
  <2>13. DecodingInv'
    BY <2>1, <2>2, <2>3, <2>8, <2>11, <2>12 DEF DecodingInv, more
  <2>14. KeepsMarks(live.table, q.table)
    <3>1. /\ Len(t.conns) >= Len(live.table.conns)
          /\ \A n \in 1 .. Len(live.table.conns) : t.conns[n] = live.table.conns[n]
          /\ TableInv(t)
      BY <1>1, <2>6, ObserveKeeps
    <3> HIDE DEF t, o
    <3>2. Len(t.conns) \in Nat /\ Len(live.table.conns) \in Nat
      BY <1>1, <3>1, LookupOf
    <3>3. \A n \in 1 .. Len(t.conns) :
            t.conns[n].desyncAt # 0 => q.table.conns[n].desyncAt = t.conns[n].desyncAt
      BY <2>8, <2>10 DEF Feeds
    <3> QED
      BY <3>1, <3>2, <3>3 DEF KeepsMarks
  <2> QED
    BY <2>1, <2>13, <2>14
<1> QED
  BY <1>2, <1>4, <1>5 DEF DecodingNext

\* The pipeline of a session is always a good one.
THEOREM DecodingFlow == DecodingSpec => []DecodingInv
<1>1. DecodingInv /\ [DecodingNext]_decodingVars => DecodingInv'
  BY DecodingStep
<1> QED
  BY <1>1, StartsGood, PTL DEF DecodingSpec

-----------------------------------------------------------------------------
(* What it gives                                                           *)

\* The key under which the decoder keeps a stream, a connection and a
\* direction, is one to one with who sends to whom: no two directions share a
\* stream, and none is split over two (Pipeline.Feed, Table.Observe).
THEOREM StreamKeysAreDirections == DecodingSpec => []StreamIsDirection
<1>1. DecodingInv => StreamIsDirection
  <2> SUFFICES ASSUME DecodingInv, NEW o \in seen, NEW p \in seen
               PROVE  (o.conn = p.conn /\ o.dir = p.dir) <=> o.link = p.link
    BY DEF StreamIsDirection
  <2> DEFINE conns == live.table.conns
  <2>1. /\ o.link \in Links /\ o.conn \in 1 .. Len(conns)
        /\ conns[o.conn].key = KeyOf(o.link)
        /\ o.dir = DirOf(conns[o.conn], o.link.dst)
        /\ p.link \in Links /\ p.conn \in 1 .. Len(conns)
        /\ conns[p.conn].key = KeyOf(p.link)
        /\ p.dir = DirOf(conns[p.conn], p.link.dst)
    BY DEF DecodingInv, SeenInv
  <2>2. TableInv(live.table)
    BY DEF DecodingInv, PipelineInv
  <2>3. ASSUME o.link = p.link PROVE o.conn = p.conn /\ o.dir = p.dir
    <3>1. conns[o.conn].key = conns[p.conn].key
      BY <2>1, <2>3
    <3>2. o.conn = p.conn
      BY <2>1, <2>2, <3>1, KeysApart
    <3> QED
      BY <2>1, <2>3, <3>2
  <2>4. ASSUME o.conn = p.conn, o.dir = p.dir PROVE o.link = p.link
    <3>1. CASE o.link # p.link
      <4>1. o.link.src = p.link.dst /\ o.link.dst = p.link.src /\ o.link.udp = p.link.udp
        BY <2>1, <2>4, <3>1, KeyIsFlow
      <4>2. o.link.src # o.link.dst
        BY <2>1, <3>1, <4>1, LinkOf
      <4>3. conns[o.conn].server \in {o.link.src, o.link.dst}
        <5>1. conns[o.conn].server \in {KeyOf(o.link).a, KeyOf(o.link).b}
          BY <2>1, <2>2 DEF TableInv
        <5> QED
          BY <2>1, <5>1, LinkOf
      <4> QED
        BY <2>1, <2>4, <4>1, <4>2, <4>3 DEF DirOf
    <3> QED
      BY <3>1
  <2> QED
    BY <2>3, <2>4
<1> QED
  BY <1>1, DecodingFlow, PTL

\* A connection is classified by handoff exactly if its server is an endpoint
\* that a decoded handoff announced, whichever came first (Pipeline.interpret,
\* AnnounceDedicated, classifyLocked).
THEOREM HandoffsStand == DecodingSpec => []HandoffStands
<1>1. DecodingInv => HandoffStands
  <2> SUFFICES ASSUME DecodingInv, NEW n \in DOMAIN live.table.conns
               PROVE  LET conn == live.table.conns[n]
                      IN  conn.evidence = "handoff" <=>
                            \E k \in DOMAIN live.records :
                              LET r == live.records[k]
                                  w == IF r.link.udp THEN [sizes |-> <<>>] ELSE Wire[r.link]
                              IN  \E m \in DOMAIN w.sizes :
                                    r.units = Run(StartOf(w, m), EndOf(w, m)) /\ conn.server \in w.says[m].announces
    BY DEF HandoffStands
  <2> DEFINE server == live.table.conns[n].server
             Says(r) == LET w == IF r.link.udp THEN [sizes |-> <<>>] ELSE Wire[r.link]
                        IN  \E m \in DOMAIN w.sizes :
                              r.units = Run(StartOf(w, m), EndOf(w, m)) /\ server \in w.says[m].announces
  <2>1. PipelineInv(live, WhoOf(journal, dropped)) /\ TableInv(live.table)
    BY DEF DecodingInv, PipelineInv
  <2>2. live.table.conns[n].evidence = "handoff" <=> server \in live.table.dedicated
    <3>1. n \in 1 .. Len(live.table.conns)
      BY <2>1, LookupOf
    <3> QED
      BY <2>1, <3>1 DEF TableInv
  <2>3. DOMAIN live.records = 1 .. Len(live.records)
    BY <2>1 DEF PipelineInv, Pipeline
  <2>4. server \in live.table.dedicated <=>
          \E k \in 1 .. Len(live.records) : Tells(live.records[k], server)
    BY <2>1 DEF PipelineInv
  <2>5. ASSUME NEW r PROVE Tells(r, server) <=> Says(r)
    <3> HIDE DEF server
    <3>1. CASE r.link.udp
      BY <3>1 DEF Tells
    <3>2. CASE ~r.link.udp
      BY <3>2 DEF Tells
    <3> QED
      BY <3>1, <3>2
  <2> HIDE DEF Says
  <2>6. live.table.conns[n].evidence = "handoff" <=> \E k \in DOMAIN live.records : Says(live.records[k])
    BY <2>2, <2>3, <2>4, <2>5
  <2> QED
    BY <2>6 DEF Says
<1> QED
  BY <1>1, DecodingFlow, PTL

\* Every unit of a record was in a frame that the record cites, and each such
\* frame was decoded, is of the record's link and carried some of the message
\* (stream.ledger, stream.take).
THEOREM RecordsCite == DecodingSpec => []RecordsCiteTheirFrames
<1>1. DecodingInv => RecordsCiteTheirFrames
  <2> SUFFICES ASSUME DecodingInv, NEW n \in DOMAIN live.records
               PROVE  LET r == live.records[n]
                          cited == ToSet(r.frames)
                      IN  /\ cited \subseteq DOMAIN journal \ dropped
                          /\ \A ref \in cited : \E u \in ToSet(r.units) : Carried(ref, r, u, u)
                          /\ \A u \in ToSet(r.units) : \E ref \in cited : Carried(ref, r, u, u)
    BY DEF RecordsCiteTheirFrames
  <2> DEFINE r == live.records[n]
             who == WhoOf(journal, dropped)
  <2>1. PipelineInv(live, who) /\ live \in Pipeline /\ journal \in Seq(Frames)
    BY DEF DecodingInv, PipelineInv
  <2>2. n \in 1 .. Len(live.records) /\ r \in Records
    BY <2>1 DEF Pipeline
  <2>3. Cites(r, who[r.link])
    BY <2>1, <2>2 DEF PipelineInv, Recorded
  <2> HIDE DEF r
  <2>4. /\ r.link \in Links
        /\ ToSet(r.frames) = {r.frames[k] : k \in 1 .. Len(r.frames)}
        /\ ToSet(r.units) = {r.units[i] : i \in 1 .. Len(r.units)}
    BY <2>2 DEF Records, ToSet
  <2>5. DOMAIN journal = 1 .. Len(journal)
    BY <2>1
  <2>6. ASSUME NEW ref, NEW u, <<ref, u>> \in who[r.link]
        PROVE  ref \in DOMAIN journal \ dropped /\ Carried(ref, r, u, u)
    <3>1. /\ ref \in (1 .. Len(journal)) \ dropped /\ u \in Nat
          /\ journal[ref].link = r.link /\ journal[ref].from <= u /\ u <= journal[ref].to
      BY <2>4, <2>6 DEF WhoOf
    <3>2. u \in u .. u
      BY <3>1
    <3> QED
      BY <2>5, <3>1, <3>2 DEF Carried
  <2> HIDE DEF who
  <2>7. ASSUME NEW ref \in ToSet(r.frames)
        PROVE  ref \in DOMAIN journal \ dropped /\ \E u \in ToSet(r.units) : Carried(ref, r, u, u)
    <3>1. PICK k \in 1 .. Len(r.frames) : ref = r.frames[k]
      BY <2>4
    <3>2. PICK i \in 1 .. Len(r.units) : <<r.frames[k], r.units[i]>> \in who[r.link]
      BY <2>3 DEF Cites
    <3> QED
      BY <2>4, <2>6, <3>1, <3>2
  <2>8. ASSUME NEW u \in ToSet(r.units)
        PROVE  \E ref \in ToSet(r.frames) : Carried(ref, r, u, u)
    <3>1. PICK i \in 1 .. Len(r.units) : u = r.units[i]
      BY <2>4
    <3>2. PICK k \in 1 .. Len(r.frames) : <<r.frames[k], r.units[i]>> \in who[r.link]
      BY <2>3 DEF Cites
    <3> QED
      BY <2>4, <2>6, <3>1, <3>2
  <2> QED
    BY <2>7, <2>8 DEF r
<1> QED
  BY <1>1, DecodingFlow, PTL

\* A connection names a frame where decoding was lost exactly if one of its
\* streams stopped or met a gap, and it never names another one (feedTCP,
\* MarkDesync).
THEOREM DesyncsAreRecorded == DecodingSpec => DesyncIsRecorded
<1> DEFINE Marked ==
      \A n \in DOMAIN live.table.conns :
        live.table.conns[n].desyncAt # 0 <=>
          \E link \in TCPLinks :
            /\ n \in Lookup(live.table, link)
            /\ live.streams[link].desync \/ gapAt[link] # -1
           Kept ==
      \A n \in DOMAIN live.table.conns :
        live.table.conns[n].desyncAt # 0 =>
          live'.table.conns[n].desyncAt = live.table.conns[n].desyncAt
<1>1. DecodingInv => DOMAIN live.table.conns = 1 .. Len(live.table.conns)
  BY LookupOf DEF DecodingInv, PipelineInv
<1>2. DecodingInv => Marked
  BY <1>1 DEF DecodingInv, MarkedOff, Off
<1>3. DecodingInv /\ [DecodingNext]_decodingVars => Kept
  BY <1>1, DecodingStep DEF KeepsMarks
<1>4. DecodingSpec => []Marked
  BY <1>2, DecodingFlow, PTL
<1>5. DecodingSpec => [][Kept]_decodingVars
  BY <1>3, DecodingFlow, PTL DEF DecodingSpec
<1> QED
  BY <1>4, <1>5, PTL DEF DesyncIsRecorded

-----------------------------------------------------------------------------
(* Streams in step with the messages                                       *)

\* Remainders near zero.
LEMMA SmallResidue ==
  ASSUME NEW x \in Int, -Modulus <= x, x < 2 * Modulus
  PROVE  x % Modulus = IF x < 0 THEN x + Modulus ELSE IF x < Modulus THEN x ELSE x - Modulus
<1>1. CASE x < 0
  BY <1>1, ModulusAssumption
<1>2. CASE 0 <= x /\ x < Modulus
  BY <1>2, ModulusAssumption
<1>3. CASE Modulus <= x
  BY <1>3, ModulusAssumption
<1> QED
  BY <1>1, <1>3, ModulusAssumption

\* The sequence number of a unit, wrapped at most once.
LEMMA NumberIs ==
  ASSUME NEW w, IsWire(w), NEW u \in Nat, u <= Modulus
  PROVE  WireSeq(w, u) = IF w.base + u < Modulus THEN w.base + u ELSE w.base + u - Modulus
<1>1. w.base \in 0 .. Modulus - 1
  BY DEF IsWire
<1>2. WireSeq(w, u) = (w.base + u) % Modulus
  BY DEF WireSeq
<1>3. ASSUME NEW x \in Int, x = w.base + u
      PROVE  x % Modulus = IF x < Modulus THEN x ELSE x - Modulus
  <2>1. -Modulus <= x /\ x < 2 * Modulus /\ ~(x < 0)
    BY <1>1, <1>3, ModulusAssumption
  <2> QED
    BY <2>1, SmallResidue
<1>4. w.base + u \in Int
  BY <1>1, ModulusAssumption
<1>5. (w.base + u) % Modulus = IF w.base + u < Modulus THEN w.base + u ELSE w.base + u - Modulus
  BY <1>1, <1>3, <1>4, ModulusAssumption
<1> QED
  BY <1>2, <1>5

\* Sequence numbers tell which of two units of a wire comes first, and how far
\* apart they are, wherever they wrap.
LEMMA NumbersCompare ==
  ASSUME NEW w, IsWire(w), NEW t \in Nat, 2 * t < Modulus,
         NEW a \in 1 .. t, NEW b \in 1 .. t + 1
  PROVE  /\ WireSeq(w, a) = WireSeq(w, b) <=> a = b
         /\ SeqLess(WireSeq(w, a), WireSeq(w, b)) <=> a < b
         /\ a < b => (WireSeq(w, b) - WireSeq(w, a)) % Modulus = b - a
<1> DEFINE x == WireSeq(w, a)
           y == WireSeq(w, b)
           M == Modulus
<1>1. w.base \in 0 .. M - 1 /\ M \in Nat /\ M > 0
  BY ModulusAssumption DEF IsWire
<1> HIDE DEF x, y
<1>3. /\ x = IF w.base + a < M THEN w.base + a ELSE w.base + a - M
      /\ y = IF w.base + b < M THEN w.base + b ELSE w.base + b - M
  <2>1. a \in Nat /\ a <= Modulus /\ b \in Nat /\ b <= Modulus
    BY <1>1
  <2> QED
    BY <2>1, NumberIs DEF x, y
<1>4. x \in 0 .. M - 1 /\ y \in 0 .. M - 1
  <2> QED
    BY <1>1, <1>3
<1>5. x - y \in {a - b, a - b + M, a - b - M}
  <2> QED
    BY <1>1, <1>3
<1>6. (x - y) % M = IF a < b THEN a - b + M ELSE a - b
  <2>1. (x - y) % M = IF x - y < 0 THEN x - y + M ELSE IF x - y < M THEN x - y ELSE x - y - M
    <3>1. x - y \in Int /\ -M <= x - y /\ x - y < 2 * M
      BY <1>1, <1>4
    <3> QED
      BY <3>1, SmallResidue
  <2> QED
    BY <1>1, <1>4, <1>5, <2>1
<1>7. a < b => (y - x) % M = b - a
  <2>1. (y - x) % M = IF y - x < 0 THEN y - x + M ELSE IF y - x < M THEN y - x ELSE y - x - M
    <3>1. y - x \in Int /\ -M <= y - x /\ y - x < 2 * M
      BY <1>1, <1>4
    <3> QED
      BY <3>1, SmallResidue
  <2> QED
    BY <1>1, <1>4, <1>5, <2>1
<1>8. M \div 2 \in Int /\ 2 * (M \div 2) <= M /\ M < 2 * (M \div 2) + 2
  BY <1>1
<1>9. SeqLess(x, y) <=> a < b
  <2>1. SeqLess(x, y) <=> (IF a < b THEN a - b + M ELSE a - b) >= M \div 2
    BY <1>6 DEF SeqLess
  <2> QED
    BY <1>1, <1>8, <2>1
<1>10. x = y <=> a = b
  BY <1>1, <1>3
<1> QED
  BY <1>7, <1>9, <1>10 DEF x, y

\* The units from the start of message m up to e are buffered.
Holds(w, b, m, e) ==
  /\ m \in 1 .. Len(w.sizes) + 1 /\ e \in 0 .. EndOf(w, Len(w.sizes))
  /\ StartOf(w, m) <= e + 1
  /\ b = Run(StartOf(w, m), e)

\* What came out are the messages from m on.
AreNext(w, out, m) ==
  \A k \in 1 .. Len(out) :
    /\ m + k - 1 \in DOMAIN w.sizes
    /\ out[k].units = Run(StartOf(w, m + k - 1), EndOf(w, m + k - 1))

\* The numbers of what is buffered.
LEMMA HoldsOf ==
  ASSUME NEW w, IsWire(w), NEW b, NEW m, NEW e, Holds(w, b, m, e)
  PROVE  /\ m \in Nat \ {0} /\ e \in Nat /\ StartOf(w, m) \in Nat \ {0}
         /\ EndOf(w, Len(w.sizes)) \in Nat /\ Len(w.sizes) \in Nat
         /\ StartOf(w, m) = EndOf(w, m - 1) + 1
         /\ b \in Seq(Units(w)) /\ Len(b) = e - StartOf(w, m) + 1
         /\ \A i \in 1 .. Len(b) : b[i] = StartOf(w, m) + i - 1
<1>1. Len(w.sizes) \in Nat /\ EndOf(w, Len(w.sizes)) \in Nat
  BY WireEnds
<1>2. m \in 1 .. Len(w.sizes) + 1 /\ e \in 0 .. EndOf(w, Len(w.sizes)) /\ m - 1 \in 0 .. Len(w.sizes)
  BY <1>1 DEF Holds
<1>3. EndOf(w, m - 1) \in Nat
  BY <1>2, WireEnds
<1>4. StartOf(w, m) = EndOf(w, m - 1) + 1
  BY DEF StartOf
<1> DEFINE from == StartOf(w, m)
<1>5. from \in Nat \ {0} /\ e \in Nat /\ from <= e + 1 /\ b = Run(from, e)
  BY <1>2, <1>3, <1>4 DEF Holds
<1> HIDE DEF from
<1>6. Len(b) = e - from + 1 /\ \A i \in 1 .. e - from + 1 : b[i] = from + i - 1
  <2>1. from \in Int /\ e \in Int
    BY <1>5
  <2>2. Len(Run(from, e)) = e - from + 1 /\ \A i \in 1 .. e - from + 1 : Run(from, e)[i] = from + i - 1
    BY <1>5, <2>1, RunOf
  <2> QED
    BY <1>5, <2>2
<1>7. b \in Seq(Units(w))
  <2>1. \A i \in 1 .. e - from + 1 : from + i - 1 \in Units(w)
    BY <1>1, <1>2, <1>5 DEF Units
  <2>2. e - from + 1 \in Nat
    BY <1>5
  <2>3. b = [i \in 1 .. e - from + 1 |-> from + i - 1]
    BY <1>5 DEF Run
  <2> QED
    BY <2>1, <2>2, <2>3
<1> QED
  BY <1>1, <1>2, <1>4, <1>5, <1>6, <1>7 DEF from

\* The unit at the front asks for n units, or is a sentinel's.
AsksFor(w, b, n) ==
  \/ Asks(w, b[1]) = n /\ ~Special(w, b)
  \/ Special(w, b) /\ n = HeaderSize

\* A run that begins with a message: it is taken when it is whole, it is
\* undamaged, and what is left begins with the next.
LEMMA TakesMessage ==
  ASSUME NEW w, IsWire(w), NEW b, NEW m, NEW e, Holds(w, b, m, e)
  PROVE  /\ Complete(w, b) = 0 <=> (m \notin DOMAIN w.sizes \/ e < EndOf(w, m))
         /\ Complete(w, b) # 0 =>
              LET n == Complete(w, b)
              IN  /\ SubSeq(b, 1, n) = Run(StartOf(w, m), EndOf(w, m))
                  /\ Intact(w, SubSeq(b, 1, n))
                  /\ Holds(w, SubSeq(b, n + 1, Len(b)), m + 1, e)
         /\ m \in DOMAIN w.sizes /\ Len(b) > 0 =>
              b[1] \in Units(w) /\ AsksFor(w, b, w.sizes[m]) /\ w.sizes[m] >= HeaderSize
<1> DEFINE N == Len(w.sizes)
           from == StartOf(w, m)
           end == EndOf(w, m)
           size == w.sizes[m]
<1>1. /\ m \in Nat \ {0} /\ e \in Nat /\ from \in Nat \ {0} /\ N \in Nat
      /\ EndOf(w, N) \in Nat /\ b \in Seq(Units(w)) /\ Len(b) = e - from + 1
      /\ \A i \in 1 .. Len(b) : b[i] = from + i - 1
  BY HoldsOf
<1>2. m \in 1 .. N + 1 /\ e \in 0 .. EndOf(w, N) /\ from <= e + 1 /\ DOMAIN w.sizes = 1 .. N
  BY WireEnds DEF Holds
<1>3. Len(b) \in Nat
  BY <1>1
<1>4. CASE m \notin DOMAIN w.sizes
  <2>1. m = N + 1 /\ m - 1 = N
    BY <1>1, <1>2, <1>4
  <2>2. from = EndOf(w, N) + 1
    BY <2>1 DEF StartOf
  <2>3. Len(b) = 0
    BY <1>1, <1>2, <2>2
  <2>4. Complete(w, b) = 0
    BY <2>3 DEF Complete, HeaderSize
  <2> QED
    BY <1>4, <2>4
<1>5. CASE m \in DOMAIN w.sizes
  <2>1. /\ end \in Nat /\ size \in Nat /\ size >= HeaderSize /\ size = end - from + 1
        /\ end <= EndOf(w, N) /\ EndOf(w, N) \in Nat
        /\ from \in Units(w) /\ (w.asks[from] = size \/ (w.asks[from] = 0 /\ size = HeaderSize))
    <3>1. m \in 0 .. N /\ N \in 0 .. N /\ m <= N
      BY <1>1, <1>2, <1>5
    <3>2. /\ end \in Nat /\ size \in Nat /\ size >= HeaderSize /\ size = end - from + 1
          /\ end <= EndOf(w, N) /\ EndOf(w, N) \in Nat
      BY <1>5, <3>1, WireEnds
    <3>3. /\ from .. end \subseteq Units(w)
          /\ w.asks[from] = size \/ (w.asks[from] = 0 /\ size = HeaderSize)
      BY <1>5, MessagesApart DEF IsSentinel
    <3>4. from \in from .. end
      BY <1>1, <3>2 DEF HeaderSize
    <3> QED
      BY <3>2, <3>3, <3>4
  <2>2. ASSUME Len(b) > 0 PROVE b[1] = from /\ AsksFor(w, b, size)
    <3>1. b[1] = from
      BY <1>1, <1>3, <2>2
    <3>2. Asks(w, from) = w.asks[from]
      BY <2>1, AsksOf DEF Buffered
    <3> QED
      BY <2>1, <3>1, <3>2 DEF Special, HeaderSize, AsksFor
  <2> HIDE DEF from, end, size, N
  <2>3. Complete(w, b) = IF Len(b) < size THEN 0 ELSE size
    <3>1. CASE Len(b) < HeaderSize
      BY <1>3, <2>1, <3>1 DEF Complete, HeaderSize
    <3>2. CASE ~(Len(b) < HeaderSize)
      <4>1. Len(b) > 0
        BY <1>3, <3>2 DEF HeaderSize
      <4> QED
        BY <2>2, <3>2, <4>1 DEF Complete, AsksFor
    <3> QED
      BY <3>1, <3>2
  <2>4. Len(b) < size <=> e < end
    BY <1>1, <2>1
  <2>5. Complete(w, b) = 0 <=> e < end
    BY <2>1, <2>3, <2>4 DEF HeaderSize
  <2>6. ASSUME NEW n, n = Complete(w, b), n # 0
        PROVE  /\ SubSeq(b, 1, n) = Run(from, end)
               /\ Intact(w, SubSeq(b, 1, n))
               /\ Holds(w, SubSeq(b, n + 1, Len(b)), m + 1, e)
    <3>1. n = size /\ n \in 1 .. Len(b) /\ n \in 0 .. Len(b) /\ end <= e
      BY <1>1, <1>3, <2>1, <2>3, <2>5, <2>6 DEF HeaderSize
    <3>2. /\ SubSeq(b, 1, n) \in Seq(Units(w)) /\ Len(SubSeq(b, 1, n)) = n
          /\ \A i \in 1 .. n : SubSeq(b, 1, n)[i] = b[i]
          /\ SubSeq(b, n + 1, Len(b)) \in Seq(Units(w)) /\ Len(SubSeq(b, n + 1, Len(b))) = Len(b) - n
          /\ \A i \in 1 .. Len(b) - n : SubSeq(b, n + 1, Len(b))[i] = b[n + i]
      BY <1>1, <3>1, Taken
    <3>3. SubSeq(b, 1, n) = Run(from, end)
      <4>1. SubSeq(b, 1, n) = [i \in 1 .. n |-> SubSeq(b, 1, n)[i]]
        BY <3>2
      <4>2. \A i \in 1 .. n : SubSeq(b, 1, n)[i] = from + i - 1
        BY <1>1, <3>1, <3>2
      <4>3. n = end - from + 1
        BY <2>1, <3>1
      <4> QED
        BY <4>1, <4>2, <4>3 DEF Run
    <3>4. Intact(w, SubSeq(b, 1, n))
      BY <1>5, <3>3 DEF Intact, from, end
    <3>5. StartOf(w, m + 1) = end + 1
      BY <1>1 DEF StartOf, end
    <3>6. SubSeq(b, n + 1, Len(b)) = Run(end + 1, e)
      <4> DEFINE rest == SubSeq(b, n + 1, Len(b))
      <4>1. rest = [i \in 1 .. Len(b) - n |-> rest[i]]
        BY <3>2
      <4>2. \A i \in 1 .. Len(b) - n : rest[i] = (end + 1) + i - 1
        <5> TAKE i \in 1 .. Len(b) - n
        <5>1. n + i \in 1 .. Len(b)
          BY <1>3, <3>1
        <5>2. rest[i] = from + (n + i) - 1
          BY <1>1, <3>2, <5>1
        <5> HIDE DEF rest
        <5> QED
          BY <1>1, <2>1, <3>1, <5>2
      <4>3. Len(b) - n = e - (end + 1) + 1
        BY <1>1, <2>1, <3>1
      <4> HIDE DEF rest
      <4> QED
        BY <4>1, <4>2, <4>3 DEF Run, rest
    <3>7. m + 1 \in 1 .. N + 1
      BY <1>1, <1>2, <1>5
    <3>8. StartOf(w, m + 1) <= e + 1
      BY <1>1, <2>1, <3>1, <3>5
    <3>9. Holds(w, SubSeq(b, n + 1, Len(b)), m + 1, e)
      BY <1>2, <3>5, <3>6, <3>7, <3>8 DEF Holds, N
    <3> QED
      BY <3>3, <3>4, <3>9
  <2> QED
    BY <1>5, <2>1, <2>2, <2>5, <2>6 DEF from, end, size
<1> QED
  BY <1>4, <1>5

\* In particular the first unit asks for the whole message, or is a sentinel's.
LEMMA TakesFront ==
  ASSUME NEW w, IsWire(w), NEW b, NEW m, NEW e, Holds(w, b, m, e), m \in DOMAIN w.sizes, Len(b) > 0
  PROVE  b[1] \in Units(w) /\ AsksFor(w, b, w.sizes[m]) /\ w.sizes[m] >= HeaderSize
  BY TakesMessage

\* What the loop has done with a stream that is in step at m and e.
InRow(w, o, s, m, e) ==
  /\ DOMAIN o.out = 1 .. Len(o.out) /\ Len(o.out) \in Nat
  /\ AreNext(w, o.out, m)
  /\ Holds(w, o.stream.buf, m + Len(o.out), e)
  /\ o.stream.started = s.started /\ o.stream.nextSeq = s.nextSeq
  /\ o.stream.desync = FALSE /\ o.lost = FALSE

\* A turn of the loop takes the next message, or none.
LEMMA TurnInRow ==
  ASSUME NEW w, IsWire(w), NEW s, NEW m \in Nat, NEW e, NEW o, InRow(w, o, s, m, e),
         o.stream \in Stream(w)
  PROVE  InRow(w, Turn(w, o), s, m, e)
<1> DEFINE t == o.stream
           b == t.buf
           n == Complete(w, b)
           l == Len(o.out)
<1>1. t.desync = FALSE /\ Holds(w, b, m + l, e) /\ l \in Nat /\ AreNext(w, o.out, m)
      /\ DOMAIN o.out = 1 .. l /\ o.lost = FALSE
  BY DEF InRow
<1>2. CASE n = 0
  <2>1. Turn(w, o) = o
    BY <1>2 DEF Turn
  <2> QED
    BY <2>1
<1>3. CASE n # 0
  <2> DEFINE raw == SubSeq(b, 1, n)
             rest == SubSeq(b, n + 1, Len(b))
             d == [t EXCEPT !.buf = rest, !.ledger = LedgerAfter(@, n)]
             r == [units |-> raw, frames |-> Cited(t.ledger, n)]
  <2>1. m + l \in DOMAIN w.sizes
    BY <1>1, <1>3, TakesMessage
  <2>2. raw = Run(StartOf(w, m + l), EndOf(w, m + l)) /\ Intact(w, raw) /\ Holds(w, rest, m + l + 1, e)
    <3> HIDE DEF b, l
    <3> QED
      BY <1>1, <1>3, TakesMessage
  <2>3. Turn(w, o) = Outcome(d, Append(o.out, r), FALSE)
    BY <1>1, <1>3, <2>2 DEF Turn
  <2>4. d.buf = rest /\ d.started = t.started /\ d.nextSeq = t.nextSeq /\ d.desync = FALSE
    BY <1>1 DEF Stream
  <2>5. r.units = raw
    OBVIOUS
  <2> DEFINE more == Append(o.out, r)
  <2> HIDE DEF d, r, raw, rest, b, n
  <2>6. /\ DOMAIN more = 1 .. l + 1 /\ Len(more) = l + 1 /\ more[l + 1] = r
        /\ \A k \in 1 .. l : more[k] = o.out[k]
    BY <1>1
  <2> HIDE DEF more
  <2>7. Turn(w, o).stream = d /\ Turn(w, o).out = more /\ Turn(w, o).lost = FALSE
    BY <2>3 DEF Outcome, more
  <2>8. AreNext(w, more, m)
    <3> SUFFICES ASSUME NEW k \in 1 .. l + 1
                 PROVE  /\ m + k - 1 \in DOMAIN w.sizes
                        /\ more[k].units = Run(StartOf(w, m + k - 1), EndOf(w, m + k - 1))
      BY <2>6 DEF AreNext
    <3>1. CASE k = l + 1
      <4>1. m + k - 1 = m + l
        BY <1>1, <3>1
      <4> QED
        BY <2>1, <2>2, <2>5, <2>6, <3>1, <4>1
    <3>2. CASE k \in 1 .. l
      BY <1>1, <2>6, <3>2 DEF AreNext
    <3> QED
      BY <1>1, <3>1, <3>2
  <2>9. m + (l + 1) = m + l + 1 /\ l + 1 \in Nat
    BY <1>1
  <2>10. t.started = s.started /\ t.nextSeq = s.nextSeq
    BY DEF InRow
  <2> QED
    BY <2>2, <2>4, <2>6, <2>7, <2>8, <2>9, <2>10 DEF InRow
<1> QED
  BY <1>2, <1>3

\* The loop over a stream that is in step takes messages in a row, up to the last
\* that is whole.
LEMMA ScanInRow ==
  ASSUME NEW w, IsWire(w), NEW who, NEW s, StreamInv(w, s, who), ~s.desync,
         NEW m, NEW e, Holds(w, s.buf, m, e)
  PROVE  InRow(w, Scanned(w, s), s, m, e)
<1> DEFINE n == Len(s.buf)
<1>1. n \in Nat /\ s.desync = FALSE /\ m \in Nat
  BY HoldsOf DEF StreamInv, Stream
<1>0. PICK f : Loop(f, w, s)
  BY <1>1, ScannedOf
<1>2. /\ Scanned(w, s) = f[n]
      /\ f[0] = Outcome(s, <<>>, FALSE)
      /\ \A k \in 1 .. n : f[k] = Turn(w, f[k - 1])
  BY <1>0, Zenon DEF Loop
<1> HIDE DEF n
<1> DEFINE S == {k \in 0 .. n : ScanInv(w, f[k], who) /\ InRow(w, f[k], s, m, e)}
<1>3. 0 \in S
  <2>1. f[0].stream = s /\ f[0].out = <<>> /\ f[0].lost = FALSE
    BY <1>2 DEF Outcome
  <2>2. GoodOut(w, <<>>, who) /\ AreNext(w, <<>>, m) /\ Len(<<>>) = 0 /\ DOMAIN <<>> = 1 .. 0
    BY DEF GoodOut, AreNext
  <2>3. ScanInv(w, f[0], who)
    BY <1>1, <2>1, <2>2 DEF ScanInv
  <2>4. InRow(w, f[0], s, m, e)
    <3>1. m + 0 = m
      BY <1>1
    <3> QED
      BY <1>1, <2>1, <2>2, <3>1 DEF InRow
  <2> QED
    BY <1>1, <2>3, <2>4
<1>4. ASSUME NEW k \in 1 .. n, k - 1 \in S PROVE k \in S
  <2>1. ScanInv(w, f[k - 1], who) /\ InRow(w, f[k - 1], s, m, e) /\ f[k] = Turn(w, f[k - 1])
    BY <1>2, <1>4
  <2>2. ScanInv(w, f[k], who)
    BY <2>1, TurnKeeps
  <2>3. InRow(w, f[k], s, m, e)
    <3>1. f[k - 1].stream \in Stream(w)
      BY <2>1 DEF ScanInv, StreamInv
    <3> QED
      BY <1>1, <2>1, <3>1, TurnInRow
  <2> QED
    BY <1>1, <2>2, <2>3
<1> HIDE DEF S
<1>5. \A k \in 0 .. n : k \in S
  BY <1>1, <1>3, <1>4, Upward
<1>6. n \in S
  BY <1>1, <1>5
<1> QED
  BY <1>2, <1>6 DEF S

\* The scanner has stopped, or has only poison to read.
Gone(w, s) == s.desync \/ Doomed(w, s.buf)

\* A turn finds no message in a stream that is gone.
LEMMA TurnGone ==
  ASSUME NEW w, IsWire(w), NEW o, o.stream \in Stream(w), Gone(w, o.stream), o.out = <<>>
  PROVE  Gone(w, Turn(w, o).stream) /\ Turn(w, o).out = <<>>
<1> DEFINE t == o.stream
           n == Complete(w, t.buf)
<1>1. CASE t.desync \/ n = 0
  <2>1. Turn(w, o) = o
    BY <1>1 DEF Turn
  <2> QED
    BY <2>1
<1>2. CASE ~t.desync /\ n # 0
  <2>1. t.buf \in Seq(Buffered(w)) /\ Doomed(w, t.buf)
    BY <1>2 DEF Stream, Gone
  <2>2. ~Intact(w, SubSeq(t.buf, 1, n))
    BY <1>2, <2>1, DoomedYieldsNothing
  <2>3. Turn(w, o) = Outcome([t EXCEPT !.desync = TRUE], o.out, TRUE)
    BY <1>2, <2>2 DEF Turn
  <2>4. [t EXCEPT !.desync = TRUE].desync
    BY DEF Stream
  <2> HIDE DEF t
  <2>5. Turn(w, o).stream = [t EXCEPT !.desync = TRUE] /\ Turn(w, o).out = o.out
    BY <2>3 DEF Outcome
  <2> QED
    BY <2>4, <2>5 DEF Gone
<1> QED
  BY <1>1, <1>2

\* Nor does the loop.
LEMMA ScanGone ==
  ASSUME NEW w, IsWire(w), NEW who, NEW s, StreamInv(w, s, who), ~s.desync, Gone(w, s)
  PROVE  Gone(w, Scanned(w, s).stream) /\ Scanned(w, s).out = <<>>
<1> DEFINE n == Len(s.buf)
<1>1. n \in Nat /\ s.desync = FALSE
  BY DEF StreamInv, Stream
<1>0. PICK f : Loop(f, w, s)
  BY <1>1, ScannedOf
<1>2. /\ Scanned(w, s) = f[n]
      /\ f[0] = Outcome(s, <<>>, FALSE)
      /\ \A k \in 1 .. n : f[k] = Turn(w, f[k - 1])
  BY <1>0, Zenon DEF Loop
<1> HIDE DEF n
<1> DEFINE S == {k \in 0 .. n :
                  ScanInv(w, f[k], who) /\ Gone(w, f[k].stream) /\ f[k].out = <<>>}
<1>3. 0 \in S
  <2>1. f[0].stream = s /\ f[0].out = <<>> /\ f[0].lost = FALSE
    BY <1>2 DEF Outcome
  <2>2. GoodOut(w, <<>>, who)
    BY DEF GoodOut
  <2>3. ScanInv(w, f[0], who)
    BY <1>1, <2>1, <2>2 DEF ScanInv
  <2> QED
    BY <1>1, <2>1, <2>3
<1>4. ASSUME NEW k \in 1 .. n, k - 1 \in S PROVE k \in S
  <2>1. /\ ScanInv(w, f[k - 1], who) /\ Gone(w, f[k - 1].stream) /\ f[k - 1].out = <<>>
        /\ f[k] = Turn(w, f[k - 1])
    BY <1>2, <1>4
  <2>2. ScanInv(w, f[k], who)
    BY <2>1, TurnKeeps
  <2>3. f[k - 1].stream \in Stream(w)
    BY <2>1 DEF ScanInv, StreamInv
  <2> QED
    BY <1>1, <2>1, <2>2, <2>3, TurnGone
<1> HIDE DEF S
<1>5. \A k \in 0 .. n : k \in S
  BY <1>1, <1>3, <1>4, Upward
<1>6. n \in S
  BY <1>1, <1>5
<1> QED
  BY <1>2, <1>6 DEF S

\* Poison behind what it dooms.
LEMMA PoisonDooms ==
  ASSUME NEW w, IsWire(w), NEW s \in Stream(w), Doomed(w, s.buf \o <<PoisonHead, PoisonTail>>)
  PROVE  Gone(w, Poisoned(w, s))
<1> DEFINE b == s.buf \o <<PoisonHead, PoisonTail>>
           n == Complete(w, b)
<1>1. b \in Seq(Buffered(w)) /\ Len(b) \in Nat
  <2>1. s.buf \in Seq(Buffered(w)) /\ <<PoisonHead, PoisonTail>> \in Seq(Buffered(w))
    BY DEF Stream, Buffered
  <2> QED
    BY <2>1, ConcatProperties
<1>2. Poisoned(w, s) = IF n > 0 /\ ~Intact(w, SubSeq(b, 1, n))
                       THEN [s EXCEPT !.buf = b, !.desync = TRUE]
                       ELSE [s EXCEPT !.buf = SubSeq(b, n + 1, Len(b))]
  BY DEF Poisoned
<1> HIDE DEF b
<1>3. n \in 0 .. Len(b)
  BY <1>1, CompleteOf
<1>4. CASE n = 0
  <2>1. SubSeq(b, n + 1, Len(b)) = b
    BY <1>1, <1>4, SubSeqFull
  <2>2. Poisoned(w, s) = [s EXCEPT !.buf = b]
    BY <1>2, <1>4, <2>1
  <2>3. Poisoned(w, s).buf = b
    BY <2>2 DEF Stream
  <2> QED
    BY <2>3 DEF Gone, b
<1>5. CASE n # 0
  <2>1. ~Intact(w, SubSeq(b, 1, n))
    BY <1>1, <1>5, DoomedYieldsNothing DEF b
  <2>2. Poisoned(w, s) = [s EXCEPT !.buf = b, !.desync = TRUE]
    BY <1>1, <1>2, <1>3, <1>5, <2>1
  <2>3. Poisoned(w, s).desync
    BY <2>2 DEF Stream
  <2> QED
    BY <2>3 DEF Gone
<1> QED
  BY <1>4, <1>5

\* The stream has taken the messages before m, and expects the unit after e.
InStep(w, s, m, e) ==
  /\ s.started /\ s.desync = FALSE
  /\ Holds(w, s.buf, m, e)
  /\ s.nextSeq = WireSeq(w, e + 1)

\* What a payload does to a stream that is in step: the messages that it completes
\* come out.
GoesOn(w, o, m, e) ==
  /\ DOMAIN o.out = 1 .. Len(o.out) /\ Len(o.out) \in Nat
  /\ AreNext(w, o.out, m)
  /\ InStep(w, o.stream, m + Len(o.out), e) /\ ~o.lost

\* A payload that continues what is buffered.
LEMMA AcceptGoesOn ==
  ASSUME NEW w, IsWire(w), NEW who, NEW s, StreamInv(w, s, who), ~s.desync,
         NEW from \in Nat, NEW to \in Nat, from <= to, from .. to \subseteq Units(w),
         NEW ref \in Nat, \A u \in from .. to : <<ref, u>> \in who,
         NEW m, Holds(w, s.buf \o Run(from, to), m, to)
  PROVE  GoesOn(w, Accept(w, s, from, to, ref), m, to)
<1>1. PICK t :
        /\ Accept(w, s, from, to, ref) = Scanned(w, t)
        /\ StreamInv(w, t, who) /\ Buffers(w, s, t, from, to)
  BY BufferKeeps
<1>2. InRow(w, Scanned(w, t), t, m, to)
  BY <1>1, ScanInRow DEF Buffers
<1> QED
  BY <1>1, <1>2 DEF Buffers, InRow, GoesOn, InStep

\* A payload that is accepted behind poison brings nothing out.
LEMMA AcceptGone ==
  ASSUME NEW w, IsWire(w), NEW who, NEW s, StreamInv(w, s, who), ~s.desync, Gone(w, s),
         NEW from \in Nat, NEW to \in Nat, from <= to, from .. to \subseteq Units(w),
         NEW ref \in Nat, \A u \in from .. to : <<ref, u>> \in who
  PROVE  /\ Gone(w, Accept(w, s, from, to, ref).stream)
         /\ Accept(w, s, from, to, ref).out = <<>>
<1>1. PICK t :
        /\ Accept(w, s, from, to, ref) = Scanned(w, t)
        /\ StreamInv(w, t, who) /\ Buffers(w, s, t, from, to)
  BY BufferKeeps
<1>2. s.buf \in Seq(Int)
  <2>1. s.buf \in Seq(Buffered(w))
    BY DEF StreamInv, Stream
  <2> QED
    BY <2>1, BufferedAreIntegers, SeqMonotonic
<1>3. Run(from, to) \in Seq(Int)
  BY RunOf
<1>4. Gone(w, t)
  BY <1>1, <1>2, <1>3, DoomedStays DEF Gone, Buffers
<1> QED
  BY <1>1, <1>4, ScanGone DEF Buffers

\* What runs on is one run.
LEMMA RunsJoin ==
  ASSUME NEW a \in Nat, NEW e \in Nat, NEW to \in Nat, a <= e + 1, e < to
  PROVE  Run(a, e) \o Run(e + 1, to) = Run(a, to)
<1>1. /\ Run(a, e) \in Seq(Int) /\ Len(Run(a, e)) = e - a + 1
      /\ \A k \in 1 .. e - a + 1 : Run(a, e)[k] = a + k - 1
  <2>1. a \in Int /\ e \in Int
    OBVIOUS
  <2> QED
    BY <2>1, RunOf
<1>2. /\ Run(e + 1, to) \in Seq(Int) /\ Len(Run(e + 1, to)) = to - e
      /\ \A k \in 1 .. to - e : Run(e + 1, to)[k] = e + k
  BY DEF Run
<1>3. /\ Run(a, to) \in Seq(Int) /\ Len(Run(a, to)) = to - a + 1
      /\ \A k \in 1 .. to - a + 1 : Run(a, to)[k] = a + k - 1
  <2>1. a \in Int /\ to \in Int /\ a <= to + 1
    OBVIOUS
  <2> QED
    BY <2>1, RunOf
<1> DEFINE x == Run(a, e)
           y == Run(e + 1, to)
           z == Run(a, to)
           c == x \o y
<1> HIDE DEF x, y, z
<1>4. /\ c \in Seq(Int) /\ Len(c) = Len(x) + Len(y)
      /\ \A k \in 1 .. Len(x) + Len(y) : c[k] = IF k <= Len(x) THEN x[k] ELSE y[k - Len(x)]
  BY <1>1, <1>2, ConcatProperties DEF x, y
<1> HIDE DEF c
<1>5. Len(x) = e - a + 1 /\ Len(y) = to - e /\ Len(c) = to - a + 1
  <2>1. Len(x) = e - a + 1
    BY <1>1 DEF x
  <2>2. Len(y) = to - e
    BY <1>2 DEF y
  <2> QED
    BY <1>4, <2>1, <2>2
<1>6. ASSUME NEW k \in 1 .. to - a + 1 PROVE c[k] = a + k - 1
  <2>1. k \in 1 .. Len(x) + Len(y)
    BY <1>5
  <2>2. CASE k <= Len(x)
    <3>1. c[k] = x[k] /\ k \in 1 .. e - a + 1
      BY <1>4, <1>5, <2>1, <2>2
    <3> QED
      BY <1>1, <3>1 DEF x
  <2>3. CASE ~(k <= Len(x))
    <3>1. k - Len(x) \in 1 .. to - e /\ k - Len(x) = k - (e - a + 1)
      BY <1>5, <2>3
    <3>2. c[k] = y[k - Len(x)]
      BY <1>4, <2>1, <2>3
    <3>3. c[k] = e + (k - Len(x))
      BY <1>2, <3>1, <3>2 DEF y
    <3> QED
      BY <3>1, <3>3
  <2> QED
    BY <2>2, <2>3
<1>7. z \in Seq(Int) /\ Len(z) = to - a + 1 /\ \A k \in 1 .. to - a + 1 : z[k] = a + k - 1
  BY <1>3 DEF z
<1>8. c = z
  BY <1>4, <1>5, <1>6, <1>7, SeqEqual
<1> QED
  BY <1>8 DEF c, x, y, z

\* A gap stops a stream that is in step, or dooms it, or, when nothing was
\* buffered, leaves it as it was.  Half a sentinel completes the poison's head,
\* and its tail is what dooms the stream.
LEMMA PoisonInStep ==
  ASSUME NEW w, IsWire(w), NEW s \in Stream(w), Idle(w, s), NEW m, NEW e, InStep(w, s, m, e)
  PROVE  Gone(w, Poisoned(w, s)) \/ InStep(w, Poisoned(w, s), m, e)
<1> DEFINE p == <<PoisonHead, PoisonTail>>
           b == s.buf \o p
<1>1. /\ s.desync = FALSE /\ s.started /\ Holds(w, s.buf, m, e) /\ s.buf \in Seq(Buffered(w))
      /\ s.nextSeq = WireSeq(w, e + 1) /\ Complete(w, s.buf) = 0
  BY DEF InStep, Stream, Idle
<1>2. /\ Len(s.buf) \in Nat /\ p \in Seq(Buffered(w)) /\ Len(p) = 2
      /\ p[1] = PoisonHead /\ p[2] = PoisonTail
  BY <1>1 DEF Buffered
<1>3. CASE Len(s.buf) = 0
  <2>1. s.buf = <<>>
    BY <1>1, <1>3, EmptySeq
  <2>2. b = <<PoisonHead, PoisonTail>>
    BY <2>1
  <2> HIDE DEF b
  <2>3. Special(w, b) /\ Len(b) = 2
    BY <2>2 DEF Special, Asks, PoisonHead
  <2>4. Complete(w, b) = 2 /\ Intact(w, SubSeq(b, 1, 2))
    <3>1. Complete(w, b) = 2
      BY <2>3 DEF Complete, HeaderSize
    <3>2. SubSeq(b, 1, 2)[1] = PoisonHead
      BY <2>2
    <3> QED
      BY <3>1, <3>2 DEF Intact, Special, Asks
  <2>5. SubSeq(b, 3, 2) = <<>>
    BY <2>2
  <2>6. Poisoned(w, s) = [s EXCEPT !.buf = <<>>]
    BY <2>3, <2>4, <2>5 DEF Poisoned, b
  <2>7. Poisoned(w, s) = s
    BY <2>1, <2>6 DEF Stream
  <2> QED
    BY <2>7
<1>4. CASE Len(s.buf) # 0
  <2>1. m \in DOMAIN w.sizes
    <3>1. /\ Len(s.buf) = e - StartOf(w, m) + 1 /\ StartOf(w, m) \in Nat /\ e \in Nat
          /\ EndOf(w, Len(w.sizes)) \in Nat /\ m \in Nat /\ Len(w.sizes) \in Nat
          /\ StartOf(w, m) = EndOf(w, m - 1) + 1
      BY <1>1, HoldsOf
    <3>2. m \in 1 .. Len(w.sizes) + 1 /\ e <= EndOf(w, Len(w.sizes))
      BY <1>1, <3>1 DEF Holds
    <3>3. m # Len(w.sizes) + 1
      <4>1. SUFFICES ASSUME m = Len(w.sizes) + 1 PROVE FALSE
        OBVIOUS
      <4>2. m - 1 = Len(w.sizes)
        BY <3>1, <4>1
      <4>3. StartOf(w, m) = EndOf(w, Len(w.sizes)) + 1
        BY <3>1, <4>2
      <4> QED
        BY <1>2, <1>4, <3>1, <3>2, <4>3
    <3>4. DOMAIN w.sizes = 1 .. Len(w.sizes)
      BY WireEnds
    <3> QED
      BY <3>1, <3>2, <3>3, <3>4
  <2>2. /\ AsksFor(w, s.buf, w.sizes[m]) /\ w.sizes[m] >= HeaderSize
        /\ s.buf[1] \in Units(w) /\ w.sizes[m] \in Nat
    <3>1. Len(s.buf) > 0
      BY <1>2, <1>4
    <3>2. w.sizes[m] \in Nat
      BY <2>1, WireEnds
    <3>3. /\ AsksFor(w, s.buf, w.sizes[m]) /\ w.sizes[m] >= HeaderSize
          /\ s.buf[1] \in Units(w)
      BY <1>1, <2>1, <3>1, TakesFront
    <3> QED
      BY <3>2, <3>3
  <2>3. /\ Len(b) = Len(s.buf) + 2 /\ b[1] = s.buf[1]
        /\ b[Len(s.buf) + 1] = PoisonHead /\ b[Len(s.buf) + 2] = PoisonTail
    <3>1. /\ Len(b) = Len(s.buf) + Len(p)
          /\ \A i \in 1 .. Len(s.buf) + Len(p) :
               b[i] = IF i <= Len(s.buf) THEN s.buf[i] ELSE p[i - Len(s.buf)]
      BY <1>1, <1>2, ConcatProperties
    <3> HIDE DEF b, p
    <3>2. /\ 1 <= Len(s.buf) /\ Len(s.buf) + 1 - Len(s.buf) = 1
          /\ Len(s.buf) + 2 - Len(s.buf) = 2
      BY <1>2, <1>4
    <3> QED
      BY <1>2, <3>1, <3>2
  <2>4. CASE Special(w, s.buf)
    <3> HIDE DEF b
    <3>1. Len(s.buf) = 1
      <4>1. Len(s.buf) < 2
        BY <1>1, <2>4, CompleteOf DEF HeaderSize
      <4>2. Len(s.buf) \in Nat /\ Len(s.buf) # 0
        BY <1>2, <1>4
      <4> DEFINE n == Len(s.buf)
      <4>3. n \in Nat /\ n # 0 /\ n < 2
        BY <4>1, <4>2
      <4> HIDE DEF n, p
      <4>4. n = 1
        BY ONLY <4>3
      <4> QED
        BY <4>4 DEF n
    <3>2. Len(b) = 3 /\ Special(w, b) /\ b[3] = PoisonTail
      BY <2>3, <2>4, <3>1 DEF Special
    <3>3. Complete(w, b) = 2
      BY <3>2 DEF Complete, HeaderSize
    <3>4. b \in Seq(Buffered(w))
      BY <1>1, <1>2, ConcatProperties DEF b
    <3>5. /\ SubSeq(b, 1, 2)[1] = b[1]
          /\ Len(SubSeq(b, 3, 3)) = 1 /\ SubSeq(b, 3, 3)[1] = b[3]
      <4>1. 2 \in 0 .. Len(b)
        BY <3>2
      <4> QED
        BY <3>2, <3>4, <4>1, Taken
    <3>6. Intact(w, SubSeq(b, 1, 2))
      BY <3>2, <3>5 DEF Intact, Special
    <3>7. Poisoned(w, s) = [s EXCEPT !.buf = SubSeq(b, 3, 3)]
      BY <3>2, <3>3, <3>6 DEF Poisoned, b
    <3> DEFINE rest == SubSeq(b, 3, 3)
    <3>8. Doomed(w, rest)
      <4>1. Len(rest) = 1 /\ rest[1] = PoisonTail
        BY <3>2, <3>5
      <4> HIDE DEF rest
      <4>2. Asks(w, rest[1]) = HeaderSize
        BY <4>1 DEF Asks, PoisonHead, PoisonTail
      <4> QED
        BY <4>1, <4>2 DEF Doomed, HeaderSize
    <3> HIDE DEF rest
    <3>9. Poisoned(w, s).buf = rest
      BY <3>7 DEF Stream, rest
    <3> QED
      BY <3>8, <3>9 DEF Gone
  <2>5. CASE ~Special(w, s.buf)
    <3>1. Asks(w, s.buf[1]) = w.sizes[m]
      BY <2>2, <2>5 DEF AsksFor
    <3>2. Len(s.buf) < Asks(w, s.buf[1])
      <4>1. Len(s.buf) < HeaderSize \/ Len(s.buf) < Asks(w, s.buf[1])
        BY <1>1, CompleteOf
      <4> QED
        BY <1>2, <2>2, <3>1, <4>1 DEF HeaderSize
    <3>3. Doomed(w, b)
      <4> HIDE DEF b
      <4>1. Len(b) > 0 /\ Asks(w, b[1]) # 0
        BY <1>2, <2>2, <2>3, <3>1 DEF HeaderSize
      <4>2. Len(s.buf) + 1 \in 1 .. Len(b) /\ Len(s.buf) + 1 <= Asks(w, b[1])
        BY <1>2, <2>2, <2>3, <3>1, <3>2
      <4> QED
        BY <2>3, <4>1, <4>2 DEF Doomed
    <3> QED
      BY <3>3, PoisonDooms
  <2> QED
    BY <2>4, <2>5
<1> QED
  BY <1>3, <1>4

\* A payload, and what feeding it to a stream that is in step does: up to `to` if
\* it reaches beyond e; or framing is lost, and no message comes out.
LEMMA FeedInStep ==
  ASSUME NEW w, IsWire(w), NEW who, NEW s, StreamInv(w, s, who), Idle(w, s),
         NEW from \in Nat, NEW to \in Nat, from <= to, from .. to \subseteq Units(w),
         NEW ref \in Nat, \A u \in from .. to : <<ref, u>> \in who,
         NEW m, NEW e, InStep(w, s, m, e),
         NEW o, o = FeedTCP(w, s, from, to, ref)
  PROVE  \/ GoesOn(w, o, m, IF to > e THEN to ELSE e)
         \/ o.lost /\ o.out = <<>> /\ (Gone(w, o.stream) \/ InStep(w, o.stream, m, e))
<1> DEFINE t == EndOf(w, Len(w.sizes))
           seq == WireSeq(w, from)
           skip == Skip(w, s, from)
<1>1. /\ s.desync = FALSE /\ s.started /\ Holds(w, s.buf, m, e) /\ s.nextSeq = WireSeq(w, e + 1)
      /\ s \in Stream(w)
  BY DEF InStep, StreamInv
<1>2. /\ m \in Nat \ {0} /\ e \in Nat /\ t \in Nat /\ StartOf(w, m) \in Nat \ {0}
      /\ StartOf(w, m) <= e + 1 /\ e <= t /\ m \in 1 .. Len(w.sizes) + 1
      /\ s.buf = Run(StartOf(w, m), e)
  <2>1. m \in Nat \ {0} /\ e \in Nat /\ t \in Nat /\ StartOf(w, m) \in Nat \ {0}
    BY <1>1, HoldsOf
  <2> QED
    BY <1>1, <2>1 DEF Holds
<1>3. from \in 1 .. t /\ to \in 1 .. t /\ 2 * t < Modulus /\ e + 1 \in 1 .. t + 1
  <2>1. from \in Units(w) /\ to \in Units(w)
    OBVIOUS
  <2>2. 2 * t < Modulus
    BY DEF IsWire
  <2> QED
    BY <1>2, <2>1, <2>2 DEF Units
<1>4. /\ seq = s.nextSeq <=> from = e + 1
      /\ SeqLess(seq, s.nextSeq) <=> from < e + 1
      /\ from < e + 1 => skip = e + 1 - from
  <2> HIDE DEF t
  <2> QED
    BY <1>1, <1>2, <1>3, NumbersCompare DEF Skip
<1>5. ASSUME e < to PROVE Holds(w, s.buf \o Run(e + 1, to), m, to)
  <2>1. s.buf \o Run(e + 1, to) = Run(StartOf(w, m), to)
    <3> DEFINE a == StartOf(w, m)
    <3>1. a \in Nat /\ a <= e + 1 /\ e \in Nat /\ s.buf = Run(a, e)
      BY <1>2
    <3> HIDE DEF a
    <3>2. Run(a, e) \o Run(e + 1, to) = Run(a, to)
      BY <1>5, <3>1, RunsJoin
    <3> QED
      BY <3>1, <3>2 DEF a
  <2> QED
    BY <1>2, <1>3, <1>5, <2>1 DEF Holds
<1>6. ASSUME e < to, from <= e + 1 PROVE GoesOn(w, Accept(w, s, e + 1, to, ref), m, to)
  <2>1. e + 1 \in Nat /\ e + 1 <= to /\ e + 1 .. to \subseteq from .. to
    BY <1>2, <1>6
  <2>2. e + 1 .. to \subseteq Units(w) /\ \A u \in e + 1 .. to : <<ref, u>> \in who
    BY <2>1
  <2>3. Holds(w, s.buf \o Run(e + 1, to), m, to)
    BY <1>5, <1>6
  <2> QED
    BY <1>1, <2>1, <2>2, <2>3, AcceptGoesOn
<1> HIDE DEF t, seq, skip
<1>7. CASE from = e + 1
  <2>1. o = Accept(w, s, from, to, ref)
    BY <1>1, <1>4, <1>7 DEF FeedTCP, seq
  <2>2. e < to
    BY <1>2, <1>7
  <2> QED
    BY <1>6, <1>7, <2>1, <2>2, <1>2
<1>8. CASE from < e + 1
  <2>1. seq # s.nextSeq /\ SeqLess(seq, s.nextSeq) /\ skip = e + 1 - from
    BY <1>2, <1>4, <1>8
  <2>2. CASE to <= e
    <3>1. skip >= to - from + 1
      BY <1>2, <2>1, <2>2
    <3>2. o = Outcome(s, <<>>, FALSE)
      BY <1>1, <2>1, <3>1 DEF FeedTCP, seq, skip
    <3>3. o.stream = s /\ o.out = <<>> /\ o.lost = FALSE
      BY <3>2 DEF Outcome
    <3>4. AreNext(w, <<>>, m) /\ Len(<<>>) = 0 /\ DOMAIN <<>> = 1 .. 0 /\ m + 0 = m
      BY <1>2 DEF AreNext
    <3>5. GoesOn(w, o, m, e)
      BY <3>3, <3>4 DEF GoesOn
    <3> QED
      BY <1>2, <2>2, <3>5
  <2>3. CASE e < to
    <3>1. ~(skip >= to - from + 1) /\ from + skip = e + 1 /\ from <= e + 1
      BY <1>2, <1>8, <2>1, <2>3
    <3>2. o = Accept(w, s, from + skip, to, ref)
      BY <1>1, <2>1, <3>1 DEF FeedTCP, seq, skip
    <3> QED
      BY <1>2, <1>6, <2>3, <3>1, <3>2
  <2> QED
    BY <1>2, <2>2, <2>3
<1>9. CASE from > e + 1
  <2>1. seq # s.nextSeq /\ ~SeqLess(seq, s.nextSeq)
    BY <1>2, <1>4, <1>9
  <2>2. o = Outcome(Poisoned(w, s), <<>>, TRUE)
    BY <1>1, <2>1 DEF FeedTCP, seq
  <2>3. o.stream = Poisoned(w, s) /\ o.out = <<>> /\ o.lost
    BY <2>2 DEF Outcome
  <2> QED
    BY <1>1, <2>3, PoisonInStep
<1> QED
  BY <1>2, <1>7, <1>8, <1>9

\* The first payload begins with message m.
LEMMA FeedStarts ==
  ASSUME NEW w, IsWire(w), NEW who, StreamInv(w, NewStream, who),
         NEW from \in Nat, NEW to \in Nat, from <= to, from .. to \subseteq Units(w),
         NEW ref \in Nat, \A u \in from .. to : <<ref, u>> \in who,
         NEW m \in DOMAIN w.sizes, from = StartOf(w, m)
  PROVE  GoesOn(w, FeedTCP(w, NewStream, from, to, ref), m, to)
<1> DEFINE s == NewStream
<1>1. s.desync = FALSE /\ ~s.started /\ s.buf = <<>>
  BY DEF NewStream
<1> HIDE DEF s
<1>2. FeedTCP(w, s, from, to, ref) = Accept(w, s, from, to, ref)
  BY <1>1 DEF FeedTCP
<1>3. s.buf \o Run(from, to) = Run(from, to)
  <2>1. Run(from, to) \in Seq(Int)
    BY RunOf
  <2> QED
    BY <1>1, <2>1, ConcatEmptySeq
<1>4. Holds(w, s.buf \o Run(from, to), m, to)
  <2>1. to \in Units(w) /\ EndOf(w, Len(w.sizes)) \in Nat /\ DOMAIN w.sizes = 1 .. Len(w.sizes)
        /\ Len(w.sizes) \in Nat
    BY WireEnds
  <2> QED
    BY <1>3, <2>1 DEF Holds, Units
<1> QED
  BY <1>1, <1>2, <1>4, AcceptGoesOn DEF s

\* A payload brings nothing out of a stream that is gone.
LEMMA FeedGone ==
  ASSUME NEW w, IsWire(w), NEW who, NEW s, StreamInv(w, s, who), Idle(w, s), Gone(w, s),
         NEW from \in Nat, NEW to \in Nat, from <= to, from .. to \subseteq Units(w),
         NEW ref \in Nat, \A u \in from .. to : <<ref, u>> \in who,
         NEW o, o = FeedTCP(w, s, from, to, ref)
  PROVE  Gone(w, o.stream) /\ o.out = <<>>
<1> DEFINE seq == WireSeq(w, from)
           skip == Skip(w, s, from)
<1>1. s \in Stream(w) /\ s.nextSeq \in 0 .. Modulus - 1
  BY DEF StreamInv, Stream
<1>2. CASE o = Outcome(s, <<>>, FALSE)
  BY <1>2 DEF Outcome
<1>3. ASSUME ~s.desync, NEW first \in Nat, first <= to, first >= from,
             o = Accept(w, s, first, to, ref)
      PROVE  Gone(w, o.stream) /\ o.out = <<>>
  <2>1. first .. to \subseteq Units(w) /\ \A u \in first .. to : <<ref, u>> \in who
    BY <1>3
  <2> HIDE DEF seq, skip
  <2>2. /\ Gone(w, Accept(w, s, first, to, ref).stream)
        /\ Accept(w, s, first, to, ref).out = <<>>
    BY <1>3, <2>1, AcceptGone
  <2> QED
    BY <1>3, <2>2
<1>4. CASE ~s.desync /\ o = Outcome(Poisoned(w, s), <<>>, TRUE)
  <2>1. o.stream = Poisoned(w, s) /\ o.out = <<>>
    BY <1>4 DEF Outcome
  <2>2. s.buf \in Seq(Int) /\ <<PoisonHead, PoisonTail>> \in Seq(Int)
    <3>1. s.buf \in Seq(Buffered(w))
      BY <1>1 DEF Stream
    <3> QED
      BY <3>1, BufferedAreIntegers, SeqMonotonic DEF PoisonHead, PoisonTail
  <2>3. Doomed(w, s.buf \o <<PoisonHead, PoisonTail>>)
    BY <1>4, <2>2, DoomedStays DEF Gone
  <2> QED
    BY <1>1, <2>1, <2>3, PoisonDooms
<1>5. skip \in Nat
  <2>1. seq \in 0 .. Modulus - 1
    BY NumberOf
  <2>2. s.nextSeq - seq \in Int
    BY <1>1, <2>1, ModulusAssumption
  <2>3. skip \in 0 .. Modulus - 1
    BY <2>2, Residue DEF Skip
  <2> QED
    BY <2>3, ModulusAssumption
<1>6. \/ o = Outcome(s, <<>>, FALSE)
      \/ ~s.desync /\ o = Accept(w, s, from, to, ref)
      \/ ~s.desync /\ ~(skip >= to - from + 1) /\ o = Accept(w, s, from + skip, to, ref)
      \/ ~s.desync /\ o = Outcome(Poisoned(w, s), <<>>, TRUE)
  BY DEF FeedTCP
<1> HIDE DEF skip
<1>7. ~(skip >= to - from + 1) =>
        from + skip \in Nat /\ from + skip <= to /\ from + skip >= from
  BY <1>5
<1>8. CASE ~s.desync /\ o = Accept(w, s, from, to, ref)
  BY <1>3, <1>8
<1>9. CASE ~s.desync /\ ~(skip >= to - from + 1) /\ o = Accept(w, s, from + skip, to, ref)
  BY <1>3, <1>7, <1>9
<1> QED
  BY <1>2, <1>4, <1>6, <1>8, <1>9

-----------------------------------------------------------------------------
(* Records in a row                                                        *)

\* How many records a link has.
CountOf(p, link) == Cardinality(RecordsOf(p, link))

IsMessage(r, m) ==
  r.units = Run(StartOf(Wire[r.link], m), EndOf(Wire[r.link], m))

\* A link's records are the messages from m0 on, and none is missing.
Row(p, link, m0) ==
  /\ AreMessagesFrom(p, link, m0)
  /\ \A m \in m0 .. m0 + CountOf(p, link) - 1 :
       \E n \in RecordsOf(p, link) : IsMessage(p.records[n], m)

\* A link has as many records after as before, and the same.
SameRow(p, q, link) ==
  /\ RecordsOf(q, link) = RecordsOf(p, link)
  /\ \A n \in RecordsOf(p, link) : q.records[n] = p.records[n]

\* The records of a link are some of the pipeline's.
LEMMA RecordsFinite ==
  ASSUME NEW p, p.records \in Seq(Records), NEW link
  PROVE  /\ RecordsOf(p, link) \subseteq 1 .. Len(p.records) /\ Len(p.records) \in Nat
         /\ IsFiniteSet(RecordsOf(p, link)) /\ CountOf(p, link) \in Nat
         /\ \A n \in RecordsOf(p, link) : p.records[n].link = link
<1>1. Len(p.records) \in Nat /\ DOMAIN p.records = 1 .. Len(p.records)
  OBVIOUS
<1>2. RecordsOf(p, link) \subseteq 1 .. Len(p.records)
  BY <1>1 DEF RecordsOf
<1>3. IsFiniteSet(1 .. Len(p.records))
  BY <1>1, FS_Interval
<1>4. IsFiniteSet(RecordsOf(p, link))
  BY <1>2, <1>3, FS_Subset
<1>5. CountOf(p, link) \in Nat
  BY <1>4, FS_CardinalityType DEF CountOf
<1> QED
  BY <1>1, <1>2, <1>4, <1>5 DEF RecordsOf

\* What a row says depends on the records of the link only.
LEMMA RowStays ==
  ASSUME NEW p, NEW q, NEW link, SameRow(p, q, link)
  PROVE  /\ CountOf(q, link) = CountOf(p, link)
         /\ \A m0 : Row(p, link, m0) => Row(q, link, m0)
<1>1. CountOf(q, link) = CountOf(p, link)
  BY DEF SameRow, CountOf
<1>2. ASSUME NEW m0, Row(p, link, m0) PROVE Row(q, link, m0)
  <2>1. AreMessagesFrom(q, link, m0)
    BY <1>2 DEF Row, AreMessagesFrom, SameRow
  <2>2. \A m \in m0 .. m0 + CountOf(q, link) - 1 :
          \E n \in RecordsOf(q, link) : IsMessage(q.records[n], m)
    <3> TAKE m \in m0 .. m0 + CountOf(q, link) - 1
    <3>1. PICK n \in RecordsOf(p, link) : IsMessage(p.records[n], m)
      BY <1>1, <1>2 DEF Row
    <3> QED
      BY <3>1 DEF SameRow
  <2> QED
    BY <2>1, <2>2 DEF Row
<1> QED
  BY <1>1, <1>2

\* One record more on a link: the next message continues the row, and the rows of
\* the other links stay.
LEMMA RowGrows ==
  ASSUME NEW p, p.records \in Seq(Records), NEW r \in Records, NEW link, r.link = link,
         NEW q, q.records = Append(p.records, r)
  PROVE  /\ \A k : k # link => SameRow(p, q, k)
         /\ CountOf(q, link) = CountOf(p, link) + 1
         /\ \A m0 \in Nat :
              Row(p, link, m0) /\ m0 + CountOf(p, link) \in DOMAIN Wire[link].sizes
                /\ IsMessage(r, m0 + CountOf(p, link))
              => Row(q, link, m0)
<1> DEFINE N == Len(p.records)
           S == RecordsOf(p, link)
           c == CountOf(p, link)
<1>1. /\ N \in Nat /\ DOMAIN p.records = 1 .. N /\ DOMAIN q.records = 1 .. N + 1
      /\ q.records[N + 1] = r /\ \A n \in 1 .. N : q.records[n] = p.records[n]
  OBVIOUS
<1>2. /\ S \subseteq 1 .. N /\ IsFiniteSet(S) /\ c \in Nat /\ c = Cardinality(S)
      /\ \A n \in S : p.records[n].link = link
  BY RecordsFinite DEF CountOf
<1>3. ASSUME NEW k, k # link PROVE SameRow(p, q, k)
  <2>1. RecordsOf(q, k) = RecordsOf(p, k)
    <3>1. \A n \in 1 .. N + 1 : n \in 1 .. N \/ n = N + 1
      BY <1>1
    <3>2. 1 .. N \subseteq 1 .. N + 1
      BY <1>1
    <3> HIDE DEF N
    <3> QED
      BY <1>1, <1>3, <3>1, <3>2 DEF RecordsOf
  <2> QED
    BY <1>1, <2>1 DEF SameRow, RecordsOf
<1> HIDE DEF N, S, c
<1>4. RecordsOf(q, link) = S \cup {N + 1}
  <2>1. \A n \in 1 .. N + 1 : n \in 1 .. N \/ n = N + 1
    BY <1>1
  <2>2. 1 .. N \subseteq 1 .. N + 1 /\ N + 1 \in 1 .. N + 1
    BY <1>1
  <2> QED
    BY <1>1, <2>1, <2>2 DEF RecordsOf, S
<1>5. N + 1 \notin S
  BY <1>1, <1>2
<1>6. Cardinality(RecordsOf(q, link)) = c + 1
  BY <1>2, <1>4, <1>5, FS_AddElement
<1>7. \A n \in S : q.records[n] = p.records[n] /\ n < N + 1 /\ n \in Nat
  BY <1>1, <1>2
<1>8. ASSUME NEW m0 \in Nat, Row(p, link, m0), m0 + c \in DOMAIN Wire[link].sizes, IsMessage(r, m0 + c)
      PROVE  Row(q, link, m0)
  <2>1. ASSUME NEW n \in RecordsOf(q, link)
        PROVE  LET m == m0 + Cardinality({k \in RecordsOf(q, link) : k < n})
               IN  m \in DOMAIN Wire[link].sizes
                   /\ q.records[n].units = Run(StartOf(Wire[link], m), EndOf(Wire[link], m))
    <3>1. CASE n = N + 1
      <4>1. {k \in RecordsOf(q, link) : k < n} = S
        BY <1>1, <1>4, <1>7, <3>1
      <4>2. Cardinality({k \in RecordsOf(q, link) : k < n}) = c
        BY <1>2, <4>1
      <4>3. q.records[n].units = Run(StartOf(Wire[link], m0 + c), EndOf(Wire[link], m0 + c))
        BY <1>1, <1>8, <3>1 DEF IsMessage
      <4> QED
        BY <1>8, <4>2, <4>3
    <3>2. CASE n \in S
      <4>1. {k \in RecordsOf(q, link) : k < n} = {k \in S : k < n}
        <5>1. ~(N + 1 < n)
          BY <1>1, <1>7, <3>2
        <5> QED
          BY <1>4, <5>1
      <4>2. q.records[n] = p.records[n]
        BY <1>7, <3>2
      <4> QED
        BY <1>8, <3>2, <4>1, <4>2 DEF Row, AreMessagesFrom, S
    <3> QED
      BY <1>4, <2>1, <3>1, <3>2
  <2>2. ASSUME NEW m \in m0 .. m0 + (c + 1) - 1
        PROVE  \E n \in RecordsOf(q, link) : IsMessage(q.records[n], m)
    <3>1. CASE m = m0 + c
      BY <1>1, <1>4, <1>8, <3>1
    <3>2. CASE m # m0 + c
      <4>1. m \in m0 .. m0 + c - 1
        BY <1>2, <3>2
      <4>2. PICK n \in S : IsMessage(p.records[n], m)
        BY <1>8, <4>1 DEF Row, S, c
      <4> QED
        BY <1>4, <1>7, <4>2
    <3> QED
      BY <3>1, <3>2
  <2> QED
    BY <1>6, <2>1, <2>2 DEF Row, AreMessagesFrom, CountOf
<1> QED
  BY <1>3, <1>6, <1>8 DEF CountOf, c

\* What message m shows of the tables; a sentinel shows nothing.
Elements(w, m) ==
  IF IsSentinel(w, m) \/ w.says[m].status = "unknown" THEN {}
  ELSE {[type |-> w.says[m].type, decoded |-> d] : d \in {FALSE, w.says[m].status = "decoded"}}

Novelties(w, m) ==
  IF ~IsSentinel(w, m) /\ w.says[m].status \in {"opcode", "unknown"}
  THEN {w.says[m].type} ELSE {}

Shows(r, x) ==
  /\ ~r.link.udp
  /\ \E m \in DOMAIN Wire[r.link].sizes : IsMessage(r, m) /\ x \in Elements(Wire[r.link], m)

ShowsNovel(r, x) ==
  /\ ~r.link.udp
  /\ \E m \in DOMAIN Wire[r.link].sizes : IsMessage(r, m) /\ x \in Novelties(Wire[r.link], m)

\* A pipeline has seen exactly what its records show.
SeesRecords(p) ==
  /\ \A x : x \in p.observed <=> \E n \in 1 .. Len(p.records) : Shows(p.records[n], x)
  /\ \A x : x \in p.novel <=> \E n \in 1 .. Len(p.records) : ShowsNovel(p.records[n], x)

\* Interpreting a message adds its record, and what it shows.
LEMMA InterpretRecords ==
  ASSUME NEW who, NEW p, PipelineInv(p, who), NEW link \in TCPLinks,
         NEW message, Good(Wire[link], message, who[link]),
         NEW q, q = Interpret(p, link, message)
  PROVE  \E r \in Records :
           /\ r.link = link /\ r.units = message.units
           /\ q.records = Append(p.records, r)
           /\ \A x : x \in q.observed <=> x \in p.observed \/ Shows(r, x)
           /\ \A x : x \in q.novel <=> x \in p.novel \/ ShowsNovel(r, x)
<1> DEFINE w == Wire[link]
           raw == message.units
           m == MessageOf(w, raw)
           say == w.says[m]
           status == IF Special(w, raw) THEN "decoded" ELSE say.status
           r == Record(link, raw, message.frames, status)
<1>1. /\ link \in Links /\ link.udp = FALSE /\ IsWire(w)
      /\ \A k \in DOMAIN w.sizes : w.says[k].status \in Statuses
  BY WireOf
<1>2. /\ raw \in Seq(Units(w)) /\ Len(raw) > 0 /\ Intact(w, raw) /\ message.frames \in Seq(Nat)
  BY DEF Good
<1>3. p \in Pipeline
  BY DEF PipelineInv
<1> HIDE DEF w, raw
<1>4. /\ ~Special(w, raw) => m \in DOMAIN w.sizes /\ raw = Run(StartOf(w, m), EndOf(w, m))
      /\ \A k \in DOMAIN w.sizes :
           raw = Run(StartOf(w, k), EndOf(w, k)) =>
             (Special(w, raw) <=> IsSentinel(w, k)) /\ k = m
  BY <1>1, <1>2, MessageFound
<1> HIDE DEF m
<1>5. r \in Records /\ r.link = link /\ r.units = raw
  <2>1. status \in Statuses
    BY <1>1, <1>4 DEF Statuses
  <2>2. raw \in Seq(Int)
    <3>1. Units(w) \subseteq Int
      BY <1>1, BufferedAreIntegers DEF Buffered
    <3> QED
      BY <1>2, <3>1, SeqMonotonic
  <2> HIDE DEF status
  <2> QED
    BY <1>1, <1>2, <2>1, <2>2 DEF Record, Records
<1>6. /\ \A k \in DOMAIN w.sizes :
           IsMessage(r, k) => (Special(w, raw) <=> IsSentinel(w, k)) /\ k = m
      /\ ~Special(w, raw) => m \in DOMAIN w.sizes /\ IsMessage(r, m)
  BY <1>4, <1>5 DEF IsMessage, w
<1>7. /\ \A x : Shows(r, x) <=> ~Special(w, raw) /\ x \in Elements(w, m)
      /\ \A x : ShowsNovel(r, x) <=> ~Special(w, raw) /\ x \in Novelties(w, m)
  <2> HIDE DEF r
  <2>1. ~r.link.udp /\ Wire[r.link] = w
    BY <1>1, <1>5 DEF w
  <2>2. \A x : Shows(r, x) <=> \E k \in DOMAIN w.sizes : IsMessage(r, k) /\ x \in Elements(w, k)
    BY <2>1 DEF Shows
  <2>3. \A x : ShowsNovel(r, x) <=>
               \E k \in DOMAIN w.sizes : IsMessage(r, k) /\ x \in Novelties(w, k)
    BY <2>1 DEF ShowsNovel
  <2>4. IsSentinel(w, m) => Elements(w, m) = {} /\ Novelties(w, m) = {}
    BY DEF Elements, Novelties
  <2> QED
    BY <1>6, <2>2, <2>3, <2>4
<1>8. CASE Special(w, raw)
  <2>1. q = [p EXCEPT !.records = Append(p.records, r)]
    BY <1>8 DEF Interpret, w, raw
  <2> HIDE DEF r
  <2>2. q.records = Append(p.records, r) /\ q.observed = p.observed /\ q.novel = p.novel
    BY <1>3, <2>1 DEF Pipeline
  <2> QED
    BY <1>5, <1>7, <1>8, <2>2 DEF raw
<1>9. CASE ~Special(w, raw)
  <2> DEFINE observed == IF say.status = "unknown" THEN p.observed
                         ELSE p.observed \cup {[type |-> say.type, decoded |-> d] :
                                                 d \in {FALSE, say.status = "decoded"}}
             novel == IF say.status \in {"opcode", "unknown"} THEN p.novel \cup {say.type} ELSE p.novel
             table == AnnounceDedicated(p.table, say.announces)
  <2>1. q = [p EXCEPT !.table = table, !.records = Append(p.records, r),
                      !.observed = observed, !.novel = novel]
    BY <1>9 DEF Interpret, w, raw, m
  <2>2. observed = p.observed \cup Elements(w, m) /\ novel = p.novel \cup Novelties(w, m)
    <3>1. ~IsSentinel(w, m)
      BY <1>6, <1>9
    <3> QED
      BY <3>1 DEF Elements, Novelties
  <2> HIDE DEF r, observed, novel, table, say
  <2>3. q.records = Append(p.records, r) /\ q.observed = observed /\ q.novel = novel
    BY <1>3, <2>1 DEF Pipeline
  <2>4. \A x : x \in q.observed <=> x \in p.observed \/ Shows(r, x)
    BY <1>7, <1>9, <2>2, <2>3
  <2>5. \A x : x \in q.novel <=> x \in p.novel \/ ShowsNovel(r, x)
    BY <1>7, <1>9, <2>2, <2>3
  <2> QED
    BY <1>5, <2>3, <2>4, <2>5 DEF raw
<1> QED
  BY <1>8, <1>9

\* What a pipeline has seen stays what its records show.
LEMMA SeesMore ==
  ASSUME NEW p, p.records \in Seq(Records), SeesRecords(p), NEW r \in Records,
         NEW q, q.records = Append(p.records, r),
         \A x : x \in q.observed <=> x \in p.observed \/ Shows(r, x),
         \A x : x \in q.novel <=> x \in p.novel \/ ShowsNovel(r, x)
  PROVE  SeesRecords(q)
<1> DEFINE N == Len(p.records)
<1>1. /\ N \in Nat /\ Len(q.records) = N + 1 /\ q.records[N + 1] = r
      /\ \A n \in 1 .. N : q.records[n] = p.records[n]
  OBVIOUS
<1> HIDE DEF N
<1>2. /\ \A n \in 1 .. N + 1 : n \in 1 .. N \/ n = N + 1
      /\ 1 .. N \subseteq 1 .. N + 1 /\ N + 1 \in 1 .. N + 1
  BY <1>1
<1>3. \A x : (\E n \in 1 .. N + 1 : Shows(q.records[n], x)) <=>
             Shows(r, x) \/ \E n \in 1 .. N : Shows(p.records[n], x)
  BY <1>1, <1>2
<1>4. \A x : (\E n \in 1 .. N + 1 : ShowsNovel(q.records[n], x)) <=>
             ShowsNovel(r, x) \/ \E n \in 1 .. N : ShowsNovel(p.records[n], x)
  BY <1>1, <1>2
<1> QED
  BY <1>1, <1>3, <1>4 DEF SeesRecords, N

\* Interpreting the messages of one payload.
LEMMA InterpretedRecords ==
  ASSUME NEW who, NEW p, PipelineInv(p, who), NEW link \in TCPLinks,
         NEW messages, GoodOut(Wire[link], messages, who[link]),
         NEW q, q = Interpreted(p, link, messages)
  PROVE  /\ \A k : k # link => SameRow(p, q, k)
         /\ CountOf(q, link) = CountOf(p, link) + Len(messages)
         /\ \A m0 \in Nat :
              Row(p, link, m0) /\ AreNext(Wire[link], messages, m0 + CountOf(p, link))
              => Row(q, link, m0)
         /\ SeesRecords(p) => SeesRecords(q)
<1> DEFINE n == Len(messages)
           w == Wire[link]
           c == CountOf(p, link)
           After(k, r) ==
             /\ PipelineInv(r, who)
             /\ \A l : l # link => SameRow(p, r, l)
             /\ CountOf(r, link) = c + k
             /\ \A m0 \in Nat : Row(p, link, m0) /\ AreNext(w, messages, m0 + c) => Row(r, link, m0)
             /\ SeesRecords(p) => SeesRecords(r)
<1>1. n \in Nat /\ \A k \in 1 .. n : Good(w, messages[k], who[link])
  BY DEF GoodOut
<1>2. c \in Nat
  BY RecordsFinite DEF PipelineInv, Pipeline
<1>3. PICK f :
        /\ q = f[n]
        /\ f[0] = p
        /\ \A k \in 1 .. n : f[k] = Interpret(f[k - 1], link, messages[k])
  BY <1>1, InterpretedOf
<1> HIDE DEF n, w, c
<1>4. After(0, p)
  <2>1. \A l : SameRow(p, p, l)
    BY DEF SameRow
  <2>2. CountOf(p, link) = c + 0
    BY <1>2 DEF c
  <2> QED
    BY <2>1, <2>2
<1>5. ASSUME NEW k \in 1 .. n, NEW t, After(k - 1, t), NEW u, u = Interpret(t, link, messages[k])
      PROVE  After(k, u)
  <2>1. PipelineInv(t, who) /\ Good(w, messages[k], who[link]) /\ t.records \in Seq(Records)
    BY <1>1, <1>5 DEF PipelineInv, Pipeline
  <2>2. PipelineInv(u, who)
    BY <1>5, <2>1, InterpretKeeps DEF w
  <2>3. PICK r \in Records :
          /\ r.link = link /\ r.units = messages[k].units
          /\ u.records = Append(t.records, r)
          /\ \A x : x \in u.observed <=> x \in t.observed \/ Shows(r, x)
          /\ \A x : x \in u.novel <=> x \in t.novel \/ ShowsNovel(r, x)
    BY <1>5, <2>1, InterpretRecords DEF w
  <2>4. /\ \A l : l # link => SameRow(t, u, l)
        /\ CountOf(u, link) = CountOf(t, link) + 1
        /\ \A m0 \in Nat :
             Row(t, link, m0) /\ m0 + CountOf(t, link) \in DOMAIN w.sizes
               /\ IsMessage(r, m0 + CountOf(t, link))
             => Row(u, link, m0)
    BY <2>1, <2>3, RowGrows DEF w
  <2>5. CountOf(t, link) = c + (k - 1) /\ CountOf(u, link) = c + k
    BY <1>2, <1>5, <2>4
  <2>6. \A l : l # link => SameRow(p, u, l)
    BY <1>5, <2>4 DEF SameRow
  <2>7. ASSUME NEW m0 \in Nat, Row(p, link, m0), AreNext(w, messages, m0 + c)
        PROVE  Row(u, link, m0)
    <3>1. Row(t, link, m0)
      BY <1>5, <2>7
    <3>2. /\ m0 + c + k - 1 \in DOMAIN w.sizes
          /\ messages[k].units = Run(StartOf(w, m0 + c + k - 1), EndOf(w, m0 + c + k - 1))
      BY <2>7 DEF AreNext, n
    <3>3. m0 + CountOf(t, link) = m0 + c + k - 1
      BY <1>2, <2>5
    <3>4. IsMessage(r, m0 + CountOf(t, link))
      BY <2>3, <3>2, <3>3 DEF IsMessage, w
    <3> QED
      BY <2>4, <3>1, <3>2, <3>3, <3>4
  <2>8. SeesRecords(p) => SeesRecords(u)
    BY <1>5, <2>1, <2>3, SeesMore
  <2> QED
    BY <2>2, <2>5, <2>6, <2>7, <2>8
<1> HIDE DEF After
<1> DEFINE S == {k \in 0 .. n : After(k, f[k])}
<1>6. 0 \in S
  BY <1>1, <1>3, <1>4
<1>7. ASSUME NEW k \in 1 .. n, k - 1 \in S PROVE k \in S
  BY <1>1, <1>3, <1>5, <1>7
<1> HIDE DEF S
<1>8. \A k \in 0 .. n : k \in S
  BY <1>1, <1>6, <1>7, Upward
<1>9. After(n, q)
  BY <1>1, <1>3, <1>8 DEF S
<1> QED
  BY <1>9 DEF After, c, n, w

-----------------------------------------------------------------------------
(* A link                                                                  *)

\* Of a TCP link: its first payload has not been fed; or, if that began with
\* message m0, its records are the messages from m0 on, and its stream is in step
\* with them or gone; and while its connection names no loss it has all that was
\* fed, up to last.
LinkInv(p, link, last) ==
  LET w == Wire[link]
      s == p.streams[link]
  IN  /\ p.began[link] = 0 => s = NewStream /\ RecordsOf(p, link) = {} /\ last = 0
      /\ p.began[link] # 0 => Lookup(p.table, link) # {} /\ p.began[link] \in Units(w)
      /\ \A m0 \in DOMAIN w.sizes : p.began[link] = StartOf(w, m0) =>
           /\ Row(p, link, m0)
           /\ Gone(w, s) \/ \E e : InStep(w, s, m0 + CountOf(p, link), e)
           /\ DesyncAt(p, link) = 0 => InStep(w, s, m0 + CountOf(p, link), last)

\* What a link's invariant depends on.
LEMMA LinkStays ==
  ASSUME NEW p, NEW q, NEW link \in TCPLinks, NEW last, LinkInv(p, link, last),
         q.streams[link] = p.streams[link], q.began[link] = p.began[link], SameRow(p, q, link),
         Lookup(p.table, link) # {} =>
           Lookup(q.table, link) # {} /\ (DesyncAt(q, link) = 0 => DesyncAt(p, link) = 0)
  PROVE  LinkInv(q, link, last)
<1> DEFINE w == Wire[link]
           s == p.streams[link]
<1>1. /\ p.began[link] = 0 => s = NewStream /\ RecordsOf(p, link) = {} /\ last = 0
      /\ p.began[link] # 0 => Lookup(p.table, link) # {} /\ p.began[link] \in Units(w)
  BY DEF LinkInv
<1>2. ASSUME NEW m0 \in DOMAIN w.sizes, p.began[link] = StartOf(w, m0)
      PROVE  /\ Row(q, link, m0) /\ CountOf(q, link) = CountOf(p, link)
             /\ Gone(w, s) \/ \E e : InStep(w, s, m0 + CountOf(q, link), e)
             /\ DesyncAt(q, link) = 0 => InStep(w, s, m0 + CountOf(q, link), last)
  <2>1. /\ Row(p, link, m0)
        /\ Gone(w, s) \/ \E e : InStep(w, s, m0 + CountOf(p, link), e)
        /\ DesyncAt(p, link) = 0 => InStep(w, s, m0 + CountOf(p, link), last)
    BY <1>2 DEF LinkInv
  <2>2. Row(q, link, m0) /\ CountOf(q, link) = CountOf(p, link)
    BY <2>1, RowStays
  <2>3. p.began[link] # 0
    <3>1. IsWire(w)
      BY WireOf
    <3>2. StartOf(w, m0) # 0
      BY <3>1, WireEnds
    <3> QED
      BY <1>2, <3>2
  <2>4. DesyncAt(q, link) = 0 => DesyncAt(p, link) = 0
    BY <1>1, <2>3
  <2> QED
    BY <2>1, <2>2, <2>4
<1>3. RecordsOf(q, link) = RecordsOf(p, link)
  BY DEF SameRow
<1> QED
  BY <1>1, <1>2, <1>3 DEF LinkInv

\* A connection that names no loss after a frame named none before it, and the
\* frame was not lost for it.
LEMMA NoLoss ==
  ASSUME NEW p, TableInv(p.table), NEW q, TableInv(q.table), NEW ref \in Nat \ {0}, NEW f,
         Feeds(p, q, ref, f), NEW link, Lookup(p.table, link) # {}
  PROVE  /\ Lookup(q.table, link) # {}
         /\ DesyncAt(q, link) = 0 =>
              DesyncAt(p, link) = 0 /\ (link = f.link => ~LostAt(p, q, f))
<1>1. /\ Lookup(q.table, link) = Lookup(p.table, link)
      /\ ConnOf(q.table, link) = ConnOf(p.table, link)
  BY SameLookup DEF Feeds
<1>2. ConnOf(p.table, link) \in 1 .. Len(p.table.conns)
  BY LookupOf
<1>3. q.table.conns[ConnOf(p.table, link)].desyncAt =
        IF /\ LostAt(p, q, f) /\ ConnOf(p.table, link) = ConnOf(p.table, f.link)
           /\ p.table.conns[ConnOf(p.table, link)].desyncAt = 0
        THEN ref ELSE p.table.conns[ConnOf(p.table, link)].desyncAt
  BY <1>2 DEF Feeds
<1> QED
  BY <1>1, <1>3 DEF DesyncAt

\* The pipeline when the messages of a payload have been interpreted.
ReadOf(p, ref, f) == Interpreted(Streamed(p, ref, f), f.link, OutcomeOf(p, ref, f).out)

\* What is known of a payload, of the stream it is fed to, and of the records.
Fed(p, who, ref, f) ==
  /\ f.from \in Nat /\ f.to \in Nat /\ f.link \in Links /\ f.link.udp = FALSE
  /\ IsWire(Wire[f.link]) /\ f.from .. f.to \subseteq Units(Wire[f.link])
  /\ FedInv(Wire[f.link], p.streams[f.link], f.from, OutcomeOf(p, ref, f), who[f.link])
  /\ PipelineInv(Streamed(p, ref, f), who)
  /\ Streamed(p, ref, f).records = p.records
  /\ Streamed(p, ref, f).observed = p.observed /\ Streamed(p, ref, f).novel = p.novel
  /\ PipelineInv(FedTCP(p, ref, f), who)
  /\ Feeds(p, FedTCP(p, ref, f), ref, f)
  /\ FedTCP(p, ref, f).streams[f.link] = OutcomeOf(p, ref, f).stream
  /\ p.began[f.link] = 0 => FedTCP(p, ref, f).began[f.link] = f.from
  /\ p.began[f.link] # 0 => FedTCP(p, ref, f).began[f.link] = p.began[f.link]
  /\ \A k \in TCPLinks : k # f.link =>
       /\ FedTCP(p, ref, f).streams[k] = p.streams[k]
       /\ FedTCP(p, ref, f).began[k] = p.began[k]
  /\ FedTCP(p, ref, f).records = ReadOf(p, ref, f).records
  /\ FedTCP(p, ref, f).observed = ReadOf(p, ref, f).observed
  /\ FedTCP(p, ref, f).novel = ReadOf(p, ref, f).novel
  /\ OutcomeOf(p, ref, f).lost <=> LostAt(p, FedTCP(p, ref, f), f)

\* Feeding a payload.
LEMMA PayloadIs ==
  ASSUME NEW p, NEW who, NEW ref, NEW f, Payload(p, who, ref, f)
  PROVE  Fed(p, who, ref, f)
<1> DEFINE o == OutcomeOf(p, ref, f)
           q == Streamed(p, ref, f)
           read == Interpreted(q, f.link, o.out)
           after == FedTCP(p, ref, f)
           t == MarkDesync(read.table, ConnOf(read.table, f.link), ref)
<1> HIDE DEF o, q, read, after, t
<1>1. /\ PipelineInv(p, who) /\ f \in Frames /\ f.link \in TCPLinks /\ f.from <= f.to
      /\ Lookup(p.table, f.link) # {} /\ ref \in Nat
      /\ \A u \in f.from .. f.to : <<ref, u>> \in who[f.link]
  BY DEF Payload
<1>2. /\ f.from \in Nat /\ f.to \in Nat /\ f.link \in Links /\ f.link.udp = FALSE
      /\ IsWire(Wire[f.link]) /\ f.from .. f.to \subseteq Units(Wire[f.link])
  <2>1. f \in [link : Links, from : Nat, to : Nat]
    BY <1>1, DecodingAssumption DEF DecodingAssumption
  <2>2. f.link \in Links /\ f.link.udp = FALSE /\ IsWire(Wire[f.link])
    BY <1>1, WireOf
  <2> QED
    BY <1>1, <2>1, <2>2, DecodingAssumption DEF DecodingAssumption
<1>3. /\ FedInv(Wire[f.link], p.streams[f.link], f.from, o, who[f.link]) /\ PipelineInv(q, who)
      /\ q.records = p.records /\ q.streams = [p.streams EXCEPT ![f.link] = o.stream]
      /\ q.began = [p.began EXCEPT ![f.link] = IF @ = 0 THEN f.from ELSE @]
      /\ q.observed = p.observed /\ q.novel = p.novel
  <2>1. StreamedInv(p, who, ref, f)
    BY StreamedKeeps
  <2> QED
    BY <2>1 DEF StreamedInv, o, q
<1>4. PipelineInv(after, who) /\ Feeds(p, after, ref, f)
  BY FedTCPKeeps DEF after
<1>5. PipelineInv(read, who) /\ Interprets(q, read)
  <2>1. GoodOut(Wire[f.link], o.out, who[f.link])
    BY <1>3 DEF FedInv
  <2> QED
    BY <1>1, <1>3, <2>1, InterpretedKeeps DEF read
<1>6. after = IF o.lost THEN [read EXCEPT !.table = t] ELSE read
  BY DEF FedTCP, Streamed, OutcomeOf, after, o, q, read, t
<1>7. /\ after.streams = q.streams /\ after.began = q.began /\ after.records = read.records
      /\ after.observed = read.observed /\ after.novel = read.novel
  BY <1>5, <1>6 DEF PipelineInv, Pipeline, Interprets
<1>8. o.lost <=> LostAt(p, after, f)
  <2>1. q.streams[f.link] = o.stream
    BY <1>1, <1>3 DEF PipelineInv, Pipeline
  <2>2. o.lost <=> ~p.streams[f.link].desync
                     /\ (o.stream.desync \/ Beyond(Wire[f.link], p.streams[f.link], f.from))
    BY <1>3 DEF FedInv
  <2> QED
    BY <1>1, <1>2, <1>7, <2>1, <2>2 DEF LostAt
<1>9. /\ after.streams[f.link] = o.stream
      /\ p.began[f.link] = 0 => after.began[f.link] = f.from
      /\ p.began[f.link] # 0 => after.began[f.link] = p.began[f.link]
      /\ \A k \in TCPLinks : k # f.link =>
           after.streams[k] = p.streams[k] /\ after.began[k] = p.began[k]
  <2>1. f.link \in DOMAIN p.streams /\ f.link \in DOMAIN p.began
    BY <1>1 DEF PipelineInv, Pipeline
  <2>2. after.streams = [p.streams EXCEPT ![f.link] = o.stream]
    BY <1>3, <1>7
  <2>3. after.began = [p.began EXCEPT ![f.link] = IF @ = 0 THEN f.from ELSE @]
    BY <1>3, <1>7
  <2>4. DOMAIN p.streams = TCPLinks /\ DOMAIN p.began = TCPLinks
    BY <1>1 DEF PipelineInv, Pipeline
  <2> QED
    BY <2>1, <2>2, <2>3, <2>4
<1> QED
  BY <1>2, <1>3, <1>4, <1>7, <1>8, <1>9 DEF o, q, read, after, ReadOf, Fed

\* What a payload that is fed to a link's stream makes of it: the stream goes on,
\* or nothing comes out; and while no loss is named it goes on.
Continues(w, o, m, last, named) ==
  /\ \/ \E e : GoesOn(w, o, m, e)
     \/ o.out = <<>> /\ (Gone(w, o.stream) \/ \E e : InStep(w, o.stream, m, e))
  /\ named \/ GoesOn(w, o, m, last)

\* The first payload of a link, and every later one.
LEMMA LinkContinues ==
  ASSUME NEW p, NEW who, NEW ref, NEW f, Payload(p, who, ref, f),
         NEW last, LinkInv(p, f.link, last),
         NEW after, after = FedTCP(p, ref, f), NEW m0 \in DOMAIN Wire[f.link].sizes,
         after.began[f.link] = StartOf(Wire[f.link], m0)
  PROVE  /\ Row(p, f.link, m0)
         /\ Continues(Wire[f.link], OutcomeOf(p, ref, f), m0 + CountOf(p, f.link),
                      IF f.to > last THEN f.to ELSE last, DesyncAt(after, f.link) # 0)
<1> DEFINE link == f.link
           w == Wire[link]
           s == p.streams[link]
           o == OutcomeOf(p, ref, f)
           c == CountOf(p, link)
           next == IF f.to > last THEN f.to ELSE last
<1>0. Fed(p, who, ref, f)
  BY PayloadIs
<1>1. /\ f.from \in Nat /\ f.to \in Nat /\ IsWire(w) /\ f.from .. f.to \subseteq Units(w)
      /\ f.from <= f.to /\ ref \in Nat /\ \A u \in f.from .. f.to : <<ref, u>> \in who[f.link]
  BY <1>0 DEF Payload, Fed
<1>2. StreamInv(w, s, who[link]) /\ Idle(w, s) /\ o = FeedTCP(w, s, f.from, f.to, ref)
  BY DEF Payload, PipelineInv, OutcomeOf
<1>3. /\ p.began[link] = 0 => s = NewStream /\ RecordsOf(p, link) = {} /\ last = 0
      /\ p.began[link] # 0 => Lookup(p.table, link) # {} /\ p.began[link] \in Units(w)
  BY DEF LinkInv
<1>4. /\ o.lost <=> LostAt(p, after, f)
      /\ PipelineInv(after, who) /\ Feeds(p, after, ref, f)
  BY <1>0 DEF Fed
<1>5. /\ p.began[link] = 0 => after.began[link] = f.from
      /\ p.began[link] # 0 => after.began[link] = p.began[link]
  BY <1>0 DEF Fed
<1>6. DesyncAt(after, link) = 0 => DesyncAt(p, link) = 0 /\ ~o.lost
  <2>1. /\ TableInv(p.table) /\ TableInv(after.table) /\ ref \in Nat \ {0}
        /\ Lookup(p.table, link) # {}
    BY <1>4 DEF Payload, PipelineInv
  <2> QED
    BY <1>4, <2>1, NoLoss
<1> HIDE DEF w, s, o, c, next
<1>7. CASE p.began[link] = 0
  <2>1. f.from = StartOf(w, m0) /\ s = NewStream /\ RecordsOf(p, link) = {} /\ last = 0
    BY <1>3, <1>5, <1>7 DEF w
  <2>2. c = 0 /\ Row(p, link, m0)
    <3>1. c = 0
      BY <2>1, FS_EmptySet DEF c, CountOf
    <3>2. StartOf(w, m0) \in Nat /\ m0 \in Nat
      BY <1>1, WireEnds DEF w
    <3>3. m0 .. m0 + 0 - 1 = {}
      BY <3>2
    <3> QED
      BY <2>1, <3>1, <3>3 DEF Row, AreMessagesFrom, c
  <2>3. GoesOn(w, o, m0, f.to)
    BY <1>1, <1>2, <2>1, FeedStarts DEF w
  <2>4. next = f.to
    <3>1. f.to > 0
      <4>1. StartOf(w, m0) \in Nat \ {0}
        BY <1>1, WireEnds DEF w
      <4> QED
        BY <1>1, <2>1, <4>1
    <3> QED
      BY <2>1, <3>1 DEF next
  <2>5. m0 + c = m0
    <3>1. m0 \in Nat
      BY <1>1, WireEnds DEF w
    <3> QED
      BY <2>2, <3>1
  <2> QED
    BY <2>2, <2>3, <2>4, <2>5 DEF Continues, w, o, c, next
<1>8. CASE p.began[link] # 0
  <2>1. p.began[link] = StartOf(w, m0)
    BY <1>5, <1>8 DEF w
  <2>2. /\ Row(p, link, m0)
        /\ Gone(w, s) \/ \E e : InStep(w, s, m0 + c, e)
        /\ DesyncAt(p, link) = 0 => InStep(w, s, m0 + c, last)
    BY <2>1 DEF LinkInv, w, s, c
  <2>3. ASSUME Gone(w, s) PROVE Gone(w, o.stream) /\ o.out = <<>>
    <3> DEFINE from == f.from
               to == f.to
               has == who[link]
    <3>2. /\ from \in Nat /\ to \in Nat /\ IsWire(w) /\ from .. to \subseteq Units(w)
          /\ from <= to /\ ref \in Nat /\ \A u \in from .. to : <<ref, u>> \in has
          /\ StreamInv(w, s, has) /\ Idle(w, s) /\ o = FeedTCP(w, s, from, to, ref)
      BY <1>1, <1>2
    <3> HIDE DEF from, to, has
    <3>1. Gone(w, FeedTCP(w, s, from, to, ref).stream) /\ FeedTCP(w, s, from, to, ref).out = <<>>
      BY <2>3, <3>2, FeedGone
    <3> QED
      BY <3>1, <3>2
  <2>4. ASSUME NEW e, InStep(w, s, m0 + c, e)
        PROVE  \/ GoesOn(w, o, m0 + c, IF f.to > e THEN f.to ELSE e)
               \/ /\ o.lost /\ o.out = <<>>
                  /\ Gone(w, o.stream) \/ InStep(w, o.stream, m0 + c, e)
    BY <1>1, <1>2, <2>4, FeedInStep
  <2>5. \/ \E e : GoesOn(w, o, m0 + c, e)
        \/ o.out = <<>> /\ (Gone(w, o.stream) \/ \E e : InStep(w, o.stream, m0 + c, e))
    BY <2>2, <2>3, <2>4
  <2>6. DesyncAt(after, link) = 0 => GoesOn(w, o, m0 + c, next)
    BY <1>6, <2>2, <2>4 DEF next
  <2> QED
    BY <2>2, <2>5, <2>6 DEF Continues, w, o, c, next
<1> QED
  BY <1>7, <1>8

\* What a payload does to the records.
LEMMA PayloadRecords ==
  ASSUME NEW p, NEW who, NEW ref, NEW f, Payload(p, who, ref, f),
         NEW out, out = OutcomeOf(p, ref, f).out, NEW after, after = FedTCP(p, ref, f)
  PROVE  /\ \A k : k # f.link => SameRow(p, after, k)
         /\ CountOf(after, f.link) = CountOf(p, f.link) + Len(out)
         /\ \A m0 \in Nat :
              Row(p, f.link, m0) /\ AreNext(Wire[f.link], out, m0 + CountOf(p, f.link))
              => Row(after, f.link, m0)
         /\ SeesRecords(p) => SeesRecords(after)
<1> DEFINE link == f.link
           w == Wire[link]
           q == Streamed(p, ref, f)
           read == ReadOf(p, ref, f)
<1>1. Fed(p, who, ref, f)
  BY PayloadIs
<1>2. /\ link \in TCPLinks /\ PipelineInv(q, who) /\ GoodOut(w, out, who[link])
      /\ q.records = p.records /\ q.observed = p.observed /\ q.novel = p.novel
      /\ after.records = read.records /\ after.observed = read.observed /\ after.novel = read.novel
  BY <1>1 DEF Payload, Fed, FedInv
<1>3. read = Interpreted(q, link, out)
  BY DEF ReadOf
<1> HIDE DEF w, q, read
<1>4. /\ \A k : SameRow(p, q, k) /\ RecordsOf(q, k) = RecordsOf(p, k)
      /\ SeesRecords(p) => SeesRecords(q)
  BY <1>2 DEF SameRow, RecordsOf, SeesRecords
<1>5. /\ \A k : k # link => SameRow(q, read, k)
      /\ CountOf(read, link) = CountOf(q, link) + Len(out)
      /\ \A m0 \in Nat : Row(q, link, m0) /\ AreNext(w, out, m0 + CountOf(q, link)) => Row(read, link, m0)
      /\ SeesRecords(q) => SeesRecords(read)
  BY <1>2, <1>3, InterpretedRecords DEF w
<1>6. /\ \A k : SameRow(read, after, k) /\ RecordsOf(after, k) = RecordsOf(read, k)
      /\ SeesRecords(read) => SeesRecords(after)
  BY <1>2 DEF SameRow, RecordsOf, SeesRecords
<1>7. ASSUME NEW k, k # link PROVE SameRow(p, after, k)
  <2>1. SameRow(p, q, k) /\ SameRow(q, read, k) /\ SameRow(read, after, k)
    BY <1>4, <1>5, <1>6, <1>7
  <2> QED
    BY <2>1 DEF SameRow
<1>8. CountOf(q, link) = CountOf(p, link) /\ CountOf(after, link) = CountOf(read, link)
  BY <1>4, <1>6 DEF CountOf
<1>9. ASSUME NEW m0 \in Nat, Row(p, link, m0), AreNext(w, out, m0 + CountOf(p, link))
      PROVE  Row(after, link, m0)
  <2>1. Row(q, link, m0)
    BY <1>4, <1>9, RowStays
  <2>2. Row(read, link, m0)
    BY <1>5, <1>8, <1>9, <2>1
  <2> QED
    BY <1>6, <2>2, RowStays
<1> QED
  BY <1>4, <1>5, <1>6, <1>7, <1>8, <1>9 DEF w

\* A payload keeps what is known of its link.
LEMMA LinkFollows ==
  ASSUME NEW p, NEW who, NEW ref, NEW f, Payload(p, who, ref, f),
         NEW last, LinkInv(p, f.link, last), NEW after, after = FedTCP(p, ref, f)
  PROVE  LinkInv(after, f.link, IF f.to > last THEN f.to ELSE last)
<1> DEFINE link == f.link
           w == Wire[link]
           o == OutcomeOf(p, ref, f)
           c == CountOf(p, link)
           next == IF f.to > last THEN f.to ELSE last
<1>1. Fed(p, who, ref, f)
  BY PayloadIs
<1>2. /\ IsWire(w) /\ PipelineInv(p, who) /\ PipelineInv(after, who) /\ Feeds(p, after, ref, f)
      /\ GoodOut(w, o.out, who[link]) /\ f.from \in Nat /\ f.to \in Nat /\ f.from <= f.to
      /\ f.from .. f.to \subseteq Units(w) /\ after.streams[link] = o.stream
      /\ Lookup(p.table, link) # {} /\ ref \in Nat \ {0}
  BY <1>1 DEF Payload, Fed, FedInv
<1>3. /\ p.began[link] = 0 => after.began[link] = f.from
      /\ p.began[link] # 0 => after.began[link] = p.began[link]
  BY <1>1 DEF Fed
<1>4. CountOf(after, link) = c + Len(o.out)
      /\ \A m0 \in Nat : Row(p, link, m0) /\ AreNext(w, o.out, m0 + c) => Row(after, link, m0)
  BY PayloadRecords
<1> HIDE DEF o, c, next
<1>5. Lookup(after.table, link) # {}
  <2>1. TableInv(p.table) /\ TableInv(after.table)
    BY <1>2 DEF PipelineInv
  <2> QED
    BY <1>2, <2>1, NoLoss
<1>6. after.began[link] # 0 /\ after.began[link] \in Units(w)
  <2>1. f.from \in f.from .. f.to
    BY <1>2
  <2>2. f.from \in Units(w)
    BY <1>2, <2>1
  <2>3. f.from # 0
    BY <2>2 DEF Units
  <2>4. p.began[link] # 0 => p.began[link] \in Units(w)
    BY DEF LinkInv
  <2> QED
    BY <1>3, <2>2, <2>3, <2>4
<1>7. c \in Nat
  BY <1>2, RecordsFinite DEF c, PipelineInv, Pipeline
<1>8. ASSUME NEW m0 \in DOMAIN w.sizes, after.began[link] = StartOf(w, m0)
      PROVE  /\ Row(after, link, m0)
             /\ \/ Gone(w, after.streams[link])
                \/ \E e : InStep(w, after.streams[link], m0 + CountOf(after, link), e)
             /\ DesyncAt(after, link) = 0 =>
                  InStep(w, after.streams[link], m0 + CountOf(after, link), next)
  <2>1. Row(p, link, m0) /\ Continues(w, o, m0 + c, next, DesyncAt(after, link) # 0)
    BY <1>8, LinkContinues DEF o, c, next
  <2>2. m0 \in Nat
    BY <1>2, <1>8, WireEnds
  <2>3. ASSUME NEW e, GoesOn(w, o, m0 + c, e)
        PROVE  Row(after, link, m0) /\ InStep(w, after.streams[link], m0 + CountOf(after, link), e)
    <3>1. /\ AreNext(w, o.out, m0 + c) /\ Len(o.out) \in Nat
          /\ InStep(w, o.stream, m0 + c + Len(o.out), e)
      BY <2>3 DEF GoesOn
    <3>2. m0 + c + Len(o.out) = m0 + CountOf(after, link)
      <4> DEFINE n == Len(o.out)
      <4>1. CountOf(after, link) = c + n
        BY <1>4
      <4>2. n \in Nat
        BY <3>1
      <4> HIDE DEF n
      <4>3. m0 + c + n = m0 + (c + n)
        BY <1>7, <2>2, <4>2
      <4> QED
        BY <4>1, <4>3 DEF n
    <3> QED
      BY <1>2, <1>4, <2>1, <2>2, <3>1, <3>2
  <2>4. ASSUME o.out = <<>>
        PROVE  Row(after, link, m0) /\ CountOf(after, link) = c
    <3>1. Len(o.out) = 0 /\ AreNext(w, o.out, m0 + c)
      BY <2>4 DEF AreNext
    <3> QED
      BY <1>4, <1>7, <2>1, <2>2, <3>1
  <2> QED
    BY <1>2, <2>1, <2>3, <2>4 DEF Continues
<1> QED
  BY <1>5, <1>6, <1>8 DEF LinkInv, next

LinksInv(p, last) == \A link \in TCPLinks : LinkInv(p, link, last[link])

\* Finding or making a connection changes nothing of the streams and the records.
LEMMA ObservingIs ==
  ASSUME NEW p, NEW who, PipelineInv(p, who), NEW link \in Links, NEW q, q = Observing(p, link)
  PROVE  /\ q.streams = p.streams /\ q.began = p.began /\ q.records = p.records
         /\ q.observed = p.observed /\ q.novel = p.novel
         /\ \A k : SameRow(p, q, k)
         /\ \A k : Lookup(p.table, k) # {} =>
              Lookup(q.table, k) # {} /\ DesyncAt(q, k) = DesyncAt(p, k)
         /\ \A last : LinksInv(p, last) => LinksInv(q, last)
         /\ SeesRecords(p) => SeesRecords(q)
<1> DEFINE t == Observe(p.table, link)
<1>1. p \in Pipeline /\ TableInv(p.table)
  BY DEF PipelineInv
<1>2. /\ TableInv(t) /\ Len(t.conns) >= Len(p.table.conns)
      /\ \A n \in 1 .. Len(p.table.conns) : t.conns[n] = p.table.conns[n]
  BY <1>1, ObserveKeeps
<1>3. q = [p EXCEPT !.table = t]
  BY DEF Observing
<1> HIDE DEF t
<1>4. /\ q.table = t /\ q.streams = p.streams /\ q.began = p.began /\ q.records = p.records
      /\ q.observed = p.observed /\ q.novel = p.novel
  BY <1>1, <1>3 DEF Pipeline
<1>5. ASSUME NEW k PROVE SameRow(p, q, k) /\ RecordsOf(q, k) = RecordsOf(p, k)
  BY <1>4 DEF SameRow, RecordsOf
<1>6. ASSUME NEW k, Lookup(p.table, k) # {}
      PROVE  Lookup(q.table, k) # {} /\ DesyncAt(q, k) = DesyncAt(p, k)
  <2> DEFINE n == ConnOf(p.table, k)
  <2>1. n \in Lookup(p.table, k) /\ n \in 1 .. Len(p.table.conns) /\ Len(p.table.conns) \in Nat
    BY <1>1, <1>6, LookupOf
  <2>2. p.table.conns[n].key = KeyOf(k)
    BY <1>1, <2>1, LookupOf
  <2> HIDE DEF n
  <2>3. n \in 1 .. Len(t.conns) /\ t.conns[n] = p.table.conns[n]
    <3>1. Len(t.conns) \in Nat
      BY <1>2, LookupOf
    <3> QED
      BY <1>2, <2>1, <3>1
  <2>4. n \in Lookup(t, k)
    BY <1>2, <2>2, <2>3, LookupOf
  <2>5. ConnOf(t, k) = n
    BY <1>2, <2>4, LookupOf
  <2> QED
    BY <1>4, <2>3, <2>4, <2>5 DEF DesyncAt, n
<1>7. ASSUME NEW last, LinksInv(p, last) PROVE LinksInv(q, last)
  <2>1. ASSUME NEW k \in TCPLinks PROVE LinkInv(q, k, last[k])
    <3>1. LinkInv(p, k, last[k])
      BY <1>7 DEF LinksInv
    <3>2. SameRow(p, q, k) /\ q.streams[k] = p.streams[k] /\ q.began[k] = p.began[k]
      BY <1>4, <1>5
    <3> QED
      BY <1>6, <3>1, <3>2, LinkStays
  <2> QED
    BY <2>1 DEF LinksInv
<1>8. SeesRecords(p) => SeesRecords(q)
  BY <1>4 DEF SeesRecords
<1> QED
  BY <1>4, <1>5, <1>6, <1>7, <1>8

\* How far the payloads that were fed to each stream have reached.
Reached(last, f) ==
  [link \in TCPLinks |->
     IF link = f.link /\ f.from <= f.to /\ f.to > last[link] THEN f.to ELSE last[link]]

\* The record r of a datagram is added to p, and nothing else changes.
AddsDatagram(p, q, ref, f, r) ==
  /\ r \in Records /\ r.link = f.link /\ r.frames = <<ref>> /\ f.link.udp
  /\ q.records = Append(p.records, r)
  /\ q.table = p.table /\ q.streams = p.streams /\ q.began = p.began
  /\ q.observed = p.observed /\ q.novel = p.novel
  /\ \A k : k # f.link => SameRow(p, q, k)

\* A datagram changes nothing of the streams.
LEMMA DatagramIs ==
  ASSUME NEW p, NEW who, PipelineInv(p, who), NEW f \in Frames, f.link \notin TCPLinks,
         f.from <= f.to, NEW ref \in Nat, NEW q, q = FedUDP(p, ref, f),
         NEW r, r = Record(f.link, Run(f.from, f.to), <<ref>>, "undecoded")
  PROVE  /\ AddsDatagram(p, q, ref, f, r)
         /\ \A last : LinksInv(p, last) => LinksInv(q, last)
         /\ SeesRecords(p) => SeesRecords(q)
<1>1. f \in [link : Links, from : Nat, to : Nat]
  BY DecodingAssumption DEF DecodingAssumption
<1>2. f.link \in Links /\ f.from \in Nat /\ f.to \in Nat /\ f.link.udp = TRUE
  BY <1>1, LinkOf DEF TCPLinks
<1>3. p \in Pipeline /\ p.records \in Seq(Records)
  BY DEF PipelineInv, Pipeline
<1>4. /\ r \in Records /\ r.link = f.link /\ r.frames = <<ref>>
  <2>1. Run(f.from, f.to) \in Seq(Int)
    <3>1. f.from \in Int /\ f.to \in Int /\ f.from <= f.to + 1
      BY <1>2
    <3> QED
      BY <3>1, RunOf
  <2> QED
    BY <1>2, <2>1 DEF Record, Records, Statuses
<1>5. q = [p EXCEPT !.records = Append(p.records, r)]
  BY DEF FedUDP
<1>6. /\ q.table = p.table /\ q.streams = p.streams /\ q.began = p.began
      /\ q.observed = p.observed /\ q.novel = p.novel /\ q.records = Append(p.records, r)
  BY <1>3, <1>5 DEF Pipeline
<1>7. \A k : k # f.link => SameRow(p, q, k)
  BY <1>3, <1>4, <1>6, RowGrows
<1>8. ASSUME NEW last, LinksInv(p, last) PROVE LinksInv(q, last)
  <2>1. ASSUME NEW k \in TCPLinks PROVE LinkInv(q, k, last[k])
    <3>1. LinkInv(p, k, last[k])
      BY <1>8 DEF LinksInv
    <3>2. SameRow(p, q, k) /\ q.streams[k] = p.streams[k] /\ q.began[k] = p.began[k]
      BY <1>6, <1>7
    <3>3. DesyncAt(q, k) = DesyncAt(p, k)
      BY <1>6 DEF DesyncAt
    <3> QED
      BY <1>6, <3>1, <3>2, <3>3, LinkStays
  <2> QED
    BY <2>1 DEF LinksInv
<1>9. SeesRecords(p) => SeesRecords(q)
  <2>1. \A x : ~Shows(r, x) /\ ~ShowsNovel(r, x)
    BY <1>2, <1>4 DEF Shows, ShowsNovel
  <2> QED
    BY <1>3, <1>4, <1>6, <2>1, SeesMore
<1> QED
  BY <1>2, <1>4, <1>6, <1>7, <1>8, <1>9 DEF AddsDatagram

\* A frame keeps what is known of the links, and of what has been seen.
LEMMA FeedLinks ==
  ASSUME NEW p, NEW who, PipelineInv(p, who), NEW f \in Frames, NEW ref \in Nat \ {0},
         \A u \in f.from .. f.to : <<ref, u>> \in who[f.link],
         NEW q, q = Feed(p, ref, f)
  PROVE  /\ \A last : LinksInv(p, last) => LinksInv(q, Reached(last, f))
         /\ SeesRecords(p) => SeesRecords(q)
<1> DEFINE o == Observing(p, f.link)
<1>1. f.link \in Links /\ f.from \in Nat /\ f.to \in Nat
  <2>1. f \in [link : Links, from : Nat, to : Nat]
    BY DecodingAssumption DEF DecodingAssumption
  <2> QED
    BY <2>1
<1>2. /\ PipelineInv(o, who) /\ Lookup(o.table, f.link) # {}
      /\ \A last : LinksInv(p, last) => LinksInv(o, last)
      /\ SeesRecords(p) => SeesRecords(o)
  <2>1. PipelineInv(o, who) /\ o.table = Observe(p.table, f.link)
    BY <1>1, ObservingKeeps
  <2>2. Lookup(o.table, f.link) = {ConnOf(o.table, f.link)}
    BY <1>1, <2>1, ObserveKeeps DEF PipelineInv
  <2>3. /\ \A last : LinksInv(p, last) => LinksInv(o, last)
        /\ SeesRecords(p) => SeesRecords(o)
    BY <1>1, ObservingIs
  <2> HIDE DEF o
  <2> QED
    BY <2>1, <2>2, <2>3
<1>3. f.link.udp <=> f.link \notin TCPLinks
  BY <1>1 DEF TCPLinks
<1>4. q = IF f.to < f.from THEN o
          ELSE IF f.link.udp THEN FedUDP(o, ref, f) ELSE FedTCP(o, ref, f)
  BY DEF Feed, Observing
<1> HIDE DEF o
<1>5. ASSUME ~(f.from <= f.to) \/ f.link \notin TCPLinks, NEW last, LinksInv(q, last)
      PROVE  LinksInv(q, Reached(last, f))
  <2>1. ASSUME NEW k \in TCPLinks PROVE LinkInv(q, k, Reached(last, f)[k])
    <3>1. Reached(last, f)[k] = last[k]
      BY <1>5 DEF Reached
    <3> QED
      BY <1>5, <3>1 DEF LinksInv
  <2> QED
    BY <2>1 DEF LinksInv
<1>6. CASE f.to < f.from
  <2>1. q = o /\ ~(f.from <= f.to)
    BY <1>1, <1>4, <1>6
  <2> QED
    BY <1>2, <1>5, <2>1
<1>7. CASE ~(f.to < f.from) /\ f.link.udp
  <2>1. q = FedUDP(o, ref, f) /\ f.from <= f.to /\ f.link \notin TCPLinks
    BY <1>1, <1>3, <1>4, <1>7
  <2>2. /\ \A last : LinksInv(o, last) => LinksInv(q, last)
        /\ SeesRecords(o) => SeesRecords(q)
    <3> DEFINE r == Record(f.link, Run(f.from, f.to), <<ref>>, "undecoded")
    <3>1. r = Record(f.link, Run(f.from, f.to), <<ref>>, "undecoded")
      OBVIOUS
    <3> HIDE DEF r
    <3> QED
      BY <1>2, <2>1, <3>1, DatagramIs
  <2> QED
    BY <1>2, <1>5, <2>1, <2>2
<1>8. CASE ~(f.to < f.from) /\ ~f.link.udp
  <2>1. q = FedTCP(o, ref, f) /\ f.from <= f.to /\ f.link \in TCPLinks
    BY <1>1, <1>3, <1>4, <1>8
  <2>2. Payload(o, who, ref, f)
    BY <1>2, <2>1 DEF Payload
  <2>3. Fed(o, who, ref, f)
    BY <2>2, PayloadIs
  <2>4. /\ \A k : k # f.link => SameRow(o, q, k)
        /\ SeesRecords(o) => SeesRecords(q)
    BY <2>1, <2>2, PayloadRecords
  <2>5. ASSUME NEW last, LinksInv(o, last) PROVE LinksInv(q, Reached(last, f))
    <3>1. ASSUME NEW k \in TCPLinks PROVE LinkInv(q, k, Reached(last, f)[k])
      <4>1. LinkInv(o, k, last[k])
        BY <2>5 DEF LinksInv
      <4>2. CASE k = f.link
        <5>1. Reached(last, f)[k] = IF f.to > last[k] THEN f.to ELSE last[k]
          BY <2>1, <4>2 DEF Reached
        <5>2. LinkInv(q, f.link, IF f.to > last[f.link] THEN f.to ELSE last[f.link])
          BY <2>1, <2>2, <4>1, <4>2, LinkFollows
        <5> QED
          BY <4>2, <5>1, <5>2
      <4>3. CASE k # f.link
        <5>1. Reached(last, f)[k] = last[k]
          BY <4>3 DEF Reached
        <5>2. q.streams[k] = o.streams[k] /\ q.began[k] = o.began[k]
          BY <2>1, <2>3, <4>3 DEF Fed
        <5>3. SameRow(o, q, k)
          BY <2>4, <4>3
        <5>4. Lookup(o.table, k) # {} =>
                Lookup(q.table, k) # {} /\ (DesyncAt(q, k) = 0 => DesyncAt(o, k) = 0)
          <6>1. PipelineInv(q, who) /\ Feeds(o, q, ref, f)
            BY <2>1, <2>3 DEF Fed
          <6>2. TableInv(o.table) /\ TableInv(q.table)
            BY <1>2, <6>1 DEF PipelineInv
          <6> QED
            BY <6>1, <6>2, NoLoss
        <5> QED
          BY <4>1, <5>1, <5>2, <5>3, <5>4, LinkStays
      <4> QED
        BY <4>2, <4>3
    <3> QED
      BY <3>1 DEF LinksInv
  <2> QED
    BY <1>2, <2>4, <2>5
<1> QED
  BY <1>6, <1>7, <1>8

\* No link has been fed.
LEMMA LinksStart ==
  /\ LinksInv(NewPipeline, [link \in TCPLinks |-> 0])
  /\ SeesRecords(NewPipeline)
<1>1. /\ NewPipeline.streams = [link \in TCPLinks |-> NewStream]
      /\ NewPipeline.began = [link \in TCPLinks |-> 0]
      /\ NewPipeline.records = <<>> /\ NewPipeline.observed = {} /\ NewPipeline.novel = {}
  BY DEF NewPipeline
<1>2. ASSUME NEW link \in TCPLinks PROVE LinkInv(NewPipeline, link, 0)
  <2>1. RecordsOf(NewPipeline, link) = {}
    BY <1>1 DEF RecordsOf
  <2>2. \A m0 \in DOMAIN Wire[link].sizes : StartOf(Wire[link], m0) # 0
    <3>1. IsWire(Wire[link])
      BY WireOf
    <3> QED
      BY <3>1, WireEnds
  <2> QED
    BY <1>1, <2>1, <2>2 DEF LinkInv
<1>3. SeesRecords(NewPipeline)
  BY <1>1 DEF SeesRecords
<1> QED
  BY <1>2, <1>3 DEF LinksInv

-----------------------------------------------------------------------------
(* The messages of a session                                               *)

\* Of the session's pipeline: what is known of each link, and that it has seen
\* what its records show.
InRowInv ==
  /\ \E last : LinksInv(live, last)
  /\ SeesRecords(live)

\* A step keeps it.
LEMMA InRowStep ==
  DecodingInv /\ InRowInv /\ [DecodingNext]_decodingVars => InRowInv'
<1> SUFFICES ASSUME DecodingInv, InRowInv, [DecodingNext]_decodingVars PROVE InRowInv'
  OBVIOUS
<1>1. CASE live' = live
  BY <1>1 DEF InRowInv
<1>2. ASSUME NEW f \in Frames, Journals(f), Decodes(f) PROVE InRowInv'
  <2> DEFINE ref == Len(journal) + 1
             more == WhoOf(journal', dropped')
             q == Feed(live, ref, f)
  <2>1. live' = q /\ dropped' = dropped /\ journal' = Append(journal, f)
    BY <1>2 DEF Decodes, Journals
  <2>2. /\ journal \in Seq(Frames) /\ dropped \subseteq 1 .. Len(journal)
        /\ PipelineInv(live, WhoOf(journal, dropped))
    BY DEF DecodingInv
  <2>3. /\ \A link \in Links : WhoOf(journal, dropped)[link] \subseteq more[link]
        /\ \A u \in f.from .. f.to : <<ref, u>> \in more[f.link]
    BY <2>1, <2>2, WhoGrows
  <2>4. ref \in Nat \ {0}
    BY <2>2
  <2> HIDE DEF more, ref
  <2>5. PipelineInv(live, more)
    BY <2>2, <2>3, MoreCarried
  <2>6. /\ \A last : LinksInv(live, last) => LinksInv(q, Reached(last, f))
        /\ SeesRecords(live) => SeesRecords(q)
    BY <2>3, <2>4, <2>5, FeedLinks
  <2> HIDE DEF q
  <2>7. PICK last : LinksInv(live, last)
    BY DEF InRowInv
  <2>8. LinksInv(live', Reached(last, f)) /\ SeesRecords(live')
    BY <2>1, <2>6, <2>7 DEF InRowInv
  <2> QED
    BY <2>8 DEF InRowInv
<1>3. CASE \E f \in Frames : Journals(f) /\ (Decodes(f) \/ Drops)
  BY <1>1, <1>2, <1>3 DEF Drops
<1>4. CASE UNCHANGED decodingVars
  BY <1>1, <1>4 DEF decodingVars
<1> QED
  BY <1>3, <1>4 DEF DecodingNext

\* The streams of a session's pipeline are in step with its records, or gone.
THEOREM DecodingInStep == DecodingSpec => []InRowInv
<1>1. DecodingInit => InRowInv
  BY LinksStart DEF DecodingInit, InRowInv
<1>2. DecodingInv /\ InRowInv /\ [DecodingNext]_decodingVars => InRowInv'
  BY InRowStep
<1> QED
  BY <1>1, <1>2, DecodingFlow, PTL DEF DecodingSpec

\* The messages that become records are consecutive messages of the stream, each
\* once and in order, whatever was reordered, dropped or sent again, and wherever
\* the sequence numbers wrap, if the first payload that was decoded began with a
\* message (feedTCP, Scanner.Next).
THEOREM MessagesInARow == DecodingSpec => []RecordsArePrefix
<1>1. InRowInv => RecordsArePrefix
  <2> SUFFICES ASSUME InRowInv, NEW link \in TCPLinks, NEW m0 \in DOMAIN Wire[link].sizes,
                      live.began[link] = StartOf(Wire[link], m0)
               PROVE  AreMessagesFrom(live, link, m0)
    BY DEF RecordsArePrefix
  <2>1. PICK last : LinksInv(live, last)
    BY DEF InRowInv
  <2>2. LinkInv(live, link, last[link])
    BY <2>1 DEF LinksInv
  <2> QED
    BY <2>2 DEF LinkInv, Row
<1> QED
  BY <1>1, DecodingInStep, PTL

-----------------------------------------------------------------------------
(* The rebuild                                                             *)

\* The recursion of Replay up to n, as a relation.
AreReplayed(g, frames, n) ==
  g = [k \in 0 .. n |-> IF k = 0 THEN NewPipeline ELSE Feed(g[k - 1], k, frames[k])]

\* The recursion of Replay has a solution.
LEMMA ReplayedExist ==
  ASSUME NEW frames, NEW n \in Nat
  PROVE  \E g : AreReplayed(g, frames, n)
<1> DEFINE S == {k \in Nat : \E g : AreReplayed(g, frames, k)}
<1>1. 0 \in S
  <2> DEFINE g == [k \in 0 .. 0 |-> NewPipeline]
  <2>1. \A k \in 0 .. 0 : g[k] = IF k = 0 THEN NewPipeline ELSE Feed(g[k - 1], k, frames[k])
    OBVIOUS
  <2>2. AreReplayed(g, frames, 0)
    BY <2>1 DEF AreReplayed
  <2> QED
    BY <2>2
<1>2. ASSUME NEW k \in 1 .. n, k - 1 \in S PROVE k \in S
  <2>1. PICK g : AreReplayed(g, frames, k - 1)
    BY <1>2
  <2> DEFINE h == [j \in 0 .. k |-> IF j = k THEN Feed(g[k - 1], k, frames[k]) ELSE g[j]]
  <2>2. \A j \in 0 .. k - 1 :
          g[j] = IF j = 0 THEN NewPipeline ELSE Feed(g[j - 1], j, frames[j])
    BY <2>1 DEF AreReplayed
  <2>3. \A j \in 0 .. k : h[j] = IF j = 0 THEN NewPipeline ELSE Feed(h[j - 1], j, frames[j])
    <3> TAKE j \in 0 .. k
    <3>1. CASE j = k
      <4>1. h[j] = Feed(g[k - 1], k, frames[k]) /\ h[j - 1] = g[k - 1] /\ j # 0
        BY <1>2, <3>1
      <4> QED
        BY <3>1, <4>1
    <3>2. CASE j # k
      <4>1. j \in 0 .. k - 1 /\ h[j] = g[j] /\ (j # 0 => h[j - 1] = g[j - 1])
        BY <1>2, <3>2
      <4> QED
        BY <2>2, <4>1
    <3> QED
      BY <3>1, <3>2
  <2>4. h = [j \in 0 .. k |-> h[j]]
    OBVIOUS
  <2> HIDE DEF h
  <2>5. AreReplayed(h, frames, k)
    BY <2>3, <2>4 DEF AreReplayed
  <2> QED
    BY <2>5
<1> HIDE DEF S
<1>3. n \in S
  BY <1>1, <1>2, Upward
<1> QED
  BY <1>3 DEF S

\* Replaying frames one after the other.
LEMMA ReplayOf ==
  ASSUME NEW frames, Len(frames) \in Nat
  PROVE  \E g :
           /\ Replay(frames) = g[Len(frames)]
           /\ g[0] = NewPipeline
           /\ \A k \in 1 .. Len(frames) : g[k] = Feed(g[k - 1], k, frames[k])
<1> DEFINE n == Len(frames)
           g == CHOOSE h : AreReplayed(h, frames, n)
<1>1. \E h : AreReplayed(h, frames, n)
  BY ReplayedExist
<1>2. AreReplayed(g, frames, n)
  BY <1>1
<1>3. Replay(frames) = g[n]
  BY DEF Replay, AreReplayed
<1> HIDE DEF g
<1>4. \A k \in 0 .. n :
        g[k] = IF k = 0 THEN NewPipeline ELSE Feed(g[k - 1], k, frames[k])
  BY <1>2 DEF AreReplayed
<1>5. g[0] = NewPipeline
  <2>1. 0 \in 0 .. n
    OBVIOUS
  <2> QED
    BY <1>4, <2>1
<1>6. \A k \in 1 .. n : g[k] = Feed(g[k - 1], k, frames[k])
  <2> TAKE k \in 1 .. n
  <2>1. k \in 0 .. n /\ k # 0
    OBVIOUS
  <2> QED
    BY <1>4, <2>1
<1> QED
  BY <1>3, <1>5, <1>6

\* The carriers of a link among the first frames.
CarriersUpTo(frames, k, link) ==
  {j \in 1 .. k : frames[j].link = link /\ frames[j].from <= frames[j].to}

\* last is how far the first k frames reach on each stream.
IsFarthest(last, frames, k) ==
  \A link \in TCPLinks :
    /\ last[link] \in Nat
    /\ \A j \in CarriersUpTo(frames, k, link) : frames[j].to <= last[link]
    /\ last[link] # 0 => \E j \in CarriersUpTo(frames, k, link) : frames[j].to = last[link]

\* The datagrams among the first k frames are records.
HasDatagrams(p, frames, k) ==
  \A link \in Links \ TCPLinks :
    {p.records[n].frames : n \in RecordsOf(p, link)} =
      {<<ref>> : ref \in CarriersUpTo(frames, k, link)}

\* A pipeline that was fed the first k frames.
ReplayInv(p, frames, k) ==
  /\ PipelineInv(p, WhoOf(frames, {}))
  /\ \E last : LinksInv(p, last) /\ IsFarthest(last, frames, k)
  /\ SeesRecords(p)
  /\ HasDatagrams(p, frames, k)

\* One carrier more.
LEMMA CarriersGrow ==
  ASSUME NEW frames, NEW k \in Nat \ {0}, NEW link
  PROVE  CarriersUpTo(frames, k, link) =
           CarriersUpTo(frames, k - 1, link) \cup
             (IF frames[k].link = link /\ frames[k].from <= frames[k].to THEN {k} ELSE {})
<1>1. \A j : j \in 1 .. k <=> j \in 1 .. k - 1 \/ j = k
  OBVIOUS
<1> QED
  BY <1>1 DEF CarriersUpTo

\* How far the frames reach follows what is fed.
LEMMA FarthestFollows ==
  ASSUME NEW frames \in Seq(Frames), NEW k \in 1 .. Len(frames), NEW f, f = frames[k],
         NEW last, IsFarthest(last, frames, k - 1)
  PROVE  IsFarthest(Reached(last, f), frames, k)
<1> SUFFICES ASSUME NEW link \in TCPLinks, NEW e, e = Reached(last, f)[link]
             PROVE  /\ e \in Nat
                    /\ \A j \in CarriersUpTo(frames, k, link) : frames[j].to <= e
                    /\ e # 0 => \E j \in CarriersUpTo(frames, k, link) : frames[j].to = e
  BY DEF IsFarthest
<1> DEFINE was == CarriersUpTo(frames, k - 1, link)
           is == CarriersUpTo(frames, k, link)
           carries == f.link = link /\ f.from <= f.to
<1>1. is = was \cup (IF carries THEN {k} ELSE {})
  BY CarriersGrow
<1>2. /\ last[link] \in Nat /\ \A j \in was : frames[j].to <= last[link]
      /\ last[link] # 0 => \E j \in was : frames[j].to = last[link]
  BY DEF IsFarthest
<1>3. e = IF carries /\ f.to > last[link] THEN f.to ELSE last[link]
  BY DEF Reached
<1>4. \A j \in is : frames[j].to \in Nat
  <2>1. Frames \subseteq [link : Links, from : Nat, to : Nat]
    BY DecodingAssumption DEF DecodingAssumption
  <2> QED
    BY <2>1 DEF CarriersUpTo
<1> HIDE DEF was, is
<1>5. CASE carries /\ f.to > last[link]
  <2>1. e = f.to /\ is = was \cup {k} /\ f.to \in Nat
    BY <1>1, <1>3, <1>4, <1>5
  <2>2. ASSUME NEW j \in was PROVE frames[j].to <= f.to
    <3>1. frames[j].to <= last[link] /\ frames[j].to \in Nat
      BY <1>1, <1>2, <1>4
    <3> QED
      BY <1>2, <1>5, <2>1, <3>1
  <2>3. frames[k].to <= f.to
    BY <2>1
  <2>4. \A j \in is : frames[j].to <= e
    BY <2>1, <2>2, <2>3
  <2>5. k \in is /\ frames[k].to = e
    BY <2>1
  <2> QED
    BY <2>1, <2>4, <2>5 DEF is
<1>6. CASE ~(carries /\ f.to > last[link])
  <2>1. e = last[link]
    BY <1>3, <1>6
  <2>2. ASSUME NEW j \in is PROVE frames[j].to <= last[link]
    <3>1. CASE j \in was
      BY <1>2, <3>1
    <3>2. CASE j \notin was
      <4>1. carries /\ j = k
        BY <1>1, <3>2
      <4>2. frames[k].to \in Nat
        BY <1>4, <2>2, <4>1
      <4> QED
        BY <1>2, <1>6, <4>1, <4>2
    <3> QED
      BY <3>1, <3>2
  <2>3. e # 0 => \E j \in is : frames[j].to = e
    BY <1>1, <1>2, <2>1
  <2> QED
    BY <1>2, <2>1, <2>2, <2>3 DEF is
<1> QED
  BY <1>5, <1>6

\* Every datagram that is fed becomes a record, and nothing else of its link does.
LEMMA DatagramsFollow ==
  ASSUME NEW frames \in Seq(Frames), NEW k \in 1 .. Len(frames), NEW f, f = frames[k],
         NEW p, PipelineInv(p, WhoOf(frames, {})), HasDatagrams(p, frames, k - 1),
         NEW q, q = Feed(p, k, f),
         \A u \in f.from .. f.to : <<k, u>> \in WhoOf(frames, {})[f.link]
  PROVE  HasDatagrams(q, frames, k)
<1> DEFINE o == Observing(p, f.link)
           who == WhoOf(frames, {})
<1>1. f \in Frames /\ f.link \in Links /\ f.from \in Nat /\ f.to \in Nat /\ k \in Nat \ {0}
  <2>1. f \in Frames /\ k \in Nat \ {0}
    OBVIOUS
  <2>2. f \in [link : Links, from : Nat, to : Nat]
    BY <2>1, DecodingAssumption DEF DecodingAssumption
  <2> QED
    BY <2>1, <2>2
<1> HIDE DEF who
<1>2. /\ PipelineInv(o, who) /\ \A l : SameRow(p, o, l) /\ o.records = p.records
  <2>1. PipelineInv(p, who)
    BY DEF who
  <2>2. PipelineInv(o, who)
    BY <1>1, <2>1, ObservingKeeps
  <2>3. /\ \A l : SameRow(p, o, l)
        /\ o.records = p.records
    BY <1>1, <2>1, ObservingIs
  <2> HIDE DEF o
  <2> QED
    BY <2>2, <2>3
<1>3. q = IF f.to < f.from THEN o
          ELSE IF f.link.udp THEN FedUDP(o, k, f) ELSE FedTCP(o, k, f)
  BY DEF Feed, Observing
<1>4. f.link.udp <=> f.link \notin TCPLinks
  BY <1>1 DEF TCPLinks
<1>5. Lookup(o.table, f.link) # {}
  <2>3. PipelineInv(p, who)
    BY DEF who
  <2>1. o.table = Observe(p.table, f.link)
    BY <1>1, <2>3, ObservingKeeps
  <2>4. TableInv(p.table)
    BY <2>3 DEF PipelineInv
  <2>2. Lookup(o.table, f.link) = {ConnOf(o.table, f.link)}
    BY <1>1, <2>1, <2>4, ObserveKeeps
  <2> QED
    BY <2>2
<1> HIDE DEF o
<1> SUFFICES ASSUME NEW link \in Links \ TCPLinks
             PROVE  {q.records[n].frames : n \in RecordsOf(q, link)} =
                      {<<ref>> : ref \in CarriersUpTo(frames, k, link)}
  BY DEF HasDatagrams
<1>6. {o.records[n].frames : n \in RecordsOf(o, link)} =
        {<<ref>> : ref \in CarriersUpTo(frames, k - 1, link)}
  <2>1. RecordsOf(o, link) = RecordsOf(p, link)
    BY <1>2 DEF RecordsOf
  <2> QED
    BY <1>2, <2>1 DEF HasDatagrams
<1>7. ASSUME SameRow(o, q, link), ~(f.link = link /\ f.from <= f.to)
      PROVE  {q.records[n].frames : n \in RecordsOf(q, link)} =
               {<<ref>> : ref \in CarriersUpTo(frames, k, link)}
  <2>1. CarriersUpTo(frames, k, link) = CarriersUpTo(frames, k - 1, link)
    <3>1. ~(frames[k].link = link /\ frames[k].from <= frames[k].to)
      BY <1>7
    <3>2. CarriersUpTo(frames, k, link) =
            CarriersUpTo(frames, k - 1, link) \cup
              (IF frames[k].link = link /\ frames[k].from <= frames[k].to THEN {k} ELSE {})
      BY <1>1, CarriersGrow
    <3> QED
      BY <3>1, <3>2
  <2> QED
    BY <1>6, <1>7, <2>1 DEF SameRow
<1>8. CASE f.to < f.from
  <2>1. q = o /\ ~(f.from <= f.to)
    BY <1>1, <1>3, <1>8
  <2>2. SameRow(o, o, link)
    BY DEF SameRow
  <2> QED
    BY <1>7, <2>1, <2>2
<1>9. CASE ~(f.to < f.from) /\ ~f.link.udp
  <2>1. q = FedTCP(o, k, f) /\ f.from <= f.to /\ f.link \in TCPLinks /\ link # f.link
    BY <1>1, <1>3, <1>4, <1>9
  <2>2. Payload(o, who, k, f)
    BY <1>1, <1>2, <1>5, <2>1 DEF Payload, who
  <2>3. SameRow(o, q, link)
    BY <2>1, <2>2, PayloadRecords
  <2> QED
    BY <1>7, <2>1, <2>3
<1>10. CASE ~(f.to < f.from) /\ f.link.udp
  <2> DEFINE r == Record(f.link, Run(f.from, f.to), <<k>>, "undecoded")
  <2>1. q = FedUDP(o, k, f) /\ f.from <= f.to /\ f.link \notin TCPLinks
    BY <1>1, <1>3, <1>4, <1>10
  <2>2. r = Record(f.link, Run(f.from, f.to), <<k>>, "undecoded")
    OBVIOUS
  <2> HIDE DEF r
  <2>3. /\ r \in Records /\ r.link = f.link /\ r.frames = <<k>>
        /\ q.records = Append(o.records, r)
        /\ \A l : l # f.link => SameRow(o, q, l)
    <3>1. k \in Nat /\ f \in Frames /\ PipelineInv(o, who)
      BY <1>1, <1>2
    <3>2. AddsDatagram(o, q, k, f, r)
      BY <2>1, <2>2, <3>1, DatagramIs
    <3> QED
      BY <3>2 DEF AddsDatagram
  <2>4. CASE link # f.link
    BY <1>7, <2>3, <2>4
  <2>5. CASE link = f.link
    <3> DEFINE N == Len(o.records)
    <3>1. o.records \in Seq(Records)
      BY <1>2 DEF PipelineInv, Pipeline
    <3>2. /\ N \in Nat /\ DOMAIN o.records = 1 .. N /\ DOMAIN q.records = 1 .. N + 1
          /\ q.records[N + 1] = r /\ \A n \in 1 .. N : q.records[n] = o.records[n]
      BY <2>3, <3>1
    <3> HIDE DEF N
    <3>3. RecordsOf(q, link) = RecordsOf(o, link) \cup {N + 1}
      <4>1. \A n \in 1 .. N + 1 : n \in 1 .. N \/ n = N + 1
        BY <3>2
      <4>2. 1 .. N \subseteq 1 .. N + 1 /\ N + 1 \in 1 .. N + 1
        BY <3>2
      <4> QED
        BY <2>3, <2>5, <3>2, <4>1, <4>2 DEF RecordsOf
    <3>4. \A n \in RecordsOf(o, link) : q.records[n] = o.records[n]
      BY <3>2 DEF RecordsOf
    <3>5. {q.records[n].frames : n \in RecordsOf(q, link)} =
            {o.records[n].frames : n \in RecordsOf(o, link)} \cup {<<k>>}
      <4>1. q.records[N + 1].frames = <<k>>
        BY <2>3, <3>2
      <4>2. \A n \in RecordsOf(o, link) : q.records[n].frames = o.records[n].frames
        BY <3>4
      <4>3. {q.records[n].frames : n \in RecordsOf(o, link) \cup {N + 1}} =
              {o.records[n].frames : n \in RecordsOf(o, link)} \cup {<<k>>}
        BY <4>1, <4>2
      <4> QED
        BY <3>3, <4>3
    <3>6. CarriersUpTo(frames, k, link) = CarriersUpTo(frames, k - 1, link) \cup {k}
      BY <1>1, <2>1, <2>5, CarriersGrow
    <3> QED
      BY <1>6, <3>5, <3>6
  <2> QED
    BY <2>4, <2>5
<1> QED
  BY <1>8, <1>9, <1>10

\* What a replay of all frames has.
LEMMA ReplayKeeps ==
  ASSUME NEW frames \in Seq(Frames)
  PROVE  ReplayInv(Replay(frames), frames, Len(frames))
<1> DEFINE n == Len(frames)
           who == WhoOf(frames, {})
<1>1. n \in Nat
  OBVIOUS
<1>2. PICK g :
        /\ Replay(frames) = g[n]
        /\ g[0] = NewPipeline
        /\ \A k \in 1 .. n : g[k] = Feed(g[k - 1], k, frames[k])
  BY <1>1, ReplayOf
<1>3. ReplayInv(NewPipeline, frames, 0)
  <2>1. \A link : CarriersUpTo(frames, 0, link) = {}
    BY DEF CarriersUpTo
  <2>2. IsFarthest([link \in TCPLinks |-> 0], frames, 0)
    BY <2>1 DEF IsFarthest
  <2>3. HasDatagrams(NewPipeline, frames, 0)
    <3>1. \A link : RecordsOf(NewPipeline, link) = {}
      BY DEF NewPipeline, RecordsOf
    <3> QED
      BY <2>1, <3>1 DEF HasDatagrams
  <2>4. PipelineInv(NewPipeline, WhoOf(frames, {}))
    BY NewIsGood
  <2> QED
    BY <2>2, <2>3, <2>4, LinksStart DEF ReplayInv
<1>4. ASSUME NEW k \in 1 .. n, NEW p, ReplayInv(p, frames, k - 1), NEW q, q = Feed(p, k, frames[k])
      PROVE  ReplayInv(q, frames, k)
  <2> DEFINE f == frames[k]
  <2>1. f \in Frames /\ k \in Nat \ {0} /\ k \in 1 .. Len(frames)
    BY <1>1
  <2>2. f \in [link : Links, from : Nat, to : Nat]
    BY <2>1, DecodingAssumption DEF DecodingAssumption
  <2>3. \A u \in f.from .. f.to : <<k, u>> \in WhoOf(frames, {})[f.link]
    <3> TAKE u \in f.from .. f.to
    <3>1. u \in Nat /\ f.from <= u /\ u <= f.to /\ f.link \in Links
      BY <2>2
    <3>2. <<k, u>> \in ((1 .. Len(frames)) \ {}) \X Nat
      BY <2>1, <3>1
    <3> QED
      BY <3>1, <3>2 DEF WhoOf
  <2>4. PipelineInv(p, who) /\ SeesRecords(p) /\ HasDatagrams(p, frames, k - 1)
    BY <1>4 DEF ReplayInv
  <2>5. PICK last : LinksInv(p, last) /\ IsFarthest(last, frames, k - 1)
    BY <1>4 DEF ReplayInv
  <2> HIDE DEF f, who
  <2>6. q = Feed(p, k, f)
    BY <1>4 DEF f
  <2>7. \A u \in f.from .. f.to : <<k, u>> \in who[f.link]
    BY <2>3 DEF who
  <2>8. PipelineInv(q, who)
    BY <2>1, <2>4, <2>6, <2>7, FeedKeeps
  <2>9. LinksInv(q, Reached(last, f)) /\ SeesRecords(q)
    BY <2>1, <2>4, <2>5, <2>6, <2>7, FeedLinks
  <2>10. IsFarthest(Reached(last, f), frames, k)
    BY <2>1, <2>5, FarthestFollows DEF f
  <2>11. HasDatagrams(q, frames, k)
    BY <2>1, <2>3, <2>4, <2>6, DatagramsFollow DEF f, who
  <2> QED
    BY <2>8, <2>9, <2>10, <2>11 DEF ReplayInv, who
<1> HIDE DEF n
<1> DEFINE S == {k \in 0 .. n : ReplayInv(g[k], frames, k)}
<1>5. 0 \in S
  BY <1>1, <1>2, <1>3
<1>6. ASSUME NEW k \in 1 .. n, k - 1 \in S PROVE k \in S
  BY <1>1, <1>2, <1>4, <1>6
<1> HIDE DEF S
<1>7. \A k \in 0 .. n : k \in S
  BY <1>1, <1>5, <1>6, Upward
<1>8. n \in S
  BY <1>1, <1>7
<1> QED
  BY <1>2, <1>8 DEF S, n

\* Of a stream that is in step and has no message to take: how many messages end
\* by e.
LEMMA MessagesBy ==
  ASSUME NEW w, IsWire(w), NEW s, Idle(w, s), NEW c \in Nat, NEW e, InStep(w, s, 1 + c, e)
  PROVE  /\ \A m \in DOMAIN w.sizes : EndOf(w, m) <= e <=> m <= c
         /\ Cardinality({m \in DOMAIN w.sizes : EndOf(w, m) <= e}) = c
<1> DEFINE N == Len(w.sizes)
<1>1. s.desync = FALSE /\ Holds(w, s.buf, 1 + c, e)
  BY DEF InStep
<1>2. Complete(w, s.buf) = 0
  BY <1>1 DEF Idle
<1>3. 1 + c \notin DOMAIN w.sizes \/ e < EndOf(w, 1 + c)
  BY <1>1, <1>2, TakesMessage
<1>4. /\ N \in Nat /\ DOMAIN w.sizes = 1 .. N /\ \A m \in 0 .. N : EndOf(w, m) \in Nat
      /\ \A m, k \in 0 .. N : m <= k => EndOf(w, m) <= EndOf(w, k)
  BY WireEnds
<1>5. e \in Nat /\ StartOf(w, 1 + c) = EndOf(w, c) + 1 /\ StartOf(w, 1 + c) <= e + 1
      /\ 1 + c \in 1 .. N + 1
  <2>1. e \in Nat /\ StartOf(w, 1 + c) = EndOf(w, 1 + c - 1) + 1
    BY <1>1, HoldsOf
  <2>2. 1 + c - 1 = c
    OBVIOUS
  <2> QED
    BY <1>1, <2>1, <2>2 DEF Holds
<1> HIDE DEF N
<1>6. EndOf(w, c) <= e
  <2>1. c \in 0 .. N /\ EndOf(w, c) \in Nat
    BY <1>4, <1>5
  <2> QED
    BY <1>5, <2>1
<1>7. ASSUME NEW m \in 1 .. N PROVE EndOf(w, m) <= e <=> m <= c
  <2>1. c \in 0 .. N /\ m \in 0 .. N /\ EndOf(w, c) \in Nat /\ EndOf(w, m) \in Nat
    BY <1>4, <1>5
  <2>2. CASE m <= c
    <3>1. EndOf(w, m) <= EndOf(w, c)
      BY <1>4, <2>1, <2>2
    <3> QED
      BY <1>5, <1>6, <2>1, <2>2, <3>1
  <2>3. CASE ~(m <= c)
    <3>1. 1 + c <= m /\ 1 + c \in 0 .. N /\ 1 + c \in 1 .. N
      BY <1>4, <2>1, <2>3
    <3>2. EndOf(w, 1 + c) <= EndOf(w, m) /\ EndOf(w, 1 + c) \in Nat
      BY <1>4, <2>1, <3>1
    <3>3. e < EndOf(w, 1 + c)
      BY <1>3, <1>4, <3>1
    <3>4. ~(EndOf(w, m) <= e)
      BY <1>5, <2>1, <3>2, <3>3
    <3> QED
      BY <2>3, <3>4
  <2> QED
    BY <2>2, <2>3
<1>8. {m \in DOMAIN w.sizes : EndOf(w, m) <= e} = 1 .. c
  <2>1. \A m : m \in 1 .. c => m \in 1 .. N
    BY <1>4, <1>5
  <2>2. \A m \in 1 .. N : m \in 1 .. c <=> m <= c
    BY <1>4
  <2> QED
    BY <1>4, <1>7, <2>1, <2>2
<1>9. Cardinality(1 .. c) = c
  BY FS_Interval
<1> QED
  BY <1>4, <1>7, <1>8, <1>9

\* A link of which the rebuild has the beginning and no loss has every message that
\* was journaled whole.
LEMMA WholeLink ==
  ASSUME journal \in Seq(Frames),
         NEW again, ReplayInv(again, journal, Len(journal)),
         NEW link \in TCPLinks, Whole(again, link)
  PROVE  /\ HasWholeMessages(again, link)
         /\ \A m \in DOMAIN Wire[link].sizes :
              (\E ref \in Carriers(link) : EndOf(Wire[link], m) <= journal[ref].to)
              => \E n \in RecordsOf(again, link) : IsMessage(again.records[n], m)
<1> DEFINE w == Wire[link]
           s == again.streams[link]
           c == CountOf(again, link)
           ends == {0} \cup {journal[k].to : k \in Carriers(link)}
<1>1. PICK last : LinksInv(again, last) /\ IsFarthest(last, journal, Len(journal))
  BY DEF ReplayInv
<1> DEFINE e == last[link]
<1>2. LinkInv(again, link, e)
  BY <1>1 DEF LinksInv
<1>3. /\ IsWire(w) /\ Len(w.sizes) \in Nat /\ DOMAIN w.sizes = 1 .. Len(w.sizes)
      /\ EndOf(w, 0) = 0
      /\ \A m \in DOMAIN w.sizes : EndOf(w, m) \in Nat /\ EndOf(w, m) > 0
  <2>1. IsWire(w)
    BY WireOf
  <2>2. /\ Len(w.sizes) \in Nat /\ DOMAIN w.sizes = 1 .. Len(w.sizes) /\ EndOf(w, 0) = 0
        /\ \A m \in 0 .. Len(w.sizes) : EndOf(w, m) \in Nat
        /\ \A m \in DOMAIN w.sizes :
             StartOf(w, m) \in Nat \ {0} /\ EndOf(w, m) >= StartOf(w, m) + HeaderSize - 1
    BY <2>1, WireEnds
  <2>3. ASSUME NEW m \in DOMAIN w.sizes PROVE EndOf(w, m) \in Nat /\ EndOf(w, m) > 0
    <3>1. m \in 0 .. Len(w.sizes)
      BY <2>2
    <3> QED
      BY <2>2, <3>1 DEF HeaderSize
  <2> QED
    BY <2>1, <2>2, <2>3
<1>4. /\ Carriers(link) = CarriersUpTo(journal, Len(journal), link)
      /\ \A k \in Carriers(link) : journal[k].from <= journal[k].to /\ journal[k].to \in Nat
                                     /\ journal[k].to > 0
  <2>1. DOMAIN journal = 1 .. Len(journal)
    OBVIOUS
  <2>2. Carriers(link) = CarriersUpTo(journal, Len(journal), link)
    BY <2>1 DEF Carriers, CarriersUpTo
  <2>3. ASSUME NEW k \in Carriers(link)
        PROVE  journal[k].from <= journal[k].to /\ journal[k].to \in Nat /\ journal[k].to > 0
    <3> DEFINE f == journal[k]
    <3>1. f \in Frames /\ f.link = link /\ f.from <= f.to
      BY <2>1 DEF Carriers
    <3>2. f \in [link : Links, from : Nat, to : Nat]
      BY <3>1, DecodingAssumption DEF DecodingAssumption
    <3>3. f.from .. f.to \subseteq Units(w)
      <4>1. ~f.link.udp
        BY <3>1 DEF TCPLinks
      <4> QED
        BY <3>1, <4>1, DecodingAssumption DEF DecodingAssumption
    <3> HIDE DEF f
    <3>4. f.to \in Units(w)
      BY <3>1, <3>2, <3>3
    <3> QED
      BY <3>1, <3>2, <3>4 DEF Units, f
  <2> QED
    BY <2>2, <2>3
<1>5. /\ e \in Nat /\ \A k \in Carriers(link) : journal[k].to <= e
      /\ e # 0 => \E k \in Carriers(link) : journal[k].to = e
  BY <1>1, <1>4 DEF IsFarthest
<1> HIDE DEF e, w, s, c
<1>6. Max(ends) = e
  <2>1. e \in ends /\ \A y \in ends : y \in Nat /\ e >= y
    BY <1>4, <1>5
  <2> HIDE DEF ends
  <2>2. Max(ends) = CHOOSE x \in ends : \A y \in ends : x >= y
    BY DEF Max
  <2>3. Max(ends) \in ends /\ \A y \in ends : Max(ends) >= y
    BY <2>1, <2>2
  <2>4. Max(ends) >= e /\ e >= Max(ends) /\ Max(ends) \in Nat
    BY <2>1, <2>3
  <2> QED
    BY <1>5, <2>4
<1>7. SUFFICES
        /\ c = Cardinality({m \in DOMAIN w.sizes : EndOf(w, m) <= e})
        /\ AreMessagesFrom(again, link, 1)
        /\ \A m \in DOMAIN w.sizes :
             (\E ref \in Carriers(link) : EndOf(w, m) <= journal[ref].to)
             => \E n \in RecordsOf(again, link) : IsMessage(again.records[n], m)
  BY <1>6 DEF HasWholeMessages, CountOf, c, w
<1>8. CASE again.began[link] = 0
  <2>1. RecordsOf(again, link) = {} /\ e = 0
    BY <1>2, <1>8 DEF LinkInv
  <2>2. c = 0
    BY <2>1, FS_EmptySet DEF c, CountOf
  <2>3. {m \in DOMAIN w.sizes : EndOf(w, m) <= e} = {}
    BY <1>3, <2>1
  <2>4. Carriers(link) = {}
    BY <1>4, <1>5, <2>1
  <2> QED
    BY <2>1, <2>2, <2>3, <2>4, FS_EmptySet DEF AreMessagesFrom
<1>9. CASE again.began[link] # 0
  <2>1. Lookup(again.table, link) # {} /\ again.began[link] \in Units(w)
    BY <1>2, <1>9 DEF LinkInv, w
  <2>2. again.began[link] = 1 /\ DesyncAt(again, link) = 0
    BY <1>9, <2>1 DEF Whole
  <2>3. 1 \in DOMAIN w.sizes /\ StartOf(w, 1) = 1
    <3>1. EndOf(w, Len(w.sizes)) # 0
      BY <2>1, <2>2 DEF Units
    <3>2. Len(w.sizes) # 0
      BY <1>3, <3>1
    <3>3. EndOf(w, 1 - 1) = 0
      BY <1>3
    <3> QED
      BY <1>3, <3>2, <3>3 DEF StartOf
  <2>4. Row(again, link, 1) /\ InStep(w, s, 1 + c, e)
    BY <1>2, <2>2, <2>3 DEF LinkInv, w, s, c
  <2>5. c \in Nat /\ Idle(w, s)
    <3>1. PipelineInv(again, WhoOf(journal, {}))
      BY DEF ReplayInv
    <3> QED
      BY <3>1, RecordsFinite DEF PipelineInv, Pipeline, w, s, c
  <2>6. /\ \A m \in DOMAIN w.sizes : EndOf(w, m) <= e <=> m <= c
        /\ Cardinality({m \in DOMAIN w.sizes : EndOf(w, m) <= e}) = c
    BY <1>3, <2>4, <2>5, MessagesBy
  <2>7. ASSUME NEW m \in DOMAIN w.sizes,
               \E ref \in Carriers(link) : EndOf(w, m) <= journal[ref].to
        PROVE  \E n \in RecordsOf(again, link) : IsMessage(again.records[n], m)
    <3>1. EndOf(w, m) <= e
      BY <1>3, <1>4, <1>5, <2>7
    <3>2. m <= c
      BY <2>6, <3>1
    <3>3. m \in 1 .. 1 + c - 1
      BY <1>3, <2>5, <3>2
    <3> QED
      BY <2>4, <3>3 DEF Row, c
  <2> QED
    BY <2>4, <2>6, <2>7 DEF Row
<1> QED
  BY <1>8, <1>9

\* A message of which the session has a record was journaled whole.
LEMMA RecordedIsJournaled ==
  ASSUME DecodingInv, NEW n \in 1 .. Len(live.records), live.records[n].link \in TCPLinks,
         NEW m \in DOMAIN Wire[live.records[n].link].sizes, IsMessage(live.records[n], m)
  PROVE  LET link == live.records[n].link
         IN  \E ref \in Carriers(link) : EndOf(Wire[link], m) <= journal[ref].to
<1> DEFINE r == live.records[n]
           link == r.link
           w == Wire[link]
           who == WhoOf(journal, dropped)
           i == EndOf(w, m) - StartOf(w, m) + 1
<1>1. /\ IsWire(w) /\ link \in Links
  BY WireOf
<1>2. /\ StartOf(w, m) \in Nat \ {0} /\ EndOf(w, m) \in Int /\ i \in Nat \ {0}
  <2>1. /\ StartOf(w, m) \in Nat \ {0} /\ EndOf(w, m) >= StartOf(w, m) + HeaderSize - 1
        /\ m \in 0 .. Len(w.sizes)
    BY <1>1, WireEnds
  <2>2. EndOf(w, m) \in Nat
    BY <1>1, <2>1, WireEnds
  <2> QED
    BY <2>1, <2>2 DEF HeaderSize
<1>3. Len(r.units) = i /\ r.units[i] = EndOf(w, m)
  <2> DEFINE a == StartOf(w, m)
             b == EndOf(w, m)
  <2>1. a \in Int /\ b \in Int /\ a <= b + 1 /\ b - a + 1 \in 1 .. b - a + 1
    BY <1>2
  <2>2. r.units = Run(a, b)
    BY DEF IsMessage
  <2> HIDE DEF a, b
  <2>3. Len(r.units) = b - a + 1 /\ r.units[b - a + 1] = a + (b - a + 1) - 1
    BY <2>1, <2>2, RunOf
  <2>4. a + (b - a + 1) - 1 = b
    BY <2>1
  <2> QED
    BY <2>3, <2>4 DEF a, b
<1>4. Cites(r, who[link])
  BY DEF DecodingInv, PipelineInv, Recorded
<1> HIDE DEF r, w, i
<1>5. PICK k \in 1 .. Len(r.frames) : <<r.frames[k], EndOf(w, m)>> \in who[link]
  <2>1. i \in 1 .. Len(r.units)
    BY <1>2, <1>3
  <2> QED
    BY <1>3, <1>4, <2>1 DEF Cites
<1> DEFINE ref == r.frames[k]
<1>6. /\ ref \in 1 .. Len(journal) /\ journal[ref].link = link
      /\ journal[ref].from <= EndOf(w, m) /\ EndOf(w, m) <= journal[ref].to
  BY <1>1, <1>5 DEF WhoOf
<1>7. journal \in Seq(Frames)
  BY DEF DecodingInv
<1> HIDE DEF ref
<1>8. journal[ref].from <= journal[ref].to
  <2>1. journal[ref] \in Frames
    BY <1>6, <1>7
  <2>2. journal[ref] \in [link : Links, from : Nat, to : Nat]
    BY <2>1, DecodingAssumption DEF DecodingAssumption
  <2> QED
    BY <1>2, <1>6, <2>2
<1>9. ref \in Carriers(link)
  BY <1>6, <1>7, <1>8 DEF Carriers
<1> QED
  BY <1>6, <1>9 DEF r, w

\* A rebuild finds what the session missed: every datagram, and every whole message
\* of a link of which it has the beginning and no loss; and then all that the
\* session had seen (decode.Replay, the anomaly of capture.go).
THEOREM RebuildFindsAll == DecodingSpec => []RebuildRecovers
<1>1. DecodingInv /\ InRowInv => RebuildRecovers
  <2> SUFFICES ASSUME DecodingInv, InRowInv, NEW again, again = Replay(journal)
               PROVE  Recovers(again)
    BY DEF RebuildRecovers
  <2>1. journal \in Seq(Frames) /\ DOMAIN journal = 1 .. Len(journal)
    BY DEF DecodingInv
  <2>2. ReplayInv(again, journal, Len(journal))
    BY <2>1, ReplayKeeps
  <2>3. \A link : Carriers(link) = CarriersUpTo(journal, Len(journal), link)
    BY <2>1 DEF Carriers, CarriersUpTo
  <2>4. ASSUME NEW link \in Links \ TCPLinks
        PROVE  {again.records[n].frames : n \in RecordsOf(again, link)} =
                 {<<ref>> : ref \in Carriers(link)}
    BY <2>2, <2>3 DEF ReplayInv, HasDatagrams
  <2>5. \A link \in TCPLinks : Whole(again, link) => HasWholeMessages(again, link)
    BY <2>1, <2>2, WholeLink
  <2>6. ASSUME \A link \in TCPLinks : Whole(again, link)
        PROVE  live.observed \subseteq again.observed /\ live.novel \subseteq again.novel
    <3>1. ASSUME NEW n \in 1 .. Len(live.records), ~live.records[n].link.udp,
                 NEW m \in DOMAIN Wire[live.records[n].link].sizes, IsMessage(live.records[n], m)
          PROVE  \E k \in 1 .. Len(again.records) :
                   again.records[k].link = live.records[n].link /\ IsMessage(again.records[k], m)
      <4> DEFINE link == live.records[n].link
      <4>1. link \in TCPLinks
        <5>1. live.records \in Seq(Records)
          BY DEF DecodingInv, PipelineInv, Pipeline
        <5>2. live.records[n] \in Records
          BY <5>1
        <5> QED
          BY <3>1, <5>2 DEF Records, TCPLinks
      <4>2. \E ref \in Carriers(link) : EndOf(Wire[link], m) <= journal[ref].to
        BY <3>1, <4>1, RecordedIsJournaled
      <4>3. again.records \in Seq(Records)
        BY <2>2 DEF ReplayInv, PipelineInv, Pipeline
      <4> HIDE DEF link
      <4>4. m \in DOMAIN Wire[link].sizes
        BY <3>1 DEF link
      <4>5. \E k \in RecordsOf(again, link) : IsMessage(again.records[k], m)
        BY <2>1, <2>2, <2>6, <4>1, <4>2, <4>4, WholeLink
      <4>6. \A k \in RecordsOf(again, link) :
              k \in 1 .. Len(again.records) /\ again.records[k].link = link
        BY <4>3 DEF RecordsOf
      <4> QED
        BY <4>5, <4>6 DEF link
    <3>2. SeesRecords(live) /\ SeesRecords(again)
      BY <2>2 DEF InRowInv, ReplayInv
    <3>3. ASSUME NEW x \in live.observed PROVE x \in again.observed
      <4>1. PICK n \in 1 .. Len(live.records) : Shows(live.records[n], x)
        BY <3>2 DEF SeesRecords
      <4>2. PICK m \in DOMAIN Wire[live.records[n].link].sizes :
              /\ IsMessage(live.records[n], m)
              /\ x \in Elements(Wire[live.records[n].link], m)
        BY <4>1 DEF Shows
      <4>3. ~live.records[n].link.udp
        BY <4>1 DEF Shows
      <4>4. PICK k \in 1 .. Len(again.records) :
              again.records[k].link = live.records[n].link /\ IsMessage(again.records[k], m)
        BY <3>1, <4>2, <4>3
      <4>5. Shows(again.records[k], x)
        BY <4>2, <4>3, <4>4 DEF Shows
      <4> QED
        BY <3>2, <4>5 DEF SeesRecords
    <3>4. ASSUME NEW x \in live.novel PROVE x \in again.novel
      <4>1. PICK n \in 1 .. Len(live.records) : ShowsNovel(live.records[n], x)
        BY <3>2 DEF SeesRecords
      <4>2. PICK m \in DOMAIN Wire[live.records[n].link].sizes :
              /\ IsMessage(live.records[n], m)
              /\ x \in Novelties(Wire[live.records[n].link], m)
        BY <4>1 DEF ShowsNovel
      <4>3. ~live.records[n].link.udp
        BY <4>1 DEF ShowsNovel
      <4>4. PICK k \in 1 .. Len(again.records) :
              again.records[k].link = live.records[n].link /\ IsMessage(again.records[k], m)
        BY <3>1, <4>2, <4>3
      <4>5. ShowsNovel(again.records[k], x)
        BY <4>2, <4>3, <4>4 DEF ShowsNovel
      <4> QED
        BY <3>2, <4>5 DEF SeesRecords
    <3> QED
      BY <3>3, <3>4
  <2> QED
    BY <2>4, <2>5, <2>6 DEF Recovers
<1> QED
  BY <1>1, DecodingFlow, DecodingInStep, PTL
=============================================================================
