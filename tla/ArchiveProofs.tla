----------------------------- MODULE ArchiveProofs -----------------------------
(***************************************************************************)
(* Proofs about the way of an archive into the file system: HttpFetch,     *)
(* which gets it, and ExtractArchive, which unpacks it.                    *)
(*                                                                         *)
(* For any replies, sizes of buffers, limits and URLs, and however a reply *)
(* is cut into reads, the archive that is written is the body of the       *)
(* reply, and no download fails for a full buffer that would have fitted.  *)
(* For any archives and sizes, however they are read in portions or        *)
(* divided by their compressor, an archive that is unpacked with success   *)
(* is there, whole and under its names, and no part of a file is left      *)
(* behind by one that is not.                                              *)
(***************************************************************************)
EXTENDS HttpFetch, ExtractArchive, NaturalsInduction, WellFoundedInduction, TLAPS


----------------------------------------------------------------------------
(* Sequences. *)

\* Sequences of the same length with the same elements are the same.
LEMMA SameSeq ==
    ASSUME NEW S, NEW a \in Seq(S), NEW b \in Seq(S), Len(a) = Len(b),
           \A i \in 1..Len(a) : a[i] = b[i]
    PROVE  a = b
  OBVIOUS

\* The elements of two sequences joined.
LEMMA Joined ==
    ASSUME NEW S, NEW s \in Seq(S), NEW t \in Seq(S)
    PROVE  /\ s \o t \in Seq(S) /\ Len(s \o t) = Len(s) + Len(t)
           /\ \A i \in 1..Len(s) : (s \o t)[i] = s[i]
           /\ \A i \in 1..Len(t) : (s \o t)[i + Len(s)] = t[i]
           /\ \A i \in (Len(s) + 1)..(Len(s) + Len(t)) : (s \o t)[i] = t[i - Len(s)]
  OBVIOUS

\* Joining nothing changes nothing.
LEMMA Nothing ==
    ASSUME NEW S, NEW s \in Seq(S)
    PROVE  s \o <<>> = s /\ <<>> \o s = s
  OBVIOUS

\* Joining is associative.
LEMMA Regrouped ==
    ASSUME NEW S, NEW a \in Seq(S), NEW b \in Seq(S), NEW c \in Seq(S)
    PROVE  (a \o b) \o c = a \o (b \o c)
  <1> DEFINE l == (a \o b) \o c
             r == a \o (b \o c)
  <1>1. /\ a \o b \in Seq(S) /\ Len(a \o b) = Len(a) + Len(b)
        /\ b \o c \in Seq(S) /\ Len(b \o c) = Len(b) + Len(c)
    OBVIOUS
  <1>2. /\ l \in Seq(S) /\ Len(l) = Len(a) + Len(b) + Len(c)
        /\ r \in Seq(S) /\ Len(r) = Len(a) + Len(b) + Len(c)
        /\ Len(a) \in Nat /\ Len(b) \in Nat /\ Len(c) \in Nat
    BY <1>1
  <1>3. ASSUME NEW i \in 1..Len(l) PROVE l[i] = r[i]
    <2>1. CASE i <= Len(a)
      BY <2>1, <1>1, <1>2
    <2>2. CASE i > Len(a) /\ i <= Len(a) + Len(b)
      <3>1. l[i] = (a \o b)[i] /\ (a \o b)[i] = b[i - Len(a)]
        BY <2>2, <1>1, <1>2
      <3>2. r[i] = (b \o c)[i - Len(a)] /\ (b \o c)[i - Len(a)] = b[i - Len(a)]
        BY <2>2, <1>1, <1>2
      <3> QED  BY <3>1, <3>2
    <2>3. CASE i > Len(a) + Len(b)
      <3>1. l[i] = c[i - (Len(a) + Len(b))]
        BY <2>3, <1>1, <1>2
      <3>2. r[i] = (b \o c)[i - Len(a)] /\ (b \o c)[i - Len(a)] = c[i - Len(a) - Len(b)]
        BY <2>3, <1>1, <1>2
      <3>3. i - (Len(a) + Len(b)) = i - Len(a) - Len(b)
        BY <1>2
      <3> QED  BY <3>1, <3>2, <3>3
    <2>4. \/ i <= Len(a) \/ (i > Len(a) /\ i <= Len(a) + Len(b)) \/ i > Len(a) + Len(b)
      BY <1>2
    <2> QED  BY <2>1, <2>2, <2>3, <2>4, Zenon
  <1> HIDE DEF l, r
  <1>4. l = r
    BY <1>2, <1>3, SameSeq
  <1> QED
    BY <1>4 DEF l, r

\* The elements of the two parts of a sequence.
LEMMA Parts ==
    ASSUME NEW S, NEW s \in Seq(S), NEW k \in 0..Len(s)
    PROVE  /\ SubSeq(s, 1, k) \in Seq(S) /\ Len(SubSeq(s, 1, k)) = k
           /\ \A i \in 1..k : SubSeq(s, 1, k)[i] = s[i]
           /\ SubSeq(s, k + 1, Len(s)) \in Seq(S)
           /\ Len(SubSeq(s, k + 1, Len(s))) = Len(s) - k
           /\ \A i \in 1..(Len(s) - k) : SubSeq(s, k + 1, Len(s))[i] = s[i + k]
  OBVIOUS

\* The two parts of a sequence, joined again.
LEMMA Divided ==
    ASSUME NEW S, NEW s \in Seq(S), NEW k \in 0..Len(s)
    PROVE  SubSeq(s, 1, k) \o SubSeq(s, k + 1, Len(s)) = s
  <1> DEFINE f == SubSeq(s, 1, k)
             r == SubSeq(s, k + 1, Len(s))
  <1>1. /\ f \in Seq(S) /\ Len(f) = k /\ \A i \in 1..k : f[i] = s[i]
        /\ r \in Seq(S) /\ Len(r) = Len(s) - k /\ \A i \in 1..(Len(s) - k) : r[i] = s[i + k]
        /\ Len(s) \in Nat /\ k \in Nat
    BY Parts
  <1> HIDE DEF f, r
  <1>2. /\ f \o r \in Seq(S) /\ Len(f \o r) = Len(s)
    BY <1>1
  <1>3. ASSUME NEW i \in 1..Len(f \o r) PROVE (f \o r)[i] = s[i]
    <2>1. CASE i <= k
      BY <2>1, <1>1
    <2>2. CASE i > k
      <3>1. (f \o r)[i] = r[i - k] /\ i - k \in 1..(Len(s) - k) /\ (i - k) + k = i
        BY <2>2, <1>1, <1>2
      <3> QED  BY <3>1, <1>1
    <2> QED  BY <2>1, <2>2, <1>1
  <1>4. f \o r = s
    BY <1>2, <1>3, SameSeq
  <1> QED
    BY <1>4 DEF f, r

\* What is behind the first of two parts.
LEMMA Behind ==
    ASSUME NEW S, NEW a \in Seq(S), NEW b \in Seq(S)
    PROVE  SubSeq(a \o b, Len(a) + 1, Len(a \o b)) = b
  <1> DEFINE t == SubSeq(a \o b, Len(a) + 1, Len(a \o b))
             w == a \o b
  <1>1. /\ w \in Seq(S) /\ Len(w) = Len(a) + Len(b) /\ Len(a) \in Nat /\ Len(b) \in Nat
        /\ \A i \in 1..Len(b) : w[i + Len(a)] = b[i]
    OBVIOUS
  <1>2. /\ t \in Seq(S) /\ Len(t) = Len(w) - Len(a)
        /\ \A i \in 1..(Len(w) - Len(a)) : t[i] = w[i + Len(a)]
    <2>0. Len(a) \in 0..Len(w)
      BY <1>1
    <2> QED  BY <2>0, <1>1, Parts
  <1> HIDE DEF t, w
  <1>3. Len(t) = Len(b) /\ \A i \in 1..Len(t) : t[i] = b[i]
    BY <1>1, <1>2
  <1>4. t = b
    BY <1>2, <1>3, SameSeq
  <1> QED
    BY <1>4 DEF t, w

\* Induction, on a set.
LEMMA LeastNumber == ASSUME NEW T \in SUBSET Nat, T # {}
                     PROVE  \E x \in T : \A y \in T : x <= y
  <1> DEFINE R == {ss \in Nat \X Nat : ss[1] < ss[2]}
  <1>1. IsWellFoundedOn(R, Nat)
    BY NatLessThanWellFounded DEF OpToRel
  <1>2. \A x \in Nat, y \in Nat : <<x, y>> \in R <=> x < y
    OBVIOUS
  <1> HIDE DEF R
  <1>3. PICK x \in T : \A y \in T : ~ (<<y, x>> \in R)
    BY <1>1, WFMin
  <1>4. ASSUME NEW y \in T PROVE x <= y
    <2>1. ~(<<y, x>> \in R)
      BY <1>3
    <2>2. x \in Nat /\ y \in Nat
      OBVIOUS
    <2>3. ~(y < x)
      BY <1>2, <2>1, <2>2, Zenon
    <2> QED  BY <2>2, <2>3
  <1> QED
    BY <1>3, <1>4

\* A set with 0 and with every successor is that of all naturals.
LEMMA InductionOnSet == ASSUME NEW P \in SUBSET Nat, 0 \in P, \A n \in P : n + 1 \in P
                        PROVE  P = Nat
  <1>1. SUFFICES ASSUME Nat \ P # {} PROVE FALSE
    OBVIOUS
  <1>2. PICK x \in Nat \ P : \A y \in Nat \ P : x <= y
    BY <1>1, LeastNumber
  <1>3. x # 0 /\ x - 1 \in Nat /\ ~(x <= x - 1)
    BY <1>2
  <1>4. x - 1 \in P /\ (x - 1) + 1 = x
    BY <1>2, <1>3
  <1> QED
    BY <1>2, <1>4

\* The sequences g[k] that are left of the joined elements of s after k of them.
Leaves(S, g, s) ==
    /\ g \in [0..Len(s) -> Seq(S)] /\ g[Len(s)] = <<>>
    /\ \A k \in 0..(Len(s) - 1) : g[k] = s[k + 1] \o g[k + 1]

Heads(S, h, s, n) ==
    /\ h \in [1..n -> Seq(S)]
    /\ \A i \in 1..n : h[i] = IF i = 1 THEN s[i] ELSE h[i - 1] \o s[i]

\* Every sequence of sequences has its joined beginnings.
LEMMA HeadsOf ==
    ASSUME NEW S, NEW s \in Seq(Seq(S)) PROVE \E h : Heads(S, h, s, Len(s))
  <1> DEFINE P == {n \in Nat : n <= Len(s) => \E h : Heads(S, h, s, n)}
  <1>1. Len(s) \in Nat /\ \A n \in 1..Len(s) : s[n] \in Seq(S)
    OBVIOUS
  <1>2. 0 \in P
    <2>1. Heads(S, [n \in 1..0 |-> <<>>], s, 0)
      BY DEF Heads
    <2> QED  BY <2>1
  <1>3. ASSUME NEW n \in P PROVE n + 1 \in P
    <2>1. n \in Nat /\ n + 1 \in Nat
      OBVIOUS
    <2>2. SUFFICES ASSUME n + 1 <= Len(s) PROVE \E h : Heads(S, h, s, n + 1)
      BY <2>1
    <2>3. PICK h : Heads(S, h, s, n)
      BY <2>1, <2>2, <1>1
    <2> DEFINE new == IF n + 1 = 1 THEN s[n + 1] ELSE h[n] \o s[n + 1]
               g == [i \in 1..(n + 1) |-> IF i = n + 1 THEN new ELSE h[i]]
    <2>4. n + 1 \in 1..Len(s) /\ s[n + 1] \in Seq(S)
      BY <1>1, <2>1, <2>2
    <2>5. new \in Seq(S)
      <3>1. n + 1 # 1 => h[n] \in Seq(S)
        BY <2>1, <2>3 DEF Heads
      <3> QED  BY <3>1, <2>4
    <2>6. \A i \in 1..n : i \in 1..(n + 1) /\ i # n + 1 /\ g[i] = h[i]
      BY <2>1
    <2>7. g[n + 1] = new
      BY <2>1
    <2>8. ASSUME NEW i \in 1..(n + 1) PROVE g[i] \in Seq(S) /\ g[i] = IF i = 1 THEN s[i] ELSE g[i - 1] \o s[i]
      <3>1. CASE i = n + 1
        <4>1. i # 1 => g[i - 1] = h[n]
          BY <3>1, <2>1, <2>6
        <4> HIDE DEF g
        <4> QED  BY <4>1, <3>1, <2>5, <2>7
      <3>2. CASE i # n + 1
        <4>1. i \in 1..n /\ (i # 1 => i - 1 \in 1..n)
          BY <3>2, <2>1
        <4>2. g[i] = h[i] /\ (i # 1 => g[i - 1] = h[i - 1])
          BY <4>1, <2>6
        <4>3. h[i] \in Seq(S) /\ h[i] = IF i = 1 THEN s[i] ELSE h[i - 1] \o s[i]
          BY <4>1, <2>3 DEF Heads
        <4> HIDE DEF g
        <4> QED  BY <4>2, <4>3
      <3> QED  BY <3>1, <3>2
    <2>9. g \in [1..(n + 1) -> Seq(S)]
      <3>1. g = [i \in 1..(n + 1) |-> g[i]]
        OBVIOUS
      <3> HIDE DEF g
      <3> QED  BY <3>1, <2>8
    <2> HIDE DEF g
    <2> QED
      BY <2>8, <2>9 DEF Heads
  <1>4. P = Nat
    <2> HIDE DEF P
    <2>1. P \in SUBSET Nat
      BY DEF P
    <2> QED  BY <2>1, <1>2, <1>3, InductionOnSet, Zenon
  <1> QED
    BY <1>1, <1>4

\* The last of them is what FlattenSeq is, which is defined by choice.
LEMMA FlattenIs ==
    ASSUME NEW S, NEW s \in Seq(Seq(S)), Len(s) > 0
    PROVE  \E h : Heads(S, h, s, Len(s)) /\ FlattenSeq(s) = h[Len(s)]
  <1> DEFINE Eq(h) == h = [i \in 1..Len(s) |-> IF i = 1 THEN s[i] ELSE h[i - 1] \o s[i]]
             c == CHOOSE h : Eq(h)
  <1>0. Len(s) \in Nat /\ Len(s) # 0
    OBVIOUS
  <1>1. FlattenSeq(s) = c[Len(s)]
    BY <1>0 DEF FlattenSeq
  <1>2. PICK h : Heads(S, h, s, Len(s))
    BY HeadsOf
  <1>3. Eq(h)
    <2>1. h = [i \in 1..Len(s) |-> h[i]]
      BY <1>2 DEF Heads
    <2>2. \A i \in 1..Len(s) : h[i] = IF i = 1 THEN s[i] ELSE h[i - 1] \o s[i]
      BY <1>2 DEF Heads
    <2> QED  BY <2>1, <2>2
  <1>4. Eq(c)
    <2> HIDE DEF Eq
    <2> QED  BY <1>3
  <1>5. \A i \in 1..Len(s) : c[i] = IF i = 1 THEN s[i] ELSE c[i - 1] \o s[i]
    <2> HIDE DEF c
    <2> QED  BY <1>4
  <1> DEFINE P == {n \in Nat : n + 1 <= Len(s) => c[n + 1] \in Seq(S)}
  <1>6. \A i \in 1..Len(s) : s[i] \in Seq(S)
    OBVIOUS
  <1> HIDE DEF c
  <1>7. 0 \in P
    BY <1>0, <1>5, <1>6
  <1>8. ASSUME NEW n \in P PROVE n + 1 \in P
    <2>1. n \in Nat /\ n + 1 \in Nat
      OBVIOUS
    <2>2. SUFFICES ASSUME n + 2 <= Len(s) PROVE c[n + 2] \in Seq(S)
      BY <2>1, <1>0
    <2>3. c[n + 1] \in Seq(S)
      BY <2>1, <2>2, <1>0
    <2>4. n + 2 \in 1..Len(s) /\ n + 2 # 1 /\ n + 2 - 1 = n + 1
      BY <2>1, <2>2, <1>0
    <2>5. c[n + 2] = c[n + 1] \o s[n + 2]
      <3> DEFINE m == n + 2
      <3>1. m \in 1..Len(s) /\ m # 1 /\ m - 1 = n + 1
        BY <2>4
      <3> HIDE DEF m
      <3>2. c[m] = c[m - 1] \o s[m]
        BY <3>1, <1>5
      <3>3. c[m] = c[n + 1] \o s[m]
        BY <3>1, <3>2
      <3> QED  BY <3>3 DEF m
    <2> QED  BY <2>3, <2>4, <2>5, <1>6
  <1>9. P = Nat
    <2> HIDE DEF P
    <2>1. P \in SUBSET Nat
      BY DEF P
    <2> QED  BY <2>1, <1>7, <1>8, InductionOnSet, Zenon
  <1>10. \A i \in 1..Len(s) : c[i] \in Seq(S)
    <2> TAKE i \in 1..Len(s)
    <2>1. i - 1 \in Nat /\ (i - 1) + 1 = i /\ i <= Len(s)
      BY <1>0
    <2>2. i - 1 \in P
      BY <2>1, <1>9
    <2> QED  BY <2>1, <2>2
  <1>11. c = [i \in 1..Len(s) |-> c[i]]
    <2>1. DOMAIN c = 1..Len(s) /\ c = [i \in DOMAIN c |-> c[i]]
      BY <1>4
    <2> QED  BY <2>1
  <1>12. c \in [1..Len(s) -> Seq(S)]
    BY <1>10, <1>11
  <1>13. Heads(S, c, s, Len(s))
    BY <1>5, <1>12 DEF Heads
  <1> QED
    BY <1>1, <1>13

Tails(S, g, s, L, n) ==
    /\ g \in [(L - n)..L -> Seq(S)] /\ g[L] = <<>>
    /\ \A k \in (L - n)..(L - 1) : g[k] = s[k + 1] \o g[k + 1]

\* Every sequence of sequences has its joined ends.
LEMMA LeavesOf ==
    ASSUME NEW S, NEW s \in Seq(Seq(S)) PROVE \E g : Leaves(S, g, s)
  <1> DEFINE L == Len(s)
             P == {n \in Nat : n <= L => \E g : Tails(S, g, s, L, n)}
  <1>1. L \in Nat /\ \A n \in 1..L : s[n] \in Seq(S)
    OBVIOUS
  <1> HIDE DEF L
  <1>2. 0 \in P
    <2> DEFINE g == [k \in (L - 0)..L |-> <<>>]
    <2>1. g \in [(L - 0)..L -> Seq(S)] /\ g[L] = <<>> /\ (L - 0)..(L - 1) = {}
      BY <1>1
    <2>2. Tails(S, g, s, L, 0)
      BY <2>1 DEF Tails
    <2> QED  BY <2>2
  <1>3. ASSUME NEW n \in P PROVE n + 1 \in P
    <2>1. n \in Nat /\ n + 1 \in Nat
      OBVIOUS
    <2>2. SUFFICES ASSUME n + 1 <= L PROVE \E g : Tails(S, g, s, L, n + 1)
      BY <2>1
    <2>3. PICK g : Tails(S, g, s, L, n)
      BY <2>1, <2>2, <1>1
    <2> DEFINE m == L - (n + 1)
               new == s[m + 1] \o g[m + 1]
               f == [k \in m..L |-> IF k = m THEN new ELSE g[k]]
    <2>30. /\ g \in [(L - n)..L -> Seq(S)] /\ g[L] = <<>>
           /\ \A k \in (L - n)..(L - 1) : g[k] = s[k + 1] \o g[k + 1]
      BY <2>3 DEF Tails
    <2>4. m \in Nat /\ m < L /\ m + 1 = L - n /\ m + 1 \in 1..L /\ m + 1 \in (L - n)..L
      BY <1>1, <2>1, <2>2
    <2> HIDE DEF m
    <2>5. g[m + 1] \in Seq(S) /\ s[m + 1] \in Seq(S)
      BY <2>30, <2>4, <1>1
    <2>6. new \in Seq(S)
      BY <2>5
    <2> HIDE DEF new
    <2>7. \A k \in (L - n)..L : k \in m..L /\ k # m /\ f[k] = g[k] /\ g[k] \in Seq(S)
      <3> TAKE k \in (L - n)..L
      <3>1. k \in m..L /\ k # m /\ g[k] \in Seq(S)
        BY <2>30, <2>4, <1>1, <2>1
      <3> QED  BY <3>1
    <2>8. f[m] = new
      <3>1. m \in m..L
        BY <2>4, <1>1
      <3> QED  BY <3>1
    <2>9. f \in [m..L -> Seq(S)]
      <3>1. \A k \in m..L : k = m \/ k \in (L - n)..L
        BY <2>4, <1>1
      <3> QED  BY <3>1, <2>6, <2>7, <2>8
    <2> HIDE DEF f
    <2>10. f[L] = <<>>
      <3>1. L \in (L - n)..L
        BY <1>1, <2>1
      <3> QED  BY <3>1, <2>30, <2>7
    <2>11. ASSUME NEW k \in m..(L - 1) PROVE f[k] = s[k + 1] \o f[k + 1]
      <3>1. k + 1 \in (L - n)..L
        BY <2>4, <1>1, <2>1
      <3>2. f[k + 1] = g[k + 1]
        BY <3>1, <2>7
      <3>3. CASE k = m
        BY <3>2, <3>3, <2>8 DEF new
      <3>4. CASE k # m
        <4>1. k \in (L - n)..(L - 1) /\ k \in (L - n)..L
          BY <3>4, <2>4, <1>1, <2>1
        <4>2. g[k] = s[k + 1] \o g[k + 1] /\ f[k] = g[k]
          BY <4>1, <2>30, <2>7
        <4> QED  BY <4>2, <3>2
      <3> QED  BY <3>3, <3>4
    <2>12. Tails(S, f, s, L, n + 1)
      BY <2>9, <2>10, <2>11 DEF m, Tails
    <2> QED  BY <2>12
  <1>4. P = Nat
    <2> HIDE DEF P
    <2>1. P \in SUBSET Nat
      BY DEF P
    <2> QED  BY <2>1, <1>2, <1>3, InductionOnSet, Zenon
  <1>5. PICK g : Tails(S, g, s, L, L)
    <2>1. L \in P
      <3> HIDE DEF P
      <3> QED  BY <1>1, <1>4
    <2> QED  BY <1>1, <2>1
  <1>6. L - L = 0
    BY <1>1
  <1>7. Leaves(S, g, s)
    BY <1>5, <1>6 DEF L, Leaves, Tails
  <1> QED
    BY <1>7

\* Joined elements, taken from the front one by one.
LEMMA FlattenLeaves ==
    ASSUME NEW S, NEW s \in Seq(Seq(S))
    PROVE  \E g : Leaves(S, g, s) /\ g[0] = FlattenSeq(s) /\ FlattenSeq(s) \in Seq(S)
  <1> DEFINE L == Len(s)
  <1>1. PICK g : Leaves(S, g, s)
    BY LeavesOf
  <1>2. /\ g \in [0..L -> Seq(S)] /\ g[L] = <<>>
        /\ \A k \in 0..(L - 1) : g[k] = s[k + 1] \o g[k + 1]
    BY <1>1 DEF Leaves
  <1>3. L \in Nat /\ \A n \in 1..L : s[n] \in Seq(S)
    OBVIOUS
  <1>4. CASE L = 0
    <2>1. FlattenSeq(s) = s /\ s = <<>>
      BY <1>4 DEF FlattenSeq
    <2>2. g[0] = <<>>
      BY <1>2, <1>4
    <2> QED  BY <1>1, <2>1, <2>2
  <1>5. CASE L > 0
    <2>1. PICK h : Heads(S, h, s, L) /\ FlattenSeq(s) = h[L]
      BY <1>5, FlattenIs
    <2>2. /\ h \in [1..L -> Seq(S)]
          /\ \A i \in 1..L : h[i] = IF i = 1 THEN s[i] ELSE h[i - 1] \o s[i]
      BY <2>1 DEF Heads
    <2> HIDE DEF L
    <2> DEFINE P == {n \in Nat : n + 1 <= L => h[n + 1] \o g[n + 1] = g[0]}
    <2>3. 0 \in P
      <3>1. h[1] = s[1] /\ g[0] = s[1] \o g[1]
        <4>1. 1 \in 1..L /\ 0 \in 0..(L - 1) /\ 0 + 1 = 1
          BY <1>3, <1>5
        <4>2. h[1] = s[1]
          BY <4>1, <2>2
        <4>3. g[0] = s[0 + 1] \o g[0 + 1]
          BY <4>1, <1>2, Zenon
        <4> QED  BY <4>1, <4>2, <4>3
      <3>2. h[0 + 1] \o g[0 + 1] = g[0]
        <4>1. 0 + 1 = 1
          OBVIOUS
        <4> QED  BY <3>1, <4>1, Zenon
      <3> QED  BY <3>2
    <2>4. ASSUME NEW n \in P PROVE n + 1 \in P
      <3>1. n \in Nat /\ n + 1 \in Nat
        OBVIOUS
      <3> DEFINE m == n + 1
      <3>2. SUFFICES ASSUME m + 1 <= L PROVE h[m + 1] \o g[m + 1] = g[0]
        BY <3>1
      <3>3. m \in 1..L /\ m \in 0..(L - 1) /\ m + 1 \in 1..L /\ m + 1 # 1 /\ (m + 1) - 1 = m /\ m + 1 \in 0..L
        BY <3>1, <3>2, <1>3
      <3>4. h[m] \o g[m] = g[0]
        <4>1. n + 1 <= L
          BY <3>3, <1>3
        <4> QED  BY <4>1
      <3> HIDE DEF m
      <3>5. h[m + 1] = h[m] \o s[m + 1]
        <4> DEFINE j == m + 1
        <4>1. j \in 1..L /\ j # 1 /\ j - 1 = m
          BY <3>3
        <4> HIDE DEF j
        <4>2. h[j] = h[j - 1] \o s[j]
          BY <4>1, <2>2
        <4>3. h[j] = h[m] \o s[j]
          BY <4>1, <4>2
        <4> QED  BY <4>3 DEF j
      <3>6. g[m] = s[m + 1] \o g[m + 1]
        BY <3>3, <1>2
      <3>7. h[m] \in Seq(S) /\ s[m + 1] \in Seq(S) /\ g[m + 1] \in Seq(S)
        BY <3>3, <1>2, <1>3, <2>2
      <3>8. (h[m] \o s[m + 1]) \o g[m + 1] = h[m] \o (s[m + 1] \o g[m + 1])
        <4> DEFINE a == h[m]
                   b == s[m + 1]
                   c == g[m + 1]
        <4>1. a \in Seq(S) /\ b \in Seq(S) /\ c \in Seq(S)
          BY <3>7
        <4> HIDE DEF a, b, c
        <4>2. (a \o b) \o c = a \o (b \o c)
          BY <4>1, Regrouped
        <4> QED  BY <4>2 DEF a, b, c
      <3> QED  BY <3>4, <3>5, <3>6, <3>8
    <2>5. P = Nat
      <3> HIDE DEF P
      <3>1. P \in SUBSET Nat
        BY DEF P
      <3> QED  BY <3>1, <2>3, <2>4, InductionOnSet, Zenon
    <2>6. L - 1 \in Nat /\ (L - 1) + 1 = L /\ L <= L /\ L \in 1..L
      BY <1>3, <1>5
    <2>60. L - 1 \in P
      <3> HIDE DEF P
      <3> QED  BY <2>5, <2>6
    <2>7. h[L] \o g[L] = g[0] /\ h[L] \in Seq(S)
      BY <2>6, <2>60, <2>2
    <2>8. h[L] \o <<>> = h[L]
      BY <2>7
    <2> QED  BY <1>1, <1>2, <2>1, <2>7, <2>8
  <1> QED
    BY <1>3, <1>4, <1>5

----------------------------------------------------------------------------
(* A reply, and what is left of it after k of its chunks.                  *)

Frames(r) == [i \in DOMAIN r.chunks |-> Framed(r.chunks[i])]

BodyRests(r) == CHOOSE g : Leaves(Nat, g, r.chunks) /\ g[0] = FlattenSeq(r.chunks)
FrameRests(r) == CHOOSE g : Leaves(Nat, g, Frames(r)) /\ g[0] = FlattenSeq(Frames(r))

BodyLeft(r, k) == BodyRests(r)[k]
SentLeft(r, k) == FrameRests(r)[k] \o LastChunk

\* What a reply is made of.
LEMMA ReplyIs ==
    ASSUME NEW r \in Replies
    PROVE  /\ r.kind \in {"sized", "unsized", "chunked", "garbled", "refusal", "redirect"}
           /\ r.head \in Nat /\ r.head >= 1 /\ r.chunks \in Seq(Seq(Nat)) /\ r.to \in Urls
           /\ Body(r) \in Seq(Nat)
  <1>1. /\ r.kind \in {"sized", "unsized", "chunked", "garbled", "refusal", "redirect"}
        /\ r.head \in Nat \ {0} /\ r.chunks \in Seq(Seq(Nat)) /\ r.to \in Urls
    BY RepliesAssumption
  <1>2. Body(r) \in Seq(Nat)
    BY <1>1, FlattenLeaves DEF Body
  <1> QED
    BY <1>1, <1>2

\* A chunk as it is sent: a size line, then the bytes with a CRLF after them.
LEMMA FramedIs ==
    ASSUME NEW c \in Seq(Nat), Len(c) \in 1..9
    PROVE  /\ Framed(c) \in Seq(Nat)
           /\ Framed(c) = <<48 + Len(c), CR, LF>> \o (c \o <<CR, LF>>)
           /\ <<48 + Len(c), CR, LF>> \in Seq(Nat) /\ c \o <<CR, LF>> \in Seq(Nat)
           /\ Len(c \o <<CR, LF>>) = Len(c) + 2
  <1> DEFINE a == <<48 + Len(c), CR, LF>>
             b == <<CR, LF>>
  <1>1. a \in Seq(Nat) /\ b \in Seq(Nat) /\ Len(b) = 2
    BY DEF CR, LF
  <1> HIDE DEF a, b
  <1>2. c \o b \in Seq(Nat) /\ Len(c \o b) = Len(c) + 2 /\ (a \o c) \o b \in Seq(Nat)
    <2>1. c \o b \in Seq(Nat) /\ Len(c \o b) = Len(c) + 2
      <3>1. c \o b \in Seq(Nat) /\ Len(c \o b) = Len(c) + Len(b)
        BY <1>1, Joined
      <3> QED  BY <3>1, <1>1
    <2>2. a \o c \in Seq(Nat)
      BY <1>1, Joined
    <2>3. (a \o c) \o b \in Seq(Nat)
      BY <2>2, <1>1, Joined
    <2> QED  BY <2>1, <2>3
  <1>3. (a \o c) \o b = a \o (c \o b)
    BY <1>1, Regrouped
  <1>4. Framed(c) = (a \o c) \o b
    BY DEF Framed, Digit, a, b
  <1> QED
    BY <1>1, <1>2, <1>3, <1>4 DEF a, b

\* The chunk of none: its size line and an empty line.
LEMMA LastIs == LastChunk \in Seq(Nat) /\ LastChunk = <<48, CR, LF>> \o <<CR, LF>>
  BY DEF LastChunk, Digit, CR, LF

\* A chunked reply taken apart chunk by chunk, as body and as it is sent.
LEMMA LeftOf ==
    ASSUME NEW r \in Replies, r.kind = "chunked"
    PROVE  LET N == Len(r.chunks)
           IN  /\ N \in Nat
               /\ \A k \in 0..N : BodyLeft(r, k) \in Seq(Nat) /\ SentLeft(r, k) \in Seq(Nat)
               /\ BodyLeft(r, 0) = Body(r) /\ SentLeft(r, 0) = Encoded(r)
               /\ BodyLeft(r, N) = <<>> /\ SentLeft(r, N) = LastChunk
               /\ \A k \in 0..(N - 1) :
                      /\ r.chunks[k + 1] \in Seq(Nat) /\ Len(r.chunks[k + 1]) \in 1..9
                      /\ BodyLeft(r, k) = r.chunks[k + 1] \o BodyLeft(r, k + 1)
                      /\ SentLeft(r, k) = Framed(r.chunks[k + 1]) \o SentLeft(r, k + 1)
  <1> DEFINE N == Len(r.chunks)
             B == BodyRests(r)
             F == FrameRests(r)
  <1>0. r.chunks \in Seq(Seq(Nat)) /\ N \in Nat /\ DOMAIN r.chunks = 1..N
    BY ReplyIs
  <1>1. \A i \in 1..N : r.chunks[i] \in Seq(Nat) /\ Len(r.chunks[i]) \in 1..9
    BY <1>0, RepliesAssumption
  <1>2. Frames(r) \in Seq(Seq(Nat)) /\ Len(Frames(r)) = N
        /\ \A i \in 1..N : Frames(r)[i] = Framed(r.chunks[i])
    <2>1. \A i \in 1..N : Framed(r.chunks[i]) \in Seq(Nat)
      BY <1>1, FramedIs
    <2>2. Frames(r) = [i \in 1..N |-> Framed(r.chunks[i])]
      BY <1>0 DEF Frames
    <2> QED  BY <1>0, <2>1, <2>2
  <1>3. Leaves(Nat, B, r.chunks) /\ B[0] = FlattenSeq(r.chunks)
    <2>1. \E g : Leaves(Nat, g, r.chunks) /\ g[0] = FlattenSeq(r.chunks)
      BY <1>0, FlattenLeaves
    <2> QED  BY <2>1 DEF BodyRests
  <1>4. Leaves(Nat, F, Frames(r)) /\ F[0] = FlattenSeq(Frames(r))
    <2>1. \E g : Leaves(Nat, g, Frames(r)) /\ g[0] = FlattenSeq(Frames(r))
      BY <1>2, FlattenLeaves
    <2> QED  BY <2>1 DEF FrameRests
  <1> HIDE DEF B, F, N
  <1>5. /\ B \in [0..N -> Seq(Nat)] /\ B[N] = <<>>
        /\ \A k \in 0..(N - 1) : B[k] = r.chunks[k + 1] \o B[k + 1]
    BY <1>3 DEF Leaves, N
  <1>6. /\ F \in [0..N -> Seq(Nat)] /\ F[N] = <<>>
        /\ \A k \in 0..(N - 1) : F[k] = Frames(r)[k + 1] \o F[k + 1]
    BY <1>4, <1>2 DEF Leaves
  <1>7. \A k \in 0..N : BodyLeft(r, k) = B[k] /\ SentLeft(r, k) = F[k] \o LastChunk
    BY DEF BodyLeft, SentLeft, B, F
  <1>8. \A k \in 0..N : BodyLeft(r, k) \in Seq(Nat) /\ SentLeft(r, k) \in Seq(Nat)
    <2> TAKE k \in 0..N
    <2>1. B[k] \in Seq(Nat) /\ F[k] \in Seq(Nat)
      BY <1>5, <1>6
    <2>2. F[k] \o LastChunk \in Seq(Nat)
      BY <2>1, LastIs
    <2> QED  BY <1>7, <2>1, <2>2
  <1>9. BodyLeft(r, 0) = Body(r) /\ SentLeft(r, 0) = Encoded(r)
    <2>1. Encoded(r) = FlattenSeq(Frames(r)) \o LastChunk
      BY DEF Encoded, Frames
    <2>2. 0 \in 0..N
      BY <1>0
    <2> QED  BY <2>1, <2>2, <1>3, <1>4, <1>7 DEF Body
  <1>10. BodyLeft(r, N) = <<>> /\ SentLeft(r, N) = LastChunk
    <2>1. N \in 0..N /\ <<>> \o LastChunk = LastChunk
      BY <1>0, LastIs
    <2> QED  BY <2>1, <1>5, <1>6, <1>7
  <1>11. ASSUME NEW k \in 0..(N - 1)
         PROVE  /\ r.chunks[k + 1] \in Seq(Nat) /\ Len(r.chunks[k + 1]) \in 1..9
                /\ BodyLeft(r, k) = r.chunks[k + 1] \o BodyLeft(r, k + 1)
                /\ SentLeft(r, k) = Framed(r.chunks[k + 1]) \o SentLeft(r, k + 1)
    <2>1. k \in 0..N /\ k + 1 \in 0..N /\ k + 1 \in 1..N
      BY <1>0
    <2>2. F[k] = Framed(r.chunks[k + 1]) \o F[k + 1]
      <3>1. F[k] = Frames(r)[k + 1] \o F[k + 1]
        BY <1>6
      <3>2. Frames(r)[k + 1] = Framed(r.chunks[k + 1])
        BY <2>1, <1>2, Zenon
      <3> QED  BY <3>1, <3>2
    <2>3. Framed(r.chunks[k + 1]) \in Seq(Nat) /\ F[k + 1] \in Seq(Nat)
      BY <2>1, <1>1, <1>6, FramedIs
    <2>4. (Framed(r.chunks[k + 1]) \o F[k + 1]) \o LastChunk = Framed(r.chunks[k + 1]) \o (F[k + 1] \o LastChunk)
      <3> DEFINE a == Framed(r.chunks[k + 1])
                 b == F[k + 1]
      <3>1. a \in Seq(Nat) /\ b \in Seq(Nat) /\ LastChunk \in Seq(Nat)
        BY <2>3, LastIs
      <3> HIDE DEF a, b
      <3>2. (a \o b) \o LastChunk = a \o (b \o LastChunk)
        BY <3>1, Regrouped
      <3> QED  BY <3>2 DEF a, b
    <2>5. SentLeft(r, k) = Framed(r.chunks[k + 1]) \o SentLeft(r, k + 1)
      BY <2>1, <2>2, <2>4, <1>7
    <2>6. BodyLeft(r, k) = r.chunks[k + 1] \o BodyLeft(r, k + 1)
      BY <2>1, <1>5, <1>7
    <2> QED  BY <2>1, <2>5, <2>6, <1>1, Zenon
  <1> QED
    BY <1>0, <1>8, <1>9, <1>10, <1>11 DEF N

\* The types of what is sent, and that the body is behind the head.
LEMMA EncodedIs ==
    ASSUME NEW r \in Replies
    PROVE  /\ Encoded(r) \in Seq(Nat)
           /\ r.kind = "garbled" => Encoded(r) = <<CR, LF>>
           /\ r.kind \notin {"chunked", "garbled"} => Encoded(r) = Body(r)
           /\ [i \in 1..r.head |-> HeadUnit] \in Seq(Nat)
           /\ Len([i \in 1..r.head |-> HeadUnit]) = r.head
           /\ Sent(r) \in Seq(Nat) /\ Len(Sent(r)) >= r.head
           /\ SubSeq(Sent(r), r.head + 1, Len(Sent(r))) = Encoded(r)
  <1> DEFINE h == [i \in 1..r.head |-> HeadUnit]
  <1>1. /\ r.kind = "garbled" => Encoded(r) = <<CR, LF>>
        /\ r.kind \notin {"chunked", "garbled"} => Encoded(r) = Body(r)
    BY DEF Encoded
  <1>2. Encoded(r) \in Seq(Nat)
    <2>1. CASE r.kind = "chunked"
      <3> DEFINE N == Len(r.chunks)
      <3>1. /\ N \in Nat /\ SentLeft(r, 0) = Encoded(r)
            /\ \A k \in 0..N : SentLeft(r, k) \in Seq(Nat)
        BY <2>1, LeftOf
      <3>2. 0 \in 0..N
        BY <3>1
      <3> HIDE DEF N
      <3> QED  BY <3>1, <3>2
    <2>2. CASE r.kind # "chunked"
      <3>1. <<CR, LF>> \in Seq(Nat)
        BY DEF CR, LF
      <3> QED  BY <2>2, <3>1, <1>1, ReplyIs
    <2> QED  BY <2>1, <2>2
  <1>3. h \in Seq(Nat) /\ Len(h) = r.head /\ r.head \in Nat
    BY ReplyIs DEF HeadUnit
  <1>4. Sent(r) = h \o Encoded(r)
    BY DEF Sent
  <1> HIDE DEF h
  <1>5. Sent(r) \in Seq(Nat) /\ Len(Sent(r)) >= r.head
    BY <1>2, <1>3, <1>4
  <1>6. SubSeq(Sent(r), Len(h) + 1, Len(Sent(r))) = Encoded(r)
    BY <1>2, <1>3, <1>4, Behind
  <1> QED
    BY <1>1, <1>2, <1>3, <1>5, <1>6 DEF h

----------------------------------------------------------------------------
(* The inductive invariant. *)

Receiving == at \in {"recv", "head", "write", "decode", "close", "received"}
ChunkCount == Len(reply.chunks)

RxType ==
    rx \in [head : Seq(Nat), headDone : BOOLEAN, data : Seq(Nat), buf : Seq(Nat),
            need : {NoSize} \cup Nat, done : BOOLEAN, total : Nat, idle : 0..(FirstLimit - 1),
            any : BOOLEAN]

FetchType ==
    /\ at \in {"loop", "connect", "ask", "recv", "head", "write", "decode", "close",
               "received", "returned"}
    /\ url \in Urls /\ target \in Urls /\ attempt \in {1, 2} /\ sni \in BOOLEAN
    /\ history \in Seq(Urls) /\ Len(history) <= MaxRedirects + 1
    /\ link \in {"closed", "open", "tls"} /\ RxType
    /\ Len(rx.head) < HeaderBuf /\ Len(rx.buf) <= ChunkBuf /\ Len(rx.data) < HeaderBuf
    /\ wire \in Seq(Nat) /\ sink \in Seq(Nat) /\ before \in Nat /\ before <= Len(sink)
    /\ early \in BOOLEAN
    /\ result \in {"none", "ok", "failed"} /\ (result # "none" <=> at = "returned")
    /\ Receiving => reply \in Replies

\* Before a request is sent nothing of the attempt is there.
QuietInv ==
    at \in {"loop", "connect", "ask"} =>
        /\ rx = Fresh /\ wire = <<>>
        /\ at # "loop" => before = Len(sink)

EarlyInv == early => at \in {"close", "received", "returned"}

\* The count is the length of what the attempt wrote.
CountInv == Receiving => rx.total = Len(Written)

\* Until the head is there, nothing is written; what came and what is still on
\* the wire are the reply.
HeadInv ==
    Receiving /\ ~rx.headDone =>
        /\ at \in {"recv", "head", "close", "received"}
        /\ Written = <<>> /\ rx.data = <<>> /\ rx.buf = <<>> /\ rx.need = NoSize /\ ~rx.done
        /\ at = "recv" => Len(rx.head) < reply.head
        /\ at = "head" => Len(rx.head) >= reply.head
        /\ at \in {"recv", "head"} => rx.head \o wire = Sent(reply)
        /\ at \in {"close", "received"} => early

\* A plain body is what is written, what was read and what is on the wire.
PlainInv ==
    Receiving /\ rx.headDone /\ ~Chunked =>
        /\ at \in {"recv", "write", "close", "received"}
        /\ at \in {"recv", "write"} => (Written \o rx.data) \o wire = Body(reply)
        /\ at = "recv" => rx.data = <<>>
        /\ at \in {"close", "received"} =>
               IsPrefix(Written, Body(reply)) /\ (~early => Written = Body(reply))

\* After k chunks: the bytes of the others are to be written, and are on their
\* way as they are sent, the size of the first of them perhaps taken off.
After(k) ==
    /\ Written \o BodyLeft(reply, k) = Body(reply)
    /\ IF rx.need = NoSize THEN rx.buf \o wire = SentLeft(reply, k)
       ELSE /\ k < ChunkCount /\ rx.need = Len(reply.chunks[k + 1])
            /\ rx.buf \o wire = (reply.chunks[k + 1] \o <<CR, LF>>) \o SentLeft(reply, k + 1)

ChunkInv ==
    Receiving /\ rx.headDone /\ reply.kind = "chunked" =>
        /\ at \in {"recv", "decode", "close", "received"}
        /\ at \in {"recv", "decode"} => ~rx.done /\ \E k \in 0..ChunkCount : After(k)
        /\ at \in {"close", "received"} =>
               IsPrefix(Written, Body(reply)) /\ (rx.done => Written = Body(reply))

\* Of a body that is no sequence of chunks nothing is written.
GarbledInv ==
    Receiving /\ rx.headDone /\ reply.kind = "garbled" =>
        /\ at \in {"recv", "decode", "close", "received"}
        /\ rx.need = NoSize /\ ~rx.done /\ Written = <<>>
        /\ at \in {"recv", "decode"} => rx.buf \o wire = <<CR, LF>>

\* The decoder goes back for more only when it can do nothing with what it has.
DrainedInv ==
    at = "recv" /\ rx.headDone /\ Chunked =>
        IF SizeKnown THEN ~WholeChunk ELSE LineEnds = {}

\* What is taken for complete came to its end.
DoneInv == at = "received" /\ Chunked => rx.done

FetchInv ==
    /\ FetchType /\ QuietInv /\ EarlyInv /\ CountInv /\ HeadInv /\ PlainInv /\ ChunkInv /\ GarbledInv
    /\ DrainedInv /\ DoneInv

\* The sizes of the buffers are numbers, in order.
LEMMA Bounds ==
    /\ RecvBuf \in Nat /\ HeaderBuf \in Nat /\ ChunkBuf \in Nat /\ FirstLimit \in Nat
    /\ IdleLimit \in Nat /\ MaxRedirects \in Nat /\ 1 <= RecvBuf /\ RecvBuf < HeaderBuf
    /\ HeaderBuf <= ChunkBuf /\ RecvBuf + 2 <= ChunkBuf /\ 1 <= IdleLimit /\ IdleLimit <= FirstLimit
  BY FetchAssumption

\* The locals of the receive loop at its start.
LEMMA FreshIs ==
    /\ Fresh.head = <<>> /\ Fresh.headDone = FALSE /\ Fresh.data = <<>> /\ Fresh.buf = <<>>
    /\ Fresh.need = NoSize /\ Fresh.done = FALSE /\ Fresh.total = 0 /\ Fresh.idle = 0
    /\ Fresh \in [head : Seq(Nat), headDone : BOOLEAN, data : Seq(Nat), buf : Seq(Nat),
                  need : {NoSize} \cup Nat, done : BOOLEAN, total : Nat,
                  idle : 0..(FirstLimit - 1), any : BOOLEAN]
  BY Bounds DEF Fresh

\* What the attempt wrote is the end of what the caller has.
LEMMA WrittenIs ==
    ASSUME FetchType
    PROVE  /\ Written \in Seq(Nat) /\ Len(Written) = Len(sink) - before
           /\ before = Len(sink) => Written = <<>>
  <1>1. sink \in Seq(Nat) /\ before \in Nat /\ before <= Len(sink)
    BY DEF FetchType
  <1>2. before \in 0..Len(sink)
    BY <1>1
  <1>3. Written \in Seq(Nat) /\ Len(Written) = Len(sink) - before
    BY <1>1, <1>2, Parts DEF Written
  <1> QED
    BY <1>1, <1>3

\* What is written now comes behind what the attempt wrote before.
LEMMA WrittenGrows ==
    ASSUME FetchType, NEW x \in Seq(Nat), sink' = sink \o x, before' = before
    PROVE  /\ sink' \in Seq(Nat) /\ Len(sink') = Len(sink) + Len(x) /\ before' <= Len(sink')
           /\ Written' = Written \o x
  <1>1. sink \in Seq(Nat) /\ before \in Nat /\ before <= Len(sink) /\ Len(sink) \in Nat /\ Len(x) \in Nat
    BY DEF FetchType
  <1>2. /\ sink \o x \in Seq(Nat) /\ Len(sink \o x) = Len(sink) + Len(x)
        /\ \A i \in 1..Len(sink) : (sink \o x)[i] = sink[i]
        /\ \A i \in (Len(sink) + 1)..(Len(sink) + Len(x)) : (sink \o x)[i] = x[i - Len(sink)]
    BY <1>1, Joined
  <1> DEFINE u == SubSeq(sink \o x, before + 1, Len(sink \o x))
             w == SubSeq(sink, before + 1, Len(sink))
             t == sink \o x
  <1>3. Written' = u /\ Written = w
    BY DEF Written
  <1>4. /\ u \in Seq(Nat) /\ Len(u) = Len(t) - before
        /\ \A i \in 1..(Len(t) - before) : u[i] = t[i + before]
    <2>1. before \in 0..Len(t) /\ t \in Seq(Nat)
      BY <1>1, <1>2
    <2>2. u = SubSeq(t, before + 1, Len(t))
      OBVIOUS
    <2> HIDE DEF t, u
    <2> QED  BY <2>1, <2>2, Parts
  <1>5. /\ w \in Seq(Nat) /\ Len(w) = Len(sink) - before
        /\ \A i \in 1..(Len(sink) - before) : w[i] = sink[i + before]
    BY <1>1, Parts
  <1> HIDE DEF u, w, t
  <1>6. t = sink \o x
    BY DEF t
  <1>7. /\ w \o x \in Seq(Nat) /\ Len(w \o x) = Len(w) + Len(x)
        /\ \A i \in 1..Len(w) : (w \o x)[i] = w[i]
        /\ \A i \in (Len(w) + 1)..(Len(w) + Len(x)) : (w \o x)[i] = x[i - Len(w)]
    BY <1>5, Joined
  <1>8. Len(u) = Len(w \o x)
    BY <1>1, <1>2, <1>4, <1>5, <1>6, <1>7
  <1>9. ASSUME NEW i \in 1..Len(u) PROVE u[i] = (w \o x)[i]
    <2>1. u[i] = (sink \o x)[i + before]
      BY <1>4, <1>6
    <2>2. CASE i <= Len(sink) - before
      <3>1. (sink \o x)[i + before] = sink[i + before]
        BY <2>2, <1>1, <1>2
      <3>2. (w \o x)[i] = w[i] /\ w[i] = sink[i + before]
        BY <2>2, <1>1, <1>5, <1>7
      <3> QED  BY <2>1, <3>1, <3>2
    <2>3. CASE i > Len(sink) - before
      <3>0. i + before \in (Len(sink) + 1)..(Len(sink) + Len(x)) /\ i \in (Len(w) + 1)..(Len(w) + Len(x))
        BY <2>3, <1>1, <1>2, <1>4, <1>5, <1>6
      <3>1. (sink \o x)[i + before] = x[(i + before) - Len(sink)]
        <4> DEFINE j == i + before
        <4>1. j \in (Len(sink) + 1)..(Len(sink) + Len(x)) /\ j = i + before
          BY <3>0
        <4> HIDE DEF j
        <4>2. (sink \o x)[j] = x[j - Len(sink)]
          BY <4>1, <1>2
        <4>3. j - Len(sink) = (i + before) - Len(sink)
          BY <4>1
        <4> QED  BY <4>1, <4>2, <4>3, Zenon
      <3>2. (w \o x)[i] = x[i - (Len(sink) - before)]
        <4>1. (w \o x)[i] = x[i - Len(w)]
          BY <3>0, <1>7
        <4> QED  BY <4>1, <1>5
      <3>3. (i + before) - Len(sink) = i - (Len(sink) - before)
        BY <1>1
      <3> QED  BY <2>1, <3>1, <3>2, <3>3
    <2>4. i <= Len(sink) - before \/ i > Len(sink) - before
      BY <1>1, <1>4
    <2> QED  BY <2>2, <2>3, <2>4, Zenon
  <1>10. u = w \o x
    BY <1>4, <1>7, <1>8, <1>9, SameSeq
  <1> QED
    BY <1>1, <1>2, <1>3, <1>10

\* The first of two joined sequences is a prefix.
LEMMA PrefixOf ==
    ASSUME NEW S, NEW a \in Seq(S), NEW b \in Seq(S)
    PROVE  IsPrefix(a, a \o b)
  <1> DEFINE c == a \o b
             p == SubSeq(c, 1, Len(a))
             q == SubSeq(a, 1, Len(a))
  <1>1. /\ c \in Seq(S) /\ Len(c) = Len(a) + Len(b) /\ Len(a) \in Nat /\ Len(b) \in Nat
        /\ \A i \in 1..Len(a) : c[i] = a[i]
    BY Joined
  <1>2. Len(a) \in 0..Len(c) /\ Len(a) \in 0..Len(a)
    BY <1>1
  <1> HIDE DEF c
  <1>3. p \in Seq(S) /\ Len(p) = Len(a) /\ \A i \in 1..Len(a) : p[i] = c[i]
    BY <1>1, <1>2, Parts
  <1>4. q \in Seq(S) /\ Len(q) = Len(a) /\ \A i \in 1..Len(a) : q[i] = a[i]
    BY <1>1, <1>2, Parts
  <1> HIDE DEF p, q
  <1>5. p = q
    BY <1>1, <1>3, <1>4, SameSeq
  <1> QED
    BY <1>1, <1>5 DEF p, q, c, IsPrefix

\* A read moves bytes from the wire to the end of what is there.
LEMMA Moved ==
    ASSUME NEW S, NEW b \in Seq(S), NEW w \in Seq(S), NEW n \in 0..Len(w)
    PROVE  /\ SubSeq(w, 1, n) \in Seq(S) /\ Len(SubSeq(w, 1, n)) = n
           /\ SubSeq(w, n + 1, Len(w)) \in Seq(S)
           /\ b \o SubSeq(w, 1, n) \in Seq(S) /\ Len(b \o SubSeq(w, 1, n)) = Len(b) + n
           /\ (b \o SubSeq(w, 1, n)) \o SubSeq(w, n + 1, Len(w)) = b \o w
  <1> DEFINE f == SubSeq(w, 1, n)
             r == SubSeq(w, n + 1, Len(w))
  <1>1. f \in Seq(S) /\ Len(f) = n /\ r \in Seq(S) /\ f \o r = w
    BY Parts, Divided
  <1> HIDE DEF f, r
  <1>2. b \o f \in Seq(S) /\ Len(b \o f) = Len(b) + n
    BY <1>1, Joined
  <1>3. (b \o f) \o r = b \o (f \o r)
    <2>1. f \in Seq(S) /\ r \in Seq(S)
      BY <1>1
    <2> QED  BY <2>1, Regrouped
  <1> QED
    BY <1>1, <1>2, <1>3 DEF f, r

\* What is behind the first k of a buffer; joining, which the provers are not to open.
Rest(s, k) == SubSeq(s, k + 1, Len(s))
Cat(s, t) == s \o t

\* A buffer and the wire hold a followed by c: without a they hold c.
LEMMA RestBefore ==
    ASSUME NEW S, NEW a \in Seq(S), NEW c \in Seq(S), NEW b \in Seq(S), NEW w \in Seq(S),
           Cat(b, w) = Cat(a, c), Len(a) <= Len(b)
    PROVE  /\ Rest(b, Len(a)) \in Seq(S) /\ Len(Rest(b, Len(a))) = Len(b) - Len(a)
           /\ Cat(Rest(b, Len(a)), w) = c
  <1> DEFINE f == SubSeq(b, 1, Len(a))
             r == SubSeq(b, Len(a) + 1, Len(b))
  <1> USE DEF Cat
  <1>0. Len(a) \in Nat /\ Len(b) \in Nat /\ Len(a) \in 0..Len(b)
    OBVIOUS
  <1>1. /\ f \in Seq(S) /\ Len(f) = Len(a) /\ r \in Seq(S) /\ Len(r) = Len(b) - Len(a) /\ f \o r = b
        /\ \A i \in 1..Len(a) : f[i] = b[i]
    <2>1. f \in Seq(S) /\ Len(f) = Len(a) /\ \A i \in 1..Len(a) : f[i] = b[i]
      BY <1>0, Parts
    <2>2. r \in Seq(S) /\ Len(r) = Len(b) - Len(a)
      BY <1>0, Parts
    <2>3. f \o r = b
      BY <1>0, Divided
    <2> HIDE DEF f, r
    <2> QED  BY <2>1, <2>2, <2>3
  <1> HIDE DEF f, r
  <1>2. /\ \A i \in 1..Len(b) : (b \o w)[i] = b[i]
        /\ \A i \in 1..Len(a) : (a \o c)[i] = a[i]
    BY Joined
  <1>3. \A i \in 1..Len(f) : f[i] = a[i]
    <2> TAKE i \in 1..Len(f)
    <2>1. i \in 1..Len(a) /\ i \in 1..Len(b)
      BY <1>0, <1>1
    <2>2. f[i] = b[i] /\ (b \o w)[i] = b[i] /\ (a \o c)[i] = a[i]
      BY <2>1, <1>1, <1>2
    <2> QED  BY <2>2
  <1>4. f = a
    BY <1>1, <1>3, SameSeq
  <1>5. b \o w = a \o (r \o w) /\ r \o w \in Seq(S)
    <2>0. r \in Seq(S)
      BY <1>1
    <2>1. (a \o r) \o w = a \o (r \o w)
      BY <2>0, Regrouped
    <2>2. r \o w \in Seq(S)
      BY <2>0, Joined
    <2> QED  BY <2>1, <2>2, <1>1, <1>4
  <1> DEFINE d == r \o w
             t == a \o c
  <1>6. d \in Seq(S) /\ a \o d = t /\ a \o c = t
    BY <1>5
  <1> HIDE DEF d, t
  <1>7. SubSeq(t, Len(a) + 1, Len(t)) = d
    <2>1. SubSeq(a \o d, Len(a) + 1, Len(a \o d)) = d
      BY <1>6, Behind
    <2> QED  BY <2>1, <1>6
  <1>8. SubSeq(t, Len(a) + 1, Len(t)) = c
    <2>1. SubSeq(a \o c, Len(a) + 1, Len(a \o c)) = c
      BY <1>6, Behind
    <2> QED  BY <2>1, <1>6
  <1>9. r \o w = c
    BY <1>7, <1>8 DEF d
  <1> QED
    BY <1>1, <1>9 DEF f, r, Rest

\* The invariant holds at the start.
LEMMA FetchInitHolds == FetchInit => FetchInv
  <1> SUFFICES ASSUME FetchInit PROVE FetchInv
    OBVIOUS
  <1>1. /\ at = "loop" /\ rx = Fresh /\ wire = <<>> /\ sink = <<>> /\ before = 0 /\ early = FALSE
        /\ result = "none" /\ history = <<>> /\ attempt = 1 /\ sni = FALSE /\ link = "closed"
        /\ url \in Urls /\ target \in Urls
    BY FetchAssumption DEF FetchInit
  <1>2. ~Receiving
    BY <1>1 DEF Receiving
  <1>3. FetchType
    <2>1. RxType /\ Len(rx.head) = 0 /\ Len(rx.buf) = 0 /\ Len(rx.data) = 0
      BY <1>1, FreshIs DEF RxType
    <2>2. wire \in Seq(Nat) /\ sink \in Seq(Nat) /\ Len(sink) = 0 /\ history \in Seq(Urls) /\ Len(history) = 0
      BY <1>1
    <2>3. before \in Nat /\ before <= Len(sink) /\ Len(history) <= MaxRedirects + 1
          /\ Len(rx.head) < HeaderBuf /\ Len(rx.buf) <= ChunkBuf /\ Len(rx.data) < HeaderBuf
      BY <1>1, <2>1, <2>2, Bounds
    <2> QED  BY <1>1, <1>2, <2>1, <2>2, <2>3 DEF FetchType
  <1> QED
    BY <1>1, <1>2, <1>3 DEF FetchInv, QuietInv, EarlyInv, CountInv, HeadInv, PlainInv, ChunkInv,
       GarbledInv, DrainedInv, DoneInv

\* An attempt that fails leaves nothing of it, whether it is tried again or not.
LEMMA FailKeeps ==
    ASSUME FetchInv, NEW e, AttemptFails(e), at # "returned", at # "loop"
    PROVE  FetchInv'
  <1>1. /\ link' = "closed" /\ wire' = <<>> /\ rx' = Fresh /\ sni' = FALSE /\ early' = FALSE
        /\ url' = url /\ history' = history /\ sink' = sink
    BY DEF AttemptFails, Hangup
  <1>2. FetchType
    BY DEF FetchInv
  <1>3. result = "none"
    BY <1>2 DEF FetchType
  <1>4. \/ at' = "connect" /\ target' \in Urls /\ attempt' \in {1, 2} /\ before' = Len(sink) /\ result' = "none"
        \/ at' = "returned" /\ target' = target /\ attempt' = attempt /\ before' = before /\ result' = "failed"
    <2>1. \A u \in DOMAIN Plain : Plain[u] \in Urls
      BY FetchAssumption
    <2>2. target \in Urls
      BY <1>2 DEF FetchType
    <2> QED  BY <1>3, <2>1, <2>2 DEF AttemptFails, Asking, Return, FallsBack
  <1>5. ~Receiving' /\ at' \in {"connect", "returned"}
    BY <1>4 DEF Receiving
  <1>6. FetchType'
    <2>1. Len(sink) \in Nat
      BY <1>2 DEF FetchType
    <2>2. RxType' /\ Len(rx'.head) = 0 /\ Len(rx'.buf) = 0 /\ Len(rx'.data) = 0
      BY <1>1, FreshIs DEF RxType
    <2>3. /\ at' \in {"connect", "returned"} /\ target' \in Urls /\ attempt' \in {1, 2}
          /\ before' \in Nat /\ before' <= Len(sink')
          /\ result' \in {"none", "failed"} /\ (result' # "none" <=> at' = "returned")
      BY <1>1, <1>2, <1>4, <2>1 DEF FetchType
    <2>4. Len(rx'.head) < HeaderBuf /\ Len(rx'.buf) <= ChunkBuf /\ Len(rx'.data) < HeaderBuf
      BY <2>2, Bounds
    <2>5. /\ wire' \in Seq(Nat) /\ sink' \in Seq(Nat) /\ early' \in BOOLEAN /\ history' \in Seq(Urls)
          /\ Len(history') <= MaxRedirects + 1 /\ url' \in Urls /\ sni' \in BOOLEAN
          /\ link' \in {"closed", "open", "tls"}
      <3>1. wire' \in Seq(Nat)
        BY <1>1
      <3>2. sink \in Seq(Nat) /\ history \in Seq(Urls) /\ Len(history) <= MaxRedirects + 1 /\ url \in Urls
        BY <1>2 DEF FetchType
      <3> QED  BY <1>1, <3>1, <3>2, Zenon
    <2> QED  BY <1>5, <2>2, <2>3, <2>4, <2>5 DEF FetchType
  <1>7. QuietInv' /\ EarlyInv'
    BY <1>1, <1>4 DEF QuietInv, EarlyInv
  <1> QED
    BY <1>5, <1>6, <1>7 DEF FetchInv, CountInv, HeadInv, PlainInv, ChunkInv, GarbledInv, DrainedInv, DoneInv

\* The invariant only speaks of the variables.
LEMMA StutterKeeps == ASSUME FetchInv, UNCHANGED fetchVars PROVE FetchInv'
  <1>1. UNCHANGED <<at, url, history, target, attempt, sni, link, reply, wire, rx, sink, before, early, result>>
    BY DEF fetchVars
  <1>2. Receiving' = Receiving /\ Written' = Written /\ Chunked' = Chunked /\ ChunkCount' = ChunkCount
        /\ LineEnds' = LineEnds /\ SizeKnown' = SizeKnown
    BY <1>1 DEF Receiving, Written, Chunked, ChunkCount, LineEnds, SizeKnown
  <1>3. WholeChunk' = WholeChunk /\ RxType' = RxType
    BY <1>1, <1>2 DEF WholeChunk, RxType
  <1>4. FetchType' /\ QuietInv' /\ EarlyInv' /\ CountInv' /\ HeadInv'
    BY <1>1, <1>2, <1>3 DEF FetchInv, FetchType, QuietInv, EarlyInv, CountInv, HeadInv
  <1>5. ChunkInv'
    <2>1. \A k : After(k)' = After(k)
      BY <1>1, <1>2 DEF After
    <2> QED  BY <1>1, <1>2, <2>1 DEF FetchInv, ChunkInv
  <1>6. PlainInv' /\ GarbledInv' /\ DoneInv'
    BY <1>1, <1>2 DEF FetchInv, PlainInv, GarbledInv, DoneInv
  <1>7. DrainedInv'
    BY <1>1, <1>2, <1>3 DEF FetchInv, DrainedInv
  <1> QED
    BY <1>4, <1>5, <1>6, <1>7 DEF FetchInv

\* Before a reply.
LEMMA RedirectLoopKeeps == ASSUME FetchInv, RedirectLoop PROVE FetchInv'
  <1>1. /\ at = "loop" /\ at' = "connect" /\ target' = url /\ attempt' = 1 /\ before' = Len(sink)
        /\ result' = result /\ history' = Append(history, url) /\ Len(history) <= MaxRedirects
        /\ UNCHANGED <<url, sni, link, reply, wire, rx, sink, early>>
    BY DEF RedirectLoop, Asking
  <1>2. FetchType /\ QuietInv /\ EarlyInv
    BY DEF FetchInv
  <1>3. ~Receiving'
    BY <1>1 DEF Receiving
  <1>4. history' \in Seq(Urls) /\ Len(history') <= MaxRedirects + 1
    BY <1>1, <1>2, Bounds DEF FetchType
  <1>5. FetchType'
    BY <1>1, <1>2, <1>3, <1>4 DEF FetchType, RxType
  <1>6. QuietInv' /\ EarlyInv'
    BY <1>1, <1>2 DEF QuietInv, EarlyInv
  <1> QED
    BY <1>1, <1>3, <1>5, <1>6 DEF FetchInv, CountInv, HeadInv, PlainInv, ChunkInv, GarbledInv,
       DrainedInv, DoneInv

\* The ends of a fetch.
LEMMA EndKeeps == ASSUME FetchInv, GivesUp \/ Accept \/ Reject PROVE FetchInv'
  <1>1. /\ at # "returned" /\ at' = "returned" /\ result' \in {"ok", "failed"}
        /\ UNCHANGED <<url, history, target, attempt, sni, link, reply, wire, rx, sink, before, early>>
    BY DEF GivesUp, Accept, Reject, Return
  <1>2. FetchType
    BY DEF FetchInv
  <1>3. ~Receiving'
    BY <1>1 DEF Receiving
  <1>5. FetchType'
    BY <1>1, <1>2, <1>3 DEF FetchType, RxType
  <1>6. QuietInv' /\ EarlyInv'
    BY <1>1 DEF QuietInv, EarlyInv
  <1> QED
    BY <1>1, <1>3, <1>5, <1>6 DEF FetchInv, CountInv, HeadInv, PlainInv, ChunkInv, GarbledInv,
       DrainedInv, DoneInv

\* A connection, or a second handshake.
LEMMA ConnectKeeps == ASSUME FetchInv, Connect \/ ConnectWithTrustedSni PROVE FetchInv'
  <1>1. /\ at = "connect" /\ at' \in {"connect", "ask"} /\ sni' \in BOOLEAN /\ link' \in {"closed", "open", "tls"}
        /\ UNCHANGED <<url, history, target, attempt, reply, wire, rx, sink, before, early, result>>
    <2>1. FetchType
      BY DEF FetchInv
    <2> QED  BY <2>1 DEF Connect, ConnectWithTrustedSni, FetchType
  <1>2. FetchType /\ QuietInv /\ EarlyInv
    BY DEF FetchInv
  <1>3. ~Receiving'
    BY <1>1 DEF Receiving
  <1>5. FetchType'
    BY <1>1, <1>2, <1>3 DEF FetchType, RxType
  <1>6. QuietInv' /\ EarlyInv'
    BY <1>1, <1>2 DEF QuietInv, EarlyInv
  <1> QED
    BY <1>1, <1>3, <1>5, <1>6 DEF FetchInv, CountInv, HeadInv, PlainInv, ChunkInv, GarbledInv,
       DrainedInv, DoneInv

\* The request is sent: all of the reply is on the wire.
LEMMA AskKeeps == ASSUME FetchInv, Ask PROVE FetchInv'
  <1>1. /\ at = "ask" /\ at' = "recv" /\ reply' \in Replies /\ wire' = Sent(reply')
        /\ UNCHANGED <<url, history, target, attempt, sni, link, rx, sink, before, early, result>>
    BY DEF Ask
  <1>2. FetchType /\ QuietInv /\ EarlyInv
    BY DEF FetchInv
  <1>3. rx = Fresh /\ ~early /\ before = Len(sink)
    BY <1>1, <1>2 DEF QuietInv, EarlyInv
  <1>4. wire' \in Seq(Nat) /\ reply'.head >= 1 /\ reply'.head \in Nat
    BY <1>1, EncodedIs, ReplyIs
  <1>5. FetchType'
    BY <1>1, <1>2, <1>4 DEF FetchType, RxType
  <1>6. Written = <<>> /\ Written' = Written
    BY <1>1, <1>2, <1>3, WrittenIs DEF Written
  <1>7. QuietInv' /\ EarlyInv'
    BY <1>1, <1>3 DEF QuietInv, EarlyInv
  <1>8. ~rx'.headDone /\ rx' = Fresh
    BY <1>1, <1>3, FreshIs
  <1>9. HeadInv'
    <2>1. rx'.head = <<>> /\ rx'.head \o wire' = wire'
      BY <1>1, <1>3, <1>4, FreshIs
    <2> QED  BY <1>1, <1>3, <1>4, <1>6, <2>1, FreshIs DEF HeadInv
  <1>10. CountInv'
    BY <1>1, <1>3, <1>6, FreshIs DEF CountInv
  <1> QED
    BY <1>1, <1>5, <1>7, <1>8, <1>9, <1>10 DEF FetchInv, PlainInv, ChunkInv, GarbledInv, DrainedInv, DoneInv

\* One read.
LEMMA PieceRead ==
    ASSUME FetchInv, NEW n \in 1..RecvBuf, Incoming(n)
    PROVE  /\ at = "recv" /\ n \in 0..Len(wire) /\ n \in Nat /\ n >= 1
           /\ Segment(n) \in Seq(Nat) /\ Len(Segment(n)) = n
           /\ wire' = SubSeq(wire, n + 1, Len(wire)) /\ wire' \in Seq(Nat)
           /\ Segment(n) \o wire' = wire
           /\ \A b \in Seq(Nat) : /\ b \o Segment(n) \in Seq(Nat) /\ Len(b \o Segment(n)) = Len(b) + n
                                  /\ (b \o Segment(n)) \o wire' = b \o wire
  <1>1. at = "recv" /\ wire' = SubSeq(wire, n + 1, Len(wire)) /\ n <= Len(wire)
    BY DEF Incoming
  <1>2. wire \in Seq(Nat)
    BY DEF FetchInv, FetchType
  <1>3. n \in 0..Len(wire) /\ n \in Nat /\ n >= 1
    BY <1>1, <1>2, Bounds
  <1>4. Segment(n) \in Seq(Nat) /\ Len(Segment(n)) = n /\ wire' \in Seq(Nat) /\ Segment(n) \o wire' = wire
    BY <1>1, <1>2, <1>3, Parts, Divided DEF Segment
  <1>5. \A b \in Seq(Nat) : /\ b \o Segment(n) \in Seq(Nat) /\ Len(b \o Segment(n)) = Len(b) + n
                             /\ (b \o Segment(n)) \o wire' = b \o wire
    <2> DEFINE f == Segment(n)
               r == wire'
    <2>0. f \in Seq(Nat) /\ Len(f) = n /\ r \in Seq(Nat) /\ f \o r = wire
      BY <1>4
    <2> HIDE DEF f, r
    <2>1. ASSUME NEW b \in Seq(Nat) PROVE b \o f \in Seq(Nat) /\ Len(b \o f) = Len(b) + n
      BY <2>0, Joined
    <2>2. ASSUME NEW b \in Seq(Nat) PROVE (b \o f) \o r = b \o wire
      <3>1. f \in Seq(Nat) /\ r \in Seq(Nat)
        BY <2>0
      <3>2. (b \o f) \o r = b \o (f \o r)
        BY <3>1, Regrouped
      <3> QED  BY <3>2, <2>0
    <2> QED  BY <2>1, <2>2 DEF f, r
  <1> QED
    BY <1>1, <1>3, <1>4, <1>5

\* The type of the locals after a read.
LEMMA HeardIs ==
    ASSUME RxType
    PROVE  /\ Heard \in [head : Seq(Nat), headDone : BOOLEAN, data : Seq(Nat), buf : Seq(Nat),
                         need : {NoSize} \cup Nat, done : BOOLEAN, total : Nat,
                         idle : 0..(FirstLimit - 1), any : BOOLEAN]
           /\ Heard.head = rx.head /\ Heard.headDone = rx.headDone /\ Heard.data = rx.data
           /\ Heard.buf = rx.buf /\ Heard.need = rx.need /\ Heard.done = rx.done /\ Heard.total = rx.total
  <1>1. 0 \in 0..(FirstLimit - 1)
    BY Bounds
  <1> QED
    BY <1>1 DEF RxType, Heard

\* The types after a step that changes what was received and nothing else.
LEMMA ReceivedType ==
    ASSUME FetchInv, at \in {"recv", "head", "write", "decode"},
           at' \in {"recv", "head", "write", "decode", "close"},
           RxType', Len(rx'.head) < HeaderBuf, Len(rx'.buf) <= ChunkBuf, Len(rx'.data) < HeaderBuf,
           wire' \in Seq(Nat), UNCHANGED <<url, history, target, attempt, sni, link, reply, sink, before, early, result>>
    PROVE  /\ FetchType' /\ QuietInv' /\ EarlyInv' /\ DoneInv' /\ Receiving /\ Receiving'
           /\ Written' = Written /\ Written \in Seq(Nat) /\ reply \in Replies /\ ~early
  <1>1. FetchType /\ EarlyInv
    BY DEF FetchInv
  <1>2. Receiving /\ Receiving' /\ ~early
    BY <1>1 DEF Receiving, EarlyInv
  <1>3. FetchType'
    BY <1>1, <1>2 DEF FetchType
  <1>4. QuietInv' /\ EarlyInv' /\ DoneInv'
    BY <1>2 DEF QuietInv, EarlyInv, DoneInv
  <1>5. Written' = Written /\ Written \in Seq(Nat)
    BY <1>1, WrittenIs DEF Written
  <1> QED
    BY <1>1, <1>2, <1>3, <1>4, <1>5 DEF FetchType

\* A piece of the head arrives.
LEMMA RecvHeaderKeeps ==
    ASSUME FetchInv, NEW n \in 1..RecvBuf, RecvHeader(n) PROVE FetchInv'
  <1>0. Incoming(n) /\ ~rx.headDone /\ ~HeaderFull(n)
    BY DEF RecvHeader
  <1>1. /\ at = "recv" /\ wire' \in Seq(Nat) /\ n \in Nat
        /\ \A b \in Seq(Nat) : /\ b \o Segment(n) \in Seq(Nat) /\ Len(b \o Segment(n)) = Len(b) + n
                               /\ (b \o Segment(n)) \o wire' = b \o wire
    BY <1>0, PieceRead
  <1>2. FetchType /\ RxType /\ HeadInv /\ CountInv /\ rx.head \in Seq(Nat) /\ Receiving
    BY <1>1 DEF FetchInv, FetchType, RxType, Receiving
  <1>3. /\ rx' = [Heard EXCEPT !.head = @ \o Segment(n)]
        /\ at' = IF Len(rx'.head) >= reply.head THEN "head" ELSE "recv"
        /\ UNCHANGED <<url, history, target, attempt, sni, link, reply, sink, before, early, result>>
    BY DEF RecvHeader, Unchanged
  <1>4. /\ rx.head \o Segment(n) \in Seq(Nat) /\ Len(rx.head \o Segment(n)) = Len(rx.head) + n
        /\ (rx.head \o Segment(n)) \o wire' = rx.head \o wire
    BY <1>1, <1>2
  <1>5. /\ RxType' /\ rx'.head = rx.head \o Segment(n) /\ rx'.headDone = rx.headDone /\ rx'.data = rx.data
        /\ rx'.buf = rx.buf /\ rx'.need = rx.need /\ rx'.done = rx.done /\ rx'.total = rx.total
    <2> DEFINE h == rx.head \o Segment(n)
    <2>1. h \in Seq(Nat) /\ rx' = [Heard EXCEPT !.head = h]
      BY <1>2, <1>3, <1>4, HeardIs DEF Heard
    <2> HIDE DEF h
    <2>2. /\ RxType' /\ rx'.head = h /\ rx'.headDone = rx.headDone /\ rx'.data = rx.data
          /\ rx'.buf = rx.buf /\ rx'.need = rx.need /\ rx'.done = rx.done /\ rx'.total = rx.total
      BY <2>1, <1>2, HeardIs DEF RxType
    <2> QED  BY <2>2 DEF h
  <1>6. Len(rx'.head) < HeaderBuf /\ Len(rx'.buf) <= ChunkBuf /\ Len(rx'.data) < HeaderBuf
    <2>1. Len(rx.head) + n < HeaderBuf
      <3>1. Len(rx.head) \in Nat
        BY <1>2
      <3> QED  BY <3>1, <1>0, <1>1, Bounds DEF HeaderFull
    <2> QED  BY <2>1, <1>2, <1>4, <1>5 DEF FetchType
  <1>7. /\ FetchType' /\ QuietInv' /\ EarlyInv' /\ DoneInv' /\ Receiving /\ Receiving'
        /\ Written' = Written /\ reply \in Replies
    BY <1>1, <1>3, <1>5, <1>6, ReceivedType
  <1>8. CountInv'
    BY <1>2, <1>5, <1>7 DEF CountInv
  <1>9. HeadInv'
    <2>1. Len(rx'.head) \in Nat /\ reply.head \in Nat
      BY <1>4, <1>5, <1>7, ReplyIs
    <2>2. /\ Written = <<>> /\ rx.data = <<>> /\ rx.buf = <<>> /\ rx.need = NoSize /\ ~rx.done
          /\ rx.head \o wire = Sent(reply)
      BY <1>0, <1>1, <1>2 DEF HeadInv
    <2>3. /\ at' \in {"recv", "head"} /\ (at' = "recv" => Len(rx'.head) < reply.head)
          /\ (at' = "head" => Len(rx'.head) >= reply.head)
      BY <2>1, <1>3
    <2>4. rx'.head \o wire' = Sent(reply')
      BY <2>2, <1>3, <1>4, <1>5
    <2>5. /\ Written' = <<>> /\ rx'.data = <<>> /\ rx'.buf = <<>> /\ rx'.need = NoSize /\ ~rx'.done /\ reply' = reply
      BY <2>2, <1>3, <1>5, <1>7
    <2> QED  BY <2>3, <2>4, <2>5 DEF HeadInv
  <1>10. ~rx'.headDone
    BY <1>0, <1>5
  <1> QED
    BY <1>7, <1>8, <1>9, <1>10 DEF FetchInv, PlainInv, ChunkInv, GarbledInv, DrainedInv

\* A piece of a plain body arrives.
LEMMA RecvPlainKeeps ==
    ASSUME FetchInv, NEW n \in 1..RecvBuf, RecvPlain(n) PROVE FetchInv'
  <1>0. Incoming(n) /\ rx.headDone /\ ~Chunked
    BY DEF RecvPlain
  <1>1. /\ at = "recv" /\ wire' \in Seq(Nat) /\ n \in Nat /\ Segment(n) \in Seq(Nat) /\ Len(Segment(n)) = n
        /\ \A b \in Seq(Nat) : /\ b \o Segment(n) \in Seq(Nat) /\ Len(b \o Segment(n)) = Len(b) + n
                               /\ (b \o Segment(n)) \o wire' = b \o wire
    BY <1>0, PieceRead
  <1>2. FetchType /\ RxType /\ PlainInv /\ CountInv /\ Receiving
    BY <1>1 DEF FetchInv, FetchType, Receiving
  <1>3. /\ rx' = [Heard EXCEPT !.data = Segment(n)] /\ at' = "write"
        /\ UNCHANGED <<url, history, target, attempt, sni, link, reply, sink, before, early, result>>
    BY DEF RecvPlain, Unchanged
  <1>5. /\ RxType' /\ rx'.head = rx.head /\ rx'.headDone = rx.headDone /\ rx'.data = Segment(n)
        /\ rx'.buf = rx.buf /\ rx'.need = rx.need /\ rx'.done = rx.done /\ rx'.total = rx.total
    <2> DEFINE h == Segment(n)
    <2>1. h \in Seq(Nat) /\ rx' = [Heard EXCEPT !.data = h]
      BY <1>1, <1>3
    <2> HIDE DEF h
    <2>2. /\ RxType' /\ rx'.head = rx.head /\ rx'.headDone = rx.headDone /\ rx'.data = h
          /\ rx'.buf = rx.buf /\ rx'.need = rx.need /\ rx'.done = rx.done /\ rx'.total = rx.total
      BY <2>1, <1>2, HeardIs DEF RxType
    <2> QED  BY <2>2 DEF h
  <1>6. Len(rx'.head) < HeaderBuf /\ Len(rx'.buf) <= ChunkBuf /\ Len(rx'.data) < HeaderBuf
    <2>1. Len(rx.head) < HeaderBuf /\ Len(rx.buf) <= ChunkBuf
      BY <1>2 DEF FetchType
    <2>2. n < HeaderBuf
      BY Bounds
    <2>3. Len(rx'.data) = n
      BY <1>1, <1>5
    <2> QED  BY <2>1, <2>2, <2>3, <1>5
  <1>7. /\ FetchType' /\ QuietInv' /\ EarlyInv' /\ DoneInv' /\ Receiving /\ Receiving'
        /\ Written' = Written /\ Written \in Seq(Nat) /\ reply \in Replies /\ ~early
    BY <1>1, <1>3, <1>5, <1>6, ReceivedType
  <1>8. CountInv'
    BY <1>2, <1>5, <1>7 DEF CountInv
  <1>9. Chunked' = Chunked
    BY <1>3 DEF Chunked
  <1>10. PlainInv'
    <2>1. (Written \o rx.data) \o wire = Body(reply) /\ rx.data = <<>>
      BY <1>0, <1>1, <1>2 DEF PlainInv
    <2>2. Written \o <<>> = Written
      BY <1>7, Nothing
    <2>3. (Written \o Segment(n)) \o wire' = Written \o wire
      BY <1>1, <1>7
    <2>4. (Written' \o rx'.data) \o wire' = Body(reply')
      BY <2>1, <2>2, <2>3, <1>3, <1>5, <1>7
    <2> QED  BY <2>4, <1>3 DEF PlainInv
  <1>11. rx'.headDone /\ ~Chunked' /\ at' = "write"
    BY <1>0, <1>3, <1>5, <1>9
  <1> QED
    BY <1>7, <1>8, <1>10, <1>11 DEF FetchInv, HeadInv, ChunkInv, GarbledInv, DrainedInv, Chunked

\* A piece of a chunked body arrives.
LEMMA RecvChunkedKeeps ==
    ASSUME FetchInv, NEW n \in 1..RecvBuf, RecvChunked(n) PROVE FetchInv'
  <1>0. Incoming(n) /\ rx.headDone /\ Chunked /\ ~ChunkFull(n)
    BY DEF RecvChunked
  <1>1. /\ at = "recv" /\ wire' \in Seq(Nat) /\ n \in Nat
        /\ \A b \in Seq(Nat) : /\ b \o Segment(n) \in Seq(Nat) /\ Len(b \o Segment(n)) = Len(b) + n
                               /\ (b \o Segment(n)) \o wire' = b \o wire
    BY <1>0, PieceRead
  <1>2. FetchType /\ RxType /\ ChunkInv /\ GarbledInv /\ CountInv /\ Receiving /\ rx.buf \in Seq(Nat)
    BY <1>1 DEF FetchInv, FetchType, Receiving, RxType
  <1>3. /\ rx' = [Heard EXCEPT !.buf = @ \o Segment(n)] /\ at' = "decode"
        /\ UNCHANGED <<url, history, target, attempt, sni, link, reply, sink, before, early, result>>
    BY DEF RecvChunked, Unchanged
  <1>4. /\ rx.buf \o Segment(n) \in Seq(Nat) /\ Len(rx.buf \o Segment(n)) = Len(rx.buf) + n
        /\ (rx.buf \o Segment(n)) \o wire' = rx.buf \o wire
    BY <1>1, <1>2
  <1>5. /\ RxType' /\ rx'.head = rx.head /\ rx'.headDone = rx.headDone /\ rx'.data = rx.data
        /\ rx'.buf = rx.buf \o Segment(n) /\ rx'.need = rx.need /\ rx'.done = rx.done /\ rx'.total = rx.total
    <2> DEFINE h == rx.buf \o Segment(n)
    <2>1. h \in Seq(Nat) /\ rx' = [Heard EXCEPT !.buf = h]
      BY <1>2, <1>3, <1>4, HeardIs DEF Heard
    <2> HIDE DEF h
    <2>2. /\ RxType' /\ rx'.head = rx.head /\ rx'.headDone = rx.headDone /\ rx'.data = rx.data
          /\ rx'.buf = h /\ rx'.need = rx.need /\ rx'.done = rx.done /\ rx'.total = rx.total
      BY <2>1, <1>2, HeardIs DEF RxType
    <2> QED  BY <2>2 DEF h
  <1>6. Len(rx'.head) < HeaderBuf /\ Len(rx'.buf) <= ChunkBuf /\ Len(rx'.data) < HeaderBuf
    <2>1. Len(rx.buf) + n <= ChunkBuf
      <3>1. Len(rx.buf) \in Nat
        BY <1>2
      <3> QED  BY <3>1, <1>0, <1>1, Bounds DEF ChunkFull
    <2> QED  BY <2>1, <1>2, <1>4, <1>5 DEF FetchType
  <1>7. /\ FetchType' /\ QuietInv' /\ EarlyInv' /\ DoneInv' /\ Receiving /\ Receiving'
        /\ Written' = Written /\ Written \in Seq(Nat) /\ reply \in Replies /\ ~early
    BY <1>1, <1>3, <1>5, <1>6, ReceivedType
  <1>8. CountInv'
    BY <1>2, <1>5, <1>7 DEF CountInv
  <1>9. Chunked' = Chunked /\ ChunkCount' = ChunkCount
    BY <1>3 DEF Chunked, ChunkCount
  <1>10. rx'.buf \o wire' = rx.buf \o wire
    BY <1>4, <1>5
  <1>11. ASSUME NEW k \in 0..ChunkCount, After(k) PROVE After(k)'
    BY <1>3, <1>5, <1>7, <1>9, <1>10, <1>11 DEF After
  <1>12. ChunkInv'
    <2>1. reply.kind = "chunked" => ~rx.done /\ \E k \in 0..ChunkCount : After(k)
      BY <1>0, <1>1, <1>2 DEF ChunkInv
    <2>2. reply.kind = "chunked" => ~rx'.done /\ \E k \in 0..ChunkCount' : After(k)'
      BY <2>1, <1>5, <1>9, <1>11
    <2> QED  BY <2>2, <1>3 DEF ChunkInv
  <1>13. GarbledInv'
    BY <1>0, <1>1, <1>2, <1>3, <1>5, <1>7, <1>10 DEF GarbledInv
  <1>14. rx'.headDone /\ Chunked' /\ at' = "decode"
    BY <1>0, <1>3, <1>5, <1>9
  <1> QED
    BY <1>7, <1>8, <1>12, <1>13, <1>14 DEF FetchInv, HeadInv, PlainInv, DrainedInv

\* A read returns nothing.
LEMMA RecvIdleKeeps == ASSUME FetchInv, RecvIdle PROVE FetchInv'
  <1>1. /\ at = "recv" /\ rx.idle + 1 < Polls /\ rx' = [rx EXCEPT !.idle = @ + 1] /\ at' = at /\ wire' = wire
        /\ UNCHANGED <<url, history, target, attempt, sni, link, reply, sink, before, early, result>>
    BY DEF RecvIdle, Unchanged
  <1>2. FetchType /\ RxType
    BY DEF FetchInv, FetchType
  <1>3. rx.idle + 1 \in 0..(FirstLimit - 1)
    <2>1. rx.idle \in Nat
      BY <1>2 DEF RxType
    <2>2. Polls <= FirstLimit /\ Polls \in Nat
      BY Bounds DEF Polls
    <2> QED  BY <2>1, <2>2, <1>1, Bounds
  <1>4. /\ RxType' /\ rx'.head = rx.head /\ rx'.headDone = rx.headDone /\ rx'.data = rx.data
        /\ rx'.buf = rx.buf /\ rx'.need = rx.need /\ rx'.done = rx.done /\ rx'.total = rx.total
    BY <1>1, <1>2, <1>3 DEF RxType
  <1>5. Len(rx'.head) < HeaderBuf /\ Len(rx'.buf) <= ChunkBuf /\ Len(rx'.data) < HeaderBuf /\ wire' \in Seq(Nat)
    BY <1>1, <1>2, <1>4 DEF FetchType
  <1>7. /\ FetchType' /\ QuietInv' /\ EarlyInv' /\ DoneInv' /\ Receiving /\ Receiving'
        /\ Written' = Written /\ Written \in Seq(Nat) /\ reply \in Replies /\ ~early
    BY <1>1, <1>4, <1>5, ReceivedType
  <1>8. Chunked' = Chunked /\ ChunkCount' = ChunkCount /\ SizeKnown' = SizeKnown /\ LineEnds' = LineEnds
    BY <1>1, <1>4 DEF Chunked, ChunkCount, SizeKnown, LineEnds
  <1>9. WholeChunk' = WholeChunk /\ \A k : After(k)' = After(k)
    BY <1>1, <1>4, <1>7, <1>8 DEF WholeChunk, After
  <1>10. CountInv' /\ HeadInv' /\ PlainInv'
    BY <1>1, <1>4, <1>7, <1>8 DEF FetchInv, CountInv, HeadInv, PlainInv
  <1>11. ChunkInv'
    BY <1>1, <1>4, <1>7, <1>8, <1>9 DEF FetchInv, ChunkInv
  <1>12. GarbledInv' /\ DrainedInv'
    BY <1>1, <1>4, <1>7, <1>8, <1>9 DEF FetchInv, GarbledInv, DrainedInv
  <1> QED
    BY <1>7, <1>10, <1>11, <1>12 DEF FetchInv

\* The parts of a plain body.
LEMMA PlainSplit ==
    ASSUME FetchInv, at \in {"recv", "write"}, rx.headDone, ~Chunked
    PROVE  /\ Written \o rx.data \in Seq(Nat) /\ (Written \o rx.data) \o wire = Body(reply)
           /\ Len(Body(reply)) = Len(Written) + Len(rx.data) + Len(wire)
           /\ at = "recv" => Written \o rx.data = Written
  <1>1. FetchType /\ PlainInv /\ Receiving
    BY DEF FetchInv, Receiving
  <1>2. Written \in Seq(Nat) /\ rx.data \in Seq(Nat) /\ wire \in Seq(Nat)
    BY <1>1, WrittenIs DEF FetchType, RxType
  <1>3. (Written \o rx.data) \o wire = Body(reply) /\ (at = "recv" => rx.data = <<>>)
    BY <1>1 DEF PlainInv
  <1>4. Written \o rx.data \in Seq(Nat) /\ Len(Written \o rx.data) = Len(Written) + Len(rx.data)
    BY <1>2, Joined
  <1>5. Len(Body(reply)) = Len(Written \o rx.data) + Len(wire)
    BY <1>2, <1>3, <1>4, Joined
  <1>6. Written \o <<>> = Written
    BY <1>2, Nothing
  <1> QED
    BY <1>3, <1>4, <1>5, <1>6

\* The server has closed: what is still on the wire is lost.
LEMMA RecvClosedKeeps == ASSUME FetchInv, RecvClosed PROVE FetchInv'
  <1>1. /\ at = "recv" /\ at' = "close" /\ wire' = <<>> /\ early' = (wire # <<>>)
        /\ UNCHANGED <<url, history, target, attempt, sni, link, reply, rx, sink, before, result>>
    BY DEF RecvClosed
  <1>2. FetchType /\ Receiving /\ Receiving'
    BY <1>1 DEF FetchInv, Receiving
  <1>3. FetchType'
    <2>1. early' \in BOOLEAN /\ wire' \in Seq(Nat)
      BY <1>1
    <2>2. RxType' /\ Len(rx'.head) < HeaderBuf /\ Len(rx'.buf) <= ChunkBuf /\ Len(rx'.data) < HeaderBuf
      BY <1>1, <1>2 DEF FetchType, RxType
    <2> QED  BY <1>1, <1>2, <2>1, <2>2 DEF FetchType
  <1>4. QuietInv' /\ EarlyInv' /\ DrainedInv' /\ DoneInv'
    BY <1>1 DEF QuietInv, EarlyInv, DrainedInv, DoneInv
  <1>5. Written' = Written /\ Written \in Seq(Nat) /\ wire \in Seq(Nat) /\ reply \in Replies /\ Body(reply) \in Seq(Nat)
    <2>1. Written \in Seq(Nat) /\ wire \in Seq(Nat) /\ reply \in Replies
      BY <1>2, WrittenIs DEF FetchType
    <2> QED  BY <2>1, <1>1, ReplyIs DEF Written
  <1>6. CountInv'
    BY <1>1, <1>2, <1>5 DEF FetchInv, CountInv
  <1>7. HeadInv'
    <2>1. SUFFICES ASSUME ~rx.headDone
                   PROVE  /\ Written = <<>> /\ rx.data = <<>> /\ rx.buf = <<>> /\ rx.need = NoSize /\ ~rx.done
                          /\ wire # <<>>
      BY <1>1, <1>5 DEF HeadInv
    <2>2. /\ Written = <<>> /\ rx.data = <<>> /\ rx.buf = <<>> /\ rx.need = NoSize /\ ~rx.done
          /\ Len(rx.head) < reply.head /\ rx.head \o wire = Sent(reply)
      BY <1>1, <1>2, <2>1 DEF FetchInv, HeadInv
    <2>3. Len(Sent(reply)) >= reply.head /\ Len(Sent(reply)) \in Nat /\ reply.head \in Nat
      <3>1. Sent(reply) \in Seq(Nat) /\ Len(Sent(reply)) >= reply.head
        BY <1>5, EncodedIs
      <3>2. reply.head \in Nat
        BY <1>5, ReplyIs
      <3> QED  BY <3>1, <3>2
    <2>4. rx.head \in Seq(Nat)
      BY <1>2 DEF FetchType, RxType
    <2>5. ASSUME wire = <<>> PROVE FALSE
      <3>1. rx.head \o wire = rx.head
        BY <2>4, <2>5, Nothing
      <3>2. Len(rx.head) \in Nat /\ Len(rx.head) = Len(Sent(reply))
        BY <2>2, <2>4, <3>1
      <3> QED  BY <3>2, <2>2, <2>3
    <2> QED  BY <2>2, <2>5
  <1>8. PlainInv'
    <2>1. SUFFICES ASSUME rx.headDone, ~Chunked
                   PROVE  IsPrefix(Written, Body(reply)) /\ (wire = <<>> => Written = Body(reply))
      BY <1>1, <1>5 DEF PlainInv, Chunked
    <2>2. Written \o wire = Body(reply)
      BY <2>1, <1>1, PlainSplit
    <2>3. IsPrefix(Written, Written \o wire)
      BY <1>5, PrefixOf
    <2>4. Written \o <<>> = Written
      BY <1>5, Nothing
    <2> QED  BY <2>2, <2>3, <2>4
  <1>9. ChunkInv'
    <2>1. SUFFICES ASSUME rx.headDone, reply.kind = "chunked"
                   PROVE  IsPrefix(Written, Body(reply)) /\ ~rx.done
      BY <1>1, <1>5 DEF ChunkInv
    <2>2. ~rx.done /\ \E k \in 0..ChunkCount : After(k)
      BY <2>1, <1>1, <1>2 DEF FetchInv, ChunkInv
    <2>3. PICK k \in 0..ChunkCount : After(k)
      BY <2>2
    <2>4. Written \o BodyLeft(reply, k) = Body(reply)
      BY <2>3 DEF After
    <2>5. BodyLeft(reply, k) \in Seq(Nat)
      BY <2>1, <1>5, LeftOf DEF ChunkCount
    <2>6. IsPrefix(Written, Written \o BodyLeft(reply, k))
      BY <1>5, <2>5, PrefixOf
    <2> QED  BY <2>2, <2>4, <2>6
  <1>10. GarbledInv'
    BY <1>1, <1>2, <1>5 DEF FetchInv, GarbledInv
  <1> QED
    BY <1>3, <1>4, <1>6, <1>7, <1>8, <1>9, <1>10 DEF FetchInv

\* A redirect is followed.
LEMMA FollowRedirectKeeps == ASSUME FetchInv, FollowRedirect PROVE FetchInv'
  <1>1. /\ at = "head" /\ at' = "loop" /\ link' = "closed" /\ wire' = <<>> /\ rx' = Fresh /\ sni' = FALSE
        /\ url' = Normal[reply.to]
        /\ UNCHANGED <<history, target, attempt, sink, before, early, result>>
    BY DEF FollowRedirect, Hangup
  <1>2. FetchType /\ EarlyInv /\ Receiving /\ ~Receiving'
    BY <1>1 DEF FetchInv, Receiving
  <1>3. url' \in Urls
    <2>1. reply.to \in Urls
      BY <1>2, ReplyIs DEF FetchType
    <2> QED  BY <2>1, <1>1, FetchAssumption
  <1>4. ~early
    BY <1>1, <1>2 DEF EarlyInv
  <1>5. FetchType'
    <2>1. RxType' /\ Len(rx'.head) = 0 /\ Len(rx'.buf) = 0 /\ Len(rx'.data) = 0
      BY <1>1, FreshIs DEF RxType
    <2>2. /\ Len(rx'.head) < HeaderBuf /\ Len(rx'.buf) <= ChunkBuf /\ Len(rx'.data) < HeaderBuf
          /\ wire' \in Seq(Nat) /\ link' \in {"closed", "open", "tls"} /\ sni' \in BOOLEAN
      <3>1. link' \in {"closed", "open", "tls"} /\ sni' \in BOOLEAN
        BY <1>1
      <3>2. wire' \in Seq(Nat)
        BY <1>1
      <3> QED  BY <2>1, <3>1, <3>2, Bounds
    <2> QED  BY <1>1, <1>2, <1>3, <2>1, <2>2 DEF FetchType
  <1>6. QuietInv' /\ EarlyInv'
    BY <1>1, <1>4 DEF QuietInv, EarlyInv
  <1> QED
    BY <1>1, <1>2, <1>5, <1>6 DEF FetchInv, CountInv, HeadInv, PlainInv, ChunkInv, GarbledInv,
       DrainedInv, DoneInv

\* What came behind the head is the beginning of the body.
LEMMA BodyBeginsKeeps == ASSUME FetchInv, BodyBegins PROVE FetchInv'
  <1> DEFINE begun == SubSeq(rx.head, reply.head + 1, Len(rx.head))
  <1>1. /\ at = "head" /\ wire' = wire
        /\ UNCHANGED <<url, history, target, attempt, sni, link, reply, sink, before, early, result>>
        /\ IF Chunked
           THEN rx' = [rx EXCEPT !.headDone = TRUE, !.buf = begun] /\ at' = "decode"
           ELSE rx' = [rx EXCEPT !.headDone = TRUE, !.data = begun] /\ at' = (IF begun = <<>> THEN "recv" ELSE "write")
    BY DEF BodyBegins, Unchanged
  <1>2. FetchType /\ RxType /\ Receiving /\ HeadInv /\ CountInv /\ ~rx.headDone
    BY <1>1 DEF FetchInv, FetchType, Receiving, PlainInv, ChunkInv, GarbledInv, Chunked
  <1>3. /\ Written = <<>> /\ rx.data = <<>> /\ rx.buf = <<>> /\ rx.need = NoSize /\ ~rx.done
        /\ Len(rx.head) >= reply.head /\ rx.head \o wire = Sent(reply)
    BY <1>1, <1>2 DEF HeadInv
  <1>4. reply \in Replies /\ rx.head \in Seq(Nat) /\ wire \in Seq(Nat) /\ Len(rx.head) < HeaderBuf
    BY <1>2 DEF FetchType, RxType
  <1>5. begun \in Seq(Nat) /\ Len(begun) <= Len(rx.head) /\ begun \o wire = Encoded(reply)
    <2> DEFINE h == [i \in 1..reply.head |-> HeadUnit]
    <2>1. h \in Seq(Nat) /\ Len(h) = reply.head /\ Encoded(reply) \in Seq(Nat) /\ Sent(reply) = h \o Encoded(reply)
      BY <1>4, EncodedIs DEF Sent
    <2> HIDE DEF h
    <2>2. rx.head \o wire = h \o Encoded(reply) /\ Len(h) <= Len(rx.head)
      BY <2>1, <1>3, <1>4, ReplyIs
    <2>3. /\ Rest(rx.head, Len(h)) \in Seq(Nat)
          /\ Len(Rest(rx.head, Len(h))) = Len(rx.head) - Len(h)
          /\ Rest(rx.head, Len(h)) \o wire = Encoded(reply)
      <3>1. rx.head \in Seq(Nat) /\ wire \in Seq(Nat) /\ h \in Seq(Nat) /\ Encoded(reply) \in Seq(Nat)
        BY <2>1, <1>4
      <3> DEFINE b == rx.head
                 w == wire
                 c == Encoded(reply)
      <3>2. /\ b \in Seq(Nat) /\ w \in Seq(Nat) /\ h \in Seq(Nat) /\ c \in Seq(Nat) /\ Len(h) <= Len(b)
            /\ Cat(b, w) = Cat(h, c)
        BY <3>1, <2>1, <2>2 DEF Cat
      <3> HIDE DEF b, w, c
      <3>3. Rest(b, Len(h)) \in Seq(Nat) /\ Len(Rest(b, Len(h))) = Len(b) - Len(h) /\ Cat(Rest(b, Len(h)), w) = c
        BY <3>2, RestBefore
      <3> QED  BY <3>3 DEF b, w, c, Cat
    <2>4. begun = Rest(rx.head, Len(h))
      BY <2>1 DEF Rest
    <2> HIDE DEF begun
    <2>5. Len(begun) = Len(rx.head) - Len(h) /\ Len(h) \in Nat /\ Len(rx.head) \in Nat
      BY <2>1, <2>3, <2>4, <1>4
    <2>6. Len(begun) <= Len(rx.head)
      BY <2>5
    <2> QED  BY <2>3, <2>4, <2>6
  <1> HIDE DEF begun
  <1>6. /\ RxType' /\ rx'.head = rx.head /\ rx'.headDone /\ rx'.need = NoSize /\ ~rx'.done /\ rx'.total = rx.total
        /\ Chunked => rx'.buf = begun /\ rx'.data = <<>> /\ at' = "decode"
        /\ ~Chunked => rx'.data = begun /\ rx'.buf = <<>> /\ at' = (IF begun = <<>> THEN "recv" ELSE "write")
    BY <1>1, <1>2, <1>3, <1>5 DEF RxType
  <1>7. Len(rx'.head) < HeaderBuf /\ Len(rx'.buf) <= ChunkBuf /\ Len(rx'.data) < HeaderBuf
    <2>1. Len(begun) < HeaderBuf /\ Len(begun) <= ChunkBuf /\ Len(begun) \in Nat
      <3>1. Len(begun) \in Nat /\ Len(rx.head) \in Nat
        BY <1>4, <1>5
      <3> QED  BY <3>1, <1>4, <1>5, Bounds
    <2>2. Len(rx.data) = 0 /\ Len(rx.buf) = 0
      BY <1>3
    <2> QED  BY <2>1, <2>2, <1>3, <1>4, <1>6, Bounds
  <1>8. wire' \in Seq(Nat) /\ at' \in {"recv", "decode", "write"}
    BY <1>1, <1>4, <1>6
  <1>9. /\ FetchType' /\ QuietInv' /\ EarlyInv' /\ DoneInv' /\ Receiving'
        /\ Written' = Written /\ ~early
    BY <1>1, <1>6, <1>7, <1>8, ReceivedType
  <1>10. Chunked' = Chunked /\ reply' = reply
    BY <1>1 DEF Chunked
  <1>11. CountInv' /\ HeadInv'
    BY <1>2, <1>6, <1>9 DEF CountInv, HeadInv
  <1>12. PlainInv'
    <2>1. SUFFICES ASSUME ~Chunked
                   PROVE  (Written' \o rx'.data) \o wire' = Body(reply) /\ (at' = "recv" => rx'.data = <<>>)
      BY <1>6, <1>8, <1>10 DEF PlainInv
    <2>2. Encoded(reply) = Body(reply)
      BY <2>1, <1>4, EncodedIs DEF Chunked
    <2>3. <<>> \o begun = begun
      BY <1>5, Nothing
    <2> QED  BY <2>1, <2>2, <2>3, <1>1, <1>3, <1>5, <1>6, <1>9
  <1>13. ChunkInv'
    <2>1. SUFFICES ASSUME reply.kind = "chunked" PROVE at' = "decode" /\ \E k \in 0..ChunkCount' : After(k)'
      BY <1>6, <1>8, <1>10 DEF ChunkInv
    <2>2. Chunked /\ ChunkCount' = ChunkCount
      BY <2>1, <1>10 DEF Chunked, ChunkCount
    <2>3. ChunkCount \in Nat /\ BodyLeft(reply, 0) = Body(reply) /\ SentLeft(reply, 0) = Encoded(reply)
      BY <2>1, <1>4, LeftOf DEF ChunkCount
    <2>4. <<>> \o Body(reply) = Body(reply)
      BY <1>4, ReplyIs, Nothing
    <2>5. After(0)'
      BY <2>2, <2>3, <2>4, <1>1, <1>3, <1>5, <1>6, <1>9, <1>10 DEF After
    <2>6. 0 \in 0..ChunkCount'
      BY <2>2, <2>3
    <2> QED  BY <2>2, <2>5, <2>6, <1>6
  <1>14. GarbledInv'
    <2>1. SUFFICES ASSUME reply.kind = "garbled"
                   PROVE  at' = "decode" /\ Written' = <<>> /\ rx'.buf \o wire' = <<CR, LF>>
      BY <1>6, <1>8, <1>10 DEF GarbledInv
    <2>2. Chunked /\ Encoded(reply) = <<CR, LF>>
      BY <2>1, <1>4, EncodedIs DEF Chunked
    <2> QED  BY <2>2, <1>1, <1>3, <1>5, <1>6, <1>9
  <1>15. DrainedInv'
    BY <1>6, <1>10 DEF DrainedInv
  <1> QED
    BY <1>9, <1>11, <1>12, <1>13, <1>14, <1>15 DEF FetchInv

\* A piece of a plain body is written.
LEMMA WriteBodyKeeps == ASSUME FetchInv, WriteBody PROVE FetchInv'
  <1>1. /\ at = "write" /\ sink' = sink \o rx.data
        /\ rx' = [rx EXCEPT !.total = @ + Len(rx.data), !.data = <<>>]
        /\ at' = (IF Enough THEN "close" ELSE "recv")
        /\ UNCHANGED <<url, history, target, attempt, sni, link, reply, wire, before, early, result>>
    BY DEF WriteBody
  <1>2. FetchType /\ RxType /\ Receiving /\ Receiving' /\ CountInv /\ EarlyInv /\ PlainInv
    BY <1>1 DEF FetchInv, FetchType, Receiving
  <1>3. rx.headDone /\ ~Chunked
    BY <1>1, <1>2, ReplyIs DEF FetchInv, HeadInv, ChunkInv, GarbledInv, Chunked
  <1>4. reply \in Replies /\ rx.data \in Seq(Nat) /\ wire \in Seq(Nat) /\ ~early /\ rx.total \in Nat
    BY <1>1, <1>2 DEF FetchType, RxType, EarlyInv
  <1>5. /\ sink' \in Seq(Nat) /\ Len(sink') = Len(sink) + Len(rx.data) /\ before' <= Len(sink')
        /\ Written' = Written \o rx.data
    BY <1>1, <1>2, <1>4, WrittenGrows
  <1>6. Written \in Seq(Nat) /\ Written' \in Seq(Nat) /\ Len(Written') = Len(Written) + Len(rx.data)
    BY <1>2, <1>4, <1>5, WrittenIs, Joined
  <1>7. /\ RxType' /\ rx'.head = rx.head /\ rx'.headDone = rx.headDone /\ rx'.data = <<>>
        /\ rx'.buf = rx.buf /\ rx'.need = rx.need /\ rx'.done = rx.done /\ rx'.total = rx.total + Len(rx.data)
    <2>1. rx.total + Len(rx.data) \in Nat
      BY <1>4
    <2>2. <<>> \in Seq(Nat)
      OBVIOUS
    <2> DEFINE d == Len(rx.data)
    <2>3. rx' = [rx EXCEPT !.total = @ + d, !.data = <<>>] /\ rx.total + d \in Nat
      BY <1>1, <2>1
    <2> HIDE DEF d
    <2> QED  BY <2>2, <2>3, <1>2 DEF RxType, d
  <1>8. FetchType'
    <2>1. at' \in {"close", "recv"} /\ early' \in BOOLEAN /\ wire' \in Seq(Nat)
      BY <1>1, <1>2, <1>4 DEF FetchType
    <2>2. Len(rx'.head) < HeaderBuf /\ Len(rx'.buf) <= ChunkBuf /\ Len(rx'.data) < HeaderBuf
      <3>1. Len(rx'.data) = 0
        BY <1>7
      <3> QED  BY <3>1, <1>2, <1>7, Bounds DEF FetchType
    <2> QED  BY <1>1, <1>2, <1>4, <1>5, <1>7, <2>1, <2>2 DEF FetchType
  <1>9. CountInv'
    BY <1>2, <1>6, <1>7 DEF CountInv
  <1>10. Written' \o wire = Body(reply) /\ Len(Body(reply)) = Len(Written') + Len(wire)
    BY <1>1, <1>3, <1>5, <1>6, PlainSplit
  <1>11. PlainInv'
    <2>1. CASE ~Enough
      <3>1. at' = "recv" /\ Written' \o <<>> = Written'
        BY <2>1, <1>1, <1>6, Nothing
      <3> QED  BY <3>1, <1>1, <1>7, <1>10 DEF PlainInv
    <2>2. CASE Enough
      <3>1. rx.total + Len(rx.data) >= Len(Body(reply)) /\ rx.total = Len(Written)
        BY <2>2, <1>2 DEF Enough, CountInv
      <3>2. Len(wire) = 0
        <4>1. Len(wire) \in Nat /\ Len(Written') \in Nat /\ Len(Written) \in Nat /\ Len(rx.data) \in Nat
          BY <1>4, <1>6
        <4> QED  BY <4>1, <3>1, <1>6, <1>10
      <3>3. wire = <<>> /\ Written' \o <<>> = Written'
        BY <3>2, <1>4, <1>6, Nothing
      <3>4. Written' = Body(reply) /\ IsPrefix(Written', Body(reply))
        BY <3>3, <1>4, <1>6, <1>10, PrefixOf
      <3> QED  BY <3>4, <2>2, <1>1 DEF PlainInv
    <2> QED  BY <2>1, <2>2
  <1>12. QuietInv' /\ EarlyInv' /\ DoneInv'
    BY <1>1, <1>4 DEF QuietInv, EarlyInv, DoneInv
  <1>13. rx'.headDone /\ ~Chunked'
    BY <1>1, <1>3, <1>7 DEF Chunked
  <1> QED
    BY <1>8, <1>9, <1>11, <1>12, <1>13 DEF FetchInv, HeadInv, ChunkInv, GarbledInv, DrainedInv, Chunked

\* The elements of joined sequences, of which the statement shows no lambda.
LEMMA CatIs ==
    ASSUME NEW S, NEW a \in Seq(S), NEW b \in Seq(S)
    PROVE  /\ Cat(a, b) \in Seq(S) /\ Len(Cat(a, b)) = Len(a) + Len(b)
           /\ \A i \in 1..Len(a) : Cat(a, b)[i] = a[i]
  BY Joined DEF Cat

\* Joining is associative, likewise.
LEMMA CatRegrouped ==
    ASSUME NEW S, NEW a \in Seq(S), NEW b \in Seq(S), NEW c \in Seq(S)
    PROVE  Cat(Cat(a, b), c) = Cat(a, Cat(b, c))
  BY Regrouped DEF Cat

FirstN(s, k) == SubSeq(s, 1, k)

\* A buffer and the wire hold a followed by c: the buffer begins with a.
LEMMA FrontIs ==
    ASSUME NEW S, NEW a \in Seq(S), NEW c \in Seq(S), NEW b \in Seq(S), NEW w \in Seq(S),
           Cat(b, w) = Cat(a, c), Len(a) <= Len(b)
    PROVE  FirstN(b, Len(a)) = a
  <1> USE DEF Cat
  <1> DEFINE f == SubSeq(b, 1, Len(a))
  <1>0. Len(a) \in Nat /\ Len(b) \in Nat /\ Len(a) \in 0..Len(b)
    OBVIOUS
  <1>1. f \in Seq(S) /\ Len(f) = Len(a) /\ \A i \in 1..Len(a) : f[i] = b[i]
    BY <1>0, Parts
  <1> HIDE DEF f
  <1>2. (\A i \in 1..Len(b) : (b \o w)[i] = b[i]) /\ \A j \in 1..Len(a) : (a \o c)[j] = a[j]
    BY Joined
  <1>3. \A i \in 1..Len(f) : f[i] = a[i]
    <2> TAKE i \in 1..Len(f)
    <2>1. i \in 1..Len(a) /\ i \in 1..Len(b)
      BY <1>0, <1>1
    <2>2. f[i] = b[i] /\ (b \o w)[i] = b[i] /\ (a \o c)[i] = a[i]
      BY <2>1, <1>1, <1>2
    <2> QED  BY <2>2
  <1>4. f = a
    BY <1>1, <1>3, SameSeq
  <1> QED
    BY <1>4 DEF f, FirstN

\* The line with the size of a chunk.
LEMMA LineIs ==
    ASSUME rx.buf \in Seq(Nat), wire \in Seq(Nat), NEW d \in 48..57, NEW x \in Seq(Nat),
           rx.buf \o wire = <<d, CR, LF>> \o x
    PROVE  /\ LineEnds = {} => Len(rx.buf) <= 2
           /\ LineEnds # {} => /\ Len(rx.buf) >= 3 /\ LineEnd = 2 /\ SizeIsHex /\ ParsedSize = d - 48
                               /\ ParsedSize \in 0..9
  <1> DEFINE b == rx.buf
             s == Cat(b, wire)
             p == <<d, CR, LF>>
  <1>0. b \in Seq(Nat) /\ Len(b) \in Nat /\ CR = 13 /\ LF = 10
    BY DEF CR, LF
  <1>1. \A i \in 1..Len(b) : s[i] = b[i]
    BY <1>0, CatIs
  <1>2. s[1] = d /\ s[2] = 13 /\ s[3] = 10
    <2>1. p \in Seq(Nat) /\ Len(p) = 3 /\ p[1] = d /\ p[2] = 13 /\ p[3] = 10
      BY <1>0
    <2> HIDE DEF p
    <2>2. \A i \in 1..3 : Cat(p, x)[i] = p[i]
      <3>1. \A i \in 1..Len(p) : Cat(p, x)[i] = p[i]
        BY <2>1, CatIs
      <3> QED  BY <3>1, <2>1
    <2>3. s = Cat(p, x)
      BY DEF p, Cat
    <2> HIDE DEF s
    <2>4. 1 \in 1..3 /\ 2 \in 1..3 /\ 3 \in 1..3
      OBVIOUS
    <2> QED  BY <2>1, <2>2, <2>3, <2>4
  <1> HIDE DEF s, p
  <1>3. LineEnds = {i \in 1..(Len(b) - 1) : b[i] = 13 /\ b[i + 1] = 10}
    BY <1>0 DEF LineEnds
  <1>4. Len(b) >= 3 => 2 \in LineEnds
    <2> SUFFICES ASSUME Len(b) >= 3 PROVE 2 \in LineEnds
      OBVIOUS
    <2>1. 2 \in 1..Len(b) /\ 3 \in 1..Len(b) /\ 2 \in 1..(Len(b) - 1) /\ 2 + 1 = 3
      BY <1>0
    <2>2. b[2] = 13 /\ b[2 + 1] = 10
      BY <2>1, <1>1, <1>2
    <2> QED  BY <2>1, <2>2, <1>3
  <1>5. ASSUME NEW i \in LineEnds PROVE i \in Nat /\ 2 <= i /\ Len(b) >= 3
    <2>1. i \in 1..(Len(b) - 1) /\ b[i] = 13
      BY <1>3
    <2>2. i # 1
      <3>1. i = 1 => b[1] = d /\ 1 \in 1..Len(b)
        BY <2>1, <1>0, <1>1, <1>2
      <3> QED  BY <3>1, <2>1
    <2> QED  BY <2>1, <2>2, <1>0
  <1>6. LineEnds = {} => Len(b) <= 2
    BY <1>0, <1>4
  <1>7. SUFFICES ASSUME LineEnds # {}
                 PROVE  Len(b) >= 3 /\ LineEnd = 2 /\ ParsedSize = d - 48 /\ d - 48 \in 0..9
    BY <1>6 DEF SizeIsHex
  <1>8. Len(b) >= 3 /\ 2 \in LineEnds
    BY <1>4, <1>5, <1>7
  <1>9. LineEnd = 2
    <2>1. LineEnd \in LineEnds /\ \A j \in LineEnds : LineEnd <= j
      <3>1. 2 \in LineEnds /\ \A j \in LineEnds : 2 <= j
        BY <1>5, <1>8
      <3> HIDE DEF LineEnds
      <3> QED  BY <3>1 DEF LineEnd
    <2>2. LineEnd <= 2 /\ 2 <= LineEnd /\ LineEnd \in Nat
      BY <2>1, <1>5, <1>8
    <2> QED  BY <2>2
  <1>10. ParsedSize = d - 48 /\ d - 48 \in 0..9
    <2>1. 1 \in 1..Len(b)
      BY <1>0, <1>8
    <2>2. b[1] = d
      BY <2>1, <1>1, <1>2
    <2> QED  BY <2>2 DEF ParsedSize
  <1> QED
    BY <1>8, <1>9, <1>10

\* A line of which nothing is the size.
LEMMA NoLine ==
    ASSUME rx.buf \in Seq(Nat), wire \in Seq(Nat), rx.buf \o wire = <<CR, LF>>
    PROVE  (LineEnds # {} => ~SizeIsHex) /\ Len(rx.buf) <= 2
  <1> DEFINE b == rx.buf
             s == Cat(b, wire)
  <1>0. b \in Seq(Nat) /\ wire \in Seq(Nat) /\ Len(b) \in Nat /\ Len(wire) \in Nat /\ CR = 13 /\ LF = 10
    BY DEF CR, LF
  <1>1. Len(s) = Len(b) + Len(wire)
    BY <1>0, CatIs
  <1>2. Len(s) = 2
    BY DEF Cat
  <1> HIDE DEF s
  <1>3. LineEnds = {i \in 1..(Len(b) - 1) : b[i] = 13 /\ b[i + 1] = 10}
    BY <1>0 DEF LineEnds
  <1>4. Len(b) <= 2
    <2> DEFINE m == Len(b)
               n == Len(wire)
    <2>1. m \in Nat /\ n \in Nat /\ m + n = 2
      BY <1>0, <1>1, <1>2
    <2> HIDE DEF m, n
    <2>2. m <= 2
      BY <2>1
    <2> QED  BY <2>2 DEF m
  <1>5. SUFFICES ASSUME LineEnds # {} PROVE LineEnd # 2
    BY <1>4 DEF SizeIsHex
  <1>6. \A i \in LineEnds : i = 1
    BY <1>0, <1>3, <1>4
  <1>7. LineEnd \in LineEnds
    <2>1. 1 \in LineEnds /\ \A j \in LineEnds : 1 <= j
      BY <1>5, <1>6
    <2> HIDE DEF LineEnds
    <2> QED  BY <2>1 DEF LineEnd
  <1> QED
    BY <1>6, <1>7

\* What is known while chunks are decoded.
LEMMA Decoding ==
    ASSUME FetchInv, at = "decode"
    PROVE  /\ FetchType /\ RxType /\ Receiving /\ rx.headDone /\ Chunked /\ ~early /\ ~rx.done
           /\ reply.kind \in {"chunked", "garbled"} /\ reply \in Replies
           /\ rx.buf \in Seq(Nat) /\ wire \in Seq(Nat) /\ Written \in Seq(Nat)
           /\ rx.data \in Seq(Nat) /\ Len(rx.buf) \in Nat
           /\ reply.kind = "chunked" => \E k \in 0..ChunkCount : After(k)
           /\ reply.kind = "garbled" => /\ rx.need = NoSize /\ Written = <<>>
                                        /\ rx.buf \o wire = <<CR, LF>>
  <1>1. FetchType /\ Receiving /\ EarlyInv
    BY DEF FetchInv, Receiving
  <1>2. rx.headDone /\ Chunked
    BY <1>1 DEF FetchInv, HeadInv, PlainInv
  <1>3. reply.kind \in {"chunked", "garbled"}
    BY <1>2 DEF Chunked
  <1>4. /\ reply.kind = "chunked" => ~rx.done /\ \E k \in 0..ChunkCount : After(k)
        /\ reply.kind = "garbled" => ~rx.done /\ rx.need = NoSize /\ Written = <<>> /\ rx.buf \o wire = <<CR, LF>>
    BY <1>1, <1>2 DEF FetchInv, ChunkInv, GarbledInv
  <1>5. /\ rx.buf \in Seq(Nat) /\ wire \in Seq(Nat) /\ Written \in Seq(Nat) /\ RxType /\ reply \in Replies
        /\ rx.data \in Seq(Nat) /\ Len(rx.buf) \in Nat
    BY <1>1, WrittenIs DEF FetchType, RxType
  <1>6. ~early
    BY <1>1 DEF EarlyInv
  <1> QED
    BY <1>1, <1>2, <1>3, <1>4, <1>5, <1>6

\* The size of a chunk is one digit.
LEMMA DigitOf == ASSUME NEW l \in 1..9
                PROVE  48 + l \in 48..57 /\ (48 + l) - 48 = l /\ l # 0 /\ l \in Nat /\ l # NoSize
  BY DEF NoSize

\* What is left after k chunks are sequences.
LEMMA LeftTypes ==
    ASSUME reply \in Replies, reply.kind = "chunked"
    PROVE  ChunkCount \in Nat /\ \A k \in 0..ChunkCount : BodyLeft(reply, k) \in Seq(Nat) /\ SentLeft(reply, k) \in Seq(Nat)
  BY LeftOf DEF ChunkCount

\* The size line behind the last chunk.
LEMMA LastLine ==
    ASSUME reply \in Replies, reply.kind = "chunked"
    PROVE  /\ BodyLeft(reply, ChunkCount) = <<>>
           /\ SentLeft(reply, ChunkCount) = Cat(<<48, CR, LF>>, <<CR, LF>>)
  <1>1. BodyLeft(reply, ChunkCount) = <<>> /\ SentLeft(reply, ChunkCount) = LastChunk
    BY LeftOf DEF ChunkCount
  <1> QED
    BY <1>1, LastIs DEF Cat

\* What a chunk leaves: its size line, its bytes with the CRLF after them, what follows.
LEMMA SizeLine ==
    ASSUME reply \in Replies, reply.kind = "chunked", NEW k \in Nat, k < ChunkCount,
           NEW c, c = reply.chunks[k + 1]
    PROVE  /\ c \in Seq(Nat) /\ Len(c) \in 1..9
           /\ BodyLeft(reply, k + 1) \in Seq(Nat) /\ SentLeft(reply, k + 1) \in Seq(Nat)
           /\ BodyLeft(reply, k) = Cat(c, BodyLeft(reply, k + 1))
           /\ Cat(c, <<CR, LF>>) \in Seq(Nat) /\ Len(Cat(c, <<CR, LF>>)) = Len(c) + 2
           /\ Cat(Cat(c, <<CR, LF>>), SentLeft(reply, k + 1)) \in Seq(Nat)
           /\ SentLeft(reply, k) = Cat(<<48 + Len(c), CR, LF>>, Cat(Cat(c, <<CR, LF>>), SentLeft(reply, k + 1)))
  <1>1. /\ ChunkCount \in Nat /\ \A i \in 0..ChunkCount : BodyLeft(reply, i) \in Seq(Nat) /\ SentLeft(reply, i) \in Seq(Nat)
        /\ \A i \in 0..(ChunkCount - 1) :
              /\ reply.chunks[i + 1] \in Seq(Nat) /\ Len(reply.chunks[i + 1]) \in 1..9
              /\ BodyLeft(reply, i) = reply.chunks[i + 1] \o BodyLeft(reply, i + 1)
              /\ SentLeft(reply, i) = Framed(reply.chunks[i + 1]) \o SentLeft(reply, i + 1)
    BY LeftOf DEF ChunkCount
  <1> DEFINE e == SentLeft(reply, k + 1)
             p == <<48 + Len(c), CR, LF>>
             d == Cat(c, <<CR, LF>>)
  <1>4. k \in 0..(ChunkCount - 1) /\ k + 1 \in 0..ChunkCount
    BY <1>1
  <1>5. c \in Seq(Nat) /\ Len(c) \in 1..9 /\ BodyLeft(reply, k) = Cat(c, BodyLeft(reply, k + 1))
        /\ SentLeft(reply, k) = Cat(Framed(c), e)
    BY <1>1, <1>4 DEF Cat
  <1>6. BodyLeft(reply, k + 1) \in Seq(Nat) /\ e \in Seq(Nat)
    BY <1>1, <1>4
  <1> HIDE DEF e
  <1>7. Framed(c) = Cat(p, d) /\ p \in Seq(Nat) /\ d \in Seq(Nat) /\ Len(d) = Len(c) + 2
    BY <1>5, FramedIs DEF Cat
  <1> HIDE DEF p, d
  <1>8. Cat(d, e) \in Seq(Nat)
    BY <1>6, <1>7, CatIs
  <1>9. Cat(Cat(p, d), e) = Cat(p, Cat(d, e))
    BY <1>6, <1>7, CatRegrouped
  <1>10. SentLeft(reply, k) = Cat(p, Cat(d, e))
    BY <1>5, <1>7, <1>9
  <1> QED
    BY <1>5, <1>6, <1>7, <1>8, <1>10 DEF e, p, d

\* The size line of a chunk is taken off, or that of the chunk of none.
LEMMA ChunkSizeKeeps == ASSUME FetchInv, ChunkSize PROVE FetchInv'
  <1>1. /\ at = "decode" /\ ~SizeKnown /\ LineEnds # {} /\ SizeIsHex
        /\ rx' = [rx EXCEPT !.need = ParsedSize, !.buf = Dropped(LineEnd + 1), !.done = ParsedSize = 0]
        /\ at' = (IF ParsedSize = 0 THEN "close" ELSE "decode") /\ wire' = wire
        /\ UNCHANGED <<url, history, target, attempt, sni, link, reply, sink, before, early, result>>
    BY DEF ChunkSize, Unchanged
  <1>2. /\ FetchType /\ RxType /\ Receiving /\ rx.headDone /\ Chunked /\ ~early /\ ~rx.done
        /\ reply.kind \in {"chunked", "garbled"} /\ reply \in Replies
        /\ rx.buf \in Seq(Nat) /\ wire \in Seq(Nat) /\ Written \in Seq(Nat) /\ Len(rx.buf) \in Nat
        /\ reply.kind = "chunked" => \E k \in 0..ChunkCount : After(k)
        /\ reply.kind = "garbled" => rx.buf \o wire = <<CR, LF>>
    BY <1>1, Decoding
  <1>3. reply.kind = "chunked" /\ rx.need = NoSize
    BY <1>1, <1>2, NoLine DEF SizeKnown
  <1>4. PICK k \in 0..ChunkCount : After(k)
    BY <1>2, <1>3
  <1>5. Written \o BodyLeft(reply, k) = Body(reply) /\ rx.buf \o wire = SentLeft(reply, k)
    BY <1>3, <1>4 DEF After
  <1> DEFINE c == reply.chunks[k + 1]
             behind == IF k = ChunkCount THEN <<CR, LF>> ELSE Cat(Cat(c, <<CR, LF>>), SentLeft(reply, k + 1))
             d == IF k = ChunkCount THEN 48 ELSE 48 + Len(c)
             p == <<d, CR, LF>>
  <1>6. ChunkCount \in Nat /\ k \in Nat /\ k <= ChunkCount
    BY <1>2, <1>3, LeftTypes
  <1>7. /\ SentLeft(reply, k) = Cat(<<d, CR, LF>>, behind) /\ d \in 48..57 /\ behind \in Seq(Nat)
        /\ k = ChunkCount => d = 48 /\ BodyLeft(reply, k) = <<>>
        /\ k # ChunkCount => /\ d - 48 = Len(c) /\ Len(c) \in 1..9
                    /\ behind = Cat(Cat(c, <<CR, LF>>), SentLeft(reply, k + 1))
    <2>1. CASE k = ChunkCount
      <3>1. <<CR, LF>> \in Seq(Nat)
        BY DEF CR, LF
      <3>2. BodyLeft(reply, ChunkCount) = <<>> /\ SentLeft(reply, ChunkCount) = Cat(<<48, CR, LF>>, <<CR, LF>>)
        BY <1>2, <1>3, LastLine
      <3> QED  BY <2>1, <3>1, <3>2
    <2>2. CASE k # ChunkCount
      <3>1. k < ChunkCount
        BY <2>2, <1>6
      <3>20. c = reply.chunks[k + 1]
        OBVIOUS
      <3> HIDE DEF c
      <3>21. reply \in Replies /\ reply.kind = "chunked"
        BY <1>2, <1>3
      <3>2. c \in Seq(Nat) /\ Len(c) \in 1..9
        BY <3>1, <3>20, <3>21, <1>6, SizeLine
      <3>3. /\ Cat(Cat(c, <<CR, LF>>), SentLeft(reply, k + 1)) \in Seq(Nat)
            /\ SentLeft(reply, k) = Cat(<<48 + Len(c), CR, LF>>, Cat(Cat(c, <<CR, LF>>), SentLeft(reply, k + 1)))
        BY <3>1, <3>20, <3>21, <1>6, SizeLine
      <3>4. 48 + Len(c) \in 48..57 /\ (48 + Len(c)) - 48 = Len(c)
        BY <3>2, DigitOf, Zenon
      <3> QED  BY <2>2, <3>2, <3>3, <3>4
    <2> QED  BY <2>1, <2>2
  <1> HIDE DEF behind, d, c
  <1>8. Len(rx.buf) >= 3 /\ LineEnd = 2 /\ ParsedSize = d - 48 /\ ParsedSize \in 0..9
    <2>1. rx.buf \o wire = <<d, CR, LF>> \o behind
      BY <1>5, <1>7 DEF Cat
    <2> QED  BY <2>1, <1>1, <1>2, <1>7, LineIs
  <1>9. p \in Seq(Nat) /\ Len(p) = 3
    BY <1>7 DEF CR, LF
  <1> HIDE DEF p
  <1>10. Dropped(3) \in Seq(Nat) /\ Len(Dropped(3)) = Len(rx.buf) - 3 /\ Cat(Dropped(3), wire) = behind
    <2> DEFINE b == rx.buf
               w == wire
    <2>1. Cat(b, w) = Cat(p, behind)
      BY <1>2, <1>5, <1>7, <1>8, <1>9 DEF Cat, p
    <2>11. Len(p) <= Len(b)
      BY <1>8, <1>9
    <2>12. b \in Seq(Nat)
      BY <1>2
    <2>13. w \in Seq(Nat)
      BY <1>2
    <2>14. p \in Seq(Nat)
      BY <1>9
    <2>15. behind \in Seq(Nat)
      BY <1>7
    <2>2. Dropped(3) = Rest(b, Len(p))
      BY <1>9 DEF Dropped, Rest
    <2> HIDE DEF b, w
    <2>3. /\ Rest(b, Len(p)) \in Seq(Nat) /\ Len(Rest(b, Len(p))) = Len(b) - Len(p)
          /\ Cat(Rest(b, Len(p)), w) = behind
      BY <2>1, <2>11, <2>12, <2>13, <2>14, <2>15, RestBefore
    <2> QED  BY <2>2, <2>3, <1>9 DEF b, w
  <1>11. LineEnd + 1 = 3
    BY <1>8
  <1>12. /\ RxType' /\ rx'.head = rx.head /\ rx'.headDone /\ rx'.data = rx.data /\ rx'.buf = Dropped(3)
         /\ rx'.need = ParsedSize /\ rx'.done = (ParsedSize = 0) /\ rx'.total = rx.total
    <2> DEFINE r == Dropped(3)
               q == ParsedSize
    <2>1. rx' = [rx EXCEPT !.need = q, !.buf = r, !.done = (q = 0)]
      BY <1>1, <1>11
    <2>2. r \in Seq(Nat) /\ q \in Nat /\ (q = 0) \in BOOLEAN
      BY <1>8, <1>10
    <2> HIDE DEF r, q
    <2>3. /\ RxType' /\ rx'.head = rx.head /\ rx'.headDone /\ rx'.data = rx.data /\ rx'.buf = r
          /\ rx'.need = q /\ rx'.done = (q = 0) /\ rx'.total = rx.total
      BY <2>1, <2>2, <1>2 DEF RxType
    <2> QED  BY <2>3 DEF r, q
  <1>13. Len(rx'.head) < HeaderBuf /\ Len(rx'.buf) <= ChunkBuf /\ Len(rx'.data) < HeaderBuf
    <2>1. Len(rx.head) < HeaderBuf /\ Len(rx.buf) <= ChunkBuf /\ Len(rx.data) < HeaderBuf
      BY <1>2 DEF FetchType
    <2>2. Len(Dropped(3)) <= ChunkBuf
      BY <2>1, <1>2, <1>10, Bounds
    <2> QED  BY <2>1, <2>2, <1>12
  <1>14. /\ FetchType' /\ QuietInv' /\ EarlyInv' /\ DoneInv' /\ Receiving' /\ Written' = Written
    <2>1. at' \in {"decode", "close"} /\ wire' \in Seq(Nat)
      BY <1>1, <1>2
    <2> QED  BY <2>1, <1>1, <1>12, <1>13, ReceivedType
  <1>15. CountInv'
    BY <1>2, <1>12, <1>14 DEF FetchInv, CountInv
  <1>16. Chunked' /\ reply'.kind = "chunked" /\ ChunkCount' = ChunkCount
    BY <1>1, <1>2, <1>3 DEF Chunked, ChunkCount
  <1>17. ChunkInv'
    <2>1. CASE k = ChunkCount
      <3>1. ParsedSize = 0 /\ at' = "close"
        BY <2>1, <1>1, <1>7, <1>8
      <3>2. Written \o <<>> = Body(reply) /\ Written \o <<>> = Written
        <4>1. Written \o <<>> = Body(reply)
          BY <2>1, <1>5, <1>7
        <4>2. Written \o <<>> = Written
          BY <1>2, Nothing
        <4> QED  BY <4>1, <4>2
      <3>3. IsPrefix(Written, Written)
        BY <1>2 DEF IsPrefix
      <3>4. Written' = Body(reply') /\ IsPrefix(Written', Body(reply'))
        BY <3>2, <3>3, <1>1, <1>14
      <3> QED  BY <3>1, <3>4 DEF ChunkInv
    <2>2. CASE k # ChunkCount
      <3>1. ParsedSize # 0 /\ at' = "decode" /\ ParsedSize = Len(c) /\ ParsedSize \in Nat
        <4>1. Len(c) \in 1..9 /\ d - 48 = Len(c) /\ ParsedSize = d - 48
          BY <2>2, <1>7, <1>8
        <4>2. ParsedSize = Len(c)
          BY <4>1, Zenon
        <4>3. ParsedSize \in 1..9
          BY <4>1, <4>2, Zenon
        <4>4. ParsedSize # 0 /\ ParsedSize \in Nat
          BY <4>3, DigitOf, Zenon
        <4> QED  BY <4>2, <4>4, <1>1
      <3>2. ~rx'.done /\ rx'.need = Len(c) /\ rx'.need # NoSize
        <4>1. ParsedSize \in 1..9
          BY <2>2, <1>7, <3>1, Zenon
        <4>2. ParsedSize # NoSize
          BY <4>1, DigitOf, Zenon
        <4> QED  BY <4>2, <3>1, <1>12
      <3>3. rx'.buf \o wire' = (c \o <<CR, LF>>) \o SentLeft(reply, k + 1)
        BY <2>2, <1>1, <1>7, <1>10, <1>12 DEF Cat
      <3>4. After(k)'
        <4>1. k < ChunkCount'
          BY <2>2, <1>6, <1>16
        <4>2. Written' \o BodyLeft(reply', k) = Body(reply')
          BY <1>1, <1>5, <1>14
        <4> QED  BY <4>1, <4>2, <3>2, <3>3, <1>1 DEF After, c
      <3>5. \E i \in 0..ChunkCount' : After(i)'
        BY <3>4, <1>16
      <3> QED  BY <3>1, <3>2, <3>5 DEF ChunkInv
    <2> QED  BY <2>1, <2>2
  <1> QED
    BY <1>1, <1>12, <1>14, <1>15, <1>16, <1>17 DEF FetchInv, HeadInv, PlainInv, GarbledInv, DrainedInv

\* A whole chunk is written and taken off with the CRLF after it.
LEMMA WriteChunkKeeps == ASSUME FetchInv, WriteChunk PROVE FetchInv'
  <1>1. /\ at = "decode" /\ SizeKnown /\ Len(rx.buf) >= rx.need + 2
        /\ sink' = sink \o FirstN(rx.buf, rx.need)
        /\ rx' = [rx EXCEPT !.total = @ + rx.need, !.buf = Dropped(rx.need + 2), !.need = NoSize]
        /\ UNCHANGED <<at, url, history, target, attempt, sni, link, reply, wire, before, early, result>>
    BY DEF WriteChunk, WholeChunk, FirstN
  <1>2. /\ FetchType /\ RxType /\ Receiving /\ rx.headDone /\ Chunked /\ ~early /\ ~rx.done
        /\ reply \in Replies
        /\ rx.buf \in Seq(Nat) /\ wire \in Seq(Nat) /\ Written \in Seq(Nat) /\ Len(rx.buf) \in Nat
    BY <1>1, Decoding
  <1>3. reply.kind = "chunked" /\ \E k \in 0..ChunkCount : After(k)
    BY <1>1, Decoding DEF SizeKnown
  <1>4. PICK k \in 0..ChunkCount : After(k)
    BY <1>3
  <1> DEFINE c == reply.chunks[k + 1]
             e == SentLeft(reply, k + 1)
             z == <<CR, LF>>
             a == Cat(c, z)
             b == rx.buf
             w == wire
  <1>5. /\ k < ChunkCount /\ rx.need = Len(c) /\ Cat(Written, BodyLeft(reply, k)) = Body(reply)
        /\ Cat(b, w) = Cat(a, e)
    BY <1>1, <1>4 DEF After, SizeKnown, Cat
  <1>6. ChunkCount \in Nat /\ k \in Nat /\ k + 1 \in 0..ChunkCount
    <2>1. ChunkCount \in Nat
      BY <1>2, <1>3, LeftTypes
    <2> QED  BY <2>1, <1>5
  <1>7. c = reply.chunks[k + 1]
    OBVIOUS
  <1> HIDE DEF c
  <1>8. /\ c \in Seq(Nat) /\ Len(c) \in 1..9
        /\ BodyLeft(reply, k + 1) \in Seq(Nat) /\ e \in Seq(Nat)
        /\ BodyLeft(reply, k) = Cat(c, BodyLeft(reply, k + 1))
        /\ a \in Seq(Nat) /\ Len(a) = Len(c) + 2
    BY <1>2, <1>3, <1>5, <1>6, <1>7, SizeLine
  <1>9. z \in Seq(Nat)
    BY DEF CR, LF
  <1>10. b \in Seq(Nat) /\ w \in Seq(Nat) /\ Len(c) \in Nat /\ Len(b) \in Nat /\ Len(b) >= Len(c) + 2
    BY <1>1, <1>2, <1>5, <1>8
  <1> HIDE DEF e, z, b, w
  <1>11. FirstN(b, Len(c)) = c
    <2>1. Cat(a, e) = Cat(c, Cat(z, e))
      BY <1>8, <1>9, CatRegrouped
    <2>2. Cat(z, e) \in Seq(Nat)
      BY <1>8, <1>9, CatIs
    <2> DEFINE r == Cat(z, e)
    <2>3. r \in Seq(Nat)
      BY <2>2
    <2>4. Cat(b, w) = Cat(c, r)
      BY <2>1, <1>5
    <2> HIDE DEF r
    <2>5. Len(c) <= Len(b)
      BY <1>10
    <2>6. c \in Seq(Nat)
      BY <1>8
    <2>7. b \in Seq(Nat) /\ w \in Seq(Nat)
      BY <1>10
    <2> QED  BY <2>3, <2>4, <2>5, <2>6, <2>7, FrontIs
  <1> HIDE DEF a
  <1>12. /\ Rest(b, Len(a)) \in Seq(Nat) /\ Len(Rest(b, Len(a))) = Len(b) - Len(a)
         /\ Cat(Rest(b, Len(a)), w) = e
    <2>1. Len(a) <= Len(b)
      BY <1>8, <1>10
    <2>2. a \in Seq(Nat)
      BY <1>8
    <2>3. e \in Seq(Nat)
      BY <1>8
    <2>4. b \in Seq(Nat)
      BY <1>10
    <2>5. w \in Seq(Nat)
      BY <1>10
    <2>6. Cat(b, w) = Cat(a, e)
      BY <1>5
    <2> QED  BY <2>1, <2>2, <2>3, <2>4, <2>5, <2>6, RestBefore
  <1> DEFINE r == Rest(b, Len(a))
             q == Len(c)
  <1>13. rx' = [rx EXCEPT !.total = @ + q, !.buf = r, !.need = NoSize] /\ sink' = sink \o c
    <2>1. rx.need = q /\ Len(a) = q + 2
      BY <1>5, <1>8
    <2>2. Dropped(q + 2) = r
      BY <2>1 DEF Dropped, Rest, b
    <2>3. FirstN(rx.buf, rx.need) = c
      BY <2>1, <1>11 DEF b
    <2> QED  BY <2>1, <2>2, <2>3, <1>1
  <1>14. r \in Seq(Nat) /\ Len(r) <= ChunkBuf /\ q \in Nat /\ Cat(r, w) = e
    <2>1. Len(b) <= ChunkBuf /\ ChunkBuf \in Nat
      BY <1>2, Bounds DEF FetchType, b
    <2>2. Len(a) \in Nat
      BY <1>8, <1>10
    <2>3. Len(r) = Len(b) - Len(a)
      BY <1>12
    <2>4. Len(r) <= ChunkBuf
      <3> DEFINE x == Len(r)
                 y == Len(b)
                 v == Len(a)
      <3>1. x = y - v /\ y \in Nat /\ v \in Nat /\ y <= ChunkBuf
        BY <2>1, <2>2, <2>3, <1>10
      <3> HIDE DEF x, y, v
      <3>2. x <= ChunkBuf
        BY <3>1, <2>1
      <3> QED  BY <3>2 DEF x
    <2> QED  BY <2>4, <1>10, <1>12
  <1> HIDE DEF r, q
  <1>15. /\ RxType' /\ rx'.head = rx.head /\ rx'.headDone /\ rx'.data = rx.data /\ rx'.buf = r
         /\ rx'.need = NoSize /\ ~rx'.done /\ rx'.total = rx.total + q
    <2>1. rx.total + q \in Nat /\ NoSize \in {NoSize} \cup Nat
      BY <1>2, <1>14 DEF RxType
    <2> QED  BY <2>1, <1>2, <1>13, <1>14 DEF RxType
  <1>16. /\ sink' \in Seq(Nat) /\ Len(sink') = Len(sink) + Len(c) /\ before' <= Len(sink')
         /\ Written' = Written \o c
    BY <1>1, <1>2, <1>8, <1>13, WrittenGrows
  <1>17. Written' = Cat(Written, c) /\ Written' \in Seq(Nat) /\ Len(Written') = Len(Written) + q
    <2>1. Written' = Cat(Written, c)
      BY <1>16 DEF Cat
    <2>2. Cat(Written, c) \in Seq(Nat) /\ Len(Cat(Written, c)) = Len(Written) + Len(c)
      BY <1>2, <1>8, CatIs
    <2> QED  BY <2>1, <2>2 DEF q
  <1>18. FetchType' /\ Receiving'
    <2>1. Len(rx'.head) < HeaderBuf /\ Len(rx'.buf) <= ChunkBuf /\ Len(rx'.data) < HeaderBuf
      BY <1>2, <1>14, <1>15 DEF FetchType
    <2> QED  BY <1>1, <1>2, <1>15, <1>16, <2>1 DEF FetchType, Receiving
  <1>19. CountInv'
    BY <1>2, <1>15, <1>17 DEF FetchInv, CountInv
  <1>20. Cat(Written', BodyLeft(reply, k + 1)) = Body(reply)
    <2>1. Cat(Cat(Written, c), BodyLeft(reply, k + 1)) = Cat(Written, Cat(c, BodyLeft(reply, k + 1)))
      BY <1>2, <1>8, CatRegrouped
    <2> QED  BY <2>1, <1>5, <1>8, <1>17
  <1>21. Chunked' /\ reply'.kind = "chunked" /\ ChunkCount' = ChunkCount
    BY <1>1, <1>2, <1>3 DEF Chunked, ChunkCount
  <1>22. ChunkInv'
    <2>1. After(k + 1)'
      <3>1. Written' \o BodyLeft(reply', k + 1) = Body(reply')
        BY <1>1, <1>20 DEF Cat
      <3>2. rx'.buf \o wire' = SentLeft(reply', k + 1)
        BY <1>1, <1>14, <1>15 DEF Cat, w, e
      <3>3. NoSize' = NoSize
        OBVIOUS
      <3> QED  BY <3>1, <3>2, <3>3, <1>15 DEF After
    <2>2. \E i \in 0..ChunkCount' : After(i)'
      BY <2>1, <1>6, <1>21
    <2> QED  BY <2>2, <1>1, <1>15, <1>21 DEF ChunkInv
  <1>23. QuietInv' /\ EarlyInv' /\ DoneInv'
    BY <1>1, <1>2 DEF QuietInv, EarlyInv, DoneInv
  <1> QED
    BY <1>1, <1>15, <1>18, <1>19, <1>21, <1>22, <1>23
    DEF FetchInv, HeadInv, PlainInv, GarbledInv, DrainedInv

\* The decoder needs another read.
LEMMA WantsMoreKeeps == ASSUME FetchInv, WantsMore PROVE FetchInv'
  <1>1. /\ at = "decode" /\ (IF SizeKnown THEN ~WholeChunk ELSE LineEnds = {})
        /\ at' = "recv" /\ wire' = wire /\ rx' = rx
        /\ UNCHANGED <<url, history, target, attempt, sni, link, reply, sink, before, early, result>>
    BY DEF WantsMore, Unchanged
  <1>2. /\ FetchType /\ RxType /\ Receiving /\ rx.headDone /\ Chunked /\ ~early /\ ~rx.done
        /\ reply.kind \in {"chunked", "garbled"} /\ reply \in Replies
        /\ reply.kind = "chunked" => \E k \in 0..ChunkCount : After(k)
        /\ reply.kind = "garbled" => rx.need = NoSize /\ Written = <<>> /\ rx.buf \o wire = <<CR, LF>>
    BY <1>1, Decoding
  <1>3. Receiving'
    BY <1>1 DEF Receiving
  <1>4. Written' = Written /\ Chunked' = Chunked /\ ChunkCount' = ChunkCount /\ LineEnds' = LineEnds /\ SizeKnown' = SizeKnown
    BY <1>1 DEF Written, Chunked, ChunkCount, LineEnds, SizeKnown
  <1>5. WholeChunk' = WholeChunk /\ RxType' = RxType
    BY <1>1, <1>4 DEF WholeChunk, RxType
  <1>6. FetchType'
    BY <1>1, <1>2, <1>3, <1>5 DEF FetchType
  <1>7. ChunkInv'
    <2>1. \A k : After(k)' = After(k)
      BY <1>1, <1>4 DEF After
    <2>2. reply'.kind = "chunked" => \E k \in 0..ChunkCount' : After(k)'
      BY <2>1, <1>1, <1>2, <1>4
    <2> HIDE DEF After
    <2> QED  BY <2>2, <1>1, <1>2 DEF ChunkInv
  <1>8. GarbledInv'
    BY <1>1, <1>2, <1>4 DEF GarbledInv
  <1>9. CountInv'
    BY <1>1, <1>2, <1>4 DEF FetchInv, CountInv
  <1>10. DrainedInv'
    BY <1>1, <1>4, <1>5 DEF DrainedInv
  <1>11. QuietInv' /\ EarlyInv' /\ DoneInv'
    BY <1>1, <1>2 DEF QuietInv, EarlyInv, DoneInv
  <1> QED
    BY <1>1, <1>2, <1>4, <1>6, <1>7, <1>8, <1>9, <1>10, <1>11 DEF FetchInv, HeadInv, PlainInv

\* The response is taken for complete.
LEMMA ReceivedKeeps == ASSUME FetchInv, Received PROVE FetchInv'
  <1>1. /\ at = "close" /\ (Chunked => rx.done) /\ link' = "closed" /\ wire' = <<>> /\ at' = "received"
        /\ UNCHANGED <<url, history, target, attempt, sni, reply, rx, sink, before, early, result>>
    BY DEF Received
  <1>2. FetchType /\ RxType /\ Receiving /\ Receiving'
    BY <1>1 DEF FetchInv, FetchType, Receiving
  <1>3. Written' = Written /\ Chunked' = Chunked /\ RxType' = RxType
    BY <1>1 DEF Written, Chunked, RxType
  <1>4. FetchType'
    <2>1. <<>> \in Seq(Nat)
      OBVIOUS
    <2>2. wire' \in Seq(Nat)
      BY <2>1, <1>1
    <2> QED  BY <2>2, <1>1, <1>2, <1>3 DEF FetchType
  <1>5. QuietInv' /\ EarlyInv' /\ DoneInv' /\ DrainedInv'
    BY <1>1, <1>3 DEF QuietInv, EarlyInv, DoneInv, DrainedInv
  <1>6. CountInv' /\ HeadInv'
    BY <1>1, <1>2, <1>3 DEF FetchInv, CountInv, HeadInv
  <1>7. PlainInv' /\ ChunkInv' /\ GarbledInv'
    <2>1. PlainInv /\ ChunkInv /\ GarbledInv
      BY DEF FetchInv
    <2> QED  BY <2>1, <1>1, <1>2, <1>3 DEF PlainInv, ChunkInv, GarbledInv
  <1> QED
    BY <1>4, <1>5, <1>6, <1>7 DEF FetchInv

\* The invariant is inductive.
LEMMA NextKeeps == FetchInv /\ [FetchNext]_fetchVars => FetchInv'
  <1> SUFFICES ASSUME FetchInv, [FetchNext]_fetchVars PROVE FetchInv'
    OBVIOUS
  <1>1. CASE UNCHANGED fetchVars
    BY <1>1, StutterKeeps
  <1>2. CASE RedirectLoop
    BY <1>2, RedirectLoopKeeps
  <1>3. CASE GivesUp \/ Accept \/ Reject
    BY <1>3, EndKeeps
  <1>4. CASE Connect \/ ConnectWithTrustedSni
    BY <1>4, ConnectKeeps
  <1>5. CASE Ask
    BY <1>5, AskKeeps
  <1>6. ASSUME NEW n \in 1..RecvBuf,
               \/ RecvHeader(n) \/ HeaderTooLarge(n) \/ RecvPlain(n) \/ RecvChunked(n) \/ ChunkOverflow(n)
        PROVE  FetchInv'
    <2>1. CASE RecvHeader(n)
      BY <2>1, RecvHeaderKeeps
    <2>2. CASE RecvPlain(n)
      BY <2>2, RecvPlainKeeps
    <2>3. CASE RecvChunked(n)
      BY <2>3, RecvChunkedKeeps
    <2>4. CASE HeaderTooLarge(n) \/ ChunkOverflow(n)
      <3>1. at = "recv" /\ AttemptFails("other")
        BY <2>4 DEF HeaderTooLarge, ChunkOverflow
      <3> QED  BY <3>1, FailKeeps
    <2> QED  BY <1>6, <2>1, <2>2, <2>3, <2>4
  <1>7. CASE RecvIdle
    BY <1>7, RecvIdleKeeps
  <1>8. CASE RecvClosed
    BY <1>8, RecvClosedKeeps
  <1>9. CASE FollowRedirect
    BY <1>9, FollowRedirectKeeps
  <1>10. CASE BodyBegins
    BY <1>10, BodyBeginsKeeps
  <1>11. CASE WriteBody
    BY <1>11, WriteBodyKeeps
  <1>12. CASE ChunkSize
    BY <1>12, ChunkSizeKeeps
  <1>13. CASE WriteChunk
    BY <1>13, WriteChunkKeeps
  <1>14. CASE WantsMore
    BY <1>14, WantsMoreKeeps
  <1>15. CASE Received
    BY <1>15, ReceivedKeeps
  <1>16. CASE \/ ConnectFails \/ AskFails \/ RecvTimeout \/ RecvFails \/ HeadRefused \/ WriteBodyFails
              \/ InvalidSize \/ WriteChunkFails \/ Incomplete
    <2>1. /\ at \in {"connect", "ask", "recv", "head", "write", "decode", "close"}
          /\ \E e : AttemptFails(e)
      BY <1>16 DEF ConnectFails, AskFails, RecvTimeout, RecvFails, HeadRefused, WriteBodyFails,
                   InvalidSize, WriteChunkFails, Incomplete
    <2>2. PICK e : AttemptFails(e)
      BY <2>1
    <2>3. at # "returned" /\ at # "loop"
      BY <2>1
    <2> QED  BY <2>2, <2>3, FailKeeps
  <1>17. CASE Returned
    BY <1>17, StutterKeeps DEF Returned
  <1> QED
    BY <1>1, <1>2, <1>3, <1>4, <1>5, <1>6, <1>7, <1>8, <1>9, <1>10, <1>11, <1>12, <1>13, <1>14, <1>15,
       <1>16, <1>17 DEF FetchNext, Fetch

\* In pkg_http_get_stream, for any servers, sizes of buffers and cuts of the
\* stream: what is written, buffered and on the wire make up the reply.
THEOREM FetchInvariant == FetchSpec => []FetchInv
  BY FetchInitHolds, NextKeeps, PTL DEF FetchSpec

\* The buffers of pkg_http_get_stream never hold more than they can, and the
\* other variables have their types.
THEOREM FetchIsWellTyped == FetchSpec => []TypeOK
  <1>1. FetchInv => TypeOK
    <2> SUFFICES ASSUME FetchType PROVE TypeOK
      BY DEF FetchInv
    <2>1. rx.need \in {NoSize} \cup Nat /\ rx.idle \in 0..(FirstLimit - 1)
      BY DEF FetchType, RxType
    <2>2. before \in 0..Len(sink)
      <3>1. before \in Nat /\ before <= Len(sink) /\ sink \in Seq(Nat)
        BY DEF FetchType
      <3>2. Len(sink) \in Nat
        BY <3>1
      <3> QED  BY <3>1, <3>2
    <2> QED  BY <2>1, <2>2 DEF FetchType, TypeOK
  <1> QED
    BY <1>1, FetchInvariant, PTL

\* While the loop runs, what is written is a prefix of the body.
LEMMA PrefixHere == FetchInv /\ at \in {"recv", "head", "write", "decode", "close"} => IsPrefix(Written, Body(reply))
  <1> SUFFICES ASSUME FetchInv, at \in {"recv", "head", "write", "decode", "close"}
               PROVE  IsPrefix(Written, Body(reply))
    OBVIOUS
  <1>1. FetchType /\ Receiving
    BY DEF FetchInv, Receiving
  <1>2. Written \in Seq(Nat) /\ reply \in Replies /\ Body(reply) \in Seq(Nat) /\ wire \in Seq(Nat)
    BY <1>1, WrittenIs, ReplyIs DEF FetchType
  <1>3. CASE ~rx.headDone
    <2>1. Written = <<>>
      BY <1>1, <1>3 DEF FetchInv, HeadInv
    <2>2. IsPrefix(<<>>, Body(reply))
      BY <1>2 DEF IsPrefix
    <2> QED  BY <2>1, <2>2
  <1>4. CASE rx.headDone /\ ~Chunked
    <2>1. CASE at \in {"recv", "write"}
      <3>1. rx.data \in Seq(Nat) /\ Cat(Cat(Written, rx.data), wire) = Body(reply)
        BY <1>1, <1>4, <2>1 DEF FetchInv, PlainInv, FetchType, RxType, Cat
      <3> DEFINE r == Cat(rx.data, wire)
      <3>2. r \in Seq(Nat) /\ Cat(Cat(Written, rx.data), wire) = Cat(Written, r)
        <4> DEFINE a == Written
                   b == rx.data
                   c == wire
        <4>1. a \in Seq(Nat) /\ b \in Seq(Nat) /\ c \in Seq(Nat)
          BY <3>1, <1>2
        <4> HIDE DEF a, b, c
        <4>2. Cat(b, c) \in Seq(Nat)
          BY <4>1, CatIs
        <4>3. Cat(Cat(a, b), c) = Cat(a, Cat(b, c))
          BY <4>1, CatRegrouped
        <4> QED  BY <4>2, <4>3 DEF a, b, c
      <3> HIDE DEF r
      <3>3. Written \o r = Body(reply)
        BY <3>1, <3>2 DEF Cat
      <3> QED  BY <3>2, <3>3, <1>2, PrefixOf
    <2>2. CASE at \notin {"recv", "write"}
      BY <1>1, <1>4, <2>2 DEF FetchInv, PlainInv
    <2> QED  BY <2>1, <2>2
  <1>5. CASE rx.headDone /\ reply.kind = "chunked"
    <2>1. CASE at \in {"recv", "decode"}
      <3>1. PICK k \in 0..ChunkCount : After(k)
        BY <1>1, <1>5, <2>1 DEF FetchInv, ChunkInv
      <3>2. Written \o BodyLeft(reply, k) = Body(reply)
        BY <3>1 DEF After
      <3>3. BodyLeft(reply, k) \in Seq(Nat)
        BY <1>2, <1>5, LeftTypes
      <3> QED  BY <3>2, <3>3, <1>2, PrefixOf
    <2>2. CASE at \notin {"recv", "decode"}
      BY <1>1, <1>5, <2>2 DEF FetchInv, ChunkInv
    <2> QED  BY <2>1, <2>2
  <1>6. CASE rx.headDone /\ reply.kind = "garbled"
    <2>1. Written = <<>>
      BY <1>1, <1>6 DEF FetchInv, GarbledInv
    <2>2. IsPrefix(<<>>, Body(reply))
      BY <1>2 DEF IsPrefix
    <2> QED  BY <2>1, <2>2
  <1> QED
    BY <1>3, <1>4, <1>5, <1>6 DEF Chunked

\* However the network cuts a response, pkg_http_get_stream hands its body to
\* the writer in order and whole, or does not take it for complete.
THEOREM FetchBodyIsWhole == FetchSpec => []BodyIsWhole
  <1>1. FetchInv => BodyIsWhole
    <2> SUFFICES ASSUME FetchInv PROVE BodyIsWhole
      OBVIOUS
    <2>1. at = "received" => rx.total = Len(Written)
      BY DEF FetchInv, CountInv, Receiving
    <2>2. ASSUME at = "received", Chunked \/ ~early PROVE Written = Body(reply)
      <3>1. Receiving /\ FetchType
        BY <2>2 DEF FetchInv, Receiving
      <3>2. Chunked => rx.done
        BY <2>2 DEF FetchInv, DoneInv
      <3>3. rx.headDone
        BY <3>1, <3>2, <2>2 DEF FetchInv, HeadInv
      <3>4. CASE ~Chunked
        BY <3>1, <3>3, <3>4, <2>2 DEF FetchInv, PlainInv
      <3>5. CASE Chunked
        <4>1. reply.kind = "chunked"
          BY <3>1, <3>2, <3>3, <3>5 DEF FetchInv, GarbledInv, Chunked
        <4> QED  BY <4>1, <3>1, <3>2, <3>3, <3>5, <2>2 DEF FetchInv, ChunkInv
      <3> QED  BY <3>4, <3>5
    <2> QED  BY <2>1, <2>2, PrefixHere DEF BodyIsWhole
  <1> QED
    BY <1>1, FetchInvariant, PTL

\* pkg_http_get_stream refuses a response for its size only if its head or one
\* of its chunks is really too long for a buffer, whatever the pieces.
THEOREM FetchSmallRepliesFit == FetchSpec => []SmallRepliesFit
  <1>1. FetchInv => SmallRepliesFit
    <2> SUFFICES ASSUME FetchInv, NEW n \in 1..RecvBuf, at = "recv", n <= Len(wire)
                 PROVE  /\ ~rx.headDone /\ HeaderFull(n) => reply.head > HeaderBuf - RecvBuf
                        /\ rx.headDone /\ Chunked /\ ChunkFull(n) =>
                               \E i \in DOMAIN reply.chunks : Len(reply.chunks[i]) + 1 > ChunkBuf - RecvBuf
      BY DEF SmallRepliesFit
    <2>1. /\ FetchType /\ RxType /\ Receiving /\ ~early /\ n \in Nat /\ n <= RecvBuf
          /\ reply \in Replies /\ rx.buf \in Seq(Nat) /\ rx.head \in Seq(Nat) /\ wire \in Seq(Nat)
      BY Bounds DEF FetchInv, FetchType, RxType, Receiving, EarlyInv
    <2>2. ASSUME ~rx.headDone, HeaderFull(n) PROVE reply.head > HeaderBuf - RecvBuf
      <3>1. Len(rx.head) < reply.head /\ reply.head \in Nat /\ Len(rx.head) \in Nat
        BY <2>1, <2>2, ReplyIs DEF FetchInv, HeadInv
      <3>2. Len(rx.head) + n >= HeaderBuf
        BY <2>2 DEF HeaderFull
      <3> QED  BY <3>1, <3>2, <2>1, Bounds
    <2>3. ASSUME rx.headDone, Chunked, ChunkFull(n)
          PROVE  \E i \in DOMAIN reply.chunks : Len(reply.chunks[i]) + 1 > ChunkBuf - RecvBuf
      <3>0. Len(rx.buf) \in Nat /\ Len(rx.buf) + n > ChunkBuf
        BY <2>1, <2>3 DEF ChunkFull
      <3>1. IF SizeKnown THEN Len(rx.buf) < rx.need + 2 ELSE LineEnds = {}
        <4>1. IF SizeKnown THEN ~WholeChunk ELSE LineEnds = {}
          BY <2>3 DEF FetchInv, DrainedInv
        <4>2. rx.need \in Nat \/ ~SizeKnown
          BY <2>1 DEF RxType, SizeKnown
        <4> QED  BY <4>1, <4>2, <3>0 DEF WholeChunk
      <3>2. CASE reply.kind = "chunked"
        <4>1. PICK k \in 0..ChunkCount : After(k)
          BY <2>1, <2>3, <3>2 DEF FetchInv, ChunkInv
        <4>2. ChunkCount \in Nat /\ DOMAIN reply.chunks = 1..ChunkCount
          BY <2>1, ReplyIs DEF ChunkCount
        <4>3. CASE SizeKnown
          <5>1. k < ChunkCount /\ rx.need = Len(reply.chunks[k + 1])
            BY <4>1, <4>3 DEF After, SizeKnown
          <5> DEFINE c == reply.chunks[k + 1]
          <5>2. c = reply.chunks[k + 1] /\ k \in Nat
            BY <4>2
          <5> HIDE DEF c
          <5>3. Len(c) \in 1..9
            BY <5>1, <5>2, <2>1, <3>2, SizeLine
          <5>4. Len(c) + 1 > ChunkBuf - RecvBuf
            <6> DEFINE l == Len(c)
                       b == Len(rx.buf)
            <6>1. l \in Nat /\ b \in Nat /\ b < l + 2 /\ b + n > ChunkBuf
              BY <5>1, <5>2, <5>3, <3>0, <3>1, <4>3
            <6> HIDE DEF l, b
            <6>2. l + 1 > ChunkBuf - RecvBuf
              BY <6>1, <2>1, Bounds
            <6> QED  BY <6>2 DEF l
          <5>5. k + 1 \in DOMAIN reply.chunks
            BY <4>2, <5>1
          <5> QED  BY <5>2, <5>4, <5>5
        <4>4. CASE ~SizeKnown
          <5>1. rx.buf \o wire = SentLeft(reply, k)
            BY <4>1, <4>4 DEF After, SizeKnown
          <5>2. \E d \in 48..57, x \in Seq(Nat) : SentLeft(reply, k) = Cat(<<d, CR, LF>>, x)
            <6>1. CASE k = ChunkCount
              <7>1. SentLeft(reply, k) = Cat(<<48, CR, LF>>, <<CR, LF>>)
                BY <6>1, <2>1, <3>2, LastLine
              <7>2. <<CR, LF>> \in Seq(Nat)
                BY DEF CR, LF
              <7> DEFINE z == <<CR, LF>>
              <7>3. z \in Seq(Nat) /\ SentLeft(reply, k) = Cat(<<48, CR, LF>>, z)
                BY <7>1, <7>2
              <7> HIDE DEF z
              <7> QED  BY <7>3
            <6>2. CASE k # ChunkCount
              <7> DEFINE c == reply.chunks[k + 1]
              <7>1. c = reply.chunks[k + 1] /\ k \in Nat /\ k < ChunkCount
                BY <4>2, <6>2
              <7> HIDE DEF c
              <7>2. /\ Len(c) \in 1..9
                    /\ Cat(Cat(c, <<CR, LF>>), SentLeft(reply, k + 1)) \in Seq(Nat)
                    /\ SentLeft(reply, k) = Cat(<<48 + Len(c), CR, LF>>, Cat(Cat(c, <<CR, LF>>), SentLeft(reply, k + 1)))
                BY <7>1, <2>1, <3>2, SizeLine
              <7> DEFINE d == 48 + Len(c)
                         x == Cat(Cat(c, <<CR, LF>>), SentLeft(reply, k + 1))
              <7>3. d \in 48..57
                BY <7>2, DigitOf, Zenon
              <7>4. x \in Seq(Nat) /\ SentLeft(reply, k) = Cat(<<d, CR, LF>>, x)
                BY <7>2
              <7> HIDE DEF d, x
              <7> QED  BY <7>3, <7>4
            <6> QED  BY <6>1, <6>2
          <5>3. PICK d \in 48..57, x \in Seq(Nat) : SentLeft(reply, k) = Cat(<<d, CR, LF>>, x)
            BY <5>2
          <5>4. rx.buf \o wire = <<d, CR, LF>> \o x
            BY <5>1, <5>3 DEF Cat
          <5>5. Len(rx.buf) <= 2
            BY <5>4, <4>4, <3>1, <2>1, LineIs
          <5> QED  BY <5>5, <3>0, <2>1, Bounds
        <4> QED  BY <4>3, <4>4
      <3>3. CASE reply.kind = "garbled"
        <4>1. rx.buf \o wire = <<CR, LF>>
          BY <2>1, <2>3, <3>3 DEF FetchInv, GarbledInv
        <4>2. Len(rx.buf) <= 2
          BY <4>1, <2>1, NoLine
        <4> QED  BY <4>2, <3>0, <2>1, Bounds
      <3> QED  BY <3>2, <3>3, <2>3 DEF Chunked
    <2> QED  BY <2>2, <2>3
  <1> QED
    BY <1>1, FetchInvariant, PTL

----------------------------------------------------------------------------
(* Records one behind the other. *)


\* D says where each of the joined sequences begins.
PlacedIn(D, s, t) ==
    /\ D \in [0..Len(s) -> Nat] /\ D[0] = 0 /\ D[Len(s)] = Len(t)
    /\ \A k \in 0..(Len(s) - 1) : D[k + 1] = D[k] + Len(s[k + 1])
    /\ \A k \in 0..(Len(s) - 1) : \A j \in 1..Len(s[k + 1]) : t[D[k] + j] = s[k + 1][j]

\* Where the parts of a flattened sequence begin.
LEMMA FlattenPlaces ==
    ASSUME NEW S, NEW s \in Seq(Seq(S))
    PROVE  FlattenSeq(s) \in Seq(S) /\ \E D : PlacedIn(D, s, FlattenSeq(s))
  <1> DEFINE L == Len(s)
             t == FlattenSeq(s)
  <1>1. PICK g : Leaves(S, g, s) /\ g[0] = t /\ t \in Seq(S)
    BY FlattenLeaves
  <1>2. /\ L \in Nat /\ \A n \in 1..L : s[n] \in Seq(S) /\ Len(s[n]) \in Nat
    OBVIOUS
  <1>3. /\ g \in [0..L -> Seq(S)] /\ g[L] = <<>>
        /\ \A k \in 0..(L - 1) : g[k] = s[k + 1] \o g[k + 1]
    BY <1>1 DEF Leaves
  <1> HIDE DEF L, t
  <1>4. ASSUME NEW k \in 0..(L - 1)
        PROVE  /\ Len(g[k]) = Len(s[k + 1]) + Len(g[k + 1])
               /\ \A j \in 1..Len(s[k + 1]) : g[k][j] = s[k + 1][j]
               /\ \A j \in 1..Len(g[k + 1]) : g[k][Len(s[k + 1]) + j] = g[k + 1][j]
    <2> DEFINE a == s[k + 1]
               b == g[k + 1]
    <2>0. k + 1 \in 1..L /\ k + 1 \in 0..L
      BY <1>2
    <2>1. a \in Seq(S) /\ b \in Seq(S) /\ g[k] = a \o b
      <3>1. a \in Seq(S)
        BY <2>0, <1>2
      <3>2. b \in Seq(S)
        BY <2>0, <1>3
      <3> QED  BY <3>1, <3>2, <1>3
    <2> HIDE DEF a, b
    <2>2. /\ Len(a \o b) = Len(a) + Len(b)
          /\ \A j \in 1..Len(a) : (a \o b)[j] = a[j]
          /\ \A j \in 1..Len(b) : (a \o b)[Len(a) + j] = b[j]
      BY <2>1
    <2> QED  BY <2>1, <2>2 DEF a, b
  <1>5. \A k \in 0..L : g[k] \in Seq(S) /\ Len(g[k]) \in Nat
    BY <1>3
  <1> DEFINE T == Len(t)
             Fine(k) == /\ Len(g[k]) <= T
                        /\ \A j \in 1..Len(g[k]) : t[(T - Len(g[k])) + j] = g[k][j]
             P == {k \in Nat : k <= L => Fine(k)}
  <1>6. T \in Nat
    BY <1>1
  <1>7. 0 \in P
    <2>1. Len(g[0]) = T /\ T - T = 0 /\ \A j \in 1..T : 0 + j = j
      BY <1>1, <1>6
    <2>2. Fine(0)
      BY <2>1, <1>1, <1>6
    <2> QED  BY <2>2
  <1>8. ASSUME NEW k \in P PROVE k + 1 \in P
    <2>1. k \in Nat /\ k + 1 \in Nat
      OBVIOUS
    <2>2. SUFFICES ASSUME k + 1 <= L PROVE Fine(k + 1)
      BY <2>1
    <2>3. k \in 0..(L - 1) /\ k \in 0..L /\ k + 1 \in 0..L /\ k + 1 \in 1..L
      BY <1>2, <2>1, <2>2
    <2>4. Fine(k)
      <3>1. k <= L
        BY <2>3, <1>2
      <3> HIDE DEF Fine
      <3> QED  BY <3>1
    <2> DEFINE x == Len(g[k])
               y == Len(g[k + 1])
               z == Len(s[k + 1])
    <2>5. x \in Nat /\ y \in Nat /\ z \in Nat /\ x = z + y
      BY <2>3, <1>2, <1>4, <1>5
    <2>6. /\ x <= T /\ \A j \in 1..x : t[(T - x) + j] = g[k][j]
          /\ \A j \in 1..y : g[k][z + j] = g[k + 1][j]
      BY <2>3, <2>4, <1>4
    <2> HIDE DEF x, y, z, T
    <2>7. ASSUME NEW j \in 1..y PROVE t[(T - y) + j] = g[k + 1][j]
      <3>1. z + j \in 1..x /\ (T - x) + (z + j) = (T - y) + j
        BY <2>5, <1>6
      <3>2. t[(T - x) + (z + j)] = g[k][z + j]
        BY <3>1, <2>6, Zenon
      <3> QED  BY <3>1, <3>2, <2>6
    <2>8. y <= T
      BY <2>5, <2>6, <1>6
    <2> QED  BY <2>7, <2>8 DEF y
  <1>9. P = Nat
    <2> HIDE DEF P
    <2>1. P \in SUBSET Nat
      BY DEF P
    <2> QED  BY <2>1, <1>7, <1>8, InductionOnSet, Zenon
  <1>10. \A k \in 0..L : Fine(k)
    <2> HIDE DEF Fine
    <2> QED  BY <1>2, <1>9
  <1> DEFINE D == [k \in 0..L |-> T - Len(g[k])]
  <1>11. D \in [0..L -> Nat] /\ D[0] = 0 /\ D[L] = T
    <2>1. \A k \in 0..L : T - Len(g[k]) \in Nat
      <3> TAKE k \in 0..L
      <3>1. Len(g[k]) <= T /\ Len(g[k]) \in Nat
        BY <1>5, <1>10
      <3> HIDE DEF T
      <3> QED  BY <3>1, <1>6
    <2>2. 0 \in 0..L /\ L \in 0..L /\ Len(g[0]) = T /\ Len(g[L]) = 0
      BY <1>1, <1>2, <1>3
    <2> QED  BY <2>1, <2>2, <1>6
  <1>12. ASSUME NEW k \in 0..(L - 1)
         PROVE  /\ D[k + 1] = D[k] + Len(s[k + 1])
                /\ \A j \in 1..Len(s[k + 1]) : t[D[k] + j] = s[k + 1][j]
    <2>1. k \in 0..L /\ k + 1 \in 0..L /\ k + 1 \in 1..L
      BY <1>2
    <2> DEFINE x == Len(g[k])
               y == Len(g[k + 1])
               z == Len(s[k + 1])
    <2>2. x \in Nat /\ y \in Nat /\ z \in Nat /\ x = z + y
      BY <2>1, <1>2, <1>4, <1>5
    <2>3. D[k] = T - x /\ D[k + 1] = T - y
      BY <2>1
    <2>4. /\ \A j \in 1..x : t[(T - x) + j] = g[k][j]
          /\ \A j \in 1..z : g[k][j] = s[k + 1][j]
      BY <2>1, <1>10, <1>4
    <2> HIDE DEF x, y, z, T, D
    <2>5. D[k + 1] = D[k] + z
      BY <2>2, <2>3, <1>6
    <2>6. \A j \in 1..z : t[D[k] + j] = s[k + 1][j]
      <3> TAKE j \in 1..z
      <3>1. j \in 1..x
        BY <2>2
      <3> QED  BY <3>1, <2>3, <2>4
    <2> QED  BY <2>5, <2>6 DEF z
  <1> HIDE DEF D
  <1>13. PlacedIn(D, s, t)
    BY <1>11, <1>12 DEF PlacedIn, L, T
  <1> QED
    BY <1>1, <1>13 DEF t

\* Joined sequences follow one another, and every element is in one of them.
LEMMA PlacesInOrder ==
    ASSUME NEW S, NEW s \in Seq(Seq(S)), NEW t \in Seq(S), NEW D, PlacedIn(D, s, t)
    PROVE  /\ \A j, k \in 0..Len(s) : j <= k => D[j] <= D[k]
           /\ \A p \in 1..Len(t) : \E k \in 0..(Len(s) - 1) : D[k] < p /\ p <= D[k + 1]
  <1> DEFINE L == Len(s)
  <1>1. /\ D \in [0..L -> Nat] /\ D[0] = 0 /\ D[L] = Len(t)
        /\ \A k \in 0..(L - 1) : D[k + 1] = D[k] + Len(s[k + 1])
    BY DEF PlacedIn
  <1>2. L \in Nat /\ \A k \in 1..L : Len(s[k]) \in Nat
    OBVIOUS
  <1>3. Len(t) \in Nat
    OBVIOUS
  <1> HIDE DEF L
  <1>4. \A k \in 0..L : D[k] \in Nat
    BY <1>1
  <1> DEFINE Up(k) == \A j \in 0..k : D[j] <= D[k]
             In(k) == \A p \in 1..D[k] : \E i \in 0..(k - 1) : D[i] < p /\ p <= D[i + 1]
             P == {k \in Nat : k <= L => Up(k) /\ In(k)}
  <1>5. 0 \in P
    BY <1>1
  <1>6. ASSUME NEW k \in P PROVE k + 1 \in P
    <2>1. k \in Nat /\ k + 1 \in Nat
      OBVIOUS
    <2>2. SUFFICES ASSUME k + 1 <= L PROVE Up(k + 1) /\ In(k + 1)
      BY <2>1
    <2>3. k \in 0..(L - 1) /\ k \in 0..L /\ k + 1 \in 0..L /\ k + 1 \in 1..L
      BY <1>2, <2>1, <2>2
    <2>4. Up(k) /\ In(k)
      BY <2>3
    <2>5. D[k] \in Nat /\ D[k + 1] \in Nat /\ D[k] <= D[k + 1]
      <3>1. Len(s[k + 1]) \in Nat /\ D[k + 1] = D[k] + Len(s[k + 1])
        BY <2>3, <1>1, <1>2
      <3> QED  BY <3>1, <2>3, <1>4
    <2>6. Up(k + 1)
      <3> TAKE j \in 0..(k + 1)
      <3>1. j = k + 1 \/ (j \in 0..k /\ j \in 0..L)
        BY <2>1, <2>3, <1>2
      <3>2. j \in 0..k => D[j] <= D[k]
        BY <2>4
      <3> HIDE DEF P
      <3> QED  BY <3>1, <3>2, <2>5, <1>4
    <2>7. In(k + 1)
      <3> TAKE p \in 1..D[k + 1]
      <3>1. CASE p <= D[k]
        <4>1. p \in 1..D[k]
          BY <3>1, <2>5
        <4>2. PICK i \in 0..(k - 1) : D[i] < p /\ p <= D[i + 1]
          BY <4>1, <2>4
        <4>3. i \in 0..((k + 1) - 1)
          BY <2>1
        <4> QED  BY <4>2, <4>3
      <3>2. CASE p > D[k]
        <4>1. k \in 0..((k + 1) - 1) /\ D[k] < p /\ p <= D[k + 1]
          BY <3>2, <2>1, <2>5
        <4> QED  BY <4>1
      <3> QED  BY <3>1, <3>2, <2>5
    <2> QED  BY <2>6, <2>7
  <1>7. P = Nat
    <2> HIDE DEF P
    <2>1. P \in SUBSET Nat
      BY DEF P
    <2> QED  BY <2>1, <1>5, <1>6, InductionOnSet, Zenon
  <1>8. \A k \in 0..L : Up(k) /\ In(k)
    <2> TAKE k \in 0..L
    <2>1. k \in P /\ k <= L
      <3> HIDE DEF P
      <3> QED  BY <1>2, <1>7
    <2> HIDE DEF Up, In
    <2> QED  BY <2>1
  <1>9. \A j, k \in 0..L : j <= k => D[j] <= D[k]
    <2> SUFFICES ASSUME NEW j \in 0..L, NEW k \in 0..L, j <= k PROVE D[j] <= D[k]
      OBVIOUS
    <2>1. j \in 0..k
      BY <1>2
    <2> QED  BY <2>1, <1>8
  <1>10. \A p \in 1..Len(t) : \E k \in 0..(L - 1) : D[k] < p /\ p <= D[k + 1]
    <2>1. L \in 0..L
      BY <1>2
    <2>2. In(L)
      BY <2>1, <1>8
    <2> QED  BY <2>2, <1>1
  <1> QED
    BY <1>9, <1>10 DEF L

----------------------------------------------------------------------------
(* The units of an archive.                                                *)

MemberCount == Len(archive.members)
Mem(i) == archive.members[i]
UnitsOf(n) == ({"more", "data", "zero", "old", "absent"} \X Nat) \cup ({"header"} \X (1..n))
Units == UnitsOf(MemberCount)

\* Where the records of the members of archive a begin.
RecordsOf(a) == [i \in DOMAIN a.members |-> Recorded(a.members[i], i)]
BeginsOf(a) == CHOOSE D : PlacedIn(D, RecordsOf(a), FlattenSeq(RecordsOf(a)))

\* What is in front of the member after the first k, and how long the rest is.
Upto(k) == BeginsOf(archive)[k]
MarkerUnits == archive.marker * BlockSize

\* What is assumed of the sizes.
LEMMA Sizes ==
    /\ BlockSize \in Nat /\ BlockSize >= 1 /\ IoChunk \in Nat /\ IoChunk >= 1
    /\ Window \in Nat /\ Window >= 1 /\ MaxStored \in Nat /\ MaxCopy \in Nat
    /\ PaxMax \in Nat /\ Dest \in Nat /\ PathMax \in Nat
  BY ExtractAssumption

\* The types of members.
MemberTypes == Entries \cup {"long", "pax", "global", "zero", "broken"}
\* What is assumed of the members.
LEMMA MembersAre ==
    ASSUME archive \in Archives
    PROVE  /\ archive.marker \in Nat /\ MemberCount \in Nat /\ DOMAIN archive.members = 1..MemberCount
           /\ \A i \in 1..MemberCount :
                 /\ Mem(i).type \in MemberTypes
                 /\ Mem(i).name \in Seq(STRING) /\ Mem(i).path \in Seq(STRING)
                 /\ Mem(i).data \in Seq(Nat \ {0}) /\ Len(Mem(i).data) \in Nat
                 /\ Mem(i).type \in Entries => Mem(i).name # NoName
                 /\ Mem(i).path # NoName => Mem(i).type \in {"long", "pax"}
                 /\ Mem(i).type = "long" => Mem(i).path # NoName
                 /\ Mem(i).type = "zero" => i < MemberCount /\ Mem(i + 1).type # "zero"
  <1> DEFINE R == [type : MemberTypes, name : Seq(STRING), data : Seq(Nat \ {0}), path : Seq(STRING)]
             n == MemberCount
  <1>1. archive.marker \in Nat /\ archive.members \in Seq(R)
    BY ArchivesAssumption DEF MemberTypes
  <1>2. \A i \in DOMAIN archive.members :
             /\ Mem(i).type \in Entries => Mem(i).name # NoName
             /\ Mem(i).path # NoName => Mem(i).type \in {"long", "pax"}
             /\ Mem(i).type = "long" => Mem(i).path # NoName
             /\ Mem(i).type = "zero" => i < n /\ Mem(i + 1).type # "zero"
    BY ArchivesAssumption DEF Mem, MemberCount
  <1>3. n \in Nat /\ DOMAIN archive.members = 1..n /\ \A i \in 1..n : Mem(i) \in R
    <2> HIDE DEF R
    <2> QED  BY <1>1 DEF Mem, MemberCount
  <1>4. \A i \in 1..n : /\ Mem(i).type \in MemberTypes
                        /\ Mem(i).name \in Seq(STRING) /\ Mem(i).path \in Seq(STRING)
                        /\ Mem(i).data \in Seq(Nat \ {0})
    BY <1>3
  <1>5. \A i \in 1..n : Len(Mem(i).data) \in Nat
    BY <1>4
  <1> QED
    BY <1>1, <1>2, <1>3, <1>4, <1>5, Zenon

\* What pads a member to whole blocks.
LEMMA PadIs == ASSUME NEW n \in Nat
               PROVE  Pad(n) \in Nat /\ Pad(n) < BlockSize /\ Whole(n) \in Nat /\ Whole(n) = n + Pad(n)
  <1>1. n % BlockSize \in 0..(BlockSize - 1)
    BY Sizes
  <1>2. BlockSize - (n % BlockSize) \in Nat
    BY <1>1, Sizes
  <1>3. Pad(n) \in 0..(BlockSize - 1)
    BY <1>2, Sizes DEF Pad
  <1> QED
    BY <1>3, Sizes DEF Whole

\* A sequence of zeros.
LEMMA ZerosAre == ASSUME NEW n \in Nat
                  PROVE  /\ Zeros(n) \in Seq({Zero}) /\ Len(Zeros(n)) = n
                         /\ \A j \in 1..n : Zeros(n)[j] = Zero
  BY DEF Zeros

\* A function on the first numbers is a sequence.
LEMMA FunctionIs == ASSUME NEW S, NEW n \in Nat, NEW f \in [1..n -> S]
                    PROVE  f \in Seq(S) /\ Len(f) = n
  OBVIOUS

\* Units of different kinds are different.
LEMMA ZeroIsNone == /\ \A i : Zero # <<"header", i>> /\ Zero # <<"more", i>> /\ Zero # <<"data", i>>
                    /\ Junk # Zero
                    /\ \A i, j : /\ <<"header", i>> # <<"more", j>> /\ <<"header", i>> # <<"data", j>>
                                 /\ <<"header", i>> = <<"header", j>> => i = j
                                 /\ <<"data", i>> = <<"data", j>> => i = j
  BY DEF Zero, Junk

\* What a member is recorded as.
RecordLen(m) == IF m.type = "zero" THEN BlockSize ELSE BlockSize + Whole(Len(m.data))
\* A member on the tape: a header block, its data, zeros up to a whole block.
LEMMA RecordIs ==
    ASSUME NEW m, m.data \in Seq(Nat \ {0}), NEW i \in Nat, NEW n \in Nat, i \in 1..n,
           NEW r, r = Recorded(m, i), NEW l, l = Len(m.data)
    PROVE  /\ r \in Seq(UnitsOf(n)) /\ Len(r) = RecordLen(m)
           /\ m.type = "zero" => \A j \in 1..BlockSize : r[j] = Zero
           /\ m.type # "zero" =>
                 /\ r[1] = <<"header", i>>
                 /\ \A j \in 2..BlockSize : r[j] = <<"more", i>>
                 /\ \A j \in 1..l : r[BlockSize + j] = <<"data", m.data[j]>>
                 /\ \A j \in (l + 1)..Whole(l) : r[BlockSize + j] = Zero
  <1> DEFINE U == UnitsOf(n)
  <1>0. /\ Zero \in U /\ <<"header", i>> \in U /\ <<"more", i>> \in U
        /\ \A x \in Nat : <<"data", x>> \in U
    BY DEF UnitsOf, Zero
  <1>1. CASE m.type = "zero"
    <2>1. r = Zeros(BlockSize)
      BY <1>1 DEF Recorded
    <2>2. r \in Seq(U)
      BY <2>1, <1>0, Sizes DEF Zeros
    <2> QED
      BY <2>1, <2>2, <1>1, ZerosAre, Sizes DEF RecordLen
  <1>2. CASE m.type # "zero"
    <2> DEFINE h == <<<<"header", i>>>>
               o == [j \in 1..(BlockSize - 1) |-> <<"more", i>>]
               d == DataOf(m)
               z == Zeros(Pad(l))
    <2>1. r = ((h \o o) \o d) \o z
      BY <1>2 DEF Recorded, Pad
    <2>2. l \in Nat /\ Pad(l) \in Nat /\ Whole(l) \in Nat /\ Whole(l) = l + Pad(l) /\ BlockSize - 1 \in Nat
      <3>1. l \in Nat
        OBVIOUS
      <3>2. BlockSize - 1 \in Nat
        BY Sizes
      <3>3. Pad(l) \in Nat /\ Whole(l) \in Nat /\ Whole(l) = l + Pad(l)
        BY <3>1, PadIs, Zenon
      <3> QED  BY <3>1, <3>2, <3>3
    <2>3. h \in Seq(U) /\ Len(h) = 1 /\ h[1] = <<"header", i>>
      BY <1>0
    <2>4. o \in Seq(U) /\ Len(o) = BlockSize - 1 /\ \A j \in 1..(BlockSize - 1) : o[j] = <<"more", i>>
      <3> DEFINE e == BlockSize - 1
                 v == <<"more", i>>
      <3>1. e \in Nat /\ v \in U /\ o = [j \in 1..e |-> v]
        BY <1>0, <2>2
      <3> HIDE DEF e, v, o, U
      <3>2. o \in Seq(U) /\ Len(o) = e /\ \A j \in 1..e : o[j] = v
        BY <3>1
      <3> QED  BY <3>2 DEF e, v
    <2>5. d \in Seq(U) /\ Len(d) = l /\ \A j \in 1..l : d[j] = <<"data", m.data[j]>>
      <3>1. d = [j \in 1..l |-> <<"data", m.data[j]>>]
        BY DEF DataOf
      <3>2. \A j \in 1..l : m.data[j] \in Nat
        OBVIOUS
      <3>3. \A j \in 1..l : <<"data", m.data[j]>> \in U
        BY <3>2, <1>0, Zenon
      <3>4. d \in [1..l -> U]
        BY <3>1, <3>3
      <3> HIDE DEF U, d
      <3>5. d \in Seq(U) /\ Len(d) = l
        BY <3>4, <2>2, FunctionIs, Zenon
      <3> QED  BY <3>1, <3>5
    <2>6. z \in Seq(U) /\ Len(z) = Pad(l) /\ \A j \in 1..Pad(l) : z[j] = Zero
      BY <1>0, <2>2 DEF Zeros
    <2> HIDE DEF h, o, d, z, U
    <2> DEFINE p == h \o o
               q == p \o d
    <2>7. /\ p \in Seq(U) /\ Len(p) = BlockSize /\ p[1] = <<"header", i>>
          /\ \A j \in 2..BlockSize : p[j] = <<"more", i>>
      <3>0. /\ p \in Seq(U) /\ Len(p) = Len(h) + Len(o)
            /\ \A j \in 1..Len(h) : p[j] = h[j]
            /\ \A j \in (Len(h) + 1)..(Len(h) + Len(o)) : p[j] = o[j - Len(h)]
        <4>1. h \in Seq(U) /\ o \in Seq(U)
          BY <2>3, <2>4
        <4> QED  BY <4>1
      <3> HIDE DEF p
      <3>1. p \in Seq(U) /\ Len(p) = BlockSize /\ p[1] = <<"header", i>>
        BY <3>0, <2>3, <2>4, Sizes
      <3>2. ASSUME NEW j \in 2..BlockSize PROVE p[j] = <<"more", i>>
        <4>1. p[j] = o[j - 1] /\ j - 1 \in 1..(BlockSize - 1)
          BY <3>0, <2>3, <2>4, Sizes
        <4> QED  BY <4>1, <2>4
      <3> QED  BY <3>1, <3>2
    <2> HIDE DEF p
    <2>8. /\ q \in Seq(U) /\ Len(q) = BlockSize + l
          /\ \A j \in 1..BlockSize : q[j] = p[j]
          /\ \A j \in 1..l : q[BlockSize + j] = <<"data", m.data[j]>>
      <3>0. /\ q \in Seq(U) /\ Len(q) = Len(p) + Len(d)
            /\ \A j \in 1..Len(p) : q[j] = p[j]
            /\ \A j \in 1..Len(d) : q[Len(p) + j] = d[j]
        <4>1. p \in Seq(U) /\ d \in Seq(U)
          BY <2>5, <2>7
        <4> QED  BY <4>1
      <3> HIDE DEF q
      <3>1. q \in Seq(U) /\ Len(q) = BlockSize + l /\ \A j \in 1..BlockSize : q[j] = p[j]
        BY <3>0, <2>5, <2>7
      <3>2. ASSUME NEW j \in 1..l PROVE q[BlockSize + j] = <<"data", m.data[j]>>
        <4>1. q[BlockSize + j] = d[j]
          BY <3>0, <2>5, <2>7
        <4> QED  BY <4>1, <2>5
      <3> QED  BY <3>1, <3>2
    <2> HIDE DEF q
    <2>9. /\ r \in Seq(U) /\ Len(r) = BlockSize + Whole(l)
          /\ \A j \in 1..(BlockSize + l) : r[j] = q[j]
          /\ \A j \in (l + 1)..Whole(l) : r[BlockSize + j] = Zero
      <3>1. r = q \o z
        BY <2>1 DEF p, q
      <3>0. /\ r \in Seq(U) /\ Len(r) = Len(q) + Len(z)
            /\ \A j \in 1..Len(q) : r[j] = q[j]
            /\ \A j \in 1..Len(z) : r[Len(q) + j] = z[j]
        <4>1. q \in Seq(U) /\ z \in Seq(U)
          BY <2>6, <2>8
        <4> QED  BY <3>1, <4>1
      <3>2. r \in Seq(U) /\ Len(r) = BlockSize + Whole(l) /\ \A j \in 1..(BlockSize + l) : r[j] = q[j]
        BY <3>0, <2>2, <2>6, <2>8, Sizes
      <3>3. ASSUME NEW j \in (l + 1)..Whole(l) PROVE r[BlockSize + j] = Zero
        <4>1. j - l \in 1..Pad(l) /\ BlockSize + j = (BlockSize + l) + (j - l)
          <5> DEFINE x == Pad(l)
                     w == Whole(l)
          <5>1. l \in Nat /\ x \in Nat /\ w = l + x /\ j \in (l + 1)..w /\ BlockSize \in Nat
            BY <2>2, Sizes
          <5> HIDE DEF x, w
          <5>2. j \in Int /\ l + 1 <= j /\ j <= l + x
            BY <5>1
          <5>4. j - l \in 1..x
            BY <5>1, <5>2
          <5>5. BlockSize + j = (BlockSize + l) + (j - l)
            <6>1. \A e \in Nat, c \in Int, g \in Nat : g + c = (g + e) + (c - e)
              OBVIOUS
            <6> HIDE DEF x
            <6> QED  BY <5>1, <5>2, <6>1, Zenon
          <5> QED  BY <5>4, <5>5 DEF x
        <4>2. r[BlockSize + j] = z[j - l]
          BY <3>0, <4>1, <2>6, <2>8
        <4> QED  BY <4>1, <4>2, <2>6
      <3> QED  BY <3>2, <3>3
    <2>10. \A j \in 1..l : r[BlockSize + j] = <<"data", m.data[j]>>
      <3> TAKE j \in 1..l
      <3>1. BlockSize + j \in 1..(BlockSize + l)
        BY <2>2, Sizes
      <3>2. r[BlockSize + j] = q[BlockSize + j]
        BY <3>1, <2>9, Zenon
      <3> QED  BY <3>2, <2>8
    <2>11. r[1] = <<"header", i>> /\ \A j \in 2..BlockSize : r[j] = <<"more", i>>
      <3>1. 1 \in 1..BlockSize /\ \A j \in 1..BlockSize : j \in 1..(BlockSize + l)
        BY <2>2, Sizes
      <3>2. \A j \in 1..BlockSize : r[j] = p[j]
        BY <3>1, <2>8, <2>9
      <3>3. \A j \in 2..BlockSize : j \in 1..BlockSize
        BY Sizes
      <3> QED  BY <3>1, <3>2, <3>3, <2>7
    <2> QED
      BY <2>9, <2>10, <2>11, <1>2 DEF RecordLen, U
  <1> QED
    BY <1>1, <1>2

\* The tape, member by member, and then the marker.
Content(k) ==
    LET m == Mem(k + 1)
        l == Len(m.data)
    IN  /\ m.type = "zero" => \A j \in 1..BlockSize : Unit(Upto(k) + j) = Zero
        /\ m.type # "zero" =>
              /\ Unit(Upto(k) + 1) = <<"header", k + 1>>
              /\ \A j \in 2..BlockSize : Unit(Upto(k) + j) = <<"more", k + 1>>
              /\ \A j \in 1..l : Unit(Upto(k) + BlockSize + j) = <<"data", m.data[j]>>
              /\ \A j \in (l + 1)..Whole(l) : Unit(Upto(k) + BlockSize + j) = Zero

\* The tape is made of its members, one behind the other, and of the marker.
LEMMA TapeIs ==
    ASSUME archive \in Archives
    PROVE  /\ Tape[archive] \in Seq(Units) /\ MarkerUnits \in Nat
           /\ Length \in Nat /\ Length = Upto(MemberCount) + MarkerUnits
           /\ Upto(0) = 0
           /\ \A k \in 0..MemberCount : Upto(k) \in Nat /\ Upto(k) <= Upto(MemberCount)
           /\ \A j, k \in 0..MemberCount : j <= k => Upto(j) <= Upto(k)
           /\ \A k \in 0..(MemberCount - 1) : Upto(k + 1) = Upto(k) + RecordLen(Mem(k + 1))
           /\ \A k \in 0..(MemberCount - 1) : Content(k)
           /\ \A p \in (Upto(MemberCount) + 1)..Length : Unit(p) = Zero
           /\ \A p \in 1..Length : \/ p > Upto(MemberCount)
                                   \/ \E k \in 0..(MemberCount - 1) : Upto(k) < p /\ p <= Upto(k + 1)
  <1> DEFINE n == MemberCount
             R == RecordsOf(archive)
             F == FlattenSeq(R)
             D == BeginsOf(archive)
             Z == Zeros(MarkerUnits)
             T == Tape[archive]
  <1>1. n \in Nat /\ DOMAIN archive.members = 1..n /\ archive.marker \in Nat
    BY MembersAre
  <1>2. \A i \in 1..n : Mem(i).data \in Seq(Nat \ {0}) /\ Len(Mem(i).data) \in Nat
    BY MembersAre
  <1>3. MarkerUnits \in Nat
    BY <1>1, Sizes DEF MarkerUnits
  <1>4. T = F \o Z
    BY DEF Tape, RecordsOf, MarkerUnits
  <1> HIDE DEF n
  <1>5. R = [i \in 1..n |-> Recorded(Mem(i), i)]
    BY <1>1 DEF RecordsOf, Mem
  <1> HIDE DEF R
  <1>6. \A i \in 1..n : Recorded(Mem(i), i) \in Seq(Units)
    <2> TAKE i \in 1..n
    <2>1. i \in Nat /\ Mem(i).data \in Seq(Nat \ {0})
      BY <1>1, <1>2
    <2> QED  BY <2>1, <1>1, RecordIs DEF Units, n
  <1>7. R \in Seq(Seq(Units)) /\ Len(R) = n /\ \A i \in 1..n : R[i] = Recorded(Mem(i), i)
    BY <1>1, <1>5, <1>6
  <1>8. F \in Seq(Units) /\ PlacedIn(D, R, F)
    <2>1. F \in Seq(Units) /\ \E E : PlacedIn(E, R, F)
      BY <1>7, FlattenPlaces
    <2>2. D = CHOOSE E : PlacedIn(E, R, F)
      BY DEF BeginsOf, R
    <2> QED  BY <2>1, <2>2
  <1>9. Z \in Seq(Units) /\ Len(Z) = MarkerUnits /\ \A j \in 1..MarkerUnits : Z[j] = Zero
    <2>1. Zero \in Units
      BY DEF Units, UnitsOf, Zero
    <2> QED  BY <2>1, <1>3 DEF Zeros
  <1> HIDE DEF F, Z, D, T
  <1>10. /\ D \in [0..n -> Nat] /\ D[0] = 0 /\ D[n] = Len(F)
         /\ \A k \in 0..(n - 1) : D[k + 1] = D[k] + Len(R[k + 1])
         /\ \A k \in 0..(n - 1) : \A j \in 1..Len(R[k + 1]) : F[D[k] + j] = R[k + 1][j]
    BY <1>7, <1>8 DEF PlacedIn
  <1>11. /\ \A j, k \in 0..n : j <= k => D[j] <= D[k]
         /\ \A p \in 1..Len(F) : \E k \in 0..(n - 1) : D[k] < p /\ p <= D[k + 1]
    BY <1>7, <1>8, PlacesInOrder
  <1>12. \A k : Upto(k) = D[k]
    BY DEF Upto, D
  <1>13. /\ T \in Seq(Units) /\ Len(T) = Len(F) + MarkerUnits /\ Len(F) \in Nat
         /\ \A p \in 1..Len(F) : T[p] = F[p]
         /\ \A p \in (Len(F) + 1)..Len(T) : T[p] = Zero
    <2>1. T \in Seq(Units) /\ Len(T) = Len(F) + MarkerUnits /\ Len(F) \in Nat
          /\ \A p \in 1..Len(F) : T[p] = F[p]
      <3>1. F \in Seq(Units) /\ Z \in Seq(Units)
        BY <1>8, <1>9
      <3>2. /\ T \in Seq(Units) /\ Len(T) = Len(F) + Len(Z) /\ Len(F) \in Nat
            /\ \A p \in 1..Len(F) : T[p] = F[p]
        BY <3>1, <1>4
      <3> QED  BY <3>2, <1>9
    <2>2. ASSUME NEW p \in (Len(F) + 1)..Len(T) PROVE T[p] = Zero
      <3>1. p - Len(F) \in 1..MarkerUnits
        BY <2>1, <1>3
      <3>2. T[p] = Z[p - Len(F)]
        <4>1. F \in Seq(Units) /\ Z \in Seq(Units)
          BY <1>8, <1>9
        <4>2. \A j \in 1..Len(Z) : T[Len(F) + j] = Z[j]
          BY <4>1, <1>4
        <4> DEFINE j == p - Len(F)
        <4>3. j \in 1..Len(Z) /\ Len(F) + j = p
          BY <3>1, <2>1, <1>9
        <4> HIDE DEF j
        <4> QED  BY <4>2, <4>3 DEF j
      <3> QED  BY <3>1, <3>2, <1>9
    <2> QED  BY <2>1, <2>2
  <1>14. Length = Len(T) /\ \A p : Unit(p) = T[p]
    BY DEF Length, Unit, T
  <1>15. \A k \in 0..n : D[k] \in Nat /\ D[k] <= D[n]
    <2> TAKE k \in 0..n
    <2>1. n \in 0..n /\ k <= n
      BY <1>1
    <2> QED  BY <2>1, <1>10, <1>11
  <1>16. \A k \in 0..(n - 1) : D[k + 1] = D[k] + RecordLen(Mem(k + 1))
    <2> TAKE k \in 0..(n - 1)
    <2>1. k + 1 \in 1..n /\ k + 1 \in Nat
      BY <1>1
    <2>2. R[k + 1] = Recorded(Mem(k + 1), k + 1) /\ Mem(k + 1).data \in Seq(Nat \ {0})
      BY <2>1, <1>2, <1>7
    <2>3. Len(Recorded(Mem(k + 1), k + 1)) = RecordLen(Mem(k + 1))
      BY <2>1, <2>2, <1>1, RecordIs
    <2> QED  BY <2>2, <2>3, <1>10
  <1>17. ASSUME NEW k \in 0..(n - 1) PROVE Content(k)
    <2> DEFINE m == Mem(k + 1)
               l == Len(m.data)
               r == Recorded(m, k + 1)
    <2>1. k + 1 \in 1..n /\ k + 1 \in Nat /\ k \in 0..n /\ k + 1 \in 0..n
      BY <1>1
    <2>2. R[k + 1] = r /\ m.data \in Seq(Nat \ {0}) /\ l \in Nat
      BY <2>1, <1>2, <1>7
    <2>3. /\ Len(r) = RecordLen(m)
          /\ m.type = "zero" => \A j \in 1..BlockSize : r[j] = Zero
          /\ m.type # "zero" =>
                /\ r[1] = <<"header", k + 1>>
                /\ \A j \in 2..BlockSize : r[j] = <<"more", k + 1>>
                /\ \A j \in 1..l : r[BlockSize + j] = <<"data", m.data[j]>>
                /\ \A j \in (l + 1)..Whole(l) : r[BlockSize + j] = Zero
      <3> DEFINE i == k + 1
      <3>1. i \in Nat /\ i \in 1..n /\ m.data \in Seq(Nat \ {0}) /\ r = Recorded(m, i)
        BY <2>1, <2>2
      <3> HIDE DEF m, i
      <3> DEFINE c == r
                 x == l
      <3>2. c = Recorded(m, i) /\ x = Len(m.data)
        BY <3>1
      <3> HIDE DEF c, x
      <3>3. /\ Len(c) = RecordLen(m)
            /\ m.type = "zero" => \A j \in 1..BlockSize : c[j] = Zero
            /\ m.type # "zero" =>
                  /\ c[1] = <<"header", i>>
                  /\ \A j \in 2..BlockSize : c[j] = <<"more", i>>
                  /\ \A j \in 1..x : c[BlockSize + j] = <<"data", m.data[j]>>
                  /\ \A j \in (x + 1)..Whole(x) : c[BlockSize + j] = Zero
        <4>1. i \in Nat /\ n \in Nat /\ i \in 1..n /\ m.data \in Seq(Nat \ {0})
          BY <3>1, <1>1
        <4> QED  BY <4>1, <3>2, RecordIs, SMTT(20)
      <3> QED  BY <3>3 DEF i, c, x
    <2> HIDE DEF m, l, r
    <2>4. Len(r) \in Nat /\ D[k] \in Nat /\ D[k] + Len(r) <= Len(F) /\ Len(F) \in Nat
      <3>1. D[k] \in Nat /\ D[k + 1] \in Nat /\ D[k + 1] <= D[n] /\ D[k + 1] = D[k] + Len(r)
        BY <2>1, <2>2, <1>10, <1>15
      <3>2. r \in Seq(Units)
        BY <2>1, <1>6 DEF r, m
      <3> QED  BY <3>1, <3>2, <1>10
    <2>5. \A j \in 1..Len(r) : Unit(Upto(k) + j) = r[j]
      <3> TAKE j \in 1..Len(r)
      <3>1. D[k] + j \in 1..Len(F)
        BY <2>4
      <3>2. T[D[k] + j] = F[D[k] + j]
        BY <3>1, <1>13
      <3>3. F[D[k] + j] = r[j]
        BY <2>2, <1>10
      <3> QED  BY <3>2, <3>3, <1>12, <1>14
    <2>6. /\ Whole(l) \in Nat /\ l <= Whole(l) /\ BlockSize \in Nat /\ BlockSize >= 1
          /\ Len(r) = IF m.type = "zero" THEN BlockSize ELSE BlockSize + Whole(l)
      <3>1. Whole(l) \in Nat /\ l <= Whole(l)
        <4>1. Pad(l) \in Nat /\ Whole(l) \in Nat /\ Whole(l) = l + Pad(l)
          BY <2>2, PadIs, Zenon
        <4> QED  BY <4>1, <2>2
      <3> QED  BY <3>1, <2>3, Sizes DEF RecordLen, l
    <2>7. Upto(k) \in Nat
      BY <2>4, <1>12
    <2>8. ASSUME m.type = "zero" PROVE \A j \in 1..BlockSize : Unit(Upto(k) + j) = Zero
      <3>1. Len(r) = BlockSize
        BY <2>6, <2>8
      <3> QED  BY <3>1, <2>3, <2>5, <2>8
    <2>9. ASSUME m.type # "zero"
          PROVE  /\ Unit(Upto(k) + 1) = <<"header", k + 1>>
                 /\ \A j \in 2..BlockSize : Unit(Upto(k) + j) = <<"more", k + 1>>
                 /\ \A j \in 1..l : Unit(Upto(k) + BlockSize + j) = <<"data", m.data[j]>>
                 /\ \A j \in (l + 1)..Whole(l) : Unit(Upto(k) + BlockSize + j) = Zero
      <3>1. Len(r) = BlockSize + Whole(l)
        BY <2>6, <2>9
      <3> DEFINE u == Upto(k)
                 e == Len(r)
                 w == Whole(l)
      <3>2. u \in Nat /\ e \in Nat /\ w \in Nat /\ l \in Nat /\ e = BlockSize + w /\ l <= w
            /\ BlockSize \in Nat /\ BlockSize >= 1
        BY <3>1, <2>2, <2>4, <2>6, <2>7
      <3>3. \A j \in 1..e : Unit(u + j) = r[j]
        BY <2>5
      <3> HIDE DEF u, e, w
      <3>4. 1 \in 1..e /\ (\A j \in 2..BlockSize : j \in 1..e) /\ (\A j \in 1..w : BlockSize + j \in 1..e)
            /\ (\A j \in 1..l : j \in 1..w) /\ (\A j \in (l + 1)..w : j \in 1..w)
        BY <3>2
      <3>5. \A j \in 1..w : (u + BlockSize) + j = u + (BlockSize + j)
        BY <3>2
      <3>6. \A j \in 1..w : Unit((u + BlockSize) + j) = r[BlockSize + j]
        <4> TAKE j \in 1..w
        <4>1. Unit(u + (BlockSize + j)) = r[BlockSize + j]
          BY <3>3, <3>4
        <4> QED  BY <4>1, <3>5
      <3>7. Unit(u + 1) = <<"header", k + 1>> /\ \A j \in 2..BlockSize : Unit(u + j) = <<"more", k + 1>>
        BY <3>3, <3>4, <2>3, <2>9
      <3>8. \A j \in 1..l : Unit((u + BlockSize) + j) = <<"data", m.data[j]>>
        BY <3>4, <3>6, <2>3, <2>9
      <3>9. \A j \in (l + 1)..w : Unit((u + BlockSize) + j) = Zero
        BY <3>4, <3>6, <2>3, <2>9 DEF w
      <3> QED  BY <3>7, <3>8, <3>9 DEF u, w
    <2> QED
      BY <2>8, <2>9 DEF Content, m, l
  <1>18. /\ \A p \in (Upto(n) + 1)..Length : Unit(p) = Zero
         /\ \A p \in 1..Length : p > Upto(n) \/ \E k \in 0..(n - 1) : Upto(k) < p /\ p <= Upto(k + 1)
    <2>1. Upto(n) = Len(F) /\ Length = Len(T)
      BY <1>10, <1>12, <1>14
    <2>2. \A p \in (Upto(n) + 1)..Length : Unit(p) = Zero
      BY <2>1, <1>13, <1>14
    <2>3. ASSUME NEW p \in 1..Length, ~(p > Upto(n))
          PROVE  \E k \in 0..(n - 1) : Upto(k) < p /\ p <= Upto(k + 1)
      <3>1. p \in 1..Len(F)
        BY <2>1, <2>3, <1>13
      <3>2. PICK k \in 0..(n - 1) : D[k] < p /\ p <= D[k + 1]
        BY <3>1, <1>11
      <3> QED  BY <3>2, <1>12
    <2> QED  BY <2>2, <2>3
  <1>19. /\ Length \in Nat /\ Length = Upto(n) + MarkerUnits /\ Upto(0) = 0
         /\ \A k \in 0..n : Upto(k) \in Nat /\ Upto(k) <= Upto(n)
         /\ \A j, k \in 0..n : j <= k => Upto(j) <= Upto(k)
         /\ \A k \in 0..(n - 1) : Upto(k + 1) = Upto(k) + RecordLen(Mem(k + 1))
    <2>1. Length \in Nat /\ Length = Upto(n) + MarkerUnits /\ Upto(0) = 0
      BY <1>3, <1>10, <1>12, <1>13, <1>14
    <2> QED  BY <2>1, <1>11, <1>12, <1>15, <1>16
  <1> QED
    BY <1>3, <1>13, <1>17, <1>18, <1>19 DEF n, T

\* How far a member reaches.
LEMMA MemberReach ==
    ASSUME archive \in Archives, NEW k \in 0..(MemberCount - 1)
    PROVE  /\ MemberCount \in Nat /\ k + 1 \in 1..MemberCount /\ k \in 0..MemberCount /\ k + 1 \in 0..MemberCount
           /\ Upto(k) \in Nat /\ Upto(k + 1) \in Nat /\ Upto(k + 1) <= Upto(MemberCount)
           /\ Upto(k) + BlockSize <= Upto(k + 1)
           /\ Len(Mem(k + 1).data) \in Nat
           /\ Mem(k + 1).type = "zero" => Upto(k + 1) = Upto(k) + BlockSize
           /\ Mem(k + 1).type # "zero" =>
                  /\ Upto(k + 1) = Upto(k) + BlockSize + Whole(Len(Mem(k + 1).data))
                  /\ Whole(Len(Mem(k + 1).data)) \in Nat
                  /\ Len(Mem(k + 1).data) <= Whole(Len(Mem(k + 1).data))
                  /\ Whole(Len(Mem(k + 1).data)) < Len(Mem(k + 1).data) + BlockSize
  <1> DEFINE l == Len(Mem(k + 1).data)
  <1>1. /\ MemberCount \in Nat /\ k + 1 \in 1..MemberCount /\ k \in 0..MemberCount /\ k + 1 \in 0..MemberCount
    BY MembersAre
  <1>2. l \in Nat
    BY <1>1, MembersAre
  <1>3. Upto(k) \in Nat /\ Upto(k + 1) \in Nat /\ Upto(k + 1) <= Upto(MemberCount)
    BY <1>1, TapeIs
  <1>4. Upto(k + 1) = Upto(k) + RecordLen(Mem(k + 1))
    BY TapeIs
  <1> HIDE DEF l
  <1>5. Pad(l) \in Nat /\ Pad(l) < BlockSize /\ Whole(l) \in Nat /\ Whole(l) = l + Pad(l)
    BY <1>2, PadIs
  <1>6. l <= Whole(l) /\ Whole(l) < l + BlockSize
    BY <1>2, <1>5, Sizes
  <1>7. RecordLen(Mem(k + 1)) = IF Mem(k + 1).type = "zero" THEN BlockSize ELSE BlockSize + Whole(l)
    BY DEF RecordLen, l
  <1>8. Mem(k + 1).type = "zero" => Upto(k + 1) = Upto(k) + BlockSize
    BY <1>4, <1>7
  <1>9. Mem(k + 1).type # "zero" => Upto(k + 1) = Upto(k) + (BlockSize + Whole(l))
    BY <1>4, <1>7
  <1> DEFINE u == Upto(k)
             v == Upto(k + 1)
             w == Whole(l)
  <1>10. u \in Nat /\ v \in Nat /\ w \in Nat /\ BlockSize \in Nat
    BY <1>3, <1>5, Sizes
  <1> HIDE DEF u, v, w
  <1>11. v = u + (BlockSize + w) => v = u + BlockSize + w
    BY <1>10
  <1>12. v = u + (BlockSize + w) \/ v = u + BlockSize => u + BlockSize <= v
    BY <1>10
  <1>13. Upto(k) + BlockSize <= Upto(k + 1)
    BY <1>8, <1>9, <1>12 DEF u, v, w
  <1>14. Mem(k + 1).type # "zero" => Upto(k + 1) = Upto(k) + BlockSize + Whole(l)
    BY <1>9, <1>11 DEF u, v, w
  <1> QED
    BY <1>1, <1>2, <1>3, <1>5, <1>6, <1>8, <1>13, <1>14 DEF l

\* What unit p of member k + 1 is.
UnitIs(k, p) ==
    LET m == Mem(k + 1)
        e == Upto(k) + BlockSize + Len(m.data)
    IN  \/ m.type = "zero" /\ Unit(p) = Zero
        \/ /\ m.type # "zero"
           /\ \/ p = Upto(k) + 1 /\ Unit(p) = <<"header", k + 1>>
              \/ p > Upto(k) + 1 /\ p <= e - Len(m.data) /\ Unit(p) = <<"more", k + 1>>
              \/ p <= e /\ \E x \in Nat \ {0} : Unit(p) = <<"data", x>>
              \/ p > e /\ Unit(p) = Zero

\* Each unit of a member is one of these.
LEMMA UnitOfMember ==
    ASSUME archive \in Archives, NEW k \in 0..(MemberCount - 1),
           NEW p \in Nat, Upto(k) < p, p <= Upto(k + 1)
    PROVE  UnitIs(k, p)
  <1> DEFINE m == Mem(k + 1)
             l == Len(m.data)
             u == Upto(k)
             w == Whole(l)
             j == p - u
             i == p - (u + BlockSize)
  <1>1. u \in Nat /\ l \in Nat /\ BlockSize \in Nat /\ BlockSize >= 1
    BY MemberReach, Sizes
  <1>2. /\ m.type = "zero" => Upto(k + 1) = u + BlockSize
        /\ m.type # "zero" => Upto(k + 1) = u + BlockSize + w /\ w \in Nat /\ l <= w
    BY MemberReach
  <1>3. Content(k)
    BY TapeIs
  <1>4. m.data \in Seq(Nat \ {0})
    BY MemberReach, MembersAre
  <1> HIDE DEF m, l, u, w
  <1>5. j \in Nat /\ u + j = p /\ j >= 1 /\ i \in Int /\ (u + BlockSize) + i = p
    <2>1. u < p
      BY DEF u
    <2> QED  BY <2>1, <1>1
  <1> HIDE DEF i, j
  <1>6. CASE m.type = "zero"
    <2>1. j \in 1..BlockSize
      <3>1. p <= u + BlockSize
        BY <1>2, <1>6
      <3> QED  BY <3>1, <1>1, <1>5
    <2>2. \A x \in 1..BlockSize : Unit(u + x) = Zero
      BY <1>3, <1>6 DEF Content, m, u
    <2>3. Unit(p) = Zero
      BY <2>1, <2>2, <1>5
    <2> QED  BY <2>3, <1>6 DEF UnitIs, m
  <1>7. CASE m.type # "zero"
    <2>1. p <= u + BlockSize + w /\ w \in Nat /\ l <= w
      BY <1>2, <1>7
    <2>2. /\ Unit(u + 1) = <<"header", k + 1>>
          /\ \A x \in 2..BlockSize : Unit(u + x) = <<"more", k + 1>>
          /\ \A x \in 1..l : Unit(u + BlockSize + x) = <<"data", m.data[x]>>
          /\ \A x \in (l + 1)..w : Unit(u + BlockSize + x) = Zero
      BY <1>3, <1>7 DEF Content, m, u, l, w
    <2>3. /\ j = 1 \/ j \in 2..BlockSize \/ i \in 1..l \/ i \in (l + 1)..w
          /\ j \in 2..BlockSize => p > u + 1 /\ p <= u + BlockSize
          /\ i \in 1..l => p <= u + BlockSize + l
          /\ i \in (l + 1)..w => p > u + BlockSize + l
      <3>1. j = BlockSize + i
        BY <1>1, <1>5
      <3> QED  BY <3>1, <2>1, <1>1, <1>5
    <2>4. (u + BlockSize + l) - l = u + BlockSize
      BY <1>1
    <2>5. CASE j = 1
      BY <2>5, <2>2, <1>5, <1>7 DEF UnitIs, m, u
    <2>6. CASE j \in 2..BlockSize
      <3>1. Unit(p) = <<"more", k + 1>> /\ p > u + 1 /\ p <= (u + BlockSize + l) - l
        BY <2>6, <2>2, <2>3, <2>4, <1>5
      <3> QED  BY <3>1, <1>7 DEF UnitIs, m, u, l
    <2>7. CASE i \in 1..l
      <3>1. m.data[i] \in Nat \ {0}
        BY <2>7, <1>4 DEF l
      <3>2. Unit(p) = <<"data", m.data[i]>>
        BY <2>7, <2>2, <1>5
      <3>3. p <= u + BlockSize + l
        BY <2>7, <2>3
      <3> QED  BY <3>1, <3>2, <3>3, <1>7 DEF UnitIs, m, u, l
    <2>8. CASE i \in (l + 1)..w
      <3>1. Unit(p) = Zero /\ p > u + BlockSize + l
        BY <2>8, <2>2, <2>3, <1>5
      <3> QED  BY <3>1, <1>7 DEF UnitIs, m, u, l
    <2> QED
      BY <2>3, <2>5, <2>6, <2>7, <2>8
  <1> QED
    BY <1>6, <1>7

\* Every unit is in a member or in the marker.
LEMMA UnitSomewhere ==
    ASSUME archive \in Archives, NEW p \in 1..Length
    PROVE  \/ p > Upto(MemberCount) /\ Unit(p) = Zero
           \/ \E k \in 0..(MemberCount - 1) : Upto(k) < p /\ p <= Upto(k + 1) /\ UnitIs(k, p)
  <1>1. Length \in Nat /\ MemberCount \in Nat /\ Upto(MemberCount) \in Nat
    <2>1. MemberCount \in Nat
      BY MembersAre
    <2> QED  BY <2>1, TapeIs
  <1>2. CASE p > Upto(MemberCount)
    <2>1. p \in (Upto(MemberCount) + 1)..Length
      BY <1>1, <1>2
    <2>2. Unit(p) = Zero
      BY <2>1, TapeIs
    <2> QED  BY <2>2, <1>2
  <1>3. CASE ~(p > Upto(MemberCount))
    <2>1. PICK k \in 0..(MemberCount - 1) : Upto(k) < p /\ p <= Upto(k + 1)
      BY <1>3, TapeIs
    <2>2. p \in Nat
      BY <1>1
    <2>3. UnitIs(k, p)
      BY <2>1, <2>2, UnitOfMember
    <2> QED  BY <2>1, <2>3
  <1> QED
    BY <1>2, <1>3

\* A header is at the beginning of its member, and nowhere else.
LEMMA HeaderAt ==
    ASSUME archive \in Archives, NEW p \in 1..Length, NEW i, Unit(p) = <<"header", i>>
    PROVE  /\ i \in 1..MemberCount /\ Mem(i).type # "zero" /\ p = Upto(i - 1) + 1
  <1>1. \A k : Zero # <<"header", k>> /\ \A j : <<"header", k>> # <<"more", j>> /\ <<"header", k>> # <<"data", j>>
    BY ZeroIsNone
  <1>2. PICK k \in 0..(MemberCount - 1) : UnitIs(k, p)
    BY <1>1, UnitSomewhere
  <1>3. Mem(k + 1).type # "zero" /\ p = Upto(k) + 1 /\ <<"header", i>> = <<"header", k + 1>>
    BY <1>1, <1>2 DEF UnitIs
  <1>4. i = k + 1
    BY <1>3
  <1>5. k + 1 \in 1..MemberCount /\ (k + 1) - 1 = k
    BY MembersAre
  <1> QED
    BY <1>3, <1>4, <1>5

\* What a member, or the marker, begins with.
Begins(u) == u = Zero \/ u[1] = "header"
\* What is behind the first k members begins with a header or a zero.
LEMMA FirstIs ==
    ASSUME archive \in Archives, NEW k \in 0..MemberCount, Upto(k) < Length
    PROVE  /\ Begins(Unit(Upto(k) + 1))
           /\ Unit(Upto(k) + 1) = Zero => k = MemberCount \/ Mem(k + 1).type = "zero"
  <1>1. MemberCount \in Nat /\ Upto(k) \in Nat /\ Length \in Nat
    <2>1. MemberCount \in Nat
      BY MembersAre
    <2> QED  BY <2>1, TapeIs
  <1>2. CASE k = MemberCount
    <2>1. Upto(k) + 1 \in (Upto(MemberCount) + 1)..Length
      BY <1>1, <1>2
    <2>2. Unit(Upto(k) + 1) = Zero
      BY <2>1, TapeIs
    <2> QED  BY <2>2, <1>2 DEF Begins
  <1>3. CASE k # MemberCount
    <2>1. k \in 0..(MemberCount - 1)
      BY <1>1, <1>3
    <2>2. Content(k)
      BY <2>1, TapeIs
    <2>3. CASE Mem(k + 1).type = "zero"
      <3>1. 1 \in 1..BlockSize
        BY Sizes
      <3>2. Unit(Upto(k) + 1) = Zero
        BY <2>2, <2>3, <3>1 DEF Content
      <3> QED  BY <3>2, <2>3 DEF Begins
    <2>4. CASE Mem(k + 1).type # "zero"
      <3>1. Unit(Upto(k) + 1) = <<"header", k + 1>>
        BY <2>2, <2>4 DEF Content
      <3> QED  BY <3>1, ZeroIsNone DEF Begins
    <2> QED  BY <2>3, <2>4
  <1> QED
    BY <1>2, <1>3

\* Behind a zero there is another, or a header.
LEMMA AfterZero ==
    ASSUME archive \in Archives, NEW p \in 1..Length, p + 1 <= Length, Unit(p) = Zero
    PROVE  Begins(Unit(p + 1))
  <1>0. MemberCount \in Nat /\ Upto(MemberCount) \in Nat /\ Length \in Nat /\ p \in Nat
    <2>1. MemberCount \in Nat
      BY MembersAre
    <2>2. Upto(MemberCount) \in Nat /\ Length \in Nat
      BY <2>1, TapeIs
    <2> QED  BY <2>1, <2>2
  <1>1. CASE p > Upto(MemberCount)
    <2>1. p + 1 \in (Upto(MemberCount) + 1)..Length
      BY <1>0, <1>1
    <2> QED  BY <2>1, TapeIs DEF Begins
  <1>2. CASE ~(p > Upto(MemberCount))
    <2>1. PICK k \in 0..(MemberCount - 1) : Upto(k) < p /\ p <= Upto(k + 1) /\ UnitIs(k, p)
      BY <1>2, UnitSomewhere
    <2> DEFINE u == Upto(k)
               v == Upto(k + 1)
               l == Len(Mem(k + 1).data)
               e == u + BlockSize + l
    <2>2. u \in Nat /\ v \in Nat /\ k + 1 \in 0..MemberCount /\ l \in Nat /\ e \in Nat
      BY MemberReach, Sizes
    <2>3. CASE p = v
      <3>1. Upto(k + 1) < Length
        BY <2>2, <2>3, <1>0
      <3>2. Begins(Unit(Upto(k + 1) + 1))
        BY <2>2, <3>1, FirstIs
      <3> QED  BY <3>2, <2>3
    <2>4. CASE p < v
      <3>1. p + 1 \in Nat /\ Upto(k) < p + 1 /\ p + 1 <= Upto(k + 1)
        BY <2>1, <2>2, <2>4, <1>0
      <3>2. UnitIs(k, p + 1)
        BY <3>1, UnitOfMember
      <3>3. \/ Mem(k + 1).type = "zero"
            \/ Mem(k + 1).type # "zero" /\ p > e
        BY <2>1, ZeroIsNone DEF UnitIs
      <3> HIDE DEF e
      <3>4. CASE Mem(k + 1).type = "zero"
        BY <3>2, <3>4 DEF UnitIs, Begins
      <3>5. CASE Mem(k + 1).type # "zero" /\ p > e
        <4>1. ~(p + 1 = u + 1) /\ ~(p + 1 <= e) /\ ~(p + 1 <= e - l)
          BY <3>5, <2>2, <1>0, Sizes DEF e
        <4>2. Unit(p + 1) = Zero
          BY <4>1, <3>2, <3>5 DEF UnitIs, e
        <4> QED  BY <4>2 DEF Begins
      <3> QED  BY <3>3, <3>4, <3>5
    <2> QED  BY <2>1, <2>2, <2>3, <2>4, <1>0
  <1> QED
    BY <1>1, <1>2

\* And so does the tape.
LEMMA FirstUnitIs == ASSUME archive \in Archives, 1 <= Length PROVE Begins(Unit(1))
  <1>1. Upto(0) = 0 /\ 0 \in 0..MemberCount
    BY TapeIs, MembersAre
  <1>2. Upto(0) < Length
    BY <1>1, TapeIs
  <1>3. Begins(Unit(Upto(0) + 1))
    BY <1>1, <1>2, FirstIs
  <1> QED
    BY <1>1, <1>3

\* How long the marker is.
LEMMA MarkerIs ==
    ASSUME archive \in Archives
    PROVE  /\ MarkerUnits \in Nat /\ archive.marker \in Nat
           /\ archive.marker = 0 => MarkerUnits = 0
           /\ archive.marker <= 1 => MarkerUnits <= BlockSize
           /\ archive.marker >= 1 => MarkerUnits >= BlockSize
           /\ MarkerUnits > 0 => archive.marker >= 1
           /\ archive.marker = 1 => MarkerUnits = BlockSize
           /\ archive.marker >= 2 => MarkerUnits >= BlockSize + BlockSize
  <1> DEFINE n == archive.marker
  <1>1. n \in Nat /\ BlockSize \in Nat /\ BlockSize >= 1
    BY MembersAre, Sizes
  <1>2. MarkerUnits = n * BlockSize /\ MarkerUnits \in Nat
    BY TapeIs DEF MarkerUnits
  <1> HIDE DEF n
  <1>3. n = 0 => n * BlockSize = 0
    BY <1>1
  <1>4. n = 1 => n * BlockSize = BlockSize
    BY <1>1
  <1>5. n >= 2 => n * BlockSize >= BlockSize + BlockSize
    <2>1. SUFFICES ASSUME n >= 2 PROVE n * BlockSize >= BlockSize + BlockSize
      OBVIOUS
    <2> DEFINE m == n - 2
    <2>2. m \in Nat /\ n = m + 2
      BY <1>1, <2>1
    <2> HIDE DEF m
    <2>3. m * BlockSize \in Nat
      BY <1>1, <2>2
    <2>4. (m + 2) * BlockSize = m * BlockSize + (BlockSize + BlockSize)
      BY <1>1, <2>2
    <2> QED  BY <2>2, <2>3, <2>4, <1>1
  <1>6. n = 0 \/ n = 1 \/ n >= 2
    BY <1>1
  <1>7. /\ n = 0 => MarkerUnits = 0
        /\ n = 1 => MarkerUnits = BlockSize
        /\ n >= 2 => MarkerUnits >= BlockSize + BlockSize
    BY <1>2, <1>3, <1>4, <1>5
  <1> HIDE DEF MarkerUnits
  <1> QED
    BY <1>1, <1>2, <1>6, <1>7 DEF n

\* With one zero block at most at the end there are no two blocks of zeros.
LEMMA NoRun ==
    ASSUME archive \in Archives, archive.marker <= 1,
           NEW q \in Nat, q + 2 * BlockSize <= Length,
           \A j \in 1..(2 * BlockSize) : Unit(q + j) = Zero
    PROVE  FALSE
  <1> DEFINE N == MemberCount
             M == MarkerUnits
             e == Upto(N)
             B == BlockSize
  <1>1. /\ N \in Nat /\ e \in Nat /\ M \in Nat /\ M <= B /\ B \in Nat /\ B >= 1
        /\ Length \in Nat /\ Length = e + M
    <2>1. N \in Nat
      BY MembersAre
    <2> QED  BY <2>1, TapeIs, MarkerIs, Sizes
  <1> HIDE DEF N, M, e, B
  <1>2. q + B + B <= Length /\ \A p \in Nat : q < p /\ p <= q + B + B => p \in 1..Length /\ Unit(p) = Zero
    <2>1. q + B + B <= Length
      BY <1>1 DEF B
    <2>2. ASSUME NEW p \in Nat, q < p, p <= q + B + B PROVE p \in 1..Length /\ Unit(p) = Zero
      <3> DEFINE j == p - q
      <3>1. j \in 1..(2 * B) /\ q + j = p
        BY <2>2, <1>1
      <3> HIDE DEF j
      <3>2. Unit(q + j) = Zero
        BY <3>1 DEF B
      <3> QED  BY <3>1, <3>2, <2>1, <2>2, <1>1
    <2> QED  BY <2>1, <2>2
  <1>3. q + 1 \in 1..Length /\ Unit(q + 1) = Zero
    <2>1. q + 1 \in Nat /\ q < q + 1 /\ q + 1 <= q + B + B
      BY <1>1
    <2> QED  BY <2>1, <1>2, Zenon
  <1>4. q < e
    BY <1>1, <1>2
  <1>5. PICK k \in 0..(N - 1) : Upto(k) < q + 1 /\ q + 1 <= Upto(k + 1) /\ UnitIs(k, q + 1)
    <2>1. ~(q + 1 > e)
      BY <1>1, <1>4
    <2> QED  BY <2>1, <1>3, UnitSomewhere DEF N, e
  <1> DEFINE u == Upto(k)
             v == Upto(k + 1)
             l == Len(Mem(k + 1).data)
             w == Whole(l)
  <1>6. /\ k + 1 \in 0..N /\ k + 1 \in 1..N /\ u \in Nat /\ v \in Nat /\ v <= e /\ l \in Nat
        /\ Mem(k + 1).type = "zero" => v = u + B
        /\ Mem(k + 1).type # "zero" => v = u + B + w /\ w \in Nat /\ w < l + B
    BY MemberReach DEF N, e, B
  <1>7. q < v /\ u <= q
    BY <1>5, <1>6
  <1>8. Mem(k + 1).type # "zero" => q + 1 > u + B + l
    BY <1>3, <1>5, ZeroIsNone DEF UnitIs, B
  <1> HIDE DEF u, v, l, w
  <1>9. v <= q + B /\ (Mem(k + 1).type # "zero" => v < q + B)
    BY <1>1, <1>6, <1>7, <1>8
  <1>10. v < Length /\ Unit(v + 1) = Zero /\ v + 1 \in Nat
    <2>1. v + 1 \in Nat /\ q < v + 1 /\ v + 1 <= q + B + B
      BY <1>1, <1>6, <1>7, <1>9
    <2>2. v + 1 \in 1..Length /\ Unit(v + 1) = Zero
      BY <2>1, <1>2
    <2> QED  BY <2>1, <2>2, <1>1, <1>6
  <1>11. k + 1 = N \/ Mem((k + 1) + 1).type = "zero"
    <2>1. k + 1 \in 0..MemberCount /\ Upto(k + 1) < Length /\ Unit(Upto(k + 1) + 1) = Zero
      BY <1>6, <1>10 DEF N, v
    <2> DEFINE i == k + 1
    <2>2. i \in 0..MemberCount /\ Upto(i) < Length /\ Unit(Upto(i) + 1) = Zero
      BY <2>1
    <2> HIDE DEF i
    <2>3. i = MemberCount \/ Mem(i + 1).type = "zero"
      BY <2>2, FirstIs
    <2> QED  BY <2>3 DEF i, N
  <1>12. CASE k + 1 = N
    <2>1. v = e
      BY <1>12 DEF v, e
    <2>2. v = q + B /\ Mem(k + 1).type = "zero"
      BY <2>1, <1>1, <1>2, <1>9
    <2>3. k + 1 < N
      BY <2>2, <1>6, MembersAre DEF N
    <2> QED  BY <2>3, <1>12, <1>1
  <1>13. CASE k + 1 # N /\ Mem((k + 1) + 1).type = "zero"
    <2> DEFINE i == k + 1
    <2>1. i \in 0..(N - 1) /\ i \in 1..N /\ i + 1 \in 1..N /\ i \in Nat /\ Mem(i + 1).type = "zero"
      BY <1>1, <1>6, <1>13
    <2>2. Mem(i).type # "zero"
      <3> HIDE DEF i
      <3>1. Mem(i).type = "zero" => Mem(i + 1).type # "zero"
        BY <2>1, MembersAre DEF N
      <3> QED  BY <3>1, <2>1
    <2>3. v < q + B
      BY <2>2, <1>9
    <2> DEFINE x == Upto(i + 1)
    <2> HIDE DEF i, x
    <2>4. x = v + B /\ x \in Nat /\ i + 1 \in 0..N
      <3>1. Upto(i + 1) = Upto(i) + BlockSize /\ Upto(i + 1) \in Nat /\ i + 1 \in 0..MemberCount
        BY <2>1, MemberReach DEF N
      <3> QED  BY <3>1 DEF x, v, B, N, i
    <2>5. x < Length /\ Unit(x + 1) = Zero
      <3>1. x + 1 \in Nat /\ q < x + 1 /\ x + 1 <= q + B + B
        BY <2>3, <2>4, <1>1, <1>6, <1>7
      <3>2. x + 1 \in 1..Length /\ Unit(x + 1) = Zero
        BY <3>1, <1>2
      <3> QED  BY <3>2, <2>4, <1>1
    <2> DEFINE j == i + 1
    <2>6. j \in 0..MemberCount /\ j \in 1..MemberCount /\ Upto(j) < Length /\ Unit(Upto(j) + 1) = Zero /\ Mem(j).type = "zero"
      BY <2>1, <2>4, <2>5 DEF x, N
    <2> HIDE DEF j
    <2>7. j = MemberCount \/ Mem(j + 1).type = "zero"
      BY <2>6, FirstIs
    <2>8. j < MemberCount /\ Mem(j + 1).type # "zero"
      BY <2>6, MembersAre
    <2> QED  BY <2>7, <2>8, <1>1 DEF N
  <1> QED
    BY <1>11, <1>12, <1>13

----------------------------------------------------------------------------
(* Numbers. *)

\* The lesser of two numbers.
LEMMA LesserIs == ASSUME NEW x \in Nat, NEW y \in Nat
                  PROVE  /\ Min({x, y}) \in {x, y} /\ Min({x, y}) \in Nat
                         /\ Min({x, y}) <= x /\ Min({x, y}) <= y
  <1> DEFINE S == {x, y}
             c == CHOOSE z \in S : \A t \in S : z <= t
  <1>1. Min(S) = c
    BY DEF Min
  <1>2. \E z \in S : \A t \in S : z <= t
    <2>1. x <= y \/ y <= x
      OBVIOUS
    <2>2. x <= x /\ y <= y
      OBVIOUS
    <2> QED  BY <2>1, <2>2
  <1>3. c \in S /\ \A t \in S : c <= t
    <2> HIDE DEF S
    <2> QED  BY <1>2
  <1> HIDE DEF c
  <1> QED
    BY <1>1, <1>3

\* The last of some members.
LEMMA LastOf == ASSUME NEW n \in Nat, NEW S \in SUBSET (1..n), S # {}
                PROVE  Max(S) \in S /\ \A x \in S : x <= Max(S)
  <1> DEFINE T == {n - x : x \in S}
  <1>1. T \in SUBSET Nat /\ T # {}
    <2>1. \A x \in S : n - x \in Nat
      OBVIOUS
    <2> QED  BY <2>1
  <1>2. PICK m \in T : \A y \in T : m <= y
    <2> HIDE DEF T
    <2> QED  BY <1>1, LeastNumber
  <1>3. PICK z \in S : m = n - z
    OBVIOUS
  <1>4. \A x \in S : x <= z
    <2> TAKE x \in S
    <2>1. n - z <= n - x
      BY <1>2, <1>3
    <2> QED  BY <2>1
  <1> DEFINE c == CHOOSE a \in S : \A b \in S : a >= b
  <1>5. \A b \in S : z >= b
    BY <1>4
  <1>6. c \in S /\ \A b \in S : c >= b
    <2>1. \E a \in S : \A b \in S : a >= b
      BY <1>5
    <2> QED  BY <2>1
  <1> HIDE DEF c
  <1>7. \A x \in S : x <= c
    BY <1>6
  <1> QED
    BY <1>6, <1>7 DEF Max, c

\* The largest number of a set is the one that is not less than the others.
LEMMA LastIsLargest == ASSUME NEW n \in Nat, NEW S \in SUBSET (1..n), NEW x \in S, \A y \in S : y <= x
                PROVE  Max(S) = x
  <1>1. Max(S) \in S /\ x <= Max(S)
    BY LastOf
  <1> DEFINE m == Max(S)
  <1>2. m \in S /\ x <= m
    BY <1>1
  <1> HIDE DEF m
  <1>3. m <= x /\ m \in Nat /\ x \in Nat
    BY <1>2
  <1>4. m = x
    BY <1>2, <1>3
  <1> QED  BY <1>4 DEF m

Back(w, d) == (w + Window - d) % Window

\* Places in the window, before and after a unit is written.
LEMMA WindowPlaces ==
    ASSUME NEW w \in 0..(Window - 1)
    PROVE  LET v == (w + 1) % Window
           IN  /\ v \in 0..(Window - 1)
               /\ Back(v, 1) = w
               /\ \A d \in 1..Window : Back(w, d) \in 0..(Window - 1)
               /\ \A d \in 1..(Window - 1) : Back(v, d + 1) = Back(w, d) /\ Back(w, d) # w
  <1> DEFINE v == (w + 1) % Window
             W == Window
  <1>0. W \in Nat /\ W >= 1
    BY Sizes
  <1>1. \A x \in 0..(W - 1) : x % W = x
    BY <1>0
  <1>2. \A x \in W..(W + W - 1) : x % W = x - W
    BY <1>0
  <1>3. /\ w + 1 < W => v = w + 1
        /\ w + 1 = W => v = 0
    BY <1>0, <1>1, <1>2
  <1>4. v \in 0..(W - 1)
    BY <1>0, <1>3
  <1> HIDE DEF v
  <1>5. \A t \in 0..(W - 1) : \A d \in 1..W : Back(t, d) = IF t >= d THEN t - d ELSE t + W - d
    <2> TAKE t \in 0..(W - 1)
    <2> TAKE d \in 1..W
    <2>1. CASE t >= d
      <3>1. t + W - d \in W..(W + W - 1) /\ (t + W - d) - W = t - d
        BY <2>1, <1>0
      <3> QED  BY <3>1, <2>1, <1>2 DEF Back
    <2>2. CASE ~(t >= d)
      <3>1. t + W - d \in 0..(W - 1)
        BY <2>2, <1>0
      <3> QED  BY <3>1, <2>2, <1>1 DEF Back
    <2> QED  BY <2>1, <2>2
  <1> HIDE DEF W
  <1>6. Back(v, 1) = w
    <2>1. 1 \in 1..W
      BY <1>0
    <2>2. Back(v, 1) = IF v >= 1 THEN v - 1 ELSE v + W - 1
      BY <2>1, <1>4, <1>5
    <2> QED  BY <2>2, <1>0, <1>3, <1>4 DEF W
  <1>7. \A d \in 1..W : Back(w, d) \in 0..(W - 1)
    BY <1>0, <1>5 DEF W
  <1>8. \A d \in 1..(W - 1) : Back(v, d + 1) = Back(w, d) /\ Back(w, d) # w
    <2> TAKE d \in 1..(W - 1)
    <2>1. d \in 1..W /\ d + 1 \in 1..W
      BY <1>0
    <2>2. Back(v, d + 1) = IF v >= d + 1 THEN v - (d + 1) ELSE v + W - (d + 1)
      BY <2>1, <1>4, <1>5
    <2>3. Back(w, d) = IF w >= d THEN w - d ELSE w + W - d
      BY <2>1, <1>5 DEF W
    <2> QED  BY <2>1, <2>2, <2>3, <1>0, <1>3, <1>4 DEF W
  <1> QED
    BY <1>4, <1>6, <1>7, <1>8 DEF v, W

----------------------------------------------------------------------------
(* The inductive invariant.                                                *)

\* Where the request in hand began.
FirstUnit == src - Len(buf)

InflaterStates ==
    [active : BOOLEAN, stored : BOOLEAN, final : BOOLEAN, left : Nat,
     copyLen : Nat, copyDist : Nat, done : BOOLEAN,
     window : [0..(Window - 1) -> Units], winPos : 0..(Window - 1), good : BOOLEAN]

ReaderType ==
    /\ archive \in Archives /\ kind \in {"raw", "gzip"}
    /\ cut \in BOOLEAN /\ damaged \in BOOLEAN
    /\ src \in Nat /\ src <= Length /\ gz \in InflaterStates

RequestType ==
    /\ pc \in {"open", "header", "second", "skip", "name", "data"}
    /\ want \in Nat /\ buf \in Seq(Units) /\ Len(buf) <= src

TarType ==
    /\ rest \in Nat /\ (longName = NoName \/ longName \in Names)
    /\ files \in [Paths -> Seq(Units)]
    /\ status \in {"none", "ok", "refused", "fault"}

ExtractType == ReaderType /\ RequestType /\ TarType

\* A stored block has what it says, a match what it is a match of; the last
\* block ends with the archive; damage shows in the checksum.
InflaterInv ==
    /\ kind = "raw" => ~damaged /\ gz.copyLen = 0 /\ ~gz.active /\ ~gz.done
    /\ gz.good <=> ~damaged
    /\ gz.active /\ gz.stored => /\ gz.left >= 1 /\ src + gz.left <= Length
                                 /\ gz.final => src + gz.left = Length
    /\ gz.done => src = Length /\ ~gz.active
    /\ gz.copyLen > 0 => /\ gz.active /\ ~gz.stored /\ src + gz.copyLen <= Length
                         /\ gz.copyDist \in 1..Window /\ gz.copyDist <= src
                         /\ \A i \in 1..gz.copyLen : Unit(src + i) = Unit(src + i - gz.copyDist)

\* The window is what was read.  Behind damage it still has no zero that the
\* archive has not in that place or in the one before.
WindowInv ==
    kind = "gzip" => \A d \in 1..Window : d <= src =>
        /\ ~damaged => gz.window[Back(gz.winPos, d)] = Unit(src + 1 - d)
        /\ gz.window[Back(gz.winPos, d)] = Zero => Begins(Unit(src + 1 - d))

AllZero == \A j \in 1..Len(buf) : buf[j] = Zero

\* So is what the loop has, and a zero block is one of the archive.
BufferInv ==
    /\ ~damaged => \A j \in 1..Len(buf) : buf[j] = Unit(FirstUnit + j)
    /\ AllZero => \A j \in 1..Len(buf) : Unit(FirstUnit + j) = Zero
    /\ status = "none" /\ pc = "second" /\ AllZero =>
           FirstUnit >= BlockSize /\ \A j \in 1..BlockSize : Unit(FirstUnit - BlockSize + j) = Zero

Writing(p) == status = "none" /\ pc = "data" /\ p = entry.path

\* What the loop asks for, and the file it writes.
FileInv ==
    /\ entry.at \in 1..MemberCount /\ Current.type = "file" /\ entry.path \in Paths
    /\ want + Len(buf) <= rest /\ (want + Len(buf) = 0 => rest = 0)
    /\ Len(files[entry.path]) + rest = Len(Current.data)
    /\ ~damaged => \A j \in 1..Len(files[entry.path]) :
                       files[entry.path][j] = <<"data", Current.data[j]>>

RequestInv ==
    status = "none" =>
        /\ pc = "open" => src = 0 /\ buf = <<>> /\ want = 0
        /\ pc \in {"header", "second"} => want + Len(buf) = BlockSize
        /\ pc = "name" => entry.at \in 1..MemberCount /\ Current.type \in {"long", "pax"}
        /\ pc = "data" => FileInv

\* Every other file is the old one, gone or whole.
Complete(c) ==
    \E i \in 1..MemberCount :
        Mem(i).type = "file" /\ Len(c) = Len(Mem(i).data) /\ (damaged \/ c = DataOf(Mem(i)))

WholeInv == \A p \in Paths : Writing(p) \/ files[p] \in {Old, Absent} \/ Complete(files[p])

\* The loop is in step with the archive: it has been through k members.
Place(k) ==
    /\ pc = "open" => k = 0
    /\ pc = "header" => FirstUnit = Upto(k)
    /\ pc = "second" => \/ k >= 1 /\ Mem(k).type = "zero" /\ FirstUnit = Upto(k)
                        \/ k = MemberCount /\ archive.marker >= 1 /\ FirstUnit = Upto(k) + BlockSize
    /\ pc = "skip" => src + want = Upto(k)
    /\ pc = "name" => /\ k < MemberCount /\ entry.at = k + 1 /\ FirstUnit = Upto(k) + BlockSize
                      /\ want + Len(buf) = Len(Current.data)
    /\ pc = "data" => /\ k < MemberCount /\ entry.at = k + 1
                      /\ FirstUnit = Upto(k) + BlockSize + Len(files[entry.path])

Spelled(k) ==
    {j \in 1..k : Mem(j).path # NoName /\ \A l \in j..k : Mem(l).type \notin Entries}
Pending(k) == IF Spelled(k) = {} THEN NoName ELSE Mem(Max(Spelled(k))).path

\* The name that waits for the next entry, and what is there after k members.
NamePlace(k) ==
    IF pc = "data" THEN longName = NoName
    ELSE longName = Pending(k) \/ (longName = NoName /\ NameForgotten)

FilesUpto(k, p) == {i \in FilesAt(p) : i <= k}
FileUpto(k, p) == IF FilesUpto(k, p) = {} THEN Old ELSE DataOf(Mem(Max(FilesUpto(k, p))))

DiskPlace(k) ==
    /\ pc = "data" => k + 1 \in FilesAt(entry.path)
    /\ \A p \in Paths : Writing(p) \/ files[p] = FileUpto(k, p)
    /\ \A i \in Of("dir") : i <= k => Clean(NameOf(i)) \in dirs

StepInv ==
    status = "none" /\ ~damaged =>
        \E k \in 0..MemberCount : Place(k) /\ NamePlace(k) /\ (~NameForgotten => DiskPlace(k))

ExtractInv ==
    /\ ExtractType /\ InflaterInv /\ WindowInv /\ BufferInv /\ RequestInv /\ WholeInv /\ StepInv
    /\ ResultIsTrue

----------------------------------------------------------------------------
(* What depends on the archive only stays.                                 *)

\* As long as the archive is the same one.
LEMMA ArchiveStays ==
    ASSUME archive' = archive
    PROVE  /\ Length' = Length /\ MemberCount' = MemberCount /\ Units' = Units
           /\ InflaterStates' = InflaterStates
           /\ \A n : Unit(n)' = Unit(n) /\ Mem(n)' = Mem(n) /\ Upto(n)' = Upto(n)
           /\ NameForgotten' = NameForgotten /\ Unusable' = Unusable /\ Expected' = Expected
           /\ \A t : Of(t)' = Of(t)
           /\ \A i : NameOf(i)' = NameOf(i)
           /\ \A k : Pending(k)' = Pending(k)
           /\ \A p : FilesAt(p)' = FilesAt(p)
           /\ \A k, p : FileUpto(k, p)' = FileUpto(k, p)
  <1>1. /\ Length' = Length /\ MemberCount' = MemberCount /\ Units' = Units
        /\ \A n : Unit(n)' = Unit(n) /\ Mem(n)' = Mem(n) /\ Upto(n)' = Upto(n)
    BY DEF Length, MemberCount, Units, Unit, Mem, Upto
  <1>2. InflaterStates' = InflaterStates
    BY <1>1 DEF InflaterStates
  <1>3. NameForgotten' = NameForgotten
    BY DEF NameForgotten
  <1>4. \A i : NameOf(i)' = NameOf(i)
    BY DEF NameOf
  <1>5. \A t : Of(t)' = Of(t)
    BY <1>4 DEF Of
  <1>6. \A p : FilesAt(p)' = FilesAt(p)
    BY <1>4, <1>5 DEF FilesAt
  <1>7. Expected' = Expected
    BY <1>6 DEF Expected
  <1>8. Unusable' = Unusable
    BY <1>3, <1>4, <1>5 DEF Unusable
  <1>9. \A k : Pending(k)' = Pending(k)
    BY <1>1 DEF Pending, Spelled
  <1>10. \A k, p : FileUpto(k, p)' = FileUpto(k, p)
    BY <1>1, <1>6 DEF FileUpto, FilesUpto
  <1> QED
    BY <1>1, <1>2, <1>3, <1>4, <1>5, <1>6, <1>7, <1>8, <1>9, <1>10

\* What a unit that is emitted does to the inflater.
LEMMA EmittedIs ==
    ASSUME archive \in Archives, gz \in InflaterStates, NEW u \in Units
    PROVE  LET g == Emitted(gz, u)
           IN  /\ g \in InflaterStates
               /\ g.active = gz.active /\ g.stored = gz.stored /\ g.final = gz.final
               /\ g.left = gz.left /\ g.copyLen = gz.copyLen /\ g.copyDist = gz.copyDist
               /\ g.done = gz.done
               /\ g.window = [gz.window EXCEPT ![gz.winPos] = u]
               /\ g.winPos = (gz.winPos + 1) % Window
               /\ g.good <=> gz.good /\ u = Unit(src + 1)
  <1> DEFINE w == [gz.window EXCEPT ![gz.winPos] = u]
             v == (gz.winPos + 1) % Window
             o == gz.good /\ u = Unit(src + 1)
             g == [gz EXCEPT !.window = w, !.winPos = v, !.good = o]
  <1>1. gz.winPos \in 0..(Window - 1) /\ gz.window \in [0..(Window - 1) -> Units] /\ gz.good \in BOOLEAN
    BY DEF InflaterStates
  <1>2. v \in 0..(Window - 1)
    BY <1>1, WindowPlaces
  <1>3. w \in [0..(Window - 1) -> Units]
    BY <1>1
  <1>4. o \in BOOLEAN
    OBVIOUS
  <1>5. Emitted(gz, u) = g
    BY DEF Emitted, InflaterStates
  <1> HIDE DEF w, v, o
  <1>6. /\ g \in InflaterStates
        /\ g.active = gz.active /\ g.stored = gz.stored /\ g.final = gz.final
        /\ g.left = gz.left /\ g.copyLen = gz.copyLen /\ g.copyDist = gz.copyDist
        /\ g.done = gz.done
        /\ g.window = w /\ g.winPos = v /\ g.good = o
    BY <1>2, <1>3, <1>4 DEF InflaterStates
  <1> HIDE DEF g
  <1> QED
    BY <1>5, <1>6 DEF w, v, o

\* The window after a unit was emitted.
LEMMA WindowKeeps ==
    ASSUME ReaderType, WindowInv, kind = "gzip", NEW u \in Units,
           src + 1 <= Length, src' = src + 1, archive' = archive, damaged => damaged',
           gz'.window = [gz.window EXCEPT ![gz.winPos] = u],
           gz'.winPos = (gz.winPos + 1) % Window,
           ~damaged' => u = Unit(src + 1),
           u = Zero => Unit(src + 1) = Zero
    PROVE  WindowInv'
  <1> DEFINE w == gz.winPos
             v == gz'.winPos
  <1>1. w \in 0..(Window - 1) /\ gz.window \in [0..(Window - 1) -> Units] /\ src \in Nat
    BY DEF ReaderType, InflaterStates
  <1>2. /\ Back(v, 1) = w
        /\ \A d \in 1..Window : Back(w, d) \in 0..(Window - 1)
        /\ \A d \in 1..(Window - 1) : Back(v, d + 1) = Back(w, d) /\ Back(w, d) # w
    BY <1>1, WindowPlaces
  <1>3. Window \in Nat /\ Window >= 1
    BY Sizes
  <1>4. \A n : Unit(n)' = Unit(n)
    BY ArchiveStays
  <1> HIDE DEF w, v
  <1>5. SUFFICES ASSUME NEW d \in 1..Window, d <= src + 1
                 PROVE  /\ ~damaged' => gz'.window[Back(v, d)] = Unit((src + 1) + 1 - d)
                        /\ gz'.window[Back(v, d)] = Zero => Begins(Unit((src + 1) + 1 - d))
    <2> QED  BY <1>5 DEF WindowInv, Begins, Back, Unit, v
  <1>6. CASE d = 1
    <2>1. gz'.window[Back(v, d)] = u
      BY <1>1, <1>2, <1>6 DEF w
    <2>2. (src + 1) + 1 - d = src + 1
      BY <1>1, <1>6
    <2> QED  BY <2>1, <2>2 DEF Begins
  <1>7. CASE d # 1
    <2> DEFINE c == d - 1
    <2>0. d \in Nat /\ d >= 1 /\ d <= Window /\ d # 1 /\ d <= src + 1 /\ src \in Nat /\ Window \in Nat
      BY <1>1, <1>3, <1>5, <1>7
    <2>1. c \in 1..(Window - 1) /\ c \in 1..Window /\ c + 1 = d /\ c <= src /\ (src + 1) + 1 - d = src + 1 - c
      BY <2>0
    <2> HIDE DEF c
    <2>2. Back(v, d) = Back(w, c) /\ Back(w, c) # w /\ Back(w, c) \in 0..(Window - 1)
      BY <1>2, <2>1
    <2>3. gz'.window[Back(v, d)] = gz.window[Back(w, c)]
      BY <1>1, <2>2 DEF w
    <2>4. /\ ~damaged => gz.window[Back(w, c)] = Unit(src + 1 - c)
          /\ gz.window[Back(w, c)] = Zero => Begins(Unit(src + 1 - c))
      BY <2>1 DEF WindowInv, w
    <2> QED  BY <2>1, <2>3, <2>4
  <1> QED
    BY <1>6, <1>7

----------------------------------------------------------------------------
(* The reader.                                                             *)

\* The reader delivers some units, true ones unless something is damaged.
Fed(us) ==
    /\ status = "none" /\ want > 0
    /\ us \in Seq(Units) /\ Len(us) <= want /\ src + Len(us) <= Length
    /\ buf' = buf \o us /\ want' = want - Len(us) /\ src' = src + Len(us)
    /\ UNCHANGED <<archive, kind, cut, pc, tar>>
    /\ damaged => damaged'
    /\ ~damaged' => \A j \in 1..Len(us) : us[j] = Unit(src + j)
    /\ \A j \in 1..Len(us) : us[j] = Zero => Unit(src + j) = Zero

\* The variables of the loop, one by one.
LEMMA TarStays ==
    ASSUME UNCHANGED tar
    PROVE  UNCHANGED <<entry, rest, longName, files, dirs, status>>
  BY DEF tar, disk

\* The file system while the loop waits.
LEMMA WholeStays ==
    ASSUME WholeInv, archive' = archive, damaged => damaged', UNCHANGED <<pc, tar>>
    PROVE  WholeInv'
  <1>1. UNCHANGED <<entry, files, status>>
    BY TarStays
  <1>2. MemberCount' = MemberCount /\ \A i : Mem(i)' = Mem(i)
    BY ArchiveStays
  <1>3. Paths' = Paths
    OBVIOUS
  <1>4. ASSUME NEW p \in Paths, Complete(files[p]) PROVE Complete(files[p])'
    BY <1>1, <1>2, <1>4 DEF Complete
  <1>5. ASSUME NEW p \in Paths, Writing(p) PROVE Writing(p)'
    BY <1>1, <1>5 DEF Writing
  <1>6. ASSUME NEW p \in Paths PROVE (files[p])' = files[p]
    BY <1>1
  <1>7. Old' = Old /\ Absent' = Absent
    BY DEF Old, Absent
  <1> QED
    BY <1>4, <1>5, <1>6, <1>7 DEF WholeInv

\* The place in the archive while the loop waits.
LEMMA StepStays ==
    ASSUME StepInv, archive' = archive, ~damaged' => ~damaged, UNCHANGED <<pc, tar>>,
           FirstUnit' = FirstUnit, src' + want' = src + want, want' + Len(buf') = want + Len(buf)
    PROVE  StepInv'
  <1>1. UNCHANGED <<entry, longName, files, dirs, status>>
    BY TarStays
  <1>2. /\ MemberCount' = MemberCount /\ NameForgotten' = NameForgotten
        /\ \A n : Mem(n)' = Mem(n) /\ Upto(n)' = Upto(n)
        /\ \A k : Pending(k)' = Pending(k)
    BY ArchiveStays
  <1>3. SUFFICES ASSUME status = "none", ~damaged'
                 PROVE  \E k \in 0..MemberCount : Place(k)' /\ NamePlace(k)' /\ (~NameForgotten => DiskPlace(k)')
    BY <1>1, <1>2 DEF StepInv
  <1>4. PICK k \in 0..MemberCount : Place(k) /\ NamePlace(k) /\ (~NameForgotten => DiskPlace(k))
    BY <1>3 DEF StepInv
  <1>5. Current' = Current
    BY <1>1 DEF Current
  <1>6. Place(k)'
    BY <1>1, <1>2, <1>4, <1>5 DEF Place
  <1>7. NamePlace(k)'
    BY <1>1, <1>2, <1>4 DEF NamePlace
  <1>8. DiskPlace(k) => DiskPlace(k)'
    <2>1. /\ \A p : FilesAt(p)' = FilesAt(p)
          /\ \A p : FileUpto(k, p)' = FileUpto(k, p)
          /\ Of("dir")' = Of("dir")
          /\ \A i : NameOf(i)' = NameOf(i)
      BY ArchiveStays
    <2>2. \A p : Writing(p)' = Writing(p)
      BY <1>1 DEF Writing
    <2>3. (pc = "data" => k + 1 \in FilesAt(entry.path)) => (pc = "data" => k + 1 \in FilesAt(entry.path))'
      BY <1>1, <2>1 DEF FilesAt, Of, NameOf
    <2> QED  BY <1>1, <2>1, <2>2, <2>3 DEF DiskPlace
  <1> QED
    BY <1>4, <1>6, <1>7, <1>8

\* What the loop has and waits for, when some of it comes.
LEMMA FedKeeps ==
    ASSUME ExtractInv, NEW us, Fed(us)
    PROVE  RequestType' /\ TarType' /\ BufferInv' /\ RequestInv' /\ WholeInv' /\ StepInv' /\ ResultIsTrue'
  <1> DEFINE l == Len(us)
             b == Len(buf)
  <1>1. /\ us \in Seq(Units) /\ l \in Nat /\ l <= want /\ buf \in Seq(Units) /\ b \in Nat
        /\ src \in Nat /\ want \in Nat /\ b <= src /\ src + l <= Length
    BY DEF Fed, ExtractInv, ExtractType, ReaderType, RequestType
  <1>2. /\ buf' \in Seq(Units) /\ Len(buf') = b + l
        /\ \A j \in 1..b : buf'[j] = buf[j]
        /\ \A j \in 1..l : buf'[b + j] = us[j]
    <2>1. buf' = buf \o us
      BY DEF Fed
    <2>2. us \in Seq(Units) /\ buf \in Seq(Units)
      BY <1>1
    <2> QED  BY <2>1, <2>2
  <1>3. src' = src + l /\ want' = want - l /\ archive' = archive /\ kind' = kind /\ cut' = cut /\ pc' = pc
        /\ status = "none" /\ want > 0
        /\ (damaged => damaged') /\ (~damaged' => ~damaged)
    BY DEF Fed
  <1>4. entry' = entry /\ rest' = rest /\ longName' = longName /\ files' = files /\ dirs' = dirs /\ status' = status
        /\ UNCHANGED <<pc, tar>>
    BY TarStays DEF Fed
  <1>5. /\ Length' = Length /\ MemberCount' = MemberCount /\ Units' = Units
        /\ \A n : Unit(n)' = Unit(n) /\ Mem(n)' = Mem(n)
    BY <1>3, ArchiveStays
  <1>6. /\ ~damaged' => \A j \in 1..l : us[j] = Unit(src + j)
        /\ \A j \in 1..l : us[j] = Zero => Unit(src + j) = Zero
    BY DEF Fed
  <1> HIDE DEF l, b
  <1>7. FirstUnit = src - b /\ FirstUnit' = src - b /\ src - b \in Nat /\ src' + want' = src + want
        /\ want' + Len(buf') = want + b /\ want' \in Nat /\ src' \in Nat /\ Len(buf') <= src'
    <2>1. FirstUnit' = (src + l) - (b + l)
      BY <1>2, <1>3 DEF FirstUnit
    <2>2. (src + l) - (b + l) = src - b /\ src - b \in Nat /\ (src + l) + (want - l) = src + want
          /\ (want - l) + (b + l) = want + b /\ want - l \in Nat /\ src + l \in Nat /\ b + l <= src + l
      BY <1>1
    <2> QED  BY <1>2, <1>3, <2>1, <2>2 DEF FirstUnit, b
  <1>8. RequestType'
    BY <1>2, <1>3, <1>5, <1>7 DEF ExtractInv, ExtractType, RequestType
  <1>9. TarType'
    BY <1>4, <1>5 DEF ExtractInv, ExtractType, TarType, Names, Paths
  <1>10. WholeInv'
    BY <1>3, <1>4, WholeStays DEF ExtractInv
  <1>11. StepInv'
    BY <1>3, <1>4, <1>7, StepStays DEF ExtractInv, b
  <1>12. ResultIsTrue'
    BY <1>3, <1>4 DEF ResultIsTrue
  <1>13. pc # "open"
    BY <1>3, <1>1 DEF ExtractInv, RequestInv
  <1>14. Current' = Current
    BY <1>3, <1>4 DEF Current
  <1>15. RequestInv'
    <2>1. /\ pc \in {"header", "second"} => want + b = BlockSize
          /\ pc = "name" => entry.at \in 1..MemberCount /\ Current.type \in {"long", "pax"}
          /\ pc = "data" => FileInv
      BY <1>3 DEF ExtractInv, RequestInv, b
    <2>2. FileInv => FileInv'
      BY <1>3, <1>4, <1>5, <1>7, <1>14 DEF FileInv, Paths, b
    <2> QED  BY <2>1, <2>2, <1>3, <1>4, <1>5, <1>7, <1>13, <1>14 DEF RequestInv
  <1>16. AllZero' => AllZero /\ \A j \in 1..l : us[j] = Zero
    <2>1. \A j \in 1..b : j \in 1..(b + l)
      BY <1>1
    <2>2. \A j \in 1..l : b + j \in 1..(b + l)
      BY <1>1
    <2> QED  BY <2>1, <2>2, <1>2 DEF AllZero, b
  <1>17. BufferInv'
    <2> DEFINE f == src - b
    <2>0. f \in Nat /\ f + b = src /\ \A j \in 1..(b + l) : j \in 1..b \/ (j - b \in 1..l /\ b + (j - b) = j /\ src + (j - b) = f + j)
      BY <1>1, <1>7
    <2> HIDE DEF f
    <2>1. FirstUnit = f /\ FirstUnit' = f
      BY <1>7 DEF f
    <2>2. ASSUME ~damaged', NEW j \in 1..(b + l) PROVE buf'[j] = Unit(f + j)
      <3>1. CASE j \in 1..b
        <4>1. buf[j] = Unit(f + j)
          BY <3>1, <2>1, <2>2, <1>3 DEF ExtractInv, BufferInv, b
        <4> QED  BY <4>1, <3>1, <1>2
      <3>2. CASE j \notin 1..b
        <4> DEFINE i == j - b
        <4>1. i \in 1..l /\ b + i = j /\ src + i = f + j
          BY <3>2, <2>0
        <4> HIDE DEF i
        <4>2. buf'[b + i] = us[i] /\ us[i] = Unit(src + i)
          BY <4>1, <2>2, <1>2, <1>6
        <4> QED  BY <4>1, <4>2
      <3> QED  BY <3>1, <3>2
    <2>3. ASSUME AllZero', NEW j \in 1..(b + l) PROVE Unit(f + j) = Zero
      <3>1. CASE j \in 1..b
        BY <3>1, <2>1, <2>3, <1>16 DEF ExtractInv, BufferInv, b
      <3>2. CASE j \notin 1..b
        <4> DEFINE i == j - b
        <4>1. i \in 1..l /\ src + i = f + j
          BY <3>2, <2>0
        <4> HIDE DEF i
        <4>2. Unit(src + i) = Zero
          BY <4>1, <2>3, <1>16, <1>6
        <4> QED  BY <4>1, <4>2
      <3> QED  BY <3>1, <3>2
    <2>4. ASSUME AllZero', pc = "second"
          PROVE  f >= BlockSize /\ \A j \in 1..BlockSize : Unit(f - BlockSize + j) = Zero
      BY <2>1, <2>4, <1>3, <1>16 DEF ExtractInv, BufferInv
    <2>5. /\ \A j : Unit(FirstUnit + j)' = Unit(f + j)
          /\ \A j : Unit(FirstUnit - BlockSize + j)' = Unit(f - BlockSize + j)
      BY <2>1, <1>3 DEF Unit
    <2> QED  BY <2>1, <2>2, <2>3, <2>4, <2>5, <1>2, <1>3, <1>4 DEF BufferInv
  <1> QED
    BY <1>8, <1>9, <1>10, <1>11, <1>12, <1>15, <1>17

\* Steps between two blocks, literals or matches.
LEMMA InflaterStepKeeps ==
    ASSUME ExtractInv, UNCHANGED <<archive, kind, cut, damaged, src, request, tar>>,
           gz' \in InflaterStates, gz'.window = gz.window, gz'.winPos = gz.winPos,
           InflaterInv', status = "none"
    PROVE  ExtractInv'
  <1>1. UNCHANGED <<archive, kind, cut, damaged, src, pc, want, buf>>
    BY DEF request
  <1>2. UNCHANGED <<entry, rest, longName, files, dirs, status>>
    BY TarStays
  <1>3. /\ Length' = Length /\ MemberCount' = MemberCount /\ Units' = Units /\ InflaterStates' = InflaterStates
        /\ Expected' = Expected /\ NameForgotten' = NameForgotten /\ Unusable' = Unusable
        /\ \A n : Unit(n)' = Unit(n) /\ Mem(n)' = Mem(n)
    BY <1>1, ArchiveStays
  <1>4. ExtractType'
    BY <1>1, <1>2, <1>3 DEF ExtractInv, ExtractType, ReaderType, RequestType, TarType, Names, Paths
  <1>5. WindowInv'
    BY <1>1, <1>3 DEF ExtractInv, WindowInv, Back, Begins, Unit
  <1>6. FirstUnit' = FirstUnit
    BY <1>1 DEF FirstUnit
  <1>7. BufferInv'
    BY <1>1, <1>2 DEF ExtractInv, BufferInv, AllZero, Unit, FirstUnit
  <1>8. Current' = Current
    BY <1>1, <1>2 DEF Current
  <1>9. FileInv => FileInv'
    BY <1>1, <1>2, <1>3, <1>8 DEF FileInv, Paths
  <1>10. RequestInv'
    BY <1>1, <1>2, <1>3, <1>8, <1>9 DEF ExtractInv, RequestInv
  <1>11. WholeInv'
    BY <1>1, WholeStays DEF ExtractInv
  <1>12. StepInv'
    BY <1>1, <1>6, StepStays DEF ExtractInv
  <1>13. ResultIsTrue'
    BY <1>2 DEF ResultIsTrue
  <1> QED
    BY <1>4, <1>5, <1>7, <1>10, <1>11, <1>12, <1>13 DEF ExtractInv

\* A block that ends.
LEMMA ClosedIs ==
    ASSUME NEW g \in InflaterStates
    PROVE  /\ Closed(g) \in InflaterStates
           /\ Closed(g).active = FALSE /\ Closed(g).done = g.final
           /\ Closed(g).stored = g.stored /\ Closed(g).left = g.left /\ Closed(g).final = g.final
           /\ Closed(g).copyLen = g.copyLen /\ Closed(g).copyDist = g.copyDist
           /\ Closed(g).window = g.window /\ Closed(g).winPos = g.winPos /\ Closed(g).good = g.good
  BY DEF Closed, InflaterStates

\* The types of the reader, as the proofs use them.
LEMMA ReaderIs ==
    ASSUME ExtractInv
    PROVE  /\ archive \in Archives /\ gz \in InflaterStates /\ src \in Nat /\ Length \in Nat /\ src <= Length
           /\ gz.left \in Nat /\ gz.copyLen \in Nat /\ gz.copyDist \in Nat
           /\ gz.active \in BOOLEAN /\ gz.stored \in BOOLEAN /\ gz.final \in BOOLEAN /\ gz.done \in BOOLEAN
           /\ gz.good \in BOOLEAN /\ damaged \in BOOLEAN
           /\ want \in Nat /\ kind \in {"raw", "gzip"}
  <1>1. archive \in Archives /\ gz \in InflaterStates /\ src \in Nat /\ src <= Length /\ damaged \in BOOLEAN
        /\ want \in Nat /\ kind \in {"raw", "gzip"}
    BY DEF ExtractInv, ExtractType, ReaderType, RequestType
  <1>2. Length \in Nat
    BY <1>1, TapeIs
  <1>3. /\ gz.left \in Nat /\ gz.copyLen \in Nat /\ gz.copyDist \in Nat
        /\ gz.active \in BOOLEAN /\ gz.stored \in BOOLEAN /\ gz.final \in BOOLEAN /\ gz.done \in BOOLEAN
        /\ gz.good \in BOOLEAN
    BY <1>1 DEF InflaterStates
  <1> QED
    BY <1>1, <1>2, <1>3

\* A stored block begins.
LEMMA StartStoredKeeps == ASSUME ExtractInv, StartStored PROVE ExtractInv'
  <1>1. PICK n \in 0..Min({MaxStored, Length - src}), final \in BOOLEAN :
           /\ final => src + n = Length
           /\ gz' = IF n = 0 THEN Closed([gz EXCEPT !.active = TRUE, !.stored = TRUE, !.final = final, !.left = n])
                    ELSE [gz EXCEPT !.active = TRUE, !.stored = TRUE, !.final = final, !.left = n]
    BY DEF StartStored
  <1>2. /\ UNCHANGED <<archive, kind, cut, damaged, src, request, tar>>
        /\ status = "none" /\ kind = "gzip" /\ gz.copyLen = 0 /\ ~gz.active /\ ~gz.done
    BY DEF StartStored, Inflating, Asked
  <1>3. /\ archive \in Archives /\ gz \in InflaterStates /\ src \in Nat /\ Length \in Nat /\ src <= Length
    BY ReaderIs
  <1>4. n \in Nat /\ src + n <= Length
    <2> DEFINE c == Length - src
    <2>1. c \in Nat /\ MaxStored \in Nat
      BY <1>3, Sizes
    <2> HIDE DEF c
    <2>2. Min({MaxStored, c}) <= c /\ Min({MaxStored, c}) \in Nat
      BY <2>1, LesserIs
    <2>3. n \in Nat /\ n <= c
      BY <2>1, <2>2, <1>1 DEF c
    <2> QED  BY <2>3, <1>3 DEF c
  <1> DEFINE g == [gz EXCEPT !.active = TRUE, !.stored = TRUE, !.final = final, !.left = n]
  <1>5. /\ g \in InflaterStates /\ g.active = TRUE /\ g.stored = TRUE /\ g.final = final /\ g.left = n
        /\ g.copyLen = gz.copyLen /\ g.done = gz.done /\ g.good = gz.good
        /\ g.window = gz.window /\ g.winPos = gz.winPos
    BY <1>3, <1>4 DEF InflaterStates
  <1>6. gz' = IF n = 0 THEN Closed(g) ELSE g
    BY <1>1
  <1> HIDE DEF g
  <1>7. /\ gz' \in InflaterStates /\ gz'.copyLen = 0 /\ gz'.good = gz.good
        /\ gz'.window = gz.window /\ gz'.winPos = gz.winPos
        /\ n = 0 => ~gz'.active /\ gz'.done = final
        /\ n # 0 => gz'.active /\ gz'.stored /\ gz'.final = final /\ gz'.left = n /\ ~gz'.done
    BY <1>2, <1>5, <1>6, ClosedIs
  <1>8. Length' = Length
    BY <1>2, ArchiveStays
  <1>9. InflaterInv'
    <2>1. kind' = kind /\ damaged' = damaged /\ src' = src
      BY <1>2
    <2>2. (gz.good <=> ~damaged)
      BY DEF ExtractInv, InflaterInv
    <2>3. final => src + n = Length
      BY <1>1
    <2>4. n # 0 => n >= 1
      BY <1>4
    <2>5. n = 0 => src + n = src
      BY <1>3
    <2> QED  BY <2>1, <2>2, <2>3, <2>4, <2>5, <1>2, <1>4, <1>7, <1>8 DEF InflaterInv
  <1> QED
    BY <1>2, <1>7, <1>9, InflaterStepKeeps

\* A compressed block begins.
LEMMA StartHuffmanKeeps == ASSUME ExtractInv, StartHuffman PROVE ExtractInv'
  <1>1. PICK final \in BOOLEAN : gz' = [gz EXCEPT !.active = TRUE, !.stored = FALSE, !.final = final]
    BY DEF StartHuffman
  <1>2. /\ UNCHANGED <<archive, kind, cut, damaged, src, request, tar>>
        /\ status = "none" /\ kind = "gzip" /\ gz.copyLen = 0 /\ ~gz.active /\ ~gz.done
    BY DEF StartHuffman, Inflating, Asked
  <1>3. gz \in InflaterStates
    BY ReaderIs
  <1>4. /\ gz' \in InflaterStates /\ gz'.copyLen = gz.copyLen /\ gz'.good = gz.good /\ ~gz'.stored
        /\ gz'.window = gz.window /\ gz'.winPos = gz.winPos /\ gz'.done = gz.done
    BY <1>1, <1>3 DEF InflaterStates
  <1>5. InflaterInv'
    <2>1. (gz.good <=> ~damaged)
      BY DEF ExtractInv, InflaterInv
    <2> QED  BY <2>1, <1>2, <1>4 DEF InflaterInv
  <1> QED
    BY <1>2, <1>4, <1>5, InflaterStepKeeps

\* A match is read.
LEMMA StartCopyKeeps == ASSUME ExtractInv, StartCopy PROVE ExtractInv'
  <1>1. PICK n \in 2..Min({MaxCopy, Length - src}), dist \in 1..Min({Window, src}) :
           /\ \A i \in 1..n : Unit(src + i) = Unit(src + i - dist)
           /\ gz' = [gz EXCEPT !.copyLen = n, !.copyDist = dist]
    BY DEF StartCopy
  <1>2. /\ UNCHANGED <<archive, kind, cut, damaged, src, request, tar>>
        /\ status = "none" /\ kind = "gzip" /\ gz.active /\ ~gz.stored
    BY DEF StartCopy, Inflating, Asked
  <1>3. /\ archive \in Archives /\ gz \in InflaterStates /\ src \in Nat /\ Length \in Nat /\ src <= Length
    BY ReaderIs
  <1>4. n \in Nat /\ src + n <= Length
    <2> DEFINE c == Length - src
    <2>1. c \in Nat /\ MaxCopy \in Nat
      BY <1>3, Sizes
    <2> HIDE DEF c
    <2>2. Min({MaxCopy, c}) <= c /\ Min({MaxCopy, c}) \in Nat
      BY <2>1, LesserIs
    <2>3. n \in Nat /\ n <= c
      BY <2>1, <2>2, <1>1 DEF c
    <2> QED  BY <2>3, <1>3 DEF c
  <1>5. dist \in Nat /\ dist \in 1..Window /\ dist <= src
    <2>1. Min({Window, src}) <= Window /\ Min({Window, src}) <= src /\ Min({Window, src}) \in Nat
      BY <1>3, Sizes, LesserIs
    <2> DEFINE m == Min({Window, src})
    <2>2. m \in Nat /\ m <= Window /\ m <= src /\ dist \in 1..m
      BY <2>1
    <2> HIDE DEF m
    <2> QED  BY <2>2, <1>3, Sizes
  <1>6. /\ gz' \in InflaterStates /\ gz'.copyLen = n /\ gz'.copyDist = dist
        /\ gz'.active = gz.active /\ gz'.stored = gz.stored /\ gz'.good = gz.good
        /\ gz'.window = gz.window /\ gz'.winPos = gz.winPos /\ gz'.done = gz.done
    BY <1>1, <1>3, <1>4, <1>5 DEF InflaterStates
  <1>7. InflaterInv'
    <2>1. (gz.good <=> ~damaged) /\ ~gz.done
      BY <1>2 DEF ExtractInv, InflaterInv
    <2>2. \A i \in 1..n : Unit(src + i)' = Unit(src + i - dist)'
      BY <1>1, <1>2 DEF Unit
    <2>3. Length' = Length
      BY <1>2, ArchiveStays
    <2>4. gz'.copyLen > 0 => \A i \in 1..gz'.copyLen : Unit(src + i)' = Unit(src + i - gz.copyDist)'
      BY <2>2, <1>6, <1>2 DEF Unit
    <2> QED  BY <2>1, <2>3, <2>4, <1>2, <1>4, <1>5, <1>6 DEF InflaterInv
  <1> QED
    BY <1>2, <1>6, <1>7, InflaterStepKeeps

\* A compressed block ends.
LEMMA EndOfBlockKeeps == ASSUME ExtractInv, EndOfBlock PROVE ExtractInv'
  <1>1. /\ UNCHANGED <<archive, kind, cut, damaged, src, request, tar>>
        /\ status = "none" /\ kind = "gzip" /\ gz.copyLen = 0 /\ gz' = Closed(gz) /\ (gz.final => src = Length)
    BY DEF EndOfBlock, Inflating, Asked
  <1>2. /\ gz' \in InflaterStates /\ gz'.active = FALSE /\ gz'.done = gz.final /\ gz'.copyLen = gz.copyLen
        /\ gz'.window = gz.window /\ gz'.winPos = gz.winPos /\ gz'.good = gz.good
    BY <1>1, ReaderIs, ClosedIs
  <1>3. InflaterInv'
    <2>1. (gz.good <=> ~damaged) /\ Length' = Length
      BY <1>1, ArchiveStays DEF ExtractInv, InflaterInv
    <2> QED  BY <2>1, <1>1, <1>2 DEF InflaterInv
  <1> QED
    BY <1>1, <1>2, <1>3, InflaterStepKeeps

\* Nothing in an archive is junk.
LEMMA NoJunk ==
    ASSUME archive \in Archives, NEW p \in 1..Length
    PROVE  Unit(p) # Junk /\ Unit(p) \in Units
  <1>1. Unit(p) \in Units
    BY TapeIs DEF Unit, Length
  <1>2. Zero # Junk /\ (\A k : <<"header", k>> # Junk /\ <<"more", k>> # Junk) /\ \A x \in Nat \ {0} : <<"data", x>> # Junk
    BY DEF Zero, Junk
  <1>3. ASSUME NEW k, UnitIs(k, p) PROVE Unit(p) # Junk
    BY <1>2, <1>3 DEF UnitIs
  <1> QED
    BY <1>1, <1>2, <1>3, UnitSomewhere

\* A header is in one place.
LEMMA HeaderOnce ==
    ASSUME archive \in Archives, NEW p \in 1..Length, NEW q \in 1..Length,
           Unit(p) = Unit(q), Unit(p)[1] = "header"
    PROVE  p = q
  <1>1. Unit(p) \in Units
    BY NoJunk
  <1>2. PICK i : Unit(p) = <<"header", i>>
    BY <1>1 DEF Units, UnitsOf
  <1>3. p = Upto(i - 1) + 1 /\ q = Upto(i - 1) + 1
    BY <1>2, HeaderAt
  <1> QED  BY <1>3

\* A unit that arrives is the right one, or damages.
LEMMA ArrivesIs ==
    ASSUME ExtractInv, src + 1 <= Length, NEW u, Arrives(u)
    PROVE  /\ u \in Units /\ Unit(src + 1) \in Units /\ (damaged => damaged') /\ damaged' \in BOOLEAN
           /\ ~damaged' => u = Unit(src + 1)
           /\ damaged' <=> damaged \/ u # Unit(src + 1)
           /\ u = Zero => Unit(src + 1) = Zero
  <1>1. archive \in Archives /\ src + 1 \in 1..Length /\ damaged \in BOOLEAN
    BY ReaderIs
  <1>2. Unit(src + 1) # Junk /\ Unit(src + 1) \in Units
    BY <1>1, NoJunk
  <1>3. Junk \in Units /\ Junk # Zero
    BY DEF Junk, Zero, Units, UnitsOf
  <1>4. CASE u = Unit(src + 1) /\ UNCHANGED damaged
    BY <1>1, <1>2, <1>4
  <1>5. CASE ~damaged /\ u = Junk /\ damaged' = TRUE
    BY <1>2, <1>3, <1>5
  <1> QED
    BY <1>4, <1>5 DEF Arrives

\* The inflater delivers one unit.
LEMMA ByteKeeps ==
    ASSUME ExtractInv, Asked, NEW u \in Units, Delivers(<<u>>), kind = "gzip", src + 1 <= Length,
           gz' \in InflaterStates,
           gz'.window = [gz.window EXCEPT ![gz.winPos] = u],
           gz'.winPos = (gz.winPos + 1) % Window,
           damaged => damaged', damaged' \in BOOLEAN, ~damaged' => u = Unit(src + 1),
           u = Zero => Unit(src + 1) = Zero,
           InflaterInv'
    PROVE  ExtractInv'
  <1> DEFINE us == <<u>>
  <1>1. us \in Seq(Units) /\ Len(us) = 1 /\ us[1] = u /\ \A j \in 1..1 : j = 1
    OBVIOUS
  <1>2. src \in Nat /\ want \in Nat
    BY ReaderIs
  <1>3. Delivers(us)
    OBVIOUS
  <1> HIDE DEF us
  <1>4. Fed(us)
    <2>1. /\ buf' = buf \o us /\ want' = want - Len(us) /\ src' = src + Len(us)
          /\ UNCHANGED <<archive, kind, cut, pc, tar>>
      BY <1>3 DEF Delivers
    <2>2. Len(us) <= want /\ src + Len(us) <= Length
      BY <1>1, <1>2 DEF Asked
    <2>3. \A j \in 1..Len(us) : us[j] = u /\ src + j = src + 1
      BY <1>1
    <2> QED  BY <1>1, <2>1, <2>2, <2>3 DEF Fed, Asked
  <1>5. src' = src + 1 /\ archive' = archive /\ kind' = kind /\ cut' = cut
    BY <1>1, <1>4 DEF Fed
  <1>6. RequestType' /\ TarType' /\ BufferInv' /\ RequestInv' /\ WholeInv' /\ StepInv' /\ ResultIsTrue'
    BY <1>4, FedKeeps
  <1>7. WindowInv'
    BY <1>5, WindowKeeps DEF ExtractInv, ExtractType
  <1>8. ReaderType'
    BY <1>2, <1>5, ArchiveStays DEF ExtractInv, ExtractType, ReaderType
  <1> QED
    BY <1>6, <1>7, <1>8 DEF ExtractInv, ExtractType

\* A literal.
LEMMA LiteralKeeps == ASSUME ExtractInv, Literal PROVE ExtractInv'
  <1>1. /\ Asked /\ kind = "gzip" /\ gz.copyLen = 0 /\ gz.active /\ ~gz.stored /\ src < Length
    BY DEF Literal, Inflating
  <1>2. PICK u : Arrives(u) /\ Delivers(<<u>>) /\ gz' = Emitted(gz, u)
    BY DEF Literal
  <1>3. archive \in Archives /\ gz \in InflaterStates /\ src \in Nat /\ Length \in Nat /\ src + 1 <= Length
    BY <1>1, ReaderIs
  <1>4. /\ u \in Units /\ (damaged => damaged') /\ damaged' \in BOOLEAN
        /\ ~damaged' => u = Unit(src + 1)
        /\ damaged' <=> damaged \/ u # Unit(src + 1)
        /\ u = Zero => Unit(src + 1) = Zero
    BY <1>2, <1>3, ArrivesIs
  <1>5. /\ gz' \in InflaterStates
        /\ gz'.active = gz.active /\ gz'.stored = gz.stored /\ gz'.copyLen = gz.copyLen /\ gz'.done = gz.done
        /\ gz'.window = [gz.window EXCEPT ![gz.winPos] = u]
        /\ gz'.winPos = (gz.winPos + 1) % Window
        /\ gz'.good <=> gz.good /\ u = Unit(src + 1)
    BY <1>2, <1>3, <1>4, EmittedIs
  <1>6. kind' = kind
    BY <1>2 DEF Delivers
  <1>7. InflaterInv'
    <2>1. (gz.good <=> ~damaged) /\ ~gz.done
      BY <1>1 DEF ExtractInv, InflaterInv
    <2> QED  BY <2>1, <1>1, <1>4, <1>5, <1>6 DEF InflaterInv
  <1> QED
    BY <1>1, <1>2, <1>3, <1>4, <1>5, <1>7, ByteKeeps

\* A byte of a stored block.
LEMMA StoredByteKeeps == ASSUME ExtractInv, StoredByte PROVE ExtractInv'
  <1>1. /\ Asked /\ kind = "gzip" /\ gz.copyLen = 0 /\ gz.active /\ gz.stored
    BY DEF StoredByte, Inflating
  <1>2. PICK u : /\ Arrives(u) /\ Delivers(<<u>>)
                 /\ LET g == [Emitted(gz, u) EXCEPT !.left = @ - 1]
                    IN  gz' = IF g.left = 0 THEN Closed(g) ELSE g
    BY DEF StoredByte
  <1>3. /\ archive \in Archives /\ gz \in InflaterStates /\ src \in Nat /\ Length \in Nat /\ gz.left \in Nat
        /\ gz.left >= 1 /\ src + gz.left <= Length /\ (gz.final => src + gz.left = Length)
        /\ src + 1 <= Length
    <2>1. archive \in Archives /\ gz \in InflaterStates /\ src \in Nat /\ Length \in Nat /\ gz.left \in Nat
      BY ReaderIs
    <2>2. gz.left >= 1 /\ src + gz.left <= Length /\ (gz.final => src + gz.left = Length)
      BY <1>1 DEF ExtractInv, InflaterInv
    <2> DEFINE l == gz.left
    <2>3. l \in Nat /\ l >= 1 /\ src + l <= Length
      BY <2>1, <2>2
    <2> HIDE DEF l
    <2>4. src + 1 <= Length
      BY <2>1, <2>3
    <2> QED  BY <2>1, <2>2, <2>4
  <1>4. /\ u \in Units /\ (damaged => damaged') /\ damaged' \in BOOLEAN
        /\ ~damaged' => u = Unit(src + 1)
        /\ damaged' <=> damaged \/ u # Unit(src + 1)
        /\ u = Zero => Unit(src + 1) = Zero
    BY <1>2, <1>3, ArrivesIs
  <1> DEFINE e == Emitted(gz, u)
             g == [e EXCEPT !.left = @ - 1]
  <1>5. /\ e \in InflaterStates
        /\ e.active = gz.active /\ e.stored = gz.stored /\ e.copyLen = gz.copyLen /\ e.done = gz.done
        /\ e.left = gz.left /\ e.final = gz.final
        /\ e.window = [gz.window EXCEPT ![gz.winPos] = u]
        /\ e.winPos = (gz.winPos + 1) % Window
        /\ e.good <=> gz.good /\ u = Unit(src + 1)
    BY <1>3, <1>4, EmittedIs
  <1>6. gz' = IF g.left = 0 THEN Closed(g) ELSE g
    BY <1>2
  <1> HIDE DEF e
  <1>7. gz.left - 1 \in Nat
    BY <1>3
  <1>8. /\ g \in InflaterStates
        /\ g.active = e.active /\ g.stored = e.stored /\ g.copyLen = e.copyLen /\ g.done = e.done
        /\ g.left = gz.left - 1 /\ g.final = e.final /\ g.window = e.window /\ g.winPos = e.winPos
        /\ g.good = e.good
    BY <1>5, <1>7 DEF InflaterStates
  <1> HIDE DEF g
  <1>9. /\ gz' \in InflaterStates
        /\ gz'.window = [gz.window EXCEPT ![gz.winPos] = u]
        /\ gz'.winPos = (gz.winPos + 1) % Window
        /\ gz'.good <=> gz.good /\ u = Unit(src + 1)
        /\ gz'.copyLen = 0
        /\ gz'.active => gz'.left = gz.left - 1 /\ gz'.left # 0 /\ gz'.final = gz.final /\ gz'.done = gz.done
        /\ ~gz'.active => gz'.done = gz.final /\ gz.left - 1 = 0
    BY <1>1, <1>5, <1>6, <1>8, ClosedIs
  <1>10. kind' = kind /\ src' = src + 1 /\ archive' = archive
    BY <1>2 DEF Delivers
  <1>11. InflaterInv'
    <2>1. (gz.good <=> ~damaged) /\ ~gz.done
      BY <1>1 DEF ExtractInv, InflaterInv
    <2>2. Length' = Length
      BY <1>10, ArchiveStays
    <2>3. /\ (src + 1) + (gz.left - 1) = src + gz.left
          /\ gz.left - 1 # 0 => gz.left - 1 >= 1
          /\ gz.left - 1 = 0 => src + gz.left = src + 1
      <3> DEFINE l == gz.left
      <3>1. l \in Nat /\ l >= 1
        BY <1>3
      <3> HIDE DEF l
      <3>2. /\ (src + 1) + (l - 1) = src + l
            /\ l - 1 # 0 => l - 1 >= 1
            /\ l - 1 = 0 => src + l = src + 1
        BY <1>3, <3>1
      <3> QED  BY <3>2 DEF l
    <2>4. gz'.active => gz'.left >= 1 /\ src' + gz'.left = src + gz.left
      BY <2>3, <1>9, <1>10
    <2>5. gz'.done => src' = Length' /\ ~gz'.active
      BY <2>1, <2>2, <2>3, <1>3, <1>9, <1>10
    <2>6. gz'.good <=> ~damaged'
      BY <2>1, <1>4, <1>9
    <2> QED  BY <2>2, <2>4, <2>5, <2>6, <1>1, <1>3, <1>9, <1>10 DEF InflaterInv
  <1> QED
    BY <1>1, <1>2, <1>3, <1>4, <1>9, <1>11, ByteKeeps

\* A byte of a match: the window has it, behind damage or not.
LEMMA CopyByteKeeps == ASSUME ExtractInv, CopyByte PROVE ExtractInv'
  <1> DEFINE d == gz.copyDist
             l == gz.copyLen
             u == gz.window[Back(gz.winPos, d)]
             c == src + 1 - d
  <1>1. Asked /\ l > 0 /\ Delivers(<<u>>) /\ gz' = [Emitted(gz, u) EXCEPT !.copyLen = @ - 1] /\ damaged' = damaged
    BY DEF CopyByte, CopySource, Back
  <1>2. /\ archive \in Archives /\ gz \in InflaterStates /\ src \in Nat /\ Length \in Nat /\ l \in Nat /\ d \in Nat
        /\ damaged \in BOOLEAN /\ kind = "gzip" /\ gz.active /\ ~gz.stored /\ src + l <= Length
        /\ d \in 1..Window /\ d <= src /\ (gz.good <=> ~damaged) /\ ~gz.done
        /\ \A i \in 1..l : Unit(src + i) = Unit(src + i - d)
    <2>1. archive \in Archives /\ gz \in InflaterStates /\ src \in Nat /\ Length \in Nat /\ l \in Nat /\ d \in Nat
          /\ damaged \in BOOLEAN /\ kind \in {"raw", "gzip"}
      BY ReaderIs
    <2> QED  BY <2>1, <1>1 DEF ExtractInv, InflaterInv
  <1>3. gz.winPos \in 0..(Window - 1) /\ gz.window \in [0..(Window - 1) -> Units]
    BY <1>2 DEF InflaterStates
  <1>4. u \in Units
    BY <1>2, <1>3, WindowPlaces
  <1>5. /\ ~damaged => u = Unit(c)
        /\ u = Zero => Begins(Unit(c))
    BY <1>2 DEF ExtractInv, WindowInv
  <1> HIDE DEF u, l, d
  <1>6. c \in 1..Length /\ src + 1 \in 1..Length /\ c # src + 1 /\ src + 1 <= Length /\ 1 \in 1..l
    BY <1>1, <1>2, Sizes
  <1>7. Unit(src + 1) = Unit(c)
    BY <1>2, <1>6
  <1> HIDE DEF c
  <1>8. u = Zero => Unit(src + 1) = Zero
    BY <1>2, <1>5, <1>6, <1>7, HeaderOnce DEF Begins
  <1> DEFINE e == Emitted(gz, u)
  <1>9. /\ e \in InflaterStates
        /\ e.active = gz.active /\ e.stored = gz.stored /\ e.copyLen = l /\ e.copyDist = d /\ e.done = gz.done
        /\ e.window = [gz.window EXCEPT ![gz.winPos] = u]
        /\ e.winPos = (gz.winPos + 1) % Window
        /\ e.good <=> gz.good /\ u = Unit(src + 1)
    BY <1>2, <1>4, EmittedIs DEF l, d
  <1>10. gz' = [e EXCEPT !.copyLen = @ - 1]
    BY <1>1
  <1> HIDE DEF e
  <1>11. l - 1 \in Nat
    BY <1>1, <1>2
  <1>12. /\ gz' \in InflaterStates
         /\ gz'.active /\ ~gz'.stored /\ gz'.copyLen = l - 1 /\ gz'.copyDist = d /\ ~gz'.done
         /\ gz'.window = [gz.window EXCEPT ![gz.winPos] = u]
         /\ gz'.winPos = (gz.winPos + 1) % Window
         /\ gz'.good <=> gz.good /\ u = Unit(src + 1)
    BY <1>2, <1>9, <1>10, <1>11 DEF InflaterStates
  <1>13. kind' = kind /\ src' = src + 1 /\ archive' = archive
    BY <1>1 DEF Delivers
  <1>14. InflaterInv'
    <2>1. Length' = Length /\ \A n : Unit(n)' = Unit(n)
      BY <1>13, ArchiveStays
    <2>2. (src + 1) + (l - 1) <= Length /\ d <= src + 1
      BY <1>1, <1>2
    <2>3. ASSUME NEW i \in 1..(l - 1) PROVE Unit(src + 1 + i) = Unit(src + 1 + i - d)
      <3>1. i + 1 \in 1..l /\ src + (i + 1) = src + 1 + i /\ src + (i + 1) - d = src + 1 + i - d
        BY <1>1, <1>2
      <3>2. Unit(src + (i + 1)) = Unit(src + (i + 1) - d)
        BY <3>1, <1>2
      <3> QED  BY <3>1, <3>2
    <2>4. \A i \in 1..gz'.copyLen : Unit(src + i)' = Unit(src + i - gz.copyDist)'
      BY <2>3, <1>12, <1>13 DEF Unit
    <2>5. gz'.good <=> ~damaged'
      BY <1>1, <1>2, <1>5, <1>7, <1>12
    <2> QED  BY <2>1, <2>2, <2>4, <2>5, <1>2, <1>12, <1>13 DEF InflaterInv
  <1> QED
    BY <1>1, <1>2, <1>4, <1>5, <1>6, <1>7, <1>8, <1>12, <1>14, ByteKeeps

\* A read of a plain archive.
LEMMA RawReadKeeps == ASSUME ExtractInv, RawRead PROVE ExtractInv'
  <1>1. PICK n \in 1..Min({want, Length - src}) : Delivers(SubSeq(Tape[archive], src + 1, src + n))
    BY DEF RawRead
  <1>2. /\ Asked /\ kind = "raw" /\ gz' = gz /\ damaged' = damaged
        /\ archive \in Archives /\ src \in Nat /\ Length \in Nat /\ src <= Length /\ want \in Nat
    BY ReaderIs DEF RawRead
  <1>3. n \in Nat /\ n <= want /\ src + n <= Length
    <2> DEFINE c == Length - src
               m == Min({want, c})
    <2>1. c \in Nat
      BY <1>2
    <2> HIDE DEF c
    <2>2. m <= c /\ m <= want /\ m \in Nat
      BY <1>2, <2>1, LesserIs
    <2>3. n \in 1..m
      BY <1>1 DEF c
    <2> HIDE DEF m
    <2>4. n \in Nat /\ n <= c /\ n <= want
      BY <1>2, <2>1, <2>2, <2>3
    <2> QED  BY <2>4, <1>2 DEF c
  <1> DEFINE s == Tape[archive]
             us == SubSeq(s, src + 1, src + n)
  <1>4. us \in Seq(Units) /\ Len(us) = n /\ \A j \in 1..n : us[j] = s[src + j]
    <2>1. s \in Seq(Units) /\ Len(s) = Length
      BY <1>2, TapeIs DEF Length
    <2> HIDE DEF s
    <2>2. us \in Seq(Units)
      BY <2>1, <1>2, <1>3
    <2>3. Len(us) = n
      BY <2>1, <1>2, <1>3
    <2>4. \A j \in 1..n : us[j] = s[src + j]
      BY <2>1, <1>2, <1>3
    <2> QED  BY <2>2, <2>3, <2>4
  <1>5. Delivers(us)
    BY <1>1
  <1>6. \A j \in 1..n : us[j] = Unit(src + j)
    BY <1>4 DEF Unit
  <1> HIDE DEF us, s
  <1>7. Fed(us)
    <2>1. /\ buf' = buf \o us /\ want' = want - Len(us) /\ src' = src + Len(us)
          /\ UNCHANGED <<archive, kind, cut, pc, tar>>
      BY <1>5 DEF Delivers
    <2> QED  BY <2>1, <1>2, <1>3, <1>4, <1>6 DEF Fed, Asked
  <1>8. src' = src + n /\ archive' = archive /\ kind' = kind /\ cut' = cut
    BY <1>4, <1>7 DEF Fed
  <1>9. RequestType' /\ TarType' /\ BufferInv' /\ RequestInv' /\ WholeInv' /\ StepInv' /\ ResultIsTrue'
    BY <1>7, FedKeeps
  <1>10. WindowInv'
    BY <1>2, <1>8 DEF WindowInv
  <1>11. InflaterInv'
    BY <1>2, <1>8 DEF ExtractInv, InflaterInv
  <1>12. ReaderType'
    BY <1>2, <1>3, <1>8, ArchiveStays DEF ExtractInv, ExtractType, ReaderType
  <1> QED
    BY <1>9, <1>10, <1>11, <1>12 DEF ExtractInv, ExtractType

\* A bad symbol is passed over.
LEMMA BadSymbolKeeps == ASSUME ExtractInv, BadSymbol PROVE ExtractInv'
  <1>1. /\ status = "none" /\ want > 0 /\ kind = "gzip" /\ gz.copyLen = 0 /\ gz.active /\ ~gz.stored /\ src < Length
        /\ Unit(src + 1)[1] = "data" /\ ~damaged /\ buf # <<>>
        /\ damaged' = TRUE /\ src' = src + 1 /\ gz' = [gz EXCEPT !.good = FALSE]
        /\ UNCHANGED <<archive, kind, cut, request, tar>>
    BY DEF BadSymbol, Inflating, Asked
  <1>2. UNCHANGED <<pc, want, buf>>
    BY <1>1 DEF request
  <1>3. UNCHANGED <<entry, rest, longName, files, dirs, status>>
    BY <1>1, TarStays
  <1>4. /\ archive \in Archives /\ gz \in InflaterStates /\ src \in Nat /\ Length \in Nat /\ want \in Nat
        /\ src + 1 <= Length /\ src + 1 \in Nat
    BY <1>1, ReaderIs
  <1>5. /\ Length' = Length /\ MemberCount' = MemberCount /\ Units' = Units /\ InflaterStates' = InflaterStates
        /\ \A n : Unit(n)' = Unit(n) /\ Mem(n)' = Mem(n)
    BY <1>1, ArchiveStays
  <1>6. /\ gz' \in InflaterStates /\ gz'.copyLen = 0 /\ gz'.active /\ ~gz'.stored /\ gz'.done = gz.done
        /\ gz'.window = gz.window /\ gz'.winPos = gz.winPos /\ gz'.good = FALSE
    BY <1>1, <1>4 DEF InflaterStates
  <1>7. buf \in Seq(Units) /\ Len(buf) \in Nat /\ Len(buf) >= 1 /\ Len(buf) <= src
    <2>1. buf \in Seq(Units) /\ Len(buf) <= src
      BY DEF ExtractInv, ExtractType, RequestType
    <2>2. Len(buf) # 0
      BY <2>1, <1>1
    <2> QED  BY <2>1, <2>2
  <1>8. ExtractType'
    <2>1. ReaderType'
      BY <1>1, <1>4, <1>5, <1>6 DEF ExtractInv, ExtractType, ReaderType
    <2>2. RequestType'
      BY <1>1, <1>2, <1>4, <1>5, <1>7 DEF ExtractInv, ExtractType, RequestType
    <2>3. TarType'
      BY <1>3, <1>5 DEF ExtractInv, ExtractType, TarType, Names, Paths
    <2> QED  BY <2>1, <2>2, <2>3 DEF ExtractType
  <1>9. InflaterInv'
    <2>1. ~gz.done
      BY <1>1 DEF ExtractInv, InflaterInv
    <2> QED  BY <2>1, <1>1, <1>5, <1>6 DEF InflaterInv
  <1>10. Unit(src + 1) # Zero /\ ~Begins(Unit(src + 1))
    BY <1>1 DEF Zero, Begins
  <1>11. WindowInv'
    <2>1. SUFFICES ASSUME NEW d \in 1..Window, d <= src + 1, gz.window[Back(gz.winPos, d)] = Zero
                   PROVE  Begins(Unit((src + 1) + 1 - d))
      <3> QED  BY <2>1, <1>1, <1>6 DEF WindowInv, Begins, Back, Unit
    <2>2. d \in Nat /\ d >= 1
      BY Sizes
    <2>3. CASE d = src + 1
      <3>1. (src + 1) + 1 - d = 1 /\ 1 <= Length
        BY <1>4, <2>3
      <3> QED  BY <3>1, <1>4, FirstUnitIs
    <2>4. CASE d # src + 1
      <3> DEFINE p == src + 1 - d
      <3>1. d <= src /\ p \in 1..Length /\ (src + 1) + 1 - d = p + 1 /\ p + 1 <= Length
        BY <1>4, <2>1, <2>2, <2>4
      <3>2. gz.window[Back(gz.winPos, d)] = Unit(p)
        BY <3>1, <1>1 DEF ExtractInv, WindowInv
      <3> HIDE DEF p
      <3> QED  BY <3>1, <3>2, <2>1, <1>4, AfterZero
    <2> QED  BY <2>3, <2>4
  <1>12. ~AllZero
    <2> DEFINE n == Len(buf)
    <2>1. n \in 1..n /\ src \in 1..Length /\ FirstUnit + n = src
      BY <1>4, <1>7 DEF FirstUnit
    <2>2. buf[n] = Unit(src)
      <3>1. \A j \in 1..n : buf[j] = Unit(FirstUnit + j)
        BY <1>1 DEF ExtractInv, BufferInv
      <3> HIDE DEF n
      <3> QED  BY <2>1, <3>1
    <2>3. Unit(src) # Zero
      BY <2>1, <1>4, <1>10, AfterZero
    <2> HIDE DEF n
    <2>4. buf[n] # Zero
      BY <2>2, <2>3
    <2> QED  BY <2>1, <2>4 DEF AllZero, n
  <1>13. ~AllZero'
    BY <1>2, <1>12 DEF AllZero
  <1>14. BufferInv'
    BY <1>1, <1>13 DEF BufferInv
  <1>15. Current' = Current
    BY <1>1, <1>3 DEF Current
  <1>16. FileInv => FileInv'
    BY <1>1, <1>2, <1>3, <1>5, <1>15 DEF FileInv, Paths
  <1>17. RequestInv'
    BY <1>1, <1>2, <1>3, <1>5, <1>15, <1>16 DEF ExtractInv, RequestInv
  <1>18. WholeInv'
    BY <1>1, <1>2, WholeStays DEF ExtractInv
  <1>19. StepInv'
    BY <1>1 DEF StepInv
  <1>20. ResultIsTrue'
    BY <1>1, <1>3 DEF ResultIsTrue
  <1> QED
    BY <1>8, <1>9, <1>11, <1>14, <1>17, <1>18, <1>19, <1>20 DEF ExtractInv

\* The program returns.
LEMMA QuitKeeps ==
    ASSUME ExtractInv, status = "none", status' \in {"ok", "refused", "fault"},
           UNCHANGED <<archive, kind, damaged, src, gz, pc, want, buf, rest>>, cut' \in BOOLEAN,
           longName' \in {longName, NoName},
           files' = IF pc = "data" THEN [files EXCEPT ![entry.path] = Absent] ELSE files,
           ResultIsTrue'
    PROVE  ExtractInv'
  <1>1. /\ Length' = Length /\ MemberCount' = MemberCount /\ Units' = Units /\ InflaterStates' = InflaterStates
        /\ \A n : Unit(n)' = Unit(n) /\ Mem(n)' = Mem(n)
    BY ArchiveStays
  <1>2. pc = "data" => entry.path \in Paths
    BY DEF ExtractInv, RequestInv, FileInv
  <1>3. files \in [Paths -> Seq(Units)] /\ Absent \in Seq(Units)
    BY DEF ExtractInv, ExtractType, TarType, Absent, Units, UnitsOf
  <1>4. files' \in [Paths -> Seq(Units)]
    BY <1>3
  <1>5. ReaderType' /\ RequestType' /\ TarType'
    BY <1>1, <1>4 DEF ExtractInv, ExtractType, ReaderType, RequestType, TarType, Names, Paths
  <1>6. InflaterInv'
    BY <1>1 DEF ExtractInv, InflaterInv, Unit
  <1>7. WindowInv'
    BY DEF ExtractInv, WindowInv, Back, Begins, Unit
  <1>8. BufferInv'
    BY <1>1 DEF ExtractInv, BufferInv, AllZero, Unit, FirstUnit
  <1>9. WholeInv'
    <2>1. ASSUME NEW p \in Paths PROVE files'[p] \in {Old, Absent} \/ Complete(files'[p])
      <3>1. CASE Writing(p)
        BY <3>1, <1>2, <1>3 DEF Writing
      <3>2. CASE ~Writing(p)
        <4>1. files'[p] \in {files[p], Absent}
          BY <1>3
        <4> QED  BY <3>2, <4>1 DEF ExtractInv, WholeInv
      <3> QED  BY <3>1, <3>2
    <2>2. ASSUME NEW p \in Paths, Complete(files'[p]) PROVE Complete(files[p])'
      BY <1>1, <2>2 DEF Complete
    <2> QED  BY <2>1, <2>2 DEF WholeInv, Old, Absent
  <1>10. RequestInv' /\ StepInv'
    BY DEF RequestInv, StepInv
  <1> QED
    BY <1>5, <1>6, <1>7, <1>8, <1>9, <1>10 DEF ExtractInv, ExtractType

\* What the loop waits for while it is inside a member is there.
LEMMA InsideMember ==
    ASSUME ExtractInv, status = "none", NEW k \in 0..MemberCount, Place(k), pc \in {"skip", "name", "data"}
    PROVE  src + want <= Length
  <1>1. archive \in Archives /\ src \in Nat /\ Length \in Nat /\ want \in Nat
    BY ReaderIs
  <1>2. MemberCount \in Nat /\ Upto(k) \in Nat /\ Upto(k) <= Upto(MemberCount) /\ MarkerUnits \in Nat
        /\ Upto(MemberCount) \in Nat /\ Length = Upto(MemberCount) + MarkerUnits
    BY <1>1, TapeIs, MembersAre
  <1>3. Upto(MemberCount) <= Length
    <2> DEFINE u == Upto(MemberCount)
               m == MarkerUnits
    <2>1. u \in Nat /\ m \in Nat /\ Length = u + m
      BY <1>2
    <2> HIDE DEF u, m
    <2>2. u <= Length
      BY <2>1
    <2> QED  BY <2>2 DEF u
  <1>4. Len(buf) \in Nat /\ FirstUnit = src - Len(buf)
    BY DEF ExtractInv, ExtractType, RequestType, FirstUnit
  <1>5. CASE pc = "skip"
    BY <1>1, <1>2, <1>3, <1>5 DEF Place
  <1>6. CASE pc \in {"name", "data"}
    <2> DEFINE b == Len(buf)
               l == Len(Mem(k + 1).data)
               u == Upto(k)
               v == Upto(k + 1)
               f == Len(files[entry.path])
    <2>1. k < MemberCount /\ entry.at = k + 1 /\ Current = Mem(k + 1) /\ Current.type # "zero"
      BY <1>6 DEF Place, Current, Mem, ExtractInv, RequestInv, FileInv
    <2>2. k \in 0..(MemberCount - 1)
      BY <2>1, <1>2
    <2>3. u \in Nat /\ v \in Nat /\ v <= Upto(MemberCount) /\ l \in Nat
          /\ v = u + BlockSize + Whole(l) /\ Whole(l) \in Nat /\ l <= Whole(l)
      BY <1>1, <2>1, <2>2, MemberReach
    <2>4. v <= Length
      BY <2>3, <1>2, <1>3
    <2>5. CASE pc = "name"
      <3>1. src - b = u + BlockSize /\ want + b = l
        BY <2>1, <2>5, <1>4 DEF Place
      <3> DEFINE w == Whole(l)
      <3>2. w \in Nat /\ l <= w /\ v = u + BlockSize + w
        BY <2>3
      <3> HIDE DEF b, l, u, v, w
      <3> QED
        BY <1>1, <1>4, <2>3, <2>4, <3>1, <3>2, Sizes DEF b
    <2>6. CASE pc = "data"
      <3>1. src - b = u + BlockSize + f
        BY <2>6, <1>4 DEF Place
      <3>2. want + b <= rest /\ f + rest = l /\ f \in Nat /\ rest \in Nat
        <4>1. FileInv /\ rest \in Nat /\ files \in [Paths -> Seq(Units)]
          BY <2>6 DEF ExtractInv, RequestInv, ExtractType, TarType
        <4> QED  BY <4>1, <2>1 DEF FileInv
      <3> DEFINE w == Whole(l)
      <3>3. w \in Nat /\ l <= w /\ v = u + BlockSize + w
        BY <2>3
      <3> HIDE DEF b, l, u, v, f, w
      <3> QED
        BY <1>1, <1>4, <2>3, <2>4, <3>1, <3>2, <3>3, Sizes DEF b
    <2> QED  BY <1>6, <2>5, <2>6
  <1> QED
    BY <1>5, <1>6

\* An archive that was read to its end was in the loop's hands, too.
LEMMA AtTheEnd ==
    ASSUME ExtractInv, status = "none", want > 0, ~damaged, src = Length
    PROVE  /\ pc \in {"header", "second"} /\ buf = <<>>
           /\ ~NameForgotten => DiskPlace(MemberCount)
  <1>1. archive \in Archives /\ src \in Nat /\ Length \in Nat /\ want \in Nat
    BY ReaderIs
  <1>2. PICK k \in 0..MemberCount : Place(k) /\ (~NameForgotten => DiskPlace(k))
    BY DEF ExtractInv, StepInv
  <1>3. pc \in {"header", "second"}
    <2>1. ~(src + want <= Length)
      BY <1>1
    <2>2. pc \notin {"skip", "name", "data"}
      BY <1>2, <2>1, InsideMember
    <2>3. pc # "open"
      BY <1>1 DEF ExtractInv, RequestInv
    <2> QED  BY <2>2, <2>3 DEF ExtractInv, ExtractType, RequestType
  <1> DEFINE b == Len(buf)
             n == Upto(MemberCount)
             m == MarkerUnits
             u == Upto(k)
  <1>4. buf \in Seq(Units) /\ b \in Nat /\ want + b = BlockSize /\ FirstUnit = src - b
    BY <1>3 DEF ExtractInv, RequestInv, ExtractType, RequestType, FirstUnit
  <1>5. MemberCount \in Nat /\ n \in Nat /\ m \in Nat /\ u \in Nat /\ Length = n + m
    BY <1>1, TapeIs, MembersAre
  <1>6. b < BlockSize /\ BlockSize \in Nat
    BY <1>1, <1>4, Sizes
  <1>7. FirstUnit = u => k = MemberCount
    <2>1. SUFFICES ASSUME FirstUnit = u, k # MemberCount PROVE FALSE
      OBVIOUS
    <2>2. k \in 0..(MemberCount - 1)
      BY <2>1, <1>5
    <2>3. u + BlockSize <= Upto(k + 1) /\ Upto(k + 1) <= n /\ Upto(k + 1) \in Nat
      BY <1>1, <2>2, MemberReach
    <2>4. src - b = u
      BY <2>1, <1>4
    <2> DEFINE v == Upto(k + 1)
    <2>5. u + BlockSize <= v /\ v <= n /\ v \in Nat
      BY <2>3
    <2> HIDE DEF b, n, m, u, v
    <2> QED  BY <2>4, <2>5, <1>1, <1>4, <1>5, <1>6
  <1>8. k = MemberCount /\ b = 0
    <2>1. CASE FirstUnit = u
      <3>1. k = MemberCount
        BY <2>1, <1>7
      <3>2. u = n
        BY <3>1
      <3>3. m = b
        <4>1. src - b = n
          BY <2>1, <3>2, <1>4
        <4> HIDE DEF b, n, m, u
        <4> QED  BY <4>1, <1>1, <1>4, <1>5
      <3>4. m < BlockSize
        BY <3>3, <1>6
      <3>5. archive.marker \in Nat /\ (archive.marker = 0 => m = 0) /\ (archive.marker >= 1 => m >= BlockSize)
        BY <1>1, MarkerIs
      <3> HIDE DEF m, b
      <3>6. m = 0
        BY <3>4, <3>5, <1>5, <1>6
      <3> QED  BY <3>1, <3>3, <3>6
    <2>2. CASE pc = "second" /\ k >= 1 /\ Mem(k).type = "zero" /\ FirstUnit = Upto(k)
      <3>1. k = MemberCount
        BY <2>2, <1>7
      <3>2. k \in 1..MemberCount
        BY <2>2, <1>5
      <3> QED  BY <3>1, <3>2, <2>2, <1>1, MembersAre
    <2>3. CASE pc = "second" /\ k = MemberCount /\ archive.marker >= 1 /\ FirstUnit = Upto(k) + BlockSize
      <3>1. src - b = n + BlockSize
        BY <2>3, <1>4
      <3>2. archive.marker \in Nat /\ (archive.marker = 1 => m = BlockSize)
            /\ (archive.marker >= 2 => m >= BlockSize + BlockSize)
        BY <1>1, MarkerIs
      <3> HIDE DEF b, n, m, u
      <3>3. m = b + BlockSize
        BY <3>1, <1>1, <1>4, <1>5, <1>6
      <3>4. ~(archive.marker >= 2)
        BY <3>2, <3>3, <1>4, <1>6
      <3>5. archive.marker = 1
        BY <3>2, <3>4, <2>3
      <3> QED  BY <2>3, <3>2, <3>3, <3>5, <1>4, <1>6
    <2> QED  BY <2>1, <2>2, <2>3, <1>2, <1>3 DEF Place
  <1>9. buf = <<>>
    BY <1>4, <1>8
  <1> QED
    BY <1>2, <1>3, <1>8, <1>9

\* All of the archive is below the destination.
LEMMA AllThere ==
    ASSUME ExtractInv, pc # "data", DiskPlace(MemberCount)
    PROVE  files = Expected /\ {Clean(NameOf(i)) : i \in Of("dir")} \subseteq dirs
  <1>1. archive \in Archives
    BY ReaderIs
  <1>2. MemberCount \in Nat /\ DOMAIN archive.members = 1..MemberCount
    BY <1>1, MembersAre
  <1>3. \A t : \A i \in Of(t) : i <= MemberCount
    BY <1>2 DEF Of
  <1>4. ASSUME NEW p \in Paths PROVE files[p] = Expected[p]
    <2>1. FilesUpto(MemberCount, p) = FilesAt(p)
      BY <1>3 DEF FilesUpto, FilesAt
    <2>2. files[p] = FileUpto(MemberCount, p)
      BY <1>4 DEF DiskPlace, Writing
    <2> QED  BY <2>1, <2>2, <1>4 DEF FileUpto, Expected, Mem
  <1>5. files \in [Paths -> Seq(Units)]
    BY DEF ExtractInv, ExtractType, TarType
  <1>6. files = Expected
    <2> DEFINE e == Expected
    <2>1. e = [p \in Paths |-> e[p]]
      BY DEF Expected
    <2>2. \A p \in Paths : files[p] = e[p]
      BY <1>4
    <2> HIDE DEF e
    <2>3. files = e
      BY <2>1, <2>2, <1>5
    <2> QED  BY <2>3 DEF e
  <1>7. \A i \in Of("dir") : Clean(NameOf(i)) \in dirs
    BY <1>3 DEF DiskPlace
  <1> QED
    BY <1>6, <1>7

\* What a result has to say.
LEMMA ResultStays ==
    ASSUME archive' = archive, damaged' = damaged,
           status' = "ok" => \/ cut' \/ NameForgotten \/ (damaged /\ archive.marker >= 2)
                             \/ /\ files' = files /\ dirs' = dirs
                                /\ files = Expected /\ {Clean(NameOf(i)) : i \in Of("dir")} \subseteq dirs,
           status' = "refused" => damaged \/ Unusable
    PROVE  ResultIsTrue'
  <1>1. Expected' = Expected /\ NameForgotten' = NameForgotten /\ Unusable' = Unusable
    BY ArchiveStays
  <1> DEFINE S == {Clean(NameOf(i)) : i \in Of("dir")}
  <1>2. S' = S
    <2>1. Of("dir")' = Of("dir") /\ \A i : NameOf(i)' = NameOf(i)
      BY ArchiveStays
    <2>2. \A i : Clean(NameOf(i))' = Clean(NameOf(i))
      BY <2>1
    <2> QED  BY <2>1, <2>2
  <1>3. /\ status' = "ok" => \/ cut' \/ NameForgotten \/ (damaged /\ archive.marker >= 2)
                             \/ (files' = files /\ dirs' = dirs /\ files = Expected /\ S \subseteq dirs)
        /\ status' = "refused" => damaged \/ Unusable
    OBVIOUS
  <1>4. SUFFICES /\ status' = "ok" /\ ~cut' /\ ~NameForgotten' /\ ~(damaged' /\ archive'.marker >= 2) =>
                        files' = Expected' /\ S' \subseteq dirs'
                 /\ status' = "refused" => damaged' \/ Unusable'
    BY DEF ResultIsTrue
  <1> HIDE DEF S
  <1> QED
    BY <1>1, <1>2, <1>3

\* What Stops and Ends change.
LEMMA StopsIs ==
    ASSUME NEW s, Stops(s)
    PROVE  /\ status' = s /\ dirs' = dirs
           /\ files' = IF pc = "data" THEN [files EXCEPT ![entry.path] = Absent] ELSE files
           /\ UNCHANGED <<archive, kind, damaged, src, gz, pc, want, buf, rest, longName, entry>>
  BY DEF Stops, request

\* A read fails.
LEMMA ReadFailsKeeps == ASSUME ExtractInv, ReadFails PROVE ExtractInv'
  <1>1. status = "none" /\ Stops("fault") /\ cut' = cut
    BY DEF ReadFails, Asked
  <1>2. status' = "fault"
    BY <1>1, StopsIs
  <1>3. ResultIsTrue'
    BY <1>2 DEF ResultIsTrue
  <1>4. cut' \in BOOLEAN
    BY <1>1 DEF ExtractInv, ExtractType, ReaderType
  <1> QED
    BY <1>1, <1>2, <1>3, <1>4, StopsIs, QuitKeeps

\* A plain archive is over.
LEMMA RawEndKeeps == ASSUME ExtractInv, RawEnd PROVE ExtractInv'
  <1> DEFINE t == IF cut' THEN "fault" ELSE "refused"
             s == IF pc \in {"header", "second"} /\ buf = <<>> THEN "ok" ELSE t
  <1>1. status = "none" /\ want > 0 /\ kind = "raw" /\ cut' = (src < Length) /\ Stops(s)
    BY DEF RawEnd, Asked, Ends
  <1>2. src \in Nat /\ Length \in Nat /\ src <= Length
    BY ReaderIs
  <1>3. ~damaged
    BY <1>1 DEF ExtractInv, InflaterInv
  <1>4. /\ status' = s /\ dirs' = dirs
        /\ files' = IF pc = "data" THEN [files EXCEPT ![entry.path] = Absent] ELSE files
        /\ UNCHANGED <<archive, kind, damaged, src, gz, pc, want, buf, rest, longName, entry>>
    BY <1>1, StopsIs
  <1>5. ASSUME ~cut'
        PROVE  /\ pc \in {"header", "second"} /\ buf = <<>>
               /\ ~NameForgotten => files = Expected /\ {Clean(NameOf(i)) : i \in Of("dir")} \subseteq dirs
    <2>1. src = Length
      <3>1. cut' = (src < Length)
        BY <1>1
      <3>2. ~(src < Length)
        BY <3>1, <1>5
      <3> QED  BY <3>2, <1>2
    <2>2. /\ pc \in {"header", "second"} /\ buf = <<>>
          /\ ~NameForgotten => DiskPlace(MemberCount)
      BY <2>1, <1>1, <1>3, AtTheEnd
    <2> QED  BY <2>2, AllThere
  <1>6. ResultIsTrue'
    <2>1. status' = "ok" => \/ cut' \/ NameForgotten
                            \/ /\ files' = files /\ dirs' = dirs
                               /\ files = Expected /\ {Clean(NameOf(i)) : i \in Of("dir")} \subseteq dirs
      BY <1>4, <1>5
    <2>2. status' # "refused"
      BY <1>4, <1>5
    <2> QED  BY <2>1, <2>2, <1>4, ResultStays
  <1>7. cut' \in BOOLEAN /\ status' \in {"ok", "refused", "fault"}
    BY <1>1, <1>4
  <1> QED
    BY <1>1, <1>4, <1>6, <1>7, QuitKeeps

\* A compressed one is over.
LEMMA TrailerKeeps == ASSUME ExtractInv, Trailer PROVE ExtractInv'
  <1> DEFINE s == IF gz.good /\ pc \in {"header", "second"} /\ buf = <<>> THEN "ok" ELSE "refused"
  <1>1. status = "none" /\ want > 0 /\ gz.done /\ cut' = cut /\ Stops(s)
    BY DEF Trailer, Inflating, Asked, Ends
  <1>2. (gz.good <=> ~damaged) /\ src = Length
    BY <1>1 DEF ExtractInv, InflaterInv
  <1>4. /\ status' = s /\ dirs' = dirs
        /\ files' = IF pc = "data" THEN [files EXCEPT ![entry.path] = Absent] ELSE files
        /\ UNCHANGED <<archive, kind, damaged, src, gz, pc, want, buf, rest, longName, entry>>
    BY <1>1, StopsIs
  <1>5. ASSUME ~damaged
        PROVE  /\ pc \in {"header", "second"} /\ buf = <<>>
               /\ ~NameForgotten => files = Expected /\ {Clean(NameOf(i)) : i \in Of("dir")} \subseteq dirs
    <2>2. /\ pc \in {"header", "second"} /\ buf = <<>>
          /\ ~NameForgotten => DiskPlace(MemberCount)
      BY <1>1, <1>2, <1>5, AtTheEnd
    <2> QED  BY <2>2, AllThere
  <1>6. ResultIsTrue'
    <2>1. status' = "ok" => \/ NameForgotten
                            \/ /\ files' = files /\ dirs' = dirs
                               /\ files = Expected /\ {Clean(NameOf(i)) : i \in Of("dir")} \subseteq dirs
      BY <1>2, <1>4, <1>5
    <2>2. status' = "refused" => damaged
      BY <1>2, <1>4, <1>5
    <2> QED  BY <2>1, <2>2, <1>4, ResultStays
  <1>7. cut' \in BOOLEAN /\ status' \in {"ok", "refused", "fault"}
    BY <1>1, <1>4 DEF ExtractInv, ExtractType, ReaderType
  <1> QED
    BY <1>1, <1>4, <1>6, <1>7, QuitKeeps

\* Two zero blocks are the end: no member looks like them, damaged or not.
LEMMA SecondZeroKeeps == ASSUME ExtractInv, SecondZero PROVE ExtractInv'
  <1>1. /\ status = "none" /\ want = 0 /\ pc = "second" /\ buf = Zeros(BlockSize) /\ status' = "ok"
        /\ UNCHANGED <<archive, kind, cut, damaged, src, gz, pc, want, buf, rest, longName, files, dirs>>
    BY DEF SecondZero, Has, IsZeroBlock, Quits, reader, request, disk
  <1>2. /\ archive \in Archives /\ src \in Nat /\ Length \in Nat /\ src <= Length /\ damaged \in BOOLEAN
        /\ BlockSize \in Nat /\ BlockSize >= 1
    BY ReaderIs, Sizes
  <1> DEFINE f == FirstUnit
  <1>3. Len(buf) = BlockSize /\ AllZero
    <2> DEFINE z == Zeros(BlockSize)
    <2>1. Len(z) = BlockSize /\ \A j \in 1..BlockSize : z[j] = Zero
      BY <1>2, ZerosAre
    <2> HIDE DEF z
    <2> QED  BY <1>1, <2>1 DEF AllZero, z
  <1>4. f = src - BlockSize /\ f >= BlockSize
        /\ (\A j \in 1..BlockSize : Unit(f - BlockSize + j) = Zero)
        /\ \A j \in 1..BlockSize : Unit(f + j) = Zero
    BY <1>1, <1>3 DEF ExtractInv, BufferInv, FirstUnit
  <1> HIDE DEF f
  <1>5. damaged => archive.marker >= 2
    <2>1. SUFFICES ASSUME ~(archive.marker >= 2) PROVE FALSE
      OBVIOUS
    <2>2. archive.marker <= 1
      BY <2>1, <1>2, MarkerIs
    <2> DEFINE q == f - BlockSize
    <2>3. q \in Nat /\ q + 2 * BlockSize <= Length
      BY <1>2, <1>4
    <2>4. ASSUME NEW j \in 1..(2 * BlockSize) PROVE Unit(q + j) = Zero
      <3>1. CASE j \in 1..BlockSize
        BY <3>1, <1>4
      <3>2. CASE j \notin 1..BlockSize
        <4>1. j - BlockSize \in 1..BlockSize /\ f + (j - BlockSize) = f - BlockSize + j
          BY <3>2, <1>2, <1>4
        <4>2. Unit(f + (j - BlockSize)) = Zero
          BY <4>1, <1>4
        <4> QED  BY <4>1, <4>2
      <3> QED  BY <3>1, <3>2
    <2> HIDE DEF q
    <2> QED  BY <2>2, <2>3, <2>4, <1>2, NoRun
  <1>6. ASSUME ~damaged, ~NameForgotten
        PROVE  files = Expected /\ {Clean(NameOf(i)) : i \in Of("dir")} \subseteq dirs
    <2>1. PICK k \in 0..MemberCount : Place(k) /\ DiskPlace(k)
      BY <1>1, <1>6 DEF ExtractInv, StepInv
    <2>2. MemberCount \in Nat /\ Upto(k) \in Nat
      BY <1>2, TapeIs, MembersAre
    <2>3. k = MemberCount
      <3>1. CASE k >= 1 /\ Mem(k).type = "zero" /\ f = Upto(k)
        <4>1. k \in 1..MemberCount
          BY <3>1, <2>2
        <4>2. k < MemberCount /\ Mem(k + 1).type # "zero"
          BY <4>1, <3>1, <1>2, MembersAre
        <4>3. 1 \in 1..BlockSize /\ Upto(k) < Length
          BY <1>2, <1>4, <3>1, <2>2
        <4>4. Unit(Upto(k) + 1) = Zero
          BY <4>3, <3>1, <1>4
        <4> QED  BY <4>2, <4>3, <4>4, <1>2, FirstIs
      <3> QED  BY <3>1, <2>1, <1>1 DEF Place, f
    <2> QED  BY <2>1, <2>3, <1>1, AllThere
  <1>7. ResultIsTrue'
    BY <1>1, <1>5, <1>6, ResultStays
  <1>8. cut' \in BOOLEAN
    BY <1>1 DEF ExtractInv, ExtractType, ReaderType
  <1> QED
    BY <1>1, <1>7, <1>8, QuitKeeps

----------------------------------------------------------------------------
(* The loop.                                                               *)

\* A header that the loop looks at.
LEMMA HeaderType ==
    ASSUME ExtractInv, AtHeader
    PROVE  /\ status = "none" /\ want = 0 /\ pc \in {"header", "second"}
           /\ Len(buf) = BlockSize /\ 1 \in 1..BlockSize /\ FirstUnit = src - BlockSize /\ ~AllZero
           /\ Size \in Nat
           /\ Header.type # "broken" => buf[1][2] \in 1..MemberCount /\ Header = Mem(buf[1][2])
  <1>1. status = "none" /\ want = 0 /\ pc \in {"header", "second"} /\ buf # Zeros(BlockSize)
    BY DEF AtHeader, Has, IsZeroBlock
  <1>2. buf \in Seq(Units) /\ Len(buf) = BlockSize
    <2>1. buf \in Seq(Units) /\ want + Len(buf) = BlockSize
      BY <1>1 DEF ExtractInv, ExtractType, RequestType, RequestInv
    <2> QED  BY <2>1, <1>1
  <1>3. 1 \in 1..BlockSize
    BY Sizes
  <1>4. ~AllZero
    <2>1. SUFFICES ASSUME AllZero PROVE FALSE
      OBVIOUS
    <2>2. \A j \in 1..BlockSize : buf[j] = Zero
      BY <2>1, <1>2 DEF AllZero
    <2>3. buf = [j \in 1..BlockSize |-> buf[j]]
      BY <1>2
    <2>4. buf = Zeros(BlockSize)
      BY <2>2, <2>3 DEF Zeros
    <2> QED  BY <2>4, <1>1
  <1>5. buf[1] \in Units
    BY <1>2, <1>3
  <1>6. buf[1][1] = "header" => buf[1][2] \in 1..MemberCount
    BY <1>5 DEF Units, UnitsOf
  <1>7. archive \in Archives
    BY ReaderIs
  <1>8. CASE buf[1][1] = "header"
    <2>1. Header = Mem(buf[1][2])
      BY <1>8 DEF Header, Mem
    <2>2. Len(Mem(buf[1][2]).data) \in Nat
      BY <1>6, <1>7, <1>8, MembersAre
    <2>3. Size \in Nat
      BY <2>1, <2>2 DEF Size
    <2> QED  BY <2>1, <2>3, <1>1, <1>2, <1>3, <1>4, <1>6, <1>8 DEF FirstUnit
  <1>9. CASE buf[1][1] # "header"
    <2>1. Header = Broken
      BY <1>9 DEF Header
    <2>2. Size = 0 /\ Header.type = "broken"
      BY <2>1 DEF Size, Broken
    <2> QED  BY <2>2, <1>1, <1>2, <1>3, <1>4 DEF FirstUnit
  <1> QED
    BY <1>8, <1>9

\* Where nothing is damaged it is the next one.
LEMMA InStep ==
    ASSUME ExtractInv, AtHeader, ~damaged, NEW k \in 0..MemberCount, Place(k)
    PROVE  /\ k \in 0..(MemberCount - 1) /\ k + 1 \in 1..MemberCount /\ k + 1 \in 0..MemberCount
           /\ Mem(k + 1).type # "zero" /\ buf[1] = <<"header", k + 1>> /\ Header = Mem(k + 1)
           /\ Size = Len(Mem(k + 1).data)
           /\ src = Upto(k) + BlockSize /\ src + Whole(Size) = Upto(k + 1)
  <1>1. archive \in Archives /\ src \in Nat /\ Length \in Nat /\ src <= Length
        /\ BlockSize \in Nat /\ BlockSize >= 1
    BY ReaderIs, Sizes
  <1>2. status = "none" /\ want = 0 /\ pc \in {"header", "second"}
        /\ Len(buf) = BlockSize /\ 1 \in 1..BlockSize /\ FirstUnit = src - BlockSize /\ ~AllZero
    BY HeaderType
  <1> DEFINE f == FirstUnit
             u == Upto(k)
             n == Upto(MemberCount)
  <1>3. \A j \in 1..BlockSize : buf[j] = Unit(f + j)
    BY <1>2 DEF ExtractInv, BufferInv
  <1>4. ~(\A j \in 1..BlockSize : Unit(f + j) = Zero)
    BY <1>2, <1>3 DEF AllZero
  <1>5. MemberCount \in Nat /\ u \in Nat /\ n \in Nat /\ \A p \in (n + 1)..Length : Unit(p) = Zero
    BY <1>1, TapeIs, MembersAre
  <1>6. f = src - BlockSize
    BY <1>2
  <1> HIDE DEF f
  <1>7. ~(f >= n)
    <2>1. SUFFICES ASSUME f >= n, NEW j \in 1..BlockSize PROVE Unit(f + j) = Zero
      BY <1>4
    <2> HIDE DEF n
    <2>2. f + j \in (n + 1)..Length
      BY <2>1, <1>1, <1>5, <1>6
    <2> QED  BY <2>2, <1>5
  <1>8. f = u
    <2>1. f = u \/ (k = MemberCount /\ f = u + BlockSize)
      BY <1>2 DEF Place, f
    <2>2. ASSUME k = MemberCount, f = u + BlockSize PROVE FALSE
      <3>1. f = n + BlockSize
        BY <2>2
      <3> HIDE DEF n
      <3>2. f >= n
        BY <3>1, <1>1, <1>5
      <3> QED  BY <3>2, <1>7
    <2> QED  BY <2>1, <2>2
  <1>9. k # MemberCount
    <2>1. SUFFICES ASSUME k = MemberCount PROVE FALSE
      OBVIOUS
    <2>2. f = n
      BY <2>1, <1>8
    <2> HIDE DEF n
    <2> QED  BY <2>2, <1>5, <1>7
  <1>10. k \in 0..(MemberCount - 1)
    BY <1>5, <1>9
  <1>11. Content(k)
    BY <1>1, <1>10, TapeIs
  <1>12. Mem(k + 1).type # "zero"
    BY <1>4, <1>8, <1>11 DEF Content
  <1>13. buf[1] = <<"header", k + 1>>
    BY <1>2, <1>3, <1>8, <1>11, <1>12 DEF Content
  <1>14. Header = Mem(k + 1)
    BY <1>13 DEF Header, Mem
  <1>15. src = u + BlockSize
    <2> HIDE DEF u
    <2> QED  BY <1>1, <1>5, <1>6, <1>8
  <1>16. Upto(k + 1) = u + BlockSize + Whole(Len(Mem(k + 1).data)) /\ k + 1 \in 1..MemberCount /\ k + 1 \in 0..MemberCount
    BY <1>1, <1>10, <1>12, MemberReach
  <1> QED
    BY <1>10, <1>12, <1>13, <1>14, <1>15, <1>16 DEF Size

\* The name that waits, and the files, one member further on.
LEMMA PendingNext ==
    ASSUME archive \in Archives, NEW k \in 0..(MemberCount - 1)
    PROVE  /\ Mem(k + 1).type \in Entries => Pending(k + 1) = NoName
           /\ Mem(k + 1).type \notin Entries /\ Mem(k + 1).path = NoName => Pending(k + 1) = Pending(k)
           /\ Mem(k + 1).path # NoName => Pending(k + 1) = Mem(k + 1).path
  <1>1. MemberCount \in Nat /\ k \in Nat /\ k + 1 \in 1..MemberCount /\ \A j \in 1..(k + 1) : j \in 1..k \/ j = k + 1
    BY MembersAre
  <1>2. Mem(k + 1).path # NoName => Mem(k + 1).type \notin Entries
    <2>1. Mem(k + 1).path # NoName => Mem(k + 1).type \in {"long", "pax"}
      BY <1>1, MembersAre
    <2> QED  BY <2>1 DEF Entries
  <1>3. ASSUME Mem(k + 1).type \in Entries PROVE Pending(k + 1) = NoName
    <2>1. \A j \in 1..(k + 1) : k + 1 \in j..(k + 1)
      BY <1>1
    <2>2. Spelled(k + 1) = {}
      BY <2>1, <1>3 DEF Spelled
    <2> QED  BY <2>2 DEF Pending
  <1>4. ASSUME Mem(k + 1).type \notin Entries
        PROVE  \A j \in 1..k : (\A l \in j..k : Mem(l).type \notin Entries)
                                  <=> \A l \in j..(k + 1) : Mem(l).type \notin Entries
    <2> TAKE j \in 1..k
    <2>1. (\A l \in j..k : l \in j..(k + 1)) /\ \A l \in j..(k + 1) : l \in j..k \/ l = k + 1
      BY <1>1
    <2> QED  BY <2>1, <1>4
  <1>5. \A j \in 1..k : j \in 1..(k + 1)
    BY <1>1
  <1>6. ASSUME Mem(k + 1).type \notin Entries, Mem(k + 1).path = NoName PROVE Pending(k + 1) = Pending(k)
    <2>1. Spelled(k + 1) = Spelled(k)
      BY <1>1, <1>4, <1>5, <1>6 DEF Spelled
    <2> QED  BY <2>1 DEF Pending
  <1>7. ASSUME Mem(k + 1).path # NoName PROVE Pending(k + 1) = Mem(k + 1).path
    <2> DEFINE S == Spelled(k + 1)
    <2>1. \A l \in (k + 1)..(k + 1) : l = k + 1
      BY <1>1
    <2>2. k + 1 \in 1..(k + 1)
      BY <1>1
    <2>3. k + 1 \in S
      BY <2>1, <2>2, <1>2, <1>7 DEF Spelled
    <2>4. S \in SUBSET (1..(k + 1))
      BY DEF Spelled
    <2> HIDE DEF S
    <2>5. k + 1 \in Nat /\ \A y \in S : y <= k + 1
      BY <2>4, <1>1
    <2>6. Max(S) = k + 1
      BY <2>3, <2>4, <2>5, LastIsLargest
    <2> QED  BY <2>3, <2>6 DEF Pending, S
  <1> QED
    BY <1>3, <1>6, <1>7

\* The same for what is at a path.
LEMMA FilesNext ==
    ASSUME archive \in Archives, NEW k \in 0..(MemberCount - 1), NEW p
    PROVE  /\ k + 1 \notin FilesAt(p) => FileUpto(k + 1, p) = FileUpto(k, p)
           /\ k + 1 \in FilesAt(p) => FileUpto(k + 1, p) = DataOf(Mem(k + 1))
  <1>1. MemberCount \in Nat /\ k \in Nat /\ DOMAIN archive.members = 1..MemberCount
    BY MembersAre
  <1>2. FilesAt(p) \subseteq 1..MemberCount
    BY <1>1 DEF FilesAt, Of
  <1>3. ASSUME k + 1 \notin FilesAt(p) PROVE FileUpto(k + 1, p) = FileUpto(k, p)
    <2>1. \A i \in FilesAt(p) : i <= k + 1 <=> i <= k
      BY <1>1, <1>2, <1>3
    <2>2. FilesUpto(k + 1, p) = FilesUpto(k, p)
      BY <2>1 DEF FilesUpto
    <2> QED  BY <2>2 DEF FileUpto
  <1>4. ASSUME k + 1 \in FilesAt(p) PROVE FileUpto(k + 1, p) = DataOf(Mem(k + 1))
    <2> DEFINE S == FilesUpto(k + 1, p)
    <2>1. S \in SUBSET (1..(k + 1))
      BY <1>1, <1>2 DEF FilesUpto
    <2>2. k + 1 \in S
      BY <1>1, <1>4 DEF FilesUpto
    <2> HIDE DEF S
    <2>3. k + 1 \in Nat /\ \A y \in S : y <= k + 1
      BY <2>1, <1>1
    <2>4. Max(S) = k + 1
      BY <2>1, <2>2, <2>3, LastIsLargest
    <2> QED  BY <2>2, <2>4 DEF FileUpto, S
  <1> QED
    BY <1>3, <1>4

\* The name an entry is given.
LEMMA NameIs ==
    ASSUME archive \in Archives, NEW k \in 0..(MemberCount - 1), Header = Mem(k + 1)
    PROVE  /\ longName = Pending(k) => Name = NameOf(k + 1)
           /\ longName = NoName => Name = Mem(k + 1).name
  <1>1. MemberCount \in Nat /\ k \in Nat /\ (k + 1) - 1 = k /\ k \in 0..MemberCount
    BY MembersAre
  <1> DEFINE S == Spelled(k)
  <1>2. NameOf(k + 1) = IF S = {} THEN Mem(k + 1).name ELSE Mem(Max(S)).path
    BY <1>1 DEF NameOf, Spelled, Mem
  <1>3. Pending(k) = IF S = {} THEN NoName ELSE Mem(Max(S)).path
    BY DEF Pending
  <1>4. S # {} => Mem(Max(S)).path # NoName
    <2>1. S \in SUBSET (1..k) /\ \A j \in S : Mem(j).path # NoName
      BY DEF Spelled
    <2> HIDE DEF S
    <2> QED  BY <2>1, <1>1, LastOf
  <1> HIDE DEF S
  <1> QED
    BY <1>2, <1>3, <1>4 DEF Name

\* An entry's path is one of those that there are.
LEMMA PathIs ==
    ASSUME ExtractInv, AtHeader, Header.type \in Entries, ~Skipped
    PROVE  Path \in Paths
  <1>1. archive \in Archives
    BY ReaderIs
  <1> DEFINE i == buf[1][2]
  <1>2. i \in 1..MemberCount /\ Header = Mem(i)
    BY HeaderType DEF Entries
  <1>3. Mem(i).name # NoName
    BY <1>1, <1>2, MembersAre
  <1>4. Mem(i).name \in Names
    <2>1. Mem(i) \in ToSet(archive.members)
      BY <1>1, <1>2, MembersAre DEF ToSet, Mem
    <2> QED  BY <2>1, <1>1 DEF Names
  <1>5. longName = NoName \/ longName \in Names
    BY DEF ExtractInv, ExtractType, TarType
  <1> HIDE DEF i
  <1>6. Name \in Names /\ Name # NoName
    BY <1>2, <1>3, <1>4, <1>5 DEF Name
  <1> QED
    BY <1>6 DEF Skipped, Path, Paths

\* The loop asks for something else.
LEMMA MoveKeeps ==
    ASSUME ExtractInv, UNCHANGED reader, status' = "none",
           buf' = <<>>, want' \in Nat, pc' \in {"header", "second", "skip", "name", "data"},
           pc' = "second" => src >= BlockSize /\ \A j \in 1..BlockSize : Unit(src - BlockSize + j) = Zero,
           TarType', RequestInv', WholeInv', StepInv'
    PROVE  ExtractInv'
  <1>1. UNCHANGED <<archive, kind, cut, damaged, src, gz>>
    BY DEF reader
  <1>2. /\ Length' = Length /\ Units' = Units /\ InflaterStates' = InflaterStates
        /\ \A n : Unit(n)' = Unit(n)
    BY <1>1, ArchiveStays
  <1>3. ReaderType'
    BY <1>1, <1>2 DEF ExtractInv, ExtractType, ReaderType
  <1>4. src \in Nat
    BY ReaderIs
  <1>5. buf' \in Seq(Units) /\ Len(buf') = 0 /\ FirstUnit' = src
    <2>1. FirstUnit' = src - Len(buf') /\ buf' = <<>>
      BY <1>1 DEF FirstUnit
    <2> QED  BY <2>1, <1>4
  <1>6. RequestType'
    BY <1>1, <1>2, <1>4, <1>5 DEF RequestType
  <1>7. InflaterInv'
    BY <1>1, <1>2 DEF ExtractInv, InflaterInv, Unit
  <1>8. WindowInv'
    BY <1>1 DEF ExtractInv, WindowInv, Back, Begins, Unit
  <1>9. BufferInv'
    <2>1. \A j \in 1..Len(buf') : FALSE
      BY <1>5
    <2>2. \A j : Unit(FirstUnit - BlockSize + j)' = Unit(src - BlockSize + j)
      BY <1>1, <1>5 DEF Unit
    <2> QED  BY <2>1, <2>2, <1>5 DEF BufferInv
  <1>10. ResultIsTrue'
    BY DEF ResultIsTrue
  <1> QED
    BY <1>3, <1>6, <1>7, <1>8, <1>9, <1>10 DEF ExtractInv, ExtractType

\* Every file but one that is written is the old one, gone or whole.
LEMMA NoneWritten ==
    ASSUME ExtractInv, pc # "data"
    PROVE  \A p \in Paths : files[p] \in {Old, Absent} \/ Complete(files[p])
  BY DEF ExtractInv, WholeInv, Writing

\* It goes on with a header, or with what is in front of one.
LEMMA ThenHeaderKeeps ==
    ASSUME ExtractInv, UNCHANGED reader, status' = "none", files' = files, rest' = rest,
           NEW n \in Nat, ThenHeader(n), longName' = NoName \/ longName' \in Names,
           \A p \in Paths : files[p] \in {Old, Absent} \/ Complete(files[p]),
           ~damaged => \E k \in 0..MemberCount :
               /\ src + n = Upto(k)
               /\ longName' = Pending(k) \/ (longName' = NoName /\ NameForgotten)
               /\ ~NameForgotten => /\ \A p \in Paths : files[p] = FileUpto(k, p)
                                    /\ \A i \in Of("dir") : i <= k => Clean(NameOf(i)) \in dirs'
    PROVE  ExtractInv'
  <1>1. UNCHANGED <<archive, kind, cut, damaged, src, gz>>
    BY DEF reader
  <1>2. src \in Nat /\ BlockSize \in Nat /\ BlockSize >= 1
    BY ReaderIs, Sizes
  <1>3. /\ buf' = <<>> /\ Len(buf') = 0 /\ want' \in Nat
        /\ \/ n = 0 /\ pc' = "header" /\ want' = BlockSize
           \/ n # 0 /\ pc' = "skip" /\ want' = n
    BY <1>2 DEF ThenHeader, Reads
  <1>4. /\ MemberCount' = MemberCount /\ Units' = Units /\ NameForgotten' = NameForgotten
        /\ \A i : Mem(i)' = Mem(i) /\ Upto(i)' = Upto(i) /\ NameOf(i)' = NameOf(i)
        /\ \A i : Pending(i)' = Pending(i)
        /\ \A i, p : FileUpto(i, p)' = FileUpto(i, p)
        /\ Of("dir")' = Of("dir")
    BY <1>1, ArchiveStays
  <1>5. TarType'
    BY <1>4 DEF ExtractInv, ExtractType, TarType, Names, Paths
  <1>6. RequestInv'
    <2>1. pc' # "open" /\ pc' # "name" /\ pc' # "data" /\ pc' # "second"
      BY <1>3
    <2>2. pc' = "header" => want' + Len(buf') = BlockSize
      BY <1>2, <1>3
    <2> QED  BY <2>1, <2>2 DEF RequestInv
  <1>7. WholeInv'
    <2>1. ASSUME NEW p \in Paths, Complete(files[p]) PROVE Complete(files[p])'
      BY <1>1, <1>4, <2>1 DEF Complete
    <2> QED  BY <2>1 DEF WholeInv, Old, Absent
  <1>8. StepInv'
    <2>1. SUFFICES ASSUME ~damaged
                   PROVE  \E k \in 0..MemberCount : Place(k)' /\ NamePlace(k)' /\ (~NameForgotten => DiskPlace(k)')
      BY <1>1, <1>4 DEF StepInv
    <2>2. PICK k \in 0..MemberCount :
               /\ src + n = Upto(k)
               /\ longName' = Pending(k) \/ (longName' = NoName /\ NameForgotten)
               /\ ~NameForgotten => /\ \A p \in Paths : files[p] = FileUpto(k, p)
                                    /\ \A i \in Of("dir") : i <= k => Clean(NameOf(i)) \in dirs'
      BY <2>1
    <2>3. Place(k)'
      <3>1. n = 0 => FirstUnit' = Upto(k)
        <4>1. FirstUnit' = src - Len(buf')
          BY <1>1 DEF FirstUnit
        <4> QED  BY <4>1, <2>2, <1>2, <1>3
      <3>2. n # 0 => src' + want' = Upto(k)
        BY <2>2, <1>1, <1>3
      <3> QED  BY <3>1, <3>2, <1>3, <1>4 DEF Place
    <2>4. NamePlace(k)'
      BY <2>2, <1>3, <1>4 DEF NamePlace
    <2>5. ASSUME ~NameForgotten PROVE DiskPlace(k)'
      <3>1. \A p \in Paths : files'[p] = FileUpto(k, p)'
        BY <2>2, <2>5, <1>4
      <3>2. \A i \in Of("dir") : i <= k => Clean(NameOf(i)) \in dirs'
        BY <2>2, <2>5
      <3>3. \A i : Clean(NameOf(i))' = Clean(NameOf(i))
        BY <1>4
      <3> QED  BY <3>1, <3>2, <3>3, <1>3, <1>4 DEF DiskPlace
    <2> QED  BY <2>3, <2>4, <2>5
  <1> QED
    BY <1>3, <1>5, <1>6, <1>7, <1>8, MoveKeeps

\* The place of an undamaged archive in the hands of the loop.
LEMMA PlaceIs ==
    ASSUME ExtractInv, status = "none", ~damaged
    PROVE  \E k \in 0..MemberCount :
              /\ Place(k) /\ NamePlace(k) /\ (~NameForgotten => DiskPlace(k))
              /\ pc # "data" => longName = Pending(k) \/ (longName = NoName /\ NameForgotten)
              /\ ~NameForgotten /\ pc # "data" => \A p \in Paths : files[p] = FileUpto(k, p)
              /\ ~NameForgotten => \A i \in Of("dir") : i <= k => Clean(NameOf(i)) \in dirs
  BY DEF ExtractInv, StepInv, NamePlace, DiskPlace, Writing

\* One member further on, where that one leaves no file.
LEMMA OneOn ==
    ASSUME ExtractInv, NEW k \in 0..(MemberCount - 1), pc # "data",
           Mem(k + 1).type # "file" \/ k + 1 \notin Of("file"),
           k + 1 \in Of("dir") => Clean(NameOf(k + 1)) \in dirs',
           dirs \subseteq dirs',
           \A p \in Paths : files[p] = FileUpto(k, p),
           \A i \in Of("dir") : i <= k => Clean(NameOf(i)) \in dirs
    PROVE  /\ \A p \in Paths : files[p] = FileUpto(k + 1, p)
           /\ \A i \in Of("dir") : i <= k + 1 => Clean(NameOf(i)) \in dirs'
  <1>1. archive \in Archives
    BY ReaderIs
  <1>2. MemberCount \in Nat /\ k \in Nat /\ DOMAIN archive.members = 1..MemberCount
    BY <1>1, MembersAre
  <1>3. k + 1 \notin Of("file")
    BY DEF Of, Mem
  <1>4. \A p \in Paths : k + 1 \notin FilesAt(p)
    BY <1>3 DEF FilesAt
  <1>5. \A i \in Of("dir") : i <= k + 1 => i <= k \/ i = k + 1
    <2>1. Of("dir") \subseteq 1..MemberCount
      BY <1>2 DEF Of
    <2> QED  BY <2>1, <1>2
  <1> QED
    BY <1>1, <1>4, <1>5, FilesNext

\* The archive is opened.
LEMMA OpenKeeps == ASSUME ExtractInv, Open PROVE ExtractInv'
  <1>1. status = "none" /\ want = 0 /\ pc = "open" /\ UNCHANGED reader /\ UNCHANGED <<files, dirs, entry, rest, longName>>
    BY DEF Open, Has, disk, Quits
  <1>2. CASE ThenHeader(0) /\ status' = status
    <2>1. archive \in Archives /\ src = 0
      BY <1>1, ReaderIs DEF ExtractInv, RequestInv, ExtractType, TarType
    <2>2. ASSUME ~damaged
          PROVE  \E k \in 0..MemberCount :
                     /\ src + 0 = Upto(k)
                     /\ longName' = Pending(k) \/ (longName' = NoName /\ NameForgotten)
                     /\ ~NameForgotten => /\ \A p \in Paths : files[p] = FileUpto(k, p)
                                          /\ \A i \in Of("dir") : i <= k => Clean(NameOf(i)) \in dirs'
      <3>1. PICK k \in 0..MemberCount :
              /\ Place(k)
              /\ longName = Pending(k) \/ (longName = NoName /\ NameForgotten)
              /\ ~NameForgotten => \A p \in Paths : files[p] = FileUpto(k, p)
              /\ ~NameForgotten => \A i \in Of("dir") : i <= k => Clean(NameOf(i)) \in dirs
        BY <1>1, <2>2, PlaceIs
      <3>2. k = 0 /\ src + 0 = Upto(k)
        <4>1. k = 0 /\ src = 0
          BY <1>1, <3>1 DEF Place, ExtractInv, RequestInv
        <4>2. Upto(0) = 0
          BY TapeIs, ReaderIs
        <4> QED  BY <4>1, <4>2
      <3> QED  BY <3>1, <3>2, <1>1
    <2>3. longName' = NoName \/ longName' \in Names
      BY <1>1 DEF ExtractInv, ExtractType, TarType
    <2> QED
      BY <1>1, <1>2, <2>2, <2>3, NoneWritten, ThenHeaderKeeps
  <1>3. CASE Quits("fault")
    <2>1. status' = "fault" /\ UNCHANGED <<archive, kind, cut, damaged, src, gz, pc, want, buf>>
      BY <1>1, <1>3 DEF Quits, reader, request
    <2>2. ResultIsTrue'
      BY <2>1 DEF ResultIsTrue
    <2>3. cut' \in BOOLEAN
      BY <2>1 DEF ExtractInv, ExtractType, ReaderType
    <2> QED  BY <1>1, <2>1, <2>2, <2>3, QuitKeeps
  <1> QED
    BY <1>2, <1>3 DEF Open

\* What was to be skipped is.
LEMMA SkipDoneKeeps == ASSUME ExtractInv, SkipDone PROVE ExtractInv'
  <1>1. status = "none" /\ want = 0 /\ pc = "skip" /\ ThenHeader(0) /\ UNCHANGED reader
        /\ UNCHANGED <<entry, rest, longName, files, dirs, status>>
    BY TarStays DEF SkipDone, Has
  <1>2. longName' = NoName \/ longName' \in Names
    BY <1>1 DEF ExtractInv, ExtractType, TarType
  <1>3. ASSUME ~damaged
        PROVE  \E k \in 0..MemberCount :
                   /\ src + 0 = Upto(k)
                   /\ longName' = Pending(k) \/ (longName' = NoName /\ NameForgotten)
                   /\ ~NameForgotten => /\ \A p \in Paths : files[p] = FileUpto(k, p)
                                        /\ \A i \in Of("dir") : i <= k => Clean(NameOf(i)) \in dirs'
    <2>1. PICK k \in 0..MemberCount :
            /\ Place(k)
            /\ longName = Pending(k) \/ (longName = NoName /\ NameForgotten)
            /\ ~NameForgotten => \A p \in Paths : files[p] = FileUpto(k, p)
            /\ ~NameForgotten => \A i \in Of("dir") : i <= k => Clean(NameOf(i)) \in dirs
      BY <1>1, <1>3, PlaceIs
    <2>2. src + want = Upto(k)
      BY <2>1, <1>1 DEF Place
    <2> QED  BY <2>1, <2>2, <1>1
  <1> QED
    BY <1>1, <1>2, <1>3, NoneWritten, ThenHeaderKeeps

\* A global header is skipped.
LEMMA GlobalHeaderKeeps == ASSUME ExtractInv, GlobalHeader PROVE ExtractInv'
  <1>1. AtHeader /\ Header.type = "global" /\ ThenHeader(Whole(Size)) /\ UNCHANGED reader
        /\ UNCHANGED <<entry, rest, longName, files, dirs, status>>
    BY TarStays DEF GlobalHeader
  <1>2. status = "none" /\ pc \in {"header", "second"} /\ Size \in Nat /\ archive \in Archives
    BY <1>1, HeaderType, ReaderIs
  <1>3. longName' = NoName \/ longName' \in Names
    BY <1>1 DEF ExtractInv, ExtractType, TarType
  <1>4. Whole(Size) \in Nat
    BY <1>2, PadIs
  <1>5. ASSUME ~damaged
        PROVE  \E k \in 0..MemberCount :
                   /\ src + Whole(Size) = Upto(k)
                   /\ longName' = Pending(k) \/ (longName' = NoName /\ NameForgotten)
                   /\ ~NameForgotten => /\ \A p \in Paths : files[p] = FileUpto(k, p)
                                        /\ \A i \in Of("dir") : i <= k => Clean(NameOf(i)) \in dirs'
    <2>1. PICK k \in 0..MemberCount :
            /\ Place(k)
            /\ longName = Pending(k) \/ (longName = NoName /\ NameForgotten)
            /\ ~NameForgotten => \A p \in Paths : files[p] = FileUpto(k, p)
            /\ ~NameForgotten => \A i \in Of("dir") : i <= k => Clean(NameOf(i)) \in dirs
      BY <1>2, <1>5, PlaceIs
    <2>2. /\ k \in 0..(MemberCount - 1) /\ k + 1 \in 1..MemberCount /\ k + 1 \in 0..MemberCount
          /\ Header = Mem(k + 1) /\ src + Whole(Size) = Upto(k + 1)
      BY <1>1, <1>5, <2>1, InStep
    <2>3. Mem(k + 1).type = "global"
      BY <2>2, <1>1
    <2>4. Mem(k + 1).path = NoName
      BY <2>2, <2>3, <1>2, MembersAre
    <2>5. Pending(k + 1) = Pending(k)
      BY <2>2, <2>3, <2>4, <1>2, PendingNext DEF Entries
    <2>6. k + 1 \notin Of("dir") /\ k + 1 \notin Of("file")
      BY <2>3 DEF Of, Mem
    <2>7. ~NameForgotten => /\ \A p \in Paths : files[p] = FileUpto(k + 1, p)
                            /\ \A i \in Of("dir") : i <= k + 1 => Clean(NameOf(i)) \in dirs'
      BY <2>1, <2>2, <2>6, <1>1, <1>2, OneOn
    <2> QED  BY <2>1, <2>2, <2>5, <2>7, <1>1
  <1> QED
    BY <1>1, <1>2, <1>3, <1>4, <1>5, NoneWritten, ThenHeaderKeeps

\* A header is refused only for what is in it, or for damage.
LEMMA RefusesHeaderKeeps == ASSUME ExtractInv, RefusesHeader PROVE ExtractInv'
  <1>1. AtHeader /\ (Header.type = "broken" \/ (Header.type = "pax" /\ Size > PaxMax))
        /\ status' = "refused"
        /\ UNCHANGED <<archive, kind, cut, damaged, src, gz, pc, want, buf, entry, rest, longName, files, dirs>>
    BY DEF RefusesHeader, Quits, reader, request, disk
  <1>2. status = "none" /\ pc \in {"header", "second"} /\ archive \in Archives
    BY <1>1, HeaderType, ReaderIs
  <1>3. damaged \/ Unusable
    <2>1. SUFFICES ASSUME ~damaged PROVE Unusable
      OBVIOUS
    <2>2. PICK k \in 0..MemberCount : Place(k)
      BY <1>2, <2>1, PlaceIs
    <2>3. k + 1 \in 1..MemberCount /\ Header = Mem(k + 1) /\ Size = Len(Mem(k + 1).data)
      BY <1>1, <2>1, <2>2, InStep
    <2>4. k + 1 \in DOMAIN archive.members
      BY <2>3, <1>2, MembersAre
    <2>5. Mem(k + 1).type = "broken" \/ (Mem(k + 1).type = "pax" /\ Len(Mem(k + 1).data) > PaxMax)
      BY <2>3, <1>1
    <2> QED  BY <2>4, <2>5 DEF Unusable, Mem
  <1>4. ResultIsTrue'
    BY <1>1, <1>3, ResultStays
  <1>5. cut' \in BOOLEAN
    BY <1>1 DEF ExtractInv, ExtractType, ReaderType
  <1> QED
    BY <1>1, <1>2, <1>4, <1>5, QuitKeeps

\* Why a path that is too deep is refused.
LEMMA RefusesPathKeeps == ASSUME ExtractInv, RefusesPath PROVE ExtractInv'
  <1>1. AtHeader /\ Header.type \in Entries /\ longName' = NoName /\ ~Skipped /\ TooDeep(Path)
        /\ status' = "refused"
        /\ UNCHANGED <<archive, kind, cut, damaged, src, gz, pc, want, buf, entry, rest, files, dirs>>
    BY DEF RefusesPath, Named, reader, request, disk
  <1>2. status = "none" /\ pc \in {"header", "second"} /\ archive \in Archives
    BY <1>1, HeaderType, ReaderIs
  <1>3. damaged \/ Unusable
    <2>1. SUFFICES ASSUME ~damaged PROVE Unusable
      OBVIOUS
    <2>2. PICK k \in 0..MemberCount :
             Place(k) /\ (longName = Pending(k) \/ (longName = NoName /\ NameForgotten))
      BY <1>2, <2>1, PlaceIs
    <2>3. k \in 0..(MemberCount - 1) /\ k + 1 \in 1..MemberCount /\ Header = Mem(k + 1)
      BY <1>1, <2>1, <2>2, InStep
    <2>4. k + 1 \in DOMAIN archive.members
      BY <2>3, <1>2, MembersAre
    <2>5. CASE longName = Pending(k)
      <3>1. Name = NameOf(k + 1)
        BY <2>3, <2>5, <1>2, NameIs
      <3>2. k + 1 \in Of(Mem(k + 1).type) /\ Mem(k + 1).type \in Entries
        BY <2>3, <2>4, <3>1, <1>1 DEF Of, Mem, Skipped, Path
      <3>3. TooDeep(Clean(NameOf(k + 1)))
        BY <3>1, <1>1 DEF Path
      <3> QED  BY <3>2, <3>3 DEF Unusable
    <2>6. CASE longName = NoName /\ NameForgotten
      <3>1. Name = Mem(k + 1).name
        BY <2>3, <2>6, <1>2, NameIs
      <3>2. TooDeep(Clean(Mem(k + 1).name)) /\ Mem(k + 1).type \in Entries
        BY <2>3, <3>1, <1>1 DEF Path
      <3> QED  BY <2>4, <2>6, <3>2 DEF Unusable, Mem
    <2> QED  BY <2>2, <2>5, <2>6
  <1>4. ResultIsTrue'
    BY <1>1, <1>3, ResultStays
  <1>5. cut' \in BOOLEAN
    BY <1>1 DEF ExtractInv, ExtractType, ReaderType
  <1> QED
    BY <1>1, <1>2, <1>4, <1>5, QuitKeeps

\* An entry without a place is skipped.
LEMMA SkipEntryKeeps == ASSUME ExtractInv, SkipEntry PROVE ExtractInv'
  <1>1. AtHeader /\ Header.type \in Entries /\ longName' = NoName
        /\ (Skipped \/ Header.type = "other")
        /\ ThenHeader(Whole(Size)) /\ UNCHANGED reader
        /\ UNCHANGED <<entry, rest, files, dirs, status>>
    BY DEF SkipEntry, Named, disk, Entries
  <1>2. status = "none" /\ pc \in {"header", "second"} /\ Size \in Nat /\ archive \in Archives
    BY <1>1, HeaderType, ReaderIs
  <1>4. Whole(Size) \in Nat
    BY <1>2, PadIs
  <1>5. ASSUME ~damaged
        PROVE  \E k \in 0..MemberCount :
                   /\ src + Whole(Size) = Upto(k)
                   /\ longName' = Pending(k) \/ (longName' = NoName /\ NameForgotten)
                   /\ ~NameForgotten => /\ \A p \in Paths : files[p] = FileUpto(k, p)
                                        /\ \A i \in Of("dir") : i <= k => Clean(NameOf(i)) \in dirs'
    <2>1. PICK k \in 0..MemberCount :
            /\ Place(k)
            /\ longName = Pending(k) \/ (longName = NoName /\ NameForgotten)
            /\ ~NameForgotten => \A p \in Paths : files[p] = FileUpto(k, p)
            /\ ~NameForgotten => \A i \in Of("dir") : i <= k => Clean(NameOf(i)) \in dirs
      BY <1>2, <1>5, PlaceIs
    <2>2. /\ k \in 0..(MemberCount - 1) /\ k + 1 \in 1..MemberCount /\ k + 1 \in 0..MemberCount
          /\ Header = Mem(k + 1) /\ src + Whole(Size) = Upto(k + 1)
      BY <1>1, <1>5, <2>1, InStep
    <2>3. Pending(k + 1) = NoName
      BY <2>2, <1>1, <1>2, PendingNext
    <2>4. ASSUME ~NameForgotten PROVE k + 1 \notin Of("dir") /\ k + 1 \notin Of("file")
      <3>1. Name = NameOf(k + 1)
        BY <2>1, <2>2, <2>4, <1>2, NameIs
      <3>2. CASE Skipped
        BY <3>1, <3>2 DEF Of, Skipped, Path
      <3>3. CASE Header.type = "other"
        BY <2>2, <3>3 DEF Of, Mem
      <3> QED  BY <3>2, <3>3, <1>1
    <2>5. ~NameForgotten => /\ \A p \in Paths : files[p] = FileUpto(k + 1, p)
                            /\ \A i \in Of("dir") : i <= k + 1 => Clean(NameOf(i)) \in dirs'
      BY <2>1, <2>2, <2>4, <1>1, <1>2, OneOn
    <2> QED  BY <2>2, <2>3, <2>5, <1>1
  <1> QED
    BY <1>1, <1>2, <1>4, <1>5, NoneWritten, ThenHeaderKeeps

\* A directory is made.
LEMMA MakeDirectoryKeeps == ASSUME ExtractInv, MakeDirectory PROVE ExtractInv'
  <1>1. AtHeader /\ Header.type = "dir" /\ longName' = NoName /\ ~Skipped
        /\ UNCHANGED reader /\ UNCHANGED <<entry, rest, files>>
    BY DEF MakeDirectory, Placed, Named
  <1>2. status = "none" /\ pc \in {"header", "second"} /\ Size \in Nat /\ archive \in Archives
    BY <1>1, HeaderType, ReaderIs
  <1>3. CASE dirs' = dirs \cup Above(Path) \cup {Path} /\ ThenHeader(Whole(Size)) /\ status' = status
    <2>4. Whole(Size) \in Nat
      BY <1>2, PadIs
    <2>5. ASSUME ~damaged
          PROVE  \E k \in 0..MemberCount :
                     /\ src + Whole(Size) = Upto(k)
                     /\ longName' = Pending(k) \/ (longName' = NoName /\ NameForgotten)
                     /\ ~NameForgotten => /\ \A p \in Paths : files[p] = FileUpto(k, p)
                                          /\ \A i \in Of("dir") : i <= k => Clean(NameOf(i)) \in dirs'
      <3>1. PICK k \in 0..MemberCount :
              /\ Place(k)
              /\ longName = Pending(k) \/ (longName = NoName /\ NameForgotten)
              /\ ~NameForgotten => \A p \in Paths : files[p] = FileUpto(k, p)
              /\ ~NameForgotten => \A i \in Of("dir") : i <= k => Clean(NameOf(i)) \in dirs
        BY <1>2, <2>5, PlaceIs
      <3>2. /\ k \in 0..(MemberCount - 1) /\ k + 1 \in 1..MemberCount /\ k + 1 \in 0..MemberCount
            /\ Header = Mem(k + 1) /\ src + Whole(Size) = Upto(k + 1)
        BY <1>1, <2>5, <3>1, InStep
      <3>3. Pending(k + 1) = NoName
        BY <3>2, <1>1, <1>2, PendingNext DEF Entries
      <3>4. k + 1 \notin Of("file")
        BY <3>2, <1>1 DEF Of, Mem
      <3>5. ~NameForgotten => Clean(NameOf(k + 1)) \in dirs'
        <4>1. ~NameForgotten => Name = NameOf(k + 1)
          BY <3>1, <3>2, <1>2, NameIs
        <4> QED  BY <4>1, <1>3 DEF Path
      <3>6. ~NameForgotten => /\ \A p \in Paths : files[p] = FileUpto(k + 1, p)
                              /\ \A i \in Of("dir") : i <= k + 1 => Clean(NameOf(i)) \in dirs'
        BY <3>1, <3>2, <3>4, <3>5, <1>2, <1>3, OneOn
      <3> QED  BY <3>2, <3>3, <3>6, <1>1
    <2> QED
      BY <1>1, <1>2, <1>3, <2>4, <2>5, NoneWritten, ThenHeaderKeeps
  <1>4. CASE status' = "fault" /\ UNCHANGED <<dirs, request>>
    <2>1. status' = "fault" /\ UNCHANGED <<archive, kind, cut, damaged, src, gz, pc, want, buf>>
      BY <1>1, <1>4 DEF reader, request
    <2>2. ResultIsTrue'
      BY <2>1 DEF ResultIsTrue
    <2>3. cut' \in BOOLEAN
      BY <2>1 DEF ExtractInv, ExtractType, ReaderType
    <2> QED  BY <1>1, <1>2, <2>1, <2>2, <2>3, QuitKeeps
  <1> QED
    BY <1>3, <1>4 DEF MakeDirectory

\* A zero block: the archive has one in that place.
LEMMA FirstZeroKeeps == ASSUME ExtractInv, FirstZero PROVE ExtractInv'
  <1>1. /\ status = "none" /\ want = 0 /\ pc = "header" /\ buf = Zeros(BlockSize)
        /\ pc' = "second" /\ want' = BlockSize /\ buf' = <<>> /\ UNCHANGED reader
        /\ UNCHANGED <<entry, rest, longName, files, dirs, status>> /\ UNCHANGED tar
    BY TarStays DEF FirstZero, Has, IsZeroBlock, Reads
  <1>2. /\ archive \in Archives /\ src \in Nat /\ Length \in Nat /\ src <= Length
        /\ BlockSize \in Nat /\ BlockSize >= 1
        /\ UNCHANGED <<archive, kind, cut, damaged, src, gz>>
    BY <1>1, ReaderIs, Sizes DEF reader
  <1>3. Len(buf) = BlockSize /\ AllZero
    <2> DEFINE z == Zeros(BlockSize)
    <2>1. Len(z) = BlockSize /\ \A j \in 1..BlockSize : z[j] = Zero
      BY <1>2, ZerosAre
    <2> HIDE DEF z
    <2> QED  BY <1>1, <2>1 DEF AllZero, z
  <1> DEFINE f == FirstUnit
  <1>4. f = src - BlockSize /\ \A j \in 1..BlockSize : Unit(f + j) = Zero
    BY <1>3 DEF ExtractInv, BufferInv, FirstUnit
  <1>5. src >= BlockSize
    BY <1>3 DEF ExtractInv, ExtractType, RequestType
  <1> HIDE DEF f
  <1>6. \A j \in 1..BlockSize : Unit(src - BlockSize + j) = Zero
    BY <1>4
  <1>7. Len(buf') = 0 /\ FirstUnit' = src
    <2>1. FirstUnit' = src - Len(buf') /\ buf' = <<>>
      BY <1>1, <1>2 DEF FirstUnit
    <2> QED  BY <2>1, <1>2
  <1>8. TarType'
    BY <1>1, <1>2, ArchiveStays DEF ExtractInv, ExtractType, TarType, Names, Paths
  <1>9. RequestInv'
    <2>1. want' + Len(buf') = BlockSize
      BY <1>1, <1>2, <1>7
    <2> QED  BY <2>1, <1>1 DEF RequestInv
  <1>10. \A i : Mem(i)' = Mem(i) /\ Upto(i)' = Upto(i)
    BY <1>2, ArchiveStays
  <1>11. WholeInv'
    <2>1. MemberCount' = MemberCount
      BY <1>2, ArchiveStays
    <2>2. \A p \in Paths : files[p] \in {Old, Absent} \/ Complete(files[p])
      BY <1>1, NoneWritten
    <2>3. ASSUME NEW p \in Paths, Complete(files[p]) PROVE Complete(files[p])'
      BY <1>1, <1>2, <1>10, <2>1, <2>3 DEF Complete
    <2> QED  BY <1>1, <2>2, <2>3 DEF WholeInv, Old, Absent
  <1>12. StepInv'
    <2>1. MemberCount' = MemberCount /\ NameForgotten' = NameForgotten
          /\ (\A i : Pending(i)' = Pending(i) /\ NameOf(i)' = NameOf(i))
          /\ (\A i, p : FileUpto(i, p)' = FileUpto(i, p))
          /\ Of("dir")' = Of("dir")
      BY <1>2, ArchiveStays
    <2>2. SUFFICES ASSUME ~damaged
                   PROVE  \E k \in 0..MemberCount : Place(k)' /\ NamePlace(k)' /\ (~NameForgotten => DiskPlace(k)')
      BY <1>2, <2>1 DEF StepInv
    <2>3. PICK k \in 0..MemberCount :
            /\ Place(k)
            /\ longName = Pending(k) \/ (longName = NoName /\ NameForgotten)
            /\ ~NameForgotten => \A p \in Paths : files[p] = FileUpto(k, p)
            /\ ~NameForgotten => \A i \in Of("dir") : i <= k => Clean(NameOf(i)) \in dirs
      BY <1>1, <2>2, PlaceIs
    <2>4. f = Upto(k) /\ src = Upto(k) + BlockSize
      <3>1. f = Upto(k) /\ Upto(k) \in Nat
        BY <2>3, <1>1, <1>2, TapeIs DEF Place, f
      <3> DEFINE u == Upto(k)
      <3>2. f = u /\ u \in Nat
        BY <3>1
      <3> HIDE DEF u
      <3>3. src = u + BlockSize
        BY <3>2, <1>2, <1>4
      <3> QED  BY <3>1, <3>3 DEF u
    <2>5. MemberCount \in Nat
      BY <1>2, MembersAre
    <2>6. ASSUME NEW j \in 0..MemberCount, Place(j)', longName = Pending(j) \/ (longName = NoName /\ NameForgotten),
                 ~NameForgotten => /\ \A p \in Paths : files[p] = FileUpto(j, p)
                                   /\ \A i \in Of("dir") : i <= j => Clean(NameOf(i)) \in dirs'
          PROVE  Place(j)' /\ NamePlace(j)' /\ (~NameForgotten => DiskPlace(j)')
      <3>1. NamePlace(j)'
        BY <2>1, <2>6, <1>1 DEF NamePlace
      <3>2. ASSUME ~NameForgotten PROVE DiskPlace(j)'
        <4>1. \A p \in Paths : files'[p] = FileUpto(j, p)'
          BY <2>1, <2>6, <3>2, <1>1
        <4>2. \A i \in Of("dir") : i <= j => Clean(NameOf(i)) \in dirs'
          BY <2>6, <3>2
        <4>3. \A i : Clean(NameOf(i))' = Clean(NameOf(i))
          BY <2>1
        <4> QED  BY <4>1, <4>2, <4>3, <1>1, <2>1 DEF DiskPlace
      <3> QED  BY <3>1, <3>2, <2>6
    <2>7. CASE k = MemberCount
      <3>1. archive.marker >= 1
        <4> DEFINE n == Upto(MemberCount)
                   m == MarkerUnits
        <4>1. n \in Nat /\ m \in Nat /\ Length = n + m /\ src = n + BlockSize
          BY <2>4, <2>7, <1>2, TapeIs
        <4>2. m > 0 => archive.marker >= 1
          BY <1>2, MarkerIs
        <4> HIDE DEF n, m
        <4> QED  BY <4>1, <4>2, <1>2
      <3>2. Place(k)'
        BY <1>1, <1>2, <1>7, <1>10, <2>1, <2>4, <2>7, <3>1 DEF Place
      <3> QED  BY <2>3, <2>6, <3>2, <1>1
    <2>8. CASE k # MemberCount
      <3>1. k \in 0..(MemberCount - 1)
        BY <2>5, <2>8
      <3>2. Mem(k + 1).type = "zero"
        <4>1. Upto(k) < Length /\ 1 \in 1..BlockSize
          <5> DEFINE u == Upto(k)
          <5>1. u \in Nat /\ src = u + BlockSize
            BY <2>4, <1>2, TapeIs
          <5> HIDE DEF u
          <5>2. u < Length /\ 1 \in 1..BlockSize
            BY <5>1, <1>2
          <5> QED  BY <5>2 DEF u
        <4>2. Unit(Upto(k) + 1) = Zero
          BY <4>1, <2>4, <1>4
        <4> QED  BY <4>1, <4>2, <2>8, <1>2, FirstIs
      <3>3. /\ k + 1 \in 1..MemberCount /\ k + 1 \in 0..MemberCount /\ Upto(k + 1) = src /\ k + 1 >= 1
        <4>1. k + 1 \in 1..MemberCount /\ k + 1 \in 0..MemberCount /\ Upto(k + 1) = Upto(k) + BlockSize
          BY <3>1, <3>2, <1>2, MemberReach
        <4> QED  BY <4>1, <2>4, <2>5
      <3>4. Mem(k + 1).path = NoName /\ Mem(k + 1).type \notin Entries
        BY <3>2, <3>3, <1>2, MembersAre DEF Entries
      <3>5. Pending(k + 1) = Pending(k)
        BY <3>1, <3>4, <1>2, PendingNext
      <3>6. Place(k + 1)'
        BY <1>1, <1>2, <1>7, <1>10, <3>2, <3>3 DEF Place
      <3>7. ~NameForgotten => /\ \A p \in Paths : files[p] = FileUpto(k + 1, p)
                              /\ \A i \in Of("dir") : i <= k + 1 => Clean(NameOf(i)) \in dirs'
        <4>1. k + 1 \notin Of("dir") /\ k + 1 \notin Of("file")
          BY <3>2 DEF Of, Mem
        <4> QED  BY <4>1, <3>1, <2>3, <1>1, OneOn
      <3>8. longName = Pending(k + 1) \/ (longName = NoName /\ NameForgotten)
        BY <2>3, <3>5
      <3> DEFINE j == k + 1
      <3>9. j \in 0..MemberCount /\ Place(j)' /\ (longName = Pending(j) \/ (longName = NoName /\ NameForgotten))
            /\ (~NameForgotten => /\ \A p \in Paths : files[p] = FileUpto(j, p)
                                  /\ \A i \in Of("dir") : i <= j => Clean(NameOf(i)) \in dirs')
        BY <3>3, <3>6, <3>7, <3>8
      <3> HIDE DEF j
      <3> QED  BY <3>9, <2>6
    <2> QED  BY <2>7, <2>8
  <1> QED
    BY <1>1, <1>2, <1>5, <1>6, <1>8, <1>9, <1>11, <1>12, MoveKeeps

\* The data of a name begin.
LEMMA NameHeaderKeeps == ASSUME ExtractInv, NameHeader PROVE ExtractInv'
  <1>1. /\ AtHeader /\ Header.type \in {"long", "pax"}
        /\ pc' = "name" /\ want' = Size /\ buf' = <<>> /\ entry' = [at |-> buf[1][2], path |-> <<>>]
        /\ UNCHANGED reader /\ UNCHANGED <<rest, longName, files, dirs, status>>
    BY DEF NameHeader, Reads, disk
  <1>2. /\ status = "none" /\ pc \in {"header", "second"} /\ Size \in Nat /\ archive \in Archives
        /\ buf[1][2] \in 1..MemberCount /\ Header = Mem(buf[1][2]) /\ src \in Nat
        /\ UNCHANGED <<archive, kind, cut, damaged, src, gz>>
    BY <1>1, HeaderType, ReaderIs DEF reader
  <1>3. entry'.at = buf[1][2] /\ Current' = Header
    <2>1. entry'.at = buf[1][2]
      BY <1>1
    <2>2. Current' = archive.members[entry'.at]
      BY <1>2 DEF Current
    <2> QED  BY <2>1, <2>2, <1>2 DEF Mem
  <1>4. Len(buf') = 0 /\ FirstUnit' = src
    <2>1. FirstUnit' = src - Len(buf') /\ buf' = <<>>
      BY <1>1, <1>2 DEF FirstUnit
    <2> QED  BY <2>1, <1>2
  <1>5. TarType'
    BY <1>1, <1>2, ArchiveStays DEF ExtractInv, ExtractType, TarType, Names, Paths
  <1>6. MemberCount' = MemberCount /\ NameForgotten' = NameForgotten
        /\ (\A i : Mem(i)' = Mem(i) /\ Upto(i)' = Upto(i))
        /\ (\A i : Pending(i)' = Pending(i) /\ NameOf(i)' = NameOf(i))
        /\ (\A i, p : FileUpto(i, p)' = FileUpto(i, p))
        /\ Of("dir")' = Of("dir")
    BY <1>2, ArchiveStays
  <1>7. RequestInv'
    BY <1>1, <1>2, <1>3, <1>6 DEF RequestInv
  <1>8. WholeInv'
    <2>2. \A p \in Paths : files[p] \in {Old, Absent} \/ Complete(files[p])
      BY <1>2, NoneWritten
    <2>3. ASSUME NEW p \in Paths, Complete(files[p]) PROVE Complete(files[p])'
      BY <1>1, <1>2, <1>6, <2>3 DEF Complete
    <2> QED  BY <1>1, <2>2, <2>3 DEF WholeInv, Old, Absent
  <1>9. StepInv'
    <2>2. SUFFICES ASSUME ~damaged
                   PROVE  \E k \in 0..MemberCount : Place(k)' /\ NamePlace(k)' /\ (~NameForgotten => DiskPlace(k)')
      BY <1>2, <1>6 DEF StepInv
    <2>3. PICK k \in 0..MemberCount :
            /\ Place(k)
            /\ longName = Pending(k) \/ (longName = NoName /\ NameForgotten)
            /\ ~NameForgotten => \A p \in Paths : files[p] = FileUpto(k, p)
            /\ ~NameForgotten => \A i \in Of("dir") : i <= k => Clean(NameOf(i)) \in dirs
      BY <1>2, <2>2, PlaceIs
    <2>4. /\ k \in 0..(MemberCount - 1) /\ buf[1] = <<"header", k + 1>>
          /\ Size = Len(Mem(k + 1).data) /\ src = Upto(k) + BlockSize /\ Header = Mem(k + 1)
      BY <1>1, <2>2, <2>3, InStep
    <2>5. Place(k)'
      <3>1. k < MemberCount
        BY <2>4, <1>2, MembersAre
      <3>2. entry'.at = k + 1
        BY <2>4, <1>3
      <3>3. want' + Len(buf') = Len(Current'.data)
        BY <2>4, <1>1, <1>2, <1>3, <1>4
      <3> QED  BY <3>1, <3>2, <3>3, <2>4, <1>1, <1>4, <1>6 DEF Place
    <2>6. NamePlace(k)'
      BY <2>3, <1>1, <1>6 DEF NamePlace
    <2>7. ASSUME ~NameForgotten PROVE DiskPlace(k)'
      <3>1. \A p \in Paths : files'[p] = FileUpto(k, p)'
        BY <2>3, <2>7, <1>1, <1>6
      <3>2. \A i \in Of("dir") : i <= k => Clean(NameOf(i)) \in dirs'
        BY <2>3, <2>7, <1>1
      <3>3. \A i : Clean(NameOf(i))' = Clean(NameOf(i))
        BY <1>6
      <3> QED  BY <3>1, <3>2, <3>3, <1>1, <1>6 DEF DiskPlace
    <2> QED  BY <2>5, <2>6, <2>7
  <1> QED
    BY <1>1, <1>2, <1>5, <1>7, <1>8, <1>9, MoveKeeps

\* The name is kept for the next entry, forgotten, or refused.
LEMMA NameReadKeeps == ASSUME ExtractInv, NameRead PROVE ExtractInv'
  <1> DEFINE l == Len(Current.data)
  <1>1. /\ status = "none" /\ want = 0 /\ pc = "name" /\ UNCHANGED reader
        /\ UNCHANGED <<entry, rest, files, dirs>>
    BY DEF NameRead, Has, disk
  <1>2. /\ archive \in Archives /\ src \in Nat /\ BlockSize \in Nat
        /\ entry.at \in 1..MemberCount /\ Current = Mem(entry.at) /\ Current.type \in {"long", "pax"}
        /\ UNCHANGED <<archive, kind, cut, damaged, src, gz>>
    BY <1>1, ReaderIs, Sizes DEF ExtractInv, RequestInv, Current, Mem, reader
  <1>3. l \in Nat /\ Pad(l) \in Nat /\ Whole(l) = l + Pad(l) /\ (Current.type = "long" => Current.path # NoName)
    <2>1. l \in Nat /\ (Current.type = "long" => Current.path # NoName)
      BY <1>2, MembersAre
    <2> HIDE DEF l
    <2> QED  BY <2>1, PadIs
  <1>4. Current.path \in Names
    <2>1. Mem(entry.at) \in ToSet(archive.members)
      BY <1>2, MembersAre DEF ToSet, Mem
    <2> QED  BY <2>1, <1>2 DEF Names
  <1>5. CASE /\ Current.type = "long" \/ ~TooLong(Current.path)
             /\ longName' = IF Current.type = "pax" /\ Current.path = NoName THEN longName
                            ELSE IF TooLong(Current.path) THEN NoName
                            ELSE Current.path
             /\ ThenHeader(Pad(l)) /\ status' = status
    <2>1. longName' = NoName \/ longName' \in Names
      BY <1>4, <1>5 DEF ExtractInv, ExtractType, TarType
    <2>2. ASSUME ~damaged
          PROVE  \E k \in 0..MemberCount :
                     /\ src + Pad(l) = Upto(k)
                     /\ longName' = Pending(k) \/ (longName' = NoName /\ NameForgotten)
                     /\ ~NameForgotten => /\ \A p \in Paths : files[p] = FileUpto(k, p)
                                          /\ \A i \in Of("dir") : i <= k => Clean(NameOf(i)) \in dirs'
      <3>1. PICK k \in 0..MemberCount :
              /\ Place(k)
              /\ longName = Pending(k) \/ (longName = NoName /\ NameForgotten)
              /\ ~NameForgotten => \A p \in Paths : files[p] = FileUpto(k, p)
              /\ ~NameForgotten => \A i \in Of("dir") : i <= k => Clean(NameOf(i)) \in dirs
        BY <1>1, <2>2, PlaceIs
      <3>2. k < MemberCount /\ entry.at = k + 1 /\ FirstUnit = Upto(k) + BlockSize /\ want + Len(buf) = l
        BY <3>1, <1>1 DEF Place
      <3>3. k \in 0..(MemberCount - 1) /\ Current = Mem(k + 1)
        <4>1. MemberCount \in Nat
          BY <1>2, MembersAre
        <4> QED  BY <4>1, <3>2, <1>2
      <3>4. k + 1 \in 1..MemberCount /\ k + 1 \in 0..MemberCount /\ Upto(k) \in Nat
            /\ Upto(k + 1) = Upto(k) + BlockSize + Whole(l)
        BY <3>3, <1>2, MemberReach
      <3>5. src + Pad(l) = Upto(k + 1)
        <4> DEFINE u == Upto(k)
                   v == Upto(k + 1)
                   x == Pad(l)
                   b == Len(buf)
        <4>1. src - b = u + BlockSize /\ b = l /\ v = u + BlockSize + (l + x) /\ u \in Nat /\ x \in Nat /\ b \in Nat
          <5>1. b \in Nat
            BY DEF ExtractInv, ExtractType, RequestType
          <5> QED  BY <5>1, <3>2, <3>4, <1>1, <1>3 DEF FirstUnit
        <4> HIDE DEF u, v, x, b, l
        <4>2. src + x = v
          BY <4>1, <1>2, <1>3
        <4> QED  BY <4>2 DEF v, x
      <3>6. longName' = Pending(k + 1) \/ (longName' = NoName /\ NameForgotten)
        <4>1. Mem(k + 1).type \notin Entries
          BY <3>3, <1>2 DEF Entries
        <4>2. CASE Current.path = NoName
          <5>1. longName' = longName
            BY <4>2, <1>2, <1>3, <1>5
          <5>2. Pending(k + 1) = Pending(k)
            BY <4>1, <4>2, <3>3, <1>2, PendingNext
          <5> QED  BY <5>1, <5>2, <3>1
        <4>3. CASE Current.path # NoName /\ ~TooLong(Current.path)
          <5>1. longName' = Current.path
            BY <4>3, <1>5
          <5>2. Pending(k + 1) = Current.path
            BY <4>3, <3>3, <1>2, PendingNext
          <5> QED  BY <5>1, <5>2
        <4>4. CASE Current.path # NoName /\ TooLong(Current.path)
          <5>1. longName' = NoName /\ Current.type = "long"
            BY <4>4, <1>5
          <5>2. k + 1 \in DOMAIN archive.members
            BY <3>4, <1>2, MembersAre
          <5>3. NameForgotten
            BY <5>1, <5>2, <4>4, <3>3 DEF NameForgotten, Mem
          <5> QED  BY <5>1, <5>3
        <4> QED  BY <4>2, <4>3, <4>4
      <3>7. k + 1 \notin Of("dir") /\ k + 1 \notin Of("file")
        BY <3>3, <1>2 DEF Of, Mem
      <3>8. ~NameForgotten => /\ \A p \in Paths : files[p] = FileUpto(k + 1, p)
                              /\ \A i \in Of("dir") : i <= k + 1 => Clean(NameOf(i)) \in dirs'
        BY <3>1, <3>3, <3>7, <1>1, OneOn
      <3> QED  BY <3>4, <3>5, <3>6, <3>8
    <2> QED
      BY <1>1, <1>3, <1>5, <2>1, <2>2, NoneWritten, ThenHeaderKeeps
  <1>6. CASE /\ Current.type = "pax" /\ TooLong(Current.path)
             /\ status' = "refused" /\ UNCHANGED <<request, longName>>
    <2>1. entry.at \in DOMAIN archive.members
      BY <1>2, MembersAre
    <2>2. Unusable
      BY <2>1, <1>2, <1>6 DEF Unusable, Mem
    <2>3. UNCHANGED <<pc, want, buf>>
      BY <1>6 DEF request
    <2>4. ResultIsTrue'
      BY <2>2, <1>2, <1>6, ResultStays
    <2>5. cut' \in BOOLEAN
      BY <1>2 DEF ExtractInv, ExtractType, ReaderType
    <2> QED  BY <1>1, <1>2, <1>6, <2>3, <2>4, <2>5, QuitKeeps
  <1> QED
    BY <1>5, <1>6 DEF NameRead

\* The write of a file fails.
LEMMA RemovedKeeps ==
    ASSUME ExtractInv, status = "none", pc = "data", Removed, UNCHANGED <<reader, entry, longName, dirs>>
    PROVE  ExtractInv'
  <1>1. status' = "fault" /\ files' = [files EXCEPT ![entry.path] = Absent]
        /\ UNCHANGED <<archive, kind, cut, damaged, src, gz, pc, want, buf, rest>>
    BY DEF Removed, reader, request
  <1>2. ResultIsTrue'
    BY <1>1 DEF ResultIsTrue
  <1>3. cut' \in BOOLEAN
    BY <1>1 DEF ExtractInv, ExtractType, ReaderType
  <1> QED
    BY <1>1, <1>2, <1>3, QuitKeeps

\* A file is begun, at the path of its member.
LEMMA BeginFileKeeps == ASSUME ExtractInv, BeginFile PROVE ExtractInv'
  <1>1. AtHeader /\ Header.type = "file" /\ longName' = NoName /\ ~Skipped /\ UNCHANGED reader
    BY DEF BeginFile, Placed, Named
  <1>2. /\ status = "none" /\ pc \in {"header", "second"} /\ Size \in Nat /\ archive \in Archives
        /\ buf[1][2] \in 1..MemberCount /\ Header = Mem(buf[1][2]) /\ src \in Nat
        /\ UNCHANGED <<archive, kind, cut, damaged, src, gz>>
    BY <1>1, HeaderType, ReaderIs DEF reader
  <1>3. Path \in Paths
    BY <1>1, PathIs DEF Entries
  <1>4. files \in [Paths -> Seq(Units)]
    BY DEF ExtractInv, ExtractType, TarType
  <1>5. ASSUME dirs' = dirs \cup Above(Path), files' = [files EXCEPT ![Path] = <<>>],
               entry' = [at |-> buf[1][2], path |-> Path], rest' = Size,
               Reads("data", Min({Size, IoChunk})), status' = status
        PROVE  ExtractInv'
    <2> DEFINE s == Size
               w == Min({s, IoChunk})
               P == Path
    <2>0. s \in Nat /\ P \in Paths /\ IoChunk \in Nat /\ IoChunk >= 1
      BY <1>2, <1>3, Sizes
    <2>1. pc' = "data" /\ want' = w /\ buf' = <<>>
      BY <1>5 DEF Reads
    <2>2. entry'.at = buf[1][2] /\ entry'.path = P /\ Current' = Header /\ rest' = s
      <3>1. entry'.at = buf[1][2] /\ entry'.path = P
        BY <1>5
      <3>2. Current' = archive.members[entry'.at]
        BY <1>2 DEF Current
      <3> QED  BY <3>1, <3>2, <1>2, <1>5 DEF Mem
    <2>3. files' = [files EXCEPT ![P] = <<>>] /\ Header.type = "file" /\ Len(Header.data) = s
      BY <1>1, <1>5 DEF Size
    <2> HIDE DEF s, P
    <2>4. w \in Nat /\ w <= s /\ (w = 0 => s = 0)
      BY <2>0, LesserIs
    <2> HIDE DEF w
    <2>5. files' \in [Paths -> Seq(Units)] /\ files'[P] = <<>> /\ Len(files'[P]) = 0
          /\ \A p \in Paths : p # P => files'[p] = files[p]
      BY <2>0, <2>3, <1>4
    <2>6. Len(buf') = 0 /\ FirstUnit' = src
      <3>1. FirstUnit' = src - Len(buf') /\ buf' = <<>>
        BY <2>1, <1>2 DEF FirstUnit
      <3> QED  BY <3>1, <1>2
    <2>7. MemberCount' = MemberCount /\ NameForgotten' = NameForgotten /\ Units' = Units
          /\ (\A i : Mem(i)' = Mem(i) /\ Upto(i)' = Upto(i))
          /\ (\A i : Pending(i)' = Pending(i) /\ NameOf(i)' = NameOf(i))
          /\ (\A i, p : FileUpto(i, p)' = FileUpto(i, p))
          /\ (\A p : FilesAt(p)' = FilesAt(p))
          /\ Of("dir")' = Of("dir")
      BY <1>2, ArchiveStays
    <2>8. TarType'
      BY <2>0, <2>2, <2>5, <2>7, <1>1, <1>2, <1>5 DEF ExtractInv, ExtractType, TarType, Names, Paths
    <2>9. RequestInv'
      <3>1. FileInv'
        <4>1. entry'.at \in 1..MemberCount' /\ Current'.type = "file" /\ entry'.path \in Paths
          BY <2>0, <2>2, <2>3, <2>7, <1>2
        <4>2. want' + Len(buf') <= rest' /\ (want' + Len(buf') = 0 => rest' = 0)
          BY <2>0, <2>1, <2>2, <2>4, <2>6
        <4>3. Len(files'[entry'.path]) + rest' = Len(Current'.data)
          BY <2>0, <2>2, <2>3, <2>5
        <4>4. \A j \in 1..Len(files'[entry'.path]) : FALSE
          BY <2>2, <2>5
        <4> QED  BY <4>1, <4>2, <4>3, <4>4 DEF FileInv, Paths
      <3> QED  BY <2>1, <3>1 DEF RequestInv
    <2>10. WholeInv'
      <3>1. \A p \in Paths : files[p] \in {Old, Absent} \/ Complete(files[p])
        BY <1>2, NoneWritten
      <3>2. ASSUME NEW p \in Paths PROVE Writing(p)' \/ files'[p] \in {Old, Absent} \/ Complete(files[p])
        BY <3>1, <2>1, <2>2, <2>5, <1>2, <1>5 DEF Writing
      <3>3. ASSUME NEW p \in Paths, p # P, Complete(files[p]) PROVE Complete(files[p])'
        BY <1>2, <2>5, <2>7, <3>3 DEF Complete
      <3>4. \A p \in Paths : p = P => Writing(p)'
        BY <2>1, <2>2, <1>2, <1>5 DEF Writing
      <3> QED  BY <3>2, <3>3, <3>4 DEF WholeInv, Old, Absent
    <2>11. StepInv'
      <3>2. SUFFICES ASSUME ~damaged
                     PROVE  \E k \in 0..MemberCount : Place(k)' /\ NamePlace(k)' /\ (~NameForgotten => DiskPlace(k)')
        BY <1>2, <2>7 DEF StepInv
      <3>3. PICK k \in 0..MemberCount :
              /\ Place(k)
              /\ longName = Pending(k) \/ (longName = NoName /\ NameForgotten)
              /\ ~NameForgotten => \A p \in Paths : files[p] = FileUpto(k, p)
              /\ ~NameForgotten => \A i \in Of("dir") : i <= k => Clean(NameOf(i)) \in dirs
        BY <1>2, <3>2, PlaceIs
      <3>4. /\ k \in 0..(MemberCount - 1) /\ buf[1] = <<"header", k + 1>> /\ k + 1 \in 1..MemberCount
            /\ src = Upto(k) + BlockSize /\ Header = Mem(k + 1)
        BY <1>1, <3>2, <3>3, InStep
      <3>5. Place(k)'
        <4>1. k < MemberCount
          BY <3>4, <1>2, MembersAre
        <4>2. entry'.at = k + 1
          BY <3>4, <2>2
        <4>3. FirstUnit' = Upto(k) + BlockSize + Len(files'[entry'.path])
          <5>1. Len(files'[entry'.path]) = 0
            BY <2>2, <2>5
          <5>2. src + 0 = src
            BY <1>2
          <5> QED  BY <5>1, <5>2, <2>6, <3>4
        <4> QED  BY <4>1, <4>2, <4>3, <2>1, <2>7 DEF Place
      <3>6. NamePlace(k)'
        BY <1>1, <2>1 DEF NamePlace
      <3>7. ASSUME ~NameForgotten PROVE DiskPlace(k)'
        <4>1. k + 1 \in FilesAt(P)
          <5>1. Name = NameOf(k + 1)
            BY <3>3, <3>4, <3>7, <1>2, NameIs
          <5>2. k + 1 \in DOMAIN archive.members
            BY <3>4, <1>2, MembersAre
          <5> QED  BY <5>1, <5>2, <3>4, <1>1 DEF FilesAt, Of, Mem, Skipped, Path, P
        <4>2. ASSUME NEW p \in Paths PROVE Writing(p)' \/ files'[p] = FileUpto(k, p)'
          <5>1. CASE p = P
            BY <5>1, <2>1, <2>2, <1>2, <1>5 DEF Writing
          <5>2. CASE p # P
            BY <5>2, <3>3, <3>7, <2>5, <2>7
          <5> QED  BY <5>1, <5>2
        <4>3. \A i \in Of("dir") : i <= k => Clean(NameOf(i)) \in dirs'
          BY <3>3, <3>7, <1>5
        <4>4. \A i : Clean(NameOf(i))' = Clean(NameOf(i))
          BY <2>7
        <4> QED  BY <4>1, <4>2, <4>3, <4>4, <2>2, <2>7 DEF DiskPlace, Paths
      <3> QED  BY <3>5, <3>6, <3>7
    <2> QED
      BY <2>1, <2>4, <2>8, <2>9, <2>10, <2>11, <1>1, <1>2, <1>5, MoveKeeps
  <1>6. CASE status' = "fault" /\ UNCHANGED <<disk, entry, rest, request>>
    <2>1. status' = "fault" /\ UNCHANGED <<archive, kind, cut, damaged, src, gz, pc, want, buf, rest, files>>
      BY <1>2, <1>6 DEF disk, request
    <2>2. ResultIsTrue'
      BY <2>1 DEF ResultIsTrue
    <2>3. cut' \in BOOLEAN
      BY <2>1 DEF ExtractInv, ExtractType, ReaderType
    <2> QED  BY <1>1, <1>2, <2>1, <2>2, <2>3, QuitKeeps
  <1> QED
    BY <1>5, <1>6 DEF BeginFile

\* The file that is written, in an undamaged archive.
LEMMA WritingIs ==
    ASSUME ExtractInv, status = "none", pc = "data", want = 0
    PROVE  /\ archive \in Archives /\ entry.at \in 1..MemberCount /\ Current = Mem(entry.at) /\ Current.type = "file"
           /\ entry.path \in Paths /\ files \in [Paths -> Seq(Units)]
           /\ files[entry.path] \in Seq(Units) /\ Len(files[entry.path]) \in Nat
           /\ rest \in Nat /\ buf \in Seq(Units) /\ Len(buf) \in Nat /\ Len(buf) <= rest
           /\ (Len(buf) = 0 => rest = 0)
           /\ Len(files[entry.path]) + rest = Len(Current.data) /\ Len(Current.data) \in Nat
           /\ DataOf(Current) \in Seq({"data"} \X Nat) /\ Len(DataOf(Current)) = Len(Current.data)
           /\ \A j \in 1..Len(Current.data) : DataOf(Current)[j] = <<"data", Current.data[j]>>
           /\ ~damaged => \A j \in 1..Len(files[entry.path]) :
                              files[entry.path][j] = <<"data", Current.data[j]>>
  <1>1. FileInv /\ archive \in Archives
    BY ReaderIs DEF ExtractInv, RequestInv
  <1>2. /\ entry.at \in 1..MemberCount /\ Current = Mem(entry.at) /\ Current.type = "file" /\ entry.path \in Paths
        /\ Len(files[entry.path]) + rest = Len(Current.data)
        /\ ~damaged => \A j \in 1..Len(files[entry.path]) :
                           files[entry.path][j] = <<"data", Current.data[j]>>
        /\ want + Len(buf) <= rest /\ (want + Len(buf) = 0 => rest = 0)
    BY <1>1 DEF FileInv, Current, Mem
  <1>3. files \in [Paths -> Seq(Units)] /\ rest \in Nat /\ buf \in Seq(Units)
    BY DEF ExtractInv, ExtractType, TarType, RequestType
  <1>4. files[entry.path] \in Seq(Units)
    BY <1>2, <1>3
  <1>5. Len(files[entry.path]) \in Nat /\ Len(buf) \in Nat
    BY <1>3, <1>4
  <1>6. want + Len(buf) = Len(buf)
    BY <1>5
  <1>7. Len(Current.data) \in Nat /\ Current.data \in Seq(Nat \ {0})
    BY <1>1, <1>2, MembersAre
  <1>8. /\ DataOf(Current) \in Seq({"data"} \X Nat) /\ Len(DataOf(Current)) = Len(Current.data)
        /\ \A j \in 1..Len(Current.data) : DataOf(Current)[j] = <<"data", Current.data[j]>>
    <2> DEFINE d == Current.data
               n == Len(d)
               e == [j \in 1..n |-> <<"data", d[j]>>]
    <2>1. d \in Seq(Nat \ {0}) /\ n \in Nat /\ DOMAIN d = 1..n
      BY <1>7
    <2>2. DataOf(Current) = e
      BY <2>1 DEF DataOf
    <2> HIDE DEF d
    <2>3. \A j \in 1..n : d[j] \in Nat
      BY <2>1
    <2>4. e \in Seq({"data"} \X Nat) /\ Len(e) = n /\ \A j \in 1..n : e[j] = <<"data", d[j]>>
      BY <2>1, <2>3
    <2> QED  BY <2>2, <2>4 DEF d
  <1> QED
    BY <1>1, <1>2, <1>3, <1>4, <1>5, <1>6, <1>7, <1>8

\* A part of it is written behind the others.
LEMMA WritePartKeeps == ASSUME ExtractInv, WritePart PROVE ExtractInv'
  <1>1. /\ status = "none" /\ want = 0 /\ pc = "data" /\ rest > 0 /\ UNCHANGED <<reader, entry, longName, dirs>>
    BY DEF WritePart, Has
  <1> DEFINE P == entry.path
             c == files[P]
             b == Len(buf)
             l == Len(c)
             d == c \o buf
             t == Len(Current.data)
  <1>2. CASE Removed
    BY <1>1, <1>2, RemovedKeeps
  <1>3. ASSUME files' = [files EXCEPT ![P] = @ \o buf], rest' = rest - Len(buf),
               Reads("data", Min({rest', IoChunk})), status' = status
        PROVE  ExtractInv'
    <2>1. /\ archive \in Archives /\ entry.at \in 1..MemberCount /\ Current = Mem(entry.at) /\ Current.type = "file"
          /\ P \in Paths /\ files \in [Paths -> Seq(Units)]
          /\ c \in Seq(Units) /\ l \in Nat
          /\ rest \in Nat /\ buf \in Seq(Units) /\ b \in Nat /\ b <= rest
          /\ l + rest = t /\ t \in Nat
          /\ ~damaged => \A j \in 1..l : c[j] = <<"data", Current.data[j]>>
      BY <1>1, WritingIs
    <2>2. UNCHANGED <<archive, kind, cut, damaged, src, gz>> /\ src \in Nat /\ BlockSize \in Nat
      BY <1>1, ReaderIs, Sizes DEF reader
    <2>3. d \in Seq(Units) /\ Len(d) = l + b /\ (\A j \in 1..l : d[j] = c[j]) /\ \A j \in 1..b : d[l + j] = buf[j]
      <3>1. c \in Seq(Units) /\ buf \in Seq(Units)
        BY <2>1
      <3> HIDE DEF c
      <3> QED  BY <3>1
    <2>4. files' = [files EXCEPT ![P] = d]
      BY <1>3
    <2> HIDE DEF d
    <2>5. files' \in [Paths -> Seq(Units)] /\ files'[P] = d /\ \A p \in Paths : p # P => files'[p] = files[p]
      BY <2>1, <2>3, <2>4
    <2>6. entry' = entry /\ longName' = longName /\ dirs' = dirs /\ Current' = Current /\ rest' = rest - b
      BY <1>1, <1>3, <2>2 DEF Current
    <2> DEFINE r == rest'
               w == Min({r, IoChunk})
    <2>7. pc' = "data" /\ want' = w /\ buf' = <<>>
      BY <1>3 DEF Reads
    <2> HIDE DEF c, b, l, t, P
    <2>8. r \in Nat /\ l + b + r = t
      BY <2>1, <2>6
    <2> HIDE DEF r
    <2>9. w \in Nat /\ w <= r /\ (w = 0 => r = 0)
      BY <2>8, LesserIs, Sizes
    <2> HIDE DEF w
    <2>10. Len(buf') = 0 /\ FirstUnit' = src
      <3>1. FirstUnit' = src - Len(buf') /\ buf' = <<>>
        BY <2>2, <2>7 DEF FirstUnit
      <3> QED  BY <3>1, <2>2
    <2>11. MemberCount' = MemberCount /\ NameForgotten' = NameForgotten /\ Units' = Units
           /\ (\A i : Mem(i)' = Mem(i) /\ Upto(i)' = Upto(i))
           /\ (\A i : Pending(i)' = Pending(i) /\ NameOf(i)' = NameOf(i))
           /\ (\A i, p : FileUpto(i, p)' = FileUpto(i, p))
           /\ (\A p : FilesAt(p)' = FilesAt(p))
           /\ Of("dir")' = Of("dir")
      BY <2>2, ArchiveStays
    <2>12. TarType'
      BY <2>5, <2>6, <2>8, <2>11, <1>1, <1>3 DEF ExtractInv, ExtractType, TarType, Names, Paths, r
    <2>13. ASSUME ~damaged, NEW k \in 0..MemberCount, Place(k)
           PROVE  /\ \A j \in 1..(l + b) : d[j] = <<"data", Current.data[j]>>
                  /\ src = Upto(k) + BlockSize + (l + b)
      <3>1. k < MemberCount /\ entry.at = k + 1 /\ FirstUnit = Upto(k) + BlockSize + l
        BY <2>13, <1>1 DEF Place, l, c, P
      <3>2. k \in 0..(MemberCount - 1) /\ Current = Mem(k + 1)
        <4>1. MemberCount \in Nat
          BY <2>1, MembersAre
        <4> QED  BY <4>1, <3>1, <2>1
      <3>3. Content(k) /\ Upto(k) \in Nat
        BY <2>1, <3>2, TapeIs
      <3>4. Mem(k + 1).type # "zero"
        BY <2>1, <3>2
      <3>5. \A j \in 1..t : Unit(Upto(k) + BlockSize + j) = <<"data", Current.data[j]>>
        BY <3>2, <3>3, <3>4 DEF Content, t
      <3> DEFINE e == Upto(k) + BlockSize
      <3>6. e \in Nat /\ FirstUnit = e + l /\ FirstUnit = src - b
        BY <3>1, <3>3, <2>2 DEF FirstUnit, b
      <3>7. \A j \in 1..t : Unit(e + j) = <<"data", Current.data[j]>>
        BY <3>5
      <3> HIDE DEF e
      <3>8. ASSUME NEW j \in 1..b PROVE d[l + j] = <<"data", Current.data[l + j]>>
        <4>1. buf[j] = Unit(FirstUnit + j)
          BY <2>13 DEF ExtractInv, BufferInv, b
        <4>2. FirstUnit + j = e + (l + j) /\ l + j \in 1..t
          BY <3>6, <2>1, <2>8
        <4> QED  BY <4>1, <4>2, <3>7, <2>3
      <3>9. ASSUME NEW j \in 1..(l + b) PROVE d[j] = <<"data", Current.data[j]>>
        <4>1. CASE j \in 1..l
          BY <4>1, <2>1, <2>3, <2>13
        <4>2. CASE j \notin 1..l
          <5> DEFINE i == j - l
          <5>1. i \in 1..b /\ l + i = j
            BY <4>2, <2>1
          <5> HIDE DEF i
          <5>2. d[l + i] = <<"data", Current.data[l + i]>>
            BY <5>1, <3>8
          <5> QED  BY <5>1, <5>2
        <4> QED  BY <4>1, <4>2
      <3>10. src = e + (l + b)
        BY <3>6, <2>1, <2>2
      <3> QED  BY <3>9, <3>10 DEF e
    <2>14. RequestInv'
      <3>1. FileInv'
        <4>1. entry'.at \in 1..MemberCount' /\ Current'.type = "file" /\ entry'.path \in Paths
          BY <2>1, <2>6, <2>11 DEF P
        <4>2. want' + Len(buf') <= rest' /\ (want' + Len(buf') = 0 => rest' = 0)
          BY <2>7, <2>8, <2>9, <2>10 DEF r
        <4>3. files'[entry'.path] = d
          BY <2>5, <2>6 DEF P
        <4>4. Len(files'[entry'.path]) + rest' = Len(Current'.data)
          BY <4>3, <2>3, <2>6, <2>8 DEF r, t
        <4>5. ASSUME ~damaged', NEW j \in 1..Len(files'[entry'.path])
              PROVE  files'[entry'.path][j] = <<"data", Current'.data[j]>>
          <5>1. ~damaged
            BY <4>5, <2>2
          <5>2. PICK k \in 0..MemberCount : Place(k)
            BY <5>1, <1>1, PlaceIs
          <5>3. \A i \in 1..(l + b) : d[i] = <<"data", Current.data[i]>>
            BY <5>1, <5>2, <2>13
          <5>4. j \in 1..(l + b)
            BY <4>3, <4>5, <2>3
          <5> QED  BY <5>3, <5>4, <4>3, <2>6
        <4> QED  BY <4>1, <4>2, <4>4, <4>5 DEF FileInv, Paths
      <3> QED  BY <2>7, <3>1 DEF RequestInv
    <2>15. \A p : Writing(p)' <=> p = P
      BY <2>6, <2>7, <1>1, <1>3 DEF Writing, P
    <2>16. \A p : Writing(p) <=> p = P
      BY <1>1 DEF Writing, P
    <2>17. WholeInv'
      <3>1. \A p \in Paths : p # P => files[p] \in {Old, Absent} \/ Complete(files[p])
        BY <2>16 DEF ExtractInv, WholeInv
      <3>2. ASSUME NEW p \in Paths, p # P, Complete(files[p]) PROVE Complete(files[p])'
        BY <2>2, <2>5, <2>11, <3>2 DEF Complete
      <3> QED  BY <3>1, <3>2, <2>5, <2>15 DEF WholeInv, Old, Absent, Paths
    <2>18. StepInv'
      <3>2. SUFFICES ASSUME ~damaged
                     PROVE  \E k \in 0..MemberCount : Place(k)' /\ NamePlace(k)' /\ (~NameForgotten => DiskPlace(k)')
        BY <2>2, <2>11 DEF StepInv
      <3>3. PICK k \in 0..MemberCount : Place(k) /\ NamePlace(k) /\ (~NameForgotten => DiskPlace(k))
        BY <1>1, <3>2, PlaceIs
      <3>4. Place(k)'
        <4>1. k < MemberCount /\ entry'.at = k + 1
          BY <3>3, <2>6, <1>1 DEF Place
        <4>2. FirstUnit' = Upto(k) + BlockSize + Len(files'[entry'.path])
          BY <3>2, <3>3, <2>3, <2>5, <2>6, <2>10, <2>13 DEF P
        <4> QED  BY <4>1, <4>2, <2>7, <2>11 DEF Place
      <3>5. NamePlace(k)'
        BY <3>3, <2>6, <2>7, <1>1 DEF NamePlace
      <3>6. ASSUME ~NameForgotten PROVE DiskPlace(k)'
        <4>1. k + 1 \in FilesAt(P) /\ (\A p \in Paths : p # P => files[p] = FileUpto(k, p))
              /\ \A i \in Of("dir") : i <= k => Clean(NameOf(i)) \in dirs
          BY <3>3, <3>6, <2>16, <1>1 DEF DiskPlace, P
        <4>2. \A p \in Paths : Writing(p)' \/ files'[p] = FileUpto(k, p)'
          BY <4>1, <2>5, <2>11, <2>15
        <4>3. k + 1 \in FilesAt(P)' /\ P = entry'.path
          BY <4>1, <2>6, <2>11 DEF P
        <4>4. \A i : Clean(NameOf(i))' = Clean(NameOf(i))
          BY <2>11
        <4> QED  BY <4>1, <4>2, <4>3, <4>4, <2>6, <2>11 DEF DiskPlace, Paths
      <3> QED  BY <3>3, <3>4, <3>5, <3>6
    <2> QED
      BY <2>7, <2>9, <2>12, <2>14, <2>17, <2>18, <1>1, <1>3, MoveKeeps
  <1> QED
    BY <1>2, <1>3 DEF WritePart

\* It is complete.
LEMMA EndFileKeeps == ASSUME ExtractInv, EndFile PROVE ExtractInv'
  <1>1. /\ status = "none" /\ want = 0 /\ pc = "data" /\ rest = 0 /\ UNCHANGED <<reader, entry, longName, dirs>>
    BY DEF EndFile, Has
  <1> DEFINE P == entry.path
             c == files[P]
             t == Len(Current.data)
  <1>2. CASE Removed
    BY <1>1, <1>2, RemovedKeeps
  <1>3. ASSUME ThenHeader(Pad(t)), UNCHANGED <<files, rest, status>>
        PROVE  ExtractInv'
    <2>1. /\ archive \in Archives /\ entry.at \in 1..MemberCount /\ Current = Mem(entry.at) /\ Current.type = "file"
          /\ P \in Paths /\ files \in [Paths -> Seq(Units)]
          /\ c \in Seq(Units) /\ Len(c) \in Nat /\ Len(buf) \in Nat
          /\ rest \in Nat /\ Len(buf) <= rest
          /\ Len(c) + rest = t /\ t \in Nat
          /\ DataOf(Current) \in Seq({"data"} \X Nat) /\ Len(DataOf(Current)) = t
          /\ \A j \in 1..t : DataOf(Current)[j] = <<"data", Current.data[j]>>
          /\ ~damaged => \A j \in 1..Len(c) : c[j] = <<"data", Current.data[j]>>
      BY <1>1, WritingIs
    <2>2. src \in Nat /\ BlockSize \in Nat
      BY ReaderIs, Sizes
    <2> HIDE DEF c, t
    <2>3. Len(buf) = 0 /\ Len(c) = t /\ FirstUnit = src
      <3> DEFINE b == Len(buf)
                 l == Len(c)
      <3>1. b \in Nat /\ b <= rest /\ l \in Nat /\ l + rest = t /\ FirstUnit = src - b
        BY <2>1 DEF FirstUnit
      <3> HIDE DEF b, l
      <3>2. b = 0 /\ l = t /\ FirstUnit = src
        BY <3>1, <2>2, <1>1
      <3> QED  BY <3>2 DEF b, l
    <2>4. ~damaged => c = DataOf(Current)
      <3> DEFINE e == DataOf(Current)
      <3>1. c \in Seq(Units) /\ e \in Seq({"data"} \X Nat) /\ Len(c) = t /\ Len(e) = t
            /\ (~damaged => \A j \in 1..t : c[j] = e[j])
        BY <2>1, <2>3
      <3> HIDE DEF e
      <3>2. c = [j \in 1..t |-> c[j]] /\ e = [j \in 1..t |-> e[j]]
        BY <3>1
      <3>3. ~damaged => c = e
        <4>1. SUFFICES ASSUME ~damaged PROVE c = e
          OBVIOUS
        <4>2. [j \in 1..t |-> c[j]] = [j \in 1..t |-> e[j]]
          BY <4>1, <3>1
        <4> QED  BY <4>2, <3>2
      <3> QED  BY <3>3 DEF e
    <2>5. Complete(c)
      BY <2>1, <2>3, <2>4 DEF Complete, t
    <2>6. \A p \in Paths : files[p] \in {Old, Absent} \/ Complete(files[p])
      BY <2>5, <1>1 DEF ExtractInv, WholeInv, Writing, c, P
    <2>7. Pad(t) \in Nat /\ Whole(t) = t + Pad(t)
      BY <2>1, PadIs
    <2>8. longName' = NoName \/ longName' \in Names
      BY <1>1 DEF ExtractInv, ExtractType, TarType
    <2>9. ASSUME ~damaged
          PROVE  \E k \in 0..MemberCount :
                     /\ src + Pad(t) = Upto(k)
                     /\ longName' = Pending(k) \/ (longName' = NoName /\ NameForgotten)
                     /\ ~NameForgotten => /\ \A p \in Paths : files[p] = FileUpto(k, p)
                                          /\ \A i \in Of("dir") : i <= k => Clean(NameOf(i)) \in dirs'
      <3>1. PICK k \in 0..MemberCount : Place(k) /\ NamePlace(k) /\ (~NameForgotten => DiskPlace(k))
        BY <1>1, <2>9, PlaceIs
      <3>2. k < MemberCount /\ entry.at = k + 1 /\ FirstUnit = Upto(k) + BlockSize + Len(c) /\ longName = NoName
        BY <3>1, <1>1 DEF Place, NamePlace, c, P
      <3>3. k \in 0..(MemberCount - 1) /\ Current = Mem(k + 1) /\ MemberCount \in Nat
        <4>1. MemberCount \in Nat
          BY <2>1, MembersAre
        <4> QED  BY <4>1, <3>2, <2>1
      <3>4. k + 1 \in 1..MemberCount /\ k + 1 \in 0..MemberCount /\ Upto(k) \in Nat
            /\ Upto(k + 1) = Upto(k) + BlockSize + Whole(t)
        BY <3>3, <2>1, MemberReach DEF t
      <3>5. src + Pad(t) = Upto(k + 1)
        <4> DEFINE u == Upto(k)
                   v == Upto(k + 1)
                   x == Pad(t)
        <4>1. src = u + BlockSize + t /\ v = u + BlockSize + (t + x) /\ u \in Nat /\ x \in Nat
          BY <2>3, <2>7, <3>2, <3>4
        <4> HIDE DEF u, v, x
        <4>2. src + x = v
          BY <4>1, <2>1, <2>2
        <4> QED  BY <4>2 DEF v, x
      <3>6. Pending(k + 1) = NoName
        BY <3>3, <2>1, PendingNext DEF Entries
      <3>7. ASSUME ~NameForgotten
            PROVE  /\ \A p \in Paths : files[p] = FileUpto(k + 1, p)
                   /\ \A i \in Of("dir") : i <= k + 1 => Clean(NameOf(i)) \in dirs'
        <4>1. k + 1 \in FilesAt(P) /\ (\A p \in Paths : p # P => files[p] = FileUpto(k, p))
              /\ \A i \in Of("dir") : i <= k => Clean(NameOf(i)) \in dirs
          BY <3>1, <3>7, <1>1 DEF DiskPlace, Writing, P
        <4>2. ASSUME NEW p \in Paths PROVE files[p] = FileUpto(k + 1, p)
          <5>1. CASE p = P
            <6>1. FileUpto(k + 1, p) = DataOf(Mem(k + 1))
              BY <5>1, <4>1, <3>3, <2>1, FilesNext
            <6> QED  BY <6>1, <5>1, <2>4, <2>9, <3>3 DEF c
          <5>2. CASE p # P
            <6>1. k + 1 \notin FilesAt(p)
              BY <5>2, <4>1 DEF FilesAt
            <6>2. FileUpto(k + 1, p) = FileUpto(k, p)
              BY <6>1, <3>3, <2>1, FilesNext
            <6> QED  BY <6>2, <5>2, <4>1
          <5> QED  BY <5>1, <5>2
        <4>3. k + 1 \notin Of("dir")
          BY <3>3, <2>1 DEF Of, Mem
        <4>4. ASSUME NEW i \in Of("dir"), i <= k + 1 PROVE Clean(NameOf(i)) \in dirs'
          <5>1. i \in 1..MemberCount /\ i # k + 1
            BY <4>3, <2>1, MembersAre DEF Of
          <5>2. i <= k
            BY <5>1, <4>4, <3>3
          <5> QED  BY <5>2, <4>1, <1>1
        <4> QED  BY <4>2, <4>4
      <3> QED  BY <3>2, <3>4, <3>5, <3>6, <3>7, <1>1
    <2> QED
      BY <1>1, <1>3, <2>6, <2>7, <2>8, <2>9, ThenHeaderKeeps
  <1> QED
    BY <1>2, <1>3 DEF EndFile

----------------------------------------------------------------------------
(* All steps together.                                                     *)

\* Nothing happens.
LEMMA NothingKeeps == ASSUME ExtractInv, UNCHANGED vars PROVE ExtractInv'
  <1>1. UNCHANGED <<archive, kind, cut, damaged, src, gz, pc, want, buf, entry, rest, longName, files, dirs, status>>
        /\ UNCHANGED tar
    BY DEF vars, reader, request, tar, disk
  <1>2. /\ Length' = Length /\ MemberCount' = MemberCount /\ Units' = Units /\ InflaterStates' = InflaterStates
        /\ \A n : Unit(n)' = Unit(n) /\ Mem(n)' = Mem(n)
    BY <1>1, ArchiveStays
  <1>3. FirstUnit' = FirstUnit /\ Current' = Current
    BY <1>1 DEF FirstUnit, Current
  <1>4. ExtractType'
    BY <1>1, <1>2 DEF ExtractInv, ExtractType, ReaderType, RequestType, TarType, Names, Paths
  <1>5. InflaterInv'
    BY <1>1, <1>2 DEF ExtractInv, InflaterInv, Unit
  <1>6. WindowInv'
    BY <1>1 DEF ExtractInv, WindowInv, Back, Begins, Unit
  <1>7. BufferInv'
    BY <1>1 DEF ExtractInv, BufferInv, AllZero, Unit, FirstUnit
  <1>8. FileInv => FileInv'
    BY <1>1, <1>2, <1>3 DEF FileInv, Paths
  <1>9. RequestInv'
    BY <1>1, <1>2, <1>3, <1>8 DEF ExtractInv, RequestInv
  <1>10. WholeInv'
    BY <1>1, WholeStays DEF ExtractInv
  <1>11. StepInv'
    BY <1>1, <1>3, StepStays DEF ExtractInv
  <1>12. ResultIsTrue'
    <2>1. /\ status = "ok" => \/ cut \/ NameForgotten \/ (damaged /\ archive.marker >= 2)
                              \/ /\ files = Expected /\ {Clean(NameOf(i)) : i \in Of("dir")} \subseteq dirs
          /\ status = "refused" => damaged \/ Unusable
      BY DEF ExtractInv, ResultIsTrue
    <2>2. status' = status /\ cut' = cut /\ files' = files /\ dirs' = dirs /\ archive' = archive /\ damaged' = damaged
      BY <1>1
    <2> QED  BY <2>1, <2>2, ResultStays
  <1> QED
    BY <1>4, <1>5, <1>6, <1>7, <1>9, <1>10, <1>11, <1>12 DEF ExtractInv

\* Every step keeps the invariant.
LEMMA ExtractStep == ASSUME ExtractInv, [Next]_vars PROVE ExtractInv'
  <1>1. CASE Read
    BY <1>1, RawReadKeeps, RawEndKeeps, ReadFailsKeeps, StartStoredKeeps, StartHuffmanKeeps,
       StoredByteKeeps, LiteralKeeps, StartCopyKeeps, CopyByteKeeps, BadSymbolKeeps, EndOfBlockKeeps,
       TrailerKeeps DEF Read
  <1>2. CASE Loop
    BY <1>2, OpenKeeps, FirstZeroKeeps, SecondZeroKeeps, RefusesHeaderKeeps, GlobalHeaderKeeps,
       NameHeaderKeeps, NameReadKeeps, SkipEntryKeeps, RefusesPathKeeps, MakeDirectoryKeeps,
       BeginFileKeeps, WritePartKeeps, EndFileKeeps, SkipDoneKeeps DEF Loop
  <1> QED
    BY <1>1, <1>2, NothingKeeps DEF Next

\* It holds in the beginning.
LEMMA ExtractInit == ASSUME Init PROVE ExtractInv
  <1>1. /\ archive \in Archives /\ kind \in {"raw", "gzip"} /\ cut = FALSE /\ damaged = FALSE /\ src = 0
        /\ pc = "open" /\ want = 0 /\ buf = <<>> /\ rest = 0 /\ longName = NoName
        /\ files = [p \in Paths |-> Old] /\ dirs = {} /\ status = "none"
    BY DEF Init
  <1>2. /\ Length \in Nat /\ MemberCount \in Nat /\ Upto(0) = 0 /\ DOMAIN archive.members = 1..MemberCount
    BY <1>1, TapeIs, MembersAre
  <1>3. Zero \in Units /\ Old \in Seq(Units)
    BY DEF Zero, Old, Units, UnitsOf
  <1>4. gz \in InflaterStates /\ gz.active = FALSE /\ gz.copyLen = 0 /\ gz.done = FALSE /\ gz.good = TRUE
    <2> DEFINE w == [i \in 0..(Window - 1) |-> Zero]
    <2>1. w \in [0..(Window - 1) -> Units] /\ 0 \in 0..(Window - 1)
      BY <1>3, Sizes
    <2>2. gz = [active |-> FALSE, stored |-> FALSE, final |-> FALSE, left |-> 0,
                copyLen |-> 0, copyDist |-> 0, done |-> FALSE, window |-> w, winPos |-> 0, good |-> TRUE]
      BY DEF Init
    <2> HIDE DEF w
    <2> QED  BY <2>1, <2>2 DEF InflaterStates
  <1>5. ExtractType
    <2>1. ReaderType
      <3>1. src \in Nat /\ src <= Length
        BY <1>1, <1>2
      <3> QED  BY <3>1, <1>1, <1>4 DEF ReaderType
    <2>2. RequestType
      <3>1. buf \in Seq(Units) /\ Len(buf) = 0
        BY <1>1
      <3> QED  BY <3>1, <1>1 DEF RequestType
    <2>3. TarType
      BY <1>1, <1>3 DEF TarType
    <2> QED  BY <2>1, <2>2, <2>3 DEF ExtractType
  <1>6. InflaterInv
    BY <1>1, <1>4 DEF InflaterInv
  <1>7. WindowInv
    <2>1. \A d \in 1..Window : ~(d <= src)
      BY <1>1, Sizes
    <2> QED  BY <2>1 DEF WindowInv
  <1>8. BufferInv
    <2>1. \A j \in 1..Len(buf) : FALSE
      BY <1>1
    <2> QED  BY <2>1, <1>1 DEF BufferInv
  <1>9. RequestInv
    BY <1>1 DEF RequestInv
  <1>10. WholeInv
    BY <1>1 DEF WholeInv
  <1>11. StepInv
    <2>1. 0 \in 0..MemberCount
      BY <1>2
    <2>2. Place(0)
      BY <1>1 DEF Place
    <2>3. Pending(0) = NoName
      BY DEF Pending, Spelled
    <2>4. \A i : i \in 1..MemberCount => ~(i <= 0)
      BY <1>2
    <2>5. \A t : Of(t) \subseteq 1..MemberCount
      BY <1>2 DEF Of
    <2>6. \A p \in Paths : FileUpto(0, p) = Old
      BY <2>4, <2>5 DEF FileUpto, FilesUpto, FilesAt
    <2>7. DiskPlace(0)
      BY <2>4, <2>5, <2>6, <1>1 DEF DiskPlace
    <2> QED  BY <2>1, <2>2, <2>3, <2>7, <1>1 DEF StepInv, NamePlace
  <1>12. ResultIsTrue
    BY <1>1 DEF ResultIsTrue
  <1> QED
    BY <1>5, <1>6, <1>7, <1>8, <1>9, <1>10, <1>11, <1>12 DEF ExtractInv

\* The inductive invariant holds: the inflater's window is what was read, the
\* loop has what the archive has in that place, and where nothing is damaged
\* the loop is in step with the members of the archive.
THEOREM ExtractInvariant == Spec => []ExtractInv
  BY ExtractInit, ExtractStep, PTL DEF Spec

\* A status, once it is there, comes with whole files only.
LEMMA WholeAtEnd == ASSUME ExtractInv PROVE NoPartFile
  <1>1. archive \in Archives
    BY ReaderIs
  <1>2. SUFFICES ASSUME status # "none", NEW p \in Paths
                 PROVE  \/ files[p] \in {Old, Absent}
                        \/ \E m \in ToSet(archive.members) :
                               m.type = "file" /\ Len(files[p]) = Len(m.data)
                                   /\ (damaged \/ files[p] = DataOf(m))
    BY DEF NoPartFile
  <1>3. files[p] \in {Old, Absent} \/ Complete(files[p])
    BY <1>2 DEF ExtractInv, WholeInv, Writing
  <1>4. \A i \in 1..MemberCount : Mem(i) \in ToSet(archive.members)
    BY <1>1, MembersAre DEF ToSet, Mem
  <1> QED
    BY <1>3, <1>4 DEF Complete

\* Whatever fails, on the way in or on the way out, no part of a file is left
\* behind (extract_regular_file), for any archives, sizes and portions.
THEOREM ExtractNoPartFile == Spec => []NoPartFile
  BY ExtractInvariant, WholeAtEnd, PTL

\* The result is true: success means that every entry is there, whole and
\* under its name, and a refusal has a reason, for any archives, sizes, portions
\* and divisions into blocks and matches.
THEOREM ExtractResultIsTrue == Spec => []ResultIsTrue
  <1>1. ExtractInv => ResultIsTrue
    BY DEF ExtractInv
  <1> QED
    BY <1>1, ExtractInvariant, PTL
================================================================================
