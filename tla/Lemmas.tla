------------------------------- MODULE Lemmas -------------------------------
(***************************************************************************)
(* Lemmas that several of the proofs rest on: induction over the natural   *)
(* numbers, what the operators on lists keep of them, and what each        *)
(* operation on the books keeps and does to the number of places out.      *)
(***************************************************************************)
EXTENDS Books, Lists, SequenceTheorems, WellFoundedInduction, TLAPS

-----------------------------------------------------------------------------
(* Induction *)

(* There is a least among some natural numbers.                            *)
LEMMA SmallestOf ==
  ASSUME NEW S \in SUBSET Nat, S # {}
  PROVE  \E n \in S : \A m \in S : n <= m
<1> DEFINE R == OpToRel(<, Nat)
<1>1. IsWellFoundedOn(R, Nat)
  BY NatLessThanWellFounded
<1>2. \A m, n \in Nat : m < n => <<m, n>> \in R
  BY DEF OpToRel
<1> HIDE DEF R
<1>3. PICK n \in S : \A m \in S : ~(<<m, n>> \in R)
  BY <1>1, WFMin
<1>4. ASSUME NEW m \in S PROVE n <= m
  <2>1. m \in Nat /\ n \in Nat /\ ~(m < n)
    BY <1>2, <1>3
  <2> QED BY <2>1
<1> QED BY <1>4

(* What holds of zero, and with each number of the next, holds of all: S   *)
(* are the numbers of which it holds.                                      *)
LEMMA Induction ==
  ASSUME NEW S, 0 \in S, \A n \in Nat : n \in S => n + 1 \in S
  PROVE  Nat \subseteq S
<1> SUFFICES ASSUME Nat \ S # {} PROVE FALSE
  OBVIOUS
<1>1. PICK n \in Nat \ S : \A m \in Nat \ S : n <= m
  BY SmallestOf
<1>2. n # 0 /\ n - 1 \in Nat /\ n - 1 + 1 = n
  OBVIOUS
<1> QED BY <1>1, <1>2

-----------------------------------------------------------------------------
(* Lists *)

(* f sifts the first n elements of q, one by one.                          *)
Sifts(f, q, S, n) ==
  f = [i \in 0 .. n |-> IF i = 0 THEN <<>>
         ELSE IF q[i] \in S THEN Append(f[i - 1], q[i]) ELSE f[i - 1]]

(* p are the elements of S among the first n of q: h says where they are.  *)
Picked(h, p, q, S, n) ==
  /\ h \in [1 .. Len(p) -> 1 .. n]
  /\ \A k \in 1 .. Len(p) : p[k] = q[h[k]] /\ q[h[k]] \in S
  /\ \A k, m \in 1 .. Len(p) : k < m => h[k] < h[m]
  /\ \A i \in 1 .. n : q[i] \in S => \E k \in 1 .. Len(p) : h[k] = i

LEMMA SiftExists ==
  ASSUME NEW T, NEW q \in Seq(T), NEW S, NEW n \in Nat
  PROVE  \E f : Sifts(f, q, S, n)
<1> DEFINE D == {m \in Nat : \E f : Sifts(f, q, S, m)}
<1>1. 0 \in D
  <2>1. Sifts([i \in 0 .. 0 |-> <<>>], q, S, 0)
    BY DEF Sifts
  <2> QED BY <2>1
<1>2. ASSUME NEW m \in Nat, m \in D PROVE m + 1 \in D
  <2>1. PICK f : Sifts(f, q, S, m)
    BY <1>2
  <2> DEFINE g == [i \in 0 .. m + 1 |->
                     IF i <= m THEN f[i]
                     ELSE IF q[i] \in S THEN Append(f[i - 1], q[i]) ELSE f[i - 1]]
  <2>2. ASSUME NEW i \in 0 .. m + 1
        PROVE  g[i] = IF i = 0 THEN <<>>
                      ELSE IF q[i] \in S THEN Append(g[i - 1], q[i]) ELSE g[i - 1]
    <3>1. CASE i <= m
      <4>1. i \in 0 .. m /\ g[i] = f[i] /\ (i # 0 => g[i - 1] = f[i - 1])
        BY <3>1
      <4> HIDE DEF g
      <4> QED BY <2>1, <4>1 DEF Sifts
    <3>2. CASE i = m + 1
      BY <3>2
    <3> QED BY <3>1, <3>2
  <2>3. Sifts(g, q, S, m + 1)
    <3>1. g = [i \in 0 .. m + 1 |-> g[i]]
      OBVIOUS
    <3> HIDE DEF g
    <3> QED BY <2>2, <3>1 DEF Sifts
  <2> QED BY <2>3
<1> HIDE DEF D
<1>3. n \in D
  BY <1>1, <1>2, Induction
<1> QED BY <1>3 DEF D

LEMMA PickedMore ==
  ASSUME NEW h, NEW p, NEW q, NEW S, NEW n \in Nat, Picked(h, p, q, S, n), q[n + 1] \in S,
         NEW w, Len(p) \in Nat, Len(w) = Len(p) + 1, w[Len(p) + 1] = q[n + 1],
         \A k \in 1 .. Len(p) : w[k] = p[k]
  PROVE  \E e : Picked(e, w, q, S, n + 1)
<1> DEFINE l == Len(p)
           e == [k \in 1 .. l + 1 |-> IF k <= l THEN h[k] ELSE n + 1]
<1>1. \A k \in 1 .. l + 1 : k \in 1 .. l \/ k = l + 1
  OBVIOUS
<1>2. e[l + 1] = n + 1 /\ \A k \in 1 .. l : e[k] = h[k]
  OBVIOUS
<1>3. \A k \in 1 .. l : h[k] \in 1 .. n
  BY DEF Picked
<1>4. \A k \in 1 .. l + 1 : e[k] \in 1 .. n + 1
  BY <1>1, <1>2, <1>3
<1>5. e \in [1 .. l + 1 -> 1 .. n + 1]
  <2>1. e = [k \in 1 .. l + 1 |-> e[k]]
    OBVIOUS
  <2> HIDE DEF e
  <2> QED BY <1>4, <2>1
<1> HIDE DEF e
<1>6. \A k \in 1 .. l + 1 : w[k] = q[e[k]] /\ q[e[k]] \in S
  BY <1>1, <1>2 DEF Picked
<1>7. \A k, m \in 1 .. l + 1 : k < m => e[k] < e[m]
  <2> SUFFICES ASSUME NEW k \in 1 .. l + 1, NEW m \in 1 .. l + 1, k < m PROVE e[k] < e[m]
    OBVIOUS
  <2>1. k \in 1 .. l
    BY <1>1
  <2>2. CASE m \in 1 .. l
    BY <1>2, <2>1, <2>2 DEF Picked
  <2>3. CASE m = l + 1
    BY <1>2, <1>3, <2>1, <2>3
  <2> QED BY <1>1, <2>2, <2>3
<1>8. \A i \in 1 .. n + 1 : q[i] \in S => \E k \in 1 .. l + 1 : e[k] = i
  <2> SUFFICES ASSUME NEW i \in 1 .. n + 1, q[i] \in S PROVE \E k \in 1 .. l + 1 : e[k] = i
    OBVIOUS
  <2>1. CASE i \in 1 .. n
    <3>1. PICK k \in 1 .. l : h[k] = i
      BY <2>1 DEF Picked
    <3> QED BY <1>2, <3>1
  <2>2. CASE i = n + 1
    BY <1>2, <2>2
  <2> QED BY <2>1, <2>2
<1>9. Picked(e, w, q, S, n + 1)
  BY <1>5, <1>6, <1>7, <1>8 DEF Picked
<1> QED BY <1>9

LEMMA SiftPicks ==
  ASSUME NEW T, NEW q \in Seq(T), NEW S, NEW f, Sifts(f, q, S, Len(q))
  PROVE  /\ f[Len(q)] \in Seq(T)
         /\ \E h : Picked(h, f[Len(q)], q, S, Len(q))
<1> DEFINE D == {n \in Nat : n <= Len(q) => /\ f[n] \in Seq(T)
                                            /\ \E h : Picked(h, f[n], q, S, n)}
<1>1. 0 \in D
  <2>1. f[0] = <<>> /\ f[0] \in Seq(T) /\ Len(f[0]) = 0
    BY DEF Sifts
  <2>2. Picked(<<>>, f[0], q, S, 0)
    BY <2>1 DEF Picked
  <2> QED BY <2>1, <2>2
<1>2. ASSUME NEW n \in Nat, n \in D PROVE n + 1 \in D
  <2> SUFFICES ASSUME n + 1 <= Len(q)
               PROVE  f[n + 1] \in Seq(T) /\ \E h : Picked(h, f[n + 1], q, S, n + 1)
    OBVIOUS
  <2>1. f[n] \in Seq(T)
    BY <1>2
  <2>2. PICK h : Picked(h, f[n], q, S, n)
    BY <1>2
  <2>3. n + 1 \in 1 .. Len(q) /\ q[n + 1] \in T
    BY ElementOfSeq, LenProperties
  <2>4. f[n + 1] = IF q[n + 1] \in S THEN Append(f[n], q[n + 1]) ELSE f[n]
    <3>1. n + 1 \in 0 .. Len(q) /\ n + 1 # 0 /\ n + 1 - 1 = n
      BY <2>3
    <3>2. \A i \in 0 .. Len(q) :
            f[i] = IF i = 0 THEN <<>>
                   ELSE IF q[i] \in S THEN Append(f[i - 1], q[i]) ELSE f[i - 1]
      BY DEF Sifts
    <3>3. f[n + 1] = IF n + 1 = 0 THEN <<>>
                     ELSE IF q[n + 1] \in S THEN Append(f[n + 1 - 1], q[n + 1])
                                            ELSE f[n + 1 - 1]
      BY <3>1, <3>2
    <3> QED BY <3>1, <3>3
  <2> HIDE DEF D
  <2> DEFINE p == f[n]
             x == q[n + 1]
             w == Append(p, x)
  <2>5. CASE x \notin S
    <3>1. Picked(h, p, q, S, n + 1)
      <4>1. 1 .. n \subseteq 1 .. n + 1 /\ \A i \in 1 .. n + 1 : i \in 1 .. n \/ i = n + 1
        OBVIOUS
      <4> QED BY <2>2, <2>5, <4>1 DEF Picked
    <3> QED BY <2>1, <2>4, <2>5, <3>1
  <2>6. CASE x \in S
    <3>1. /\ w \in Seq(T) /\ Len(w) = Len(p) + 1 /\ w[Len(p) + 1] = x
          /\ \A k \in 1 .. Len(p) : w[k] = p[k]
      BY <2>1, <2>3, AppendProperties
    <3>2. Len(p) \in Nat
      BY <2>1, LenProperties
    <3>3. Picked(h, p, q, S, n) /\ q[n + 1] = x /\ x \in S
      BY <2>2, <2>6
    <3> HIDE DEF w, p, x
    <3>4. \E e : Picked(e, w, q, S, n + 1)
      BY <3>1, <3>2, <3>3, PickedMore
    <3> QED BY <2>4, <2>6, <3>1, <3>4 DEF w, p, x
  <2> QED BY <2>5, <2>6
<1> HIDE DEF D
<1>3. Len(q) \in D
  BY <1>1, <1>2, Induction
<1> QED BY <1>3 DEF D

LEMMA AmongPicks ==
  ASSUME NEW T, NEW q \in Seq(T), NEW S
  PROVE  /\ Among(q, S) \in Seq(T)
         /\ \E h : Picked(h, Among(q, S), q, S, Len(q))
<1>0. Len(q) \in Nat
  BY LenProperties
<1>1. \E f : Sifts(f, q, S, Len(q))
  BY <1>0, SiftExists
<1>2. \E f : Sifts(f, q, S, Len(q)) /\ Among(q, S) = f[Len(q)]
  BY <1>1 DEF Sifts, Among
<1> QED BY <1>2, SiftPicks

(* A list of R in which nobody is twice.                                   *)
Lined(q, R) == q \in Seq(R) /\ IsInjective(q)

(* Who is in p before somebody of q was so in q, except for those of E.    *)
Orderly(q, p, E) ==
  \A i \in DOMAIN q, k, m \in DOMAIN p :
    k < m /\ p[m] = q[i] /\ p[k] \notin E => \E j \in 1 .. i - 1 : q[j] = p[k]

LEMMA LinedFacts ==
  ASSUME NEW R, NEW q, Lined(q, R)
  PROVE  /\ Len(q) \in Nat /\ DOMAIN q = 1 .. Len(q)
         /\ \A i \in 1 .. Len(q) : q[i] \in R
         /\ \A i, j \in 1 .. Len(q) : q[i] = q[j] => i = j
         /\ ToSet(q) = {q[i] : i \in 1 .. Len(q)}
<1>1. q \in Seq(R)
  BY DEF Lined
<1>2. Len(q) \in Nat /\ DOMAIN q = 1 .. Len(q) /\ \A i \in 1 .. Len(q) : q[i] \in R
  BY <1>1, LenProperties, ElementOfSeq
<1> QED BY <1>2 DEF Lined, IsInjective, ToSet

(* Who stays in line is not overtaken.                                     *)
LEMMA StayFacts ==
  ASSUME NEW R, NEW q, Lined(q, R)
  PROVE  Orderly(q, q, {})
<1> SUFFICES ASSUME NEW i \in DOMAIN q, NEW k \in DOMAIN q, NEW m \in DOMAIN q,
                    k < m, q[m] = q[i]
             PROVE  k \in 1 .. i - 1
  BY DEF Orderly
<1> QED BY LinedFacts

(* Picking some of a line keeps them in line, in their order.              *)
LEMMA AmongFacts ==
  ASSUME NEW R, NEW q, Lined(q, R), NEW S
  PROVE  /\ Lined(Among(q, S), R)
         /\ ToSet(Among(q, S)) = ToSet(q) \cap S
         /\ Orderly(q, Among(q, S), {})
<1> DEFINE p == Among(q, S)
           l == Len(q)
           n == Len(p)
<1>1. q \in Seq(R)
  BY DEF Lined
<1>2. p \in Seq(R) /\ n \in Nat /\ DOMAIN p = 1 .. n
  BY <1>1, AmongPicks, LenProperties
<1>3. PICK h : Picked(h, p, q, S, l)
  BY <1>1, AmongPicks
<1>4. l \in Nat /\ DOMAIN q = 1 .. l /\ \A i, j \in 1 .. l : q[i] = q[j] => i = j
  BY LinedFacts
<1> HIDE DEF p, l, n
<1>5. /\ \A k \in 1 .. n : h[k] \in 1 .. l /\ p[k] = q[h[k]] /\ q[h[k]] \in S
      /\ \A k, m \in 1 .. n : k < m => h[k] < h[m]
      /\ \A i \in 1 .. l : q[i] \in S => \E k \in 1 .. n : h[k] = i
  BY <1>3 DEF Picked, n
<1>6. Lined(p, R)
  <2> SUFFICES ASSUME NEW k \in 1 .. n, NEW m \in 1 .. n, p[k] = p[m] PROVE k = m
    BY <1>2 DEF Lined, IsInjective
  <2>1. h[k] = h[m] /\ h[k] \in 1 .. l
    BY <1>4, <1>5
  <2>2. ~(k < m) /\ ~(m < k)
    BY <1>4, <1>5, <2>1
  <2> QED BY <1>2, <2>2
<1>7. ToSet(p) = ToSet(q) \cap S
  <2>1. /\ ToSet(p) = {p[k] : k \in 1 .. n}
        /\ ToSet(q) = {q[i] : i \in 1 .. l}
    BY <1>2, <1>4 DEF ToSet
  <2>2. \A k \in 1 .. n : p[k] \in {q[i] : i \in 1 .. l} \cap S
    BY <1>5
  <2>3. \A i \in 1 .. l : q[i] \in S => q[i] \in {p[k] : k \in 1 .. n}
    BY <1>5
  <2> QED BY <2>1, <2>2, <2>3
<1>8. Orderly(q, p, {})
  <2> SUFFICES ASSUME NEW i \in 1 .. l, NEW k \in 1 .. n, NEW m \in 1 .. n,
                      k < m, p[m] = q[i]
               PROVE  \E j \in 1 .. i - 1 : q[j] = p[k]
    BY <1>2, <1>4 DEF Orderly
  <2>1. h[m] = i /\ h[k] < h[m] /\ h[k] \in 1 .. l /\ q[h[k]] = p[k]
    BY <1>4, <1>5
  <2> QED BY <1>4, <2>1
<1> QED BY <1>6, <1>7, <1>8 DEF p

(* A line behind another.                                                  *)
LEMMA BehindFacts ==
  ASSUME NEW R, NEW q, Lined(q, R), NEW w, Lined(w, R), ToSet(q) \cap ToSet(w) = {}
  PROVE  /\ Lined(q \o w, R)
         /\ ToSet(q \o w) = ToSet(q) \cup ToSet(w)
         /\ Orderly(q, q \o w, {})
<1> DEFINE p == q \o w
           l == Len(q)
           n == Len(w)
<1>1. /\ p \in Seq(R) /\ Len(p) = l + n
      /\ \A i \in 1 .. l + n : p[i] = IF i <= l THEN q[i] ELSE w[i - l]
  BY ConcatProperties DEF Lined
<1>2. /\ l \in Nat /\ DOMAIN q = 1 .. l /\ ToSet(q) = {q[i] : i \in 1 .. l}
      /\ \A i, j \in 1 .. l : q[i] = q[j] => i = j
  BY LinedFacts
<1>3. /\ n \in Nat /\ DOMAIN w = 1 .. n /\ ToSet(w) = {w[i] : i \in 1 .. n}
      /\ \A i, j \in 1 .. n : w[i] = w[j] => i = j
  BY LinedFacts
<1>4. DOMAIN p = 1 .. l + n
  BY <1>1, LenProperties
<1> HIDE DEF p, l, n
<1>5. \A i \in 1 .. l, j \in 1 .. n : q[i] # w[j]
  BY <1>2, <1>3
<1>6. \A i \in 1 .. l + n : \/ i \in 1 .. l /\ p[i] = q[i]
                            \/ i - l \in 1 .. n /\ p[i] = w[i - l]
  BY <1>1, <1>2, <1>3
<1>7. Lined(p, R)
  <2> SUFFICES ASSUME NEW k \in 1 .. l + n, NEW m \in 1 .. l + n, p[k] = p[m] PROVE k = m
    BY <1>1, <1>4 DEF Lined, IsInjective
  <2>1. \/ k \in 1 .. l /\ m \in 1 .. l
        \/ k - l \in 1 .. n /\ m - l \in 1 .. n
    BY <1>5, <1>6
  <2>2. CASE k \in 1 .. l /\ m \in 1 .. l
    BY <1>1, <1>2, <2>2
  <2>3. CASE k - l \in 1 .. n /\ m - l \in 1 .. n
    <3>1. p[k] = w[k - l] /\ p[m] = w[m - l]
      BY <1>1, <1>2, <1>3, <2>3
    <3>2. k - l = m - l
      BY <1>3, <2>3, <3>1
    <3> QED BY <1>2, <3>2
  <2> QED BY <2>1, <2>2, <2>3
<1>8. ToSet(p) = ToSet(q) \cup ToSet(w)
  <2>1. ToSet(p) = {p[i] : i \in 1 .. l + n}
    BY <1>4 DEF ToSet
  <2>2. \A i \in 1 .. l : i \in 1 .. l + n /\ p[i] = q[i]
    BY <1>1, <1>2, <1>3
  <2>3. \A i \in 1 .. n : i + l \in 1 .. l + n /\ p[i + l] = w[i]
    BY <1>1, <1>2, <1>3
  <2>4. \A i \in 1 .. l + n : p[i] \in ToSet(q) \cup ToSet(w)
    BY <1>2, <1>3, <1>6
  <2>5. \A x \in ToSet(q) \cup ToSet(w) : x \in {p[i] : i \in 1 .. l + n}
    BY <1>2, <1>3, <2>2, <2>3
  <2> QED BY <2>1, <2>4, <2>5
<1>9. Orderly(q, p, {})
  <2> SUFFICES ASSUME NEW i \in 1 .. l, NEW k \in 1 .. l + n, NEW m \in 1 .. l + n,
                      k < m, p[m] = q[i]
               PROVE  k \in 1 .. i - 1 /\ q[k] = p[k]
    BY <1>2, <1>4 DEF Orderly
  <2>1. m \in 1 .. l /\ p[m] = q[m]
    BY <1>5, <1>6
  <2>2. m = i
    BY <1>2, <2>1
  <2> QED BY <1>1, <1>2, <1>3, <2>1, <2>2
<1> QED BY <1>7, <1>8, <1>9 DEF p

LEMMA OneInLine ==
  ASSUME NEW R, NEW r \in R
  PROVE  Lined(<<r>>, R) /\ ToSet(<<r>>) = {r}
BY DEF Lined, IsInjective, ToSet

(* Who joins at the back overtakes nobody.                                 *)
LEMMA AppendFacts ==
  ASSUME NEW R, NEW q, Lined(q, R), NEW r \in R, r \notin ToSet(q)
  PROVE  /\ Lined(Append(q, r), R)
         /\ ToSet(Append(q, r)) = ToSet(q) \cup {r}
         /\ Orderly(q, Append(q, r), {})
<1>1. Append(q, r) = q \o <<r>>
  <2>1. q \in Seq(R)
    BY DEF Lined
  <2> QED BY <2>1, AppendIsConcat
<1> QED BY <1>1, OneInLine, BehindFacts

(* Who joins at the front overtakes the others, and nobody else does.      *)
LEMMA FrontFacts ==
  ASSUME NEW R, NEW q, NEW w, Lined(w, R), Orderly(q, w, {}), NEW r \in R, r \notin ToSet(w)
  PROVE  /\ Lined(<<r>> \o w, R)
         /\ ToSet(<<r>> \o w) = ToSet(w) \cup {r}
         /\ Orderly(q, <<r>> \o w, {r})
<1> DEFINE p == <<r>> \o w
           n == Len(w)
<1>1. Lined(p, R) /\ ToSet(p) = ToSet(w) \cup {r}
  BY OneInLine, BehindFacts
<1>2. n \in Nat /\ DOMAIN w = 1 .. n
  BY LinedFacts
<1>3. /\ Len(p) = 1 + n /\ DOMAIN p = 1 .. Len(p)
      /\ \A i \in 1 .. 1 + n : p[i] = IF i <= 1 THEN r ELSE w[i - 1]
  <2>1. <<r>> \in Seq(R) /\ Len(<<r>>) = 1 /\ <<r>>[1] = r /\ w \in Seq(R)
    BY DEF Lined
  <2>2. /\ Len(p) = Len(<<r>>) + n
        /\ \A i \in 1 .. Len(<<r>>) + n :
             p[i] = IF i <= Len(<<r>>) THEN <<r>>[i] ELSE w[i - Len(<<r>>)]
    BY <2>1, ConcatProperties
  <2>3. \A i \in 1 .. 1 + n : i <= 1 => i = 1
    OBVIOUS
  <2>4. DOMAIN p = 1 .. Len(p)
    BY <1>1, LinedFacts
  <2> HIDE DEF p, n
  <2> QED BY <2>1, <2>2, <2>3, <2>4
<1> HIDE DEF p, n
<1>4. Orderly(q, p, {r})
  <2> SUFFICES ASSUME NEW i \in DOMAIN q, NEW k \in 1 .. 1 + n, NEW m \in 1 .. 1 + n,
                      k < m, p[m] = q[i], p[k] # r
               PROVE  \E j \in 1 .. i - 1 : q[j] = p[k]
    BY <1>3 DEF Orderly
  <2>1. k - 1 \in DOMAIN w /\ m - 1 \in DOMAIN w /\ k - 1 < m - 1
        /\ w[m - 1] = q[i] /\ w[k - 1] = p[k]
    BY <1>2, <1>3
  <2> QED BY <2>1 DEF Orderly
<1> QED BY <1>1, <1>4 DEF p

-----------------------------------------------------------------------------
(* The books *)

(* Of two numbers, the lesser is one of them and at most each. *)
LEMMA LesserFacts ==
  ASSUME NEW m \in Int, NEW n \in Int
  PROVE  /\ Lesser(m, n) \in {m, n}
         /\ Lesser(m, n) <= m /\ Lesser(m, n) <= n
BY DEF Lesser

(* The free counter is a natural number, at most the permits there are. *)
LEMMA FreeFacts ==
  ASSUME NEW R, NEW p \in BooksType(R)
  PROVE  Free(p) \in Nat /\ Free(p) <= p.avail
<1>1. p.avail \in Nat /\ p.queue \in Seq(R)  BY DEF BooksType
<1>2. Len(p.queue) \in Nat  BY <1>1, LenProperties
<1> QED  BY <1>1, <1>2 DEF Free

(* A new pool has every place in. *)
LEMMA NewPoolFacts ==
  ASSUME NEW R, NEW l \in Nat
  PROVE  /\ NewPool(l) \in BooksType(R)
         /\ NewPool(l).limit = l
         /\ Out(NewPool(l)) = 0
<1>1. <<>> \in Seq(R)  BY EmptySeq
<1> QED  BY <1>1 DEF NewPool, Out, BooksType

(* Taking a permit that is there puts one place out. *)
LEMMA TakeFacts ==
  ASSUME NEW R, NEW p \in BooksType(R), p.avail > 0
  PROVE  /\ Take(p) \in BooksType(R)
         /\ Take(p).limit = p.limit /\ Take(p).queue = p.queue
         /\ Out(Take(p)) = Out(p) + 1
BY DEF Take, Out, BooksType

(* Recording a debt puts one place out. *)
LEMMA OweFacts ==
  ASSUME NEW R, NEW p \in BooksType(R)
  PROVE  /\ Owe(p) \in BooksType(R)
         /\ Owe(p).limit = p.limit /\ Owe(p).queue = p.queue
         /\ Out(Owe(p)) = Out(p) + 1
BY DEF Owe, Out, BooksType

(* Drop of a place brings one in, whether or not something is owed. *)
LEMMA GiveBackFacts ==
  ASSUME NEW R, NEW p \in BooksType(R)
  PROVE  /\ GiveBack(p) \in BooksType(R)
         /\ GiveBack(p).limit = p.limit /\ GiveBack(p).queue = p.queue
         /\ Out(GiveBack(p)) = Out(p) - 1
<1>1. CASE p.owed > 0   BY SMTT(60), <1>1 DEF GiveBack, Out, BooksType
<1>2. CASE ~(p.owed > 0)  BY <1>2 DEF GiveBack, AddPermits, Out, BooksType
<1> QED  BY <1>1, <1>2

(* resize() changes the limit and no number of places out. *)
LEMMA ResizeFacts ==
  ASSUME NEW R, NEW p \in BooksType(R), NEW l \in Nat
  PROVE  /\ Resize(p, l) \in BooksType(R)
         /\ Resize(p, l).limit = l /\ Resize(p, l).queue = p.queue
         /\ Out(Resize(p, l)) = Out(p)
<1> DEFINE more   == l - p.limit
           cancel == Lesser(more, p.owed)
           less   == p.limit - l
           now    == Lesser(less, Free(p))
<1>1. p.limit \in Nat /\ p.owed \in Nat /\ p.avail \in Nat  BY DEF BooksType
<1> DEFINE q == Resize(p, l)
<1>2. CASE l > p.limit
  <2>1. cancel \in Int /\ cancel <= more /\ cancel <= p.owed
    BY <1>1, <1>2, LesserFacts DEF Lesser
  <2>2. q = [limit |-> l, owed |-> p.owed - cancel,
             avail |-> p.avail + (more - cancel), queue |-> p.queue]
    BY <1>2 DEF Resize, AddPermits, BooksType
  <2> HIDE DEF cancel, q
  <2>3. p.owed - cancel \in Nat /\ p.avail + (more - cancel) \in Nat
    BY <1>1, <2>1
  <2>4. q \in BooksType(R)  BY <2>2, <2>3 DEF BooksType
  <2>5. Out(q) = Out(p)  BY <1>1, <2>1, <2>2 DEF Out
  <2> QED  BY <2>2, <2>4, <2>5 DEF q
<1>3. CASE ~(l > p.limit)
  <2>1. now \in Nat /\ now <= less /\ now <= p.avail
    BY <1>1, <1>3, FreeFacts, LesserFacts DEF Lesser
  <2>2. q = [limit |-> l, owed |-> p.owed + (less - now),
             avail |-> p.avail - now, queue |-> p.queue]
    BY <1>3 DEF Resize, ForgetPermits, BooksType
  <2> HIDE DEF now, q
  <2>3. p.owed + (less - now) \in Nat /\ p.avail - now \in Nat
    BY <1>1, <1>3, <2>1
  <2>4. q \in BooksType(R)  BY <2>2, <2>3 DEF BooksType
  <2>5. Out(q) = Out(p)  BY <1>1, <2>1, <2>2 DEF Out
  <2> QED  BY <2>2, <2>4, <2>5 DEF q
<1> QED  BY <1>2, <1>3

(* Of a sequence that repeats nothing, removing a position removes that    *)
(* element and leaves the others, unrepeated.                              *)
LEMMA RemoveAtFacts ==
  ASSUME NEW R, NEW s \in Seq(R), NEW i \in DOMAIN s
  PROVE  /\ RemoveAt(s, i) \in Seq(R)
         /\ IsInjective(s) => /\ IsInjective(RemoveAt(s, i))
                              /\ ToSet(RemoveAt(s, i)) = ToSet(s) \ {s[i]}
<1> DEFINE n == Len(s)
           t == RemoveAt(s, i)
           a == SubSeq(s, 1, i - 1)
           b == SubSeq(s, i + 1, n)
<1>1. n \in Nat /\ DOMAIN s = 1 .. n /\ i \in 1 .. n  BY LenProperties
<1>2. \A j \in 1 .. n : s[j] \in R  BY ElementOfSeq
<1>3. /\ a \in Seq(R) /\ Len(a) = i - 1
      /\ \A j \in 1 .. i - 1 : a[j] = s[j]
  BY <1>1, <1>2, SubSeqProperties
<1>4. /\ b \in Seq(R) /\ Len(b) = n - i
      /\ \A j \in 1 .. n - i : b[j] = s[j + i]
  <2>1. \A j \in i + 1 .. n : s[j] \in R  BY <1>1, <1>2
  <2>2. /\ b \in Seq(R)
        /\ Len(b) = IF i + 1 <= n THEN n - (i + 1) + 1 ELSE 0
        /\ \A j \in 1 .. n - (i + 1) + 1 : b[j] = s[i + 1 + j - 1]
    BY <1>1, <2>1, SubSeqProperties
  <2>3. \A j \in 1 .. n - i : i + 1 + j - 1 = j + i  BY <1>1
  <2> HIDE DEF b
  <2> QED  BY <1>1, <2>2, <2>3
<1> HIDE DEF a, b, n
<1>5. t = a \o b  BY DEF RemoveAt, a, b, n
<1> HIDE DEF t
<1>6. /\ t \in Seq(R) /\ Len(t) = n - 1
      /\ \A j \in 1 .. n - 1 : t[j] = IF j < i THEN s[j] ELSE s[j + 1]
  <2>1. /\ t \in Seq(R) /\ Len(t) = n - 1
        /\ \A j \in 1 .. n - 1 : t[j] = IF j <= i - 1 THEN a[j] ELSE b[j - (i - 1)]
    <3>1. /\ a \o b \in Seq(R)
          /\ Len(a \o b) = Len(a) + Len(b)
          /\ \A j \in 1 .. Len(a) + Len(b) :
               (a \o b)[j] = IF j <= Len(a) THEN a[j] ELSE b[j - Len(a)]
      BY <1>3, <1>4, ConcatProperties
    <3>2. Len(a) + Len(b) = n - 1  BY <1>1, <1>3, <1>4
    <3> QED  BY <1>3, <1>5, <3>1, <3>2
  <2>2. ASSUME NEW j \in 1 .. n - 1  PROVE  t[j] = IF j < i THEN s[j] ELSE s[j + 1]
    <3>1. CASE j < i  BY <1>1, <1>3, <2>1, <3>1
    <3>2. CASE ~(j < i)
      <4>1. j - (i - 1) \in 1 .. n - i /\ j - (i - 1) + i = j + 1  BY <1>1, <3>2
      <4>2. t[j] = b[j - (i - 1)]  BY <1>1, <2>1, <3>2
      <4> QED  BY <1>4, <3>2, <4>1, <4>2
    <3> QED  BY <3>1, <3>2
  <2> QED  BY <2>1, <2>2
<1>7. DOMAIN t = 1 .. n - 1  BY <1>6, LenProperties
<1>8. ASSUME IsInjective(s)  PROVE  IsInjective(t) /\ ToSet(t) = ToSet(s) \ {s[i]}
  <2>1. \A j, k \in 1 .. n : s[j] = s[k] => j = k  BY <1>1, <1>8 DEF IsInjective
  <2>2. \A j, k \in 1 .. n - 1 : t[j] = t[k] => j = k  BY <1>1, <1>6, <2>1
  <2>3. \A j \in 1 .. n - 1 : \E k \in 1 .. n : t[j] = s[k] /\ k # i
    BY <1>1, <1>6
  <2>4. \A k \in 1 .. n : k # i => \E j \in 1 .. n - 1 : t[j] = s[k]
    <3> SUFFICES ASSUME NEW k \in 1 .. n, k # i
                 PROVE  \E j \in 1 .. n - 1 : t[j] = s[k]
      OBVIOUS
    <3>1. CASE k < i
      <4>1. k \in 1 .. n - 1  BY <1>1, <3>1
      <4> QED  BY <1>6, <3>1, <4>1
    <3>2. CASE ~(k < i)
      <4>1. k - 1 \in 1 .. n - 1 /\ ~(k - 1 < i) /\ k - 1 + 1 = k  BY <1>1, <3>2
      <4> QED  BY <1>6, <4>1
    <3> QED  BY <3>1, <3>2
  <2>5. IsInjective(t)  BY <1>7, <2>2 DEF IsInjective
  <2>6. ToSet(t) \subseteq ToSet(s) \ {s[i]}  BY SMTT(60), <1>1, <1>7, <2>1, <2>3 DEF ToSet
  <2>7. ToSet(s) \ {s[i]} \subseteq ToSet(t)  BY <1>1, <1>7, <2>4 DEF ToSet
  <2> QED  BY <2>5, <2>6, <2>7
<1> QED  BY <1>6, <1>8 DEF t

(* Being in the queue is having a position in it. *)
LEMMA WaitsFacts ==
  ASSUME NEW p, NEW r
  PROVE  Waits(p, r) <=> r \in ToSet(p.queue)
BY DEF Waits, Positions, ToSet

(* Dropping a waiting future touches the queue only: the permit it may     *)
(* have been handed stays in.                                              *)
LEMMA AbandonFacts ==
  ASSUME NEW R, NEW p \in BooksType(R), NEW r
  PROVE  /\ Abandon(p, r) \in BooksType(R)
         /\ Abandon(p, r).limit = p.limit
         /\ Abandon(p, r).avail = p.avail
         /\ Out(Abandon(p, r)) = Out(p)
         /\ IsInjective(p.queue) =>
              /\ IsInjective(Abandon(p, r).queue)
              /\ ToSet(Abandon(p, r).queue) = ToSet(p.queue) \ {r}
<1>1. CASE Waits(p, r)
  <2>1. PICK i \in DOMAIN p.queue : /\ p.queue[i] = r
                                    /\ Abandon(p, r) = [p EXCEPT !.queue = RemoveAt(p.queue, i)]
    BY <1>1 DEF Abandon, Waits, Positions
  <2>2. p.queue \in Seq(R)  BY DEF BooksType
  <2>3. /\ RemoveAt(p.queue, i) \in Seq(R)
        /\ IsInjective(p.queue) =>
             /\ IsInjective(RemoveAt(p.queue, i))
             /\ ToSet(RemoveAt(p.queue, i)) = ToSet(p.queue) \ {r}
    BY <2>1, <2>2, RemoveAtFacts
  <2>4. Abandon(p, r).queue = RemoveAt(p.queue, i)  BY <2>1 DEF BooksType
  <2>5. /\ Abandon(p, r) \in BooksType(R)
        /\ Abandon(p, r).limit = p.limit
        /\ Abandon(p, r).avail = p.avail
        /\ Out(Abandon(p, r)) = Out(p)
    BY <2>1, <2>3 DEF BooksType, Out
  <2> QED  BY <2>3, <2>4, <2>5
<1>2. CASE ~Waits(p, r)  BY <1>2, WaitsFacts DEF Abandon
<1> QED  BY <1>1, <1>2

(* A future that starts to wait puts no place out and is last in line. *)
LEMMA EnqueueFacts ==
  ASSUME NEW R, NEW p \in BooksType(R), NEW r \in R
  PROVE  /\ Enqueue(p, r) \in BooksType(R)
         /\ Enqueue(p, r).limit = p.limit
         /\ Out(Enqueue(p, r)) = Out(p)
         /\ IsInjective(p.queue) /\ r \notin ToSet(p.queue) =>
              /\ IsInjective(Enqueue(p, r).queue)
              /\ ToSet(Enqueue(p, r).queue) = ToSet(p.queue) \cup {r}
<1> DEFINE q == Append(p.queue, r)
<1>1. p.queue \in Seq(R) /\ q \in Seq(R)
  BY AppendProperties DEF BooksType
<1>2. IsInjective(p.queue) /\ r \notin ToSet(p.queue) =>
        IsInjective(q) /\ ToSet(q) = ToSet(p.queue) \cup {r}
  BY <1>1, AppendFacts DEF Lined
<1>3. Enqueue(p, r) = [p EXCEPT !.queue = q]  BY DEF Enqueue
<1> HIDE DEF q
<1>4. Enqueue(p, r) \in BooksType(R) /\ Enqueue(p, r).queue = q
  BY <1>1, <1>3 DEF BooksType
<1> QED BY <1>2, <1>3, <1>4 DEF BooksType, Out

(* A future that is polled after it was handed a permit puts one out. *)
LEMMA PickUpFacts ==
  ASSUME NEW R, NEW p \in BooksType(R), NEW r, p.avail > 0
  PROVE  /\ PickUp(p, r) \in BooksType(R)
         /\ PickUp(p, r).limit = p.limit
         /\ Out(PickUp(p, r)) = Out(p) + 1
         /\ IsInjective(p.queue) =>
              /\ IsInjective(PickUp(p, r).queue)
              /\ ToSet(PickUp(p, r).queue) = ToSet(p.queue) \ {r}
<1>1. /\ Abandon(p, r) \in BooksType(R)
      /\ Abandon(p, r).avail > 0
      /\ Abandon(p, r).limit = p.limit
      /\ Out(Abandon(p, r)) = Out(p)
  BY AbandonFacts
<1>2. /\ PickUp(p, r) \in BooksType(R)
      /\ PickUp(p, r).limit = Abandon(p, r).limit
      /\ PickUp(p, r).queue = Abandon(p, r).queue
      /\ Out(PickUp(p, r)) = Out(Abandon(p, r)) + 1
  BY <1>1, TakeFacts DEF PickUp
<1> QED  BY <1>1, <1>2, AbandonFacts
=============================================================================
