---------------------------- MODULE FieldLemmas ----------------------------
(***************************************************************************)
(* What the byte loops of a list field compute (module FieldBytes), for    *)
(* fields and names of any length: str_buf_add, str_buf_rm and the reader  *)
(* getTableData.                                                           *)
(***************************************************************************)
EXTENDS FieldBytes, SequenceTheorems, WellFoundedInduction, TLAPS

(* Induction over the numbers with a set in the place of a predicate.      *)
LEMMA SetInduction ==
  ASSUME NEW T, T \subseteq Nat, 0 \in T, \A n \in T : n + 1 \in T
  PROVE  T = Nat
<1> DEFINE rest == Nat \ T
<1>1. SUFFICES ASSUME rest # {} PROVE FALSE
  OBVIOUS
<1>2. PICK x \in rest : \A y \in rest : ~ (<<y, x>> \in OpToRel(<, Nat))
  <2>1. rest \subseteq Nat
    OBVIOUS
  <2> HIDE DEF rest
  <2> QED BY <1>1, <2>1, NatLessThanWellFounded, WFMin
<1>3. \A y \in rest : ~ (y < x)
  BY <1>2, Zenon DEF OpToRel
<1>4. x \in Nat /\ x # 0 /\ x \notin T
  OBVIOUS
<1>5. x - 1 \in Nat /\ x - 1 < x
  BY <1>4
<1>6. x - 1 \in T
  BY <1>3, <1>5
<1> QED BY <1>4, <1>6

(* What the copy loop writes fits the field.                               *)
LEMMA FittingType ==
  ASSUME NEW S, NEW d \in Seq(S), NEW size \in Nat
  PROVE  Fitting(d, size) \in Seq(S) /\ Len(Fitting(d, size)) <= size
<1> DEFINE n == IF Len(d) < size THEN Len(d) ELSE size
<1>1. n \in Nat /\ n <= size /\ n <= Len(d)
  OBVIOUS
<1>2. \A i \in 1..n : d[i] \in S
  OBVIOUS
<1> HIDE DEF n
<1>3. /\ SubSeq(d, 1, n) \in Seq(S)
      /\ Len(SubSeq(d, 1, n)) = IF 1 <= n THEN n - 1 + 1 ELSE 0
  BY <1>1, <1>2, SubSeqProperties
<1>4. Len(SubSeq(d, 1, n)) <= size
  BY <1>1, <1>3
<1> QED BY <1>3, <1>4 DEF Fitting, n

(* One byte of the replacement, and the equation that defines it.          *)
Drop(f, d, p, i) ==
  IF i > Len(d) THEN <<>>
  ELSE IF Matches(d, p, i) THEN f[i + Len(p)]
  ELSE <<d[i]>> \o f[i + 1]

(* A pattern that is not empty always moves the replacement on, so there   *)
(* is a function that str::replace computes.                               *)
LEMMA DropExists ==
  ASSUME NEW S, NEW d \in Seq(S), NEW p \in Seq(S), p # <<>>
  PROVE  \E f : f = [i \in 1..(Len(d) + Len(p)) |-> Drop(f, d, p, i)]
<1> DEFINE N == Len(d) + Len(p)
           T == {k \in Nat : \E f : \A i \in (N - k + 1)..N : f[i] = Drop(f, d, p, i)}
<1>1. Len(d) \in Nat /\ Len(p) \in Nat \ {0} /\ N \in Nat
  OBVIOUS
<1>2. 0 \in T
  BY <1>1
<1>3. ASSUME NEW f, NEW g, NEW i \in Int, i <= N,
             \A j \in (i + 1)..N : f[j] = g[j]
      PROVE  Drop(f, d, p, i) = Drop(g, d, p, i)
  <2>1. i <= Len(d) => i + Len(p) \in (i + 1)..N /\ i + 1 \in (i + 1)..N
    BY <1>1
  <2> QED BY <1>1, <1>3, <2>1 DEF Drop
<1>4. ASSUME NEW k \in T PROVE k + 1 \in T
  <2>1. PICK f : \A i \in (N - k + 1)..N : f[i] = Drop(f, d, p, i)
    OBVIOUS
  <2> DEFINE h == [i \in (N - k)..N |-> IF i = N - k THEN Drop(f, d, p, i) ELSE f[i]]
  <2>2. k \in Nat
    OBVIOUS
  <2> HIDE DEF N, T
  <2>3. \A i \in (N - k + 1)..N : h[i] = f[i]
    BY <1>1, <2>2
  <2>4. h[N - k] = Drop(f, d, p, N - k)
    BY <1>1, <2>2
  <2> HIDE DEF h
  <2>5. ASSUME NEW i \in (N - k)..N PROVE h[i] = Drop(h, d, p, i)
    <3>1. i \in Int /\ i <= N /\ \A j \in (i + 1)..N : f[j] = h[j]
      BY <1>1, <2>2, <2>3
    <3>2. Drop(f, d, p, i) = Drop(h, d, p, i)
      BY <1>3, <3>1
    <3>3. h[i] = Drop(f, d, p, i)
      <4>1. CASE i = N - k
        BY <2>4, <4>1
      <4>2. CASE i # N - k
        <5>1. i \in (N - k + 1)..N
          BY <1>1, <2>2, <4>2
        <5> QED BY <2>1, <2>3, <5>1
      <4> QED BY <4>1, <4>2
    <3> QED BY <3>2, <3>3
  <2>6. N - (k + 1) + 1 = N - k
    BY <1>1, <2>2
  <2>7. \E g : \A i \in (N - (k + 1) + 1)..N : g[i] = Drop(g, d, p, i)
    BY <2>5, <2>6
  <2> QED BY <2>2, <2>7 DEF T
<1>5. T = Nat
  <2>1. T \subseteq Nat
    OBVIOUS
  <2> HIDE DEF T
  <2> QED BY <1>2, <1>4, <2>1, SetInduction
<1>6. PICK f : \A i \in 1..N : f[i] = Drop(f, d, p, i)
  <2>1. N \in T
    BY <1>1, <1>5
  <2>2. N - N + 1 = 1
    BY <1>1
  <2> HIDE DEF N
  <2> QED BY <2>1, <2>2
<1> DEFINE g == [i \in 1..N |-> f[i]]
<1>7. ASSUME NEW i \in 1..N PROVE g[i] = Drop(g, d, p, i)
  <2>1. i \in Int /\ i <= N /\ \A j \in (i + 1)..N : f[j] = g[j]
    BY <1>1
  <2>2. Drop(f, d, p, i) = Drop(g, d, p, i)
    BY <1>3, <2>1
  <2> QED BY <1>6, <2>2
<1>8. g = [i \in 1..N |-> Drop(g, d, p, i)]
  BY <1>7
<1> QED BY <1>8

(* str::replace takes bytes out of a field, and adds none.                 *)
LEMMA DroppedType ==
  ASSUME NEW S, NEW d \in Seq(S), NEW p \in Seq(S), p # <<>>
  PROVE  Dropped(d, p) \in Seq(S) /\ Len(Dropped(d, p)) <= Len(d)
<1> DEFINE N == Len(d) + Len(p)
           Def(g) == [i \in 1..N |-> Drop(g, d, p, i)]
           f == CHOOSE g : g = Def(g)
           Good(i) == /\ f[i] \in Seq(S)
                      /\ i <= Len(d) => Len(f[i]) <= Len(d) + 1 - i
                      /\ i > Len(d) => f[i] = <<>>
           T == {k \in Nat : \A i \in (N - k + 1)..N : i >= 1 => Good(i)}
<1>1. Len(d) \in Nat /\ Len(p) \in Nat \ {0} /\ N \in Nat \ {0}
  OBVIOUS
<1>2. Dropped(d, p) = f[1]
  BY DEF Dropped, Drop
<1>3. f = Def(f)
  <2>1. \E g : g = Def(g)
    BY DropExists
  <2> HIDE DEF Def
  <2> QED BY <2>1
<1>4. \A i \in 1..N : f[i] = Drop(f, d, p, i)
  <2> HIDE DEF f
  <2> QED BY <1>3
<1> HIDE DEF f
<1>5. 0 \in T
  BY <1>1
<1>6. ASSUME NEW k \in T PROVE k + 1 \in T
  <2>1. /\ k \in Nat
        /\ \A i \in (N - k + 1)..N : i >= 1 => Good(i)
    OBVIOUS
  <2> SUFFICES ASSUME N - k >= 1 PROVE Good(N - k)
    <3> HIDE DEF Good, N
    <3>1. \A i \in (N - (k + 1) + 1)..N : i = N - k \/ i \in (N - k + 1)..N
      BY <1>1, <2>1
    <3> QED BY <2>1, <3>1
  <2> DEFINE i == N - k
  <2>2. i \in 1..N /\ f[i] = Drop(f, d, p, i)
    BY <1>1, <1>4, <2>1
  <2> HIDE DEF i
  <2>3. CASE i > Len(d)
    <3>1. f[i] = <<>>
      BY <2>2, <2>3 DEF Drop
    <3> QED BY <3>1, <2>2, <2>3, <1>1 DEF i
  <2>4. ASSUME i <= Len(d), NEW j \in {i + 1, i + Len(p)} PROVE Good(j)
    <3>1. j \in (N - k + 1)..N /\ j >= 1
      BY <1>1, <2>1, <2>2, <2>4 DEF i
    <3> HIDE DEF Good
    <3> QED BY <2>1, <3>1
  <2>5. CASE i <= Len(d) /\ Matches(d, p, i)
    <3>1. f[i] = f[i + Len(p)]
      BY <1>1, <2>2, <2>5 DEF Drop
    <3>2. Good(i + Len(p))
      <4> HIDE DEF Good
      <4> QED BY <2>4, <2>5
    <3>3. i + Len(p) > Len(d) => Len(f[i + Len(p)]) = 0
      BY <3>2
    <3>4. f[i] \in Seq(S) /\ Len(f[i]) <= Len(d) + 1 - i
      BY <1>1, <2>2, <2>5, <3>1, <3>2, <3>3
    <3> QED BY <1>1, <2>2, <2>5, <3>4 DEF i
  <2>6. CASE i <= Len(d) /\ ~Matches(d, p, i)
    <3>1. f[i] = <<d[i]>> \o f[i + 1]
      BY <1>1, <2>2, <2>6 DEF Drop
    <3>2. Good(i + 1)
      <4> HIDE DEF Good
      <4> QED BY <2>4, <2>6
    <3>3. i + 1 > Len(d) => Len(f[i + 1]) = 0
      BY <3>2
    <3>4. d[i] \in S /\ <<d[i]>> \in Seq(S) /\ Len(<<d[i]>>) = 1
      BY <2>2, <2>6, <1>1
    <3>5. f[i] \in Seq(S) /\ Len(f[i]) = 1 + Len(f[i + 1])
      BY <3>1, <3>2, <3>4, ConcatProperties
    <3>6. Len(f[i]) <= Len(d) + 1 - i
      BY <1>1, <2>2, <2>6, <3>2, <3>3, <3>5
    <3> QED BY <1>1, <2>2, <2>6, <3>5, <3>6 DEF i
  <2> QED BY <1>1, <2>2, <2>3, <2>5, <2>6 DEF i
<1>7. T = Nat
  <2>1. T \subseteq Nat
    OBVIOUS
  <2> HIDE DEF T
  <2> QED BY <1>5, <1>6, <2>1, SetInduction
<1>8. Good(1)
  <2>1. N \in T
    BY <1>1, <1>7
  <2>2. 1 \in (N - N + 1)..N
    BY <1>1
  <2> HIDE DEF N, Good
  <2> QED BY <2>1, <2>2
<1>9. Len(f[1]) <= Len(d)
  BY <1>1, <1>8
<1> QED BY <1>2, <1>8, <1>9

(* Function f is the replacement of p in d, byte by byte.                  *)
Replaces(f, d, p) == \A i \in 1..(Len(d) + Len(p)) : f[i] = Drop(f, d, p, i)

(* A pattern that is not empty is dropped as Drop says, byte by byte.      *)
LEMMA DroppedByDrop ==
  ASSUME NEW S, NEW d \in Seq(S), NEW p \in Seq(S), p # <<>>
  PROVE  \E f : Replaces(f, d, p) /\ Dropped(d, p) = f[1]
<1> DEFINE N == Len(d) + Len(p)
           Def(g) == [i \in 1..N |-> Drop(g, d, p, i)]
           f == CHOOSE g : g = Def(g)
<1>1. Dropped(d, p) = f[1]
  BY DEF Dropped, Drop
<1>2. f = Def(f)
  <2>1. \E g : g = Def(g)
    BY DropExists
  <2> HIDE DEF Def
  <2> QED BY <2>1
<1>3. \A i \in 1..N : f[i] = Drop(f, d, p, i)
  <2> HIDE DEF f
  <2> QED BY <1>2
<1> HIDE DEF f
<1> QED BY <1>1, <1>3 DEF Replaces

-----------------------------------------------------------------------------
(* A field that reads as a list                                            *)

(* Lists of names over the bytes S.                                        *)
ListOver(l, S) == l \in Seq(Seq(S))

(* Entry k of list l starts at place at[k] of field d, with its separator, *)
(* and nothing is before, between or after the entries.                    *)
Reads(d, l, at) ==
  /\ at \in [1..(Len(l) + 1) -> Nat]
  /\ at[1] = 1
  /\ at[Len(l) + 1] = Len(d) + 1
  /\ \A k \in 1..Len(l) :
       /\ at[k + 1] = at[k] + 1 + Len(l[k])
       /\ d[at[k]] = Separator
       /\ \A j \in 1..Len(l[k]) : d[at[k] + j] = l[k][j]

(* No entry has a separator in it.                                         *)
Unbroken(s) == \A j \in DOMAIN s : s[j] # Separator

(* Entries follow one another.                                             *)
LEMMA InOrder ==
  ASSUME NEW S, NEW d \in Seq(S), NEW l, ListOver(l, S), NEW at, Reads(d, l, at),
         NEW m \in 1..(Len(l) + 1), NEW k \in 1..m
  PROVE  /\ at[k] \in Nat /\ at[m] \in Nat /\ at[k] >= 1 /\ at[k] <= at[m]
         /\ k < m => at[k + 1] <= at[m]
<1> DEFINE n == Len(l) + 1
           Good(x) == \A y \in 1..x : at[y] >= 1 /\ at[y] <= at[x]
           T == {x \in Nat : x + 1 <= n => Good(x + 1)}
<1>1. Len(l) \in Nat /\ n \in Nat /\ \A x \in 1..Len(l) : Len(l[x]) \in Nat
  BY DEF ListOver
<1>2. \A x \in 1..n : at[x] \in Nat
  BY DEF Reads
<1>3. 0 \in T
  BY <1>1 DEF Reads
<1>4. ASSUME NEW x \in T PROVE x + 1 \in T
  <2>1. SUFFICES ASSUME (x + 1) + 1 <= n PROVE Good((x + 1) + 1)
    OBVIOUS
  <2>2. x + 1 \in 1..Len(l) /\ Good(x + 1)
    BY <1>1, <2>1
  <2>3. at[(x + 1) + 1] = at[x + 1] + 1 + Len(l[x + 1])
    BY <2>2 DEF Reads
  <2>4. at[x + 1] \in Nat /\ Len(l[x + 1]) \in Nat /\ at[(x + 1) + 1] > at[x + 1]
        /\ at[x + 1] >= 1 /\ at[(x + 1) + 1] \in Nat
    <3> DEFINE a == at[x + 1]
               z == at[(x + 1) + 1]
               w == Len(l[x + 1])
    <3>1. x + 1 \in 1..n /\ (x + 1) + 1 \in 1..n /\ x + 1 \in 1..(x + 1)
      BY <1>1, <2>2
    <3>2. a \in Nat /\ z \in Nat
      BY <1>2, <3>1
    <3>3. w \in Nat
      BY <1>1, <2>2
    <3>4. a >= 1
      BY <2>2, <3>1
    <3>5. z = a + 1 + w
      BY <2>3
    <3> HIDE DEF a, z, w
    <3>6. z > a
      BY <3>2, <3>3, <3>5
    <3> QED BY <3>2, <3>3, <3>4, <3>6 DEF a, z, w
  <2>5. ASSUME NEW y \in 1..((x + 1) + 1)
        PROVE  at[y] >= 1 /\ at[y] <= at[(x + 1) + 1]
    <3>1. CASE y = (x + 1) + 1
      BY <2>3, <2>4, <3>1
    <3>2. CASE y \in 1..(x + 1)
      <4>1. at[y] >= 1 /\ at[y] <= at[x + 1] /\ at[y] \in Nat
        BY <1>1, <1>2, <2>2, <3>2
      <4> DEFINE a == at[x + 1]
                 z == at[(x + 1) + 1]
                 w == at[y]
      <4>2. a \in Nat /\ z \in Nat /\ z > a /\ w >= 1 /\ w <= a /\ w \in Nat
        BY <2>4, <4>1
      <4> HIDE DEF a, z, w
      <4>3. w >= 1 /\ w <= z
        BY <4>2
      <4> QED BY <4>3 DEF w, z
    <3> QED BY <3>1, <3>2
  <2> QED BY <2>5
<1>5. T = Nat
  <2>1. T \subseteq Nat
    OBVIOUS
  <2> HIDE DEF T
  <2> QED BY <1>3, <1>4, <2>1, SetInduction
<1>6. Good(m)
  <2>1. m - 1 \in Nat /\ (m - 1) + 1 = m /\ m <= n
    BY <1>1
  <2>2. m - 1 \in T
    <3> HIDE DEF T
    <3> QED BY <1>5, <2>1
  <2> QED BY <1>1, <2>1, <2>2
<1>7. k < m => k + 1 \in 1..m
  BY <1>1
<1> QED BY <1>1, <1>2, <1>6, <1>7

(* Every byte belongs to an entry.                                         *)
LEMMA Located ==
  ASSUME NEW S, NEW d \in Seq(S), NEW l, ListOver(l, S), NEW at, Reads(d, l, at),
         NEW i \in 1..Len(d)
  PROVE  \E k \in 1..Len(l) : at[k] <= i /\ i < at[k + 1]
<1> DEFINE Good(x) == i < at[x] => \E k \in 1..(x - 1) : at[k] <= i /\ i < at[k + 1]
           T == {x \in Nat : x <= Len(l) => Good(x + 1)}
<1>1. Len(l) \in Nat /\ Len(d) \in Nat
      /\ \A x \in 1..(Len(l) + 1) : at[x] \in Nat
  <2>1. Len(l) \in Nat /\ Len(d) \in Nat
    BY DEF ListOver
  <2> QED BY <2>1 DEF Reads
<1>2. 0 \in T
  BY <1>1 DEF Reads
<1>3. ASSUME NEW x \in T PROVE x + 1 \in T
  <2>1. SUFFICES ASSUME x + 1 <= Len(l), i < at[(x + 1) + 1]
                 PROVE  \E k \in 1..((x + 1 + 1) - 1) : at[k] <= i /\ i < at[k + 1]
    OBVIOUS
  <2>2. CASE i < at[x + 1]
    <3>1. PICK k \in 1..((x + 1) - 1) : at[k] <= i /\ i < at[k + 1]
      BY <1>1, <2>1, <2>2
    <3>2. k \in 1..((x + 1 + 1) - 1)
      BY <1>1
    <3> QED BY <3>1, <3>2
  <2>3. CASE ~(i < at[x + 1])
    <3>1. at[x + 1] <= i /\ x + 1 \in 1..((x + 1 + 1) - 1)
      BY <1>1, <2>1, <2>3
    <3> QED BY <2>1, <3>1
  <2> QED BY <2>2, <2>3
<1>4. T = Nat
  <2>1. T \subseteq Nat
    OBVIOUS
  <2> HIDE DEF T
  <2> QED BY <1>2, <1>3, <2>1, SetInduction
<1>5. Good(Len(l) + 1)
  <2>1. Len(l) \in T
    BY <1>1, <1>4
  <2> QED BY <1>1, <2>1
<1>6. i < at[Len(l) + 1] /\ (Len(l) + 1) - 1 = Len(l)
  BY <1>1 DEF Reads
<1> QED BY <1>5, <1>6

(* What is found of an unbroken name in the field is within one entry.     *)
LEMMA FoundInEntry ==
  ASSUME NEW S, NEW d \in Seq(S), NEW l, ListOver(l, S), NEW at, Reads(d, l, at),
         NEW s \in Seq(S), s # <<>>, Unbroken(s),
         NEW i \in 1..(Len(d) + 1), Matches(d, s, i)
  PROVE  \E k \in 1..Len(l) : /\ at[k] < i /\ i < at[k + 1]
                              /\ Matches(l[k], s, i - at[k])
                              /\ Mentions(l[k], s)
<1>1. /\ Len(s) \in Nat /\ Len(s) >= 1 /\ DOMAIN s = 1..Len(s)
      /\ Len(d) \in Nat /\ Len(l) \in Nat
      /\ \A x \in 1..(Len(l) + 1) : at[x] \in Nat
      /\ \A x \in 1..Len(l) : Len(l[x]) \in Nat
  BY DEF Reads, ListOver
<1>2. /\ i + Len(s) <= Len(d) + 1
      /\ \A j \in 1..Len(s) : d[i + j - 1] = s[j] /\ d[i + j - 1] # Separator
  BY <1>1 DEF Matches, Unbroken
<1>3. i \in 1..Len(d)
  BY <1>1, <1>2
<1>4. PICK k \in 1..Len(l) : at[k] <= i /\ i < at[k + 1]
  BY <1>3, Located
<1>5. /\ at[k] \in Nat /\ at[k + 1] \in Nat /\ at[k + 1] = at[k] + 1 + Len(l[k])
      /\ d[at[k]] = Separator /\ Len(l[k]) \in Nat
      /\ \A j \in 1..Len(l[k]) : d[at[k] + j] = l[k][j]
  BY <1>1, <1>4 DEF Reads
<1> DEFINE a == at[k]
           b == at[k + 1]
           n == Len(s)
           e == Len(l[k])
<1>n. /\ a \in Nat /\ b \in Nat /\ n \in Nat /\ e \in Nat /\ Len(d) \in Nat
      /\ n >= 1 /\ b = a + 1 + e /\ i \in Nat /\ i >= 1 /\ a <= i /\ i < b
  BY <1>1, <1>3, <1>4, <1>5
<1>6. at[k] < i
  <2>1. d[i + 1 - 1] # Separator /\ i + 1 - 1 = i
    BY <1>1, <1>2
  <2> QED BY <1>4, <1>5, <2>1
<1>7. i + Len(s) <= at[k + 1]
  <2>1. SUFFICES ASSUME i + Len(s) > at[k + 1] PROVE FALSE
    BY <1>1, <1>5
  <2>2. at[k + 1] <= Len(d)
    BY <1>1, <1>2, <1>5, <2>1
  <2>3. k + 1 \in 1..Len(l)
    BY <1>1, <2>2 DEF Reads
  <2>4. d[at[k + 1]] = Separator
    BY <2>3 DEF Reads
  <2>5. b - i + 1 \in 1..n /\ i + (b - i + 1) - 1 = b
    <3>1. i + n > b
      BY <2>1
    <3> HIDE DEF a, b, n, e
    <3> QED BY <1>n, <3>1
  <2> QED BY <1>2, <2>4, <2>5
<1>8. Matches(l[k], s, i - at[k])
  <2>0. a < i /\ i + n <= b
    BY <1>6, <1>7
  <2>1. i - a + n <= e + 1
    <3> HIDE DEF a, b, n, e
    <3> QED BY <1>n, <2>0
  <2>2. ASSUME NEW j \in 1..Len(s) PROVE l[k][i - at[k] + j - 1] = s[j]
    <3>1. i - a + j - 1 \in 1..e /\ a + (i - a + j - 1) = i + j - 1
      <4>1. j \in 1..n
        OBVIOUS
      <4> HIDE DEF a, b, n, e
      <4> QED BY <1>n, <2>0, <4>1
    <3> QED BY <1>2, <1>5, <3>1
  <2> QED BY <1>1, <2>1, <2>2 DEF Matches
<1>9. i - a \in 1..(e + 1)
  <2>1. a < i
    BY <1>6
  <2> HIDE DEF a, b, n, e
  <2> QED BY <1>n, <2>1
<1> QED BY <1>4, <1>6, <1>8, <1>9 DEF Mentions

(* An entry is found where it starts.                                      *)
LEMMA EntryFound ==
  ASSUME NEW S, NEW d \in Seq(S), NEW l, ListOver(l, S), NEW at, Reads(d, l, at),
         NEW k \in 1..Len(l)
  PROVE  Matches(d, l[k], at[k] + 1) /\ Mentions(d, l[k])
<1>1. /\ Len(l) \in Nat /\ Len(d) \in Nat /\ Len(l[k]) \in Nat
      /\ DOMAIN l[k] = 1..Len(l[k])
  BY DEF ListOver
<1>2. /\ at[k] \in Nat /\ at[k] >= 1
      /\ at[k + 1] = at[k] + 1 + Len(l[k]) /\ at[k + 1] <= Len(d) + 1
  <2>1. k \in 1..(k + 1) /\ k + 1 \in 1..(Len(l) + 1) /\ Len(l) + 1 \in 1..(Len(l) + 1)
        /\ k \in 1..(Len(l) + 1)
    BY <1>1
  <2>2. at[k] \in Nat /\ at[k] >= 1
    BY <2>1, InOrder
  <2>3. at[k + 1] <= at[Len(l) + 1]
    BY <2>1, InOrder
  <2> QED BY <2>2, <2>3 DEF Reads
<1>3. ASSUME NEW j \in 1..Len(l[k]) PROVE d[(at[k] + 1) + j - 1] = l[k][j]
  <2>1. (at[k] + 1) + j - 1 = at[k] + j
    BY <1>2
  <2> QED BY <2>1 DEF Reads
<1>4. Matches(d, l[k], at[k] + 1)
  BY <1>1, <1>2, <1>3 DEF Matches
<1>5. at[k] + 1 \in 1..(Len(d) + 1)
  BY <1>1, <1>2
<1> QED BY <1>4, <1>5 DEF Mentions

-----------------------------------------------------------------------------
(* Taking an entry away                                                    *)

(* The pattern is not found from place a on and before place m.            *)
Clear(d, p, a, m) == \A i \in a..(m - 1) : ~Matches(d, p, i)

(* The bytes of d from place a on and before place m, and then rest.       *)
Kept(d, a, m, rest) == SubSeq(d, a, m - 1) \o rest

(* Bytes where the pattern does not match are kept.                        *)
LEMMA DropKeeps ==
  ASSUME NEW S, NEW d \in Seq(S), NEW p \in Seq(S), NEW f, Replaces(f, d, p),
         NEW m \in 1..(Len(d) + 1), f[m] \in Seq(S),
         NEW a \in 1..m, Clear(d, p, a, m)
  PROVE  f[a] = Kept(d, a, m, f[m])
<1> DEFINE Good(i) == f[i] = SubSeq(d, i, m - 1) \o f[m]
           T == {k \in Nat : m - k >= a => Good(m - k)}
<1>1. Len(d) \in Nat /\ Len(p) \in Nat /\ m \in Nat /\ a \in Nat /\ a >= 1
      /\ m <= Len(d) + 1
  OBVIOUS
<1>2. 0 \in T
  <2>1. SubSeq(d, m, m - 1) = <<>>
    BY <1>1, SubSeqEmpty
  <2> DEFINE e == SubSeq(d, m, m - 1)
  <2>2. e = <<>>
    BY <2>1
  <2> DEFINE r == f[m]
  <2>3. r \in Seq(S)
    OBVIOUS
  <2> HIDE DEF e, r
  <2>4. e \o r = r
    BY <2>2, <2>3, ConcatEmptySeq
  <2>5. Good(m)
    BY <2>4 DEF e, r
  <2>6. m - 0 = m
    BY <1>1
  <2> HIDE DEF Good
  <2> QED BY <2>5, <2>6
<1>3. ASSUME NEW k \in T PROVE k + 1 \in T
  <2>0. k \in Nat /\ (m - k >= a => Good(m - k))
    OBVIOUS
  <2>1. SUFFICES ASSUME m - (k + 1) >= a PROVE Good(m - (k + 1))
    <3> HIDE DEF Good
    <3> QED BY <2>0
  <2> DEFINE i == m - (k + 1)
  <2>2. /\ i \in a..(m - 1) /\ i \in 1..Len(d) /\ m - 1 \in i..Len(d)
        /\ i \in 1..(Len(d) + Len(p)) /\ ~(i > Len(d))
        /\ i + 1 = m - k /\ m - k >= a
    BY <1>1, <2>0, <2>1
  <2> HIDE DEF i
  <2>3. Good(i + 1)
    <3> HIDE DEF Good
    <3> QED BY <2>0, <2>2
  <2>4. ~Matches(d, p, i)
    BY <2>2 DEF Clear
  <2>5. f[i] = <<d[i]>> \o f[i + 1]
    BY <2>2, <2>4 DEF Replaces, Drop
  <2> DEFINE t == SubSeq(d, i + 1, m - 1)
  <2>6. \A j \in (i + 1)..(m - 1) : d[j] \in S
    BY <1>1, <2>2
  <2>7. i + 1 \in Int /\ m - 1 \in Int
    BY <1>1, <2>2
  <2>8. t \in Seq(S)
    BY <2>6, <2>7, SubSeqProperties
  <2>9. d[i] \in S
    BY <2>2
  <2>10. <<d[i]>> \in Seq(S)
    BY <2>9
  <2>11. SubSeq(d, i, m - 1) = <<d[i]>> \o t
    BY <2>2, SubSeqRecursiveFirst
  <2>12. f[i + 1] = t \o f[m]
    BY <2>3
  <2> DEFINE q == <<d[i]>>
             r == f[m]
  <2>13. q \in Seq(S) /\ r \in Seq(S)
    BY <2>10
  <2> HIDE DEF t, q, r, T, Good
  <2>14. (q \o t) \o r = q \o (t \o r)
    BY <2>8, <2>13, ConcatAssociative, SMTT(60)
  <2>15. Good(i)
    BY <2>5, <2>11, <2>12, <2>14 DEF q, r, Good
  <2> QED BY <2>15 DEF i
<1>4. T = Nat
  <2>1. T \subseteq Nat
    OBVIOUS
  <2> HIDE DEF T
  <2> QED BY <1>2, <1>3, <2>1, SetInduction
<1>5. m - a \in Nat /\ m - (m - a) = a
  BY <1>1
<1>6. m - a \in T
  <2> HIDE DEF T
  <2> QED BY <1>4, <1>5
<1> HIDE DEF Good
<1>7. Good(a)
  BY <1>1, <1>5, <1>6
<1> QED BY <1>7 DEF Good, Kept

(* If only one entry mentions a name, the name with its separator is found *)
(* in one place only: where that entry starts.                             *)
LEMMA FoundOnce ==
  ASSUME NEW S, NEW d \in Seq(S), NEW l, ListOver(l, S), NEW at, Reads(d, l, at),
         NEW e \in 1..Len(l), l[e] # <<>>, Unbroken(l[e]),
         \A k \in 1..Len(l) : Mentions(l[k], l[e]) => k = e,
         NEW i \in 1..(Len(d) + 1)
  PROVE  Matches(d, <<Separator>> \o l[e], i) <=> i = at[e]
<1> DEFINE s == l[e]
           p == <<Separator>> \o s
           n == Len(s)
<1>1. s \in Seq(S)
  BY DEF ListOver
<1>2. /\ at[e] \in 1..Len(d) /\ at[e] \in Nat /\ d[at[e]] = Separator
      /\ at[e + 1] = at[e] + 1 + n /\ at[e + 1] <= Len(d) + 1
      /\ \A j \in 1..n : d[at[e] + j] = s[j]
  <2>0. Len(l) \in Nat /\ n \in Nat /\ Len(d) \in Nat
    BY DEF ListOver
  <2>1. e \in 1..(Len(l) + 1) /\ e + 1 \in 1..(Len(l) + 1)
        /\ Len(l) + 1 \in 1..(Len(l) + 1) /\ e + 1 \in 1..(Len(l) + 1) /\ e \in 1..(e + 1)
    BY <2>0
  <2>2. at[e] \in Nat /\ at[e] >= 1
    BY <2>1, InOrder
  <2>3. at[e + 1] <= at[Len(l) + 1]
    BY <2>1, InOrder
  <2>4. /\ at[e + 1] = at[e] + 1 + n /\ at[Len(l) + 1] = Len(d) + 1
        /\ d[at[e]] = Separator /\ \A j \in 1..n : d[at[e] + j] = s[j]
    BY DEF Reads
  <2> QED BY <2>0, <2>2, <2>3, <2>4
<1>3. Separator \in S
  BY <1>2
<1>4. /\ p \in Seq(S) /\ Len(p) = n + 1 /\ p[1] = Separator
      /\ \A j \in 1..n : p[j + 1] = s[j]
  <2>1. <<Separator>> \in Seq(S) /\ Len(<<Separator>>) = 1 /\ <<Separator>>[1] = Separator
    BY <1>3
  <2> DEFINE q == <<Separator>>
  <2>2. n \in Nat
    BY <1>1
  <2> HIDE DEF q, s, n
  <2>3. q \in Seq(S) /\ Len(q) = 1 /\ q[1] = Separator
    BY <2>1 DEF q
  <2>4. /\ q \o s \in Seq(S) /\ Len(q \o s) = 1 + n
        /\ \A j \in 1..(1 + n) : (q \o s)[j] = IF j <= 1 THEN q[j] ELSE s[j - 1]
    <3>1. /\ q \o s \in Seq(S) /\ Len(q \o s) = Len(q) + Len(s)
          /\ \A j \in 1..(Len(q) + Len(s)) :
               (q \o s)[j] = IF j <= Len(q) THEN q[j] ELSE s[j - Len(q)]
      BY <1>1, <2>3, ConcatProperties
    <3>2. Len(s) = n
      BY DEF n
    <3> QED BY <2>3, <3>1, <3>2
  <2>5. ASSUME NEW j \in 1..n PROVE (q \o s)[j + 1] = s[j]
    <3>1. j + 1 \in 1..(1 + n) /\ ~(j + 1 <= 1) /\ (j + 1) - 1 = j
      BY <2>2
    <3> QED BY <2>4, <3>1
  <2>6. (q \o s)[1] = Separator
    <3>1. 1 \in 1..(1 + n)
      BY <2>2
    <3> QED BY <2>3, <2>4, <3>1
  <2>7. 1 + n = n + 1
    BY <2>2
  <2> QED BY <2>4, <2>5, <2>6, <2>7 DEF q
<1>5. n \in Nat /\ Len(d) \in Nat /\ DOMAIN s = 1..n /\ DOMAIN p = 1..(n + 1)
      /\ n >= 1 /\ i \in Nat /\ i >= 1
  BY <1>1, <1>4
<1>6. ASSUME i = at[e] PROVE Matches(d, p, i)
  <2> HIDE DEF s, p, n
  <2>1. i + Len(p) <= Len(d) + 1
    BY <1>2, <1>4, <1>5, <1>6
  <2>2. ASSUME NEW j \in 1..(n + 1) PROVE d[i + j - 1] = p[j]
    <3>1. CASE j = 1
      BY <1>2, <1>4, <1>5, <1>6, <3>1
    <3>2. CASE j # 1
      <4>1. j - 1 \in 1..n /\ i + j - 1 = i + (j - 1) /\ (j - 1) + 1 = j
        BY <1>5, <3>2
      <4> QED BY <1>2, <1>4, <1>6, <4>1
    <3> QED BY <3>1, <3>2
  <2> QED BY <1>5, <2>1, <2>2 DEF Matches
<1>7. ASSUME Matches(d, p, i) PROVE i = at[e]
  <2>1. i + (n + 1) <= Len(d) + 1 /\ \A j \in 1..(n + 1) : d[i + j - 1] = p[j]
    <3> HIDE DEF s, p, n
    <3> QED BY <1>4, <1>5, <1>7 DEF Matches
  <2>2. Matches(d, s, i + 1)
    <3> HIDE DEF s, p, n
    <3>1. (i + 1) + n <= Len(d) + 1
      BY <1>5, <2>1
    <3>2. ASSUME NEW j \in 1..n PROVE d[(i + 1) + j - 1] = s[j]
      <4>1. j + 1 \in 1..(n + 1) /\ (i + 1) + j - 1 = i + (j + 1) - 1
        BY <1>5
      <4> QED BY <1>4, <2>1, <4>1
    <3> QED BY <1>5, <3>1, <3>2 DEF Matches, n
  <2>3. i + 1 \in 1..(Len(d) + 1)
    <3> HIDE DEF s, p, n
    <3> QED BY <1>5, <2>1
  <2>4. PICK k \in 1..Len(l) : /\ at[k] < i + 1 /\ i + 1 < at[k + 1]
                               /\ Matches(l[k], s, (i + 1) - at[k])
                               /\ Mentions(l[k], s)
    <3> HIDE DEF p, n
    <3> QED BY <1>1, <2>2, <2>3, FoundInEntry
  <2>5. k = e
    BY <2>4
  <2>6. at[e] < i + 1 /\ ((i + 1) - at[e]) + n <= n + 1
    BY <2>4, <2>5 DEF Matches
  <2> DEFINE b == at[e]
  <2>7. b \in Nat /\ b < i + 1 /\ ((i + 1) - b) + n <= n + 1
    BY <1>2, <2>6
  <2> HIDE DEF s, p, n, b
  <2>8. i = b
    BY <1>5, <2>7
  <2> QED BY <2>8 DEF b
<1> QED BY <1>6, <1>7

(* What is left of the field when the entry is dropped.                    *)
LEMMA DroppedAround ==
  ASSUME NEW S, NEW d \in Seq(S), NEW p \in Seq(S), p # <<>>,
         NEW b \in 1..Len(d), b + Len(p) <= Len(d) + 1,
         \A i \in 1..(Len(d) + 1) : Matches(d, p, i) <=> i = b
  PROVE  Dropped(d, p) = SubSeq(d, 1, b - 1) \o SubSeq(d, b + Len(p), Len(d))
<1>1. Len(d) \in Nat /\ Len(p) \in Nat /\ Len(p) >= 1 /\ b \in Nat /\ b >= 1
      /\ b <= Len(d)
  OBVIOUS
<1> DEFINE z == Len(d) + 1
           c == b + Len(p)
<1>2. PICK f : Replaces(f, d, p) /\ Dropped(d, p) = f[1]
  BY DroppedByDrop
<1>3. f[z] = <<>>
  <2>1. z \in 1..(Len(d) + Len(p)) /\ z > Len(d)
    BY <1>1
  <2> QED BY <1>2, <2>1 DEF Replaces, Drop
<1>4. z \in 1..z /\ c \in 1..z /\ b \in 1..z /\ 1 \in 1..b /\ z - 1 = Len(d)
  BY <1>1
<1>5. f[z] \in Seq(S)
  BY <1>3
<1>6. f[c] = SubSeq(d, c, Len(d))
  <2>1. Clear(d, p, c, z)
    BY <1>1 DEF Clear
  <2>2. f[c] = Kept(d, c, z, f[z])
    <3>1. z \in 1..(Len(d) + 1)
      BY <1>1
    <3> HIDE DEF c, z
    <3> QED BY <1>2, <1>4, <1>5, <2>1, <3>1, DropKeeps
  <2>3. \A j \in c..Len(d) : d[j] \in S
    BY <1>1
  <2>4. SubSeq(d, c, Len(d)) \in Seq(S)
    <3>1. c \in Int /\ Len(d) \in Int
      BY <1>1
    <3> QED BY <2>3, <3>1, SubSeqProperties
  <2> DEFINE t == SubSeq(d, c, Len(d))
  <2> HIDE DEF t
  <2>5. t \o <<>> = t
    BY <2>4, ConcatEmptySeq DEF t
  <2> QED BY <1>3, <1>4, <2>2, <2>5 DEF t, Kept
<1>7. f[b] = f[c]
  <2>1. b \in 1..(Len(d) + Len(p)) /\ ~(b > Len(d))
    BY <1>1
  <2>2. Matches(d, p, b)
    BY <1>1
  <2> QED BY <1>2, <2>1, <2>2 DEF Replaces, Drop
<1>8. f[b] \in Seq(S)
  <2>1. \A j \in c..Len(d) : d[j] \in S
    BY <1>1
  <2>2. c \in Int /\ Len(d) \in Int
    BY <1>1
  <2> QED BY <1>6, <1>7, <2>1, <2>2, SubSeqProperties
<1>9. Clear(d, p, 1, b) /\ b \in 1..(Len(d) + 1)
  BY <1>1 DEF Clear
<1>10. f[1] = Kept(d, 1, b, f[b])
  <2> HIDE DEF c, z
  <2>1. Replaces(f, d, p) /\ 1 \in 1..b
    BY <1>2, <1>4
  <2> QED BY <1>8, <1>9, <2>1, DropKeeps
<1> QED BY <1>2, <1>6, <1>7, <1>10 DEF Kept

(* The field without the bytes from place b on and before place c.         *)
Around(d, b, c) == SubSeq(d, 1, b - 1) \o SubSeq(d, c, Len(d))

(* g is d without the w bytes from place b on.                             *)
TakenOut(g, d, b, w) ==
  /\ Len(g) = Len(d) - w
  /\ \A x \in 1..(Len(d) - w) : g[x] = d[IF x < b THEN x ELSE x + w]

(* Its bytes are those before and those after.                             *)
LEMMA AroundBytes ==
  ASSUME NEW S, NEW d \in Seq(S), NEW b \in Nat, NEW c \in Nat,
         1 <= b, b <= c, c <= Len(d) + 1
  PROVE  Around(d, b, c) \in Seq(S) /\ TakenOut(Around(d, b, c), d, b, c - b)
<1> DEFINE L == Len(d)
           u == SubSeq(d, 1, b - 1)
           v == SubSeq(d, c, L)
<1>1. L \in Nat /\ \A i \in 1..L : d[i] \in S
  OBVIOUS
<1>2. /\ u \in Seq(S) /\ Len(u) = b - 1
      /\ \A i \in 1..(b - 1) : u[i] = d[i]
  <2>1. 1 \in Int /\ b - 1 \in Int /\ \A i \in 1..(b - 1) : d[i] \in S
    BY <1>1
  <2>2. /\ u \in Seq(S) /\ Len(u) = IF 1 <= b - 1 THEN (b - 1) - 1 + 1 ELSE 0
        /\ \A i \in 1..((b - 1) - 1 + 1) : u[i] = d[1 + i - 1]
    BY <2>1, SubSeqProperties
  <2> HIDE DEF u
  <2> QED BY <2>2
<1>3. /\ v \in Seq(S) /\ Len(v) = L - c + 1
      /\ \A i \in 1..(L - c + 1) : v[i] = d[c + i - 1]
  <2>1. c \in Int /\ L \in Int /\ \A i \in c..L : d[i] \in S
    BY <1>1
  <2>2. /\ v \in Seq(S) /\ Len(v) = IF c <= L THEN L - c + 1 ELSE 0
        /\ \A i \in 1..(L - c + 1) : v[i] = d[c + i - 1]
    BY <2>1, SubSeqProperties
  <2> HIDE DEF v, L
  <2> QED BY <1>1, <2>2 DEF L
<1> HIDE DEF u, v
<1>4. /\ u \o v \in Seq(S) /\ Len(u \o v) = Len(u) + Len(v)
      /\ \A i \in 1..(Len(u) + Len(v)) :
           (u \o v)[i] = IF i <= Len(u) THEN u[i] ELSE v[i - Len(u)]
  BY <1>2, <1>3, ConcatProperties
<1> HIDE DEF L
<1>5. Len(u) + Len(v) = L - (c - b)
  BY <1>1, <1>2, <1>3
<1>6. ASSUME NEW x \in 1..(L - (c - b))
      PROVE  (u \o v)[x] = d[IF x < b THEN x ELSE x + (c - b)]
  <2>1. (u \o v)[x] = IF x <= b - 1 THEN u[x] ELSE v[x - (b - 1)]
    BY <1>2, <1>4, <1>5
  <2>2. CASE x < b
    <3>1. x \in 1..(b - 1) /\ x <= b - 1
      BY <2>2
    <3> QED BY <1>2, <2>1, <2>2, <3>1
  <2>3. CASE ~(x < b)
    <3>1. x - (b - 1) \in 1..(L - c + 1) /\ ~(x <= b - 1)
          /\ c + (x - (b - 1)) - 1 = x + (c - b)
      BY <1>1, <2>3 DEF L
    <3> QED BY <1>3, <2>1, <2>3, <3>1
  <2> QED BY <2>2, <2>3
<1> QED BY <1>4, <1>5, <1>6 DEF Around, TakenOut, L, u, v

(* The list without its entry e.                                           *)
Without(l, e) == [j \in 1..(Len(l) - 1) |-> l[IF j < e THEN j ELSE j + 1]]

(* The bytes of an entry taken away, the field reads as the other entries. *)
LEMMA WithoutReads ==
  ASSUME NEW S, NEW d \in Seq(S), NEW l, ListOver(l, S), NEW at, Reads(d, l, at),
         NEW e \in 1..Len(l)
  PROVE  /\ ListOver(Without(l, e), S)
         /\ \E at2 : Reads(Around(d, at[e], at[e + 1]), Without(l, e), at2)
<1> DEFINE M == Len(l)
           b == at[e]
           c == at[e + 1]
           w == c - b
           g == Around(d, b, c)
           r == Without(l, e)
           to == [j \in 1..M |-> IF j <= e THEN at[j] ELSE at[j + 1] - w]
<1>1. /\ M \in Nat /\ Len(d) \in Nat
      /\ \A k \in 1..M : l[k] \in Seq(S) /\ Len(l[k]) \in Nat
  BY DEF ListOver
<1>2. /\ \A k \in 1..M : /\ at[k + 1] = at[k] + 1 + Len(l[k])
                         /\ d[at[k]] = Separator
                         /\ \A j \in 1..Len(l[k]) : d[at[k] + j] = l[k][j]
      /\ at[1] = 1 /\ at[M + 1] = Len(d) + 1
  BY DEF Reads
<1>3. \A k \in 1..(M + 1) : at[k] \in Nat /\ at[k] >= 1 /\ at[k] <= Len(d) + 1
  <2>1. ASSUME NEW k \in 1..(M + 1) PROVE at[k] \in Nat /\ at[k] >= 1 /\ at[k] <= at[M + 1]
    <3>1. M + 1 \in 1..(Len(l) + 1) /\ k \in 1..(M + 1)
      BY <1>1
    <3> QED BY <3>1, InOrder
  <2> QED BY <1>2, <2>1
<1>4. \A k \in 1..(e - 1) : at[k + 1] <= b
  <2>1. ASSUME NEW k \in 1..(e - 1) PROVE at[k + 1] <= at[e]
    <3>1. e \in 1..(Len(l) + 1) /\ k \in 1..e /\ k < e
      BY <1>1
    <3> QED BY <3>1, InOrder
  <2> QED BY <2>1
<1>5. \A k \in (e + 1)..(M + 1) : c <= at[k]
  <2>1. ASSUME NEW k \in (e + 1)..(M + 1) PROVE at[e + 1] <= at[k]
    <3>1. k \in 1..(Len(l) + 1) /\ e + 1 \in 1..k
      BY <1>1
    <3> QED BY <3>1, InOrder
  <2> QED BY <2>1
<1>6. e \in 1..M /\ e \in 1..(M + 1) /\ e + 1 \in 1..(M + 1)
  BY <1>1
<1>7. b \in Nat /\ c \in Nat /\ 1 <= b /\ b < c /\ c <= Len(d) + 1
  <2> DEFINE n == Len(l[e])
  <2>1. /\ n \in Nat /\ c = b + 1 + n /\ b \in Nat /\ c \in Nat /\ 1 <= b
        /\ c <= Len(d) + 1
    BY <1>1, <1>2, <1>3, <1>6
  <2> HIDE DEF n, b, c
  <2> QED BY <2>1
<1>8. /\ Len(g) = Len(d) - w
      /\ \A x \in 1..(Len(d) - w) : g[x] = d[IF x < b THEN x ELSE x + w]
  <2>1. b <= c
    BY <1>7
  <2> HIDE DEF b, c
  <2>2. TakenOut(Around(d, b, c), d, b, c - b)
    BY <1>7, <2>1, AroundBytes
  <2> QED BY <2>2 DEF TakenOut
<1>9. /\ r \in Seq(Seq(S)) /\ Len(r) = M - 1
      /\ \A j \in 1..(M - 1) : r[j] = l[IF j < e THEN j ELSE j + 1]
  <2>1. M - 1 \in Nat
    BY <1>1, <1>6
  <2>2. ASSUME NEW j \in 1..(M - 1) PROVE l[IF j < e THEN j ELSE j + 1] \in Seq(S)
    <3>1. (IF j < e THEN j ELSE j + 1) \in 1..M
      BY <1>1
    <3> QED BY <1>1, <3>1
  <2>3. r = [j \in 1..(M - 1) |-> l[IF j < e THEN j ELSE j + 1]]
    BY DEF Without
  <2> DEFINE X == Seq(S)
             n == M - 1
  <2> HIDE DEF r, X
  <2>4. r \in [1..n -> X]
    BY <2>2, <2>3 DEF X
  <2> HIDE DEF n
  <2>5. r \in Seq(X) /\ Len(r) = n
    BY <2>1, <2>4 DEF n
  <2> QED BY <2>3, <2>5 DEF X, n
<1>10. \A j \in 1..M : to[j] = IF j <= e THEN at[j] ELSE at[j + 1] - w
  OBVIOUS
<1> HIDE DEF M, b, c, g, r, to
<1>11. \A j \in e..M : to[j] = at[j + 1] - w
  <2>1. b = c - w
    BY <1>7
  <2> HIDE DEF w
  <2>2. ASSUME NEW j \in e..M PROVE to[j] = at[j + 1] - w
    <3>1. j \in 1..M
      BY <1>1, <1>6
    <3>2. CASE j = e
      BY <1>10, <2>1, <3>1, <3>2 DEF b, c
    <3>3. CASE j # e
      BY <1>10, <3>1, <3>3
    <3> QED BY <3>2, <3>3
  <2> QED BY <2>2
<1>12. w \in Nat
  BY <1>7
<1> HIDE DEF w
<1>13. to \in [1..M -> Nat]
  <2>1. ASSUME NEW j \in 1..M PROVE to[j] \in Nat
    <3>1. CASE j <= e
      <4>1. j \in 1..(M + 1)
        BY <1>1
      <4> QED BY <1>3, <1>10, <3>1, <4>1
    <3>2. CASE ~(j <= e)
      <4>1. j + 1 \in 1..(M + 1) /\ j + 1 \in (e + 1)..(M + 1)
        BY <1>1, <1>6, <3>2
      <4>2. c <= at[j + 1] /\ at[j + 1] \in Nat /\ to[j] = at[j + 1] - w
        BY <1>3, <1>5, <1>10, <3>2, <4>1
      <4> DEFINE x == at[j + 1]
      <4>3. x \in Nat /\ c <= x /\ to[j] = x - w
        BY <4>2
      <4>4. w <= c /\ w \in Nat /\ c \in Nat
        BY <1>7, <1>12 DEF w
      <4> HIDE DEF x
      <4> QED BY <4>3, <4>4
    <3> QED BY <3>1, <3>2
  <2> QED BY <2>1 DEF to
<1>14. to[1] = 1 /\ to[M] = Len(g) + 1
  <2>1. 1 \in 1..M /\ 1 <= e /\ M \in e..M
    BY <1>1, <1>6
  <2>2. to[1] = 1
    BY <1>2, <1>10, <2>1
  <2>3. to[M] = at[M + 1] - w
    BY <1>11, <2>1
  <2> QED BY <1>1, <1>2, <1>8, <1>12, <2>2, <2>3
<1>15. ASSUME NEW k \in 1..(M - 1)
       PROVE  /\ to[k + 1] = to[k] + 1 + Len(r[k])
              /\ g[to[k]] = Separator
              /\ \A j \in 1..Len(r[k]) : g[to[k] + j] = r[k][j]
  <2>1. CASE k < e
    <3>1. k \in 1..M /\ k + 1 \in 1..M /\ k \in 1..(e - 1) /\ k \in 1..(M + 1)
          /\ k <= e /\ k + 1 <= e /\ k \in 1..(M - 1)
      BY <1>1, <1>6, <2>1
    <3>2. to[k] = at[k] /\ to[k + 1] = at[k + 1] /\ r[k] = l[k]
      BY <1>9, <1>10, <2>1, <3>1
    <3>3. /\ at[k + 1] = at[k] + 1 + Len(l[k]) /\ at[k + 1] <= b
          /\ d[at[k]] = Separator /\ at[k] \in Nat /\ at[k] >= 1
          /\ Len(l[k]) \in Nat
          /\ \A j \in 1..Len(l[k]) : d[at[k] + j] = l[k][j]
      BY <1>1, <1>2, <1>3, <1>4, <3>1
    <3>4. ASSUME NEW j \in 0..Len(l[k]) PROVE g[at[k] + j] = d[at[k] + j]
      <4>1. at[k] + j \in 1..(Len(d) - w) /\ at[k] + j < b
        <5> DEFINE x == at[k]
                   y == at[k + 1]
                   n == Len(l[k])
        <5>1. x \in Nat /\ x >= 1 /\ n \in Nat /\ y = x + 1 + n /\ y <= b /\ j \in 0..n
          BY <3>3
        <5>2. w = c - b
          BY DEF w
        <5> HIDE DEF x, y, n
        <5>3. x + j \in 1..(Len(d) - w) /\ x + j < b
          BY <1>1, <1>7, <5>1, <5>2
        <5> QED BY <5>3 DEF x
      <4> QED BY <1>8, <4>1
    <3>5. g[at[k]] = d[at[k]]
      <4>1. 0 \in 0..Len(l[k]) /\ at[k] + 0 = at[k]
        BY <3>3
      <4> QED BY <3>4, <4>1
    <3>6. \A j \in 1..Len(l[k]) : g[at[k] + j] = l[k][j]
      BY <3>3, <3>4
    <3> QED BY <3>2, <3>3, <3>5, <3>6
  <2>2. CASE ~(k < e)
    <3> DEFINE q == k + 1
    <3>1. k \in e..M /\ q \in e..M /\ q \in 1..M /\ q \in (e + 1)..(M + 1)
          /\ q \in 1..(M + 1)
      BY <1>1, <1>6, <2>2
    <3>2. to[k] = at[q] - w /\ to[k + 1] = at[q + 1] - w /\ r[k] = l[q]
      BY <1>9, <1>11, <2>2, <3>1
    <3>3. /\ at[q + 1] = at[q] + 1 + Len(l[q]) /\ c <= at[q]
          /\ d[at[q]] = Separator /\ at[q] \in Nat
          /\ Len(l[q]) \in Nat
          /\ \A j \in 1..Len(l[q]) : d[at[q] + j] = l[q][j]
      BY <1>1, <1>2, <1>3, <1>5, <3>1
    <3>4. at[q + 1] <= Len(d) + 1
      <4>1. q + 1 \in 1..(M + 1)
        BY <1>1, <3>1
      <4> QED BY <1>3, <4>1
    <3> HIDE DEF q
    <3>5. ASSUME NEW j \in 0..Len(l[q]) PROVE g[(at[q] - w) + j] = d[at[q] + j]
      <4>1. (at[q] - w) + j \in 1..(Len(d) - w) /\ ~((at[q] - w) + j < b)
            /\ ((at[q] - w) + j) + w = at[q] + j
        <5> DEFINE x == at[q]
                   y == at[q + 1]
                   n == Len(l[q])
        <5>1. /\ x \in Nat /\ c <= x /\ n \in Nat /\ y = x + 1 + n
              /\ y <= Len(d) + 1 /\ j \in 0..n
          BY <3>3, <3>4
        <5>2. w = c - b
          BY DEF w
        <5> HIDE DEF x, y, n
        <5>3. (x - w) + j \in 1..(Len(d) - w) /\ ~((x - w) + j < b)
              /\ ((x - w) + j) + w = x + j
          BY <1>1, <1>7, <5>1, <5>2
        <5> QED BY <5>3 DEF x
      <4> QED BY <1>8, <4>1
    <3>6. g[at[q] - w] = d[at[q]]
      <4>1. 0 \in 0..Len(l[q]) /\ (at[q] - w) + 0 = at[q] - w /\ at[q] + 0 = at[q]
        BY <1>12, <3>3
      <4> QED BY <3>5, <4>1
    <3>7. \A j \in 1..Len(l[q]) : g[(at[q] - w) + j] = l[q][j]
      BY <3>3, <3>5
    <3>8. at[q + 1] - w = (at[q] - w) + 1 + Len(l[q])
      <4> DEFINE x == at[q]
                 y == at[q + 1]
                 n == Len(l[q])
      <4>1. x \in Nat /\ n \in Nat /\ y = x + 1 + n
        BY <3>3
      <4> HIDE DEF x, y, n
      <4>2. y - w = (x - w) + 1 + n
        BY <1>12, <4>1
      <4> QED BY <4>2 DEF x, y, n
    <3> QED BY <3>2, <3>3, <3>6, <3>7, <3>8
  <2> QED BY <2>1, <2>2
<1>16. Len(r) + 1 = M
  BY <1>1, <1>9
<1>17. Reads(g, r, to)
  BY <1>9, <1>13, <1>14, <1>15, <1>16 DEF Reads
<1>18. ListOver(r, S)
  BY <1>9 DEF ListOver
<1> QED BY <1>17, <1>18 DEF g, r, b, c

(* str_buf_rm takes away the one entry that mentions the name, no more.    *)
LEMMA RemovedReads ==
  ASSUME NEW S, NEW d \in Seq(S), NEW l, ListOver(l, S), NEW at, Reads(d, l, at),
         NEW e \in 1..Len(l), l[e] # <<>>, Unbroken(l[e]),
         \A k \in 1..Len(l) : Mentions(l[k], l[e]) => k = e
  PROVE  /\ StrBufRm(d, l[e]) \in Seq(S)
         /\ ListOver(Without(l, e), S)
         /\ \E at2 : Reads(StrBufRm(d, l[e]), Without(l, e), at2)
<1> DEFINE s == l[e]
           p == <<Separator>> \o s
           b == at[e]
           c == at[e + 1]
<1>1. \A i \in 1..(Len(d) + 1) : Matches(d, p, i) <=> i = b
  <2> HIDE DEF p, b
  <2>1. ASSUME NEW i \in 1..(Len(d) + 1) PROVE Matches(d, p, i) <=> i = b
    BY FoundOnce DEF p, b
  <2> QED BY <2>1
<1>2. /\ b \in 1..Len(d) /\ c <= Len(d) + 1 /\ c \in Nat /\ Len(d) \in Nat
      /\ c = b + (1 + Len(s)) /\ d[b] = Separator
      /\ Len(s) \in Nat /\ s \in Seq(S) /\ b <= c
  <2> DEFINE n == Len(s)
  <2>0. Len(l) \in Nat /\ n \in Nat /\ Len(d) \in Nat /\ s \in Seq(S)
    BY DEF ListOver
  <2>1. e \in 1..(Len(l) + 1) /\ e + 1 \in 1..(Len(l) + 1)
        /\ Len(l) + 1 \in 1..(Len(l) + 1) /\ e \in 1..(e + 1)
    BY <2>0
  <2>2. b \in Nat /\ b >= 1
    BY <2>1, InOrder
  <2>3. c <= at[Len(l) + 1]
    BY <2>1, InOrder
  <2>4. /\ c = b + 1 + n /\ at[Len(l) + 1] = Len(d) + 1
        /\ d[b] = Separator
    BY DEF Reads
  <2>5. c <= Len(d) + 1
    BY <2>3, <2>4
  <2> HIDE DEF b, c, s, n
  <2>6. /\ b \in 1..Len(d) /\ c \in Nat /\ c = b + (1 + n) /\ b <= c
    BY <2>0, <2>2, <2>4, <2>5
  <2> QED BY <2>0, <2>4, <2>5, <2>6 DEF n
<1>3. p \in Seq(S) /\ Len(p) = 1 + Len(s)
  <2> DEFINE q == <<Separator>>
  <2>1. q \in Seq(S) /\ Len(q) = 1
    BY <1>2
  <2> HIDE DEF q, s, b, c
  <2>2. q \o s \in Seq(S) /\ Len(q \o s) = Len(q) + Len(s)
    BY <1>2, <2>1, ConcatProperties
  <2> QED BY <2>1, <2>2 DEF q
<1> HIDE DEF p, b, c, s
<1>4. c = b + Len(p) /\ p # <<>> /\ b + Len(p) <= Len(d) + 1
  <2>1. Len(p) # 0
    BY <1>2, <1>3
  <2> QED BY <1>2, <1>3, <2>1
<1>5. Dropped(d, p) = SubSeq(d, 1, b - 1) \o SubSeq(d, b + Len(p), Len(d))
  BY <1>1, <1>2, <1>3, <1>4, DroppedAround
<1>6. StrBufRm(d, s) = Around(d, b, c)
  BY <1>4, <1>5 DEF StrBufRm, Around, p
<1>7. Around(d, b, c) \in Seq(S)
  <2>1. b \in Nat /\ 1 <= b
    BY <1>2
  <2> QED BY <1>2, <2>1, AroundBytes
<1>8. ListOver(Without(l, e), S) /\ \E at2 : Reads(Around(d, b, c), Without(l, e), at2)
  BY WithoutReads DEF b, c
<1> QED BY <1>6, <1>7, <1>8 DEF s

-----------------------------------------------------------------------------
(* Adding an entry, and reading the entries                                *)

(* A name written after the field is one more entry.                       *)
LEMMA AddedReads ==
  ASSUME NEW S, NEW d \in Seq(S), NEW l, ListOver(l, S), NEW at, Reads(d, l, at),
         NEW s \in Seq(S), Separator \in S
  PROVE  /\ d \o <<Separator>> \o s \in Seq(S)
         /\ Len(d \o <<Separator>> \o s) = Len(d) + 1 + Len(s)
         /\ ListOver(Append(l, s), S)
         /\ \E at2 : Reads(d \o <<Separator>> \o s, Append(l, s), at2)
<1> DEFINE M == Len(l)
           D == Len(d)
           n == Len(s)
           q == <<Separator>>
           u == d \o q
           g == u \o s
           r == Append(l, s)
           to == [j \in 1..(M + 2) |-> IF j <= M + 1 THEN at[j] ELSE D + 2 + n]
<1>1. D \in Nat /\ n \in Nat
  OBVIOUS
<1>2. /\ M \in Nat /\ r \in Seq(Seq(S)) /\ Len(r) = M + 1 /\ r[M + 1] = s
      /\ \A k \in 1..M : r[k] = l[k] /\ Len(l[k]) \in Nat
  <2>1. M \in Nat /\ \A k \in 1..M : Len(l[k]) \in Nat
    BY DEF ListOver
  <2> DEFINE X == Seq(S)
  <2>2. l \in Seq(X) /\ s \in X
    BY DEF ListOver
  <2> HIDE DEF X
  <2>3. /\ r \in Seq(X) /\ Len(r) = M + 1 /\ r[M + 1] = s
        /\ \A k \in 1..M : r[k] = l[k]
    BY <2>2, AppendProperties
  <2> QED BY <2>1, <2>3 DEF X
<1>3. q \in Seq(S) /\ Len(q) = 1 /\ q[1] = Separator
  OBVIOUS
<1> HIDE DEF q
<1>4. /\ u \in Seq(S) /\ Len(u) = D + 1 /\ u[D + 1] = Separator
      /\ \A i \in 1..D : u[i] = d[i]
  <2>1. /\ u \in Seq(S) /\ Len(u) = D + Len(q)
        /\ \A i \in 1..(D + Len(q)) : u[i] = IF i <= D THEN d[i] ELSE q[i - D]
    BY <1>3, ConcatProperties
  <2> HIDE DEF u, D
  <2>2. D + 1 \in 1..(D + Len(q)) /\ ~(D + 1 <= D) /\ (D + 1) - D = 1
    BY <1>1, <1>3
  <2>3. \A i \in 1..D : i \in 1..(D + Len(q)) /\ i <= D
    BY <1>1, <1>3
  <2> QED BY <1>3, <2>1, <2>2, <2>3
<1> HIDE DEF u
<1>5. /\ g \in Seq(S) /\ Len(g) = D + 1 + n /\ g[D + 1] = Separator
      /\ \A i \in 1..D : g[i] = d[i]
      /\ \A j \in 1..n : g[D + 1 + j] = s[j]
  <2>1. /\ g \in Seq(S) /\ Len(g) = Len(u) + n
        /\ \A i \in 1..(Len(u) + n) :
             g[i] = IF i <= Len(u) THEN u[i] ELSE s[i - Len(u)]
    BY <1>4, ConcatProperties
  <2> HIDE DEF g, D, n
  <2>2. \A i \in 1..(D + 1) : i \in 1..(Len(u) + n) /\ i <= Len(u)
    BY <1>1, <1>4
  <2>3. \A j \in 1..n : /\ D + 1 + j \in 1..(Len(u) + n) /\ ~(D + 1 + j <= Len(u))
                        /\ (D + 1 + j) - Len(u) = j
    BY <1>1, <1>4
  <2>4. D + 1 \in 1..(D + 1) /\ \A i \in 1..D : i \in 1..(D + 1)
    BY <1>1
  <2> QED BY <1>4, <2>1, <2>2, <2>3, <2>4
<1>6. \A j \in 1..(M + 2) : to[j] = IF j <= M + 1 THEN at[j] ELSE D + 2 + n
  OBVIOUS
<1>7. /\ \A k \in 1..(M + 1) : at[k] \in Nat /\ at[k] >= 1
      /\ \A k \in 1..M : at[k + 1] <= D + 1
      /\ at[1] = 1 /\ at[M + 1] = D + 1
      /\ \A k \in 1..M : /\ at[k + 1] = at[k] + 1 + Len(l[k])
                         /\ d[at[k]] = Separator
                         /\ \A j \in 1..Len(l[k]) : d[at[k] + j] = l[k][j]
  <2>1. at[1] = 1 /\ at[M + 1] = D + 1
      /\ \A k \in 1..M : /\ at[k + 1] = at[k] + 1 + Len(l[k])
                         /\ d[at[k]] = Separator
                         /\ \A j \in 1..Len(l[k]) : d[at[k] + j] = l[k][j]
    BY DEF Reads
  <2>2. ASSUME NEW k \in 1..(M + 1) PROVE at[k] \in Nat /\ at[k] >= 1 /\ at[k] <= at[M + 1]
    <3>1. M + 1 \in 1..(Len(l) + 1) /\ k \in 1..(M + 1)
      BY <1>2
    <3> QED BY <3>1, InOrder
  <2>3. \A k \in 1..M : k + 1 \in 1..(M + 1)
    BY <1>2
  <2> QED BY <2>1, <2>2, <2>3
<1> HIDE DEF M, D, n, g, r, to
<1>8. to \in [1..(M + 2) -> Nat]
  <2>1. ASSUME NEW j \in 1..(M + 2)
        PROVE  (IF j <= M + 1 THEN at[j] ELSE D + 2 + n) \in Nat
    <3>1. CASE j <= M + 1
      <4>1. j \in 1..(M + 1)
        BY <1>2, <3>1
      <4> QED BY <1>7, <3>1, <4>1
    <3>2. CASE ~(j <= M + 1)
      BY <1>1, <3>2
    <3> QED BY <3>1, <3>2
  <2> QED BY <2>1 DEF to
<1>9. to[1] = 1 /\ to[M + 2] = Len(g) + 1
  <2>1. 1 \in 1..(M + 2) /\ M + 2 \in 1..(M + 2) /\ 1 <= M + 1 /\ ~(M + 2 <= M + 1)
    BY <1>2
  <2>2. (D + 1 + n) + 1 = D + 2 + n
    BY <1>1
  <2> QED BY <1>5, <1>6, <1>7, <2>1, <2>2
<1>10. ASSUME NEW k \in 1..(M + 1)
       PROVE  /\ to[k + 1] = to[k] + 1 + Len(r[k])
              /\ g[to[k]] = Separator
              /\ \A j \in 1..Len(r[k]) : g[to[k] + j] = r[k][j]
  <2>0. to[k] = at[k]
    <3>1. k \in 1..(M + 2) /\ k <= M + 1
      BY <1>2
    <3> QED BY <1>6, <3>1
  <2>1. CASE k = M + 1
    <3>1. to[k + 1] = D + 2 + n
      <4>1. k + 1 \in 1..(M + 2) /\ ~(k + 1 <= M + 1)
        BY <1>2, <2>1
      <4> QED BY <1>6, <4>1
    <3>2. to[k] = D + 1 /\ r[k] = s
      BY <1>2, <1>7, <2>0, <2>1
    <3>3. D + 2 + n = (D + 1) + 1 + n
      BY <1>1
    <3> QED BY <1>5, <3>1, <3>2, <3>3 DEF n
  <2>2. CASE k # M + 1
    <3>1. k \in 1..M /\ k + 1 \in 1..(M + 2) /\ k + 1 <= M + 1 /\ k \in 1..(M + 1)
      BY <1>2, <2>2
    <3>2. to[k + 1] = at[k + 1] /\ r[k] = l[k]
      BY <1>2, <1>6, <3>1
    <3> DEFINE x == at[k]
               y == at[k + 1]
               m == Len(l[k])
    <3>3. /\ x \in Nat /\ x >= 1 /\ m \in Nat /\ y = x + 1 + m /\ y <= D + 1
          /\ d[x] = Separator /\ \A j \in 1..m : d[x + j] = l[k][j]
      BY <1>2, <1>7, <3>1
    <3> HIDE DEF x, y, m
    <3>4. x \in 1..D /\ \A j \in 1..m : x + j \in 1..D
      BY <1>1, <3>3
    <3>5. g[x] = Separator /\ \A j \in 1..m : g[x + j] = l[k][j]
      BY <1>5, <3>3, <3>4
    <3> QED BY <2>0, <3>2, <3>3, <3>5 DEF x, y, m
  <2> QED BY <2>1, <2>2
<1>11. Reads(g, r, to)
  <2>1. Len(r) + 1 = M + 2 /\ Len(r) = M + 1
    BY <1>2
  <2> QED BY <1>8, <1>9, <1>10, <2>1 DEF Reads
<1>12. ListOver(r, S)
  BY <1>2 DEF ListOver
<1> QED BY <1>5, <1>11, <1>12 DEF g, r, u, q, D, n

(* One byte more that the reader takes in.                                 *)
TakeIn(read, byte) ==
  IF byte = Separator THEN Append(read, <<>>)
  ELSE [read EXCEPT ![Len(read)] = Append(@, byte)]

Taken(f, d, i) ==
  IF \A j \in 1..i : d[j] # Separator THEN <<>> ELSE TakeIn(f[i - 1], d[i])

(* There is a function that the reader computes, byte by byte.             *)
LEMMA EntriesTaken ==
  ASSUME NEW S, NEW d \in Seq(S)
  PROVE  \E f : Entries(d) = f[Len(d)] /\ \A i \in 0..Len(d) : f[i] = Taken(f, d, i)
<1> DEFINE D == Len(d)
           Def(g) == [i \in 0..D |-> Taken(g, d, i)]
           f == CHOOSE g : g = Def(g)
           T == {k \in Nat : \E g : \A i \in 0..k : g[i] = Taken(g, d, i)}
<1>1. D \in Nat
  OBVIOUS
<1>2. ASSUME NEW g, NEW h, NEW i \in Nat, i # 0 => g[i - 1] = h[i - 1]
      PROVE  Taken(g, d, i) = Taken(h, d, i)
  <2>1. i = 0 => \A j \in 1..i : d[j] # Separator
    OBVIOUS
  <2> QED BY <1>2, <2>1 DEF Taken
<1>3. 0 \in T
  <2> DEFINE g == [i \in {0} |-> <<>>]
  <2>1. \A i \in 0..0 : g[i] = Taken(g, d, i)
    BY DEF Taken
  <2> HIDE DEF g
  <2> QED BY <2>1
<1>4. ASSUME NEW k \in T PROVE k + 1 \in T
  <2>1. k \in Nat
    OBVIOUS
  <2>2. PICK g : \A i \in 0..k : g[i] = Taken(g, d, i)
    OBVIOUS
  <2> DEFINE h == [i \in 0..(k + 1) |-> IF i = k + 1 THEN Taken(g, d, i) ELSE g[i]]
  <2> HIDE DEF T
  <2>3. h[k + 1] = Taken(g, d, k + 1) /\ \A i \in 0..k : h[i] = g[i]
    BY <2>1
  <2> HIDE DEF h
  <2>4. ASSUME NEW i \in 0..(k + 1) PROVE h[i] = Taken(h, d, i)
    <3>1. i \in Nat /\ (i # 0 => i - 1 \in 0..k)
      BY <2>1
    <3>2. i # 0 => g[i - 1] = h[i - 1]
      BY <2>3, <3>1
    <3>3. Taken(g, d, i) = Taken(h, d, i)
      BY <1>2, <3>1, <3>2
    <3>4. CASE i = k + 1
      BY <2>3, <3>3, <3>4
    <3>5. CASE i # k + 1
      <4>1. i \in 0..k
        BY <2>1, <3>5
      <4> QED BY <2>2, <2>3, <3>3, <4>1
    <3> QED BY <3>4, <3>5
  <2> QED BY <2>1, <2>4 DEF T
<1>5. T = Nat
  <2>1. T \subseteq Nat
    OBVIOUS
  <2> HIDE DEF T
  <2> QED BY <1>3, <1>4, <2>1, SetInduction
<1>6. PICK g : \A i \in 0..D : g[i] = Taken(g, d, i)
  <2>1. D \in T
    BY <1>1, <1>5
  <2> HIDE DEF D
  <2> QED BY <2>1
<1> DEFINE h == [i \in 0..D |-> g[i]]
<1>7. h = Def(h)
  <2>1. ASSUME NEW i \in 0..D PROVE h[i] = Taken(h, d, i)
    <3>1. i \in Nat /\ (i # 0 => i - 1 \in 0..D)
      BY <1>1
    <3>2. i # 0 => g[i - 1] = h[i - 1]
      BY <3>1
    <3>3. Taken(g, d, i) = Taken(h, d, i)
      <4> HIDE DEF h
      <4> QED BY <1>2, <3>1, <3>2
    <3> QED BY <1>6, <3>3
  <2> QED BY <2>1
<1>8. f = Def(f)
  <2> HIDE DEF Def
  <2> QED BY <1>7
<1>9. Entries(d) = f[Len(d)]
  BY DEF Entries, Taken, TakeIn
<1>10. \A i \in 0..D : f[i] = Taken(f, d, i)
  <2> HIDE DEF f
  <2> QED BY <1>8
<1> HIDE DEF f
<1> QED BY <1>9, <1>10

(* What the reader has when it has read entry k up to its byte x.          *)
Partly(l, k, x) == [m \in 1..k |-> IF m < k THEN l[m] ELSE SubSeq(l[k], 1, x)]

(* The reader takes in the separator before an entry.                      *)
LEMMA TakeSeparator ==
  ASSUME NEW S, NEW l, ListOver(l, S), NEW k \in 0..(Len(l) - 1), NEW read,
         read = IF k = 0 THEN <<>> ELSE Partly(l, k, Len(l[k]))
  PROVE  TakeIn(read, Separator) = Partly(l, k + 1, 0)
<1> DEFINE X == Seq(S)
<1>1. k \in Nat /\ Len(l) \in Nat /\ \A m \in 1..Len(l) : l[m] \in X /\ Len(l[m]) \in Nat
  BY DEF ListOver
<1>2. SubSeq(l[k + 1], 1, 0) = <<>>
  BY SubSeqEmpty
<1>3. read = [m \in 1..k |-> l[m]]
  <2>1. CASE k = 0
    <3>1. [m \in 1..0 |-> l[m]] = <<>>
      OBVIOUS
    <3> QED BY <2>1, <3>1
  <2>2. CASE k # 0
    <3>1. k \in 1..Len(l)
      BY <1>1, <2>2
    <3>2. SubSeq(l[k], 1, Len(l[k])) = l[k]
      BY <1>1, <3>1, SubSeqFull
    <3>3. \A m \in 1..k : ~(m < k) => m = k
      BY <1>1
    <3> QED BY <2>2, <3>2, <3>3 DEF Partly
  <2> QED BY <2>1, <2>2
<1>4. <<>> \in X
  OBVIOUS
<1> HIDE DEF X
<1>5. read \in Seq(X) /\ Len(read) = k
  <2>1. \A m \in 1..k : l[m] \in X
    BY <1>1
  <2>2. read \in [1..k -> X]
    BY <1>3, <2>1
  <2> QED BY <1>1, <2>2
<1> DEFINE e == <<>>
           r == Append(read, e)
           t == Partly(l, k + 1, 0)
<1>6. e \in X
  BY <1>4
<1> HIDE DEF e
<1>7. /\ r \in Seq(X) /\ Len(r) = k + 1 /\ r[k + 1] = e
      /\ \A m \in 1..k : r[m] = read[m]
  BY <1>5, <1>6, AppendProperties
<1>8. t = [m \in 1..(k + 1) |-> IF m < k + 1 THEN l[m] ELSE e]
  BY <1>2 DEF Partly, e
<1>9. r = [m \in 1..(k + 1) |-> r[m]]
  BY <1>1, <1>7
<1> HIDE DEF r, t
<1>10. ASSUME NEW m \in 1..(k + 1) PROVE r[m] = IF m < k + 1 THEN l[m] ELSE e
  <2>1. CASE m < k + 1
    <3>1. m \in 1..k
      BY <1>1, <2>1
    <3> QED BY <1>3, <1>7, <2>1, <3>1
  <2>2. CASE ~(m < k + 1)
    <3>1. m = k + 1
      BY <1>1, <2>2
    <3> QED BY <1>7, <2>2, <3>1
  <2> QED BY <2>1, <2>2
<1>11. r = t
  BY <1>8, <1>9, <1>10
<1> QED BY <1>11 DEF r, t, e, TakeIn

(* The reader takes in one byte of an entry.                               *)
LEMMA TakeByte ==
  ASSUME NEW S, NEW l, ListOver(l, S), NEW k \in 1..Len(l), Unbroken(l[k]),
         NEW x \in 1..Len(l[k])
  PROVE  TakeIn(Partly(l, k, x - 1), l[k][x]) = Partly(l, k, x)
<1> DEFINE X == Seq(S)
           s == l[k]
           u == SubSeq(s, 1, x - 1)
           read == Partly(l, k, x - 1)
<1>1. /\ k \in Nat /\ k >= 1 /\ s \in Seq(S) /\ Len(s) \in Nat /\ DOMAIN s = 1..Len(s)
      /\ \A m \in 1..k : l[m] \in X
  BY DEF ListOver
<1>2. s[x] # Separator /\ s[x] \in S /\ x \in Nat /\ x >= 1
  BY <1>1 DEF Unbroken
<1> HIDE DEF s
<1>3. u \in Seq(S) /\ SubSeq(s, 1, x) = u \o <<s[x]>>
  <2>0. x <= Len(s)
    BY DEF s
  <2>1. 1 \in Int /\ x - 1 \in Int /\ \A i \in 1..(x - 1) : s[i] \in S
    <3>1. \A i \in 1..(x - 1) : i \in 1..Len(s)
      BY <1>1, <1>2, <2>0
    <3> QED BY <1>1, <1>2, <3>1
  <2>2. u \in Seq(S)
    BY <2>1, SubSeqProperties
  <2>3. 1 \in 1..Len(s) /\ x \in 1..Len(s)
    BY <1>1 DEF s
  <2>4. x \in 1..Len(s) /\ SubSeq(s, 1, x) = SubSeq(s, 1, x - 1) \o <<s[x]>>
    BY <1>1, <2>3, SubSeqRecursiveSecond
  <2> QED BY <2>2, <2>4
<1>4. Append(u, s[x]) = SubSeq(s, 1, x)
  <2> HIDE DEF u
  <2> DEFINE y == s[x]
  <2>1. y \in S
    BY <1>2
  <2> HIDE DEF y
  <2>2. Append(u, y) = u \o <<y>>
    BY <1>3, <2>1, AppendIsConcat
  <2> QED BY <1>3, <2>2 DEF y
<1> HIDE DEF u, X
<1>5. read = [m \in 1..k |-> IF m < k THEN l[m] ELSE u]
  BY DEF Partly, s, u
<1>6. u \in X
  BY <1>3 DEF X
<1>7. Len(read) = k /\ read # <<>> /\ read[k] = u
  <2>1. \A m \in 1..k : (IF m < k THEN l[m] ELSE u) \in X
    BY <1>1, <1>6
  <2> HIDE DEF read
  <2>2. read \in [1..k -> X]
    BY <1>5, <2>1
  <2>3. read \in Seq(X) /\ Len(read) = k
    BY <1>1, <2>2
  <2>4. k \in 1..k /\ ~(k < k)
    BY <1>1
  <2> QED BY <1>1, <1>5, <2>3, <2>4
<1>8. TakeIn(read, s[x]) = [read EXCEPT ![k] = Append(u, s[x])]
  <2> HIDE DEF read
  <2> QED BY <1>2, <1>7 DEF TakeIn
<1> DEFINE y == Append(u, s[x])
<1> HIDE DEF y
<1>9. [read EXCEPT ![k] = y] = [m \in 1..k |-> IF m < k THEN l[m] ELSE y]
  <2>1. \A m \in 1..k : ~(m < k) <=> m = k
    BY <1>1
  <2> HIDE DEF read
  <2> QED BY <1>5, <2>1
<1>10. Partly(l, k, x) = [m \in 1..k |-> IF m < k THEN l[m] ELSE y]
  BY <1>4 DEF Partly, s, y
<1> QED BY <1>8, <1>9, <1>10 DEF y, s

(* The reader reads the entries that are there.                            *)
LEMMA EntriesRead ==
  ASSUME NEW S, NEW d \in Seq(S), NEW l, ListOver(l, S), NEW at, Reads(d, l, at),
         \A k \in 1..Len(l) : Unbroken(l[k])
  PROVE  Entries(d) = l
<1> DEFINE D == Len(d)
           M == Len(l)
<1>1. /\ D \in Nat /\ M \in Nat
      /\ \A k \in 1..M : l[k] \in Seq(S) /\ Len(l[k]) \in Nat
  BY DEF ListOver
<1>2. /\ \A k \in 1..M : /\ at[k + 1] = at[k] + 1 + Len(l[k])
                         /\ d[at[k]] = Separator
                         /\ \A j \in 1..Len(l[k]) : d[at[k] + j] = l[k][j]
      /\ \A k \in 1..(M + 1) : at[k] \in Nat
      /\ at[1] = 1 /\ at[M + 1] = D + 1
  BY DEF Reads
<1>3. PICK f : Entries(d) = f[D] /\ \A i \in 0..D : f[i] = Taken(f, d, i)
  BY EntriesTaken
<1> DEFINE Good(i) == \A k \in 1..M : at[k] <= i /\ i < at[k + 1]
                        => f[i] = Partly(l, k, i - at[k])
           T == {i \in Nat : i <= D => Good(i)}
<1>4. 0 \in T
  <2>1. ASSUME NEW k \in 1..M PROVE ~(at[k] <= 0)
    <3>1. k \in 1..(Len(l) + 1) /\ k \in 1..k
      BY <1>1
    <3>2. at[k] \in Nat /\ at[k] >= 1
      BY <3>1, InOrder
    <3> QED BY <3>2
  <2> QED BY <2>1
<1>5. ASSUME NEW i0 \in T PROVE i0 + 1 \in T
  <2>0. i0 \in Nat /\ (i0 <= D => Good(i0))
    OBVIOUS
  <2> DEFINE i == i0 + 1
  <2> SUFFICES ASSUME i <= D PROVE Good(i)
    <3> HIDE DEF Good
    <3> QED BY <2>0
  <2>1. Good(i0) /\ i \in 1..D /\ i \in 0..D /\ i \in Nat /\ i # 0 /\ i - 1 = i0
    <3> HIDE DEF Good
    <3> QED BY <1>1, <2>0
  <2> HIDE DEF Good, T
  <2>3. ASSUME NEW k \in 1..M, at[k] <= i, i < at[k + 1]
        PROVE  f[i] = Partly(l, k, i - at[k])
    <3>0. f[i] = TakeIn(f[i0], d[i])
      <4>1. 1 \in 1..M
        BY <1>1
      <4>2. d[1] = Separator
        BY <1>2, <4>1
      <4>3. 1 \in 1..i
        BY <2>1
      <4> HIDE DEF i
      <4> QED BY <1>3, <2>1, <4>2, <4>3 DEF Taken
    <3> DEFINE a == at[k]
               n == Len(l[k])
    <3>1. /\ a \in Nat /\ n \in Nat /\ at[k + 1] = a + 1 + n /\ d[a] = Separator
          /\ k \in Nat /\ k >= 1
          /\ \A j \in 1..n : d[a + j] = l[k][j]
      <4>1. k \in 1..(M + 1)
        BY <1>1
      <4> QED BY <1>1, <1>2, <4>1
    <3>2. CASE i = a
      <4>1. CASE k = 1
        <5>1. i0 = 0
          BY <1>2, <2>0, <3>2, <4>1
        <5>2. f[i0] = <<>>
          <6>1. 0 \in 0..D
            BY <1>1
          <6> QED BY <1>3, <5>1, <6>1 DEF Taken
        <5>3. 0 \in 0..(Len(l) - 1)
          BY <1>1, <3>1, <4>1
        <5>4. TakeIn(f[i0], Separator) = Partly(l, 0 + 1, 0)
          BY <5>2, <5>3, TakeSeparator
        <5>5. i - at[k] = 0 /\ k = 0 + 1
          BY <3>1, <3>2, <4>1
        <5> QED BY <3>0, <3>1, <3>2, <5>4, <5>5
      <4>2. CASE k # 1
        <5> DEFINE h == k - 1
        <5>1. h \in 1..M /\ h + 1 = k /\ h \in 0..(Len(l) - 1) /\ h # 0 /\ h \in 1..(M + 1)
          BY <1>1, <3>1, <4>2
        <5>2. at[h] \in Nat /\ Len(l[h]) \in Nat /\ at[k] = at[h] + 1 + Len(l[h])
          <6> HIDE DEF h
          <6> QED BY <1>1, <1>2, <5>1
        <5> HIDE DEF h
        <5> DEFINE b == at[h]
                   m == Len(l[h])
        <5>3. b <= i0 /\ i0 < a /\ i0 - b = m
          <6>1. b \in Nat /\ m \in Nat /\ a = b + 1 + m
            BY <5>2
          <6> HIDE DEF a, b, m
          <6> QED BY <2>0, <3>2, <6>1
        <5>4. f[i0] = Partly(l, h, m)
          BY <2>1, <5>1, <5>3 DEF Good
        <5> DEFINE r == f[i0]
        <5>5. r = IF h = 0 THEN <<>> ELSE Partly(l, h, Len(l[h]))
          BY <5>1, <5>4
        <5> HIDE DEF r
        <5>6. TakeIn(r, Separator) = Partly(l, h + 1, 0)
          BY <5>1, <5>5, TakeSeparator
        <5>7. i - at[k] = 0
          <6> HIDE DEF i
          <6> QED BY <3>1, <3>2
        <5> QED BY <3>0, <3>1, <3>2, <5>1, <5>6, <5>7 DEF r
      <4> QED BY <4>1, <4>2
    <3>3. CASE i # a
      <4> DEFINE x == i - a
      <4>1. x \in 1..n /\ a + x = i /\ i0 - a = x - 1 /\ a <= i0 /\ i0 < a + 1 + n
        <5>1. a <= i /\ i < a + 1 + n
          BY <2>3, <3>1
        <5>2. a \in Nat /\ n \in Nat
          BY <3>1
        <5>3. i # a
          BY <3>3
        <5> HIDE DEF a, n
        <5> QED BY <2>0, <5>1, <5>2, <5>3
      <4>2. f[i0] = Partly(l, k, x - 1)
        <5>1. at[k] <= i0 /\ i0 < at[k + 1] /\ i0 - at[k] = x - 1
          BY <3>1, <4>1
        <5> HIDE DEF x, i, a
        <5> QED BY <2>1, <5>1 DEF Good
      <4>3. d[i] = l[k][x]
        <5> HIDE DEF x, i, a, n
        <5> QED BY <3>1, <4>1
      <4>4. TakeIn(Partly(l, k, x - 1), l[k][x]) = Partly(l, k, x)
        <5>1. x \in 1..Len(l[k]) /\ Unbroken(l[k])
          BY <4>1
        <5> HIDE DEF x
        <5> QED BY <5>1, TakeByte
      <4> QED BY <3>0, <4>2, <4>3, <4>4
    <3> QED BY <3>2, <3>3
  <2> QED BY <2>3 DEF Good
<1>6. T = Nat
  <2>1. T \subseteq Nat
    OBVIOUS
  <2> HIDE DEF T
  <2> QED BY <1>4, <1>5, <2>1, SetInduction
<1>7. CASE M = 0
  <2>1. D = 0
    BY <1>1, <1>2, <1>7
  <2>2. f[D] = <<>>
    <3>1. 0 \in 0..D
      BY <1>1
    <3> QED BY <1>3, <2>1, <3>1 DEF Taken
  <2>3. l = <<>>
    <3> DEFINE X == Seq(S)
    <3>1. l \in Seq(X)
      BY DEF ListOver
    <3> HIDE DEF X
    <3> QED BY <1>7, <3>1
  <2> QED BY <1>3, <2>2, <2>3
<1>8. CASE M # 0
  <2> DEFINE n == Len(l[M])
  <2>1. M \in 1..M /\ M \in 1..(M + 1)
    BY <1>1, <1>8
  <2>2. at[M] \in Nat /\ n \in Nat /\ D + 1 = at[M] + 1 + n /\ l[M] \in Seq(S)
    BY <1>1, <1>2, <2>1
  <2>3. D - at[M] = n /\ at[M] <= D /\ D < at[M + 1]
    <3> DEFINE a == at[M]
    <3>1. a \in Nat /\ n \in Nat /\ D + 1 = a + 1 + n
      BY <2>2
    <3> HIDE DEF a, n, D
    <3>2. D - a = n /\ a <= D
      BY <1>1, <3>1
    <3> QED BY <1>1, <1>2, <3>2 DEF a
  <2>4. Good(D)
    <3> HIDE DEF Good, D
    <3> QED BY <1>1, <1>6
  <2>5. f[D] = Partly(l, M, n)
    <3> HIDE DEF n, D
    <3> QED BY <2>1, <2>3, <2>4
  <2>6. SubSeq(l[M], 1, n) = l[M]
    BY <2>2, SubSeqFull
  <2>7. Partly(l, M, n) = [m \in 1..M |-> l[m]]
    <3>1. \A m \in 1..M : ~(m < M) => m = M
      BY <1>1
    <3> HIDE DEF n, M
    <3> QED BY <2>6, <3>1 DEF Partly
  <2>8. l = [m \in 1..M |-> l[m]]
    <3> DEFINE X == Seq(S)
    <3>1. l \in Seq(X)
      BY DEF ListOver
    <3> HIDE DEF X
    <3> QED BY <3>1
  <2> QED BY <1>3, <2>5, <2>7, <2>8
<1> QED BY <1>7, <1>8

-----------------------------------------------------------------------------
(* Fields that hold lists of names kept apart                              *)

(* What there may be of a name in a field: all of it, or the bytes before  *)
(* the end of the field cut it off.                                        *)
Pieces(N) == UNION {{SubSeq(s, 1, n) : n \in 0..Len(s)} : s \in N}

(* The field reads as the list l of names of N, each at most once, and of  *)
(* what is left of names that were cut off.                                *)
Lists(d, l, N) ==
  /\ l \in Seq(Pieces(N))
  /\ \A i, j \in 1..Len(l) : l[i] = l[j] /\ l[i] \in N => i = j
  /\ \E at : Reads(d, l, at)

(* A name is a piece of itself.                                            *)
LEMMA NamesArePieces ==
  ASSUME NEW S, NEW N, N \subseteq Seq(S)
  PROVE  N \subseteq Pieces(N)
<1>1. ASSUME NEW s \in N PROVE s \in Pieces(N)
  <2>1. s \in Seq(S) /\ Len(s) \in 0..Len(s)
    OBVIOUS
  <2>2. SubSeq(s, 1, Len(s)) = s
    BY <2>1, SubSeqFull
  <2>3. s \in {SubSeq(s, 1, n) : n \in 0..Len(s)}
    BY <2>1, <2>2
  <2> QED BY <2>3 DEF Pieces
<1> QED BY <1>1

(* A piece of a name is unbroken, and no name is found in it but itself.   *)
LEMMA PieceOfName ==
  ASSUME NEW S, NEW N, N \subseteq Seq(S), KeptApart(N), NEW p \in Pieces(N)
  PROVE  /\ p \in Seq(S) /\ Unbroken(p)
         /\ \A s \in N : Mentions(p, s) => p = s
<1>0. PICK t \in N : p \in {SubSeq(t, 1, n) : n \in 0..Len(t)}
  BY DEF Pieces
<1>1. PICK n \in 0..Len(t) : p = SubSeq(t, 1, n)
  BY <1>0
<1> DEFINE T == Len(t)
<1>2. t \in Seq(S) /\ T \in Nat /\ n \in Nat /\ n <= T /\ DOMAIN t = 1..T
      /\ \A i \in 1..T : t[i] # Separator
  <2>1. t \in Seq(S) /\ T \in Nat /\ DOMAIN t = 1..T
    OBVIOUS
  <2>2. \A i \in DOMAIN t : t[i] # Separator
    BY DEF KeptApart
  <2> QED BY <2>1, <2>2
<1> HIDE DEF T
<1>3. p \in Seq(S) /\ Len(p) = n /\ \A i \in 1..n : p[i] = t[i]
  <2>1. 1 \in Int /\ n \in Int /\ \A i \in 1..n : t[i] \in S
    BY <1>2
  <2>2. /\ SubSeq(t, 1, n) \in Seq(S)
        /\ Len(SubSeq(t, 1, n)) = IF 1 <= n THEN n - 1 + 1 ELSE 0
        /\ \A i \in 1..(n - 1 + 1) : SubSeq(t, 1, n)[i] = t[1 + i - 1]
    BY <2>1, SubSeqProperties
  <2>3. /\ p \in Seq(S) /\ Len(p) = IF 1 <= n THEN n - 1 + 1 ELSE 0
        /\ \A i \in 1..(n - 1 + 1) : p[i] = t[1 + i - 1]
    BY <1>1, <2>2
  <2> QED BY <1>2, <2>3
<1>4. Unbroken(p)
  <2>1. DOMAIN p = 1..n
    BY <1>3
  <2> QED BY <1>2, <1>3, <2>1 DEF Unbroken
<1>5. ASSUME NEW s \in N, Mentions(p, s) PROVE p = s
  <2>1. s \in Seq(S) /\ Len(s) \in Nat /\ DOMAIN s = 1..Len(s)
    OBVIOUS
  <2>2. PICK i \in 1..(n + 1) :
          i + Len(s) <= n + 1 /\ \A j \in 1..Len(s) : p[i + j - 1] = s[j]
    BY <1>3, <1>5, <2>1 DEF Mentions, Matches
  <2>3. \A j \in 1..Len(s) : i + j - 1 \in 1..n
    BY <1>2, <2>1, <2>2
  <2>4. Matches(t, s, i)
    <3>1. i + Len(s) <= Len(t) + 1
      BY <1>2, <2>1, <2>2 DEF T
    <3>2. \A j \in 1..Len(s) : t[i + j - 1] = s[j]
      BY <1>3, <2>2, <2>3
    <3> QED BY <2>1, <3>1, <3>2 DEF Matches
  <2>5. i \in 1..(Len(t) + 1)
    BY <1>2, <2>2 DEF T
  <2>6. s = t
    BY <2>4, <2>5 DEF Mentions, KeptApart
  <2>7. n = T
    <3>1. Len(s) = T
      BY <2>6 DEF T
    <3> QED BY <1>2, <2>2, <3>1
  <2>8. SubSeq(t, 1, T) = t
    BY <1>2, SubSeqFull DEF T
  <2> QED BY <1>1, <2>6, <2>7, <2>8
<1> QED BY <1>3, <1>4, <1>5

(* A list of pieces is a list over bytes, of unbroken entries.             *)
LEMMA ListOfNames ==
  ASSUME NEW S, NEW N, N \subseteq Seq(S), KeptApart(N), NEW l \in Seq(Pieces(N))
  PROVE  /\ ListOver(l, S) /\ Len(l) \in Nat
         /\ \A k \in 1..Len(l) :
              /\ l[k] \in Pieces(N) /\ Unbroken(l[k])
              /\ \A s \in N : Mentions(l[k], s) => l[k] = s
<1> DEFINE P == Pieces(N)
           X == Seq(S)
<1>1. P \subseteq X
  BY PieceOfName
<1> HIDE DEF P, X
<1>2. l \in Seq(P)
  BY DEF P
<1>3. Len(l) \in Nat /\ \A k \in 1..Len(l) : l[k] \in P
  BY <1>2
<1>4. l \in Seq(X)
  BY <1>1, <1>2
<1>5. \A k \in 1..Len(l) :
        Unbroken(l[k]) /\ \A s \in N : Mentions(l[k], s) => l[k] = s
  BY <1>3, PieceOfName DEF P
<1> QED BY <1>3, <1>4, <1>5 DEF ListOver, P, X

(* An empty field lists no names.                                          *)
LEMMA NoLists ==
  ASSUME NEW N
  PROVE  Lists(<<>>, <<>>, N)
<1> DEFINE at == [k \in 1..1 |-> 1]
<1>1. at \in [1..1 -> Nat] /\ at[1] = 1
  OBVIOUS
<1> DEFINE e == <<>>
<1>2. e \in Seq(Pieces(N)) /\ Len(e) = 0
  OBVIOUS
<1> HIDE DEF at, e
<1>3. Len(e) + 1 = 1 /\ \A k \in 1..Len(e) : FALSE
  BY <1>2
<1>4. Reads(e, e, at)
  BY <1>1, <1>3 DEF Reads
<1>5. \A i, j \in 1..Len(e) : e[i] = e[j] /\ e[i] \in N => i = j
  BY <1>3
<1>6. Lists(e, e, N)
  BY <1>2, <1>4, <1>5 DEF Lists
<1> QED BY <1>6 DEF e

(* The reader returns the list.                                            *)
LEMMA ListsRead ==
  ASSUME NEW S, NEW N, N \subseteq Seq(S), KeptApart(N),
         NEW d \in Seq(S), NEW l, Lists(d, l, N)
  PROVE  Entries(d) = l
<1>1. l \in Seq(Pieces(N))
  BY DEF Lists
<1>2. PICK at : Reads(d, l, at)
  BY DEF Lists
<1>3. ListOver(l, S) /\ \A k \in 1..Len(l) : Unbroken(l[k])
  BY <1>1, ListOfNames
<1> QED BY <1>2, <1>3, EntriesRead

(* A name that str_buf_add accepts, and that fits, is added at the end.    *)
LEMMA AddLists ==
  ASSUME NEW S, NEW N, N \subseteq Seq(S), KeptApart(N), Separator \in S,
         NEW d \in Seq(S), NEW l, Lists(d, l, N),
         NEW s \in N, ~Mentions(d, s),
         NEW size \in Nat, Len(d) + 1 + Len(s) <= size
  PROVE  /\ StrBufAdd(d, s, size) \in Seq(S)
         /\ Lists(StrBufAdd(d, s, size), Append(l, s), N)
         /\ \A i \in 1..Len(l) : l[i] # s
<1> DEFINE g == d \o <<Separator>> \o s
           r == Append(l, s)
<1>1. /\ l \in Seq(Pieces(N))
      /\ \A i, j \in 1..Len(l) : l[i] = l[j] /\ l[i] \in N => i = j
  BY DEF Lists
<1>2. PICK at : Reads(d, l, at)
  BY DEF Lists
<1>3. ListOver(l, S) /\ Len(l) \in Nat
  BY <1>1, ListOfNames
<1>4. s \in Seq(S)
  OBVIOUS
<1>5. /\ g \in Seq(S) /\ Len(g) = Len(d) + 1 + Len(s)
      /\ \E at2 : Reads(g, r, at2)
  BY <1>2, <1>3, <1>4, AddedReads
<1> HIDE DEF g, r
<1>6. StrBufAdd(d, s, size) = g
  <2>1. StrBufAdd(d, s, size) = Fitting(g, size)
    BY DEF StrBufAdd, g
  <2>2. Len(g) \in Nat /\ Len(g) <= size
    BY <1>5
  <2>3. (IF Len(g) < size THEN Len(g) ELSE size) = Len(g)
    BY <2>2
  <2>4. SubSeq(g, 1, Len(g)) = g
    BY <1>5, SubSeqFull
  <2> QED BY <2>1, <2>3, <2>4 DEF Fitting
<1>7. ASSUME NEW k \in 1..Len(l), l[k] = s PROVE FALSE
  <2>1. Mentions(d, l[k])
    BY <1>2, <1>3, EntryFound
  <2> QED BY <1>7, <2>1
<1>8. /\ r \in Seq(Pieces(N)) /\ Len(r) = Len(l) + 1 /\ r[Len(l) + 1] = s
      /\ \A i \in 1..Len(l) : r[i] = l[i]
  <2>1. s \in Pieces(N)
    BY NamesArePieces
  <2> QED BY <1>1, <2>1, AppendProperties DEF r
<1>9. ASSUME NEW i \in 1..Len(r), NEW j \in 1..Len(r), r[i] = r[j], r[i] \in N
      PROVE  i = j
  <2>1. /\ i = Len(l) + 1 \/ i \in 1..Len(l)
        /\ j = Len(l) + 1 \/ j \in 1..Len(l)
    BY <1>3, <1>8
  <2> QED BY <1>1, <1>7, <1>8, <1>9, <2>1
<1>10. Lists(g, r, N)
  BY <1>5, <1>8, <1>9 DEF Lists
<1> QED BY <1>5, <1>6, <1>7, <1>10 DEF r

(* A name that str_buf_rm finds is the one entry that it takes away.       *)
LEMMA RemoveLists ==
  ASSUME NEW S, NEW N, N \subseteq Seq(S), KeptApart(N),
         NEW d \in Seq(S), NEW l, Lists(d, l, N),
         NEW s \in N, Mentions(d, s)
  PROVE  /\ StrBufRm(d, s) \in Seq(S)
         /\ \E e \in 1..Len(l) : l[e] = s /\ Lists(StrBufRm(d, s), Without(l, e), N)
<1>1. /\ l \in Seq(Pieces(N))
      /\ \A i, j \in 1..Len(l) : l[i] = l[j] /\ l[i] \in N => i = j
  BY DEF Lists
<1>2. PICK at : Reads(d, l, at)
  BY DEF Lists
<1>3. /\ ListOver(l, S) /\ Len(l) \in Nat
      /\ \A k \in 1..Len(l) :
           /\ l[k] \in Pieces(N) /\ Unbroken(l[k])
           /\ \A x \in N : Mentions(l[k], x) => l[k] = x
  BY <1>1, ListOfNames
<1>4. s \in Seq(S) /\ s # <<>> /\ Unbroken(s)
  BY DEF KeptApart, Unbroken
<1>5. PICK i \in 1..(Len(d) + 1) : Matches(d, s, i)
  BY DEF Mentions
<1>6. PICK e \in 1..Len(l) : Mentions(l[e], s)
  BY <1>2, <1>3, <1>4, <1>5, FoundInEntry
<1>7. l[e] = s
  BY <1>3, <1>6
<1>8. \A k \in 1..Len(l) : Mentions(l[k], l[e]) => k = e
  <2>1. ASSUME NEW k \in 1..Len(l), Mentions(l[k], l[e]) PROVE k = e
    <3>1. l[k] = s
      BY <1>3, <1>7, <2>1
    <3> QED BY <1>1, <1>7, <3>1
  <2> QED BY <2>1
<1> DEFINE r == Without(l, e)
           g == StrBufRm(d, s)
<1>9. g \in Seq(S) /\ \E at2 : Reads(g, r, at2)
  <2>1. l[e] # <<>> /\ Unbroken(l[e])
    BY <1>4, <1>7
  <2>2. /\ StrBufRm(d, l[e]) \in Seq(S)
        /\ \E at2 : Reads(StrBufRm(d, l[e]), Without(l, e), at2)
    BY <1>2, <1>3, <1>8, <2>1, RemovedReads
  <2> QED BY <1>7, <2>2
<1> DEFINE n == Len(l) - 1
<1>10. r = [j \in 1..n |-> l[IF j < e THEN j ELSE j + 1]] /\ n \in Nat
  BY <1>3 DEF Without
<1> HIDE DEF r, g
<1>11. \A j \in 1..n : (IF j < e THEN j ELSE j + 1) \in 1..Len(l)
  BY <1>3
<1>12. r \in Seq(Pieces(N)) /\ Len(r) = n
  <2>1. \A j \in 1..n : l[IF j < e THEN j ELSE j + 1] \in Pieces(N)
    BY <1>3, <1>11
  <2> HIDE DEF n
  <2>2. r \in [1..n -> Pieces(N)]
    BY <1>10, <2>1
  <2>3. n \in Nat
    BY <1>10
  <2>4. r \in Seq(Pieces(N))
    BY <2>2, <2>3
  <2>5. Len(r) = n
    BY <2>2, <2>3, <2>4, LenProperties
  <2> QED BY <2>4, <2>5
<1>13. ASSUME NEW x \in 1..n, NEW y \in 1..n, r[x] = r[y], r[x] \in N PROVE x = y
  <2>1. /\ l[IF x < e THEN x ELSE x + 1] = l[IF y < e THEN y ELSE y + 1]
        /\ l[IF x < e THEN x ELSE x + 1] \in N
    BY <1>10, <1>13
  <2>2. (IF x < e THEN x ELSE x + 1) = (IF y < e THEN y ELSE y + 1)
    BY <1>1, <1>11, <2>1
  <2> QED BY <1>10, <2>2
<1>14. Lists(g, r, N)
  BY <1>9, <1>12, <1>13 DEF Lists
<1> QED BY <1>7, <1>9, <1>14 DEF r, g

(* A list with one more entry at the end starts with the list.             *)
LEMMA AppendStarts ==
  ASSUME NEW S, NEW l, ListOver(l, S), NEW s \in Seq(S)
  PROVE  Len(l) \in 0..Len(Append(l, s)) /\ l = SubSeq(Append(l, s), 1, Len(l))
<1> DEFINE X == Seq(S)
           n == Len(l)
           r == Append(l, s)
           t == SubSeq(r, 1, n)
<1>1. l \in Seq(X) /\ s \in X /\ n \in Nat
  BY DEF ListOver
<1> HIDE DEF X
<1>2. /\ r \in Seq(X) /\ Len(r) = n + 1
      /\ \A i \in 1..n : r[i] = l[i]
  BY <1>1, AppendProperties
<1> HIDE DEF r
<1>3. \A i \in 1..n : r[i] \in X
  BY <1>1, <1>2
<1>4. t \in Seq(X) /\ Len(t) = n /\ \A i \in 1..n : t[i] = l[i]
  <2>1. 1 \in Int /\ n \in Int
    BY <1>1
  <2>2. /\ t \in Seq(X) /\ Len(t) = IF 1 <= n THEN n - 1 + 1 ELSE 0
        /\ \A i \in 1..(n - 1 + 1) : t[i] = r[1 + i - 1]
    BY <1>3, <2>1, SubSeqProperties
  <2> HIDE DEF t, n
  <2> QED BY <1>1, <1>2, <2>2
<1> HIDE DEF t
<1>5. l = t
  <2>1. Len(l) = Len(t) /\ \A i \in 1..Len(l) : l[i] = t[i]
    BY <1>4
  <2> QED BY <1>1, <1>4, <2>1, SeqEqual
<1>6. n \in 0..Len(r)
  BY <1>1, <1>2
<1> QED BY <1>5, <1>6 DEF t, r, n

(* What is left of a name that is cut off.                                 *)
LEMMA CutOff ==
  ASSUME NEW S, NEW d \in Seq(S), NEW s \in Seq(S), Separator \in S,
         NEW size \in Nat, Len(d) <= size
  PROVE  \/ StrBufAdd(d, s, size) = d
         \/ \E n \in 0..Len(s) :
              StrBufAdd(d, s, size) = d \o <<Separator>> \o SubSeq(s, 1, n)
<1> DEFINE D == Len(d)
           q == <<Separator>>
           u == d \o q
           g == u \o s
           c == IF Len(g) < size THEN Len(g) ELSE size
<1>1. D \in Nat /\ Len(s) \in Nat
  OBVIOUS
<1>2. q \in Seq(S) /\ Len(q) = 1
  OBVIOUS
<1> HIDE DEF q
<1>3. /\ u \in Seq(S) /\ Len(u) = D + 1
      /\ \A i \in 1..D : u[i] = d[i]
  <2>1. /\ u \in Seq(S) /\ Len(u) = D + Len(q)
        /\ \A i \in 1..(D + Len(q)) : u[i] = IF i <= D THEN d[i] ELSE q[i - D]
    BY <1>2, ConcatProperties
  <2> HIDE DEF u, D
  <2>2. \A i \in 1..D : i \in 1..(D + Len(q)) /\ i <= D
    BY <1>1, <1>2
  <2> QED BY <1>2, <2>1, <2>2
<1> HIDE DEF u
<1>4. /\ g \in Seq(S) /\ Len(g) = D + 1 + Len(s)
      /\ \A i \in 1..(D + 1) : g[i] = u[i]
      /\ \A i \in (D + 2)..(D + 1 + Len(s)) : g[i] = s[i - (D + 1)]
  <2>1. /\ g \in Seq(S) /\ Len(g) = Len(u) + Len(s)
        /\ \A i \in 1..(Len(u) + Len(s)) :
             g[i] = IF i <= Len(u) THEN u[i] ELSE s[i - Len(u)]
    BY <1>3, ConcatProperties
  <2> HIDE DEF g, D
  <2>2. \A i \in 1..(D + 1) : i \in 1..(Len(u) + Len(s)) /\ i <= Len(u)
    BY <1>1, <1>3
  <2>3. \A i \in (D + 2)..(D + 1 + Len(s)) :
          i \in 1..(Len(u) + Len(s)) /\ ~(i <= Len(u)) /\ i - Len(u) = i - (D + 1)
    BY <1>1, <1>3
  <2> QED BY <1>1, <1>3, <2>1, <2>2, <2>3
<1>5. StrBufAdd(d, s, size) = SubSeq(g, 1, c)
  BY DEF StrBufAdd, Fitting, u, q
<1> HIDE DEF g
<1>6. c \in Nat /\ D <= c /\ c <= D + 1 + Len(s)
  BY <1>1, <1>4
<1> HIDE DEF c, D
<1> DEFINE t == SubSeq(g, 1, c)
<1>7. t \in Seq(S) /\ Len(t) = c /\ \A i \in 1..c : t[i] = g[i]
  <2>0. \A i \in 1..c : g[i] \in S
    <3>1. \A i \in 1..c : i \in 1..Len(g)
      BY <1>1, <1>4, <1>6
    <3> QED BY <1>4, <3>1
  <2>1. 1 \in Int /\ c \in Int
    BY <1>6
  <2>2. /\ t \in Seq(S) /\ Len(t) = IF 1 <= c THEN c - 1 + 1 ELSE 0
        /\ \A i \in 1..(c - 1 + 1) : t[i] = g[1 + i - 1]
    BY <2>0, <2>1, SubSeqProperties
  <2> HIDE DEF t
  <2> QED BY <1>6, <2>2
<1> HIDE DEF t
<1>8. CASE c = D
  <2>1. \A i \in 1..D : t[i] = d[i]
    <3>1. \A i \in 1..D : i \in 1..(D + 1)
      BY <1>1
    <3> QED BY <1>3, <1>4, <1>7, <1>8, <3>1
  <2>2. t = d
    BY <1>7, <1>8, <2>1, SeqEqual DEF D
  <2> QED BY <1>5, <2>2 DEF t
<1>9. CASE c # D
  <2> DEFINE n == c - (D + 1)
  <2>1. n \in Nat /\ n <= Len(s) /\ c = D + 1 + n
    BY <1>1, <1>6, <1>9
  <2> HIDE DEF n
  <2> DEFINE v == SubSeq(s, 1, n)
             w == u \o v
  <2>2. v \in Seq(S) /\ Len(v) = n /\ \A i \in 1..n : v[i] = s[i]
    <3>0. \A i \in 1..n : s[i] \in S
      BY <2>1
    <3>1. 1 \in Int /\ n \in Int
      BY <2>1
    <3>2. /\ v \in Seq(S) /\ Len(v) = IF 1 <= n THEN n - 1 + 1 ELSE 0
          /\ \A i \in 1..(n - 1 + 1) : v[i] = s[1 + i - 1]
      BY <3>0, <3>1, SubSeqProperties
    <3> HIDE DEF v
    <3> QED BY <2>1, <3>2
  <2> HIDE DEF v
  <2>3. /\ w \in Seq(S) /\ Len(w) = Len(u) + Len(v)
        /\ \A i \in 1..(Len(u) + Len(v)) :
             w[i] = IF i <= Len(u) THEN u[i] ELSE v[i - Len(u)]
    BY <1>3, <2>2, ConcatProperties
  <2> HIDE DEF w
  <2>4. ASSUME NEW i \in 1..c PROVE t[i] = w[i]
    <3>1. i \in 1..(Len(u) + Len(v))
      BY <1>1, <1>3, <2>1, <2>2
    <3>2. CASE i <= D + 1
      <4>1. i \in 1..(D + 1) /\ i <= Len(u)
        BY <1>1, <1>3, <3>2
      <4> QED BY <1>4, <1>7, <2>3, <3>1, <4>1
    <3>3. CASE ~(i <= D + 1)
      <4>1. /\ i \in (D + 2)..(D + 1 + Len(s)) /\ ~(i <= Len(u))
            /\ i - Len(u) = i - (D + 1) /\ i - (D + 1) \in 1..n
        BY <1>1, <1>3, <1>6, <2>1, <3>3
      <4>2. w[i] = v[i - (D + 1)]
        BY <2>3, <3>1, <4>1
      <4> QED BY <1>4, <1>7, <2>2, <4>1, <4>2
    <3> QED BY <3>2, <3>3
  <2>5. Len(w) = c
    BY <1>1, <1>3, <2>1, <2>2, <2>3
  <2>6. t = w
    BY <1>7, <2>3, <2>4, <2>5, SeqEqual
  <2>7. n \in 0..Len(s)
    BY <1>1, <2>1
  <2> QED BY <1>5, <2>6, <2>7 DEF t, w, v, u, q
<1> QED BY <1>8, <1>9

(* List r opens with the entries of l.                                     *)
Opens(l, r) == \E n \in 0..Len(r) : l = SubSeq(r, 1, n)

(* The field lists the entries of l and perhaps some more.                 *)
Spares(d, l, N) == \E r : Lists(d, r, N) /\ Opens(l, r)

(* An add spares the entries that are there, also when its name is cut     *)
(* off: what is left of it is one more entry, or nothing is.               *)
LEMMA AddSpares ==
  ASSUME NEW S, NEW N, N \subseteq Seq(S), KeptApart(N), Separator \in S,
         NEW d \in Seq(S), NEW l, Lists(d, l, N),
         NEW s \in N, ~Mentions(d, s), NEW size \in Nat, Len(d) <= size
  PROVE  Spares(StrBufAdd(d, s, size), l, N)
<1> DEFINE g == StrBufAdd(d, s, size)
<1>1. PICK at : Reads(d, l, at)
  BY DEF Lists
<1>2. /\ l \in Seq(Pieces(N))
      /\ \A i, j \in 1..Len(l) : l[i] = l[j] /\ l[i] \in N => i = j
  BY DEF Lists
<1>3. ListOver(l, S) /\ Len(l) \in Nat
  BY <1>2, ListOfNames
<1>4. s \in Seq(S)
  OBVIOUS
<1>5. CASE g = d
  <2>1. SubSeq(l, 1, Len(l)) = l
    <3> DEFINE X == Seq(S)
    <3>1. l \in Seq(X)
      BY <1>3 DEF ListOver
    <3> HIDE DEF X
    <3> QED BY <3>1, SubSeqFull
  <2>2. Len(l) \in 0..Len(l)
    BY <1>3
  <2>3. Opens(l, l)
    BY <2>1, <2>2 DEF Opens
  <2> HIDE DEF g
  <2>4. Spares(g, l, N)
    BY <1>5, <2>3 DEF Spares
  <2> QED BY <2>4 DEF g
<1>6. ASSUME NEW n \in 0..Len(s), g = d \o <<Separator>> \o SubSeq(s, 1, n)
      PROVE  Spares(g, l, N)
  <2> DEFINE v == SubSeq(s, 1, n)
             r == Append(l, v)
             h == d \o <<Separator>> \o v
  <2>1. v \in Pieces(N)
    <3>1. v \in {SubSeq(s, 1, m) : m \in 0..Len(s)}
      OBVIOUS
    <3> HIDE DEF v
    <3> QED BY <3>1 DEF Pieces
  <2>2. g = h
    BY <1>6
  <2>3. v \in N => v = s
    <3>1. SUFFICES ASSUME v \in N PROVE v = s
      OBVIOUS
    <3>2. Mentions(s, v)
      <4>1. /\ Len(s) \in Nat /\ n \in Nat /\ n <= Len(s)
        OBVIOUS
      <4>2. Len(v) = n /\ \A i \in 1..n : v[i] = s[i]
        <5>1. 1 \in Int /\ n \in Int /\ \A i \in 1..n : s[i] \in S
          BY <4>1
        <5>2. /\ Len(v) = IF 1 <= n THEN n - 1 + 1 ELSE 0
              /\ \A i \in 1..(n - 1 + 1) : v[i] = s[1 + i - 1]
          BY <5>1, SubSeqProperties
        <5> HIDE DEF v
        <5> QED BY <4>1, <5>2
      <4> HIDE DEF v
      <4>3. v \in Seq(S) /\ DOMAIN v = 1..n
        BY <3>1, <4>2
      <4>4. Matches(s, v, 1)
        <5>1. 1 + Len(v) <= Len(s) + 1
          BY <4>1, <4>2
        <5>2. \A j \in DOMAIN v : s[1 + j - 1] = v[j]
          BY <4>2, <4>3
        <5> QED BY <5>1, <5>2 DEF Matches
      <4>5. 1 \in 1..(Len(s) + 1)
        BY <4>1
      <4> QED BY <4>4, <4>5 DEF Mentions
    <3> HIDE DEF v
    <3> QED BY <3>1, <3>2 DEF KeptApart
  <2> HIDE DEF v
  <2>4. v \in Seq(S)
    BY <2>1, PieceOfName
  <2>5. \E at2 : Reads(h, r, at2)
    BY <1>1, <1>3, <2>4, AddedReads
  <2>6. /\ r \in Seq(Pieces(N)) /\ Len(r) = Len(l) + 1 /\ r[Len(l) + 1] = v
        /\ \A i \in 1..Len(l) : r[i] = l[i]
    BY <1>2, <2>1, AppendProperties
  <2>7. Opens(l, r)
    <3>1. Len(l) \in 0..Len(r) /\ l = SubSeq(r, 1, Len(l))
      BY <1>3, <2>4, AppendStarts
    <3> HIDE DEF r
    <3> QED BY <3>1 DEF Opens
  <2> HIDE DEF r, h, g
  <2>8. ASSUME NEW k \in 1..Len(l), l[k] = s PROVE FALSE
    <3>1. Mentions(d, l[k])
      BY <1>1, <1>3, EntryFound
    <3> QED BY <2>8, <3>1
  <2>9. ASSUME NEW i \in 1..Len(r), NEW j \in 1..Len(r), r[i] = r[j], r[i] \in N
        PROVE  i = j
    <3>1. /\ i = Len(l) + 1 \/ i \in 1..Len(l)
          /\ j = Len(l) + 1 \/ j \in 1..Len(l)
      BY <1>3, <2>6
    <3>2. CASE i \in 1..Len(l) /\ j \in 1..Len(l)
      BY <1>2, <2>6, <2>9, <3>2
    <3>3. CASE i \in 1..Len(l) /\ j = Len(l) + 1
      BY <2>3, <2>6, <2>8, <2>9, <3>3
    <3>4. CASE i = Len(l) + 1 /\ j \in 1..Len(l)
      BY <2>3, <2>6, <2>8, <2>9, <3>4
    <3> QED BY <3>1, <3>2, <3>3, <3>4
  <2>10. Lists(h, r, N)
    BY <2>5, <2>6, <2>9 DEF Lists
  <2> QED BY <2>2, <2>7, <2>10 DEF Spares
<1>7. \/ g = d
      \/ \E n \in 0..Len(s) : g = d \o <<Separator>> \o SubSeq(s, 1, n)
  BY <1>4, CutOff
<1>8. Spares(g, l, N)
  <2>1. g = d => Spares(g, l, N)
    BY <1>5
  <2> HIDE DEF g
  <2> QED BY <1>6, <1>7, <2>1
<1> QED BY <1>8

=============================================================================
