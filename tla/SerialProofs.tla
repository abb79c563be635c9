---------------------------- MODULE SerialProofs ----------------------------
(***************************************************************************)
(* Proofs about the serial log, for every size of an int, every format and *)
(* every message: vsprintf() writes what its format asks for, and what is  *)
(* logged comes out whole although kbd_irq() logs between any two accesses *)
(* of the thread to the chip.                                              *)
(***************************************************************************)
EXTENDS Serial, SequenceTheorems, WellFoundedInduction, TLAPS

(***************************************************************************)
(* Induction and recursion.  Properties are sets and definitions are       *)
(* functions, so that the provers can instantiate what is said here.       *)
(***************************************************************************)

LEMMA LessThan ==
  \E R : IsWellFoundedOn(R, Nat) /\ \A a, b \in Nat : a < b => <<a, b>> \in R
<1> DEFINE R == OpToRel(<, Nat)
<1>1. IsWellFoundedOn(R, Nat)
  BY NatLessThanWellFounded
<1>2. \A a, b \in Nat : a < b => <<a, b>> \in R
  BY DEF OpToRel
<1> HIDE DEF R
<1> QED BY <1>1, <1>2

(* A set of numbers has a least one, ...                                   *)
LEMMA Least ==
  ASSUME NEW T, T \subseteq Nat, T # {}
  PROVE  \E n \in T : \A m \in T : n <= m
<1>1. PICK R : IsWellFoundedOn(R, Nat) /\ \A a, b \in Nat : a < b => <<a, b>> \in R
  BY LessThan
<1>2. IsWellFoundedOn(R, Nat)
  BY <1>1
<1>3. PICK x \in T : \A y \in T : ~ (<<y, x>> \in R)
  BY <1>2, WFMin, Zenon
<1>4. x \in Nat /\ \A y \in T : y \in Nat /\ ~ (y < x)
  BY <1>1, <1>3, Zenon
<1> QED BY <1>4

(* ... so that a set with 0 and every successor has all of them.           *)
LEMMA Induction ==
  ASSUME NEW P, 0 \in P, \A n \in Nat : n \in P => n + 1 \in P
  PROVE  \A n \in Nat : n \in P
<1> DEFINE T == Nat \ P
<1>1. CASE T # {}
  <2>1. PICK n \in T : \A m \in T : n <= m
    BY <1>1, Least
  <2>2. n # 0 /\ n - 1 \in Nat
    BY <2>1
  <2>3. n - 1 \in P
    BY <2>1, <2>2
  <2> QED BY <2>1, <2>2, <2>3
<1> QED BY <1>1

(* A definition by recursion from d to prev[d], which is smaller, has a    *)
(* solution.                                                               *)
Solves(f, d, prev, stop, base, step) ==
  f[d] = IF d \in stop THEN base[d] ELSE step[<<d, f[prev[d]]>>]

LEMMA Recursion ==
  ASSUME NEW D, NEW V, NEW size \in [D -> Nat], NEW prev \in [D -> D],
         NEW stop, NEW base \in [D -> V], NEW step \in [D \X V -> V],
         \A d \in D : d \notin stop => size[prev[d]] < size[d]
  PROVE  \E f \in [D -> V] : \A d \in D : Solves(f, d, prev, stop, base, step)
<1> DEFINE S(f, d) == Solves(f, d, prev, stop, base, step)
           Upto(n, f) == f \in [D -> V] /\ \A d \in D : size[d] < n => S(f, d)
<1>1. \A n \in Nat : \E f : Upto(n, f)
  <2> DEFINE P == {n \in Nat : \E f : Upto(n, f)}
  <2>1. 0 \in P
    <3>1. Upto(0, base)
      OBVIOUS
    <3> QED BY <3>1
  <2>2. ASSUME NEW n \in Nat, n \in P PROVE n + 1 \in P
    <3>1. PICK f : Upto(n, f)
      BY <2>2
    <3> DEFINE g == [d \in D |-> IF d \in stop THEN base[d] ELSE step[<<d, f[prev[d]]>>]]
    <3>2. g \in [D -> V]
      BY <3>1
    <3>3. ASSUME NEW d \in D, size[d] < n + 1 PROVE S(g, d)
      <4>1. CASE d \in stop
        BY <4>1 DEF Solves
      <4>2. CASE d \notin stop
        <5>1. prev[d] \in D /\ size[prev[d]] < n
          BY <3>3, <4>2
        <5>2. g[prev[d]] = f[prev[d]]
          BY <3>1, <5>1 DEF Solves
        <5> QED BY <4>2, <5>2 DEF Solves
      <4> QED BY <4>1, <4>2
    <3>4. Upto(n + 1, g)
      BY <3>2, <3>3
    <3> HIDE DEF g
    <3> QED BY <3>4
  <2> HIDE DEF P
  <2>3. \A n \in Nat : n \in P
    BY <2>1, <2>2, Induction
  <2> QED BY <2>3 DEF P
<1>2. ASSUME NEW n \in Nat, NEW m \in Nat, NEW f, NEW g, Upto(n, f), Upto(m, g)
      PROVE  \A d \in D : size[d] < n /\ size[d] < m => f[d] = g[d]
  <2> DEFINE B == {d \in D : size[d] < n /\ size[d] < m /\ f[d] # g[d]}
             T == {size[d] : d \in B}
  <2> SUFFICES ASSUME B # {} PROVE FALSE
    OBVIOUS
  <2>1. PICK i \in T : \A j \in T : i <= j
    <3>1. T \subseteq Nat /\ T # {}
      OBVIOUS
    <3> HIDE DEF T
    <3> QED BY <3>1, Least
  <2>2. PICK d \in B : i = size[d]
    BY <2>1
  <2>3. S(f, d) /\ S(g, d)
    BY <1>2, <2>2
  <2>4. d \notin stop
    BY <2>2, <2>3 DEF Solves
  <2>5. prev[d] \in D /\ size[prev[d]] < size[d] /\ size[prev[d]] \in Nat
    BY <2>2, <2>4
  <2>6. prev[d] \notin B
    <3> SUFFICES ASSUME prev[d] \in B PROVE FALSE
      OBVIOUS
    <3>1. size[prev[d]] \in T
      OBVIOUS
    <3>2. size[d] <= size[prev[d]]
      BY <2>1, <2>2, <3>1
    <3>3. size[d] \in Nat
      BY <2>2
    <3> QED BY <2>5, <3>2, <3>3
  <2>7. f[prev[d]] = g[prev[d]]
    BY <2>2, <2>5, <2>6
  <2> QED BY <2>2, <2>3, <2>4, <2>7 DEF Solves
<1> DEFINE A(n) == CHOOSE f : Upto(n, f)
           F == [d \in D |-> A(size[d] + 1)[d]]
<1>3. \A n \in Nat : Upto(n, A(n))
  BY <1>1
<1> HIDE DEF A
<1>4. F \in [D -> V]
  <2> SUFFICES ASSUME NEW d \in D PROVE A(size[d] + 1)[d] \in V
    OBVIOUS
  <2>1. A(size[d] + 1) \in [D -> V]
    BY <1>3
  <2> QED BY <2>1
<1>5. ASSUME NEW d \in D PROVE S(F, d)
  <2>1. size[d] + 1 \in Nat /\ size[d] < size[d] + 1
    OBVIOUS
  <2>2. S(A(size[d] + 1), d)
    BY <1>3, <2>1
  <2>3. CASE d \in stop
    BY <2>2, <2>3 DEF Solves
  <2>4. CASE d \notin stop
    <3>1. prev[d] \in D /\ size[prev[d]] < size[d] /\ size[prev[d]] + 1 \in Nat
      BY <2>4
    <3>2. /\ size[prev[d]] < size[d] + 1 /\ size[prev[d]] < size[prev[d]] + 1
          /\ Upto(size[prev[d]] + 1, A(size[prev[d]] + 1))
          /\ Upto(size[d] + 1, A(size[d] + 1))
      BY <1>3, <2>1, <3>1
    <3> HIDE DEF Upto
    <3>3. A(size[prev[d]] + 1)[prev[d]] = A(size[d] + 1)[prev[d]]
      BY <1>2, <2>1, <3>1, <3>2
    <3> QED BY <2>2, <2>4, <3>1, <3>3 DEF Solves
  <2> QED BY <2>3, <2>4
<1> HIDE DEF F
<1> QED BY <1>4, <1>5

(***************************************************************************)
(* Sequences of sequences                                                  *)
(***************************************************************************)

(* What FlattenSeq() computes on the way through q.                        *)
Joins(f, q, n) == \A i \in 1 .. n : f[i] = IF i = 1 THEN q[i] ELSE f[i - 1] \o q[i]

LEMMA FlatJoins ==
  ASSUME NEW S, NEW q \in Seq(Seq(S)), Len(q) # 0
  PROVE  \E f : Joins(f, q, Len(q)) /\ FlattenSeq(q) = f[Len(q)]
<1> DEFINE n == Len(q)
           D == 1 .. n
           V == Seq(S)
           size == [i \in D |-> i]
           prev == [i \in D |-> IF i = 1 THEN 1 ELSE i - 1]
           base == [i \in D |-> q[i]]
           step == [iv \in D \X V |-> iv[2] \o q[iv[1]]]
           Def(f) == [i \in D |-> IF i = 1 THEN q[i] ELSE f[i - 1] \o q[i]]
<1>1. n \in Nat /\ \A i \in D : q[i] \in V
  BY ElementOfSeq
<1>2. size \in [D -> Nat] /\ prev \in [D -> D] /\ base \in [D -> V] /\ step \in [D \X V -> V]
  <2>1. size \in [D -> Nat] /\ prev \in [D -> D] /\ base \in [D -> V]
    BY <1>1
  <2>2. \A iv \in D \X V : iv[2] \o q[iv[1]] \in V
    BY <1>1, ConcatProperties
  <2> QED BY <2>1, <2>2
<1>3. \A i \in D : i \notin {1} => size[prev[i]] < size[i]
  BY <1>1
<1>4. PICK f \in [D -> V] : \A i \in D : Solves(f, i, prev, {1}, base, step)
  <2> HIDE DEF D, V, size, prev, base, step
  <2> QED BY <1>2, <1>3, Recursion
<1>5. f = Def(f)
  <2>1. ASSUME NEW i \in D PROVE f[i] = IF i = 1 THEN q[i] ELSE f[i - 1] \o q[i]
    <3>1. Solves(f, i, prev, {1}, base, step)
      BY <1>4
    <3>2. CASE i = 1
      BY <3>1, <3>2 DEF Solves
    <3>3. CASE i # 1
      <4>1. prev[i] = i - 1 /\ i - 1 \in D
        BY <1>1, <3>3
      <4>2. <<i, f[i - 1]>> \in D \X V
        BY <1>4, <4>1
      <4>3. step[<<i, f[i - 1]>>] = f[i - 1] \o q[i]
        BY <4>2
      <4> HIDE DEF step, prev
      <4> QED BY <3>1, <3>3, <4>1, <4>3 DEF Solves
    <3> QED BY <3>2, <3>3
  <2> QED BY <1>4, <2>1
<1> DEFINE g == CHOOSE h : h = Def(h)
<1>6. g = Def(g)
  BY <1>5
<1>7. FlattenSeq(q) = g[n]
  BY DEF FlattenSeq
<1> HIDE DEF g
<1>8. Joins(g, q, n)
  <2> SUFFICES ASSUME NEW i \in D PROVE g[i] = IF i = 1 THEN q[i] ELSE g[i - 1] \o q[i]
    BY DEF Joins
  <2>1. Def(g)[i] = IF i = 1 THEN q[i] ELSE g[i - 1] \o q[i]
    OBVIOUS
  <2> HIDE DEF Def
  <2> QED BY <1>6, <2>1
<1> QED BY <1>7, <1>8

(* From the second member on, a join is the one before and one sequence.   *)
Steps(f, q, n) ==
  \A i \in Nat : i # 0 /\ i + 1 \in 1 .. n => f[i + 1] = f[i] \o q[i + 1]

LEMMA JoinsStep ==
  ASSUME NEW f, NEW q, NEW n \in Nat, Joins(f, q, n)
  PROVE  Steps(f, q, n)
<1> SUFFICES ASSUME NEW i \in Nat, i # 0, i + 1 \in 1 .. n
             PROVE  f[i + 1] = f[i] \o q[i + 1]
  BY DEF Steps
<1>1. f[i + 1] = IF i + 1 = 1 THEN q[i + 1] ELSE f[i + 1 - 1] \o q[i + 1]
  BY DEF Joins
<1>2. i + 1 # 1 /\ i + 1 - 1 = i
  OBVIOUS
<1> QED BY <1>1, <1>2

LEMMA JoinsSame ==
  ASSUME NEW f, NEW g, NEW q, NEW r, NEW n \in Nat,
         Joins(f, q, n), Joins(g, r, n), \A i \in 1 .. n : q[i] = r[i]
  PROVE  \A i \in 1 .. n : f[i] = g[i]
<1> DEFINE P == {i \in Nat : i \in 1 .. n => f[i] = g[i]}
<1>a. Steps(f, q, n)
  BY ONLY n \in Nat, Joins(f, q, n), JoinsStep
<1>b. Steps(g, r, n)
  BY ONLY n \in Nat, Joins(g, r, n), JoinsStep
<1>1. 0 \in P
  OBVIOUS
<1>2. ASSUME NEW i \in Nat, i \in P PROVE i + 1 \in P
  <2> SUFFICES ASSUME i + 1 \in 1 .. n PROVE f[i + 1] = g[i + 1]
    OBVIOUS
  <2>1. CASE i = 0
    BY <2>1 DEF Joins
  <2>2. CASE i # 0
    <3>1. f[i] = g[i]
      BY <1>2, <2>2
    <3>2. f[i + 1] = f[i] \o q[i + 1] /\ g[i + 1] = g[i] \o r[i + 1]
      BY <1>a, <1>b, <2>2 DEF Steps
    <3> QED BY <3>1, <3>2
  <2> QED BY <2>1, <2>2
<1> HIDE DEF P
<1>3. \A i \in Nat : i \in P
  BY <1>1, <1>2, Induction
<1> QED BY <1>3 DEF P

LEMMA JoinsType ==
  ASSUME NEW S, NEW q, NEW n \in Nat, \A i \in 1 .. n : q[i] \in Seq(S),
         NEW f, Joins(f, q, n)
  PROVE  \A i \in 1 .. n : f[i] \in Seq(S)
<1> DEFINE P == {i \in Nat : i \in 1 .. n => f[i] \in Seq(S)}
<1>a. Steps(f, q, n)
  BY ONLY n \in Nat, Joins(f, q, n), JoinsStep
<1>1. 0 \in P
  OBVIOUS
<1>2. ASSUME NEW i \in Nat, i \in P PROVE i + 1 \in P
  <2> SUFFICES ASSUME i + 1 \in 1 .. n PROVE f[i + 1] \in Seq(S)
    OBVIOUS
  <2>1. q[i + 1] \in Seq(S)
    OBVIOUS
  <2>2. CASE i = 0
    BY <2>1, <2>2 DEF Joins
  <2>3. CASE i # 0
    <3>1. f[i] \in Seq(S)
      BY <1>2, <2>3
    <3>2. f[i + 1] = f[i] \o q[i + 1]
      BY <1>a, <2>3 DEF Steps
    <3> QED BY <2>1, <3>1, <3>2, ConcatProperties
  <2> QED BY <2>2, <2>3
<1> HIDE DEF P
<1>3. \A i \in Nat : i \in P
  BY <1>1, <1>2, Induction
<1> QED BY <1>3 DEF P

LEMMA FlatEmpty == FlattenSeq(<<>>) = <<>>
BY DEF FlattenSeq

LEMMA FlatType ==
  ASSUME NEW S, NEW q \in Seq(Seq(S))
  PROVE  FlattenSeq(q) \in Seq(S)
<1>1. CASE Len(q) = 0
  <2>1. q = <<>> /\ <<>> \in Seq(S)
    BY <1>1, EmptySeq
  <2> QED BY <2>1, FlatEmpty
<1>2. CASE Len(q) # 0
  <2>1. PICK f : Joins(f, q, Len(q)) /\ FlattenSeq(q) = f[Len(q)]
    BY <1>2, FlatJoins
  <2>2. \A i \in 1 .. Len(q) : f[i] \in Seq(S)
    <3>1. Len(q) \in Nat /\ \A i \in 1 .. Len(q) : q[i] \in Seq(S)
      BY ElementOfSeq, LenProperties
    <3> QED BY <2>1, <3>1, JoinsType
  <2>3. Len(q) \in 1 .. Len(q)
    BY <1>2, LenProperties
  <2> QED BY <2>1, <2>2, <2>3
<1> QED BY <1>1, <1>2

LEMMA FlatAppend ==
  ASSUME NEW S, NEW q \in Seq(Seq(S)), NEW x \in Seq(S)
  PROVE  FlattenSeq(Append(q, x)) = FlattenSeq(q) \o x
<1> DEFINE r == Append(q, x)
           n == Len(q)
<1>1. /\ r \in Seq(Seq(S)) /\ Len(r) = n + 1 /\ n \in Nat
      /\ \A i \in 1 .. n : r[i] = q[i]
      /\ r[n + 1] = x
  BY AppendProperties, LenProperties
<1> HIDE DEF r
<1>2. PICK g : Joins(g, r, n + 1) /\ FlattenSeq(r) = g[n + 1]
  BY <1>1, FlatJoins
<1>3. CASE n = 0
  <2>1. q = <<>>
    BY <1>3, EmptySeq
  <2>2. g[n + 1] = x
    BY <1>1, <1>2, <1>3 DEF Joins
  <2>3. <<>> \o x = x
    BY ConcatEmptySeq
  <2> QED BY <1>2, <2>1, <2>2, <2>3, FlatEmpty DEF r
<1>4. CASE n # 0
  <2>1. PICK f : Joins(f, q, n) /\ FlattenSeq(q) = f[n]
    BY <1>4, FlatJoins
  <2>2. Joins(g, r, n)
    BY <1>1, <1>2 DEF Joins
  <2>3. \A i \in 1 .. n : f[i] = g[i]
    <3>1. n \in Nat /\ Joins(f, q, n) /\ Joins(g, r, n) /\ \A i \in 1 .. n : q[i] = r[i]
      BY <1>1, <2>1, <2>2
    <3> HIDE DEF n
    <3> QED BY ONLY <3>1, JoinsSame
  <2>4. g[n + 1] = g[n] \o x
    <3>1. n + 1 \in Nat /\ n + 1 \in 1 .. (n + 1)
      BY <1>1
    <3>2. g[n + 1] = g[n] \o r[n + 1]
      <4>1. Steps(g, r, n + 1)
        BY ONLY <1>2, <3>1, JoinsStep
      <4> QED BY <1>1, <1>4, <3>1, <4>1 DEF Steps
    <3> QED BY <1>1, <3>2
  <2>5. n \in 1 .. n
    BY <1>1, <1>4
  <2> QED BY <1>2, <2>1, <2>3, <2>4, <2>5 DEF r
<1> QED BY <1>3, <1>4

(* The same for what the model flattens: the images of a sequence's        *)
(* elements.                                                               *)
Mapped(M, s) == [n \in DOMAIN s |-> M[s[n]]]
Flat(M, s)   == FlattenSeq(Mapped(M, s))
Maps(M, A, S) == M \in [A -> Seq(S)]

LEMMA IsSeq ==
  ASSUME NEW n \in Nat, NEW T, NEW f \in [1 .. n -> T]
  PROVE  f \in Seq(T) /\ Len(f) = n
OBVIOUS

LEMMA MappedType ==
  ASSUME NEW A, NEW S, NEW M, Maps(M, A, S), NEW s \in Seq(A)
  PROVE  Mapped(M, s) \in Seq(Seq(S)) /\ Len(Mapped(M, s)) = Len(s)
<1>1. DOMAIN s = 1 .. Len(s) /\ Len(s) \in Nat /\ \A n \in 1 .. Len(s) : s[n] \in A
  BY LenProperties, ElementOfSeq
<1>2. Mapped(M, s) \in [1 .. Len(s) -> Seq(S)]
  BY <1>1 DEF Mapped, Maps
<1>3. Mapped(M, s) \in Seq(Seq(S)) /\ Len(Mapped(M, s)) = Len(s)
  BY <1>1, <1>2, IsSeq
<1> QED BY <1>3

LEMMA MappedAt ==
  ASSUME NEW A, NEW M, NEW s \in Seq(A), NEW n \in 1 .. Len(s)
  PROVE  Mapped(M, s)[n] = M[s[n]]
BY LenProperties DEF Mapped

LEMMA FlatMapEmpty ==
  ASSUME NEW M PROVE Flat(M, <<>>) = <<>>
<1>1. Mapped(M, <<>>) = <<>>
  BY DEF Mapped
<1> QED BY <1>1, FlatEmpty DEF Flat

LEMMA FlatMapType ==
  ASSUME NEW A, NEW S, NEW M, Maps(M, A, S), NEW s \in Seq(A)
  PROVE  Flat(M, s) \in Seq(S)
BY MappedType, FlatType DEF Flat

LEMMA FlatMapAppend ==
  ASSUME NEW A, NEW S, NEW M, Maps(M, A, S), NEW s \in Seq(A), NEW a \in A
  PROVE  Flat(M, Append(s, a)) = Flat(M, s) \o M[a]
<1>1. ASSUME NEW t \in Seq(A)
      PROVE  /\ Mapped(M, t) \in Seq(Seq(S)) /\ Len(Mapped(M, t)) = Len(t)
             /\ \A n \in 1 .. Len(t) : Mapped(M, t)[n] = M[t[n]]
  <2>1. Mapped(M, t) \in Seq(Seq(S)) /\ Len(Mapped(M, t)) = Len(t)
    BY MappedType
  <2>2. \A n \in 1 .. Len(t) : Mapped(M, t)[n] = M[t[n]]
    BY MappedAt
  <2> QED BY <2>1, <2>2
<1> DEFINE t == Append(s, a)
           u == Append(Mapped(M, s), M[a])
<1>2. t \in Seq(A) /\ Len(t) = Len(s) + 1 /\ Len(s) \in Nat
      /\ (\A n \in 1 .. Len(s) : t[n] = s[n]) /\ t[Len(s) + 1] = a
  BY AppendProperties, LenProperties
<1>3. /\ u \in Seq(Seq(S)) /\ Len(u) = Len(s) + 1
      /\ \A n \in 1 .. Len(s) : u[n] = M[s[n]]
      /\ u[Len(s) + 1] = M[a]
  <2>1. M[a] \in Seq(S)
    BY DEF Maps
  <2> QED BY <1>1, <2>1, AppendProperties
<1> HIDE DEF t, u
<1>4. /\ Mapped(M, t) \in Seq(Seq(S)) /\ Len(Mapped(M, t)) = Len(s) + 1
      /\ \A n \in 1 .. (Len(s) + 1) : Mapped(M, t)[n] = M[t[n]]
  BY <1>1, <1>2
<1>5. ASSUME NEW n \in 1 .. (Len(s) + 1) PROVE Mapped(M, t)[n] = u[n]
  <2>1. CASE n \in 1 .. Len(s)
    BY <1>2, <1>3, <1>4, <2>1
  <2>2. CASE n = Len(s) + 1
    BY <1>2, <1>3, <1>4, <2>2
  <2> QED BY <1>2, <2>1, <2>2
<1>6. Mapped(M, t) = u
  BY <1>3, <1>4, <1>5, SeqEqual
<1>7. FlattenSeq(u) = FlattenSeq(Mapped(M, s)) \o M[a]
  BY <1>1, FlatAppend DEF u, Maps
<1> QED BY <1>6, <1>7 DEF Flat, t

Associates(A) == \A x, y, z \in Seq(A) : (x \o y) \o z = x \o (y \o z)

LEMMA Associative ==
  ASSUME NEW A PROVE Associates(A)
<1> SUFFICES ASSUME NEW x \in Seq(A), NEW y \in Seq(A), NEW z \in Seq(A)
             PROVE  (x \o y) \o z = x \o (y \o z)
  BY DEF Associates
<1> QED BY ConcatAssociative

LEMMA ConsIs ==
  ASSUME NEW A, NEW a \in A, NEW s \in Seq(A)
  PROVE  /\ <<a>> \o s \in Seq(A) /\ Len(<<a>> \o s) = Len(s) + 1
         /\ Head(<<a>> \o s) = a /\ Tail(<<a>> \o s) = s /\ (<<a>> \o s)[1] = a
         /\ \A i \in 1 .. Len(s) : (<<a>> \o s)[i + 1] = s[i]
OBVIOUS

(* Induction over a sequence, from its front.                              *)
LEMMA SeqInduction ==
  ASSUME NEW A, NEW P, <<>> \in P,
         \A s \in Seq(A), a \in A : s \in P => Append(s, a) \in P
  PROVE  \A s \in Seq(A) : s \in P
<1> DEFINE Q == {n \in Nat : \A s \in Seq(A) : Len(s) = n => s \in P}
<1>1. 0 \in Q
  <2> SUFFICES ASSUME NEW s \in Seq(A), Len(s) = 0 PROVE s \in P
    OBVIOUS
  <2>1. s = <<>>
    BY EmptySeq
  <2> QED BY <2>1
<1>2. ASSUME NEW n \in Nat, n \in Q PROVE n + 1 \in Q
  <2> SUFFICES ASSUME NEW s \in Seq(A), Len(s) = n + 1 PROVE s \in P
    OBVIOUS
  <2>1. s # <<>>
    BY EmptySeq
  <2>2. PICK t \in Seq(A), a \in A : s = Append(t, a)
    BY <2>1, SequenceEmptyOrAppend
  <2>3. Len(t) = n
    BY <2>2, AppendProperties, LenProperties
  <2> QED BY <1>2, <2>2, <2>3
<1> HIDE DEF Q
<1>3. \A n \in Nat : n \in Q
  BY <1>1, <1>2, Induction
<1> QED BY <1>3, LenProperties DEF Q

LEMMA AppendConcat ==
  ASSUME NEW A, NEW s \in Seq(A), NEW t \in Seq(A), NEW a \in A
  PROVE  s \o Append(t, a) = Append(s \o t, a)
<1>1. Append(t, a) = t \o <<a>> /\ <<a>> \in Seq(A)
  BY AppendIsConcat
<1>2. s \o t \in Seq(A)
  BY ConcatProperties
<1>3. Append(s \o t, a) = (s \o t) \o <<a>>
  BY <1>2, AppendIsConcat
<1> QED BY <1>1, <1>3, ConcatAssociative

LEMMA FlatMapConcat ==
  ASSUME NEW A, NEW S, NEW M, Maps(M, A, S), NEW s \in Seq(A), NEW t \in Seq(A)
  PROVE  Flat(M, s \o t) = Flat(M, s) \o Flat(M, t)
<1> DEFINE P == {u \in Seq(A) : Flat(M, s \o u) = Flat(M, s) \o Flat(M, u)}
<1>0. \A u \in Seq(A) : Flat(M, u) \in Seq(S)
  BY FlatMapType
<1>1. <<>> \in P
  <2>1. s \o <<>> = s /\ <<>> \in Seq(A)
    BY ConcatEmptySeq
  <2>2. Flat(M, s) \o <<>> = Flat(M, s)
    BY <1>0, ConcatEmptySeq
  <2> QED BY <2>1, <2>2, FlatMapEmpty
<1>2. ASSUME NEW u \in Seq(A), NEW a \in A, u \in P PROVE Append(u, a) \in P
  <2>1. s \o Append(u, a) = Append(s \o u, a) /\ s \o u \in Seq(A) /\ Append(u, a) \in Seq(A)
    BY AppendConcat, ConcatProperties
  <2>2. Flat(M, Append(s \o u, a)) = Flat(M, s \o u) \o M[a]
    <3>1. \A v \in Seq(A) : Flat(M, Append(v, a)) = Flat(M, v) \o M[a]
      BY FlatMapAppend
    <3> QED BY <2>1, <3>1
  <2>3. Flat(M, Append(u, a)) = Flat(M, u) \o M[a]
    BY FlatMapAppend
  <2>4. M[a] \in Seq(S)
    BY DEF Maps
  <2>5. (Flat(M, s) \o Flat(M, u)) \o M[a] = Flat(M, s) \o (Flat(M, u) \o M[a])
    <3>1. Associates(S)
      BY Associative
    <3>2. Flat(M, s) \in Seq(S) /\ Flat(M, u) \in Seq(S)
      BY <1>0
    <3> QED BY ONLY <2>4, <3>1, <3>2 DEF Associates
  <2> QED BY <1>2, <2>1, <2>2, <2>3, <2>5
<1> HIDE DEF P
<1>3. \A u \in Seq(A) : u \in P
  BY <1>1, <1>2, SeqInduction
<1> QED BY <1>3 DEF P

(* The same, of all sequences at once.                                     *)
Distributes(M, A) ==
  \A s, t \in Seq(A) : Flat(M, s \o t) = Flat(M, s) \o Flat(M, t)

LEMMA FlatMapDistributes ==
  ASSUME NEW A, NEW S, NEW M, Maps(M, A, S)
  PROVE  Distributes(M, A)
<1> SUFFICES ASSUME NEW s \in Seq(A), NEW t \in Seq(A)
             PROVE  Flat(M, s \o t) = Flat(M, s) \o Flat(M, t)
  BY DEF Distributes
<1> QED BY FlatMapConcat

LEMMA FlatMapOne ==
  ASSUME NEW A, NEW S, NEW M, Maps(M, A, S), NEW a \in A
  PROVE  Flat(M, <<a>>) = M[a]
<1>1. <<>> \in Seq(A) /\ Append(<<>>, a) = <<a>>
  OBVIOUS
<1>2. Flat(M, Append(<<>>, a)) = Flat(M, <<>>) \o M[a]
  BY <1>1, FlatMapAppend
<1>3. M[a] \in Seq(S)
  BY DEF Maps
<1>4. <<>> \o M[a] = M[a]
  BY <1>3, ConcatEmptySeq
<1> QED BY <1>1, <1>2, <1>4, FlatMapEmpty

LEMMA FlatMapCons ==
  ASSUME NEW A, NEW S, NEW M, Maps(M, A, S), NEW s \in Seq(A), s # <<>>
  PROVE  Flat(M, s) = M[Head(s)] \o Flat(M, Tail(s))
<1>1. Head(s) \in A /\ Tail(s) \in Seq(A) /\ <<Head(s)>> \in Seq(A)
  BY HeadTailProperties
<1>2. s = <<Head(s)>> \o Tail(s)
  <2>1. Len(s) \in Nat \ {0} /\ Head(s) = s[1]
    BY EmptySeq
  <2>2. SubSeq(s, 1, Len(s)) = <<s[1]>> \o SubSeq(s, 1 + 1, Len(s))
    BY <2>1, SubSeqRecursiveFirst
  <2>3. SubSeq(s, 1, Len(s)) = s
    BY SubSeqFull
  <2>4. Tail(s) = SubSeq(s, 1 + 1, Len(s))
    BY TailIsSubSeq
  <2> QED BY <2>1, <2>2, <2>3, <2>4
<1>3. Flat(M, <<Head(s)>> \o Tail(s)) = Flat(M, <<Head(s)>>) \o Flat(M, Tail(s))
  <2>1. \A x, y \in Seq(A) : Flat(M, x \o y) = Flat(M, x) \o Flat(M, y)
    BY FlatMapConcat
  <2> QED BY <1>1, <2>1
<1>4. Flat(M, <<Head(s)>>) = M[Head(s)]
  BY <1>1, FlatMapOne
<1> QED BY <1>2, <1>3, <1>4

(***************************************************************************)
(* The conversions                                                         *)
(***************************************************************************)

LEMMA DivMod ==
  ASSUME NEW n \in Nat, NEW m \in Nat \ {0}
  PROVE  /\ n \div m \in Nat /\ m * (n \div m) <= n /\ n < m * (n \div m) + m
         /\ n % m = n - m * (n \div m) /\ n % m \in 0 .. (m - 1)
OBVIOUS

LEMMA DivIs ==
  ASSUME NEW n \in Nat, NEW m \in Nat \ {0}, NEW q \in Nat, m * q <= n, n < m * q + m
  PROVE  n \div m = q
OBVIOUS

LEMMA DivDiv ==
  ASSUME NEW n \in Nat, NEW b \in Nat \ {0}, NEW m \in Nat \ {0}
  PROVE  (n \div b) \div m = n \div (b * m)
<1>1. b * m \in Nat \ {0}
  OBVIOUS
<1> DEFINE q == n \div b
           r == q \div m
<1>2. q \in Nat /\ b * q <= n /\ n < b * q + b
  BY DivMod
<1>3. r \in Nat /\ m * r <= q /\ q < m * r + m
  BY <1>2, DivMod
<1> HIDE DEF q, r
<1>4. q + 1 <= m * (r + 1)
  BY <1>2, <1>3
<1>5. (b * m) * r <= n /\ n < (b * m) * r + b * m
  BY <1>2, <1>3, <1>4
<1> QED BY <1>1, <1>3, <1>5, DivIs DEF q, r

(* Powers, by the definition's recursion.                                  *)
LEMMA PowerDef ==
  ASSUME NEW b \in Nat
  PROVE  /\ \A k \in Nat : Power(b, k) \in Nat
         /\ Power(b, 0) = 1
         /\ \A k \in Nat : Power(b, k + 1) = b * Power(b, k)
<1> DEFINE size == [j \in Nat |-> j]
           prev == [j \in Nat |-> IF j = 0 THEN 0 ELSE j - 1]
           base == [j \in Nat |-> 1]
           step == [jv \in Nat \X Nat |-> b * jv[2]]
           Def(f) == [j \in Nat |-> IF j = 0 THEN 1 ELSE b * f[j - 1]]
<1>1. size \in [Nat -> Nat] /\ prev \in [Nat -> Nat] /\ base \in [Nat -> Nat]
  OBVIOUS
<1>2. step \in [Nat \X Nat -> Nat]
  <2>1. \A v \in Nat : b * v \in Nat
    OBVIOUS
  <2> QED BY <2>1
<1>3. \A i \in Nat : i \notin {0} => size[prev[i]] < size[i]
  OBVIOUS
<1>4. PICK f \in [Nat -> Nat] : \A i \in Nat : Solves(f, i, prev, {0}, base, step)
  <2> HIDE DEF size, prev, base, step
  <2> QED BY <1>1, <1>2, <1>3, Recursion
<1>5. f = Def(f)
  <2>1. ASSUME NEW i \in Nat PROVE f[i] = IF i = 0 THEN 1 ELSE b * f[i - 1]
    <3>1. Solves(f, i, prev, {0}, base, step)
      BY <1>4
    <3> QED BY <3>1 DEF Solves
  <2> QED BY <1>4, <2>1
<1> DEFINE g == CHOOSE h : h = Def(h)
<1>6. g = Def(g)
  BY <1>5
<1>7. \A k \in Nat : Power(b, k) = g[k]
  BY DEF Power
<1> HIDE DEF g
<1>8. ASSUME NEW k \in Nat PROVE g[k] = IF k = 0 THEN 1 ELSE b * g[k - 1]
  <2>1. Def(g)[k] = IF k = 0 THEN 1 ELSE b * g[k - 1]
    OBVIOUS
  <2> HIDE DEF Def
  <2> QED BY <1>6, <2>1
<1>9. g[0] = 1 /\ \A k \in Nat : g[k + 1] = b * g[k]
  BY <1>8
<1>10. \A k \in Nat : g[k] \in Nat
  <2> DEFINE P == {k \in Nat : g[k] \in Nat}
  <2>1. 0 \in P
    BY <1>9
  <2>2. ASSUME NEW k \in Nat, k \in P PROVE k + 1 \in P
    BY <1>9, <2>2
  <2> HIDE DEF P
  <2>3. \A k \in Nat : k \in P
    BY <2>1, <2>2, Induction
  <2> QED BY <2>3 DEF P
<1> QED BY <1>7, <1>9, <1>10

LEMMA PowerGrows ==
  ASSUME NEW b \in Nat, b >= 2
  PROVE  /\ \A k \in Nat : k < Power(b, k)
         /\ \A k, m \in Nat : k <= m => Power(b, k) <= Power(b, m)
<1>1. /\ \A k \in Nat : Power(b, k) \in Nat
      /\ Power(b, 0) = 1
      /\ \A k \in Nat : Power(b, k + 1) = b * Power(b, k)
  BY PowerDef
<1>2. \A k \in Nat : k < Power(b, k)
  <2> DEFINE P == {k \in Nat : k < Power(b, k)}
  <2>1. 0 \in P
    BY <1>1
  <2>2. ASSUME NEW k \in Nat, k \in P PROVE k + 1 \in P
    <3>1. k < Power(b, k) /\ Power(b, k) \in Nat /\ Power(b, k + 1) = b * Power(b, k)
      BY <1>1, <2>2
    <3>2. \A v \in Nat : b * v >= 2 * v
      OBVIOUS
    <3> QED BY <3>1, <3>2
  <2> HIDE DEF P
  <2>3. \A k \in Nat : k \in P
    BY <2>1, <2>2, Induction
  <2> QED BY <2>3 DEF P
<1>3. ASSUME NEW k \in Nat PROVE \A m \in Nat : Power(b, k) <= Power(b, k + m)
  <2> DEFINE P == {m \in Nat : Power(b, k) <= Power(b, k + m)}
  <2>1. 0 \in P
    BY <1>1
  <2>2. ASSUME NEW m \in Nat, m \in P PROVE m + 1 \in P
    <3>1. /\ Power(b, k) <= Power(b, k + m) /\ Power(b, k) \in Nat /\ Power(b, k + m) \in Nat
          /\ Power(b, k + m + 1) = b * Power(b, k + m) /\ k + (m + 1) = k + m + 1
      BY <1>1, <2>2
    <3>2. \A v \in Nat : b * v >= v /\ b * v \in Nat
      OBVIOUS
    <3> QED BY <3>1, <3>2
  <2> HIDE DEF P
  <2>3. \A m \in Nat : m \in P
    BY <2>1, <2>2, Induction
  <2> QED BY <2>3 DEF P
<1>4. ASSUME NEW k \in Nat, NEW m \in Nat, k <= m PROVE Power(b, k) <= Power(b, m)
  <2>1. m - k \in Nat /\ k + (m - k) = m
    BY <1>4
  <2> QED BY <1>3, <2>1
<1> QED BY <1>2, <1>4

(* How many digits a number has: there is one such number of digits.       *)
IsPlaces(n, b, k) == n < Power(b, k) /\ (k = 1 \/ Power(b, k - 1) <= n)
Places(n, b)      == CHOOSE k \in 1 .. (n + 1) : IsPlaces(n, b, k)

LEMMA NumeralPlaces ==
  ASSUME NEW n, NEW b
  PROVE  Numeral(n, b) =
           [j \in 1 .. Places(n, b) |-> hex_lookup((n \div Power(b, Places(n, b) - j)) % b)]
BY DEF Numeral, Places, IsPlaces

LEMMA PlacesAre ==
  ASSUME NEW n \in Nat, NEW b \in Nat, b >= 2, NEW k \in Nat \ {0}, IsPlaces(n, b, k)
  PROVE  Places(n, b) = k
<1>1. \A i \in Nat : Power(b, i) \in Nat
  BY PowerDef
<1>2. \A i \in Nat : i < Power(b, i)
  BY PowerGrows
<1>3. \A i, m \in Nat : i <= m => Power(b, i) <= Power(b, m)
  BY PowerGrows
<1>4. k \in 1 .. (n + 1)
  <2>1. CASE k = 1
    BY <2>1
  <2>2. CASE k # 1
    <3>1. k - 1 \in Nat /\ Power(b, k - 1) <= n
      BY <2>2 DEF IsPlaces
    <3>2. k - 1 < Power(b, k - 1) /\ Power(b, k - 1) \in Nat
      BY <1>1, <1>2, <3>1
    <3> QED BY <3>1, <3>2
  <2> QED BY <2>1, <2>2
<1>5. ASSUME NEW i \in Nat \ {0}, NEW m \in Nat \ {0}, IsPlaces(n, b, i), IsPlaces(n, b, m), i < m
      PROVE  FALSE
  <2>1. m # 1 /\ m - 1 \in Nat /\ i <= m - 1
    BY <1>5
  <2>2. Power(b, i) <= Power(b, m - 1) /\ Power(b, i) \in Nat /\ Power(b, m - 1) \in Nat
    BY <1>1, <1>3, <2>1
  <2> QED BY <1>5, <2>1, <2>2 DEF IsPlaces
<1>6. \A i \in 1 .. (n + 1) : IsPlaces(n, b, i) => i = k
  <2> SUFFICES ASSUME NEW i \in 1 .. (n + 1), IsPlaces(n, b, i), i # k PROVE FALSE
    OBVIOUS
  <2>1. i < k \/ k < i
    OBVIOUS
  <2> QED BY <1>5, <2>1
<1> QED BY <1>4, <1>6 DEF Places

LEMMA PlacesExist ==
  ASSUME NEW n \in Nat, NEW b \in Nat, b >= 2
  PROVE  Places(n, b) \in Nat \ {0} /\ IsPlaces(n, b, Places(n, b))
<1>1. \A i \in Nat : Power(b, i) \in Nat
  BY PowerDef
<1>2. \A i \in Nat : i < Power(b, i)
  BY PowerGrows
<1> DEFINE T == {k \in Nat : k # 0 /\ n < Power(b, k)}
<1>3. n + 1 \in T
  <2>1. n + 1 < Power(b, n + 1) /\ Power(b, n + 1) \in Nat
    BY <1>1, <1>2
  <2> QED BY <2>1
<1>4. PICK k \in T : \A m \in T : k <= m
  <2>1. T \subseteq Nat /\ T # {}
    BY <1>3
  <2> HIDE DEF T
  <2> QED BY <2>1, Least
<1>5. k \in Nat \ {0} /\ n < Power(b, k)
  BY <1>4
<1>6. k = 1 \/ Power(b, k - 1) <= n
  <2> SUFFICES ASSUME k # 1, ~ (Power(b, k - 1) <= n) PROVE FALSE
    OBVIOUS
  <2>1. k - 1 \in Nat /\ k - 1 # 0 /\ Power(b, k - 1) \in Nat
    BY <1>1, <1>5
  <2>2. k - 1 \in T
    BY <2>1
  <2>3. k <= k - 1
    BY <1>4, <2>2
  <2> QED BY <1>5, <2>3
<1>7. IsPlaces(n, b, k)
  BY <1>5, <1>6 DEF IsPlaces
<1>8. Places(n, b) = k
  BY <1>5, <1>7, PlacesAre
<1> QED BY <1>5, <1>7, <1>8

LEMMA PlacesLow ==
  ASSUME NEW b \in Nat, b >= 2, NEW n \in 0 .. (b - 1)
  PROVE  Places(n, b) = 1
<1>1. Power(b, 0 + 1) = b * Power(b, 0) /\ Power(b, 0) = 1
  BY PowerDef
<1>2. IsPlaces(n, b, 1)
  BY <1>1 DEF IsPlaces
<1> QED BY <1>2, PlacesAre

LEMMA PlacesHigh ==
  ASSUME NEW b \in Nat, b >= 2, NEW n \in Nat, n >= b
  PROVE  Places(n, b) = Places(n \div b, b) + 1
<1> DEFINE q == n \div b
<1>1. q \in Nat /\ b * q <= n /\ n < b * q + b
  BY DivMod
<1> HIDE DEF q
<1>2. PICK k \in Nat \ {0} : k = Places(q, b) /\ IsPlaces(q, b, k)
  BY <1>1, PlacesExist
<1>3. /\ \A i \in Nat : Power(b, i) \in Nat
      /\ \A i \in Nat : Power(b, i + 1) = b * Power(b, i)
      /\ Power(b, 0) = 1
  BY PowerDef
<1>4. n < Power(b, k + 1)
  <2>1. q + 1 <= Power(b, k) /\ Power(b, k) \in Nat /\ Power(b, k + 1) = b * Power(b, k)
    BY <1>1, <1>2, <1>3 DEF IsPlaces
  <2>2. b * (q + 1) <= b * Power(b, k)
    BY <1>1, <2>1
  <2> QED BY <1>1, <2>1, <2>2
<1>5. Power(b, k) <= n
  <2>1. CASE k = 1
    <3>1. Power(b, 0 + 1) = b * Power(b, 0)
      BY <1>3
    <3> QED BY <1>3, <2>1, <3>1
  <2>2. CASE k # 1
    <3>1. k - 1 \in Nat /\ Power(b, k - 1) <= q
      BY <1>2, <2>2 DEF IsPlaces
    <3>2. Power(b, k - 1) \in Nat /\ Power(b, (k - 1) + 1) = b * Power(b, k - 1) /\ (k - 1) + 1 = k
      BY <1>3, <3>1
    <3>3. b * Power(b, k - 1) <= b * q
      BY <1>1, <3>1, <3>2
    <3> QED BY <1>1, <3>2, <3>3
  <2> QED BY <2>1, <2>2
<1>6. IsPlaces(n, b, k + 1)
  <2>1. (k + 1) - 1 = k
    OBVIOUS
  <2> QED BY <1>4, <1>5, <2>1 DEF IsPlaces
<1>7. Places(n, b) = k + 1
  BY <1>6, PlacesAre
<1> QED BY <1>2, <1>7 DEF q

LEMMA PowerPositive ==
  ASSUME NEW b \in Nat, b >= 2, NEW k \in Nat
  PROVE  Power(b, k) \in Nat \ {0}
<1>1. Power(b, k) \in Nat /\ k < Power(b, k)
  BY PowerDef, PowerGrows
<1> QED BY <1>1

(* The digit of a place.                                                   *)
Digit(n, b, k) == hex_lookup((n \div Power(b, k)) % b)

LEMMA DigitType ==
  ASSUME NEW n \in Nat, NEW b \in Nat, b >= 2, NEW k \in Nat
  PROVE  (n \div Power(b, k)) % b \in 0 .. (b - 1) /\ Digit(n, b, k) \in Nat
<1>1. Power(b, k) \in Nat \ {0}
  BY PowerPositive
<1>2. n \div Power(b, k) \in Nat
  BY <1>1, DivMod
<1>3. (n \div Power(b, k)) % b \in 0 .. (b - 1)
  <2>1. \A m \in Nat : m % b \in 0 .. (b - 1)
    BY DivMod
  <2> QED BY <1>2, <2>1
<1> QED BY <1>3 DEF Digit, hex_lookup, ZERO, HEXA

LEMMA NumeralType ==
  ASSUME NEW n \in Nat, NEW b \in Nat, b >= 2
  PROVE  /\ Numeral(n, b) \in Seq(Nat) /\ Len(Numeral(n, b)) = Places(n, b)
         /\ \A j \in 1 .. Places(n, b) : Numeral(n, b)[j] = Digit(n, b, Places(n, b) - j)
<1>1. Places(n, b) \in Nat
  BY PlacesExist
<1>2. Numeral(n, b) = [j \in 1 .. Places(n, b) |-> Digit(n, b, Places(n, b) - j)]
  BY NumeralPlaces DEF Digit
<1>3. \A j \in 1 .. Places(n, b) : Digit(n, b, Places(n, b) - j) \in Nat
  <2> SUFFICES ASSUME NEW j \in 1 .. Places(n, b) PROVE Digit(n, b, Places(n, b) - j) \in Nat
    OBVIOUS
  <2>1. Places(n, b) - j \in Nat
    BY <1>1
  <2> QED BY <2>1, DigitType
<1>4. Numeral(n, b) \in [1 .. Places(n, b) -> Nat]
  BY <1>2, <1>3
<1>5. Numeral(n, b) \in Seq(Nat) /\ Len(Numeral(n, b)) = Places(n, b)
  BY <1>1, <1>4, IsSeq
<1>6. \A j \in 1 .. Places(n, b) : Numeral(n, b)[j] = Digit(n, b, Places(n, b) - j)
  BY <1>2
<1> QED BY <1>5, <1>6

LEMMA NumeralLow ==
  ASSUME NEW b \in Nat, b >= 2, NEW n \in 0 .. (b - 1)
  PROVE  Numeral(n, b) = <<hex_lookup(n)>>
<1>1. Places(n, b) = 1
  BY PlacesLow
<1>2. /\ Numeral(n, b) \in Seq(Nat) /\ Len(Numeral(n, b)) = 1
      /\ Numeral(n, b)[1] = Digit(n, b, 1 - 1)
  <2>1. /\ Numeral(n, b) \in Seq(Nat) /\ Len(Numeral(n, b)) = Places(n, b)
        /\ \A j \in 1 .. Places(n, b) : Numeral(n, b)[j] = Digit(n, b, Places(n, b) - j)
    BY NumeralType
  <2> QED BY <1>1, <2>1
<1>3. Power(b, 1 - 1) = 1
  BY PowerDef
<1>4. Digit(n, b, 1 - 1) = hex_lookup((n \div 1) % b)
  BY <1>3 DEF Digit
<1>5. (n \div 1) % b = n
  OBVIOUS
<1> HIDE DEF Digit
<1>6. Numeral(n, b)[1] = hex_lookup(n)
  BY <1>2, <1>4, <1>5
<1> QED BY <1>2, <1>6

LEMMA NumeralHigh ==
  ASSUME NEW b \in Nat, b >= 2, NEW n \in Nat, n >= b
  PROVE  Numeral(n, b) = Append(Numeral(n \div b, b), hex_lookup(n % b))
<1> DEFINE q == n \div b
           k == Places(q, b)
           u == Append(Numeral(q, b), hex_lookup(n % b))
<1>1. q \in Nat
  BY DivMod
<1>2. k \in Nat /\ Places(n, b) = k + 1
  BY <1>1, PlacesExist, PlacesHigh
<1>3. /\ Numeral(q, b) \in Seq(Nat) /\ Len(Numeral(q, b)) = k
      /\ \A j \in 1 .. k : Numeral(q, b)[j] = Digit(q, b, k - j)
  BY <1>1, NumeralType
<1>4. hex_lookup(n % b) \in Nat
  BY DivMod DEF hex_lookup, ZERO, HEXA
<1>5. /\ Numeral(n, b) \in Seq(Nat) /\ Len(Numeral(n, b)) = k + 1
      /\ \A j \in 1 .. (k + 1) : Numeral(n, b)[j] = Digit(n, b, k + 1 - j)
  <2>1. /\ Numeral(n, b) \in Seq(Nat) /\ Len(Numeral(n, b)) = Places(n, b)
        /\ \A j \in 1 .. Places(n, b) : Numeral(n, b)[j] = Digit(n, b, Places(n, b) - j)
    BY NumeralType
  <2> QED BY <1>2, <2>1
<1>6. /\ u \in Seq(Nat) /\ Len(u) = k + 1
      /\ \A j \in 1 .. k : u[j] = Digit(q, b, k - j)
      /\ u[k + 1] = hex_lookup(n % b)
  BY <1>3, <1>4, AppendProperties
<1>7. ASSUME NEW j \in 1 .. k PROVE Digit(n, b, k + 1 - j) = Digit(q, b, k - j)
  <2>1. k - j \in Nat /\ k + 1 - j = (k - j) + 1
    BY <1>2
  <2>2. Power(b, (k - j) + 1) = b * Power(b, k - j)
    BY <2>1, PowerDef
  <2>3. Power(b, k - j) \in Nat \ {0}
    BY <2>1, PowerPositive
  <2>4. q \div Power(b, k - j) = n \div (b * Power(b, k - j))
    BY <2>3, DivDiv
  <2> HIDE DEF q, k
  <2> QED BY <2>1, <2>2, <2>4 DEF Digit
<1>8. Digit(n, b, k + 1 - (k + 1)) = hex_lookup(n % b)
  <2>1. k + 1 - (k + 1) = 0
    BY <1>2
  <2>2. Power(b, 0) = 1 /\ n \div 1 = n
    BY PowerDef
  <2> HIDE DEF k
  <2> QED BY <2>1, <2>2 DEF Digit
<1> HIDE DEF q, k, u
<1>9. ASSUME NEW j \in 1 .. (k + 1) PROVE Numeral(n, b)[j] = u[j]
  <2>1. CASE j \in 1 .. k
    BY <1>5, <1>6, <1>7, <2>1
  <2>2. CASE j = k + 1
    BY <1>2, <1>5, <1>6, <1>8, <2>2
  <2> QED BY <1>2, <2>1, <2>2
<1>10. Numeral(n, b) = u
  BY <1>5, <1>6, <1>9, SeqEqual
<1> QED BY <1>10 DEF u, q

LEMMA QuotRem ==
  ASSUME NEW k \in Int
  PROVE  /\ Quot(k, 10) \in Int /\ Rem(k, 10) + ZERO \in Nat
         /\ k \in Nat => Quot(k, 10) = k \div 10 /\ Rem(k, 10) = k % 10
         /\ k \in Nat /\ k < 10 => Quot(k, 10) = 0
BY DEF Quot, Rem, ZERO

LEMMA DigitsDef ==
  ASSUME NEW n \in Int
  PROVE  /\ Digits(n) \in Seq(Nat)
         /\ Digits(n) = <<Rem(n, 10) + ZERO>>
                        \o (IF Quot(n, 10) = 0 THEN <<>> ELSE Digits(Quot(n, 10)))
<1> DEFINE V == Seq(Nat)
           size == [k \in Int |-> IF k < 0 THEN -k ELSE k]
           prev == [k \in Int |-> Quot(k, 10)]
           stop == {k \in Int : Quot(k, 10) = 0}
           one(k) == <<Rem(k, 10) + ZERO>>
           base == [k \in Int |-> one(k)]
           step == [kv \in Int \X V |-> one(kv[1]) \o kv[2]]
           Def(f) == [k \in Int |-> one(k) \o (IF Quot(k, 10) = 0 THEN <<>> ELSE f[Quot(k, 10)])]
<1>1. \A k \in Int : Quot(k, 10) \in Int /\ one(k) \in V
  BY QuotRem
<1>2. size \in [Int -> Nat] /\ prev \in [Int -> Int] /\ base \in [Int -> V]
  BY <1>1
<1>3. step \in [Int \X V -> V]
  <2>1. \A k \in Int, v \in V : one(k) \o v \in V
    BY <1>1, ConcatProperties
  <2> HIDE DEF one, V
  <2> QED BY <2>1
<1>4. \A k \in Int : k \notin stop => size[prev[k]] < size[k]
  BY DEF Quot
<1>5. PICK f \in [Int -> V] : \A k \in Int : Solves(f, k, prev, stop, base, step)
  <2> HIDE DEF V, size, prev, stop, base, step
  <2> QED BY <1>2, <1>3, <1>4, Recursion
<1>6. f = Def(f)
  <2>1. ASSUME NEW k \in Int
        PROVE  f[k] = one(k) \o (IF Quot(k, 10) = 0 THEN <<>> ELSE f[Quot(k, 10)])
    <3>1. Solves(f, k, prev, stop, base, step)
      BY <1>5
    <3>2. CASE Quot(k, 10) = 0
      <4>1. k \in stop /\ base[k] = one(k)
        BY <3>2
      <4>2. one(k) \o <<>> = one(k)
        BY <1>1, ConcatEmptySeq
      <4> HIDE DEF one, stop, base, prev, step
      <4> QED BY <3>1, <3>2, <4>1, <4>2 DEF Solves
    <3>3. CASE Quot(k, 10) # 0
      <4>1. k \notin stop /\ prev[k] = Quot(k, 10)
        BY <3>3
      <4>2. <<k, f[Quot(k, 10)]>> \in Int \X V
        BY <1>1, <1>5
      <4>3. step[<<k, f[Quot(k, 10)]>>] = one(k) \o f[Quot(k, 10)]
        BY <4>2
      <4> HIDE DEF one, stop, base, prev, step
      <4> QED BY <3>1, <3>3, <4>1, <4>3 DEF Solves
    <3> QED BY <3>2, <3>3
  <2> HIDE DEF one
  <2> QED BY <1>5, <2>1
<1> DEFINE g == CHOOSE h : h = Def(h)
<1>7. g = Def(g)
  BY <1>6
<1>8. \A k \in Int : Digits(k) = g[k]
  BY DEF Digits
<1> HIDE DEF g
<1>9. ASSUME NEW k \in Int
      PROVE  g[k] = one(k) \o (IF Quot(k, 10) = 0 THEN <<>> ELSE g[Quot(k, 10)])
  <2>1. Def(g)[k] = one(k) \o (IF Quot(k, 10) = 0 THEN <<>> ELSE g[Quot(k, 10)])
    OBVIOUS
  <2> HIDE DEF Def, one
  <2> QED BY <1>7, <2>1
<1>10. \A k \in Int : g[k] \in V
  <2> DEFINE B == {k \in Int : g[k] \notin V}
             T == {size[k] : k \in B}
  <2> SUFFICES ASSUME B # {} PROVE FALSE
    OBVIOUS
  <2>1. PICK i \in T : \A j \in T : i <= j
    <3>1. T \subseteq Nat /\ T # {}
      BY <1>2
    <3> HIDE DEF T
    <3> QED BY <3>1, Least
  <2>2. PICK k \in B : i = size[k]
    BY <2>1
  <2>3. \A m \in B : size[k] <= size[m]
    BY <2>1, <2>2
  <2>4. k \notin stop
    <3> SUFFICES ASSUME Quot(k, 10) = 0 PROVE FALSE
      OBVIOUS
    <3>1. g[k] = one(k) \o <<>>
      BY <1>9, <2>2
    <3>2. one(k) \o <<>> = one(k) /\ one(k) \in V
      BY <1>1, <2>2, ConcatEmptySeq
    <3> HIDE DEF one
    <3> QED BY <2>2, <3>1, <3>2
  <2>5. Quot(k, 10) \notin B
    <3>1. size[Quot(k, 10)] < size[k] /\ size[Quot(k, 10)] \in Nat /\ size[k] \in Nat
      BY <1>1, <1>2, <1>4, <2>2, <2>4
    <3> SUFFICES ASSUME Quot(k, 10) \in B PROVE FALSE
      OBVIOUS
    <3>2. size[k] <= size[Quot(k, 10)]
      BY <2>3
    <3> HIDE DEF size, B, T, V
    <3> QED BY ONLY <3>1, <3>2
  <2>6. g[Quot(k, 10)] \in V
    BY <1>1, <2>2, <2>5
  <2>7. g[k] = one(k) \o g[Quot(k, 10)]
    BY <1>9, <2>2, <2>4
  <2>8. one(k) \o g[Quot(k, 10)] \in V
    <3>1. one(k) \in V
      BY <1>1, <2>2
    <3> HIDE DEF one
    <3> QED BY <2>6, <3>1, ConcatProperties
  <2> HIDE DEF one
  <2> QED BY <2>2, <2>7, <2>8
<1> HIDE DEF V
<1>11. Digits(n) = g[n] /\ Digits(Quot(n, 10)) = g[Quot(n, 10)]
  BY <1>1, <1>8
<1> QED BY <1>9, <1>10, <1>11 DEF V

LEMMA ReverseType ==
  ASSUME NEW A, NEW s \in Seq(A)
  PROVE  /\ Reverse(s) \in Seq(A) /\ Len(Reverse(s)) = Len(s)
         /\ \A i \in 1 .. Len(s) : Reverse(s)[i] = s[(Len(s) - i) + 1]
<1>1. Len(s) \in Nat /\ \A i \in 1 .. Len(s) : s[i] \in A
  BY LenProperties, ElementOfSeq
<1>2. Reverse(s) \in [1 .. Len(s) -> A]
  BY <1>1 DEF Reverse
<1>3. Reverse(s) \in Seq(A) /\ Len(Reverse(s)) = Len(s)
  BY <1>1, <1>2, IsSeq
<1> QED BY <1>3 DEF Reverse

LEMMA ReverseCons ==
  ASSUME NEW A, NEW s \in Seq(A), NEW a \in A
  PROVE  Reverse(<<a>> \o s) = Append(Reverse(s), a)
<1> DEFINE t == <<a>> \o s
           u == Append(Reverse(s), a)
<1>1. <<a>> \in Seq(A) /\ Len(<<a>>) = 1 /\ Len(s) \in Nat
  BY LenProperties
<1>2. /\ t \in Seq(A) /\ Len(t) = Len(s) + 1 /\ t[1] = a
      /\ \A i \in 1 .. Len(s) : t[i + 1] = s[i]
  OBVIOUS
<1>3. /\ Reverse(s) \in Seq(A) /\ Len(Reverse(s)) = Len(s)
      /\ \A i \in 1 .. Len(s) : Reverse(s)[i] = s[(Len(s) - i) + 1]
  BY ReverseType
<1>4. /\ u \in Seq(A) /\ Len(u) = Len(s) + 1
      /\ \A i \in 1 .. Len(s) : u[i] = s[(Len(s) - i) + 1]
      /\ u[Len(s) + 1] = a
  BY <1>3, AppendProperties
<1> HIDE DEF t, u
<1>5. /\ Reverse(t) \in Seq(A) /\ Len(Reverse(t)) = Len(s) + 1
      /\ \A i \in 1 .. (Len(s) + 1) : Reverse(t)[i] = t[((Len(s) + 1) - i) + 1]
  <2>1. /\ Reverse(t) \in Seq(A) /\ Len(Reverse(t)) = Len(t)
        /\ \A i \in 1 .. Len(t) : Reverse(t)[i] = t[(Len(t) - i) + 1]
    BY <1>2, ReverseType
  <2> QED BY <1>2, <2>1
<1>6. ASSUME NEW i \in 1 .. (Len(s) + 1) PROVE Reverse(t)[i] = u[i]
  <2>1. CASE i \in 1 .. Len(s)
    <3>1. (Len(s) - i) + 1 \in 1 .. Len(s) /\ ((Len(s) + 1) - i) + 1 = ((Len(s) - i) + 1) + 1
      BY <1>1, <2>1
    <3> QED BY <1>2, <1>4, <1>5, <2>1, <3>1
  <2>2. CASE i = Len(s) + 1
    <3>1. ((Len(s) + 1) - i) + 1 = 1
      BY <1>1, <2>2
    <3> QED BY <1>2, <1>4, <1>5, <2>2, <3>1
  <2> QED BY <1>1, <2>1, <2>2
<1>7. Reverse(t) = u
  BY <1>4, <1>5, <1>6, SeqEqual
<1> QED BY <1>7 DEF t, u

LEMMA ReverseAppend ==
  ASSUME NEW A, NEW s \in Seq(A), NEW a \in A
  PROVE  Reverse(Append(s, a)) = <<a>> \o Reverse(s)
<1> DEFINE t == Append(s, a)
           u == <<a>> \o Reverse(s)
<1>1. Len(s) \in Nat
  BY LenProperties
<1>2. /\ t \in Seq(A) /\ Len(t) = Len(s) + 1 /\ t[Len(s) + 1] = a
      /\ \A i \in 1 .. Len(s) : t[i] = s[i]
  BY AppendProperties
<1>3. /\ Reverse(s) \in Seq(A) /\ Len(Reverse(s)) = Len(s)
      /\ \A i \in 1 .. Len(s) : Reverse(s)[i] = s[(Len(s) - i) + 1]
  BY ReverseType
<1>4. /\ u \in Seq(A) /\ Len(u) = Len(s) + 1 /\ u[1] = a
      /\ \A i \in 1 .. Len(s) : u[i + 1] = s[(Len(s) - i) + 1]
  <2>1. \A r \in Seq(A) :
          /\ <<a>> \o r \in Seq(A) /\ Len(<<a>> \o r) = Len(r) + 1 /\ (<<a>> \o r)[1] = a
          /\ \A i \in 1 .. Len(r) : (<<a>> \o r)[i + 1] = r[i]
    BY ConsIs
  <2> QED BY <1>3, <2>1
<1> HIDE DEF t, u
<1>5. /\ Reverse(t) \in Seq(A) /\ Len(Reverse(t)) = Len(s) + 1
      /\ \A i \in 1 .. (Len(s) + 1) : Reverse(t)[i] = t[((Len(s) + 1) - i) + 1]
  <2>1. /\ Reverse(t) \in Seq(A) /\ Len(Reverse(t)) = Len(t)
        /\ \A i \in 1 .. Len(t) : Reverse(t)[i] = t[(Len(t) - i) + 1]
    BY <1>2, ReverseType
  <2> QED BY <1>2, <2>1
<1>6. ASSUME NEW i \in 1 .. (Len(s) + 1) PROVE Reverse(t)[i] = u[i]
  <2>1. CASE i = 1
    <3>1. ((Len(s) + 1) - i) + 1 = Len(s) + 1
      BY <1>1, <2>1
    <3> QED BY <1>2, <1>4, <1>5, <2>1, <3>1
  <2>2. CASE i # 1
    <3>1. /\ i - 1 \in 1 .. Len(s) /\ i = (i - 1) + 1
          /\ (Len(s) - (i - 1)) + 1 \in 1 .. Len(s)
          /\ ((Len(s) + 1) - i) + 1 = (Len(s) - (i - 1)) + 1
      BY <1>1, <2>2
    <3>2. u[i] = s[(Len(s) - (i - 1)) + 1]
      BY <1>4, <3>1
    <3> QED BY <1>2, <1>5, <3>1, <3>2
  <2> QED BY <2>1, <2>2
<1>7. Reverse(t) = u
  BY <1>4, <1>5, <1>6, SeqEqual
<1> QED BY <1>7 DEF t, u

(* utoa() makes the numeral: the digits come out last first and are        *)
(* reversed.                                                               *)
THEOREM DecimalDigits ==
  ASSUME NEW n \in Nat
  PROVE  Reverse(Digits(n)) = Numeral(n, 10)
<1> DEFINE Good(k) == Reverse(Digits(k)) = Numeral(k, 10)
           P == {m \in Nat : \A k \in Nat : k < m => Good(k)}
<1>1. 0 \in P
  OBVIOUS
<1>2. ASSUME NEW m \in Nat, m \in P PROVE m + 1 \in P
  <2> SUFFICES ASSUME NEW k \in Nat, k < m + 1 PROVE Good(k)
    OBVIOUS
  <2> DEFINE q == k \div 10
             d == Rem(k, 10) + ZERO
  <2>1. /\ q \in Nat /\ Quot(k, 10) = q /\ d \in Nat /\ d = hex_lookup(k % 10)
        /\ k < 10 => q = 0 /\ k % 10 = k
        /\ k >= 10 => q # 0 /\ q < m
    <3>1. /\ Quot(k, 10) = k \div 10 /\ Rem(k, 10) = k % 10
          /\ Rem(k, 10) + ZERO \in Nat /\ k \div 10 \in Nat /\ k % 10 \in 0 .. 9
      BY QuotRem
    <3>2. d = hex_lookup(k % 10)
      BY <3>1 DEF hex_lookup, ZERO
    <3>3. /\ k < 10 => q = 0 /\ k % 10 = k
          /\ k >= 10 => q # 0 /\ q < m
      OBVIOUS
    <3> QED BY <3>1, <3>2, <3>3
  <2>2. Digits(k) = <<d>> \o (IF Quot(k, 10) = 0 THEN <<>> ELSE Digits(Quot(k, 10)))
    BY DigitsDef
  <2>3. Digits(q) \in Seq(Nat)
    <3>1. \A j \in Int : Digits(j) \in Seq(Nat)
      BY DigitsDef
    <3> QED BY <2>1, <3>1
  <2> HIDE DEF q, d
  <2>4. CASE k < 10
    <3>1. Digits(k) = <<d>>
      BY <2>1, <2>2, <2>4
    <3>2. Reverse(<<d>>) = <<d>>
      BY DEF Reverse
    <3>3. Numeral(k, 10) = <<hex_lookup(k)>>
      BY <2>4, NumeralLow
    <3> QED BY <2>1, <2>4, <3>1, <3>2, <3>3
  <2>5. CASE k >= 10
    <3>1. Digits(k) = <<d>> \o Digits(q)
      BY <2>1, <2>2, <2>5
    <3>2. Reverse(<<d>> \o Digits(q)) = Append(Reverse(Digits(q)), d)
      BY <2>1, <2>3, ReverseCons
    <3>3. Reverse(Digits(q)) = Numeral(q, 10)
      BY <1>2, <2>1, <2>5
    <3>4. Numeral(k, 10) = Append(Numeral(q, 10), hex_lookup(k % 10))
      <4>1. Numeral(k, 10) = Append(Numeral(k \div 10, 10), hex_lookup(k % 10))
        <5>1. \A b \in Nat, j \in Nat : b >= 2 /\ j >= b
                => Numeral(j, b) = Append(Numeral(j \div b, b), hex_lookup(j % b))
          BY NumeralHigh
        <5>2. 10 \in Nat /\ 10 >= 2 /\ k >= 10 /\ k \in Nat
          BY <2>5
        <5> QED BY ONLY <5>1, <5>2, Zenon
      <4> QED BY <4>1 DEF q
    <3> QED BY <2>1, <3>1, <3>2, <3>3, <3>4
  <2> QED BY <2>4, <2>5
<1> HIDE DEF P
<1>3. \A m \in Nat : m \in P
  BY <1>1, <1>2, Induction
<1>4. n + 1 \in P
  BY <1>3
<1> QED BY <1>4 DEF P

(* num_hex_digits() counts the digits.                                     *)
LEMMA HexPlaces ==
  ASSUME NEW n \in Nat
  PROVE  num_hex_digits(n) = Places(n, 16)
<1> DEFINE size == [k \in Nat |-> k]
           prev == [k \in Nat |-> k \div 16]
           base == [k \in Nat |-> 0]
           step == [kv \in Nat \X Nat |-> 1 + kv[2]]
           Def(f) == [k \in Nat |-> IF k = 0 THEN 0 ELSE 1 + f[k \div 16]]
<1>1. /\ size \in [Nat -> Nat] /\ prev \in [Nat -> Nat] /\ base \in [Nat -> Nat]
      /\ step \in [Nat \X Nat -> Nat]
  OBVIOUS
<1>2. \A k \in Nat : k \notin {0} => size[prev[k]] < size[k]
  OBVIOUS
<1>3. PICK f \in [Nat -> Nat] : \A k \in Nat : Solves(f, k, prev, {0}, base, step)
  <2> HIDE DEF size, prev, base, step
  <2> QED BY <1>1, <1>2, Recursion
<1>4. f = Def(f)
  <2>1. ASSUME NEW k \in Nat PROVE f[k] = IF k = 0 THEN 0 ELSE 1 + f[k \div 16]
    <3>1. Solves(f, k, prev, {0}, base, step)
      BY <1>3
    <3> QED BY <3>1 DEF Solves
  <2> QED BY <1>3, <2>1
<1> DEFINE g == CHOOSE h : h = Def(h)
<1>5. g = Def(g)
  BY <1>4
<1>6. num_hex_digits(n) = IF n = 0 THEN 1 ELSE g[n]
  BY DEF num_hex_digits
<1> HIDE DEF g
<1>7. ASSUME NEW k \in Nat PROVE g[k] = IF k = 0 THEN 0 ELSE 1 + g[k \div 16]
  <2>1. Def(g)[k] = IF k = 0 THEN 0 ELSE 1 + g[k \div 16]
    OBVIOUS
  <2> HIDE DEF Def
  <2> QED BY <1>5, <2>1
<1> DEFINE Good(k) == k # 0 => g[k] = Places(k, 16)
           P == {m \in Nat : \A k \in Nat : k < m => Good(k)}
<1>8. 0 \in P
  OBVIOUS
<1>9. ASSUME NEW m \in Nat, m \in P PROVE m + 1 \in P
  <2> SUFFICES ASSUME NEW k \in Nat, k < m + 1, k # 0 PROVE g[k] = Places(k, 16)
    OBVIOUS
  <2>1. g[k] = 1 + g[k \div 16]
    BY <1>7
  <2>2. CASE k < 16
    <3>1. k \div 16 = 0 /\ g[0] = 0
      BY <1>7, <2>2
    <3>2. Places(k, 16) = 1
      BY <2>2, PlacesLow
    <3> QED BY <2>1, <3>1, <3>2
  <2>3. CASE k >= 16
    <3>1. k \div 16 \in Nat /\ k \div 16 # 0 /\ k \div 16 < m
      BY <2>3
    <3>2. g[k \div 16] = Places(k \div 16, 16) /\ Places(k \div 16, 16) \in Nat
      BY <1>9, <3>1, PlacesExist
    <3>3. Places(k, 16) = Places(k \div 16, 16) + 1
      BY <2>3, PlacesHigh
    <3> QED BY <2>1, <3>2, <3>3
  <2> QED BY <2>2, <2>3
<1> HIDE DEF P
<1>10. \A m \in Nat : m \in P
  BY <1>8, <1>9, Induction
<1>11. n + 1 \in P
  BY <1>10
<1>12. Places(0, 16) = 1
  BY PlacesLow
<1> QED BY <1>6, <1>11, <1>12 DEF P

(* itoh() makes the hexadecimal numeral, with a zero in front of an odd    *)
(* number of digits.                                                       *)
THEOREM HexNumeral ==
  ASSUME NEW n \in Nat
  PROVE  itoh(n) = Even(Numeral(n, 16))
<1> DEFINE k == Places(n, 16)
           s == [j \in 1 .. k |-> hex_lookup((n \div Power(16, k - j)) % 16)]
<1>1. itoh(n) = (IF k % 2 = 1 THEN <<ZERO>> ELSE <<>>) \o s
  BY HexPlaces DEF itoh
<1>2. s = Numeral(n, 16)
  BY NumeralPlaces
<1> HIDE DEF s
<1>3. s \in Seq(Nat) /\ Len(s) = k
  <2>1. 16 \in Nat /\ 16 >= 2
    OBVIOUS
  <2> QED BY <1>2, <2>1, NumeralType
<1> HIDE DEF k
<1>4. <<>> \o s = s
  BY <1>3, ConcatEmptySeq
<1>5. itoh(n) = Even(s)
  BY <1>1, <1>3, <1>4 DEF Even
<1> QED BY <1>2, <1>5

LEMMA FitSmall ==
  ASSUME NEW x \in Int, INTMIN <= x, x < Half
  PROVE  Fit(x) = x
<1>1. Half \in Nat \ {0} /\ -Half <= x
  BY HalfAssumption DEF INTMIN
<1>2. CASE x >= 0
  <2>1. x % (2 * Half) = x
    BY <1>1, <1>2
  <2> QED BY <1>1, <1>2, <2>1 DEF Fit, Signed
<1>3. CASE x < 0
  <2>1. x % (2 * Half) = x + 2 * Half
    BY <1>1, <1>3
  <2> QED BY <1>1, <1>3, <2>1 DEF Fit, Signed
<1> QED BY <1>2, <1>3

LEMMA DecimalNumeral ==
  ASSUME NEW n \in Int, INTMIN < n, n < Half
  PROVE  itoa(n) = IF n < 0 THEN <<MINUS>> \o Numeral(-n, 10) ELSE Numeral(n, 10)
<1>1. Half \in Nat \ {0} /\ -Half < n
  BY HalfAssumption DEF INTMIN
<1>2. CASE n < 0
  <2>1. -n \in Nat /\ INTMIN <= -n /\ -n < Half
    BY <1>1, <1>2 DEF INTMIN
  <2>2. Fit(-n) = -n
    BY <2>1, FitSmall
  <2>3. Digits(-n) \in Seq(Nat) /\ Reverse(Digits(-n)) = Numeral(-n, 10)
    <3>1. \A k \in Int : Digits(k) \in Seq(Nat)
      BY DigitsDef
    <3>2. \A k \in Nat : Reverse(Digits(k)) = Numeral(k, 10)
      BY DecimalDigits
    <3> QED BY <2>1, <3>1, <3>2
  <2>4. itoa(n) = Reverse(Digits(-n) \o <<MINUS>>)
    BY <1>2, <2>2 DEF itoa, strrev
  <2>5. Digits(-n) \o <<MINUS>> = Append(Digits(-n), MINUS) /\ MINUS \in Nat
    BY <2>3, AppendIsConcat DEF MINUS
  <2>6. \A s \in Seq(Nat), a \in Nat : Reverse(Append(s, a)) = <<a>> \o Reverse(s)
    BY ReverseAppend
  <2> QED BY <1>2, <2>3, <2>4, <2>5, <2>6
<1>3. CASE ~ (n < 0)
  <2>1. n \in Nat
    BY <1>3
  <2> QED BY <1>3, <2>1, DecimalDigits DEF itoa, strrev
<1> QED BY <1>2, <1>3

(* itoa() of any int is a text.                                            *)
LEMMA DecimalType ==
  ASSUME NEW n \in Int
  PROVE  itoa(n) \in Seq(Nat)
<1>1. Half \in Nat \ {0}
  BY HalfAssumption
<1>2. Fit(-n) \in Int
  <2>1. (-n) % (2 * Half) \in Int
    BY <1>1
  <2> QED BY <1>1, <2>1 DEF Fit, Signed
<1>3. \A k \in Int : Digits(k) \in Seq(Nat)
  BY DigitsDef
<1>4. \A s \in Seq(Nat) : Reverse(s) \in Seq(Nat)
  BY ReverseType
<1>5. Digits(Fit(-n)) \o <<MINUS>> \in Seq(Nat)
  <2>1. <<MINUS>> \in Seq(Nat)
    BY DEF MINUS
  <2> QED BY <1>2, <1>3, <2>1, ConcatProperties
<1> QED BY <1>3, <1>4, <1>5 DEF itoa, strrev

(* What atoi() computes on the way through x.                              *)
Reads(f, x) ==
  \A k \in 0 .. Len(x) : f[k] = IF k = 0 THEN 0 ELSE Fit(f[k - 1] * 10 + x[k] - ZERO)

LEMMA FitType ==
  ASSUME NEW x \in Int PROVE Fit(x) \in Int
<1>1. Half \in Nat \ {0}
  BY HalfAssumption
<1>2. x % (2 * Half) \in Int
  BY <1>1
<1> QED BY <1>1, <1>2 DEF Fit, Signed

LEMMA AtoiReads ==
  ASSUME NEW s \in Seq(Nat), s # <<>>
  PROVE  LET x == IF s[1] \in {MINUS, PLUS} THEN Tail(s) ELSE s
         IN  \E f : /\ Reads(f, x)
                    /\ atoi(s) = Fit((IF s[1] = MINUS THEN -1 ELSE 1) * f[Len(x)])
<1> DEFINE x == IF s[1] \in {MINUS, PLUS} THEN Tail(s) ELSE s
           D == 0 .. Len(x)
           size == [k \in D |-> k]
           prev == [k \in D |-> IF k = 0 THEN 0 ELSE k - 1]
           base == [k \in D |-> 0]
           step == [kv \in D \X Int |-> IF kv[1] = 0 THEN 0 ELSE Fit(kv[2] * 10 + x[kv[1]] - ZERO)]
           Def(f) == [k \in D |-> IF k = 0 THEN 0 ELSE Fit(f[k - 1] * 10 + x[k] - ZERO)]
<1>1. x \in Seq(Nat)
  BY HeadTailProperties
<1>2. atoi(s) = Fit((IF s[1] = MINUS THEN -1 ELSE 1) * (CHOOSE h : h = Def(h))[Len(x)])
  BY DEF atoi
<1> HIDE DEF x
<1>3. Len(x) \in Nat /\ \A k \in 1 .. Len(x) : x[k] \in Nat
  BY <1>1, LenProperties, ElementOfSeq
<1>4. size \in [D -> Nat] /\ prev \in [D -> D] /\ base \in [D -> Int]
  BY <1>3
<1>5. step \in [D \X Int -> Int]
  <2>1. ASSUME NEW k \in D, NEW v \in Int, k # 0 PROVE Fit(v * 10 + x[k] - ZERO) \in Int
    <3>1. v * 10 + x[k] - ZERO \in Int
      BY <1>3, <2>1 DEF ZERO
    <3> QED BY <3>1, FitType
  <2> QED BY <2>1
<1>6. \A k \in D : k \notin {0} => size[prev[k]] < size[k]
  BY <1>3
<1>7. PICK f \in [D -> Int] : \A k \in D : Solves(f, k, prev, {0}, base, step)
  <2> HIDE DEF D, size, prev, base, step
  <2> QED BY <1>4, <1>5, <1>6, Recursion
<1>8. f = Def(f)
  <2>1. ASSUME NEW k \in D
        PROVE  f[k] = IF k = 0 THEN 0 ELSE Fit(f[k - 1] * 10 + x[k] - ZERO)
    <3>1. Solves(f, k, prev, {0}, base, step)
      BY <1>7
    <3>2. CASE k = 0
      BY <3>1, <3>2 DEF Solves
    <3>3. CASE k # 0
      <4>1. prev[k] = k - 1 /\ k - 1 \in D
        BY <1>3, <3>3
      <4>2. <<k, f[k - 1]>> \in D \X Int
        BY <1>7, <4>1
      <4>3. step[<<k, f[k - 1]>>] = Fit(f[k - 1] * 10 + x[k] - ZERO)
        BY <3>3, <4>2
      <4> HIDE DEF step, prev
      <4> QED BY <3>1, <3>3, <4>1, <4>3 DEF Solves
    <3> QED BY <3>2, <3>3
  <2> QED BY <1>7, <2>1
<1> DEFINE g == CHOOSE h : h = Def(h)
<1>9. g = Def(g)
  BY <1>8
<1>10. atoi(s) = Fit((IF s[1] = MINUS THEN -1 ELSE 1) * g[Len(x)])
  BY <1>2
<1> HIDE DEF g
<1>11. Reads(g, x)
  <2> SUFFICES ASSUME NEW k \in D
               PROVE  g[k] = IF k = 0 THEN 0 ELSE Fit(g[k - 1] * 10 + x[k] - ZERO)
    BY DEF Reads
  <2>1. Def(g)[k] = IF k = 0 THEN 0 ELSE Fit(g[k - 1] * 10 + x[k] - ZERO)
    OBVIOUS
  <2> HIDE DEF Def
  <2> QED BY <1>9, <2>1
<1> QED BY <1>10, <1>11 DEF x

(* A number that fits is read back digit by digit, ...                     *)
LEMMA NumeralReads ==
  ASSUME NEW n \in Nat, n < Half, NEW f, Reads(f, Numeral(n, 10))
  PROVE  f[Places(n, 10)] = n
<1> DEFINE K == Places(n, 10)
           P == {k \in Nat : k <= K => f[k] = n \div Power(10, K - k)}
<1>1. K \in Nat /\ n < Power(10, K)
  <2>1. 10 \in Nat /\ 10 >= 2
    OBVIOUS
  <2> QED BY <2>1, PlacesExist DEF IsPlaces
<1>2. /\ Numeral(n, 10) \in Seq(Nat) /\ Len(Numeral(n, 10)) = K
      /\ \A j \in 1 .. K : Numeral(n, 10)[j] = Digit(n, 10, K - j)
  <2>1. 10 \in Nat /\ 10 >= 2
    OBVIOUS
  <2> QED BY <2>1, NumeralType
<1>3. \A k \in 0 .. K : f[k] = IF k = 0 THEN 0 ELSE Fit(f[k - 1] * 10 + Numeral(n, 10)[k] - ZERO)
  BY <1>2 DEF Reads
<1>4. /\ \A k \in Nat : Power(10, k) \in Nat \ {0}
      /\ Power(10, 0) = 1
      /\ \A k \in Nat : Power(10, k + 1) = 10 * Power(10, k)
  <2>1. 10 \in Nat /\ 10 >= 2
    OBVIOUS
  <2> QED BY <2>1, PowerDef, PowerPositive
<1>5. \A d \in 0 .. 9 : hex_lookup(d) = ZERO + d
  BY DEF hex_lookup
<1> HIDE DEF K
<1>6. 0 \in P
  <2>1. f[0] = 0
    BY <1>1, <1>3
  <2>2. Power(10, K) \in Nat \ {0}
    BY <1>1, <1>4
  <2>3. n \div Power(10, K) = 0
    BY <1>1, <2>2, DivIs
  <2>4. K - 0 = K
    BY <1>1
  <2> QED BY <2>1, <2>3, <2>4
<1>7. ASSUME NEW k \in Nat, k \in P PROVE k + 1 \in P
  <2> SUFFICES ASSUME k + 1 <= K PROVE f[k + 1] = n \div Power(10, K - (k + 1))
    OBVIOUS
  <2> DEFINE m == n \div Power(10, K - (k + 1))
  <2>1. K - (k + 1) \in Nat /\ K - k = (K - (k + 1)) + 1 /\ k + 1 \in 1 .. K /\ (k + 1) - 1 = k
    BY <1>1
  <2>2. /\ Power(10, K - (k + 1)) \in Nat \ {0}
        /\ Power(10, K - k) = 10 * Power(10, K - (k + 1))
    BY <1>4, <2>1
  <2>3. m \in Nat /\ m <= n
    <3>1. \A p \in Nat \ {0} : n \div p \in Nat /\ n \div p <= n
      OBVIOUS
    <3> QED BY <2>2, <3>1
  <2>4. f[k] = m \div 10
    <3>1. f[k] = n \div Power(10, K - k)
      BY <1>1, <1>7
    <3>2. \A p \in Nat \ {0} : (n \div p) \div 10 = n \div (p * 10)
      BY DivDiv
    <3>3. Power(10, K - (k + 1)) * 10 = 10 * Power(10, K - (k + 1))
      BY <2>2
    <3> QED BY <2>2, <3>1, <3>2, <3>3
  <2>5. Numeral(n, 10)[k + 1] = hex_lookup(m % 10)
    BY <1>2, <2>1 DEF Digit
  <2>6. f[k + 1] = Fit(f[k] * 10 + Numeral(n, 10)[k + 1] - ZERO)
    BY <1>1, <1>3, <2>1
  <2> HIDE DEF m
  <2>7. m % 10 \in 0 .. 9 /\ (m \div 10) * 10 + (m % 10) = m /\ m \div 10 \in Nat
    BY <2>3
  <2>8. hex_lookup(m % 10) = ZERO + (m % 10)
    BY <1>5, <2>7
  <2>9. f[k] * 10 + Numeral(n, 10)[k + 1] - ZERO = m
    BY <2>4, <2>5, <2>7, <2>8 DEF ZERO
  <2>10. Fit(m) = m
    <3>1. Half \in Nat \ {0}
      BY HalfAssumption
    <3>2. m \in Int /\ INTMIN <= m /\ m < Half
      BY <2>3, <3>1 DEF INTMIN
    <3> QED BY <3>2, FitSmall
  <2> QED BY <2>6, <2>9, <2>10 DEF m
<1> HIDE DEF P
<1>8. K \in P
  BY <1>1, <1>6, <1>7, Induction
<1>9. K - K = 0 /\ n \div 1 = n
  BY <1>1
<1> QED BY <1>1, <1>4, <1>8, <1>9 DEF P, K

(* atoi() reads back what itoa() wrote, with its sign, for every int but   *)
(* the smallest.                                                           *)
THEOREM ReadsBack ==
  ASSUME NEW x \in Int, INTMIN < x, x < Half
  PROVE  atoi(itoa(x)) = x
<1> DEFINE n == IF x < 0 THEN -x ELSE x
           s == itoa(x)
           r == Numeral(n, 10)
           y == IF s[1] \in {MINUS, PLUS} THEN Tail(s) ELSE s
<1>1. Half \in Nat \ {0} /\ -Half < x
  BY HalfAssumption DEF INTMIN
<1>2. n \in Nat /\ n < Half /\ x = IF x < 0 THEN -n ELSE n
  BY <1>1
<1>3. s = IF x < 0 THEN <<MINUS>> \o r ELSE r
  BY DecimalNumeral
<1> HIDE DEF n, s
<1>4. 10 \in Nat /\ 10 >= 2
  OBVIOUS
<1>5. /\ r \in Seq(Nat) /\ Len(r) = Places(n, 10) /\ Places(n, 10) \in Nat \ {0}
      /\ r[1] = Digit(n, 10, Places(n, 10) - 1)
  <2>1. Places(n, 10) \in Nat \ {0}
    BY <1>2, <1>4, PlacesExist
  <2>2. /\ r \in Seq(Nat) /\ Len(r) = Places(n, 10)
        /\ \A j \in 1 .. Places(n, 10) : r[j] = Digit(n, 10, Places(n, 10) - j)
    BY <1>2, <1>4, NumeralType
  <2> QED BY <2>1, <2>2
<1>6. r[1] \notin {MINUS, PLUS}
  <2>1. Places(n, 10) - 1 \in Nat
    BY <1>5
  <2> DEFINE d == (n \div Power(10, Places(n, 10) - 1)) % 10
  <2>2. d \in 0 .. (10 - 1)
    BY <1>2, <1>4, <2>1, DigitType
  <2>3. r[1] = hex_lookup(d)
    BY <1>5 DEF Digit
  <2> HIDE DEF d
  <2> QED BY <2>2, <2>3 DEF hex_lookup, ZERO, HEXA, MINUS, PLUS
<1> HIDE DEF r
<1>7. /\ s \in Seq(Nat) /\ s # <<>> /\ y = r
      /\ s[1] = MINUS <=> x < 0
  <2>1. CASE x < 0
    <3>1. s = <<MINUS>> \o r /\ MINUS \in Nat
      BY <1>3, <2>1 DEF MINUS
    <3>2. s \in Seq(Nat) /\ s # <<>> /\ s[1] = MINUS
      BY <1>5, <3>1
    <3>3. Tail(s) = r
      <4>1. \A c \in Nat, t \in Seq(Nat) : Tail(<<c>> \o t) = t
        BY ConsIs
      <4> QED BY <1>5, <3>1, <4>1
    <3> QED BY <2>1, <3>2, <3>3
  <2>2. CASE ~ (x < 0)
    <3>1. s = r /\ s # <<>>
      BY <1>3, <1>5, <2>2
    <3> QED BY <1>5, <1>6, <2>2, <3>1
  <2> QED BY <2>1, <2>2
<1>8. PICK f : Reads(f, y) /\ atoi(s) = Fit((IF s[1] = MINUS THEN -1 ELSE 1) * f[Len(y)])
  BY <1>7, AtoiReads
<1>9. f[Len(r)] = n
  <2>1. Reads(f, Numeral(n, 10))
    BY <1>7, <1>8 DEF r
  <2>2. f[Places(n, 10)] = n
    BY <1>2, <2>1, NumeralReads
  <2> QED BY <1>5, <2>2
<1>10. (IF s[1] = MINUS THEN -1 ELSE 1) * f[Len(y)] = x
  <2>1. (IF s[1] = MINUS THEN -1 ELSE 1) = IF x < 0 THEN -1 ELSE 1
    BY <1>7
  <2>2. f[Len(y)] = n
    BY <1>7, <1>9
  <2> HIDE DEF y
  <2> QED BY <1>2, <2>1, <2>2
<1>11. Fit(x) = x
  <2>1. INTMIN <= x
    BY <1>1 DEF INTMIN
  <2> QED BY <2>1, FitSmall
<1> QED BY <1>8, <1>10, <1>11 DEF s

(***************************************************************************)
(* What a piece writes                                                     *)
(***************************************************************************)

Letters    == {Letter[l] : l \in DOMAIN Letter}
Outcome(p) == IF Plain(p) THEN <<p[2]>> ELSE Converted(p[1], IF Takes(p) THEN p[2] ELSE 0)

SourceMap  == [p \in Pieces |-> Source(p)]
ArgsMap    == [p \in Pieces |-> IF Takes(p) THEN <<p[2]>> ELSE <<>>]
OutcomeMap == [p \in Pieces |-> Outcome(p)]

LEMMA LetterCodes ==
  /\ Letter.c = 99 /\ Letter.d = 100 /\ Letter.s = 115 /\ Letter.u = 117 /\ Letter.x = 120
  /\ Letters = {99, 100, 115, 117, 120}
<1>1. /\ DOMAIN Letter = {"c", "d", "s", "u", "x"}
      /\ Letter["c"] = 99 /\ Letter["d"] = 100 /\ Letter["s"] = 115 /\ Letter["u"] = 117
      /\ Letter["x"] = 120
  BY DEF Letter
<1>2. Letter.c = 99 /\ Letter.d = 100 /\ Letter.s = 115 /\ Letter.u = 117 /\ Letter.x = 120
  BY DEF Letter
<1> QED BY <1>1, <1>2 DEF Letters

LEMMA PieceType ==
  ASSUME NEW p \in Pieces
  PROVE  /\ p[1] \in Nat /\ p[2] \in Word /\ p[2] \in Nat
         /\ Plain(p) => p[2] # PERCENT
         /\ p[1] = Letter.s => p[2] = NULL \/ p[2] \in DOMAIN Strings
<1>1. p \in Nat \X Word
  BY PiecesAssumption
<1>2. p[1] \in Nat /\ p[2] \in Word
  BY <1>1
<1>3. p[2] \in Nat
  BY <1>2, HalfAssumption DEF Word
<1> QED BY <1>2, <1>3, PiecesAssumption

LEMMA SignedType ==
  ASSUME NEW w \in Word
  PROVE  /\ Signed(w) \in Int /\ INTMIN <= Signed(w) /\ Signed(w) < Half
         /\ Signed(w) >= 0 => Signed(w) = w
BY HalfAssumption DEF Word, Signed, INTMIN

LEMMA OutcomeType ==
  ASSUME NEW p \in Pieces
  PROVE  Outcome(p) \in Seq(Nat)
<1>1. /\ p[1] \in Nat /\ p[2] \in Word /\ p[2] \in Nat
      /\ p[1] = 115 => p[2] = NULL \/ p[2] \in DOMAIN Strings
  BY PieceType, LetterCodes
<1>2. CASE Plain(p)
  BY <1>1, <1>2 DEF Outcome
<1>3. CASE ~ Plain(p)
  <2> DEFINE a == IF Takes(p) THEN p[2] ELSE 0
  <2>1. Outcome(p) = Converted(p[1], a)
    BY <1>3 DEF Outcome
  <2>2. Takes(p) <=> p[1] \in {99, 100, 115, 117, 120}
    BY LetterCodes DEF Takes, Letters
  <2>3. a \in Nat /\ (Takes(p) => a = p[2])
    BY <1>1
  <2>4. CASE p[1] = PERCENT
    <3>1. Converted(p[1], a) = <<37>>
      BY <2>4, LetterCodes DEF Converted, PERCENT
    <3> HIDE DEF a
    <3> QED BY <2>1, <3>1
  <2>5. CASE p[1] = 99
    <3>1. Converted(p[1], a) = <<a>>
      BY <2>5, LetterCodes DEF Converted, PERCENT
    <3> HIDE DEF a
    <3> QED BY <2>1, <2>3, <3>1
  <2>6. CASE p[1] = 115
    <3>1. Converted(p[1], a) = IF a = NULL THEN Null ELSE Strings[a]
      BY <2>6, LetterCodes DEF Converted, PERCENT
    <3>2. a = NULL \/ a \in DOMAIN Strings
      BY <1>1, <2>2, <2>6
    <3>3. Null \in Seq(Nat)
      BY DEF Null
    <3>4. Strings \in Seq(Seq(Nat))
      BY StringsAssumption
    <3>5. a \in DOMAIN Strings => Strings[a] \in Seq(Nat)
      BY <3>4, LenProperties, ElementOfSeq
    <3> HIDE DEF a
    <3> QED BY <2>1, <3>1, <3>2, <3>3, <3>5
  <2>7. CASE p[1] = 100
    <3>1. Converted(p[1], a) = itoa(Signed(a))
      BY <2>7, LetterCodes DEF Converted, PERCENT
    <3>2. a = p[2] /\ Signed(p[2]) \in Int
      BY <1>1, <2>2, <2>3, <2>7, SignedType
    <3>3. itoa(Signed(p[2])) \in Seq(Nat)
      BY <3>2, DecimalType
    <3> HIDE DEF a
    <3> QED BY <2>1, <3>1, <3>2, <3>3
  <2>8. CASE p[1] = 117
    <3>1. Converted(p[1], a) = utoa(a)
      BY <2>8, LetterCodes DEF Converted, PERCENT
    <3>2. \A k \in Nat : Reverse(Digits(k)) = Numeral(k, 10)
      BY DecimalDigits
    <3>3. \A k \in Nat : Numeral(k, 10) \in Seq(Nat)
      <4>1. 10 \in Nat /\ 10 >= 2
        OBVIOUS
      <4> QED BY <4>1, NumeralType
    <3> HIDE DEF a
    <3> QED BY <2>1, <2>3, <3>1, <3>2, <3>3 DEF utoa, strrev
  <2>9. CASE p[1] = 120
    <3>1. Converted(p[1], a) = itoh(a)
      BY <2>9, LetterCodes DEF Converted, PERCENT
    <3>2. \A k \in Nat : itoh(k) = Even(Numeral(k, 16))
      BY HexNumeral
    <3>3. \A k \in Nat : Numeral(k, 16) \in Seq(Nat)
      <4>1. 16 \in Nat /\ 16 >= 2
        OBVIOUS
      <4> QED BY <4>1, NumeralType
    <3>4. \A s \in Seq(Nat) : Even(s) \in Seq(Nat)
      <4> SUFFICES ASSUME NEW s \in Seq(Nat) PROVE Even(s) \in Seq(Nat)
        OBVIOUS
      <4>1. <<ZERO>> \in Seq(Nat)
        BY DEF ZERO
      <4>2. <<ZERO>> \o s \in Seq(Nat)
        BY <4>1, ConcatProperties
      <4> QED BY <4>2 DEF Even
    <3> HIDE DEF a
    <3> QED BY <2>1, <2>3, <3>1, <3>2, <3>3, <3>4
  <2>10. CASE p[1] \notin {PERCENT, 99, 100, 115, 117, 120}
    <3>1. Converted(p[1], a) = <<>>
      BY <2>10, LetterCodes DEF Converted
    <3> HIDE DEF a
    <3> QED BY <2>1, <3>1
  <2> QED BY <2>4, <2>5, <2>6, <2>7, <2>8, <2>9, <2>10
<1> QED BY <1>2, <1>3

(* What is written is what is meant, except for the smallest int.          *)
LEMMA OutcomeMeant ==
  ASSUME NEW p \in Pieces, p[1] = Letter.d => Signed(p[2]) # INTMIN
  PROVE  Outcome(p) = Meaning(p)
<1>1. p[1] \in Nat /\ p[2] \in Word /\ p[2] \in Nat
  BY PieceType
<1>2. Takes(p) <=> p[1] \in {99, 100, 115, 117, 120}
  BY LetterCodes DEF Takes, Letters
<1>3. CASE Plain(p)
  <2>1. Outcome(p) = <<p[2]>>
    BY <1>3 DEF Outcome
  <2>2. p[1] = 0
    BY <1>3 DEF Plain
  <2>3. Meaning(p) = <<p[2]>>
    BY <1>3, <2>2, LetterCodes DEF Meaning, PERCENT
  <2> QED BY <2>1, <2>3
<1>4. CASE ~ Plain(p)
  <2>1. Outcome(p) = Converted(p[1], IF Takes(p) THEN p[2] ELSE 0)
    BY <1>4 DEF Outcome
  <2>2. CASE p[1] = PERCENT
    <3>1. Meaning(p) = <<PERCENT>>
      BY <1>4, <2>2, LetterCodes DEF Meaning, PERCENT
    <3>2. \A a : Converted(PERCENT, a) = <<PERCENT>>
      BY LetterCodes DEF Converted, PERCENT
    <3> QED BY <2>1, <2>2, <3>1, <3>2
  <2>3. CASE p[1] = 99
    BY <1>2, <1>4, <2>1, <2>3, LetterCodes DEF Meaning, Converted, PERCENT
  <2>4. CASE p[1] = 115
    BY <1>2, <1>4, <2>1, <2>4, LetterCodes DEF Meaning, Converted, PERCENT
  <2>5. CASE p[1] = 100
    <3> DEFINE v == Signed(p[2])
    <3>1. Outcome(p) = itoa(v)
      BY <1>2, <2>1, <2>5, LetterCodes DEF Converted, PERCENT
    <3>2. Meaning(p) = IF v >= 0 THEN Numeral(p[2], 10) ELSE <<MINUS>> \o Numeral(-v, 10)
      BY <1>1, <1>4, <2>5, LetterCodes, SignedType DEF Meaning, PERCENT
    <3>3. v \in Int /\ INTMIN < v /\ v < Half /\ (v >= 0 => v = p[2])
      <4>1. v # INTMIN
        BY <2>5, LetterCodes
      <4>2. INTMIN \in Int
        BY HalfAssumption DEF INTMIN
      <4> QED BY <1>1, <4>1, <4>2, SignedType
    <3> HIDE DEF v
    <3>4. itoa(v) = IF v < 0 THEN <<MINUS>> \o Numeral(-v, 10) ELSE Numeral(v, 10)
      BY <3>3, DecimalNumeral
    <3> QED BY <3>1, <3>2, <3>3, <3>4
  <2>6. CASE p[1] = 117
    <3>1. Outcome(p) = utoa(p[2])
      BY <1>2, <2>1, <2>6, LetterCodes DEF Converted, PERCENT
    <3>2. Meaning(p) = Numeral(p[2], 10)
      BY <1>4, <2>6, LetterCodes DEF Meaning, PERCENT
    <3>3. Reverse(Digits(p[2])) = Numeral(p[2], 10)
      BY <1>1, DecimalDigits
    <3> QED BY <3>1, <3>2, <3>3 DEF utoa, strrev
  <2>7. CASE p[1] = 120
    <3>1. Outcome(p) = itoh(p[2])
      BY <1>2, <2>1, <2>7, LetterCodes DEF Converted, PERCENT
    <3>2. Meaning(p) = Even(Numeral(p[2], 16))
      BY <1>4, <2>7, LetterCodes DEF Meaning, PERCENT
    <3>3. itoh(p[2]) = Even(Numeral(p[2], 16))
      BY <1>1, HexNumeral
    <3> QED BY <3>1, <3>2, <3>3
  <2>8. CASE p[1] \notin {PERCENT, 99, 100, 115, 117, 120}
    <3>1. Meaning(p) = <<>>
      BY <1>4, <2>8, LetterCodes DEF Meaning
    <3>2. \A a : Converted(p[1], a) = <<>>
      BY <2>8, LetterCodes DEF Converted
    <3> QED BY <2>1, <3>1, <3>2
  <2> QED BY <2>2, <2>3, <2>4, <2>5, <2>6, <2>7, <2>8
<1> QED BY <1>3, <1>4

(***************************************************************************)
(* The inductive invariant                                                 *)
(***************************************************************************)

Bytes == Senders \X Nat
Where == {"boot", "format", "next", "waitcr", "putcr", "wait", "put", "out"}

SerialType ==
  /\ call \in Seq(Pieces) /\ fpos \in Nat /\ vlist \in Seq(Nat) /\ buffer \in Seq(Nat)
  /\ todo \in [Senders -> Seq(Nat)] /\ at \in [Senders -> Where]
  /\ depth \in Nat \ {0}
  /\ fifo \in Seq(Bytes) /\ wire \in Seq(Bytes)
  /\ keys \in Nat

(* vsprintf() is between two pieces: what is before has been written, what *)
(* is behind has its arguments left.                                       *)
FormatAt(pre, post) ==
  /\ call = pre \o post
  /\ fpos = Len(Flat(SourceMap, pre)) + 1
  /\ buffer = Flat(OutcomeMap, pre)
  /\ vlist = Flat(ArgsMap, post)

FormatInv ==
  /\ at["thread"] = "boot" => call = <<>> /\ vlist = <<>> /\ buffer = <<>>
  /\ at["thread"] = "format" => \E pre, post \in Seq(Pieces) : FormatAt(pre, post)
  /\ at["thread"] \notin {"boot", "format"} => buffer = Flat(OutcomeMap, call) /\ vlist = <<>>

(* The chip is on from serial_init() on; it has room for who stores next.  *)
ChipInv ==
  /\ serial_enabled = 0 <=> at["thread"] = "boot"
  /\ at["thread"] # "boot" => depth = FifoDepth
  /\ fpos = 0 => buffer = <<>>
  /\ at["irq"] \in {"put", "putcr"} => fifo = <<>>
  /\ at["thread"] \in {"put", "putcr"} => Len(fifo) <= 1

(* What one of the two has still to send of its message, ...               *)
Rest(w) ==
  CASE at[w] \in {"next", "waitcr", "putcr"} -> Sent(todo[w])
    [] at[w] \in {"wait", "put"} -> <<Head(todo[w])>> \o Sent(Tail(todo[w]))
    [] at[w] \in {"boot", "format", "out"} -> <<>>

(* ... and all it was given to send.                                       *)
KeyLogs(n) == FlattenSeq([i \in 1 .. n |-> Sent(KeyLog)])
Total(w) ==
  CASE w = "irq" -> KeyLogs(keys)
    [] w = "thread" -> CASE at["thread"] = "boot" -> <<>>
                         [] at["thread"] = "format" -> Sent(Banner)
                         [] OTHER -> Sent(Banner) \o Sent(buffer)

SendOf(w) ==
  /\ at[w] \in {"waitcr", "putcr"} => todo[w] # <<>> /\ Head(todo[w]) = LF
  /\ at[w] \in {"wait", "put"} => todo[w] # <<>>
  /\ Heard(w) \o Rest(w) = Total(w)

SendInv == \A w \in Senders : SendOf(w)

SerialInv == SerialType /\ FormatInv /\ ChipInv /\ SendInv

SentMap     == [c \in Nat |-> IF c = LF THEN <<CR, LF>> ELSE <<c>>]
HeardMap(w) == [b \in Bytes |-> IF b[1] = w THEN <<b[2]>> ELSE <<>>]

LEMMA MapTypes ==
  /\ Maps(SourceMap, Pieces, Nat) /\ Maps(ArgsMap, Pieces, Nat) /\ Maps(OutcomeMap, Pieces, Nat)
  /\ Maps(SentMap, Nat, Nat) /\ \A w \in Senders : Maps(HeardMap(w), Bytes, Nat)
<1>1. Maps(SourceMap, Pieces, Nat)
  <2> SUFFICES ASSUME NEW p \in Pieces PROVE Source(p) \in Seq(Nat)
    BY DEF Maps, SourceMap
  <2>1. p[1] \in Nat /\ p[2] \in Nat
    BY PieceType
  <2> QED BY <2>1 DEF Source, PERCENT
<1>2. Maps(ArgsMap, Pieces, Nat)
  <2> SUFFICES ASSUME NEW p \in Pieces PROVE (IF Takes(p) THEN <<p[2]>> ELSE <<>>) \in Seq(Nat)
    BY DEF Maps, ArgsMap
  <2>1. p[2] \in Nat
    BY PieceType
  <2> QED BY <2>1
<1>3. Maps(OutcomeMap, Pieces, Nat)
  BY OutcomeType DEF Maps, OutcomeMap
<1>4. Maps(SentMap, Nat, Nat)
  <2>1. \A c \in Nat : (IF c = LF THEN <<CR, LF>> ELSE <<c>>) \in Seq(Nat)
    BY DEF CR, LF
  <2> QED BY <2>1 DEF Maps, SentMap
<1>5. ASSUME NEW w \in Senders PROVE Maps(HeardMap(w), Bytes, Nat)
  <2>1. \A b \in Bytes : (IF b[1] = w THEN <<b[2]>> ELSE <<>>) \in Seq(Nat)
    BY DEF Bytes
  <2> QED BY <2>1 DEF Maps, HeardMap
<1> QED BY <1>1, <1>2, <1>3, <1>4, <1>5

(* What the model flattens, said with these functions.                     *)
LEMMA FormatFlat ==
  ASSUME call \in Seq(Pieces) PROVE Format = Flat(SourceMap, call)
<1>1. \A n \in DOMAIN call : call[n] \in Pieces
  BY LenProperties, ElementOfSeq
<1> QED BY <1>1 DEF Format, Flat, Mapped, SourceMap

LEMMA ArgsFlat ==
  ASSUME NEW ps \in Seq(Pieces) PROVE Args(ps) = Flat(ArgsMap, ps)
<1>1. \A n \in DOMAIN ps : ps[n] \in Pieces
  BY LenProperties, ElementOfSeq
<1> QED BY <1>1 DEF Args, Flat, Mapped, ArgsMap

LEMMA SentFlat ==
  ASSUME NEW s \in Seq(Nat) PROVE Sent(s) = Flat(SentMap, s)
<1>1. \A n \in DOMAIN s : s[n] \in Nat
  BY LenProperties, ElementOfSeq
<1> QED BY <1>1 DEF Sent, Flat, Mapped, SentMap

HeardIn(w, log) == FlattenSeq([n \in DOMAIN log |-> IF log[n][1] = w THEN <<log[n][2]>> ELSE <<>>])

LEMMA HeardFlat ==
  ASSUME NEW w, NEW log \in Seq(Bytes)
  PROVE  HeardIn(w, log) = Flat(HeardMap(w), log)
<1>1. \A n \in DOMAIN log : log[n] \in Bytes
  BY LenProperties, ElementOfSeq
<1> QED BY <1>1 DEF HeardIn, Flat, Mapped, HeardMap

(***************************************************************************)
(* vsprintf()                                                              *)
(***************************************************************************)

(* A sequence in the middle of three.                                      *)
LEMMA MiddleOf ==
  ASSUME NEW a \in Seq(Nat), NEW b \in Seq(Nat), NEW c \in Seq(Nat),
         NEW i \in 1 .. Len(b)
  PROVE  ((a \o b) \o c)[Len(a) + i] = b[i]
<1>1. /\ a \o b \in Seq(Nat)
      /\ Len(a \o b) = Len(a) + Len(b)
      /\ Len(a) \in Nat /\ Len(b) \in Nat
  OBVIOUS
<1>2. (a \o b)[Len(a) + i] = b[i]
  BY <1>1
<1>3. ((a \o b) \o c)[Len(a) + i] = (a \o b)[Len(a) + i]
  <2>1. Len(a) + i \in 1 .. Len(a \o b)
    BY <1>1
  <2> QED BY ONLY <1>1, <2>1, c \in Seq(Nat)
<1> QED BY <1>2, <1>3

(* The next piece, where vsprintf() stands.                                *)
LEMMA PieceAt ==
  ASSUME SerialType, NEW pre \in Seq(Pieces), NEW post \in Seq(Pieces),
         FormatAt(pre, post), post # <<>>
  PROVE  LET p == Head(post)
         IN  /\ p \in Pieces /\ Tail(post) \in Seq(Pieces) /\ Append(pre, p) \in Seq(Pieces)
             /\ call = Append(pre, p) \o Tail(post)
             /\ Len(Flat(SourceMap, Append(pre, p))) = Len(Flat(SourceMap, pre)) + Len(Source(p))
             /\ Flat(OutcomeMap, Append(pre, p)) = buffer \o Outcome(p)
             /\ vlist = (IF Takes(p) THEN <<p[2]>> ELSE <<>>) \o Flat(ArgsMap, Tail(post))
             /\ fpos + Len(Source(p)) - 1 <= Len(Format)
             /\ \A i \in 1 .. Len(Source(p)) : Format[fpos + i - 1] = Source(p)[i]
<1> DEFINE p == Head(post)
           rest == Tail(post)
           S(s) == Flat(SourceMap, s)
<1>1. p \in Pieces /\ rest \in Seq(Pieces)
  BY HeadTailProperties
<1>2. Append(pre, p) \in Seq(Pieces) /\ <<p>> \in Seq(Pieces) /\ Append(pre, p) = pre \o <<p>>
  BY <1>1, AppendProperties, AppendIsConcat
<1>3. post = <<p>> \o rest
  <2>1. Len(post) \in Nat \ {0} /\ p = post[1]
    BY EmptySeq
  <2>2. SubSeq(post, 1, Len(post)) = <<post[1]>> \o SubSeq(post, 1 + 1, Len(post))
    BY <2>1, SubSeqRecursiveFirst
  <2>3. SubSeq(post, 1, Len(post)) = post
    BY SubSeqFull
  <2>4. Tail(post) = SubSeq(post, 1 + 1, Len(post))
    BY TailIsSubSeq
  <2> QED BY <2>1, <2>2, <2>3, <2>4
<1> HIDE DEF p, rest
<1>4. call = Append(pre, p) \o rest
  <2>1. call = pre \o (<<p>> \o rest)
    BY <1>3 DEF FormatAt
  <2>2. Associates(Pieces)
    BY Associative
  <2>3. (pre \o <<p>>) \o rest = pre \o (<<p>> \o rest)
    BY <1>1, <1>2, <2>2 DEF Associates
  <2> QED BY <1>2, <2>1, <2>3
<1>5. Source(p) \in Seq(Nat) /\ SourceMap[p] = Source(p)
  <2>1. SourceMap[p] \in Seq(Nat)
    BY <1>1, MapTypes DEF Maps
  <2> QED BY <1>1, <2>1 DEF SourceMap
<1>6. S(pre) \in Seq(Nat) /\ S(rest) \in Seq(Nat)
  BY <1>1, MapTypes, FlatMapType
<1>7. S(Append(pre, p)) = S(pre) \o Source(p)
  <2>1. \A s \in Seq(Pieces), a \in Pieces : S(Append(s, a)) = S(s) \o SourceMap[a]
    BY MapTypes, FlatMapAppend
  <2> QED BY <1>1, <1>5, <2>1
<1>8. Format = (S(pre) \o Source(p)) \o S(rest)
  <2>1. \A s, t \in Seq(Pieces) : S(s \o t) = S(s) \o S(t)
    <3>1. Maps(SourceMap, Pieces, Nat)
      BY MapTypes
    <3>2. Distributes(SourceMap, Pieces)
      BY ONLY <3>1, FlatMapDistributes
    <3> QED BY ONLY <3>2 DEF Distributes
  <2>2. call \in Seq(Pieces)
    BY DEF SerialType
  <2>3. S(Append(pre, p) \o rest) = S(Append(pre, p)) \o S(rest)
    BY <1>1, <1>2, <2>1
  <2>4. Format = S(call)
    BY <2>2, FormatFlat
  <2> HIDE DEF S
  <2> QED BY <1>4, <1>7, <2>3, <2>4
<1>9. Len(S(Append(pre, p))) = Len(S(pre)) + Len(Source(p))
  BY <1>5, <1>6, <1>7, ConcatProperties
<1>10. Flat(OutcomeMap, Append(pre, p)) = buffer \o Outcome(p)
  <2>1. \A s \in Seq(Pieces), a \in Pieces :
          Flat(OutcomeMap, Append(s, a)) = Flat(OutcomeMap, s) \o OutcomeMap[a]
    BY MapTypes, FlatMapAppend
  <2>2. OutcomeMap[p] = Outcome(p)
    BY <1>1 DEF OutcomeMap
  <2> QED BY <1>1, <2>1, <2>2 DEF FormatAt
<1>11. vlist = (IF Takes(p) THEN <<p[2]>> ELSE <<>>) \o Flat(ArgsMap, rest)
  <2>1. Flat(ArgsMap, post) = ArgsMap[p] \o Flat(ArgsMap, rest)
    BY MapTypes, FlatMapCons DEF p, rest
  <2>2. ArgsMap[p] = IF Takes(p) THEN <<p[2]>> ELSE <<>>
    BY <1>1 DEF ArgsMap
  <2> QED BY <2>1, <2>2 DEF FormatAt
<1>12. fpos = Len(S(pre)) + 1
  BY DEF FormatAt
<1> HIDE DEF S
<1>13. fpos + Len(Source(p)) - 1 <= Len(Format)
  BY <1>5, <1>6, <1>8, <1>12
<1>14. \A i \in 1 .. Len(Source(p)) : Format[fpos + i - 1] = Source(p)[i]
  <2> TAKE i \in 1 .. Len(Source(p))
  <2>1. ((S(pre) \o Source(p)) \o S(rest))[Len(S(pre)) + i] = Source(p)[i]
    BY ONLY <1>5, <1>6, i \in 1 .. Len(Source(p)), MiddleOf
  <2>2. fpos + i - 1 = Len(S(pre)) + i
    <3>1. Len(S(pre)) \in Nat /\ Len(Source(p)) \in Nat
      BY <1>5, <1>6
    <3> QED BY ONLY <1>12, <3>1, i \in 1 .. Len(Source(p))
  <2> QED BY ONLY <1>8, <2>1, <2>2
<1> QED BY <1>1, <1>2, <1>4, <1>9, <1>10, <1>11, <1>13, <1>14 DEF p, rest, S

(* A plain piece is a character, a directive is two.                       *)
LEMMA SourceIs ==
  ASSUME NEW p \in Pieces
  PROVE  /\ Plain(p) => Len(Source(p)) = 1 /\ Source(p)[1] = p[2] /\ p[2] # PERCENT
         /\ ~ Plain(p) => Len(Source(p)) = 2 /\ Source(p)[1] = PERCENT /\ Source(p)[2] = p[1]
BY PieceType DEF Source

(***************************************************************************)
(* What is sent and heard                                                  *)
(***************************************************************************)

LEMMA SentType ==
  ASSUME NEW s \in Seq(Nat) PROVE Sent(s) \in Seq(Nat)
<1>1. Maps(SentMap, Nat, Nat)
  BY MapTypes
<1> QED BY <1>1, SentFlat, FlatMapType

LEMMA SentEmpty == Sent(<<>>) = <<>>
<1>1. <<>> \in Seq(Nat)
  OBVIOUS
<1> QED BY <1>1, SentFlat, FlatMapEmpty

LEMMA SentCons ==
  ASSUME NEW s \in Seq(Nat), s # <<>>
  PROVE  Sent(s) = (IF Head(s) = LF THEN <<CR, LF>> ELSE <<Head(s)>>) \o Sent(Tail(s))
<1>1. Maps(SentMap, Nat, Nat)
  BY MapTypes
<1>2. Head(s) \in Nat /\ Tail(s) \in Seq(Nat)
  BY HeadTailProperties
<1>3. Flat(SentMap, s) = SentMap[Head(s)] \o Flat(SentMap, Tail(s))
  BY <1>1, FlatMapCons
<1>4. SentMap[Head(s)] = IF Head(s) = LF THEN <<CR, LF>> ELSE <<Head(s)>>
  BY <1>2 DEF SentMap
<1> QED BY <1>2, <1>3, <1>4, SentFlat

LEMMA HeardInType ==
  ASSUME NEW w \in Senders, NEW log \in Seq(Bytes)
  PROVE  HeardIn(w, log) \in Seq(Nat)
<1>1. Maps(HeardMap(w), Bytes, Nat)
  BY MapTypes
<1> QED BY <1>1, HeardFlat, FlatMapType

LEMMA HeardType ==
  ASSUME SerialType, NEW w \in Senders
  PROVE  Heard(w) \in Seq(Nat)
<1>1. wire \o fifo \in Seq(Bytes)
  BY ConcatProperties DEF SerialType
<1>2. Heard(w) = HeardIn(w, wire \o fifo)
  BY DEF Heard, HeardIn
<1>3. \A log \in Seq(Bytes) : HeardIn(w, log) \in Seq(Nat)
  BY HeardInType
<1> QED BY <1>1, <1>2, <1>3

(* A character that finds room is heard of its sender, and nothing else    *)
(* is.                                                                     *)
LEMMA StoredHeard ==
  ASSUME SerialType, NEW w \in Senders, NEW c \in Nat, Len(fifo) < depth,
         Stored(<<w, c>>), wire' = wire
  PROVE  /\ fifo' = Append(fifo, <<w, c>>) /\ fifo' \in Seq(Bytes) /\ Len(fifo') = Len(fifo) + 1
         /\ Heard(w)' = Heard(w) \o <<c>>
         /\ \A v \in Senders : v # w => Heard(v)' = Heard(v)
<1> DEFINE b == <<w, c>>
           log == wire \o fifo
<1>1. b \in Bytes /\ b[1] = w /\ b[2] = c
  BY DEF Bytes
<1>2. fifo' = Append(fifo, b)
  BY DEF Stored
<1>3. wire \in Seq(Bytes) /\ fifo \in Seq(Bytes)
  BY DEF SerialType
<1> HIDE DEF b
<1>4. fifo' \in Seq(Bytes) /\ Len(fifo') = Len(fifo) + 1
  BY <1>1, <1>2, <1>3, AppendProperties
<1>5. wire' \o fifo' = Append(log, b) /\ log \in Seq(Bytes)
  BY <1>1, <1>2, <1>3, AppendConcat, ConcatProperties
<1>6. \A v : Heard(v) = HeardIn(v, log) /\ Heard(v)' = HeardIn(v, wire' \o fifo')
  BY DEF Heard, HeardIn
<1>7. Append(log, b) \in Seq(Bytes)
  BY <1>1, <1>5, AppendProperties
<1> HIDE DEF log
<1>8. ASSUME NEW v \in Senders
      PROVE  Heard(v)' = Heard(v) \o (IF w = v THEN <<c>> ELSE <<>>)
  <2>1. Maps(HeardMap(v), Bytes, Nat)
    BY MapTypes
  <2>2. Flat(HeardMap(v), Append(log, b)) = Flat(HeardMap(v), log) \o HeardMap(v)[b]
    BY <1>1, <1>5, <2>1, FlatMapAppend
  <2>3. HeardMap(v)[b] = IF w = v THEN <<c>> ELSE <<>>
    BY <1>1 DEF HeardMap
  <2>4. HeardIn(v, log) = Flat(HeardMap(v), log)
    BY <1>5, HeardFlat
  <2>5. HeardIn(v, Append(log, b)) = Flat(HeardMap(v), Append(log, b))
    BY <1>7, HeardFlat
  <2> QED BY <1>5, <1>6, <2>2, <2>3, <2>4, <2>5
<1>9. \A v \in Senders : v # w => Heard(v)' = Heard(v)
  <2> SUFFICES ASSUME NEW v \in Senders, v # w PROVE Heard(v)' = Heard(v)
    OBVIOUS
  <2>1. Heard(v)' = Heard(v) \o <<>>
    BY <1>8
  <2>2. Heard(v) \in Seq(Nat)
    BY HeardType
  <2>3. Heard(v) \o <<>> = Heard(v)
    BY <2>2, ConcatEmptySeq
  <2> QED BY <2>1, <2>3
<1> QED BY <1>2, <1>4, <1>8, <1>9 DEF b

(* A sender that does not move keeps its part.                             *)
LEMMA SendKept ==
  ASSUME NEW v \in Senders, SendOf(v), at'[v] = at[v], todo'[v] = todo[v],
         Heard(v)' = Heard(v), Total(v)' = Total(v)
  PROVE  SendOf(v)'
<1>1. Rest(v)' = Rest(v)
  BY DEF Rest
<1> QED BY <1>1 DEF SendOf

LEMMA TotalKept ==
  ASSUME NEW v \in Senders,
         v = "irq" => keys' = keys,
         v = "thread" => /\ buffer' = buffer
                         /\ \/ at'["thread"] = at["thread"]
                            \/ at["thread"] \notin {"boot", "format"} /\ at'["thread"] \notin {"boot", "format"}
  PROVE  Total(v)' = Total(v)
<1>1. CASE v = "irq"
  BY <1>1 DEF Total
<1>2. CASE v = "thread"
  BY <1>2 DEF Total
<1> QED BY <1>1, <1>2 DEF Senders

LEMMA HeardKept ==
  ASSUME wire' = wire, fifo' = fifo PROVE \A v : Heard(v)' = Heard(v)
BY DEF Heard

(***************************************************************************)
(* Every step keeps the invariant                                          *)
(***************************************************************************)

LEMMA SerialInit == Init => SerialInv
<1> SUFFICES ASSUME Init PROVE SerialInv
  OBVIOUS
<1> USE DEF Init
<1>1. SerialType
  BY DEF SerialType, Senders, Where
<1>2. FormatInv
  BY DEF FormatInv
<1>3. ChipInv
  BY DEF ChipInv
<1>4. ASSUME NEW w \in Senders PROVE SendOf(w)
  <2>1. at[w] \in {"boot", "out"}
    BY DEF Senders
  <2>2. Rest(w) = <<>>
    BY <2>1 DEF Rest
  <2>3. Heard(w) = <<>>
    <3>1. wire \o fifo = <<>>
      OBVIOUS
    <3>2. Heard(w) = HeardIn(w, <<>>) /\ <<>> \in Seq(Bytes)
      BY <3>1 DEF Heard, HeardIn
    <3> QED BY <3>2, HeardFlat, FlatMapEmpty
  <2>4. Total(w) = <<>>
    <3>1. KeyLogs(0) = <<>>
      <4>1. [i \in 1 .. 0 |-> Sent(KeyLog)] = <<>>
        OBVIOUS
      <4> QED BY <4>1, FlatEmpty DEF KeyLogs
    <3> QED BY <3>1 DEF Total, Senders
  <2>5. <<>> \o <<>> = <<>>
    OBVIOUS
  <2> QED BY <2>1, <2>2, <2>3, <2>4, <2>5 DEF SendOf
<1> QED BY <1>1, <1>2, <1>3, <1>4 DEF SerialInv, SendInv

(* vsprintf() takes a character or a directive.                            *)
LEMMA FormatStep ==
  ASSUME SerialInv, FormatPlain \/ FormatDirective
  PROVE  SerialInv'
<1> USE DEF SerialInv
<1>1. /\ at["thread"] = "format" /\ fpos <= Len(Format)
      /\ UNCHANGED <<call, todo, at, serial_enabled, depth, fifo, wire, keys>>
  BY DEF FormatPlain, FormatDirective, Formatting, chip
<1>2. PICK pre \in Seq(Pieces), post \in Seq(Pieces) : FormatAt(pre, post)
  BY <1>1 DEF FormatInv
<1>3. post # <<>>
  <2> SUFFICES ASSUME post = <<>> PROVE FALSE
    OBVIOUS
  <2>1. call = pre
    <3>1. pre \o <<>> = pre
      BY ConcatEmptySeq
    <3> QED BY <1>2, <3>1 DEF FormatAt
  <2>2. Format = Flat(SourceMap, pre)
    BY <2>1, FormatFlat DEF SerialType
  <2>3. Flat(SourceMap, pre) \in Seq(Nat)
    BY MapTypes, FlatMapType
  <2>4. fpos = Len(Flat(SourceMap, pre)) + 1 /\ Len(Flat(SourceMap, pre)) \in Nat
    BY <1>2, <2>3, LenProperties DEF FormatAt
  <2> QED BY <1>1, <2>2, <2>4
<1> DEFINE p == Head(post)
           pre1 == Append(pre, p)
           post1 == Tail(post)
           A == Flat(ArgsMap, post1)
<1>4. /\ p \in Pieces /\ post1 \in Seq(Pieces) /\ pre1 \in Seq(Pieces)
      /\ call = pre1 \o post1
      /\ Len(Flat(SourceMap, pre1)) = Len(Flat(SourceMap, pre)) + Len(Source(p))
      /\ Flat(OutcomeMap, pre1) = buffer \o Outcome(p)
      /\ vlist = (IF Takes(p) THEN <<p[2]>> ELSE <<>>) \o A
      /\ \A i \in 1 .. Len(Source(p)) : Format[fpos + i - 1] = Source(p)[i]
  BY <1>2, <1>3, PieceAt
<1>5. A \in Seq(Nat)
  BY <1>4, MapTypes, FlatMapType
<1>6. fpos \in Nat /\ fpos = Len(Flat(SourceMap, pre)) + 1 /\ buffer \in Seq(Nat)
  BY <1>2 DEF FormatAt, SerialType
<1>7. p[1] \in Nat /\ p[2] \in Nat
  BY <1>4, PieceType
<1> HIDE DEF p, pre1, post1, A
<1>8. FormatAt(pre1, post1)'
  <2>1. CASE Plain(p)
    <3>1. Len(Source(p)) = 1 /\ Source(p)[1] = p[2] /\ p[2] # PERCENT
      BY <1>4, <2>1, SourceIs
    <3>2. fpos + 1 - 1 = fpos /\ Format[fpos + 1 - 1] = p[2]
      BY <1>4, <1>6, <3>1
    <3>3. FormatPlain
      BY <3>1, <3>2 DEF FormatDirective
    <3>4. buffer' = Append(buffer, p[2]) /\ fpos' = fpos + 1 /\ vlist' = vlist
      BY <3>2, <3>3 DEF FormatPlain
    <3>5. Outcome(p) = <<p[2]>>
      BY <2>1 DEF Outcome
    <3>6. buffer' = buffer \o Outcome(p)
      BY <1>6, <1>7, <3>4, <3>5, AppendIsConcat
    <3>7. ~ Takes(p)
      <4>1. p[1] = 0 /\ (Takes(p) <=> p[1] \in Letters)
        BY <2>1 DEF Plain, Takes, Letters
      <4> QED BY <4>1, LetterCodes
    <3>8. vlist = A
      BY <1>4, <1>5, <3>7, ConcatEmptySeq
    <3> QED BY <1>1, <1>4, <1>6, <3>1, <3>4, <3>6, <3>8 DEF FormatAt, A
  <2>2. CASE ~ Plain(p)
    <3>1. Len(Source(p)) = 2 /\ Source(p)[1] = PERCENT /\ Source(p)[2] = p[1]
      BY <1>4, <2>2, SourceIs
    <3>2. fpos + 1 - 1 = fpos /\ fpos + 2 - 1 = fpos + 1
      BY <1>6
    <3>3. Format[fpos] = PERCENT /\ Format[fpos + 1] = p[1]
      <4>1. Format[fpos + 1 - 1] = PERCENT /\ Format[fpos + 2 - 1] = p[1]
        BY <1>4, <3>1
      <4> QED BY <3>2, <4>1
    <3>4. FormatDirective
      BY <3>3 DEF FormatPlain
    <3>5. (\E l \in DOMAIN Letter : Letter[l] = p[1]) <=> Takes(p)
      BY DEF Takes
    <3>6. /\ buffer' = buffer \o Converted(p[1], IF Takes(p) THEN Head(vlist) ELSE 0)
          /\ vlist' = IF Takes(p) THEN Tail(vlist) ELSE vlist
          /\ fpos' = fpos + 2
      BY <3>3, <3>4, <3>5 DEF FormatDirective
    <3>7. Takes(p) => Head(vlist) = p[2] /\ Tail(vlist) = A
      <4> SUFFICES ASSUME Takes(p) PROVE Head(vlist) = p[2] /\ Tail(vlist) = A
        OBVIOUS
      <4>1. vlist = <<p[2]>> \o A
        BY <1>4
      <4>2. Head(<<p[2]>> \o A) = p[2] /\ Tail(<<p[2]>> \o A) = A
        <5>1. \A c \in Nat, r \in Seq(Nat) : Head(<<c>> \o r) = c /\ Tail(<<c>> \o r) = r
          BY ConsIs
        <5> QED BY <1>5, <1>7, <5>1
      <4> QED BY <4>1, <4>2
    <3>8. ~ Takes(p) => vlist = A
      BY <1>4, <1>5, ConcatEmptySeq
    <3>9. buffer' = buffer \o Outcome(p)
      BY <2>2, <3>6, <3>7 DEF Outcome
    <3>10. vlist' = A
      BY <3>6, <3>7, <3>8
    <3>11. fpos' = Len(Flat(SourceMap, pre1)) + 1
      <4>1. Len(Flat(SourceMap, pre)) \in Nat
        BY LenProperties, MapTypes, FlatMapType
      <4> QED BY <1>4, <1>6, <3>1, <3>6, <4>1
    <3>12. buffer' = Flat(OutcomeMap, pre1) /\ vlist' = Flat(ArgsMap, post1) /\ call' = pre1 \o post1
      BY <1>1, <1>4, <3>9, <3>10 DEF A
    <3> QED BY <3>11, <3>12 DEF FormatAt
  <2> QED BY <2>1, <2>2
<1>9. buffer' \in Seq(Nat) /\ vlist' \in Seq(Nat) /\ fpos' \in Nat /\ fpos' # 0
  <2>1. /\ buffer' = Flat(OutcomeMap, pre1) /\ vlist' = Flat(ArgsMap, post1)
        /\ fpos' = Len(Flat(SourceMap, pre1)) + 1
    BY <1>8 DEF FormatAt
  <2>2. \A s \in Seq(Pieces) : Flat(OutcomeMap, s) \in Seq(Nat)
    BY MapTypes, FlatMapType
  <2>3. \A s \in Seq(Pieces) : Flat(ArgsMap, s) \in Seq(Nat)
    BY MapTypes, FlatMapType
  <2>4. \A s \in Seq(Pieces) : Flat(SourceMap, s) \in Seq(Nat)
    BY MapTypes, FlatMapType
  <2>5. Len(Flat(SourceMap, pre1)) \in Nat
    BY <1>4, <2>4, LenProperties
  <2>6. Flat(OutcomeMap, pre1) \in Seq(Nat) /\ Flat(ArgsMap, post1) \in Seq(Nat)
    BY <1>4, <2>2, <2>3
  <2> QED BY <2>1, <2>5, <2>6
<1>10. SerialType'
  BY <1>1, <1>9 DEF SerialType
<1>11. FormatInv'
  BY <1>1, <1>4, <1>8 DEF FormatInv
<1>12. ChipInv'
  BY <1>1, <1>9 DEF ChipInv
<1>13. SendInv'
  <2> SUFFICES ASSUME NEW v \in Senders PROVE SendOf(v)'
    BY DEF SendInv
  <2>1. Total(v)' = Total(v)
    BY <1>1 DEF Total, Senders
  <2>2. Heard(v)' = Heard(v)
    BY <1>1, HeardKept
  <2> QED BY <1>1, <2>1, <2>2, SendKept DEF SendInv
<1> QED BY <1>10, <1>11, <1>12, <1>13

(* The end of the format: nothing is left of it.                           *)
LEMMA FormatEndStep ==
  ASSUME SerialInv, FormatEnd
  PROVE  SerialInv'
<1> USE DEF SerialInv
<1>1. /\ at["thread"] = "format" /\ fpos > Len(Format)
      /\ todo' = [todo EXCEPT !["thread"] = buffer]
      /\ at' = [at EXCEPT !["thread"] = "next"]
      /\ UNCHANGED <<call, fpos, vlist, buffer, serial_enabled, depth, fifo, wire, keys>>
  BY DEF FormatEnd, Formatting, chip
<1>2. PICK pre \in Seq(Pieces), post \in Seq(Pieces) : FormatAt(pre, post)
  BY <1>1 DEF FormatInv
<1>3. post = <<>>
  <2> SUFFICES ASSUME post # <<>> PROVE FALSE
    OBVIOUS
  <2> DEFINE p == Head(post)
  <2>1. p \in Pieces /\ fpos + Len(Source(p)) - 1 <= Len(Format)
    BY <1>2, PieceAt
  <2>2. Len(Source(p)) \in {1, 2}
    BY <2>1, SourceIs
  <2>3. fpos \in Nat /\ Len(Format) \in Nat
    <3>1. Flat(SourceMap, call) \in Seq(Nat)
      BY MapTypes, FlatMapType DEF SerialType
    <3>2. Format = Flat(SourceMap, call)
      BY FormatFlat DEF SerialType
    <3>3. Len(Format) \in Nat
      BY <3>1, <3>2, LenProperties
    <3> QED BY <3>3 DEF SerialType
  <2>4. \A a, b \in Nat, c \in {1, 2} : a > b => ~ (a + c - 1 <= b)
    OBVIOUS
  <2> HIDE DEF p
  <2> QED BY <1>1, <2>1, <2>2, <2>3, <2>4
<1>4. buffer = Flat(OutcomeMap, call) /\ vlist = <<>>
  <2>1. pre \o <<>> = pre
    BY ConcatEmptySeq
  <2>2. call = pre
    BY <1>2, <1>3, <2>1 DEF FormatAt
  <2> QED BY <1>2, <1>3, <2>2, FlatMapEmpty DEF FormatAt
<1>5. at'["thread"] = "next" /\ at'["irq"] = at["irq"] /\ todo'["thread"] = buffer
      /\ todo'["irq"] = todo["irq"]
  BY <1>1 DEF SerialType, Senders
<1>6. SerialType'
  BY <1>1 DEF SerialType, Where
<1>7. FormatInv'
  BY <1>1, <1>4, <1>5 DEF FormatInv
<1>8. ChipInv'
  BY <1>1, <1>5 DEF ChipInv
<1>9. SendOf("irq")'
  <2>1. "irq" \in Senders /\ SendOf("irq")
    BY DEF SendInv, Senders
  <2>2. Heard("irq")' = Heard("irq") /\ Total("irq")' = Total("irq")
    BY <1>1, <2>1, HeardKept, TotalKept
  <2> QED BY <1>5, <2>1, <2>2, SendKept
<1>10. SendOf("thread")'
  <2>1. "thread" \in Senders /\ SendOf("thread")
    BY DEF SendInv, Senders
  <2>2. Heard("thread")' = Heard("thread") /\ Heard("thread") \in Seq(Nat)
    BY <1>1, <2>1, HeardKept, HeardType
  <2>3. Rest("thread") = <<>> /\ Total("thread") = Sent(Banner)
    BY <1>1 DEF Rest, Total
  <2>4. Heard("thread") = Sent(Banner)
    BY <2>1, <2>2, <2>3, ConcatEmptySeq DEF SendOf
  <2>5. Rest("thread")' = Sent(buffer)
    BY <1>5 DEF Rest
  <2>6. Total("thread")' = Sent(Banner) \o Sent(buffer)
    BY <1>1, <1>5 DEF Total
  <2> QED BY <1>5, <2>2, <2>4, <2>5, <2>6 DEF SendOf
<1> QED BY <1>6, <1>7, <1>8, <1>9, <1>10 DEF SendInv, Senders

LEMMA SerialInitStep ==
  ASSUME SerialInv, serial_init
  PROVE  SerialInv'
<1> USE DEF SerialInv
<1>1. /\ serial_enabled = 0 /\ serial_enabled' = 1 /\ depth' = FifoDepth
      /\ todo' = [todo EXCEPT !["thread"] = Banner]
      /\ at' = [at EXCEPT !["thread"] = "next"]
      /\ UNCHANGED <<call, fpos, vlist, buffer, fifo, wire, keys>>
  BY DEF serial_init
<1>2. at["thread"] = "boot" /\ call = <<>> /\ vlist = <<>> /\ buffer = <<>>
  BY <1>1 DEF ChipInv, FormatInv
<1>3. Banner \in Seq(Nat)
  BY StringsAssumption
<1>4. at'["thread"] = "next" /\ at'["irq"] = at["irq"] /\ todo'["thread"] = Banner
      /\ todo'["irq"] = todo["irq"]
  BY <1>1 DEF SerialType, Senders
<1>5. SerialType'
  <2>1. todo' \in [Senders -> Seq(Nat)]
    BY <1>1, <1>3 DEF SerialType
  <2>2. at' \in [Senders -> Where]
    BY <1>1 DEF SerialType, Where
  <2>3. depth' \in Nat \ {0}
    BY <1>1, FifoAssumption
  <2> QED BY <1>1, <2>1, <2>2, <2>3 DEF SerialType
<1>6. FormatInv'
  BY <1>1, <1>2, <1>4, FlatMapEmpty DEF FormatInv
<1>7. ChipInv'
  BY <1>1, <1>4 DEF ChipInv
<1>8. SendOf("irq")'
  <2>1. "irq" \in Senders /\ SendOf("irq")
    BY DEF SendInv, Senders
  <2>2. Heard("irq")' = Heard("irq") /\ Total("irq")' = Total("irq")
    BY <1>1, <2>1, HeardKept, TotalKept
  <2> QED BY <1>4, <2>1, <2>2, SendKept
<1>9. SendOf("thread")'
  <2>1. "thread" \in Senders /\ SendOf("thread")
    BY DEF SendInv, Senders
  <2>2. Heard("thread")' = Heard("thread") /\ Heard("thread") \in Seq(Nat)
    BY <1>1, <2>1, HeardKept, HeardType
  <2>3. Rest("thread") = <<>> /\ Total("thread") = <<>>
    BY <1>2 DEF Rest, Total
  <2>4. Heard("thread") = <<>>
    BY <2>1, <2>2, <2>3, ConcatEmptySeq DEF SendOf
  <2>5. Rest("thread")' = Sent(Banner) /\ Sent(Banner) \in Seq(Nat)
    BY <1>3, <1>4, SentType DEF Rest
  <2>6. Total("thread")' = Sent(Banner) \o <<>>
    BY <1>1, <1>2, <1>4, SentEmpty DEF Total
  <2>7. <<>> \o Sent(Banner) = Sent(Banner) /\ Sent(Banner) \o <<>> = Sent(Banner)
    BY <2>5, ConcatEmptySeq
  <2> QED BY <1>4, <2>2, <2>4, <2>5, <2>6, <2>7 DEF SendOf
<1> QED BY <1>5, <1>6, <1>7, <1>8, <1>9 DEF SendInv, Senders

LEMMA PrintfStep ==
  ASSUME SerialInv, serial_printf
  PROVE  SerialInv'
<1> USE DEF SerialInv
<1>1. /\ at["thread"] = "out" /\ fpos = 0
      /\ vlist' = Args(call') /\ fpos' = 1 /\ buffer' = <<>>
      /\ at' = [at EXCEPT !["thread"] = "format"]
      /\ UNCHANGED <<todo, serial_enabled, depth, fifo, wire, keys>>
  BY DEF serial_printf, chip
<1>2. call' \in Seq(Pieces)
  <2>1. PICK n \in 0 .. MaxPieces : call' \in [1 .. n -> Pieces]
    BY DEF serial_printf
  <2>2. n \in Nat
    BY SerialBoundAssumption
  <2> QED BY <2>1, <2>2, IsSeq
<1>3. at'["thread"] = "format" /\ at'["irq"] = at["irq"]
  BY <1>1 DEF SerialType, Senders
<1>4. vlist' = Flat(ArgsMap, call') /\ vlist' \in Seq(Nat)
  <2>1. \A s \in Seq(Pieces) : Args(s) = Flat(ArgsMap, s)
    BY ArgsFlat
  <2>2. \A s \in Seq(Pieces) : Flat(ArgsMap, s) \in Seq(Nat)
    BY MapTypes, FlatMapType
  <2>3. vlist' = Flat(ArgsMap, call')
    BY <1>1, <1>2, <2>1
  <2>4. Flat(ArgsMap, call') \in Seq(Nat)
    BY <1>2, <2>2
  <2> QED BY <2>3, <2>4
<1>5. SerialType'
  <2>1. at' \in [Senders -> Where]
    BY <1>1 DEF SerialType, Where
  <2>2. fpos' \in Nat /\ buffer' \in Seq(Nat)
    BY <1>1
  <2> QED BY <1>1, <1>2, <1>4, <2>1, <2>2 DEF SerialType
<1>6. FormatInv'
  <2>0. PICK c \in Seq(Pieces) : c = call'
    BY <1>2
  <2>1. <<>> \in Seq(Pieces)
    OBVIOUS
  <2>2. <<>> \o c = c
    BY ConcatEmptySeq
  <2>3. Len(<<>>) = 0
    OBVIOUS
  <2>4. FormatAt(<<>>, c)'
    BY <1>1, <1>4, <2>0, <2>2, <2>3, FlatMapEmpty DEF FormatAt
  <2>5. \E pre, post \in Seq(Pieces) : FormatAt(pre, post)'
    BY <2>1, <2>4
  <2> QED BY <1>3, <2>5 DEF FormatInv
<1>7. ChipInv'
  BY <1>1, <1>3 DEF ChipInv
<1>8. SendOf("irq")'
  <2>1. "irq" \in Senders /\ SendOf("irq")
    BY DEF SendInv, Senders
  <2>2. Heard("irq")' = Heard("irq") /\ Total("irq")' = Total("irq")
    BY <1>1, <2>1, HeardKept, TotalKept
  <2> QED BY <1>1, <1>3, <2>1, <2>2, SendKept
<1>9. SendOf("thread")'
  <2>1. "thread" \in Senders /\ SendOf("thread")
    BY DEF SendInv, Senders
  <2>2. Heard("thread")' = Heard("thread") /\ Heard("thread") \in Seq(Nat)
    BY <1>1, <2>1, HeardKept, HeardType
  <2>3. buffer = <<>>
    BY <1>1 DEF ChipInv
  <2>4. Sent(Banner) \in Seq(Nat)
    BY StringsAssumption, SentType
  <2>5. Rest("thread") = <<>> /\ Total("thread") = Sent(Banner) \o <<>>
    BY <1>1, <2>3, SentEmpty DEF Rest, Total
  <2>6. Heard("thread") \o <<>> = Sent(Banner)
    BY <2>1, <2>4, <2>5, ConcatEmptySeq DEF SendOf
  <2>7. Rest("thread")' = <<>> /\ Total("thread")' = Sent(Banner)
    BY <1>3 DEF Rest, Total
  <2> QED BY <1>3, <2>2, <2>6, <2>7 DEF SendOf
<1> QED BY <1>5, <1>6, <1>7, <1>8, <1>9 DEF SendInv, Senders

(* A step of a sender: it goes from one place of its loop to another.      *)
Loop == {"next", "waitcr", "putcr", "wait", "put", "out"}

Moves(w) ==
  /\ UNCHANGED <<call, fpos, vlist, buffer, serial_enabled, depth, keys>>
  /\ at[w] \in Loop /\ at'[w] \in Loop /\ at' \in [Senders -> Where]
  /\ \A v \in Senders : v # w => at'[v] = at[v] /\ todo'[v] = todo[v]

LEMMA FormatKept ==
  ASSUME SerialInv, NEW w \in Senders, Moves(w)
  PROVE  FormatInv'
<1>1. \/ at'["thread"] = at["thread"]
      \/ at["thread"] \notin {"boot", "format"} /\ at'["thread"] \notin {"boot", "format"}
  BY DEF Moves, Loop, Senders
<1>2. UNCHANGED <<call, fpos, vlist, buffer>>
  BY DEF Moves
<1>3. \A pre, post : FormatAt(pre, post)' <=> FormatAt(pre, post)
  BY <1>2 DEF FormatAt
<1> QED BY <1>1, <1>2, <1>3 DEF FormatInv, SerialInv

LEMMA ChipKept ==
  ASSUME SerialInv, NEW w \in Senders, Moves(w),
         at'["irq"] \in {"put", "putcr"} => fifo' = <<>>,
         at'["thread"] \in {"put", "putcr"} => Len(fifo') <= 1
  PROVE  ChipInv'
<1>1. at'["thread"] = "boot" <=> at["thread"] = "boot"
  BY DEF Moves, Loop, Senders
<1> QED BY <1>1 DEF ChipInv, SerialInv, Moves

LEMMA SendMoved ==
  ASSUME SerialInv, NEW w \in Senders, Moves(w), SendOf(w)',
         \A v \in Senders : v # w => Heard(v)' = Heard(v)
  PROVE  SendInv'
<1> SUFFICES ASSUME NEW v \in Senders, v # w PROVE SendOf(v)'
  BY DEF SendInv
<1>1. Total(v)' = Total(v)
  <2>1. v = "thread" => buffer' = buffer /\ at'["thread"] = at["thread"]
    BY DEF Moves
  <2> QED BY <2>1, TotalKept DEF Moves
<1>2. SendOf(v) /\ at'[v] = at[v] /\ todo'[v] = todo[v] /\ Heard(v)' = Heard(v)
  BY DEF Moves, SerialInv, SendInv
<1> QED BY <1>1, <1>2, SendKept

LEMMA MoverTotal ==
  ASSUME NEW w \in Senders, Moves(w)
  PROVE  Total(w)' = Total(w)
BY TotalKept DEF Moves, Loop

LEMMA TakeStep ==
  ASSUME SerialInv, NEW w \in Senders, Take(w)
  PROVE  SerialInv'
<1> USE DEF SerialInv
<1>1. /\ at[w] = "next" /\ UNCHANGED <<todo, fifo, wire>>
      /\ UNCHANGED <<call, fpos, vlist, buffer, serial_enabled, depth, keys>>
  BY DEF Take, local, chip
<1>2. todo[w] \in Seq(Nat) /\ at \in [Senders -> Where]
  BY DEF SerialType
<1>3. PICK x \in {"out", "waitcr", "wait"} :
        /\ at' = [at EXCEPT ![w] = x]
        /\ x = "out" => todo[w] = <<>>
        /\ x = "waitcr" => todo[w] # <<>> /\ Head(todo[w]) = LF
        /\ x = "wait" => todo[w] # <<>> /\ Head(todo[w]) # LF
  BY DEF Take
<1>4. at'[w] = x /\ at' \in [Senders -> Where] /\ \A v \in Senders : v # w => at'[v] = at[v]
  BY <1>2, <1>3 DEF Where
<1>5. Moves(w)
  BY <1>1, <1>4 DEF Moves, Loop
<1>6. SerialType'
  BY <1>1, <1>4 DEF SerialType
<1>7. FormatInv'
  BY <1>5, FormatKept
<1>8. ChipInv'
  <2>1. at'["irq"] \in {"put", "putcr"} => fifo' = <<>>
    BY <1>1, <1>4 DEF ChipInv, Senders
  <2>2. at'["thread"] \in {"put", "putcr"} => Len(fifo') <= 1
    BY <1>1, <1>4 DEF ChipInv, Senders
  <2> QED BY <1>5, <2>1, <2>2, ChipKept
<1>9. SendOf(w)'
  <2>1. Rest(w) = Sent(todo[w]) /\ SendOf(w)
    BY <1>1 DEF Rest, SendInv
  <2>2. Rest(w)' = Rest(w)
    <3>1. CASE x = "out"
      BY <1>3, <1>4, <2>1, <3>1, SentEmpty DEF Rest
    <3>2. CASE x = "waitcr"
      BY <1>1, <1>4, <2>1, <3>2 DEF Rest
    <3>3. CASE x = "wait"
      <4>1. Sent(todo[w]) = <<Head(todo[w])>> \o Sent(Tail(todo[w]))
        BY <1>2, <1>3, <3>3, SentCons
      <4>2. Rest(w)' = <<Head(todo[w])>> \o Sent(Tail(todo[w]))
        BY <1>1, <1>4, <3>3 DEF Rest
      <4> QED BY <2>1, <4>1, <4>2
    <3> QED BY <3>1, <3>2, <3>3
  <2>3. Heard(w)' = Heard(w) /\ Total(w)' = Total(w)
    BY <1>1, <1>5, HeardKept, MoverTotal
  <2> QED BY <1>1, <1>3, <1>4, <2>1, <2>2, <2>3 DEF SendOf
<1>10. SendInv'
  BY <1>1, <1>5, <1>9, HeardKept, SendMoved
<1> QED BY <1>6, <1>7, <1>8, <1>10

LEMMA WaitStep ==
  ASSUME SerialInv, NEW w \in Senders, Wait(w)
  PROVE  SerialInv'
<1> USE DEF SerialInv
<1>1. /\ at[w] \in {"wait", "waitcr"} /\ fifo = <<>> /\ UNCHANGED <<todo, fifo, wire>>
      /\ UNCHANGED <<call, fpos, vlist, buffer, serial_enabled, depth, keys>>
      /\ at' = [at EXCEPT ![w] = IF @ = "wait" THEN "put" ELSE "putcr"]
  BY DEF Wait, local, chip
<1>2. at \in [Senders -> Where]
  BY DEF SerialType
<1>3. /\ at'[w] = IF at[w] = "wait" THEN "put" ELSE "putcr"
      /\ at' \in [Senders -> Where] /\ \A v \in Senders : v # w => at'[v] = at[v]
  BY <1>1, <1>2 DEF Where
<1>4. Moves(w)
  BY <1>1, <1>3 DEF Moves, Loop
<1>5. SerialType'
  BY <1>1, <1>3 DEF SerialType
<1>6. FormatInv'
  BY <1>4, FormatKept
<1>7. ChipInv'
  <2>1. fifo' = <<>> /\ Len(fifo') <= 1
    BY <1>1
  <2> QED BY <1>4, <2>1, ChipKept
<1>8. SendOf(w)'
  <2>1. SendOf(w)
    BY DEF SendInv
  <2>2. Rest(w)' = Rest(w)
    BY <1>1, <1>3 DEF Rest
  <2>3. Heard(w)' = Heard(w) /\ Total(w)' = Total(w)
    BY <1>1, <1>4, HeardKept, MoverTotal
  <2> QED BY <1>1, <1>3, <2>1, <2>2, <2>3 DEF SendOf
<1>9. SendInv'
  BY <1>1, <1>4, <1>8, HeardKept, SendMoved
<1> QED BY <1>5, <1>6, <1>7, <1>9

(* The chip has room for who stores, although the other may have come      *)
(* between the wait and the store.                                         *)
LEMMA Room ==
  ASSUME SerialInv, NEW w \in Senders, at[w] \in {"put", "putcr"}
  PROVE  Len(fifo) \in Nat /\ Len(fifo) < depth /\ (w = "irq" => Len(fifo) = 0)
<1>1. fifo \in Seq(Bytes) /\ depth \in Nat \ {0}
  BY DEF SerialInv, SerialType
<1>2. Len(fifo) \in Nat
  BY <1>1, LenProperties
<1>3. CASE w = "irq"
  <2>1. fifo = <<>>
    BY <1>3 DEF SerialInv, ChipInv
  <2> QED BY <1>1, <1>2, <2>1
<1>4. CASE w = "thread"
  <2>1. Len(fifo) <= 1 /\ depth = FifoDepth
    BY <1>4 DEF SerialInv, ChipInv
  <2> QED BY <1>2, <1>4, <2>1, FifoAssumption
<1> QED BY <1>3, <1>4 DEF Senders

LEMMA StoreChip ==
  ASSUME SerialInv, NEW w \in Senders, Moves(w), Running(w),
         at[w] \in {"put", "putcr"}, at'[w] \notin {"put", "putcr"},
         Len(fifo') = Len(fifo) + 1
  PROVE  ChipInv'
<1>1. Len(fifo) \in Nat /\ (w = "irq" => Len(fifo) = 0)
  BY Room
<1>2. at'["irq"] \notin {"put", "putcr"}
  BY DEF Running, Moves, Senders
<1>3. at'["thread"] \in {"put", "putcr"} => Len(fifo') <= 1
  BY <1>1 DEF Senders
<1> QED BY <1>2, <1>3, ChipKept

LEMMA PutCrStep ==
  ASSUME SerialInv, NEW w \in Senders, PutCr(w)
  PROVE  SerialInv'
<1> USE DEF SerialInv
<1>1. /\ at[w] = "putcr" /\ Running(w) /\ Stored(<<w, CR>>) /\ UNCHANGED <<todo, wire>>
      /\ UNCHANGED <<call, fpos, vlist, buffer, serial_enabled, depth, keys>>
      /\ at' = [at EXCEPT ![w] = "wait"]
  BY DEF PutCr, local
<1>2. at \in [Senders -> Where] /\ todo[w] \in Seq(Nat)
  BY DEF SerialType
<1>3. at'[w] = "wait" /\ at' \in [Senders -> Where] /\ \A v \in Senders : v # w => at'[v] = at[v]
  BY <1>1, <1>2 DEF Where
<1>4. Moves(w)
  BY <1>1, <1>3 DEF Moves, Loop
<1>5. CR \in Nat /\ Len(fifo) < depth
  BY <1>1, Room DEF CR
<1>6. /\ fifo' \in Seq(Bytes) /\ Len(fifo') = Len(fifo) + 1
      /\ Heard(w)' = Heard(w) \o <<CR>>
      /\ \A v \in Senders : v # w => Heard(v)' = Heard(v)
  BY <1>1, <1>5, StoredHeard
<1>7. SerialType'
  BY <1>1, <1>3, <1>6 DEF SerialType
<1>8. FormatInv'
  BY <1>4, FormatKept
<1>9. ChipInv'
  BY <1>1, <1>3, <1>4, <1>6, StoreChip
<1>10. SendOf(w)'
  <2>1. SendOf(w)
    BY DEF SendInv
  <2>2. todo[w] # <<>> /\ Head(todo[w]) = LF
    BY <1>1, <2>1 DEF SendOf
  <2>3. Rest(w) = Sent(todo[w]) /\ Sent(todo[w]) = <<CR, LF>> \o Sent(Tail(todo[w]))
    BY <1>1, <1>2, <2>2, SentCons DEF Rest
  <2>4. Rest(w)' = <<LF>> \o Sent(Tail(todo[w]))
    BY <1>1, <1>3, <2>2 DEF Rest
  <2>5. Tail(todo[w]) \in Seq(Nat)
    BY <1>2, <2>2, HeadTailProperties
  <2>6. Sent(Tail(todo[w])) \in Seq(Nat)
    BY <2>5, SentType
  <2>7. <<CR>> \in Seq(Nat) /\ <<LF>> \in Seq(Nat) /\ <<CR, LF>> = <<CR>> \o <<LF>>
    BY DEF CR, LF
  <2>8. Associates(Nat)
    BY Associative
  <2>9. \A x, y \in Seq(Nat) : x \o y \in Seq(Nat)
    BY ConcatProperties
  <2>10. Heard(w) \in Seq(Nat)
    BY HeardType
  <2> DEFINE tl == Sent(Tail(todo[w]))
  <2>11. (Heard(w) \o <<CR>>) \o (<<LF>> \o tl) = Heard(w) \o ((<<CR>> \o <<LF>>) \o tl)
    <3> HIDE DEF tl
    <3>1. tl \in Seq(Nat)
      BY <2>6 DEF tl
    <3>2. <<LF>> \o tl \in Seq(Nat)
      BY <2>7, <2>9, <3>1
    <3>3. (Heard(w) \o <<CR>>) \o (<<LF>> \o tl) = Heard(w) \o (<<CR>> \o (<<LF>> \o tl))
      BY <2>7, <2>8, <2>10, <3>2 DEF Associates
    <3>4. (<<CR>> \o <<LF>>) \o tl = <<CR>> \o (<<LF>> \o tl)
      BY <2>7, <2>8, <3>1 DEF Associates
    <3> QED BY <3>3, <3>4
  <2>12. Total(w)' = Total(w)
    BY <1>4, MoverTotal
  <2>13. Heard(w)' \o Rest(w)' = Heard(w) \o Rest(w)
    BY <1>6, <2>3, <2>4, <2>7, <2>11
  <2> QED BY <1>1, <1>3, <2>1, <2>2, <2>12, <2>13 DEF SendOf
<1>11. SendInv'
  BY <1>4, <1>6, <1>10, SendMoved
<1> QED BY <1>7, <1>8, <1>9, <1>11

LEMMA PutStep ==
  ASSUME SerialInv, NEW w \in Senders, Put(w)
  PROVE  SerialInv'
<1> USE DEF SerialInv
<1>1. /\ at[w] = "put" /\ Running(w) /\ Stored(<<w, Head(todo[w])>>) /\ wire' = wire
      /\ UNCHANGED <<call, fpos, vlist, buffer, serial_enabled, depth, keys>>
      /\ at' = [at EXCEPT ![w] = "next"]
      /\ todo' = [todo EXCEPT ![w] = Tail(@)]
  BY DEF Put, local
<1>2. at \in [Senders -> Where] /\ todo \in [Senders -> Seq(Nat)]
  BY DEF SerialType
<1>3. todo[w] # <<>> /\ SendOf(w)
  BY <1>1 DEF SendInv, SendOf
<1> DEFINE c == Head(todo[w])
           r == Tail(todo[w])
<1>4. c \in Nat /\ r \in Seq(Nat)
  BY <1>2, <1>3, HeadTailProperties
<1> HIDE DEF c, r
<1>5. at'[w] = "next" /\ at' \in [Senders -> Where] /\ \A v \in Senders : v # w => at'[v] = at[v]
  BY <1>1, <1>2 DEF Where
<1>6. todo'[w] = r /\ todo' \in [Senders -> Seq(Nat)]
      /\ \A v \in Senders : v # w => todo'[v] = todo[v]
  <2>1. todo' = [todo EXCEPT ![w] = r]
    BY <1>1 DEF r
  <2> QED BY <1>2, <1>4, <2>1
<1>7. Moves(w)
  BY <1>1, <1>5, <1>6 DEF Moves, Loop
<1>8. Len(fifo) < depth
  BY <1>1, Room
<1>9. /\ fifo' \in Seq(Bytes) /\ Len(fifo') = Len(fifo) + 1
      /\ Heard(w)' = Heard(w) \o <<c>>
      /\ \A v \in Senders : v # w => Heard(v)' = Heard(v)
  <2>1. Stored(<<w, c>>)
    BY <1>1 DEF c
  <2> QED BY <1>1, <1>4, <1>8, <2>1, StoredHeard
<1>10. SerialType'
  BY <1>1, <1>5, <1>6, <1>9 DEF SerialType
<1>11. FormatInv'
  BY <1>7, FormatKept
<1>12. ChipInv'
  BY <1>1, <1>5, <1>7, <1>9, StoreChip
<1>13. SendOf(w)'
  <2>1. Rest(w) = <<c>> \o Sent(r)
    BY <1>1 DEF Rest, c, r
  <2>2. Rest(w)' = Sent(r)
    BY <1>5, <1>6 DEF Rest
  <2>3. Sent(r) \in Seq(Nat)
    BY <1>4, SentType
  <2>4. Heard(w) \in Seq(Nat)
    BY HeardType
  <2>5. Associates(Nat)
    BY Associative
  <2>6. <<c>> \in Seq(Nat)
    BY <1>4
  <2>7. (Heard(w) \o <<c>>) \o Sent(r) = Heard(w) \o (<<c>> \o Sent(r))
    BY <2>3, <2>4, <2>5, <2>6 DEF Associates
  <2>8. Total(w)' = Total(w)
    BY <1>7, MoverTotal
  <2>9. Heard(w)' \o Rest(w)' = Heard(w) \o Rest(w)
    BY <1>9, <2>1, <2>2, <2>7
  <2> QED BY <1>3, <1>5, <2>8, <2>9 DEF SendOf
<1>14. SendInv'
  BY <1>7, <1>9, <1>13, SendMoved
<1> QED BY <1>10, <1>11, <1>12, <1>14

LEMMA KeyLogsNext ==
  ASSUME NEW n \in Nat
  PROVE  KeyLogs(n) \in Seq(Nat) /\ KeyLogs(n + 1) = KeyLogs(n) \o Sent(KeyLog)
<1> DEFINE s(m) == [i \in 1 .. m |-> Sent(KeyLog)]
<1>1. Sent(KeyLog) \in Seq(Nat)
  BY StringsAssumption, SentType
<1>2. \A m \in Nat : s(m) \in Seq(Seq(Nat)) /\ Len(s(m)) = m
  BY <1>1
<1>3. KeyLogs(n) \in Seq(Nat)
  BY <1>2, FlatType DEF KeyLogs
<1>4. s(n + 1) = Append(s(n), Sent(KeyLog))
  <2>1. /\ Append(s(n), Sent(KeyLog)) \in Seq(Seq(Nat))
        /\ Len(Append(s(n), Sent(KeyLog))) = n + 1
        /\ \A i \in 1 .. (n + 1) : Append(s(n), Sent(KeyLog))[i] = Sent(KeyLog)
    BY <1>1, <1>2
  <2>2. s(n + 1) \in Seq(Seq(Nat)) /\ Len(s(n + 1)) = n + 1
    BY <1>2
  <2>3. \A i \in 1 .. (n + 1) : s(n + 1)[i] = Sent(KeyLog)
    OBVIOUS
  <2> HIDE DEF s
  <2> QED BY <2>1, <2>2, <2>3, SeqEqual
<1>5. FlattenSeq(Append(s(n), Sent(KeyLog))) = FlattenSeq(s(n)) \o Sent(KeyLog)
  <2>1. s(n) \in Seq(Seq(Nat))
    BY <1>2
  <2> HIDE DEF s
  <2> QED BY <1>1, <2>1, FlatAppend
<1> QED BY <1>3, <1>4, <1>5 DEF KeyLogs

LEMMA KeyStep ==
  ASSUME SerialInv, Key
  PROVE  SerialInv'
<1> USE DEF SerialInv
<1>1. /\ at["irq"] = "out" /\ fpos > 0 /\ keys' = keys + 1
      /\ todo' = [todo EXCEPT !["irq"] = KeyLog]
      /\ at' = [at EXCEPT !["irq"] = "next"]
      /\ UNCHANGED <<call, fpos, vlist, buffer, serial_enabled, depth, fifo, wire>>
  BY DEF Key, local, chip
<1>2. KeyLog \in Seq(Nat) /\ keys \in Nat
  BY StringsAssumption DEF SerialType
<1>3. at'["irq"] = "next" /\ at'["thread"] = at["thread"] /\ todo'["irq"] = KeyLog
      /\ todo'["thread"] = todo["thread"]
  BY <1>1 DEF SerialType, Senders
<1>4. SerialType'
  <2>1. todo' \in [Senders -> Seq(Nat)]
    BY <1>1, <1>2 DEF SerialType
  <2>2. at' \in [Senders -> Where]
    BY <1>1 DEF SerialType, Where
  <2>3. keys' \in Nat
    BY <1>1, <1>2
  <2> QED BY <1>1, <2>1, <2>2, <2>3 DEF SerialType
<1>5. FormatInv'
  <2>1. \A pre, post : FormatAt(pre, post)' <=> FormatAt(pre, post)
    BY <1>1 DEF FormatAt
  <2> QED BY <1>1, <1>3, <2>1 DEF FormatInv
<1>6. ChipInv'
  BY <1>1, <1>3 DEF ChipInv
<1>7. SendOf("thread")'
  <2>1. "thread" \in Senders /\ SendOf("thread")
    BY DEF SendInv, Senders
  <2>2. Heard("thread")' = Heard("thread") /\ Total("thread")' = Total("thread")
    BY <1>1, <1>3, <2>1, HeardKept, TotalKept
  <2> QED BY <1>3, <2>1, <2>2, SendKept
<1>8. SendOf("irq")'
  <2>1. "irq" \in Senders /\ SendOf("irq")
    BY DEF SendInv, Senders
  <2>2. Heard("irq")' = Heard("irq") /\ Heard("irq") \in Seq(Nat)
    BY <1>1, <2>1, HeardKept, HeardType
  <2>3. Rest("irq") = <<>> /\ Total("irq") = KeyLogs(keys)
    BY <1>1 DEF Rest, Total
  <2>4. Heard("irq") = KeyLogs(keys)
    BY <2>1, <2>2, <2>3, ConcatEmptySeq DEF SendOf
  <2>5. Rest("irq")' = Sent(KeyLog)
    BY <1>3 DEF Rest
  <2>6. Total("irq")' = KeyLogs(keys) \o Sent(KeyLog)
    BY <1>1, <1>2, KeyLogsNext DEF Total
  <2> QED BY <1>3, <2>2, <2>4, <2>5, <2>6 DEF SendOf
<1> QED BY <1>4, <1>5, <1>6, <1>7, <1>8 DEF SendInv, Senders

LEMMA TransmitStep ==
  ASSUME SerialInv, Transmit
  PROVE  SerialInv'
<1> USE DEF SerialInv
<1>1. /\ fifo # <<>> /\ wire' = Append(wire, Head(fifo)) /\ fifo' = Tail(fifo)
      /\ UNCHANGED <<call, fpos, vlist, buffer, todo, at, serial_enabled, depth, keys>>
  BY DEF Transmit, local
<1>2. wire \in Seq(Bytes) /\ fifo \in Seq(Bytes)
  BY DEF SerialType
<1>3. /\ wire' \in Seq(Bytes) /\ fifo' \in Seq(Bytes) /\ Len(fifo') = Len(fifo) - 1
      /\ Len(fifo) \in Nat
  BY <1>1, <1>2
<1>4. wire' \o fifo' = wire \o fifo
  BY <1>1, <1>2
<1>5. \A v : Heard(v)' = Heard(v)
  BY <1>4 DEF Heard
<1>6. SerialType'
  BY <1>1, <1>3 DEF SerialType
<1>7. FormatInv'
  <2>1. \A pre, post : FormatAt(pre, post)' <=> FormatAt(pre, post)
    BY <1>1 DEF FormatAt
  <2> QED BY <1>1, <2>1 DEF FormatInv
<1>8. ChipInv'
  BY <1>1, <1>3 DEF ChipInv
<1>9. SendInv'
  <2> SUFFICES ASSUME NEW v \in Senders PROVE SendOf(v)'
    BY DEF SendInv
  <2>1. Total(v)' = Total(v)
    BY <1>1, TotalKept
  <2> QED BY <1>1, <1>5, <2>1, SendKept DEF SendInv
<1> QED BY <1>6, <1>7, <1>8, <1>9

LEMMA SerialStutter ==
  ASSUME SerialInv, UNCHANGED vars
  PROVE  SerialInv'
<1> USE DEF SerialInv
<1>1. UNCHANGED <<call, fpos, vlist, buffer, todo, at, serial_enabled, depth, fifo, wire, keys>>
  BY DEF vars, chip
<1>2. SerialType'
  BY <1>1 DEF SerialType
<1>3. FormatInv'
  <2>1. \A pre, post : FormatAt(pre, post)' <=> FormatAt(pre, post)
    BY <1>1 DEF FormatAt
  <2> QED BY <1>1, <2>1 DEF FormatInv
<1>4. ChipInv'
  BY <1>1 DEF ChipInv
<1>5. SendInv'
  <2> SUFFICES ASSUME NEW v \in Senders PROVE SendOf(v)'
    BY DEF SendInv
  <2>1. Total(v)' = Total(v) /\ Heard(v)' = Heard(v)
    BY <1>1, TotalKept, HeardKept
  <2> QED BY <1>1, <2>1, SendKept DEF SendInv
<1> QED BY <1>2, <1>3, <1>4, <1>5

LEMMA SerialStep == SerialInv /\ [Next]_vars => SerialInv'
<1> SUFFICES ASSUME SerialInv, [Next]_vars PROVE SerialInv'
  OBVIOUS
<1>1. CASE serial_init
  BY <1>1, SerialInitStep
<1>2. CASE serial_printf
  BY <1>2, PrintfStep
<1>3. CASE FormatPlain \/ FormatDirective
  BY <1>3, FormatStep
<1>4. CASE FormatEnd
  BY <1>4, FormatEndStep
<1>5. ASSUME NEW w \in Senders, Take(w) PROVE SerialInv'
  BY <1>5, TakeStep
<1>6. ASSUME NEW w \in Senders, Wait(w) PROVE SerialInv'
  BY <1>6, WaitStep
<1>7. ASSUME NEW w \in Senders, PutCr(w) PROVE SerialInv'
  BY <1>7, PutCrStep
<1>8. ASSUME NEW w \in Senders, Put(w) PROVE SerialInv'
  BY <1>8, PutStep
<1>9. CASE Key
  BY <1>9, KeyStep
<1>10. CASE Transmit
  BY <1>10, TransmitStep
<1>11. CASE UNCHANGED vars
  BY <1>11, SerialStutter
<1> QED BY <1>1, <1>2, <1>3, <1>4, <1>5, <1>6, <1>7, <1>8, <1>9, <1>10, <1>11 DEF Next

(* The invariant of the serial log: where vsprintf() stands in its format, *)
(* that the chip has room for who stores, and that what each of the two    *)
(* has sent and has still to send is what it was given.                    *)
THEOREM SerialInvariant == Spec => []SerialInv
BY SerialInit, SerialStep, PTL DEF Spec

(* No character of the log is lost: whatever serial_init(), the thread and *)
(* kbd_irq() log, however their stores interleave, leaves the chip whole   *)
(* and in order.                                                           *)
THEOREM SerialLogComplete == Spec => []LogComplete
<1>1. SerialInv => LogComplete
  <2> SUFFICES ASSUME SerialInv PROVE LogComplete
    OBVIOUS
  <2>1. \A w \in Senders : Heard(w) \in Seq(Nat) /\ SendOf(w)
    BY HeardType DEF SerialInv, SendInv
  <2>2. \A w \in Senders : at[w] = "out" => Rest(w) = <<>>
    BY DEF Rest
  <2>3. ASSUME NEW w \in Senders, at[w] = "out" PROVE Heard(w) = Total(w)
    BY <2>1, <2>2, <2>3, ConcatEmptySeq DEF SendOf
  <2>4. at["thread"] = "out" => Total("thread") = Sent(Banner) \o Sent(buffer)
    BY DEF Total
  <2>5. Total("irq") = FlattenSeq([n \in 1 .. keys |-> Sent(KeyLog)])
    BY DEF Total, KeyLogs
  <2> QED BY <2>3, <2>4, <2>5 DEF LogComplete, Senders
<1> QED BY <1>1, SerialInvariant, PTL

(* vsprintf() writes what the format asks for: every directive gets its    *)
(* own argument, every number its digits, and atoi() reads them back.      *)
THEOREM SerialFormatsAsAsked == Spec => []FormatsAsAsked
<1>1. SerialInv => FormatsAsAsked
  <2> SUFFICES ASSUME SerialInv, at["thread"] \notin {"boot", "format"},
                      \A n \in DOMAIN call : call[n][1] = Letter.d => Signed(call[n][2]) # INTMIN
               PROVE  /\ buffer = FlattenSeq([n \in DOMAIN call |-> Meaning(call[n])])
                      /\ vlist = <<>>
                      /\ \A n \in DOMAIN call :
                           call[n][1] = Letter.d => atoi(itoa(Signed(call[n][2]))) = Signed(call[n][2])
    BY DEF FormatsAsAsked
  <2>1. buffer = Flat(OutcomeMap, call) /\ vlist = <<>>
    BY DEF SerialInv, FormatInv
  <2>2. \A n \in DOMAIN call : call[n] \in Pieces
    <3>1. call \in Seq(Pieces)
      BY DEF SerialInv, SerialType
    <3> QED BY <3>1, LenProperties, ElementOfSeq
  <2>3. \A n \in DOMAIN call : OutcomeMap[call[n]] = Meaning(call[n])
    <3> SUFFICES ASSUME NEW n \in DOMAIN call PROVE OutcomeMap[call[n]] = Meaning(call[n])
      OBVIOUS
    <3>1. OutcomeMap[call[n]] = Outcome(call[n])
      BY <2>2 DEF OutcomeMap
    <3>2. Outcome(call[n]) = Meaning(call[n])
      <4>1. \A p \in Pieces : (p[1] = Letter.d => Signed(p[2]) # INTMIN) => Outcome(p) = Meaning(p)
        BY OutcomeMeant
      <4> QED BY <2>2, <4>1
    <3> QED BY <3>1, <3>2
  <2>4. [n \in DOMAIN call |-> OutcomeMap[call[n]]] = [n \in DOMAIN call |-> Meaning(call[n])]
    BY <2>3
  <2>5. buffer = FlattenSeq([n \in DOMAIN call |-> Meaning(call[n])])
    BY <2>1, <2>4 DEF Flat, Mapped
  <2>6. ASSUME NEW n \in DOMAIN call, call[n][1] = Letter.d
        PROVE  atoi(itoa(Signed(call[n][2]))) = Signed(call[n][2])
    <3> DEFINE x == Signed(call[n][2])
    <3>1. call[n][2] \in Word
      <4>1. \A p \in Pieces : p[2] \in Word
        BY PieceType
      <4> QED BY <2>2, <4>1
    <3>2. x \in Int /\ INTMIN <= x /\ x < Half
      BY <3>1, SignedType
    <3>3. x # INTMIN /\ INTMIN \in Int
      BY <2>6, HalfAssumption DEF INTMIN
    <3> HIDE DEF x
    <3>4. INTMIN < x
      BY <3>2, <3>3
    <3>5. atoi(itoa(x)) = x
      BY <3>2, <3>4, ReadsBack
    <3> QED BY <3>5 DEF x
  <2> QED BY <2>1, <2>5, <2>6
<1> QED BY <1>1, SerialInvariant, PTL

=============================================================================
