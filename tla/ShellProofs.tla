---------------------------- MODULE ShellProofs ------------------------------
(***************************************************************************)
(* Proofs about the shell, for every RAM disk, every device table and      *)
(* every line that can be typed: strtok() takes a string apart into its    *)
(* tokens, fs_lookup() follows them to the inode they name, every command  *)
(* gives back what it took, and a file is shown as it is on the disk.      *)
(***************************************************************************)
EXTENDS Shell, TLAPS, FiniteSetTheorems, SequenceTheorems, WellFoundedInduction

(***************************************************************************)
(* Numbers and sequences                                                   *)
(***************************************************************************)

(* A set of naturals has a least element, ...                              *)
LEMMA LeastOf ==
  ASSUME NEW T, T \subseteq Nat, T # {}
  PROVE  \E x \in T : \A y \in T : x <= y
<1>1. PICK x \in T : \A y \in T : ~ (<<y, x>> \in OpToRel(<, Nat))
  BY WFMin, NatLessThanWellFounded
<1>2. ASSUME NEW y \in T PROVE x <= y
  <2>1. x \in Nat /\ y \in Nat
    OBVIOUS
  <2>2. ~ (y < x)
    BY <1>1, <2>1 DEF OpToRel
  <2> QED BY <2>1, <2>2
<1> QED BY <1>2

(* ... which is the one CHOOSE takes.                                      *)
LEMMA ChosenLeast ==
  ASSUME NEW T, T \subseteq Nat, NEW x \in T, \A y \in T : x <= y
  PROVE  (CHOOSE k \in T : \A l \in T : k <= l) = x
<1> DEFINE c == CHOOSE k \in T : \A l \in T : k <= l
<1>1. c \in T /\ \A l \in T : c <= l
  OBVIOUS
<1>2. c <= x /\ x <= c /\ c \in Nat /\ x \in Nat
  BY <1>1
<1> HIDE DEF c
<1>3. c = x
  BY <1>2
<1> QED BY <1>3 DEF c

LEMMA ChosenGreatest ==
  ASSUME NEW T, T \subseteq Nat, NEW x \in T, \A y \in T : y <= x
  PROVE  (CHOOSE k \in T : \A l \in T : l <= k) = x
<1> DEFINE c == CHOOSE k \in T : \A l \in T : l <= k
<1>1. c \in T /\ \A l \in T : l <= c
  OBVIOUS
<1>2. c <= x /\ x <= c /\ c \in Nat /\ x \in Nat
  BY <1>1
<1> HIDE DEF c
<1>3. c = x
  BY <1>2
<1> QED BY <1>3 DEF c

(* What a part of a sequence is.                                           *)
LEMMA PartIs ==
  ASSUME NEW S, NEW t, NEW a \in Nat, NEW b \in Nat, a >= 1, b >= a - 1,
         \A k \in a .. b : t[k] \in S
  PROVE  /\ SubSeq(t, a, b) \in Seq(S)
         /\ Len(SubSeq(t, a, b)) = b - a + 1
         /\ \A k \in 1 .. b - a + 1 : SubSeq(t, a, b)[k] = t[a + k - 1]
<1>1. a \in Int /\ b \in Int
  OBVIOUS
<1> QED BY <1>1, SubSeqProperties

(* Two sequences that agree between a and b have the same part there.      *)
LEMMA SamePart ==
  ASSUME NEW S, NEW t, NEW u, NEW a \in Nat, NEW b \in Nat, a >= 1, b >= a - 1,
         \A k \in a .. b : t[k] = u[k] /\ u[k] \in S
  PROVE  SubSeq(t, a, b) = SubSeq(u, a, b)
<1>1. /\ SubSeq(t, a, b) \in Seq(S) /\ Len(SubSeq(t, a, b)) = b - a + 1
      /\ \A k \in 1 .. b - a + 1 : SubSeq(t, a, b)[k] = t[a + k - 1]
  BY PartIs
<1>2. /\ SubSeq(u, a, b) \in Seq(S) /\ Len(SubSeq(u, a, b)) = b - a + 1
      /\ \A k \in 1 .. b - a + 1 : SubSeq(u, a, b)[k] = u[a + k - 1]
  BY PartIs
<1>3. \A k \in 1 .. b - a + 1 : SubSeq(t, a, b)[k] = SubSeq(u, a, b)[k]
  BY <1>1, <1>2
<1> QED BY <1>1, <1>2, <1>3, SeqEqual

(***************************************************************************)
(* The tokens of a string                                                  *)
(***************************************************************************)

Before(s, k) == {l \in Starts(s) : l < k}

LEMMA StartsFinite ==
  ASSUME NEW s \in Strings
  PROVE  /\ Len(s) \in Nat /\ Starts(s) \subseteq 1 .. Len(s) /\ IsFiniteSet(Starts(s))
         /\ Cardinality(Starts(s)) \in Nat
         /\ \A k : IsFiniteSet(Before(s, k)) /\ Cardinality(Before(s, k)) \in Nat
<1>1. Len(s) \in Nat
  BY DEF Strings
<1>2. Starts(s) \subseteq 1 .. Len(s)
  BY DEF Starts
<1>3. IsFiniteSet(1 .. Len(s))
  BY <1>1, FS_Interval
<1>4. IsFiniteSet(Starts(s))
  BY <1>2, <1>3, FS_Subset
<1>5. \A k : Before(s, k) \subseteq Starts(s)
  BY DEF Before
<1>6. \A k : IsFiniteSet(Before(s, k))
  BY <1>4, <1>5, FS_Subset
<1> QED BY <1>1, <1>2, <1>4, <1>6, FS_CardinalityType

(* Different tokens have different numbers, in the order they are in.      *)
LEMMA NumbersOrdered ==
  ASSUME NEW s \in Strings, NEW j \in Starts(s), NEW k \in Starts(s), j < k
  PROVE  Cardinality(Before(s, j)) < Cardinality(Before(s, k))
<1> DEFINE A == Before(s, j)
           B == Before(s, j) \cup {j}
<1>1. j \in Nat /\ k \in Nat
  BY StartsFinite
<1>2. IsFiniteSet(A) /\ j \notin A /\ Cardinality(A) \in Nat
  BY <1>1, StartsFinite DEF Before
<1>3. IsFiniteSet(B) /\ Cardinality(B) = Cardinality(A) + 1
  BY <1>2, FS_AddElement
<1>4. B \subseteq Before(s, k)
  BY <1>1, StartsFinite DEF Before
<1>5. Cardinality(B) <= Cardinality(Before(s, k)) /\ Cardinality(Before(s, k)) \in Nat
  BY <1>4, StartsFinite, FS_Subset
<1> QED BY <1>2, <1>3, <1>5

LEMMA TokenAt ==
  ASSUME NEW s \in Strings, NEW k \in Starts(s)
  PROVE  LET n == Cardinality(Before(s, k)) + 1
         IN  n \in 1 .. Len(Tokens(s)) /\ Tokens(s)[n] = Part(s, k)
<1> DEFINE C(l) == Cardinality(Before(s, l))
           n == C(k) + 1
<1>1. \A l : C(l) \in Nat
  BY StartsFinite
<1>2. n <= Cardinality(Starts(s))
  <2>1. Before(s, k) \subseteq Starts(s) /\ Before(s, k) # Starts(s)
    BY StartsFinite DEF Before
  <2>2. C(k) < Cardinality(Starts(s))
    BY <2>1, StartsFinite, FS_Subset
  <2> QED BY <1>1, <2>2, StartsFinite
<1>3. n \in 1 .. Cardinality(Starts(s))
  BY <1>1, <1>2, StartsFinite
<1>4. \A l \in Starts(s) : Cardinality({x \in Starts(s) : x < l}) = n - 1 => l = k
  <2> SUFFICES ASSUME NEW l \in Starts(s), C(l) = n - 1 PROVE l = k
    BY DEF Before
  <2>1. l \in Nat /\ k \in Nat /\ C(l) = C(k)
    BY <1>1, StartsFinite
  <2>2. ~ (l < k) /\ ~ (k < l)
    BY <1>1, <2>1, NumbersOrdered
  <2> QED BY <2>1, <2>2
<1>5. Cardinality({x \in Starts(s) : x < k}) = n - 1
  BY <1>1 DEF Before
<1>6. (CHOOSE l \in Starts(s) : Cardinality({x \in Starts(s) : x < l}) = n - 1) = k
  BY <1>4, <1>5
<1>7. Len(Tokens(s)) = Cardinality(Starts(s))
  BY StartsFinite DEF Tokens
<1> HIDE DEF n
<1>8. Tokens(s)[n] = Part(s, k)
  BY <1>3, <1>6 DEF Tokens
<1> QED BY <1>3, <1>7, <1>8 DEF n

(* Token k ends at e: behind it is a delimiter or the end of the string.   *)
Ends(s, k, e) ==
  /\ e \in k .. Len(s) /\ \A l \in k .. e : s[l] # Sep
  /\ e = Len(s) \/ s[e + 1] = Sep

LEMMA PartEnds ==
  ASSUME NEW s \in Strings, NEW k \in Nat, k >= 1, NEW e, Ends(s, k, e)
  PROVE  Part(s, k) = SubSeq(s, k, e)
<1> DEFINE T == {d \in k .. Len(s) : \A l \in k .. d : s[l] # Sep}
<1>1. Len(s) \in Nat /\ T \subseteq Nat
  BY DEF Strings
<1>2. e \in T
  BY DEF Ends
<1>3. ASSUME NEW d \in T PROVE d <= e
  <2>1. d \in k .. Len(s) /\ (\A l \in k .. d : s[l] # Sep) /\ e \in k .. Len(s)
    BY <1>2, <1>3
  <2>2. e + 1 <= d => s[e + 1] # Sep
    BY <1>1, <2>1
  <2> QED BY <1>1, <2>1, <2>2 DEF Ends
<1>4. (CHOOSE d \in T : \A l \in T : l <= d) = e
  BY <1>1, <1>2, <1>3, ChosenGreatest
<1> QED BY <1>4 DEF Part

(* No token begins inside another or among delimiters.                     *)
LEMMA NextBegins ==
  ASSUME NEW s \in Strings, NEW k \in Starts(s), NEW e \in k .. Len(s),
         \A l \in k .. e : s[l] # Sep,
         NEW b \in e + 1 .. Len(s) + 1, \A l \in e + 1 .. b - 1 : s[l] = Sep
  PROVE  /\ Before(s, b) = Before(s, k) \cup {k}
         /\ Cardinality(Before(s, b)) = Cardinality(Before(s, k)) + 1
<1>1. Len(s) \in Nat /\ k \in 1 .. Len(s) /\ Starts(s) \subseteq Nat
  BY StartsFinite
<1>2. ASSUME NEW l \in Starts(s), l < b, k < l PROVE FALSE
  <2>1. l \in Nat /\ s[l] # Sep /\ (l = 1 \/ s[l - 1] = Sep)
    BY <1>1, <1>2 DEF Starts
  <2>2. CASE l <= e
    <3>1. l - 1 \in k .. e
      BY <1>1, <1>2, <2>1, <2>2
    <3> QED BY <1>1, <1>2, <2>1, <3>1
  <2>3. CASE l > e
    <3>1. l \in e + 1 .. b - 1
      BY <1>1, <1>2, <2>1, <2>3
    <3> QED BY <2>1, <3>1
  <2> QED BY <1>1, <2>1, <2>2, <2>3
<1>3. \A l \in Starts(s) : l < b <=> l < k \/ l = k
  BY <1>1, <1>2
<1>4. Before(s, b) = Before(s, k) \cup {k}
  BY <1>3 DEF Before
<1>5. k \notin Before(s, k)
  BY <1>1 DEF Before
<1>6. Cardinality(Before(s, k) \cup {k}) = Cardinality(Before(s, k)) + 1
  BY <1>5, StartsFinite, FS_AddElement
<1> QED BY <1>4, <1>6

(***************************************************************************)
(* strtok()                                                                *)
(***************************************************************************)

(* The token at ptr up to e, then delimiters up to str, now zeros.         *)
Found(s, e) ==
  /\ e \in ptr .. str - 1
  /\ \A k \in ptr .. e : s[k] # Sep /\ txt[k] = s[k]
  /\ \A k \in e + 1 .. str - 1 : s[k] = Sep /\ txt[k] = NUL
  /\ i = 0 => e = str - 1
  /\ i = 1 => e < str - 1

(* strtok() is at work on s, or returned from it.                          *)
StrOK(s) ==
  /\ s \in Strings
  /\ txt \in [1 .. Len(s) + 1 -> Chars \cup {Sep, NUL}]
  /\ str \in 1 .. Len(s) + 1 /\ i \in {0, 1} /\ f \in {0, 1}
  /\ \A k \in str .. Len(s) : txt[k] = s[k]
  /\ txt[Len(s) + 1] = NUL
  /\ at \in {"span", "scan", "out"}
  /\ at = "span" => f = 1
  /\ f = 1 => /\ ptr = 0 /\ i = 0
              /\ str = Len(s) + 1 \/ str = 1 \/ s[str - 1] = Sep
              /\ at # "span" => str = Len(s) + 1 \/ s[str] # Sep
              /\ at = "out" => str = Len(s) + 1
  /\ f = 0 => /\ ptr \in Starts(s) /\ ptr < str
              /\ \E e \in 1 .. Len(s) : Found(s, e)
              /\ at = "out" => /\ old = str
                               /\ str = Len(s) + 1 \/ (i = 1 /\ s[str] # Sep)

(* The tokens before the one this call is about to find, or has found.     *)
Seen(s) == Before(s, IF ptr = 0 THEN str ELSE ptr)

LEMMA CallOK ==
  ASSUME NEW s \in Strings, strtok(s)
  PROVE  StrOK(s)' /\ Seen(s)' = {} /\ Cardinality(Seen(s)') = 0
<1> DEFINE t == Append(s, NUL)
<1>1. s \in Seq(Chars \cup {Sep, NUL}) /\ NUL \in Chars \cup {Sep, NUL}
  BY DEF Strings
<1>2. /\ t \in Seq(Chars \cup {Sep, NUL}) /\ Len(t) = Len(s) + 1 /\ Len(s) \in Nat
      /\ DOMAIN t = 1 .. Len(s) + 1
      /\ (\A k \in 1 .. Len(s) : t[k] = s[k]) /\ t[Len(s) + 1] = NUL
  BY <1>1
<1>3. at' = "span" /\ txt' = t /\ str' = 1 /\ f' = 1 /\ i' = 0 /\ ptr' = 0
  BY DEF strtok, Call
<1> HIDE DEF t
<1>6. t \in [1 .. Len(s) + 1 -> Chars \cup {Sep, NUL}]
  BY <1>2
<1>4. StrOK(s)'
  BY <1>2, <1>3, <1>6 DEF StrOK
<1>5. Seen(s)' = {}
  BY <1>3, StartsFinite DEF Seen, Before
<1> QED BY <1>4, <1>5, FS_EmptySet

(* A turn of its loops.                                                    *)
LEMMA ScanOK ==
  ASSUME NEW s, StrOK(s), Scan
  PROVE  StrOK(s)' /\ Seen(s)' = Seen(s)
<1> DEFINE L == Len(s)
<1>0. /\ s \in Strings /\ L \in Nat /\ Starts(s) \subseteq 1 .. L
      /\ str \in 1 .. L + 1 /\ (\A k \in str .. L : txt[k] = s[k]) /\ txt[L + 1] = NUL
      /\ txt \in [1 .. L + 1 -> Chars \cup {Sep, NUL}]
      /\ \A k \in 1 .. L : s[k] # NUL
  <2>1. s \in Strings
    BY DEF StrOK
  <2>2. \A k \in 1 .. L : s[k] \in Chars \cup {Sep}
    BY <2>1 DEF Strings
  <2>3. NUL # Sep /\ NUL \notin Chars
    BY DEF NUL, Sep, Chars
  <2>4. \A k \in 1 .. L : s[k] # NUL
    BY <2>2, <2>3
  <2> QED BY <2>1, <2>4, StartsFinite DEF StrOK
<1>a. NUL # Sep
  BY DEF NUL, Sep
<1>b. Starts(s) = {k \in 1 .. L : s[k] # Sep /\ (k = 1 \/ s[k - 1] = Sep)}
  BY DEF Starts
<1>1. CASE Span
  <2>0. at = "span" /\ f = 1 /\ ptr = 0 /\ i = 0 /\ UNCHANGED <<txt, f, i, ptr, old>>
    BY <1>1 DEF Span, StrOK
  <2>1. CASE txt[str] = Sep
    <3>1. str' = str + 1 /\ at' = at /\ str <= L /\ s[str] = Sep
      BY <1>0, <1>a, <1>1, <2>1 DEF Span
    <3>2. StrOK(s)'
      BY <1>0, <2>0, <3>1 DEF StrOK
    <3>3. Before(s, str + 1) = Before(s, str)
      <4>1. str \notin Starts(s)
        BY <3>1 DEF Starts
      <4>2. \A l \in Starts(s) : l < str + 1 <=> l < str
        BY <1>0, <4>1
      <4> QED BY <4>2 DEF Before
    <3> QED BY <2>0, <3>1, <3>2, <3>3 DEF Seen
  <2>2. CASE txt[str] # Sep
    <3>1. str' = str /\ at' = "scan" /\ (str = L + 1 \/ s[str] # Sep)
      BY <1>0, <1>1, <2>2 DEF Span
    <3>2. StrOK(s)'
      BY <1>0, <2>0, <3>1 DEF StrOK
    <3> QED BY <2>0, <3>1, <3>2 DEF Seen
  <2> QED BY <2>1, <2>2
<1>2. CASE ScanSep
  <2>0. /\ at = "scan" /\ txt[str] = Sep /\ txt' = [txt EXCEPT ![str] = NUL]
        /\ i' = 1 /\ str' = str + 1 /\ UNCHANGED <<f, ptr, old, at>>
    BY <1>2 DEF ScanSep
  <2>1. str <= L /\ s[str] = Sep
    BY <1>0, <1>a, <2>0
  <2>2. f = 0 /\ ptr # 0 /\ ptr \in Starts(s) /\ ptr < str
    BY <1>0, <2>0, <2>1 DEF StrOK
  <2>3. PICK e \in 1 .. L : Found(s, e)
    BY <2>2 DEF StrOK
  <2>4. /\ \A k \in 1 .. L + 1 : k # str => txt'[k] = txt[k]
        /\ txt'[str] = NUL
        /\ txt' \in [1 .. L + 1 -> Chars \cup {Sep, NUL}]
    BY <1>0, <2>0
  <2>5. Found(s, e)'
    BY <1>0, <2>0, <2>1, <2>2, <2>3, <2>4 DEF Found
  <2>6. (\A k \in str' .. L : txt'[k] = s[k]) /\ txt'[L + 1] = NUL /\ str' \in 1 .. L + 1
    BY <1>0, <2>0, <2>1, <2>4
  <2>7. StrOK(s)'
    BY <1>0, <2>0, <2>2, <2>4, <2>5, <2>6 DEF StrOK
  <2> QED BY <2>0, <2>2, <2>7 DEF Seen
<1>3. CASE ScanChar
  <2>0. /\ at = "scan" /\ txt[str] \notin {Sep, NUL}
        /\ ptr' = (IF f = 1 THEN str ELSE ptr) /\ f' = 0 /\ UNCHANGED <<txt, i>>
    BY <1>3 DEF ScanChar
  <2>1. str <= L /\ s[str] = txt[str] /\ s[str] # Sep
    BY <1>0, <2>0
  <2>2. CASE f = 1
    <3>1. i = 0 /\ ptr = 0 /\ (str = 1 \/ s[str - 1] = Sep)
      BY <2>1, <2>2, <1>0 DEF StrOK
    <3>2. ptr' = str /\ str' = str + 1 /\ at' = "scan" /\ i' = 0
      BY <1>3, <2>0, <2>2, <3>1 DEF ScanChar
    <3>3. str \in Starts(s)
      BY <1>0, <1>b, <2>1, <3>1
    <3>4. \E e \in 1 .. L : Found(s, e)'
      <4>1. SUFFICES ASSUME NEW e \in 1 .. L, e = str PROVE Found(s, e)'
        BY <1>0, <2>1
      <4> QED BY <1>0, <2>0, <2>1, <3>2, <4>1 DEF Found
    <3>6. str' \in 1 .. L + 1 /\ ptr' < str' /\ ptr' \in Starts(s)
      BY <1>0, <2>1, <3>2, <3>3
    <3>7. txt' = txt /\ f' = 0
      BY <2>0
    <3>8. \A k \in str' .. L : txt'[k] = s[k]
      BY <1>0, <3>2, <3>7
    <3>5. StrOK(s)'
      BY <1>0, <3>2, <3>4, <3>6, <3>7, <3>8 DEF StrOK
    <3> QED BY <1>0, <3>1, <3>2, <3>5 DEF Seen
  <2>3. CASE f = 0
    <3>0. ptr' = ptr /\ ptr \in Starts(s) /\ ptr < str /\ ptr # 0
      BY <1>0, <2>0, <2>3 DEF StrOK
    <3>1. PICK e \in 1 .. L : Found(s, e)
      BY <2>3 DEF StrOK
    <3>2. CASE i = 1
      <4>1. old' = str /\ at' = "out" /\ str' = str
        BY <1>3, <3>2 DEF ScanChar
      <4>2. Found(s, e)'
        BY <2>0, <3>0, <3>1, <4>1 DEF Found
      <4>3. StrOK(s)'
        BY <1>0, <2>0, <2>1, <3>0, <3>2, <4>1, <4>2 DEF StrOK
      <4> QED BY <3>0, <4>3 DEF Seen
    <3>3. CASE i = 0
      <4>1. str' = str + 1 /\ at' = at
        BY <1>3, <3>3 DEF ScanChar
      <4>2. e = str - 1
        BY <3>1, <3>3 DEF Found
      <4>3. \E d \in 1 .. L : Found(s, d)'
        <5>1. SUFFICES ASSUME NEW d \in 1 .. L, d = str PROVE Found(s, d)'
          BY <1>0, <2>1
        <5> QED BY <1>0, <2>0, <2>1, <3>0, <3>1, <3>3, <4>1, <4>2, <5>1 DEF Found
      <4>4. StrOK(s)'
        BY <1>0, <2>0, <2>1, <3>0, <3>3, <4>1, <4>3 DEF StrOK
      <4> QED BY <3>0, <4>4 DEF Seen
    <3> QED BY <3>2, <3>3 DEF StrOK
  <2> QED BY <2>2, <2>3 DEF StrOK
<1>4. CASE ScanEnd
  <2>0. at = "scan" /\ txt[str] = NUL /\ old' = str /\ at' = "out"
        /\ UNCHANGED <<txt, str, f, i, ptr>>
    BY <1>4 DEF ScanEnd
  <2>1. str = L + 1
    BY <1>0, <2>0
  <2>2. \A e : Found(s, e)' <=> Found(s, e)
    BY <2>0 DEF Found
  <2>3. StrOK(s)'
    BY <2>0, <2>1, <2>2 DEF StrOK
  <2> QED BY <2>0, <2>3 DEF Seen
<1> QED BY <1>1, <1>2, <1>3, <1>4 DEF Scan

(* A call that returns a string returns the next token; ...                *)
LEMMA Returned ==
  ASSUME NEW s, StrOK(s), at = "out", ptr # 0
  PROVE  LET n == Cardinality(Seen(s)) + 1
         IN  n \in 1 .. Len(Tokens(s)) /\ Token = Tokens(s)[n]
<1> DEFINE L == Len(s)
<1>1. /\ s \in Strings /\ L \in Nat /\ Starts(s) \subseteq 1 .. L
      /\ f = 0 /\ ptr \in Starts(s) /\ str \in 1 .. L + 1 /\ txt[L + 1] = NUL
      /\ txt \in [1 .. L + 1 -> Chars \cup {Sep, NUL}]
      /\ (str = L + 1 \/ i = 1) /\ i \in {0, 1}
  BY StartsFinite DEF StrOK
<1>2. PICK e \in 1 .. L : Found(s, e)
  BY <1>1 DEF StrOK
<1>3. /\ ptr \in 1 .. L /\ ptr <= e /\ Len(txt) = L + 1
      /\ \A k \in ptr .. e : s[k] # Sep /\ txt[k] = s[k] /\ s[k] \in Chars
  <2>1. ptr \in 1 .. L /\ ptr <= e
    BY <1>1, <1>2 DEF Found
  <2>2. txt \in Seq(Chars \cup {Sep, NUL}) /\ Len(txt) = L + 1
    BY <1>1
  <2>3. \A k \in ptr .. e : s[k] # Sep /\ txt[k] = s[k] /\ k \in 1 .. L
    BY <1>1, <1>2, <2>1 DEF Found
  <2>4. \A k \in 1 .. L : s[k] \in Chars \cup {Sep}
    BY <1>1 DEF Strings
  <2> QED BY <2>1, <2>2, <2>3, <2>4
<1>4. (e = L \/ s[e + 1] = Sep) /\ txt[e + 1] = NUL
  <2>1. CASE e = str - 1
    <3>1. str = L + 1 /\ e = L
      BY <1>1, <1>2, <2>1 DEF Found
    <3> QED BY <1>1, <3>1
  <2>2. CASE e < str - 1
    <3>1. e + 1 \in e + 1 .. str - 1
      BY <1>1, <2>2
    <3> QED BY <1>2, <3>1 DEF Found
  <2> QED BY <1>1, <1>2, <2>1, <2>2 DEF Found
<1>5. Ends(s, ptr, e)
  BY <1>1, <1>3, <1>4 DEF Ends
<1>6. Part(s, ptr) = SubSeq(s, ptr, e)
  BY <1>1, <1>3, <1>5, PartEnds
<1>7. Token = SubSeq(txt, ptr, e)
  <2> DEFINE T == {k \in ptr .. Len(txt) : txt[k] = NUL}
  <2>1. T \subseteq Nat /\ e + 1 \in T
    BY <1>1, <1>3, <1>4
  <2>2. \A k \in T : e + 1 <= k
    <3> SUFFICES ASSUME NEW k \in T, k <= e PROVE FALSE
      BY <1>1, <1>3
    <3>1. k \in ptr .. e /\ txt[k] = NUL
      BY <1>1, <1>3
    <3> QED BY <1>3, <3>1 DEF Chars
  <2>3. (CHOOSE k \in T : \A l \in T : k <= l) = e + 1
    BY <2>1, <2>2, ChosenLeast
  <2> DEFINE c == CHOOSE k \in T : \A l \in T : k <= l
  <2>4. Token = SubSeq(txt, ptr, c - 1)
    BY DEF Token
  <2>5. c = e + 1
    BY <2>3
  <2> HIDE DEF c
  <2>6. c - 1 = e
    BY <2>5
  <2> QED BY <2>4, <2>6
<1>8. SubSeq(txt, ptr, e) = SubSeq(s, ptr, e)
  BY <1>1, <1>3, SamePart
<1>9. Seen(s) = Before(s, ptr)
  BY <1>3 DEF Seen
<1>10. LET n == Cardinality(Before(s, ptr)) + 1
       IN  n \in 1 .. Len(Tokens(s)) /\ Tokens(s)[n] = Part(s, ptr)
  BY <1>1, TokenAt, Zenon
<1> QED BY <1>6, <1>7, <1>8, <1>9, <1>10

(* ... one that returns NULL has seen them all; ...                        *)
LEMMA AllReturned ==
  ASSUME NEW s, StrOK(s), at = "out", ptr = 0
  PROVE  Cardinality(Seen(s)) = Len(Tokens(s))
<1>1. s \in Strings /\ f \in {0, 1} /\ Starts(s) \subseteq 1 .. Len(s) /\ Len(s) \in Nat
  BY StartsFinite DEF StrOK
<1>2. str = Len(s) + 1
  BY <1>1 DEF StrOK
<1>3. Seen(s) = Starts(s)
  BY <1>1, <1>2 DEF Seen, Before
<1> QED BY <1>1, <1>3, StartsFinite DEF Tokens

(* ... and after a token the next call has it behind itself.               *)
LEMMA NextOK ==
  ASSUME NEW s, StrOK(s), at = "out", ptr # 0, strtokNext
  PROVE  StrOK(s)' /\ Cardinality(Seen(s)') = Cardinality(Seen(s)) + 1
<1> DEFINE L == Len(s)
<1>1. /\ s \in Strings /\ L \in Nat /\ Starts(s) \subseteq 1 .. L
      /\ f = 0 /\ ptr \in Starts(s) /\ str \in 1 .. L + 1 /\ old = str
      /\ str = L + 1 \/ (i = 1 /\ s[str] # Sep)
  BY StartsFinite DEF StrOK
<1>2. PICK e \in 1 .. L : Found(s, e)
  BY <1>1 DEF StrOK
<1>3. at' = "span" /\ txt' = txt /\ str' = str /\ f' = 1 /\ i' = 0 /\ ptr' = 0
  BY <1>1 DEF strtokNext, Call
<1>4. str = L + 1 \/ s[str - 1] = Sep
  <2>1. CASE str = L + 1
    BY <2>1
  <2>2. CASE i = 1
    <3>1. str - 1 \in e + 1 .. str - 1
      BY <1>1, <1>2, <2>2 DEF Found
    <3> QED BY <1>2, <3>1 DEF Found
  <2> QED BY <1>1, <2>1, <2>2
<1>5. StrOK(s)'
  BY <1>1, <1>3, <1>4 DEF StrOK
<1>6. Seen(s) = Before(s, ptr) /\ Seen(s)' = Before(s, str)
  BY <1>3 DEF Seen
<1>7. /\ e \in ptr .. L /\ str \in e + 1 .. L + 1
      /\ (\A l \in ptr .. e : s[l] # Sep) /\ (\A l \in e + 1 .. str - 1 : s[l] = Sep)
  BY <1>1, <1>2 DEF Found
<1>8. Cardinality(Before(s, str)) = Cardinality(Before(s, ptr)) + 1
  BY <1>1, <1>7, NextBegins
<1> QED BY <1>5, <1>6, <1>8

(***************************************************************************)
(* The file system                                                         *)
(***************************************************************************)

LEMMA DiskType ==
  /\ NFiles \in Nat /\ NDevs \in Nat /\ NDevs > 0 /\ DevDir = NFiles + 1
  /\ \A k \in 1 .. NFiles : /\ Disk[k].name \in Names /\ Disk[k].offset \in Nat
                            /\ Disk[k].size \in Nat /\ Disk[k].name # DevName
  /\ \A k \in 1 .. NDevs : DevNames[k] \in Names
  /\ DevName \in Names
<1>1. /\ Disk \in Seq([name : Names, offset : Nat, size : Nat])
      /\ DevName \in Names /\ DevNames \in Seq(Names) /\ NDevs > 0
      /\ \A k \in 1 .. NFiles : Disk[k].name # DevName
  BY DiskAssumption
<1>2. NFiles \in Nat /\ NDevs \in Nat
  BY <1>1 DEF NFiles, NDevs
<1>3. \A k \in 1 .. NFiles : Disk[k] \in [name : Names, offset : Nat, size : Nat]
  <2> DEFINE R == [name : Names, offset : Nat, size : Nat]
  <2>1. Disk \in Seq(R)
    BY <1>1
  <2> HIDE DEF R
  <2>2. \A k \in 1 .. NFiles : Disk[k] \in R
    BY <2>1 DEF NFiles
  <2> QED BY <2>2 DEF R
<1>4. \A k \in 1 .. NDevs : DevNames[k] \in Names
  BY <1>1 DEF NDevs
<1> QED BY <1>1, <1>2, <1>3, <1>4 DEF DevDir

LEMMA InodeFields ==
  ASSUME NEW a, NEW b, NEW c, NEW d, NEW e
  PROVE  LET n == Inode(a, b, c, d, e)
         IN  n.name = a /\ n.flags = b /\ n.impl = c /\ n.size = d /\ n.ptr = e
  BY DEF Inode

LEMMA TablesAre ==
  /\ Tables[0].flags = FS_DIR /\ Tables[0].impl = NFiles + 1 /\ Tables[0].ptr = 1
  /\ \A n \in 1 .. NFiles :
       /\ Tables[n].name = Disk[n].name /\ Tables[n].flags = FS_FILE
       /\ Tables[n].impl = Disk[n].offset /\ Tables[n].size = Disk[n].size
  /\ Tables[DevDir].name = DevName /\ Tables[DevDir].flags = FS_DIR
  /\ Tables[DevDir].impl = NDevs /\ Tables[DevDir].ptr = DevDir + 1
  /\ \A k \in 1 .. NDevs :
       /\ Tables[DevDir + k].name = DevNames[k] /\ Tables[DevDir + k].flags = FS_CHAR
       /\ Tables[DevDir + k].impl = k - 1
<1>1. Tables[0] = Inode(<<>>, FS_DIR, NFiles + 1, 0, 1)
  BY DiskType DEF Tables
<1>2. \A n \in 1 .. NFiles :
        Tables[n] = Inode(Disk[n].name, FS_FILE, Disk[n].offset, Disk[n].size, NoNode)
  BY DiskType DEF Tables
<1>3. Tables[DevDir] = Inode(DevName, FS_DIR, NDevs, 0, DevDir + 1)
  BY DiskType DEF Tables
<1>4. \A k \in 1 .. NDevs :
        Tables[DevDir + k] = Inode(DevNames[k], FS_CHAR, k - 1, 0, NoNode)
  <2> SUFFICES ASSUME NEW k \in 1 .. NDevs
               PROVE  Tables[DevDir + k] = Inode(DevNames[k], FS_CHAR, k - 1, 0, NoNode)
    OBVIOUS
  <2> DEFINE n == DevDir + k
  <2>1. n \in 0 .. (DevDir + NDevs) /\ n # 0 /\ n \notin 1 .. NFiles /\ n # DevDir
        /\ n - DevDir = k
    BY DiskType
  <2> HIDE DEF n
  <2>2. Tables[n] = Inode(DevNames[n - DevDir], FS_CHAR, n - DevDir - 1, 0, NoNode)
    BY <2>1 DEF Tables
  <2> QED BY <2>1, <2>2 DEF n
<1>5. /\ Tables[0].flags = FS_DIR /\ Tables[0].impl = NFiles + 1 /\ Tables[0].ptr = 1
      /\ Tables[DevDir].name = DevName /\ Tables[DevDir].flags = FS_DIR
      /\ Tables[DevDir].impl = NDevs /\ Tables[DevDir].ptr = DevDir + 1
  BY <1>1, <1>3, InodeFields
<1>6. \A n \in 1 .. NFiles :
       /\ Tables[n].name = Disk[n].name /\ Tables[n].flags = FS_FILE
       /\ Tables[n].impl = Disk[n].offset /\ Tables[n].size = Disk[n].size
  BY <1>2, InodeFields
<1>7. \A k \in 1 .. NDevs :
       /\ Tables[DevDir + k].name = DevNames[k] /\ Tables[DevDir + k].flags = FS_CHAR
       /\ Tables[DevDir + k].impl = k - 1
  BY <1>4, InodeFields
<1> QED BY <1>5, <1>6, <1>7

(* fs_finddir() in a directory whose entries have different names.         *)
LEMMA FindIs ==
  ASSUME NEW n, NEW name, ~ NotDir(n), inode[n].impl \in Nat, inode[n].ptr \in Nat,
         NEW k \in 0 .. inode[n].impl - 1, inode[inode[n].ptr + k].name = name,
         \A l \in 0 .. inode[n].impl - 1 : inode[inode[n].ptr + l].name = name => l = k
  PROVE  fs_finddir(n, name) = inode[n].ptr + k
<1> DEFINE T == {l \in 0 .. (inode[n].impl - 1) : inode[inode[n].ptr + l].name = name}
<1>1. T = {k}
  OBVIOUS
<1>2. (CHOOSE j \in T : \A l \in T : j <= l) = k
  BY <1>1
<1> HIDE DEF T
<1>3. fs_finddir(n, name) =
        IF T = {} THEN NoNode ELSE inode[n].ptr + (CHOOSE j \in T : \A l \in T : j <= l)
  BY DEF fs_finddir, T
<1> QED BY <1>1, <1>2, <1>3

LEMMA FindNone ==
  ASSUME NEW n, NEW name,
         NotDir(n) \/ \A l \in 0 .. inode[n].impl - 1 : inode[inode[n].ptr + l].name # name
  PROVE  fs_finddir(n, name) = NoNode
<1>1. CASE NotDir(n)
  BY <1>1 DEF fs_finddir
<1>2. CASE ~ NotDir(n)
  <2>1. {l \in 0 .. (inode[n].impl - 1) : inode[inode[n].ptr + l].name = name} = {}
    BY <1>2
  <2> QED BY <1>2, <2>1 DEF fs_finddir
<1> QED BY <1>1, <1>2

LEMMA KindOf ==
  ASSUME inode = Tables
  PROVE  /\ ~ NotDir(0) /\ ~ NotDir(DevDir)
         /\ \A n \in 1 .. NFiles : NotDir(n)
         /\ \A k \in 1 .. NDevs : NotDir(DevDir + k)
  BY TablesAre DEF NotDir, FS_DIR, FS_FILE, FS_CHAR

(* The root's entries are the files and /dev, ...                          *)
LEMMA FindRoot ==
  ASSUME inode = Tables
  PROVE  /\ \A n \in 1 .. NFiles : fs_finddir(0, Disk[n].name) = n
         /\ fs_finddir(0, DevName) = DevDir
         /\ \A name : name # DevName /\ (\A n \in 1 .. NFiles : Disk[n].name # name) =>
                       fs_finddir(0, name) = NoNode
<1>1. /\ ~ NotDir(0) /\ inode[0].impl = NFiles + 1 /\ inode[0].ptr = 1
      /\ NFiles \in Nat /\ DevDir = NFiles + 1 /\ inode[0].impl \in Nat /\ inode[0].ptr \in Nat
  BY TablesAre, KindOf, DiskType
<1>2. /\ \A l \in 0 .. NFiles - 1 : inode[1 + l].name = Disk[1 + l].name
      /\ inode[1 + NFiles].name = DevName
  BY <1>1, TablesAre
<1>3. ASSUME NEW n \in 1 .. NFiles PROVE fs_finddir(0, Disk[n].name) = n
  <2> DEFINE k == n - 1
             name == Disk[n].name
  <2>1. k \in 0 .. inode[0].impl - 1 /\ inode[inode[0].ptr + k].name = name
        /\ inode[0].ptr + k = n
    BY <1>1, <1>2
  <2>2. ASSUME NEW l \in 0 .. inode[0].impl - 1, inode[inode[0].ptr + l].name = name
        PROVE  l = k
    <3>1. CASE l = NFiles
      BY <1>1, <1>2, <2>2, <3>1, DiskType
    <3>2. CASE l \in 0 .. NFiles - 1
      <4>1. Disk[1 + l].name = Disk[n].name /\ 1 + l \in 1 .. NFiles
        BY <1>1, <1>2, <2>2, <3>2
      <4>2. 1 + l = n
        BY <4>1, DiskAssumption
      <4> QED BY <1>1, <3>2, <4>2
    <3> QED BY <1>1, <3>1, <3>2
  <2> HIDE DEF k, name
  <2>3. fs_finddir(0, name) = inode[0].ptr + k
    BY <1>1, <2>1, <2>2, FindIs
  <2> QED BY <2>1, <2>3 DEF name
<1>4. fs_finddir(0, DevName) = DevDir
  <2>1. NFiles \in 0 .. inode[0].impl - 1 /\ inode[inode[0].ptr + NFiles].name = DevName
    BY <1>1, <1>2
  <2>2. ASSUME NEW l \in 0 .. inode[0].impl - 1, inode[inode[0].ptr + l].name = DevName
        PROVE  l = NFiles
    <3>1. CASE l \in 0 .. NFiles - 1
      <4>1. Disk[1 + l].name = DevName /\ 1 + l \in 1 .. NFiles
        BY <1>1, <1>2, <2>2, <3>1
      <4> QED BY <4>1, DiskType
    <3> QED BY <1>1, <3>1
  <2> QED BY <1>1, <2>1, <2>2, FindIs
<1>5. ASSUME NEW name, name # DevName, \A n \in 1 .. NFiles : Disk[n].name # name
      PROVE  fs_finddir(0, name) = NoNode
  <2>1. ASSUME NEW l \in 0 .. inode[0].impl - 1 PROVE inode[inode[0].ptr + l].name # name
    <3>1. CASE l = NFiles
      BY <1>1, <1>2, <1>5, <3>1
    <3>2. CASE l \in 0 .. NFiles - 1
      <4>1. inode[inode[0].ptr + l].name = Disk[1 + l].name /\ 1 + l \in 1 .. NFiles
        BY <1>1, <1>2, <3>2
      <4> QED BY <1>5, <4>1
    <3> QED BY <1>1, <3>1, <3>2
  <2> QED BY <2>1, FindNone
<1> QED BY <1>3, <1>4, <1>5

(* ... /dev's are the devices, and nothing else has any.                   *)
LEMMA FindDev ==
  ASSUME inode = Tables
  PROVE  /\ \A k \in 1 .. NDevs : fs_finddir(DevDir, DevNames[k]) = DevDir + k
         /\ \A name : (\A k \in 1 .. NDevs : DevNames[k] # name) =>
                       fs_finddir(DevDir, name) = NoNode
         /\ \A n \in 1 .. NFiles : \A name : fs_finddir(n, name) = NoNode
         /\ \A k \in 1 .. NDevs : \A name : fs_finddir(DevDir + k, name) = NoNode
<1>1. /\ ~ NotDir(DevDir) /\ inode[DevDir].impl = NDevs /\ inode[DevDir].ptr = DevDir + 1
      /\ NDevs \in Nat /\ DevDir \in Nat /\ inode[DevDir].impl \in Nat /\ inode[DevDir].ptr \in Nat
  BY TablesAre, KindOf, DiskType
<1>2. \A l \in 0 .. NDevs - 1 : inode[DevDir + 1 + l].name = DevNames[1 + l]
  <2> SUFFICES ASSUME NEW l \in 0 .. NDevs - 1
               PROVE  inode[DevDir + 1 + l].name = DevNames[1 + l]
    OBVIOUS
  <2>1. 1 + l \in 1 .. NDevs /\ DevDir + 1 + l = DevDir + (1 + l)
    BY <1>1
  <2> QED BY <2>1, TablesAre
<1>3. ASSUME NEW n \in 1 .. NDevs PROVE fs_finddir(DevDir, DevNames[n]) = DevDir + n
  <2> DEFINE k == n - 1
             name == DevNames[n]
  <2>1. k \in 0 .. inode[DevDir].impl - 1 /\ 1 + k = n
        /\ inode[DevDir].ptr + k = DevDir + 1 + k /\ DevDir + 1 + k = DevDir + n
    BY <1>1
  <2>3. inode[inode[DevDir].ptr + k].name = name
    BY <1>1, <1>2, <2>1
  <2>2. ASSUME NEW l \in 0 .. inode[DevDir].impl - 1, inode[inode[DevDir].ptr + l].name = name
        PROVE  l = k
    <3>1. DevNames[1 + l] = DevNames[n] /\ 1 + l \in 1 .. NDevs
      BY <1>1, <1>2, <2>2
    <3>2. 1 + l = n
      BY <3>1, DiskAssumption
    <3> QED BY <1>1, <3>2
  <2> HIDE DEF k, name
  <2>4. fs_finddir(DevDir, name) = inode[DevDir].ptr + k
    BY <1>1, <2>1, <2>2, <2>3, FindIs
  <2> QED BY <2>1, <2>4 DEF name
<1>4. ASSUME NEW name, \A k \in 1 .. NDevs : DevNames[k] # name
      PROVE  fs_finddir(DevDir, name) = NoNode
  <2>1. ASSUME NEW l \in 0 .. inode[DevDir].impl - 1
        PROVE  inode[inode[DevDir].ptr + l].name # name
    <3>1. inode[inode[DevDir].ptr + l].name = DevNames[1 + l] /\ 1 + l \in 1 .. NDevs
      BY <1>1, <1>2
    <3> QED BY <1>4, <3>1
  <2> QED BY <2>1, FindNone
<1>5. (\A n \in 1 .. NFiles : \A name : fs_finddir(n, name) = NoNode)
      /\ \A k \in 1 .. NDevs : \A name : fs_finddir(DevDir + k, name) = NoNode
  BY KindOf, FindNone
<1> QED BY <1>3, <1>4, <1>5

(* What the tokens t name.                                                 *)
IsPlace(t, n) ==
  \/ n \in 1 .. NFiles /\ t = <<Disk[n].name>>
  \/ n = DevDir /\ t = <<DevName>>
  \/ \E k \in 1 .. NDevs : n = DevDir + k /\ t = <<DevName, DevNames[k]>>

LEMMA PlaceIs ==
  /\ \A t, n : IsPlace(t, n) => <<t, n>> \in Places
  /\ \A x \in Places : x = <<x[1], x[2]>> /\ IsPlace(x[1], x[2])
  BY DEF Places, IsPlace

LEMMA PlaceOnce ==
  ASSUME NEW t, NEW m, NEW n, IsPlace(t, m), IsPlace(t, n)
  PROVE  m = n
<1>1. CASE m \in 1 .. NFiles /\ t = <<Disk[m].name>>
  <2>1. ~ (t = <<DevName>>)
    BY <1>1, DiskType
  <2>2. \A k : ~ (t = <<DevName, DevNames[k]>>)
    BY <1>1
  <2>3. n \in 1 .. NFiles /\ t = <<Disk[n].name>>
    BY <2>1, <2>2 DEF IsPlace
  <2>4. Disk[m].name = Disk[n].name
    BY ONLY <1>1, <2>3
  <2>5. \A k, l \in 1 .. NFiles : Disk[k].name = Disk[l].name => k = l
    BY ONLY DiskAssumption
  <2> QED BY ONLY <1>1, <2>3, <2>4, <2>5
<1>2. CASE m = DevDir /\ t = <<DevName>>
  <2>1. \A k \in 1 .. NFiles : ~ (t = <<Disk[k].name>>)
    BY <1>2, DiskType
  <2>2. \A k : ~ (t = <<DevName, DevNames[k]>>)
    BY <1>2
  <2> QED BY <1>2, <2>1, <2>2 DEF IsPlace
<1>3. CASE \E k \in 1 .. NDevs : m = DevDir + k /\ t = <<DevName, DevNames[k]>>
  <2>1. PICK k \in 1 .. NDevs : m = DevDir + k /\ t = <<DevName, DevNames[k]>>
    BY <1>3
  <2>2. PICK l \in 1 .. NDevs : n = DevDir + l /\ t = <<DevName, DevNames[l]>>
    BY <2>1 DEF IsPlace
  <2>3. DevNames[k] = DevNames[l]
    BY <2>1, <2>2
  <2> QED BY <2>1, <2>2, <2>3, DiskAssumption
<1> QED BY <1>1, <1>2, <1>3 DEF IsPlace

LEMMA ResolveIs ==
  ASSUME NEW p
  PROVE  /\ \A n : IsPlace(Tokens(p), n) => Resolve(p) = n
         /\ (\A n : ~ IsPlace(Tokens(p), n)) => Resolve(p) = NoNode
<1> DEFINE F == {x \in Places : x[1] = Tokens(p)}
<1>1. Resolve(p) = IF F = {} THEN NoNode ELSE (CHOOSE x \in F : TRUE)[2]
  BY DEF Resolve
<1>2. ASSUME NEW n, IsPlace(Tokens(p), n) PROVE Resolve(p) = n
  <2>1. <<Tokens(p), n>> \in F
    BY <1>2, PlaceIs
  <2>2. (CHOOSE x \in F : TRUE) \in F
    BY <2>1
  <2> DEFINE c == CHOOSE x \in F : TRUE
  <2>3. IsPlace(Tokens(p), c[2])
    BY <2>2, PlaceIs
  <2>4. c[2] = n
    BY <1>2, <2>3, PlaceOnce
  <2> QED BY <1>1, <2>1, <2>4
<1>3. ASSUME \A n : ~ IsPlace(Tokens(p), n) PROVE Resolve(p) = NoNode
  <2>1. F = {}
    BY <1>3, PlaceIs
  <2> QED BY <1>1, <2>1
<1> QED BY <1>2, <1>3

LEMMA TokensSeq ==
  ASSUME NEW s \in Strings
  PROVE  /\ Len(Tokens(s)) = Cardinality(Starts(s)) /\ Len(Tokens(s)) \in Nat
         /\ \E S : Tokens(s) \in Seq(S)
<1> DEFINE N == Cardinality(Starts(s))
           S == {Tokens(s)[k] : k \in 1 .. N}
<1>1. N \in Nat
  BY StartsFinite
<1>2. Tokens(s) \in [1 .. N -> S]
  BY DEF Tokens
<1> HIDE DEF S, N
<1>3. Tokens(s) \in Seq(S) /\ Len(Tokens(s)) = N
  BY <1>1, <1>2
<1> QED BY <1>1, <1>3 DEF N

(* The node after c tokens of p.                                           *)
Walked(p, c, nd) ==
  LET T == Tokens(p)
  IN  /\ c \in 1 .. Len(T)
      /\ nd = NoNode => Resolve(p) = NoNode
      /\ nd # NoNode => \/ c = 1 /\ IsPlace(<<T[1]>>, nd)
                        \/ c = 2 /\ IsPlace(<<T[1], T[2]>>, nd)

LEMMA PlaceShape ==
  ASSUME NEW t, NEW n, IsPlace(t, n)
  PROVE  /\ n \in 1 .. DevDir + NDevs
         /\ \/ Len(t) = 1 /\ t[1] = DevName
            \/ Len(t) = 1 /\ \E k \in 1 .. NFiles : t[1] = Disk[k].name
            \/ Len(t) = 2 /\ t[1] = DevName /\ \E k \in 1 .. NDevs : t[2] = DevNames[k]
<1>1. CASE n \in 1 .. NFiles /\ t = <<Disk[n].name>>
  BY <1>1, DiskType
<1>2. CASE n = DevDir /\ t = <<DevName>>
  BY <1>2, DiskType
<1>3. ASSUME NEW k \in 1 .. NDevs, n = DevDir + k, t = <<DevName, DevNames[k]>>
      PROVE  n \in 1 .. DevDir + NDevs
             /\ Len(t) = 2 /\ t[1] = DevName /\ t[2] = DevNames[k]
  BY <1>3, DiskType
<1> QED BY <1>1, <1>2, <1>3 DEF IsPlace

LEMMA WalkFirst ==
  ASSUME inode = Tables, NEW p \in Strings, Len(Tokens(p)) >= 1
  PROVE  Walked(p, 1, fs_finddir(0, Tokens(p)[1]))
<1> DEFINE T == Tokens(p)
           nd == fs_finddir(0, T[1])
<1>0. 1 \in 1 .. Len(T)
  BY TokensSeq
<1>1. CASE T[1] = DevName
  <2>1. nd = DevDir /\ nd # NoNode
    BY <1>1, FindRoot, DiskType DEF NoNode
  <2>2. IsPlace(<<T[1]>>, DevDir)
    BY <1>1 DEF IsPlace
  <2> QED BY <1>0, <2>1, <2>2 DEF Walked
<1>2. ASSUME NEW n \in 1 .. NFiles, T[1] = Disk[n].name
      PROVE  Walked(p, 1, nd)
  <2>1. nd = n /\ nd # NoNode
    BY <1>2, FindRoot DEF NoNode
  <2>2. IsPlace(<<T[1]>>, n)
    BY <1>2 DEF IsPlace
  <2> QED BY <1>0, <2>1, <2>2 DEF Walked
<1>3. CASE T[1] # DevName /\ \A n \in 1 .. NFiles : Disk[n].name # T[1]
  <2>1. nd = NoNode
    BY <1>3, FindRoot
  <2>2. \A n : ~ IsPlace(T, n)
    BY <1>3, PlaceShape
  <2>3. Resolve(p) = NoNode
    BY <2>2, ResolveIs
  <2> QED BY <1>0, <2>1, <2>3 DEF Walked
<1> QED BY <1>1, <1>2, <1>3

LEMMA Longer ==
  ASSUME NEW N \in Nat, NEW c \in Nat, c + 1 <= N
  PROVE  (c = 1 => N # 1 /\ c + 1 = 2) /\ (c = 2 => N # 1 /\ N # 2)
  OBVIOUS

LEMMA WalkNext ==
  ASSUME inode = Tables, NEW p \in Strings, NEW c, NEW nd, Walked(p, c, nd), nd # NoNode,
         c + 1 \in 1 .. Len(Tokens(p))
  PROVE  Walked(p, c + 1, fs_finddir(nd, Tokens(p)[c + 1]))
<1> DEFINE T == Tokens(p)
           next == fs_finddir(nd, T[c + 1])
<1>0. Len(T) \in Nat /\ c \in Nat /\ c + 1 <= Len(T)
  <2>1. Len(T) \in Nat
    BY TokensSeq
  <2>2. c \in 1 .. Len(T)
    BY DEF Walked
  <2> HIDE DEF T
  <2>3. c + 1 \in 1 .. Len(T)
    BY DEF T
  <2> QED BY <2>1, <2>2, <2>3
<1>a. (c = 1 => Len(T) # 1 /\ c + 1 = 2) /\ (c = 2 => Len(T) # 1 /\ Len(T) # 2)
  BY <1>0, Longer, Zenon
<1>1. ASSUME next = NoNode, \A n : ~ IsPlace(T, n) PROVE Walked(p, c + 1, next)
  BY <1>1, ResolveIs DEF Walked
<1>2. CASE c = 1 /\ IsPlace(<<T[1]>>, nd)
  <2>1. CASE nd \in 1 .. NFiles /\ <<T[1]>> = <<Disk[nd].name>>
    <3>1. next = NoNode
      BY <2>1, FindDev
    <3>2. T[1] # DevName /\ Len(T) # 1
      <4>1. T[1] = Disk[nd].name /\ c = 1
        BY <1>2, <2>1
      <4> QED BY <1>a, <2>1, <4>1, DiskType, Zenon
    <3>3. \A n : ~ IsPlace(T, n)
      BY <3>2, PlaceShape
    <3> QED BY <1>1, <3>1, <3>3
  <2>2. CASE nd = DevDir /\ <<T[1]>> = <<DevName>>
    <3>0. T[1] = DevName /\ Len(T) # 1 /\ c + 1 = 2
      <4>1. T[1] = DevName /\ c = 1
        BY <1>2, <2>2
      <4> QED BY <1>a, <4>1
    <3>1. ASSUME NEW k \in 1 .. NDevs, T[2] = DevNames[k] PROVE Walked(p, c + 1, next)
      <4>1. next = DevDir + k
        BY <2>2, <3>0, <3>1, FindDev
      <4>2. next # NoNode
        BY <4>1, DiskType DEF NoNode
      <4>3. IsPlace(<<T[1], T[2]>>, next)
        BY <3>0, <3>1, <4>1 DEF IsPlace
      <4> QED BY <3>0, <4>2, <4>3 DEF Walked
    <3>2. CASE \A k \in 1 .. NDevs : DevNames[k] # T[2]
      <4>1. next = NoNode
        BY <2>2, <3>0, <3>2, FindDev
      <4>2. \A n : ~ IsPlace(T, n)
        BY <3>0, <3>2, PlaceShape
      <4> QED BY <1>1, <4>1, <4>2
    <3> QED BY <3>1, <3>2
  <2>3. \A k : ~ (<<T[1]>> = <<DevName, DevNames[k]>>)
    OBVIOUS
  <2> QED BY <1>2, <2>1, <2>2, <2>3 DEF IsPlace
<1>3. CASE c = 2 /\ IsPlace(<<T[1], T[2]>>, nd)
  <2>1. (\A k : ~ (<<T[1], T[2]>> = <<Disk[k].name>>)) /\ ~ (<<T[1], T[2]>> = <<DevName>>)
    OBVIOUS
  <2>2. PICK k \in 1 .. NDevs : nd = DevDir + k
    BY <1>3, <2>1 DEF IsPlace
  <2>3. next = NoNode
    BY <2>2, FindDev
  <2>4. Len(T) # 1 /\ Len(T) # 2
    <3>1. c = 2
      BY <1>3
    <3> QED BY <1>a, <3>1, Zenon
  <2>5. \A n : ~ IsPlace(T, n)
    BY <2>4, PlaceShape
  <2> QED BY <1>1, <2>3, <2>5
<1> QED BY <1>2, <1>3 DEF Walked

LEMMA WalkDone ==
  ASSUME NEW p \in Strings, NEW c, NEW nd, Walked(p, c, nd), nd = NoNode \/ c = Len(Tokens(p))
  PROVE  nd = Resolve(p)
<1> DEFINE T == Tokens(p)
<1>1. PICK S : T \in Seq(S)
  BY TokensSeq
<1>2. CASE nd = NoNode
  BY <1>2 DEF Walked
<1>3. CASE nd # NoNode /\ c = 1 /\ IsPlace(<<T[1]>>, nd)
  <2>1. T = <<T[1]>>
    BY <1>1, <1>3
  <2> QED BY <1>3, <2>1, ResolveIs
<1>4. CASE nd # NoNode /\ c = 2 /\ IsPlace(<<T[1], T[2]>>, nd)
  <2>1. T = <<T[1], T[2]>>
    BY <1>1, <1>4
  <2> QED BY <1>4, <2>1, ResolveIs
<1> QED BY <1>2, <1>3, <1>4 DEF Walked

(* A path of delimiters only names nothing, and is not found.              *)
LEMMA NoTokens ==
  ASSUME inode = Tables, NEW p \in Strings, Len(Tokens(p)) = 0
  PROVE  fs_finddir(0, p) = NoNode /\ Resolve(p) = NoNode
<1>1. Starts(p) = {}
  BY TokensSeq, StartsFinite, FS_EmptySet
<1>2. p \notin Names
  <2> SUFFICES ASSUME p \in Names PROVE FALSE
    OBVIOUS
  <2>1. p \in Seq(Chars) /\ p # <<>>
    BY DEF Names
  <2>2. 1 \in 1 .. Len(p) /\ p[1] \in Chars
    BY <2>1
  <2>3. 1 \in Starts(p)
    BY <2>2 DEF Starts, Chars
  <2> QED BY <1>1, <2>3
<1>3. fs_finddir(0, p) = NoNode
  BY <1>2, FindRoot, DiskType
<1>4. \A n : ~ IsPlace(Tokens(p), n)
  BY PlaceShape
<1> QED BY <1>3, <1>4, ResolveIs

(***************************************************************************)
(* The path "/dev/tty"                                                     *)
(***************************************************************************)

LEMMA TtyPathIs ==
  LET D == Len(DevName)
      E == Len(DevNames[1])
  IN  /\ D \in Nat /\ E \in Nat /\ D >= 1 /\ E >= 1
      /\ TtyPath \in Strings /\ Len(TtyPath) = D + E + 2
      /\ TtyPath[1] = Sep /\ TtyPath[D + 2] = Sep
      /\ \A k \in 1 .. D : TtyPath[k + 1] = DevName[k] /\ DevName[k] \in Chars
      /\ \A k \in 1 .. E : TtyPath[D + 2 + k] = DevNames[1][k] /\ DevNames[1][k] \in Chars
<1> DEFINE d == DevName
           e == DevNames[1]
           D == Len(d)
           E == Len(e)
           S == Chars \cup {Sep}
<1>1. d \in Seq(Chars) /\ d # <<>> /\ e \in Seq(Chars) /\ e # <<>>
  BY DiskType DEF Names
<1>2. d \in Seq(S) /\ e \in Seq(S) /\ <<Sep>> \in Seq(S)
  BY <1>1
<1>3. D \in Nat /\ E \in Nat /\ D >= 1 /\ E >= 1
  BY <1>1
<1> DEFINE a == <<Sep>> \o d
           b == a \o <<Sep>>
           c == b \o e
<1> HIDE DEF d, e
<1>4. a \in Seq(S) /\ Len(a) = D + 1 /\ a[1] = Sep /\ \A k \in 1 .. D : a[k + 1] = d[k]
  BY <1>2, <1>3
<1> HIDE DEF a
<1>5. b \in Seq(S) /\ Len(b) = D + 2 /\ b[D + 2] = Sep /\ \A k \in 1 .. D + 1 : b[k] = a[k]
  BY <1>2, <1>3, <1>4
<1> HIDE DEF b
<1>6. /\ c \in Seq(S) /\ Len(c) = D + E + 2
      /\ (\A k \in 1 .. D + 2 : c[k] = b[k]) /\ \A k \in 1 .. E : c[D + 2 + k] = e[k]
  <2>1. /\ c \in Seq(S) /\ Len(c) = Len(b) + Len(e)
        /\ \A k \in 1 .. Len(b) + Len(e) : c[k] = IF k <= Len(b) THEN b[k] ELSE e[k - Len(b)]
    BY <1>2, <1>5, ConcatProperties
  <2> HIDE DEF c
  <2>2. Len(b) = D + 2 /\ Len(e) = E
    BY <1>5
  <2>3. \A k \in 1 .. D + 2 : c[k] = b[k]
    BY <1>3, <2>1, <2>2
  <2>4. \A k \in 1 .. E : c[D + 2 + k] = e[k]
    <3> SUFFICES ASSUME NEW k \in 1 .. E PROVE c[D + 2 + k] = e[k]
      OBVIOUS
    <3>1. D + 2 + k \in 1 .. D + 2 + E /\ ~ (D + 2 + k <= D + 2) /\ D + 2 + k - (D + 2) = k
      BY <1>3
    <3> QED BY <2>1, <2>2, <3>1
  <2>5. D + 2 + E = D + E + 2
    BY <1>3
  <2> QED BY <2>1, <2>2, <2>3, <2>4, <2>5
<1>7. TtyPath = c
  BY DEF TtyPath, a, b, c, d, e
<1> HIDE DEF c
<1>8. c[1] = Sep /\ c[D + 2] = Sep /\ \A k \in 1 .. D : c[k + 1] = d[k]
  <2>1. c[1] = b[1] /\ b[1] = a[1] /\ c[D + 2] = b[D + 2]
    BY <1>3, <1>5, <1>6
  <2>2. \A k \in 1 .. D : k + 1 \in 1 .. D + 1 /\ k + 1 \in 1 .. D + 2
    BY <1>3
  <2> QED BY <1>4, <1>5, <1>6, <2>1, <2>2
<1>9. c \in Strings
  BY <1>6 DEF Strings
<1>10. (\A k \in 1 .. D : d[k] \in Chars) /\ \A k \in 1 .. E : e[k] \in Chars
  BY <1>1
<1> QED BY <1>3, <1>6, <1>7, <1>8, <1>9, <1>10 DEF d, e

LEMMA TtyTokens == Tokens(TtyPath) = <<DevName, DevNames[1]>>
<1> DEFINE s == TtyPath
           d == DevName
           e == DevNames[1]
           D == Len(d)
           E == Len(e)
<1>1. /\ D \in Nat /\ E \in Nat /\ D >= 1 /\ E >= 1
      /\ s \in Strings /\ Len(s) = D + E + 2
      /\ s[1] = Sep /\ s[D + 2] = Sep
      /\ \A k \in 1 .. D : s[k + 1] = d[k] /\ d[k] \in Chars
      /\ \A k \in 1 .. E : s[D + 2 + k] = e[k] /\ e[k] \in Chars
  BY TtyPathIs
<1>2. d \in Seq(Chars) /\ e \in Seq(Chars)
  <2>1. DevName \in Names /\ DevNames[1] \in Names
    BY DiskType
  <2> QED BY <2>1 DEF Names
<1> HIDE DEF s, d, e
<1>3. Sep \notin Chars
  BY DEF Chars
<1>4. \A k \in 2 .. D + 1 : s[k] # Sep /\ s[k] = d[k - 1] /\ s[k] \in Chars
  <2> SUFFICES ASSUME NEW k \in 2 .. D + 1
               PROVE  s[k] # Sep /\ s[k] = d[k - 1] /\ s[k] \in Chars
    OBVIOUS
  <2>1. k - 1 \in 1 .. D /\ (k - 1) + 1 = k
    BY <1>1
  <2>2. s[(k - 1) + 1] = d[k - 1] /\ d[k - 1] \in Chars
    BY <1>1, <2>1
  <2> QED BY <1>3, <2>1, <2>2
<1>5. \A k \in D + 3 .. D + E + 2 : s[k] # Sep /\ s[k] = e[k - (D + 2)] /\ s[k] \in Chars
  <2> SUFFICES ASSUME NEW k \in D + 3 .. D + E + 2
               PROVE  s[k] # Sep /\ s[k] = e[k - (D + 2)] /\ s[k] \in Chars
    OBVIOUS
  <2>1. k - (D + 2) \in 1 .. E /\ D + 2 + (k - (D + 2)) = k
    BY <1>1
  <2>2. s[D + 2 + (k - (D + 2))] = e[k - (D + 2)] /\ e[k - (D + 2)] \in Chars
    BY <1>1, <2>1
  <2> QED BY <1>3, <2>1, <2>2
<1>6. Starts(s) = {2, D + 3}
  <2>1. 2 \in Starts(s)
    <3>1. 2 \in 1 .. Len(s) /\ s[2] # Sep /\ s[2 - 1] = Sep
      BY <1>1, <1>4
    <3> QED BY <3>1 DEF Starts
  <2>2. D + 3 \in Starts(s)
    <3>1. D + 3 \in 1 .. Len(s) /\ s[D + 3] # Sep /\ (D + 3) - 1 = D + 2
      BY <1>1, <1>5
    <3> QED BY <1>1, <3>1 DEF Starts
  <2>3. ASSUME NEW k \in Starts(s), k # 2, k # D + 3 PROVE FALSE
    <3>1. k \in 1 .. Len(s) /\ s[k] # Sep /\ (k = 1 \/ s[k - 1] = Sep)
      BY <2>3 DEF Starts
    <3>2. k # 1 /\ k # D + 2
      BY <1>1, <3>1
    <3>3. k - 1 \in 2 .. D + 1 \/ k - 1 \in D + 3 .. D + E + 2
      BY <1>1, <2>3, <3>1, <3>2
    <3> QED BY <1>4, <1>5, <3>1, <3>2, <3>3
  <2> QED BY <2>1, <2>2, <2>3
<1>7. Cardinality(Before(s, 2)) = 0 /\ Cardinality(Before(s, D + 3)) = 1
  <2>1. Before(s, 2) = {} /\ Before(s, D + 3) = {2}
    BY <1>1, <1>6 DEF Before
  <2> QED BY <2>1, FS_EmptySet, FS_Singleton
<1>8. Cardinality(Starts(s)) = 2
  <2>0. D + 3 \notin {2}
    BY <1>1
  <2>1. IsFiniteSet({2}) /\ Cardinality({2}) = 1
    BY FS_Singleton
  <2>2. Cardinality({2} \cup {D + 3}) = Cardinality({2}) + 1
    BY <2>0, <2>1, FS_AddElement, Zenon
  <2>3. {2} \cup {D + 3} = Starts(s)
    BY <1>6
  <2>4. Cardinality(Starts(s)) = 1 + 1
    BY <2>1, <2>2, <2>3
  <2> QED BY <2>4
<1>9. Part(s, 2) = d
  <2>1. Ends(s, 2, D + 1)
    BY <1>1, <1>4 DEF Ends
  <2>2. Part(s, 2) = SubSeq(s, 2, D + 1)
    BY <1>1, <2>1, PartEnds
  <2>3. /\ SubSeq(s, 2, D + 1) \in Seq(Chars) /\ Len(SubSeq(s, 2, D + 1)) = D
        /\ \A k \in 1 .. D : SubSeq(s, 2, D + 1)[k] = s[k + 1]
    <3>1. 2 \in Nat /\ D + 1 \in Nat /\ D + 1 - 2 + 1 = D /\ \A k \in 2 .. D + 1 : s[k] \in Chars
      BY <1>1, <1>4
    <3>2. /\ SubSeq(s, 2, D + 1) \in Seq(Chars) /\ Len(SubSeq(s, 2, D + 1)) = D + 1 - 2 + 1
          /\ \A k \in 1 .. D + 1 - 2 + 1 : SubSeq(s, 2, D + 1)[k] = s[2 + k - 1]
      BY <1>1, <3>1, PartIs
    <3>3. \A k \in 1 .. D : 2 + k - 1 = k + 1
      BY <1>1
    <3> QED BY <3>1, <3>2, <3>3
  <2>4. \A k \in 1 .. D : SubSeq(s, 2, D + 1)[k] = d[k]
    BY <1>1, <2>3
  <2> QED BY <1>2, <2>2, <2>3, <2>4, SeqEqual
<1>10. Part(s, D + 3) = e
  <2> DEFINE m == D + 3
             n == D + E + 2
  <2>0. m \in Nat /\ n \in Nat /\ m >= 1 /\ n >= m - 1 /\ n - m + 1 = E /\ n = Len(s) /\ m <= n
    BY <1>1
  <2>a. \A k \in m .. n : s[k] # Sep /\ s[k] \in Chars
    BY <1>5
  <2>b. \A k \in 1 .. E : s[m + k - 1] = e[k]
    <3> SUFFICES ASSUME NEW k \in 1 .. E PROVE s[m + k - 1] = e[k]
      OBVIOUS
    <3>1. m + k - 1 = D + 2 + k
      BY <1>1
    <3> QED BY <1>1, <3>1
  <2> HIDE DEF m, n
  <2>1. Ends(s, m, n)
    BY <2>0, <2>a DEF Ends
  <2>2. Part(s, m) = SubSeq(s, m, n)
    BY <1>1, <2>0, <2>1, PartEnds
  <2>3. /\ SubSeq(s, m, n) \in Seq(Chars) /\ Len(SubSeq(s, m, n)) = n - m + 1
        /\ \A k \in 1 .. n - m + 1 : SubSeq(s, m, n)[k] = s[m + k - 1]
    BY <2>0, <2>a, PartIs
  <2>4. SubSeq(s, m, n) = e
    BY <1>2, <2>0, <2>b, <2>3, SeqEqual
  <2> QED BY <2>2, <2>4 DEF m
<1>11. Tokens(s)[1] = d /\ Tokens(s)[2] = e
  <2>1. /\ Tokens(s)[Cardinality(Before(s, 2)) + 1] = Part(s, 2)
        /\ Tokens(s)[Cardinality(Before(s, D + 3)) + 1] = Part(s, D + 3)
    BY <1>1, <1>6, TokenAt
  <2> QED BY <1>7, <1>9, <1>10, <2>1
<1>12. PICK S : Tokens(s) \in Seq(S) /\ Len(Tokens(s)) = 2
  BY <1>1, <1>8, TokensSeq
<1>13. Tokens(s) = <<d, e>>
  BY <1>11, <1>12
<1> QED BY <1>13 DEF s, d, e

LEMMA TtyResolves == Resolve(TtyPath) = DevDir + 1
<1>1. IsPlace(Tokens(TtyPath), DevDir + 1)
  BY TtyTokens, DiskType DEF IsPlace
<1> QED BY <1>1, ResolveIs

(***************************************************************************)
(* What is shown of the buffer                                             *)
(***************************************************************************)

LEMMA BytesAre ==
  ASSUME NEW n \in 1 .. NFiles
  PROVE  /\ FileBytes(n) \in Seq(Nat) /\ Len(FileBytes(n)) = Disk[n].size
         /\ \A k \in 1 .. Disk[n].size :
              /\ FileBytes(n)[k] = DiskBase + FileBase + Disk[n].offset + k - 1
              /\ FileBytes(n)[k] \in Nat /\ FileBytes(n)[k] # Zero
<1>1. DiskBase \in Nat /\ DiskBase > 1 /\ FileBase \in Nat
      /\ Disk[n].size \in Nat /\ Disk[n].offset \in Nat
  BY DiskType, DiskBaseAssumption DEF FileBase
<1> DEFINE sz == Disk[n].size
<1>2. \A k \in 1 .. sz : /\ FileBytes(n)[k] = DiskBase + FileBase + Disk[n].offset + k - 1
                         /\ FileBytes(n)[k] \in Nat /\ FileBytes(n)[k] # Zero
  BY <1>1 DEF FileBytes, Zero
<1>3. FileBytes(n) \in [1 .. sz -> Nat]
  BY <1>1, <1>2 DEF FileBytes
<1> HIDE DEF sz
<1>4. FileBytes(n) \in Seq(Nat) /\ Len(FileBytes(n)) = sz
  <2> DEFINE w == FileBytes(n)
  <2>1. w \in [1 .. sz -> Nat] /\ sz \in Nat
    BY <1>1, <1>3 DEF sz
  <2> HIDE DEF w
  <2>2. w \in Seq(Nat) /\ Len(w) = sz
    BY <2>1
  <2> QED BY <2>2 DEF w
<1> QED BY <1>2, <1>4 DEF sz

LEMMA ShowsFile ==
  ASSUME NEW b \in [1 .. BufSize -> Nat], NEW n \in 1 .. NFiles,
         \A k \in 1 .. Disk[n].size : b[k] = FileBytes(n)[k],
         NEW z \in Disk[n].size + 1 .. BufSize, b[z] = Zero
  PROVE  /\ Shown(b) \in Seq(Nat)
         /\ Len(Shown(b)) >= Disk[n].size
         /\ SubSeq(Shown(b), 1, Disk[n].size) = FileBytes(n)
         /\ b[Disk[n].size + 1] = Zero => Len(Shown(b)) = Disk[n].size
<1> DEFINE sz == Disk[n].size
           T == {k \in 1 .. BufSize : b[k] = Zero}
<1>0. sz \in Nat /\ BufSize \in Nat /\ z \in Nat
      /\ FileBytes(n) \in Seq(Nat) /\ Len(FileBytes(n)) = sz
      /\ \A k \in 1 .. sz : b[k] = FileBytes(n)[k] /\ FileBytes(n)[k] \in Nat /\ b[k] # Zero
  <2>1. sz \in Nat /\ BufSize \in Nat
    BY DiskType, BufSizeAssumption
  <2>2. FileBytes(n) \in Seq(Nat) /\ Len(FileBytes(n)) = sz
        /\ \A k \in 1 .. sz : FileBytes(n)[k] \in Nat /\ FileBytes(n)[k] # Zero
    BY BytesAre
  <2>3. \A k \in 1 .. sz : b[k] = FileBytes(n)[k]
    OBVIOUS
  <2>4. z \in Nat
    BY <2>1
  <2> HIDE DEF sz
  <2> QED BY <2>1, <2>2, <2>3, <2>4
<1> HIDE DEF sz
<1>1. T \subseteq Nat /\ z \in T
  BY <1>0 DEF sz
<1>2. PICK e \in T : \A l \in T : e <= l
  BY <1>1, LeastOf
<1>3. e \in 1 .. BufSize /\ e <= z /\ b[e] = Zero /\ e > sz
  <2>1. e \in 1 .. BufSize /\ e <= z /\ b[e] = Zero
    BY <1>1, <1>2
  <2> QED BY <1>0, <2>1
<1>4. Shown(b) = SubSeq(b, 1, e - 1)
  <2>1. (CHOOSE k \in T : \A l \in T : k <= l) = e
    BY <1>1, <1>2, ChosenLeast
  <2> QED BY <2>1 DEF Shown
<1> DEFINE w == Shown(b)
           m == e - 1
<1>5. m \in Nat /\ m >= sz /\ m <= BufSize /\ \A k \in 1 .. m : b[k] \in Nat
  BY <1>0, <1>3
<1>6. w \in Seq(Nat) /\ Len(w) = m /\ \A k \in 1 .. m : w[k] = b[k]
  <2> HIDE DEF m
  <2>1. /\ SubSeq(b, 1, m) \in Seq(Nat) /\ Len(SubSeq(b, 1, m)) = m - 1 + 1
        /\ \A k \in 1 .. m - 1 + 1 : SubSeq(b, 1, m)[k] = b[1 + k - 1]
    BY <1>5, PartIs
  <2>2. w = SubSeq(b, 1, m)
    BY <1>4 DEF m
  <2>3. m - 1 + 1 = m /\ \A k \in 1 .. m : 1 + k - 1 = k
    BY <1>5
  <2> QED BY <2>1, <2>2, <2>3
<1> HIDE DEF w, m
<1>7. /\ SubSeq(w, 1, sz) \in Seq(Nat) /\ Len(SubSeq(w, 1, sz)) = sz
      /\ \A k \in 1 .. sz : SubSeq(w, 1, sz)[k] = w[k]
  <2>1. \A k \in 1 .. sz : w[k] \in Nat
    BY <1>0, <1>5, <1>6
  <2>2. /\ SubSeq(w, 1, sz) \in Seq(Nat) /\ Len(SubSeq(w, 1, sz)) = sz - 1 + 1
        /\ \A k \in 1 .. sz - 1 + 1 : SubSeq(w, 1, sz)[k] = w[1 + k - 1]
    BY <1>0, <2>1, PartIs
  <2>3. sz - 1 + 1 = sz /\ \A k \in 1 .. sz : 1 + k - 1 = k
    BY <1>0
  <2> QED BY <2>2, <2>3
<1>8. \A k \in 1 .. sz : SubSeq(w, 1, sz)[k] = FileBytes(n)[k]
  BY <1>0, <1>5, <1>6, <1>7
<1>9. SubSeq(w, 1, sz) = FileBytes(n)
  BY <1>0, <1>7, <1>8, SeqEqual
<1>10. b[sz + 1] = Zero => m = sz
  <2> SUFFICES ASSUME b[sz + 1] = Zero PROVE m = sz
    OBVIOUS
  <2>1. sz + 1 \in T
    BY <1>0, <1>3
  <2>2. e <= sz + 1
    BY <1>2, <2>1
  <2> QED BY <1>0, <1>3, <2>2 DEF m
<1> QED BY <1>5, <1>6, <1>9, <1>10 DEF w, sz

(* ramfs_read() of file n copies its bytes, wherever the device was.       *)
LEMMA ReadsFile ==
  ASSUME inode = Tables, addr = DiskBase, offset \in [Devs -> Int], NEW n \in 1 .. NFiles
  PROVE  Contents(n) = FileBytes(n)
<1>1. inode[n].size = Disk[n].size /\ inode[n].impl = Disk[n].offset
  BY TablesAre
<1>2. Sought(n)[DEV_RAMDISK] = FileBase + Disk[n].offset
  BY <1>1 DEF Sought, dev_seek, Devs
<1>3. Contents(n) = [k \in 1 .. Disk[n].size |-> DiskBase + (FileBase + Disk[n].offset) + k - 1]
  BY <1>1, <1>2 DEF Contents, ramdisk_read
<1>4. DiskBase \in Nat /\ FileBase \in Nat /\ Disk[n].offset \in Nat /\ Disk[n].size \in Nat
  BY DiskType, DiskBaseAssumption DEF FileBase
<1>5. \A k \in 1 .. Disk[n].size :
        DiskBase + (FileBase + Disk[n].offset) + k - 1 = DiskBase + FileBase + Disk[n].offset + k - 1
  BY <1>4
<1> QED BY <1>3, <1>5 DEF FileBytes

LEMMA OffsetType ==
  ASSUME inode = Tables, offset \in [Devs -> Int], NEW n \in 1 .. NFiles, ramfs_read(n)
  PROVE  offset' \in [Devs -> Int]
<1>1. inode[n].size \in Nat /\ inode[n].impl \in Nat /\ FileBase \in Nat
  BY TablesAre, DiskType DEF FileBase
<1>2. Sought(n) \in [Devs -> Int]
  <2>1. Sought(n) = [offset EXCEPT ![DEV_RAMDISK] = FileBase + inode[n].impl]
    BY DEF Sought, dev_seek
  <2>2. FileBase + inode[n].impl \in Int
    BY <1>1
  <2> QED BY <2>1, <2>2
<1> DEFINE o == Sought(n)
           len == inode[n].size
<1>3. offset' = IF len > 0 THEN [o EXCEPT ![DEV_RAMDISK] = o[DEV_RAMDISK] + len] ELSE o
  BY DEF ramfs_read, dev_read
<1>4. o \in [Devs -> Int] /\ len \in Int
  BY <1>1, <1>2
<1> HIDE DEF o, len
<1>5. o[DEV_RAMDISK] + len \in Int
  BY <1>4 DEF Devs
<1> QED BY <1>3, <1>4, <1>5

(***************************************************************************)
(* The inductive invariant                                                 *)
(***************************************************************************)

Held    == {"buf", "tty", "ramdisk", "inodes"}
Running == {"greet", "prompt", "run", "list", "devs", "lookup", "tok", "halt"}

(* The devices, the inodes and the heap: after the boot only fs_lookup()   *)
(* holds something for itself.                                             *)
Memory ==
  /\ pc \in Running \cup {"tty", "disk", "mount", "off"}
  /\ offset \in [Devs -> Int] /\ data \in [Devs -> {NoData, "tty", "ramdisk"}]
  /\ pc = "tty" => alive = {"buf"} /\ data[DEV_TTY] = NoData /\ data[DEV_RAMDISK] = NoData
  /\ pc = "disk" => alive = {"buf", "tty"} /\ data[DEV_RAMDISK] = NoData
  /\ pc = "mount" => alive = {"buf", "tty", "ramdisk"}
  /\ pc \in Running => /\ inode = Tables
                       /\ alive = IF here = "out" THEN Held ELSE Held \cup {"path"}
  /\ pc \notin {"tty", "disk"} => addr = DiskBase
  /\ here # "out" => pc = "lookup"

(* fs_lookup(): the node is where the tokens seen so far lead.             *)
Lookup ==
  /\ here \in {"first", "more", "out"}
  /\ here = "out" /\ pc # "tok" => at = "out"
  /\ here # "out" => StrOK(path)
  /\ here = "first" => node = 0 /\ Cardinality(Seen(path)) = 0
  /\ here = "more" => Walked(path, Cardinality(Seen(path)), node)
  /\ pc = "lookup" /\ here = "out" => node = Resolve(path)

(* The first k entries of directory n are on the screen.                   *)
Listed(n, k) ==
  /\ index = k /\ k \in 0 .. Tables[n].impl
  /\ screen \in Seq(Int) /\ Len(screen) = k
  /\ \A j \in 1 .. k : screen[j] = Tables[n].ptr + j - 1

(* The tokens seen so far are on the screen.                               *)
TokensShown ==
  /\ screen \in Seq({DevName, DevNames[1]})
  /\ Len(screen) = Cardinality(Seen(TtyPath))
  /\ Len(screen) <= Len(Tokens(TtyPath))
  /\ \A j \in 1 .. Len(screen) : screen[j] = Tokens(TtyPath)[j]

(* The command at work, what it was given and what it has printed.         *)
Command ==
  /\ buf \in [1 .. BufSize -> Nat]
  /\ pc \in {"run", "list", "devs", "lookup", "tok"} => cmd \in Commands
  /\ pc \in {"run", "lookup"} => screen = <<>>
  /\ pc = "run" => buf = [k \in 1 .. BufSize |-> IF k <= LineLen(cmd) THEN Typed ELSE Zero]
  /\ pc = "lookup" => \/ cmd.op = "ls" /\ path = cmd.arg /\ cmd.arg # <<>>
                      \/ cmd.op = "tty" /\ path = TtyPath
  /\ pc = "list" => /\ cmd.op = "ls" /\ node \in {0, DevDir} /\ Listed(node, index)
                    /\ node = IF cmd.arg = <<>> THEN 0 ELSE Resolve(cmd.arg)
  /\ pc = "devs" => cmd.op = "devs" /\ node = DevDir /\ Listed(DevDir, index)
  /\ pc = "tok" => cmd.op = "tok" /\ StrOK(TtyPath) /\ TokensShown
  /\ FileShown /\ Answered

SInv == Memory /\ Lookup /\ Command

LEMMA CommandType ==
  ASSUME NEW c \in Commands
  PROVE  /\ c.op \in Ops /\ c.arg \in Strings /\ Len(c.arg) \in Nat
         /\ LineLen(c) \in Nat /\ LineLen(c) < BufSize /\ BufSize \in Nat
<1>1. c.op \in Ops /\ c.arg \in Strings
  BY CommandsAssumption
<1>2. Len(c.arg) \in Nat
  BY <1>1 DEF Strings
<1>3. Len(c.arg) + 4 < BufSize /\ BufSize \in Nat
  BY BufSizeAssumption
<1>4. LineLen(c) = Len(c.arg) + 4 \/ LineLen(c) = Len(c.arg) + 3
  BY DEF LineLen
<1> HIDE DEF LineLen
<1>5. LineLen(c) \in Nat /\ LineLen(c) < BufSize
  BY <1>2, <1>3, <1>4
<1> QED BY <1>1, <1>2, <1>3, <1>5

LEMMA MemoryInit == ShellInit => Memory
  BY DEF ShellInit, VfsInit, Memory, Running, Devs, DEV_TTY, DEV_RAMDISK

(* The steps that leave the devices, the inodes and the heap alone.        *)
LEMMA MemoryIdle ==
  ASSUME Memory, UNCHANGED <<devVars, inode, here>>, pc' \in Running, pc \in Running,
         here = "out" \/ pc' = pc
  PROVE  Memory'
  BY DEF Memory, devVars, Running

LEMMA MemoryStep == SInv /\ [Prompt \/ Thread]_allVars => Memory'
<1> SUFFICES ASSUME SInv, [Prompt \/ Thread]_allVars PROVE Memory'
  OBVIOUS
<1>0. Memory /\ Lookup /\ Command
  BY DEF SInv
<1>1. CASE OpenTty
  <2>1. /\ pc = "tty" /\ pc' = "disk" /\ UNCHANGED <<addr, inode, here>>
        /\ dev_open(DEV_TTY, "tty")
    BY <1>1 DEF OpenTty, Goto, lookupVars
  <2>2. data[DEV_TTY] = NoData /\ alive = {"buf"} /\ data[DEV_RAMDISK] = NoData /\ here = "out"
        /\ offset \in [Devs -> Int] /\ data \in [Devs -> {NoData, "tty", "ramdisk"}]
    BY <1>0, <2>1 DEF Memory
  <2>3. /\ offset' = [offset EXCEPT ![DEV_TTY] = 0] /\ data' = [data EXCEPT ![DEV_TTY] = "tty"]
        /\ alive' = {"buf", "tty"}
    BY <2>1, <2>2 DEF dev_open
  <2>4. data' \in [Devs -> {NoData, "tty", "ramdisk"}] /\ data'[DEV_RAMDISK] = NoData
        /\ offset' \in [Devs -> Int]
    BY <2>2, <2>3 DEF Devs, DEV_TTY, DEV_RAMDISK
  <2> QED BY <2>1, <2>2, <2>3, <2>4 DEF Memory, Running
<1>2. CASE OpenDisk
  <2>1. /\ pc = "disk" /\ pc' = "mount" /\ UNCHANGED <<inode, here>>
        /\ dev_open(DEV_RAMDISK, "ramdisk") /\ addr' = DiskBase
    BY <1>2 DEF OpenDisk, Goto, lookupVars, ramdisk_setaddr
  <2>2. data[DEV_RAMDISK] = NoData /\ alive = {"buf", "tty"} /\ here = "out"
        /\ offset \in [Devs -> Int] /\ data \in [Devs -> {NoData, "tty", "ramdisk"}]
    BY <1>0, <2>1 DEF Memory
  <2>3. /\ offset' = [offset EXCEPT ![DEV_RAMDISK] = 0]
        /\ data' = [data EXCEPT ![DEV_RAMDISK] = "ramdisk"]
        /\ alive' = {"buf", "tty", "ramdisk"}
    BY <2>1, <2>2 DEF dev_open
  <2>4. data' \in [Devs -> {NoData, "tty", "ramdisk"}] /\ offset' \in [Devs -> Int]
    BY <2>2, <2>3 DEF Devs, DEV_TTY, DEV_RAMDISK
  <2> QED BY <2>1, <2>2, <2>3, <2>4 DEF Memory, Running
<1>3. CASE Mount
  <2>1. /\ pc = "mount" /\ pc' = "greet" /\ inode' = Tables /\ alive' = alive \cup {"inodes"}
        /\ UNCHANGED <<offset, data, addr, here>>
    BY <1>3 DEF Mount, Goto, ramfs_init, lookupVars
  <2>2. alive' = Held /\ here = "out"
    BY <1>0, <2>1 DEF Memory, Held
  <2> QED BY <1>0, <2>1, <2>2 DEF Memory, Running
<1>4. CASE Greet \/ Cat
  <2>1. /\ pc \in {"greet", "run"} /\ pc' = "prompt" /\ UNCHANGED <<inode, here, data, addr, alive>>
        /\ inode = Tables /\ here = "out" /\ offset \in [Devs -> Int]
    BY <1>0, <1>4 DEF Memory, Greet, Cat, Goto, lookupVars, ramfs_read, Running
  <2>2. offset' \in [Devs -> Int]
    <3>1. \E n \in 1 .. NFiles : ramfs_read(n)
      <4>1. CASE Greet
        <5>1. PICK n \in 1 .. NFiles : Disk[n].name = Greeting
          BY DiskAssumption
        <5>2. fs_finddir(0, Greeting) = n
          BY <2>1, <5>1, FindRoot
        <5> QED BY <4>1, <5>2 DEF Greet
      <4>2. CASE Cat
        <5> DEFINE n == fs_finddir(0, cmd.arg)
        <5>1. n # NoNode /\ inode[n].flags = FS_FILE /\ ramfs_read(n)
          BY <4>2 DEF Cat
        <5>2. n \in 1 .. NFiles
          <6>1. cmd.arg # DevName
            BY <2>1, <5>1, FindRoot, TablesAre DEF FS_FILE, FS_DIR
          <6> QED BY <2>1, <5>1, <6>1, FindRoot
        <5> QED BY <5>1, <5>2
      <4> QED BY <1>4, <4>1, <4>2
    <3> QED BY <2>1, <3>1, OffsetType
  <2> QED BY <1>0, <2>1, <2>2 DEF Memory, Running
<1>5. CASE Halt
  <2>1. /\ pc = "halt" /\ pc' = "off" /\ UNCHANGED <<inode, here, data, addr>>
        /\ offset' = [offset EXCEPT ![DEV_RAMDISK] = 0]
    BY <1>5 DEF Halt, Goto, dev_close_ramdisk, lookupVars
  <2>2. offset' \in [Devs -> Int]
    <3>1. offset \in [Devs -> Int]
      BY <1>0 DEF Memory
    <3> QED BY <2>1, <3>1 DEF Devs, DEV_RAMDISK
  <2> QED BY <1>0, <2>1, <2>2 DEF Memory, Running
<1>6. CASE \/ Prompt \/ Exit \/ LsRoot \/ LsRefused \/ LsDir \/ ListEntry \/ ListEnd
           \/ ListDevs \/ DevsEntry \/ DevsEnd \/ CatRefused \/ Tok \/ TokPrint \/ TokEnd \/ Other
  <2>1. /\ UNCHANGED <<devVars, inode, here>>
        /\ pc \in Running /\ pc' \in Running /\ (pc = "lookup" => here = "out")
    BY <1>6 DEF Prompt, Exit, LsRoot, LsRefused, LsDir, ListEntry, ListEnd, ListDevs, DevsEntry,
                DevsEnd, CatRefused, Tok, TokPrint, TokEnd, Other, Goto, LookedUp, Running,
                lookupVars
  <2>2. here = "out"
    BY <1>0, <2>1 DEF Memory
  <2> QED BY <1>0, <2>1, <2>2, MemoryIdle
<1>7. CASE LsPath \/ Tty
  <2>1. /\ pc = "run" /\ pc' = "lookup" /\ here = "out" /\ here' = "first"
        /\ alive' = alive \cup {"path"} /\ UNCHANGED <<inode, offset, data, addr>>
    BY <1>7 DEF LsPath, Tty, LookupCall, Goto
  <2> QED BY <1>0, <2>1 DEF Memory, Running
<1>8. CASE TtyFound
  <2>1. /\ pc = "lookup" /\ pc' = "prompt" /\ here = "out" /\ here' = here
        /\ UNCHANGED <<inode, data, addr, alive>>
        /\ offset' = offset \/ offset' = [offset EXCEPT ![inode[node].impl] = 0]
    BY <1>8 DEF TtyFound, LookedUp, lookupVars, dev_seek
  <2>2. offset' \in [Devs -> Int]
    <3>1. offset \in [Devs -> Int]
      BY <1>0 DEF Memory
    <3> QED BY <2>1, <3>1
  <2> QED BY <1>0, <2>1, <2>2 DEF Memory, Running
<1>9. CASE Scanning \/ UNCHANGED allVars
  <2>1. UNCHANGED <<devVars, inode, here, pc>>
    BY <1>9 DEF Scanning, allVars, lookupVars, shellVars
  <2> QED BY <1>0, <2>1 DEF Memory, devVars
<1>10. CASE Looking
  <2>0. UNCHANGED <<inode, offset, data, addr, pc>> /\ here # "out"
    BY <1>10 DEF Looking, fs_lookup, LookupNothing, LookupToken, LookupDone, shellVars, devVars
  <2>1. UNCHANGED <<inode, offset, data, addr, pc>> /\ here # "out" /\ pc = "lookup"
    BY <1>0, <2>0 DEF Memory
  <2>2. alive = Held \cup {"path"}
    BY <1>0, <2>1 DEF Memory, Running
  <2>3. CASE LookupToken
    <3>1. here' = "more" /\ alive' = alive
      BY <2>3 DEF LookupToken, devVars
    <3> QED BY <1>0, <2>1, <2>2, <3>1 DEF Memory, Running
  <2>4. CASE LookupNothing \/ LookupDone
    <3>1. here' = "out" /\ alive' = alive \ {"path"}
      BY <2>4 DEF LookupNothing, LookupDone
    <3>2. alive' = Held
      BY <2>2, <3>1 DEF Held
    <3> QED BY <1>0, <2>1, <3>1, <3>2 DEF Memory, Running
  <2> QED BY <1>10, <2>3, <2>4 DEF Looking, fs_lookup
<1> QED BY <1>1, <1>2, <1>3, <1>4, <1>5, <1>6, <1>7, <1>8, <1>9, <1>10 DEF Thread

LEMMA LookupInit == ShellInit => Lookup
  BY DEF ShellInit, VfsInit, StrTokInit, Lookup

(* strtok()'s state and fs_lookup()'s are not touched, and the step is not *)
(* one of fs_lookup()'s callers.                                           *)
LEMMA LookupIdle ==
  ASSUME Lookup, UNCHANGED <<strtokVars, here, path>>, here = "out", pc # "tok",
         pc' # "lookup"
  PROVE  Lookup'
  BY DEF Lookup, strtokVars

LEMMA LookupStep == SInv /\ [Prompt \/ Thread]_allVars => Lookup'
<1> SUFFICES ASSUME SInv, [Prompt \/ Thread]_allVars PROVE Lookup'
  OBVIOUS
<1>0. Memory /\ Lookup /\ Command
  BY DEF SInv
<1>1. CASE \/ OpenTty \/ OpenDisk \/ Mount \/ Greet \/ Halt \/ Prompt \/ Exit \/ LsRoot \/ LsRefused
           \/ LsDir \/ ListEntry \/ ListEnd \/ ListDevs \/ DevsEntry \/ DevsEnd \/ CatRefused \/ Cat
           \/ TtyFound \/ Other
  <2>1. UNCHANGED <<strtokVars, here, path>> /\ pc # "tok" /\ pc' # "lookup"
        /\ (pc = "lookup" => here = "out")
    BY <1>1 DEF OpenTty, OpenDisk, Mount, Greet, Halt, Prompt, Exit, LsRoot, LsRefused, LsDir,
                ListEntry, ListEnd, ListDevs, DevsEntry, DevsEnd, CatRefused, Cat, TtyFound, Other,
                Goto, LookedUp, lookupVars
  <2>2. here = "out"
    BY <1>0, <2>1 DEF Memory
  <2> QED BY <1>0, <2>1, <2>2, LookupIdle
<1>2. CASE LsPath \/ Tty
  <2>1. pc = "run" /\ pc' = "lookup" /\ (LookupCall(cmd.arg) \/ LookupCall(TtyPath))
    BY <1>2 DEF LsPath, Tty, Goto
  <2>2. cmd.arg \in Strings /\ TtyPath \in Strings
    <3>1. cmd \in Commands
      BY <1>0, <2>1 DEF Command
    <3> QED BY <3>1, CommandType, TtyPathIs
  <2>3. PICK p \in Strings : LookupCall(p)
    BY <2>1, <2>2
  <2>4. here' = "first" /\ path' = p /\ node' = 0 /\ strtok(p)
    BY <2>3 DEF LookupCall
  <2>5. StrOK(p)' /\ Cardinality(Seen(p)') = 0
    BY <2>4, CallOK
  <2>6. StrOK(path)' /\ Cardinality(Seen(path)') = 0
    BY <2>4, <2>5 DEF StrOK, Found, Seen
  <2> QED BY <2>4, <2>6 DEF Lookup
<1>3. CASE Tok \/ TokPrint
  <2>1. pc' = "tok" /\ UNCHANGED <<here, path>> /\ pc # "lookup"
    BY <1>3 DEF Tok, TokPrint, Goto, lookupVars
  <2>2. here = "out"
    BY <1>0, <2>1 DEF Memory
  <2> QED BY <2>1, <2>2 DEF Lookup
<1>4. CASE TokEnd
  <2>1. pc = "tok" /\ pc' = "prompt" /\ at = "out" /\ UNCHANGED <<here, path, at>>
    BY <1>4 DEF TokEnd, Goto, lookupVars, strtokVars
  <2>2. here = "out"
    BY <1>0, <2>1 DEF Memory
  <2> QED BY <2>1, <2>2 DEF Lookup
<1>5. CASE Scanning
  <2>1. UNCHANGED <<here, path, node, pc>> /\ Scan /\ at # "out"
    BY <1>5 DEF Scanning, lookupVars, shellVars, Scan, Span, ScanSep, ScanChar, ScanEnd
  <2>2. CASE here = "out"
    <3>1. pc = "tok"
      BY <1>0, <2>1, <2>2 DEF Lookup
    <3> QED BY <2>1, <2>2, <3>1 DEF Lookup
  <2>3. CASE here # "out"
    <3>1. StrOK(path)
      BY <1>0, <2>3 DEF Lookup
    <3>2. ASSUME NEW q, q = path PROVE StrOK(q)' /\ Seen(q)' = Seen(q)
      <4>1. StrOK(q)
        BY <3>1, <3>2
      <4> QED BY <2>1, <4>1, ScanOK
    <3>3. StrOK(path)' /\ Seen(path)' = Seen(path)
      BY <2>1, <3>2 DEF StrOK, Found, Seen
    <3> QED BY <1>0, <2>1, <2>3, <3>3 DEF Lookup
  <2> QED BY <2>2, <2>3
<1>6. CASE UNCHANGED allVars
  <2>1. UNCHANGED <<strtokVars, here, path, node, pc>>
    BY <1>6 DEF allVars, lookupVars, shellVars
  <2>2. StrOK(path)' = StrOK(path) /\ Seen(path)' = Seen(path)
    BY <2>1 DEF StrOK, Found, Seen, strtokVars
  <2> QED BY <1>0, <2>1, <2>2 DEF Lookup, strtokVars
<1>7. CASE Looking
  <2>0. here # "out" /\ at = "out" /\ path' = path /\ pc' = pc
    BY <1>7 DEF Looking, fs_lookup, LookupNothing, LookupToken, LookupDone, shellVars
  <2>1. pc = "lookup" /\ inode = Tables /\ StrOK(path) /\ path \in Strings
    BY <1>0, <2>0 DEF Memory, Lookup, Running, StrOK
  <2> DEFINE C == Cardinality(Seen(path))
  <2>2. CASE LookupNothing
    <3>1. here = "first" /\ ptr = 0 /\ here' = "out" /\ at' = at /\ node' = fs_finddir(0, path)
      BY <2>2 DEF LookupNothing, strtokVars
    <3>2. Len(Tokens(path)) = 0
      <4>1. C = 0
        BY <1>0, <3>1 DEF Lookup
      <4> QED BY <2>0, <2>1, <3>1, <4>1, AllReturned
    <3>3. node' = Resolve(path)
      BY <2>1, <3>1, <3>2, NoTokens
    <3> QED BY <2>0, <3>1, <3>3 DEF Lookup, Resolve
  <2>3. CASE LookupDone
    <3>1. /\ here = "more" /\ (ptr = 0 \/ node = NoNode) /\ here' = "out" /\ at' = at /\ node' = node
      BY <2>3 DEF LookupDone, strtokVars
    <3>2. Walked(path, C, node)
      BY <1>0, <3>1 DEF Lookup
    <3>3. ptr = 0 => C = Len(Tokens(path))
      BY <2>0, <2>1, AllReturned
    <3>4. node = Resolve(path)
      BY <2>1, <3>1, <3>2, <3>3, WalkDone
    <3> QED BY <2>0, <3>1, <3>4 DEF Lookup, Resolve
  <2>4. CASE LookupToken
    <3>1. /\ ptr # 0 /\ node # NoNode /\ here' = "more" /\ strtokNext
          /\ node' = fs_finddir(node, Token)
      BY <2>4 DEF LookupToken
    <3>2. C + 1 \in 1 .. Len(Tokens(path)) /\ Token = Tokens(path)[C + 1]
      BY <2>0, <2>1, <3>1, Returned
    <3>3. ASSUME NEW q, q = path
          PROVE  StrOK(q)' /\ Cardinality(Seen(q)') = Cardinality(Seen(q)) + 1
      <4>1. StrOK(q)
        BY <2>1, <3>3
      <4> QED BY <2>0, <3>1, <4>1, NextOK
    <3>4. StrOK(path)' /\ Seen(path)' = Before(path, IF ptr' = 0 THEN str' ELSE ptr')
      BY <2>0, <3>3 DEF StrOK, Found, Seen
    <3>5. Cardinality(Seen(path)') = C + 1
      BY <2>0, <3>3 DEF Seen
    <3>6. Walked(path, C + 1, node')
      <4>1. CASE here = "first"
        <5>1. node = 0 /\ C = 0
          BY <1>0, <4>1 DEF Lookup
        <5>2. 1 \in 1 .. Len(Tokens(path)) /\ node' = fs_finddir(0, Tokens(path)[1])
          BY <3>1, <3>2, <5>1
        <5>3. Walked(path, 1, node')
          <6>1. Len(Tokens(path)) >= 1
            BY <2>1, <5>2, TokensSeq
          <6> QED BY <2>1, <5>2, <6>1, WalkFirst
        <5> QED BY <5>1, <5>3
      <4>2. CASE here = "more"
        <5>1. Walked(path, C, node)
          BY <1>0, <4>2 DEF Lookup
        <5> HIDE DEF C
        <5> QED BY <2>1, <3>1, <3>2, <5>1, WalkNext
      <4> QED BY <1>0, <2>0, <4>1, <4>2 DEF Lookup
    <3>7. Walked(path, Cardinality(Seen(path)), node)'
      BY <2>0, <3>5, <3>6 DEF Walked
    <3> QED BY <3>1, <3>4, <3>7 DEF Lookup
  <2> QED BY <1>7, <2>2, <2>3, <2>4 DEF Looking, fs_lookup
<1> QED BY <1>1, <1>2, <1>3, <1>4, <1>5, <1>6, <1>7 DEF Thread

(* An entry's name leads back to the entry.                                *)
LEMMA EntryFound ==
  ASSUME inode = Tables, NEW n \in {0, DevDir}, NEW k \in 0 .. Tables[n].impl - 1
  PROVE  /\ fs_finddir(n, fs_readdir(n, k)) = Tables[n].ptr + k
         /\ Tables[n].ptr + k \in Int
<1>1. CASE n = 0
  <2>1. Tables[n].impl = NFiles + 1 /\ Tables[n].ptr = 1 /\ NFiles \in Nat /\ DevDir = NFiles + 1
    BY <1>1, TablesAre, DiskType
  <2>2. CASE k = NFiles
    <3>1. 1 + k = DevDir
      BY <2>1, <2>2
    <3>2. fs_readdir(n, k) = DevName
      BY <2>1, <3>1, TablesAre DEF fs_readdir
    <3> QED BY <1>1, <2>1, <3>1, <3>2, FindRoot
  <2>3. CASE k # NFiles
    <3>1. 1 + k \in 1 .. NFiles
      BY <2>1, <2>3
    <3>2. fs_readdir(n, k) = Disk[1 + k].name
      BY <2>1, <3>1, TablesAre DEF fs_readdir
    <3> QED BY <1>1, <2>1, <3>1, <3>2, FindRoot
  <2> QED BY <2>2, <2>3
<1>2. CASE n = DevDir
  <2>1. Tables[n].impl = NDevs /\ Tables[n].ptr = DevDir + 1 /\ NDevs \in Nat /\ DevDir \in Nat
    BY <1>2, TablesAre, DiskType
  <2>2. 1 + k \in 1 .. NDevs /\ DevDir + 1 + k = DevDir + (1 + k)
    BY <2>1
  <2>3. fs_readdir(n, k) = DevNames[1 + k]
    <3>1. inode[n].ptr + k = DevDir + (1 + k)
      <4>1. inode[n].ptr = DevDir + 1
        BY <2>1
      <4>2. k \in Int
        BY <2>1
      <4> QED BY <2>1, <4>1, <4>2
    <3>2. Tables[DevDir + (1 + k)].name = DevNames[1 + k]
      BY <2>2, TablesAre
    <3> QED BY <3>1, <3>2 DEF fs_readdir
  <2> QED BY <1>2, <2>1, <2>2, <2>3, FindDev
<1> QED BY <1>1, <1>2

LEMMA DirType ==
  ASSUME NEW n \in {0, DevDir}
  PROVE  /\ Tables[n].impl \in Nat /\ Tables[n].ptr \in Nat
         /\ Listing(n) \in Seq(Int) /\ Len(Listing(n)) = Tables[n].impl
         /\ \A j \in 1 .. Tables[n].impl : Listing(n)[j] = Tables[n].ptr + j - 1
<1>0. NFiles \in Nat /\ NDevs \in Nat /\ DevDir = NFiles + 1 /\ DevDir # 0
  BY DiskType
<1>1. CASE n = 0
  <2>1. Tables[n].impl = NFiles + 1 /\ Tables[n].ptr = 1
    BY <1>1, TablesAre
  <2>2. Listing(n) = [k \in 1 .. (NFiles + 1) |-> k]
    <3>1. n = 0 /\ n # DevDir
      BY <1>0, <1>1
    <3> QED BY <3>1 DEF Listing
  <2> QED BY <1>0, <2>1, <2>2
<1>2. CASE n = DevDir
  <2>1. Tables[n].impl = NDevs /\ Tables[n].ptr = DevDir + 1
    BY <1>2, TablesAre
  <2>2. Listing(n) = [k \in 1 .. NDevs |-> DevDir + k]
    BY <1>0, <1>2 DEF Listing
  <2> QED BY <1>0, <2>1, <2>2
<1> QED BY <1>1, <1>2

LEMMA ListedAll ==
  ASSUME NEW n \in {0, DevDir}, Listed(n, index), index >= Tables[n].impl
  PROVE  screen = Listing(n)
<1>1. screen \in Seq(Int) /\ Len(screen) = Tables[n].impl
      /\ \A j \in 1 .. Len(screen) : screen[j] = Tables[n].ptr + j - 1
  BY DirType DEF Listed
<1>2. \A j \in 1 .. Len(screen) : screen[j] = Listing(n)[j]
  BY <1>1, DirType
<1>3. Listing(n) \in Seq(Int) /\ Len(Listing(n)) = Len(screen)
  BY <1>1, DirType
<1> QED BY <1>1, <1>2, <1>3, SeqEqual

LEMMA ListedOne ==
  ASSUME NEW n \in {0, DevDir}, Listed(n, index), index < Tables[n].impl,
         screen' = Append(screen, Tables[n].ptr + index), index' = index + 1
  PROVE  Listed(n, index)'
<1>1. Tables[n].impl \in Nat /\ Tables[n].ptr \in Nat /\ index \in 0 .. Tables[n].impl
      /\ screen \in Seq(Int) /\ Len(screen) = index
      /\ \A j \in 1 .. index : screen[j] = Tables[n].ptr + j - 1
  BY DirType DEF Listed
<1> DEFINE x == Tables[n].ptr + index
<1>2. x \in Int /\ x = Tables[n].ptr + (index + 1) - 1
  BY <1>1
<1> HIDE DEF x
<1>3. /\ screen' \in Seq(Int) /\ Len(screen') = index + 1
      /\ (\A j \in 1 .. index : screen'[j] = screen[j]) /\ screen'[index + 1] = x
  <2>1. screen' = Append(screen, x)
    BY DEF x
  <2> QED BY <1>1, <1>2, <2>1
<1>4. \A j \in 1 .. index + 1 : screen'[j] = Tables[n].ptr + j - 1
  BY <1>1, <1>2, <1>3
<1>5. index' \in 0 .. Tables[n].impl
  BY <1>1
<1>6. index' = index + 1
  OBVIOUS
<1> QED BY <1>3, <1>4, <1>5, <1>6 DEF Listed

LEMMA ListedNone ==
  ASSUME NEW n \in {0, DevDir}, screen' = <<>>, index' = 0
  PROVE  Listed(n, index)'
  BY DirType DEF Listed

(* A file that is there is read, stored and shown.                         *)
LEMMA ShownAfter ==
  ASSUME Memory, inode = Tables, NEW n \in 1 .. NFiles, cmd'.arg = Disk[n].name,
         addr = DiskBase, buf' \in [1 .. BufSize -> Nat], screen' = Shown(buf'),
         \A k \in 1 .. Disk[n].size : buf'[k] = FileBytes(n)[k],
         NEW z \in Disk[n].size + 1 .. BufSize, buf'[z] = Zero,
         cmd'.op = "greet" \/ Disk[n].size >= LineLen(cmd') => buf'[Disk[n].size + 1] = Zero
  PROVE  FileShown'
<1>1. ASSUME NEW m \in FileNamed(cmd'.arg) PROVE m = n
  BY <1>1, DiskAssumption DEF FileNamed
<1>2. /\ Len(screen') >= Disk[n].size
      /\ SubSeq(screen', 1, Disk[n].size) = FileBytes(n)
      /\ buf'[Disk[n].size + 1] = Zero => Len(screen') = Disk[n].size
  <2> DEFINE b == buf'
  <2>1. b \in [1 .. BufSize -> Nat] /\ (\A k \in 1 .. Disk[n].size : b[k] = FileBytes(n)[k])
        /\ b[z] = Zero /\ screen' = Shown(b)
    OBVIOUS
  <2> HIDE DEF b
  <2>2. /\ Len(Shown(b)) >= Disk[n].size
        /\ SubSeq(Shown(b), 1, Disk[n].size) = FileBytes(n)
        /\ b[Disk[n].size + 1] = Zero => Len(Shown(b)) = Disk[n].size
    BY <2>1, ShowsFile
  <2> QED BY <2>1, <2>2 DEF b
<1> QED BY <1>1, <1>2 DEF FileShown, LineLen

LEMMA GreetShows ==
  ASSUME Memory, Command, Greet
  PROVE  FileShown' /\ buf' \in [1 .. BufSize -> Nat]
<1>1. pc = "greet" /\ inode = Tables /\ addr = DiskBase /\ offset \in [Devs -> Int]
      /\ buf \in [1 .. BufSize -> Nat]
  BY DEF Greet, Goto, Memory, Running, Command
<1>2. PICK n \in 1 .. NFiles : Disk[n].name = Greeting
  BY DiskAssumption
<1> DEFINE sz == Disk[n].size
           c == Append(FileBytes(n), Zero)
<1>3. fs_finddir(0, Greeting) = n
  BY <1>1, <1>2, FindRoot
<1>4. buf' = Store(buf, c)
  <2>1. Contents(n) = FileBytes(n)
    BY <1>1, ReadsFile
  <2> QED BY <1>3, <2>1 DEF Greet
<1>5. screen' = Shown(buf') /\ cmd' = [op |-> "greet", arg |-> Greeting]
  BY DEF Greet
<1>6. sz \in Nat /\ BufSize \in Nat /\ sz < BufSize
  BY DiskType, BufSizeAssumption
<1>7. /\ FileBytes(n) \in Seq(Nat) /\ Len(FileBytes(n)) = sz
      /\ \A k \in 1 .. sz : FileBytes(n)[k] \in Nat
  BY BytesAre
<1> HIDE DEF sz
<1>8. /\ Len(c) = sz + 1 /\ c[sz + 1] = Zero
      /\ \A k \in 1 .. sz : c[k] = FileBytes(n)[k]
  BY <1>6, <1>7 DEF Zero
<1>9. /\ buf' \in [1 .. BufSize -> Nat] /\ buf'[sz + 1] = Zero
      /\ \A k \in 1 .. sz : buf'[k] = FileBytes(n)[k]
  <2> HIDE DEF c
  <2>1. \A k \in 1 .. BufSize : buf'[k] = IF k <= sz + 1 THEN c[k] ELSE buf[k]
    BY <1>4, <1>8 DEF Store
  <2>2. \A k \in 1 .. sz + 1 : c[k] \in Nat
    BY <1>6, <1>7, <1>8 DEF Zero
  <2>3. \A k \in 1 .. BufSize : buf'[k] \in Nat
    BY <1>1, <1>6, <2>1, <2>2
  <2>4. buf' = [k \in 1 .. BufSize |-> buf'[k]]
    BY <1>4 DEF Store
  <2>5. sz + 1 \in 1 .. BufSize /\ \A k \in 1 .. sz : k \in 1 .. BufSize /\ k <= sz + 1
    BY <1>6
  <2>6. buf' \in [1 .. BufSize -> Nat]
    BY <2>3, <2>4
  <2> QED BY <1>6, <1>8, <2>1, <2>5, <2>6
<1>10. sz + 1 \in sz + 1 .. BufSize /\ cmd'.arg = Disk[n].name
  BY <1>2, <1>5, <1>6
<1>11. FileShown'
  BY <1>1, <1>5, <1>9, <1>10, ShownAfter DEF sz
<1> QED BY <1>9, <1>11

LEMMA CatShows ==
  ASSUME Memory, Command, Cat
  PROVE  FileShown' /\ buf' \in [1 .. BufSize -> Nat]
<1>1. pc = "run" /\ inode = Tables /\ addr = DiskBase /\ offset \in [Devs -> Int]
      /\ cmd \in Commands /\ cmd' = cmd
      /\ buf = [k \in 1 .. BufSize |-> IF k <= LineLen(cmd) THEN Typed ELSE Zero]
  BY DEF Cat, Goto, Memory, Running, Command
<1>2. PICK n \in 1 .. NFiles : Disk[n].name = cmd.arg
  <2>1. fs_finddir(0, cmd.arg) # NoNode /\ inode[fs_finddir(0, cmd.arg)].flags = FS_FILE
    BY DEF Cat
  <2>2. cmd.arg # DevName
    BY <1>1, <2>1, FindRoot, TablesAre DEF FS_FILE, FS_DIR
  <2> QED BY <1>1, <2>1, <2>2, FindRoot
<1> DEFINE sz == Disk[n].size
           c == FileBytes(n)
           len == LineLen(cmd)
<1>3. fs_finddir(0, cmd.arg) = n
  BY <1>1, <1>2, FindRoot
<1>4. buf' = Store(buf, c)
  <2>1. Contents(n) = FileBytes(n)
    BY <1>1, ReadsFile
  <2> QED BY <1>3, <2>1 DEF Cat
<1>5. screen' = Shown(buf')
  BY DEF Cat
<1>6. sz \in Nat /\ BufSize \in Nat /\ sz < BufSize /\ len \in Nat /\ len < BufSize
  BY <1>1, DiskType, BufSizeAssumption, CommandType
<1>7. c \in Seq(Nat) /\ Len(c) = sz /\ \A k \in 1 .. sz : c[k] \in Nat
  BY BytesAre
<1> HIDE DEF sz, c, len
<1>8. \A k \in 1 .. BufSize :
        buf'[k] = IF k <= sz THEN c[k] ELSE IF k <= len THEN Typed ELSE Zero
  BY <1>1, <1>4, <1>7 DEF Store, len
<1>9. buf' \in [1 .. BufSize -> Nat]
  <2>1. \A k \in 1 .. BufSize : buf'[k] \in Nat
    BY <1>6, <1>7, <1>8 DEF Typed, Zero
  <2>2. buf' = [k \in 1 .. BufSize |-> buf'[k]]
    BY <1>4 DEF Store
  <2> QED BY <2>1, <2>2
<1>10. \A k \in 1 .. sz : buf'[k] = c[k]
  BY <1>6, <1>8
<1>11. buf'[BufSize] = Zero /\ BufSize \in sz + 1 .. BufSize
  BY <1>6, <1>8
<1>12. sz >= len => buf'[sz + 1] = Zero
  BY <1>6, <1>8
<1>13. cmd'.op # "greet"
  BY <1>1, CommandType DEF Ops
<1>14. FileShown'
  BY <1>1, <1>2, <1>5, <1>9, <1>10, <1>11, <1>12, <1>13, ShownAfter DEF sz, c, len
<1> QED BY <1>9, <1>14

LEMMA CommandInit == ShellInit => Command
<1> SUFFICES ASSUME ShellInit PROVE Command
  OBVIOUS
<1>1. pc = "tty" /\ buf = [k \in 1 .. BufSize |-> Zero]
  BY DEF ShellInit
<1>2. FileShown /\ Answered
  BY <1>1 DEF FileShown, Answered, AtPrompt
<1>3. buf \in [1 .. BufSize -> Nat]
  BY <1>1 DEF Zero
<1> QED BY <1>1, <1>2, <1>3 DEF Command

(* A step that does not reach the prompt has nothing to show yet, ...      *)
LEMMA NotShown ==
  ASSUME pc' # "prompt"
  PROVE  FileShown' /\ Answered'
  BY DEF FileShown, Answered, AtPrompt

(* ... and one that does has only to show the right thing.                 *)
LEMMA ShownNow ==
  ASSUME pc' = "prompt", buf' \in [1 .. BufSize -> Nat], FileShown', Answered'
  PROVE  Command'
  BY DEF Command

LEMMA BootCommand ==
  ASSUME Command, OpenTty \/ OpenDisk \/ Mount \/ Exit \/ Halt
  PROVE  Command'
<1>1. pc' \in {"disk", "mount", "greet", "halt", "off"} /\ buf' = buf
  BY DEF OpenTty, OpenDisk, Mount, Exit, Halt, Goto
<1>2. FileShown' /\ Answered'
  BY <1>1, NotShown
<1>3. buf' \in [1 .. BufSize -> Nat]
  BY <1>1 DEF Command
<1> QED BY <1>1, <1>2, <1>3 DEF Command

LEMMA PromptCommand ==
  ASSUME Command, Prompt
  PROVE  Command'
<1>1. PICK c \in Commands :
        /\ cmd' = c
        /\ buf' = [k \in 1 .. BufSize |-> IF k <= LineLen(c) THEN Typed ELSE Zero]
  BY DEF Prompt
<1>2. pc' = "run" /\ screen' = <<>>
  BY DEF Prompt, Goto
<1>3. buf' \in [1 .. BufSize -> Nat]
  BY <1>1 DEF Typed, Zero
<1>4. FileShown' /\ Answered'
  BY <1>2, NotShown
<1>5. buf' = [k \in 1 .. BufSize |-> IF k <= LineLen(cmd') THEN Typed ELSE Zero]
  BY <1>1
<1>6. cmd' \in Commands
  BY <1>1
<1> QED BY <1>2, <1>3, <1>4, <1>5, <1>6 DEF Command, LineLen

(* The steps that begin to list a directory or to look one up.             *)
LEMMA ListCommand ==
  ASSUME Memory, Lookup, Command, LsRoot \/ LsDir \/ ListDevs
  PROVE  Command'
<1>1. /\ pc \in {"run", "lookup"} /\ UNCHANGED <<cmd, buf, screen>> /\ index' = 0
      /\ pc' \in {"list", "devs"}
  BY DEF LsRoot, LsDir, ListDevs, Goto, LookedUp
<1>2. inode = Tables /\ screen' = <<>> /\ cmd \in Commands /\ buf' \in [1 .. BufSize -> Nat]
  BY <1>1 DEF Memory, Running, Command
<1>3. FileShown' /\ Answered'
  BY <1>1, NotShown
<1>4. cmd.arg \in Strings /\ Len(cmd.arg) \in Nat
  BY <1>2, CommandType
<1>5. CASE LsRoot
  <2>1. pc' = "list" /\ cmd.op = "ls" /\ node' = 0 /\ LineLen(cmd) <= 3
    BY <1>5 DEF LsRoot, Goto
  <2>2. cmd.arg = <<>>
    <3>1. Len(cmd.arg) = 0
      BY <1>4, <2>1 DEF LineLen
    <3> QED BY <1>4, <3>1 DEF Strings
  <2>3. Listed(0, index)'
    BY <1>1, <1>2, ListedNone
  <2>4. Listed(node, index)'
    BY <2>1, <2>3 DEF Listed
  <2> QED BY <1>1, <1>2, <1>3, <2>1, <2>2, <2>4 DEF Command
<1>6. CASE LsDir
  <2>1. /\ pc = "lookup" /\ here = "out" /\ cmd.op = "ls" /\ pc' = "list" /\ node' = node
        /\ node # NoNode /\ inode[node].flags % 8 = FS_DIR
    BY <1>6 DEF LsDir, LookedUp, lookupVars
  <2>2. path = cmd.arg /\ cmd.arg # <<>> /\ node = Resolve(path)
    BY <2>1 DEF Command, Lookup
  <2>3. node = DevDir
    <3>1. PICK n : IsPlace(Tokens(path), n) /\ node = n
      BY <2>1, <2>2, ResolveIs
    <3>2. CASE n \in 1 .. NFiles
      BY <1>2, <2>1, <3>1, <3>2, TablesAre DEF FS_FILE, FS_DIR
    <3>3. ASSUME NEW k \in 1 .. NDevs, n = DevDir + k PROVE FALSE
      BY <1>2, <2>1, <3>1, <3>3, TablesAre DEF FS_CHAR, FS_DIR
    <3> QED BY <3>1, <3>2, <3>3 DEF IsPlace
  <2>4. Listed(DevDir, index)'
    BY <1>1, <1>2, ListedNone
  <2>5. Listed(node, index)'
    BY <2>1, <2>3, <2>4 DEF Listed
  <2>6. node' = IF cmd'.arg = <<>> THEN 0 ELSE Resolve(cmd'.arg)
    BY <1>1, <2>1, <2>2
  <2> QED BY <1>1, <1>2, <1>3, <2>1, <2>3, <2>5, <2>6 DEF Command, Resolve
<1>7. CASE ListDevs
  <2>1. pc' = "devs" /\ cmd.op = "devs" /\ node' = fs_finddir(0, DevName)
    BY <1>7 DEF ListDevs, Goto
  <2>2. node' = DevDir
    BY <1>2, <2>1, FindRoot
  <2>3. Listed(DevDir, index)'
    BY <1>1, <1>2, ListedNone
  <2> QED BY <1>1, <1>2, <1>3, <2>1, <2>2, <2>3 DEF Command
<1> QED BY <1>5, <1>6, <1>7

LEMMA CallCommand ==
  ASSUME Memory, Command, LsPath \/ Tty
  PROVE  Command'
<1>1. /\ pc = "run" /\ pc' = "lookup" /\ UNCHANGED <<cmd, buf, screen>>
      /\ \/ cmd.op = "ls" /\ LineLen(cmd) > 3 /\ path' = cmd.arg
         \/ cmd.op = "tty" /\ path' = TtyPath
  BY DEF LsPath, Tty, Goto, LookupCall
<1>2. screen' = <<>> /\ cmd \in Commands /\ buf' \in [1 .. BufSize -> Nat]
  BY <1>1 DEF Command
<1>3. FileShown' /\ Answered'
  BY <1>1, NotShown
<1>4. cmd.op = "ls" /\ LineLen(cmd) > 3 => cmd.arg # <<>>
  BY DEF LineLen
<1> QED BY <1>1, <1>2, <1>3, <1>4 DEF Command

LEMMA EntryCommand ==
  ASSUME Memory, Command, ListEntry \/ DevsEntry
  PROVE  Command'
<1>1. /\ pc \in {"list", "devs"} /\ UNCHANGED <<pc, cmd, buf, node>> /\ index' = index + 1
      /\ pc = "list" => ListEntry
      /\ pc = "devs" => DevsEntry
  BY DEF ListEntry, DevsEntry, lookupVars
<1>2. /\ inode = Tables /\ cmd' \in Commands /\ buf' \in [1 .. BufSize -> Nat]
      /\ node \in {0, DevDir} /\ Listed(node, index)
  BY <1>1 DEF Memory, Running, Command
<1>3. FileShown' /\ Answered'
  BY <1>1, NotShown
<1>4. ASSUME NEW n \in {0, DevDir}, n = node PROVE Listed(n, index)'
  <2>1. Listed(n, index)
    BY <1>2, <1>4
  <2>2. index \in Int /\ index >= 0 /\ Tables[n].impl \in Nat
    BY <2>1, DirType DEF Listed
  <2>3. index < Tables[n].impl
    BY <1>1, <1>2, <1>4 DEF ListEntry, DevsEntry, HasEntry
  <2>4. screen' = Append(screen, Tables[n].ptr + index)
    <3>1. CASE pc = "list"
      <4>1. index \in 0 .. Tables[n].impl - 1
        BY <2>2, <2>3
      <4>2. fs_finddir(n, fs_readdir(n, index)) = Tables[n].ptr + index
        BY <1>2, <4>1, EntryFound
      <4> QED BY <1>1, <1>4, <3>1, <4>2 DEF ListEntry
    <3>2. CASE pc = "devs"
      BY <1>1, <1>2, <1>4, <3>2 DEF DevsEntry
    <3> QED BY <1>1, <3>1, <3>2
  <2> QED BY <1>1, <2>1, <2>3, <2>4, ListedOne
<1>5. Listed(node, index)'
  BY <1>1, <1>2, <1>4 DEF Listed
<1>6. CASE pc = "list"
  <2>1. cmd.op = "ls" /\ node = IF cmd.arg = <<>> THEN 0 ELSE Resolve(cmd.arg)
    BY <1>6 DEF Command
  <2>2. node' = IF cmd'.arg = <<>> THEN 0 ELSE Resolve(cmd'.arg)
    BY <1>1, <2>1
  <2> QED BY <1>1, <1>2, <1>3, <1>5, <1>6, <2>1, <2>2 DEF Command, Resolve
<1>7. CASE pc = "devs"
  <2>1. cmd.op = "devs" /\ node' = DevDir
    BY <1>1, <1>7 DEF Command
  <2>2. Listed(DevDir, index)'
    BY <1>5, <2>1 DEF Listed
  <2> QED BY <1>1, <1>2, <1>3, <1>7, <2>1, <2>2 DEF Command
<1> QED BY <1>1, <1>6, <1>7

LEMMA EndCommand ==
  ASSUME Memory, Command, ListEnd \/ DevsEnd
  PROVE  Command'
<1>1. /\ pc \in {"list", "devs"} /\ pc' = "prompt" /\ UNCHANGED <<cmd, buf, screen>>
      /\ pc = "list" => ListEnd
      /\ pc = "devs" => DevsEnd
  BY DEF ListEnd, DevsEnd, Goto
<1>2. /\ inode = Tables /\ buf' \in [1 .. BufSize -> Nat]
      /\ node \in {0, DevDir} /\ Listed(node, index)
  BY <1>1 DEF Memory, Running, Command
<1>3. ASSUME NEW n \in {0, DevDir}, n = node PROVE screen = Listing(n)
  <2>1. Listed(n, index)
    BY <1>2, <1>3
  <2>2. index >= Tables[n].impl
    <3>1. CASE pc = "list"
      BY <1>1, <1>2, <1>3, <3>1 DEF ListEnd
    <3>2. CASE pc = "devs"
      <4>1. ~ NotDir(n) /\ ~ HasEntry(n, index)
        BY <1>1, <1>2, <1>3, <3>2, KindOf DEF DevsEnd
      <4>2. index \in Int /\ Tables[n].impl \in Nat
        BY <2>1, DirType DEF Listed
      <4> QED BY <1>2, <4>1, <4>2 DEF HasEntry
    <3> QED BY <1>1, <3>1, <3>2
  <2> QED BY <2>1, <2>2, ListedAll
<1>4. screen' = Listing(node)
  BY <1>1, <1>2, <1>3
<1>5. CASE pc = "list"
  <2>1. cmd'.op = "ls" /\ node = IF cmd'.arg = <<>> THEN 0 ELSE Resolve(cmd'.arg)
    BY <1>1, <1>5 DEF Command
  <2>2. screen' = Listing(IF cmd'.arg = <<>> THEN 0 ELSE Resolve(cmd'.arg))
    BY <1>4, <2>1
  <2>3. Answered' /\ FileShown'
    BY <2>1, <2>2 DEF Answered, FileShown, AtPrompt
  <2> QED BY <1>1, <1>2, <2>3, ShownNow
<1>6. CASE pc = "devs"
  <2>1. cmd'.op = "devs" /\ node = DevDir
    BY <1>1, <1>6 DEF Command
  <2>2. Answered' /\ FileShown'
    BY <1>4, <2>1 DEF Answered, FileShown, AtPrompt
  <2> QED BY <1>1, <1>2, <2>2, ShownNow
<1> QED BY <1>1, <1>5, <1>6

(* What is refused is not a directory, or not a file.                      *)
LEMMA RefusedCommand ==
  ASSUME Memory, Lookup, Command, LsRefused \/ CatRefused \/ Other
  PROVE  Command'
<1>1. pc \in {"lookup", "run"} /\ pc' = "prompt" /\ UNCHANGED <<cmd, buf>>
  BY DEF LsRefused, CatRefused, Other, Goto, LookedUp
<1>2. inode = Tables /\ buf' \in [1 .. BufSize -> Nat]
  BY <1>1 DEF Memory, Running, Command
<1>3. CASE Other
  <2>1. cmd'.op = "other"
    BY <1>1, <1>3 DEF Other
  <2>2. FileShown' /\ Answered'
    BY <2>1 DEF FileShown, Answered, AtPrompt
  <2> QED BY <1>1, <1>2, <2>2, ShownNow
<1>4. CASE CatRefused
  <2>1. /\ cmd.op = "cat"
        /\ fs_finddir(0, cmd.arg) # NoNode =>
             inode[fs_finddir(0, cmd.arg)].flags \in {FS_DIR, FS_CHAR}
    BY <1>4 DEF CatRefused
  <2>2. FileNamed(cmd'.arg) = {}
    <3> SUFFICES ASSUME NEW n \in 1 .. NFiles, Disk[n].name = cmd.arg PROVE FALSE
      BY <1>1 DEF FileNamed
    <3>1. fs_finddir(0, cmd.arg) = n
      BY <1>2, FindRoot
    <3>2. n # NoNode /\ Tables[n].flags = FS_FILE
      BY DiskType, TablesAre DEF NoNode
    <3> QED BY <1>2, <2>1, <3>1, <3>2 DEF FS_FILE, FS_DIR, FS_CHAR
  <2>3. FileShown' /\ Answered'
    BY <1>1, <2>1, <2>2 DEF FileShown, Answered, AtPrompt
  <2> QED BY <1>1, <1>2, <2>3, ShownNow
<1>5. CASE LsRefused
  <2>1. /\ pc = "lookup" /\ here = "out" /\ cmd.op = "ls" /\ screen' = <<NoNode>>
        /\ node # NoNode => inode[node].flags % 8 # FS_DIR
    BY <1>5 DEF LsRefused, LookedUp
  <2>2. cmd.arg # <<>> /\ node = Resolve(cmd.arg)
    BY <2>1 DEF Command, Lookup
  <2>3. node # DevDir
    <3>1. DevDir # NoNode
      BY DiskType DEF NoNode
    <3> QED BY <1>2, <2>1, <3>1, TablesAre DEF FS_DIR
  <2>4. node # 0
    <3>1. CASE node = NoNode
      BY <3>1 DEF NoNode
    <3>2. CASE node # NoNode
      <4>1. IsPlace(Tokens(cmd.arg), node)
        BY <2>2, <3>2, ResolveIs
      <4> QED BY <4>1, PlaceShape, DiskType
    <3> QED BY <3>1, <3>2
  <2>5. Listing(node) = <<NoNode>>
    BY <2>3, <2>4 DEF Listing
  <2>6. screen' = Listing(IF cmd'.arg = <<>> THEN 0 ELSE Resolve(cmd'.arg))
    BY <1>1, <2>1, <2>2, <2>5
  <2>7. Answered' /\ FileShown'
    BY <1>1, <2>1, <2>6 DEF Answered, FileShown, AtPrompt
  <2> QED BY <1>1, <1>2, <2>7, ShownNow
<1> QED BY <1>3, <1>4, <1>5

(* cat and the greeting show their file.                                   *)
LEMMA ShowCommand ==
  ASSUME Memory, Command, Greet \/ Cat
  PROVE  Command'
<1>1. pc' = "prompt" /\ cmd'.op \in {"greet", "cat"}
  BY DEF Greet, Cat, Goto
<1>2. FileShown' /\ buf' \in [1 .. BufSize -> Nat]
  BY GreetShows, CatShows
<1>3. Answered'
  BY <1>1 DEF Answered, AtPrompt
<1> QED BY <1>1, <1>2, <1>3, ShownNow

LEMMA TtyCommand ==
  ASSUME Memory, Lookup, Command, TtyFound
  PROVE  Command'
<1>1. /\ pc = "lookup" /\ here = "out" /\ cmd.op = "tty" /\ pc' = "prompt"
      /\ UNCHANGED <<cmd, buf>>
      /\ node # NoNode => screen' = <<inode[node].impl>>
  BY DEF TtyFound, LookedUp
<1>2. inode = Tables /\ buf' \in [1 .. BufSize -> Nat] /\ node = Resolve(TtyPath)
  BY <1>1 DEF Memory, Running, Command, Lookup
<1>3. node = DevDir + 1 /\ node # NoNode /\ 1 \in 1 .. NDevs
  BY <1>2, TtyResolves, DiskType DEF NoNode
<1>4. Tables[DevDir + 1].impl = 0
  BY <1>3, TablesAre
<1>5. screen' = <<DEV_TTY>>
  BY <1>1, <1>2, <1>3, <1>4 DEF DEV_TTY
<1>6. Answered' /\ FileShown'
  BY <1>1, <1>5 DEF Answered, FileShown, AtPrompt
<1> QED BY <1>1, <1>2, <1>6, ShownNow

LEMMA TokCommand ==
  ASSUME Memory, Command, Tok
  PROVE  Command'
<1>1. pc = "run" /\ pc' = "tok" /\ cmd.op = "tok" /\ UNCHANGED <<cmd, buf, screen>>
      /\ strtok(TtyPath)
  BY DEF Tok, Goto
<1>2. screen' = <<>> /\ cmd' \in Commands /\ buf' \in [1 .. BufSize -> Nat]
  BY <1>1 DEF Command
<1>3. FileShown' /\ Answered'
  BY <1>1, NotShown
<1>4. StrOK(TtyPath)' /\ Cardinality(Seen(TtyPath)') = 0
  BY <1>1, TtyPathIs, CallOK
<1>5. Len(Tokens(TtyPath)) \in Nat
  BY TtyPathIs, TokensSeq
<1>6. TokensShown'
  BY <1>2, <1>4, <1>5 DEF TokensShown
<1> QED BY <1>1, <1>2, <1>3, <1>4, <1>6 DEF Command

LEMMA TokPrintCommand ==
  ASSUME Memory, Command, TokPrint
  PROVE  Command'
<1>1. /\ pc = "tok" /\ at = "out" /\ ptr # 0 /\ screen' = Append(screen, Token) /\ strtokNext
      /\ UNCHANGED <<pc, cmd, buf>>
  BY DEF TokPrint
<1>2. /\ cmd' \in Commands /\ buf' \in [1 .. BufSize -> Nat] /\ cmd.op = "tok"
      /\ StrOK(TtyPath) /\ TokensShown
  BY <1>1 DEF Command
<1>3. FileShown' /\ Answered'
  BY <1>1, NotShown
<1> DEFINE C == Cardinality(Seen(TtyPath))
           T == Tokens(TtyPath)
<1>4. C + 1 \in 1 .. Len(T) /\ Token = T[C + 1]
  BY <1>1, <1>2, Returned
<1>5. StrOK(TtyPath)' /\ Cardinality(Seen(TtyPath)') = C + 1
  BY <1>1, <1>2, NextOK
<1>6. T = <<DevName, DevNames[1]>>
  BY TtyTokens
<1>7. /\ screen \in Seq({DevName, DevNames[1]}) /\ Len(screen) = C
      /\ \A j \in 1 .. Len(screen) : screen[j] = T[j]
  BY <1>2 DEF TokensShown
<1> HIDE DEF C, T
<1>8. C + 1 <= Len(T) /\ Len(T) = 2
  BY <1>4, <1>6
<1>9. Token \in {DevName, DevNames[1]}
  BY <1>4, <1>6
<1>10. /\ screen' \in Seq({DevName, DevNames[1]}) /\ Len(screen') = C + 1
       /\ \A j \in 1 .. C : screen'[j] = screen[j]
       /\ screen'[C + 1] = Token
  BY <1>1, <1>7, <1>9
<1>11. \A j \in 1 .. Len(screen') : screen'[j] = T[j]
  BY <1>4, <1>7, <1>10
<1>12. TokensShown'
  BY <1>5, <1>8, <1>10, <1>11 DEF TokensShown, T
<1> QED BY <1>1, <1>2, <1>3, <1>5, <1>12 DEF Command

LEMMA TokEndCommand ==
  ASSUME Memory, Command, TokEnd
  PROVE  Command'
<1>1. pc = "tok" /\ at = "out" /\ ptr = 0 /\ pc' = "prompt" /\ UNCHANGED <<cmd, buf, screen>>
  BY DEF TokEnd, Goto
<1>2. /\ buf' \in [1 .. BufSize -> Nat] /\ cmd.op = "tok"
      /\ StrOK(TtyPath) /\ TokensShown
  BY <1>1 DEF Command
<1> DEFINE T == Tokens(TtyPath)
<1>3. Len(screen) = Len(T)
  BY <1>1, <1>2, AllReturned DEF TokensShown
<1>4. T = <<DevName, DevNames[1]>>
  BY TtyTokens
<1>5. screen \in Seq({DevName, DevNames[1]}) /\ \A j \in 1 .. Len(screen) : screen[j] = T[j]
  BY <1>2 DEF TokensShown
<1> HIDE DEF T
<1>6. T \in Seq({DevName, DevNames[1]})
  BY <1>4
<1>7. screen = T
  BY <1>3, <1>5, <1>6, SeqEqual
<1>8. screen' = Tokens(TtyPath) /\ cmd'.op = "tok"
  BY <1>1, <1>2, <1>7 DEF T
<1>9. Answered' /\ FileShown'
  BY <1>8 DEF Answered, FileShown, AtPrompt
<1> QED BY <1>1, <1>2, <1>9, ShownNow

(* The loops of strtok() and fs_lookup() leave the command where it is.    *)
LEMMA LoopCommand ==
  ASSUME Memory, Lookup, Command, Scanning \/ Looking
  PROVE  Command'
<1>1. UNCHANGED shellVars /\ UNCHANGED path
  BY DEF Scanning, Looking, lookupVars, fs_lookup, LookupNothing, LookupToken, LookupDone
<1>2. UNCHANGED <<pc, cmd, buf, index, screen>>
  BY <1>1 DEF shellVars
<1>3. pc \in {"lookup", "tok"}
  <2>1. CASE Looking
    <3>1. here # "out"
      BY <2>1 DEF Looking, fs_lookup, LookupNothing, LookupToken, LookupDone
    <3> QED BY <3>1 DEF Memory
  <2>2. CASE Scanning
    <3>1. at # "out"
      BY <2>2 DEF Scanning, Scan, Span, ScanSep, ScanChar, ScanEnd
    <3> QED BY <3>1 DEF Memory, Lookup
  <2> QED BY <2>1, <2>2
<1>4. FileShown' /\ Answered'
  BY <1>2, <1>3, NotShown
<1>5. CASE pc = "lookup"
  BY <1>1, <1>2, <1>4, <1>5 DEF Command
<1>6. CASE pc = "tok"
  <2>1. Scan
    <3>1. here = "out"
      BY <1>6 DEF Memory
    <3> QED BY <3>1 DEF Scanning, Looking, fs_lookup, LookupNothing, LookupToken, LookupDone
  <2>2. cmd \in Commands /\ cmd.op = "tok" /\ StrOK(TtyPath) /\ TokensShown
    BY <1>6 DEF Command
  <2>3. StrOK(TtyPath)' /\ Seen(TtyPath)' = Seen(TtyPath)
    BY <2>1, <2>2, ScanOK
  <2>4. TokensShown'
    BY <1>2, <2>2, <2>3 DEF TokensShown
  <2> QED BY <1>2, <1>4, <1>6, <2>2, <2>3, <2>4 DEF Command
<1> QED BY <1>3, <1>5, <1>6

LEMMA IdleCommand ==
  ASSUME Command, UNCHANGED allVars
  PROVE  Command'
<1>1. UNCHANGED <<strtokVars, path, node, pc, cmd, buf, index, screen>>
  BY DEF allVars, lookupVars, shellVars
<1>2. StrOK(TtyPath)' = StrOK(TtyPath) /\ Seen(TtyPath)' = Seen(TtyPath)
  BY <1>1 DEF StrOK, Found, Seen, strtokVars
<1>3. TokensShown' = TokensShown
  BY <1>1, <1>2 DEF TokensShown
<1>4. FileShown' = FileShown /\ Answered' = Answered
  BY <1>1 DEF FileShown, Answered, AtPrompt, LineLen, FileNamed, Resolve
<1>5. Listed(DevDir, index)' = Listed(DevDir, index) /\ Listed(node, index)' = Listed(node, index)
  BY <1>1 DEF Listed
<1> QED BY <1>1, <1>2, <1>3, <1>4, <1>5 DEF Command, Resolve, LineLen

LEMMA CommandStep == SInv /\ [Prompt \/ Thread]_allVars => Command'
<1> SUFFICES ASSUME Memory, Lookup, Command, [Prompt \/ Thread]_allVars PROVE Command'
  BY DEF SInv
<1> QED BY BootCommand, PromptCommand, ListCommand, CallCommand, EntryCommand, EndCommand,
           RefusedCommand, ShowCommand, TtyCommand, TokCommand, TokPrintCommand, TokEndCommand,
           LoopCommand, IdleCommand DEF Thread

(***************************************************************************)
(* The theorems                                                            *)
(***************************************************************************)

(* The inductive invariant holds in every reachable state of kernel_main() *)
(* and shell_main().                                                       *)
THEOREM ShellInvariant == ShellSpec => []SInv
<1>1. ShellInit => SInv
  BY MemoryInit, LookupInit, CommandInit DEF SInv
<1>2. SInv /\ [Prompt \/ Thread]_allVars => SInv'
  BY MemoryStep, LookupStep, CommandStep DEF SInv
<1> QED BY <1>1, <1>2, PTL DEF ShellSpec

(* strtok() works inside the string it was given, and inside fs_lookup()   *)
(* that string has not been freed, whatever strtok()'s static pointer was  *)
(* left at by the command before.                                          *)
THEOREM ShellScansOwnString == ShellSpec => []ScansOwnString
<1>1. ASSUME NEW s, StrOK(s)
      PROVE  str \in 1 .. Len(txt) /\ ptr < Len(txt) /\ Len(txt) = Len(s) + 1
  <2>1. Len(s) \in Nat /\ Starts(s) \subseteq 1 .. Len(s)
    BY <1>1, StartsFinite DEF StrOK
  <2>2. Len(txt) = Len(s) + 1
    <3>1. txt \in Seq(Chars \cup {Sep, NUL}) /\ DOMAIN txt = 1 .. Len(s) + 1
      BY <1>1, <2>1 DEF StrOK
    <3> QED BY <2>1, <3>1
  <2>3. ptr = 0 \/ ptr \in Starts(s)
    BY <1>1 DEF StrOK
  <2>4. str \in 1 .. Len(s) + 1
    BY <1>1 DEF StrOK
  <2> QED BY <2>1, <2>2, <2>3, <2>4
<1>2. SInv => ScansOwnString
  <2> SUFFICES ASSUME SInv, at # "out" PROVE /\ str \in 1 .. Len(txt) /\ ptr < Len(txt)
                                             /\ here # "out" => "path" \in alive
                                                               /\ Len(txt) = Len(path) + 1
    BY DEF ScansOwnString
  <2>1. CASE here = "out"
    <3>1. pc = "tok"
      BY <2>1 DEF SInv, Lookup
    <3>2. StrOK(TtyPath)
      BY <3>1 DEF SInv, Command
    <3> QED BY <1>1, <2>1, <3>2
  <2>2. CASE here # "out"
    <3>1. StrOK(path)
      BY <2>2 DEF SInv, Lookup
    <3>2. "path" \in alive
      BY <2>2 DEF SInv, Memory, Running
    <3> QED BY <1>1, <3>1, <3>2
  <2> QED BY <2>1, <2>2
<1> QED BY <1>2, ShellInvariant, PTL

(* fs_lookup() ends at the inode that the path's tokens name by the disk's *)
(* headers and the device table, and at none when they name nothing.       *)
THEOREM ShellLookupResolves == ShellSpec => []LookupResolves
<1>1. SInv => LookupResolves
  BY DEF SInv, Lookup, LookupResolves, LookedUp
<1> QED BY <1>1, ShellInvariant, PTL

(* At every prompt the kernel holds what it held at the first one: no      *)
(* command leaks, and the RAM disk stays open.                             *)
THEOREM ShellHeldAtPrompt == ShellSpec => []HeldAtPrompt
<1>1. SInv => HeldAtPrompt
  BY DEF SInv, Memory, Running, Held, HeldAtPrompt
<1> QED BY <1>1, ShellInvariant, PTL

(* cat and the greeting show a file from its first to its last byte,       *)
(* whatever read the RAM disk before, and nothing behind it when the file  *)
(* is not shorter than the line that was typed.                            *)
THEOREM ShellFileShown == ShellSpec => []FileShown
<1>1. SInv => FileShown
  BY DEF SInv, Command
<1> QED BY <1>1, ShellInvariant, PTL

(* ls and devs print every entry of the directory once and in order, or a  *)
(* refusal; tty reaches device 0; tok prints the parts of its path.        *)
THEOREM ShellAnswered == ShellSpec => []Answered
<1>1. SInv => Answered
  BY DEF SInv, Command
<1> QED BY <1>1, ShellInvariant, PTL

(***************************************************************************)
(* Every command ends                                                      *)
(***************************************************************************)

(* What strtok() has still to do in a string of n characters, until it     *)
(* finds no more tokens: it never goes back in the string, and at the same *)
(* character the phases follow one another in this order.                  *)
Phase ==
  CASE at = "scan" /\ f = 0 -> 5
    [] at = "out" /\ f = 0 -> 4
    [] at = "span" -> 3
    [] at = "scan" /\ f = 1 -> 2
    [] OTHER -> 1

Left(n) == 4 * (n + 1 - str) + Phase

LEMMA LeftIsNat ==
  ASSUME NEW s, StrOK(s)
  PROVE  Len(s) \in Nat /\ str \in 1 .. Len(s) + 1 /\ Phase \in 1 .. 5 /\ Left(Len(s)) \in Nat
<1>1. Len(s) \in Nat /\ str \in 1 .. Len(s) + 1
  BY DEF StrOK, Strings
<1>2. Phase \in 1 .. 5
  BY DEF Phase
<1> QED BY <1>1, <1>2 DEF Left

LEMMA CallLeft ==
  ASSUME NEW s \in Strings, strtok(s)
  PROVE  Left(Len(s))' = 4 * Len(s) + 3
<1>1. at' = "span" /\ str' = 1
  BY DEF strtok, Call
<1>2. Len(s) \in Nat
  BY DEF Strings
<1>3. Phase' = 3
  BY <1>1 DEF Phase
<1> QED BY <1>1, <1>2, <1>3 DEF Left

LEMMA ScanShrinks ==
  ASSUME NEW s, StrOK(s), Scan
  PROVE  Left(Len(s))' < Left(Len(s))
<1>1. Len(s) \in Nat /\ str \in 1 .. Len(s) + 1 /\ Phase \in 1 .. 5
  BY LeftIsNat
<1>2. f \in {0, 1} /\ (f = 1 => i = 0) /\ (at = "span" => f = 1)
  BY DEF StrOK
<1>3. \/ str' = str + 1 /\ Phase' <= Phase + 3
      \/ str' = str /\ Phase' < Phase
  <2>1. CASE Span
    BY <1>2, <2>1 DEF Span, Phase
  <2>2. CASE ScanSep
    BY <1>2, <2>2 DEF ScanSep, Phase
  <2>3. CASE ScanChar
    BY <1>2, <2>3 DEF ScanChar, Phase
  <2>4. CASE ScanEnd
    BY <1>2, <2>4 DEF ScanEnd, Phase
  <2> QED BY <2>1, <2>2, <2>3, <2>4 DEF Scan
<1>4. Phase' \in 1 .. 5
  BY DEF Phase
<1> QED BY <1>1, <1>3, <1>4 DEF Left

LEMMA NextShrinks ==
  ASSUME NEW s, StrOK(s), at = "out", ptr # 0, strtokNext
  PROVE  Left(Len(s))' < Left(Len(s))
<1>1. Len(s) \in Nat /\ str \in 1 .. Len(s) + 1
  BY LeftIsNat
<1>2. f = 0 /\ old = str
  BY DEF StrOK
<1>3. str' = str /\ at' = "span"
  BY <1>2 DEF strtokNext, Call
<1>4. Phase = 4 /\ Phase' = 3
  BY <1>2, <1>3 DEF Phase
<1> QED BY <1>1, <1>3, <1>4 DEF Left

(* The steps the shell can still make before its prompt: no more than a    *)
(* number that the line and the size of the directories determine.         *)
Entries == DevDir + NDevs + 2
Work ==
  CASE pc = "tty" -> 4
    [] pc = "disk" -> 3
    [] pc = "mount" -> 2
    [] pc \in {"greet", "halt"} -> 1
    [] pc = "run" -> Entries + 9 + 4 * (Len(cmd.arg) + Len(TtyPath))
    [] pc = "lookup" -> Entries + (IF here = "out" THEN 0 ELSE 1 + Left(Len(path)))
    [] pc \in {"list", "devs"} -> 1 + (inode[node].impl - index)
    [] pc = "tok" -> 1 + Left(Len(TtyPath))
    [] OTHER -> 0

WorkFacts ==
  /\ Entries \in Nat /\ Entries >= 4 /\ Len(TtyPath) \in Nat
  /\ pc = "run" => Len(cmd.arg) \in Nat
  /\ here # "out" => pc = "lookup" /\ Len(path) \in Nat /\ Left(Len(path)) \in Nat
  /\ pc \in {"list", "devs"} =>
       /\ index \in Nat /\ inode[node].impl \in Nat
       /\ index <= inode[node].impl /\ inode[node].impl + 2 <= Entries
  /\ pc = "tok" => Left(Len(TtyPath)) \in Nat
  /\ Work \in Nat

LEMMA WorkIsNat == SInv => WorkFacts
<1> SUFFICES ASSUME SInv PROVE WorkFacts
  OBVIOUS
<1>0. Memory /\ Lookup /\ Command
  BY DEF SInv
<1>1. Entries \in Nat /\ Entries >= 4 /\ Len(TtyPath) \in Nat /\ TtyPath \in Strings
  BY DiskType, TtyPathIs DEF Entries, DevDir, Strings
<1>2. pc = "run" => Len(cmd.arg) \in Nat
  BY <1>0, CommandType DEF Command
<1>3. here # "out" => pc = "lookup" /\ Len(path) \in Nat /\ Left(Len(path)) \in Nat
  BY <1>0, LeftIsNat DEF Memory, Lookup
<1>4. ASSUME pc \in {"list", "devs"}
      PROVE  /\ index \in Nat /\ inode[node].impl \in Nat
             /\ index <= inode[node].impl /\ inode[node].impl + 2 <= Entries
  <2>1. inode = Tables /\ node \in {0, DevDir} /\ index \in 0 .. Tables[node].impl
    BY <1>0, <1>4 DEF Memory, Command, Listed, Running
  <2>2. Tables[0].impl = DevDir /\ Tables[DevDir].impl = NDevs /\ DevDir \in Nat /\ NDevs \in Nat
    BY TablesAre, DiskType DEF DevDir
  <2> QED BY <2>1, <2>2 DEF Entries
<1>5. pc = "tok" => Left(Len(TtyPath)) \in Nat
  BY <1>0, LeftIsNat DEF Command
<1>6. Work \in Nat
  <2>1. CASE pc = "run"
    BY <1>1, <1>2, <2>1 DEF Work
  <2>2. CASE pc = "lookup"
    BY <1>1, <1>3, <2>2 DEF Work
  <2>3. CASE pc \in {"list", "devs"}
    <3>1. Work = 1 + (inode[node].impl - index)
      BY <2>3 DEF Work
    <3> QED BY <1>4, <2>3, <3>1
  <2>4. CASE pc = "tok"
    BY <1>5, <2>4 DEF Work
  <2>5. CASE pc \notin {"run", "lookup", "list", "devs", "tok"}
    BY <2>5 DEF Work
  <2> QED BY <2>1, <2>2, <2>3, <2>4, <2>5
<1> QED BY <1>1, <1>2, <1>3, <1>4, <1>5, <1>6 DEF WorkFacts

LEMMA WorkStaysNat == SInv' => WorkFacts'
  BY WorkIsNat, PTL

LEMMA WorkShrinks ==
  ASSUME SInv, Thread
  PROVE  Work' < Work
<1>0. Memory /\ Lookup /\ Command /\ WorkFacts
  BY WorkIsNat DEF SInv
<1>1. SInv' /\ WorkFacts'
  <2>1. SInv'
    BY MemoryStep, LookupStep, CommandStep DEF SInv
  <2> QED BY <2>1, WorkStaysNat
<1>2. Entries' = Entries
  BY DEF Entries
<1>3. CASE OpenTty \/ OpenDisk \/ Mount \/ Greet \/ Halt \/ Exit
  <2>1. \/ pc = "tty" /\ pc' = "disk"
        \/ pc = "disk" /\ pc' = "mount"
        \/ pc = "mount" /\ pc' = "greet"
        \/ pc = "greet" /\ pc' = "prompt"
        \/ pc = "halt" /\ pc' = "off"
        \/ pc = "run" /\ pc' = "halt"
    BY <1>3 DEF OpenTty, OpenDisk, Mount, Greet, Halt, Exit, Goto
  <2> QED BY <1>0, <2>1 DEF Work, WorkFacts
<1>4. CASE LsRoot \/ ListDevs
  <2>1. pc = "run" /\ pc' \in {"list", "devs"}
    BY <1>4 DEF LsRoot, ListDevs, Goto
  <2>2. Work' = 1 + (inode'[node'].impl - index')
    BY <2>1 DEF Work
  <2>3. Work = Entries + 9 + 4 * (Len(cmd.arg) + Len(TtyPath))
    BY <2>1 DEF Work
  <2>4. /\ index' \in Nat /\ inode'[node'].impl \in Nat /\ inode'[node'].impl + 2 <= Entries
        /\ Entries \in Nat /\ Len(cmd.arg) \in Nat /\ Len(TtyPath) \in Nat
    BY <1>0, <1>1, <1>2, <2>1 DEF WorkFacts
  <2>5. Work' < Entries
    BY ONLY <2>2, <2>4
  <2>6. Entries < Work /\ Work \in Nat /\ Work' \in Int
    <3>1. \A a, b, e \in Nat : e + 9 + 4 * (a + b) \in Nat /\ e < e + 9 + 4 * (a + b)
      OBVIOUS
    <3>2. Work \in Nat /\ Entries < Work
      BY ONLY <2>3, <2>4, <3>1
    <3>3. Work' \in Int
      BY ONLY <2>2, <2>4
    <3> QED BY <3>2, <3>3
  <2> QED BY ONLY <2>4, <2>5, <2>6
<1>5. CASE LsDir
  <2>1. pc = "lookup" /\ here = "out" /\ pc' = "list" /\ index' = 0
    BY <1>5 DEF LsDir, LookedUp
  <2> QED BY <1>0, <1>1, <1>2, <2>1 DEF Work, WorkFacts
<1>6. CASE ListEntry \/ DevsEntry
  <2>1. /\ pc \in {"list", "devs"} /\ pc' = pc /\ index' = index + 1
        /\ inode' = inode /\ node' = node
    BY <1>6 DEF ListEntry, DevsEntry, lookupVars
  <2> QED BY <1>0, <2>1 DEF Work, WorkFacts
<1>7. CASE ListEnd \/ DevsEnd \/ LsRefused \/ TtyFound \/ CatRefused \/ Cat \/ Other \/ TokEnd
  <2>1. pc \in {"run", "list", "devs", "lookup", "tok"} /\ pc' = "prompt"
        /\ (pc = "lookup" => here = "out")
    BY <1>7 DEF ListEnd, DevsEnd, LsRefused, TtyFound, CatRefused, Cat, Other, TokEnd, LookedUp, Goto
  <2> QED BY <1>0, <2>1 DEF Work, WorkFacts
<1>8. CASE LsPath \/ Tty
  <2>1. pc = "run" /\ pc' = "lookup" /\ (LookupCall(cmd.arg) \/ LookupCall(TtyPath))
    BY <1>8 DEF LsPath, Tty, Goto
  <2>2. cmd.arg \in Strings /\ TtyPath \in Strings
    <3>1. cmd \in Commands
      BY <1>0, <2>1 DEF Command
    <3> QED BY <3>1, CommandType, TtyPathIs
  <2>3. PICK p \in Strings : LookupCall(p) /\ p \in {cmd.arg, TtyPath}
    BY <2>1, <2>2
  <2>4. here' = "first" /\ path' = p /\ strtok(p)
    BY <2>3 DEF LookupCall
  <2>5. Left(Len(path))' = 4 * Len(p) + 3
    <3>1. Left(Len(p))' = 4 * Len(p) + 3
      BY <2>4, CallLeft
    <3> QED BY <2>4, <3>1 DEF Left
  <2>6. Len(p) \in Nat /\ Len(p) <= Len(cmd.arg) + Len(TtyPath)
    BY <1>0, <2>1, <2>3 DEF WorkFacts
  <2>7. Work' = Entries + (1 + (4 * Len(p) + 3))
    BY <1>2, <2>1, <2>4, <2>5 DEF Work
  <2>8. Work = Entries + 9 + 4 * (Len(cmd.arg) + Len(TtyPath))
    BY <2>1 DEF Work
  <2> QED BY <1>0, <2>1, <2>6, <2>7, <2>8 DEF WorkFacts
<1>9. CASE Tok
  <2>1. pc = "run" /\ pc' = "tok" /\ strtok(TtyPath)
    BY <1>9 DEF Tok, Goto
  <2>2. Left(Len(TtyPath))' = 4 * Len(TtyPath) + 3
    BY <2>1, TtyPathIs, CallLeft
  <2>3. Work' = 1 + (4 * Len(TtyPath) + 3)
    BY <2>1, <2>2 DEF Work
  <2>4. Work = Entries + 9 + 4 * (Len(cmd.arg) + Len(TtyPath))
    BY <2>1 DEF Work
  <2> QED BY <1>0, <2>1, <2>3, <2>4 DEF WorkFacts
<1>10. CASE TokPrint
  <2>1. pc = "tok" /\ pc' = "tok" /\ at = "out" /\ ptr # 0 /\ strtokNext
    BY <1>10 DEF TokPrint
  <2>2. StrOK(TtyPath)
    BY <1>0, <2>1 DEF Command
  <2>3. Left(Len(TtyPath))' < Left(Len(TtyPath))
    BY <2>1, <2>2, NextShrinks
  <2> QED BY <1>0, <1>1, <2>1, <2>3 DEF Work, WorkFacts
<1>11. CASE Scanning
  <2>1. UNCHANGED <<here, path, pc>> /\ Scan /\ at # "out"
    BY <1>11 DEF Scanning, lookupVars, shellVars, Scan, Span, ScanSep, ScanChar, ScanEnd
  <2>2. CASE here = "out"
    <3>1. pc = "tok" /\ StrOK(TtyPath)
      BY <1>0, <2>1, <2>2 DEF Lookup, Command
    <3>2. Left(Len(TtyPath))' < Left(Len(TtyPath))
      BY <2>1, <3>1, ScanShrinks
    <3> QED BY <1>0, <1>1, <2>1, <3>1, <3>2 DEF Work, WorkFacts
  <2>3. CASE here # "out"
    <3>1. StrOK(path) /\ pc = "lookup"
      BY <1>0, <2>3 DEF Lookup, Memory
    <3>2. ASSUME NEW q, q = path PROVE Left(Len(q))' < Left(Len(q))
      <4>1. StrOK(q)
        BY <3>1, <3>2
      <4> QED BY <2>1, <4>1, ScanShrinks
    <3>3. Left(Len(path))' < Left(Len(path))
      BY <2>1, <3>2 DEF Left
    <3> QED BY <1>0, <1>1, <1>2, <2>1, <2>3, <3>1, <3>3 DEF Work, WorkFacts
  <2> QED BY <2>2, <2>3
<1>12. CASE Looking
  <2>1. here # "out" /\ at = "out" /\ path' = path /\ pc' = pc
    BY <1>12 DEF Looking, fs_lookup, LookupNothing, LookupToken, LookupDone, shellVars
  <2>2. pc = "lookup" /\ StrOK(path)
    BY <1>0, <2>1 DEF Memory, Lookup
  <2>3. CASE LookupNothing \/ LookupDone
    <3>1. here' = "out"
      BY <2>3 DEF LookupNothing, LookupDone
    <3> QED BY <1>0, <1>2, <2>1, <2>2, <3>1 DEF Work, WorkFacts
  <2>4. CASE LookupToken
    <3>1. ptr # 0 /\ here' = "more" /\ strtokNext
      BY <2>4 DEF LookupToken
    <3>2. ASSUME NEW q, q = path PROVE Left(Len(q))' < Left(Len(q))
      <4>1. StrOK(q)
        BY <2>2, <3>2
      <4> QED BY <2>1, <3>1, <4>1, NextShrinks
    <3>3. Left(Len(path))' < Left(Len(path))
      BY <2>1, <3>2 DEF Left
    <3> QED BY <1>0, <1>1, <1>2, <2>1, <2>2, <3>1, <3>3 DEF Work, WorkFacts
  <2> QED BY <1>12, <2>3, <2>4 DEF Looking, fs_lookup
<1> QED BY <1>3, <1>4, <1>5, <1>6, <1>7, <1>8, <1>9, <1>10, <1>11, <1>12 DEF Thread

(* No command can loop: each step of the kernel's thread leaves it less to *)
(* do, through all loops of strtok(), fs_lookup() and the listings, and it *)
(* is only given new work by a line that is typed at the prompt.           *)
THEOREM ShellWorkShrinks ==
  ShellSpec => /\ [](Work \in Nat)
               /\ [][Work' < Work \/ (Prompt /\ Work = 0)]_allVars
<1>1. SInv => Work \in Nat
  BY WorkIsNat DEF WorkFacts
<1>2. SInv /\ Prompt => Work = 0
  BY DEF Prompt, Goto, Work
<1>3. SInv /\ [Prompt \/ Thread]_allVars => [Work' < Work \/ (Prompt /\ Work = 0)]_allVars
  BY <1>2, WorkShrinks
<1> QED BY <1>1, <1>3, ShellInvariant, PTL DEF ShellSpec

=============================================================================
