---------------------------- MODULE KHeapProofs -----------------------------
(***************************************************************************)
(* Proofs about the kernel heap, for every base address, every set of      *)
(* sizes and alignments and every number of live allocations: as long as   *)
(* the client is careful, the list stays intact and the heap implements    *)
(* HeapSpec.                                                               *)
(*                                                                         *)
(* Then about the kernel as the heap's client, for every number of files   *)
(* and every set of sizes the shell asks for: its calls are careful ones,  *)
(* so that everything said of careful clients holds for the kernel; what   *)
(* booting obtained stays its own; and the heap does not grow while the    *)
(* shell runs.                                                             *)
(***************************************************************************)
EXTENDS KernelHeap, FiniteSetTheorems, SequenceTheorems, TLAPS

(***************************************************************************)
(* The block list as a data structure: headers h, of which those in l are  *)
(* linked.                                                                 *)
(***************************************************************************)

Headers(h, l) ==
  /\ DOMAIN h \subseteq Nat
  /\ \A a \in DOMAIN h : h[a] \in Header
  /\ l \subseteq DOMAIN h \ {NULL}
  /\ root \in l

Forward(h, l) ==
  /\ \A a \in l : h[a].next # NULL => /\ h[a].next \in l
                                      /\ h[a].next = End(h, a)
  /\ \A a \in l : h[a].next = NULL => \A b \in l : b <= a
  /\ \A a, b \in l : a < b => End(h, a) <= b

Backward(h, l) ==
  /\ h[root].prev = NULL
  /\ \A a \in l : h[a].next # NULL => h[h[a].next].prev = a
  /\ \A a \in l : a # root => /\ h[a].prev \in l
                              /\ h[h[a].prev].next = a

Struct(h, l) == Headers(h, l) /\ Forward(h, l) /\ Backward(h, l)

(* Marking a block used or free leaves the list as it is.                  *)
LEMMA StructMark ==
  ASSUME NEW h, NEW l, Struct(h, l), NEW b \in l, NEW u \in {0, 1}
  PROVE  Struct([h EXCEPT ![b].used = u], l)
<1> DEFINE g == [h EXCEPT ![b].used = u]
<1>1. /\ DOMAIN g = DOMAIN h
      /\ b \in DOMAIN h
      /\ \A a \in DOMAIN h : h[a] \in Header
      /\ \A a \in DOMAIN h : /\ g[a].size = h[a].size
                             /\ g[a].prev = h[a].prev
                             /\ g[a].next = h[a].next
                             /\ g[a] \in Header
  BY DEF Struct, Headers, Header
<1> HIDE DEF g
<1>2. Headers(g, l)
  BY <1>1 DEF Struct, Headers
<1>3. Forward(g, l)
  BY <1>1 DEF Struct, Headers, Forward, End
<1>4. Backward(g, l)
  BY <1>1 DEF Struct, Headers, Forward, Backward
<1> QED BY <1>2, <1>3, <1>4 DEF Struct, g

(* merge() takes the swallowed block, and no other, out of the list.       *)
LEMMA StructMerge ==
  ASSUME NEW h, NEW l, Struct(h, l), NEW b \in l, Merges(h, b),
         NEW n, n = h[b].next, NEW m, m = merge(h, b)
  PROVE  /\ Struct(m, l \ {n})
         /\ DOMAIN m = DOMAIN h
         /\ n \in l /\ n # b /\ n # root
         /\ m[b].next = h[n].next
         /\ m[b].size = h[b].size + BLOCKSIZ + h[n].size
         /\ \A a \in DOMAIN h : m[a].used = h[a].used
         /\ \A a \in DOMAIN h \ {b} : /\ m[a].size = h[a].size
                                      /\ m[a].next = h[a].next
<1> DEFINE nn == h[n].next
<1>1. /\ n # NULL /\ n \in l /\ n = End(h, b) /\ h[n].prev = b
      /\ b \in Nat /\ b # NULL /\ h[b].size \in Nat /\ h[n].size \in Nat
      /\ b \in DOMAIN h /\ n \in DOMAIN h /\ n \in Nat
      /\ nn \in Nat
      /\ \A a \in DOMAIN h : h[a] \in Header
  BY DEF Struct, Headers, Forward, Backward, Merges, Header
<1>2. b < n /\ b # n /\ n # root
  BY <1>1 DEF Struct, Headers, Forward, Backward, End, Data, BLOCKSIZ, NULL
<1>3. nn # NULL => /\ nn \in l /\ nn = End(h, n) /\ nn # b /\ nn # n
                   /\ nn # root
                   /\ nn \in DOMAIN h
  BY <1>1, <1>2 DEF Struct, Headers, Forward, Backward, End, Data, BLOCKSIZ, NULL
<1>4. /\ DOMAIN m = DOMAIN h
      /\ m[b] = [used |-> h[b].used, size |-> h[b].size + BLOCKSIZ + h[n].size,
                prev |-> h[b].prev, next |-> nn]
      /\ \A a \in DOMAIN h \ {b} :
           m[a] = IF a = nn THEN [h[a] EXCEPT !.prev = b] ELSE h[a]
  BY <1>1, <1>2, <1>3 DEF merge, NULL
<1>5. /\ m[b].next = nn /\ m[b].prev = h[b].prev /\ m[b].used = h[b].used
      /\ m[b].size = h[b].size + BLOCKSIZ + h[n].size
      /\ m[b] \in Header
  BY <1>1, <1>4 DEF Header, BLOCKSIZ
<1>6. \A a \in DOMAIN h \ {b} :
        /\ m[a].size = h[a].size /\ m[a].next = h[a].next
        /\ m[a].used = h[a].used
        /\ m[a].prev = IF a = nn THEN b ELSE h[a].prev
        /\ m[a] \in Header
  BY <1>1, <1>4 DEF Header
<1>7. Headers(m, l \ {n})
  BY <1>1, <1>2, <1>4, <1>5, <1>6 DEF Struct, Headers
<1>8. Forward(m, l \ {n})
  <2>1. \A a \in l \ {n} : m[a].next # NULL => /\ m[a].next \in l \ {n}
                                               /\ m[a].next = End(m, a)
    <3>1. CASE nn = NULL
      BY <3>1, <1>1, <1>2, <1>5, <1>6
         DEF Struct, Headers, Forward, Backward, End, Data, BLOCKSIZ
    <3>2. ASSUME NEW a \in l \ {n}, a # b, m[a].next # NULL
          PROVE  m[a].next \in l \ {n} /\ m[a].next = End(m, a)
      BY <3>2, <1>1, <1>6 DEF Struct, Headers, Forward, Backward, End
    <3>3. m[b].next # NULL => m[b].next \in l \ {n} /\ m[b].next = End(m, b)
      BY <1>1, <1>3, <1>5 DEF End, Data, BLOCKSIZ
    <3> QED BY <3>2, <3>3
  <2>2. \A a \in l \ {n} : m[a].next = NULL => \A c \in l \ {n} : c <= a
    <3>1. ASSUME NEW a \in l \ {n}, a # b, m[a].next = NULL
          PROVE  \A c \in l \ {n} : c <= a
      BY <3>1, <1>6 DEF Struct, Headers, Forward
    <3>2. ASSUME m[b].next = NULL, NEW c \in l \ {n}
          PROVE  c <= b
      <4>1. c <= n /\ c \in Nat /\ h[b].size \in Nat
        BY <3>2, <1>1, <1>5 DEF Struct, Headers, Forward
      <4>2. b < c => n <= c
        BY <1>1 DEF Struct, Forward
      <4> QED BY <4>1, <4>2, <1>1, <3>2
    <3> QED BY <3>1, <3>2
  <2>3. \A a, c \in l \ {n} : a < c => End(m, a) <= c
    <3> SUFFICES ASSUME NEW a \in l \ {n}, NEW c \in l \ {n}, a < c
                 PROVE  End(m, a) <= c
      OBVIOUS
    <3>1. CASE a # b
      BY <3>1, <1>6 DEF Struct, Headers, Forward, End
    <3>2. CASE a = b
      <4>1. End(h, b) <= c /\ c \in Nat /\ n < c
        BY <3>2, <1>1 DEF Struct, Headers, Forward
      <4>2. End(h, n) <= c
        BY <4>1, <1>1 DEF Struct, Forward
      <4>3. End(m, b) = End(h, n)
        BY <1>1, <1>5 DEF End, Data, BLOCKSIZ
      <4> QED BY <4>2, <4>3, <3>2
    <3> QED BY <3>1, <3>2
  <2> QED BY <2>1, <2>2, <2>3 DEF Forward
<1>9. Backward(m, l \ {n})
  <2>1. m[root].prev = NULL
    BY <1>1, <1>3, <1>5, <1>6 DEF Struct, Headers, Backward
  <2>2. \A a \in l \ {n} : m[a].next # NULL => m[m[a].next].prev = a
    <3>1. ASSUME NEW a \in l \ {n}, a # b, m[a].next # NULL
          PROVE  m[m[a].next].prev = a
      <4>1. h[a].next = m[a].next /\ h[a].next \in l /\ h[h[a].next].prev = a
        BY <3>1, <1>6 DEF Struct, Headers, Forward, Backward
      <4>2. h[a].next # nn
        BY <4>1, <3>1, <1>1, <1>3 DEF Struct, Backward
      <4>3. CASE h[a].next = b
        BY <4>1, <4>3, <1>5
      <4>4. CASE h[a].next # b
        BY <4>1, <4>2, <4>4, <1>6 DEF Struct, Headers
      <4> QED BY <4>3, <4>4
    <3>2. m[b].next # NULL => m[m[b].next].prev = b
      BY <1>3, <1>5, <1>6
    <3> QED BY <3>1, <3>2
  <2>3. \A a \in l \ {n} : a # root => /\ m[a].prev \in l \ {n}
                                       /\ m[m[a].prev].next = a
    <3> SUFFICES ASSUME NEW a \in l \ {n}, a # root
                 PROVE  m[a].prev \in l \ {n} /\ m[m[a].prev].next = a
      OBVIOUS
    <3>1. h[a].prev \in l /\ h[h[a].prev].next = a /\ a # NULL /\ a \in DOMAIN h
      BY DEF Struct, Headers, Backward
    <3>2. CASE a = b
      <4>1. m[a].prev = h[a].prev /\ h[a].prev # b
        BY <3>1, <3>2, <1>2, <1>5 
      <4>2. h[a].prev # n
        BY <3>1, <3>2, <1>3
      <4> QED BY <3>1, <4>1, <4>2, <1>6 DEF Struct, Headers
    <3>3. CASE a # b /\ a = nn
      BY <3>3, <3>1, <1>2, <1>5, <1>6
    <3>4. CASE a # b /\ a # nn
      <4>1. m[a].prev = h[a].prev /\ h[a].prev # n /\ h[a].prev # b
        BY <3>1, <3>4, <1>6
      <4> QED BY <3>1, <4>1, <1>6 DEF Struct, Headers
    <3> QED BY <3>2, <3>3, <3>4
  <2> QED BY <2>1, <2>2, <2>3 DEF Backward
<1> QED BY <1>1, <1>2, <1>4, <1>5, <1>6, <1>7, <1>8, <1>9 DEF Struct

(* split() puts one free block into the list, between b and its successor. *)
LEMMA StructSplit ==
  ASSUME NEW h, NEW l, Struct(h, l), NEW b \in l,
         NEW n \in Nat, n <= h[b].size, Splits(h, b, n),
         NEW s, s = split(h, b, n), NEW new, new = Data(b) + n
  PROVE  /\ Struct(s, l \cup {new})
         /\ new \notin l /\ b < new /\ Data(new) <= h[b].next
         /\ DOMAIN s = DOMAIN h \cup {new}
         /\ s[b].used = h[b].used /\ s[b].size = n /\ s[b].next = new
         /\ s[new].used = 0 /\ s[new].size > 0 /\ s[new].next = h[b].next
         /\ \A a \in DOMAIN h \ {b, new} : /\ s[a].used = h[a].used
                                           /\ s[a].size = h[a].size
                                           /\ s[a].next = h[a].next
<1> DEFINE nxt == h[b].next
<1>1. /\ nxt # NULL /\ nxt \in l /\ nxt = Data(b) + h[b].size
      /\ b \in Nat /\ b # NULL /\ h[b].size \in Nat /\ nxt \in Nat
      /\ b \in DOMAIN h /\ nxt \in DOMAIN h
      /\ \A a \in DOMAIN h : h[a] \in Header
      /\ h[b].size - n > 24
  BY DEF Struct, Headers, Forward, Splits, Header, End, BLOCKSIZ
<1>2. /\ new \in Nat /\ b < new /\ Data(new) \in Nat /\ Data(new) < nxt
      /\ Data(new) = new + BLOCKSIZ /\ new < nxt
      /\ new # NULL /\ nxt # root
  BY <1>1 DEF Data, BLOCKSIZ, NULL, Struct, Backward, Headers
<1>3. \A a \in l : a \in Nat /\ (b < a => nxt <= a)
  BY <1>1 DEF Struct, Headers, Forward, End
<1>4. new \notin l /\ new # b /\ new # nxt /\ b # nxt /\ new # root
  BY <1>1, <1>2, <1>3 DEF Struct, Headers
<1>5. /\ DOMAIN s = DOMAIN h \cup {new}
      /\ s[new] = [used |-> 0, size |-> nxt - Data(new), prev |-> b, next |-> nxt]
      /\ s[b] = [used |-> h[b].used, size |-> n, prev |-> h[b].prev, next |-> new]
      /\ \A a \in DOMAIN h \ {b, new} :
           s[a] = IF a = nxt THEN [h[a] EXCEPT !.prev = new] ELSE h[a]
  BY <1>1, <1>4 DEF split
<1>6. /\ s[new].used = 0 /\ s[new].size = nxt - Data(new)
      /\ s[new].prev = b /\ s[new].next = nxt
      /\ s[b].used = h[b].used /\ s[b].size = n
      /\ s[b].prev = h[b].prev /\ s[b].next = new
      /\ s[new] \in Header /\ s[b] \in Header
  BY <1>1, <1>2, <1>5 DEF Header
<1>7. \A a \in DOMAIN h \ {b, new} :
        /\ s[a].size = h[a].size /\ s[a].next = h[a].next
        /\ s[a].used = h[a].used
        /\ s[a].prev = IF a = nxt THEN new ELSE h[a].prev
        /\ s[a] \in Header
  BY <1>1, <1>2, <1>5 DEF Header
<1>8. Headers(s, l \cup {new})
  BY <1>1, <1>2, <1>5, <1>6, <1>7 DEF Struct, Headers
<1>9. /\ End(s, b) = new
      /\ End(s, new) = nxt
      /\ \A a \in l \ {b} : End(s, a) = End(h, a)
  BY <1>1, <1>2, <1>4, <1>6, <1>7 DEF Struct, Headers, End, Data, BLOCKSIZ
<1>10. Forward(s, l \cup {new})
  <2>1. \A a \in l \cup {new} : s[a].next # NULL =>
          s[a].next \in l \cup {new} /\ s[a].next = End(s, a)
    <3>1. ASSUME NEW a \in l \ {b}, s[a].next # NULL
          PROVE  s[a].next \in l /\ s[a].next = End(s, a)
      BY <3>1, <1>4, <1>7, <1>9 DEF Struct, Headers, Forward
    <3>2. /\ s[b].next = new /\ s[b].next = End(s, b)
          /\ s[new].next \in l /\ s[new].next = End(s, new)
      BY <1>1, <1>6, <1>9
    <3> QED BY <3>1, <3>2
  <2>2. \A a \in l \cup {new} : s[a].next = NULL => \A c \in l \cup {new} : c <= a
    <3> SUFFICES ASSUME NEW a \in l \cup {new}, s[a].next = NULL
                 PROVE  \A c \in l \cup {new} : c <= a
      OBVIOUS
    <3>1. a \in l \ {b} /\ h[a].next = NULL
      BY <1>1, <1>2, <1>4, <1>6, <1>7 DEF Struct, Headers
    <3>2. \A c \in l : c <= a
      BY <3>1 DEF Struct, Forward
    <3>3. new <= a
      BY <3>1, <3>2, <1>1, <1>2, <1>3
    <3> QED BY <3>2, <3>3
  <2>3. \A a, c \in l \cup {new} : a < c => End(s, a) <= c
    <3> SUFFICES ASSUME NEW a \in l \cup {new}, NEW c \in l \cup {new}, a < c
                 PROVE  End(s, a) <= c
      OBVIOUS
    <3>1. CASE a = new
      BY <3>1, <1>1, <1>2, <1>3, <1>9
    <3>2. CASE a = b
      BY <3>2, <1>1, <1>2, <1>3, <1>9
    <3>3. CASE a \in l \ {b} /\ c = new
      <4>1. a < b
        BY <3>3, <1>1, <1>2, <1>3
      <4>2. End(h, a) <= b /\ End(h, a) \in Nat
        BY <3>3, <4>1 DEF Struct, Headers, Forward, Header, End, Data, BLOCKSIZ
      <4> QED BY <3>3, <4>2, <1>1, <1>2, <1>9
    <3>4. CASE a \in l \ {b} /\ c \in l
      BY <3>4, <1>9 DEF Struct, Forward
    <3> QED BY <3>1, <3>2, <3>3, <3>4
  <2> QED BY <2>1, <2>2, <2>3 DEF Forward
<1>11. Backward(s, l \cup {new})
  <2>1. s[root].prev = NULL
    BY <1>2, <1>4, <1>6, <1>7 DEF Struct, Headers, Backward
  <2>2. \A a \in l \cup {new} : s[a].next # NULL => s[s[a].next].prev = a
    <3>1. ASSUME NEW a \in l \ {b}, s[a].next # NULL
          PROVE  s[s[a].next].prev = a
      <4>1. h[a].next = s[a].next /\ h[a].next \in l /\ h[h[a].next].prev = a
        BY <3>1, <1>4, <1>7 DEF Struct, Headers, Forward, Backward
      <4>2. h[a].next # nxt
        BY <4>1, <3>1, <1>1 DEF Struct, Backward
      <4> QED BY <4>1, <4>2, <1>4, <1>6, <1>7 DEF Struct, Headers
    <3>2. s[s[b].next].prev = b /\ s[s[new].next].prev = new
      BY <1>1, <1>4, <1>6, <1>7
    <3> QED BY <3>1, <3>2
  <2>3. \A a \in l \cup {new} : a # root =>
          s[a].prev \in l \cup {new} /\ s[s[a].prev].next = a
    <3> SUFFICES ASSUME NEW a \in l, a # root
                 PROVE  s[a].prev \in l \cup {new} /\ s[s[a].prev].next = a
      BY <1>6
    <3>1. h[a].prev \in l /\ h[h[a].prev].next = a /\ a \in DOMAIN h
      BY DEF Struct, Headers, Backward
    <3>2. CASE a = nxt
      BY <3>2, <1>1, <1>4, <1>6, <1>7
    <3>3. CASE a # nxt
      <4>1. s[a].prev = h[a].prev /\ h[a].prev # b
        BY <3>1, <3>3, <1>4, <1>6, <1>7
      <4> QED BY <3>1, <4>1, <1>4, <1>7 DEF Struct, Headers
    <3> QED BY <3>2, <3>3
  <2> QED BY <2>1, <2>2, <2>3 DEF Backward
<1> QED
  BY <1>1, <1>2, <1>4, <1>5, <1>6, <1>7, <1>8, <1>10, <1>11 DEF Struct

(* g and l2 are h and l once b was handed out for n bytes.                 *)
HandedOut(h, l, b, n, g, l2) ==
  /\ Struct(g, l2)
  /\ l \subseteq l2
  /\ g[b].used = 1 /\ n <= g[b].size
  /\ \A a \in l \ {b} : /\ g[a].used = h[a].used
                        /\ g[a].size = h[a].size
                        /\ g[a].next = h[a].next
  /\ \A a \in l2 \ l : /\ g[a].used = 0 /\ g[a].size # 0
                       /\ g[a].next = h[b].next
  /\ h[b].next = NULL => g[b].next = NULL /\ g[b].size = h[b].size

(* Handing a block out keeps the list intact, marks the block and leaves   *)
(* every other block's size and owner alone.                               *)
LEMMA StructHandOut ==
  ASSUME NEW h, NEW l, Struct(h, l), NEW b \in l, h[b].used = 0,
         NEW n \in Nat \ {0}, n <= h[b].size,
         NEW g, g = HandOut(h, b, n),
         NEW l2, l2 = (l \cup {g[b].next}) \ {NULL}
  PROVE  HandedOut(h, l, b, n, g, l2)
<1> DEFINE h0 == [h EXCEPT ![b].used = 1]
           s == split(h0, b, n)
           new == Data(b) + n
<1>1. Struct(h0, l)
  BY StructMark
<1>2. /\ b \in DOMAIN h /\ DOMAIN h0 = DOMAIN h
      /\ h0[b].used = 1
      /\ \A a \in DOMAIN h : h0[a].size = h[a].size /\ h0[a].next = h[a].next
      /\ \A a \in DOMAIN h \ {b} : h0[a].used = h[a].used
      /\ l \subseteq DOMAIN h
  BY DEF Struct, Headers, Header
<1> HIDE DEF h0
<1>3. g = [a \in Survivors(s, b, n) |-> s[a]]
  BY DEF HandOut, h0
<1>4. /\ \A a \in l : a \in Nat /\ (b < a => Data(b) + h[b].size <= a)
      /\ b \in Nat /\ h[b].size \in Nat /\ Data(b) \in Nat /\ new \in Nat
      /\ b < new
  BY DEF Struct, Headers, Forward, Header, End, Data, BLOCKSIZ
<1>5. CASE Splits(h0, b, n)
  <2>1. /\ Struct(s, l \cup {new})
        /\ new \notin l /\ Data(new) <= h[b].next
        /\ DOMAIN s = DOMAIN h \cup {new}
        /\ s[b].used = 1 /\ s[b].size = n /\ s[b].next = new
        /\ s[new].used = 0 /\ s[new].size > 0 /\ s[new].next = h[b].next
        /\ \A a \in l \ {b} : /\ s[a].used = h[a].used
                              /\ s[a].size = h[a].size
                              /\ s[a].next = h[a].next
    <3>1. n <= h0[b].size /\ n \in Nat
      BY <1>2
    <3>2. /\ Struct(s, l \cup {new})
          /\ new \notin l /\ b < new /\ Data(new) <= h0[b].next
          /\ DOMAIN s = DOMAIN h0 \cup {new}
          /\ s[b].used = h0[b].used /\ s[b].size = n /\ s[b].next = new
          /\ s[new].used = 0 /\ s[new].size > 0 /\ s[new].next = h0[b].next
          /\ \A a \in DOMAIN h0 \ {b, new} : /\ s[a].used = h0[a].used
                                             /\ s[a].size = h0[a].size
                                             /\ s[a].next = h0[a].next
      BY <1>1, <1>5, <3>1, StructSplit
    <3> HIDE DEF s, new
    <3> QED BY <3>2, <1>2
  <2>2. h[b].next = Data(b) + h[b].size
    BY <1>2, <1>5 DEF Splits, Struct, Forward, End
  <2> HIDE DEF s
  <2>3. l \cup {new} \subseteq Survivors(s, b, n)
    BY <1>2, <1>4, <2>1, <2>2 DEF Survivors, Data, BLOCKSIZ
  <2>4. Survivors(s, b, n) \subseteq DOMAIN s
    BY DEF Survivors
  <2>5. DOMAIN g = Survivors(s, b, n) /\ \A a \in Survivors(s, b, n) : g[a] = s[a]
    BY <1>3
  <2>6. Struct(g, l \cup {new})
    BY <2>1, <2>3, <2>4, <2>5 DEF Struct, Headers, Forward, Backward, End
  <2>7. (l \cup {g[b].next}) \ {NULL} = l \cup {new}
    BY <2>1, <2>3, <2>5, <2>6, <1>4 DEF Struct, Headers, NULL
  <2>8. g[b].next = new /\ g[b].used = 1 /\ g[b].size = n
    BY <2>1, <2>3, <2>5
  <2>9. g[new].used = 0 /\ g[new].size # 0 /\ g[new].next = h[b].next
    BY <2>1, <2>3, <2>5, <1>4, <2>6 DEF Struct, Headers, Header
  <2>10. \A a \in l \ {b} : /\ g[a].used = h[a].used
                            /\ g[a].size = h[a].size
                            /\ g[a].next = h[a].next
    BY <2>1, <2>3, <2>5
  <2> HIDE DEF new
  <2>11. l2 = l \cup {new}
    BY <2>7
  <2>12. l \subseteq l2 /\ l2 \ l = {new} /\ g[b].next \notin l
    BY <2>11, <2>1, <2>8
  <2>13. Struct(g, l2)
    BY <2>6, <2>11
  <2>14. h[b].next # NULL
    BY <1>2, <1>5 DEF Splits
  <2> QED BY <2>8, <2>9, <2>10, <2>12, <2>13, <2>14 DEF HandedOut
<1>6. CASE ~ Splits(h0, b, n)
  <2>1. s = h0
    BY <1>6 DEF split
  <2>2. g = [a \in Survivors(h0, b, n) |-> h0[a]]
    BY <1>3, <2>1
  <2>3. l \subseteq Survivors(h0, b, n)
    <3> SUFFICES ASSUME NEW a \in l
                 PROVE  a \in Survivors(h0, b, n)
      OBVIOUS
    <3>1. ~ (b < a /\ a < new)
      BY <1>4
    <3>2. ASSUME h0[b].next = new PROVE ~ (new < a /\ a < Data(new))
      <4>1. new \in l /\ h0[new].size \in Nat
        BY <3>2, <1>1, <1>2, <1>4 DEF Struct, Headers, Forward, NULL, Header
      <4>2. new < a => End(h0, new) <= a
        BY <4>1, <1>1 DEF Struct, Forward
      <4> QED BY <4>1, <4>2, <1>4 DEF End, Data, BLOCKSIZ
    <3> QED BY <3>1, <3>2, <1>2 DEF Survivors
  <2>4. Survivors(h0, b, n) \subseteq DOMAIN h0
    BY DEF Survivors
  <2>5. DOMAIN g = Survivors(h0, b, n) /\ \A a \in l : g[a] = h0[a]
    BY <2>2, <2>3
  <2>6. \A a \in DOMAIN g : g[a] = h0[a]
    BY <2>2
  <2>7. Struct(g, l)
    BY <1>1, <2>3, <2>4, <2>5, <2>6 DEF Struct, Headers, Forward, Backward, End
  <2>8. (l \cup {g[b].next}) \ {NULL} = l
    BY <2>7 DEF Struct, Headers, Forward
  <2>9. /\ g[b].next = h[b].next /\ g[b].used = 1 /\ n <= g[b].size
        /\ g[b].size = h[b].size
    BY <1>2, <2>5
  <2>10. \A a \in l \ {b} : /\ g[a].used = h[a].used
                            /\ g[a].size = h[a].size
                            /\ g[a].next = h[a].next
    BY <1>2, <2>5
  <2> QED BY <2>7, <2>8, <2>9, <2>10 DEF HandedOut
<1> QED BY <1>5, <1>6

(* A block placed at or above the end of the last one becomes the last.    *)
LEMMA StructExtend ==
  ASSUME NEW h, NEW l, Struct(h, l), NEW b \in l, h[b].next = NULL,
         NEW n \in Nat, NEW at \in Nat, End(h, b) <= at,
         NEW g, g = Extend(h, b, at, n)
  PROVE  /\ Struct(g, l \cup {at})
         /\ at \notin l
         /\ g[at].used = 1 /\ g[at].size = n /\ g[at].next = NULL
         /\ g[b].used = h[b].used /\ g[b].next = at /\ h[b].size <= g[b].size
         /\ \A a \in l \ {b} : g[a] = h[a]
<1>1. /\ b \in Nat /\ b # NULL /\ h[b].size \in Nat /\ b \in DOMAIN h
      /\ End(h, b) = b + 16 + h[b].size
      /\ \A a \in DOMAIN h : h[a] \in Header
      /\ \A a \in l : a \in Nat /\ a <= b
  BY DEF Struct, Headers, Forward, Header, End, Data, BLOCKSIZ
<1>2. b < at /\ at \notin l /\ at # root /\ at # NULL
  BY <1>1 DEF Struct, Headers, NULL
<1>3. /\ DOMAIN g = DOMAIN h \cup {at}
      /\ g[at] = [used |-> 1, size |-> n, prev |-> b, next |-> NULL]
      /\ g[b] = [used |-> h[b].used, size |-> at - Data(b),
                 prev |-> h[b].prev, next |-> at]
      /\ \A a \in DOMAIN h \ {b, at} : g[a] = h[a]
  BY <1>1, <1>2 DEF Extend
<1>4. /\ g[at].used = 1 /\ g[at].size = n /\ g[at].prev = b /\ g[at].next = NULL
      /\ g[b].used = h[b].used /\ g[b].size = at - Data(b)
      /\ g[b].prev = h[b].prev /\ g[b].next = at
      /\ at - Data(b) \in Nat /\ h[b].size <= at - Data(b)
      /\ g[at] \in Header /\ g[b] \in Header
  BY <1>1, <1>3 DEF Header, Data, BLOCKSIZ, NULL
<1>5. Headers(g, l \cup {at})
  BY <1>1, <1>2, <1>3, <1>4 DEF Struct, Headers
<1>6. End(g, b) = at /\ \A a \in l \ {b} : End(g, a) = End(h, a) /\ g[a] = h[a]
  BY <1>1, <1>2, <1>3, <1>4 DEF Struct, Headers, End, Data, BLOCKSIZ
<1>7. Forward(g, l \cup {at})
  <2>1. \A a \in l \cup {at} : g[a].next # NULL =>
          g[a].next \in l \cup {at} /\ g[a].next = End(g, a)
    BY <1>4, <1>6 DEF Struct, Forward
  <2>2. \A a \in l \cup {at} : g[a].next = NULL => \A c \in l \cup {at} : c <= a
    <3>1. \A a \in l \ {b} : g[a].next # NULL
      <4> SUFFICES ASSUME NEW a \in l \ {b}, g[a].next = NULL PROVE FALSE
        OBVIOUS
      <4>1. b <= a
        BY <1>6 DEF Struct, Forward
      <4> QED BY <4>1, <1>1
    <3> QED BY <3>1, <1>1, <1>2, <1>4
  <2>3. \A a, c \in l \cup {at} : a < c => End(g, a) <= c
    <3> SUFFICES ASSUME NEW a \in l \cup {at}, NEW c \in l \cup {at}, a < c
                 PROVE  End(g, a) <= c
      OBVIOUS
    <3>1. CASE a = at
      BY <3>1, <1>1, <1>2
    <3>2. CASE a = b
      BY <3>2, <1>1, <1>6
    <3>3. CASE a \in l \ {b} /\ c \in l
      BY <3>3, <1>6 DEF Struct, Forward
    <3>4. CASE a \in l \ {b} /\ c = at
      <4>1. a < b
        BY <3>4, <1>1
      <4>2. End(h, a) <= b /\ End(h, a) \in Nat
        BY <3>4, <4>1 DEF Struct, Headers, Forward, Header, End, Data, BLOCKSIZ
      <4> QED BY <3>4, <4>2, <1>1, <1>2, <1>6
    <3> QED BY <3>1, <3>2, <3>3, <3>4
  <2> QED BY <2>1, <2>2, <2>3 DEF Forward
<1>8. Backward(g, l \cup {at})
  <2>1. g[root].prev = NULL
    BY <1>4, <1>6 DEF Struct, Headers, Backward
  <2>2. \A a \in l \cup {at} : g[a].next # NULL => g[g[a].next].prev = a
    <3>1. ASSUME NEW a \in l \ {b}, g[a].next # NULL
          PROVE  g[g[a].next].prev = a
      BY <3>1, <1>4, <1>6 DEF Struct, Forward, Backward
    <3> QED BY <3>1, <1>4
  <2>3. \A a \in l \cup {at} : a # root =>
          g[a].prev \in l \cup {at} /\ g[g[a].prev].next = a
    <3>1. ASSUME NEW a \in l, a # root
          PROVE  g[a].prev \in l /\ g[g[a].prev].next = a
      <4>1. h[a].prev \in l /\ h[h[a].prev].next = a /\ a # NULL
        BY <3>1 DEF Struct, Headers, Backward
      <4>2. h[a].prev # b /\ g[a].prev = h[a].prev
        BY <4>1, <1>4, <1>6
      <4> QED BY <4>1, <4>2, <1>6
    <3> QED BY <3>1, <1>4
  <2> QED BY <2>1, <2>2, <2>3 DEF Backward
<1> QED BY <1>2, <1>4, <1>5, <1>6, <1>7, <1>8 DEF Struct

(***************************************************************************)
(* The inductive invariant.                                                *)
(***************************************************************************)

(* Only the untouched first block has size zero.                           *)
EmptyIsRoot ==
  \A a \in list : hdr[a].size = 0 => list = {root} /\ hdr[a].used = 0

(* What the check at the beginning of kmalloca() is good for as long as    *)
(* lookup() runs.                                                          *)
RequestOK ==
  ~ Idle =>
    /\ req.size # 0
    /\ CarefulRequest(req.ax)
    /\ req.blk # NULL => hdr[root].size # 0

(* Memory that ever had an owner lies below the end of the last block.     *)
DirtyBelow == \A d \in dirty : \E b \in list : d < End(hdr, b)

HeapInv ==
  /\ TypeOK
  /\ Struct(hdr, list)
  /\ Coalesced
  /\ Held
  /\ StoresInHeaders
  /\ EmptyIsRoot
  /\ RequestOK
  /\ DirtyBelow

(* No block moved down: what lay below the heap's end still does.          *)
Covers == \A a \in list : \E c \in list' : End(hdr, a) <= End(hdr', c)

LEMMA DirtyStaysBelow ==
  ASSUME HeapInv, Struct(hdr, list)', Covers, UNCHANGED dirty
  PROVE  DirtyBelow'
<1> SUFFICES ASSUME NEW d \in dirty PROVE \E c \in list' : d < End(hdr', c)
  BY DEF DirtyBelow, End
<1>1. PICK b \in list : d < End(hdr, b)
  BY DEF HeapInv, DirtyBelow
<1>2. PICK c \in list' : End(hdr, b) <= End(hdr', c)
  BY DEF Covers
<1>3. d \in Nat /\ End(hdr, b) \in Nat /\ End(hdr', c) \in Nat
  BY DEF HeapInv, TypeOK, Struct, Headers, Header, End, Data, BLOCKSIZ
<1> QED BY <1>1, <1>2, <1>3

LEMMA InvInit == Init => HeapInv
<1> SUFFICES ASSUME Init PROVE HeapInv
  OBVIOUS
<1> USE HeapBaseAssumption
<1>1. /\ DOMAIN hdr = {root} /\ list = {root} /\ root \in Nat /\ root # NULL
      /\ hdr[root] = [used |-> 0, size |-> 0, prev |-> NULL, next |-> NULL]
      /\ req = NoReq /\ DOMAIN live = {} /\ ret = NULL /\ dirty = {} /\ stray = {}
  BY DEF Init, root, NULL
<1>2. /\ hdr[root].used = 0 /\ hdr[root].size = 0 /\ hdr[root].prev = NULL
      /\ hdr[root].next = NULL /\ hdr[root] \in Header
  BY <1>1 DEF Header, NULL
<1>3. TypeOK
  BY <1>1, <1>2 DEF TypeOK, NoReq, NULL
<1>4. Struct(hdr, list)
  BY <1>1, <1>2 DEF Struct, Headers, Forward, Backward
<1>5. /\ Coalesced /\ Held /\ StoresInHeaders /\ EmptyIsRoot /\ RequestOK
      /\ DirtyBelow
  BY <1>1, <1>2 DEF DirtyBelow, Coalesced, Held, StoresInHeaders, EmptyIsRoot, RequestOK, Idle
<1> QED BY <1>3, <1>4, <1>5 DEF HeapInv

(* Under the invariant no stray store has happened, so nothing is          *)
(* undefined.                                                              *)
LEMMA InvDefined == HeapInv => ~ Undefined
BY DEF HeapInv, StoresInHeaders, Undefined

LEMMA InvKmalloca ==
  ASSUME HeapInv, NEW n \in Nat, NEW ax \in Nat \ {0}, CarefulRequest(ax), kmalloca(n, ax)
  PROVE  HeapInv'
<1>1. UNCHANGED <<hdr, list, live, dirty, stray>> /\ n \in Nat /\ ax \in Nat \ {0}
  BY DEF kmalloca
<1>2. Struct(hdr, list)' /\ Coalesced' /\ Held' /\ StoresInHeaders' /\ EmptyIsRoot'
      /\ DirtyBelow'
  BY <1>1 DEF DirtyBelow, HeapInv, Struct, Headers, Forward, Backward, End, Coalesced, Held,
              StoresInHeaders, EmptyIsRoot
<1>3. CASE n = 0 /\ ret' = NULL /\ UNCHANGED req
  <2>1. TypeOK'
    BY <1>1, <1>3 DEF HeapInv, TypeOK, NULL
  <2>2. RequestOK'
    BY <1>1, <1>3 DEF HeapInv, RequestOK, Idle, CarefulRequest, End, Data
  <2> QED BY <1>2, <2>1, <2>2 DEF HeapInv
<1>4. CASE /\ n # 0 /\ UNCHANGED ret
           /\ req' = [blk |-> NULL, size |-> RoundUp(n), ax |-> ax]
  <2>1. RoundUp(n) \in Nat \ {0}
    BY <1>1, <1>4 DEF RoundUp
  <2>2. /\ req' \in [blk : Nat, size : Nat, ax : Nat \ {0}]
        /\ req'.blk = NULL /\ req'.size # 0 /\ req'.ax = ax
    BY <1>1, <1>4, <2>1 DEF NULL
  <2>3. TypeOK'
    BY <1>1, <1>4, <2>2 DEF HeapInv, TypeOK
  <2>4. CarefulRequest(req.ax)'
    BY <1>1, <2>2 DEF CarefulRequest, End, Data
  <2>5. RequestOK'
    BY <2>2, <2>4 DEF RequestOK
  <2> QED BY <1>2, <2>3, <2>5 DEF HeapInv
<1> QED BY <1>3, <1>4 DEF kmalloca

(* What every Lookup action can rely on.                                   *)
LEMMA LookupFacts ==
  ASSUME HeapInv, ~ Idle
  PROVE  /\ Struct(hdr, list) /\ Coalesced /\ Held /\ EmptyIsRoot /\ TypeOK
         /\ req.size \in Nat \ {0} /\ req.ax \in Nat \ {0}
         /\ req.blk = NULL => Ptr = root
         /\ req.blk # NULL => req.blk \in list /\ Ptr = hdr[req.blk].next
         /\ Ptr # NULL => Ptr \in list
         /\ root \in list /\ root # NULL
         /\ \A a \in list : /\ a \in Nat /\ a # NULL /\ a \in DOMAIN hdr
                            /\ hdr[a] \in Header
                            /\ Data(a) - BLOCKSIZ = a /\ Data(a) \in Nat
                            /\ Data(a) # NULL
  BY DEF HeapInv, TypeOK, RequestOK, Ptr, Struct, Headers, Forward, Data,
         BLOCKSIZ, NULL

(* lookup() returns block b of the new list.                               *)
LEMMA InvReturn ==
  ASSUME HeapInv, ~ Idle, UNCHANGED stray,
         NEW b \in list', Return(b),
         Struct(hdr, list)', list \subseteq list',
         hdr'[b].used = 1, req.size <= hdr'[b].size,
         b \in list => hdr[b].used = 0,
         \A a \in list \ {b} : /\ hdr'[a].used = hdr[a].used
                               /\ hdr[a].size <= hdr'[a].size,
         \A a \in list' \ (list \cup {b}) : hdr'[a].used = 0,
         Coalesced', EmptyIsRoot', Covers
  PROVE  HeapInv'
<1>1. /\ req' = NoReq /\ ret' = Data(b) /\ dirty' = dirty
      /\ DOMAIN live' = DOMAIN live \cup {Data(b)}
      /\ live'[Data(b)] = req.size
      /\ \A p \in DOMAIN live : p # Data(b) => live'[p] = live[p]
  BY DEF Return
<1>2. /\ b \in Nat /\ Data(b) \in Nat /\ Data(b) - BLOCKSIZ = b
      /\ \A a \in list' : a \in Nat /\ hdr'[a] \in Header
      /\ \A a \in list : a \in Nat /\ hdr[a] \in Header
      /\ req.size \in Nat \ {0}
  BY LookupFacts DEF Struct, Headers, Data, BLOCKSIZ
<1>3. TypeOK'
  <2>1. /\ DOMAIN live' \subseteq Nat
        /\ \A p \in DOMAIN live' : live'[p] \in Nat \ {0}
    BY <1>1, <1>2 DEF HeapInv, TypeOK
  <2>2. NoReq \in [blk : Nat, size : Nat, ax : Nat \ {0}] /\ NoReq.blk = NULL
    BY DEF NoReq, NULL
  <2> QED BY <1>1, <1>2, <2>1, <2>2 DEF HeapInv, TypeOK, Struct, Headers
<1>4. Held'
  <2>1. ASSUME NEW p \in DOMAIN live'
        PROVE  /\ p - BLOCKSIZ \in list'
               /\ hdr'[p - BLOCKSIZ].used = 1
               /\ live'[p] <= hdr'[p - BLOCKSIZ].size
    <3>1. CASE p = Data(b)
      BY <3>1, <1>1, <1>2
    <3>2. CASE p # Data(b)
      <4>1. /\ p \in DOMAIN live /\ live'[p] = live[p] /\ live[p] \in Nat
            /\ p \in Nat
            /\ p - BLOCKSIZ \in list /\ hdr[p - BLOCKSIZ].used = 1
            /\ live[p] <= hdr[p - BLOCKSIZ].size
        BY <3>2, <1>1 DEF HeapInv, Held, TypeOK
      <4>2. p - BLOCKSIZ # b
        BY <3>2, <4>1, <1>2 DEF Data, BLOCKSIZ
      <4> DEFINE a == p - BLOCKSIZ
      <4>3. /\ a \in list \ {b} /\ a \in list'
            /\ hdr[a].size \in Nat /\ hdr'[a].size \in Nat
            /\ hdr[a].used = 1 /\ live[p] <= hdr[a].size
        BY <4>1, <4>2, <1>2 DEF Header
      <4> HIDE DEF a
      <4>4. hdr'[a].used = 1 /\ live[p] <= hdr'[a].size
        BY <4>1, <4>3
      <4> QED BY <4>1, <4>3, <4>4 DEF a
    <3> QED BY <3>1, <3>2
  <2>2. ASSUME NEW a \in list', hdr'[a].used = 1
        PROVE  Data(a) \in DOMAIN live'
    <3>1. CASE a = b
      BY <3>1, <1>1
    <3>2. CASE a # b
      BY <2>2, <3>2, <1>1 DEF HeapInv, Held
    <3> QED BY <3>1, <3>2
  <2> QED BY <2>1, <2>2 DEF Held
<1>5. StoresInHeaders' /\ RequestOK'
  BY <1>1 DEF HeapInv, StoresInHeaders, RequestOK, Idle
<1>6. DirtyBelow'
  BY <1>1, DirtyStaysBelow
<1> QED BY <1>3, <1>4, <1>5, <1>6 DEF HeapInv

(* A new block lies at or above the end of the last one.                   *)
LEMMA PlaceAbove ==
  ASSUME HeapInv, ~ Idle, NEW b \in list, hdr[b].next = NULL
  PROVE  /\ Place(End(hdr, b), req.ax) \in Nat
         /\ End(hdr, b) <= Place(End(hdr, b), req.ax)
<1> DEFINE end == End(hdr, b)
           ax  == req.ax
<1>1. end \in Nat /\ ax \in Nat \ {0} /\ Data(end) \in Nat
  BY LookupFacts DEF End, Data, BLOCKSIZ, Header
<1>2. Data(end) % ax = 0 \/ end % ax <= ax - BLOCKSIZ
  <2>1. CASE ax = 1
    BY <1>1, <2>1
  <2>2. CASE ax # 1
    BY <2>2 DEF HeapInv, RequestOK, CarefulRequest
  <2> QED BY <2>1, <2>2
<1> HIDE DEF end, ax
<1>3. end % ax \in Nat
  BY <1>1
<1>4. Place(end, ax) \in Nat /\ end <= Place(end, ax)
  BY <1>1, <1>2, <1>3 DEF Place, BLOCKSIZ
<1> QED BY <1>4 DEF end, ax

(* What lookup() does when it has passed the last block: the next one is   *)
(* its own memory, reads as unused and is returned.                        *)
CreatedAt(b, at) ==
  /\ ~ Idle /\ b = req.blk /\ b \in list /\ b # NULL /\ hdr[b].next = NULL
  /\ at = Place(End(hdr, b), req.ax) /\ at \in Nat /\ End(hdr, b) <= at /\ at \notin list
  /\ Struct(hdr', list') /\ list' = list \cup {at}
  /\ hdr'[at].used = 1 /\ hdr'[at].size = req.size /\ hdr'[at].next = NULL
  /\ hdr'[b].used = hdr[b].used /\ hdr'[b].next = at
  /\ hdr'[b].size = at - Data(b) /\ hdr[b].size <= hdr'[b].size
  /\ \A a \in list \ {b} : hdr'[a] = hdr[a]
  /\ Return(at) /\ UNCHANGED stray

LEMMA Created ==
  ASSUME HeapInv, LookupCreate
  PROVE  \E b, at : CreatedAt(b, at)
<1> DEFINE b == req.blk
           at == Place(End(hdr, b), req.ax)
<1>1. ~ Idle /\ Ptr = NULL
  BY DEF LookupCreate
<1>2. b \in list /\ b # NULL /\ hdr[b].next = NULL
  BY <1>1, LookupFacts
<1>3. at \in Nat /\ End(hdr, b) <= at
  BY <1>1, <1>2, PlaceAbove
<1>4. hdr' = Extend(hdr, b, at, req.size) /\ list' = list \cup {at}
  BY DEF LookupCreate
<1>5. /\ Struct(hdr, list) /\ Coalesced /\ Held /\ EmptyIsRoot
      /\ req.size \in Nat \ {0} /\ req.size \in Nat
      /\ \A a \in list : a \in Nat /\ hdr[a] \in Header
  BY <1>1, LookupFacts
<1> HIDE DEF b, at
<1>6. /\ Struct(hdr', list')
      /\ at \notin list
      /\ hdr'[at].used = 1 /\ hdr'[at].size = req.size /\ hdr'[at].next = NULL
      /\ hdr'[b].used = hdr[b].used /\ hdr'[b].next = at
      /\ hdr[b].size <= hdr'[b].size
      /\ \A a \in list \ {b} : hdr'[a] = hdr[a]
  BY <1>2, <1>3, <1>4, <1>5, StructExtend
<1>7. \A p \in DOMAIN live : p \in Nat /\ live[p] \in Nat /\ p + live[p] <= End(hdr, b)
  <2> SUFFICES ASSUME NEW p \in DOMAIN live
               PROVE  p \in Nat /\ live[p] \in Nat /\ p + live[p] <= End(hdr, b)
    OBVIOUS
  <2> DEFINE a == p - BLOCKSIZ
  <2>1. /\ a \in list /\ live[p] <= hdr[a].size /\ live[p] \in Nat /\ p \in Nat
        /\ p = a + 16
    BY <1>5 DEF Held, HeapInv, TypeOK, BLOCKSIZ
  <2> HIDE DEF a
  <2>2. a \in Nat /\ hdr[a].size \in Nat /\ b \in Nat /\ hdr[b].size \in Nat
    BY <2>1, <1>2, <1>5 DEF Header
  <2>3. a <= b
    BY <2>1, <1>2, <1>5 DEF Struct, Forward
  <2>4. a < b => End(hdr, a) <= b
    BY <2>1, <1>2, <1>5 DEF Struct, Forward
  <2> QED BY <2>1, <2>2, <2>3, <2>4 DEF End, Data, BLOCKSIZ
<1>8. ~ Owned(at, Data(at))
  BY <1>2, <1>3, <1>5, <1>7 DEF Owned, Data, End, BLOCKSIZ, Header
<1>9. UNCHANGED stray
  BY <1>8 DEF LookupCreate, at, b
<1>10. ~ (Owned(at, at + 4) \/ at \in dirty)
  <2>1. ~ Owned(at, at + 4)
    BY <1>2, <1>3, <1>5, <1>7 DEF Owned, Data, End, BLOCKSIZ, Header
  <2>2. ASSUME at \in dirty PROVE FALSE
    <3>1. PICK c \in list : at < End(hdr, c)
      BY <2>2 DEF HeapInv, DirtyBelow
    <3>2. /\ c <= b /\ c \in Nat /\ b \in Nat
          /\ End(hdr, c) \in Nat /\ End(hdr, b) \in Nat /\ b < End(hdr, b)
      BY <1>2, <1>5 DEF Struct, Forward, Header, End, Data, BLOCKSIZ
    <3>3. c < b => End(hdr, c) <= b
      BY <1>2, <1>5 DEF Struct, Forward
    <3> QED BY <3>1, <3>2, <3>3, <1>3
  <2> QED BY <2>1, <2>2
<1>11. Return(at)
  BY <1>10 DEF LookupCreate, at, b
<1>12. hdr'[b].size = at - Data(b)
  <2>1. b \in DOMAIN hdr \cup {at} /\ b # at
    BY <1>2, <1>5, <1>6 DEF Struct, Headers
  <2> QED BY <1>4, <2>1 DEF Extend
<1>13. CreatedAt(b, at)
  BY <1>1, <1>2, <1>3, <1>4, <1>6, <1>9, <1>11, <1>12 DEF CreatedAt, b, at
<1> QED BY <1>13

LEMMA InvLookupCreate ==
  ASSUME HeapInv, LookupCreate
  PROVE  HeapInv'
<1>0. PICK b, at : CreatedAt(b, at)
  BY Created
<1>1. /\ ~ Idle /\ b \in list /\ b # NULL /\ hdr[b].next = NULL
      /\ at \in Nat /\ End(hdr, b) <= at /\ at \notin list
      /\ Struct(hdr', list') /\ list' = list \cup {at}
      /\ hdr'[at].used = 1 /\ hdr'[at].size = req.size /\ hdr'[at].next = NULL
      /\ hdr'[b].used = hdr[b].used /\ hdr'[b].next = at
      /\ hdr[b].size <= hdr'[b].size
      /\ \A a \in list \ {b} : hdr'[a] = hdr[a]
      /\ Return(at) /\ UNCHANGED stray
  BY <1>0 DEF CreatedAt
<1>2. /\ Struct(hdr, list) /\ Coalesced /\ EmptyIsRoot /\ req.size \in Nat \ {0}
      /\ \A a \in list : a \in Nat /\ hdr[a] \in Header
  BY <1>1, LookupFacts
<1>3. \A a \in list : hdr[a].size # 0
  BY <1>0, <1>1, <1>2 DEF HeapInv, RequestOK, EmptyIsRoot, CreatedAt
<1>4. Coalesced'
  BY <1>1, <1>2 DEF Coalesced, Struct, Forward
<1>5. EmptyIsRoot'
  <2> SUFFICES ASSUME NEW a \in list' PROVE hdr'[a].size # 0
    BY DEF EmptyIsRoot
  <2>1. CASE a = at
    BY <2>1, <1>1, <1>2
  <2>2. CASE a = b
    BY <2>2, <1>1, <1>2, <1>3 DEF Struct, Headers, Header
  <2>3. CASE a \in list \ {b}
    BY <2>3, <1>1, <1>3
  <2> QED BY <2>1, <2>2, <2>3, <1>1
<1>6. Covers
  <2> SUFFICES ASSUME NEW a \in list PROVE End(hdr, a) <= End(hdr', a)
    BY <1>1 DEF Covers
  <2>1. CASE a = b
    BY <2>1, <1>1, <1>2 DEF Struct, Headers, Header, End, Data, BLOCKSIZ
  <2>2. CASE a # b
    BY <2>2, <1>1, <1>2 DEF Header, End, Data, BLOCKSIZ
  <2> QED BY <2>1, <2>2
<1>7. \A a \in list \ {at} : /\ hdr'[a].used = hdr[a].used
                             /\ hdr[a].size <= hdr'[a].size
  BY <1>1, <1>2 DEF Header
<1>8. /\ at \in list' /\ list \subseteq list'
      /\ at \in list => hdr[at].used = 0
      /\ \A a \in list' \ (list \cup {at}) : hdr'[a].used = 0
      /\ req.size <= hdr'[at].size
  BY <1>1, <1>2
<1> QED BY <1>1, <1>4, <1>5, <1>6, <1>7, <1>8, InvReturn

LEMMA InvLookupTake ==
  ASSUME HeapInv, LookupTake
  PROVE  HeapInv'
<1> DEFINE b == Ptr
<1>1. ~ Idle /\ b # NULL /\ UNCHANGED stray /\ Return(b)
  BY DEF LookupTake
<1>2. b \in list /\ hdr[b].used = 0 /\ req.size <= hdr[b].size
  <2>1. b \in list
    BY <1>1, LookupFacts
  <2>2. hdr[b].size >= req.size /\ hdr[b].used = 0
    BY DEF LookupTake, Fits
  <2>3. hdr[b].size \in Nat /\ req.size \in Nat
    BY <1>1, <2>1, LookupFacts DEF Header
  <2> QED BY <2>1, <2>2, <2>3
<1>3. hdr' = HandOut(hdr, b, req.size) /\ list' = (list \cup {hdr'[b].next}) \ {NULL}
  BY DEF LookupTake
<1>4. /\ Struct(hdr, list) /\ Coalesced /\ EmptyIsRoot
      /\ req.size \in Nat \ {0}
      /\ \A a \in list : a \in Nat /\ hdr[a] \in Header
  BY <1>1, LookupFacts
<1> HIDE DEF b
<1>5. /\ Struct(hdr', list')
      /\ list \subseteq list'
      /\ hdr'[b].used = 1 /\ req.size <= hdr'[b].size
      /\ \A a \in list \ {b} : /\ hdr'[a].used = hdr[a].used
                               /\ hdr'[a].size = hdr[a].size
                               /\ hdr'[a].next = hdr[a].next
      /\ \A a \in list' \ list : /\ hdr'[a].used = 0 /\ hdr'[a].size # 0
                                 /\ hdr'[a].next = hdr[b].next
      /\ hdr[b].next = NULL => hdr'[b].next = NULL /\ hdr'[b].size = hdr[b].size
  <2>1. HandedOut(hdr, list, b, req.size, hdr', list')
    BY <1>2, <1>3, <1>4, StructHandOut
  <2> QED BY <2>1 DEF HandedOut
<1>6. \A a \in list' : a \in Nat /\ hdr'[a] \in Header
  BY <1>5 DEF Struct, Headers
<1>7. Coalesced'
  <2> SUFFICES ASSUME NEW a \in list', hdr'[a].next # NULL,
                      hdr'[a].used = 0, hdr'[hdr'[a].next].used = 0
               PROVE  FALSE
    BY DEF Coalesced
  <2>1. a # b
    BY <1>5
  <2>2. CASE a \in list
    <3>1. hdr[a].next = hdr'[a].next /\ hdr[a].used = 0 /\ hdr[a].next \in list
      BY <2>1, <2>2, <1>4, <1>5 DEF Struct, Forward
    <3>2. hdr[hdr[a].next].used = 0
      BY <3>1, <1>2, <1>5
    <3> QED BY <2>2, <3>1, <3>2, <1>4 DEF Coalesced
  <2>3. CASE a \notin list
    <3>1. hdr'[a].next = hdr[b].next /\ hdr[b].next \in list /\ hdr[b].next # NULL
      BY <2>3, <1>2, <1>4, <1>5 DEF Struct, Forward
    <3>2. hdr[b].next # b
      BY <3>1, <1>2, <1>4 DEF Struct, Forward, Header, End, Data, BLOCKSIZ
    <3>3. hdr[hdr[b].next].used = 0
      BY <3>1, <3>2, <1>5
    <3> QED BY <3>1, <3>3, <1>2, <1>4 DEF Coalesced
  <2> QED BY <2>2, <2>3
<1>8. \A a \in list : hdr[a].size # 0
  BY <1>2, <1>4 DEF EmptyIsRoot, Header
<1>9. EmptyIsRoot'
  BY <1>4, <1>5, <1>6, <1>8 DEF EmptyIsRoot, Header
<1>10. Covers
  <2> SUFFICES ASSUME NEW a \in list
               PROVE  \E c \in list' : End(hdr, a) <= End(hdr', c)
    BY DEF Covers
  <2>1. CASE a # b
    BY <2>1, <1>4, <1>5, <1>6 DEF End, Header, Data, BLOCKSIZ
  <2>2. CASE a = b /\ hdr[b].next = NULL
    BY <2>2, <1>2, <1>4, <1>5 DEF End, Header, Data, BLOCKSIZ
  <2>3. CASE a = b /\ hdr[b].next # NULL
    <3> DEFINE c == hdr[b].next
    <3>1. c \in list /\ c = End(hdr, b) /\ c # b
      BY <2>3, <1>2, <1>4 DEF Struct, Forward, Header, End, Data, BLOCKSIZ
    <3>2. c \in list' /\ c \in Nat /\ hdr'[c].size \in Nat
      BY <3>1, <1>5, <1>6 DEF Header
    <3>3. End(hdr, a) <= End(hdr', c)
      BY <2>3, <3>1, <3>2 DEF End, Data, BLOCKSIZ
    <3> QED BY <3>2, <3>3
  <2> QED BY <2>1, <2>2, <2>3
<1>11. \A a \in list \ {b} : /\ hdr'[a].used = hdr[a].used
                             /\ hdr[a].size <= hdr'[a].size
  BY <1>4, <1>5 DEF Header
<1> QED
  BY <1>1, <1>2, <1>5, <1>7, <1>9, <1>10, <1>11, InvReturn

LEMMA InvLookupTakeEmpty ==
  ASSUME HeapInv, LookupTakeEmpty
  PROVE  HeapInv'
<1>1. ~ Idle /\ Ptr # NULL /\ Return(Ptr) /\ list' = list
  BY DEF LookupTakeEmpty
<1>2. /\ Ptr \in list /\ hdr[Ptr].size = 0
      /\ Struct(hdr, list) /\ EmptyIsRoot
      /\ req.size \in Nat \ {0}
  BY <1>1, LookupFacts DEF LookupTakeEmpty
<1>3. Ptr = root /\ list = {root} /\ hdr[root].used = 0 /\ hdr[root].size = 0
  BY <1>2 DEF EmptyIsRoot
<1>4. hdr[root].next = NULL /\ root \in Nat /\ root # NULL /\ root \in DOMAIN hdr
      /\ hdr[root].prev = NULL /\ hdr[root] \in Header
  BY <1>2, <1>3 DEF Struct, Headers, Forward, Backward, Header, End, Data, BLOCKSIZ
<1>5. UNCHANGED stray
  BY <1>3, <1>4 DEF LookupTakeEmpty
<1>6. hdr' = [hdr EXCEPT ![root] = [used |-> 1, size |-> req.size,
                                    prev |-> NULL, next |-> NULL]]
  BY <1>3, <1>4 DEF LookupTakeEmpty
<1>7. /\ DOMAIN hdr' = DOMAIN hdr
      /\ hdr'[root] = [used |-> 1, size |-> req.size, prev |-> NULL, next |-> NULL]
      /\ \A a \in DOMAIN hdr \ {root} : hdr'[a] = hdr[a]
  BY <1>4, <1>6
<1>8. /\ hdr'[root].used = 1 /\ hdr'[root].size = req.size
      /\ hdr'[root].prev = NULL /\ hdr'[root].next = NULL
      /\ hdr'[root] \in Header
  BY <1>2, <1>7 DEF Header, NULL
<1>9. Struct(hdr', list')
  BY <1>1, <1>2, <1>3, <1>4, <1>7, <1>8 DEF Struct, Headers, Forward, Backward
<1>10. Coalesced' /\ EmptyIsRoot'
  BY <1>1, <1>2, <1>3, <1>8 DEF Coalesced, EmptyIsRoot
<1>11. Covers
  BY <1>1, <1>2, <1>3, <1>4, <1>8 DEF Covers, End, Data, BLOCKSIZ, Header
<1>12. /\ Ptr \in list' /\ list \subseteq list'
       /\ hdr'[Ptr].used = 1 /\ req.size <= hdr'[Ptr].size
       /\ Ptr \in list => hdr[Ptr].used = 0
       /\ \A a \in list \ {Ptr} : /\ hdr'[a].used = hdr[a].used
                                  /\ hdr[a].size <= hdr'[a].size
       /\ \A a \in list' \ (list \cup {Ptr}) : hdr'[a].used = 0
  BY <1>1, <1>2, <1>3, <1>8
<1> QED
  BY <1>1, <1>5, <1>9, <1>10, <1>11, <1>12, InvReturn

LEMMA InvLookupSkip ==
  ASSUME HeapInv, LookupSkip
  PROVE  HeapInv'
<1>1. /\ ~ Idle /\ Ptr # NULL /\ req' = [req EXCEPT !.blk = Ptr]
      /\ UNCHANGED <<hdr, list, live, ret, dirty, stray>>
      /\ ~ (hdr[Ptr].size = 0 /\ req.ax = 1)
  BY DEF LookupSkip
<1>2. /\ Ptr \in list /\ Ptr \in Nat /\ EmptyIsRoot /\ root \in list
      /\ req \in [blk : Nat, size : Nat, ax : Nat \ {0}]
  BY <1>1, LookupFacts DEF TypeOK
<1>3. /\ req'.blk = Ptr /\ req'.size = req.size /\ req'.ax = req.ax
      /\ req' \in [blk : Nat, size : Nat, ax : Nat \ {0}]
  BY <1>1, <1>2
<1>4. TypeOK'
  BY <1>1, <1>2, <1>3 DEF HeapInv, TypeOK
<1>5. /\ Struct(hdr, list)' /\ Coalesced' /\ Held' /\ StoresInHeaders'
      /\ EmptyIsRoot' /\ DirtyBelow'
  BY <1>1 DEF HeapInv, Struct, Headers, Forward, Backward, End, Coalesced, Held,
              StoresInHeaders, EmptyIsRoot, DirtyBelow
<1>6. hdr[root].size # 0
  BY <1>1, <1>2 DEF HeapInv, RequestOK, CarefulRequest, EmptyIsRoot
<1>7. RequestOK'
  BY <1>1, <1>3, <1>6
     DEF HeapInv, RequestOK, Idle, CarefulRequest, End, Data
<1> QED BY <1>4, <1>5, <1>7 DEF HeapInv

(* What kfree() leaves of the list, whichever neighbour it merges with.    *)
FreedBlock(b) ==
  /\ Struct(hdr', list')
  /\ list' \subseteq list
  /\ b \in list' => hdr'[b].used = 0
  /\ \A a \in list' \ {b} : hdr'[a].used = hdr[a].used
  /\ \A a \in list' : hdr[a].size <= hdr'[a].size
  /\ \A a \in list \ list' : a = b \/ hdr[a].used = 0
  /\ Coalesced'
  /\ Covers
  /\ stray' \subseteq stray \cup {"null"}

(* The sizes and links it leaves: b joins its left neighbour, or stays     *)
(* where it is.                                                            *)
FreedSizes(b) ==
  LET pr == hdr[b].prev
      nb == hdr[b].next
  IN  /\ pr # NULL /\ hdr[pr].used = 0 =>
           /\ pr \in list /\ list' = list \ {b}
           /\ hdr'[pr].size = hdr[pr].size + BLOCKSIZ + hdr[b].size /\ hdr'[pr].next = nb
           /\ \A a \in list \ {b, pr} : hdr'[a].size = hdr[a].size /\ hdr'[a].next = hdr[a].next
      /\ (pr # NULL => hdr[pr].used # 0) /\ (nb # NULL => hdr[nb].used # 0) =>
           /\ list' = list
           /\ \A a \in list : hdr'[a].size = hdr[a].size /\ hdr'[a].next = hdr[a].next

(* The three ways through a careful kfree().                               *)
LEMMA FreeKeepsList ==
  ASSUME HeapInv, NEW p \in DOMAIN live, kfree(p),
         NEW b, b = p - BLOCKSIZ, CarefulFree(b)
  PROVE  FreedBlock(b) /\ FreedSizes(b)
<1> DEFINE h0 == [hdr EXCEPT ![b].used = 0]
           pr == hdr[b].prev
           nb == hdr[b].next
<1>1. /\ Struct(hdr, list) /\ Coalesced /\ b \in list /\ hdr[b].used = 1
      /\ CarefulFree(b)
  BY DEF HeapInv, Held
<1>2. /\ b \in DOMAIN hdr /\ b \in Nat /\ b # NULL
      /\ \A a \in list : /\ a \in Nat /\ a # NULL /\ a \in DOMAIN hdr
                         /\ hdr[a] \in Header /\ End(hdr, a) \in Nat
                         /\ a < End(hdr, a)
  BY <1>1 DEF Struct, Headers, Header, End, Data, BLOCKSIZ
<1>3. /\ DOMAIN h0 = DOMAIN hdr /\ h0[b].used = 0
      /\ \A a \in DOMAIN hdr : /\ h0[a].size = hdr[a].size
                               /\ h0[a].prev = hdr[a].prev
                               /\ h0[a].next = hdr[a].next
      /\ \A a \in DOMAIN hdr \ {b} : h0[a].used = hdr[a].used
  BY <1>1, <1>2 DEF Header, Struct, Headers
<1>4. Struct(h0, list)
  BY <1>1, StructMark
<1>5. pr # NULL => /\ pr \in list /\ pr \in DOMAIN hdr /\ hdr[pr].next = b
                   /\ pr # b
  BY <1>1, <1>2 DEF Struct, Backward, Forward
<1>6. nb # NULL => /\ nb \in list /\ nb \in DOMAIN hdr /\ nb # b
                   /\ hdr[nb].prev = b
                   /\ hdr[nb].next \in DOMAIN hdr \cup {NULL}
  BY <1>1, <1>2 DEF Struct, Headers, Backward, Forward
<1>7. PICK mp \in BOOLEAN :
        /\ pr = NULL => ~ mp
        /\ pr \in DOMAIN hdr => (mp <=> hdr[pr].used = 0)
        /\ Free(p, mp)
  BY DEF kfree
<1>8. h0[b].prev = pr /\ h0[b].next = nb
  BY <1>2, <1>3
<1> HIDE DEF h0
<1>9. CASE mp
  <2>1. /\ pr # NULL /\ pr \in list /\ hdr[pr].used = 0
        /\ hdr[pr].next = b /\ pr # b /\ pr \in DOMAIN hdr
    BY <1>5, <1>7, <1>9
  <2>2. Merges(h0, pr) /\ h0[pr].next = b
    BY <2>1, <1>2, <1>3 DEF Merges
  <2> DEFINE h1 == merge(h0, pr)
  <2>3. /\ Struct(h1, list \ {b})
        /\ DOMAIN h1 = DOMAIN hdr
        /\ h1[pr].next = nb
        /\ h1[pr].size = hdr[pr].size + BLOCKSIZ + hdr[b].size
        /\ \A a \in DOMAIN hdr : h1[a].used = h0[a].used
        /\ \A a \in DOMAIN hdr \ {pr} : /\ h1[a].size = hdr[a].size
                                        /\ h1[a].next = hdr[a].next
    <3>1. /\ Struct(h1, list \ {b})
          /\ DOMAIN h1 = DOMAIN h0
          /\ h1[pr].next = h0[b].next
          /\ h1[pr].size = h0[pr].size + BLOCKSIZ + h0[b].size
          /\ \A a \in DOMAIN h0 : h1[a].used = h0[a].used
          /\ \A a \in DOMAIN h0 \ {pr} : /\ h1[a].size = h0[a].size
                                        /\ h1[a].next = h0[a].next
      <4>1. h1 = merge(h0, pr) /\ b = h0[pr].next /\ pr \in list
        BY <2>1, <2>2
      <4> HIDE DEF h1
      <4> QED BY <1>4, <2>2, <4>1, StructMerge
    <3> HIDE DEF h1
    <3> QED BY <3>1, <1>2, <1>3, <1>8, <2>1
  <2> HIDE DEF h1
  <2>4. nb # NULL => hdr[nb].used # 0
    BY <1>1, <2>1 DEF CarefulFree
  <2>5. ~ Merges(h1, b) /\ h1[b].next = nb
    BY <1>2, <1>3, <1>6, <2>1, <2>3, <2>4 DEF Merges
  <2>6. merge(h1, b) = h1
    BY <2>5 DEF merge
  <2>7. MergeReads(h0, pr) /\ MergeReads(h1, b)
    BY <1>2, <1>3, <1>6, <1>8, <2>1, <2>2, <2>3, <2>4 DEF MergeReads
  <2>8. Swallowed(h0, pr, list) = {b}
    BY <2>1, <2>2 DEF Swallowed
  <2>9. b \notin list \ {b}
    OBVIOUS
  <2>10. Swallowed(h1, b, list \ {b}) = {}
    BY DEF Swallowed
  <2>11. hdr' = h1 /\ list' = list \ {b} /\ stray' \subseteq stray \cup {"null"}
    <3>1. /\ hdr' = merge(h1, b)
          /\ list' = (list \ Swallowed(h0, pr, list))
                       \ Swallowed(h1, b, list \ Swallowed(h0, pr, list))
          /\ stray' = stray \/ stray' = stray \cup {"null"}
      BY <1>7, <1>8, <1>9, <2>7 DEF Free, h0, h1
    <3> QED BY <3>1, <2>6, <2>8, <2>10
  <2>12. Coalesced'
    <3> SUFFICES ASSUME NEW a \in list \ {b}, h1[a].next # NULL,
                        h1[a].used = 0, h1[h1[a].next].used = 0
                 PROVE  FALSE
      BY <2>11 DEF Coalesced
    <3>1. CASE a = pr
      BY <3>1, <1>3, <1>6, <2>3, <2>4
    <3>2. CASE a # pr
      <4>1. /\ h1[a].next = hdr[a].next /\ hdr[a].used = 0
            /\ hdr[a].next \in list
        BY <3>2, <1>1, <1>2, <1>3, <2>3 DEF Struct, Forward
      <4>2. hdr[a].next # b
        BY <3>2, <1>1, <1>2, <4>1, <2>1 DEF Struct, Backward
      <4>3. hdr[hdr[a].next].used = 0
        BY <4>1, <4>2, <1>2, <1>3, <2>3
      <4> QED BY <4>1, <4>3, <1>1, <1>2 DEF Coalesced
    <3> QED BY <3>1, <3>2
  <2>13. Covers
    <3>1. End(h1, pr) = End(hdr, b)
      <4>1. End(hdr, pr) = b
        BY <1>1, <1>2, <2>1 DEF Struct, Forward
      <4> QED BY <4>1, <1>1, <1>2, <2>1, <2>3 DEF End, Data, BLOCKSIZ, Header
    <3>2. \A a \in list \ {b, pr} : End(h1, a) = End(hdr, a)
      BY <1>2, <2>3 DEF End
    <3>3. End(hdr, pr) <= End(hdr, b)
      <4>1. End(hdr, pr) = b
        BY <1>1, <1>2, <2>1 DEF Struct, Forward
      <4> QED BY <4>1, <1>1, <1>2
    <3> QED BY <3>1, <3>2, <3>3, <1>1, <1>2, <2>1, <2>11 DEF Covers
  <2>14. \A a \in list' : hdr[a].size <= hdr'[a].size
    BY <1>1, <1>2, <2>1, <2>3, <2>11 DEF Header, BLOCKSIZ
  <2>15. \A a \in list' \ {b} : hdr'[a].used = hdr[a].used
    BY <1>2, <1>3, <2>3, <2>11
  <2>16. FreedSizes(b)
    <3>1. \A a \in list \ {b, pr} : hdr'[a].size = hdr[a].size /\ hdr'[a].next = hdr[a].next
      BY <1>2, <2>3, <2>11
    <3> QED BY <2>1, <2>3, <2>11, <3>1 DEF FreedSizes
  <2> QED BY <2>3, <2>11, <2>12, <2>13, <2>14, <2>15, <2>16 DEF FreedBlock
<1>10. CASE ~ mp /\ Merges(h0, b)
  <2>1. /\ nb # NULL /\ nb \in list /\ nb \in DOMAIN hdr /\ nb # b
        /\ hdr[nb].used = 0 /\ h0[nb].next = hdr[nb].next
    BY <1>3, <1>6, <1>8, <1>10 DEF Merges
  <2> DEFINE h1 == merge(h0, b)
             nn == hdr[nb].next
  <2>2. /\ Struct(h1, list \ {nb})
        /\ DOMAIN h1 = DOMAIN hdr
        /\ h1[b].next = nn
        /\ h1[b].size = hdr[b].size + BLOCKSIZ + hdr[nb].size
        /\ \A a \in DOMAIN hdr : h1[a].used = h0[a].used
        /\ \A a \in DOMAIN hdr \ {b} : /\ h1[a].size = hdr[a].size
                                       /\ h1[a].next = hdr[a].next
    <3>1. /\ Struct(h1, list \ {nb})
          /\ DOMAIN h1 = DOMAIN h0
          /\ h1[b].next = h0[nb].next
          /\ h1[b].size = h0[b].size + BLOCKSIZ + h0[nb].size
          /\ \A a \in DOMAIN h0 : h1[a].used = h0[a].used
          /\ \A a \in DOMAIN h0 \ {b} : /\ h1[a].size = h0[a].size
                                        /\ h1[a].next = h0[a].next
      BY <1>1, <1>4, <1>8, <1>10, StructMerge
    <3> HIDE DEF h1
    <3> QED BY <3>1, <1>2, <1>3, <1>8, <2>1
  <2> HIDE DEF h1
  <2>3. MergeReads(h0, b)
    BY <1>2, <1>3, <1>6, <1>8, <2>1 DEF MergeReads
  <2>4. Swallowed(h0, b, list) = {nb}
    BY <1>1, <1>8, <1>10 DEF Swallowed
  <2>5. hdr' = h1 /\ list' = list \ {nb} /\ stray' \subseteq stray \cup {"null"}
    <3>1. /\ hdr' = h1
          /\ list' = list \ Swallowed(h0, b, list)
          /\ stray' = stray \/ stray' = stray \cup {"null"}
      BY <1>7, <1>10, <2>3 DEF Free, h0, h1
    <3> QED BY <3>1, <2>4
  <2>6. Coalesced'
    <3> SUFFICES ASSUME NEW a \in list \ {nb}, h1[a].next # NULL,
                        h1[a].used = 0, h1[h1[a].next].used = 0
                 PROVE  FALSE
      BY <2>5 DEF Coalesced
    <3>1. CASE a = b
      <4>1. nn # NULL /\ nn \in list /\ hdr[nn].used # 0 /\ nn # b
        BY <3>1, <1>1, <1>2, <2>1, <2>2 DEF Coalesced, Struct, Forward, Backward
      <4> QED BY <4>1, <3>1, <1>2, <1>3, <2>2
    <3>2. CASE a # b
      <4>1. /\ h1[a].next = hdr[a].next /\ hdr[a].used = 0
            /\ hdr[a].next \in list
        BY <3>2, <1>1, <1>2, <1>3, <2>2 DEF Struct, Forward
      <4>2. hdr[a].next # b
        BY <4>1, <1>1, <1>2, <1>5, <1>7, <1>10 DEF Struct, Backward
      <4>3. hdr[hdr[a].next].used = 0
        BY <4>1, <4>2, <1>2, <1>3, <2>2
      <4> QED BY <4>1, <4>3, <1>1, <1>2 DEF Coalesced
    <3> QED BY <3>1, <3>2
  <2>7. Covers
    <3>1. End(h1, b) = End(hdr, nb)
      <4>1. End(hdr, b) = nb
        BY <1>1, <2>1 DEF Struct, Forward
      <4> QED BY <4>1, <1>1, <1>2, <2>1, <2>2 DEF End, Data, BLOCKSIZ, Header
    <3>2. \A a \in list \ {b, nb} : End(h1, a) = End(hdr, a)
      BY <1>2, <2>2 DEF End
    <3>3. End(hdr, b) <= End(hdr, nb)
      <4>1. End(hdr, b) = nb
        BY <1>1, <2>1 DEF Struct, Forward
      <4> QED BY <4>1, <1>1, <1>2, <2>1
    <3> QED BY <3>1, <3>2, <3>3, <1>1, <1>2, <2>1, <2>5 DEF Covers
  <2>8. \A a \in list' : hdr[a].size <= hdr'[a].size
    BY <1>1, <1>2, <2>1, <2>2, <2>5 DEF Header, BLOCKSIZ
  <2>9. \A a \in list' \ {b} : hdr'[a].used = hdr[a].used
    BY <1>2, <1>3, <2>2, <2>5
  <2>10. hdr'[b].used = 0
    BY <1>2, <1>3, <2>2, <2>5
  <2>11. FreedSizes(b)
    BY <1>5, <1>7, <1>10, <2>1 DEF FreedSizes
  <2> QED BY <2>1, <2>2, <2>5, <2>6, <2>7, <2>8, <2>9, <2>10, <2>11 DEF FreedBlock
<1>11. CASE ~ mp /\ ~ Merges(h0, b)
  <2>1. MergeReads(h0, b)
    BY <1>2, <1>3, <1>6, <1>8 DEF MergeReads
  <2>2. merge(h0, b) = h0 /\ Swallowed(h0, b, list) = {}
    BY <1>11 DEF merge, Swallowed
  <2>3. hdr' = h0 /\ list' = list /\ stray' \subseteq stray \cup {"null"}
    <3>1. /\ hdr' = merge(h0, b)
          /\ list' = list \ Swallowed(h0, b, list)
          /\ stray' = stray \/ stray' = stray \cup {"null"}
      BY <1>7, <1>11, <2>1 DEF Free, h0
    <3> QED BY <3>1, <2>2
  <2>4. Coalesced'
    <3> SUFFICES ASSUME NEW a \in list, h0[a].next # NULL,
                        h0[a].used = 0, h0[h0[a].next].used = 0
                 PROVE  FALSE
      BY <2>3 DEF Coalesced
    <3>1. CASE a = b
      BY <3>1, <1>8, <1>11 DEF Merges
    <3>2. CASE a # b
      <4>1. /\ h0[a].next = hdr[a].next /\ hdr[a].used = 0
            /\ hdr[a].next \in list
        BY <3>2, <1>1, <1>2, <1>3 DEF Struct, Forward
      <4>2. hdr[a].next # b
        BY <4>1, <1>1, <1>2, <1>5, <1>7, <1>11 DEF Struct, Backward
      <4>3. hdr[hdr[a].next].used = 0
        BY <4>1, <4>2, <1>2, <1>3
      <4> QED BY <4>1, <4>3, <1>1, <1>2 DEF Coalesced
    <3> QED BY <3>1, <3>2
  <2>5. Covers
    BY <1>2, <1>3, <2>3 DEF Covers, End, Header
  <2>6. \A a \in list' : hdr[a].size <= hdr'[a].size
    BY <1>2, <1>3, <2>3 DEF Header
  <2>7. \A a \in list' \ {b} : hdr'[a].used = hdr[a].used
    BY <1>2, <1>3, <2>3
  <2>8. FreedSizes(b)
    BY <1>2, <1>3, <1>5, <1>7, <1>11, <2>3 DEF FreedSizes
  <2> QED BY <1>3, <1>4, <2>3, <2>4, <2>5, <2>6, <2>7, <2>8 DEF FreedBlock
<1> QED BY <1>9, <1>10, <1>11

LEMMA InvKfree ==
  ASSUME HeapInv, NEW p \in DOMAIN live, kfree(p), CarefulFree(p - BLOCKSIZ)
  PROVE  HeapInv'
<1> DEFINE b == p - BLOCKSIZ
<1>1. FreedBlock(b)
  BY FreeKeepsList
<1>2. /\ Idle /\ UNCHANGED <<req, ret>>
      /\ live' = [q \in DOMAIN live \ {p} |-> live[q]]
      /\ dirty' = dirty \cup Units(p)
  BY DEF kfree
<1>3. /\ b \in list /\ hdr[b].used = 1 /\ live[p] <= hdr[b].size
      /\ p \in Nat /\ live[p] \in Nat \ {0} /\ p = b + BLOCKSIZ
      /\ b \in Nat /\ hdr[b] \in Header
  BY DEF HeapInv, TypeOK, Held, BLOCKSIZ, Struct, Headers
<1> HIDE DEF b
<1>4. /\ DOMAIN live' = DOMAIN live \ {p}
      /\ \A q \in DOMAIN live' : live'[q] = live[q]
  BY <1>2
<1>5. TypeOK'
  <2>1. /\ DOMAIN live' \subseteq Nat
        /\ \A q \in DOMAIN live' : live'[q] \in Nat \ {0}
    BY <1>4 DEF HeapInv, TypeOK
  <2>2. Units(p) \subseteq Nat
    BY <1>3 DEF Units
  <2>3. req' = NoReq /\ NoReq.blk = NULL
    BY <1>2 DEF Idle, NoReq
  <2> QED
    BY <1>1, <1>2, <2>1, <2>2, <2>3
       DEF FreedBlock, HeapInv, TypeOK, StoresInHeaders, Struct, Headers
<1>6. Held'
  <2>1. ASSUME NEW q \in DOMAIN live'
        PROVE  /\ q - BLOCKSIZ \in list'
               /\ hdr'[q - BLOCKSIZ].used = 1
               /\ live'[q] <= hdr'[q - BLOCKSIZ].size
    <3> DEFINE a == q - BLOCKSIZ
    <3>1. /\ a \in list /\ hdr[a].used = 1 /\ live[q] <= hdr[a].size
          /\ q \in Nat /\ live[q] \in Nat /\ a # b /\ live'[q] = live[q]
          /\ hdr[a].size \in Nat
      BY <1>3, <1>4 DEF HeapInv, TypeOK, Held, BLOCKSIZ, Struct, Headers, Header
    <3> HIDE DEF a
    <3>2. a \in list' /\ hdr'[a].used = 1 /\ hdr[a].size <= hdr'[a].size
          /\ hdr'[a].size \in Nat
      BY <1>1, <3>1 DEF FreedBlock, Struct, Headers, Header
    <3>3. live'[q] <= hdr'[a].size
      BY <3>1, <3>2
    <3> QED BY <3>2, <3>3 DEF a
  <2>2. ASSUME NEW a \in list', hdr'[a].used = 1
        PROVE  Data(a) \in DOMAIN live'
    <3>1. a # b /\ a \in list /\ hdr[a].used = 1 /\ a \in Nat
      BY <2>2, <1>1 DEF FreedBlock, Struct, Headers
    <3>2. Data(a) \in DOMAIN live /\ Data(a) # p
      BY <3>1, <1>3 DEF HeapInv, Held, Data, BLOCKSIZ
    <3> QED BY <3>2, <1>4
  <2> QED BY <2>1, <2>2 DEF Held
<1>7. EmptyIsRoot'
  <2>1. \A a \in list : hdr[a].size \in Nat /\ hdr[a].size # 0
    BY <1>3 DEF HeapInv, EmptyIsRoot, Struct, Headers, Header
  <2>2. \A a \in list' : /\ a \in list /\ hdr'[a].size \in Nat
                         /\ hdr[a].size <= hdr'[a].size
    BY <1>1 DEF FreedBlock, Struct, Headers, Header
  <2> QED BY <2>1, <2>2 DEF EmptyIsRoot
<1>8. DirtyBelow'
  <2> SUFFICES ASSUME NEW d \in dirty'
               PROVE  \E c \in list' : d < End(hdr', c)
    BY DEF DirtyBelow, End
  <2>1. PICK a \in list : d < End(hdr, a)
    <3>1. CASE d \in dirty
      BY <3>1 DEF HeapInv, DirtyBelow
    <3>2. CASE d \in Units(p)
      BY <3>2, <1>3 DEF Units, End, Data, BLOCKSIZ, Header
    <3> QED BY <3>1, <3>2, <1>2
  <2>2. PICK c \in list' : End(hdr, a) <= End(hdr', c)
    BY <1>1 DEF FreedBlock, Covers
  <2>3. d \in Nat /\ End(hdr, a) \in Nat /\ End(hdr', c) \in Nat
    BY <1>1, <1>5 DEF HeapInv, TypeOK, FreedBlock, Struct, Headers, Header, End,
                      Data, BLOCKSIZ
  <2> QED BY <2>1, <2>2, <2>3
<1>9. StoresInHeaders'
  BY <1>1 DEF HeapInv, StoresInHeaders, FreedBlock
<1>10. RequestOK'
  BY <1>2 DEF RequestOK, Idle
<1>11. Struct(hdr, list)' /\ Coalesced'
  BY <1>1 DEF FreedBlock
<1> QED BY <1>5, <1>6, <1>7, <1>8, <1>9, <1>10, <1>11 DEF HeapInv

LEMMA InvStutter == HeapInv /\ UNCHANGED vars => HeapInv'
BY DEF vars, HeapInv, TypeOK, Struct, Headers, Forward, Backward, End, Data,
       Coalesced, Held, StoresInHeaders, EmptyIsRoot, RequestOK, Idle,
       CarefulRequest, DirtyBelow

LEMMA InvNext ==
  ASSUME Careful, HeapInv, [Next]_vars
  PROVE  HeapInv'
<1>1. ASSUME NEW n \in Sizes, NEW ax \in Aligns, kmalloca(n, ax)
      PROVE  HeapInv'
  <2>1. CarefulRequest(ax) /\ n \in Nat /\ ax \in Nat \ {0}
    BY <1>1, SizesAssumption, AlignsAssumption DEF kmalloca
  <2> QED BY <1>1, <2>1, InvKmalloca
<1>2. CASE LookupCreate
  BY <1>2, InvLookupCreate
<1>3. CASE LookupTake
  BY <1>3, InvLookupTake
<1>4. CASE LookupTakeEmpty
  BY <1>4, InvLookupTakeEmpty
<1>5. CASE LookupSkip
  BY <1>5, InvLookupSkip
<1>6. ASSUME NEW p \in DOMAIN live, kfree(p)
      PROVE  HeapInv'
  <2>1. CarefulFree(p - BLOCKSIZ)
    BY <1>6 DEF kfree
  <2> QED BY <1>6, <2>1, InvKfree
<1>7. CASE UNCHANGED vars
  BY <1>7, InvStutter
<1> QED BY <1>1, <1>2, <1>3, <1>4, <1>5, <1>6, <1>7 DEF Next

(***************************************************************************)
(* What the kernel may rely on as long as its calls are careful.           *)
(***************************************************************************)

LEMMA HeapInvHolds ==
  ASSUME Careful PROVE Spec => []HeapInv
<1>1. HeapInv /\ [Next]_vars => HeapInv'
  BY InvNext
<1> QED BY <1>1, InvInit, PTL DEF Spec

(* All variables of the heap keep their types, the headers of kmalloc.c    *)
(* among them.                                                             *)
THEOREM HeapTypeCorrect ==
  ASSUME Careful PROVE Spec => []TypeOK
<1>1. HeapInv => TypeOK
  BY DEF HeapInv
<1> QED BY <1>1, HeapInvHolds, PTL

(* merge(), split() and lookup() keep the blocks laid end to end, linked   *)
(* both ways, and no free block beside another one.                        *)
THEOREM HeapListIntact ==
  ASSUME Careful PROVE Spec => [](Tiling /\ BackLinks /\ Coalesced)
<1>1. HeapInv => Tiling /\ BackLinks /\ Coalesced
  <2> SUFFICES ASSUME HeapInv PROVE Tiling /\ BackLinks
    BY DEF HeapInv
  <2>1. Tiling
    BY DEF HeapInv, Tiling, Struct, Forward
  <2>2. BackLinks
    BY DEF HeapInv, BackLinks, Struct, Backward
  <2> QED BY <2>1, <2>2
<1> QED BY <1>1, HeapInvHolds, PTL

(* Every prev pointer is the inverse of a next pointer, whatever was       *)
(* merged and split before: kfree() looks for its left neighbour there.    *)
THEOREM HeapBackLinks ==
  ASSUME Careful PROVE Spec => []BackLinks
<1>1. Spec => [](Tiling /\ BackLinks /\ Coalesced)
  BY HeapListIntact
<1> QED BY <1>1, PTL

(* kfree()'s two calls of merge() leave no two free blocks side by side.   *)
THEOREM HeapCoalesced ==
  ASSUME Careful PROVE Spec => []Coalesced
<1>1. Spec => [](Tiling /\ BackLinks /\ Coalesced)
  BY HeapListIntact
<1> QED BY <1>1, PTL

(* The blocks in use are the ones handed out and not freed, at the size    *)
(* asked for, and the allocator stores nothing into them.                  *)
THEOREM HeapUsedIsHeld ==
  ASSUME Careful PROVE Spec => [](UsedIsHeld /\ StoresInHeaders)
<1>1. HeapInv => UsedIsHeld /\ StoresInHeaders
  BY DEF HeapInv, UsedIsHeld
<1> QED BY <1>1, HeapInvHolds, PTL

(* split(), merge() and lookup() store into headers only, but for the one  *)
(* store of merge() to NULL+8.                                             *)
THEOREM HeapStoresInHeaders ==
  ASSUME Careful PROVE Spec => []StoresInHeaders
<1>1. Spec => [](UsedIsHeld /\ StoresInHeaders)
  BY HeapUsedIsHeld
<1> QED BY <1>1, PTL

(* No two clients share a byte, and no client's data reaches into a header *)
(* of the list: the first promise of kmalloc(), stated on addresses.       *)
LiveApart ==
  \A p \in DOMAIN live :
    /\ \A q \in DOMAIN live \ {p} : p + live[p] <= q \/ q + live[q] <= p
    /\ \A a \in list : p + live[p] <= a \/ Data(a) <= p

LEMMA InvLiveApart ==
  ASSUME HeapInv, NEW p \in DOMAIN live
  PROVE  /\ \A q \in DOMAIN live \ {p} : p + live[p] <= q \/ q + live[q] <= p
         /\ \A a \in list : p + live[p] <= a \/ Data(a) <= p
<1>1. \A q \in DOMAIN live :
        /\ q - BLOCKSIZ \in list /\ q \in Nat /\ live[q] \in Nat
        /\ live[q] <= hdr[q - BLOCKSIZ].size
  BY DEF HeapInv, Held, TypeOK
<1>2. \A a \in list : a \in Nat /\ hdr[a].size \in Nat
  BY DEF HeapInv, Struct, Headers, Header
<1>3. \A a, c \in list : a < c => a + 16 + hdr[a].size <= c
  BY DEF HeapInv, Struct, Forward, End, Data, BLOCKSIZ
<1>4. ASSUME NEW a \in list
      PROVE  p + live[p] <= a \/ Data(a) <= p
  <2> DEFINE b == p - 16
  <2>1. b \in list /\ live[p] <= hdr[b].size /\ p = b + 16 /\ live[p] \in Nat
    BY <1>1 DEF BLOCKSIZ
  <2> HIDE DEF b
  <2> QED BY <1>2, <1>3, <2>1 DEF Data, BLOCKSIZ
<1>5. ASSUME NEW q \in DOMAIN live \ {p}
      PROVE  p + live[p] <= q \/ q + live[q] <= p
  <2> DEFINE b == p - 16
             c == q - 16
  <2>1. /\ b \in list /\ live[p] <= hdr[b].size /\ p = b + 16 /\ live[p] \in Nat
        /\ c \in list /\ live[q] <= hdr[c].size /\ q = c + 16 /\ live[q] \in Nat
    BY <1>1 DEF BLOCKSIZ
  <2> HIDE DEF b, c
  <2>2. b \in Nat /\ c \in Nat /\ b # c
    BY <1>2, <2>1
  <2>3. CASE b < c
    BY <1>2, <1>3, <2>1, <2>2, <2>3
  <2>4. CASE c < b
    BY <1>2, <1>3, <2>1, <2>2, <2>4
  <2> QED BY <2>2, <2>3, <2>4
<1> QED BY <1>4, <1>5

(* Two pointers kmalloc() returned and kfree() did not get back share no   *)
(* byte, and none of them shares a byte with a header.                     *)
THEOREM HeapLiveApart ==
  ASSUME Careful PROVE Spec => []LiveApart
<1>1. HeapInv => LiveApart
  BY InvLiveApart DEF LiveApart
<1> QED BY <1>1, HeapInvHolds, PTL

(***************************************************************************)
(* KHeap implements HeapSpec.                                              *)
(***************************************************************************)

LEMMA InvImpliesApart == HeapInv => LiveApart /\ ~ Undefined
BY InvLiveApart, InvDefined DEF LiveApart

(* A pointer that lookup() returns is granted in the sense of HeapSpec.    *)
LEMMA ReturnGrants ==
  ASSUME HeapInv, HeapInv', ~ Idle, NEW b \in list', Return(b),
         b \in list => hdr[b].used = 0
  PROVE  Abstract!Grant
<1>1. /\ ret' = Data(b)
      /\ DOMAIN live' = DOMAIN live \cup {Data(b)}
      /\ live'[Data(b)] = req.size
      /\ \A p \in DOMAIN live : p # Data(b) => live'[p] = live[p]
  BY DEF Return
<1>2. b \in Nat /\ Data(b) \in Nat \ {0} /\ Data(b) - BLOCKSIZ = b
  BY DEF HeapInv, Struct, Headers, Data, BLOCKSIZ
<1>3. req.size \in Nat \ {0}
  BY LookupFacts
<1>4. Data(b) \notin DOMAIN live
  BY <1>2 DEF HeapInv, Held
<1>5. LiveApart' /\ ~ Undefined'
  BY InvImpliesApart, PTL
<1>6. ASSUME NEW q \in DOMAIN live
      PROVE  /\ live'[q] = live[q]
             /\ Abstract!Apart(Data(b), live'[Data(b)], q, live[q])
  <2>1. q # Data(b) /\ live'[q] = live[q] /\ q \in DOMAIN live'
    BY <1>1, <1>4
  <2>2. \/ Data(b) + live'[Data(b)] <= q
        \/ q + live'[q] <= Data(b)
    BY <1>1, <1>5, <2>1 DEF LiveApart
  <2> QED BY <2>1, <2>2 DEF Abstract!Apart
<1> QED
  BY <1>1, <1>2, <1>3, <1>4, <1>6 DEF Abstract!Grant, Abstract!NULL

(* Every step of the heap is a grant, a refusal or a release, or is not    *)
(* visible to its clients.                                                 *)
LEMMA StepRefines ==
  ASSUME Careful, HeapInv, HeapInv', [Next]_vars
  PROVE  [Abstract!Next]_(Abstract!vars)
<1> USE DEF Abstract!Next, Abstract!vars
<1>1. ASSUME NEW n \in Sizes, NEW ax \in Aligns, kmalloca(n, ax)
      PROVE  [Abstract!Next]_(Abstract!vars)
  BY <1>1 DEF kmalloca, Abstract!Refuse, Abstract!NULL, NULL
<1>2. CASE LookupCreate
  <2> DEFINE at == Place(End(hdr, req.blk), req.ax)
  <2>1. ~ Idle /\ Ptr = NULL /\ list' = list \cup {at}
    BY <1>2 DEF LookupCreate
  <2>2. req.blk \in list /\ hdr[req.blk].next = NULL
    BY <2>1, LookupFacts
  <2>3. at \in Nat /\ End(hdr, req.blk) <= at
    BY <2>1, <2>2, PlaceAbove
  <2>4. at \notin list
    <3>1. \A a \in list : a \in Nat /\ a <= req.blk /\ hdr[a].size \in Nat
      BY <2>2 DEF HeapInv, Struct, Headers, Forward, Header
    <3>2. req.blk < at
      BY <2>2, <2>3, <3>1 DEF End, Data, BLOCKSIZ
    <3> QED BY <2>2, <2>3, <3>1, <3>2
  <2>5. \/ Return(at)
        \/ UNCHANGED <<live, ret>>
    BY <1>2 DEF LookupCreate
  <2> HIDE DEF at
  <2>6. CASE Return(at)
    BY <2>1, <2>4, <2>6, ReturnGrants
  <2> QED BY <2>5, <2>6
<1>3. CASE LookupTake
  <2>1. ~ Idle /\ Ptr # NULL /\ Return(Ptr) /\ hdr[Ptr].used = 0
        /\ list' = (list \cup {hdr'[Ptr].next}) \ {NULL}
    BY <1>3 DEF LookupTake, Fits
  <2>2. Ptr \in list'
    BY <2>1, LookupFacts
  <2> QED BY <2>1, <2>2, ReturnGrants
<1>4. CASE LookupTakeEmpty
  <2>1. ~ Idle /\ Ptr # NULL /\ Return(Ptr) /\ hdr[Ptr].size = 0 /\ list' = list
    BY <1>4 DEF LookupTakeEmpty
  <2>2. Ptr \in list' /\ hdr[Ptr].used = 0
    BY <2>1, LookupFacts DEF EmptyIsRoot
  <2> QED BY <2>1, <2>2, ReturnGrants
<1>5. CASE LookupSkip
  BY <1>5 DEF LookupSkip
<1>6. ASSUME NEW p \in DOMAIN live, kfree(p)
      PROVE  Abstract!Release
  BY <1>6 DEF kfree, Abstract!Release
<1>7. CASE UNCHANGED vars
  BY <1>7 DEF vars
<1> QED BY <1>1, <1>2, <1>3, <1>4, <1>5, <1>6, <1>7 DEF Next

(* kmalloc.c keeps the promise of HeapSpec to careful clients: every       *)
(* request is granted bytes that nobody else has, or refused, and kfree()  *)
(* takes back one grant and leaves the others alone.                       *)
THEOREM HeapImplementsSpec ==
  ASSUME Careful PROVE Spec => RefinesHeapSpec
<1>1. Init => Abstract!Init
  BY DEF Init, Abstract!Init, NULL, Abstract!NULL
<1>2. HeapInv /\ HeapInv' /\ [Next]_vars => [Abstract!Next]_(Abstract!vars)
  BY StepRefines
<1> QED
  BY <1>1, <1>2, HeapInvHolds, PTL DEF Spec, RefinesHeapSpec, Abstract!Spec

(***************************************************************************)
(* Alignment.                                                              *)
(***************************************************************************)

LEMMA NextMultiple ==
  ASSUME NEW e \in Nat, NEW d \in Nat \ {0}
  PROVE  ((e - (e % d)) + d) % d = 0
<1>1. e \div d \in Nat /\ e % d \in Nat /\ e = d * (e \div d) + (e % d)
  OBVIOUS
<1>2. (e - (e % d)) + d = d * ((e \div d) + 1)
  BY <1>1
<1>3. \A q \in Nat : (d * q) % d = 0
  OBVIOUS
<1> QED BY <1>1, <1>2, <1>3

(* lookup()'s mask, addition and subtraction in lines 69 and 70 do align   *)
(* the data of the block placed there.                                     *)
LEMMA PlaceAligns ==
  ASSUME NEW e \in Nat, NEW d \in Nat \ {0}
  PROVE  Data(Place(e, d)) % d = 0
<1>1. CASE Data(e) % d = 0
  BY <1>1 DEF Place
<1>2. CASE Data(e) % d # 0
  <2>1. e % d \in Nat
    OBVIOUS
  <2>2. Data(Place(e, d)) = (e - (e % d)) + d
    BY <1>2, <2>1 DEF Place, Data, BLOCKSIZ
  <2> QED BY <2>2, NextMultiple
<1> QED BY <1>1, <1>2

(* Every pointer kmalloca() returns is a multiple of 1 << align.           *)
THEOREM HeapAnswerAligned ==
  ASSUME Careful PROVE Spec => AnswerAligned
<1>1. ASSUME HeapInv, [Next]_vars, ret' # ret
      PROVE  ret' % req.ax = 0
  <2>1. ASSUME NEW n \in Sizes, NEW ax \in Aligns, kmalloca(n, ax)
        PROVE  ret' % req.ax = 0
    <3>1. ret' = 0 /\ req.ax = 1
      BY <1>1, <2>1 DEF kmalloca, Idle, NoReq, NULL
    <3> QED BY <3>1
  <2>2. CASE LookupCreate
    <3>1. ~ Idle /\ Ptr = NULL
          /\ ret' = Data(Place(End(hdr, req.blk), req.ax))
      BY <1>1, <2>2 DEF LookupCreate, Return
    <3>2. req.blk \in list /\ req.ax \in Nat \ {0} /\ hdr[req.blk] \in Header
          /\ req.blk \in Nat
      BY <1>1, <3>1, LookupFacts
    <3>3. End(hdr, req.blk) \in Nat
      BY <3>2 DEF End, Data, BLOCKSIZ, Header
    <3> QED BY <3>1, <3>2, <3>3, PlaceAligns
  <2>3. CASE LookupTake
    BY <2>3 DEF LookupTake, Return, Aligned
  <2>4. CASE LookupTakeEmpty
    <3>1. ~ Idle /\ Ptr # NULL /\ req.ax = 1 /\ ret' = Data(Ptr)
      BY <2>4 DEF LookupTakeEmpty, Return
    <3>2. Data(Ptr) \in Nat
      BY <1>1, <3>1, LookupFacts
    <3> QED BY <3>1, <3>2
  <2>5. CASE LookupSkip
    BY <1>1, <2>5 DEF LookupSkip
  <2>6. ASSUME NEW p \in DOMAIN live, kfree(p)
        PROVE  ret' % req.ax = 0
    BY <1>1, <2>6 DEF kfree
  <2>7. CASE UNCHANGED vars
    BY <1>1, <2>7 DEF vars
  <2> QED BY <1>1, <2>1, <2>2, <2>3, <2>4, <2>5, <2>6, <2>7 DEF Next
<1>2. HeapInv /\ [Next]_vars => [ret' # ret => ret' % req.ax = 0]_vars
  BY <1>1
<1> QED BY <1>2, HeapInvHolds, PTL DEF Spec, AnswerAligned

(***************************************************************************)
(* lookup() ends                                                           *)
(***************************************************************************)

(* The blocks that lookup() has still before it.                           *)
Ahead == {b \in list : req.blk < b}

(* A step of the allocator, whoever called it.                             *)
HeapStep ==
  \/ \E n, ax : kmalloca(n, ax)
  \/ Lookup
  \/ \E p : kfree(p)
  \/ UNCHANGED vars

LEMMA StepAddsOne ==
  ASSUME HeapStep
  PROVE  \E b : list' \subseteq list \cup {b}
<1>1. CASE \E n, ax : kmalloca(n, ax)
  BY <1>1 DEF kmalloca
<1>2. CASE LookupCreate
  <2>1. list' = list \cup {Place(End(hdr, req.blk), req.ax)}
    BY <1>2 DEF LookupCreate
  <2> QED BY <2>1
<1>3. CASE LookupTake
  <2>1. list' = (list \cup {hdr'[Ptr].next}) \ {NULL}
    BY <1>3 DEF LookupTake
  <2> QED BY <2>1
<1>4. CASE LookupTakeEmpty \/ LookupSkip \/ UNCHANGED vars
  BY <1>4 DEF LookupTakeEmpty, LookupSkip, vars
<1>5. CASE \E p : kfree(p)
  <2>1. PICK p : kfree(p)
    BY <1>5
  <2>2. PICK mergePrev \in BOOLEAN : Free(p, mergePrev)
    BY <2>1 DEF kfree
  <2>3. list' \subseteq list
    BY <2>2 DEF Free
  <2> QED BY <2>3
<1> QED BY <1>1, <1>2, <1>3, <1>4, <1>5 DEF HeapStep, Lookup

LEMMA ListStaysFinite ==
  ASSUME IsFiniteSet(list), HeapStep
  PROVE  IsFiniteSet(list')
<1>1. PICK b : list' \subseteq list \cup {b}
  BY StepAddsOne
<1>2. IsFiniteSet(list \cup {b})
  BY FS_AddElement
<1> QED BY <1>1, <1>2, FS_Subset

(* A level that does not return goes on to the next block of the same      *)
(* list, which lies behind: the list is no ring.                           *)
LEMMA LevelAdvances ==
  ASSUME HeapInv, IsFiniteSet(list), ~ Idle, HeapStep, ~ UNCHANGED vars
  PROVE  Idle' \/ Cardinality(Ahead') < Cardinality(Ahead)
<1>1. Lookup
  BY DEF HeapStep, kmalloca, kfree
<1>2. CASE LookupCreate
  <2>1. PICK b, at : CreatedAt(b, at)
    BY <1>2, Created
  <2> QED BY <2>1 DEF CreatedAt, Return, Idle
<1>3. CASE LookupTake \/ LookupTakeEmpty
  BY <1>3 DEF LookupTake, LookupTakeEmpty, Return, Idle
<1>4. CASE LookupSkip
  <2>1. /\ Ptr # NULL /\ req' = [req EXCEPT !.blk = Ptr] /\ list' = list
    BY <1>4 DEF LookupSkip
  <2>2. /\ Ptr \in list /\ Ptr \in Nat /\ req.blk \in Nat
        /\ \A b \in list : b \in Nat
    BY <2>1, LookupFacts DEF TypeOK
  <2>3. req'.blk = Ptr
    <3>1. req \in [blk : Nat, size : Nat, ax : Nat \ {0}]
      BY LookupFacts DEF TypeOK
    <3> QED BY <2>1, <3>1
  <2>4. req.blk < Ptr
    <3>1. CASE req.blk = NULL
      BY <2>1, <2>2, <3>1 DEF NULL
    <3>2. CASE req.blk # NULL
      <4>1. req.blk \in list /\ Ptr = hdr[req.blk].next
        BY <3>2, LookupFacts
      <4>2. Ptr = End(hdr, req.blk)
        BY <2>1, <4>1, LookupFacts DEF Struct, Forward
      <4>3. hdr[req.blk] \in Header
        BY <4>1, LookupFacts
      <4> QED BY <2>2, <4>2, <4>3 DEF End, Data, BLOCKSIZ, Header
    <3> QED BY <3>1, <3>2
  <2>5. Ahead' \subseteq Ahead /\ Ptr \in Ahead /\ Ptr \notin Ahead'
    BY <2>1, <2>2, <2>3, <2>4 DEF Ahead
  <2>6. IsFiniteSet(Ahead)
    BY FS_Subset DEF Ahead
  <2>7. /\ IsFiniteSet(Ahead') /\ Cardinality(Ahead') <= Cardinality(Ahead)
        /\ Cardinality(Ahead') # Cardinality(Ahead)
    BY <2>5, <2>6, FS_Subset
  <2>8. Cardinality(Ahead) \in Nat /\ Cardinality(Ahead') \in Nat
    BY <2>6, <2>7, FS_CardinalityType
  <2> QED BY <2>7, <2>8
<1> QED BY <1>1, <1>2, <1>3, <1>4 DEF Lookup

(* For a careful client lookup()'s recursion ends after at most as many    *)
(* levels as the list has blocks: each step while a request is open        *)
(* returns or has fewer blocks before it, and their number is finite.      *)
THEOREM HeapLookupDescends ==
  ASSUME Careful
  PROVE  Spec => /\ []IsFiniteSet(list)
                 /\ [][~ Idle => Idle' \/ Cardinality(Ahead') < Cardinality(Ahead)]_vars
<1>1. Init => IsFiniteSet(list)
  <2>1. IsFiniteSet({root})
    BY FS_Singleton
  <2> QED BY <2>1 DEF Init
<1>2. [Next]_vars => HeapStep
  BY DEF Next, HeapStep, Lookup
<1>3. IsFiniteSet(list) /\ [Next]_vars => IsFiniteSet(list)'
  BY <1>2, ListStaysFinite
<1>4. HeapInv /\ IsFiniteSet(list) /\ [Next]_vars
        => [~ Idle => Idle' \/ Cardinality(Ahead') < Cardinality(Ahead)]_vars
  BY <1>2, LevelAdvances
<1> QED BY <1>1, <1>3, <1>4, HeapInvHolds, PTL DEF Spec

(***************************************************************************)
(* The kernel as the client: its inductive invariant                       *)
(***************************************************************************)

Rounded(i) == RoundUp(Boot[i][1])
Largest    == RoundUp(CHOOSE n \in TempSizes : \A m \in TempSizes : m <= n)

(* How many of its allocations booting has made.                           *)
Count == Len(got)

(* The block of the last allocation of booting so far, and the place where *)
(* the shell's memory begins.                                              *)
Last == got[Count] - BLOCKSIZ
Top  == got[14] + 152

Given(i) == halted /\ i = RamdiskData

(* What the kernel holds, in the order it was obtained.                    *)
Pointers ==
  /\ got \in Seq(Nat) /\ Count <= 14
  /\ tmp \in Nat /\ halted \in BOOLEAN
  /\ \A i, j \in 1 .. Count : i < j => got[i] < got[j]
  /\ \A i \in 1 .. Count :
       Given(i) \/ (got[i] \in DOMAIN live /\ live[got[i]] = Rounded(i))
  /\ ~ Booted => tmp = NULL
  /\ tmp # NULL => Idle /\ ~ halted
  /\ halted => Booted /\ Idle

(* What it is asking for; no free block that lookup() has passed would do. *)
Asked ==
  ~ Idle =>
    IF Booted
    THEN /\ req.ax = 1 /\ req.size <= Largest /\ tmp = NULL
         /\ req.blk = Top => hdr[Top].size < req.size
    ELSE req.ax = Boot[Count + 1][2] /\ req.size = Rounded(Count + 1)

(* No block of booting is free, but the RAM disk's in the end.             *)
Below ==
  /\ Count = 0 => list = {root} /\ hdr[root].size = 0
  /\ Count > 0 =>
       /\ Last \in list /\ hdr[Last].size = Rounded(Count)
       /\ \A b \in list : b <= Last =>
            hdr[b].used = 1 \/ (halted /\ b = got[RamdiskData] - BLOCKSIZ)
       /\ ~ Booted => \A b \in list : b <= Last

(* Where the next block would lie while page tables are still to come.     *)
Layout ==
  /\ Count = 1 => End(hdr, Last) = HeapBase + 2064
  /\ Count = 2 => End(hdr, Last) = HeapBase + 3104
  /\ Count = 3 => End(hdr, Last) = HeapBase + 3648
  /\ Count = 4 => End(hdr, Last) = HeapBase + 7760
  /\ Count \in 5 .. 9 => End(hdr, Last) % PAGE_SIZE = 0

(* The shell has asked for nothing yet, ...                                *)
Untouched ==
  /\ tmp = NULL
  /\ \A b \in list : b <= Last

(* ... or has one block, in use or not, ...                                *)
OneBlock ==
  /\ Top \in list /\ hdr[Top].next = NULL
  /\ hdr[Top].size <= 2 * Largest + BLOCKSIZ
  /\ \A b \in list : b <= Last \/ b = Top
  /\ \/ tmp = NULL /\ hdr[Top].used = 0
     \/ tmp = Data(Top) /\ hdr[Top].used = 1

(* ... or has one behind a free one that was too small.                    *)
TwoBlocks ==
  LET b2 == tmp - BLOCKSIZ
  IN  /\ tmp # NULL /\ Top \in list /\ b2 \in list
      /\ hdr[Top].used = 0 /\ hdr[Top].next = b2 /\ hdr[Top].size <= Largest
      /\ hdr[b2].used = 1 /\ hdr[b2].next = NULL /\ hdr[b2].size <= Largest
      /\ \A b \in list : b <= Last \/ b = Top \/ b = b2

Above == Booted => Untouched \/ OneBlock \/ TwoBlocks

KInv == HeapInv /\ Pointers /\ Asked /\ Below /\ Layout /\ Above

(***************************************************************************)
(* Lemmas                                                                  *)
(***************************************************************************)

LEMMA RoundUpBound ==
  ASSUME NEW n \in Nat
  PROVE  RoundUp(n) \in Nat /\ (n # 0 => RoundUp(n) # 0)
BY DEF RoundUp

LEMMA RoundUpMonotone ==
  ASSUME NEW m \in Nat, NEW n \in Nat, m <= n
  PROVE  RoundUp(m) <= RoundUp(n)
BY DEF RoundUp

(* kmalloc()'s blocks are placed right behind the last one.                *)
LEMMA PlaceUnaligned ==
  ASSUME NEW e \in Nat
  PROVE  Place(e, 1) = e
<1>1. Data(e) \in Int
  BY DEF Data, BLOCKSIZ
<1>2. Data(e) % 1 = 0
  BY <1>1
<1> QED BY <1>2 DEF Place

(* What booting asks for: how many times, how much ...                     *)
LEMMA BootLen == Len(Boot) = 14
BY DEF Boot

LEMMA BootSizes ==
  /\ \A i \in PageTables : Boot[i][1] = 4096
  /\ Boot[1][1] = 2048 /\ Boot[2][1] = 1024 /\ Boot[3][1] = 524
  /\ Boot[4][1] = 4096 /\ Boot[14][1] = 152
  /\ \A i \in 1 .. 14 : Boot[i][1] \in Nat \ {0}
<1>1. \A i \in 1 .. 14 : i \in PageTables \/ i \in {1, 2, 3, 4, 10, 11, 12, 13, 14}
  BY DEF PageTables
<1>2. \A i \in PageTables : i = 5 \/ i = 6 \/ i = 7 \/ i = 8 \/ i = 9
  BY DEF PageTables
<1>3. (NFiles + 1) * SizeofInode \in Nat \ {0}
  BY NFilesAssumption DEF SizeofInode
<1>4. \A i \in PageTables : Boot[i][1] = 4096
  BY <1>2 DEF Boot, PAGE_SIZE
<1>5. /\ Boot[1][1] = 2048 /\ Boot[2][1] = 1024 /\ Boot[3][1] = 524
      /\ Boot[4][1] = 4096 /\ Boot[10][1] = 512 /\ Boot[11][1] = 8
      /\ Boot[12][1] = 76 /\ Boot[13][1] = (NFiles + 1) * SizeofInode
      /\ Boot[14][1] = 152
  BY DEF Boot, PAGE_SIZE, SizeofInode
<1>6. \A i \in 1 .. 14 : Boot[i][1] \in Nat \ {0}
  BY <1>1, <1>3, <1>4, <1>5
<1> QED BY <1>4, <1>5, <1>6

(* ... and how aligned.                                                    *)
LEMMA BootAligns ==
  ASSUME NEW i \in 1 .. 14
  PROVE  /\ i \in PageTables => Boot[i][2] = PAGE_SIZE
         /\ i \notin PageTables => Boot[i][2] = 1
<1>1. i \in {5, 6, 7, 8, 9} \/ i \in {1, 2, 3, 4, 10, 11, 12, 13, 14}
  OBVIOUS
<1>2. i \in PageTables <=> i \in {5, 6, 7, 8, 9}
  BY DEF PageTables
<1>3. i \in {5, 6, 7, 8, 9} => Boot[i][2] = PAGE_SIZE
  BY DEF Boot
<1>4. i \in {1, 2, 3, 4, 10, 11, 12, 13, 14} => Boot[i][2] = 1
  BY DEF Boot
<1> QED BY <1>1, <1>2, <1>3, <1>4

LEMMA RoundedIs ==
  /\ Rounded(1) = 2048 /\ Rounded(2) = 1024 /\ Rounded(3) = 528
  /\ Rounded(4) = 4096 /\ Rounded(14) = 152
  /\ \A i \in PageTables : Rounded(i) = 4096
BY BootSizes DEF Rounded, RoundUp

(* The largest of the shell's requests.                                    *)
LEMMA LargestIs ==
  /\ Largest \in Nat
  /\ \A n \in TempSizes : n \in Nat \ {0} /\ RoundUp(n) <= Largest
<1> DEFINE room == CHOOSE n \in TempSizes : \A m \in TempSizes : m <= n
<1>1. room \in TempSizes /\ \A m \in TempSizes : m <= room
  BY TempSizesAssumption
<1>2. TempSizes \subseteq Nat \ {0}
  BY TempSizesAssumption
<1> HIDE DEF room
<1>3. RoundUp(room) \in Nat /\ \A n \in TempSizes : RoundUp(n) <= RoundUp(room)
  BY <1>1, <1>2, RoundUpBound, RoundUpMonotone
<1> QED BY <1>2, <1>3 DEF Largest, room

(* The counts of what booting has obtained.                                *)
LEMMA Counts ==
  ASSUME NEW k \in Nat
  PROVE  /\ k <= 14 => k \in 0 .. 14
         /\ k \in 0 .. 14 /\ k # 14 => k \in 0 .. 13 /\ k + 1 \in 1 .. 14
OBVIOUS

(* What the steps below need of a state.                                   *)
LEMMA KFacts ==
  ASSUME KInv
  PROVE  /\ HeapInv /\ Struct(hdr, list) /\ ~ Undefined
         /\ Count \in 0 .. 14 /\ (Booted <=> Count = 14)
         /\ \A i \in 1 .. Count : got[i] \in Nat
         /\ \A a \in list : /\ a \in Nat /\ a # NULL /\ hdr[a].size \in Nat
                            /\ hdr[a].next \in Nat /\ hdr[a].prev \in Nat
                            /\ Data(a) \in Nat /\ Data(a) - BLOCKSIZ = a
                            /\ hdr[a].used \in {0, 1}
         /\ Count > 0 =>
              /\ Last \in list /\ Last \in Nat /\ got[Count] = Data(Last)
              /\ hdr[Last].used = 1
              /\ hdr[Last].size = Rounded(Count)
              /\ \A i \in 1 .. Count : got[i] <= Data(Last)
         /\ ~ Booted => /\ ~ halted /\ tmp = NULL
                        /\ Count \in 0 .. 13 /\ Count + 1 \in 1 .. 14
<1>1. /\ HeapInv /\ Struct(hdr, list) /\ ~ Undefined
      /\ Count \in 0 .. 14 /\ (Booted <=> Count = 14)
      /\ \A i \in 1 .. Count : got[i] \in Nat
      /\ ~ Booted => /\ ~ halted /\ tmp = NULL
                     /\ Count \in 0 .. 13 /\ Count + 1 \in 1 .. 14
  <2>1. HeapInv /\ Struct(hdr, list) /\ ~ Undefined
    BY InvDefined DEF KInv, HeapInv
  <2>2. Booted <=> Count = 14
    BY BootLen DEF Booted, Count
  <2>3. got \in Seq(Nat) /\ Count <= 14
    BY DEF KInv, Pointers
  <2>4. Count \in 0 .. 14 /\ \A i \in 1 .. Count : got[i] \in Nat
    <3>1. Count \in Nat /\ \A i \in 1 .. Count : got[i] \in Nat
      BY <2>3 DEF Count
    <3>2. Count \in 0 .. 14
      BY <3>1, <2>3, Counts
    <3> QED BY <3>1, <3>2
  <2>6. Count # 14 => Count \in 0 .. 13 /\ Count + 1 \in 1 .. 14
    <3>1. Count \in Nat
      BY <2>3 DEF Count
    <3> QED BY <3>1, <2>4, Counts
  <2>5. ~ Booted => ~ halted /\ tmp = NULL
    BY DEF KInv, Pointers
  <2> QED BY <2>1, <2>2, <2>4, <2>5, <2>6
<1>2. \A a \in list : /\ a \in Nat /\ a # NULL /\ hdr[a].size \in Nat
                      /\ hdr[a].next \in Nat /\ hdr[a].prev \in Nat
                      /\ Data(a) \in Nat /\ Data(a) - BLOCKSIZ = a
                      /\ hdr[a].used \in {0, 1}
  BY <1>1 DEF Struct, Headers, Header, Data, BLOCKSIZ
<1>3. ASSUME Count > 0
      PROVE  /\ Last \in list /\ Last \in Nat /\ got[Count] = Data(Last)
             /\ hdr[Last].used = 1
             /\ hdr[Last].size = Rounded(Count)
             /\ \A i \in 1 .. Count : got[i] <= Data(Last)
  <2>1. Last \in list /\ Last \in Nat /\ hdr[Last].size = Rounded(Count)
    BY <1>2, <1>3 DEF KInv, Below
  <2>2. got[Count] = Data(Last) /\ got[Count] \in Nat
    BY <2>1, <1>1, <1>3 DEF Last, Data, BLOCKSIZ
  <2>3. \A i, j \in 1 .. Count : i < j => got[i] < got[j]
    BY DEF KInv, Pointers
  <2>4. \A i \in 1 .. Count : i # Count => got[i] < got[Count]
    BY <2>3, <1>1, <1>3
  <2>5. halted => Last # got[RamdiskData] - BLOCKSIZ
    <3>1. halted => Count = 14 /\ got[11] \in Nat /\ got[11] < got[14] /\ got[14] \in Nat
      BY <2>3, <1>1
    <3>2. ASSUME halted PROVE Last # got[RamdiskData] - BLOCKSIZ
      <4>1. Count = 14 /\ got[11] \in Nat /\ got[11] < got[14] /\ got[14] \in Nat
        BY <3>1, <3>2
      <4>2. got[14] - 16 # got[11] - 16
        BY <4>1
      <4> QED BY <4>1, <4>2 DEF RamdiskData, Last, BLOCKSIZ
    <3> QED BY <3>2
  <2>6. hdr[Last].used = 1
    BY <2>1, <2>5, <1>3 DEF KInv, Below
  <2> QED BY <2>1, <2>2, <2>4, <2>6, <1>1
<1> QED BY <1>1, <1>2, <1>3

(* The last block of the list is the last one of booting while that lasts. *)
LEMMA BootEnd ==
  ASSUME KInv, ~ Booted, Count > 0, NEW b \in list, hdr[b].next = NULL
  PROVE  b = Last
<1>1. b <= Last /\ Last <= b /\ b \in Nat /\ Last \in Nat
  BY KFacts DEF KInv, Below, Struct, Forward
<1> QED BY <1>1

(* Page tables are asked for when the next block can be aligned.           *)
LEMMA BootIsCareful ==
  ASSUME KInv, ~ Booted
  PROVE  CarefulRequest(Boot[Count + 1][2])
<1>1. /\ Count + 1 \in PageTables => Boot[Count + 1][2] = PAGE_SIZE
      /\ Count + 1 \notin PageTables => Boot[Count + 1][2] = 1
  BY BootAligns, KFacts
<1>2. CASE Count + 1 \notin PageTables
  BY <1>1, <1>2 DEF CarefulRequest
<1>3. CASE Count + 1 \in PageTables
  <2>1. Count \in 4 .. 8
    BY <1>3, KFacts DEF PageTables
  <2>2. hdr[root].size # 0
    <3>1. Last \in list /\ hdr[Last].used = 1 /\ root \in list
      BY <2>1, KFacts DEF Struct, Headers
    <3> QED BY <3>1, KFacts DEF HeapInv, EmptyIsRoot
  <2>3. ASSUME NEW b \in list, hdr[b].next = NULL
        PROVE  End(hdr, b) % PAGE_SIZE <= PAGE_SIZE - BLOCKSIZ
    <3>1. b = Last
      BY <2>1, <2>3, BootEnd
    <3>2. CASE Count = 4
      <4>1. End(hdr, b) = HeapBase + 7760
        BY <3>1, <3>2 DEF KInv, Layout
      <4> QED BY <4>1, HeapBaseAligned, HeapBaseAssumption DEF PAGE_SIZE, BLOCKSIZ
    <3>3. CASE Count # 4
      <4>1. End(hdr, b) % PAGE_SIZE = 0
        <5>1. Count \in 5 .. 9
          BY <2>1, <3>3
        <5> QED BY <3>1, <5>1 DEF KInv, Layout
      <4> QED BY <4>1 DEF PAGE_SIZE, BLOCKSIZ
    <3> QED BY <3>2, <3>3
  <2> QED BY <1>1, <1>3, <2>2, <2>3 DEF CarefulRequest
<1> QED BY <1>2, <1>3

(***************************************************************************)
(* Booting                                                                 *)
(***************************************************************************)

LEMMA KInvInit == KInit => KInv
<1> SUFFICES ASSUME KInit PROVE KInv
  OBVIOUS
<1>1. HeapInv
  BY InvInit DEF KInit
<1>2. /\ got = <<>> /\ Count = 0 /\ got \in Seq(Nat) /\ ~ Booted
      /\ tmp = NULL /\ halted = FALSE /\ Idle
      /\ list = {root} /\ hdr[root].size = 0
  BY BootLen DEF KInit, Init, Count, Booted, Idle
<1>3. Pointers
  <2>1. \A i \in 1 .. Count : FALSE
    BY <1>2
  <2>2. tmp \in Nat /\ Count <= 14
    BY <1>2 DEF NULL
  <2>3. halted \in BOOLEAN
    BY <1>2
  <2> QED BY <1>2, <2>1, <2>2, <2>3 DEF Pointers
<1>4. Asked /\ Below /\ Layout /\ Above
  BY <1>2 DEF Asked, Below, Layout, Above
<1> QED BY <1>1, <1>3, <1>4 DEF KInv

LEMMA KBootAlloc ==
  ASSUME KInv, BootAlloc
  PROVE  KInv'
<1> DEFINE n == Boot[Count + 1][1]
           ax == Boot[Count + 1][2]
<1>1. ~ Booted /\ kmalloca(n, ax) /\ UNCHANGED <<got, tmp, halted>>
  BY DEF BootAlloc, Count
<1>2. Count + 1 \in 1 .. 14 /\ HeapInv /\ ~ halted /\ tmp = NULL
  BY <1>1, KFacts
<1>3. n \in Nat \ {0}
  BY <1>2, BootSizes
<1>4. ax \in Nat \ {0}
  BY <1>2, BootAligns DEF PAGE_SIZE
<1>5. CarefulRequest(ax)
  BY <1>1, BootIsCareful
<1> HIDE DEF n, ax
<1>6. HeapInv'
  BY <1>1, <1>2, <1>3, <1>4, <1>5, InvKmalloca
<1>7. /\ req' = [blk |-> NULL, size |-> RoundUp(n), ax |-> ax]
      /\ UNCHANGED <<hdr, list, live>>
  BY <1>1, <1>3 DEF kmalloca
<1>8. Pointers'
  BY <1>1, <1>2, <1>7 DEF KInv, Pointers, Given, Count, Booted
<1>9. Asked'
  <2>1. req'.ax = ax /\ req'.size = Rounded(Count + 1)
    BY <1>7 DEF Rounded, n
  <2>2. UNCHANGED Count /\ ~ Booted' /\ UNCHANGED got
    BY <1>1 DEF Count, Booted
  <2> QED BY <2>1, <2>2 DEF Asked, Rounded, ax
<1>10. Below' /\ Layout'
  BY <1>1, <1>7 DEF KInv, Below, Layout, Count, Booted, Last, End
<1>11. Above'
  BY <1>1 DEF Above, Booted
<1> QED BY <1>6, <1>8, <1>9, <1>10, <1>11 DEF KInv

(* A step that returns the block at `at', behind all others, to booting.   *)
BootGets(at) ==
  /\ ~ Booted /\ ~ Idle
  /\ at \in Nat /\ list' = list \cup {at} /\ \A a \in list : a <= at
  /\ hdr'[at].used = 1 /\ hdr'[at].size = req.size
  /\ \A a \in list \ {at} : hdr'[a].used = hdr[a].used
  /\ Count = 0 => at = root
  /\ Count > 0 => Last < at /\ at = Place(End(hdr, Last), req.ax)
  /\ Return(at)
  /\ got' = Append(got, Data(at)) /\ UNCHANGED <<tmp, halted>>

LEMMA BootGrows ==
  ASSUME KInv, HeapInv', NEW at, BootGets(at)
  PROVE  KInv'
<1>1. /\ Count \in 0 .. 13 /\ Count + 1 \in 1 .. 14 /\ ~ halted /\ tmp = NULL
      /\ \A i \in 1 .. Count : got[i] \in Nat
      /\ \A a \in list : a \in Nat /\ hdr[a].size \in Nat
  BY KFacts DEF BootGets
<1>2. /\ Count' = Count + 1 /\ got' \in Seq(Nat)
      /\ \A i \in 1 .. Count : got'[i] = got[i]
      /\ got'[Count + 1] = Data(at)
  <2>1. got \in Seq(Nat) /\ Data(at) \in Nat
    BY DEF KInv, Pointers, BootGets, Data, BLOCKSIZ
  <2> QED BY <2>1, AppendProperties DEF BootGets, Count
<1>3. Booted' => Count' = 14
  BY BootLen DEF Booted, Count
<1>4. Last' = at
  <2>1. got'[Count'] = Data(at) /\ at \in Nat
    BY <1>2 DEF BootGets
  <2>2. Data(at) - BLOCKSIZ = at
    BY <2>1 DEF Data, BLOCKSIZ
  <2> QED BY <2>1, <2>2 DEF Last
<1>5. req.size = Rounded(Count + 1) /\ req.ax = Boot[Count + 1][2]
  BY DEF KInv, Asked, BootGets
<1>6. Idle' /\ ~ halted' /\ tmp' = NULL
  BY <1>1 DEF BootGets, Return, Idle
<1>7. \A i \in 1 .. Count : got[i] < Data(at)
  BY <1>1, KFacts DEF BootGets, Data, BLOCKSIZ
<1>8. Pointers'
  <2>1. \A i \in 1 .. Count + 1 : i \in 1 .. Count \/ i = Count + 1
    BY <1>1
  <2>2. \A i, j \in 1 .. Count + 1 : i < j => got'[i] < got'[j]
    BY <1>1, <1>2, <1>7, <2>1 DEF KInv, Pointers
  <2>3. live'[Data(at)] = Rounded(Count + 1) /\ Data(at) \in DOMAIN live'
    BY <1>5 DEF BootGets, Return
  <2>4. ASSUME NEW i \in 1 .. Count
        PROVE  got[i] \in DOMAIN live' /\ live'[got[i]] = Rounded(i)
    <3>1. got[i] \in DOMAIN live /\ live[got[i]] = Rounded(i)
      BY <1>1 DEF KInv, Pointers, Given
    <3>2. got[i] # Data(at)
      BY <1>1, <1>7 DEF BootGets, Data, BLOCKSIZ
    <3> QED BY <3>1, <3>2 DEF BootGets, Return
  <2>5. \A i \in 1 .. Count + 1 :
          got'[i] \in DOMAIN live' /\ live'[got'[i]] = Rounded(i)
    BY <1>2, <2>1, <2>3, <2>4
  <2>6. Count' <= 14
    BY <1>1, <1>2
  <2>7. tmp' \in Nat /\ halted' \in BOOLEAN
    BY DEF BootGets, KInv, Pointers
  <2>8. \A i \in 1 .. Count + 1 :
          Given(i)' \/ (got'[i] \in DOMAIN live' /\ live'[got'[i]] = Rounded(i)')
    BY <2>5 DEF Rounded
  <2> QED BY <1>2, <1>6, <2>2, <2>6, <2>7, <2>8 DEF Pointers
<1>9. Asked'
  BY <1>6 DEF Asked
<1>10. Below'
  <2>1. Count' > 0
    BY <1>1, <1>2
  <2>2. Last' \in list' /\ hdr'[Last'].size = Rounded(Count')
    BY <1>2, <1>4, <1>5 DEF BootGets
  <2>3. \A b \in list' : b <= Last'
    BY <1>4 DEF BootGets
  <2>4. ASSUME NEW b \in list' PROVE hdr'[b].used = 1
    <3>1. CASE b = at
      BY <3>1 DEF BootGets
    <3>2. CASE b # at
      <4>1. b \in list /\ hdr'[b].used = hdr[b].used
        BY <3>2 DEF BootGets
      <4>2. Count > 0
        BY <3>2, <4>1, <1>1 DEF KInv, Below, BootGets
      <4>3. hdr[b].used = 1
        BY <4>1, <4>2, <1>1 DEF KInv, Below, BootGets
      <4> QED BY <4>1, <4>3
    <3> QED BY <3>1, <3>2
  <2> QED BY <2>1, <2>2, <2>3, <2>4 DEF Below, Rounded
<1>11. Layout'
  <2>1. End(hdr', at) = Data(at) + Rounded(Count + 1)
    BY <1>5 DEF BootGets, End
  <2>2. CASE Count = 0
    <3>1. End(hdr', at) = HeapBase + 2064
      BY <2>1, <2>2, RoundedIs, HeapBaseAssumption DEF BootGets, Data, BLOCKSIZ, root
    <3> QED BY <3>1, <2>2, <1>2, <1>4 DEF Layout
  <2>3. CASE Count \in 1 .. 3
    <3>1. req.ax = 1
      BY <2>3, <1>1, <1>5, BootAligns DEF PageTables
    <3>2. at = End(hdr, Last)
      <4>1. End(hdr, Last) \in Nat
        BY <2>3, KFacts DEF End
      <4>2. at = Place(End(hdr, Last), 1)
        BY <3>1, <2>3 DEF BootGets
      <4> QED BY <4>1, <4>2, PlaceUnaligned
    <3>3. CASE Count = 1
      <4>1. End(hdr', at) = HeapBase + 3104
        BY <2>1, <3>2, <3>3, RoundedIs, HeapBaseAssumption DEF KInv, Layout, Data, BLOCKSIZ
      <4> QED BY <4>1, <3>3, <1>2, <1>4 DEF Layout
    <3>4. CASE Count = 2
      <4>1. End(hdr', at) = HeapBase + 3648
        BY <2>1, <3>2, <3>4, RoundedIs, HeapBaseAssumption DEF KInv, Layout, Data, BLOCKSIZ
      <4> QED BY <4>1, <3>4, <1>2, <1>4 DEF Layout
    <3>5. CASE Count = 3
      <4>1. End(hdr', at) = HeapBase + 7760
        BY <2>1, <3>2, <3>5, RoundedIs, HeapBaseAssumption DEF KInv, Layout, Data, BLOCKSIZ
      <4> QED BY <4>1, <3>5, <1>2, <1>4 DEF Layout
    <3> QED BY <2>3, <3>3, <3>4, <3>5
  <2>4. CASE Count \in 4 .. 8
    <3>1. Count + 1 \in PageTables
      BY <2>4 DEF PageTables
    <3>2. req.ax = PAGE_SIZE /\ Rounded(Count + 1) = PAGE_SIZE
      BY <3>1, <1>1, <1>5, BootAligns, RoundedIs DEF PAGE_SIZE
    <3>3. Data(at) % PAGE_SIZE = 0 /\ Data(at) \in Nat
      <4>1. End(hdr, Last) \in Nat
        BY <2>4, KFacts DEF End
      <4>2. at = Place(End(hdr, Last), PAGE_SIZE) /\ at \in Nat
        BY <3>2, <2>4 DEF BootGets
      <4>3. PAGE_SIZE \in Nat \ {0}
        BY DEF PAGE_SIZE
      <4> QED BY <4>1, <4>2, <4>3, PlaceAligns DEF Data, BLOCKSIZ
    <3>4. End(hdr', at) % PAGE_SIZE = 0
      BY <2>1, <3>2, <3>3 DEF PAGE_SIZE
    <3>5. Count' \in 5 .. 9
      BY <2>4, <1>2
    <3> QED BY <3>4, <3>5, <1>4 DEF Layout
  <2>5. CASE Count \in 9 .. 13
    BY <2>5, <1>2 DEF Layout
  <2> QED BY <1>1, <2>2, <2>3, <2>4, <2>5
<1>12. Above'
  BY <1>4, <1>6 DEF Above, Untouched, BootGets
<1> QED BY <1>8, <1>9, <1>10, <1>11, <1>12 DEF KInv

(***************************************************************************)
(* lookup() answers booting or the shell.                                  *)
(***************************************************************************)

(* The pointer goes to the one who asked for it.                           *)
LEMMA AnswerReturns ==
  ASSUME Answer, NEW at, Return(at)
  PROVE  /\ Booted => tmp' = Data(at) /\ UNCHANGED got
         /\ ~ Booted => got' = Append(got, Data(at)) /\ UNCHANGED tmp
         /\ UNCHANGED halted
BY DEF Answer, Return

(* A step that returns the shell's first or second block to it.            *)
ShellGets(at) ==
  /\ Booted /\ ~ Idle /\ Return(at) /\ at \in Nat
  /\ tmp' = Data(at) /\ UNCHANGED <<got, halted>>
  /\ Top <= at
  /\ list \subseteq list'
  /\ \A a \in list' : a <= Last => /\ a \in list /\ hdr'[a].used = hdr[a].used
                                   /\ hdr'[a].size = hdr[a].size
  /\ (OneBlock \/ TwoBlocks)'

(* Top lies behind everything that booting obtained.                       *)
LEMMA TopIs ==
  ASSUME KInv, Booted
  PROVE  /\ Count = 14 /\ Top \in Nat /\ Last \in list /\ Last < Top
         /\ End(hdr, Last) = Top /\ Data(Last) = got[14] /\ Data(Last) < Top
         /\ hdr[Last].used = 1
<1>1. Count = 14 /\ Last \in list /\ Last \in Nat /\ got[14] = Data(Last)
  BY KFacts
<1>2. hdr[Last].size = 152 /\ hdr[Last].used = 1
  BY KFacts, RoundedIs
<1> QED BY <1>1, <1>2 DEF Top, End, Data, BLOCKSIZ

LEMMA ShellGrows ==
  ASSUME KInv, HeapInv', NEW at, ShellGets(at)
  PROVE  KInv'
<1>1. /\ Count = 14 /\ Top \in Nat /\ Last < Top /\ Last \in list /\ Last \in Nat
      /\ Data(Last) < Top
  BY TopIs, KFacts DEF ShellGets
<1>2. UNCHANGED <<Count, Last, Top>> /\ (Booted' <=> Booted)
  BY DEF ShellGets, Count, Last, Top, Booted
<1>3. Idle' /\ ~ halted /\ halted' = halted
  <2>1. ~ halted
    BY DEF ShellGets, KInv, Pointers
  <2> QED BY <2>1 DEF ShellGets, Return, Idle
<1>4. \A i \in 1 .. Count : got[i] \in Nat /\ got[i] <= Data(Last)
  BY <1>1, KFacts
<1>5. Pointers'
  <2>1. ASSUME NEW i \in 1 .. Count
        PROVE  got[i] \in DOMAIN live' /\ live'[got[i]] = Rounded(i)
    <3>1. got[i] \in DOMAIN live /\ live[got[i]] = Rounded(i)
      BY <1>3 DEF KInv, Pointers, Given
    <3>2. got[i] # Data(at)
      BY <1>1, <1>4 DEF ShellGets, Data, BLOCKSIZ
    <3> QED BY <3>1, <3>2 DEF ShellGets, Return
  <2>2. tmp' \in Nat
    BY DEF ShellGets, Data, BLOCKSIZ
  <2>3. \A i \in 1 .. Count' :
          Given(i)' \/ (got'[i] \in DOMAIN live' /\ live'[got'[i]] = Rounded(i)')
    BY <1>2, <2>1 DEF ShellGets, Rounded
  <2>4. Booted'
    BY <1>2 DEF ShellGets
  <2>5. /\ got' \in Seq(Nat) /\ Count' <= 14 /\ halted' \in BOOLEAN
        /\ \A i, j \in 1 .. Count' : i < j => got'[i] < got'[j]
    BY <1>2 DEF KInv, Pointers, ShellGets
  <2> QED BY <1>3, <2>2, <2>3, <2>4, <2>5 DEF Pointers
<1>6. Asked'
  BY <1>3 DEF Asked
<1>7. Below'
  <2>1. /\ Last \in list' /\ hdr'[Last].size = hdr[Last].size
        /\ hdr[Last].size = Rounded(Count)
    BY <1>1, KFacts DEF ShellGets
  <2>2. \A b \in list : b <= Last => hdr[b].used = 1
    <3>1. Count > 0
      BY <1>1
    <3> QED BY <1>3, <3>1 DEF KInv, Below
  <2>3. \A b \in list' : b <= Last => hdr'[b].used = 1
    BY <2>2 DEF ShellGets
  <2>4. Count' > 0 /\ Booted'
    BY <1>1, <1>2 DEF ShellGets
  <2> QED BY <1>2, <2>1, <2>3, <2>4 DEF Below, Rounded
<1>8. Layout'
  BY <1>1, <1>2 DEF Layout
<1>9. Above'
  BY DEF Above, ShellGets
<1> QED BY <1>5, <1>6, <1>7, <1>8, <1>9 DEF KInv

(* While the shell asks for memory its block, if it has one, is free.      *)
LEMMA AskingShell ==
  ASSUME KInv, Booted, ~ Idle
  PROVE  /\ ~ halted /\ tmp = NULL /\ req.ax = 1
         /\ req.size <= Largest /\ req.size \in Nat \ {0}
         /\ Untouched \/ (OneBlock /\ hdr[Top].used = 0)
<1>1. ~ halted /\ tmp = NULL /\ req.ax = 1 /\ req.size <= Largest
  BY DEF KInv, Pointers, Asked
<1>2. req.size \in Nat \ {0}
  BY LookupFacts, KFacts
<1>3. OneBlock => hdr[Top].used = 0
  <2>1. Top \in Nat
    BY TopIs
  <2> QED BY <2>1, <1>1 DEF OneBlock, Data, BLOCKSIZ, NULL
<1>4. ~ TwoBlocks
  BY <1>1 DEF TwoBlocks
<1> QED BY <1>1, <1>2, <1>3, <1>4 DEF KInv, Above

LEMMA KLookupSkip ==
  ASSUME KInv, Answer, LookupSkip
  PROVE  KInv'
<1>1. /\ ~ Idle /\ Ptr # NULL /\ ~ (Fits(Ptr) /\ Aligned(Ptr))
      /\ req' = [req EXCEPT !.blk = Ptr] /\ UNCHANGED <<hdr, list, live>>
  BY DEF LookupSkip
<1>2. HeapInv /\ HeapInv'
  BY InvLookupSkip, KFacts
<1>3. req \in [blk : Nat, size : Nat, ax : Nat \ {0}] /\ Ptr \in list
  BY <1>1, <1>2, LookupFacts DEF TypeOK, HeapInv
<1>4. req'.blk = Ptr /\ req'.size = req.size /\ req'.ax = req.ax
  BY <1>1, <1>3
<1>5. UNCHANGED <<got, tmp, halted>> /\ ~ Idle'
  <2>1. req' # NoReq
    BY <1>1, <1>4 DEF NoReq
  <2> QED BY <2>1 DEF Answer, Idle
<1>6. UNCHANGED <<Count, Last, Top>> /\ (Booted' <=> Booted)
  BY <1>5 DEF Count, Last, Top, Booted
<1>7. Pointers'
  BY <1>1, <1>5, <1>6 DEF KInv, Pointers, Given, Rounded
<1>8. Asked'
  <2>1. CASE ~ Booted
    BY <2>1, <1>1, <1>4, <1>6 DEF KInv, Asked, Rounded
  <2>2. CASE Booted
    <3>1. /\ tmp = NULL /\ req.ax = 1 /\ req.size <= Largest /\ req.size \in Nat
          /\ Untouched \/ (OneBlock /\ hdr[Top].used = 0)
      BY <2>2, <1>1, AskingShell
    <3>2. Ptr = Top => hdr[Top].size < req.size
      <4> HAVE Ptr = Top
      <4>1. Top \in list /\ Last < Top /\ Top \in Nat /\ Last \in Nat
        BY <2>2, <1>3, TopIs, KFacts
      <4>2. ~ Untouched
        BY <4>1 DEF Untouched
      <4>3. hdr[Top].used = 0
        BY <3>1, <4>2
      <4>4. Aligned(Ptr)
        BY <3>1, <4>1 DEF Aligned, Data, BLOCKSIZ
      <4>5. ~ (hdr[Top].size >= req.size)
        BY <4>3, <4>4, <1>1 DEF Fits
      <4>6. hdr[Top].size \in Nat
        BY <4>1, KFacts
      <4> QED BY <4>5, <4>6, <3>1
    <3>3. Largest' = Largest
      BY DEF Largest
    <3> QED BY <2>2, <3>1, <3>2, <3>3, <1>1, <1>4, <1>5, <1>6 DEF Asked
  <2> QED BY <2>1, <2>2
<1>9. Below' /\ Layout'
  BY <1>1, <1>5, <1>6 DEF KInv, Below, Layout, Rounded, End
<1>10. Above'
  BY <1>1, <1>5, <1>6
     DEF KInv, Above, Untouched, OneBlock, TwoBlocks, Largest
<1> QED BY <1>2, <1>7, <1>8, <1>9, <1>10 DEF KInv

(* Nothing of booting is free while something is asked for.                *)
LEMMA BootUsed ==
  ASSUME KInv, ~ halted, Count > 0, NEW b \in list, b <= Last
  PROVE  hdr[b].used = 1
BY DEF KInv, Below

LEMMA KLookupCreate ==
  ASSUME KInv, Answer, LookupCreate
  PROVE  KInv'
<1>1. HeapInv /\ HeapInv'
  BY InvLookupCreate, KFacts
<1>2. PICK b, at : CreatedAt(b, at)
  BY <1>1, Created
<1>3. /\ ~ Idle /\ b = req.blk /\ b \in list /\ b # NULL /\ hdr[b].next = NULL
      /\ at = Place(End(hdr, b), req.ax) /\ at \in Nat
      /\ End(hdr, b) <= at /\ at \notin list
      /\ list' = list \cup {at} /\ Return(at)
      /\ hdr'[at].used = 1 /\ hdr'[at].size = req.size /\ hdr'[at].next = NULL
      /\ hdr'[b].used = hdr[b].used /\ hdr'[b].next = at
      /\ hdr'[b].size = at - Data(b)
      /\ \A a \in list \ {b} : hdr'[a] = hdr[a]
  BY <1>2 DEF CreatedAt
<1>4. b \in Nat /\ hdr[b].size \in Nat /\ \A a \in list : a \in Nat /\ a <= b
  BY <1>3, KFacts DEF Struct, Forward
<1>5. b < at /\ End(hdr, b) = b + 16 + hdr[b].size
  BY <1>3, <1>4 DEF End, Data, BLOCKSIZ
<1>6. CASE ~ Booted
  <2>1. got' = Append(got, Data(at)) /\ UNCHANGED <<tmp, halted>>
    BY <1>3, <1>6, AnswerReturns
  <2>2. Count \in 0 .. 13 /\ Count # 0
    <3>1. Count \in 0 .. 13
      BY <1>6, KFacts
    <3>2. hdr[root].size # 0
      BY <1>1, <1>3 DEF HeapInv, RequestOK
    <3> QED BY <3>1, <3>2 DEF KInv, Below
  <2>3. b = Last
    BY <1>3, <1>6, <2>2, BootEnd
  <2>4. \A a \in list : a <= at
    BY <1>3, <1>4, <1>5
  <2>5. \A a \in list \ {at} : hdr'[a].used = hdr[a].used
    BY <1>3
  <2>6. BootGets(at)
    BY <1>3, <1>5, <1>6, <2>1, <2>2, <2>3, <2>4, <2>5 DEF BootGets
  <2> QED BY <1>1, <2>6, BootGrows
<1>7. CASE Booted
  <2>1. tmp' = Data(at) /\ UNCHANGED <<got, halted>>
    BY <1>3, <1>7, AnswerReturns
  <2>2. /\ ~ halted /\ tmp = NULL /\ req.ax = 1
        /\ req.size <= Largest /\ req.size \in Nat \ {0}
        /\ Untouched \/ (OneBlock /\ hdr[Top].used = 0)
    BY <1>3, <1>7, AskingShell
  <2>3. /\ Count = 14 /\ Top \in Nat /\ Last \in list /\ Last < Top
        /\ End(hdr, Last) = Top /\ Data(Last) < Top /\ Last \in Nat
        /\ hdr[Last].size \in Nat
    BY <1>7, TopIs, KFacts
  <2>4. at = End(hdr, b)
    <3>1. at = Place(End(hdr, b), 1)
      BY <1>3, <2>2
    <3>2. End(hdr, b) \in Nat
      BY <1>4, <1>5
    <3> QED BY <3>1, <3>2, PlaceUnaligned
  <2>5. UNCHANGED <<Last, Top, Largest>>
    BY <2>1 DEF Last, Top, Largest, Count
  <2>6. Data(at) - BLOCKSIZ = at /\ Data(at) # NULL
    BY <1>3 DEF Data, BLOCKSIZ, NULL
  <2>7. CASE Untouched
    <3>1. b = Last
      BY <1>3, <1>4, <2>3, <2>7 DEF Untouched
    <3>2. at = Top
      BY <2>3, <2>4, <3>1
    <3>3. hdr'[Last].size = hdr[Last].size
      BY <1>3, <1>4, <1>5, <2>4, <3>1 DEF Data, BLOCKSIZ
    <3>4. \A a \in list' : a <= Last \/ a = Top
      BY <1>3, <2>7, <3>2 DEF Untouched
    <3>5. hdr'[Top].size <= 2 * Largest + BLOCKSIZ
      BY <1>3, <2>2, <3>2, LargestIs DEF BLOCKSIZ
    <3>6. OneBlock'
      BY <1>3, <2>1, <2>5, <3>2, <3>4, <3>5 DEF OneBlock
    <3>7. \A a \in list' : a <= Last =>
            a \in list /\ hdr'[a].used = hdr[a].used /\ hdr'[a].size = hdr[a].size
      BY <1>3, <2>3, <3>1, <3>2, <3>3
    <3>8. ShellGets(at)
      BY <1>3, <1>7, <2>1, <2>3, <3>2, <3>6, <3>7 DEF ShellGets
    <3> QED BY <1>1, <3>8, ShellGrows
  <2>8. CASE OneBlock /\ hdr[Top].used = 0
    <3>1. Top \in list /\ hdr[Top].next = NULL
      BY <2>8 DEF OneBlock
    <3>2. b = Top
      <4>1. b <= Top /\ Top <= b
        BY <1>3, <1>4, <3>1, KFacts DEF Struct, Forward
      <4> QED BY <4>1, <1>4, <2>3
    <3>3. hdr[Top].size < req.size
      BY <1>3, <1>7, <3>2 DEF KInv, Asked
    <3>4. hdr'[Top].size = hdr[Top].size
      BY <1>3, <1>4, <1>5, <2>4, <3>2 DEF Data, BLOCKSIZ
    <3>5. \A a \in list' : a <= Last \/ a = Top \/ a = at
      BY <1>3, <2>8 DEF OneBlock
    <3>6. hdr'[Top].size <= Largest /\ hdr'[at].size <= Largest
      BY <1>3, <1>4, <2>2, <3>2, <3>3, <3>4, LargestIs
    <3>7. TwoBlocks'
      BY <1>3, <2>1, <2>5, <2>6, <2>8, <3>1, <3>2, <3>5, <3>6 DEF TwoBlocks
    <3>8. \A a \in list' : a <= Last =>
            a \in list /\ hdr'[a].used = hdr[a].used /\ hdr'[a].size = hdr[a].size
      BY <1>3, <1>4, <1>5, <2>3, <3>2
    <3>9. Top <= at
      BY <1>3, <1>5, <2>3, <3>2
    <3>10. ShellGets(at)
      BY <1>3, <1>7, <2>1, <3>7, <3>8, <3>9 DEF ShellGets
    <3> QED BY <1>1, <3>10, ShellGrows
  <2> QED BY <2>2, <2>7, <2>8
<1> QED BY <1>6, <1>7

LEMMA KLookupTake ==
  ASSUME KInv, Answer, LookupTake
  PROVE  KInv'
<1>1. HeapInv /\ HeapInv'
  BY InvLookupTake, KFacts
<1>2. /\ ~ Idle /\ Ptr # NULL /\ hdr[Ptr].size >= req.size /\ hdr[Ptr].used = 0
      /\ hdr' = HandOut(hdr, Ptr, req.size)
      /\ list' = (list \cup {hdr'[Ptr].next}) \ {NULL}
      /\ Return(Ptr)
  BY DEF LookupTake, Fits
<1>3. Ptr \in list /\ Ptr \in Nat /\ hdr[Ptr].size \in Nat /\ req.size \in Nat \ {0}
  BY <1>1, <1>2, LookupFacts, KFacts
<1>4. Booted
  <2> SUFFICES ASSUME ~ Booted PROVE FALSE
    OBVIOUS
  <2>1. Count \in 0 .. 13 /\ ~ halted
    BY KFacts
  <2>2. CASE Count = 0
    <3>1. hdr[Ptr].size = 0
      BY <1>3, <2>2 DEF KInv, Below
    <3> QED BY <3>1, <1>2, <1>3
  <2>3. CASE Count > 0
    <3>1. Ptr <= Last
      BY <1>3, <2>3 DEF KInv, Below
    <3>2. hdr[Ptr].used = 1
      BY <3>1, <1>3, <2>1, <2>3, BootUsed
    <3> QED BY <3>2, <1>2
  <2> QED BY <2>1, <2>2, <2>3
<1>5. /\ ~ halted /\ tmp = NULL
      /\ Untouched \/ (OneBlock /\ hdr[Top].used = 0)
  BY <1>2, <1>4, AskingShell
<1>6. /\ Count = 14 /\ Count > 0 /\ Top \in Nat /\ Last \in list /\ Last < Top
      /\ Last \in Nat
  BY <1>4, TopIs, KFacts
<1>7. ~ (Ptr <= Last)
  BY <1>2, <1>3, <1>5, <1>6, BootUsed
<1>8. OneBlock /\ Ptr = Top
  BY <1>3, <1>5, <1>7 DEF Untouched, OneBlock
<1>9. hdr[Ptr].next = NULL
  BY <1>8 DEF OneBlock
<1>10. HandedOut(hdr, list, Ptr, req.size, hdr', list')
  <2>1. Struct(hdr, list) /\ req.size <= hdr[Ptr].size
    BY <1>2, <1>3, KFacts
  <2> QED BY <1>2, <1>3, <2>1, StructHandOut
<1>11. /\ hdr'[Ptr].used = 1 /\ hdr'[Ptr].next = NULL
       /\ hdr'[Ptr].size = hdr[Ptr].size
       /\ \A a \in list \ {Ptr} : /\ hdr'[a].used = hdr[a].used
                                  /\ hdr'[a].size = hdr[a].size
  BY <1>9, <1>10 DEF HandedOut
<1>12. list' = list
  BY <1>2, <1>11, KFacts
<1>13. tmp' = Data(Ptr) /\ UNCHANGED <<got, halted>>
  BY <1>2, <1>4, AnswerReturns
<1>14. UNCHANGED <<Last, Top, Largest>>
  BY <1>13 DEF Last, Top, Largest, Count
<1>15. OneBlock'
  BY <1>8, <1>11, <1>12, <1>13, <1>14 DEF OneBlock
<1>16. \A a \in list' : a <= Last =>
         a \in list /\ hdr'[a].used = hdr[a].used /\ hdr'[a].size = hdr[a].size
  BY <1>7, <1>11, <1>12
<1>17. ShellGets(Ptr)
  BY <1>2, <1>3, <1>4, <1>6, <1>8, <1>12, <1>13, <1>15, <1>16 DEF ShellGets
<1> QED BY <1>1, <1>17, ShellGrows

LEMMA KLookupTakeEmpty ==
  ASSUME KInv, Answer, LookupTakeEmpty
  PROVE  KInv'
<1>1. HeapInv /\ HeapInv'
  BY InvLookupTakeEmpty, KFacts
<1>2. /\ ~ Idle /\ Ptr # NULL /\ hdr[Ptr].size = 0
      /\ hdr' = [hdr EXCEPT ![Ptr] = [used |-> 1, size |-> req.size,
                                      prev |-> hdr[Ptr].prev,
                                      next |-> hdr[Ptr].next]]
      /\ Return(Ptr) /\ UNCHANGED list
  BY DEF LookupTakeEmpty
<1>3. Ptr \in list /\ Ptr \in Nat /\ Ptr \in DOMAIN hdr
  BY <1>1, <1>2, LookupFacts
<1>4. list = {root} /\ Ptr = root /\ hdr[root].used = 0
  BY <1>1, <1>2, <1>3 DEF HeapInv, EmptyIsRoot
<1>5. Count = 0
  <2>1. Count > 0 => Last \in list /\ hdr[Last].used = 1
    BY KFacts
  <2>2. Count \in 0 .. 14
    BY KFacts
  <2> QED BY <1>4, <2>1, <2>2
<1>6. ~ Booted
  BY <1>5, KFacts
<1>7. got' = Append(got, Data(Ptr)) /\ UNCHANGED <<tmp, halted>>
  BY <1>2, <1>6, AnswerReturns
<1>8. hdr'[Ptr].used = 1 /\ hdr'[Ptr].size = req.size
  BY <1>2, <1>3
<1>9. BootGets(Ptr)
  BY <1>2, <1>3, <1>4, <1>5, <1>6, <1>7, <1>8 DEF BootGets
<1> QED BY <1>1, <1>9, BootGrows

LEMMA KAnswer ==
  ASSUME KInv, Answer
  PROVE  KInv'
BY KLookupCreate, KLookupTake, KLookupTakeEmpty, KLookupSkip DEF Answer, Lookup

(***************************************************************************)
(* The shell and the shutdown                                              *)
(***************************************************************************)

LEMMA KShellAlloc ==
  ASSUME KInv, ShellAlloc
  PROVE  KInv'
<1>1. PICK n \in TempSizes : kmalloca(n, 1)
  BY DEF ShellAlloc
<1>2. Booted /\ ~ halted /\ tmp = NULL /\ UNCHANGED <<got, tmp, halted>>
  BY DEF ShellAlloc
<1>3. n \in Nat \ {0} /\ RoundUp(n) <= Largest
  BY LargestIs
<1>4. HeapInv'
  <2>1. CarefulRequest(1)
    BY DEF CarefulRequest
  <2> QED BY <1>1, <1>3, <2>1, KFacts, InvKmalloca
<1>5. /\ req' = [blk |-> NULL, size |-> RoundUp(n), ax |-> 1]
      /\ UNCHANGED <<hdr, list, live>>
  BY <1>1, <1>3 DEF kmalloca
<1>6. UNCHANGED <<Count, Last, Top, Largest>> /\ Booted'
  BY <1>2 DEF Count, Last, Top, Largest, Booted
<1>7. Pointers'
  BY <1>2, <1>5, <1>6 DEF KInv, Pointers, Given, Rounded
<1>8. Asked'
  <2>1. req'.blk = NULL /\ req'.size = RoundUp(n) /\ req'.ax = 1
    BY <1>5
  <2>2. Top # NULL
    BY <1>2, TopIs, KFacts DEF NULL
  <2> QED BY <1>2, <1>3, <1>6, <2>1, <2>2 DEF Asked
<1>9. Below' /\ Layout'
  BY <1>2, <1>5, <1>6 DEF KInv, Below, Layout, Rounded, End
<1>10. Above'
  BY <1>2, <1>5, <1>6 DEF KInv, Above, Untouched, OneBlock, TwoBlocks
<1> QED BY <1>4, <1>7, <1>8, <1>9, <1>10 DEF KInv

(* The neighbours of a block in use that the kernel gives back.            *)
LEMMA ShellFreeIsCareful ==
  ASSUME KInv, tmp # NULL, NEW b, b = tmp - BLOCKSIZ
  PROVE  /\ Booted /\ ~ halted /\ b \in list /\ tmp \in DOMAIN live
         /\ CarefulFree(b)
         /\ Top <= b /\ hdr[b].next = NULL
         /\ \/ OneBlock /\ b = Top /\ (hdr[b].prev # NULL => hdr[hdr[b].prev].used = 1)
            \/ TwoBlocks /\ hdr[b].prev = Top
<1>1. Booted /\ ~ halted
  BY DEF KInv, Pointers
<1>2. /\ Top \in Nat /\ Last < Top /\ Count > 0 /\ Last \in Nat /\ Last \in list
      /\ Struct(hdr, list) /\ HeapInv
  BY <1>1, TopIs, KFacts
<1>3. OneBlock \/ TwoBlocks
  BY <1>1 DEF KInv, Above, Untouched
<1>4. CASE OneBlock
  <2>1. /\ Top \in list /\ hdr[Top].next = NULL /\ tmp = Data(Top)
        /\ hdr[Top].used = 1 /\ \A a \in list : a <= Last \/ a = Top
    BY <1>4 DEF OneBlock
  <2>2. b = Top
    BY <2>1, <1>2 DEF Data, BLOCKSIZ
  <2>3. hdr[b].prev # NULL => hdr[hdr[b].prev].used = 1
    <3> HAVE hdr[b].prev # NULL
    <3>1. b # root /\ hdr[b].prev \in list /\ hdr[hdr[b].prev].next = b
      BY <2>1, <2>2, <1>2 DEF Struct, Backward
    <3>2. hdr[b].prev # Top
      BY <2>1, <2>2, <3>1, <1>2, KFacts
    <3> QED BY <2>1, <3>1, <3>2, <1>1, <1>2, BootUsed
  <2>4. tmp \in DOMAIN live
    BY <2>1, <1>2 DEF HeapInv, Held
  <2>5. CarefulFree(b)
    BY <2>1, <2>2 DEF CarefulFree
  <2> QED BY <1>1, <1>2, <1>4, <2>1, <2>2, <2>3, <2>4, <2>5
<1>5. CASE TwoBlocks
  <2>1. /\ Top \in list /\ b \in list /\ hdr[Top].next = b
        /\ hdr[b].next = NULL /\ hdr[b].used = 1
    BY <1>5 DEF TwoBlocks
  <2>2. hdr[b].prev = Top /\ Top <= b
    <3>1. b # NULL /\ b = End(hdr, Top) /\ hdr[Top].size \in Nat
      BY <2>1, KFacts DEF Struct, Forward
    <3> QED BY <2>1, <3>1, <1>2 DEF Struct, Backward, End, Data, BLOCKSIZ
  <2>3. tmp = Data(b)
    BY <2>1 DEF KInv, Pointers, Data, BLOCKSIZ
  <2>4. tmp \in DOMAIN live
    BY <2>1, <2>3, <1>2 DEF HeapInv, Held
  <2>5. CarefulFree(b)
    BY <2>1 DEF CarefulFree
  <2> QED BY <1>1, <1>5, <2>1, <2>2, <2>4, <2>5
<1> QED BY <1>3, <1>4, <1>5

LEMMA KShellFree ==
  ASSUME KInv, ShellFree
  PROVE  KInv'
<1> DEFINE b == tmp - BLOCKSIZ
<1>1. tmp # NULL /\ kfree(tmp) /\ tmp' = NULL /\ UNCHANGED <<got, halted>>
  BY DEF ShellFree
<1>2. /\ Booted /\ ~ halted /\ b \in list /\ tmp \in DOMAIN live
      /\ CarefulFree(b)
      /\ Top <= b /\ hdr[b].next = NULL
      /\ \/ OneBlock /\ b = Top /\ (hdr[b].prev # NULL => hdr[hdr[b].prev].used = 1)
         \/ TwoBlocks /\ hdr[b].prev = Top
  BY <1>1, ShellFreeIsCareful
<1>3. HeapInv'
  BY <1>1, <1>2, KFacts, InvKfree
<1>4. FreedBlock(b) /\ FreedSizes(b)
  BY <1>1, <1>2, KFacts, FreeKeepsList
<1>5. Idle' /\ live' = [q \in DOMAIN live \ {tmp} |-> live[q]]
  BY <1>1 DEF kfree, Idle
<1>6. UNCHANGED <<Count, Last, Top, Largest>> /\ Booted'
  BY <1>1, <1>2 DEF Count, Last, Top, Largest, Booted
<1>7. /\ Count = 14 /\ Count > 0 /\ Top \in Nat /\ Last < Top /\ Last \in Nat
      /\ Last \in list /\ Data(Last) < Top /\ b \in Nat /\ Data(b) = tmp
      /\ hdr[Last].size = Rounded(Count)
      /\ \A i \in 1 .. Count : got[i] \in Nat /\ got[i] <= Data(Last)
  <2>1. tmp \in Nat
    BY DEF KInv, Pointers
  <2>2. b \in Nat /\ Data(b) = tmp
    BY <1>2, <2>1, KFacts DEF Data, BLOCKSIZ
  <2> QED BY <1>2, <2>2, TopIs, KFacts
<1> HIDE DEF b
<1>8. Pointers'
  <2>1. ASSUME NEW i \in 1 .. Count
        PROVE  got[i] \in DOMAIN live' /\ live'[got[i]] = Rounded(i)
    <3>1. got[i] \in DOMAIN live /\ live[got[i]] = Rounded(i)
      BY <1>2 DEF KInv, Pointers, Given
    <3>2. got[i] # tmp
      BY <1>2, <1>7 DEF Data, BLOCKSIZ
    <3> QED BY <3>1, <3>2, <1>5
  <2>2. tmp' \in Nat
    BY <1>1 DEF NULL
  <2>3. \A i \in 1 .. Count' :
          Given(i)' \/ (got'[i] \in DOMAIN live' /\ live'[got'[i]] = Rounded(i)')
    BY <1>1, <1>6, <2>1 DEF Rounded
  <2>4. /\ got' \in Seq(Nat) /\ Count' <= 14 /\ halted' \in BOOLEAN
        /\ \A i, j \in 1 .. Count' : i < j => got'[i] < got'[j]
    BY <1>1, <1>6 DEF KInv, Pointers
  <2> QED BY <1>1, <1>5, <1>6, <2>2, <2>3, <2>4 DEF Pointers
<1>9. Asked'
  BY <1>5 DEF Asked
<1>10. Layout'
  BY <1>6, <1>7 DEF Layout
<1>11. /\ Last \in list' /\ hdr'[Last].size = hdr[Last].size
       /\ (OneBlock)'
  <2>1. CASE OneBlock /\ b = Top /\ (hdr[b].prev # NULL => hdr[hdr[b].prev].used = 1)
    <3>1. /\ list' = list
          /\ \A a \in list : hdr'[a].size = hdr[a].size /\ hdr'[a].next = hdr[a].next
      BY <1>2, <1>4, <2>1 DEF FreedSizes
    <3>2. hdr'[Top].used = 0
      BY <1>2, <1>4, <2>1, <3>1 DEF FreedBlock
    <3>3. OneBlock'
      BY <1>1, <1>2, <1>6, <2>1, <3>1, <3>2 DEF OneBlock
    <3> QED BY <1>7, <3>1, <3>3
  <2>2. CASE TwoBlocks /\ hdr[b].prev = Top
    <3>1. /\ Top \in list /\ hdr[Top].used = 0 /\ hdr[Top].size <= Largest
          /\ hdr[b].size <= Largest
          /\ \A a \in list : a <= Last \/ a = Top \/ a = b
          /\ hdr[Top].next = b /\ b \in list
      BY <2>2 DEF TwoBlocks, b
    <3>2. Top # NULL /\ hdr[Top].size \in Nat /\ hdr[b].size \in Nat
      BY <3>1, KFacts
    <3>3. /\ list' = list \ {b}
          /\ hdr'[Top].size = hdr[Top].size + BLOCKSIZ + hdr[b].size
          /\ hdr'[Top].next = NULL
          /\ \A a \in list \ {b, Top} : hdr'[a].size = hdr[a].size
      BY <1>2, <1>4, <2>2, <3>1, <3>2 DEF FreedSizes
    <3>4. Top # b
      BY <3>1, <1>2, <3>2 DEF NULL
    <3>5. hdr'[Top].used = 0
      BY <1>4, <3>1, <3>3, <3>4 DEF FreedBlock
    <3>6. hdr'[Top].size <= 2 * Largest + BLOCKSIZ
      BY <3>1, <3>2, <3>3, LargestIs DEF BLOCKSIZ
    <3>7. OneBlock'
      BY <1>1, <1>6, <3>1, <3>3, <3>4, <3>5, <3>6 DEF OneBlock
    <3> QED BY <1>2, <1>7, <3>3, <3>7
  <2> QED BY <1>2, <2>1, <2>2
<1>12. Below'
  <2>1. ASSUME NEW a \in list', a <= Last
        PROVE  hdr'[a].used = 1
    <3>1. a \in list /\ a # b
      BY <1>2, <1>4, <1>7, <2>1 DEF FreedBlock
    <3>2. hdr'[a].used = hdr[a].used
      BY <1>4, <3>1 DEF FreedBlock
    <3> QED BY <1>2, <1>7, <2>1, <3>1, <3>2, BootUsed
  <2> QED BY <1>6, <1>7, <1>11, <2>1 DEF Below, Rounded
<1>13. Above'
  BY <1>11 DEF Above
<1> QED BY <1>3, <1>8, <1>9, <1>10, <1>12, <1>13 DEF KInv

(* The RAM disk's block lies between two blocks of booting.                *)
LEMMA ShutdownIsCareful ==
  ASSUME KInv, Booted, ~ halted, NEW b, b = got[RamdiskData] - BLOCKSIZ
  PROVE  /\ got[RamdiskData] \in DOMAIN live /\ b \in list /\ b < Last
         /\ hdr[b].prev # NULL => hdr[hdr[b].prev].used = 1
         /\ hdr[b].next # NULL => hdr[hdr[b].next].used = 1
         /\ CarefulFree(b)
<1>1. /\ Count = 14 /\ Count > 0 /\ Last \in Nat /\ Last \in list
      /\ Struct(hdr, list) /\ HeapInv /\ got[14] = Data(Last)
      /\ got[11] \in Nat
  BY TopIs, KFacts
<1>2. got[11] < got[14] /\ got[11] \in DOMAIN live
  <2>1. 11 \in 1 .. Count /\ 14 \in 1 .. Count
    BY <1>1
  <2>2. got[11] < got[14]
    BY <2>1 DEF KInv, Pointers
  <2>3. got[11] \in DOMAIN live
    BY <2>1 DEF KInv, Pointers, Given
  <2> QED BY <2>2, <2>3
<1>3. b \in list /\ hdr[b].used = 1
  BY <1>1, <1>2 DEF HeapInv, Held, RamdiskData
<1>4. b < Last /\ b \in Nat
  BY <1>1, <1>2 , <1>3, KFacts DEF RamdiskData, Data, BLOCKSIZ
<1>5. hdr[b].prev # NULL => hdr[hdr[b].prev].used = 1
  <2> HAVE hdr[b].prev # NULL
  <2>1. hdr[b].prev \in list /\ hdr[hdr[b].prev].next = b /\ b # NULL
    BY <1>1, <1>3, KFacts DEF Struct, Backward
  <2>2. b = End(hdr, hdr[b].prev)
    BY <1>1, <2>1 DEF Struct, Forward
  <2>3. hdr[b].prev \in Nat /\ hdr[hdr[b].prev].size \in Nat
    BY <2>1, KFacts
  <2>4. hdr[b].prev <= Last
    BY <2>2, <2>3, <1>1, <1>4 DEF End, Data, BLOCKSIZ
  <2> QED BY <1>1, <2>1, <2>4, BootUsed
<1>6. hdr[b].next # NULL => hdr[hdr[b].next].used = 1
  <2> HAVE hdr[b].next # NULL
  <2>1. hdr[b].next \in list /\ hdr[b].next = End(hdr, b)
    BY <1>1, <1>3 DEF Struct, Forward
  <2>2. End(hdr, b) <= Last
    BY <1>1, <1>3, <1>4 DEF Struct, Forward
  <2> QED BY <1>1, <2>1, <2>2, BootUsed
<1> QED BY <1>2, <1>3, <1>4, <1>5, <1>6 DEF CarefulFree, RamdiskData

LEMMA KShutdown ==
  ASSUME KInv, Shutdown
  PROVE  KInv'
<1> DEFINE p == got[RamdiskData]
           b == p - BLOCKSIZ
<1>1. /\ Booted /\ Idle /\ ~ halted /\ tmp = NULL /\ kfree(p)
      /\ halted' = TRUE /\ UNCHANGED <<got, tmp>>
  BY DEF Shutdown
<1>2. /\ p \in DOMAIN live /\ b \in list /\ b < Last
      /\ hdr[b].prev # NULL => hdr[hdr[b].prev].used = 1
      /\ hdr[b].next # NULL => hdr[hdr[b].next].used = 1
      /\ CarefulFree(b)
  BY <1>1, ShutdownIsCareful
<1>3. HeapInv'
  BY <1>1, <1>2, KFacts, InvKfree
<1>4. FreedBlock(b) /\ FreedSizes(b)
  BY <1>1, <1>2, KFacts, FreeKeepsList
<1>5. Idle' /\ live' = [q \in DOMAIN live \ {p} |-> live[q]]
  BY <1>1 DEF kfree, Idle
<1>6. UNCHANGED <<Count, Last, Top, Largest>> /\ Booted'
  BY <1>1 DEF Count, Last, Top, Largest, Booted
<1>7. /\ Count = 14 /\ Count > 0 /\ Top \in Nat /\ Last < Top /\ Last \in Nat
      /\ Last \in list /\ hdr[Last].size = Rounded(Count)
  BY <1>1, TopIs, KFacts
<1>8. /\ list' = list
      /\ \A a \in list : hdr'[a].size = hdr[a].size /\ hdr'[a].next = hdr[a].next
      /\ \A a \in list \ {b} : hdr'[a].used = hdr[a].used
  <2>1. /\ list' = list
        /\ \A a \in list : hdr'[a].size = hdr[a].size /\ hdr'[a].next = hdr[a].next
    BY <1>2, <1>4 DEF FreedSizes
  <2> QED BY <2>1, <1>4 DEF FreedBlock
<1>9. Pointers'
  <2>1. ASSUME NEW i \in 1 .. Count, i # RamdiskData
        PROVE  got[i] \in DOMAIN live' /\ live'[got[i]] = Rounded(i)
    <3>1. got[i] \in DOMAIN live /\ live[got[i]] = Rounded(i)
      BY <1>1 DEF KInv, Pointers, Given
    <3>2. got[i] # p
      <4>1. \A j, k \in 1 .. 14 : j < k => got[j] < got[k]
        BY <1>7 DEF KInv, Pointers
      <4>2. i \in 1 .. 14 /\ got[i] \in Nat /\ got[11] \in Nat
        BY <1>7, KFacts
      <4>3. i < 11 \/ 11 < i
        BY <4>2, <2>1 DEF RamdiskData
      <4>4. got[i] < got[11] \/ got[11] < got[i]
        BY <4>1, <4>2, <4>3
      <4> QED BY <4>2, <4>4 DEF RamdiskData
    <3> QED BY <3>1, <3>2, <1>5
  <2>2. \A i \in 1 .. Count' :
          Given(i)' \/ (got'[i] \in DOMAIN live' /\ live'[got'[i]] = Rounded(i)')
    BY <1>1, <1>6, <2>1 DEF Rounded, Given
  <2>3. /\ got' \in Seq(Nat) /\ Count' <= 14 /\ tmp' \in Nat
        /\ \A i, j \in 1 .. Count' : i < j => got'[i] < got'[j]
    BY <1>1, <1>6 DEF KInv, Pointers
  <2>4. halted' \in BOOLEAN
    BY <1>1
  <2> QED BY <1>1, <1>5, <1>6, <2>2, <2>3, <2>4 DEF Pointers
<1>10. Asked'
  BY <1>5 DEF Asked
<1>11. Layout'
  BY <1>6, <1>7 DEF Layout
<1>12. Below'
  <2>1. ASSUME NEW a \in list', a <= Last
        PROVE  hdr'[a].used = 1 \/ a = b
    BY <1>1, <1>7, <1>8, <2>1, BootUsed
  <2>2. ASSUME NEW a \in list', a <= Last
        PROVE  hdr'[a].used = 1 \/ (halted' /\ a = got'[RamdiskData] - BLOCKSIZ)
    BY <1>1, <2>1, <2>2
  <2>3. Last \in list' /\ hdr'[Last].size = Rounded(Count)
    BY <1>7, <1>8
  <2> QED BY <1>6, <1>7, <2>2, <2>3 DEF Below, Rounded
<1>13. Above'
  <2>1. Untouched \/ OneBlock
    BY <1>1 DEF KInv, Above, TwoBlocks
  <2>2. Untouched => Untouched'
    BY <1>1, <1>6, <1>8 DEF Untouched
  <2>3. OneBlock => OneBlock'
    <3> HAVE OneBlock
    <3>1. Top \in list /\ Top # b
      BY <1>2, <1>7, KFacts DEF OneBlock
    <3> QED BY <1>1, <1>6, <1>8, <3>1 DEF OneBlock
  <2> QED BY <2>1, <2>2, <2>3 DEF Above
<1> QED BY <1>3, <1>9, <1>10, <1>11, <1>12, <1>13 DEF KInv

LEMMA KInvNext ==
  ASSUME KInv, [KNext]_kvars
  PROVE  KInv'
<1>1. CASE UNCHANGED kvars
  <2>1. UNCHANGED vars /\ UNCHANGED <<got, tmp, halted>>
    BY <1>1 DEF kvars
  <2>2. UNCHANGED <<hdr, list, live, req>>
    BY <2>1 DEF vars
  <2>3. HeapInv'
    BY <2>1, KFacts, InvStutter
  <2>4. UNCHANGED <<Count, Last, Top, Largest>> /\ (Booted' <=> Booted) /\ (Idle' <=> Idle)
    BY <2>1, <2>2 DEF Count, Last, Top, Largest, Booted, Idle
  <2>5. Pointers'
    BY <2>1, <2>2, <2>4 DEF KInv, Pointers, Given, Rounded
  <2>6. Asked'
    BY <2>1, <2>2, <2>4 DEF KInv, Asked, Rounded
  <2>7. Below' /\ Layout'
    BY <2>1, <2>2, <2>4 DEF KInv, Below, Layout, Rounded, End
  <2>8. Above'
    BY <2>1, <2>2, <2>4 DEF KInv, Above, Untouched, OneBlock, TwoBlocks
  <2> QED BY <2>3, <2>5, <2>6, <2>7, <2>8 DEF KInv
<1> QED
  BY <1>1, KBootAlloc, KAnswer, KShellAlloc, KShellFree, KShutdown DEF KNext

LEMMA KInvHolds == KSpec => []KInv
<1>1. KInit => KInv
  BY KInvInit
<1>2. KInv /\ [KNext]_kvars => KInv'
  BY KInvNext
<1> QED BY <1>1, <1>2, PTL DEF KSpec

(***************************************************************************)
(* Theorems                                                                *)
(***************************************************************************)

(* kernel_main() and what it calls never make a request or a kfree() that  *)
(* the heap cannot serve, whatever the RAM disk holds and however long the *)
(* shell runs.                                                             *)
THEOREM KernelCareful == KSpec => []KernelIsCareful
<1>1. KInv => KernelIsCareful
  <2> SUFFICES ASSUME KInv PROVE KernelIsCareful
    OBVIOUS
  <2>1. ~ Booted => CarefulRequest(Boot[Len(got) + 1][2])
    BY BootIsCareful DEF Count
  <2>2. tmp # NULL => CarefulFree(tmp - BLOCKSIZ)
    BY ShellFreeIsCareful
  <2>3. Booted /\ ~ halted => CarefulFree(got[RamdiskData] - BLOCKSIZ)
    BY ShutdownIsCareful
  <2> QED BY <2>1, <2>2, <2>3 DEF KernelIsCareful
<1> QED BY <1>1, KInvHolds, PTL

(* Therefore what the heap promises a careful client holds for the kernel: *)
(* the list is intact, blocks in use are the ones held, the allocator's    *)
(* stores stay in its headers and no two allocations overlap.              *)
THEOREM KernelHeapIntact ==
  KSpec => [](Tiling /\ BackLinks /\ UsedIsHeld /\ StoresInHeaders /\ LiveApart)
<1>1. KInv => Tiling /\ BackLinks /\ UsedIsHeld /\ StoresInHeaders /\ LiveApart
  BY InvImpliesApart
     DEF KInv, HeapInv, Struct, Forward, Backward, Tiling, BackLinks, UsedIsHeld
<1> QED BY <1>1, KInvHolds, PTL

(* No allocation of the kernel can hang: its every call of lookup() goes   *)
(* through the list at most once.                                          *)
THEOREM KernelLookupDescends ==
  KSpec => /\ []IsFiniteSet(list)
           /\ [][~ Idle => Idle' \/ Cardinality(Ahead') < Cardinality(Ahead)]_vars
<1>1. KInit => IsFiniteSet(list)
  <2>1. IsFiniteSet({root})
    BY FS_Singleton
  <2> QED BY <2>1 DEF KInit, Init
<1>2. [KNext]_kvars => HeapStep
  BY DEF KNext, BootAlloc, Answer, ShellAlloc, ShellFree, Shutdown, HeapStep, kvars
<1>3. IsFiniteSet(list) /\ [KNext]_kvars => IsFiniteSet(list)'
  BY <1>2, ListStaysFinite
<1>4. KInv /\ IsFiniteSet(list) /\ [KNext]_kvars
        => [~ Idle => Idle' \/ Cardinality(Ahead') < Cardinality(Ahead)]_vars
  BY <1>2, LevelAdvances DEF KInv
<1> QED BY <1>1, <1>3, <1>4, KInvHolds, PTL DEF KSpec

(* What booting obtained stays allocated, at the size asked for, until the *)
(* shutdown gives the RAM disk's data back, and the shell never holds any  *)
(* of it.                                                                  *)
THEOREM KernelBootDataKept == KSpec => []BootDataKept
<1>1. KInv => BootDataKept
  <2> SUFFICES ASSUME KInv, NEW i \in 1 .. Count
               PROVE  /\ \/ got[i] \in DOMAIN live /\ live[got[i]] = RoundUp(Boot[i][1])
                         \/ i = RamdiskData /\ halted
                      /\ tmp # got[i]
    <3>1. KInv => DOMAIN got = 1 .. Count
      BY DEF KInv, Pointers, Count
    <3> QED BY <3>1 DEF BootDataKept
  <2>1. \/ got[i] \in DOMAIN live /\ live[got[i]] = RoundUp(Boot[i][1])
        \/ i = RamdiskData /\ halted
    BY DEF KInv, Pointers, Given, Rounded
  <2>2. tmp # got[i]
    <3>1. CASE tmp = NULL
      <4>1. Count > 0 /\ Count \in 0 .. 14 /\ got[i] \in Nat
        BY KFacts
      <4>2. got[i] # NULL
        <5>1. CASE Given(i)
          <6>1. Booted /\ i = 11 /\ Count = 14
            BY <5>1, KFacts DEF Given, KInv, Pointers, RamdiskData
          <6>2. got[1] \in Nat /\ got[1] < got[11] /\ got[11] \in Nat
            BY <6>1, KFacts DEF KInv, Pointers
          <6> QED BY <6>1, <6>2 DEF NULL
        <5>2. CASE ~ Given(i)
          <6>1. got[i] - BLOCKSIZ \in list
            BY <5>2, KFacts DEF KInv, Pointers, HeapInv, Held
          <6> QED BY <6>1, <4>1, KFacts DEF BLOCKSIZ, NULL
        <5> QED BY <5>1, <5>2
      <4> QED BY <3>1, <4>2
    <3>2. CASE tmp # NULL
      <4>1. Booted /\ Top <= tmp - BLOCKSIZ
        BY <3>2, ShellFreeIsCareful
      <4>2. got[i] \in Nat /\ got[i] <= Data(Last) /\ Data(Last) < Top /\ Top \in Nat
        BY <4>1, TopIs, KFacts
      <4>3. tmp \in Nat
        BY DEF KInv, Pointers
      <4>4. Data(Last) \in Nat
        BY <4>1, TopIs, KFacts
      <4> QED BY <4>1, <4>2, <4>3, <4>4 DEF BLOCKSIZ
    <3> QED BY <3>1, <3>2
  <2> QED BY <2>1, <2>2
<1> QED BY <1>1, KInvHolds, PTL

(* However long the shell runs, its temporary allocations reuse the block  *)
(* behind those of booting: the heap ends at most two of the largest       *)
(* requests behind them.                                                   *)
THEOREM KernelHeapStopsGrowing == KSpec => []HeapStopsGrowing
<1>1. KInv => HeapStopsGrowing
  <2> SUFFICES ASSUME KInv, Booted PROVE HeapStopsGrowing
    BY DEF HeapStopsGrowing
  <2> DEFINE last == got[Len(Boot)]
             room == CHOOSE n \in TempSizes : \A m \in TempSizes : m <= n
             above == {b \in list : b > last}
             limit == Data(last + live[last]) + 2 * (RoundUp(room) + BLOCKSIZ)
  <2>1. /\ Count = 14 /\ last = got[14] /\ last = Data(Last) /\ last < Top
        /\ Last \in Nat /\ last \in Nat /\ Top \in Nat /\ Last < last
        /\ Top = last + 152
    BY TopIs, KFacts, BootLen DEF Top, Data, BLOCKSIZ
  <2>2. live[last] = 152
    <3>1. ~ Given(14)
      BY DEF Given, RamdiskData
    <3>2. live[got[14]] = Rounded(14)
      <4>1. 14 \in 1 .. Count
        BY <2>1
      <4> QED BY <3>1, <4>1 DEF KInv, Pointers
    <3> QED BY <2>1, <3>2, RoundedIs
  <2>3. limit = Top + 48 + 2 * Largest /\ Largest \in Nat
    BY <2>1, <2>2, LargestIs DEF Data, BLOCKSIZ, Largest
  <2>4. \A b \in above : b \in list /\ b \in Nat /\ ~ (b <= Last)
    BY <2>1, KFacts
  <2> HIDE DEF last, room, limit
  <2>5. Cardinality(above) <= 2 /\ \A b \in above : End(hdr, b) <= limit
    <3>1. CASE Untouched
      <4>1. above = {}
        BY <2>4, <3>1 DEF Untouched
      <4> QED BY <4>1, FS_EmptySet
    <3>2. CASE OneBlock
      <4>1. above \subseteq {Top} /\ Top \in above
        BY <2>1, <2>4, <3>2 DEF OneBlock
      <4>2. End(hdr, Top) <= limit
        <5>1. hdr[Top].size \in Nat /\ hdr[Top].size <= 2 * Largest + 16
          BY <3>2, KFacts DEF OneBlock, BLOCKSIZ
        <5> QED BY <5>1, <2>1, <2>3 DEF End, Data, BLOCKSIZ
      <4>3. Cardinality({Top}) = 1
        BY FS_Singleton
      <4>4. above = {Top}
        BY <4>1
      <4> HIDE DEF above
      <4>5. Cardinality(above) <= 2
        BY <4>3, <4>4
      <4> QED BY <4>2, <4>4, <4>5
    <3>3. CASE TwoBlocks
      <4> DEFINE b2 == tmp - BLOCKSIZ
      <4>1. /\ Top \in list /\ b2 \in list /\ hdr[Top].next = b2
            /\ hdr[Top].size <= Largest /\ hdr[b2].size <= Largest
            /\ \A b \in list : b <= Last \/ b = Top \/ b = b2
        BY <3>3 DEF TwoBlocks
      <4>2. /\ hdr[Top].size \in Nat /\ hdr[b2].size \in Nat
            /\ b2 # NULL /\ b2 \in Nat
        BY <4>1, KFacts
      <4> HIDE DEF b2
      <4>3. b2 = End(hdr, Top)
        BY <4>1, <4>2, KFacts DEF Struct, Forward
      <4>4. b2 = Top + 16 + hdr[Top].size
        BY <4>3, <4>2, <2>1 DEF End, Data, BLOCKSIZ
      <4>5. above \subseteq {Top, b2}
        BY <4>1, <2>4
      <4>6. End(hdr, Top) <= limit /\ End(hdr, b2) <= limit
        BY <4>1, <4>2, <4>4, <2>1, <2>3 DEF End, Data, BLOCKSIZ
      <4>7. IsFiniteSet({Top, b2}) /\ Cardinality({Top, b2}) <= 2
        <5>1. IsFiniteSet({Top}) /\ Cardinality({Top}) = 1
          BY FS_Singleton
        <5>2. {Top, b2} = {Top} \cup {b2} /\ b2 \notin {Top}
          BY <4>4, <4>2, <2>1
        <5>3. IsFiniteSet({Top} \cup {b2})
              /\ Cardinality({Top} \cup {b2}) = Cardinality({Top}) + 1
          BY <5>1, <5>2, FS_AddElement
        <5> QED BY <5>1, <5>2, <5>3
      <4>8. Cardinality(above) <= 2
        <5>1. IsFiniteSet(above) /\ Cardinality(above) <= Cardinality({Top, b2})
          BY <4>5, <4>7, FS_Subset
        <5>2. Cardinality(above) \in Nat /\ Cardinality({Top, b2}) \in Nat
          BY <5>1, <4>7, FS_CardinalityType
        <5> QED BY <5>1, <5>2, <4>7
      <4> QED BY <4>5, <4>6, <4>8
    <3> QED BY <3>1, <3>2, <3>3 DEF KInv, Above
  <2> QED BY <2>5 DEF HeapStopsGrowing, last, room, limit
<1> QED BY <1>1, KInvHolds, PTL

=============================================================================
