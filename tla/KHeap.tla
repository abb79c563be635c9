------------------------------- MODULE KHeap --------------------------------
(***************************************************************************)
(* The kernel heap, kernel/kmalloc.c: a first-fit allocator over a doubly  *)
(* linked list of blocks laid end to end from HEAP_BASE, each a 16-byte    *)
(* header followed by its data.                                            *)
(*                                                                         *)
(* Memory is modelled by the headers it holds.  `hdr' maps an address to   *)
(* the header stored there: the headers of the list and also the dead ones *)
(* that merge() takes out of the list and leaves in memory, because        *)
(* kfree() still reads and writes them.  A dead header is forgotten when   *)
(* an allocation or a new header covers it: reading it then yields         *)
(* whatever its new owner stored there.                                    *)
(*                                                                         *)
(* lookup() is tail recursive; one Lookup action is one of its levels.     *)
(* The heap is never entered from an interrupt handler, so the levels of   *)
(* one call are not interleaved with another call.                         *)
(***************************************************************************)
EXTENDS Integers, FiniteSets

CONSTANTS
  HeapBase,  \* HEAP_BASE: where the first header lies
  Sizes,     \* the byte counts clients ask for
  Aligns,    \* the alignments they ask for: 1 << align, 1 for kmalloc()
  MaxLive,   \* bound: allocations alive at a time
  HeapTop,   \* bound: no request is made once a block ends above it
  Careful    \* TRUE: the client respects CarefulRequest and CarefulFree

ASSUME HeapBaseAssumption == HeapBase \in Nat \ {0}
ASSUME SizesAssumption    == Sizes \subseteq Nat
ASSUME AlignsAssumption   == Aligns \subseteq Nat \ {0}
ASSUME BoundsAssumption   == MaxLive \in Nat /\ HeapTop \in Nat
ASSUME CarefulAssumption  == Careful \in BOOLEAN

VARIABLES
  hdr,    \* address -> [used, size, prev, next], the headers in memory
  list,   \* the addresses linked from root (the others are dead headers)
  req,    \* the kmalloca() in progress: lookup()'s blk, size and alignment
  live,   \* data pointer -> rounded size, for what was not freed yet
  ret,    \* the pointer the last call returned
  dirty,  \* addresses of 8-byte units that once held an owner's data
  stray   \* what the allocator's own stores hit outside its headers

vars == <<hdr, list, req, live, ret, dirty, stray>>

NULL     == 0
BLOCKSIZ == 16
root     == HeapBase
NoReq    == [blk |-> NULL, size |-> 0, ax |-> 1]

Data(b) == b + BLOCKSIZ

(* Align the size to eight.                                                *)
RoundUp(n) == IF n % 8 # 0 THEN (n \div 8 + 1) * 8 ELSE n

(* The first byte behind block b.                                          *)
End(h, b) == Data(b) + h[b].size

(***************************************************************************)
(* merge() and split(), as functions of the headers in memory.             *)
(***************************************************************************)

(* A bug for the properties: the last block is never swallowed.            *)
MergesInside(h, b) ==
  /\ h[b].next # NULL /\ h[h[b].next].used = 0
  /\ h[h[b].next].next # NULL

(* merge(): blk has a free right neighbour to swallow.                     *)
Merges(h, b) == h[b].next # NULL /\ h[h[b].next].used = 0

(* merge()'s reads are of headers, not of memory somebody else owns now.   *)
MergeReads(h, b) ==
  /\ b \in DOMAIN h
  /\ h[b].next # NULL =>
       /\ h[b].next \in DOMAIN h
       /\ h[h[b].next].used = 0 =>
            h[h[b].next].next \in DOMAIN h \cup {NULL}

(* A bug for the properties: blk->next->prev keeps its value.              *)
MergeKeepsBackLink(h, b) ==
  IF ~ Merges(h, b) THEN h
  ELSE LET n == h[b].next
       IN  [h EXCEPT ![b].size = @ + BLOCKSIZ + h[n].size,
                     ![b].next = h[n].next]

(* A bug for the properties: the swallowed header is not counted.          *)
MergeForgetsHeader(h, b) ==
  IF ~ Merges(h, b) THEN h
  ELSE LET n == h[b].next
       IN  [a \in DOMAIN h |->
              IF a = b
              THEN [h[a] EXCEPT !.size = @ + h[n].size, !.next = h[n].next]
              ELSE IF a = h[n].next THEN [h[a] EXCEPT !.prev = b] ELSE h[a]]

merge(h, b) ==
  IF ~ Merges(h, b) THEN h
  ELSE LET n == h[b].next
       IN  [a \in DOMAIN h |->
              IF a = b
              THEN [used |-> h[b].used, size |-> h[b].size + BLOCKSIZ + h[n].size,
                    prev |-> h[b].prev, next |-> h[n].next]
              ELSE IF a = h[n].next THEN [h[a] EXCEPT !.prev = b] ELSE h[a]]

(* blk->next->prev=blk, when the swallowed block was the last one.         *)
MergeHitsNull(h, b) == Merges(h, b) /\ h[h[b].next].next = NULL

(* split(): the rest of b behind its first n bytes is worth a block.       *)
Splits(h, b, n) == h[b].next # NULL /\ h[b].size - n > BLOCKSIZ + 8

split(h, b, n) ==
  IF ~ Splits(h, b, n) THEN h
  ELSE LET new == Data(b) + n
           nxt == h[b].next
       IN  [a \in DOMAIN h \cup {new} |->
              IF a = new THEN [used |-> 0, size |-> nxt - Data(new),
                               prev |-> b, next |-> nxt]
              ELSE IF a = b THEN [used |-> h[b].used, size |-> n,
                                  prev |-> h[b].prev, next |-> new]
              ELSE IF a = nxt THEN [h[a] EXCEPT !.prev = new] ELSE h[a]]

(* What memory still holds of h once b was handed out for n bytes: its     *)
(* owner overwrites the dead headers there, and a header split off         *)
(* overwrites those it overlaps.                                           *)
Survivors(h, b, n) ==
  LET new == Data(b) + n
  IN  {a \in DOMAIN h : /\ ~ (b < a /\ a < new)
                        /\ h[b].next = new => ~ (new < a /\ a < Data(new))}

(* A bug for the properties: used stays zero.                              *)
HandOutUnmarked(h, b, n) ==
  LET s == split(h, b, n)
  IN  [a \in Survivors(s, b, n) |-> s[a]]

HandOut(h, b, n) ==
  LET s == split([h EXCEPT ![b].used = 1], b, n)
  IN  [a \in Survivors(s, b, n) |-> s[a]]

(***************************************************************************)
(* kmalloc(), kmalloca() and lookup()                                      *)
(***************************************************************************)

Idle == req = NoReq

(* Behaviour is undefined once a header lies in an owner's data or merge() *)
(* followed garbage.                                                       *)
Undefined == stray \cap {"data", "wild"} # {}

(* A bug for the properties: rounded down, and not up to the next multiple.*)
PlaceDown(end, ax) ==
  IF Data(end) % ax = 0 THEN end ELSE (end - (end % ax)) - BLOCKSIZ

(* Where lookup() puts the next block: behind the last one, moved up so    *)
(* that its data is aligned (which lookup() checks again before it takes   *)
(* the block).                                                             *)
Place(end, ax) ==
  IF Data(end) % ax = 0 THEN end ELSE (end - (end % ax)) + ax - BLOCKSIZ

(* A careful client makes an aligned request only when a block is in use   *)
(* already, and when there is room for a header between the end of the     *)
(* last block and the next multiple of ax.                                 *)
CarefulRequest(ax) ==
  ax # 1 =>
    /\ hdr[root].size # 0
    /\ \A b \in list : hdr[b].next = NULL =>
         \/ Data(End(hdr, b)) % ax = 0
         \/ End(hdr, b) % ax <= ax - BLOCKSIZ

kmalloca(n, ax) ==
  /\ Idle /\ ~ Undefined
  /\ Cardinality(DOMAIN live) < MaxLive
  /\ \A a \in list : End(hdr, a) <= HeapTop
  /\ Careful => CarefulRequest(ax)
  /\ \/ /\ n = 0              \* errno=EINVAL
        /\ ret' = NULL
        /\ UNCHANGED req
     \/ /\ n # 0
        /\ req' = [blk |-> NULL, size |-> RoundUp(n), ax |-> ax]
        /\ UNCHANGED ret
  /\ UNCHANGED <<hdr, list, live, dirty, stray>>

(* *ptr in lookup(): the block this level looks at, NULL behind the last.  *)
Ptr == IF req.blk = NULL THEN root ELSE hdr[req.blk].next

(* A bug for the properties: the used flag is not looked at.               *)
FitsAnyone(b) == hdr[b].size >= req.size

Fits(b) == hdr[b].size >= req.size /\ hdr[b].used = 0

Aligned(b) == Data(b) % req.ax = 0

(* lookup() and with it kmalloca() return b's data.                        *)
Return(b) ==
  /\ ret' = Data(b)
  /\ live' = [p \in DOMAIN live \cup {Data(b)} |->
                IF p = Data(b) THEN req.size ELSE live[p]]
  /\ req' = NoReq
  /\ UNCHANGED dirty

(* Some owner's data overlaps the bytes from a up to z.                    *)
Owned(a, z) == \E p \in DOMAIN live : p < z /\ a < p + live[p]

(* The list h with a used block of n bytes at `at' behind the last one,    *)
(* blk, whose size now reaches up to it.                                   *)
Extend(h, blk, at, n) ==
  [a \in DOMAIN h \cup {at} |->
     IF a = at THEN [used |-> 1, size |-> n, prev |-> blk, next |-> NULL]
     ELSE IF a = blk THEN [used |-> h[blk].used, size |-> at - Data(blk),
                           prev |-> h[blk].prev, next |-> at]
     ELSE h[a]]

(* The memory under a new header is fresh RAM and reads as zero, unless    *)
(* the header was placed short of the end of the last block: then its used *)
(* field is what an owner stored there, and when that is not zero lookup() *)
(* passes over the block it has just made.                                 *)
LookupCreate ==
  /\ ~ Idle /\ ~ Undefined
  /\ Ptr = NULL
  /\ LET at == Place(End(hdr, req.blk), req.ax)
     IN  /\ hdr' = Extend(hdr, req.blk, at, req.size)
         /\ list' = list \cup {at}
         /\ stray' = IF Owned(at, Data(at)) THEN stray \cup {"data"}
                     ELSE stray
         /\ \/ Return(at)
            \/ /\ Owned(at, at + 4) \/ at \in dirty
               /\ req' = [req EXCEPT !.blk = at]
               /\ UNCHANGED <<live, ret, dirty>>

(* A free block that fits and is aligned, cut to size.                     *)
LookupTake ==
  /\ ~ Idle /\ ~ Undefined
  /\ Ptr # NULL /\ Fits(Ptr) /\ Aligned(Ptr)
  /\ hdr' = HandOut(hdr, Ptr, req.size)
  /\ list' = (list \cup {hdr'[Ptr].next}) \ {NULL}
  /\ Return(Ptr)
  /\ UNCHANGED stray

(* The untouched first block, or one that an aligned neighbour emptied.    *)
LookupTakeEmpty ==
  /\ ~ Idle /\ ~ Undefined
  /\ Ptr # NULL /\ hdr[Ptr].size = 0 /\ req.ax = 1
  /\ hdr' = [hdr EXCEPT ![Ptr] = [used |-> 1, size |-> req.size,
                                  prev |-> hdr[Ptr].prev,
                                  next |-> hdr[Ptr].next]]
  /\ stray' = IF hdr[Ptr].next # NULL \/ hdr[Ptr].used = 1
              THEN stray \cup {"data"} ELSE stray
  /\ Return(Ptr)
  /\ UNCHANGED list

(* A bug for the properties: the search starts over.                       *)
LookupSkipToRoot ==
  /\ ~ Idle /\ ~ Undefined
  /\ Ptr # NULL
  /\ ~ (Fits(Ptr) /\ Aligned(Ptr))
  /\ ~ (hdr[Ptr].size = 0 /\ req.ax = 1)
  /\ req' = [req EXCEPT !.blk = NULL]
  /\ UNCHANGED <<hdr, list, live, ret, dirty, stray>>

(* The block is in use, too small or not aligned: on to the next.          *)
LookupSkip ==
  /\ ~ Idle /\ ~ Undefined
  /\ Ptr # NULL
  /\ ~ (Fits(Ptr) /\ Aligned(Ptr))
  /\ ~ (hdr[Ptr].size = 0 /\ req.ax = 1)
  /\ req' = [req EXCEPT !.blk = Ptr]
  /\ UNCHANGED <<hdr, list, live, ret, dirty, stray>>

(***************************************************************************)
(* kfree()                                                                 *)
(***************************************************************************)

(* b does not lie between two free blocks.                                 *)
CarefulFree(b) ==
  ~ /\ hdr[b].prev # NULL /\ hdr[hdr[b].prev].used = 0
    /\ hdr[b].next # NULL /\ hdr[hdr[b].next].used = 0

(* The 8-byte units of the owner's data at p.                              *)
Units(p) == {a \in p .. (p + live[p] - 1) : a % 8 = 0}

(* b left the list if a block of the list swallowed it.                    *)
Swallowed(h, b, l) == IF b \in l /\ Merges(h, b) THEN {h[b].next} ELSE {}

(* kfree() with blk->prev->used read as zero (mergePrev) or not.           *)
Free(p, mergePrev) ==
  LET b  == p - BLOCKSIZ
      h0 == [hdr EXCEPT ![b].used = 0]
      pr == h0[b].prev
      h1 == IF mergePrev THEN merge(h0, pr) ELSE h0
      l1 == IF mergePrev THEN list \ Swallowed(h0, pr, list) ELSE list
  IN  IF (mergePrev => MergeReads(h0, pr)) /\ MergeReads(h1, b)
      THEN /\ hdr' = merge(h1, b)
           /\ list' = l1 \ Swallowed(h1, b, l1)
           /\ stray' = IF \/ mergePrev /\ MergeHitsNull(h0, pr)
                          \/ MergeHitsNull(h1, b)
                       THEN stray \cup {"null"} ELSE stray
      ELSE /\ stray' = stray \cup {"wild"}
           /\ UNCHANGED <<hdr, list>>

kfree(p) ==
  /\ Idle /\ ~ Undefined
  /\ Careful => CarefulFree(p - BLOCKSIZ)
  /\ LET pr == hdr[p - BLOCKSIZ].prev
     IN  \E mergePrev \in BOOLEAN :
           /\ pr = NULL => ~ mergePrev
           /\ pr \in DOMAIN hdr => (mergePrev <=> hdr[pr].used = 0)
           /\ Free(p, mergePrev)
  /\ live' = [q \in DOMAIN live \ {p} |-> live[q]]
  /\ dirty' = dirty \cup Units(p)
  /\ UNCHANGED <<req, ret>>

(***************************************************************************)
(* The specification                                                       *)
(***************************************************************************)

(* root's header is zero-filled RAM.                                       *)
Init ==
  /\ hdr = [a \in {root} |-> [used |-> 0, size |-> 0,
                              prev |-> NULL, next |-> NULL]]
  /\ list = {root}
  /\ req = NoReq
  /\ live = [p \in {} |-> 0]
  /\ ret = NULL
  /\ dirty = {}
  /\ stray = {}

Next ==
  \/ \E n \in Sizes, ax \in Aligns : kmalloca(n, ax)
  \/ LookupCreate
  \/ LookupTake
  \/ LookupTakeEmpty
  \/ LookupSkip
  \/ \E p \in DOMAIN live : kfree(p)

Spec == Init /\ [][Next]_vars

(* lookup() runs to its return: nothing else runs in its place.            *)
Lookup == LookupCreate \/ LookupTake \/ LookupTakeEmpty \/ LookupSkip

FairSpec == Spec /\ WF_vars(Lookup)

(***************************************************************************)
(* Properties                                                              *)
(***************************************************************************)

Header == [used : {0, 1}, size : Nat, prev : Nat, next : Nat]

(* Every variable of the model has its type: the list's headers are in     *)
(* memory, and so is the block lookup() has reached.                       *)
TypeOK ==
  /\ DOMAIN hdr \subseteq Nat
  /\ \A a \in DOMAIN hdr : hdr[a] \in Header
  /\ list \subseteq DOMAIN hdr \ {NULL}
  /\ root \in list
  /\ req \in [blk : Nat, size : Nat, ax : Nat \ {0}]
  /\ req.blk \in list \cup {NULL}
  /\ DOMAIN live \subseteq Nat
  /\ \A p \in DOMAIN live : live[p] \in Nat \ {0}
  /\ ret \in Nat
  /\ dirty \subseteq Nat
  /\ stray \subseteq {"null", "data", "wild"}

(* Going from root along next, the blocks cover the heap end to end: each  *)
(* header lies where the previous block ends, no two blocks overlap, and   *)
(* the one without a successor is the highest.  lookup()'s placement,      *)
(* split() and merge() all recompute sizes and next pointers by hand.      *)
Tiling ==
  ~ Undefined =>
    /\ \A a \in list :
         /\ hdr[a].next # NULL => hdr[a].next \in list
                                  /\ hdr[a].next = End(hdr, a)
         /\ hdr[a].next = NULL => \A b \in list : b <= a
    /\ \A a, b \in list : a < b => End(hdr, a) <= b

(* prev and next agree on every block of the list, which kfree() relies on *)
(* when it merges blk->prev.                                               *)
BackLinks ==
  /\ hdr[root].prev = NULL
  /\ \A a \in list :
       /\ hdr[a].next # NULL => hdr[hdr[a].next].prev = a
       /\ a # root => hdr[a].prev \in list /\ hdr[hdr[a].prev].next = a

(* What kfree()'s two merges are for: no free block is left beside another *)
(* free block.                                                             *)
Coalesced ==
  \A a \in list :
    hdr[a].next # NULL => ~ (hdr[a].used = 0 /\ hdr[hdr[a].next].used = 0)

Held ==
  /\ \A p \in DOMAIN live :
       /\ p - BLOCKSIZ \in list
       /\ hdr[p - BLOCKSIZ].used = 1
       /\ live[p] <= hdr[p - BLOCKSIZ].size
  /\ \A a \in list : hdr[a].used = 1 => Data(a) \in DOMAIN live

(* The blocks marked used are the ones clients hold, and are as large as   *)
(* asked: none was leaked by lookup() or kfree(), and none in a client's   *)
(* hands can be handed out again.                                          *)
UsedIsHeld == ~ Undefined => Held

(* The allocator's own stores hit its headers, or address NULL+8 (merge()  *)
(* of the last block), and never memory that a client holds.               *)
StoresInHeaders == stray \subseteq {"null"}

(* kmalloca() answers with a pointer that is a multiple of 1 << align,     *)
(* whether the block was found, split off before or placed anew.           *)
AnswerAligned == [][ ret' # ret => ret' % req.ax = 0 ]_vars

Abstract == INSTANCE HeapSpec WITH live <- live, ret <- ret

(* The heap keeps the allocator's promise: each kmalloca() grants bytes no *)
(* other client has or refuses, and each kfree() takes back one grant.     *)
RefinesHeapSpec == Abstract!Spec

(* lookup()'s recursion ends: every call of kmalloca() returns.            *)
LookupReturns == ~ Idle ~> Idle

=============================================================================
