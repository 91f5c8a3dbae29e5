----------------------------- MODULE HeapProofs -----------------------------
(***************************************************************************)
(* The invariants of Heap and its refinement of Allocator, then the same   *)
(* for FreeList: that its pointers stay sound and implement Heap.  All for *)
(* every region, word size and set of requests that RegionAssumption       *)
(* allows.                                                                 *)
(***************************************************************************)
EXTENDS Heap, FreeList, TLAPS

(* Padding yields an aligned size of at least the minimum, and, for a      *)
(* request that does not wrap, of at least the request.                    *)
LEMMA PaddedFacts ==
  ASSUME NEW n \in 0 .. (SizeMod - 1)
  PROVE  /\ Padded(n) \in Nat
         /\ Padded(n) >= MIN_ALLOC_SIZE
         /\ Padded(n) % ALIGN_SIZE = 0
         /\ Representable(n) => Padded(n) >= n
<1> DEFINE s == (n + ALIGN_SIZE - 1) % SizeMod
<1>1. SizeMod \in Nat /\ SizeMod > 0 /\ SizeMod % 8 = 0
  BY RegionAssumption DEF RegionAssumption, HDR, ALIGN_SIZE, MIN_ALLOC_SIZE
<1>2. s \in Nat /\ s < SizeMod
  BY <1>1 DEF ALIGN_SIZE
<1>3. n <= SizeMod - 8 => s = n + 7
  BY <1>1 DEF ALIGN_SIZE
<1>4. align_up(n) = s - (s % 8)
  BY DEF align_up, ALIGN_SIZE
<1>5. align_up(n) \in Nat /\ align_up(n) % 8 = 0 /\ align_up(n) >= s - 7
  <2> HIDE DEF s
  <2> QED BY <1>2, <1>4
<1>6. QED
  BY <1>3, <1>5 DEF Padded, MIN_ALLOC_SIZE, ALIGN_SIZE, Representable

LEMMA RegionFacts ==
  /\ Start \in Nat /\ Start % ALIGN_SIZE = 0 /\ Start > 0
  /\ Limit \in Nat /\ Start <= Limit
  /\ Usable => Limit - Start > HDR
<1>1. /\ RegionBase \in Nat /\ RegionBase >= 24 /\ RegionSize \in Nat
      /\ SizeMod \in Nat /\ SizeMod % 8 = 0 /\ RegionBase + RegionSize + 8 <= SizeMod
  BY RegionAssumption DEF RegionAssumption, HDR, ALIGN_SIZE, MIN_ALLOC_SIZE
<1>2. (RegionBase + ALIGN_SIZE - 1) % SizeMod = RegionBase + 7
  BY <1>1 DEF ALIGN_SIZE
<1>3. Start = RegionBase + 7 - ((RegionBase + 7) % 8)
  BY <1>1, <1>2 DEF Start, align_up, ALIGN_SIZE
<1>4. Start \in Nat /\ Start % 8 = 0 /\ Start >= RegionBase
  BY <1>1, <1>3
<1>5. QED
  BY <1>1, <1>4 DEF Limit, Usable, HDR, ALIGN_SIZE

-----------------------------------------------------------------------------
(* What a step of kmalloc that splits block b leaves: two blocks that      *)
(* cover exactly the bytes of b.                                           *)
LEMMA SplitFacts ==
  ASSUME HeapInv, NEW n \in Requests, NEW b \in free, Splits(b, n)
  PROVE  /\ Front(b, n) \in Block /\ Rest(b, n) \in Block
         /\ Front(b, n).addr = b.addr
         /\ BlockEnd(Front(b, n)) = Rest(b, n).addr
         /\ BlockEnd(Rest(b, n)) = BlockEnd(b)
         /\ b.addr < Rest(b, n).addr /\ Rest(b, n).addr < BlockEnd(b)
         /\ Front(b, n).addr % ALIGN_SIZE = 0 /\ Rest(b, n).addr % ALIGN_SIZE = 0
         /\ Front(b, n) # Rest(b, n)
         /\ Front(b, n) \notin free \cup live /\ Rest(b, n) \notin free \cup live
<1>1. n \in 0 .. (SizeMod - 1)
  BY RegionAssumption DEF RegionAssumption
<1>2. /\ Padded(n) \in Nat /\ Padded(n) >= 16 /\ Padded(n) % 8 = 0
  BY <1>1, PaddedFacts DEF MIN_ALLOC_SIZE, ALIGN_SIZE
<1>3. b \in Block /\ b.addr \in Nat /\ b.size \in Nat /\ b.addr % 8 = 0
  BY DEF HeapInv, TypeOK, HeadersAligned, Blocks, Block, ALIGN_SIZE
<1>4. b.size >= Padded(n) + 24
  BY <1>2, <1>3 DEF Splits, HDR, MIN_ALLOC_SIZE
<1>5. /\ Front(b, n) \in Block /\ Rest(b, n) \in Block
      /\ Front(b, n).addr = b.addr /\ Front(b, n).size = Padded(n)
      /\ Rest(b, n).addr = b.addr + 8 + Padded(n)
      /\ Rest(b, n).size = b.size - Padded(n) - 8
  BY <1>2, <1>3, <1>4 DEF Front, Rest, Block, HDR
<1>6. /\ BlockEnd(Front(b, n)) = Rest(b, n).addr
      /\ BlockEnd(Rest(b, n)) = BlockEnd(b)
      /\ b.addr < Rest(b, n).addr /\ Rest(b, n).addr < BlockEnd(b)
      /\ Front(b, n) # b /\ Rest(b, n) # b
  BY <1>2, <1>3, <1>4, <1>5 DEF BlockEnd, HDR
<1>7. Rest(b, n).addr % 8 = 0
  BY <1>2, <1>3, <1>5
<1>8. ASSUME NEW c \in free \cup live, c = Front(b, n) \/ c = Rest(b, n)
      PROVE  FALSE
  <2>1. c # b
    BY <1>6, <1>8
  <2>2. BlockEnd(b) <= c.addr \/ BlockEnd(c) <= b.addr
    BY <2>1 DEF HeapInv, BlocksDisjoint, Blocks
  <2>3. BlockEnd(b) > b.addr /\ BlockEnd(c) > b.addr
    BY <1>2, <1>3, <1>4, <1>5, <1>6, <1>8 DEF BlockEnd, HDR
  <2>4. QED
    BY <1>2, <1>3, <1>5, <1>6, <1>8, <2>2, <2>3 DEF BlockEnd, HDR
<1>9. QED
  BY <1>3, <1>5, <1>6, <1>7, <1>8 DEF ALIGN_SIZE

(* A split keeps the invariant: the two new blocks share the bytes of b.   *)
LEMMA SplitKeepsInv ==
  ASSUME HeapInv, NEW n \in Requests, KmallocSplit(n)
  PROVE  HeapInv'
<1>1. PICK b \in free :
        /\ n > 0 /\ FirstFit(b, n) /\ Splits(b, n)
        /\ free' = (free \ {b}) \cup {Rest(b, n)}
        /\ live' = live \cup {Front(b, n)}
        /\ answer' = [op |-> "kmalloc", n |-> n, ret |-> b.addr + HDR]
  BY DEF KmallocSplit
<1> DEFINE F == Front(b, n)
           R == Rest(b, n)
<1>2. /\ F \in Block /\ R \in Block /\ F.addr = b.addr
      /\ BlockEnd(F) = R.addr /\ BlockEnd(R) = BlockEnd(b)
      /\ b.addr < R.addr /\ R.addr < BlockEnd(b)
      /\ F.addr % ALIGN_SIZE = 0 /\ R.addr % ALIGN_SIZE = 0
      /\ F # R /\ F \notin Blocks /\ R \notin Blocks
  BY <1>1, SplitFacts DEF Blocks
<1> HIDE DEF F, R
<1>3. free' = (free \ {b}) \cup {R} /\ live' = live \cup {F}
  BY <1>1 DEF F, R
<1>4. Blocks' = (Blocks \ {b}) \cup {F, R}
  BY <1>3 DEF Blocks, HeapInv, TypeOK
<1>5. \A c \in Blocks : /\ c \in Block /\ c.addr \in Nat /\ c.size \in Nat
                        /\ BlockEnd(c) \in Nat /\ c.addr < BlockEnd(c)
  BY DEF HeapInv, TypeOK, Blocks, Block, BlockEnd, HDR
<1>6. /\ F.addr \in Nat /\ F.size \in Nat /\ BlockEnd(F) \in Nat
      /\ R.addr \in Nat /\ R.size \in Nat /\ BlockEnd(R) \in Nat /\ b \in Blocks
  BY <1>2, <1>1 DEF Block, BlockEnd, HDR, Blocks
<1>7. TypeOK'
  <2>1. answer' \in Answer
    BY <1>1, <1>5, <1>6, RegionAssumption DEF RegionAssumption, Answer, HDR
  <2>2. QED
    BY <1>2, <1>3, <2>1 DEF TypeOK, HeapInv, Blocks
<1>8. BlocksDisjoint'
  <2>1. ASSUME NEW c \in Blocks' PROVE Start <= c.addr /\ BlockEnd(c) <= Limit
    BY <1>2, <1>4, <1>5, <1>6, <2>1, RegionFacts DEF HeapInv, BlocksDisjoint
  <2>2. ASSUME NEW c \in Blocks', NEW d \in Blocks', c # d
        PROVE  BlockEnd(c) <= d.addr \/ BlockEnd(d) <= c.addr
    <3>1. ASSUME NEW e \in Blocks, e # b
          PROVE  BlockEnd(e) <= b.addr \/ BlockEnd(b) <= e.addr
      BY <1>6, <3>1 DEF HeapInv, BlocksDisjoint
    <3>2. CASE c \in Blocks /\ d \in Blocks
      BY <2>2, <3>2 DEF HeapInv, BlocksDisjoint
    <3>3. QED
      BY <1>2, <1>4, <1>5, <1>6, <2>2, <3>1, <3>2
  <2>3. QED
    BY <2>1, <2>2 DEF BlocksDisjoint
<1>9. NothingLost'
  <2>1. ASSUME NEW x \in Start .. (Limit - 1)
        PROVE  \E c \in Blocks' : c.addr <= x /\ x < BlockEnd(c)
    <3>1. PICK c \in Blocks : c.addr <= x /\ x < BlockEnd(c)
      BY DEF HeapInv, NothingLost
    <3>2. CASE c # b
      BY <1>4, <3>1, <3>2
    <3>3. CASE c = b
      <4>1. x \in Int
        OBVIOUS
      <4>2. (F.addr <= x /\ x < BlockEnd(F)) \/ (R.addr <= x /\ x < BlockEnd(R))
        BY <1>2, <1>6, <3>1, <3>3, <4>1, RegionFacts
      <4>3. QED
        BY <1>4, <4>2
    <3>4. QED
      BY <3>2, <3>3
  <2>2. QED
    BY <2>1 DEF NothingLost
<1>10. FullyCoalesced'
  <2>1. ASSUME NEW c \in free', NEW d \in free' PROVE BlockEnd(c) # d.addr
    <3>1. \A e \in free : BlockEnd(b) # e.addr /\ BlockEnd(e) # b.addr
      BY <1>1 DEF HeapInv, FullyCoalesced
    <3>2. \A e \in free : e # b => BlockEnd(e) <= b.addr \/ BlockEnd(b) <= e.addr
      BY <1>6 DEF HeapInv, BlocksDisjoint, Blocks
    <3>3. \A e \in free : e \in Blocks
      BY DEF Blocks
    <3>4. CASE c = R /\ d = R
      BY <1>2, <1>5, <1>6, <3>4
    <3>5. CASE c = R /\ d # R
      BY <1>2, <1>3, <3>1, <3>5
    <3>6. CASE c # R /\ d = R
      BY <1>2, <1>3, <1>5, <1>6, <3>2, <3>3, <3>6
    <3>7. CASE c # R /\ d # R
      BY <1>3, <3>7 DEF HeapInv, FullyCoalesced
    <3>8. QED
      BY <3>4, <3>5, <3>6, <3>7
  <2>2. QED
    BY <2>1 DEF FullyCoalesced
<1>11. HeadersAligned'
  BY <1>2, <1>4 DEF HeapInv, HeadersAligned
<1>12. QED
  BY <1>7, <1>8, <1>9, <1>10, <1>11 DEF HeapInv

(* Handing out a whole block only moves it from one set to the other.      *)
LEMMA WholeKeepsInv ==
  ASSUME HeapInv, NEW n \in Requests, KmallocWhole(n)
  PROVE  HeapInv'
<1>1. PICK b \in free :
        /\ free' = free \ {b}
        /\ live' = live \cup {b}
        /\ answer' = [op |-> "kmalloc", n |-> n, ret |-> b.addr + HDR]
  BY DEF KmallocWhole
<1>2. Blocks' = Blocks
  BY <1>1 DEF Blocks
<1>3. TypeOK'
  BY <1>1, RegionAssumption DEF RegionAssumption, HeapInv, TypeOK, Block, Answer, HDR
<1>4. BlocksDisjoint' /\ NothingLost' /\ HeadersAligned'
  BY <1>2 DEF HeapInv, BlocksDisjoint, NothingLost, HeadersAligned
<1>5. FullyCoalesced'
  BY <1>1 DEF HeapInv, FullyCoalesced
<1>6. QED
  BY <1>3, <1>4, <1>5 DEF HeapInv

(* kfree replaces the freed block and its free neighbours by one block     *)
(* over the same bytes.                                                    *)
LEMMA KfreeKeepsInv ==
  ASSUME HeapInv, NEW b \in live, Kfree(b)
  PROVE  HeapInv'
<1>1. PICK lo \in Before(b) \cup {b}, hi \in After(b) \cup {b} :
        /\ Before(b) # {} => lo # b
        /\ After(b) # {} => hi # b
        /\ free' = (free \ {lo, hi}) \cup {[addr |-> lo.addr, size |-> BlockEnd(hi) - lo.addr - HDR]}
        /\ live' = live \ {b}
        /\ answer' = [op |-> "kfree", n |-> 0, ret |-> NULL]
  BY DEF Kfree
<1> DEFINE M == [addr |-> lo.addr, size |-> BlockEnd(hi) - lo.addr - HDR]
<1>2. \A c \in Blocks : /\ c \in Block /\ c.addr \in Nat /\ c.size \in Nat
                        /\ BlockEnd(c) \in Nat /\ c.addr + 8 <= BlockEnd(c)
  BY DEF HeapInv, TypeOK, Blocks, Block, BlockEnd, HDR
<1>3. /\ lo \in Blocks /\ hi \in Blocks /\ b \in Blocks
      /\ lo = b \/ (lo \in free /\ BlockEnd(lo) = b.addr)
      /\ hi = b \/ (hi \in free /\ hi.addr = BlockEnd(b))
  BY <1>1 DEF Before, After, Blocks
<1>4. lo.addr <= b.addr /\ BlockEnd(b) <= BlockEnd(hi)
  BY <1>2, <1>3
<1>5. M \in Block /\ M.addr = lo.addr /\ BlockEnd(M) = BlockEnd(hi)
  BY <1>2, <1>3, <1>4 DEF Block, BlockEnd, HDR
<1> HIDE DEF M
<1>6. free' = (free \ {lo, hi}) \cup {M} /\ live' = live \ {b}
  BY <1>1 DEF M
<1>7. Blocks' = (Blocks \ {b, lo, hi}) \cup {M}
  BY <1>1, <1>3, <1>6 DEF Blocks, HeapInv, TypeOK
<1>8. \A c, d \in Blocks : c # d => BlockEnd(c) <= d.addr \/ BlockEnd(d) <= c.addr
  BY DEF HeapInv, BlocksDisjoint
<1>9. ASSUME NEW c \in Blocks, c \notin {b, lo, hi}
      PROVE  BlockEnd(c) <= M.addr \/ BlockEnd(M) <= c.addr
  BY <1>2, <1>3, <1>5, <1>8, <1>9
<1>10. TypeOK'
  <2>1. M \notin live'
    BY <1>2, <1>3, <1>5, <1>6, <1>8 DEF HeapInv, TypeOK, Blocks
  <2>2. QED
    BY <1>1, <1>5, <1>6, <2>1 DEF HeapInv, TypeOK, Answer, NULL
<1>11. BlocksDisjoint'
  <2>1. \A c \in Blocks' : Start <= c.addr /\ BlockEnd(c) <= Limit
    BY <1>3, <1>5, <1>7 DEF HeapInv, BlocksDisjoint
  <2>2. \A c, d \in Blocks' : c # d => BlockEnd(c) <= d.addr \/ BlockEnd(d) <= c.addr
    BY <1>7, <1>8, <1>9
  <2>3. QED
    BY <2>1, <2>2 DEF BlocksDisjoint
<1>12. NothingLost'
  <2>1. ASSUME NEW x \in Start .. (Limit - 1)
        PROVE  \E c \in Blocks' : c.addr <= x /\ x < BlockEnd(c)
    <3>1. PICK c \in Blocks : c.addr <= x /\ x < BlockEnd(c)
      BY DEF HeapInv, NothingLost
    <3>2. CASE c \notin {b, lo, hi}
      BY <1>7, <3>1, <3>2
    <3>3. CASE c \in {b, lo, hi}
      <4>1. x \in Int /\ M \in Blocks'
        BY <1>7
      <4>2. lo.addr <= c.addr /\ BlockEnd(c) <= BlockEnd(hi)
        BY <1>2, <1>3, <1>4, <3>3
      <4>3. M.addr <= x /\ x < BlockEnd(M)
        BY <1>2, <1>3, <1>5, <3>1, <4>1, <4>2
      <4>4. QED
        BY <4>1, <4>3
    <3>4. QED
      BY <3>2, <3>3
  <2>2. QED
    BY <2>1 DEF NothingLost
<1>13. FullyCoalesced'
  <2>1. \A c, d \in free : BlockEnd(c) # d.addr
    BY DEF HeapInv, FullyCoalesced
  <2>2. ASSUME NEW c \in free, c \notin {lo, hi}
        PROVE  BlockEnd(c) # M.addr /\ BlockEnd(M) # c.addr
    <3>1. BlockEnd(c) # lo.addr
      <4>1. CASE lo = b
        BY <1>1, <2>2, <4>1 DEF Before
      <4>2. CASE lo # b
        BY <1>3, <2>1, <4>2
      <4>3. QED
        BY <4>1, <4>2
    <3>2. BlockEnd(hi) # c.addr
      <4>1. CASE hi = b
        BY <1>1, <2>2, <4>1 DEF After
      <4>2. CASE hi # b
        BY <1>3, <2>1, <4>2
      <4>3. QED
        BY <4>1, <4>2
    <3>3. QED
      BY <1>5, <3>1, <3>2
  <2>3. BlockEnd(M) # M.addr
    BY <1>2, <1>3, <1>4, <1>5
  <2>4. QED
    BY <1>6, <2>1, <2>2, <2>3 DEF FullyCoalesced
<1>14. HeadersAligned'
  BY <1>3, <1>5, <1>7 DEF HeapInv, HeadersAligned
<1>15. QED
  BY <1>10, <1>11, <1>12, <1>13, <1>14 DEF HeapInv

LEMMA InitEstablishesInv == Init => HeapInv
<1> SUFFICES ASSUME Init PROVE HeapInv
  OBVIOUS
<1>1. live = {} /\ answer \in Answer
  BY DEF Init, Answer, NULL
<1>2. CASE ~Usable
  <2>1. Blocks = {} /\ free = {} /\ Limit = Start
    BY <1>1, <1>2 DEF Init, Blocks, Limit
  <2>2. QED
    BY <1>1, <2>1, RegionFacts
       DEF HeapInv, TypeOK, BlocksDisjoint, NothingLost, FullyCoalesced, HeadersAligned
<1>3. CASE Usable
  <2> DEFINE w == [addr |-> Start, size |-> Limit - Start - HDR]
  <2>1. w \in Block /\ w.addr = Start /\ BlockEnd(w) = Limit
    BY <1>3, RegionFacts DEF Block, BlockEnd, HDR
  <2>2. free = {w} /\ Blocks = {w}
    BY <1>1, <1>3 DEF Init, Blocks
  <2> HIDE DEF w
  <2>3. Start < Limit /\ Start \in Nat /\ Limit \in Nat
    BY <1>3, RegionFacts DEF HDR
  <2>4. NothingLost
    BY <2>1, <2>2, <2>3 DEF NothingLost
  <2>5. QED
    BY <1>1, <2>1, <2>2, <2>3, <2>4, RegionFacts
       DEF HeapInv, TypeOK, BlocksDisjoint, FullyCoalesced, HeadersAligned
<1>4. QED
  BY <1>2, <1>3

LEMMA NextKeepsInv == HeapInv /\ [Next]_vars => HeapInv'
<1> SUFFICES ASSUME HeapInv, [Next]_vars PROVE HeapInv'
  OBVIOUS
<1>1. ASSUME NEW n \in Requests, KmallocSplit(n) PROVE HeapInv'
  BY <1>1, SplitKeepsInv
<1>2. ASSUME NEW n \in Requests, KmallocWhole(n) PROVE HeapInv'
  BY <1>2, WholeKeepsInv
<1>3. ASSUME NEW b \in live, Kfree(b) PROVE HeapInv'
  BY <1>3, KfreeKeepsInv
<1>4. CASE UNCHANGED <<free, live>> /\ answer' \in Answer
  BY <1>4 DEF HeapInv, TypeOK, BlocksDisjoint, NothingLost, FullyCoalesced, HeadersAligned, Blocks
<1>5. ASSUME NEW n \in Requests, KmallocNull(n) PROVE HeapInv'
  <2>1. answer' \in Answer
    BY <1>5, RegionAssumption DEF RegionAssumption, KmallocNull, Answer, NULL
  <2>2. QED
    BY <1>4, <1>5, <2>1 DEF KmallocNull
<1>6. CASE KfreeNull
  <2>1. answer' \in Answer
    BY <1>6 DEF KfreeNull, Answer, NULL
  <2>2. QED
    BY <1>4, <1>6, <2>1 DEF KfreeNull
<1>7. CASE UNCHANGED vars
  BY <1>4, <1>7 DEF vars, HeapInv, TypeOK
<1>8. QED
  BY <1>1, <1>2, <1>3, <1>5, <1>6, <1>7 DEF Next

(* HeapInv is an invariant of the heap: it is inductive as it stands.      *)
(* mem.c: split, whole-block allocation and the two-way merge of kfree.    *)
THEOREM HeapInvariant == Spec => []HeapInv
<1>1. QED
  BY InitEstablishesInv, NextKeepsInv, PTL DEF Spec

(* The blocks, and what a call answers, stay well formed.                  *)
THEOREM HeapTypeOK == Spec => []TypeOK
<1>1. HeapInv => TypeOK
  BY DEF HeapInv
<1>2. QED
  BY <1>1, HeapInvariant, PTL

(* No two blocks of the heap overlap and none leaves the region            *)
(* (kmalloc's split, kfree's merge).                                       *)
THEOREM HeapBlocksDisjoint == Spec => []BlocksDisjoint
<1>1. HeapInv => BlocksDisjoint
  BY DEF HeapInv
<1>2. QED
  BY <1>1, HeapInvariant, PTL

(* No byte of the region is ever lost to a leak inside the allocator.      *)
THEOREM HeapNothingLost == Spec => []NothingLost
<1>1. HeapInv => NothingLost
  BY DEF HeapInv
<1>2. QED
  BY <1>1, HeapInvariant, PTL

(* kfree leaves no two free blocks side by side.                           *)
THEOREM HeapFullyCoalesced == Spec => []FullyCoalesced
<1>1. HeapInv => FullyCoalesced
  BY DEF HeapInv
<1>2. QED
  BY <1>1, HeapInvariant, PTL

(* Every header, and so every pointer kmalloc returns, is 8-byte aligned.  *)
THEOREM HeapHeadersAligned == Spec => []HeadersAligned
<1>1. HeapInv => HeadersAligned
  BY DEF HeapInv
<1>2. QED
  BY <1>1, HeapInvariant, PTL

-----------------------------------------------------------------------------
(* The names Allocator shares with Heap mean the same.                     *)
LEMMA SameSizes ==
  /\ A!Start = Start /\ A!Limit = Limit /\ A!HDR = HDR /\ A!NULL = NULL
  /\ A!ALIGN_SIZE = ALIGN_SIZE
  /\ \A n : A!Padded(n) = Padded(n) /\ (A!Representable(n) <=> Representable(n))
  /\ \A b : A!BlockEnd(b) = BlockEnd(b)
<1>1. \A n : A!align_up(n) = align_up(n)
  BY DEF A!align_up, align_up, A!ALIGN_SIZE, ALIGN_SIZE
<1>2. A!Start = Start /\ A!HDR = HDR /\ A!NULL = NULL /\ A!ALIGN_SIZE = ALIGN_SIZE
  BY <1>1 DEF A!Start, Start, A!HDR, HDR, A!NULL, NULL, A!ALIGN_SIZE, ALIGN_SIZE
<1>3. A!Limit = Limit
  BY <1>2 DEF A!Limit, Limit, A!Usable, Usable
<1>4. \A n : A!Padded(n) = Padded(n) /\ (A!Representable(n) <=> Representable(n))
  BY <1>1 DEF A!Padded, Padded, A!MIN_ALLOC_SIZE, MIN_ALLOC_SIZE,
              A!Representable, Representable, A!ALIGN_SIZE, ALIGN_SIZE
<1>5. \A b : A!BlockEnd(b) = BlockEnd(b)
  BY <1>2 DEF A!BlockEnd, BlockEnd
<1>6. QED
  BY <1>2, <1>3, <1>4, <1>5

(* Bytes of the region that no caller holds and that lie together are in   *)
(* one free block: the heart of "refused only when there is no room".      *)
LEMMA GapInOneFreeBlock ==
  ASSUME HeapInv, NEW lo \in Int, NEW hi \in Int, lo < hi,
         Start <= lo, hi <= Limit,
         \A b \in live : BlockEnd(b) <= lo \/ hi <= b.addr
  PROVE  \E f \in free : f.addr <= lo /\ hi <= BlockEnd(f)
<1>1. \A c \in Blocks : c.addr \in Nat /\ BlockEnd(c) \in Nat /\ c.addr < BlockEnd(c)
  BY DEF HeapInv, TypeOK, Blocks, Block, BlockEnd, HDR
<1>2. Start \in Nat /\ Limit \in Nat
  BY RegionFacts
<1>3. PICK f \in Blocks : f.addr <= lo /\ lo < BlockEnd(f)
  BY <1>2 DEF HeapInv, NothingLost
<1>4. f \in free
  BY <1>1, <1>3 DEF Blocks
<1>5. SUFFICES ASSUME BlockEnd(f) < hi PROVE FALSE
  BY <1>1, <1>3, <1>4
<1>6. PICK c \in Blocks : c.addr <= BlockEnd(f) /\ BlockEnd(f) < BlockEnd(c)
  BY <1>1, <1>2, <1>3, <1>5 DEF HeapInv, NothingLost
<1>7. c.addr = BlockEnd(f)
  BY <1>1, <1>3, <1>6 DEF HeapInv, BlocksDisjoint
<1>8. CASE c \in live
  BY <1>1, <1>3, <1>5, <1>6, <1>7, <1>8
<1>9. CASE c \in free
  BY <1>4, <1>7, <1>9 DEF HeapInv, FullyCoalesced
<1>10. QED
  BY <1>8, <1>9 DEF Blocks

LEMMA SplitGrants ==
  ASSUME HeapInv, NEW n \in Requests, KmallocSplit(n)
  PROVE  A!Grant(n)
<1>1. PICK b \in free :
        /\ n > 0 /\ FirstFit(b, n) /\ Splits(b, n)
        /\ live' = live \cup {Front(b, n)}
        /\ answer' = [op |-> "kmalloc", n |-> n, ret |-> b.addr + HDR]
  BY DEF KmallocSplit
<1> DEFINE F == Front(b, n)
<1>2. /\ F \in Block /\ F.addr = b.addr /\ F.addr % ALIGN_SIZE = 0
      /\ F \notin live /\ BlockEnd(F) < BlockEnd(b)
  BY <1>1, SplitFacts
<1>3. Representable(n) => F.size >= n
  BY RegionAssumption, PaddedFacts DEF RegionAssumption, Front
<1>4. b \in Blocks /\ \A c \in live : c \in Blocks /\ c # b
  BY DEF HeapInv, TypeOK, Blocks
<1>5. /\ Start <= b.addr /\ BlockEnd(b) <= Limit
      /\ \A c \in live : BlockEnd(c) <= b.addr \/ BlockEnd(b) <= c.addr
  BY <1>4 DEF HeapInv, BlocksDisjoint
<1> HIDE DEF F
<1>6. \A c \in Blocks : c.addr \in Nat /\ BlockEnd(c) \in Nat
  BY DEF HeapInv, TypeOK, Blocks, Block, BlockEnd, HDR
<1>7. BlockEnd(F) \in Nat
  BY <1>2 DEF Block, BlockEnd, HDR
<1>8. A!Clear(F.addr, BlockEnd(F))
  BY <1>2, <1>4, <1>5, <1>6, <1>7, SameSizes, RegionFacts DEF A!Clear
<1>9. live' = live \cup {F} /\ F \in live' \ live
  BY <1>1, <1>2 DEF F
<1>10. QED
  BY <1>1, <1>2, <1>3, <1>8, <1>9, SameSizes DEF A!Grant

LEMMA WholeGrants ==
  ASSUME HeapInv, NEW n \in Requests, KmallocWhole(n)
  PROVE  A!Grant(n)
<1>1. PICK b \in free :
        /\ n > 0 /\ FirstFit(b, n)
        /\ live' = live \cup {b}
        /\ answer' = [op |-> "kmalloc", n |-> n, ret |-> b.addr + HDR]
  BY DEF KmallocWhole
<1>2. b \in Blocks /\ b \notin live /\ \A c \in live : c \in Blocks /\ c # b
  BY DEF HeapInv, TypeOK, Blocks
<1>3. b.size \in Nat /\ b.addr % ALIGN_SIZE = 0
  BY DEF HeapInv, TypeOK, HeadersAligned, Blocks, Block
<1>4. Representable(n) => b.size >= n
  <2>1. n \in 0 .. (SizeMod - 1)
    BY RegionAssumption DEF RegionAssumption
  <2>2. b.size >= Padded(n)
    BY <1>1 DEF FirstFit, Fits
  <2>3. QED
    BY <1>3, <2>1, <2>2, PaddedFacts
<1>5. A!Clear(b.addr, BlockEnd(b))
  BY <1>2, SameSizes DEF A!Clear, HeapInv, BlocksDisjoint
<1>6. QED
  BY <1>1, <1>2, <1>3, <1>4, <1>5, SameSizes DEF A!Grant

(* When no free block fits, no gap between the callers' blocks does: such  *)
(* a gap would lie in one free block.                                      *)
LEMMA NullRefuses ==
  ASSUME HeapInv, NEW n \in Requests, KmallocNull(n)
  PROVE  A!Refuse(n)
<1>1. n \in 0 .. (SizeMod - 1) /\ Padded(n) \in Nat
  BY RegionAssumption, PaddedFacts DEF RegionAssumption
<1>2. ASSUME n # 0, NEW lo \in Start .. Limit, A!Clear(lo, lo + HDR + Padded(n))
      PROVE  FALSE
  <2> DEFINE hi == lo + HDR + Padded(n)
  <2>1. /\ lo \in Int /\ hi \in Int /\ lo < hi
    BY <1>1, RegionFacts DEF HDR
  <2>2. /\ Start <= lo /\ hi <= Limit
        /\ \A b \in live : BlockEnd(b) <= lo \/ hi <= b.addr
    BY <1>2, SameSizes DEF A!Clear
  <2> HIDE DEF hi
  <2>3. PICK f \in free : f.addr <= lo /\ hi <= BlockEnd(f)
    BY <2>1, <2>2, GapInOneFreeBlock
  <2>4. f.addr \in Nat /\ f.size \in Nat
    BY DEF HeapInv, TypeOK, Block
  <2>5. f.size >= Padded(n)
    BY <1>1, <2>1, <2>3, <2>4 DEF hi, BlockEnd, HDR
  <2>6. QED
    BY <1>2, <2>5 DEF KmallocNull, Fits
<1>3. n = 0 \/ \A lo \in Start .. Limit : ~A!Clear(lo, lo + HDR + Padded(n))
  BY <1>2
<1>4. QED
  BY <1>3, SameSizes DEF A!Refuse, KmallocNull

LEMMA StepImplements == HeapInv /\ [Next]_vars => [A!ANext]_(A!avars)
<1> SUFFICES ASSUME HeapInv, [Next]_vars PROVE [A!ANext]_(A!avars)
  OBVIOUS
<1>1. ASSUME NEW n \in Requests, KmallocSplit(n) PROVE A!ANext
  BY <1>1, SplitGrants DEF A!ANext
<1>2. ASSUME NEW n \in Requests, KmallocWhole(n) PROVE A!ANext
  BY <1>2, WholeGrants DEF A!ANext
<1>3. ASSUME NEW n \in Requests, KmallocNull(n) PROVE A!ANext
  BY <1>3, NullRefuses DEF A!ANext
<1>4. ASSUME NEW b \in live, Kfree(b) PROVE A!ANext
  BY <1>4, SameSizes DEF Kfree, A!ANext, A!Release
<1>5. CASE KfreeNull
  BY <1>5, SameSizes DEF KfreeNull, A!ANext, A!Release
<1>6. CASE UNCHANGED vars
  BY <1>6 DEF vars, A!avars
<1>7. QED
  BY <1>1, <1>2, <1>3, <1>4, <1>5, <1>6 DEF Next

(* The heap keeps the allocator's promise: what kmalloc hands out is large *)
(* enough, aligned and nobody else's, and it answers NULL only when no gap *)
(* between the callers' blocks has room.                                   *)
THEOREM HeapImplementsAllocator == Spec => ImplementsAllocator
<1>1. Init => A!AInit
  BY SameSizes DEF Init, A!AInit
<1>2. QED
  BY <1>1, StepImplements, HeapInvariant, PTL DEF Spec, ImplementsAllocator, A!ASpec

-----------------------------------------------------------------------------
(* FreeList.  A chain over the addresses of S: nx leads from each of them  *)
(* to the next, and from NULL to the first.                                *)
Chain(S, nx) == \A p \in {NULL} \cup S : Follows(S, p, nx[p])

LEMMA FollowsFacts ==
  ASSUME NEW S \in SUBSET (Nat \ {0}), NEW p \in Nat, NEW q, Follows(S, p, q)
  PROVE  /\ \A a \in S : a \in Nat
         /\ q = NULL => \A a \in S : a <= p
         /\ q # NULL => q \in S /\ q \in Nat /\ p < q /\ \A a \in S : a <= p \/ q <= a
<1>1. \A a \in S : a \in Nat
  OBVIOUS
<1>2. ASSUME q # NULL PROVE q \in S /\ q \in Nat /\ p < q /\ \A a \in S : a <= p \/ q <= a
  <2>1. q \in S /\ q > p /\ \A a \in S : a <= p \/ q <= a
    BY <1>2 DEF Follows
  <2>2. q \in Nat
    BY <2>1
  <2>3. QED
    BY <2>1, <2>2
<1>3. q = NULL => \A a \in S : a <= p
  BY DEF Follows
<1>4. QED
  BY <1>1, <1>2, <1>3

(* Only one link of a chain leads to q.                                    *)
LEMMA OneLink ==
  ASSUME NEW S \in SUBSET (Nat \ {0}), NEW q \in S, NEW p \in {NULL} \cup S, NEW l \in {NULL} \cup S,
         Follows(S, p, q), Follows(S, l, q)
  PROVE  p = l
  BY DEF Follows, NULL

(* A chain stays one when an address goes that no link leads to, ...       *)
LEMMA FollowsWithout ==
  ASSUME NEW S \in SUBSET (Nat \ {0}), NEW q, NEW l, NEW m, m # q, Follows(S, l, m)
  PROVE  Follows(S \ {q}, l, m)
  BY DEF Follows

(* ... when the link to it is given its own follower, ...                  *)
LEMMA FollowsPast ==
  ASSUME NEW S \in SUBSET (Nat \ {0}), NEW q \in S, NEW p \in {NULL} \cup S, NEW m,
         Follows(S, p, q), Follows(S, q, m)
  PROVE  Follows(S \ {q}, p, m)
<1>1. CASE m = 0
  BY <1>1 DEF Follows, NULL
<1>2. CASE m # 0
  <2>1. /\ q \in Nat /\ p \in Nat /\ m \in S \ {q} /\ m \in Nat /\ p < q /\ q < m
        /\ \A a \in S : a \in Nat /\ (a <= p \/ q <= a) /\ (a <= q \/ m <= a)
    BY <1>2, FollowsFacts DEF NULL
  <2>2. p < m
    BY <2>1
  <2>3. ASSUME NEW a \in S \ {q} PROVE a <= p \/ m <= a
    BY <2>1
  <2>4. QED
    BY <1>2, <2>1, <2>2, <2>3 DEF Follows, NULL
<1>3. QED
  BY <1>1, <1>2

(* ... and when one comes that lies between no other two.                  *)
LEMMA FollowsWith ==
  ASSUME NEW S \in SUBSET (Nat \ {0}), NEW x \in Nat \ {0}, NEW l \in Nat, NEW m,
         Follows(S, l, m), x <= l \/ (m # NULL /\ m <= x)
  PROVE  Follows(S \cup {x}, l, m)
  BY DEF Follows, NULL

LEMMA ChainWithout ==
  ASSUME NEW S \in SUBSET (Nat \ {0}), NEW nx, NEW ny, NEW p \in {NULL} \cup S, NEW q \in S,
         Chain(S, nx), nx[p] = q, ny[p] = nx[q],
         \A l \in ({NULL} \cup S) \ {p, q} : ny[l] = nx[l]
  PROVE  Chain(S \ {q}, ny)
<1> SUFFICES ASSUME NEW l \in {NULL} \cup (S \ {q}) PROVE Follows(S \ {q}, l, ny[l])
  BY DEF Chain
<1>1. Follows(S, p, q) /\ Follows(S, q, nx[q]) /\ Follows(S, l, nx[l])
  BY DEF Chain
<1>2. CASE l = p
  BY <1>1, <1>2, FollowsPast
<1>3. CASE l # p
  <2>1. nx[l] # q
    BY <1>1, <1>3, OneLink
  <2>2. ny[l] = nx[l]
    BY <1>3 DEF NULL
  <2>3. QED
    BY <1>1, <2>1, <2>2, FollowsWithout
<1>4. QED
  BY <1>2, <1>3

LEMMA ChainWith ==
  ASSUME NEW S \in SUBSET (Nat \ {0}), NEW nx, NEW ny, NEW p \in {NULL} \cup S, NEW x \in Nat \ {0},
         Chain(S, nx), p < x, nx[p] = NULL \/ x < nx[p],
         ny[p] = x, ny[x] = nx[p], \A l \in ({NULL} \cup S) \ {p} : ny[l] = nx[l]
  PROVE  Chain(S \cup {x}, ny)
<1> SUFFICES ASSUME NEW l \in {NULL} \cup (S \cup {x}) PROVE Follows(S \cup {x}, l, ny[l])
  BY DEF Chain
<1> DEFINE q == nx[p]
<1>1. /\ Follows(S, p, q) /\ p \in Nat /\ x \in Nat /\ p < x /\ \A a \in S : a \in Nat
      /\ q # NULL => q \in S /\ q \in Nat /\ q > p /\ x < q
  <2>1. Follows(S, p, q) /\ p \in Nat
    BY DEF Chain, NULL
  <2>2. QED
    BY <2>1, FollowsFacts
<1>2. \A a \in S : a <= p \/ (q # NULL /\ q <= a)
  BY <1>1, FollowsFacts
<1> HIDE DEF q
<1>3. CASE l = p
  <2>1. ASSUME NEW a \in S PROVE a <= p \/ x <= a
    BY <1>1, <1>2
  <2>2. QED
    BY <1>1, <1>3, <2>1 DEF Follows, NULL
<1>4. CASE l = x
  <2>1. ny[l] = q
    BY <1>4 DEF q
  <2>2. \A a \in S : a <= x \/ (q # NULL /\ q <= a)
    BY <1>1, <1>2
  <2>3. q # NULL => q \in S \cup {x} /\ q > x
    BY <1>1
  <2>4. QED
    BY <1>4, <2>1, <2>2, <2>3 DEF Follows
<1>5. CASE l # p /\ l # x
  <2>1. ny[l] = nx[l] /\ l \in {NULL} \cup S /\ Follows(S, l, nx[l]) /\ l \in Nat
    BY <1>1, <1>5 DEF Chain, NULL
  <2>2. CASE l < p
    <3>1. p \in S
      BY <1>1, <2>1, <2>2 DEF NULL
    <3>2. nx[l] # NULL /\ nx[l] \in S /\ nx[l] \in Nat /\ nx[l] <= p
      BY <1>1, <2>1, <2>2, <3>1, FollowsFacts
    <3>3. nx[l] <= x
      BY <1>1, <3>2
    <3>4. QED
      BY <2>1, <3>2, <3>3, FollowsWith
  <2>3. CASE p < l
    <3>1. l \in S /\ q # NULL /\ q <= l
      BY <1>1, <1>2, <2>1, <2>3 DEF NULL
    <3>2. x <= l
      BY <1>1, <2>1, <3>1
    <3>3. QED
      BY <2>1, <3>2, FollowsWith
  <2>4. QED
    BY <1>1, <1>5, <2>1, <2>2, <2>3
<1>6. QED
  BY <1>3, <1>4, <1>5

-----------------------------------------------------------------------------
Header == [size : Nat, next : Nat]
AddrsOf(S) == {b.addr : b \in S}

(* The free headers, which the list must visit: those no caller holds, and *)
(* the one that kfree has linked in and not yet merged.                    *)
Linked == IF pc = "back" THEN (DOMAIN hdr \ Held) \cup {arg} ELSE DOMAIN hdr \ Held
Nexts == [p \in {NULL} \cup DOMAIN hdr |-> Deref(p)]

HeadersTyped ==
  /\ free_list_head \in Nat /\ DOMAIN hdr \subseteq Nat \ {0}
  /\ \A p \in DOMAIN hdr : hdr[p] \in Header

(* The headers are those of the blocks of S.                               *)
Described(S) == DOMAIN hdr = AddrsOf(S) /\ \A b \in S : hdr[b.addr].size = b.size

(* What kmalloc has passed is too small.                                   *)
FitInv ==
  /\ arg \in Requests /\ arg > 0 /\ cur \in {NULL} \cup Linked
  /\ \A a \in Linked : a <= cur => ~LargeEnough(a)

InsertInv == arg \in Held /\ cur \in {NULL} \cup Linked /\ cur < arg

(* The block linked in has swallowed the free block behind it, if it       *)
(* touches one; all other headers are as they were.                        *)
Swallowed(b, hi) ==
  /\ hi \in After(b) \cup {b} /\ (After(b) # {} => hi # b)
  /\ DOMAIN hdr = AddrsOf((Blocks \ {hi}) \cup {b})
  /\ hdr[b.addr].size = BlockEnd(hi) - b.addr - HDR
  /\ \A c \in Blocks \ {b, hi} : hdr[c.addr].size = c.size

Absorbed == \E b \in live, hi \in Blocks : b.addr = arg /\ Swallowed(b, hi)

(* The search for the block before it cannot miss it.                      *)
BackInv ==
  /\ Absorbed
  /\ IF cur = NULL THEN \A a \in Linked : arg <= a
     ELSE /\ cur \in Linked /\ cur < arg /\ hdr[cur].next = arg
          /\ prev \in Linked /\ prev <= cur

PointerInv ==
  /\ HeadersTyped /\ Chain(Linked, Nexts)
  /\ pc \in {"idle", "fit", "insert", "back"}
  /\ pc # "back" => Described(Blocks)
  /\ pc = "fit" => FitInv
  /\ pc = "insert" => InsertInv
  /\ pc = "back" => BackInv

-----------------------------------------------------------------------------
LEMMA BlockFacts ==
  ASSUME HeapInv
  PROVE  /\ \A b \in Blocks : /\ b \in Block /\ b.addr \in Nat \ {0} /\ b.size \in Nat
                              /\ b = [addr |-> b.addr, size |-> b.size]
                              /\ BlockEnd(b) = b.addr + 8 + b.size
         /\ \A b, c \in Blocks : b # c => BlockEnd(b) <= c.addr \/ BlockEnd(c) <= b.addr
         /\ \A b, c \in Blocks : b.addr = c.addr => b = c
<1>1. \A b \in Blocks : b \in Block /\ b.addr >= Start
  BY DEF HeapInv, TypeOK, BlocksDisjoint, Blocks
<1>2. \A b \in Blocks : /\ b.addr \in Nat \ {0} /\ b.size \in Nat
                        /\ b = [addr |-> b.addr, size |-> b.size]
                        /\ BlockEnd(b) = b.addr + 8 + b.size
  BY <1>1, RegionFacts DEF Block, BlockEnd, HDR
<1>3. \A b, c \in Blocks : b # c => BlockEnd(b) <= c.addr \/ BlockEnd(c) <= b.addr
  BY DEF HeapInv, BlocksDisjoint
<1>4. ASSUME NEW b \in Blocks, NEW c \in Blocks, b.addr = c.addr PROVE b = c
  <2>1. BlockEnd(b) > c.addr /\ BlockEnd(c) > b.addr /\ BlockEnd(b) \in Nat /\ BlockEnd(c) \in Nat
    BY <1>2, <1>4
  <2>2. QED
    BY <1>2, <1>3, <2>1
<1>5. QED
  BY <1>1, <1>2, <1>3, <1>4

LEMMA RestFacts ==
  ASSUME HeapInv, PointerInv, pc # "back"
  PROVE  /\ Linked = AddrsOf(free) /\ Linked \in SUBSET (Nat \ {0}) /\ Held = AddrsOf(live)
         /\ DOMAIN hdr = AddrsOf(Blocks) /\ Linked \subseteq DOMAIN hdr /\ Held \subseteq DOMAIN hdr
         /\ Linked \cap Held = {}
         /\ \A p \in Linked : [addr |-> p, size |-> hdr[p].size] \in free
         /\ \A b \in Blocks : hdr[b.addr].size = b.size
<1>1. /\ DOMAIN hdr = AddrsOf(Blocks) /\ Linked = DOMAIN hdr \ Held /\ Held = AddrsOf(live)
      /\ \A b \in Blocks : hdr[b.addr].size = b.size
  BY DEF PointerInv, Described, Linked, Held, AddrsOf
<1>2. ASSUME NEW b \in free, NEW c \in live PROVE b.addr # c.addr
  BY BlockFacts DEF Blocks, HeapInv, TypeOK
<1>3. Linked = AddrsOf(free)
  BY <1>1, <1>2 DEF AddrsOf, Blocks
<1>4. Linked \in SUBSET (Nat \ {0})
  BY <1>1 DEF PointerInv, HeadersTyped
<1>5. Linked \subseteq DOMAIN hdr /\ Held \subseteq DOMAIN hdr /\ Linked \cap Held = {}
  BY <1>1 DEF AddrsOf, Blocks
<1>6. ASSUME NEW p \in Linked PROVE [addr |-> p, size |-> hdr[p].size] \in free
  <2>1. PICK b \in free : b.addr = p
    BY <1>3 DEF AddrsOf
  <2>2. b = [addr |-> b.addr, size |-> b.size] /\ hdr[p].size = b.size
    BY <1>1, <2>1, BlockFacts DEF Blocks
  <2>3. QED
    BY <2>1, <2>2
<1>7. QED
  BY <1>1, <1>3, <1>4, <1>5, <1>6

(* Headers that describe F and L, without those of L, describe F.          *)
LEMMA UnheldIs ==
  ASSUME NEW h, NEW F \in SUBSET Block, NEW L,
         DOMAIN h = AddrsOf(F \cup L), AddrsOf(F) \cap AddrsOf(L) = {},
         \A b \in F : h[b.addr].size = b.size
  PROVE  {[addr |-> p, size |-> h[p].size] : p \in DOMAIN h \ AddrsOf(L)} = F
<1>1. DOMAIN h \ AddrsOf(L) = AddrsOf(F)
  BY DEF AddrsOf
<1>2. ASSUME NEW b \in F PROVE b = [addr |-> b.addr, size |-> h[b.addr].size]
  <2>1. b = [addr |-> b.addr, size |-> b.size]
    BY DEF Block
  <2>2. QED
    BY <2>1
<1>3. QED
  BY <1>1, <1>2 DEF AddrsOf

(* Storing x through a link changes that link and no size.                 *)
LEMMA LinkSet ==
  ASSUME NEW h, NEW link, NEW x \in Nat, link # NULL => link \in DOMAIN h,
         \A p \in DOMAIN h : h[p] \in Header
  PROVE  /\ DOMAIN HdrWith(h, link, x) = DOMAIN h
         /\ \A p \in DOMAIN h :
              /\ HdrWith(h, link, x)[p] \in Header
              /\ HdrWith(h, link, x)[p].size = h[p].size
              /\ HdrWith(h, link, x)[p].next = IF p = link /\ link # NULL THEN x ELSE h[p].next
<1>1. CASE link = NULL
  BY <1>1 DEF HdrWith
<1>2. CASE link # NULL
  <2>1. HdrWith(h, link, x) = [h EXCEPT ![link].next = x] /\ link \in DOMAIN h
    BY <1>2 DEF HdrWith
  <2>2. [h[link] EXCEPT !.next = x] = [size |-> h[link].size, next |-> x] /\ h[link].size \in Nat
    BY <2>1 DEF Header
  <2>3. QED
    BY <1>2, <2>1, <2>2 DEF Header
<1>3. QED
  BY <1>1, <1>2

-----------------------------------------------------------------------------
(* The list from a link to the rest: what the code finds there.            *)
LEMMA WalkFacts ==
  ASSUME HeapInv, PointerInv, NEW p \in {NULL} \cup Linked, Linked \in SUBSET (Nat \ {0}),
         Linked \subseteq DOMAIN hdr
  PROVE  Follows(Linked, p, Deref(p)) /\ Nexts[p] = Deref(p) /\ p \in Nat /\ Deref(p) \in Nat
<1>1. Nexts[p] = Deref(p)
  BY DEF Nexts
<1>2. Follows(Linked, p, Deref(p))
  BY <1>1 DEF PointerInv, Chain
<1>3. p \in Nat
  BY DEF NULL
<1>4. Deref(p) \in Nat
  BY <1>2, <1>3, FollowsFacts DEF NULL
<1>5. QED
  BY <1>1, <1>2, <1>3, <1>4

(* Where the loop of kmalloc stops is the first block that fits.           *)
LEMMA FitFacts ==
  ASSUME HeapInv, PointerInv, pc = "fit", Deref(cur) # NULL, LargeEnough(Deref(cur)),
         NEW b, b = [addr |-> Deref(cur), size |-> hdr[Deref(cur)].size]
  PROVE  /\ arg \in Requests /\ arg > 0 /\ Padded(arg) \in Nat
         /\ cur \in {NULL} \cup Linked /\ cur \in Nat /\ cur < b.addr
         /\ b.addr \in Linked /\ b \in free /\ FirstFit(b, arg)
         /\ b.size = hdr[b.addr].size /\ hdr[b.addr] \in Header
         /\ Follows(Linked, b.addr, hdr[b.addr].next) /\ Nexts[cur] = b.addr
<1>1. /\ arg \in Requests /\ arg > 0 /\ cur \in {NULL} \cup Linked
      /\ \A a \in Linked : a <= cur => ~LargeEnough(a)
  BY DEF PointerInv, FitInv
<1>2. /\ Linked = AddrsOf(free) /\ Linked \in SUBSET (Nat \ {0}) /\ Linked \subseteq DOMAIN hdr
      /\ \A p \in Linked : [addr |-> p, size |-> hdr[p].size] \in free
      /\ \A c \in Blocks : hdr[c.addr].size = c.size
  BY RestFacts
<1>3. Follows(Linked, cur, Deref(cur)) /\ Nexts[cur] = Deref(cur) /\ cur \in Nat
  BY <1>1, <1>2, WalkFacts
<1>4. /\ Deref(cur) \in Linked /\ cur < Deref(cur) /\ Deref(cur) \in Nat
      /\ \A a \in Linked : a \in Nat /\ (a <= cur \/ Deref(cur) <= a)
  BY <1>2, <1>3, FollowsFacts
<1>5. b \in free /\ b.addr = Deref(cur) /\ b.size = hdr[b.addr].size
  BY <1>2, <1>4
<1>6. Padded(arg) \in Nat
  BY <1>1, PaddedFacts, RegionAssumption DEF RegionAssumption
<1>7. ASSUME NEW c \in free, Fits(c, arg) PROVE b.addr <= c.addr
  <2>1. c.addr \in Linked /\ hdr[c.addr].size = c.size
    BY <1>2 DEF AddrsOf, Blocks
  <2>2. LargeEnough(c.addr)
    BY <1>7, <2>1 DEF LargeEnough, Fits
  <2>3. QED
    BY <1>1, <1>4, <1>5, <2>1, <2>2
<1>8. FirstFit(b, arg)
  <2>1. Fits(b, arg)
    BY <1>5 DEF LargeEnough, Fits
  <2>2. QED
    BY <1>5, <1>7, <2>1 DEF FirstFit
<1>9. hdr[b.addr] \in Header /\ Deref(b.addr) = hdr[b.addr].next
  BY <1>2, <1>4, <1>5 DEF PointerInv, HeadersTyped, Deref, NULL
<1>10. Follows(Linked, b.addr, hdr[b.addr].next)
  BY <1>2, <1>4, <1>5, <1>9, WalkFacts
<1>11. QED
  BY <1>1, <1>3, <1>4, <1>5, <1>6, <1>8, <1>9, <1>10

LEMMA TakeFrontStep ==
  ASSUME HeapInv, PointerInv, TakeFront
  PROVE  arg \in Requests /\ KmallocSplit(arg) /\ PointerInv'
<1> DEFINE p == Deref(cur)
           b == [addr |-> p, size |-> hdr[p].size]
           F == Front(b, arg)
           R == Rest(b, arg)
           r == RestAt(p)
           nx == hdr[p].next
<1>1. /\ p # NULL /\ HasRest(p) /\ LargeEnough(p) /\ pc = "fit"
      /\ free_list_head' = HeadWith(cur, r) /\ hdr' = HdrWith(Cut(p), cur, r)
      /\ live' = live \cup {[addr |-> p, size |-> hdr'[p].size]} /\ free' = Unheld'
      /\ pc' = "idle" /\ answer' = [op |-> "kmalloc", n |-> arg, ret |-> p + HDR]
  BY DEF TakeFront, Take, Return
<1>2. /\ arg \in Requests /\ arg > 0 /\ Padded(arg) \in Nat
      /\ cur \in {NULL} \cup Linked /\ cur \in Nat /\ cur < p
      /\ p \in Linked /\ b \in free /\ FirstFit(b, arg) /\ hdr[p] \in Header
      /\ Follows(Linked, p, nx) /\ Nexts[cur] = p
  BY <1>1, FitFacts
<1>3. /\ Linked = AddrsOf(free) /\ Linked \in SUBSET (Nat \ {0}) /\ Held = AddrsOf(live)
      /\ DOMAIN hdr = AddrsOf(Blocks) /\ Linked \subseteq DOMAIN hdr /\ Held \subseteq DOMAIN hdr
      /\ Linked \cap Held = {} /\ Linked = DOMAIN hdr \ Held
      /\ \A c \in Blocks : hdr[c.addr].size = c.size
  BY <1>1, RestFacts DEF Linked
<1>4. Splits(b, arg)
  BY <1>1 DEF Splits, HasRest
<1>5. /\ F \in Block /\ R \in Block /\ F.addr = p /\ F.size = Padded(arg)
      /\ R.addr = r /\ R.size = RestSize(p) /\ r \in Nat \ {0} /\ RestSize(p) \in Nat
      /\ p < r /\ r < BlockEnd(b) /\ F = [addr |-> p, size |-> Padded(arg)]
  <2>1. /\ F \in Block /\ R \in Block /\ b.addr < R.addr /\ R.addr < BlockEnd(b)
    BY <1>2, <1>4, SplitFacts
  <2>2. /\ R.addr = r /\ R.size = RestSize(p) /\ F.addr = p /\ F.size = Padded(arg)
        /\ F = [addr |-> p, size |-> Padded(arg)]
    BY DEF Front, Rest, RestAt, RestSize
  <2>3. r \in Nat /\ RestSize(p) \in Nat
    BY <2>1, <2>2 DEF Block
  <2>4. p \in Nat \ {0}
    BY <1>2, <1>3
  <2>5. QED
    BY <2>1, <2>2, <2>3, <2>4
<1>6. /\ b \in Blocks /\ b.addr = p /\ BlockEnd(b) \in Nat
      /\ \A c \in Blocks : /\ c.addr \in Nat /\ BlockEnd(c) \in Nat /\ c.addr < BlockEnd(c)
                           /\ c # b => BlockEnd(c) <= p \/ BlockEnd(b) <= c.addr
      /\ \A c \in Blocks : c.addr = p => c = b
  BY <1>2, BlockFacts DEF Blocks
<1> HIDE DEF p, b, F, R, r, nx
<1>7. r \notin DOMAIN hdr
  <2>1. ASSUME NEW c \in Blocks, c.addr = r PROVE FALSE
    BY <1>5, <1>6, <2>1, <1>2
  <2>2. QED
    BY <1>3, <2>1 DEF AddrsOf
<1>8. /\ DOMAIN hdr' = DOMAIN hdr \cup {r}
      /\ \A q \in DOMAIN hdr' :
           /\ hdr'[q] \in Header
           /\ hdr'[q].size = IF q = r THEN RestSize(p) ELSE IF q = p THEN Padded(arg) ELSE hdr[q].size
           /\ hdr'[q].next = IF q = cur THEN r ELSE IF q = r THEN nx ELSE hdr[q].next
  <2> DEFINE C == Cut(p)
  <2>1. /\ DOMAIN C = DOMAIN hdr \cup {r}
        /\ \A q \in DOMAIN C : C[q] = IF q = r THEN [size |-> RestSize(p), next |-> nx]
                                      ELSE IF q = p THEN [size |-> Padded(arg), next |-> nx] ELSE hdr[q]
    BY DEF Cut, r, nx
  <2>2. nx \in Nat /\ \A q \in DOMAIN hdr : hdr[q] \in Header /\ q # 0
    BY <1>2 DEF PointerInv, HeadersTyped, Header, nx
  <2>3. \A q \in DOMAIN C : C[q] \in Header /\ q # 0
    BY <1>2, <1>5, <2>1, <2>2 DEF Header
  <2> HIDE DEF C
  <2>4. /\ DOMAIN hdr' = DOMAIN C
        /\ \A q \in DOMAIN C : /\ hdr'[q] \in Header /\ hdr'[q].size = C[q].size
                               /\ hdr'[q].next = IF q = cur /\ cur # NULL THEN r ELSE C[q].next
    <3>1. cur # NULL => cur \in DOMAIN C
      BY <1>2, <1>3, <2>1
    <3>2. hdr' = HdrWith(C, cur, r)
      BY <1>1 DEF C
    <3>3. QED
      BY <1>5, <2>3, <3>1, <3>2, LinkSet
  <2>5. ASSUME NEW q \in DOMAIN C
        PROVE  /\ C[q].size = IF q = r THEN RestSize(p) ELSE IF q = p THEN Padded(arg) ELSE hdr[q].size
               /\ C[q].next = IF q = r THEN nx ELSE hdr[q].next
    BY <2>1 DEF nx
  <2>6. QED
    BY <2>1, <2>3, <2>4, <2>5 DEF NULL
<1>9. live' = live \cup {F} /\ answer' = [op |-> "kmalloc", n |-> arg, ret |-> b.addr + HDR]
  <2>1. p \in DOMAIN hdr' /\ p # r
    BY <1>2, <1>3, <1>5, <1>8
  <2>2. hdr'[p].size = Padded(arg)
    BY <1>8, <2>1
  <2>3. QED
    BY <1>1, <1>5, <1>6, <2>2
<1>10. Held' = Held \cup {p}
  BY <1>5, <1>9 DEF Held
<1>11. Linked' = (Linked \ {p}) \cup {r}
  BY <1>1, <1>2, <1>3, <1>7, <1>8, <1>10 DEF Linked
<1>12. free' = (free \ {b}) \cup {R}
  <2> DEFINE G == (free \ {b}) \cup {R}
  <2>1. G \subseteq Block
    BY <1>5 DEF HeapInv, TypeOK
  <2>2. AddrsOf(free \ {b}) = Linked \ {p}
    BY <1>3, <1>6 DEF AddrsOf, Blocks
  <2>3. AddrsOf(G) = (Linked \ {p}) \cup {r} /\ AddrsOf(live') = Held \cup {p}
    <3>1. AddrsOf(G) = AddrsOf(free \ {b}) \cup {R.addr} /\ AddrsOf(live') = Held'
      BY DEF AddrsOf, Held
    <3>2. QED
      BY <1>5, <1>10, <2>2, <3>1
  <2>4. AddrsOf(G \cup live') = AddrsOf(G) \cup AddrsOf(live')
    BY DEF AddrsOf
  <2>5. DOMAIN hdr' = AddrsOf(G \cup live')
    <3>1. DOMAIN hdr' = Linked \cup Held \cup {r} /\ p \in Linked
      BY <1>2, <1>3, <1>8
    <3>2. QED
      BY <2>3, <2>4, <3>1
  <2>6. AddrsOf(G) \cap AddrsOf(live') = {}
    <3>1. r \notin Held /\ r # p /\ Linked \cap Held = {}
      BY <1>2, <1>3, <1>7
    <3>2. QED
      BY <2>3, <3>1
  <2>7. ASSUME NEW c \in G PROVE hdr'[c.addr].size = c.size
    <3>1. CASE c = R
      BY <1>5, <1>8, <3>1
    <3>2. CASE c \in free \ {b}
      <4>1. c \in Blocks /\ c.addr \in DOMAIN hdr /\ c.addr # p
        BY <1>3, <1>6, <3>2 DEF AddrsOf, Blocks
      <4>2. QED
        BY <1>3, <1>7, <1>8, <4>1
    <3>3. QED
      BY <3>1, <3>2
  <2> HIDE DEF G
  <2>8. Unheld' = {[addr |-> q, size |-> hdr'[q].size] : q \in DOMAIN hdr' \ AddrsOf(live')}
    BY DEF Unheld, Held, AddrsOf
  <2>9. {[addr |-> q, size |-> hdr'[q].size] : q \in DOMAIN hdr' \ AddrsOf(live')} = G
    BY ZenonT(30), <2>1, <2>5, <2>6, <2>7, UnheldIs
  <2>10. QED
    BY <1>1, <2>8, <2>9 DEF G
<1>13. KmallocSplit(arg)
  BY <1>2, <1>4, <1>9, <1>12 DEF KmallocSplit, F, R
<1>14. HeadersTyped'
  <2>1. free_list_head' \in Nat
    BY <1>1, <1>5 DEF HeadWith, PointerInv, HeadersTyped
  <2>2. DOMAIN hdr' \subseteq Nat \ {0}
    BY <1>5, <1>8 DEF PointerInv, HeadersTyped
  <2>3. QED
    BY <1>8, <2>1, <2>2 DEF HeadersTyped
<1>15. Chain(Linked', Nexts')
  <2> DEFINE mid == [Nexts EXCEPT ![cur] = nx]
  <2>1. /\ DOMAIN Nexts = {NULL} \cup DOMAIN hdr /\ cur \in DOMAIN Nexts /\ Nexts[p] = nx
        /\ p # cur /\ p # NULL
    BY <1>1, <1>2, <1>3 DEF Nexts, Deref, nx, NULL
  <2>2. Chain(Linked \ {p}, mid)
    <3>1. mid[cur] = Nexts[p] /\ \A l \in ({NULL} \cup Linked) \ {cur, p} : mid[l] = Nexts[l]
      BY <1>3, <2>1
    <3>2. Chain(Linked, Nexts)
      BY DEF PointerInv
    <3> HIDE DEF mid
    <3>3. QED
      BY <1>2, <1>3, <3>1, <3>2, ChainWithout
  <2>3. mid[cur] = nx /\ \A l \in ({NULL} \cup Linked) \ {cur} : mid[l] = Nexts[l]
    BY <1>3, <2>1
  <2> HIDE DEF mid
  <2>4. nx = NULL \/ r < nx
    <3>1. ASSUME nx # NULL PROVE r < nx
      <4>1. nx \in Linked /\ p < nx /\ nx \in Nat
        BY <1>2, <1>3, <1>5, <3>1, FollowsFacts
      <4>2. PICK c \in free : c.addr = nx
        BY <1>3, <4>1 DEF AddrsOf
      <4>3. c \in Blocks /\ c # b /\ p \in Nat
        BY <1>6, <4>1, <4>2, <1>2, <1>3 DEF Blocks
      <4>4. BlockEnd(b) <= nx
        BY <1>6, <4>1, <4>2, <4>3
      <4>5. QED
        BY <1>5, <1>6, <4>1, <4>4
    <3>2. QED
      BY <3>1
  <2>5. ASSUME NEW l \in {NULL} \cup DOMAIN hdr'
        PROVE  Nexts'[l] = IF l = cur THEN r ELSE IF l = r THEN nx ELSE Nexts[l]
    <3>1. Nexts'[l] = IF l = NULL THEN HeadWith(cur, r) ELSE hdr'[l].next
      BY <1>1, <2>5 DEF Nexts, Deref
    <3>2. CASE l = NULL
      BY <1>5, <3>1, <3>2 DEF HeadWith, Nexts, Deref, NULL
    <3>3. CASE l # NULL
      BY <1>7, <1>8, <3>1, <3>3 DEF Nexts, Deref
    <3>4. QED
      BY <3>2, <3>3
  <2>6. cur < r /\ r # cur
    BY <1>2, <1>3, <1>5
  <2>7. /\ Nexts'[cur] = r /\ Nexts'[r] = mid[cur]
        /\ \A l \in ({NULL} \cup (Linked \ {p})) \ {cur} : Nexts'[l] = mid[l]
    <3>1. cur \in {NULL} \cup DOMAIN hdr' /\ r \in DOMAIN hdr'
      BY <1>2, <1>3, <1>8
    <3>2. Nexts'[cur] = r /\ Nexts'[r] = mid[cur]
      BY <2>3, <2>5, <2>6, <3>1
    <3>3. ASSUME NEW l \in ({NULL} \cup (Linked \ {p})) \ {cur} PROVE Nexts'[l] = mid[l]
      <4>1. l \in {NULL} \cup DOMAIN hdr' /\ l # cur /\ l \in {NULL} \cup Linked
        BY <1>3, <1>8, <3>3
      <4>2. l # r
        BY <1>3, <1>5, <1>7, <4>1 DEF NULL
      <4>3. QED
        BY <2>3, <2>5, <4>1, <4>2
    <3>4. QED
      BY <3>2, <3>3
  <2>8. Chain((Linked \ {p}) \cup {r}, Nexts')
    <3>1. Linked \ {p} \in SUBSET (Nat \ {0}) /\ cur \in {NULL} \cup (Linked \ {p})
      BY <1>2, <1>3, <2>1
    <3>2. QED
      BY <1>5, <2>2, <2>3, <2>4, <2>6, <2>7, <3>1, ChainWith
  <2>9. QED
    BY <1>11, <2>8
<1>16. Described(Blocks)'
  <2>1. Blocks' = (free \ {b}) \cup {R} \cup live \cup {F}
    BY <1>9, <1>12 DEF Blocks
  <2>2. ASSUME NEW c \in Blocks' PROVE hdr'[c.addr].size = c.size /\ c.addr \in DOMAIN hdr'
    <3>1. CASE c = R
      BY <1>5, <1>8, <3>1
    <3>2. CASE c = F
      BY <1>2, <1>3, <1>5, <1>8, <3>2
    <3>3. CASE c \in Blocks /\ c # b
      <4>1. c.addr \in DOMAIN hdr /\ c.addr # p
        BY <1>3, <1>6, <3>3 DEF AddrsOf
      <4>2. QED
        BY <1>3, <1>7, <1>8, <3>3, <4>1
    <3>4. QED
      <4>1. b \notin live
        BY <1>2 DEF HeapInv, TypeOK
      <4>2. QED
        BY <2>1, <2>2, <3>1, <3>2, <3>3, <4>1 DEF Blocks
  <2>3. DOMAIN hdr' \subseteq AddrsOf(Blocks')
    <3>1. ASSUME NEW q \in DOMAIN hdr' PROVE \E c \in Blocks' : c.addr = q
      <4>1. CASE q = r
        BY <1>5, <2>1, <4>1
      <4>2. CASE q = p
        BY <1>5, <2>1, <4>2
      <4>3. CASE q \in DOMAIN hdr /\ q # p
        <5>1. PICK c \in Blocks : c.addr = q
          BY <1>3, <4>3 DEF AddrsOf
        <5>2. c # b
          BY <1>6, <4>3, <5>1
        <5>3. QED
          BY <2>1, <5>1, <5>2 DEF Blocks
      <4>4. QED
        BY <1>8, <4>1, <4>2, <4>3
    <3>2. QED
      BY <3>1 DEF AddrsOf
  <2>4. QED
    BY <2>2, <2>3 DEF Described, AddrsOf
<1>17. QED
  BY <1>1, <1>2, <1>13, <1>14, <1>15, <1>16 DEF PointerInv

-----------------------------------------------------------------------------
LEMMA TakeWholeStep ==
  ASSUME HeapInv, PointerInv, TakeWhole
  PROVE  arg \in Requests /\ KmallocWhole(arg) /\ PointerInv'
<1> DEFINE p == Deref(cur)
           b == [addr |-> p, size |-> hdr[p].size]
           nx == hdr[p].next
<1>1. /\ p # NULL /\ ~HasRest(p) /\ LargeEnough(p) /\ pc = "fit"
      /\ free_list_head' = HeadWith(cur, nx) /\ hdr' = HdrWith(hdr, cur, nx)
      /\ live' = live \cup {[addr |-> p, size |-> hdr'[p].size]} /\ free' = Unheld'
      /\ pc' = "idle" /\ answer' = [op |-> "kmalloc", n |-> arg, ret |-> p + HDR]
  BY DEF TakeWhole, Take, Return
<1>2. /\ arg \in Requests /\ arg > 0 /\ Padded(arg) \in Nat
      /\ cur \in {NULL} \cup Linked /\ cur \in Nat /\ cur < p
      /\ p \in Linked /\ b \in free /\ FirstFit(b, arg) /\ hdr[p] \in Header
      /\ Follows(Linked, p, nx) /\ Nexts[cur] = p
  BY <1>1, FitFacts
<1>3. /\ Linked = AddrsOf(free) /\ Linked \in SUBSET (Nat \ {0}) /\ Held = AddrsOf(live)
      /\ DOMAIN hdr = AddrsOf(Blocks) /\ Linked \subseteq DOMAIN hdr /\ Held \subseteq DOMAIN hdr
      /\ Linked \cap Held = {} /\ Linked = DOMAIN hdr \ Held
      /\ \A c \in Blocks : hdr[c.addr].size = c.size
  BY <1>1, RestFacts DEF Linked
<1>4. ~Splits(b, arg)
  BY <1>1 DEF Splits, HasRest
<1>5. b \in Blocks /\ b.addr = p /\ \A c \in Blocks : c.addr = p => c = b
  BY <1>2, BlockFacts DEF Blocks
<1>6. nx \in Nat /\ p \in Nat \ {0} /\ p # cur /\ Nexts[p] = nx
  BY <1>2, <1>3 DEF Header, Nexts, Deref, NULL
<1> HIDE DEF p, b, nx
<1>7. /\ DOMAIN hdr' = DOMAIN hdr
      /\ \A q \in DOMAIN hdr :
           /\ hdr'[q] \in Header /\ hdr'[q].size = hdr[q].size
           /\ hdr'[q].next = IF q = cur /\ cur # NULL THEN nx ELSE hdr[q].next
  <2>1. cur # NULL => cur \in DOMAIN hdr
    BY <1>2, <1>3
  <2>2. \A q \in DOMAIN hdr : hdr[q] \in Header
    BY DEF PointerInv, HeadersTyped
  <2>3. QED
    BY <1>1, <1>6, <2>1, <2>2, LinkSet
<1>8. live' = live \cup {b} /\ answer' = [op |-> "kmalloc", n |-> arg, ret |-> b.addr + HDR]
  BY <1>1, <1>2, <1>3, <1>5, <1>7 DEF b
<1>9. Held' = Held \cup {p}
  BY <1>5, <1>8 DEF Held
<1>10. Linked' = Linked \ {p}
  BY <1>1, <1>3, <1>7, <1>9 DEF Linked
<1>11. free' = free \ {b}
  <2> DEFINE G == free \ {b}
  <2>1. G \subseteq Block
    BY DEF HeapInv, TypeOK
  <2>2. AddrsOf(G) = Linked \ {p} /\ AddrsOf(live') = Held \cup {p}
    BY <1>3, <1>5, <1>8 DEF AddrsOf, Blocks
  <2>3. AddrsOf(G \cup live') = AddrsOf(G) \cup AddrsOf(live')
    BY DEF AddrsOf
  <2>4. DOMAIN hdr' = AddrsOf(G \cup live')
    <3>1. DOMAIN hdr' = Linked \cup Held /\ p \in Linked
      BY <1>2, <1>3, <1>7
    <3>2. QED
      BY <2>2, <2>3, <3>1
  <2>5. AddrsOf(G) \cap AddrsOf(live') = {}
    BY <1>3, <2>2
  <2>6. ASSUME NEW c \in G PROVE hdr'[c.addr].size = c.size
    <3>1. c \in Blocks /\ c.addr \in DOMAIN hdr
      BY <1>3 DEF AddrsOf, Blocks
    <3>2. QED
      BY <1>3, <1>7, <3>1
  <2> HIDE DEF G
  <2>7. Unheld' = {[addr |-> q, size |-> hdr'[q].size] : q \in DOMAIN hdr' \ AddrsOf(live')}
    BY DEF Unheld, Held, AddrsOf
  <2>8. {[addr |-> q, size |-> hdr'[q].size] : q \in DOMAIN hdr' \ AddrsOf(live')} = G
    BY ZenonT(30), <2>1, <2>4, <2>5, <2>6, UnheldIs
  <2>9. QED
    BY <1>1, <2>7, <2>8 DEF G
<1>12. KmallocWhole(arg)
  BY <1>2, <1>4, <1>8, <1>11 DEF KmallocWhole
<1>13. HeadersTyped'
  BY <1>1, <1>6, <1>7 DEF HeadersTyped, HeadWith, PointerInv
<1>14. Chain(Linked', Nexts')
  <2>1. ASSUME NEW l \in {NULL} \cup DOMAIN hdr
        PROVE  Nexts'[l] = IF l = cur THEN nx ELSE Nexts[l]
    <3>1. Nexts'[l] = IF l = NULL THEN HeadWith(cur, nx) ELSE hdr'[l].next
      BY <1>1, <1>7, <2>1 DEF Nexts, Deref
    <3>2. CASE l = NULL
      BY <3>1, <3>2 DEF HeadWith, Nexts, Deref
    <3>3. CASE l # NULL
      BY <1>7, <3>1, <3>3 DEF Nexts, Deref
    <3>4. QED
      BY <3>2, <3>3
  <2>2. Nexts'[cur] = Nexts[p] /\ \A l \in ({NULL} \cup Linked) \ {cur, p} : Nexts'[l] = Nexts[l]
    BY <1>2, <1>3, <1>6, <2>1
  <2>3. Chain(Linked, Nexts)
    BY DEF PointerInv
  <2>4. Chain(Linked \ {p}, Nexts')
    BY <1>2, <1>3, <2>2, <2>3, ChainWithout
  <2>5. QED
    BY <1>10, <2>4
<1>15. Described(Blocks)'
  <2>1. Blocks' = Blocks
    BY <1>2, <1>8, <1>11 DEF Blocks
  <2>2. ASSUME NEW c \in Blocks PROVE hdr'[c.addr].size = c.size
    <3>1. c.addr \in DOMAIN hdr
      BY <1>3 DEF AddrsOf
    <3>2. QED
      BY <1>3, <1>7, <3>1
  <2>3. QED
    BY <1>3, <1>7, <2>1, <2>2 DEF Described
<1>16. QED
  BY <1>1, <1>2, <1>12, <1>13, <1>14, <1>15 DEF PointerInv

-----------------------------------------------------------------------------
(* The steps that touch neither the headers nor the blocks.                *)
LEMMA WalksLeave ==
  ASSUME HeapInv, PointerInv, UNCHANGED <<free_list_head, hdr, free, live>>,
         pc # "back", pc' # "back"
  PROVE  /\ HeadersTyped' /\ Chain(Linked', Nexts') /\ Described(Blocks)'
         /\ Linked' = Linked /\ Nexts' = Nexts /\ Held' = Held
<1>1. Held' = Held /\ Nexts' = Nexts /\ Blocks' = Blocks
  BY DEF Held, Nexts, Deref, Blocks
<1>2. Linked' = Linked
  BY <1>1 DEF Linked
<1>3. QED
  BY <1>1, <1>2 DEF PointerInv, HeadersTyped, Described

LEMMA RefusedStep ==
  ASSUME HeapInv, PointerInv, NEW n \in Requests, KmallocRefused(n)
  PROVE  KmallocNull(n) /\ PointerInv'
<1>1. /\ pc = "idle" /\ pc' = "idle" /\ (n = 0 \/ free_list_head = NULL)
      /\ answer' = [op |-> "kmalloc", n |-> n, ret |-> NULL]
      /\ UNCHANGED <<free_list_head, hdr, free, live>>
  BY DEF KmallocRefused, Return
<1>2. /\ Linked = AddrsOf(free) /\ Linked \in SUBSET (Nat \ {0}) /\ Linked \subseteq DOMAIN hdr
  BY <1>1, RestFacts
<1>3. free_list_head = NULL => free = {}
  <2>1. Follows(Linked, NULL, free_list_head)
    BY <1>2, WalkFacts DEF Deref
  <2>2. ASSUME free_list_head = NULL, NEW b \in free PROVE FALSE
    <3>1. b.addr \in Linked /\ b.addr <= 0 /\ b.addr \in Nat \ {0}
      BY <1>2, <2>1, <2>2 DEF Follows, NULL, AddrsOf
    <3>2. QED
      BY <3>1
  <2>3. QED
    BY <2>2
<1>4. KmallocNull(n)
  BY <1>1, <1>3 DEF KmallocNull
<1>5. QED
  BY <1>1, <1>4, WalksLeave DEF PointerInv

LEMMA FitNoneStep ==
  ASSUME HeapInv, PointerInv, FitNone
  PROVE  arg \in Requests /\ KmallocNull(arg) /\ PointerInv'
<1>1. /\ pc = "fit" /\ pc' = "idle" /\ Deref(cur) = NULL
      /\ answer' = [op |-> "kmalloc", n |-> arg, ret |-> NULL]
      /\ UNCHANGED <<free_list_head, hdr, free, live>>
  BY DEF FitNone, Return
<1>2. /\ Linked = AddrsOf(free) /\ Linked \in SUBSET (Nat \ {0}) /\ Linked \subseteq DOMAIN hdr
      /\ \A b \in Blocks : hdr[b.addr].size = b.size
  BY <1>1, RestFacts
<1>3. /\ arg \in Requests /\ cur \in {NULL} \cup Linked
      /\ \A a \in Linked : a <= cur => ~LargeEnough(a)
  BY <1>1 DEF PointerInv, FitInv
<1>4. Follows(Linked, cur, NULL)
  BY <1>1, <1>2, <1>3, WalkFacts
<1>5. ASSUME NEW b \in free PROVE ~Fits(b, arg)
  <2>1. b.addr \in Linked /\ hdr[b.addr].size = b.size
    BY <1>2 DEF AddrsOf, Blocks
  <2>2. b.addr <= cur
    BY <1>4, <2>1 DEF Follows
  <2>3. QED
    BY <1>3, <2>1, <2>2 DEF LargeEnough, Fits
<1>6. KmallocNull(arg)
  BY <1>1, <1>5 DEF KmallocNull
<1>7. QED
  BY <1>1, <1>3, <1>6, WalksLeave DEF PointerInv

LEMMA BeginStep ==
  ASSUME HeapInv, PointerInv,
         (\E n \in Requests : KmallocBegin(n)) \/ (\E b \in live : KfreeBegin(b))
  PROVE  UNCHANGED <<free, live, answer>> /\ PointerInv'
<1>1. PICK loop \in {"fit", "insert"} :
        /\ Enter(loop, arg')
        /\ loop = "fit" => arg' \in Requests /\ arg' > 0
        /\ loop = "insert" => arg' \in Held
  BY DEF KmallocBegin, KfreeBegin, Held, Enter
<1>2. /\ pc = "idle" /\ pc' = loop /\ cur' = NULL
      /\ UNCHANGED <<free_list_head, hdr, free, live, answer>>
  BY <1>1 DEF Enter
<1>3. /\ HeadersTyped' /\ Chain(Linked', Nexts') /\ Described(Blocks)'
      /\ Linked' = Linked /\ Held' = Held
  BY <1>1, <1>2, WalksLeave
<1>4. Linked \in SUBSET (Nat \ {0}) /\ Held \subseteq Nat \ {0}
  BY <1>2, RestFacts DEF PointerInv, HeadersTyped
<1>5. loop = "fit" => FitInv'
  BY <1>1, <1>2, <1>3, <1>4 DEF FitInv, NULL
<1>6. ASSUME loop = "insert" PROVE InsertInv'
  <2>1. arg' \in Held' /\ arg' \in Nat \ {0}
    BY <1>1, <1>3, <1>4, <1>6
  <2>2. QED
    BY <1>2, <2>1 DEF InsertInv, NULL
<1>7. QED
  BY <1>2, <1>3, <1>5, <1>6 DEF PointerInv

LEMMA FitNextStep ==
  ASSUME HeapInv, PointerInv, FitNext
  PROVE  PointerInv'
<1>1. /\ pc = "fit" /\ pc' = pc /\ arg' = arg /\ cur' = Deref(cur) /\ Deref(cur) # NULL
      /\ ~LargeEnough(Deref(cur)) /\ UNCHANGED <<free_list_head, hdr, free, live>>
  BY DEF FitNext
<1>2. /\ HeadersTyped' /\ Chain(Linked', Nexts') /\ Described(Blocks)' /\ Linked' = Linked
  BY <1>1, WalksLeave
<1>3. /\ arg \in Requests /\ arg > 0 /\ cur \in {NULL} \cup Linked
      /\ \A a \in Linked : a <= cur => ~LargeEnough(a)
  BY <1>1 DEF PointerInv, FitInv
<1>4. Linked \in SUBSET (Nat \ {0}) /\ Linked \subseteq DOMAIN hdr
  BY <1>1, RestFacts
<1>5. /\ Deref(cur) \in Linked
      /\ \A a \in Linked : a \in Nat /\ (a <= cur \/ Deref(cur) <= a)
  BY <1>1, <1>3, <1>4, WalkFacts, FollowsFacts
<1>6. ASSUME NEW a \in Linked, a <= cur' PROVE ~LargeEnough(a)
  <2>1. a <= cur \/ a = Deref(cur)
    BY <1>1, <1>5, <1>6
  <2>2. QED
    BY <1>1, <1>3, <2>1
<1>7. \A a : LargeEnough(a)' <=> LargeEnough(a)
  BY <1>1 DEF LargeEnough
<1>8. FitInv'
  BY <1>1, <1>2, <1>3, <1>5, <1>6, <1>7 DEF FitInv
<1>9. QED
  BY <1>1, <1>2, <1>8 DEF PointerInv

LEMMA InsertNextStep ==
  ASSUME HeapInv, PointerInv, InsertNext
  PROVE  PointerInv'
<1>1. /\ pc = "insert" /\ pc' = pc /\ arg' = arg /\ cur' = Deref(cur) /\ Deref(cur) # NULL
      /\ ~(Deref(cur) >= arg) /\ UNCHANGED <<free_list_head, hdr, free, live>>
  BY DEF InsertNext, InsertHere
<1>2. /\ HeadersTyped' /\ Chain(Linked', Nexts') /\ Described(Blocks)' /\ Linked' = Linked
      /\ Held' = Held
  BY <1>1, WalksLeave
<1>3. arg \in Held /\ cur \in {NULL} \cup Linked
  BY <1>1 DEF PointerInv, InsertInv
<1>4. /\ Linked \in SUBSET (Nat \ {0}) /\ Linked \subseteq DOMAIN hdr
      /\ Held \subseteq Nat
  BY <1>1, RestFacts DEF PointerInv, HeadersTyped
<1>5. Deref(cur) \in Linked /\ Deref(cur) \in Nat
  BY <1>1, <1>3, <1>4, WalkFacts, FollowsFacts
<1>6. InsertInv'
  BY <1>1, <1>2, <1>3, <1>4, <1>5 DEF InsertInv
<1>7. QED
  BY <1>1, <1>2, <1>6 DEF PointerInv

-----------------------------------------------------------------------------
(* What kfree finds when it links the block in: its follower, if there is  *)
(* one, is the free block that touches it, or no free block does.          *)
LEMMA LinkFacts ==
  ASSUME HeapInv, PointerInv, LinkIn, NEW q, q = Deref(cur)
  PROVE  \E b \in live :
           /\ b.addr = arg /\ b \in Blocks /\ hdr[arg].size = b.size /\ arg \in Nat \ {0}
           /\ cur \in {NULL} \cup Linked /\ cur \in Nat /\ cur < arg
           /\ q \in Nat /\ Follows(Linked, cur, q) /\ Nexts[cur] = q
           /\ q # NULL => q \in Linked /\ arg < q
           /\ q = BlockEnd(b) => \E hi \in free : hi.addr = q /\ After(b) = {hi}
           /\ q # BlockEnd(b) => After(b) = {}
<1>1. pc = "insert" /\ (q = NULL \/ q >= arg)
  BY DEF LinkIn, InsertHere
<1>2. arg \in Held /\ cur \in {NULL} \cup Linked /\ cur < arg
  BY <1>1 DEF PointerInv, InsertInv
<1>3. /\ Linked = AddrsOf(free) /\ Linked \in SUBSET (Nat \ {0}) /\ Linked \subseteq DOMAIN hdr
      /\ Linked \cap Held = {} /\ \A c \in Blocks : hdr[c.addr].size = c.size
  BY <1>1, RestFacts
<1>4. PICK b \in live : b.addr = arg
  BY <1>2 DEF Held
<1>5. /\ b \in Blocks /\ hdr[arg].size = b.size /\ arg \in Nat \ {0}
      /\ \A c \in Blocks : /\ c.addr \in Nat \ {0} /\ BlockEnd(c) \in Nat /\ c.addr < BlockEnd(c)
                           /\ c # b => BlockEnd(b) <= c.addr \/ BlockEnd(c) <= b.addr
      /\ \A c, d \in Blocks : c.addr = d.addr => c = d
  BY <1>3, <1>4, BlockFacts DEF Blocks
<1>6. /\ Follows(Linked, cur, q) /\ Nexts[cur] = q /\ cur \in Nat /\ q \in Nat
  BY <1>2, <1>3, WalkFacts
<1>7. ASSUME q # NULL PROVE q \in Linked /\ arg < q
  <2>1. q \in Linked
    BY <1>3, <1>6, <1>7, FollowsFacts
  <2>2. QED
    BY <1>1, <1>2, <1>3, <1>5, <1>6, <1>7, <2>1
<1>8. ASSUME q = BlockEnd(b) PROVE \E hi \in free : hi.addr = q /\ After(b) = {hi}
  <2>1. q # NULL
    BY <1>5, <1>8 DEF NULL
  <2>2. PICK hi \in free : hi.addr = q
    BY <1>3, <1>7, <2>1 DEF AddrsOf
  <2>3. After(b) = {hi}
    BY <1>5, <1>8, <2>2 DEF After, Blocks
  <2>4. QED
    BY <2>2, <2>3
<1>9. ASSUME q # BlockEnd(b), NEW c \in After(b) PROVE FALSE
  <2>1. c \in free /\ c \in Blocks /\ c.addr = BlockEnd(b) /\ c.addr \in Linked
    BY <1>3 DEF After, Blocks, AddrsOf
  <2>2. q # NULL /\ q <= c.addr
    <3>1. c.addr \in Nat /\ cur < c.addr
      BY <1>2, <1>4, <1>5, <1>6, <2>1
    <3>2. /\ q = NULL => \A a \in Linked : a <= cur
          /\ q # NULL => \A a \in Linked : a <= cur \/ q <= a
      BY <1>3, <1>6, FollowsFacts
    <3>3. QED
      BY <1>6, <2>1, <3>1, <3>2
  <2>3. PICK d \in free : d.addr = q
    BY <1>3, <1>7, <2>2 DEF AddrsOf
  <2>4. d \in Blocks /\ d # b /\ arg < d.addr
    BY <1>4, <1>5, <1>7, <2>2, <2>3 DEF Blocks
  <2>5. QED
    BY <1>4, <1>5, <1>9, <2>1, <2>2, <2>3, <2>4
<1>10. QED
  BY <1>2, <1>4, <1>5, <1>6, <1>7, <1>8, <1>9

LEMMA AbsorbedNext ==
  ASSUME NEW b \in live, NEW hi \in Blocks, UNCHANGED <<arg, free, live>>, b.addr = arg,
         hi \in After(b) \cup {b}, After(b) # {} => hi # b,
         DOMAIN hdr' = AddrsOf((Blocks \ {hi}) \cup {b}),
         hdr'[b.addr].size = BlockEnd(hi) - b.addr - HDR,
         \A c \in Blocks \ {b, hi} : hdr'[c.addr].size = c.size
  PROVE  Absorbed'
<1>1. Blocks' = Blocks
  BY DEF Blocks
<1>2. \E d \in live', e \in Blocks' :
        /\ d.addr = arg'
        /\ e \in {c \in free' : c.addr = BlockEnd(d)} \cup {d}
        /\ {c \in free' : c.addr = BlockEnd(d)} # {} => e # d
        /\ DOMAIN hdr' = AddrsOf((Blocks' \ {e}) \cup {d})
        /\ hdr'[d.addr].size = BlockEnd(e) - d.addr - HDR
        /\ \A c \in Blocks' \ {d, e} : hdr'[c.addr].size = c.size
  <2>1. /\ b \in live' /\ hi \in Blocks' /\ b.addr = arg'
        /\ hi \in {c \in free' : c.addr = BlockEnd(b)} \cup {b}
        /\ {c \in free' : c.addr = BlockEnd(b)} # {} => hi # b
    BY <1>1 DEF After
  <2>2. /\ DOMAIN hdr' = AddrsOf((Blocks' \ {hi}) \cup {b})
        /\ \A c \in Blocks' \ {b, hi} : hdr'[c.addr].size = c.size
    BY <1>1
  <2>3. QED
    BY <2>1, <2>2
<1>3. PICK d \in live', e \in Blocks' :
        /\ d.addr = arg'
        /\ e \in {c \in free' : c.addr = BlockEnd(d)} \cup {d}
        /\ {c \in free' : c.addr = BlockEnd(d)} # {} => e # d
        /\ DOMAIN hdr' = AddrsOf((Blocks' \ {e}) \cup {d})
        /\ hdr'[d.addr].size = BlockEnd(e) - d.addr - HDR
        /\ \A c \in Blocks' \ {d, e} : hdr'[c.addr].size = c.size
  BY <1>2
<1>4. Swallowed(d, e)'
  BY <1>3 DEF Swallowed, After
<1>5. QED
  BY <1>3, <1>4 DEF Absorbed

LEMMA LinkInStep ==
  ASSUME HeapInv, PointerInv, LinkIn
  PROVE  PointerInv'
<1> DEFINE q == Deref(cur)
           h == HdrWith([hdr EXCEPT ![arg].next = q], cur, arg)
           merges == q # NULL /\ arg + HDR + hdr[arg].size = q
<1>1. /\ pc = "insert" /\ pc' = "back" /\ free_list_head' = HeadWith(cur, arg)
      /\ hdr' = MergeForward(h) /\ prev' = free_list_head'
      /\ UNCHANGED <<arg, cur, free, live>>
  BY DEF LinkIn
<1>2. PICK b \in live :
        /\ b.addr = arg /\ b \in Blocks /\ hdr[arg].size = b.size /\ arg \in Nat \ {0}
        /\ cur \in {NULL} \cup Linked /\ cur \in Nat /\ cur < arg
        /\ q \in Nat /\ Follows(Linked, cur, q) /\ Nexts[cur] = q
        /\ q # NULL => q \in Linked /\ arg < q
        /\ q = BlockEnd(b) => \E hi \in free : hi.addr = q /\ After(b) = {hi}
        /\ q # BlockEnd(b) => After(b) = {}
  BY LinkFacts
<1>3. /\ Linked = AddrsOf(free) /\ Linked \in SUBSET (Nat \ {0}) /\ Linked \subseteq DOMAIN hdr
      /\ Held = AddrsOf(live) /\ Held \subseteq DOMAIN hdr /\ DOMAIN hdr = AddrsOf(Blocks)
      /\ Linked \cap Held = {} /\ Linked = DOMAIN hdr \ Held
      /\ \A c \in Blocks : hdr[c.addr].size = c.size
  BY <1>1, RestFacts DEF Linked
<1>4. /\ b \in Block /\ b.size \in Nat /\ BlockEnd(b) = arg + 8 + b.size /\ BlockEnd(b) \in Nat
      /\ \A c, d \in Blocks : c.addr = d.addr => c = d
  BY <1>2, BlockFacts
<1>5. /\ arg \in Held /\ arg \notin Linked /\ arg \in DOMAIN hdr /\ cur # arg
      /\ cur # NULL => cur \in Linked /\ cur \in DOMAIN hdr
      /\ q # NULL => q # cur /\ q # arg
      /\ merges <=> q = BlockEnd(b)
  <2>1. arg \in Held
    BY <1>2 DEF Held
  <2>2. merges <=> q = BlockEnd(b)
    BY <1>2, <1>4 DEF HDR, NULL
  <2>3. QED
    BY <1>2, <1>3, <2>1, <2>2
<1>6. \A x \in DOMAIN hdr : hdr[x] \in Header /\ x \in Nat \ {0}
  BY DEF PointerInv, HeadersTyped
<1> HIDE DEF q, h, merges
<1>7. /\ DOMAIN h = DOMAIN hdr
      /\ \A x \in DOMAIN hdr :
           /\ h[x] \in Header /\ h[x].size = hdr[x].size
           /\ h[x].next = IF x = cur THEN arg ELSE IF x = arg THEN q ELSE hdr[x].next
  <2> DEFINE g == HdrWith(hdr, arg, q)
  <2>1. g = [hdr EXCEPT ![arg].next = q]
    BY <1>2 DEF HdrWith, NULL
  <2>2. /\ DOMAIN g = DOMAIN hdr
        /\ \A x \in DOMAIN hdr : /\ g[x] \in Header /\ g[x].size = hdr[x].size
                                 /\ g[x].next = IF x = arg THEN q ELSE hdr[x].next
    BY <1>2, <1>5, <1>6, LinkSet DEF NULL
  <2> HIDE DEF g
  <2>3. h = HdrWith(g, cur, arg)
    BY <2>1 DEF h
  <2>4. /\ DOMAIN h = DOMAIN g
        /\ \A x \in DOMAIN g : /\ h[x] \in Header /\ h[x].size = g[x].size
                               /\ h[x].next = IF x = cur /\ cur # NULL THEN arg ELSE g[x].next
    BY <1>2, <1>5, <2>2, <2>3, LinkSet
  <2>5. QED
    BY <1>6, <2>2, <2>4 DEF NULL
<1>8. h[arg].next = q /\ h[arg].size = b.size /\ Held' = Held
  BY <1>1, <1>2, <1>5, <1>7 DEF Held
(* The list with the block in it, before it is merged with the next.       *)
<1> DEFINE L == Linked \cup {arg}
           mid == [x \in {NULL} \cup DOMAIN hdr |-> IF x = NULL THEN free_list_head' ELSE h[x].next]
<1>9. /\ mid[cur] = arg /\ mid[arg] = q
      /\ \A x \in ({NULL} \cup Linked) \ {cur} : mid[x] = Nexts[x]
  <2>1. mid[cur] = arg
    BY <1>1, <1>5, <1>7 DEF HeadWith
  <2>2. mid[arg] = q
    BY <1>2, <1>5, <1>8 DEF NULL
  <2>3. ASSUME NEW x \in ({NULL} \cup Linked) \ {cur} PROVE mid[x] = Nexts[x]
    BY <1>1, <1>3, <1>5, <1>7, <2>3 DEF HeadWith, Nexts, Deref
  <2>4. QED
    BY <2>1, <2>2, <2>3
<1> HIDE DEF mid
<1>10. Chain(L, mid)
  <2>1. Chain(Linked, Nexts)
    BY DEF PointerInv
  <2>2. Nexts[cur] = NULL \/ arg < Nexts[cur]
    BY <1>2
  <2>3. mid[arg] = Nexts[cur]
    BY <1>2, <1>9
  <2>4. QED
    BY <1>2, <1>3, <1>9, <2>1, <2>2, <2>3, ChainWith
<1>11. L \in SUBSET (Nat \ {0}) /\ L \subseteq DOMAIN hdr /\ arg \in L /\ 0 \notin DOMAIN hdr
  BY <1>2, <1>3, <1>5, <1>6
<1> DEFINE inserted ==
             /\ HeadersTyped' /\ Chain(Linked', Nexts') /\ Linked' \subseteq L
             /\ L \ {q} \subseteq Linked' /\ Absorbed'
             /\ cur # NULL => hdr'[cur].next = arg
<1>12. ASSUME merges PROVE inserted
  <2>1. PICK hi \in free : hi.addr = q /\ After(b) = {hi}
    BY <1>2, <1>5, <1>12
  <2>2. q # NULL /\ q \in Linked /\ q \in DOMAIN hdr /\ q # cur /\ q # arg /\ arg < q
    BY <1>2, <1>3, <1>5, <1>12 DEF merges
  <2>3. /\ hi \in Blocks /\ hi # b /\ hi.size \in Nat /\ hdr[q].size = hi.size
        /\ BlockEnd(hi) = q + 8 + hi.size
    BY <1>2, <1>3, <2>1, <2>2, BlockFacts DEF Blocks
  <2>4. /\ DOMAIN hdr' = DOMAIN hdr \ {q}
        /\ \A x \in DOMAIN hdr \ {q} :
             hdr'[x] = IF x = arg THEN [size |-> b.size + 8 + hi.size, next |-> hdr[q].next] ELSE h[x]
    <3>1. h[q].size = hi.size /\ h[q].next = hdr[q].next
      BY <1>7, <2>2, <2>3
    <3>2. h[arg].next # NULL /\ arg + HDR + h[arg].size = h[arg].next
      BY <1>2, <1>8, <1>12, <2>2 DEF merges
    <3>3. hdr' = [x \in DOMAIN h \ {q} |->
                    IF x = arg THEN [size |-> h[arg].size + HDR + h[q].size, next |-> h[q].next]
                    ELSE h[x]]
      BY <1>1, <1>8, <3>2 DEF MergeForward
    <3>4. QED
      BY <1>7, <1>8, <3>1, <3>3 DEF HDR
  <2>5. hdr[q].next \in Nat /\ hdr[q] \in Header
    BY <1>6, <2>2 DEF Header
  <2>6. HeadersTyped'
    <3>1. free_list_head' \in Nat
      BY <1>1, <1>2 DEF HeadWith, PointerInv, HeadersTyped
    <3>2. \A x \in DOMAIN hdr' : hdr'[x] \in Header
      BY <1>4, <1>7, <2>3, <2>4, <2>5 DEF Header
    <3>3. QED
      BY <1>6, <2>4, <3>1, <3>2 DEF HeadersTyped
  <2>7. Linked' = L \ {q}
    BY <1>1, <1>3, <1>8, <2>2, <2>4 DEF Linked
  <2>8. Chain(Linked', Nexts')
    <3>1. Nexts'[arg] = mid[q]
      BY <1>3, <1>7, <1>11, <2>2, <2>4, <1>5 DEF Nexts, Deref, mid, NULL
    <3>2. ASSUME NEW x \in ({NULL} \cup L) \ {arg, q} PROVE Nexts'[x] = mid[x]
      BY <1>11, <2>4, <3>2 DEF Nexts, Deref, mid
    <3>3. arg \in {NULL} \cup L /\ q \in L
      BY <2>2
    <3>4. QED
      BY <1>9, <1>10, <1>11, <2>7, <3>1, <3>2, <3>3, ChainWithout
  <2>9. Absorbed'
    <3>1. DOMAIN hdr' = AddrsOf((Blocks \ {hi}) \cup {b})
      BY <1>2, <1>3, <1>4, <2>1, <2>3, <2>4 DEF AddrsOf
    <3>2. hdr'[b.addr].size = BlockEnd(hi) - b.addr - HDR
      <4>1. hdr'[arg].size = b.size + 8 + hi.size
        BY <1>5, <2>2, <2>4
      <4>2. b.size + 8 + hi.size = BlockEnd(hi) - arg - 8
        BY <1>2, <1>4, <1>5, <1>12, <2>3
      <4>3. QED
        BY <1>2, <4>1, <4>2 DEF HDR
    <3>3. ASSUME NEW c \in Blocks \ {b, hi} PROVE hdr'[c.addr].size = c.size
      <4>1. c.addr \in DOMAIN hdr /\ c.addr # arg /\ c.addr # q
        BY <1>2, <1>3, <1>4, <2>1, <2>3 DEF AddrsOf
      <4>2. QED
        BY <1>3, <1>7, <2>4, <4>1
    <3>4. QED
      BY <1>1, <1>2, <2>1, <2>3, <3>1, <3>2, <3>3, AbsorbedNext
  <2>10. cur # NULL => hdr'[cur].next = arg
    BY <1>5, <1>7, <2>2, <2>4
  <2>11. QED
    BY <2>6, <2>7, <2>8, <2>9, <2>10
<1>13. ASSUME ~merges PROVE inserted
  <2>1. hdr' = h
    BY <1>1, <1>2, <1>8, <1>13 DEF MergeForward, merges
  <2>2. HeadersTyped'
    <3>1. free_list_head' \in Nat
      BY <1>1, <1>2 DEF HeadWith, PointerInv, HeadersTyped
    <3>2. QED
      BY <1>6, <1>7, <2>1, <3>1 DEF HeadersTyped
  <2>3. Linked' = L
    BY <1>1, <1>3, <1>7, <1>8, <2>1 DEF Linked
  <2>4. Chain(Linked', Nexts')
    <3>1. Nexts' = mid
      BY <1>7, <2>1 DEF Nexts, Deref, mid
    <3>2. QED
      BY <1>10, <2>3, <3>1
  <2>5. Absorbed'
    <3>1. After(b) = {} /\ DOMAIN hdr' = AddrsOf(Blocks)
      BY <1>2, <1>3, <1>5, <1>7, <1>13, <2>1
    <3>2. (Blocks \ {b}) \cup {b} = Blocks
      BY <1>2
    <3>3. hdr'[b.addr].size = BlockEnd(b) - b.addr - HDR
      BY <1>2, <1>4, <1>8, <2>1 DEF HDR
    <3>4. ASSUME NEW c \in Blocks PROVE hdr'[c.addr].size = c.size
      <4>1. c.addr \in DOMAIN hdr
        BY <1>3 DEF AddrsOf
      <4>2. QED
        BY <1>3, <1>7, <2>1, <4>1
    <3>5. QED
      BY <1>1, <1>2, <3>1, <3>2, <3>3, <3>4, AbsorbedNext
  <2>6. cur # NULL => hdr'[cur].next = arg
    BY <1>5, <1>7, <2>1
  <2>7. QED
    BY <2>2, <2>3, <2>4, <2>5, <2>6
<1>14. inserted
  BY <1>12, <1>13
<1>15. CASE cur = NULL
  <2>1. ASSUME NEW a \in L PROVE arg <= a
    <3>1. CASE a = arg
      BY <1>2, <3>1
    <3>2. CASE a \in Linked
      <4>1. q # NULL /\ q <= a /\ a \in Nat
        BY <1>2, <1>3, <1>15, <3>2, FollowsFacts DEF NULL
      <4>2. QED
        BY <1>2, <4>1
    <3>3. QED
      BY <3>1, <3>2
  <2>2. BackInv'
    BY <1>1, <1>14, <1>15, <2>1 DEF BackInv
  <2>3. QED
    BY <1>1, <1>14, <2>2 DEF PointerInv
<1>16. CASE cur # NULL
  <2>1. cur \in Linked' /\ cur < arg
    BY <1>2, <1>5, <1>14, <1>16
  <2>2. prev' = free_list_head /\ Follows(Linked, NULL, free_list_head)
    <3>1. Follows(Linked, NULL, free_list_head)
      BY <1>3, WalkFacts DEF Deref
    <3>2. QED
      BY <1>1, <1>16, <3>1 DEF HeadWith
  <2>3. prev' \in Linked /\ prev' <= cur /\ prev' \in Nat
    BY <1>3, <1>5, <1>16, <2>2, FollowsFacts DEF NULL
  <2>4. prev' # q
    BY <1>2, <1>3, <2>3 DEF NULL
  <2>5. prev' \in Linked'
    BY <1>14, <2>3, <2>4
  <2>6. BackInv'
    BY <1>1, <1>14, <1>16, <2>1, <2>3, <2>5 DEF BackInv
  <2>7. QED
    BY <1>1, <1>14, <2>6 DEF PointerInv
<1>17. QED
  BY <1>15, <1>16

-----------------------------------------------------------------------------
(* While kfree looks for the block before the one it has linked in.        *)
LEMMA BackFacts ==
  ASSUME HeapInv, PointerInv, pc = "back"
  PROVE  \E b \in live, hi \in Blocks :
           /\ b.addr = arg /\ Swallowed(b, hi)
           /\ b \in Blocks /\ b.addr <= BlockEnd(hi) - HDR
           /\ (hi = b \/ (hi \in free /\ b.addr < hi.addr))
           /\ arg \in Linked /\ Linked \in SUBSET (Nat \ {0}) /\ Linked \subseteq DOMAIN hdr
           /\ Linked = (DOMAIN hdr \ Held) \cup {arg}
           /\ \A p \in Linked \ {arg} : \E c \in free \ {hi} : c.addr = p /\ hdr[p].size = c.size
           /\ \A c \in free \ {hi} : c.addr \in Linked
<1>1. Absorbed /\ Linked = (DOMAIN hdr \ Held) \cup {arg}
  BY DEF PointerInv, BackInv, Linked
<1>2. PICK b \in live, hi \in Blocks : b.addr = arg /\ Swallowed(b, hi)
  BY <1>1 DEF Absorbed
<1>3. b \in Blocks /\ DOMAIN hdr = AddrsOf((Blocks \ {hi}) \cup {b}) /\ hi \in After(b) \cup {b}
  BY <1>2 DEF Swallowed, Blocks
<1>4. arg \in DOMAIN hdr /\ Linked \subseteq DOMAIN hdr /\ DOMAIN hdr \subseteq Nat \ {0}
  BY <1>1, <1>2, <1>3 DEF AddrsOf, PointerInv, HeadersTyped
<1>5. hi = b \/ (hi \in free /\ b.addr < hi.addr)
  BY <1>3, BlockFacts DEF After
<1>6. b.addr <= BlockEnd(hi) - HDR
  BY <1>3, <1>5, BlockFacts DEF HDR
<1>7. ASSUME NEW p \in Linked \ {arg}
      PROVE  \E c \in free \ {hi} : c.addr = p /\ hdr[p].size = c.size
  <2>1. PICK c \in (Blocks \ {hi}) \cup {b} : c.addr = p
    BY <1>3, <1>4 DEF AddrsOf
  <2>2. c # b /\ c \notin live
    BY <1>1, <1>2, <1>7, <2>1 DEF Held
  <2>3. c \in Blocks \ {b, hi}
    BY <2>1, <2>2
  <2>4. QED
    BY <1>2, <2>1, <2>2, <2>3 DEF Swallowed, Blocks
<1>8. ASSUME NEW c \in free \ {hi} PROVE c.addr \in Linked
  <2>1. c.addr \in DOMAIN hdr
    BY <1>3 DEF AddrsOf, Blocks
  <2>2. c.addr \notin Held
    BY BlockFacts DEF Held, Blocks, HeapInv, TypeOK
  <2>3. QED
    BY <1>1, <2>1, <2>2
<1>9. QED
  BY <1>1, <1>2, <1>3, <1>4, <1>5, <1>6, <1>7, <1>8

LEMMA BackNextStep ==
  ASSUME HeapInv, PointerInv, BackNext
  PROVE  PointerInv'
<1>1. /\ pc = "back" /\ pc' = pc /\ cur # NULL /\ hdr[prev].next # arg /\ prev' = hdr[prev].next
      /\ UNCHANGED <<free_list_head, hdr, arg, cur, free, live>>
  BY DEF BackNext, BackEnds
<1>2. /\ cur \in Linked /\ cur < arg /\ hdr[cur].next = arg /\ prev \in Linked /\ prev <= cur
      /\ Absorbed
  BY <1>1 DEF PointerInv, BackInv
<1>3. arg \in Linked /\ Linked \in SUBSET (Nat \ {0}) /\ Linked \subseteq DOMAIN hdr
  BY <1>1, BackFacts
<1>4. Follows(Linked, prev, hdr[prev].next) /\ prev \in Nat /\ cur \in Nat /\ arg \in Nat
  <2>1. prev \in {NULL} \cup Linked /\ prev # NULL
    BY <1>2, <1>3 DEF NULL
  <2>2. Follows(Linked, prev, Deref(prev))
    BY <1>3, <2>1, WalkFacts
  <2>3. QED
    BY <1>2, <1>3, <2>1, <2>2 DEF Deref
<1>5. prev' \in Linked /\ prev' <= cur
  <2>1. prev' # NULL
    BY <1>1, <1>2, <1>3, <1>4, FollowsFacts
  <2>2. /\ prev' \in Linked /\ prev' \in Nat
        /\ \A a \in Linked : a <= prev \/ prev' <= a
    BY SMTT(20), <1>1, <1>3, <1>4, <2>1, FollowsFacts
  <2>3. cur # prev
    BY <1>1, <1>2
  <2>4. QED
    BY <1>2, <1>4, <2>2, <2>3
<1>6. HeadersTyped' /\ Linked' = Linked /\ Nexts' = Nexts
  BY <1>1 DEF HeadersTyped, Linked, Nexts, Deref, Held, PointerInv
<1>7. Absorbed'
  <2>1. PICK b \in live, hi \in Blocks : b.addr = arg /\ Swallowed(b, hi)
    BY <1>2 DEF Absorbed
  <2>2. QED
    BY <1>1, <2>1, AbsorbedNext DEF Swallowed
<1>8. BackInv'
  BY <1>1, <1>2, <1>5, <1>6, <1>7 DEF BackInv
<1>9. QED
  BY <1>1, <1>6, <1>8 DEF PointerInv

(* The test for coalescing backward sees every block that could be joined. *)
LEMMA BeforeFacts ==
  ASSUME HeapInv, PointerInv, KfreeEnds, NEW b \in live, NEW hi \in Blocks,
         b.addr = arg, Swallowed(b, hi),
         cur = NULL \/ prev = NULL \/ prev + HDR + hdr[prev].size # arg
  PROVE  Before(b) = {}
<1> SUFFICES ASSUME NEW c \in free, BlockEnd(c) = b.addr PROVE FALSE
  BY DEF Before
<1>1. pc = "back" /\ BackEnds
  BY DEF KfreeEnds
<1>2. /\ b \in Blocks /\ c \in Blocks /\ c # b /\ c # hi
      /\ \A d \in Blocks : /\ d.addr \in Nat \ {0} /\ d.size \in Nat
                           /\ BlockEnd(d) = d.addr + 8 + d.size
      /\ \A d, e \in Blocks : d # e => BlockEnd(d) <= e.addr \/ BlockEnd(e) <= d.addr
  <2>1. b \in Blocks /\ c \in Blocks
    BY DEF Blocks
  <2>2. hi = b \/ hi.addr = BlockEnd(b)
    BY DEF Swallowed, After
  <2>3. QED
    BY <2>1, <2>2, BlockFacts
<1>3. c.addr < arg /\ c.addr \in Nat /\ arg \in Nat
  BY <1>2
<1>4. PICK b2 \in live, hi2 \in Blocks :
        /\ b2.addr = arg /\ Swallowed(b2, hi2) /\ b2 \in Blocks
        /\ Linked \in SUBSET (Nat \ {0}) /\ Linked \subseteq DOMAIN hdr
        /\ \A p \in Linked \ {arg} : \E d \in free \ {hi2} : d.addr = p /\ hdr[p].size = d.size
        /\ \A d \in free \ {hi2} : d.addr \in Linked
  BY <1>1, BackFacts
<1>5. b2 = b /\ hi2 = hi
  <2>1. b2 = b
    BY <1>2, <1>4, BlockFacts
  <2>2. \A d, e \in After(b) : d = e
    BY BlockFacts DEF After, Blocks
  <2>3. QED
    BY <1>4, <2>1, <2>2 DEF Swallowed
<1>6. c.addr \in Linked
  BY <1>2, <1>4, <1>5
<1>7. CASE cur = NULL
  <2>1. arg <= c.addr
    BY <1>1, <1>6, <1>7 DEF PointerInv, BackInv
  <2>2. QED
    BY <1>3, <2>1
<1>8. CASE cur # NULL
  <2>1. prev \in Linked /\ prev <= cur /\ cur < arg /\ cur \in Linked
    BY <1>1, <1>8 DEF PointerInv, BackInv
  <2>2. prev # NULL /\ prev \in Nat /\ cur \in Nat /\ prev < arg
    <3>1. prev \in Nat \ {0} /\ cur \in Nat
      BY <1>4, <2>1
    <3>2. QED
      BY <1>3, <2>1, <3>1 DEF NULL
  <2>3. hdr[prev].next = arg /\ prev + 8 + hdr[prev].size # arg
    BY <1>1, <1>8, <2>2 DEF BackEnds, HDR
  <2>4. Follows(Linked, prev, arg)
    <3>1. prev \in {NULL} \cup Linked
      BY <2>1
    <3>2. Follows(Linked, prev, Deref(prev)) /\ Deref(prev) = arg
      BY <1>4, <2>2, <2>3, <3>1, WalkFacts DEF Deref
    <3>3. QED
      BY <3>2
  <2>5. c.addr <= prev
    <3>1. arg # NULL
      BY <1>2 DEF NULL
    <3>2. c.addr <= prev \/ arg <= c.addr
      BY <1>4, <1>6, <2>2, <2>4, <3>1, FollowsFacts
    <3>3. QED
      BY <1>3, <3>2
  <2>6. PICK d \in free : d.addr = prev /\ hdr[prev].size = d.size
    BY <1>3, <1>4, <2>1, <2>2
  <2>7. d \in Blocks /\ BlockEnd(d) # arg
    BY <1>2, <2>3, <2>6 DEF Blocks
  <2>8. d # c
    BY <2>7
  <2>9. QED
    BY <1>2, <1>3, <2>2, <2>5, <2>6, <2>7, <2>8
<1>9. QED
  BY <1>7, <1>8

-----------------------------------------------------------------------------
(* What kfree leaves: the blocks lo and hi joined, with b between them.    *)
LEMMA KfreeEndsStep ==
  ASSUME HeapInv, PointerInv, KfreeEnds
  PROVE  (\E b \in live : Kfree(b)) /\ PointerInv'
<1>1. /\ pc = "back" /\ pc' = "idle" /\ BackEnds /\ hdr' = MergeBackward
      /\ live' = {b \in live : b.addr # arg} /\ free' = Unheld'
      /\ answer' = [op |-> "kfree", n |-> 0, ret |-> NULL]
      /\ free_list_head' = free_list_head
  BY DEF KfreeEnds, Return
<1>2. PICK b \in live, hi \in Blocks :
        /\ b.addr = arg /\ Swallowed(b, hi)
        /\ b \in Blocks /\ b.addr <= BlockEnd(hi) - HDR /\ (hi = b \/ (hi \in free /\ b.addr < hi.addr))
        /\ arg \in Linked /\ Linked \in SUBSET (Nat \ {0}) /\ Linked \subseteq DOMAIN hdr
        /\ Linked = (DOMAIN hdr \ Held) \cup {arg}
        /\ \A p \in Linked \ {arg} : \E c \in free \ {hi} : c.addr = p /\ hdr[p].size = c.size
        /\ \A c \in free \ {hi} : c.addr \in Linked
  BY <1>1, BackFacts
<1>3. /\ DOMAIN hdr = AddrsOf((Blocks \ {hi}) \cup {b})
      /\ hdr[arg].size = BlockEnd(hi) - arg - 8
      /\ \A c \in Blocks \ {b, hi} : hdr[c.addr].size = c.size
      /\ hi \in After(b) \cup {b} /\ (After(b) # {} => hi # b)
  BY <1>2 DEF Swallowed, HDR
<1>4. /\ \A c \in Blocks : /\ c \in Block /\ c.addr \in Nat \ {0} /\ c.size \in Nat
                           /\ BlockEnd(c) = c.addr + 8 + c.size
      /\ \A c, d \in Blocks : c.addr = d.addr => c = d
  BY BlockFacts
<1>5. live' = live \ {b} /\ free \cap live = {} /\ Blocks = free \cup live
  BY <1>1, <1>2, <1>4 DEF Blocks, HeapInv, TypeOK
<1>6. \A x \in DOMAIN hdr : hdr[x] \in Header /\ x \in Nat \ {0}
  BY DEF PointerInv, HeadersTyped
(* The step leaves one header for the joined blocks, and the chain whole.  *)
<1> DEFINE m(lo) == [addr |-> lo.addr, size |-> BlockEnd(hi) - lo.addr - HDR]
           joins == cur # NULL /\ prev # NULL /\ prev + HDR + hdr[prev].size = arg
           ends(lo) ==
             /\ lo \in Before(b) \cup {b} /\ (Before(b) # {} => lo # b) /\ lo \in Blocks
             /\ lo.addr <= b.addr /\ (lo = b \/ (lo \in free /\ lo # hi))
             /\ DOMAIN hdr' = AddrsOf((Blocks \ {lo, hi, b}) \cup {lo})
             /\ \A x \in DOMAIN hdr' : hdr'[x] \in Header
             /\ hdr'[lo.addr].size = BlockEnd(hi) - lo.addr - HDR
             /\ \A c \in Blocks \ {lo, hi, b} : hdr'[c.addr].size = c.size
             /\ Linked' = (Linked \ {arg}) \cup {lo.addr} /\ Chain(Linked', Nexts')
<1>7. Held' = Held \ {arg}
  BY <1>1 DEF Held
<1>8. ASSUME joins PROVE \E lo \in Blocks : ends(lo)
  <2>1. prev \in Linked /\ prev <= cur /\ cur < arg /\ cur \in Linked /\ hdr[prev].next = arg
    BY <1>1, <1>8 DEF PointerInv, BackInv, BackEnds
  <2>2. prev # arg /\ prev \in DOMAIN hdr /\ arg \in DOMAIN hdr
    <3>1. prev \in Nat /\ cur \in Nat /\ arg \in Nat
      BY <1>2, <2>1
    <3>2. QED
      BY <1>2, <2>1, <3>1
  <2>3. PICK lo \in free \ {hi} : lo.addr = prev /\ hdr[prev].size = lo.size
    BY <1>2, <2>1, <2>2
  <2>4. /\ lo \in Blocks /\ lo # b /\ BlockEnd(lo) = arg /\ lo \in Before(b) /\ lo.addr <= b.addr
    BY <1>2, <1>4, <1>5, <1>8, <2>2, <2>3 DEF Before, HDR
  <2>5. /\ DOMAIN hdr' = DOMAIN hdr \ {arg}
        /\ \A x \in DOMAIN hdr \ {arg} :
             hdr'[x] = IF x = prev THEN [size |-> BlockEnd(hi) - prev - 8, next |-> hdr[arg].next]
                       ELSE hdr[x]
    <3>1. hdr' = [x \in DOMAIN hdr \ {arg} |->
                    IF x = prev THEN [size |-> hdr[prev].size + 8 + hdr[arg].size, next |-> hdr[arg].next]
                    ELSE hdr[x]]
      BY <1>1, <1>8 DEF MergeBackward, HDR
    <3>2. hdr[prev].size + 8 + hdr[arg].size = BlockEnd(hi) - prev - 8
      BY <1>2, <1>3, <1>4, <2>3, <2>4
    <3>3. QED
      BY <3>1, <3>2
  <2>6. DOMAIN hdr' = AddrsOf((Blocks \ {lo, hi, b}) \cup {lo})
    <3>1. \A c \in Blocks : c.addr = arg <=> c = b
      BY <1>2, <1>4
    <3>2. ASSUME NEW x \in DOMAIN hdr' PROVE \E c \in (Blocks \ {lo, hi, b}) \cup {lo} : c.addr = x
      <4>1. PICK c \in (Blocks \ {hi}) \cup {b} : c.addr = x
        BY <1>3, <2>5, <3>2 DEF AddrsOf
      <4>2. c # b
        BY <1>2, <2>5, <3>2, <4>1
      <4>3. QED
        BY <4>1, <4>2
    <3>3. ASSUME NEW c \in (Blocks \ {lo, hi, b}) \cup {lo} PROVE c.addr \in DOMAIN hdr'
      <4>1. c \in Blocks \ {hi} /\ c # b
        BY <2>3, <2>4
      <4>2. c.addr \in DOMAIN hdr /\ c.addr # arg
        BY <1>3, <3>1, <4>1 DEF AddrsOf
      <4>3. QED
        BY <2>5, <4>2
    <3>4. QED
      BY <3>2, <3>3 DEF AddrsOf
  <2>7. \A x \in DOMAIN hdr' : hdr'[x] \in Header
    <3>1. BlockEnd(hi) - prev - 8 \in Nat
      BY <1>2, <1>4, <2>3, <2>4 DEF HDR
    <3>2. hdr[arg].next \in Nat
      BY <1>6, <2>2 DEF Header
    <3>3. QED
      BY <1>6, <2>5, <3>1, <3>2 DEF Header
  <2>8. hdr'[lo.addr].size = BlockEnd(hi) - lo.addr - HDR
    BY <2>2, <2>3, <2>5 DEF HDR
  <2>9. ASSUME NEW c \in Blocks \ {lo, hi, b} PROVE hdr'[c.addr].size = c.size
    <3>1. c.addr \in DOMAIN hdr /\ c.addr # arg /\ c.addr # prev
      BY <1>2, <1>3, <1>4, <2>3, <2>4 DEF AddrsOf
    <3>2. QED
      BY <1>3, <2>5, <3>1
  <2>10. Linked' = Linked \ {arg}
    BY <1>1, <1>2, <1>7, <2>5 DEF Linked
  <2>11. Chain(Linked', Nexts')
    <3>1. Nexts[prev] = arg /\ Nexts'[prev] = Nexts[arg]
      BY <1>2, <1>6, <2>1, <2>2, <2>5 DEF Nexts, Deref, NULL
    <3>2. ASSUME NEW x \in ({NULL} \cup Linked) \ {prev, arg} PROVE Nexts'[x] = Nexts[x]
      BY <1>1, <1>2, <2>5, <3>2 DEF Nexts, Deref
    <3>3. Chain(Linked, Nexts) /\ prev \in {NULL} \cup Linked
      BY <2>1 DEF PointerInv
    <3>4. QED
      BY <1>2, <2>10, <3>1, <3>2, <3>3, ChainWithout
  <2>12. Linked' = (Linked \ {arg}) \cup {lo.addr}
    BY <2>1, <2>2, <2>3, <2>10
  <2>13. ends(lo)
    BY <2>3, <2>4, <2>6, <2>7, <2>8, <2>9, <2>11, <2>12
  <2>14. QED
    BY <2>4, <2>13
<1>9. ASSUME ~joins PROVE \E lo \in Blocks : ends(lo)
  <2>1. hdr' = hdr /\ Before(b) = {}
    <3>1. hdr' = hdr
      BY <1>1, <1>9 DEF MergeBackward
    <3>2. Before(b) = {}
      BY <1>2, <1>9, BeforeFacts
    <3>3. QED
      BY <3>1, <3>2
  <2>2. (Blocks \ {b, hi, b}) \cup {b} = (Blocks \ {hi}) \cup {b}
    OBVIOUS
  <2>3. DOMAIN hdr' = AddrsOf((Blocks \ {b, hi, b}) \cup {b})
    BY <1>3, <2>1, <2>2
  <2>4. Linked' = Linked
    BY <1>1, <1>2, <1>7, <2>1 DEF Linked
  <2>5. Chain(Linked', Nexts')
    <3>1. Nexts' = Nexts
      BY <1>1, <2>1 DEF Nexts, Deref
    <3>2. QED
      BY <2>4, <3>1 DEF PointerInv
  <2>6. hdr'[b.addr].size = BlockEnd(hi) - b.addr - HDR
    BY <1>2, <1>3, <2>1 DEF HDR
  <2>7. Linked' = (Linked \ {arg}) \cup {b.addr}
    BY <1>2, <2>4
  <2>8. b.addr <= b.addr
    BY <1>2, <1>4
  <2>9. ends(b)
    BY <1>2, <1>3, <1>6, <2>1, <2>3, <2>5, <2>6, <2>7, <2>8
  <2>10. QED
    BY <1>2, <2>9
<1>10. PICK lo \in Blocks : ends(lo)
  BY <1>8, <1>9
<1> DEFINE G == (free \ {lo, hi}) \cup {m(lo)}
<1>11. m(lo) \in Block /\ m(lo).addr = lo.addr /\ m(lo).size = BlockEnd(hi) - lo.addr - HDR
  <2>1. lo.addr \in Nat /\ b.addr \in Nat /\ BlockEnd(hi) \in Nat
    BY <1>2, <1>4
  <2>2. BlockEnd(hi) - lo.addr - 8 \in Nat
    BY <1>2, <1>10, <2>1 DEF HDR
  <2>3. QED
    BY <2>1, <2>2 DEF Block, HDR
<1>12. (free \ {lo, hi}) \cup live' = Blocks \ {lo, hi, b}
  BY <1>2, <1>5, <1>10
<1>13. /\ AddrsOf(G \cup live') = AddrsOf((Blocks \ {lo, hi, b}) \cup {lo})
       /\ AddrsOf(G) \cap AddrsOf(live') = {}
  <2>1. AddrsOf(G \cup live') = AddrsOf((free \ {lo, hi}) \cup live') \cup {lo.addr}
    BY <1>11 DEF AddrsOf
  <2>2. AddrsOf((Blocks \ {lo, hi, b}) \cup {lo}) = AddrsOf(Blocks \ {lo, hi, b}) \cup {lo.addr}
    BY DEF AddrsOf
  <2>3. ASSUME NEW c \in G, NEW d \in live', c.addr = d.addr PROVE FALSE
    <3>1. d \in Blocks /\ d # b /\ d \notin free
      BY <1>5
    <3>2. CASE c = m(lo)
      BY <1>4, <1>10, <1>11, <2>3, <3>1, <3>2
    <3>3. CASE c \in free
      BY <1>4, <1>5, <2>3, <3>1, <3>3
    <3>4. QED
      BY <3>2, <3>3
  <2>4. QED
    BY <1>12, <2>1, <2>2, <2>3 DEF AddrsOf
<1>14. ASSUME NEW c \in G PROVE hdr'[c.addr].size = c.size
  <2>1. CASE c = m(lo)
    BY <1>10, <1>11, <2>1
  <2>2. CASE c \in free \ {lo, hi}
    <3>1. c \in Blocks \ {lo, hi, b}
      BY <1>5, <2>2
    <3>2. QED
      BY <1>10, <3>1
  <2>3. QED
    BY <2>1, <2>2
<1>15. free' = G
  <2>1. G \subseteq Block
    BY <1>4, <1>5, <1>11
  <2>2. DOMAIN hdr' = AddrsOf(G \cup live')
    BY <1>10, <1>13
  <2>3. Unheld' = {[addr |-> q, size |-> hdr'[q].size] : q \in DOMAIN hdr' \ AddrsOf(live')}
    BY DEF Unheld, Held, AddrsOf
  <2> HIDE DEF G
  <2>4. Unheld' = G
    BY <1>13, <1>14, <2>1, <2>2, <2>3, UnheldIs
  <2>5. QED
    BY <1>1, <2>4
<1>16. \E c \in live : Kfree(c)
  BY <1>1, <1>3, <1>5, <1>10, <1>15 DEF Kfree
<1>17. HeadersTyped'
  <2>1. DOMAIN hdr' \subseteq DOMAIN hdr
    <3>1. (Blocks \ {lo, hi, b}) \cup {lo} \subseteq (Blocks \ {hi}) \cup {b}
      BY <1>10
    <3>2. QED
      BY <1>3, <1>10, <3>1 DEF AddrsOf
  <2>2. free_list_head' \in Nat
    BY <1>1 DEF PointerInv, HeadersTyped
  <2>3. QED
    BY <1>6, <1>10, <2>1, <2>2 DEF HeadersTyped
<1>18. Described(Blocks)'
  <2>1. Blocks' = G \cup live'
    BY <1>15 DEF Blocks
  <2>2. ASSUME NEW c \in live' PROVE hdr'[c.addr].size = c.size
    <3>1. c \in Blocks \ {lo, hi, b}
      BY <1>12
    <3>2. QED
      BY <1>10, <3>1
  <2>3. QED
    BY <1>10, <1>13, <1>14, <2>1, <2>2 DEF Described
<1>19. QED
  BY <1>1, <1>10, <1>16, <1>17, <1>18 DEF PointerInv

-----------------------------------------------------------------------------
LEMMA ListInitFacts == ListInit => Init /\ PointerInv
<1> SUFFICES ASSUME ListInit PROVE Init /\ PointerInv
  OBVIOUS
<1> DEFINE whole == [addr |-> Start, size |-> Limit - Start - HDR]
<1>1. /\ free_list_head = (IF Usable THEN Start ELSE NULL)
      /\ hdr = [p \in IF Usable THEN {Start} ELSE {} |-> [size |-> Limit - Start - HDR, next |-> NULL]]
      /\ live = {} /\ free = Unheld /\ pc = "idle"
      /\ answer = [op |-> "none", n |-> 0, ret |-> NULL]
  BY DEF ListInit
<1>2. Held = {}
  BY <1>1 DEF Held
<1>3. Start \in Nat \ {0} /\ (Usable => Limit - Start - HDR \in Nat)
  BY RegionFacts DEF HDR
<1>4. Linked = DOMAIN hdr
  BY <1>1, <1>2 DEF Linked
<1>5. HeadersTyped
  BY <1>1, <1>3 DEF HeadersTyped, Header, NULL
<1>6. CASE Usable
  <2>1. /\ DOMAIN hdr = {Start} /\ hdr[Start].size = Limit - Start - HDR /\ hdr[Start].next = NULL
        /\ free_list_head = Start
    BY <1>1, <1>6
  <2>2. free = {whole}
    BY <1>1, <1>2, <2>1 DEF Unheld
  <2>3. Init
    BY <1>1, <1>6, <2>2 DEF Init
  <2>4. Described(Blocks)
    BY <1>1, <2>1, <2>2 DEF Described, Blocks, AddrsOf
  <2>5. Follows(Linked, NULL, Nexts[NULL]) /\ Follows(Linked, Start, Nexts[Start])
    BY <1>3, <1>4, <2>1 DEF Follows, Nexts, Deref, NULL
  <2>6. Chain(Linked, Nexts)
    BY <1>4, <2>1, <2>5 DEF Chain
  <2>7. QED
    BY <1>1, <1>5, <2>3, <2>4, <2>6 DEF PointerInv
<1>7. CASE ~Usable
  <2>1. DOMAIN hdr = {} /\ free_list_head = NULL
    BY <1>1, <1>7
  <2>2. free = {}
    BY <1>1, <2>1 DEF Unheld
  <2>3. Init
    BY <1>1, <1>7, <2>2 DEF Init
  <2>4. Described(Blocks)
    BY <1>1, <2>1, <2>2 DEF Described, Blocks, AddrsOf
  <2>5. Chain(Linked, Nexts)
    BY <1>4, <2>1 DEF Chain, Follows, Nexts, Deref, NULL
  <2>6. QED
    BY <1>1, <1>5, <2>3, <2>4, <2>5 DEF PointerInv
<1>8. QED
  BY <1>6, <1>7

(* Every round of a loop is a stutter of Heap, every end of a call its step.*)
LEMMA ListStep ==
  ASSUME HeapInv, PointerInv, [ListNext]_list_vars
  PROVE  [Next]_vars /\ PointerInv'
<1>1. ASSUME NEW n \in Requests, KmallocRefused(n) PROVE Next /\ PointerInv'
  BY <1>1, RefusedStep DEF Next
<1>2. ASSUME (\E n \in Requests : KmallocBegin(n)) \/ (\E b \in live : KfreeBegin(b))
      PROVE  [Next]_vars /\ PointerInv'
  BY <1>2, BeginStep DEF vars
<1>3. CASE FitNext
  BY <1>3, FitNextStep DEF FitNext, vars
<1>4. CASE FitNone
  BY <1>4, FitNoneStep DEF Next
<1>5. CASE TakeFront
  BY <1>5, TakeFrontStep DEF Next
<1>6. CASE TakeWhole
  BY <1>6, TakeWholeStep DEF Next
<1>7. CASE KfreeNothing
  <2>1. KfreeNull
    BY <1>7 DEF KfreeNothing, Return, KfreeNull
  <2>2. PointerInv'
    BY <1>7, WalksLeave DEF KfreeNothing, Return, PointerInv
  <2>3. QED
    BY <2>1, <2>2 DEF Next
<1>8. CASE InsertNext
  BY <1>8, InsertNextStep DEF InsertNext, vars
<1>9. CASE LinkIn
  BY <1>9, LinkInStep DEF LinkIn, vars
<1>10. CASE BackNext
  BY <1>10, BackNextStep DEF BackNext, vars
<1>11. CASE KfreeEnds
  BY <1>11, KfreeEndsStep DEF Next
<1>12. CASE UNCHANGED list_vars
  <2>1. UNCHANGED <<free_list_head, hdr, pc, arg, cur, prev, free, live, answer>>
    BY <1>12 DEF list_vars, locals
  <2>2. Held' = Held /\ Blocks' = Blocks /\ Nexts' = Nexts
    BY <2>1 DEF Held, Blocks, Nexts, Deref
  <2>3. Linked' = Linked
    BY <2>1, <2>2 DEF Linked
  <2>4. Absorbed => Absorbed'
    <3>1. SUFFICES ASSUME Absorbed PROVE Absorbed'
      OBVIOUS
    <3>2. PICK b \in live, hi \in Blocks : b.addr = arg /\ Swallowed(b, hi)
      BY <3>1 DEF Absorbed
    <3>3. QED
      BY <2>1, <3>2, AbsorbedNext DEF Swallowed
  <2>5. (FitInv => FitInv') /\ (InsertInv => InsertInv') /\ (BackInv => BackInv')
    BY <2>1, <2>2, <2>3, <2>4 DEF FitInv, LargeEnough, InsertInv, BackInv
  <2>6. PointerInv'
    BY <2>1, <2>2, <2>3, <2>5 DEF PointerInv, HeadersTyped, Described
  <2>7. QED
    BY <2>1, <2>6 DEF vars
<1>13. QED
  BY <1>1, <1>2, <1>3, <1>4, <1>5, <1>6, <1>7, <1>8, <1>9, <1>10, <1>11, <1>12 DEF ListNext

LEMMA ListKeepsInv == HeapInv /\ PointerInv /\ [ListNext]_list_vars => (HeapInv /\ PointerInv)'
  BY ListStep, NextKeepsInv

(* The invariant of the heap with its pointers.                            *)
THEOREM ListInvariant == ListSpec => [](HeapInv /\ PointerInv)
<1>1. ListInit => HeapInv /\ PointerInv
  BY ListInitFacts, InitEstablishesInv
<1>2. QED
  BY <1>1, ListKeepsInv, PTL DEF ListSpec

(* Between two calls, and in any loop before kfree links a block in, the   *)
(* list ascends and visits exactly the free blocks, and no header is lost. *)
THEOREM FreeListSound == ListSpec => []ListSound
<1>1. HeapInv /\ PointerInv => ListSound
  <2> SUFFICES ASSUME HeapInv, PointerInv, pc # "back"
               PROVE  /\ \A p \in {NULL} \cup AddrsOf(free) : Follows(AddrsOf(free), p, Deref(p))
                      /\ DOMAIN hdr = AddrsOf(Blocks)
                      /\ \A b \in Blocks : hdr[b.addr].size = b.size
    BY DEF ListSound, AddrsOf
  <2>1. QED
    BY RestFacts, WalkFacts
<1>2. QED
  BY <1>1, ListInvariant, PTL

LEMMA ListImplementsHeap == ListSpec => Spec
<1>1. ListInit => Init
  BY ListInitFacts
<1>2. HeapInv /\ PointerInv /\ [ListNext]_list_vars => [Next]_vars
  BY ListStep
<1>3. QED
  BY <1>1, <1>2, ListInvariant, PTL DEF ListSpec, Spec

LEMMA SameHeap ==
  /\ H!Init <=> Init
  /\ H!vars = vars
  /\ H!Next <=> Next
<1>1. /\ \A n : H!Padded(n) = Padded(n)
      /\ \A b : H!BlockEnd(b) = BlockEnd(b)
      /\ H!NULL = NULL /\ H!HDR = HDR /\ H!MIN_ALLOC_SIZE = MIN_ALLOC_SIZE
      /\ H!Start = Start /\ H!Limit = Limit /\ (H!Usable <=> Usable)
  BY DEF H!Padded, Padded, H!align_up, align_up, H!MIN_ALLOC_SIZE, MIN_ALLOC_SIZE, H!ALIGN_SIZE,
         ALIGN_SIZE, H!BlockEnd, BlockEnd, H!HDR, HDR, H!NULL, NULL, H!Start, Start,
         H!Limit, Limit, H!Usable, Usable
<1>2. (H!Init <=> Init) /\ H!vars = vars
  BY <1>1 DEF H!Init, Init, H!vars, vars
<1>3. /\ \A b, n : (H!FirstFit(b, n) <=> FirstFit(b, n)) /\ (H!Splits(b, n) <=> Splits(b, n))
      /\ \A b, n : H!Front(b, n) = Front(b, n) /\ H!Rest(b, n) = Rest(b, n)
      /\ \A b, n : H!Fits(b, n) <=> Fits(b, n)
      /\ \A b : H!Before(b) = Before(b) /\ H!After(b) = After(b)
  BY <1>1 DEF H!FirstFit, FirstFit, H!Fits, Fits, H!Splits, Splits, H!Front, Front, H!Rest, Rest,
              H!Before, Before, H!After, After
<1>4. \A n : /\ H!KmallocSplit(n) <=> KmallocSplit(n)
             /\ H!KmallocWhole(n) <=> KmallocWhole(n)
             /\ H!KmallocNull(n) <=> KmallocNull(n)
  BY <1>1, <1>3 DEF H!KmallocSplit, KmallocSplit, H!KmallocWhole, KmallocWhole, H!KmallocNull, KmallocNull
<1>5. (\A b : H!Kfree(b) <=> Kfree(b)) /\ (H!KfreeNull <=> KfreeNull)
  BY <1>1, <1>3 DEF H!Kfree, Kfree, H!KfreeNull, KfreeNull
<1>6. H!Next <=> Next
  BY <1>4, <1>5 DEF H!Next, Next
<1>7. QED
  BY <1>2, <1>6

(* The pointers implement the sets.                                        *)
THEOREM FreeListImplementsHeap == ListSpec => ImplementsHeap
<1>1. [Next]_vars => [H!Next]_(H!vars)
  BY SameHeap DEF H!vars, vars
<1>2. Init => H!Init
  BY SameHeap
<1>3. QED
  BY <1>1, <1>2, ListImplementsHeap, PTL DEF Spec, ImplementsHeap, H!Spec

(* Hence the code with its pointers keeps the promise made to callers.     *)
THEOREM FreeListImplementsAllocator == ListSpec => ImplementsAllocator
<1>1. QED
  BY ListImplementsHeap, HeapImplementsAllocator, PTL

=============================================================================
