----------------------------- MODULE CacheProofs -----------------------------
(***************************************************************************)
(* The stores that are on their way to main memory (Cache), for every      *)
(* hierarchy that one context uses: an invariant of all caches, kept by    *)
(* an access at each of the three levels.                                  *)
(***************************************************************************)
EXTENDS MCMachine, FiniteSetTheorems, SequenceTheorems, TLAPS

-----------------------------------------------------------------------------
(* Addresses, blocks and sets *)

LEMMA Split ==
    ASSUME NEW m \in Nat \ {0}, NEW a \in Nat
    PROVE  a \div m \in Nat /\ a % m \in 0 .. m - 1 /\ a = (a \div m) * m + (a % m)
<1>1. a \div m \in Int /\ a % m \in 0 .. m - 1 /\ a = m * (a \div m) + (a % m)
  BY SMT
<1>2. a \div m >= 0
  BY SMT
<1> QED
  BY <1>1, <1>2, SMT

LEMMA SplitOnce ==
    ASSUME NEW m \in Nat \ {0}, NEW q \in Nat, NEW r \in 0 .. m - 1
    PROVE  (q * m + r) \div m = q /\ (q * m + r) % m = r
<1>1. PICK a \in Nat : a = q * m + r
  BY SMT
<1>2. a \div m \in Nat /\ a % m \in 0 .. m - 1 /\ a = (a \div m) * m + (a % m)
  BY <1>1, Split
<1> DEFINE d == a \div m
           e == a % m
<1>3. d \in Nat /\ e \in 0 .. m - 1 /\ d * m + e = q * m + r
  BY <1>1, <1>2
<1> HIDE DEF d, e
<1>4. d = q
  <2>1. ~(d < q) /\ ~(q < d)
    BY <1>3, SMT
  <2> QED
    BY <1>3, <2>1
<1>5. e = r
  BY <1>3, <1>4, SMT
<1> QED
  BY <1>1, <1>4, <1>5 DEF d, e

LEMMA Products ==
    ASSUME NEW b \in Nat \ {0}, NEW k \in Nat \ {0}, NEW t \in Nat, NEW s \in 0 .. k - 1,
           NEW r \in 0 .. b - 1
    PROVE  /\ b * k \in Nat \ {0}
           /\ s * b + r \in 0 .. b * k - 1
           /\ (t * k + s) * b + r = t * (b * k) + (s * b + r)
<1>1. b * k \in Nat /\ b * k > 0
  BY SMT
<1>2. s * b \in Int /\ s * b >= 0
  BY SMT
<1>3. s * b + b = (s + 1) * b
  BY SMT
<1>4. (s + 1) * b <= k * b /\ k * b = b * k
  BY SMT
<1>5. (t * k + s) * b = t * (b * k) + s * b
  BY SMT
<1>6. t * (b * k) \in Int
  BY SMT
<1> QED
  BY <1>1, <1>2, <1>3, <1>4, <1>5, <1>6, SMT

LEMMA DivTwice ==
    ASSUME NEW b \in Nat \ {0}, NEW k \in Nat \ {0}, NEW a \in Nat
    PROVE  a \div (b * k) = (a \div b) \div k
<1> DEFINE q == a \div b
           r == a % b
           t == q \div k
           s == q % k
<1>1. q \in Nat /\ r \in 0 .. b - 1 /\ a = q * b + r
  BY Split
<1>2. t \in Nat /\ s \in 0 .. k - 1 /\ q = t * k + s
  BY <1>1, Split
<1> HIDE DEF q, r, t, s
<1>3. /\ b * k \in Nat \ {0} /\ s * b + r \in 0 .. b * k - 1
      /\ a = t * (b * k) + (s * b + r)
  BY <1>1, <1>2, Products
<1>4. a \div (b * k) = t
  BY <1>2, <1>3, SplitOnce
<1> QED
  BY <1>4 DEF q, t

(* Two addresses are in the same block if they have the same tag and set.  *)
IsSize(p) == p.nsets \in Nat \ {0} /\ p.assoc \in Nat \ {0} /\ p.bsize \in Nat \ {0}
SameBlock(p, x, y) == M!tag(p, x) = M!tag(p, y) /\ M!set(p, x) = M!set(p, y)

LEMMA TagAndSet ==
    ASSUME NEW p, IsSize(p), NEW x \in Nat
    PROVE  /\ M!tag(p, x) = (x \div p.bsize) \div p.nsets /\ M!tag(p, x) \in Nat
           /\ M!set(p, x) = (x \div p.bsize) % p.nsets /\ M!set(p, x) \in 0 .. p.nsets - 1
           /\ x \div p.bsize \in Nat
           /\ x \div p.bsize = M!tag(p, x) * p.nsets + M!set(p, x)
<1>1. p.bsize \in Nat \ {0} /\ p.nsets \in Nat \ {0}
  BY DEF IsSize
<1>2. M!tag(p, x) = (x \div p.bsize) \div p.nsets
  BY <1>1, DivTwice DEF M!tag
<1>3. x \div p.bsize \in Nat
  BY <1>1, Split
<1> QED
  BY <1>1, <1>2, <1>3, Split DEF M!set

LEMMA BlockIs ==
    ASSUME NEW p, IsSize(p), NEW x \in Nat, NEW y \in Nat
    PROVE  SameBlock(p, x, y) <=> x \div p.bsize = y \div p.bsize
  BY TagAndSet DEF SameBlock

(* The address of a block, of its tag and its set, and those in it.        *)
LEMMA AddressOf ==
    ASSUME NEW p, IsSize(p), NEW t \in Nat, NEW s \in 0 .. p.nsets - 1
    PROVE  LET a == M!CACHE_MK_BADDR(p, t, s)
           IN /\ a \in Nat /\ M!tag(p, a) = t /\ M!set(p, a) = s
              /\ \A x \in Nat : M!tag(p, x) = t /\ M!set(p, x) = s => x \in a .. a + p.bsize - 1
<1> DEFINE a == M!CACHE_MK_BADDR(p, t, s)
           q == t * p.nsets + s
           b == p.bsize
           m == p.nsets
<1>1. b \in Nat \ {0} /\ m \in Nat \ {0}
  BY DEF IsSize
<1>2. q \in Nat
  <2>1. t * m \in Nat
    BY <1>1, SMT
  <2> QED
    BY <2>1
<1>3. q \div m = t /\ q % m = s
  BY <1>1, SplitOnce
<1>4. a = b * q
  BY DEF M!CACHE_MK_BADDR
<1> HIDE DEF a, q, b, m
<1>5. a \in Nat /\ a = q * b + 0 /\ 0 \in 0 .. b - 1
  BY <1>1, <1>2, <1>4, SMT
<1>6. a \div b = q
  BY <1>1, <1>2, <1>5, SplitOnce
<1>7. M!tag(p, a) = t /\ M!set(p, a) = s
  BY <1>3, <1>5, <1>6, TagAndSet DEF b, m
<1>8. ASSUME NEW x \in Nat, M!tag(p, x) = t, M!set(p, x) = s
      PROVE  x \in a .. a + p.bsize - 1
  <2>1. x \div b = q
    BY <1>8, TagAndSet DEF b, q
  <2>2. x % b \in 0 .. b - 1 /\ x = q * b + (x % b)
    BY <1>1, <2>1, Split
  <2>3. p.bsize = b
    BY DEF b
  <2>4. PICK e \in 0 .. b - 1 : x = q * b + e
    BY <2>2
  <2>5. PICK z : z = q * b
    OBVIOUS
  <2> HIDE DEF b
  <2>6. a = z + 0 /\ x = z + e
    BY <1>5, <2>4, <2>5
  <2>7. z \in Int
    BY <1>1, <1>2, <2>5, SMT
  <2> QED
    BY <1>1, <2>3, <2>4, <2>6, <2>7
<1> QED
  BY <1>5, <1>7, <1>8 DEF a

(* A block of a cache is in one block of a cache of larger blocks.         *)
LEMMA BlockInBlock ==
    ASSUME NEW p, NEW r, IsSize(p), IsSize(r), r.bsize % p.bsize = 0,
           NEW x \in Nat, NEW y \in Nat, SameBlock(p, x, y)
    PROVE  SameBlock(r, x, y)
<1>1. p.bsize \in Nat \ {0} /\ r.bsize \in Nat \ {0}
  BY DEF IsSize
<1> DEFINE k == r.bsize \div p.bsize
<1>2. k \in Nat /\ r.bsize = k * p.bsize
  <2>1. k \in Nat /\ r.bsize = k * p.bsize + (r.bsize % p.bsize)
    BY <1>1, Split
  <2>2. k * p.bsize \in Int
    BY <1>1, <2>1, SMT
  <2> QED
    BY <2>1, <2>2
<1> HIDE DEF k
<1>3. k \in Nat \ {0} /\ r.bsize = p.bsize * k
  BY <1>1, <1>2, SMT
<1>4. x \div r.bsize = (x \div p.bsize) \div k /\ y \div r.bsize = (y \div p.bsize) \div k
  BY <1>1, <1>3, DivTwice
<1> QED
  BY <1>4, BlockIs

-----------------------------------------------------------------------------
(* The ways of a set *)

BlockFields == {"tag", "context_id", "valid", "dirty", "ready"}

(* The ways of a set of a cache p, of which no two have the same block.    *)
IsSet(p, blocks) ==
  /\ blocks = [w \in 1 .. p.assoc |-> blocks[w]]
  /\ \A w \in 1 .. p.assoc :
       /\ DOMAIN blocks[w] = BlockFields
       /\ blocks[w].valid => blocks[w].tag \in Nat /\ blocks[w].context_id \in M!Contexts
  /\ M!OneCopy(blocks)

Holds(blk, t, c) == blk.valid /\ blk.tag = t /\ blk.context_id = c
HoldsDirty(p, blocks, t, c) == \E w \in 1 .. p.assoc : Holds(blocks[w], t, c) /\ blocks[w].dirty

(* What a look-up finds.                                                   *)
LEMMA FoundIs ==
    ASSUME NEW p, IsSize(p), NEW blocks, IsSet(p, blocks), NEW x, NEW c
    PROVE  /\ M!Found(p, blocks, x, c) \in 0 .. p.assoc
           /\ \A w \in 1 .. p.assoc :
                Holds(blocks[w], M!tag(p, x), c) <=> w = M!Found(p, blocks, x, c)
<1> DEFINE hits == {w \in DOMAIN blocks : blocks[w].valid /\ blocks[w].tag = M!tag(p, x)
                                            /\ blocks[w].context_id = c}
<1>1. DOMAIN blocks = 1 .. p.assoc /\ p.assoc \in Nat
  BY DEF IsSet, IsSize
<1>2. \A w \in 1 .. p.assoc : Holds(blocks[w], M!tag(p, x), c) <=> w \in hits
  BY <1>1 DEF Holds
<1>3. \A v, w \in hits : v = w
  BY DEF IsSet, M!OneCopy
<1>4. hits \subseteq 1 .. p.assoc
  BY <1>1
<1>5. M!Found(p, blocks, x, c) = IF hits = {} THEN 0 ELSE M!Min(hits)
  BY DEF M!Found
<1> HIDE DEF hits
<1>6. CASE hits = {}
  BY <1>1, <1>2, <1>5, <1>6
<1>7. CASE hits # {}
  <2>1. PICK w \in hits : TRUE
    BY <1>7
  <2>2. hits = {w} /\ w \in 1 .. p.assoc
    BY <1>3, <1>4, <2>1
  <2>3. M!Min(hits) = w
    BY <2>2 DEF M!Min
  <2>4. M!Found(p, blocks, x, c) = w
    BY <1>5, <1>7, <2>3
  <2>5. \A v \in 1 .. p.assoc : Holds(blocks[v], M!tag(p, x), c) <=> v = w
    BY <1>2, <2>2
  <2> QED
    BY <1>1, <2>2, <2>4, <2>5
<1> QED
  BY <1>6, <1>7

(* The list of ways after a hit or a miss: the same blocks.                *)
WayBefore(k, w) == IF w = 1 THEN k ELSE IF w <= k THEN w - 1 ELSE w
Moved(n, blocks, k) == [w \in 1 .. n |-> blocks[WayBefore(k, w)]]

LEMMA MovedIs ==
    ASSUME NEW S, NEW n \in Nat \ {0}, NEW blocks \in Seq(S), Len(blocks) = n, NEW k \in 1 .. n
    PROVE  M!ToHead(blocks, k) = Moved(n, blocks, k)
<1> DEFINE front == SubSeq(blocks, 1, k - 1)
           rest == SubSeq(blocks, k + 1, n)
<1>0. n \in Nat \ {0} /\ k \in 1 .. n
  OBVIOUS
<1>1. \A w \in 1 .. n : blocks[w] \in S
  OBVIOUS
<1>2. /\ front \in Seq(S) /\ Len(front) = k - 1
      /\ \A w \in 1 .. k - 1 : front[w] = blocks[w]
  <2>1. \A w \in 1 .. k - 1 : blocks[w] \in S
    BY <1>0, <1>1
  <2>2. front \in Seq(S) /\ Len(front) = IF 1 <= k - 1 THEN k - 1 - 1 + 1 ELSE 0
    BY <1>0, <2>1, SubSeqProperties
  <2>3. \A w \in 1 .. k - 1 - 1 + 1 : front[w] = blocks[1 + w - 1]
    BY <1>0, <2>1, SubSeqProperties
  <2> HIDE DEF front
  <2> QED
    BY <1>0, <2>2, <2>3
<1>3. /\ rest \in Seq(S) /\ Len(rest) = n - k
      /\ \A w \in 1 .. n - k : rest[w] = blocks[w + k]
  <2>1. \A w \in k + 1 .. n : blocks[w] \in S
    BY <1>0, <1>1
  <2>2. rest \in Seq(S) /\ Len(rest) = IF k + 1 <= n THEN n - (k + 1) + 1 ELSE 0
    BY <1>0, <2>1, SubSeqProperties
  <2>3. \A w \in 1 .. n - (k + 1) + 1 : rest[w] = blocks[k + 1 + w - 1]
    BY <1>0, <2>1, SubSeqProperties
  <2> HIDE DEF rest
  <2> QED
    BY <1>0, <2>2, <2>3
<1>4. M!ToHead(blocks, k) = <<blocks[k]>> \o (front \o rest)
  BY DEF M!ToHead, M!RemoveAt
<1> HIDE DEF front, rest
<1> DEFINE tail == front \o rest
<1>5. /\ tail \in Seq(S) /\ Len(tail) = Len(front) + Len(rest)
      /\ \A w \in 1 .. Len(front) + Len(rest) :
           tail[w] = IF w <= Len(front) THEN front[w] ELSE rest[w - Len(front)]
  BY <1>2, <1>3, ConcatProperties
<1> HIDE DEF tail
<1>6. /\ tail \in Seq(S) /\ Len(tail) = n - 1
      /\ \A w \in 1 .. n - 1 : tail[w] = IF w < k THEN blocks[w] ELSE blocks[w + 1]
  BY <1>0, <1>2, <1>3, <1>5
<1>7. blocks[k] \in S
  BY <1>1
<1>8. /\ <<blocks[k]>> \o tail \in Seq(S) /\ Len(<<blocks[k]>> \o tail) = n
      /\ \A w \in 1 .. n : (<<blocks[k]>> \o tail)[w] = IF w = 1 THEN blocks[k] ELSE tail[w - 1]
  BY <1>0, <1>6, <1>7
<1> DEFINE all == <<blocks[k]>> \o tail
           is == [w \in 1 .. n |-> blocks[IF w = 1 THEN k ELSE IF w <= k THEN w - 1 ELSE w]]
<1>9. DOMAIN all = 1 .. n /\ all = [w \in 1 .. n |-> all[w]]
  BY <1>0, <1>8
<1>10. \A w \in 1 .. n : all[w] = is[w]
  <2>1. SUFFICES ASSUME NEW w \in 1 .. n PROVE all[w] = is[w]
    OBVIOUS
  <2>2. all[w] = IF w = 1 THEN blocks[k] ELSE tail[w - 1]
    BY <1>8
  <2> HIDE DEF all
  <2>3. CASE w = 1
    BY <2>2, <2>3
  <2>4. CASE w > 1
    <3>1. w - 1 \in 1 .. n - 1 /\ (w - 1) + 1 = w
      BY <1>0, <2>4
    <3>2. tail[w - 1] = IF w - 1 < k THEN blocks[w - 1] ELSE blocks[w]
      BY <1>6, <3>1
    <3> QED
      BY <1>0, <2>2, <2>4, <3>2
  <2> QED
    BY <1>0, <2>3, <2>4
<1> HIDE DEF all
<1>11. all = is
  BY <1>9, <1>10
<1> QED
  BY <1>4, <1>11 DEF all, tail, Moved, WayBefore

LEMMA ToHeadIs ==
    ASSUME NEW p, IsSize(p), NEW blocks, blocks = [w \in 1 .. p.assoc |-> blocks[w]],
           NEW k \in 1 .. p.assoc
    PROVE  M!ToHead(blocks, k) = Moved(p.assoc, blocks, k)
<1> DEFINE S == {blocks[w] : w \in 1 .. p.assoc}
<1>1. p.assoc \in Nat \ {0}
  BY DEF IsSize
<1>2. blocks \in [1 .. p.assoc -> S]
  OBVIOUS
<1> HIDE DEF S
<1>3. blocks \in Seq(S) /\ Len(blocks) = p.assoc
  BY <1>1, <1>2
<1> QED
  BY <1>1, <1>3, MovedIs

(* What a list of the same ways holds.                                     *)
Rearranged(p, blocks, others) ==
  /\ IsSet(p, others)
  /\ \A w \in 1 .. p.assoc : \E v \in 1 .. p.assoc : others[w] = blocks[v]
  /\ \A t, c : HoldsDirty(p, blocks, t, c) => HoldsDirty(p, others, t, c)

LEMMA Permuted ==
    ASSUME NEW p, IsSize(p), NEW blocks, IsSet(p, blocks), NEW k \in 1 .. p.assoc
    PROVE  Rearranged(p, blocks, M!ToHead(blocks, k))
<1> DEFINE at(w) == IF w = 1 THEN k ELSE IF w <= k THEN w - 1 ELSE w
           back(v) == IF v = k THEN 1 ELSE IF v < k THEN v + 1 ELSE v
           moved == M!ToHead(blocks, k)
<1>1. moved = [w \in 1 .. p.assoc |-> blocks[at(w)]]
  <2>1. blocks = [w \in 1 .. p.assoc |-> blocks[w]]
    BY DEF IsSet
  <2>2. moved = Moved(p.assoc, blocks, k)
    BY <2>1, ToHeadIs
  <2> HIDE DEF moved
  <2> QED
    BY <2>2 DEF Moved, WayBefore
<1>2. p.assoc \in Nat /\ \A w \in 1 .. p.assoc : at(w) \in 1 .. p.assoc
  BY DEF IsSize
<1>3. \A v \in 1 .. p.assoc : back(v) \in 1 .. p.assoc /\ at(back(v)) = v
  BY <1>2
<1>4. \A v, w \in 1 .. p.assoc : v # w => at(v) # at(w)
  BY <1>2
<1> HIDE DEF at, back, moved
<1>5. IsSet(p, moved)
  <2>1. DOMAIN blocks = 1 .. p.assoc /\ DOMAIN moved = 1 .. p.assoc
    BY <1>1 DEF IsSet
  <2>2. ASSUME NEW v \in 1 .. p.assoc, NEW w \in 1 .. p.assoc, v # w,
               moved[v].valid, moved[w].valid
        PROVE  <<moved[v].tag, moved[v].context_id>> # <<moved[w].tag, moved[w].context_id>>
    <3>1. moved[v] = blocks[at(v)] /\ moved[w] = blocks[at(w)]
      BY <1>1
    <3>2. at(v) \in 1 .. p.assoc /\ at(w) \in 1 .. p.assoc /\ at(v) # at(w)
      BY <1>2, <1>4, <2>2
    <3> QED
      BY <2>1, <2>2, <3>1, <3>2 DEF IsSet, M!OneCopy
  <2>3. M!OneCopy(moved)
    BY <2>1, <2>2 DEF M!OneCopy
  <2> QED
    BY <1>1, <1>2, <2>3 DEF IsSet
<1>6. \A t, c : HoldsDirty(p, blocks, t, c) => HoldsDirty(p, moved, t, c)
  BY <1>1, <1>3 DEF HoldsDirty, Holds
<1> QED
  BY <1>1, <1>2, <1>5, <1>6 DEF moved, Rearranged

-----------------------------------------------------------------------------
(* The caches *)

Deep(n) == Depth(hierarchy, n)
End(n) == BehindOf(hierarchy, Last(hierarchy, n))
After(n) == hierarchy.caches[n].next

LEMMA Chains ==
    ASSUME IsHierarchy(hierarchy), NEW n \in M!Names
    PROVE  /\ IsSize(hierarchy.caches[n])
           /\ Deep(n) \in 1 .. 3 /\ End(n) \in {"memory", "translation"}
           /\ Deep(n) = 1 <=> After(n) \notin M!Names
           /\ Deep(n) = 1 => End(n) = After(n)
           /\ Deep(n) # 1 => /\ Deep(After(n)) = Deep(n) - 1 /\ End(After(n)) = End(n)
                             /\ IsSize(hierarchy.caches[After(n)])
                             /\ hierarchy.caches[After(n)].bsize % hierarchy.caches[n].bsize = 0
<1> DEFINE m == After(n)
<1>1. n \in DOMAIN hierarchy.caches /\ IsCache(hierarchy, n)
  BY DEF IsHierarchy, M!Names
<1>2. IsSize(hierarchy.caches[n]) /\ Deep(n) \in 1 .. 3
  BY <1>1 DEF IsCache, IsSize, Deep, Depth
<1>3. Deep(n) = 1 <=> After(n) \notin M!Names
  BY DEF Deep, Depth, After, BehindOf, M!Names
<1>4. End(n) \in {"memory", "translation"} /\ End(n) \notin M!Names
  BY <1>1 DEF IsCache, End, M!Names
<1>5. Deep(n) = 1 => End(n) = After(n)
  BY DEF End, Last, Deep, After, BehindOf
<1>6. ASSUME Deep(n) # 1
      PROVE  /\ Deep(m) = Deep(n) - 1 /\ End(m) = End(n) /\ IsSize(hierarchy.caches[m])
             /\ hierarchy.caches[m].bsize % hierarchy.caches[n].bsize = 0
  <2>1. m \in M!Names /\ m \in DOMAIN hierarchy.caches /\ BehindOf(hierarchy, n) = m
    BY <1>3, <1>6 DEF After, BehindOf, M!Names
  <2>2. IsCache(hierarchy, m)
    BY <2>1 DEF IsHierarchy
  <2>3. IsSize(hierarchy.caches[m])
    BY <2>2 DEF IsCache, IsSize
  <2>4. hierarchy.caches[m].bsize % hierarchy.caches[n].bsize = 0
    BY <1>1, <2>1 DEF IsCache, After
  <2>5. CASE Deep(n) = 2
    <3>1. BehindOf(hierarchy, m) \notin DOMAIN hierarchy.caches
      BY <2>1, <2>5 DEF Deep, Depth
    <3>2. Deep(m) = 1
      BY <3>1 DEF Deep, Depth
    <3>3. End(n) = BehindOf(hierarchy, m) /\ End(m) = BehindOf(hierarchy, m)
      BY <2>1, <2>5, <3>2 DEF End, Last, Deep
    <3> QED
      BY <2>3, <2>4, <2>5, <3>2, <3>3
  <2>6. CASE Deep(n) = 3
    <3>1. BehindOf(hierarchy, m) \in DOMAIN hierarchy.caches
      BY <2>1, <2>6 DEF Deep, Depth
    <3>2. End(n) = BehindOf(hierarchy, BehindOf(hierarchy, m))
      BY <2>1, <2>6 DEF End, Last, Deep
    <3>3. BehindOf(hierarchy, BehindOf(hierarchy, m)) \notin DOMAIN hierarchy.caches
      BY <1>4, <3>2 DEF M!Names
    <3>4. Deep(m) = 2
      BY <3>1, <3>3 DEF Deep, Depth
    <3>5. End(m) = BehindOf(hierarchy, BehindOf(hierarchy, m))
      BY <3>4 DEF End, Last, Deep
    <3> QED
      BY <2>3, <2>4, <2>6, <3>2, <3>4, <3>5
  <2> QED
    BY <1>2, <1>6, <2>5, <2>6
<1> QED
  BY <1>2, <1>3, <1>4, <1>5, <1>6

(* The caches with their sets; those of translations are never written.    *)
SetsOf(h, n) == h.caches[n].sets
IsLevel(h, n) ==
  LET p == hierarchy.caches[n]
  IN /\ DOMAIN h.caches[n] = {"sets", "bus_free"}
     /\ DOMAIN SetsOf(h, n) = 0 .. p.nsets - 1
     /\ \A s \in 0 .. p.nsets - 1 :
          /\ IsSet(p, SetsOf(h, n)[s])
          /\ End(n) # "memory" => \A w \in 1 .. p.assoc : ~SetsOf(h, n)[s][w].dirty
Whole(h) ==
  /\ DOMAIN h = {"caches", "banks", "unsaved"}
  /\ DOMAIN h.caches = M!Names
  /\ \A n \in M!Names : IsLevel(h, n)
  /\ h.unsaved \subseteq M!Contexts \X Nat

(* A block of cache n that has the store u and is dirty.                   *)
DirtyAt(h, n, u) ==
  LET p == hierarchy.caches[n]
  IN HoldsDirty(p, SetsOf(h, n)[M!set(p, u[2])], M!tag(p, u[2]), u[1])

LEMMA DirtyIs ==
    ASSUME IsHierarchy(hierarchy), NEW h, Whole(h), NEW n \in M!Names, NEW u \in M!Contexts \X Nat
    PROVE  M!DirtyIn(h, n, u) <=> DirtyAt(h, n, u)
<1> DEFINE p == hierarchy.caches[n]
           x == u[2]
           blocks == SetsOf(h, n)[M!set(p, x)]
           w == M!Found(p, blocks, x, u[1])
<1>1. IsSize(p) /\ x \in Nat
  BY Chains
<1>2. M!set(p, x) \in 0 .. p.nsets - 1
  BY <1>1, TagAndSet
<1>3. IsSet(p, blocks)
  BY <1>2 DEF Whole, IsLevel
<1>4. M!DirtyIn(h, n, u) <=> w # 0 /\ blocks[w].dirty
  BY DEF M!DirtyIn, SetsOf
<1>5. DirtyAt(h, n, u) <=> \E v \in 1 .. p.assoc : Holds(blocks[v], M!tag(p, x), u[1]) /\ blocks[v].dirty
  BY DEF DirtyAt, HoldsDirty
<1> HIDE DEF p, x, blocks
<1>6. w \in 0 .. p.assoc /\ \A v \in 1 .. p.assoc : Holds(blocks[v], M!tag(p, x), u[1]) <=> v = w
  BY <1>1, <1>3, FoundIs
<1>7. p.assoc \in Nat
  BY <1>1 DEF IsSize
<1> HIDE DEF w
<1> QED
  BY <1>4, <1>5, <1>6, <1>7

(* Which caches change; and no store is lost by it.                        *)
Only(h, g, some) == \A k \in M!Names \ some : SetsOf(g, k) = SetsOf(h, k)
Saves(h, g) ==
  /\ g.unsaved \subseteq h.unsaved
  /\ \A u \in g.unsaved :
       (\E k \in M!Names : DirtyAt(h, k, u)) => \E k \in M!Names : DirtyAt(g, k, u)
Under(n) == {k \in M!Names : Deep(k) < Deep(n) /\ End(k) = End(n)}

(* An access at cache n, and what n asks of the level behind it.           *)
Accesses(h, g, n, cmd, addr) ==
  /\ Whole(g) /\ Only(h, g, Under(n) \cup {n}) /\ Saves(h, g)
  /\ cmd = "Write" => \A u \in M!Contexts \X Nat :
                         SameBlock(hierarchy.caches[n], u[2], addr) => DirtyAt(g, n, u)
Asks(h, g, n, cmd, addr) ==
  /\ Whole(g) /\ Only(h, g, Under(n)) /\ Saves(h, g)
  /\ cmd = "Write" => \A u \in g.unsaved :
                         SameBlock(hierarchy.caches[n], u[2], addr) =>
                           \E k \in M!Names \ {n} : DirtyAt(g, k, u)

(* What is the same in sets and stores.                                    *)
LEMMA SameDirty ==
    ASSUME NEW h, NEW g, NEW n, SetsOf(g, n) = SetsOf(h, n)
    PROVE  \A u : DirtyAt(g, n, u) <=> DirtyAt(h, n, u)
  BY DEF DirtyAt

LEMMA SavesTwice ==
    ASSUME NEW h, NEW g, NEW f, Saves(h, g), Saves(g, f)
    PROVE  Saves(h, f)
  BY DEF Saves

LEMMA SameIsSaved ==
    ASSUME NEW h, NEW g, g.unsaved \subseteq h.unsaved, Only(h, g, {})
    PROVE  Saves(h, g)
<1>1. \A k \in M!Names : \A u : DirtyAt(g, k, u) <=> DirtyAt(h, k, u)
  BY SameDirty DEF Only
<1> QED
  BY <1>1 DEF Saves

(* A block of n that may be written back is one of data; its address.      *)
IsWrite(n, a) ==
  /\ End(n) = "memory"
  /\ \A x \in Nat : SameBlock(hierarchy.caches[n], x, a) =>
                       x \in a .. a + hierarchy.caches[n].bsize - 1

(* Of all that is written to memory, what another cache has later.         *)
LEMMA SavedAsks ==
    ASSUME IsHierarchy(hierarchy), NEW h, Whole(h), NEW n \in M!Names, NEW a \in Nat,
           NEW c, M!Contexts = {c}, IsWrite(n, a)
    PROVE  Asks(h, M!Saved(h, n, a, c), n, "Write", a)
<1> DEFINE g == M!Saved(h, n, a, c)
           written == {c} \X (a .. a + hierarchy.caches[n].bsize - 1)
           rest == {u \in h.unsaved : u \in written => \E m \in M!Names \ {n} : M!DirtyIn(h, m, u)}
<1>1. g = [h EXCEPT !.unsaved = rest]
  BY DEF M!Saved
<1>2. DOMAIN h = {"caches", "banks", "unsaved"}
  BY DEF Whole
<1> HIDE DEF g
<1>3. g.caches = h.caches /\ g.unsaved = rest /\ DOMAIN g = DOMAIN h
  BY <1>1, <1>2
<1>4. Whole(g)
  BY <1>2, <1>3 DEF Whole, IsLevel, SetsOf
<1>5. Only(h, g, {}) /\ Only(h, g, Under(n))
  BY <1>3 DEF Only, SetsOf
<1>6. Saves(h, g)
  BY <1>3, <1>5, SameIsSaved
<1>7. ASSUME NEW u \in g.unsaved, SameBlock(hierarchy.caches[n], u[2], a)
      PROVE  \E k \in M!Names \ {n} : DirtyAt(g, k, u)
  <2>1. u \in M!Contexts \X Nat
    BY <1>4 DEF Whole
  <2>2. u = <<c, u[2]>> /\ u[2] \in Nat
    BY <2>1
  <2>3. u \in written
    BY <1>7, <2>2 DEF IsWrite
  <2>4. PICK m \in M!Names \ {n} : M!DirtyIn(h, m, u)
    BY <1>3, <2>3
  <2>5. DirtyAt(h, m, u)
    BY <2>1, <2>4, DirtyIs
  <2>6. DirtyAt(g, m, u)
    BY <1>3, <2>5, SameDirty DEF SetsOf
  <2> QED
    BY <2>6
<1> QED
  BY <1>4, <1>5, <1>6, <1>7 DEF Asks, g

(* What asks nothing of the other caches.                                  *)
LEMMA NothingAsked ==
    ASSUME NEW h, NEW g, NEW n, NEW a, Whole(g), g.unsaved = h.unsaved, Only(h, g, {})
    PROVE  Asks(h, g, n, "Read", a)
<1>1. Only(h, g, Under(n))
  BY DEF Only
<1> QED
  BY <1>1, SameIsSaved DEF Asks

LEMMA MemoryAsks ==
    ASSUME IsHierarchy(hierarchy), NEW h, Whole(h), NEW n \in M!Names, Deep(n) = 1, NEW a \in Nat,
           NEW c, M!Contexts = {c}, NEW cmd \in {"Read", "Write"},
           NEW at, NEW random, cmd = "Write" => IsWrite(n, a)
    PROVE  Asks(h, M!memory_access(h, n, cmd, a, at, c, random).h, n, cmd, a)
<1> DEFINE g == M!memory_access(h, n, cmd, a, at, c, random).h
<1>1. hierarchy.caches[n].next = End(n) /\ End(n) \in {"memory", "translation"}
  BY Chains DEF After
<1>2. CASE cmd = "Write"
  <2>1. hierarchy.caches[n].next = "memory"
    BY <1>1, <1>2 DEF IsWrite
  <2>2. g = M!Saved(h, n, a, c)
    BY <1>2, <2>1 DEF M!memory_access
  <2> QED
    BY <1>2, <2>2, SavedAsks
<1>3. CASE cmd = "Read" /\ hierarchy.caches[n].next = "translation"
  <2>1. g = h
    BY <1>3 DEF M!memory_access
  <2>2. Only(h, h, {})
    BY DEF Only
  <2> QED
    BY <1>3, <2>1, <2>2, NothingAsked
<1>4. CASE cmd = "Read" /\ hierarchy.caches[n].next = "memory"
  <2>1. PICK b : g = [h EXCEPT !.banks = b]
    BY <1>4 DEF M!memory_access
  <2>2. DOMAIN h = {"caches", "banks", "unsaved"}
    BY DEF Whole
  <2> HIDE DEF g
  <2>3. g.caches = h.caches /\ g.unsaved = h.unsaved /\ DOMAIN g = DOMAIN h
    BY <2>1, <2>2
  <2>4. Whole(g) /\ Only(h, g, {})
    BY <2>3 DEF Whole, Only, IsLevel, SetsOf
  <2>5. Asks(h, g, n, "Read", a)
    BY <2>3, <2>4, NothingAsked
  <2> QED
    BY <1>4, <2>5 DEF g
<1> QED
  BY <1>1, <1>2, <1>3, <1>4

(* An access of the cache behind n.                                        *)
LEMMA BehindAsks ==
    ASSUME IsHierarchy(hierarchy), NEW h, NEW g, NEW n \in M!Names, Deep(n) # 1, NEW a \in Nat,
           NEW cmd, Accesses(h, g, After(n), cmd, a)
    PROVE  Asks(h, g, n, cmd, a)
<1> DEFINE m == After(n)
<1>1. /\ IsSize(hierarchy.caches[n]) /\ IsSize(hierarchy.caches[m])
      /\ hierarchy.caches[m].bsize % hierarchy.caches[n].bsize = 0
      /\ m \in M!Names /\ Deep(n) \in 1 .. 3 /\ Deep(m) = Deep(n) - 1 /\ End(m) = End(n)
  BY Chains
<1>2. Under(m) \cup {m} \subseteq Under(n) /\ m # n
  <2>1. \A k \in M!Names : Deep(k) \in 1 .. 3
    BY Chains
  <2> QED
    BY <1>1, <2>1 DEF Under
<1>3. Only(h, g, Under(n))
  BY <1>2 DEF Accesses, Only
<1>4. ASSUME cmd = "Write", NEW u \in g.unsaved, SameBlock(hierarchy.caches[n], u[2], a)
      PROVE  \E k \in M!Names \ {n} : DirtyAt(g, k, u)
  <2>1. u \in M!Contexts \X Nat
    BY DEF Accesses, Whole
  <2>2. SameBlock(hierarchy.caches[m], u[2], a)
    BY <1>1, <1>4, <2>1, BlockInBlock
  <2>3. DirtyAt(g, m, u)
    BY <1>4, <2>1, <2>2 DEF Accesses
  <2> QED
    BY <1>1, <1>2, <2>3
<1> QED
  BY <1>3, <1>4 DEF Asks, Accesses

(* A set is exchanged for another.                                         *)
Exchanged(h, g, n, s, blocks) ==
  LET p == hierarchy.caches[n]
  IN /\ Whole(g) /\ g.unsaved = h.unsaved /\ Only(h, g, {n})
     /\ SetsOf(g, n) = [SetsOf(h, n) EXCEPT ![s] = blocks]
     /\ \A k \in M!Names \ {n} : \A u : DirtyAt(g, k, u) <=> DirtyAt(h, k, u)
     /\ \A u \in M!Contexts \X Nat :
          M!set(p, u[2]) # s => (DirtyAt(g, n, u) <=> DirtyAt(h, n, u))
     /\ \A u \in M!Contexts \X Nat : M!set(p, u[2]) = s =>
          (DirtyAt(g, n, u) <=> HoldsDirty(p, blocks, M!tag(p, u[2]), u[1]))

LEMMA SetChanged ==
    ASSUME IsHierarchy(hierarchy), NEW h, Whole(h), NEW n \in M!Names,
           NEW s \in 0 .. hierarchy.caches[n].nsets - 1, NEW blocks,
           IsSet(hierarchy.caches[n], blocks),
           End(n) # "memory" => \A w \in 1 .. hierarchy.caches[n].assoc : ~blocks[w].dirty,
           NEW g, g = [h EXCEPT !.caches[n].sets[s] = blocks]
    PROVE  Exchanged(h, g, n, s, blocks)
<1> DEFINE p == hierarchy.caches[n]
<1>1. /\ DOMAIN h = {"caches", "banks", "unsaved"} /\ DOMAIN h.caches = M!Names
      /\ DOMAIN h.caches[n] = {"sets", "bus_free"}
      /\ DOMAIN SetsOf(h, n) = 0 .. p.nsets - 1
  BY DEF Whole, IsLevel
<1>2. /\ DOMAIN g = DOMAIN h /\ g.unsaved = h.unsaved
      /\ g.caches = [h.caches EXCEPT ![n].sets[s] = blocks]
  BY <1>1
<1>3. /\ DOMAIN g.caches = M!Names /\ \A k \in M!Names \ {n} : g.caches[k] = h.caches[k]
      /\ g.caches[n] = [h.caches[n] EXCEPT !.sets[s] = blocks]
  BY <1>1, <1>2
<1>4. /\ DOMAIN g.caches[n] = {"sets", "bus_free"}
      /\ SetsOf(g, n) = [SetsOf(h, n) EXCEPT ![s] = blocks]
  BY <1>1, <1>3 DEF SetsOf
<1>5. Only(h, g, {n})
  BY <1>3 DEF Only, SetsOf
<1>6. IsLevel(g, n)
  <2>1. DOMAIN SetsOf(g, n) = 0 .. p.nsets - 1 /\ SetsOf(g, n)[s] = blocks
        /\ \A t \in 0 .. p.nsets - 1 : t # s => SetsOf(g, n)[t] = SetsOf(h, n)[t]
    BY <1>1, <1>4
  <2>2. \A t \in 0 .. p.nsets - 1 :
          /\ IsSet(p, SetsOf(h, n)[t])
          /\ End(n) # "memory" => \A w \in 1 .. p.assoc : ~SetsOf(h, n)[t][w].dirty
    BY DEF Whole, IsLevel
  <2>3. ASSUME NEW t \in 0 .. p.nsets - 1
        PROVE  /\ IsSet(p, SetsOf(g, n)[t])
               /\ End(n) # "memory" => \A w \in 1 .. p.assoc : ~SetsOf(g, n)[t][w].dirty
    <3>1. CASE t = s
      BY <2>1, <3>1
    <3>2. CASE t # s
      BY <2>1, <2>2, <3>2
    <3> QED
      BY <3>1, <3>2
  <2> QED
    BY <1>4, <2>1, <2>3 DEF IsLevel
<1>7. Whole(g)
  <2>1. \A k \in M!Names \ {n} : IsLevel(g, k)
    BY <1>3 DEF Whole, IsLevel, SetsOf
  <2> QED
    BY <1>2, <1>3, <1>6, <2>1 DEF Whole
<1>8. \A k \in M!Names \ {n} : \A u : DirtyAt(g, k, u) <=> DirtyAt(h, k, u)
  BY <1>5, SameDirty DEF Only
<1>9. ASSUME NEW u \in M!Contexts \X Nat
      PROVE  /\ M!set(p, u[2]) # s => (DirtyAt(g, n, u) <=> DirtyAt(h, n, u))
             /\ M!set(p, u[2]) = s =>
                  (DirtyAt(g, n, u) <=> HoldsDirty(p, blocks, M!tag(p, u[2]), u[1]))
  <2> DEFINE t == M!set(p, u[2])
  <2>0. t \in 0 .. p.nsets - 1
    <3>1. IsSize(p) /\ u[2] \in Nat
      BY Chains
    <3> QED
      BY <3>1, TagAndSet
  <2> HIDE DEF t
  <2>1. t # s => SetsOf(g, n)[t] = SetsOf(h, n)[t]
    BY <1>1, <1>4, <2>0
  <2>2. t = s => SetsOf(g, n)[t] = blocks
    BY <1>1, <1>4
  <2> QED
    BY <2>1, <2>2 DEF DirtyAt, t
<1>10. \A u \in M!Contexts \X Nat : M!set(p, u[2]) # s => (DirtyAt(g, n, u) <=> DirtyAt(h, n, u))
  BY <1>9
<1>11. \A u \in M!Contexts \X Nat : M!set(p, u[2]) = s =>
         (DirtyAt(g, n, u) <=> HoldsDirty(p, blocks, M!tag(p, u[2]), u[1]))
  BY <1>9
<1> HIDE DEF p
<1>12. Whole(g) /\ g.unsaved = h.unsaved /\ Only(h, g, {n})
       /\ SetsOf(g, n) = [SetsOf(h, n) EXCEPT ![s] = blocks]
  BY <1>2, <1>4, <1>5, <1>7
<1> QED
  BY <1>8, <1>10, <1>11, <1>12, Zenon DEF Exchanged, p

-----------------------------------------------------------------------------
(* An access of one cache *)

(* The same blocks in the same ways, at least those dirty that were.       *)
Alike(p, blocks, others) ==
  /\ others = [w \in 1 .. p.assoc |-> others[w]]
  /\ \A w \in 1 .. p.assoc : /\ DOMAIN others[w] = BlockFields
                             /\ others[w].tag = blocks[w].tag
                             /\ others[w].context_id = blocks[w].context_id
                             /\ others[w].valid = blocks[w].valid
                             /\ blocks[w].dirty => others[w].dirty

LEMMA AlikeSets ==
    ASSUME NEW p, IsSize(p), NEW blocks, IsSet(p, blocks), NEW others, Alike(p, blocks, others)
    PROVE  /\ IsSet(p, others)
           /\ \A t, c : HoldsDirty(p, blocks, t, c) => HoldsDirty(p, others, t, c)
<1>1. DOMAIN blocks = 1 .. p.assoc /\ DOMAIN others = 1 .. p.assoc
  BY DEF IsSet, Alike
<1>2. \A w \in 1 .. p.assoc : /\ DOMAIN others[w] = BlockFields
                              /\ others[w].tag = blocks[w].tag
                              /\ others[w].context_id = blocks[w].context_id
                              /\ others[w].valid = blocks[w].valid
                              /\ blocks[w].dirty => others[w].dirty
  BY DEF Alike
<1>3. M!OneCopy(others)
  <2>1. M!OneCopy(blocks)
    BY DEF IsSet
  <2> QED
    BY <1>1, <1>2, <2>1 DEF M!OneCopy
<1>4. \A w \in 1 .. p.assoc :
        others[w].valid => others[w].tag \in Nat /\ others[w].context_id \in M!Contexts
  BY <1>2 DEF IsSet
<1>5. others = [w \in 1 .. p.assoc |-> others[w]]
  BY DEF Alike
<1>6. \A t, c : HoldsDirty(p, blocks, t, c) => HoldsDirty(p, others, t, c)
  BY <1>2 DEF HoldsDirty, Holds
<1> QED
  BY <1>2, <1>3, <1>4, <1>5, <1>6, Zenon DEF IsSet

(* A set of n is exchanged for one that has all of its dirty blocks and,   *)
(* if this is a write, the one written.                                    *)
LEMMA SetAccessed ==
    ASSUME IsHierarchy(hierarchy), NEW h, Whole(h), NEW n \in M!Names, NEW x \in Nat,
           NEW c, M!Contexts = {c}, NEW cmd, NEW blocks,
           IsSet(hierarchy.caches[n], blocks),
           End(n) # "memory" => \A w \in 1 .. hierarchy.caches[n].assoc : ~blocks[w].dirty,
           NEW s, s = M!set(hierarchy.caches[n], x),
           \A t, d : HoldsDirty(hierarchy.caches[n], SetsOf(h, n)[s], t, d) =>
                       HoldsDirty(hierarchy.caches[n], blocks, t, d),
           cmd = "Write" => HoldsDirty(hierarchy.caches[n], blocks, M!tag(hierarchy.caches[n], x), c),
           NEW g, g = [h EXCEPT !.caches[n].sets[s] = blocks]
    PROVE  Accesses(h, g, n, cmd, x)
<1> DEFINE p == hierarchy.caches[n]
<1>1. IsSize(p) /\ s \in 0 .. p.nsets - 1
  BY Chains, TagAndSet
<1>2. /\ Whole(g) /\ g.unsaved = h.unsaved /\ Only(h, g, {n})
      /\ \A k \in M!Names \ {n} : \A u : DirtyAt(g, k, u) <=> DirtyAt(h, k, u)
      /\ \A u \in M!Contexts \X Nat : M!set(p, u[2]) # s => (DirtyAt(g, n, u) <=> DirtyAt(h, n, u))
      /\ \A u \in M!Contexts \X Nat : M!set(p, u[2]) = s =>
           (DirtyAt(g, n, u) <=> HoldsDirty(p, blocks, M!tag(p, u[2]), u[1]))
  <2>1. Exchanged(h, g, n, s, blocks)
    BY <1>1, SetChanged
  <2> QED
    BY <2>1 DEF Exchanged
<1>3. ASSUME NEW k \in M!Names, NEW u \in M!Contexts \X Nat, DirtyAt(h, k, u) PROVE DirtyAt(g, k, u)
  <2>1. CASE k # n
    BY <1>2, <1>3, <2>1
  <2>2. CASE k = n /\ M!set(p, u[2]) # s
    BY <1>2, <1>3, <2>2
  <2>3. CASE k = n /\ M!set(p, u[2]) = s
    <3>1. HoldsDirty(p, SetsOf(h, n)[s], M!tag(p, u[2]), u[1])
      BY <1>3, <2>3 DEF DirtyAt
    <3> QED
      BY <1>2, <2>3, <3>1
  <2> QED
    BY <2>1, <2>2, <2>3
<1>4. Saves(h, g)
  BY <1>2, <1>3 DEF Saves, Whole
<1>5. ASSUME cmd = "Write", NEW u \in M!Contexts \X Nat, SameBlock(p, u[2], x)
      PROVE  DirtyAt(g, n, u)
  <2>1. u[1] = c /\ M!set(p, u[2]) = s /\ M!tag(p, u[2]) = M!tag(p, x)
    BY <1>5 DEF SameBlock
  <2> QED
    BY <1>2, <1>5, <2>1
<1>6. Only(h, g, Under(n) \cup {n})
  BY <1>2 DEF Only
<1> QED
  BY <1>2, <1>4, <1>5, <1>6 DEF Accesses

LEMMA HitAccess ==
    ASSUME IsHierarchy(hierarchy), NEW h, Whole(h), NEW n \in M!Names, NEW x \in Nat,
           NEW c, M!Contexts = {c}, NEW cmd, cmd = "Write" => End(n) = "memory",
           NEW p, p = hierarchy.caches[n], NEW s, s = M!set(p, x),
           NEW blocks, blocks = h.caches[n].sets[s],
           NEW w, w = M!Found(p, blocks, x, c), w # 0
    PROVE  Accesses(h, [h EXCEPT !.caches[n].sets[s] = M!Hit(p, blocks, w, cmd)], n, cmd, x)
<1> DEFINE used == [blocks EXCEPT ![w].dirty = @ \/ cmd = "Write"]
           after == M!Hit(p, blocks, w, cmd)
<1>1. IsSize(p) /\ s \in 0 .. p.nsets - 1
  BY Chains, TagAndSet
<1>2. /\ IsSet(p, blocks) /\ blocks = SetsOf(h, n)[s]
      /\ End(n) # "memory" => \A v \in 1 .. p.assoc : ~blocks[v].dirty
  BY <1>1 DEF Whole, IsLevel, SetsOf
<1>3. w \in 1 .. p.assoc /\ Holds(blocks[w], M!tag(p, x), c)
  BY <1>1, <1>2, FoundIs
<1>4. /\ used = [v \in 1 .. p.assoc |-> used[v]]
      /\ \A v \in 1 .. p.assoc :
           /\ DOMAIN used[v] = BlockFields /\ used[v].tag = blocks[v].tag
           /\ used[v].context_id = blocks[v].context_id /\ used[v].valid = blocks[v].valid
           /\ blocks[v].dirty => used[v].dirty
           /\ used[v].dirty => blocks[v].dirty \/ cmd = "Write"
      /\ cmd = "Write" => used[w].dirty
  <2>1. DOMAIN blocks = 1 .. p.assoc /\ \A v \in 1 .. p.assoc : DOMAIN blocks[v] = BlockFields
    BY <1>2 DEF IsSet
  <2>2. used = [v \in 1 .. p.assoc |->
                  IF v = w THEN [blocks[v] EXCEPT !.dirty = blocks[v].dirty \/ cmd = "Write"]
                  ELSE blocks[v]]
    BY <1>3, <2>1
  <2> HIDE DEF used
  <2>3. used = [v \in 1 .. p.assoc |-> used[v]]
    BY <2>2
  <2>4. ASSUME NEW v \in 1 .. p.assoc
        PROVE  /\ DOMAIN used[v] = BlockFields /\ used[v].tag = blocks[v].tag
               /\ used[v].context_id = blocks[v].context_id /\ used[v].valid = blocks[v].valid
               /\ blocks[v].dirty => used[v].dirty
               /\ used[v].dirty => blocks[v].dirty \/ cmd = "Write"
               /\ v = w /\ cmd = "Write" => used[v].dirty
    BY <2>1, <2>2 DEF BlockFields
  <2> QED
    BY <1>3, <2>3, <2>4
<1>5. Alike(p, blocks, used)
  <2> HIDE DEF used
  <2> QED
    BY <1>4 DEF Alike
<1>6. /\ IsSet(p, used)
      /\ \A t, d : HoldsDirty(p, blocks, t, d) => HoldsDirty(p, used, t, d)
  <2> HIDE DEF used
  <2> QED
    BY <1>1, <1>2, <1>5, AlikeSets
<1>7. cmd = "Write" => HoldsDirty(p, used, M!tag(p, x), c)
  <2> HIDE DEF used
  <2>1. Holds(used[w], M!tag(p, x), c)
    BY <1>3, <1>4, Zenon DEF Holds
  <2> QED
    BY <1>3, <1>4, <2>1, Zenon DEF HoldsDirty
<1>8. \/ after = used
      \/ after = M!ToHead(used, w)
  BY DEF M!Hit
<1>9. End(n) # "memory" => \A v \in 1 .. p.assoc : ~used[v].dirty
  <2> HIDE DEF used
  <2> QED
    BY <1>2, <1>4
<1> HIDE DEF used, after
<1>10. /\ IsSet(p, after)
       /\ \A t, d : HoldsDirty(p, used, t, d) => HoldsDirty(p, after, t, d)
       /\ \A v \in 1 .. p.assoc : \E i \in 1 .. p.assoc : after[v] = used[i]
  <2>1. CASE after = used
    BY <1>6, <2>1
  <2>2. CASE after = M!ToHead(used, w)
    <3>1. Rearranged(p, used, after)
      BY <1>1, <1>3, <1>6, <2>2, Permuted
    <3> QED
      BY <3>1 DEF Rearranged
  <2> QED
    BY <1>8, <2>1, <2>2
<1>11. End(n) # "memory" => \A v \in 1 .. p.assoc : ~after[v].dirty
  BY <1>9, <1>10
<1>12. \A t, d : HoldsDirty(p, SetsOf(h, n)[s], t, d) => HoldsDirty(p, after, t, d)
  BY <1>2, <1>6, <1>10
<1>13. cmd = "Write" => HoldsDirty(p, after, M!tag(p, x), c)
  BY <1>7, <1>10
<1> DEFINE g == [h EXCEPT !.caches[n].sets[s] = after]
<1>14. Accesses(h, g, n, cmd, x)
  BY <1>10, <1>11, <1>12, <1>13, SetAccessed
<1> QED
  BY <1>14 DEF after

(* The bus of n is taken.                                                  *)
LEMMA BookedSame ==
    ASSUME NEW h, Whole(h), NEW n \in M!Names, NEW t
    PROVE  /\ Whole(M!Booked(h, n, t)) /\ M!Booked(h, n, t).unsaved = h.unsaved
           /\ Only(h, M!Booked(h, n, t), {})
<1> DEFINE g == M!Booked(h, n, t)
<1>1. PICK b : g = [h EXCEPT !.caches[n].bus_free = b]
  BY DEF M!Booked
<1> HIDE DEF g
<1>2. /\ DOMAIN h = {"caches", "banks", "unsaved"} /\ DOMAIN h.caches = M!Names
      /\ DOMAIN h.caches[n] = {"sets", "bus_free"}
  BY DEF Whole, IsLevel
<1>3. /\ DOMAIN g = DOMAIN h /\ g.unsaved = h.unsaved
      /\ g.caches = [h.caches EXCEPT ![n].bus_free = b]
  BY <1>1, <1>2
<1>4. /\ DOMAIN g.caches = M!Names /\ \A k \in M!Names \ {n} : g.caches[k] = h.caches[k]
      /\ g.caches[n] = [h.caches[n] EXCEPT !.bus_free = b]
  BY <1>2, <1>3
<1>5. DOMAIN g.caches[n] = {"sets", "bus_free"} /\ g.caches[n].sets = h.caches[n].sets
  BY <1>2, <1>4
<1>6. Only(h, g, {})
  BY <1>4, <1>5 DEF Only, SetsOf
<1>7. \A k \in M!Names : IsLevel(g, k)
  BY <1>4, <1>5 DEF Whole, IsLevel, SetsOf
<1>8. Whole(g)
  BY <1>2, <1>3, <1>4, <1>7 DEF Whole
<1> QED
  BY <1>3, <1>6, <1>8 DEF g

LEMMA AskedFrom ==
    ASSUME NEW h, NEW g, NEW f, NEW n, NEW cmd, NEW a,
           g.unsaved = h.unsaved, Only(h, g, {}), Asks(g, f, n, cmd, a)
    PROVE  Asks(h, f, n, cmd, a)
<1>1. Saves(h, g)
  BY SameIsSaved
<1>2. Saves(h, f)
  BY <1>1, SavesTwice DEF Asks
<1>3. Only(h, f, Under(n))
  BY DEF Only, Asks
<1> QED
  BY <1>2, <1>3 DEF Asks

(* What the block replaced held is behind n or in memory; then it has the  *)
(* new tag.                                                                *)
Rescued(h, h1, n, s, way) ==
  LET p == hierarchy.caches[n]
      old == SetsOf(h, n)[s][way]
  IN /\ Whole(h1) /\ Only(h, h1, Under(n)) /\ Saves(h, h1)
     /\ old.valid /\ old.dirty =>
          \A u \in h1.unsaved : M!set(p, u[2]) = s /\ M!tag(p, u[2]) = old.tag =>
                                  \E k \in M!Names \ {n} : DirtyAt(h1, k, u)
Waiting(h, g, n, s, way, t, c) ==
  /\ Whole(g) /\ Only(h, g, Under(n) \cup {n}) /\ Saves(h, g)
  /\ Holds(SetsOf(g, n)[s][way], t, c) /\ ~SetsOf(g, n)[s][way].dirty

(* A miss, until the fill is asked for.                                    *)
LEMMA MissFirst ==
    ASSUME IsHierarchy(hierarchy), NEW h, Whole(h), NEW n \in M!Names, NEW x \in Nat,
           NEW c, M!Contexts = {c}, NEW p, p = hierarchy.caches[n], NEW s, s = M!set(p, x),
           NEW blocks, blocks = SetsOf(h, n)[s], M!Found(p, blocks, x, c) = 0,
           NEW way \in 1 .. p.assoc, NEW h1, Rescued(h, h1, n, s, way),
           NEW t, NEW g, g = M!Booked(M!Retagged(h1, n, x, c, way), n, t)
    PROVE  Waiting(h, g, n, s, way, M!tag(p, x), c)
<1> DEFINE new == [blocks[way] EXCEPT !.tag = M!tag(p, x), !.context_id = c,
                                      !.valid = TRUE, !.dirty = FALSE]
           others == [blocks EXCEPT ![way] = new]
           h2 == [h1 EXCEPT !.caches[n].sets[s] = others]
<1>0. /\ Whole(h1) /\ Only(h, h1, Under(n)) /\ Saves(h, h1)
      /\ blocks[way].valid /\ blocks[way].dirty =>
           \A u \in h1.unsaved : M!set(p, u[2]) = s /\ M!tag(p, u[2]) = blocks[way].tag =>
                                   \E k \in M!Names \ {n} : DirtyAt(h1, k, u)
  BY DEF Rescued
<1>1. IsSize(p) /\ s \in 0 .. p.nsets - 1 /\ M!tag(p, x) \in Nat
  BY Chains, TagAndSet
<1>2. SetsOf(h1, n) = SetsOf(h, n)
  <2>1. n \notin Under(n)
    <3>1. Deep(n) \in 1 .. 3
      BY Chains
    <3> QED
      BY <3>1 DEF Under
  <2> QED
    BY <1>0, <2>1 DEF Only
<1>3. /\ IsSet(p, blocks) /\ blocks = SetsOf(h1, n)[s]
      /\ End(n) # "memory" => \A w \in 1 .. p.assoc : ~blocks[w].dirty
  BY <1>0, <1>1, <1>2 DEF Whole, IsLevel
<1>4. /\ DOMAIN blocks = 1 .. p.assoc
      /\ \A w \in 1 .. p.assoc : DOMAIN blocks[w] = BlockFields
      /\ \A w \in 1 .. p.assoc :
           blocks[w].valid => blocks[w].tag \in Nat /\ blocks[w].context_id \in M!Contexts
  BY <1>3 DEF IsSet
<1>5. /\ DOMAIN new = BlockFields /\ new.tag = M!tag(p, x) /\ new.context_id = c
      /\ new.valid = TRUE /\ new.dirty = FALSE
  BY <1>4 DEF BlockFields
<1>6. M!Retagged(h1, n, x, c, way) = h2
  BY <1>3 DEF M!Retagged, SetsOf
<1> HIDE DEF new
<1>ways. others = [w \in 1 .. p.assoc |-> others[w]]
  BY <1>4
<1>7. /\ others[way] = new
      /\ \A w \in 1 .. p.assoc : w # way => others[w] = blocks[w]
  BY <1>4
<1> HIDE DEF others
<1>8. \A w \in 1 .. p.assoc : ~Holds(blocks[w], M!tag(p, x), c)
  <2>1. \A w \in 1 .. p.assoc :
          Holds(blocks[w], M!tag(p, x), c) <=> w = M!Found(p, blocks, x, c)
    BY <1>1, <1>3, FoundIs
  <2>2. \A w \in 1 .. p.assoc : w # 0
    BY <1>1 DEF IsSize
  <2> QED
    BY <2>1, <2>2
<1>9. IsSet(p, others)
  <2>1. ASSUME NEW v \in 1 .. p.assoc, NEW w \in 1 .. p.assoc, v # w,
               others[v].valid, others[w].valid
        PROVE  <<others[v].tag, others[v].context_id>> # <<others[w].tag, others[w].context_id>>
    <3>1. CASE v # way /\ w # way
      <4>1. M!OneCopy(blocks)
        BY <1>3 DEF IsSet
      <4>2. others[v] = blocks[v] /\ others[w] = blocks[w]
        BY <1>7, <3>1
      <4>3. v \in DOMAIN blocks /\ w \in DOMAIN blocks
        BY <1>4
      <4>4. <<blocks[v].tag, blocks[v].context_id>> # <<blocks[w].tag, blocks[w].context_id>>
        BY <2>1, <4>1, <4>2, <4>3, Zenon DEF M!OneCopy
      <4> QED
        BY <4>2, <4>4
    <3>2. CASE v = way
      BY <1>5, <1>7, <1>8, <2>1, <3>2 DEF Holds
    <3>3. CASE w = way
      BY <1>5, <1>7, <1>8, <2>1, <3>3 DEF Holds
    <3> QED
      BY <3>1, <3>2, <3>3
  <2>2. DOMAIN others = 1 .. p.assoc
    BY <1>ways
  <2>3. M!OneCopy(others)
    BY <2>1, <2>2 DEF M!OneCopy
  <2>4. \A w \in 1 .. p.assoc :
          /\ DOMAIN others[w] = BlockFields
          /\ others[w].valid => others[w].tag \in Nat /\ others[w].context_id \in M!Contexts
    BY <1>1, <1>4, <1>5, <1>7
  <2> QED
    BY <1>ways, <2>3, <2>4, Zenon DEF IsSet
<1>10. End(n) # "memory" => \A w \in 1 .. p.assoc : ~others[w].dirty
  BY <1>3, <1>5, <1>7
<1>11. Exchanged(h1, h2, n, s, others)
  BY <1>0, <1>1, <1>9, <1>10, SetChanged
<1> HIDE DEF h2
<1>12. /\ Whole(h2) /\ h2.unsaved = h1.unsaved /\ Only(h1, h2, {n})
       /\ SetsOf(h2, n) = [SetsOf(h1, n) EXCEPT ![s] = others]
       /\ \A k \in M!Names \ {n} : \A u : DirtyAt(h2, k, u) <=> DirtyAt(h1, k, u)
       /\ \A u \in M!Contexts \X Nat :
            M!set(p, u[2]) # s => (DirtyAt(h2, n, u) <=> DirtyAt(h1, n, u))
       /\ \A u \in M!Contexts \X Nat : M!set(p, u[2]) = s =>
            (DirtyAt(h2, n, u) <=> HoldsDirty(p, others, M!tag(p, u[2]), u[1]))
  BY <1>11 DEF Exchanged
<1>13. ASSUME NEW u \in h2.unsaved, NEW k \in M!Names, DirtyAt(h1, k, u)
       PROVE  \E m \in M!Names : DirtyAt(h2, m, u)
  <2>1. u \in M!Contexts \X Nat /\ u \in h1.unsaved
    BY <1>12 DEF Whole
  <2>2. CASE k # n
    BY <1>12, <1>13, <2>2
  <2>3. CASE k = n /\ M!set(p, u[2]) # s
    BY <1>12, <1>13, <2>1, <2>3
  <2>4. CASE k = n /\ M!set(p, u[2]) = s
    <3>1. PICK w \in 1 .. p.assoc : Holds(blocks[w], M!tag(p, u[2]), u[1]) /\ blocks[w].dirty
      BY <1>3, <1>13, <2>4 DEF DirtyAt, HoldsDirty
    <3>2. CASE w = way
      <4>1. blocks[way].valid /\ blocks[way].dirty /\ M!tag(p, u[2]) = blocks[way].tag
        BY <3>1, <3>2 DEF Holds
      <4>2. PICK m \in M!Names \ {n} : DirtyAt(h1, m, u)
        BY <1>0, <2>1, <2>4, <4>1
      <4> QED
        BY <1>12, <4>2
    <3>3. CASE w # way
      <4>1. HoldsDirty(p, others, M!tag(p, u[2]), u[1])
        BY <1>7, <3>1, <3>3 DEF HoldsDirty
      <4> QED
        BY <1>12, <2>1, <2>4, <4>1
    <3> QED
      BY <3>2, <3>3
  <2> QED
    BY <2>2, <2>3, <2>4
<1>14. Saves(h, h2)
  <2>1. Saves(h1, h2)
    BY <1>12, <1>13 DEF Saves
  <2> QED
    BY <1>0, <2>1, SavesTwice
<1>15. /\ Whole(g) /\ g.unsaved = h2.unsaved /\ Only(h2, g, {})
  BY <1>6, <1>12, BookedSame
<1>16. Saves(h, g)
  BY <1>14, <1>15, SameIsSaved, SavesTwice
<1>17. Only(h, g, Under(n) \cup {n})
  BY <1>0, <1>12, <1>15 DEF Only
<1>18. SetsOf(g, n)[s] = others
  <2>1. DOMAIN SetsOf(h1, n) = 0 .. p.nsets - 1
    BY <1>0 DEF Whole, IsLevel
  <2>2. SetsOf(g, n) = SetsOf(h2, n)
    BY <1>15 DEF Only
  <2> QED
    BY <1>1, <1>12, <2>1, <2>2
<1>19. /\ Holds(SetsOf(g, n)[s][way], M!tag(p, x), c)
       /\ ~SetsOf(g, n)[s][way].dirty
  BY <1>5, <1>7, <1>18 DEF Holds
<1> QED
  BY <1>15, <1>16, <1>17, <1>19 DEF Waiting

(* The fill has come.                                                      *)
LEMMA MissLast ==
    ASSUME IsHierarchy(hierarchy), NEW h, NEW n \in M!Names, NEW x \in Nat,
           NEW c, M!Contexts = {c}, NEW cmd, cmd = "Write" => End(n) = "memory",
           NEW p, p = hierarchy.caches[n], NEW s, s = M!set(p, x), NEW way \in 1 .. p.assoc,
           NEW g, Waiting(h, g, n, s, way, M!tag(p, x), c),
           NEW fill, NEW a, Asks(g, fill.h, n, "Read", a), NEW ready
    PROVE  Accesses(h, M!Installed(fill, n, way, s, cmd, ready), n, cmd, x)
<1> DEFINE f == fill.h
           blocks == SetsOf(f, n)[s]
           filled == [blocks EXCEPT ![way].dirty = (cmd = "Write"), ![way].ready = ready]
           after == IF p.policy = "r" THEN filled ELSE M!ToHead(filled, way)
           i == [f EXCEPT !.caches[n].sets[s] = after]
<1>0. /\ Whole(g) /\ Only(h, g, Under(n) \cup {n}) /\ Saves(h, g)
      /\ Holds(SetsOf(g, n)[s][way], M!tag(p, x), c) /\ ~SetsOf(g, n)[s][way].dirty
  BY DEF Waiting
<1>1. IsSize(p) /\ s \in 0 .. p.nsets - 1
  BY Chains, TagAndSet
<1>2. /\ Whole(f) /\ SetsOf(f, n) = SetsOf(g, n) /\ Only(g, f, Under(n)) /\ Saves(g, f)
  <2>1. Deep(n) \in 1 .. 3
    BY Chains
  <2> QED
    BY <2>1 DEF Asks, Only, Under
<1>3. /\ IsSet(p, blocks) /\ Holds(blocks[way], M!tag(p, x), c) /\ ~blocks[way].dirty
      /\ End(n) # "memory" => \A w \in 1 .. p.assoc : ~blocks[w].dirty
  BY <1>0, <1>1, <1>2 DEF Whole, IsLevel
<1>4. M!Installed(fill, n, way, s, cmd, ready) = i
  BY DEF M!Installed, SetsOf
<1> HIDE DEF blocks, f
<1>5. /\ filled = [w \in 1 .. p.assoc |-> filled[w]]
      /\ \A w \in 1 .. p.assoc :
           /\ DOMAIN filled[w] = BlockFields /\ filled[w].tag = blocks[w].tag
           /\ filled[w].context_id = blocks[w].context_id /\ filled[w].valid = blocks[w].valid
           /\ w # way => filled[w].dirty = blocks[w].dirty
      /\ filled[way].dirty = (cmd = "Write")
  <2>1. DOMAIN blocks = 1 .. p.assoc /\ \A v \in 1 .. p.assoc : DOMAIN blocks[v] = BlockFields
    BY <1>3 DEF IsSet
  <2>2. filled = [w \in 1 .. p.assoc |->
                    IF w = way THEN [blocks[w] EXCEPT !.dirty = (cmd = "Write"), !.ready = ready]
                    ELSE blocks[w]]
    BY <2>1
  <2> HIDE DEF filled
  <2>3. filled = [w \in 1 .. p.assoc |-> filled[w]]
    BY <2>2
  <2>4. ASSUME NEW w \in 1 .. p.assoc
        PROVE  /\ DOMAIN filled[w] = BlockFields /\ filled[w].tag = blocks[w].tag
               /\ filled[w].context_id = blocks[w].context_id /\ filled[w].valid = blocks[w].valid
               /\ w # way => filled[w].dirty = blocks[w].dirty
               /\ w = way => filled[w].dirty = (cmd = "Write")
    BY <2>1, <2>2 DEF BlockFields
  <2> QED
    BY <2>3, <2>4
<1> HIDE DEF filled
<1>6. Alike(p, blocks, filled)
  BY <1>3, <1>5 DEF Alike
<1>7. IsSet(p, filled) /\ \A t, d : HoldsDirty(p, blocks, t, d) => HoldsDirty(p, filled, t, d)
  BY <1>1, <1>3, <1>6, AlikeSets
<1>8. cmd = "Write" => HoldsDirty(p, filled, M!tag(p, x), c)
  <2>1. Holds(filled[way], M!tag(p, x), c)
    BY <1>3, <1>5, Zenon DEF Holds
  <2> QED
    BY <1>5, <2>1, Zenon DEF HoldsDirty
<1>9. End(n) # "memory" => \A w \in 1 .. p.assoc : ~filled[w].dirty
  BY <1>3, <1>5
<1> HIDE DEF after
<1>10. /\ IsSet(p, after)
       /\ \A t, d : HoldsDirty(p, filled, t, d) => HoldsDirty(p, after, t, d)
       /\ \A w \in 1 .. p.assoc : \E v \in 1 .. p.assoc : after[w] = filled[v]
  <2>1. CASE after = filled
    BY <1>7, <2>1
  <2>2. CASE after = M!ToHead(filled, way)
    <3>1. Rearranged(p, filled, after)
      BY <1>1, <1>7, <2>2, Permuted
    <3> QED
      BY <3>1 DEF Rearranged
  <2> QED
    BY <2>1, <2>2 DEF after
<1>11. End(n) # "memory" => \A w \in 1 .. p.assoc : ~after[w].dirty
  BY <1>9, <1>10
<1>12. \A t, d : HoldsDirty(p, SetsOf(f, n)[s], t, d) => HoldsDirty(p, after, t, d)
  BY <1>7, <1>10 DEF blocks
<1>13. cmd = "Write" => HoldsDirty(p, after, M!tag(p, x), c)
  BY <1>8, <1>10
<1>14. Accesses(f, i, n, cmd, x)
  BY <1>2, <1>10, <1>11, <1>12, <1>13, SetAccessed
<1> HIDE DEF i
<1>15. Only(h, i, Under(n) \cup {n})
  BY <1>0, <1>2, <1>14 DEF Accesses, Only
<1>16. Saves(h, i)
  BY <1>0, <1>2, <1>14, SavesTwice DEF Accesses
<1> QED
  BY <1>4, <1>14, <1>15, <1>16 DEF Accesses

-----------------------------------------------------------------------------
(* An access at each of the three levels *)

(* What accessed asks: of the dirty block replaced, and for the fill.      *)
LEMMA MissAddress ==
    ASSUME IsHierarchy(hierarchy), NEW n \in M!Names, NEW x \in Nat
    PROVE  M!CACHE_BADDR(hierarchy.caches[n], x) \in Nat
<1> DEFINE p == hierarchy.caches[n]
           q == x \div p.bsize
<1>1. IsSize(p) /\ q \in Nat
  BY Chains, TagAndSet
<1>2. p.bsize \in Nat
  BY <1>1 DEF IsSize
<1> QED
  BY <1>1, <1>2, SMT DEF M!CACHE_BADDR

LEMMA WriteAddress ==
    ASSUME IsHierarchy(hierarchy), NEW n \in M!Names, End(n) = "memory", NEW t \in Nat,
           NEW s \in 0 .. hierarchy.caches[n].nsets - 1,
           NEW a, a = M!CACHE_MK_BADDR(hierarchy.caches[n], t, s)
    PROVE  /\ a \in Nat /\ IsWrite(n, a)
           /\ \A x \in Nat : M!set(hierarchy.caches[n], x) = s /\ M!tag(hierarchy.caches[n], x) = t =>
                SameBlock(hierarchy.caches[n], x, a)
<1>1. IsSize(hierarchy.caches[n])
  BY Chains
<1>2. /\ a \in Nat /\ M!tag(hierarchy.caches[n], a) = t /\ M!set(hierarchy.caches[n], a) = s
      /\ \A x \in Nat : M!tag(hierarchy.caches[n], x) = t /\ M!set(hierarchy.caches[n], x) = s =>
           x \in a .. a + hierarchy.caches[n].bsize - 1
  BY <1>1, AddressOf
<1> QED
  BY <1>2 DEF IsWrite, SameBlock

(* Whoever answers what n asks, by g of a state, command and address.      *)
Answered(h, g, n, cmd, a) ==
  Whole(h) /\ a \in Nat /\ cmd \in {"Read", "Write"} /\ (cmd = "Write" => IsWrite(n, a)) =>
    Asks(h, g, n, cmd, a)

(* The block replaced is written back, if it is dirty.                     *)
LEMMA VictimSaved ==
    ASSUME IsHierarchy(hierarchy), NEW h, Whole(h), NEW n \in M!Names, NEW x \in Nat,
           NEW p, p = hierarchy.caches[n], NEW s, s = M!set(p, x),
           NEW blocks, blocks = SetsOf(h, n)[s], NEW way \in 1 .. p.assoc, NEW h1,
           \/ h1 = h /\ ~(blocks[way].valid /\ blocks[way].dirty)
           \/ \E t : Answered(M!Booked(h, n, t), h1, n, "Write",
                              M!CACHE_MK_BADDR(p, blocks[way].tag, s))
              /\ blocks[way].valid /\ blocks[way].dirty
    PROVE  Rescued(h, h1, n, s, way)
<1>1. CASE h1 = h /\ ~(blocks[way].valid /\ blocks[way].dirty)
  BY <1>1 DEF Only, Saves, Rescued
<1>2. CASE blocks[way].valid /\ blocks[way].dirty
  <2>1. PICK t : Answered(M!Booked(h, n, t), h1, n, "Write",
                          M!CACHE_MK_BADDR(p, blocks[way].tag, s))
    BY <1>2
  <2> DEFINE b == M!Booked(h, n, t)
             a == M!CACHE_MK_BADDR(p, blocks[way].tag, s)
  <2>2. IsSize(p) /\ s \in 0 .. p.nsets - 1
    BY Chains, TagAndSet
  <2>3. /\ IsSet(p, blocks)
        /\ End(n) # "memory" => \A w \in 1 .. p.assoc : ~blocks[w].dirty
    BY <2>2 DEF Whole, IsLevel
  <2>4. End(n) = "memory" /\ blocks[way].tag \in Nat
    BY <1>2, <2>3 DEF IsSet
  <2>5. /\ a \in Nat /\ IsWrite(n, a)
        /\ \A y \in Nat : M!set(p, y) = s /\ M!tag(p, y) = blocks[way].tag => SameBlock(p, y, a)
    BY <2>2, <2>4, WriteAddress
  <2>6. Whole(b) /\ b.unsaved = h.unsaved /\ Only(h, b, {})
    BY BookedSame
  <2> HIDE DEF a, b
  <2>7. Asks(b, h1, n, "Write", a)
    BY <2>1, <2>5, <2>6 DEF Answered, a, b
  <2>8. Asks(h, h1, n, "Write", a)
    BY <2>6, <2>7, AskedFrom
  <2>9. \A u \in h1.unsaved : u[2] \in Nat
    BY <2>8 DEF Asks, Whole
  <2> QED
    BY <2>5, <2>8, <2>9 DEF Asks, Rescued
<1> QED
  BY <1>1, <1>2

(* A miss, given what is behind n.                                         *)
LEMMA MissAccess ==
    ASSUME IsHierarchy(hierarchy), NEW h, Whole(h), NEW n \in M!Names, NEW x \in Nat,
           NEW c, M!Contexts = {c}, NEW cmd, cmd = "Write" => End(n) = "memory",
           NEW p, p = hierarchy.caches[n], NEW s, s = M!set(p, x),
           NEW blocks, blocks = SetsOf(h, n)[s], M!Found(p, blocks, x, c) = 0,
           NEW way \in 1 .. p.assoc, NEW h1,
           \/ h1 = h /\ ~(blocks[way].valid /\ blocks[way].dirty)
           \/ \E t : Answered(M!Booked(h, n, t), h1, n, "Write",
                              M!CACHE_MK_BADDR(p, blocks[way].tag, s))
              /\ blocks[way].valid /\ blocks[way].dirty,
           NEW t, NEW fill, NEW ready,
           Answered(M!Booked(M!Retagged(h1, n, x, c, way), n, t), fill.h, n, "Read",
                    M!CACHE_BADDR(p, x))
    PROVE  Accesses(h, M!Installed(fill, n, way, s, cmd, ready), n, cmd, x)
<1> DEFINE g == M!Booked(M!Retagged(h1, n, x, c, way), n, t)
<1>1. Rescued(h, h1, n, s, way)
  BY VictimSaved
<1>2. Waiting(h, g, n, s, way, M!tag(p, x), c)
  BY <1>1, MissFirst
<1>3. Asks(g, fill.h, n, "Read", M!CACHE_BADDR(p, x))
  BY <1>2, MissAddress DEF Answered, Waiting
<1> HIDE DEF g
<1> QED
  BY <1>2, <1>3, MissLast

(* What is drawn by an access of the last cache, of the one before it, and *)
(* of the first.                                                           *)
OfThird(d) == d.way \in Nat
OfSecond(d) == d.way \in Nat /\ \A cmd \in {"Read", "Write"} : OfThird(d[cmd])
OfFirst(d) == d.way \in Nat /\ \A cmd \in {"Read", "Write"} : OfSecond(d[cmd])

LEMMA DrawnIs ==
    ASSUME IsHierarchy(hierarchy), NEW n, NEW d \in M!Draws(n)
    PROVE  OfFirst(d)
<1>1. ASSUME NEW m PROVE M!Ways(m) \subseteq Nat
  <2>1. CASE m \in M!Names /\ hierarchy.caches[m].policy = "r"
    <3>1. hierarchy.caches[m].assoc \in Nat
      BY <2>1, Chains DEF IsSize
    <3> QED
      BY <2>1, <3>1 DEF M!Ways
  <2>2. CASE ~(m \in M!Names /\ hierarchy.caches[m].policy = "r")
    BY <2>2 DEF M!Ways
  <2> QED
    BY <2>1, <2>2
<1>2. ASSUME NEW m, NEW e \in M!ThirdDraws(m) PROVE OfThird(e)
  BY <1>1 DEF M!ThirdDraws, OfThird
<1>3. ASSUME NEW m, NEW e \in M!SecondDraws(m) PROVE OfSecond(e)
  <2>1. e.way \in M!Ways(m) /\ e.Write \in M!ThirdDraws(M!BehindIt(m))
        /\ e.Read \in M!ThirdDraws(M!BehindIt(m))
    BY DEF M!SecondDraws
  <2> QED
    BY <1>1, <1>2, <2>1 DEF OfSecond
<1>4. d.way \in M!Ways(n) /\ d.Write \in M!SecondDraws(M!BehindIt(n))
      /\ d.Read \in M!SecondDraws(M!BehindIt(n))
  BY DEF M!Draws
<1> QED
  BY <1>1, <1>3, <1>4 DEF OfFirst

LEMMA WayIs ==
    ASSUME IsHierarchy(hierarchy), NEW h, Whole(h), NEW n \in M!Names, NEW x \in Nat,
           NEW p, p = hierarchy.caches[n], NEW s, s = M!set(p, x),
           NEW blocks, blocks = h.caches[n].sets[s], NEW random, random.way \in Nat,
           NEW way, way = IF p.policy = "r" THEN 1 + (random.way % p.assoc) ELSE Len(blocks)
    PROVE  way \in 1 .. p.assoc
<1>1. IsSize(p) /\ s \in 0 .. p.nsets - 1
  BY Chains, TagAndSet
<1>2. IsSet(p, blocks)
  BY <1>1 DEF Whole, IsLevel, SetsOf
<1>3. p.assoc \in Nat \ {0}
  BY <1>1 DEF IsSize
<1>4. Len(blocks) = p.assoc
  <2>1. blocks = [w \in 1 .. p.assoc |-> blocks[w]]
    BY <1>2 DEF IsSet
  <2> QED
    BY <1>3, <2>1
<1>5. random.way % p.assoc \in 0 .. p.assoc - 1
  BY <1>3, Split
<1> DEFINE r == random.way % p.assoc
<1>6. 1 + r \in 1 .. p.assoc
  <2>1. r \in 0 .. p.assoc - 1
    BY <1>5
  <2> HIDE DEF r
  <2> QED
    BY <1>3, <2>1
<1>7. p.assoc \in 1 .. p.assoc
  BY <1>3
<1> QED
  BY <1>4, <1>6, <1>7, Zenon

(* Of the last cache: memory answers it.                                   *)
LEMMA MemoryAnswers ==
    ASSUME IsHierarchy(hierarchy), NEW n \in M!Names, Deep(n) = 1, NEW c, M!Contexts = {c},
           NEW h, NEW cmd, NEW a, NEW at, NEW random
    PROVE  Answered(h, M!blk_access(M!memory_access, h, n, cmd, a, at, c, random).h, n, cmd, a)
<1>1. hierarchy.caches[n].next \notin M!Names
  BY Chains DEF After
<1>2. M!blk_access(M!memory_access, h, n, cmd, a, at, c, random)
        = M!memory_access(h, n, cmd, a, at, c, random)
  BY <1>1 DEF M!blk_access
<1> QED
  BY <1>2, MemoryAsks DEF Answered

LEMMA ThirdAccess ==
    ASSUME IsHierarchy(hierarchy), NEW n \in M!Names, Deep(n) = 1, NEW c, M!Contexts = {c},
           NEW h, Whole(h), NEW cmd, cmd = "Write" => End(n) = "memory", NEW x \in Nat,
           NEW at, NEW random, OfThird(random)
    PROVE  Accesses(h, M!third_access(h, n, cmd, x, at, c, random).h, n, cmd, x)
<1> DEFINE p == hierarchy.caches[n]
           s == M!set(p, x)
           blocks == h.caches[n].sets[s]
           w == M!Found(p, blocks, x, c)
           way == IF p.policy = "r" THEN 1 + (random.way % p.assoc) ELSE Len(blocks)
           repl == blocks[way]
           out == M!WrittenBack(M!memory_access, h, n, repl, s, at, c, random)
           start == M!Max({at, M!FillStart(out.h, n, repl)})
           g == M!Booked(M!Retagged(out.h, n, x, c, way), n, start)
           fill == M!blk_access(M!memory_access, g, n, "Read", M!CACHE_BADDR(p, x), start, c, random)
           lat == M!Max({out.lat, start - at + fill.lat})
           all == M!third_access(h, n, cmd, x, at, c, random)
<1>1. CASE w # 0
  <2>1. all.h = [h EXCEPT !.caches[n].sets[s] = M!Hit(p, blocks, w, cmd)]
    BY <1>1 DEF M!third_access, M!accessed
  <2> QED
    BY <1>1, <2>1, HitAccess
<1>2. CASE w = 0
  <2>1. way \in 1 .. p.assoc
    BY WayIs DEF OfThird
  <2>2. all.h = M!Installed(fill, n, way, s, cmd, at + lat)
    BY <1>2 DEF M!third_access, M!accessed, M!Replace, M!Fill, M!Filled, M!Ready
  <2>3. \/ out.h = h /\ ~(repl.valid /\ repl.dirty)
        \/ \E t : Answered(M!Booked(h, n, t), out.h, n, "Write",
                           M!CACHE_MK_BADDR(p, repl.tag, s))
           /\ repl.valid /\ repl.dirty
    <3>1. CASE ~repl.valid \/ ~repl.dirty
      BY <3>1 DEF M!WrittenBack
    <3>2. CASE repl.valid /\ repl.dirty
      <4>1. PICK t : out.h = M!blk_access(M!memory_access, M!Booked(h, n, t), n, "Write",
                                          M!CACHE_MK_BADDR(p, repl.tag, s), t, c, random).h
        BY <3>2 DEF M!WrittenBack, M!WriteBack
      <4> QED
        BY <3>2, <4>1, MemoryAnswers
    <3> QED
      BY <3>1, <3>2
  <2>4. Answered(g, fill.h, n, "Read", M!CACHE_BADDR(p, x))
    <3> HIDE DEF g, start
    <3> QED
      BY MemoryAnswers
  <2>5. blocks = SetsOf(h, n)[s]
    BY DEF SetsOf
  <2> HIDE DEF fill, out, start, lat, way, w
  <2>6. Accesses(h, M!Installed(fill, n, way, s, cmd, at + lat), n, cmd, x)
    BY <1>2, <2>1, <2>3, <2>4, <2>5, MissAccess DEF w
  <2> QED
    BY <2>2, <2>6
<1> QED
  BY <1>1, <1>2

(* Of the one before it, or the last.                                       *)
LEMMA ThirdAnswers ==
    ASSUME IsHierarchy(hierarchy), NEW n \in M!Names, Deep(n) \in 1 .. 2, NEW c, M!Contexts = {c},
           NEW h, NEW cmd, NEW a, NEW at, NEW random, OfSecond(random)
    PROVE  Answered(h, M!blk_access(M!third_access, h, n, cmd, a, at, c, random).h, n, cmd, a)
<1> DEFINE g == M!blk_access(M!third_access, h, n, cmd, a, at, c, random).h
<1>1. SUFFICES ASSUME Whole(h), a \in Nat, cmd \in {"Read", "Write"}, cmd = "Write" => IsWrite(n, a)
               PROVE  Asks(h, g, n, cmd, a)
  BY DEF Answered
<1>2. CASE Deep(n) = 1
  <2>1. hierarchy.caches[n].next \notin M!Names
    BY <1>2, Chains DEF After
  <2>2. g = M!memory_access(h, n, cmd, a, at, c, random).h
    BY <2>1 DEF M!blk_access
  <2> QED
    BY <1>1, <1>2, <2>2, MemoryAsks
<1>3. CASE Deep(n) # 1
  <2>1. /\ After(n) \in M!Names /\ Deep(After(n)) = 1
        /\ End(After(n)) = End(n)
    BY <1>3, Chains
  <2>2. g = M!third_access(h, After(n), cmd, a, at, c, random[cmd]).h
    BY <2>1 DEF M!blk_access, After
  <2>3. cmd = "Write" => End(After(n)) = "memory"
    BY <1>1, <2>1 DEF IsWrite
  <2>5. OfThird(random[cmd])
    BY <1>1 DEF OfSecond
  <2>4. Accesses(h, M!third_access(h, After(n), cmd, a, at, c, random[cmd]).h, After(n), cmd, a)
    BY <1>1, <2>1, <2>3, <2>5, ThirdAccess
  <2> QED
    BY <1>1, <1>3, <2>2, <2>4, BehindAsks
<1> QED
  BY <1>2, <1>3

LEMMA SecondAccess ==
    ASSUME IsHierarchy(hierarchy), NEW n \in M!Names, Deep(n) \in 1 .. 2, NEW c, M!Contexts = {c},
           NEW h, Whole(h), NEW cmd, cmd = "Write" => End(n) = "memory", NEW x \in Nat,
           NEW at, NEW random, OfSecond(random)
    PROVE  Accesses(h, M!second_access(h, n, cmd, x, at, c, random).h, n, cmd, x)
<1> DEFINE p == hierarchy.caches[n]
           s == M!set(p, x)
           blocks == h.caches[n].sets[s]
           w == M!Found(p, blocks, x, c)
           way == IF p.policy = "r" THEN 1 + (random.way % p.assoc) ELSE Len(blocks)
           repl == blocks[way]
           out == M!WrittenBack(M!third_access, h, n, repl, s, at, c, random)
           start == M!Max({at, M!FillStart(out.h, n, repl)})
           g == M!Booked(M!Retagged(out.h, n, x, c, way), n, start)
           fill == M!blk_access(M!third_access, g, n, "Read", M!CACHE_BADDR(p, x), start, c, random)
           lat == M!Max({out.lat, start - at + fill.lat})
           all == M!second_access(h, n, cmd, x, at, c, random)
<1>1. CASE w # 0
  <2>1. all.h = [h EXCEPT !.caches[n].sets[s] = M!Hit(p, blocks, w, cmd)]
    BY <1>1 DEF M!second_access, M!accessed
  <2> QED
    BY <1>1, <2>1, HitAccess
<1>2. CASE w = 0
  <2>1. way \in 1 .. p.assoc
    BY WayIs DEF OfSecond
  <2>2. all.h = M!Installed(fill, n, way, s, cmd, at + lat)
    BY <1>2 DEF M!second_access, M!accessed, M!Replace, M!Fill, M!Filled, M!Ready
  <2>3. \/ out.h = h /\ ~(repl.valid /\ repl.dirty)
        \/ \E t : Answered(M!Booked(h, n, t), out.h, n, "Write",
                           M!CACHE_MK_BADDR(p, repl.tag, s))
           /\ repl.valid /\ repl.dirty
    <3>1. CASE ~repl.valid \/ ~repl.dirty
      BY <3>1 DEF M!WrittenBack
    <3>2. CASE repl.valid /\ repl.dirty
      <4>1. PICK t : out.h = M!blk_access(M!third_access, M!Booked(h, n, t), n, "Write",
                                          M!CACHE_MK_BADDR(p, repl.tag, s), t, c, random).h
        BY <3>2 DEF M!WrittenBack, M!WriteBack
      <4> QED
        BY <3>2, <4>1, ThirdAnswers
    <3> QED
      BY <3>1, <3>2
  <2>4. Answered(g, fill.h, n, "Read", M!CACHE_BADDR(p, x))
    <3> HIDE DEF g, start
    <3> QED
      BY ThirdAnswers
  <2>5. blocks = SetsOf(h, n)[s]
    BY DEF SetsOf
  <2> HIDE DEF fill, out, start, lat, way, w
  <2>6. Accesses(h, M!Installed(fill, n, way, s, cmd, at + lat), n, cmd, x)
    BY <1>2, <2>1, <2>3, <2>4, <2>5, MissAccess DEF w
  <2> QED
    BY <2>2, <2>6
<1> QED
  BY <1>1, <1>2

(* Of any.                                                                  *)
LEMMA SecondAnswers ==
    ASSUME IsHierarchy(hierarchy), NEW n \in M!Names, NEW c, M!Contexts = {c},
           NEW h, NEW cmd, NEW a, NEW at, NEW random, OfFirst(random)
    PROVE  Answered(h, M!blk_access(M!second_access, h, n, cmd, a, at, c, random).h, n, cmd, a)
<1> DEFINE g == M!blk_access(M!second_access, h, n, cmd, a, at, c, random).h
<1>1. SUFFICES ASSUME Whole(h), a \in Nat, cmd \in {"Read", "Write"}, cmd = "Write" => IsWrite(n, a)
               PROVE  Asks(h, g, n, cmd, a)
  BY DEF Answered
<1>2. CASE Deep(n) = 1
  <2>1. hierarchy.caches[n].next \notin M!Names
    BY <1>2, Chains DEF After
  <2>2. g = M!memory_access(h, n, cmd, a, at, c, random).h
    BY <2>1 DEF M!blk_access
  <2> QED
    BY <1>1, <1>2, <2>2, MemoryAsks
<1>3. CASE Deep(n) # 1
  <2>1. /\ After(n) \in M!Names /\ Deep(After(n)) \in 1 .. 2
        /\ End(After(n)) = End(n)
    BY <1>3, Chains
  <2>2. g = M!second_access(h, After(n), cmd, a, at, c, random[cmd]).h
    BY <2>1 DEF M!blk_access, After
  <2>3. cmd = "Write" => End(After(n)) = "memory"
    BY <1>1, <2>1 DEF IsWrite
  <2>5. OfSecond(random[cmd])
    BY <1>1 DEF OfFirst
  <2>4. Accesses(h, M!second_access(h, After(n), cmd, a, at, c, random[cmd]).h, After(n), cmd, a)
    BY <1>1, <2>1, <2>3, <2>5, SecondAccess
  <2> QED
    BY <1>1, <1>3, <2>2, <2>4, BehindAsks
<1> QED
  BY <1>2, <1>3

LEMMA FirstAccess ==
    ASSUME IsHierarchy(hierarchy), NEW n \in M!Names, NEW c, M!Contexts = {c},
           NEW h, Whole(h), NEW cmd, cmd = "Write" => End(n) = "memory", NEW x \in Nat,
           NEW at, NEW random, OfFirst(random)
    PROVE  Accesses(h, M!cache_access(h, n, cmd, x, at, c, random).h, n, cmd, x)
<1> DEFINE p == hierarchy.caches[n]
           s == M!set(p, x)
           blocks == h.caches[n].sets[s]
           w == M!Found(p, blocks, x, c)
           way == IF p.policy = "r" THEN 1 + (random.way % p.assoc) ELSE Len(blocks)
           repl == blocks[way]
           out == M!WrittenBack(M!second_access, h, n, repl, s, at, c, random)
           start == M!Max({at, M!FillStart(out.h, n, repl)})
           g == M!Booked(M!Retagged(out.h, n, x, c, way), n, start)
           fill == M!blk_access(M!second_access, g, n, "Read", M!CACHE_BADDR(p, x), start, c, random)
           lat == M!Max({out.lat, start - at + fill.lat})
           all == M!cache_access(h, n, cmd, x, at, c, random)
<1>1. CASE w # 0
  <2>1. all.h = [h EXCEPT !.caches[n].sets[s] = M!Hit(p, blocks, w, cmd)]
    BY <1>1 DEF M!cache_access, M!accessed
  <2> QED
    BY <1>1, <2>1, HitAccess
<1>2. CASE w = 0
  <2>1. way \in 1 .. p.assoc
    BY WayIs DEF OfFirst
  <2>2. all.h = M!Installed(fill, n, way, s, cmd, at + lat)
    BY <1>2 DEF M!cache_access, M!accessed, M!Replace, M!Fill, M!Filled, M!Ready
  <2>3. \/ out.h = h /\ ~(repl.valid /\ repl.dirty)
        \/ \E t : Answered(M!Booked(h, n, t), out.h, n, "Write",
                           M!CACHE_MK_BADDR(p, repl.tag, s))
           /\ repl.valid /\ repl.dirty
    <3>1. CASE ~repl.valid \/ ~repl.dirty
      BY <3>1 DEF M!WrittenBack
    <3>2. CASE repl.valid /\ repl.dirty
      <4>1. PICK t : out.h = M!blk_access(M!second_access, M!Booked(h, n, t), n, "Write",
                                          M!CACHE_MK_BADDR(p, repl.tag, s), t, c, random).h
        BY <3>2 DEF M!WrittenBack, M!WriteBack
      <4> QED
        BY <3>2, <4>1, SecondAnswers
    <3> QED
      BY <3>1, <3>2
  <2>4. Answered(g, fill.h, n, "Read", M!CACHE_BADDR(p, x))
    <3> HIDE DEF g, start
    <3> QED
      BY SecondAnswers
  <2>5. blocks = SetsOf(h, n)[s]
    BY DEF SetsOf
  <2> HIDE DEF fill, out, start, lat, way, w
  <2>6. Accesses(h, M!Installed(fill, n, way, s, cmd, at + lat), n, cmd, x)
    BY <1>2, <2>1, <2>3, <2>4, <2>5, MissAccess DEF w
  <2> QED
    BY <2>2, <2>6
<1> QED
  BY <1>1, <1>2
-----------------------------------------------------------------------------
(* The invariant *)

(* A store that memory has not seen is in a dirty block.                   *)
Safe(h) == Whole(h) /\ \A u \in h.unsaved : \E n \in M!Names : DirtyAt(h, n, u)
StoresInv ==
  IsHierarchy(hierarchy) /\ (Cardinality(M!Contexts) = 1 => Safe(M!Now))

LEMMA OneContext ==
    ASSUME IsHierarchy(hierarchy), Cardinality(M!Contexts) = 1
    PROVE  \E c : M!Contexts = {c}
<1>1. IsFiniteSet(M!Contexts)
  <2>1. M!Contexts = 1 .. Len(hierarchy.dl1) /\ Len(hierarchy.dl1) \in Nat
    BY DEF IsHierarchy, M!Contexts
  <2> QED
    BY <2>1, FS_Interval
<1> QED
  BY <1>1, FS_Singleton

LEMMA AccessSafe ==
    ASSUME NEW h, NEW g, NEW n, NEW cmd, NEW x, Safe(h), Accesses(h, g, n, cmd, x)
    PROVE  Safe(g)
  BY DEF Safe, Accesses, Saves

LEMMA SameSafe ==
    ASSUME NEW h, NEW g, Safe(h), DOMAIN g = DOMAIN h, g.caches = h.caches,
           g.unsaved = h.unsaved
    PROVE  Safe(g)
<1>1. \A k : SetsOf(g, k) = SetsOf(h, k)
  BY DEF SetsOf
<1>2. \A k, u : DirtyAt(g, k, u) <=> DirtyAt(h, k, u)
  BY <1>1, SameDirty
<1>3. Whole(g)
  BY <1>1 DEF Safe, Whole, IsLevel
<1> QED
  BY <1>2, <1>3 DEF Safe

(* Both caches of an access: what it wrote is dirty.                       *)
LEMMA BothSafe ==
    ASSUME IsHierarchy(hierarchy), NEW c, M!Contexts = {c}, Safe(M!Now), NEW addr \in Nat,
           NEW random, OfFirst(random), NEW walk, OfFirst(walk), NEW n, n = hierarchy.dl1[c], NEW cmd,
           NEW g, g = M!Both(n, cmd, addr, c, random, walk).h
    PROVE  /\ Safe(g) /\ n \in M!Names
           /\ cmd = "Write" => DirtyAt(g, n, <<c, addr>>)
<1> DEFINE r == M!cache_access(M!Now, n, cmd, addr, 0, c, random)
           t == hierarchy.dtlb[c]
<1>1. /\ n \in M!Names /\ End(n) = "memory"
      /\ t # "none" => t \in M!Names /\ End(t) = "translation"
  BY DEF IsHierarchy, M!Contexts, M!Names, End
<1>2. Accesses(M!Now, r.h, n, cmd, addr)
  BY <1>1, FirstAccess DEF Safe
<1>3. Safe(r.h)
  BY <1>2, AccessSafe
<1>4. cmd = "Write" => DirtyAt(r.h, n, <<c, addr>>)
  BY <1>2 DEF Accesses, SameBlock
<1>5. g = M!WithTLB(r, addr, c, walk).h
  BY DEF M!Both
<1> HIDE DEF r
<1>6. CASE t = "none"
  <2>1. g = r.h
    BY <1>5, <1>6 DEF M!WithTLB, M!None
  <2> QED
    BY <1>1, <1>3, <1>4, <2>1
<1>7. CASE t # "none"
  <2>1. g = M!cache_access(r.h, t, "Read", addr, 0, c, walk).h
    BY <1>5, <1>7 DEF M!WithTLB, M!None, M!Longer
  <2>2. Accesses(r.h, M!cache_access(r.h, t, "Read", addr, 0, c, walk).h, t, "Read", addr)
    BY <1>1, <1>3, <1>7, FirstAccess DEF Safe
  <2>3. Accesses(r.h, g, t, "Read", addr)
    BY <2>1, <2>2
  <2>4. n \notin Under(t) \cup {t}
    BY <1>1, <1>7 DEF Under
  <2>5. SetsOf(g, n) = SetsOf(r.h, n)
    BY <1>1, <2>3, <2>4 DEF Accesses, Only
  <2>6. DirtyAt(g, n, <<c, addr>>) <=> DirtyAt(r.h, n, <<c, addr>>)
    BY <2>5, SameDirty
  <2> QED
    BY <1>1, <1>3, <1>4, <2>3, <2>6, AccessSafe
<1> QED
  BY <1>6, <1>7

(* What follows an action, before the hierarchy, which stays, is primed.   *)
Next_Now == [caches |-> caches', banks |-> banks', unsaved |-> unsaved']

LEMMA BecomesSafe ==
    ASSUME NEW h, Safe(h), M!Becomes(h)
    PROVE  Safe(Next_Now)
<1>1. DOMAIN h = {"caches", "banks", "unsaved"}
  BY DEF Safe, Whole
<1>2. /\ DOMAIN Next_Now = {"caches", "banks", "unsaved"}
      /\ Next_Now.caches = h.caches /\ Next_Now.unsaved = h.unsaved
  BY DEF Next_Now, M!Becomes
<1> QED
  BY <1>1, <1>2, SameSafe

LEMMA StoreSafe ==
    ASSUME IsHierarchy(hierarchy), NEW c, M!Contexts = {c}, Safe(M!Now), NEW addr \in Nat,
           NEW random, OfFirst(random), NEW walk, OfFirst(walk), M!Store(c, addr, random, walk)
    PROVE  Safe(Next_Now)
<1> DEFINE n == hierarchy.dl1[c]
           r == M!Both(n, "Write", addr, c, random, walk)
           g == [r.h EXCEPT !.unsaved = @ \cup {<<c, addr>>}]
<1>1. Safe(r.h) /\ n \in M!Names /\ DirtyAt(r.h, n, <<c, addr>>)
  BY BothSafe
<1>2. M!Stored(r, c, addr)
  BY DEF M!Store
<1> HIDE DEF r
<1>3. M!Becomes(g) \/ UNCHANGED <<caches, banks, unsaved>>
  BY <1>2 DEF M!Stored
<1>4. Safe(g)
  <2>1. DOMAIN r.h = {"caches", "banks", "unsaved"} /\ r.h.unsaved \subseteq M!Contexts \X Nat
    BY <1>1 DEF Safe, Whole
  <2>2. DOMAIN g = DOMAIN r.h /\ g.caches = r.h.caches /\ g.unsaved = r.h.unsaved \cup {<<c, addr>>}
    BY <2>1
  <2> HIDE DEF g
  <2>3. \A k : SetsOf(g, k) = SetsOf(r.h, k)
    BY <2>2 DEF SetsOf
  <2>4. \A k, u : DirtyAt(g, k, u) <=> DirtyAt(r.h, k, u)
    BY <2>3, SameDirty
  <2>5. g.unsaved \subseteq M!Contexts \X Nat
    BY <2>1, <2>2
  <2>6. Whole(g)
    BY <1>1, <2>1, <2>2, <2>3, <2>5 DEF Safe, Whole, IsLevel
  <2> QED
    BY <1>1, <2>2, <2>4, <2>6 DEF Safe
<1>5. CASE M!Becomes(g)
  BY <1>4, <1>5, BecomesSafe
<1>6. CASE UNCHANGED <<caches, banks, unsaved>>
  BY <1>6 DEF Next_Now, M!Now
<1> QED
  BY <1>3, <1>5, <1>6

LEMMA AccessStep ==
    ASSUME IsHierarchy(hierarchy), NEW c, M!Contexts = {c}, Safe(M!Now), M!Access
    PROVE  Safe(Next_Now)
<1>1. PICK addr \in hierarchy.Addresses :
        \/ \E random \in M!Draws(hierarchy.dl1[c]), walk \in M!Draws(hierarchy.dtlb[c]) :
             M!Load(c, addr, random, walk) \/ M!Store(c, addr, random, walk)
        \/ \E random \in M!Draws(hierarchy.il1[c]) : M!FetchInst(c, addr, random)
  BY DEF M!Access
<1>2. addr \in Nat
  BY DEF IsHierarchy
<1>3. \A n : \A d \in M!Draws(n) : OfFirst(d)
  BY DrawnIs
<1>4. ASSUME NEW random, OfFirst(random), NEW walk, OfFirst(walk), M!Load(c, addr, random, walk)
      PROVE  Safe(Next_Now)
  <2> DEFINE g == M!Both(hierarchy.dl1[c], "Read", addr, c, random, walk).h
  <2>1. M!Becomes(g)
    BY <1>4 DEF M!Load
  <2>2. Safe(g)
    BY <1>2, <1>4, BothSafe
  <2> HIDE DEF g
  <2> QED
    BY <2>1, <2>2, BecomesSafe
<1>5. ASSUME NEW random, OfFirst(random), M!FetchInst(c, addr, random)
      PROVE  Safe(Next_Now)
  <2> DEFINE n == hierarchy.il1[c]
             g == M!cache_access(M!Now, n, "Read", addr, 0, c, random).h
  <2>1. M!Becomes(g)
    BY <1>5 DEF M!FetchInst
  <2>2. n \in M!Names
    BY DEF IsHierarchy, M!Contexts, M!Names
  <2>3. Accesses(M!Now, g, n, "Read", addr)
    BY <1>2, <1>5, <2>2, FirstAccess DEF Safe
  <2> HIDE DEF g, n
  <2> QED
    BY <2>1, <2>3, AccessSafe, BecomesSafe
<1>6. ASSUME NEW random, OfFirst(random), NEW walk, OfFirst(walk), M!Store(c, addr, random, walk)
      PROVE  Safe(Next_Now)
  BY <1>2, <1>6, StoreSafe
<1> QED
  BY <1>1, <1>3, <1>4, <1>5, <1>6

(* As time passes only times change.                                       *)
LEMMA TimesSafe ==
    ASSUME IsHierarchy(hierarchy), NEW h, Safe(h), NEW g, DOMAIN g = DOMAIN h, g.unsaved = h.unsaved,
           DOMAIN g.caches = M!Names,
           \A n \in M!Names : /\ DOMAIN g.caches[n] = {"sets", "bus_free"}
                              /\ DOMAIN SetsOf(g, n) = DOMAIN SetsOf(h, n),
           \A n \in M!Names : \A s \in DOMAIN SetsOf(h, n) :
             /\ Alike(hierarchy.caches[n], SetsOf(h, n)[s], SetsOf(g, n)[s])
             /\ \A w \in 1 .. hierarchy.caches[n].assoc :
                  SetsOf(g, n)[s][w].dirty = SetsOf(h, n)[s][w].dirty
    PROVE  Safe(g)
<1>1. ASSUME NEW n \in M!Names
      PROVE  IsLevel(g, n) /\ \A u \in M!Contexts \X Nat : DirtyAt(h, n, u) => DirtyAt(g, n, u)
  <2> DEFINE p == hierarchy.caches[n]
  <2>1. IsSize(p)
    BY Chains
  <2>2. IsLevel(h, n)
    BY DEF Safe, Whole
  <2>3. ASSUME NEW s \in 0 .. p.nsets - 1
        PROVE  /\ IsSet(p, SetsOf(g, n)[s])
               /\ \A t, c : HoldsDirty(p, SetsOf(h, n)[s], t, c) => HoldsDirty(p, SetsOf(g, n)[s], t, c)
    <3>1. IsSet(p, SetsOf(h, n)[s]) /\ Alike(p, SetsOf(h, n)[s], SetsOf(g, n)[s])
      BY <2>2 DEF IsLevel
    <3> QED
      BY <2>1, <3>1, AlikeSets
  <2>4. IsLevel(g, n)
    <3>1. DOMAIN SetsOf(h, n) = 0 .. p.nsets - 1
          /\ DOMAIN g.caches[n] = {"sets", "bus_free"} /\ DOMAIN SetsOf(g, n) = 0 .. p.nsets - 1
      BY <2>2 DEF IsLevel
    <3>2. ASSUME End(n) # "memory", NEW s \in 0 .. p.nsets - 1, NEW w \in 1 .. p.assoc
          PROVE  ~SetsOf(g, n)[s][w].dirty
      <4>1. SetsOf(g, n)[s][w].dirty = SetsOf(h, n)[s][w].dirty
        BY <3>1
      <4> QED
        BY <2>2, <3>2, <4>1 DEF IsLevel
    <3> QED
      BY <2>3, <3>1, <3>2 DEF IsLevel
  <2>5. ASSUME NEW u \in M!Contexts \X Nat, DirtyAt(h, n, u)
        PROVE  DirtyAt(g, n, u)
    <3>1. M!set(p, u[2]) \in 0 .. p.nsets - 1
      BY <2>1, TagAndSet
    <3> QED
      BY <2>3, <2>5, <3>1 DEF DirtyAt
  <2> QED
    BY <2>4, <2>5
<1>2. Whole(g)
  BY <1>1 DEF Safe, Whole
<1>3. ASSUME NEW u \in g.unsaved
      PROVE  \E n \in M!Names : DirtyAt(g, n, u)
  <2>1. u \in M!Contexts \X Nat /\ u \in h.unsaved
    BY <1>2 DEF Whole
  <2> QED
    BY <1>1, <2>1 DEF Safe
<1> QED
  BY <1>2, <1>3 DEF Safe

LaterSet(blocks, others) ==
  /\ DOMAIN others = DOMAIN blocks /\ others = [w \in DOMAIN blocks |-> others[w]]
  /\ \A w \in DOMAIN blocks : \E r : others[w] = [blocks[w] EXCEPT !.ready = r]
LaterSets(n) ==
  /\ DOMAIN caches'[n] = {"sets", "bus_free"}
  /\ DOMAIN caches'[n].sets = DOMAIN caches[n].sets
  /\ \A s \in DOMAIN caches[n].sets : LaterSet(caches[n].sets[s], caches'[n].sets[s])

LEMMA LaterAlike ==
    ASSUME NEW p, NEW blocks, IsSet(p, blocks), NEW others, LaterSet(blocks, others)
    PROVE  /\ Alike(p, blocks, others)
           /\ \A w \in 1 .. p.assoc : others[w].dirty = blocks[w].dirty
<1>1. /\ DOMAIN blocks = 1 .. p.assoc
      /\ \A w \in 1 .. p.assoc : DOMAIN blocks[w] = BlockFields
  BY DEF IsSet
<1>2. ASSUME NEW w \in 1 .. p.assoc
      PROVE  /\ DOMAIN others[w] = BlockFields /\ others[w].tag = blocks[w].tag
             /\ others[w].context_id = blocks[w].context_id /\ others[w].valid = blocks[w].valid
             /\ others[w].dirty = blocks[w].dirty
  <2>1. PICK r : others[w] = [blocks[w] EXCEPT !.ready = r]
    BY <1>1 DEF LaterSet
  <2> QED
    BY <1>1, <2>1 DEF BlockFields
<1>3. others = [w \in 1 .. p.assoc |-> others[w]]
  BY <1>1 DEF LaterSet
<1> QED
  BY <1>2, <1>3 DEF Alike

LEMMA TimeStep ==
    ASSUME IsHierarchy(hierarchy), Safe(M!Now), M!Tick \/ M!StartTiming
    PROVE  Safe(Next_Now)
<1> DEFINE h == M!Now
           g == Next_Now
<1>1. /\ DOMAIN g = DOMAIN h /\ g.unsaved = unsaved' /\ g.caches = caches'
      /\ h.unsaved = unsaved /\ h.caches = caches
  BY DEF M!Now, Next_Now
<1>2. unsaved' = unsaved
  BY DEF M!Tick, M!StartTiming
<1>3. /\ DOMAIN caches' = M!Names
      /\ \A n \in M!Names : LaterSets(n)
  <2>1. CASE M!Tick
    <3>1. caches' = [n \in M!Names |->
            [sets |-> [s \in DOMAIN caches[n].sets |-> M!Passed(caches[n].sets[s])],
             bus_free |-> M!Max({0, caches[n].bus_free - 1})]]
      BY <2>1 DEF M!Tick
    <3>2. DOMAIN caches' = M!Names
      BY <3>1
    <3>3. ASSUME NEW n \in M!Names PROVE LaterSets(n)
      <4>1. /\ DOMAIN caches'[n] = {"sets", "bus_free"}
            /\ caches'[n].sets = [s \in DOMAIN caches[n].sets |-> M!Passed(caches[n].sets[s])]
        BY <3>1
      <4>2. \A s \in DOMAIN caches[n].sets : caches'[n].sets[s] = M!Passed(caches[n].sets[s])
        BY <4>1
      <4>3. \A s \in DOMAIN caches[n].sets : LaterSet(caches[n].sets[s], caches'[n].sets[s])
        <5>1. ASSUME NEW blocks PROVE LaterSet(blocks, M!Passed(blocks))
          <6> DEFINE others == M!Passed(blocks)
                     later(b) == M!Max({0, b.ready - 1})
          <6>1. others = [w \in DOMAIN blocks |-> [blocks[w] EXCEPT !.ready = later(blocks[w])]]
            BY DEF M!Passed
          <6> HIDE DEF others, later
          <6>2. DOMAIN others = DOMAIN blocks /\ others = [w \in DOMAIN blocks |-> others[w]]
            BY <6>1
          <6>3. \A w \in DOMAIN blocks : others[w] = [blocks[w] EXCEPT !.ready = later(blocks[w])]
            BY <6>1
          <6>4. \A w \in DOMAIN blocks : \E r : others[w] = [blocks[w] EXCEPT !.ready = r]
            BY <6>3, Zenon
          <6> QED
            BY <6>2, <6>4 DEF LaterSet, others
        <5> QED
          BY <4>2, <5>1
      <4> QED
        BY <4>1, <4>3 DEF LaterSets
    <3> QED
      BY <3>2, <3>3
  <2>2. CASE M!StartTiming
    <3>1. caches' = [n \in M!Names |->
            [sets |-> [s \in DOMAIN caches[n].sets |->
               [w \in DOMAIN caches[n].sets[s] |-> [caches[n].sets[s][w] EXCEPT !.ready = 0]]],
             bus_free |-> 0]]
      BY <2>2 DEF M!StartTiming
    <3>2. DOMAIN caches' = M!Names
      BY <3>1
    <3>3. ASSUME NEW n \in M!Names PROVE LaterSets(n)
      <4>1. /\ DOMAIN caches'[n] = {"sets", "bus_free"}
            /\ caches'[n].sets = [s \in DOMAIN caches[n].sets |->
                 [w \in DOMAIN caches[n].sets[s] |-> [caches[n].sets[s][w] EXCEPT !.ready = 0]]]
        BY <3>1
      <4>2. \A s \in DOMAIN caches[n].sets : caches'[n].sets[s] =
              [w \in DOMAIN caches[n].sets[s] |-> [caches[n].sets[s][w] EXCEPT !.ready = 0]]
        BY <4>1
      <4>3. \A s \in DOMAIN caches[n].sets : LaterSet(caches[n].sets[s], caches'[n].sets[s])
        BY <4>2 DEF LaterSet
      <4> QED
        BY <4>1, <4>3 DEF LaterSets
    <3> QED
      BY <3>2, <3>3
  <2> QED
    BY <2>1, <2>2
<1>4. \A n \in M!Names : SetsOf(h, n) = caches[n].sets /\ SetsOf(g, n) = caches'[n].sets
  BY <1>1 DEF SetsOf
<1>5. ASSUME NEW n \in M!Names
      PROVE  /\ DOMAIN g.caches[n] = {"sets", "bus_free"} /\ DOMAIN SetsOf(g, n) = DOMAIN SetsOf(h, n)
             /\ \A s \in DOMAIN SetsOf(h, n) :
                  /\ Alike(hierarchy.caches[n], SetsOf(h, n)[s], SetsOf(g, n)[s])
                  /\ \A w \in 1 .. hierarchy.caches[n].assoc :
                       SetsOf(g, n)[s][w].dirty = SetsOf(h, n)[s][w].dirty
  <2>1. LaterSets(n)
    BY <1>3
  <2>2. ASSUME NEW s \in DOMAIN SetsOf(h, n)
        PROVE  /\ Alike(hierarchy.caches[n], SetsOf(h, n)[s], SetsOf(g, n)[s])
               /\ \A w \in 1 .. hierarchy.caches[n].assoc :
                    SetsOf(g, n)[s][w].dirty = SetsOf(h, n)[s][w].dirty
    <3>1. LaterSet(SetsOf(h, n)[s], SetsOf(g, n)[s])
      BY <1>4, <2>1 DEF LaterSets
    <3>2. IsSet(hierarchy.caches[n], SetsOf(h, n)[s])
      BY DEF Safe, Whole, IsLevel
    <3> QED
      BY <3>1, <3>2, LaterAlike
  <2> QED
    BY <1>1, <1>4, <2>1, <2>2 DEF LaterSets
<1> HIDE DEF g, h
<1>6. DOMAIN g.caches = M!Names
  BY <1>1, <1>3
<1>7. Safe(g)
  BY <1>1, <1>2, <1>5, <1>6, TimesSafe DEF h
<1> QED
  BY <1>7 DEF g

-----------------------------------------------------------------------------
(* The theorem *)

LEMMA InitStores ==
    ASSUME Init
    PROVE  StoresInv
<1>1. M!Init /\ IsHierarchy(hierarchy)
  BY HierarchiesAssumption DEF Init, M!Init
<1> DEFINE h == M!Now
<1>2. /\ DOMAIN h = {"caches", "banks", "unsaved"} /\ h.unsaved = {}
      /\ h.caches = caches
  BY <1>1 DEF M!Init, M!Now
<1>3. caches = [n \in M!Names |->
        [sets |-> [s \in 0 .. hierarchy.caches[n].nsets - 1 |->
                    [w \in 1 .. hierarchy.caches[n].assoc |-> M!NewBlock]],
         bus_free |-> 0]]
  BY <1>1 DEF M!Init
<1> HIDE DEF h
<1>4. ASSUME NEW n \in M!Names PROVE IsLevel(h, n)
  <2> DEFINE p == hierarchy.caches[n]
             new == [w \in 1 .. p.assoc |-> M!NewBlock]
  <2>1. /\ DOMAIN h.caches[n] = {"sets", "bus_free"}
        /\ SetsOf(h, n) = [s \in 0 .. p.nsets - 1 |-> new]
    <3>1. h.caches[n] = [sets |-> [s \in 0 .. p.nsets - 1 |-> new], bus_free |-> 0]
      BY <1>2, <1>3
    <3> QED
      BY <3>1 DEF SetsOf
  <2>2. new = [w \in 1 .. p.assoc |-> new[w]] /\ DOMAIN new = 1 .. p.assoc
        /\ \A w \in 1 .. p.assoc : new[w] = M!NewBlock
    OBVIOUS
  <2>3. DOMAIN M!NewBlock = BlockFields /\ ~M!NewBlock.valid /\ ~M!NewBlock.dirty
    BY DEF M!NewBlock, BlockFields
  <2> HIDE DEF new
  <2>4. M!OneCopy(new)
    BY <2>2, <2>3 DEF M!OneCopy
  <2>5. IsSet(p, new)
    BY <2>2, <2>3, <2>4 DEF IsSet
  <2>6. \A w \in 1 .. p.assoc : ~new[w].dirty
    BY <2>2, <2>3
  <2> QED
    BY <2>1, <2>5, <2>6 DEF IsLevel
<1>5. Whole(h)
  BY <1>2, <1>3, <1>4 DEF Whole
<1>6. Safe(h)
  BY <1>2, <1>5 DEF Safe
<1> QED
  BY <1>1, <1>6 DEF StoresInv, h

LEMMA NextStores ==
    ASSUME StoresInv, [Next]_vars
    PROVE  StoresInv'
<1>1. hierarchy' = hierarchy
  BY DEF Next, vars, FetchStep, PredictorsStep, CachesStep, StateStep, PowerStep, caching,
         M!Next, M!Access, M!Load, M!FetchInst, M!Store, M!Tick, M!StartTiming
<1>2. IsHierarchy(hierarchy)
  BY DEF StoresInv
<1>3. ASSUME Cardinality(M!Contexts) = 1
      PROVE  Safe(Next_Now)
  <2>1. Safe(M!Now)
    BY <1>3 DEF StoresInv
  <2>2. PICK c : M!Contexts = {c}
    BY <1>2, <1>3, OneContext
  <2>3. CASE CachesStep
    <3>1. CASE M!Access
      BY <1>2, <2>1, <2>2, <3>1, AccessStep
    <3>2. CASE M!Tick \/ M!StartTiming
      BY <1>2, <2>1, <3>2, TimeStep
    <3> QED
      BY <2>3, <3>1, <3>2 DEF CachesStep, M!Next
  <2>4. CASE UNCHANGED caching
    <3>1. Next_Now = M!Now
      BY <2>4 DEF caching, Next_Now, M!Now
    <3> QED
      BY <2>1, <3>1
  <2> QED
    BY <2>3, <2>4 DEF Next, vars, FetchStep, PredictorsStep, StateStep, PowerStep
<1>4. M!Contexts' = M!Contexts /\ IsHierarchy(hierarchy)'
  BY <1>1, <1>2 DEF M!Contexts
<1>5. Safe(Next_Now) => Safe(M!Now)'
  <2>1. \A n, u : DirtyAt(Next_Now, n, u) <=> DirtyAt(M!Now, n, u)'
    BY <1>1 DEF SetsOf, DirtyAt, HoldsDirty, Holds, Next_Now, M!Now
  <2>2. ASSUME NEW n
        PROVE  IsLevel(Next_Now, n) <=> IsLevel(M!Now, n)'
    BY <1>1 DEF IsLevel, SetsOf, IsSet, M!OneCopy, End, Last, Depth, BehindOf, M!Contexts, Next_Now, M!Now
  <2>3. Whole(Next_Now) <=> Whole(M!Now)'
    BY <1>1, <2>2 DEF Whole, M!Names, M!Contexts, Next_Now, M!Now
  <2>4. M!Names' = M!Names /\ Next_Now.unsaved = (M!Now.unsaved)'
    BY <1>1 DEF M!Names, Next_Now, M!Now
  <2> QED
    BY <2>1, <2>3, <2>4 DEF Safe
<1> QED
  BY <1>3, <1>4, <1>5 DEF StoresInv

LEMMA StoresAreDirty ==
    ASSUME StoresInv
    PROVE  NoLostWrite
<1>1. SUFFICES ASSUME Cardinality(M!Contexts) = 1, NEW u \in unsaved
               PROVE  \E n \in M!Names : M!DirtyIn(M!Now, n, u)
  <2>1. M!Cardinality(M!Contexts) = Cardinality(M!Contexts)
    BY Zenon DEF M!Cardinality, Cardinality
  <2> QED
    BY <2>1 DEF NoLostWrite, M!NoLostWrite
<1>2. IsHierarchy(hierarchy) /\ Safe(M!Now) /\ M!Now.unsaved = unsaved
  BY <1>1 DEF StoresInv, M!Now
<1>3. u \in M!Contexts \X Nat
  BY <1>1, <1>2 DEF Safe, Whole
<1>4. PICK n \in M!Names : DirtyAt(M!Now, n, u)
  BY <1>1, <1>2 DEF Safe
<1>5. M!DirtyIn(M!Now, n, u)
  BY <1>2, <1>3, <1>4, DirtyIs DEF Safe
<1> QED
  BY <1>5

(* With one context a store is in a dirty block until it has been written  *)
(* to main memory, whatever the caches, their sizes, block sizes, policies *)
(* and times, and through all the write-backs and fills of a miss.         *)
THEOREM CacheCorrect == Spec => []NoLostWrite
<1>1. Init => StoresInv
  BY InitStores
<1>2. StoresInv /\ [Next]_vars => StoresInv'
  BY NextStores
<1>3. StoresInv => NoLostWrite
  BY StoresAreDirty
<1> QED
  BY <1>1, <1>2, <1>3, PTL DEF Spec

(* So with one context every store dirties a block and none is lost, in    *)
(* any step: each of the levels writes back and fills for this context     *)
(* only.                                                                   *)
THEOREM StoresCorrect == Spec /\ [](Cardinality(M!Contexts) = 1) => StoresKept
<1> DEFINE One == Cardinality(M!Contexts) = 1
           AllKept == \A u \in unsaved : M!Kept(u)
<1>1. NoLostWrite /\ One => (part = "caches" => AllKept)
  <2>1. M!Cardinality(M!Contexts) = Cardinality(M!Contexts)
    BY Zenon DEF M!Cardinality, Cardinality
  <2> QED
    BY <2>1 DEF NoLostWrite, M!NoLostWrite, M!Kept
<1>2. (part = "caches" => AllKept)' /\ [Next]_vars =>
        [/\ \A u \in unsaved' \ unsaved : M!Kept(u)'
         /\ \A u \in unsaved \cap unsaved' : M!Kept(u) => M!Kept(u)' \/ M!LostToOthers(u)]_M!vars
  <2> SUFFICES ASSUME (part = "caches" => AllKept)', [Next]_vars
               PROVE  [/\ \A u \in unsaved' \ unsaved : M!Kept(u)'
                       /\ \A u \in unsaved \cap unsaved' :
                             M!Kept(u) => M!Kept(u)' \/ M!LostToOthers(u)]_M!vars
    OBVIOUS
  <2>1. CASE CachesStep
    <3>1. part' = "caches"
      BY <2>1 DEF CachesStep
    <3>2. \A u \in unsaved' : M!Kept(u)'
      BY <3>1
    <3> QED
      BY <3>2
  <2>2. CASE UNCHANGED caching
    BY <2>2 DEF caching, M!vars
  <2> QED
    BY <2>1, <2>2 DEF Next, vars, FetchStep, PredictorsStep, StateStep, PowerStep
<1>3. Spec /\ []One => [](part = "caches" => AllKept)
  BY <1>1, CacheCorrect, PTL
<1> QED
  BY <1>2, <1>3, PTL DEF Spec, StoresKept, M!StoresKept
=============================================================================
