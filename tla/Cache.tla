------------------------------- MODULE Cache --------------------------------
(***************************************************************************)
(* The caches and TLBs (cache.c), the functions that tie their levels      *)
(* together (sim-outorder.c) down to main memory, and the write buffer     *)
(* from which committed stores are taken into the data cache.              *)
(*                                                                         *)
(* A cache set is the sequence of its blocks in the order of its list of   *)
(* ways.  Addresses and block sizes count transfers of main memory.  Times *)
(* are counted from the present cycle, those in the past being 0.  Data,   *)
(* statistics, flushes (nothing calls them) and the hash tables and the    *)
(* bus model that are not compiled are left out.                           *)
(***************************************************************************)
EXTENDS Integers, Sequences, FiniteSets, SequencesExt, TLC, Dram

CONSTANT Hierarchies \* those tried, each a record of
                     \*   caches: of each name, up to three behind each other,
                     \*     a record of nsets, assoc, bsize,
                     \*     policy ("l", "f", "r"), hit_latency and next: a name,
                     \*     "memory" or "translation"
                     \*   dl1, il1, dtlb: of each context, the caches it uses
                     \*   core: of each context
                     \*   memory: see Dram; tlb_miss_lat; write_buf_size
                     \*   Addresses: those accessed
                     \*   Uses: what is done, of "load", "store", "fetch"
                     \*   MaxBehind: how far ahead buses and banks are booked

VARIABLE hierarchy   \* the one of a behaviour
Contexts == DOMAIN hierarchy.dl1
Cores == {hierarchy.core[c] : c \in Contexts}
Names == DOMAIN hierarchy.caches

VARIABLES
  warming,    \* in fast-forward: no time passes
  caches,     \* of each name, the blocks of its sets and bus_free
  banks,      \* of main memory
  write_buf,  \* of each core, the writes that ended before this cycle (old)
              \* and when the others end (at)
  unsaved     \* history: the stores that main memory has not seen

vars == <<hierarchy, warming, caches, banks, write_buf, unsaved>>

Nobody == 0
NewBlock == [tag |-> 0, context_id |-> Nobody, valid |-> FALSE, dirty |-> FALSE, ready |-> 0]

tag(p, addr) == addr \div (p.bsize * p.nsets)
set(p, addr) == (addr \div p.bsize) % p.nsets
CACHE_BADDR(p, addr) == p.bsize * (addr \div p.bsize)
CACHE_MK_BADDR(p, t, s) == p.bsize * (t * p.nsets + s)

(* A write leaves the block clean (for a mutant). *)
HitClean(p, blocks, w, cmd) ==
  IF p.policy = "l" THEN <<blocks[w]>> \o RemoveAt(blocks, w) ELSE blocks

(* The order never changes (for a mutant). *)
KeptInPlace(blocks, w) == blocks

(* The way a look-up finds, 0 if none. *)
Found(p, blocks, addr, c) ==
  LET hits == {w \in DOMAIN blocks : blocks[w].valid /\ blocks[w].tag = tag(p, addr)
                                       /\ blocks[w].context_id = c}
  IN IF hits = {} THEN 0 ELSE Min(hits)

(* update_way_list *)
ToHead(blocks, w) == <<blocks[w]>> \o RemoveAt(blocks, w)

Hit(p, blocks, w, cmd) ==
  LET used == [blocks EXCEPT ![w].dirty = @ \/ cmd = "Write"]
  IN IF p.policy = "l" THEN ToHead(used, w) ELSE used
-----------------------------------------------------------------------------
(* What an access works on: h has caches, banks and unsaved. *)
Bus(h, n) == h.caches[n].bus_free

(* The victim's fill is not waited for (for a mutant). *)
BusOnly(h, n, repl) == Max({0, Bus(h, n)})

(* When a fill may start: after the fill of the block replaced, and when   *)
(* the bus is free.                                                        *)
FillStart(h, n, repl) == Max({0, repl.ready, Bus(h, n)})

(* The bus is taken for one cycle, from the time of the transfer on. *)
Booked(h, n, start) ==
  [h EXCEPT !.caches[n].bus_free = 1 + Max({@, start})]

(* A write of a block of cache n to main memory: it has then seen the      *)
(* stores to it, but for those that a cache above holds later ones of.     *)
DirtyIn(h, m, u) ==
  LET p == hierarchy.caches[m]
      blocks == h.caches[m].sets[set(p, u[2])]
      w == Found(p, blocks, u[2], u[1])
  IN w # 0 /\ blocks[w].dirty
Saved(h, n, baddr, c) ==
  LET written == {c} \X (baddr .. baddr + hierarchy.caches[n].bsize - 1)
  IN [h EXCEPT !.unsaved = {u \in @ : u \in written => \E m \in Names \ {n} : DirtyIn(h, m, u)}]

(* What the last cache asks for (dl3_access_fn, itlb_access_fn): main      *)
(* memory, or a translation; writes go to buffers without a limit and cost *)
(* nothing.                                                                *)
memory_access(h, n, cmd, baddr, at, c, random) ==
  LET p == hierarchy.caches[n]
  IN CASE p.next = "translation" -> [h |-> h, lat |-> hierarchy.tlb_miss_lat]
       [] p.next = "memory" /\ cmd = "Write" ->
            [h |-> Saved(h, n, baddr, c), lat |-> 0]
       [] p.next = "memory" /\ cmd = "Read" ->
            LET r == Request(hierarchy.memory, h.banks, baddr, p.bsize, at)
            IN [h |-> [h EXCEPT !.banks = r.banks], lat |-> r.lat]

(* blk_access_fn: the same of a cache that may have another behind it,     *)
(* which Below accesses.                                                   *)
blk_access(Below(_, _, _, _, _, _, _), h, n, cmd, baddr, at, c, random) ==
  LET next == hierarchy.caches[n].next
  IN IF next \notin Names THEN memory_access(h, n, cmd, baddr, at, c, random)
     ELSE LET r == Below(h, next, cmd, baddr, at, c, random[cmd])
          IN [h |-> r.h, lat |-> IF cmd = "Read" THEN r.lat ELSE 0]

(* The block replaced is written back, for the context that replaces it.   *)
(* Of the time this takes the fill waits only for the bus.                 *)
WriteBack(Below(_, _, _, _, _, _, _), h, n, repl, s, start, at, c, random) ==
  LET r == blk_access(Below, Booked(h, n, at + start), n, "Write",
                      CACHE_MK_BADDR(hierarchy.caches[n], repl.tag, s), at + start, c, random)
  IN [h |-> r.h, lat |-> start + r.lat]
WrittenBack(Below(_, _, _, _, _, _, _), h, n, repl, s, at, c, random) ==
  IF ~repl.valid THEN [h |-> h, lat |-> 0]
  ELSE IF ~repl.dirty THEN [h |-> h, lat |-> Max({0, repl.ready - at})]
  ELSE WriteBack(Below, h, n, repl, s, Max({0, repl.ready - at, Bus(h, n) - at}), at, c, random)

(* The way is the new block's before the fill is asked for. *)
Retagged(h, n, addr, c, way) ==
  LET p == hierarchy.caches[n]
  IN [h EXCEPT !.caches[n].sets[set(p, addr)][way] =
        [@ EXCEPT !.tag = tag(p, addr), !.context_id = c, !.valid = TRUE, !.dirty = FALSE]]

(* The fill has come. *)
Installed(fill, n, way, s, cmd, ready) ==
  [fill.h EXCEPT !.caches[n].sets[s] =
     LET filled == [@ EXCEPT ![way].dirty = (cmd = "Write"), ![way].ready = ready]
     IN IF hierarchy.caches[n].policy = "r" THEN filled ELSE ToHead(filled, way)]

(* Of a miss: the time until the fill is there, and the block then. *)
Ready(fill, lat, n, cmd, addr, at, way) ==
  [h |-> Installed(fill, n, way, set(hierarchy.caches[n], addr), cmd, at + lat), lat |-> lat]
Filled(fill, out, start, n, cmd, addr, at, way) ==
  Ready(fill, Max({out.lat, start - at + fill.lat}), n, cmd, addr, at, way)
Fill(Below(_, _, _, _, _, _, _), out, start, n, cmd, addr, at, c, way, random) ==
  Filled(blk_access(Below, Booked(Retagged(out.h, n, addr, c, way), n, start), n, "Read",
                    CACHE_BADDR(hierarchy.caches[n], addr), start, c, random),
         out, start, n, cmd, addr, at, way)
Replace(Below(_, _, _, _, _, _, _), out, repl, n, cmd, addr, at, c, way, random) ==
  Fill(Below, out, Max({at, FillStart(out.h, n, repl)}), n, cmd, addr, at, c, way, random)

(* An access at the time `at`; random.way is what myrand returns, and what *)
(* it returns in the accesses of the next cache that write a block back    *)
(* and fill one is random.Write and random.Read.                           *)
accessed(Below(_, _, _, _, _, _, _), h, n, cmd, addr, at, c, random) ==
  LET p == hierarchy.caches[n]
      s == set(p, addr)
      blocks == h.caches[n].sets[s]
      w == Found(p, blocks, addr, c)
      way == IF p.policy = "r" THEN 1 + (random.way % p.assoc) ELSE Len(blocks)
  IN IF w # 0
     THEN [h |-> [h EXCEPT !.caches[n].sets[s] = Hit(p, blocks, w, cmd)],
           lat |-> Max({p.hit_latency, blocks[w].ready - at})]
     ELSE Replace(Below, WrittenBack(Below, h, n, blocks[way], s, at, c, random),
                  blocks[way], n, cmd, addr, at, c, way, random)

(* The three levels there are: nothing is behind the third (dl3, il3).     *)
third_access(h, n, cmd, addr, at, c, random) ==
  accessed(memory_access, h, n, cmd, addr, at, c, random)
second_access(h, n, cmd, addr, at, c, random) ==
  accessed(third_access, h, n, cmd, addr, at, c, random)
cache_access(h, n, cmd, addr, at, c, random) ==
  accessed(second_access, h, n, cmd, addr, at, c, random)
-----------------------------------------------------------------------------
Now == [caches |-> caches, banks |-> banks, unsaved |-> unsaved]
None == "none"                             \* dtlb is NULL

Ahead(h) ==
  Max({h.caches[n].bus_free : n \in Names} \cup {h.banks[b].until : b \in DOMAIN h.banks}
        \cup {b.ready : b \in UNION {UNION {ToSet(h.caches[n].sets[s]) :
                                             s \in DOMAIN h.caches[n].sets} : n \in Names}})

(* The cache and, at the same time, the TLB; the longer of the two counts. *)
Longer(r, t) == [h |-> t.h, lat |-> Max({r.lat, t.lat})]
WithTLB(r, addr, c, walk) ==
  IF hierarchy.dtlb[c] = None THEN r
  ELSE Longer(r, cache_access(r.h, hierarchy.dtlb[c], "Read", addr, 0, c, walk))
Both(n, cmd, addr, c, random, walk) ==
  WithTLB(cache_access(Now, n, cmd, addr, 0, c, random), addr, c, walk)

Becomes(h) ==
  /\ Ahead(h) <= hierarchy.MaxBehind
  /\ caches' = h.caches /\ banks' = h.banks /\ unsaved' = h.unsaved

(* selection, of a load that no store in the queue forwards to. *)
Load(c, addr, random, walk) ==
  /\ "load" \in hierarchy.Uses
  /\ Becomes(Both(hierarchy.dl1[c], "Read", addr, c, random, walk).h)
  /\ UNCHANGED <<hierarchy, warming, write_buf>>

(* fetch *)
FetchInst(c, addr, random) ==
  /\ "fetch" \in hierarchy.Uses
  /\ Becomes(cache_access(Now, hierarchy.il1[c], "Read", addr, 0, c, random).h)
  /\ UNCHANGED <<hierarchy, warming, write_buf>>

(* commit: a full buffer gives up the writes that have ended; a store that *)
(* ends when another does shares its entry.                                *)
Entries(buf) == buf.old + Cardinality(buf.at)
Purged(buf) == IF Entries(buf) = hierarchy.write_buf_size THEN [buf EXCEPT !.old = 0] ELSE buf

Stored(r, c, addr) ==
  LET core == hierarchy.core[c]
      buf == Purged(write_buf[core])
      room == Entries(buf) < hierarchy.write_buf_size
  IN /\ IF warming
        THEN write_buf' = write_buf
        ELSE write_buf' = [write_buf EXCEPT ![core] =
                             IF room THEN [buf EXCEPT !.at = @ \cup {r.lat}] ELSE buf]
     /\ IF warming \/ room
        THEN Becomes([r.h EXCEPT !.unsaved = @ \cup {<<c, addr>>}])
        ELSE UNCHANGED <<caches, banks, unsaved>>

Store(c, addr, random, walk) ==
  /\ "store" \in hierarchy.Uses
  /\ Stored(Both(hierarchy.dl1[c], "Write", addr, c, random, walk), c, addr)
  /\ UNCHANGED <<hierarchy, warming>>

(* The next cycle. *)
Passed(blocks) == [w \in DOMAIN blocks |-> [blocks[w] EXCEPT !.ready = Max({0, @ - 1})]]
Tick ==
  /\ ~warming
  /\ caches' = [n \in Names |->
       [sets |-> [s \in DOMAIN caches[n].sets |-> Passed(caches[n].sets[s])],
        bus_free |-> Max({0, caches[n].bus_free - 1})]]
  /\ banks' = Later(banks)
  /\ write_buf' = [k \in Cores |->
       LET buf == write_buf[k]
       IN [old |-> buf.old + Cardinality(buf.at \cap {0}),
           at |-> {t - 1 : t \in buf.at \ {0}}]]
  /\ UNCHANGED <<hierarchy, warming, unsaved>>

(* reset_cache_stats, at the switch to timing: only times are forgotten.   *)
StartTiming ==
  /\ warming /\ warming' = FALSE
  /\ caches' = [n \in Names |->
       [sets |-> [s \in DOMAIN caches[n].sets |->
                   [w \in DOMAIN caches[n].sets[s] |->
                     [caches[n].sets[s][w] EXCEPT !.ready = 0]]],
        bus_free |-> 0]]
  /\ banks' = reset(banks)
  /\ UNCHANGED <<hierarchy, write_buf, unsaved>>
-----------------------------------------------------------------------------
Init ==
  /\ hierarchy \in Hierarchies
  /\ warming = TRUE
  /\ caches = [n \in Names |->
       [sets |-> [s \in 0 .. hierarchy.caches[n].nsets - 1 |->
                   [w \in 1 .. hierarchy.caches[n].assoc |-> NewBlock]],
        bus_free |-> 0]]
  /\ banks = NewBanks(hierarchy.memory)
  /\ write_buf = [k \in Cores |-> [old |-> 0, at |-> {}]]
  /\ unsaved = {}

(* What myrand may return in an access of n and those that it leads to. *)
Ways(n) == IF n \in Names /\ hierarchy.caches[n].policy = "r"
           THEN 0 .. hierarchy.caches[n].assoc - 1 ELSE {0}
BehindIt(n) == IF n \in Names THEN hierarchy.caches[n].next ELSE n
ThirdDraws(n) == [way : Ways(n)]
SecondDraws(n) ==
  [way : Ways(n), Write : ThirdDraws(BehindIt(n)), Read : ThirdDraws(BehindIt(n))]
Draws(n) ==
  [way : Ways(n), Write : SecondDraws(BehindIt(n)), Read : SecondDraws(BehindIt(n))]

Access ==
  \E c \in Contexts, addr \in hierarchy.Addresses :
    \/ \E random \in Draws(hierarchy.dl1[c]), walk \in Draws(hierarchy.dtlb[c]) :
         Load(c, addr, random, walk) \/ Store(c, addr, random, walk)
    \/ \E random \in Draws(hierarchy.il1[c]) : FetchInst(c, addr, random)

Next == Access \/ Tick \/ StartTiming

Spec == Init /\ [][Next]_vars
-----------------------------------------------------------------------------
Blocks(n) == UNION {ToSet(caches[n].sets[s]) : s \in DOMAIN caches[n].sets}

(* No set holds a block twice for the same context. *)
OneCopy(blocks) ==
  \A v, w \in DOMAIN blocks :
    v # w /\ blocks[v].valid /\ blocks[w].valid =>
      <<blocks[v].tag, blocks[v].context_id>> # <<blocks[w].tag, blocks[w].context_id>>

(* Type invariant: every set keeps its ways, and times are bounded by what *)
(* an access may book.                                                     *)
TypeOK ==
  /\ \A n \in Names : \A s \in DOMAIN caches[n].sets :
       Len(caches[n].sets[s]) = hierarchy.caches[n].assoc
  /\ Ahead(Now) <= hierarchy.MaxBehind
  /\ \A k \in Cores : Entries(write_buf[k]) <= hierarchy.write_buf_size
  /\ \A n \in Names : \A s \in DOMAIN caches[n].sets : OneCopy(caches[n].sets[s])

(* A store is in a dirty block until it has been written to main memory.   *)
(* This is so with one context: with two, a block is written back under    *)
(* the context that replaces it (cache_access), not the one it belongs to. *)
NoLostWrite ==
  Cardinality(Contexts) = 1 => \A u \in unsaved : \E n \in Names : DirtyIn(Now, n, u)

(* A store dirties a block, and it is lost in one way only: of a block     *)
(* that held it, the place is taken by one that another context brings in, *)
(* in a set of any level (write-back and fill of cache_access).  With one  *)
(* context this never happens, which is NoLostWrite.                       *)
Kept(u) == \E n \in Names : DirtyIn(Now, n, u)
Brought(n, s, c) ==
  \E b \in ToSet(caches'[n].sets[s]) :
    /\ b.valid /\ b.context_id # c
    /\ \A d \in ToSet(caches[n].sets[s]) :
         <<d.valid, d.tag, d.context_id>> # <<TRUE, b.tag, b.context_id>>
LostToOthers(u) ==
  \E n \in Names : DirtyIn(Now, n, u) /\ Brought(n, set(hierarchy.caches[n], u[2]), u[1])
StoresKept ==
  [][/\ \A u \in unsaved' \ unsaved : Kept(u)'
     /\ \A u \in unsaved \cap unsaved' : Kept(u) => Kept(u)' \/ LostToOthers(u)]_vars

(* A block is not replaced before its fill has ended: the block that takes *)
(* its place is ready later (the comment in cache_access).                 *)
FilledBeforeReplaced ==
  [][\A n \in Names : \A s \in DOMAIN caches[n].sets :
       LET before == caches[n].sets[s]
           after == caches'[n].sets[s]
       IN \A w \in DOMAIN before :
            before[w].valid /\ ~(\E v \in DOMAIN after : after[v].tag = before[w].tag
                                   /\ after[v].context_id = before[w].context_id)
              => \E v \in DOMAIN after : after[v].ready > before[w].ready]_vars

(* A bank serves one transfer after the other: each access that it takes   *)
(* part in moves the end of its work by a transfer at least.               *)
BankInOrder ==
  [][\A b \in DOMAIN banks :
       warming' = warming /\ banks' # Later(banks) /\ banks'[b] # banks[b] =>
         banks'[b].until >= banks[b].until + hierarchy.memory.from_dram]_vars

(* With LRU replacement the data cache of a context holds the blocks used  *)
(* last, in the order of their use, through all misses and hits.           *)
FirstCache == hierarchy.dl1[Min(Contexts)]
Recency == INSTANCE RecencyList WITH
  Blank <- <<0, Nobody>>,
  lists <- IF hierarchy.caches[FirstCache].policy # "l" THEN <<>>
           ELSE [s \in DOMAIN caches[FirstCache].sets |->
                  [w \in DOMAIN caches[FirstCache].sets[s] |->
                    <<caches[FirstCache].sets[s][w].tag,
                      caches[FirstCache].sets[s][w].context_id>>]]
CacheIsLRU == Recency!Spec
=============================================================================
