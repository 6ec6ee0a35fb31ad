----------------------------- MODULE MCMachine ------------------------------
(***************************************************************************)
(* The parts of a simulated core beside renaming and scheduling, on small  *)
(* instances.  They share no state with each other, so a behaviour is one  *)
(* of a single part, the others standing at an initial state, and the      *)
(* states of the run add up.                                               *)
(***************************************************************************)
EXTENDS Integers, Sequences

CONSTANT Parts,          \* the components explored
         FetchCores, Tables, Hierarchies, Windows, Chips   \* what they are tried on

(* A pool has a list of descriptors, each with how many units it stands    *)
(* for and the issue latencies of the classes they serve (fu_config).      *)
IsPool(pool) ==
  LET n == Len(pool)
  IN /\ n \in Nat /\ pool = [d \in 1 .. n |-> pool[d]]
     /\ \A d \in 1 .. n : /\ pool[d].quantity \in Nat
                         /\ \A r \in DOMAIN pool[d].x : pool[d].x[r] \in Nat

ASSUME ChipsAssumption == \A c \in Chips : IsPool(c.pool)

(* A core has an IFQ and a program, whose direct jumps stay in it.         *)
IsCore(k) ==
  /\ k.NumContexts \in Nat /\ k.IFQSize \in Nat \ {0} /\ k.ROBSize \in Nat
  /\ k.MaxDelay \in Nat /\ k.Widths \subseteq Nat
  /\ k.Code \in Seq({"int", "fp", "nop", "jump", "indirect", "trap"}) /\ k.Code # <<>>
  /\ \A p \in DOMAIN k.Code : k.Code[p] = "jump" => k.Target[p] \in DOMAIN k.Code

ASSUME CoresAssumption == \A k \in FetchCores : IsCore(k)

(* A predictor is met by branches of the kinds it tells apart.             *)
IsPredictor(t) ==
  /\ t.retstack_size \in Nat
  /\ t.Branches \subseteq Nat \X {"branch", "jump", "ijump", "call", "icall", "return"}

ASSUME TablesAssumption == \A t \in Tables : IsPredictor(t)

(* A context has a ROB and an LSQ, whose sizes an unsigned number can hold *)
(* twice, and runs opcodes that get_reg_set knows.                         *)
Opcodes == {"add", "branch", "jsr", "wruniq", "callsys", "addt", "mt_fpcr", "mf_fpcr",
            "ldl", "ldl_l", "stl", "stq", "stl_c"}
IsWindow(w) ==
  /\ w.ROB \in Nat \ {0} /\ w.LSQ \in Nat \ {0} /\ w.UINT \in Nat
  /\ 2 * w.ROB <= w.UINT /\ 2 * w.LSQ <= w.UINT
  /\ w.Ops \subseteq Opcodes

ASSUME WindowsAssumption == \A w \in Windows : IsWindow(w)

(* Caches are at most three behind each other, blocks fit into those of    *)
(* the cache behind (cache_access would stop), and what is last asks main  *)
(* memory or, for a TLB, translates.                                       *)
BehindOf(y, n) == y.caches[n].next
Depth(y, n) ==
  IF BehindOf(y, n) \notin DOMAIN y.caches THEN 1
  ELSE IF BehindOf(y, BehindOf(y, n)) \notin DOMAIN y.caches THEN 2 ELSE 3
Last(y, n) ==
  IF Depth(y, n) = 1 THEN n ELSE IF Depth(y, n) = 2 THEN BehindOf(y, n) ELSE BehindOf(y, BehindOf(y, n))
IsCache(y, n) ==
  LET p == y.caches[n]
  IN /\ p.nsets \in Nat \ {0} /\ p.assoc \in Nat \ {0} /\ p.bsize \in Nat \ {0}
     /\ BehindOf(y, Last(y, n)) \in {"memory", "translation"} \ DOMAIN y.caches
     /\ p.next \in DOMAIN y.caches => y.caches[p.next].bsize % p.bsize = 0
IsHierarchy(y) ==
  /\ \A n \in DOMAIN y.caches : IsCache(y, n)
  /\ y.dl1 \in Seq(DOMAIN y.caches) /\ y.il1 \in Seq(DOMAIN y.caches)
  /\ DOMAIN y.il1 = DOMAIN y.dl1 /\ DOMAIN y.dtlb = DOMAIN y.dl1
  /\ \A c \in DOMAIN y.dl1 :
       /\ BehindOf(y, Last(y, y.dl1[c])) = "memory"
       /\ y.dtlb[c] # "none" => /\ y.dtlb[c] \in DOMAIN y.caches
                                /\ BehindOf(y, Last(y, y.dtlb[c])) = "translation"
  /\ y.Addresses \subseteq Nat

ASSUME HierarchiesAssumption == \A y \in Hierarchies : IsHierarchy(y)

VARIABLES part,
  core, contexts, phase, left, width, fetched, fetchedfrom, discontinuous,
  sim_cycle, taken,
  setup, counter, shiftregs, btb_data, tos, stack, inflight, calls, drift,
  recent, met, warmed,
  hierarchy, warming, caches, banks, write_buf, unsaved,
  window, cxt, spec_mode, lock, committed, renamed,
  chip, fu_pool, releases, started, stage, events, cycles, accesses, pops, power,
  clock_power, cycle_power, access_stats

F == INSTANCE Fetch WITH Cores <- FetchCores

(* The mask of the fetch queues, bit by bit: s + 1 and n - 1.              *)
Bit(x, k) == (x \div 2^k) % 2
ASSUME MaskIsAnd ==
  \A n \in 1 .. 64, k \in 0 .. 6 : \A s \in 0 .. F!RingOf(n) - 1 :
    Bit(F!MaskedBy(n, s), k) = Bit(s + 1, k) * Bit(n - 1, k)
B == INSTANCE Predictors
M == INSTANCE Cache
P == INSTANCE PreciseState
W == INSTANCE Power

-----------------------------------------------------------------------------
(* Fetch *)
Core(n, iq, ifq, rob, widths, policy, perfect, code, target, d) ==
  [NumContexts |-> n, IQSize |-> iq, RFSize |-> 2, IFQSize |-> ifq, ROBSize |-> rob,
   NotDispatched |-> 1, Widths |-> widths, policy |-> policy, pred_perfect |-> perfect,
   Code |-> code, Target |-> target, MaxDelay |-> d, MaxActivity |-> 1]

Here(p) == [q \in {1} |-> p]       \* where the jump at address 1 goes

Ring == Core(1, 2, 4, 1, {0, 3}, "rr", FALSE, <<"jump", "indirect">>, Here(1), 0)
Gated == Core(2, 1, 1, 2, {1, 2}, "dcra", FALSE, <<"int", "fp">>, <<>>, 1)
Three == Core(3, 1, 1, 1, {4}, "icount", TRUE, <<"jump">>, Here(1), 0)
Trap == Core(1, 1, 2, 2, {2}, "rr", FALSE, <<"jump", "nop", "trap">>, Here(1), 0)

(* Queues of which the mask reaches a part. *)
Odd == Core(1, 1, 3, 1, {3}, "rr", FALSE, <<"nop", "indirect">>, <<>>, 0)
Six == Core(1, 1, 6, 1, {6}, "rr", FALSE, <<"int", "jump">>, [q \in {2} |-> 1], 0)

AllCores == {Ring, Gated, Three, Trap, Odd}
OddCores == {Six}
-----------------------------------------------------------------------------
(* Predictors *)
Plain == [kind |-> "bimod", l1size |-> 1, l2size |-> 1, shift_width |-> 1, XOR |-> FALSE,
          bimod_size |-> 1, meta_size |-> 1, sets |-> 1, assoc |-> 1, retstack_size |-> 0,
          update_at |-> "WB", Branches |-> {<<2, "branch">>, <<3, "jump">>},
          Targets |-> {2}, MaxInFlight |-> 2, MaxCalls |-> 1, MaxBranches |-> 3,
          MaxWarm |-> 0]

ReturnStack ==
  [Plain EXCEPT !.retstack_size = 2, !.update_at = "CT", !.Targets = {2, 5},
                !.Branches = {<<2, "branch">>, <<3, "call">>, <<4, "return">>},
                !.MaxCalls = 3, !.MaxBranches = 5]
Buffer ==
  [Plain EXCEPT !.kind = "2lev", !.l1size = 2, !.l2size = 4, !.XOR = TRUE, !.assoc = 4,
                !.update_at = "CT", !.MaxInFlight = 1, !.MaxBranches = 6,
                !.Branches = {<<2, "jump">>, <<3, "jump">>, <<4, "icall">>,
                              <<5, "ijump">>, <<6, "jump">>}]
Combined ==
  [Plain EXCEPT !.kind = "comb", !.l2size = 4, !.shift_width = 2, !.bimod_size = 2,
                !.sets = 2, !.Targets = {5}, !.MaxBranches = 4,
                !.Branches = {<<2, "branch">>, <<3, "branch">>, <<4, "jump">>}]
AtRename == [Combined EXCEPT !.kind = "2lev", !.update_at = "ID", !.MaxBranches = 4]
Taken == [Plain EXCEPT !.kind = "taken"]
NotTaken == [Plain EXCEPT !.kind = "nottaken"]

(* the same after a fast-forward *)
Warm == [ReturnStack EXCEPT !.MaxWarm = 2, !.MaxBranches = 3]
WarmTables == [Combined EXCEPT !.MaxWarm = 1, !.MaxBranches = 3]

AllTables == {ReturnStack, Warm, WarmTables, Buffer, Combined, AtRename, Taken, NotTaken}
-----------------------------------------------------------------------------
(* Cache *)
Cache(nsets, assoc, bsize, policy, next) ==
  [nsets |-> nsets, assoc |-> assoc, bsize |-> bsize, policy |-> policy,
   hit_latency |-> 1, next |-> next]

Chunks == [kind |-> "chunk", mem_lat |-> 1, mem_chunk_lat |-> 1, num_banks |-> 1,
           row_size |-> 1]
TwoBanks == [kind |-> "basic", to_dram |-> 1, from_dram |-> 2, pre |-> 1, closed |-> 1,
             conflict |-> 1, num_banks |-> 2, row_size |-> 1]

\* stores through two levels, with blocks of two sizes
TwoLevels ==
  [caches |-> [dl1 |-> Cache(1, 2, 1, "l", "dl2"), dl2 |-> Cache(1, 1, 2, "f", "memory")],
   dl1 |-> <<"dl1">>, il1 |-> <<"dl2">>, dtlb |-> <<"none">>, core |-> <<1>>,
   memory |-> Chunks, tlb_miss_lat |-> 1, write_buf_size |-> 1,
   Addresses |-> {0, 2, 3}, Uses |-> {"load", "store"}, MaxBehind |-> 4]
\* three levels, the second with random replacement
ThreeLevels ==
  [caches |-> [dl1 |-> Cache(1, 1, 1, "l", "dl2"), dl2 |-> Cache(1, 2, 1, "r", "dl3"),
               dl3 |-> Cache(2, 1, 2, "l", "memory")],
   dl1 |-> <<"dl1">>, il1 |-> <<"dl2">>, dtlb |-> <<"none">>, core |-> <<1>>,
   memory |-> Chunks, tlb_miss_lat |-> 1, write_buf_size |-> 1,
   Addresses |-> {0, 2, 4}, Uses |-> {"store"}, MaxBehind |-> 6]
\* two contexts of a core, random replacement, a TLB
TwoContexts ==
  [caches |-> [dl1 |-> Cache(1, 2, 1, "r", "memory"), tlb |-> Cache(1, 1, 2, "l", "translation")],
   dl1 |-> <<"dl1", "dl1">>, il1 |-> <<"dl1", "dl1">>, dtlb |-> <<"tlb", "none">>,
   core |-> <<1, 1>>, memory |-> Chunks, tlb_miss_lat |-> 1, write_buf_size |-> 1,
   Addresses |-> {0, 2}, Uses |-> {"store"}, MaxBehind |-> 2]
\* two cores that share the last level and the banks of main memory
TwoCores ==
  [caches |-> [one |-> Cache(2, 1, 1, "l", "dl3"), two |-> Cache(1, 1, 1, "l", "dl3"),
               dl3 |-> Cache(1, 2, 2, "l", "memory")],
   dl1 |-> <<"one", "two">>, il1 |-> <<"one", "two">>, dtlb |-> <<"none", "none">>,
   core |-> <<1, 2>>, memory |-> TwoBanks, tlb_miss_lat |-> 1, write_buf_size |-> 1,
   Addresses |-> {0, 2}, Uses |-> {"fetch"}, MaxBehind |-> 11]

\* two contexts over two levels
SharedLevels ==
  [TwoLevels EXCEPT !.caches = [dl1 |-> Cache(1, 1, 1, "l", "dl2"),
                                dl2 |-> Cache(1, 2, 1, "l", "memory")],
                    !.dl1 = <<"dl1", "dl1">>, !.il1 = <<"dl2", "dl2">>,
                    !.dtlb = <<"none", "none">>, !.core = <<1, 1>>,
                    !.Addresses = {0, 2}, !.Uses = {"load", "store"}, !.MaxBehind = 3]

AllHierarchies == {TwoLevels, ThreeLevels, TwoContexts, SharedLevels, TwoCores}
-----------------------------------------------------------------------------
(* Precise state *)
Window(rob, lsq, ops, n) ==
  [ROB |-> rob, LSQ |-> lsq, UINT |-> 16, Ops |-> ops, MaxInsts |-> n]

AllWindows ==
  {Window(3, 2, {"add", "stl", "stq", "branch"}, 5),
   Window(2, 2, {"ldl", "ldl_l", "stl_c", "branch"}, 5),
   Window(3, 1, {"addt", "mt_fpcr", "wruniq", "branch"}, 5),
   Window(3, 1, {"mt_fpcr", "mf_fpcr", "branch"}, 5),
   Window(2, 1, {"callsys", "jsr", "stq"}, 5)}
-----------------------------------------------------------------------------
(* Functional units and power *)
Pool == <<[quantity |-> 1, x |-> [IntALU |-> 1]],
          [quantity |-> 1, x |-> [IntMULT |-> 1, IntDIV |-> 2]],
          [quantity |-> 1, x |-> [RdPort |-> 1, WrPort |-> 1]],
          [quantity |-> 2, x |-> [FloatADD |-> 1]],
          [quantity |-> 1, x |-> [FloatDIV |-> 3]]>>

Chip(classes, e, c) ==
  [pool |-> Pool, classes |-> classes, decode_width |-> 1, issue_width |-> 1,
   commit_width |-> 1, res_ialu |-> 1, res_fpalu |-> 2, res_memport |-> 1,
   MaxEvents |-> e, MaxCycles |-> c]

AllChips == {Chip({"IntALU", "RdPort"}, 2, 1), Chip({"IntMULT", "IntDIV"}, 2, 2),
             Chip({"FloatADD", "FloatDIV"}, 2, 2)}
-----------------------------------------------------------------------------
fetching == <<core, contexts, phase, left, width, fetched, fetchedfrom,
              discontinuous, sim_cycle, taken>>
predicting == <<setup, counter, shiftregs, btb_data, tos, stack, inflight, calls,
                drift, recent, met, warmed>>
caching == <<hierarchy, warming, caches, banks, write_buf, unsaved>>
undoing == <<window, cxt, spec_mode, lock, committed, renamed>>
powering == <<chip, fu_pool, releases, started, stage, events, cycles, accesses, pops,
              power, clock_power, cycle_power, access_stats>>

Init ==
  /\ part \in Parts
  /\ F!Init /\ B!Init /\ M!Init /\ P!Init /\ W!Init
  /\ part # "fetch" => core = CHOOSE c \in FetchCores : TRUE
  /\ part # "predictors" => setup = CHOOSE t \in Tables : TRUE
  /\ part # "caches" => hierarchy = CHOOSE h \in Hierarchies : TRUE
  /\ part # "state" => window = CHOOSE w \in Windows : TRUE
  /\ part # "power" => chip = CHOOSE c \in Chips : TRUE

FetchStep ==
  part = "fetch" /\ F!Next /\ UNCHANGED <<part, predicting, caching, undoing, powering>>
PredictorsStep ==
  part = "predictors" /\ B!Next /\ UNCHANGED <<part, fetching, caching, undoing, powering>>
CachesStep ==
  part = "caches" /\ M!Next /\ UNCHANGED <<part, fetching, predicting, undoing, powering>>
StateStep ==
  part = "state" /\ P!Next /\ UNCHANGED <<part, fetching, predicting, caching, powering>>
PowerStep ==
  part = "power" /\ W!Next /\ UNCHANGED <<part, fetching, predicting, caching, undoing>>

vars == <<part, fetching, predicting, caching, undoing, powering>>
Next == FetchStep \/ PredictorsStep \/ CachesStep \/ StateStep \/ PowerStep
Spec == Init /\ [][Next]_vars
(* A call of fetch ends. *)
FairSpec ==
  Spec /\ WF_vars(/\ part = "fetch" /\ F!FetchSteps
                  /\ UNCHANGED <<part, predicting, caching, undoing, powering>>)

(* The properties of the components that are checked here: invariants on   *)
(* the states of their part, the other states being initial ones.          *)

(* The type invariant of the component explored. *)
TypeOK == CASE part = "fetch" -> F!TypeOK
            [] part = "predictors" -> B!TypeOK
            [] part = "caches" -> M!TypeOK
            [] part = "state" -> P!TypeOK
            [] part = "power" -> W!TypeOK

(* icount and the counters of DCRA are what a context has in flight (Fetch). *)
CountersMatch == part = "fetch" => F!CountersMatch

(* What is renamed off a wrong path is the program's next instruction, if  *)
(* the mask of the queue reaches every slot, and a recovery goes where the *)
(* wrong path began (Fetch).                                               *)
OnPath == part = "fetch" => F!OnPath /\ F!RecoverAgrees

(* Fetch does not overflow its queue (Fetch): false of the code.           *)
NoOverwrite == F!NoOverwrite

(* One call of fetch takes nothing behind a branch predicted taken, and    *)
(* DCRA leaves no context out for ever (Fetch).                            *)
FetchCalls == F!OnePathPerCall /\ F!Ungated

(* Two outcomes in a row decide a prediction, and the return stack follows *)
(* the calls that are open (Predictors).                                   *)
PredictorsSound == part = "predictors" => B!TwoInARow /\ B!StackDepth

(* A store is in a dirty block until main memory has it (Cache). *)
NoLostWrite == part = "caches" => M!NoLostWrite

(* A store dirties a block, and of contexts that share caches one loses it *)
(* only to a block of another (Cache).                                     *)
StoresKept == M!StoresKept

(* A block is not replaced before it is filled, and a bank serves one      *)
(* transfer after the other (Cache).                                       *)
ServedInOrder == M!FilledBeforeReplaced /\ M!BankInOrder

(* The sets of the BTB and of caches with LRU replacement are recency      *)
(* lists (Predictors, Cache, RecencyList).                                 *)
SetsAreLRU == B!BtbIsLRU /\ M!CacheIsLRU

(* Registers and memory hold what committed and what is in flight wrote    *)
(* (PreciseState).                                                         *)
StateIsPrecise == part = "state" => P!StateIsPrecise

(* A functional unit serves one operation at a time and is refused only    *)
(* while it does (Units).                                                  *)
UnitsSound == part = "power" => W!UnitsSound

(* Gated charges are ordered and bounded by the ports, and the sums of     *)
(* what the parts are charged agree (Power).                               *)
PowerSound == part = "power" => W!PowerSound
=============================================================================
