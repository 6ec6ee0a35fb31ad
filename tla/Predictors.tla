----------------------------- MODULE Predictors -----------------------------
(***************************************************************************)
(* A branch predictor of one context: the direction tables (bpred_bimodal, *)
(* bpred_two_level, bpred_combining), the branch target buffer (btb.c) and *)
(* the return stack (retstack.c), with the branches in flight between the  *)
(* look-up at fetch and the update at writeback or commit.                 *)
(*                                                                         *)
(* Addresses count instructions.  Which branches a program meets and how   *)
(* they turn out is left open, returns excepted: they go where the call    *)
(* came from.  Statistics are left out.                                    *)
(***************************************************************************)
EXTENDS Integers, Sequences, FiniteSets, FiniteSetsExt, SequencesExt, TLC

CONSTANT Tables  \* the predictors tried, each a record of
                 \*   kind: "2lev", "bimod", "comb", "taken" or "nottaken"
                 \*   l1size, l2size, shift_width, XOR; bimod_size, meta_size
                 \*   sets, assoc, retstack_size
                 \*   update_at: "ID", "WB" or "CT" (bpred_spec_update)
                 \*   Branches: the branches met: <<address, kind>>
                 \*   Targets: where those but returns may go
                 \*   MaxInFlight, MaxCalls, MaxBranches: bounds
                 \*   MaxWarm: bound on the branches of the fast-forward

VARIABLE setup   \* the one of a behaviour

VARIABLES
  counter,    \* of each table and index, a two-bit counter
  shiftregs,  \* the histories of the two-level table
  btb_data,   \* of each index, addr, target, and the links prev and next
  tos, stack, \* the return stack
  inflight,   \* the branches between fetch and commit, oldest first
  calls,      \* history: the return addresses the program has pending
  drift,      \* history: what mispredicted calls and returns did to tos
  recent,     \* history: the last two outcomes each counter was given
  met,        \* branches met so far
  warmed      \* branches of the fast-forward, before any other

vars == <<setup, counter, shiftregs, btb_data, tos, stack, inflight, calls, drift,
          recent, met, warmed>>

(* kinds of branches: "branch" has a condition; the others are F_UNCOND,   *)
(* "ijump" and "return" are MD_IS_INDIR, "call" and "icall" MD_IS_CALL.    *)
Uncond == {"jump", "ijump", "call", "icall", "return"}
Calls == {"call", "icall"}
Indirect == {"ijump", "icall", "return"}

NoEntry == -1                             \* NULL
NoPrediction == 0                         \* not taken
AnyTarget == 1                            \* taken, to an unknown address
After(pc) == pc + 1                       \* addresses of branches are from 2 on
-----------------------------------------------------------------------------
(* Direction: a reference to a counter, or NULL for jumps. *)
None == <<"none", 0>>

get_index_2bit(name, size, pc) == <<name, pc % size>>

(* The exclusive or of the low bits of two numbers. *)
Xor(a, b, bits) ==
  MapThenSumSet(LAMBDA i : 2 ^ i,
                {i \in 0 .. bits - 1 : (a \div 2 ^ i) % 2 # (b \div 2 ^ i) % 2})

(* The history joins the address from below.  Addresses are small, so that *)
(* the high bits that the index of bimod mixes in are 0.                   *)
get_index_2lev(pc) ==
  LET w == 2 ^ setup.shift_width
      hist == shiftregs[pc % setup.l1size]
      low == IF setup.XOR THEN Xor(hist, pc, setup.shift_width) ELSE hist
  IN <<"2lev", (low + (pc * w)) % setup.l2size>>

Predicts(ref) == counter[ref] >= 2

Dirs(p1, p2, m) == [pdir1 |-> p1, pdir2 |-> p2, pmeta |-> m,
                    bimod |-> FALSE, twolev |-> FALSE]

lookup_2bit(pc) == Dirs(get_index_2bit("bimod", setup.bimod_size, pc), None, None)
lookup_2lev(pc) == Dirs(get_index_2lev(pc), None, None)
lookup_comb(pc) ==
  LET b == get_index_2bit("bimod", setup.bimod_size, pc)
      m == get_index_2bit("meta", setup.meta_size, pc)
      t == get_index_2lev(pc)
      dirs == IF Predicts(m) THEN Dirs(t, b, m) ELSE Dirs(b, t, m)
  IN [dirs EXCEPT !.bimod = Predicts(b), !.twolev = Predicts(t)]

Directions(pc, kind) ==
  CASE kind \in Uncond       -> Dirs(None, None, None)
    [] setup.kind = "bimod"  -> lookup_2bit(pc)
    [] setup.kind = "2lev"   -> lookup_2lev(pc)
    [] setup.kind = "comb"   -> lookup_comb(pc)
    [] OTHER                 -> Dirs(None, None, None)
-----------------------------------------------------------------------------
(* The branch target buffer. *)
Set(pc) == pc % setup.sets
Ways(s) == s * setup.assoc .. (s + 1) * setup.assoc - 1

Match(pc) == {i \in Ways(Set(pc)) : btb_data[i].addr = pc}
find_pbtb(pc) == IF Match(pc) = {} THEN NoEntry ELSE Min(Match(pc))

MRU(s) == CHOOSE i \in Ways(s) : btb_data[i].prev = NoEntry
LRU(s) == CHOOSE i \in Ways(s) : btb_data[i].next = NoEntry

(* The entry behind keeps its link to the one that left (for a mutant).    *)
HalfCut(d, i, head) ==
  LET before == d[i].prev
      cut == [d EXCEPT ![before].next = d[i].next]
  IN [cut EXCEPT ![i].next = head, ![i].prev = NoEntry, ![head].prev = i]

(* Takes an entry out of its list and puts it in front of the head. *)
MovedToFront(d, i, head) ==
  LET before == d[i].prev
      behind == d[i].next
      cut == [k \in DOMAIN d |->
                IF k = before THEN [d[k] EXCEPT !.next = behind]
                ELSE IF k = behind THEN [d[k] EXCEPT !.prev = before] ELSE d[k]]
  IN [cut EXCEPT ![i].next = head, ![i].prev = NoEntry, ![head].prev = i]

(* update_pbtb, of a branch taken, and update. *)
BtbUpdated(pc, target, correct) ==
  LET hit == find_pbtb(pc)
      i == IF hit # NoEntry THEN hit ELSE LRU(Set(pc))
      head == MRU(Set(pc))
      d == IF i = head THEN btb_data ELSE MovedToFront(btb_data, i, head)
  IN [d EXCEPT ![i].addr = pc,
               ![i].target = IF hit # NoEntry /\ correct THEN @ ELSE target]
-----------------------------------------------------------------------------
(* The return stack. *)
TOS == IF setup.retstack_size > 0 THEN tos ELSE 0
HasStack == setup.retstack_size > 0
Up(t) == (t + 1) % setup.retstack_size
Down(t) == (t + setup.retstack_size - 1) % setup.retstack_size

(* The address bpred_lookup returns. *)
Predicted(pc, kind, dirs, ras, static) ==
  LET entry == find_pbtb(pc)
      target == IF entry # NoEntry THEN btb_data[entry].target ELSE AnyTarget
  IN CASE setup.kind = "taken"    -> static
       [] setup.kind = "nottaken" -> IF kind \in Uncond THEN static ELSE After(pc)
       [] ras                     -> stack[tos]
       [] kind \in Uncond         -> target
       [] ~ras /\ kind \notin Uncond -> IF Predicts(dirs.pdir1) THEN target ELSE NoPrediction
-----------------------------------------------------------------------------
(* A branch is on the right path when none before it waits to recover. *)
Mispredicted(b) == b.next # b.pred_PC
OnRightPath == \A k \in DOMAIN inflight :
                 inflight[k].resolved \/ inflight[k].wrong \/ ~Mispredicted(inflight[k])

(* Where a branch goes: the outcome that will be found when it executes.   *)
Outcomes(pc, kind, right) ==
  CASE kind = "return" -> IF right THEN {calls[1]} ELSE setup.Targets
    [] kind = "branch" -> {After(pc)} \cup setup.Targets
    [] OTHER           -> setup.Targets

(* What the program has open. *)
Called(pc, kind) ==
  calls' = CASE kind \in Calls  -> <<After(pc)>> \o calls
             [] kind = "return" -> Tail(calls)
             [] OTHER           -> calls

(* A return pops the stack, a call pushes. *)
PoppedOrPushed(pc, kind, ras) ==
  IF ras THEN tos' = Down(tos) /\ UNCHANGED stack
  ELSE IF kind \in Calls /\ HasStack
       THEN tos' = Up(tos) /\ stack' = [stack EXCEPT ![Up(tos)] = After(pc)]
       ELSE UNCHANGED <<tos, stack>>

(* fetch: the target given to static predictors is 0, the instruction is   *)
(* not decoded yet; an address of 0 means the next instruction.            *)
bpred_lookup(pc, kind) ==
  LET dirs == Directions(pc, kind)
      ras == kind = "return" /\ HasStack
      pred == Predicted(pc, kind, dirs, ras, 0)
      right == OnRightPath
  IN /\ Len(inflight) < setup.MaxInFlight /\ met < setup.MaxBranches
     /\ right /\ kind \in Calls => Len(calls) < setup.MaxCalls
     /\ right /\ kind = "return" => calls # <<>>
     /\ met' = met + 1
     /\ \E next \in Outcomes(pc, kind, right) :
          /\ inflight' = Append(inflight,
               [PC |-> pc, kind |-> kind, dirs |-> dirs, ras |-> ras,
                pred_PC |-> IF pred = NoPrediction THEN After(pc) ELSE pred,
                next |-> next, stack_recover_idx |-> TOS,
                renamed |-> setup.update_at # "ID",
                resolved |-> FALSE, wrong |-> ~right])
          /\ IF right THEN Called(pc, kind) ELSE UNCHANGED calls
     /\ PoppedOrPushed(pc, kind, ras)
     /\ UNCHANGED <<setup, counter, shiftregs, btb_data, drift, recent, warmed>>

(* Counts beyond the two bits (for a mutant). *)
WrappedCount(n, taken) == IF taken THEN (n + 1) % 4 ELSE (n + 3) % 4

update_state(n, taken) ==
  IF taken THEN IF n < 3 THEN n + 1 ELSE n ELSE IF n > 0 THEN n - 1 ELSE n

(* The counters of the branch, and which way the meta counter goes: only   *)
(* if the two predictors disagreed.                                        *)
Trained(b, taken) ==
  LET d == b.dirs
  IN [r \in {d.pdir1, d.pdir2} \ {None} |-> taken] @@
     (IF d.pmeta # None /\ d.bimod # d.twolev THEN d.pmeta :> (d.twolev = taken) ELSE <<>>)

(* Keeps every outcome (for a mutant). *)
UncutHistory(pc, taken) ==
  [shiftregs EXCEPT ![pc % setup.l1size] = (2 * @) + (IF taken THEN 1 ELSE 0)]

update_table(pc, taken) ==
  [shiftregs EXCEPT ![pc % setup.l1size] =
     ((2 * @) + (IF taken THEN 1 ELSE 0)) % (2 ^ setup.shift_width)]

(* Which branches the two-level history is kept of: the combined predictor *)
(* keeps it of jumps as well.                                              *)
Recorded(b) ==
  setup.kind = "comb" \/ (setup.kind = "2lev" /\ b.kind \notin Uncond)

(* Nothing is learnt from a return that used the stack. *)
bpred_update(b) ==
  LET taken == b.next # After(b.PC)
      correct == ~Mispredicted(b)
      trained == Trained(b, taken)
  IN IF setup.kind \in {"taken", "nottaken"} \/ (b.kind \in Indirect /\ b.ras)
     THEN UNCHANGED <<counter, shiftregs, btb_data, recent>>
     ELSE /\ counter' = [r \in DOMAIN counter |->
               IF r \in DOMAIN trained THEN update_state(counter[r], trained[r])
               ELSE counter[r]]
          /\ recent' = [r \in DOMAIN recent |->
               IF r \in DOMAIN trained THEN <<IF trained[r] THEN "taken" ELSE "not", recent[r][1]>> ELSE recent[r]]
          /\ shiftregs' = IF Recorded(b) THEN update_table(b.PC, taken) ELSE shiftregs
          /\ btb_data' = IF taken THEN BtbUpdated(b.PC, b.next, correct) ELSE btb_data

(* ff_context: in the fast-forward a branch is looked up and updated at    *)
(* once, by what it does.                                                  *)
ff_context(pc, kind) ==
  LET dirs == Directions(pc, kind)
      ras == kind = "return" /\ HasStack
  IN /\ met = 0 /\ warmed < setup.MaxWarm
     /\ kind \in Calls => Len(calls) < setup.MaxCalls
     /\ kind = "return" => calls # <<>>
     /\ warmed' = warmed + 1
     /\ \E next \in Outcomes(pc, kind, TRUE) :
          bpred_update([PC |-> pc, kind |-> kind, dirs |-> dirs, ras |-> ras, next |-> next,
                        pred_PC |-> Predicted(pc, kind, dirs, ras, 0)])
     /\ Called(pc, kind) /\ PoppedOrPushed(pc, kind, ras)
     /\ UNCHANGED <<setup, inflight, drift, met>>

(* register_rename, when the predictor is updated there.                   *)
Rename(k) ==
  LET b == inflight[k]
  IN /\ k \in DOMAIN inflight /\ ~b.renamed
     /\ \A j \in 1 .. k - 1 : inflight[j].renamed
     /\ inflight' = [inflight EXCEPT ![k].renamed = TRUE]
     /\ IF ~b.wrong THEN bpred_update(b)
        ELSE UNCHANGED <<counter, shiftregs, btb_data, recent>>
     /\ UNCHANGED <<setup, tos, stack, calls, drift, met, warmed>>

(* Leaves the top where the wrong path took it (for a mutant). *)
RecoveredNothing(b) == tos

(* retstack.recover, from rollbackTo. *)
Recovered(b) == b.stack_recover_idx

(* writeback: a branch on the right path that was mispredicted recovers.   *)
Resolve(k) ==
  LET b == inflight[k]
      recovers == Mispredicted(b) /\ ~b.wrong
      marked == [inflight EXCEPT ![k].resolved = TRUE]
  IN /\ k \in DOMAIN inflight /\ b.renamed /\ ~b.resolved
     /\ inflight' = IF recovers THEN SubSeq(marked, 1, k) ELSE marked
     /\ tos' = IF recovers THEN Recovered(b) ELSE tos
     /\ drift' = IF ~recovers \/ ~HasStack THEN drift
                 ELSE CASE b.ras           -> Up(drift)
                        [] b.kind \in Calls -> Down(drift)
                        [] OTHER           -> drift
     /\ IF setup.update_at = "WB" THEN bpred_update(b)
        ELSE UNCHANGED <<counter, shiftregs, btb_data, recent>>
     /\ UNCHANGED <<setup, stack, calls, met, warmed>>

Commit ==
  /\ inflight # <<>> /\ inflight[1].resolved
  /\ inflight' = Tail(inflight)
  /\ IF setup.update_at = "CT" THEN bpred_update(inflight[1])
     ELSE UNCHANGED <<counter, shiftregs, btb_data, recent>>
  /\ UNCHANGED <<setup, tos, stack, calls, drift, met, warmed>>
-----------------------------------------------------------------------------
References ==
  LET Of(name, size) == {<<name, i>> : i \in 0 .. size - 1}
  IN CASE setup.kind = "bimod" -> Of("bimod", setup.bimod_size)
       [] setup.kind = "2lev"  -> Of("2lev", setup.l2size)
       [] setup.kind = "comb"  -> Of("bimod", setup.bimod_size) \cup Of("2lev", setup.l2size)
                                    \cup Of("meta", setup.meta_size)
       [] OTHER                -> {}

(* The links of a new buffer, in the order of the entries of each set. *)
NewEntry(i) ==
  [addr |-> 0, target |-> 0,
   prev |-> IF i % setup.assoc = 0 THEN NoEntry ELSE i - 1,
   next |-> IF i % setup.assoc = setup.assoc - 1 THEN NoEntry ELSE i + 1]

Init ==
  /\ setup \in Tables
  /\ counter = [r \in References |-> 1 + (r[2] % 2)]     \* weakly this or that
  /\ shiftregs = [i \in 0 .. setup.l1size - 1 |-> 0]
  /\ btb_data = [i \in 0 .. setup.sets * setup.assoc - 1 |-> NewEntry(i)]
  /\ tos = setup.retstack_size - 1
  /\ stack = [i \in 0 .. setup.retstack_size - 1 |-> 0]
  /\ inflight = <<>> /\ calls = <<>> /\ drift = 0 /\ met = 0 /\ warmed = 0
  /\ recent = [r \in References |-> <<"none", "none">>]

Next ==
  \/ \E b \in setup.Branches : bpred_lookup(b[1], b[2]) \/ ff_context(b[1], b[2])
  \/ \E k \in DOMAIN inflight : Rename(k) \/ Resolve(k)
  \/ Commit

Spec == Init /\ [][Next]_vars
-----------------------------------------------------------------------------
(* Type invariant: counters of two bits, indices within the tables.        *)
TypeOK ==
  /\ counter \in [References -> 0 .. 3]
  /\ \A i \in DOMAIN shiftregs : shiftregs[i] \in 0 .. 2 ^ setup.shift_width - 1
  /\ \A b \in ToSet(inflight) :
       {b.dirs.pdir1, b.dirs.pdir2, b.dirs.pmeta} \subseteq References \cup {None}
  /\ HasStack => tos \in DOMAIN stack

(* Two outcomes in a row decide what a counter predicts, however branches  *)
(* that share it, the wrong path or the meta counter's rule mix in         *)
(* (update_state of the three predictors).                                 *)
TwoInARow ==
  \A r \in References :
    /\ recent[r] = <<"taken", "taken">> => Predicts(r)
    /\ recent[r] = <<"not", "not">> => ~Predicts(r)

(* On the right path the top of the return stack is where the calls that   *)
(* are open put it, but for one step for every mispredicted call, whose    *)
(* push the recovery takes back, and every mispredicted return.            *)
StackDepth ==
  HasStack /\ OnRightPath =>
    tos = (setup.retstack_size - 1 + Len(calls) + drift) % setup.retstack_size

(* Each set of the buffer, along its links, holds the branches taken last  *)
(* in the order in which they were updated: no entry is lost from the      *)
(* list, none is there twice, and the victim is the oldest.                *)
Chain(s) ==
  LET at[k \in 1 .. setup.assoc] ==
        IF k = 1 THEN MRU(s)
        ELSE LET before == at[k - 1]
             IN IF before = NoEntry THEN NoEntry ELSE btb_data[before].next
  IN at
Addr(i) == IF i = NoEntry THEN 0 ELSE btb_data[i].addr

Recency == INSTANCE RecencyList WITH
  Blank <- 0,
  lists <- [s \in 0 .. setup.sets - 1 |-> [k \in 1 .. setup.assoc |-> Addr(Chain(s)[k])]]
BtbIsLRU == Recency!Spec
=============================================================================
