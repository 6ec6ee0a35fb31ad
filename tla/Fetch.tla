------------------------------- MODULE Fetch -------------------------------
(***************************************************************************)
(* The front end of one core (sim-outorder.c): the fetch policies, the     *)
(* fetch queues (IFQ) of its contexts, what rename takes from them, and    *)
(* the counters the policies go by.  What follows rename is reduced to the *)
(* stages in which icount and the DCRA counters change.                    *)
(*                                                                         *)
(* A program is a list of kinds of instructions; addresses wrap around at  *)
(* its end (a bound).  The direction of a branch, the target of an         *)
(* indirect one, every prediction and every latency are left open.  Stalls *)
(* of rename for want of registers or of time are steps not taken, and     *)
(* contexts that wait for others or end are in Processes and RegRename,    *)
(* kills excepted.                                                         *)
(***************************************************************************)
EXTENDS Integers, Sequences, FiniteSets, FiniteSetsExt, SequencesExt

CONSTANT Cores  \* the cores tried, each a record of
                \*   NumContexts, IQSize, RFSize (reg_file.size()): sizes
                \*   IFQSize: FETCH_RENAME_DELAY * decode_width at the start
                \*   ROBSize, NotDispatched: limits of rename
                \*   Widths: what decode_width * fetch_speed may become
                \*   policy: "icount", "rr" or "dcra"
                \*   pred_perfect: a perfect branch predictor
                \*   Code: the program; Target: of its direct jumps
                \*   MaxDelay: of a miss and of a misprediction
                \*   MaxActivity: what DCRA_activity_fp starts from

VARIABLE core   \* the one of a behaviour
NumContexts == core.NumContexts
IFQSize == core.IFQSize
Code == core.Code

VARIABLES
  contexts,       \* see Start
  phase,          \* "pipe": the other stages; "fetch": in the loop of fetch
  left,           \* contexts_left
  width,          \* decode_width * fetch_speed, an agent may change it
  fetched,        \* i, the instructions fetched in this call
  fetchedfrom,    \* the contexts they are of
  discontinuous,  \* the last one was predicted taken
  sim_cycle,      \* modulo the number of contexts, for RR_fetch
  taken           \* history: whom fetch has taken past a branch in this call

vars == <<core, contexts, phase, left, width, fetched, fetchedfrom, discontinuous,
          sim_cycle, taken>>
loop == <<left, width, fetched, fetchedfrom, discontinuous, taken>>

Contexts == 1 .. NumContexts
PCs == DOMAIN Code
Slots == 0 .. IFQSize - 1
Kinds == {"int", "fp", "nop", "jump", "indirect", "trap"}
Ctrl == {"jump", "indirect"}       \* F_CTRL, of which "jump" are F_DIRJMP
Following(pc) == (pc % Len(Code)) + 1

(* The addresses an instruction may be followed by: regs_NPC. *)
Outcomes(pc) ==
  CASE Code[pc] = "jump"     -> {Following(pc), core.Target[pc]}
    [] Code[pc] = "indirect" -> PCs
    [] OTHER                 -> {Following(pc)}

Unused == [regs_PC |-> 1, pred_PC |-> 1]     \* nobody reads the slot
NoAddress == 0

Start == [
  live |-> TRUE, IFQ |-> [s \in Slots |-> Unused],
  fetch_head |-> 0, fetch_tail |-> 0, fetch_num |-> 0,
  fetch_pred_PC |-> 1, fetch_issue_delay |-> 0, icount |-> 0,
  ROB |-> <<>>, spec_mode |-> FALSE, recover_PC |-> NoAddress,
  right_PC |-> 1,                  \* history: what the program executes next
  DCRA_int_iq |-> 0, DCRA_int_rf |-> 0, DCRA_fp_rf |-> 0,
  DCRA_L1_misses |-> 0, DCRA_activity_fp |-> core.MaxActivity]

(* The index after s is masked, (s + 1) & (n - 1), which of a queue of n   *)
(* slots reaches the first p only, where p is the largest power of two     *)
(* that divides n: all of them if n is one, the first if n is odd.  Of     *)
(* these p the mask goes from the last to the first (MaskIsAnd of          *)
(* MCMachine).                                                             *)
PowerOfTwo(p) == \A q \in 2 .. p : p % q = 0 => q % 2 = 0
RingOf(n) == Max({p \in 1 .. n : n % p = 0 /\ PowerOfTwo(p)})
MaskedBy(n, s) == (s + 1) % RingOf(n)
Masked(s) == MaskedBy(IFQSize, s)
Oldest(c) == contexts[c].IFQ[contexts[c].fetch_head]
Count(seq, P(_)) == Cardinality({k \in DOMAIN seq : P(seq[k])})
-----------------------------------------------------------------------------
(* The policies. *)
Attached == SelectSeq([c \in 1 .. NumContexts |-> c], LAMBDA c : contexts[c].live)

(* sort with my_comparator, which orders equals as it likes. *)
ByIcount(S) ==
  {s \in [1 .. Cardinality(S) -> S] :
     /\ \A j, k \in DOMAIN s : j # k => s[j] # s[k]
     /\ \A j \in 1 .. Len(s) - 1 : contexts[s[j]].icount <= contexts[s[j + 1]].icount}

RR_fetch ==
  LET n == Len(Attached)
  IN [k \in 1 .. n |-> Attached[((sim_cycle + k - 1) % n) + 1]]

(* dcra_fetch first counts down; 1/num_contexts is of integers. *)
Less(n) == IF n > 0 THEN n - 1 ELSE n
CountedActivity(x) == [x EXCEPT !.DCRA_activity_fp = Less(@)]  \* (for a mutant)
CountedDown(x) ==
  [x EXCEPT !.DCRA_activity_fp = Less(@), !.DCRA_L1_misses = Less(@)]
Fast(x) == ~(x.DCRA_L1_misses > 0)
Share(size, n, num_fa) == (size \div n) * (1 + (1 \div n) * num_fa)

dcra_fetch(after) ==   \* of the contexts as they are after the count
  LET list == ToSet(Attached)
      active == {c \in list : after[c].DCRA_activity_fp # 0}
      num_fa == Cardinality({c \in active : Fast(after[c])})
      n == Cardinality(list)
      Gated(x) ==
        /\ ~Fast(x)
        /\ \/ x.DCRA_int_iq >= Share(core.IQSize, n, num_fa)
           \/ x.DCRA_int_rf >= Share(core.RFSize, n, num_fa)
           \/ /\ active # {}
              /\ x.DCRA_fp_rf >= Share(core.RFSize, Cardinality(active), num_fa)
  IN {c \in list : ~Gated(after[c])}

(* The call of the fetcher in sim_main, and the first lines of fetch. *)
StartFetch ==
  /\ phase = "pipe" /\ Attached # <<>>
  /\ phase' = "fetch"
  /\ contexts' = IF core.policy # "dcra" THEN contexts
                 ELSE [c \in Contexts |-> IF contexts[c].live THEN CountedDown(contexts[c])
                                          ELSE contexts[c]]
  /\ left' \in CASE core.policy = "icount" -> ByIcount(ToSet(Attached))
                 [] core.policy = "rr"     -> {RR_fetch}
                 [] core.policy = "dcra"   -> ByIcount(dcra_fetch(contexts'))
  /\ width' \in core.Widths
  /\ fetched' = 0 /\ fetchedfrom' = {} /\ discontinuous' = FALSE /\ taken' = {}
  /\ UNCHANGED <<core, sim_cycle>>
-----------------------------------------------------------------------------
(* The loop of fetch. *)
Fetching == phase = "fetch" /\ fetched < width /\ left # <<>>

(* The first one goes on to a predicted target, has no room, or waits.     *)
Blocked(c) == discontinuous \/ contexts[c].fetch_num = IFQSize
                            \/ contexts[c].fetch_issue_delay > 0
Skip ==
  /\ Fetching /\ Blocked(left[1])
  /\ left' = Tail(left) /\ discontinuous' = FALSE
  /\ UNCHANGED <<core, contexts, phase, width, fetched, fetchedfrom, sim_cycle, taken>>

ThirdContext == Cardinality(fetchedfrom) = 2 /\ left[1] \notin fetchedfrom

(* 0 stands for no predicted target, also of branches. *)
Predictions(pc) == {0} \cup IF Code[pc] \in Ctrl THEN PCs ELSE {}

(* Puts an instruction into the queue. *)
Appended(x, e, lat) ==
  [x EXCEPT !.IFQ[x.fetch_tail] = e, !.fetch_tail = Masked(@), !.fetch_num = @ + 1,
            !.fetch_pred_PC = e.pred_PC, !.fetch_issue_delay = @ + lat, !.icount = @ + 1]

(* Clears the flag when there is no other context (for a mutant). *)
FlagClearedAtHalf(pred, half, others) == pred # 0 /\ ~half

(* Half of the width used, the turn goes to the next context, if any, and  *)
(* the flag with it.                                                       *)
Flag(pred, half, others) == pred # 0 /\ ~(half /\ others)

FetchOne ==
  /\ Fetching /\ ~Blocked(left[1]) /\ ~ThirdContext
  /\ LET c == left[1]
         pc == contexts[c].fetch_pred_PC
         half == fetched = width \div 2
         others == Len(left) > 1
     IN \E pred \in Predictions(pc), lat \in {0, core.MaxDelay} :
          /\ contexts' = [contexts EXCEPT ![c] = Appended(@,
               [regs_PC |-> pc, pred_PC |-> IF pred = 0 THEN Following(pc) ELSE pred], lat)]
          /\ fetchedfrom' = fetchedfrom \cup {c}
          /\ left' = IF half /\ others THEN Tail(left) ELSE left
          /\ discontinuous' = Flag(pred, half, others)
          /\ taken' = IF pred # 0 THEN taken \cup {c} ELSE taken
  /\ fetched' = fetched + 1
  /\ UNCHANGED <<core, phase, width, sim_cycle>>

(* The end of the cycle: the delays count down. *)
FetchEnd ==
  /\ phase = "fetch"
  /\ fetched < width /\ left # <<>> => ~Blocked(left[1]) /\ ThirdContext
  /\ contexts' = [c \in Contexts |-> [contexts[c] EXCEPT !.fetch_issue_delay = Less(@)]]
  /\ sim_cycle' = IF core.policy = "rr" THEN (sim_cycle + 1) % NumContexts ELSE 0
  /\ phase' = "pipe" /\ left' = <<>> /\ width' = 0 /\ fetched' = 0
  /\ fetchedfrom' = {} /\ discontinuous' = FALSE /\ taken' = {}
  /\ UNCHANGED core
-----------------------------------------------------------------------------
(* The other stages of context c. *)
Pipe(c, x) ==
  /\ contexts' = [contexts EXCEPT ![c] = x]
  /\ UNCHANGED <<core, phase, sim_cycle, loop>>

(* Takes the instructions from the queue one by one. *)
Drained(x) ==
  [x EXCEPT !.IFQ = [s \in Slots |-> Unused], !.icount = @ - x.fetch_num,
            !.fetch_head = (@ + x.fetch_num) % RingOf(IFQSize),
            !.fetch_num = 0]
Consumed(x) ==   \* the slot stays in use if it stands for more than one
  [x EXCEPT !.IFQ[x.fetch_head] = IF x.fetch_num > RingOf(IFQSize) THEN @ ELSE Unused,
            !.fetch_head = Masked(@), !.fetch_num = @ - 1]

Dest(pc) == CASE Code[pc] = "int" -> "int" [] Code[pc] = "fp" -> "fp" [] OTHER -> "none"
Undispatched(e) == e.stage = "renamed"
InIQ(e) == e.stage = "inIQ"
NotWaiting(e) == ~Undispatched(e) /\ ~InIQ(e)

CanRename(x) ==
  /\ phase = "pipe" /\ x.live
  /\ x.fetch_num # 0 /\ Len(x.ROB) < core.ROBSize
  /\ Count(x.ROB, Undispatched) < core.NotDispatched
  /\ Code[x.IFQ[x.fetch_head].regs_PC] = "trap" => x.ROB = <<>>

(* Takes every wrong prediction for the first (for a mutant). *)
DecodedAnew(x, e, next, pred) ==
  LET wrong == pred # next
  IN IF Code[e.regs_PC] = "nop"
     THEN [x EXCEPT !.icount = @ - 1, !.right_PC = IF x.spec_mode THEN @ ELSE next]
     ELSE [x EXCEPT
            !.ROB = Append(@, [next_PC |-> next, recover_inst |-> wrong,
                               stage |-> "renamed", dest |-> "none"]),
            !.spec_mode = @ \/ wrong,
            !.recover_PC = IF wrong THEN next ELSE @,
            !.right_PC = IF x.spec_mode THEN @ ELSE next]

(* The instruction of e decoded, and executed, with next as its NPC.       *)
Decoded(x, e, next, pred) ==
  LET right == ~x.spec_mode
      wrong == right /\ pred # next
      dest == Dest(e.regs_PC)
  IN IF Code[e.regs_PC] = "nop"
     THEN [x EXCEPT !.icount = @ - 1, !.right_PC = IF right THEN next ELSE @]
     ELSE [x EXCEPT
            !.ROB = Append(@, [next_PC |-> next, recover_inst |-> wrong,
                               stage |-> "renamed", dest |-> dest]),
            !.DCRA_int_rf = IF dest = "int" THEN @ + 1 ELSE @,
            !.DCRA_fp_rf = IF dest = "fp" THEN @ + 1 ELSE @,
            !.DCRA_activity_fp = IF dest = "fp" THEN core.MaxActivity ELSE @,
            !.spec_mode = @ \/ wrong,
            !.recover_PC = IF wrong THEN next ELSE @,
            !.right_PC = IF right THEN next ELSE @]

(* A prediction changed at decode: the queue is tainted. *)
Redirected(x, next) == [Drained(x) EXCEPT !.fetch_pred_PC = next]

(* Whether fetch is sent elsewhere: perfect prediction, or a direct jump   *)
(* taken to an address that is not its target.                             *)
Misfetched(e, next) ==
  \/ core.pred_perfect /\ e.pred_PC # next
  \/ /\ Code[e.regs_PC] = "jump"
     /\ e.pred_PC \notin {core.Target[e.regs_PC], Following(e.regs_PC)}

register_rename(c) ==
  LET x == contexts[c]
      e == Oldest(c)
  IN /\ CanRename(x)
     /\ \E next \in Outcomes(e.regs_PC) :
          LET misfetch == Misfetched(e, next)
              pred == IF misfetch /\ core.pred_perfect THEN next ELSE e.pred_PC
              y == Consumed(Decoded(x, e, next, pred))
          IN Pipe(c, IF misfetch THEN Redirected(y, next) ELSE y)

(* A system call that starts the program anew: the queue is cleared, the   *)
(* call goes with it, and fetch goes on behind the address it set.         *)
Abort(c) ==
  LET x == contexts[c]
  IN /\ CanRename(x) /\ Code[Oldest(c).regs_PC] = "trap"
     /\ \E entry \in PCs :
          Pipe(c, [Drained(x) EXCEPT !.fetch_pred_PC = entry, !.right_PC = entry])

InIQTotal ==
  FoldFunction(LAMBDA n, m : n + m, 0, [d \in Contexts |-> Count(contexts[d].ROB, InIQ)])

(* dispatch: the oldest one, if the issue queue has room. *)
dispatch(c) ==
  LET x == contexts[c]
      waiting == {k \in DOMAIN x.ROB : Undispatched(x.ROB[k])}
  IN /\ phase = "pipe" /\ waiting # {} /\ InIQTotal < core.IQSize
     /\ Pipe(c, [x EXCEPT !.ROB[Min(waiting)].stage = "inIQ", !.DCRA_int_iq = @ + 1])

(* execute: leaves the issue queue; a load may have missed. *)
execute(c, k) ==
  LET x == contexts[c]
  IN /\ phase = "pipe" /\ k \in DOMAIN x.ROB /\ InIQ(x.ROB[k])
     /\ \E lat \in {0} \cup IF x.ROB[k].dest # "none" THEN {core.MaxDelay} ELSE {} :
          Pipe(c, [x EXCEPT !.ROB[k].stage = "executed", !.icount = @ - 1,
                            !.DCRA_int_iq = @ - 1,
                            !.DCRA_L1_misses = Max({@, lat})])

(* Takes all registers for integer ones (for a mutant). *)
SquashedInt(x, es) ==
  [x EXCEPT !.icount = @ - Count(es, LAMBDA e : ~NotWaiting(e)),
            !.DCRA_int_iq = @ - Count(es, InIQ),
            !.DCRA_int_rf = @ - Count(es, LAMBDA e : e.dest # "none")]

(* What a squash gives back of the entries es. *)
Squashed(x, es) ==
  [x EXCEPT !.icount = @ - Count(es, LAMBDA e : ~NotWaiting(e)),
            !.DCRA_int_iq = @ - Count(es, InIQ),
            !.DCRA_int_rf = @ - Count(es, LAMBDA e : e.dest = "int"),
            !.DCRA_fp_rf = @ - Count(es, LAMBDA e : e.dest = "fp")]

Emptied(x) == [Drained(x) EXCEPT !.fetch_head = 0, !.fetch_tail = 0]

(* Leaves the queue as it was (for a mutant). *)
RollbackKeepsQueue(x, k) ==
  [Squashed(x, SubSeq(x.ROB, k + 1, Len(x.ROB))) EXCEPT
     !.ROB = SubSeq(@, 1, k), !.spec_mode = FALSE,
     !.fetch_pred_PC = x.ROB[k].next_PC, !.recover_PC = x.ROB[k].next_PC,
     !.fetch_issue_delay = Max({@, core.MaxDelay})]

(* rollbackTo of a mispredicted branch, entry k. *)
rollbackTo(x, k) ==
  [Emptied(Squashed(x, SubSeq(x.ROB, k + 1, Len(x.ROB)))) EXCEPT
     !.ROB = SubSeq(@, 1, k), !.spec_mode = FALSE,
     !.fetch_pred_PC = x.ROB[k].next_PC, !.recover_PC = x.ROB[k].next_PC,
     !.fetch_issue_delay = Max({@, core.MaxDelay})]

writeback(c, k) ==
  LET x == contexts[c]
      y == [x EXCEPT !.ROB[k].stage = "completed"]
  IN /\ phase = "pipe" /\ k \in DOMAIN x.ROB /\ x.ROB[k].stage = "executed"
     /\ Pipe(c, IF x.ROB[k].recover_inst THEN rollbackTo(y, k) ELSE y)

commit(c) ==
  LET x == contexts[c]
  IN /\ phase = "pipe" /\ x.ROB # <<>> /\ x.ROB[1].stage = "completed"
     /\ Pipe(c, [x EXCEPT !.ROB = Tail(@),
                          !.DCRA_int_rf = IF x.ROB[1].dest = "int" THEN @ - 1 ELSE @,
                          !.DCRA_fp_rf = IF x.ROB[1].dest = "fp" THEN @ - 1 ELSE @])

(* flush and ejectcontext: another program has killed this one. *)
Kill(c) ==
  LET x == contexts[c]
  IN /\ phase = "pipe" /\ x.live
     /\ Pipe(c, [Emptied(Squashed(x, x.ROB)) EXCEPT
                   !.ROB = <<>>, !.live = FALSE, !.spec_mode = FALSE,
                   !.fetch_pred_PC = 1, !.recover_PC = NoAddress, !.right_PC = 1])
-----------------------------------------------------------------------------
Init ==
  /\ core \in Cores
  /\ contexts = [c \in Contexts |-> Start]
  /\ phase = "pipe" /\ left = <<>> /\ width = 0 /\ fetched = 0 /\ fetchedfrom = {}
  /\ discontinuous = FALSE /\ sim_cycle = 0 /\ taken = {}

Drains(c) ==    \* what happens to instructions behind rename
  \/ dispatch(c) \/ commit(c)
  \/ \E k \in 1 .. core.ROBSize : execute(c, k) \/ writeback(c, k)

FetchSteps == StartFetch \/ Skip \/ FetchOne \/ FetchEnd

Next ==
  \/ FetchSteps
  \/ \E c \in Contexts : register_rename(c) \/ Abort(c) \/ Drains(c) \/ Kill(c)
-----------------------------------------------------------------------------
Entry == [next_PC : PCs, recover_inst : BOOLEAN, dest : {"int", "fp", "none"},
          stage : {"renamed", "inIQ", "executed", "completed"}]

(* Type invariant, with the sizes of the tables. *)
TypeOK ==
  /\ \A c \in Contexts :
       LET x == contexts[c]
       IN /\ x.fetch_head \in Slots /\ x.fetch_tail \in Slots /\ x.fetch_num \in 0 .. IFQSize
          /\ x.fetch_pred_PC \in PCs /\ x.right_PC \in PCs /\ x.recover_PC \in PCs \cup {0}
          /\ x.ROB \in BoundedSeq(Entry, core.ROBSize)
          /\ x.icount \in Nat /\ x.fetch_issue_delay \in Nat
  /\ fetched \in 0 .. width /\ fetchedfrom \subseteq Contexts

(* icount is the number of instructions of a context between fetch and the *)
(* start of their execution, and the counters DCRA takes shares by are     *)
(* what it holds, whatever was squashed, drained or dropped on the way;    *)
(* the assertions of the code only bound them.                             *)
CountersMatch ==
  \A c \in Contexts : LET x == contexts[c] IN
    /\ x.icount = x.fetch_num + Count(x.ROB, LAMBDA e : ~NotWaiting(e))
    /\ x.DCRA_int_iq = Count(x.ROB, InIQ)
    /\ x.DCRA_int_rf = Count(x.ROB, LAMBDA e : e.dest = "int")
    /\ x.DCRA_fp_rf = Count(x.ROB, LAMBDA e : e.dest = "fp")

(* The k-th instruction of a fetch queue. *)
Queued(x, k) == x.IFQ[(x.fetch_head + k - 1) % RingOf(IFQSize)]

(* While a context is not on a wrong path, the next instruction to rename  *)
(* is the one its program executes next, after every redirection of fetch, *)
(* rollback and restart of the program.  The queue is a chain: each        *)
(* instruction is the one predicted to follow the one before, and the last *)
(* one's prediction is where fetch goes on.  So it is if the mask reaches  *)
(* every slot (NoOverwrite is about the others).                           *)
OnPath ==
  PowerOfTwo(IFQSize) => \A c \in Contexts : LET x == contexts[c] IN
    /\ ~x.spec_mode =>
         x.right_PC = IF x.fetch_num = 0 THEN x.fetch_pred_PC ELSE Queued(x, 1).regs_PC
    /\ \A k \in 1 .. x.fetch_num :
         Queued(x, k).pred_PC =
           IF k = x.fetch_num THEN x.fetch_pred_PC ELSE Queued(x, k + 1).regs_PC

(* The assertion of writeback: a branch that recovers goes to the address  *)
(* saved when the wrong path began, which it still is.                     *)
RecoverAgrees ==
  \A c \in Contexts : \A e \in ToSet(contexts[c].ROB) :
    e.recover_inst /\ e.stage # "completed" =>
      e.next_PC = contexts[c].recover_PC /\ e.next_PC = contexts[c].right_PC

(* The comment on fetch, that it does not overflow the queue: what it puts *)
(* into a queue leaves what waits there as it is.  False where the mask    *)
(* does not reach every slot.                                              *)
NoOverwrite ==
  [][FetchOne => \A c \in Contexts : \A k \in 1 .. contexts[c].fetch_num :
       Queued(contexts'[c], k) = Queued(contexts[c], k)]_vars

(* One call of fetch takes nothing of a context behind a branch predicted  *)
(* taken, and takes from two contexts, however the flag that remembers the *)
(* branch and the turn at half of the width come together.                 *)
OnePathPerCall ==
  [][FetchOne => /\ \A c \in taken : contexts'[c].fetch_num = contexts[c].fetch_num
                 /\ Cardinality(fetchedfrom') <= 2]_vars

(* A context that DCRA leaves out is not left out for ever, not even when  *)
(* its share is 0: its misses count down whenever fetch is called.         *)
Gated(c) == c \notin dcra_fetch([d \in Contexts |-> CountedDown(contexts[d])])
Ungated ==
  \A c \in {1, 2} :
    []<>(core.policy = "dcra" => c \in Contexts /\ (contexts[c].live => ~Gated(c)))
=============================================================================
