---------------------------- MODULE PreciseState ----------------------------
(***************************************************************************)
(* The values of a context's registers and memory.  register_rename        *)
(* executes instructions at once, wrong paths included, and leaves in the  *)
(* ROB and the LSQ what rollbackTo and flushcontext need to take them back.*)
(*                                                                         *)
(* A location is a register or half of an aligned quadword of memory.  One *)
(* register of each bank, the control registers taken together, and two    *)
(* words stand for all; a value is a number that tells who wrote it.       *)
(***************************************************************************)
EXTENDS Integers, Sequences, FiniteSetsExt, SequencesExt

CONSTANT Windows  \* what is tried, each a record of
                  \*   ROB, LSQ: sizes; UINT: 2^w for the width of unsigned int
                  \*   Ops: opcodes met; MaxInsts: instructions renamed

VARIABLES
  window,     \* the one of a behaviour
  cxt,        \* the context: its arrays, their heads, tails and numbers
  spec_mode,
  lock,       \* lock_flag and locked_physical_address of the core
  committed,  \* history: the values if only committed instructions had run
  renamed     \* instructions renamed so far

vars == <<window, cxt, spec_mode, lock, committed, renamed>>

Registers == {"R", "F", "C"}             \* regs_R, regs_F, regs_C
Words == {"null", "lo", "hi"}            \* address 0, and an aligned quadword
Locations == Registers \cup Words

(* Of each opcode: out1, the format that get_reg_set gives it, the flags,  *)
(* and the bytes that a store saves.                                       *)
Opcode(out1, dest, flags, span) ==
  [out1 |-> out1, dest |-> dest, flags |-> flags, span |-> span]

IntOps == [
  add     |-> Opcode({"R"}, "REG_INT", {}, {}),
  branch  |-> Opcode({}, "REG_NONE", {"F_CTRL"}, {}),
  jsr     |-> Opcode({"R"}, "REG_INT", {"F_CTRL"}, {}),
  wruniq  |-> Opcode({"C"}, "REG_NONE", {}, {}),
  callsys |-> Opcode({}, "REG_NONE", {"F_TRAP"}, {})]
FloatOps == [
  addt    |-> Opcode({"F"}, "REG_FP", {}, {}),
  mt_fpcr |-> Opcode({"C"}, "REG_FP", {}, {}),
  mf_fpcr |-> Opcode({"F"}, "REG_NONE", {}, {})]
MemOps == [
  ldl     |-> Opcode({"R"}, "REG_INT", {"F_MEM"}, {}),
  ldl_l   |-> Opcode({"R"}, "REG_INT", {"F_MEM"}, {}),
  stl     |-> Opcode({}, "REG_NONE", {"F_MEM", "F_STORE"}, {"lo"}),
  stq     |-> Opcode({}, "REG_NONE", {"F_MEM", "F_STORE"}, {"lo", "hi"}),
  stl_c   |-> Opcode({"R"}, "REG_INT", {"F_MEM", "F_STORE"}, {"lo"})]

get_reg_set ==
  [op \in DOMAIN IntOps \cup DOMAIN FloatOps \cup DOMAIN MemOps |->
    IF op \in DOMAIN IntOps THEN IntOps[op]
    ELSE IF op \in DOMAIN FloatOps THEN FloatOps[op] ELSE MemOps[op]]

NoEntry == [op |-> "none"]
-----------------------------------------------------------------------------
Prev(i, size) == (i + (size - 1)) % size

(* The entries in flight, oldest first, as the head and the number say.    *)
InFlight(c) ==
  [k \in 1 .. c.ROB_num |-> c.ROB[(c.ROB_head + k - 1) % window.ROB]]
MemoryOps(c) ==
  [k \in 1 .. c.LSQ_num |-> c.LSQ[(c.LSQ_head + k - 1) % window.LSQ]]

Init ==
  /\ window \in Windows
  /\ cxt = [val |-> [x \in Locations |-> 0],
            ROB |-> [i \in 0 .. window.ROB - 1 |-> NoEntry], ROB_head |-> 0,
            ROB_tail |-> 0, ROB_num |-> 0,
            LSQ |-> [i \in 0 .. window.LSQ - 1 |-> NoEntry], LSQ_head |-> 0,
            LSQ_tail |-> 0, LSQ_num |-> 0]
  /\ spec_mode = FALSE
  /\ lock = "none"
  /\ committed = cxt.val
  /\ renamed = 0
-----------------------------------------------------------------------------
(* A store-conditional writes if the lock is still on its address.         *)
Succeeds(op) == op # "stl_c" \/ lock = "lo"

(* The values v after those of written.                                    *)
Over(written, v) == [x \in DOMAIN v |-> IF x \in DOMAIN written THEN written[x] ELSE v[x]]

(* What an instruction writes; a fault, which only the wrong path survives,*)
(* ends it before it has.  A store-conditional clears its register first.  *)
Effect(op, fault, value) ==
  LET o == get_reg_set[op]
      written == IF fault THEN IF op = "stl_c" /\ Succeeds(op) THEN {"R"} ELSE {}
                 ELSE o.out1 \cup (IF Succeeds(op) THEN o.span ELSE {})
  IN [x \in written |-> value]

Fault(op) == "F_MEM" \in get_reg_set[op].flags /\ Succeeds(op) /\ spec_mode

(* Saved before execution.  mt_fpcr renames to the floating point bank and *)
(* saves the register that its field RC happens to name.                   *)
RobEntry(op, mispredicted, effect) ==
  LET o == get_reg_set[op]
      index == IF o.dest = "REG_INT" THEN "R" ELSE "F"
  IN [op |-> op, ea_comp |-> "F_MEM" \in o.flags, recover_inst |-> mispredicted,
      completed |-> FALSE, physreg |-> o.dest # "REG_NONE", regs_index |-> index,
      saved |-> cxt.val[index], regs_C |-> cxt.val["C"], effect |-> effect]

(* addr is set by the access itself: a store-conditional that makes none   *)
(* keeps 0.                                                                *)
LsqEntry(op) ==
  LET o == get_reg_set[op]
      at == IF Succeeds(op) THEN o.span ELSE {"null"}
      saved == cxt.val["lo"]
  IN [op |-> op, is_store |-> "F_STORE" \in o.flags, physreg |-> o.dest # "REG_NONE",
      previous_mem |-> [x \in at |-> IF x = "null" THEN saved ELSE cxt.val[x]]]

LockAfter(op, fault) ==
  IF op = "ldl_l" /\ ~fault THEN "lo"
  ELSE IF op = "stl_c" /\ ~fault THEN "none" ELSE lock

CanRename(op) ==
  /\ renamed < window.MaxInsts
  /\ cxt.ROB_num < window.ROB /\ cxt.LSQ_num < window.LSQ
  /\ "F_TRAP" \in get_reg_set[op].flags => cxt.ROB_num = 0

WithRob(c, e) ==
  [c EXCEPT !.ROB[c.ROB_tail] = e, !.ROB_tail = (@ + 1) % window.ROB, !.ROB_num = @ + 1]
WithLsq(c, e) ==
  [c EXCEPT !.LSQ[c.LSQ_tail] = e, !.LSQ_tail = (@ + 1) % window.LSQ, !.LSQ_num = @ + 1]

register_rename(op, fault, mispredicted) ==
  /\ CanRename(op)
  /\ fault => Fault(op)
  /\ mispredicted => "F_CTRL" \in get_reg_set[op].flags /\ ~spec_mode
  /\ LET effect == Effect(op, fault, renamed + 1)
         executed == [cxt EXCEPT !.val = Over(effect, @)]
         inrob == WithRob(executed, RobEntry(op, mispredicted, effect))
     IN cxt' = IF "F_MEM" \in get_reg_set[op].flags
               THEN WithLsq(inrob, LsqEntry(op)) ELSE inrob
  /\ spec_mode' = (spec_mode \/ mispredicted)
  /\ lock' = LockAfter(op, fault)
  /\ renamed' = renamed + 1
  /\ UNCHANGED <<window, committed>>

(* A system call may write anything but the control registers.  It is only *)
(* reached when nothing older is left, and is final.                       *)
Trap ==
  /\ "callsys" \in window.Ops /\ CanRename("callsys")
  /\ \E written \in {{"R"}, {"R", "lo", "hi"}} :
       LET effect == [x \in written |-> renamed + 1]
       IN /\ cxt' = WithRob([cxt EXCEPT !.val = Over(effect, @)],
                            RobEntry("callsys", FALSE, <<>>))
          /\ committed' = Over(effect, committed)
  /\ renamed' = renamed + 1
  /\ UNCHANGED <<window, spec_mode, lock>>
-----------------------------------------------------------------------------
(* One iteration of the loops of rollbackTo and flushcontext.  The tails   *)
(* of rollbackTo go down below 0, which is a large number, and are         *)
(* repaired afterwards.                                                    *)
UndoMemory(c, e) ==
  LET i == Prev(c.LSQ_index, window.LSQ)
      l == c.LSQ[i]
  IN IF ~e.ea_comp THEN c
     ELSE [c EXCEPT !.val = IF l.is_store THEN Over(l.previous_mem, @) ELSE @,
                    !.LSQ[i] = NoEntry, !.LSQ_index = i, !.LSQ_num = @ - 1,
                    !.LSQ_tail = (@ - 1) % window.UINT]

UndoRegisters(c, e) ==
  LET i == Prev(c.ROB_index, window.ROB)
  IN [c EXCEPT !.val = [x \in Locations |->
                          IF x = "C" THEN e.regs_C
                          ELSE IF e.physreg /\ x = e.regs_index THEN e.saved ELSE @[x]],
               !.ROB[i] = NoEntry, !.ROB_index = i, !.ROB_num = @ - 1,
               !.ROB_tail = (@ - 1) % window.UINT]

Undone(c) ==
  LET e == c.ROB[Prev(c.ROB_index, window.ROB)]
  IN UndoRegisters(UndoMemory(c, e), e)

(* The loop, with the two positions it has beside those of the context.    *)
Positioned ==
  [f \in DOMAIN cxt \cup {"ROB_index", "LSQ_index"} |->
    IF f = "ROB_index" THEN cxt.ROB_tail
    ELSE IF f = "LSQ_index" THEN cxt.LSQ_tail ELSE cxt[f]]
Undo(c, k) == Undone(c)
UndoEach(steps) == FoldLeft(Undo, Positioned, steps)
UndoLast(n) == UndoEach([k \in 1 .. n |-> k])

Fields(c) == [f \in DOMAIN cxt |-> c[f]]

\* (for a mutant) a tail below 0 is taken for a position
RepairedLow(tail, size) == tail % size

Repaired(tail, size) == IF tail >= size THEN (tail + size) % window.UINT ELSE tail

rollbackTo(slot) ==
  LET c == UndoLast((Prev(cxt.ROB_tail, window.ROB) - slot) % window.ROB)
  IN Fields([c EXCEPT !.ROB_tail = Repaired(@, window.ROB),
                      !.LSQ_tail = Repaired(@, window.LSQ)])

(* The branch that was mispredicted completes. *)
writeback ==
  \E slot \in DOMAIN cxt.ROB :
    /\ cxt.ROB[slot] # NoEntry
    /\ cxt.ROB[slot].recover_inst /\ ~cxt.ROB[slot].completed
    /\ cxt' = [rollbackTo(slot) EXCEPT !.ROB[slot].completed = TRUE]
    /\ spec_mode' = FALSE
    /\ UNCHANGED <<window, lock, committed, renamed>>

flushcontext ==
  /\ cxt.ROB_num > 0
  /\ cxt' = Fields([UndoLast(cxt.ROB_num) EXCEPT
                      !.ROB_head = 0, !.ROB_tail = 0, !.LSQ_head = 0, !.LSQ_tail = 0])
  /\ spec_mode' = FALSE
  /\ UNCHANGED <<window, lock, committed, renamed>>

(* When other instructions complete is left open. *)
commit ==
  LET e == cxt.ROB[cxt.ROB_head]
      popped == [cxt EXCEPT !.ROB[cxt.ROB_head] = NoEntry,
                            !.ROB_head = (@ + 1) % window.ROB, !.ROB_num = @ - 1]
  IN /\ cxt.ROB_num > 0
     /\ e.recover_inst => e.completed
     /\ cxt' = IF e.ea_comp
               THEN [popped EXCEPT !.LSQ[cxt.LSQ_head] = NoEntry,
                                   !.LSQ_head = (@ + 1) % window.LSQ,
                                   !.LSQ_num = @ - 1]
               ELSE popped
     /\ committed' = Over(e.effect, committed)
     /\ UNCHANGED <<window, spec_mode, lock, renamed>>

Next ==
  \/ \E op \in window.Ops \ {"callsys"}, fault, mispredicted \in BOOLEAN :
       register_rename(op, fault, mispredicted)
  \/ Trap
  \/ writeback \/ flushcontext \/ commit

Spec == Init /\ [][Next]_vars
-----------------------------------------------------------------------------
TypeOK ==
  /\ window \in Windows
  /\ cxt.val \in [Locations -> 0 .. window.MaxInsts]
  /\ cxt.ROB_head \in DOMAIN cxt.ROB /\ cxt.LSQ_head \in DOMAIN cxt.LSQ
  /\ spec_mode \in BOOLEAN
  /\ lock \in {"none", "lo"}
  /\ committed \in [Locations -> 0 .. window.MaxInsts]
  /\ renamed \in 0 .. window.MaxInsts

(* The loads and stores among entries.                                     *)
WithAccess(all, e) == IF e.ea_comp THEN Append(all, e) ELSE all
Accesses(entries) == FoldLeft(WithAccess, <<>>, entries)

(* The rings are whole: the tails are where heads and numbers put them,    *)
(* which sim_main panics about every cycle, and the entries of the LSQ are *)
(* those of the loads and stores in the ROB, in order, as the panics and   *)
(* assertions of commit and of both squashes have it.                      *)
InStep ==
  LET accesses == Accesses(InFlight(cxt))
      entries == MemoryOps(cxt)
  IN /\ cxt.ROB_tail = (cxt.ROB_head + cxt.ROB_num) % window.ROB
     /\ cxt.LSQ_tail = (cxt.LSQ_head + cxt.LSQ_num) % window.LSQ
     /\ Len(accesses) = cxt.LSQ_num
     /\ \A k \in 1 .. cxt.LSQ_num :
          /\ entries[k].op = accesses[k].op
          /\ entries[k].physreg = accesses[k].physreg

(* Two losses of the code are left out: a store-conditional that failed is *)
(* taken back at address 0, and get_reg_set gives mf_fpcr no destination,  *)
(* so that the register it writes on a wrong path is not taken back.       *)
Exempt == {"null"} \cup (IF "mf_fpcr" \in window.Ops THEN {"F"} ELSE {})

(* At any time registers and memory hold what the committed instructions   *)
(* and, after them, those in flight have written, and nothing of what was  *)
(* taken back.                                                             *)
Executed(v, e) == Over(e.effect, v)
Expected(entries) == FoldLeft(Executed, committed, entries)
StateIsPrecise ==
  LET expected == Expected(InFlight(cxt))
  IN InStep /\ \A x \in Locations \ Exempt : cxt.val[x] = expected[x]
=============================================================================
