------------------------------ MODULE RegRename ------------------------------
(***************************************************************************)
(* Register renaming on one SMT core: the two physical register files, the *)
(* rename table and reorder buffer of every context, and the bank of       *)
(* architectural registers that each context takes from its core.          *)
(*                                                                         *)
(* Several contexts draw on the same free registers, a mispredicted branch *)
(* squashes the younger part of one ROB at any moment, and a kill flushes  *)
(* a context in the middle of its work.  What must survive all of this is  *)
(* the ownership of registers: who may still read a register, and who will *)
(* give it back.                                                           *)
(*                                                                         *)
(* One step is one iteration of the loop of a pipeline stage.  The stages  *)
(* of a cycle run in a fixed order; here they interleave freely, which     *)
(* includes that order.  Instructions are members of the set Insts; their  *)
(* values, addresses and latencies are not modelled.                       *)
(***************************************************************************)
EXTENDS Integers, Sequences, FiniteSets

CONSTANTS
    NArch,        \* architectural registers of one type (32 in the code)
    RFSize,       \* physical registers of one type (rf:size)
    MaxContexts,  \* contexts the core has room for (max_contexts_per_core)
    ROBSize,      \* reorder buffer entries of one context
    LSQSize,      \* load/store queue entries of one context
    Contexts,     \* context ids that may come to exist
    Insts,        \* instructions that may be fetched, see InstType
    include_spec, \* rename on the wrong path too (include_spec option)
    MaxStale      \* instructions renamed from a context that has just exited

RegTypes == {"INT", "FP"}
RegStates == {"FREE", "ALLOC", "WB", "ARCH"}
PhysRegs == 0 .. RFSize - 1
NoReg == -1

(* The indices of a rename table: the integer registers, the floating      *)
(* point registers, and the floating point control register.  A bank maps  *)
(* the first two groups; the first register of each reads as zero.         *)
DFPCR == 2 * NArch
ArchRegs == 0 .. DFPCR
Mapped == 0 .. 2 * NArch - 1
ZeroRegs == {0, NArch}
TypeOf(a) == IF a < NArch THEN "INT" ELSE "FP"

Banks == [Mapped -> PhysRegs]

Kinds == {"alu", "branch", "load", "store", "trap"}
InstType ==
    [kind : Kinds, dest : RegTypes \cup {"NONE"}, out : ArchRegs,
     src : [1 .. 2 -> RegTypes \cup {"NONE"}], in : [1 .. 2 -> ArchRegs]]

ASSUME SizesAssumption ==
    /\ NArch \in Nat \ {0}
    /\ MaxContexts \in Nat \ {0}
    /\ RFSize \in Nat /\ RFSize >= NArch * (MaxContexts + 1)
    /\ ROBSize \in Nat \ {0} /\ LSQSize \in Nat \ {0}
    /\ include_spec \in BOOLEAN
    /\ MaxStale \in Nat

(* get_reg_set gives the type of each operand, machine.def its number; the *)
(* two agree for every opcode that get_reg_set lists.                      *)
ASSUME InstsAssumption ==
    /\ Insts \subseteq InstType
    /\ \A inst \in Insts :
        /\ inst.dest # "NONE" => inst.dest = TypeOf(inst.out)
        /\ \A k \in 1 .. 2 : inst.src[k] # "NONE" => inst.src[k] = TypeOf(inst.in[k])
        /\ inst.kind = "trap" => inst.dest = "NONE"

VARIABLES
    loading,      \* TRUE while programs are being loaded, before cycle 0
    reg_file,     \* state of the physical registers
    arch_regs,    \* stack of the banks no context holds (int_regs, fp_regs)
    created,      \* the contexts that exist or have existed
    context_ids,  \* the contexts attached to this core
    rename_table, \* of each context
    ROB,          \* of each context, oldest entry first
    spec_mode,    \* the context is renaming past a mispredicted branch
    stale         \* instructions still renamed after the context's exit

vars == <<loading, reg_file, arch_regs, created, context_ids, rename_table,
          ROB, spec_mode, stale>>

-----------------------------------------------------------------------------
(* The physical register files *)

FreeRegs(t) == {r \in PhysRegs : reg_file[<<t, r>>] = "FREE"}

find_free_physreg(t) == CHOOSE r \in FreeRegs(t) : \A q \in FreeRegs(t) : r <= q

(* The destination is renamed unless it is the zero register of its type.  *)
Renames(inst) == inst.dest # "NONE" /\ inst.out \notin ZeroRegs

operand_ready(e, k) ==
    IF e.inst.src[k] = "NONE" THEN TRUE
    ELSE reg_file[<<e.inst.src[k], e.src_physreg[k]>>] # "ALLOC"

(* An address computation waits for its second operand only.               *)
all_operands_ready(e) ==
    operand_ready(e, 2) /\ (e.mem = "none" => operand_ready(e, 1))

-----------------------------------------------------------------------------
(* Squashing the entries of a reorder buffer younger than its n-th *)

Writers(rob, a) ==
    {i \in DOMAIN rob : rob[i].physreg # NoReg /\ rob[i].inst.out = a}

Oldest(S) == CHOOSE i \in S : \A j \in S : i <= j

Newest(S) == CHOOSE i \in S : \A j \in S : j <= i

\* Mutant: undoes the entries oldest first.
TableOldestFirst(rob, table, n) ==
    [a \in ArchRegs |->
        LET undone == {i \in Writers(rob, a) : i > n}
        IN  IF undone = {} THEN table[a] ELSE rob[Newest(undone)].old_physreg]

(* The entries are undone youngest first, each putting back the mapping it *)
(* replaced, so what is left is the mapping the oldest of them replaced.   *)
TableAfterSquash(rob, table, n) ==
    [a \in ArchRegs |->
        LET undone == {i \in Writers(rob, a) : i > n}
        IN  IF undone = {} THEN table[a] ELSE rob[Oldest(undone)].old_physreg]

\* Mutant: does not free the register of an entry that has completed.
SquashedUncompleted(rob, n) ==
    {<<rob[i].inst.dest, rob[i].physreg>> :
        i \in {j \in DOMAIN rob : j > n /\ rob[j].physreg # NoReg /\ ~rob[j].completed}}

SquashedRegs(rob, n) ==
    {<<rob[i].inst.dest, rob[i].physreg>> :
        i \in {j \in DOMAIN rob : j > n /\ rob[j].physreg # NoReg}}

RegFileAfterSquash(rob, n) ==
    [r \in RegTypes \X PhysRegs |->
        IF r \in SquashedRegs(rob, n) THEN "FREE" ELSE reg_file[r]]

-----------------------------------------------------------------------------
(* Contexts come and go *)

Init ==
    /\ loading = TRUE
    /\ reg_file = [r \in RegTypes \X PhysRegs |->
                      IF r[2] < NArch * MaxContexts THEN "ARCH" ELSE "FREE"]
    /\ arch_regs = [k \in 1 .. MaxContexts |->
                      [a \in Mapped |-> (k - 1) * NArch
                                        + (IF a < NArch THEN a ELSE a - NArch)]]
    /\ created = {}
    /\ context_ids = {}
    /\ rename_table = [c \in Contexts |-> [a \in ArchRegs |-> 0]]
    /\ ROB = [c \in Contexts |-> <<>>]
    /\ spec_mode = [c \in Contexts |-> FALSE]
    /\ stale = [c \in Contexts |-> 0]

\* Mutant: takes the bank without removing it from the core.
SharedBank(c, fpcr) ==
    /\ Cardinality(context_ids) < MaxContexts
    /\ c \notin created
    /\ created' = created \cup {c}
    /\ context_ids' = context_ids \cup {c}
    /\ rename_table' =
        [rename_table EXCEPT
            ![c] = [a \in ArchRegs |->
                      IF a \in Mapped THEN arch_regs[Len(arch_regs)][a] ELSE fpcr]]
    /\ arch_regs' = arch_regs

(* addcontext: the new context takes the last bank.  Its mapping of DFPCR  *)
(* is left as it was, fpcr.                                                *)
addcontext(c, fpcr) ==
    /\ Cardinality(context_ids) < MaxContexts
    /\ c \notin created
    /\ created' = created \cup {c}
    /\ context_ids' = context_ids \cup {c}
    /\ rename_table' =
        [rename_table EXCEPT
            ![c] = [a \in ArchRegs |->
                      IF a \in Mapped THEN arch_regs[Len(arch_regs)][a] ELSE fpcr]]
    /\ arch_regs' = SubSeq(arch_regs, 1, Len(arch_regs) - 1)

Attach(c) ==
    /\ addcontext(c, rename_table[c][DFPCR])
    /\ UNCHANGED <<loading, reg_file, ROB, spec_mode, stale>>

sim_load_prog(c) == loading /\ Attach(c)

(* fork on another core: the child goes to the first core with room.  Its  *)
(* mapping of DFPCR, which its parent has there, is taken to be the first  *)
(* one, as it is unless the parent has executed mt_fpcr.                   *)
remote_fork(c) == ~loading /\ Attach(c)

sim_main ==
    /\ loading /\ context_ids # {}
    /\ loading' = FALSE
    /\ UNCHANGED <<reg_file, arch_regs, created, context_ids, rename_table, ROB,
                   spec_mode, stale>>

(* What flushcontext and ejectcontext do to the shared registers and to v: *)
(* every entry is undone, and the registers left in the table go back.     *)
FlushAndEject(v) ==
    /\ reg_file' = RegFileAfterSquash(ROB[v], 0)
    /\ rename_table' =
        [rename_table EXCEPT ![v] = TableAfterSquash(ROB[v], rename_table[v], 0)]
    /\ arch_regs' = Append(arch_regs, [a \in Mapped |-> rename_table'[v][a]])
    /\ context_ids' = context_ids \ {v}
    /\ spec_mode' = [spec_mode EXCEPT ![v] = FALSE]

-----------------------------------------------------------------------------
(* Rename *)

\* Mutant: looks up the sources after the destination has been renamed.
SourcesAfterRename(c, inst, mispredicted) ==
    [inst |-> inst,
     physreg |-> IF Renames(inst) THEN find_free_physreg(inst.dest) ELSE NoReg,
     old_physreg |-> IF Renames(inst) THEN rename_table[c][inst.out] ELSE NoReg,
     src_physreg |-> [k \in 1 .. 2 |-> IF Renames(inst) /\ inst.in[k] = inst.out
                                       THEN find_free_physreg(inst.dest)
                                       ELSE rename_table[c][inst.in[k]]],
     completed |-> FALSE,
     mem |-> IF inst.kind \in {"load", "store"} THEN "pending" ELSE "none",
     recover_inst |-> mispredicted /\ ~spec_mode[c],
     spec_mode |-> spec_mode[c]]

\* Mutant: a branch on the wrong path recovers too.
WrongPathRecovers(c, inst, mispredicted) ==
    [inst |-> inst,
     physreg |-> IF Renames(inst) THEN find_free_physreg(inst.dest) ELSE NoReg,
     old_physreg |-> IF Renames(inst) THEN rename_table[c][inst.out] ELSE NoReg,
     src_physreg |-> [k \in 1 .. 2 |-> rename_table[c][inst.in[k]]],
     completed |-> FALSE,
     mem |-> IF inst.kind \in {"load", "store"} THEN "pending" ELSE "none",
     recover_inst |-> mispredicted,
     spec_mode |-> spec_mode[c]]

NewEntry(c, inst, mispredicted) ==
    [inst |-> inst,
     physreg |-> IF Renames(inst) THEN find_free_physreg(inst.dest) ELSE NoReg,
     old_physreg |-> IF Renames(inst) THEN rename_table[c][inst.out] ELSE NoReg,
     src_physreg |-> [k \in 1 .. 2 |-> rename_table[c][inst.in[k]]],
     completed |-> FALSE,
     mem |-> IF inst.kind \in {"load", "store"} THEN "pending" ELSE "none",
     recover_inst |-> mispredicted /\ ~spec_mode[c],
     spec_mode |-> spec_mode[c]]

LSQ_num(c) == Cardinality({i \in DOMAIN ROB[c] : ROB[c][i].mem # "none"})

\* Mutant: serves contexts that are not attached.
CanRenameAnyone(c, inst) ==
    /\ ~loading
    /\ include_spec \/ ~spec_mode[c]
    /\ Len(ROB[c]) < ROBSize
    /\ LSQ_num(c) < LSQSize
    /\ inst.dest # "NONE" => FreeRegs(inst.dest) # {}
    /\ inst.kind = "trap" => ROB[c] = <<>>

(* The list of contexts to rename from is taken when the stage starts, so  *)
(* a context that exits during the stage is still served.                  *)
CanRename(c, inst) ==
    /\ ~loading
    /\ c \in context_ids \/ stale[c] > 0
    /\ include_spec \/ ~spec_mode[c]
    /\ Len(ROB[c]) < ROBSize
    /\ LSQ_num(c) < LSQSize
    /\ inst.dest # "NONE" => FreeRegs(inst.dest) # {}
    /\ inst.kind = "trap" => ROB[c] = <<>>

(* Instructions other than the traps that create or destroy contexts.      *)
register_rename(c, inst, mispredicted) ==
    /\ CanRename(c, inst)
    /\ mispredicted => inst.kind = "branch"
    /\ ROB' = [ROB EXCEPT ![c] = Append(@, NewEntry(c, inst, mispredicted))]
    /\ IF Renames(inst)
         THEN /\ reg_file' = [reg_file EXCEPT
                                ![<<inst.dest, find_free_physreg(inst.dest)>>] = "ALLOC"]
              /\ rename_table' = [rename_table EXCEPT
                                ![c][inst.out] = find_free_physreg(inst.dest)]
         ELSE UNCHANGED <<reg_file, rename_table>>
    /\ spec_mode' = [spec_mode EXCEPT ![c] = @ \/ mispredicted]
    /\ stale' = [stale EXCEPT ![c] = IF c \in context_ids THEN @ ELSE @ - 1]
    /\ UNCHANGED <<loading, arch_regs, created, context_ids>>

(* fork: the child is a copy of its parent, with a bank of its own.  A     *)
(* fork that finds no room here is a register_rename of the trap, and a    *)
(* remote_fork if another core takes the child.                            *)
fork(p, c, inst) ==
    /\ inst.kind = "trap"
    /\ CanRename(p, inst)
    /\ addcontext(c, rename_table[p][DFPCR])
    /\ ROB' = [ROB EXCEPT ![p] = Append(@, NewEntry(p, inst, FALSE))]
    /\ UNCHANGED <<loading, reg_file, spec_mode, stale>>

(* kill: k destroys another context of the core.                           *)
kill(k, v, inst) ==
    /\ inst.kind = "trap"
    /\ k # v /\ v \in context_ids
    /\ CanRename(k, inst)
    /\ FlushAndEject(v)
    /\ ROB' = [ROB EXCEPT ![v] = <<>>, ![k] = Append(@, NewEntry(k, inst, FALSE))]
    /\ UNCHANGED <<loading, created, stale>>

(* kill from a context of another core, at any time.                       *)
remote_kill(v) ==
    /\ ~loading /\ v \in context_ids
    /\ FlushAndEject(v)
    /\ ROB' = [ROB EXCEPT ![v] = <<>>]
    /\ UNCHANGED <<loading, created, stale>>

(* exit: the context destroys itself, and the rename stage goes on with    *)
(* it: the trap gets its ROB entry, and up to MaxStale instructions left   *)
(* in the fetch queue are renamed after it.                                *)
exit(c, inst, n) ==
    /\ inst.kind = "trap" /\ c \in context_ids
    /\ CanRename(c, inst)
    /\ FlushAndEject(c)
    /\ ROB' = [ROB EXCEPT ![c] = Append(@, NewEntry(c, inst, FALSE))]
    /\ stale' = [stale EXCEPT ![c] = n]
    /\ UNCHANGED <<loading, created>>

-----------------------------------------------------------------------------
(* Completion and commit *)

(* A result is written; a branch found to be mispredicted rolls the        *)
(* context back to it.  The destination of a load or store is written by   *)
(* its LSQ entry, not here.                                                *)
writeback(c, i) ==
    LET e == ROB[c][i]
        kept == IF e.recover_inst THEN SubSeq(ROB[c], 1, i) ELSE ROB[c]
        regs == IF e.recover_inst THEN RegFileAfterSquash(ROB[c], i) ELSE reg_file
    IN  /\ c \in context_ids
        /\ ~e.completed /\ all_operands_ready(e)
        /\ ROB' = [ROB EXCEPT ![c] = [kept EXCEPT ![i].completed = TRUE]]
        /\ reg_file' = IF e.physreg # NoReg /\ e.mem = "none"
                         THEN [regs EXCEPT ![<<e.inst.dest, e.physreg>>] = "WB"]
                         ELSE regs
        /\ IF e.recover_inst
             THEN /\ rename_table' =
                    [rename_table EXCEPT ![c] = TableAfterSquash(ROB[c], rename_table[c], i)]
                  /\ spec_mode' = [spec_mode EXCEPT ![c] = FALSE]
             ELSE UNCHANGED <<rename_table, spec_mode>>
        /\ UNCHANGED <<loading, arch_regs, created, context_ids, stale>>

(* The LSQ entry completes and writes the destination, if there is one.    *)
LSQDone(c, i) ==
    LET e == ROB[c][i]
    IN  /\ ROB' = [ROB EXCEPT ![c][i].mem = "done"]
        /\ reg_file' = IF e.physreg # NoReg
                         THEN [reg_file EXCEPT ![<<e.inst.dest, e.physreg>>] = "WB"]
                         ELSE reg_file
        /\ UNCHANGED <<loading, arch_regs, created, context_ids, rename_table,
                       spec_mode, stale>>

LoadDone(c, i) ==
    /\ c \in context_ids
    /\ ROB[c][i].mem = "pending" /\ ROB[c][i].inst.kind = "load"
    /\ operand_ready(ROB[c][i], 1) /\ operand_ready(ROB[c][i], 2)
    /\ LSQDone(c, i)

(* A store completes as soon as its operands are expected to be ready;     *)
(* nothing holds it back until they are.                                   *)
StoreDone(c, i) ==
    /\ c \in context_ids
    /\ ROB[c][i].mem = "pending" /\ ROB[c][i].inst.kind = "store"
    /\ LSQDone(c, i)

\* Mutant: does not wait for the LSQ entry.
AddressComputed(e) == e.completed

Committable(e) == e.completed /\ e.mem # "pending"

\* Mutant: does not free the register that the commit replaces.
CommitKeepsOld(c) ==
    LET e == ROB[c][1]
    IN  /\ c \in context_ids /\ ROB[c] # <<>>
        /\ Committable(e)
        /\ reg_file' = IF e.physreg = NoReg THEN reg_file
                       ELSE [reg_file EXCEPT ![<<e.inst.dest, e.physreg>>] = "ARCH"]
        /\ ROB' = [ROB EXCEPT ![c] = Tail(@)]
        /\ UNCHANGED <<loading, arch_regs, created, context_ids, rename_table,
                       spec_mode, stale>>

commit(c) ==
    LET e == ROB[c][1]
    IN  /\ c \in context_ids /\ ROB[c] # <<>>
        /\ Committable(e)
        /\ reg_file' = IF e.physreg = NoReg THEN reg_file
                       ELSE [reg_file EXCEPT ![<<e.inst.dest, e.old_physreg>>] = "FREE",
                                             ![<<e.inst.dest, e.physreg>>] = "ARCH"]
        /\ ROB' = [ROB EXCEPT ![c] = Tail(@)]
        /\ UNCHANGED <<loading, arch_regs, created, context_ids, rename_table,
                       spec_mode, stale>>

(* The main loop ends once no context is left on any core.                 *)
finished ==
    /\ ~loading /\ context_ids = {}
    /\ UNCHANGED vars

Next ==
    \/ sim_main
    \/ finished
    \/ \E c \in Contexts :
        \/ sim_load_prog(c)
        \/ remote_fork(c)
        \/ remote_kill(c)
        \/ commit(c)
        \/ \E i \in DOMAIN ROB[c] : writeback(c, i) \/ LoadDone(c, i) \/ StoreDone(c, i)
        \/ \E inst \in Insts :
            \/ \E mispredicted \in BOOLEAN : register_rename(c, inst, mispredicted)
            \/ \E n \in 0 .. MaxStale : exit(c, inst, n)
            \/ \E d \in Contexts : fork(c, d, inst) \/ kill(c, d, inst)

(* Every stage runs once a cycle and serves the contexts of the core in    *)
(* turn: what has issued is written back, what is complete is committed.   *)
Fairness ==
    \A c \in Contexts :
        /\ WF_vars(\E i \in DOMAIN ROB[c] : writeback(c, i))
        /\ WF_vars(\E i \in DOMAIN ROB[c] : LoadDone(c, i) \/ StoreDone(c, i))
        /\ WF_vars(commit(c))

Spec == Init /\ [][Next]_vars

FairSpec == Spec /\ Fairness

-----------------------------------------------------------------------------
(* Properties *)

Entries == {e \in
    [inst : Insts, physreg : PhysRegs \cup {NoReg},
     old_physreg : PhysRegs \cup {NoReg}, src_physreg : [1 .. 2 -> PhysRegs],
     completed : BOOLEAN, mem : {"none", "pending", "done"},
     recover_inst : BOOLEAN, spec_mode : BOOLEAN] :
        (e.physreg # NoReg <=> Renames(e.inst)) /\ (e.old_physreg # NoReg <=> Renames(e.inst))}

TypeOK ==
    /\ loading \in BOOLEAN
    /\ reg_file \in [RegTypes \X PhysRegs -> RegStates]
    /\ arch_regs \in Seq(Banks)
    /\ created \subseteq Contexts
    /\ context_ids \subseteq created
    /\ rename_table \in [Contexts -> [ArchRegs -> PhysRegs]]
    /\ ROB \in [Contexts -> Seq(Entries)]
    /\ spec_mode \in [Contexts -> BOOLEAN]
    /\ stale \in [Contexts -> 0 .. MaxStale]

(* The registers of a program as of its last committed instruction: the    *)
(* mapping that the oldest writer in flight replaced, or the rename table. *)
CommittedReg(rob, table, a) ==
    IF Writers(rob, a) = {} THEN table[a]
    ELSE rob[Oldest(Writers(rob, a))].old_physreg

CommittedBank(rob, table) == [a \in Mapped |-> CommittedReg(rob, table, a)]

CommittedMap(c) == CommittedBank(ROB[c], rename_table[c])

(* The mapping of a that the n-th entry of c finds in program order.       *)
MappingBefore(c, n, a) ==
    LET older == {j \in Writers(ROB[c], a) : j < n}
    IN  IF older = {} THEN CommittedReg(ROB[c], rename_table[c], a)
        ELSE ROB[c][Newest(older)].physreg

Written(e) == IF e.mem = "none" THEN e.completed ELSE e.mem = "done"

Clash(b1, a1, b2, a2) == TypeOf(a1) = TypeOf(a2) /\ b1[a1] = b2[a2]

(* A committed mapping is in the ARCH state and belongs to exactly one     *)
(* bank: one that waits on the core, or the committed map of one attached  *)
(* context.                                                                *)
BanksApart ==
    /\ \A k, l \in DOMAIN arch_regs : \A a1, a2 \in Mapped :
        Clash(arch_regs[k], a1, arch_regs[l], a2) => k = l /\ a1 = a2
    /\ \A c, d \in context_ids : \A a1, a2 \in Mapped :
        Clash(CommittedMap(c), a1, CommittedMap(d), a2) => c = d /\ a1 = a2
    /\ \A k \in DOMAIN arch_regs : \A c \in context_ids : \A a1, a2 \in Mapped :
        ~Clash(arch_regs[k], a1, CommittedMap(c), a2)

BanksArch ==
    /\ \A k \in DOMAIN arch_regs : \A a \in Mapped :
        reg_file[<<TypeOf(a), arch_regs[k][a]>>] = "ARCH"
    /\ \A c \in context_ids : \A a \in Mapped :
        reg_file[<<TypeOf(a), CommittedMap(c)[a]>>] = "ARCH"

(* The destination of an instruction in flight belongs to it alone, and    *)
(* its state tells whether the instruction has written it.                 *)
InFlightApart ==
    /\ \A c, d \in Contexts : \A i \in DOMAIN ROB[c], j \in DOMAIN ROB[d] :
        /\ ROB[c][i].physreg # NoReg
        /\ ROB[d][j].physreg = ROB[c][i].physreg
        /\ ROB[d][j].inst.dest = ROB[c][i].inst.dest
        => c = d /\ i = j
    /\ \A c \in Contexts : \A i \in DOMAIN ROB[c] :
        ROB[c][i].physreg # NoReg =>
            reg_file[<<ROB[c][i].inst.dest, ROB[c][i].physreg>>]
                = IF Written(ROB[c][i]) THEN "WB" ELSE "ALLOC"

(* No physical register has two owners: alloc_physreg, commit, the two     *)
(* squashes and the hand-over of banks never let one register serve two    *)
(* contexts, or a register be handed out while anything still maps to it.  *)
SingleOwner == BanksApart /\ BanksArch /\ InFlightApart

(* No physical register is lost: one that is not free is in a bank of the  *)
(* core, in the committed map of an attached context, or the destination   *)
(* of an instruction such a context has in flight, and will come back from *)
(* there.  A context that leaves gives back all it held.                   *)
NoLeak ==
    \A t \in RegTypes, r \in PhysRegs : reg_file[<<t, r>>] # "FREE" =>
        \/ \E k \in DOMAIN arch_regs : \E a \in Mapped :
            TypeOf(a) = t /\ arch_regs[k][a] = r
        \/ \E c \in context_ids : \E a \in Mapped :
            TypeOf(a) = t /\ CommittedMap(c)[a] = r
        \/ \E c \in context_ids : \E i \in DOMAIN ROB[c] :
            ROB[c][i].inst.dest = t /\ ROB[c][i].physreg = r

(* Registers leak only through what is renamed after its context's exit:   *)
(* any other step leaves none behind that was not already lost (NoLeak).   *)
Lost == {tr \in RegTypes \X PhysRegs :
    /\ reg_file[tr] # "FREE"
    /\ \A k \in DOMAIN arch_regs : \A a \in Mapped :
        TypeOf(a) = tr[1] => arch_regs[k][a] # tr[2]
    /\ \A c \in context_ids :
        /\ \A a \in Mapped : TypeOf(a) = tr[1] => CommittedMap(c)[a] # tr[2]
        /\ \A i \in DOMAIN ROB[c] :
            ROB[c][i].inst.dest = tr[1] => ROB[c][i].physreg # tr[2]}
LostOnlyAfterExit ==
    [][(\A c \in Contexts : stale'[c] >= stale[c]) => Lost' \subseteq Lost]_vars

(* The budget that the check of rf:size relies on: what is in flight and   *)
(* what is free add up to the registers beyond one bank for every context  *)
(* the core has room for, so an idle core can always rename.               *)
RegBudget ==
    \A t \in RegTypes :
        Cardinality(FreeRegs(t))
        + Cardinality({p \in Contexts \X (1 .. ROBSize) :
                          /\ p[2] \in DOMAIN ROB[p[1]]
                          /\ ROB[p[1]][p[2]].physreg # NoReg
                          /\ ROB[p[1]][p[2]].inst.dest = t})
            = RFSize - NArch * MaxContexts

(* The two assertions of commit: the mapping that a committing instruction *)
(* replaced is architectural, and its own destination has been written.    *)
CommitSafe ==
    \A c \in context_ids :
        ROB[c] # <<>> /\ Committable(ROB[c][1]) /\ ROB[c][1].physreg # NoReg =>
            LET e == ROB[c][1]
            IN  /\ reg_file[<<e.inst.dest, e.old_physreg>>] = "ARCH"
                /\ reg_file[<<e.inst.dest, e.physreg>>] = "WB"

(* Renaming keeps program order: every source is the destination of the    *)
(* newest older writer, or the committed register when no writer is in     *)
(* flight; what an entry will put back when it is undone is the mapping it *)
(* found; and the rename table is what the next instruction must find.     *)
MappingsInOrder ==
    \A c \in context_ids :
        /\ \A i \in DOMAIN ROB[c] :
            LET e == ROB[c][i]
            IN  /\ \A k \in 1 .. 2 : e.inst.src[k] # "NONE" =>
                    e.src_physreg[k] = MappingBefore(c, i, e.inst.in[k])
                /\ e.physreg # NoReg =>
                    e.old_physreg = MappingBefore(c, i, e.inst.out)
        /\ \A a \in ArchRegs :
            rename_table[c][a] = MappingBefore(c, Len(ROB[c]) + 1, a)

(* A context is in spec_mode exactly while one mispredicted branch is in   *)
(* flight and unresolved: what is younger was renamed on the wrong path,   *)
(* what is older was not.  So the oldest entry, where a flush restarts the *)
(* context, is never on the wrong path, and neither is a trap.             *)
Bracketed(rob, spec) ==
    IF spec
    THEN \E b \in DOMAIN rob :
            /\ rob[b].recover_inst /\ ~rob[b].completed
            /\ \A i \in DOMAIN rob :
                /\ rob[i].spec_mode <=> i > b
                /\ rob[i].recover_inst /\ ~rob[i].completed => i = b
    ELSE \A i \in DOMAIN rob :
            /\ ~rob[i].spec_mode
            /\ rob[i].recover_inst => rob[i].completed

SpecBracket == \A c \in context_ids : Bracketed(ROB[c], spec_mode[c])

(* Once in the ROB, an instruction is not stuck there: again and again the *)
(* ROB of a context is empty, or its head commits.                         *)
CommitProgress ==
    \A c \in Contexts :
        []<>(c \notin context_ids \/ ROB[c] = <<>>) \/ []<><<commit(c)>>_vars

(* There is a bank on the core for every context it has room for beyond    *)
(* those attached, so the assertions of getArch hold.                      *)
BankPerPlace ==
    /\ IsFiniteSet(context_ids)
    /\ Len(arch_regs) + Cardinality(context_ids) = MaxContexts

(* The undo chain of a context: an entry that replaced the mapping of an   *)
(* older one holds that mapping, and the rename table holds the mapping of *)
(* the youngest writer.                                                    *)
UndoChain(rob, table) ==
    \A a \in ArchRegs : \A i \in Writers(rob, a) :
        /\ (\A j \in Writers(rob, a) : j <= i) => table[a] = rob[i].physreg
        /\ \A j \in Writers(rob, a) :
            i < j /\ (\A k \in Writers(rob, a) : k <= i \/ j <= k)
                => rob[j].old_physreg = rob[i].physreg

UndoChains == \A c \in context_ids : UndoChain(ROB[c], rename_table[c])

(* A context that is not attached and is not exiting has nothing in flight,*)
(* and a core that is still loading has run nothing.                       *)
Quiet ==
    /\ \A c \in Contexts \ created : ROB[c] = <<>> /\ stale[c] = 0
    /\ \A c \in context_ids : stale[c] = 0
    /\ loading => \A c \in Contexts : ROB[c] = <<>>

Ownership == TypeOK /\ BankPerPlace /\ Quiet /\ UndoChains /\ SingleOwner

(* Every context sees its committed map change only when one of its own    *)
(* instructions commits; renaming, squashing and other contexts leave it   *)
(* alone.                                                                  *)
Arch == INSTANCE ArchMap WITH
            Holders <- context_ids,
            pool <- arch_regs,
            map <- [c \in context_ids |-> CommittedMap(c)]
CommittedState == Arch!Spec

=============================================================================
