----------------------------- MODULE Scheduler -----------------------------
(***************************************************************************)
(* The out-of-order half of the pipeline of one core: dispatch into the    *)
(* issue queue, the four in-flight lists, wakeup, selection, execution     *)
(* with replay, load/store ordering, writeback and commit                  *)
(* (src/sim-outorder.c, src/cmp.c, src/iq.c).                              *)
(*                                                                         *)
(* A cycle runs the stages in the order of the main loop; "stage" is the   *)
(* one in progress, and a stage that loops takes one step per iteration.   *)
(* Times are counted from the current cycle: 0 is sim_cycle, and a time    *)
(* that is past is kept as -1.                                             *)
(*                                                                         *)
(* An entry is named by its sequence number (ROB_entry::seq).  A load or a *)
(* store has two, the address computation in the reorder buffer and the    *)
(* access in the load/store queue.  A physical register is named by the    *)
(* reorder buffer entry that it was allocated for: RegRename shows that    *)
(* entries in flight never share one.                                      *)
(***************************************************************************)
EXTENDS Integers, FiniteSets, Sequences

CONSTANTS Cores,             \* the cores tried, each a record of
                             \*   NumContexts: contexts attached to it
                             \*   IQSize: entries of the issue queue
                             \*   issuelat: cycles an issue keeps a unit
                             \*   recovery_model: "squash" or "perfect"
                             \*   Kinds: the instructions its programs have
                             \*   Addrs: the memory addresses they use
                             \*   MaxSeq: bound, sequence numbers handed out
          issue_width, commit_width, write_buf_size,
          ISSUE_EXEC_DELAY,  \* cycles between selection and execution
          MemLats,           \* latencies of the data cache and its TLB
          cache_dl1_lat      \* the latency of a hit

VARIABLE core                \* the one of a behaviour
NumContexts == core.NumContexts
IQSize == core.IQSize
issuelat == core.issuelat
recovery_model == core.recovery_model
Kinds == core.Kinds
Addrs == core.Addrs
MaxSeq == core.MaxSeq

Contexts == 0 .. NumContexts - 1
NoReg == 0
INF == 1000
Past == -1
FUClasses == {"ialu", "memport"}

ASSUME SizesAssumption ==
    /\ issue_width \in Nat \ {0} /\ commit_width \in Nat \ {0}
    /\ write_buf_size \in Nat \ {0}
    /\ ISSUE_EXEC_DELAY \in Nat \ {0}
ASSUME LatsAssumption ==
    /\ ISSUE_EXEC_DELAY < INF - 1
    /\ MemLats \subseteq 1 .. INF - ISSUE_EXEC_DELAY - 1
    /\ cache_dl1_lat \in 1 .. INF - 1
ASSUME CoresAssumption ==
    Cores \subseteq
      [NumContexts : Nat \ {0}, IQSize : Nat \ {0}, issuelat : Nat \ {0},
       recovery_model : {"squash", "perfect"},
       Kinds : SUBSET {"alu", "branch", "nofu", "load", "store", "store_c"},
       Addrs : SUBSET Nat, MaxSeq : Nat]

VARIABLES
    stage,              \* the stage of the cycle in progress
    turn,               \* sim_cycle % (contexts of the core)
    count,              \* committed or n_issued
    it,                 \* the entry that selection looked at last
    inst,               \* what rename wrote, by sequence number
    ROB, LSQ,           \* the entries of each context
    dispatched, queued, issued, completed,
    in_IQ, iq_entry_num, iq,
    waiting_queue, ready_queue, issue_exec_queue, event_queue,
    ready, spec_ready,  \* of the physical registers
    exec_lat, busy, write_buf

flags == <<dispatched, queued, issued, completed>>
iqs   == <<in_IQ, iq_entry_num, iq>>
lists == <<waiting_queue, ready_queue, issue_exec_queue, event_queue>>
times == <<ready, spec_ready>>
loop  == <<stage, turn, count, it>>
vars  == <<core, loop, inst, ROB, LSQ, flags, iqs, lists, times, exec_lat, busy, write_buf>>

-----------------------------------------------------------------------------
(* Entries *)

Oldest(S) == CHOOSE e \in S : \A f \in S : e <= f
AllROB == UNION {ROB[c] : c \in Contexts}
AllLSQ == UNION {LSQ[c] : c \in Contexts}
Live   == AllROB \cup AllLSQ

IsStore(e) == inst[e].in_LSQ /\ inst[e].kind \in {"store", "store_c"}
IsLoad(e)  == inst[e].in_LSQ /\ inst[e].kind = "load"
ea_comp(e) == ~inst[e].in_LSQ /\ inst[e].kind \in {"load", "store", "store_c"}
\* The register that the completion of the entry writes.
Dest(e)    == IF ea_comp(e) THEN NoReg ELSE inst[e].physreg

\* An access is numbered after its address computation.
AccessOf(e) == e + 1

\* The operands that an entry waits for.
Reads(e) == IF ea_comp(e) \/ IsLoad(e) THEN {1} ELSE {0, 1}
operand_ready(e, k) ==
    LET r == inst[e].src_physreg[k] IN IF r = NoReg THEN TRUE ELSE ready[r] <= 0
operand_spec_ready(e, k) ==
    LET r == inst[e].src_physreg[k] IN IF r = NoReg THEN TRUE ELSE spec_ready[r] <= 0
all_operands_ready(e)      == \A k \in Reads(e) : operand_ready(e, k)
all_operands_spec_ready(e) == \A k \in Reads(e) : operand_spec_ready(e, k)

\* Contexts are served round robin from the one whose turn it is.
Distance(c) == (c + NumContexts - turn) % NumContexts
FirstServed(S) == CHOOSE c \in S : \A d \in S : Distance(c) <= Distance(d)

FUClass(e) == CASE inst[e].in_LSQ -> "memport"
                [] inst[e].kind = "nofu" -> "NA"
                [] OTHER -> "ialu"

UnitFree(e) == IF FUClass(e) = "NA" THEN TRUE ELSE busy[FUClass(e)] = 0

SetReg(f, r, t) == IF r = NoReg THEN f ELSE [f EXCEPT ![r] = t]

\* Entries that leave are taken off every list; "served" are events done with.
Without(q, E) == {x \in q : x.rs \notin E}
Clear_Entry_From_Queues(E, served) ==
    /\ waiting_queue' = waiting_queue \ E
    /\ ready_queue' = ready_queue \ E
    /\ issue_exec_queue' = Without(issue_exec_queue, E)
    /\ event_queue' = Without(event_queue \ served, E)

-----------------------------------------------------------------------------
Init ==
    /\ core \in Cores
    /\ stage = "commit" /\ turn = 0 /\ count = 0 /\ it = 0
    /\ inst = <<>>
    /\ ROB = [c \in Contexts |-> {}] /\ LSQ = [c \in Contexts |-> {}]
    /\ dispatched = {} /\ queued = {} /\ issued = {} /\ completed = {}
    /\ in_IQ = {} /\ iq = {} /\ iq_entry_num = <<>>
    /\ waiting_queue = {} /\ ready_queue = {}
    /\ issue_exec_queue = {} /\ event_queue = {}
    /\ ready = <<>> /\ spec_ready = <<>> /\ exec_lat = <<>>
    /\ busy = [k \in FUClasses |-> 0] /\ write_buf = {}

\* A stage starts with its counters at zero.
Enter(s) == stage' = s /\ count' = 0 /\ it' = 0 /\ UNCHANGED turn

-----------------------------------------------------------------------------
(* Commit: in order in each context, round robin over the contexts.  A     *)
(* store needs a port and room in the write buffer.                        *)

\* A full write buffer first drops the writes that have finished, so that only
\* those that have not ever keep a store waiting: they are all that is kept.
StorePort == busy["memport"] = 0 /\ Cardinality(write_buf) < write_buf_size

\* Mutant: a load commits when its address is computed.
CommittableAddress(c) ==
    /\ ROB[c] # {}
    /\ LET e == Oldest(ROB[c]) IN
         /\ e \in completed
         /\ ea_comp(e) /\ IsStore(AccessOf(e)) => AccessOf(e) \in completed /\ StorePort
Committable(c) ==
    /\ ROB[c] # {}
    /\ LET e == Oldest(ROB[c]) IN
         /\ e \in completed
         /\ ea_comp(e) => /\ AccessOf(e) \in completed
                          /\ IsStore(AccessOf(e)) => StorePort

commit ==
    LET C == {c \in Contexts : Committable(c)}
        c == FirstServed(C)
        e == Oldest(ROB[c])
        E == IF ea_comp(e) THEN {e, AccessOf(e)} ELSE {e}
    IN  /\ stage = "commit" /\ C # {} /\ count < commit_width
        /\ count' = count + 1
        /\ ROB' = [ROB EXCEPT ![c] = @ \ E]
        /\ LSQ' = [LSQ EXCEPT ![c] = @ \ E]
        /\ dispatched' = dispatched \ E /\ queued' = queued \ E
        /\ issued' = issued \ E /\ completed' = completed \ E
        /\ Clear_Entry_From_Queues(E, {})
        /\ IF ea_comp(e) /\ IsStore(AccessOf(e))
           THEN /\ busy' = [busy EXCEPT !["memport"] = issuelat]
                /\ \E lat \in MemLats : write_buf' = write_buf \cup {lat}
           ELSE UNCHANGED <<busy, write_buf>>
        /\ UNCHANGED <<stage, turn, it, core, inst, iqs, times, exec_lat>>

\* The units are released between the stages (update_fu).
commit_done ==
    /\ stage = "commit"
    /\ count = commit_width \/ \A c \in Contexts : ~Committable(c)
    /\ Enter("writeback")
    /\ busy' = [k \in FUClasses |-> IF busy[k] > 0 THEN busy[k] - 1 ELSE 0]
    /\ UNCHANGED <<core, inst, ROB, LSQ, flags, iqs, lists, times, exec_lat, write_buf>>

-----------------------------------------------------------------------------
(* Writeback: a result is there, and a branch that was mispredicted takes  *)
(* back everything younger in its context.                                 *)

Younger(e) == {f \in ROB[inst[e].context_id] \cup LSQ[inst[e].context_id] : f > e}

\* The issue queue entries that a squash of E gives back.
FreedIQ(E) == {iq_entry_num[f] : f \in in_IQ \cap E}

writeback ==
    /\ stage = "writeback"
    /\ \E ev \in event_queue :
        LET e == ev.rs
            c == inst[e].context_id
            E == IF inst[e].recover_inst THEN Younger(e) ELSE {}
        IN  /\ ev.when <= 0
            /\ ROB' = [ROB EXCEPT ![c] = @ \ E]
            /\ LSQ' = [LSQ EXCEPT ![c] = @ \ E]
            /\ completed' = (completed \cup {e}) \ E
            /\ dispatched' = dispatched \ E /\ queued' = queued \ E /\ issued' = issued \ E
            /\ Clear_Entry_From_Queues(E, {ev})
            /\ iq' = iq \ FreedIQ(E) /\ in_IQ' = in_IQ \ E
    /\ UNCHANGED <<loop, core, inst, iq_entry_num, times, exec_lat, busy, write_buf>>

-----------------------------------------------------------------------------
(* Loads wait in no list.  Every cycle the load/store queue is walked, and *)
(* a load is made ready when its address is, when no older store has an    *)
(* unknown address, and when the youngest older store to the same address  *)
(* has its data.                                                           *)

OlderStores(e) == {f \in LSQ[inst[e].context_id] : f < e /\ IsStore(f)}
STORE_ADDR_READY(f) == operand_spec_ready(f, 1)
StoresKnown(e) ==
    LET same == {f \in OlderStores(e) : inst[f].addr = inst[e].addr} IN
    /\ \A f \in OlderStores(e) : STORE_ADDR_READY(f)
    /\ \A f \in same : (\A g \in same : g <= f) => all_operands_spec_ready(f)

Refreshed(e) ==
    /\ IsLoad(e) /\ e \in dispatched
    /\ e \notin queued /\ e \notin issued /\ e \notin completed
    /\ all_operands_spec_ready(e)
    /\ StoresKnown(e)

lsq_refresh ==
    LET L == {e \in AllLSQ : Refreshed(e)} IN
    /\ stage = "writeback" /\ \A ev \in event_queue : ev.when > 0
    /\ ready_queue' = ready_queue \cup L /\ queued' = queued \cup L
    /\ Enter("wakeup")
    /\ UNCHANGED <<core, inst, ROB, LSQ, dispatched, issued, completed, iqs, waiting_queue,
                   issue_exec_queue, event_queue, times, exec_lat, busy, write_buf>>

wakeup ==
    LET W == {e \in waiting_queue : all_operands_spec_ready(e)} IN
    /\ stage = "wakeup"
    /\ ready_queue' = ready_queue \cup W /\ queued' = queued \cup W
    /\ waiting_queue' = waiting_queue \ W
    /\ Enter("selection")
    /\ UNCHANGED <<core, inst, ROB, LSQ, dispatched, issued, completed, iqs,
                   issue_exec_queue, event_queue, times, exec_lat, busy, write_buf>>

-----------------------------------------------------------------------------
(* Selection: oldest first.  A store is done at once.  Anything else that  *)
(* finds a unit, or needs none, starts its way to execution, and announces *)
(* when its result will be there; for a load the announcement is a guess.  *)

Next_it == LET R == {e \in ready_queue : e > it} IN Oldest(R)
Selecting ==
    /\ stage = "selection" /\ count < issue_width
    /\ \E e \in ready_queue : e > it

\* Mutant: without the cycles between selection and execution.
BypassReadyEarly(lat) == lat
\* A result is on the bypass network when the execution ends.
BypassReady(lat) == lat + ISSUE_EXEC_DELAY

select_store ==
    LET e == Next_it
        r == Dest(e)
    IN  /\ Selecting /\ IsStore(e)
        /\ queued' = queued \ {e} /\ ready_queue' = ready_queue \ {e}
        /\ issued' = issued \cup {e} /\ completed' = completed \cup {e}
        /\ spec_ready' = SetReg(spec_ready, r, exec_lat[e])
        /\ ready' = SetReg(ready, r, BypassReady(exec_lat[e]))
        /\ count' = count + 1 /\ it' = e
        /\ UNCHANGED <<stage, turn, core, inst, ROB, LSQ, dispatched, iqs, waiting_queue,
                       issue_exec_queue, event_queue, exec_lat, busy, write_buf>>

\* The latency of each kind of entry, and when its consumers wake up.
Latencies(e) == IF IsLoad(e) THEN MemLats ELSE {1}
\* Mutant: the hit predictor is asked in both recovery models.
WakeupsGuessed(e, lat) ==
    IF IsLoad(e) THEN {cache_dl1_lat, lat + ISSUE_EXEC_DELAY} ELSE {lat}
Wakeups(e, lat) ==
    CASE ~IsLoad(e) -> {lat}
      [] IsLoad(e) /\ recovery_model = "squash" -> {cache_dl1_lat, lat + ISSUE_EXEC_DELAY}
      [] OTHER -> {lat}

issue ==
    LET e == Next_it
        r == Dest(e)
    IN  /\ Selecting /\ ~IsStore(e)
        /\ UnitFree(e)
        /\ busy' = IF FUClass(e) = "NA" THEN busy ELSE [busy EXCEPT ![FUClass(e)] = issuelat]
        /\ queued' = queued \ {e} /\ ready_queue' = ready_queue \ {e}
        /\ issued' = issued \cup {e}
        /\ \E lat \in Latencies(e) : \E w \in Wakeups(e, lat) :
              /\ exec_lat' = [exec_lat EXCEPT ![e] = lat]
              /\ spec_ready' = SetReg(spec_ready, r, w)
              /\ ready' = SetReg(ready, r, BypassReady(lat))
        /\ issue_exec_queue' = issue_exec_queue \cup {[rs |-> e, when |-> ISSUE_EXEC_DELAY]}
        /\ count' = count + 1 /\ it' = e
        /\ UNCHANGED <<stage, turn, core, inst, ROB, LSQ, dispatched, completed, iqs,
                       waiting_queue, event_queue, write_buf>>

\* Without a unit the entry stays for the next cycle.
no_unit ==
    LET e == Next_it IN
    /\ Selecting /\ ~IsStore(e)
    /\ ~UnitFree(e)
    /\ it' = e
    /\ UNCHANGED <<stage, turn, count, core, inst, ROB, LSQ, flags, iqs, lists, times,
                   exec_lat, busy, write_buf>>

selection_done ==
    /\ stage = "selection" /\ ~Selecting
    /\ Enter("execute")
    /\ UNCHANGED <<core, inst, ROB, LSQ, flags, iqs, lists, times, exec_lat, busy, write_buf>>

-----------------------------------------------------------------------------
(* Execution: an entry whose operands are there leaves the issue queue and *)
(* schedules its writeback.  One that was woken by a wrong guess is        *)
(* replayed, with everything of its context that is on its way to          *)
(* execution or waits for selection.                                       *)

InContext(E, c) == {e \in E : inst[e].context_id = c}

NextToExecute ==
    LET due == {x \in issue_exec_queue : x.when <= 0}
    IN  CHOOSE x \in due : \A y \in due : x.when < y.when \/ (x.when = y.when /\ x.rs <= y.rs)
Executing == stage = "execute" /\ \E x \in issue_exec_queue : x.when <= 0

execute ==
    LET x == NextToExecute
        e == x.rs
    IN  /\ Executing /\ all_operands_ready(e)
        /\ issue_exec_queue' = issue_exec_queue \ {x}
        /\ event_queue' = event_queue \cup {[rs |-> e, when |-> exec_lat[e]]}
        /\ iq' = iq \ FreedIQ({e}) /\ in_IQ' = in_IQ \ {e}
        /\ UNCHANGED <<loop, core, inst, ROB, LSQ, flags, iq_entry_num, waiting_queue,
                       ready_queue, times, exec_lat, busy, write_buf>>

\* Mutant: a replayed load waits for its operands as the others do.
RequeuedAll(E) == E
\* Replayed entries wait again, the loads for lsq_refresh.
Requeued(E) == {e \in E : ~IsLoad(e)}

\* Mutant: only the entry that failed withdraws its result.
WithdrawnOldest(E) == {Dest(Oldest(E))} \ {NoReg}
\* Results that were announced and will not come.
Withdrawn(E) == {Dest(e) : e \in E} \ {NoReg}

\* The registers whose guess is corrected; physical register 0 is passed over.
Corrected(e, zero) ==
    {inst[e].src_physreg[k] : k \in IF IsLoad(e) THEN {1} ELSE {0, 1}} \ {NoReg, zero}
Less(t, d) == IF t = INF THEN INF ELSE IF t - d < 0 THEN Past ELSE t - d

\* What waits for selection goes back with it.
Flushed(c) == InContext(ready_queue, c)

replay ==
    LET e == NextToExecute.rs
        c == inst[e].context_id
        X == InContext({x.rs : x \in issue_exec_queue}, c)
        R == Flushed(c)
    IN  /\ Executing /\ ~all_operands_ready(e) /\ recovery_model = "squash"
        /\ \E zero \in {NoReg} \cup {inst[e].src_physreg[k] : k \in {0, 1}} :
             spec_ready' = [r \in DOMAIN spec_ready |->
                              IF r \in Withdrawn(X) THEN INF
                              ELSE IF r \in Corrected(e, zero) THEN Less(ready[r], ISSUE_EXEC_DELAY)
                              ELSE spec_ready[r]]
        /\ ready' = [r \in DOMAIN ready |-> IF r \in Withdrawn(X) THEN INF ELSE ready[r]]
        /\ issued' = issued \ X /\ queued' = queued \ R
        /\ issue_exec_queue' = Without(issue_exec_queue, X)
        /\ ready_queue' = ready_queue \ R
        /\ waiting_queue' = waiting_queue \cup Requeued(X \cup R)
        /\ UNCHANGED <<loop, core, inst, ROB, LSQ, dispatched, completed, iqs, event_queue,
                       exec_lat, busy, write_buf>>

-----------------------------------------------------------------------------
(* Dispatch returns from inside its loop: one instruction of the core in a *)
(* cycle enters the issue queue.                                           *)

Executed == stage = "execute" /\ ~Executing
Undispatched(c) == ROB[c] \ dispatched
\* Mutant: one entry too many.
iq_free_beyond == (0 .. IQSize) \ iq
iq_free == (0 .. IQSize - 1) \ iq
\* An address computation takes its access along.
\* Mutant: the access is left behind.
EnteringAlone(e) == {e}
Entering(e) == IF ea_comp(e) THEN {e, AccessOf(e)} ELSE {e}

dispatch ==
    LET C == {c \in Contexts : Undispatched(c) # {}}
        e == Oldest(Undispatched(FirstServed(C)))
        E == {f \in Entering(e) : ~IsLoad(f)}
        S == {f \in E : all_operands_spec_ready(f)}
    IN  /\ Executed /\ C # {} /\ iq_free # {}
        /\ dispatched' = dispatched \cup Entering(e)
        /\ iq_entry_num' = [iq_entry_num EXCEPT ![e] = Oldest(iq_free)]
        /\ iq' = iq \cup {Oldest(iq_free)} /\ in_IQ' = in_IQ \cup {e}
        /\ ready_queue' = ready_queue \cup S /\ queued' = queued \cup S
        /\ waiting_queue' = waiting_queue \cup (E \ S)
        /\ Enter("rename")
        /\ UNCHANGED <<core, inst, ROB, LSQ, issued, completed, issue_exec_queue, event_queue,
                       times, exec_lat, busy, write_buf>>

dispatch_none ==
    /\ Executed
    /\ iq_free = {} \/ \A c \in Contexts : Undispatched(c) = {}
    /\ Enter("rename")
    /\ UNCHANGED <<core, inst, ROB, LSQ, flags, iqs, lists, times, exec_lat, busy, write_buf>>

-----------------------------------------------------------------------------
(* Rename hands over the instructions of the program: what each reads,     *)
(* what it writes and, for a branch, whether it was mispredicted.  The     *)
(* entry keeps the latency of the one that had its place before.           *)

spec_mode(c) == \E e \in ROB[c] : inst[e].recover_inst /\ e \notin completed
WritesReg(kind) == kind \in {"alu", "nofu", "load", "store_c"}
IsMem(kind) == kind \in {"load", "store", "store_c"}
Sources(c) == {NoReg} \cup {inst[e].physreg : e \in ROB[c]}

register_rename(c, kind, src, addr, mispredicted, stale) ==
    LET n == Len(inst) + 1
        k == IF IsMem(kind) THEN 2 ELSE 1
        entry == [context_id |-> c, kind |-> kind, in_LSQ |-> FALSE, addr |-> addr,
              physreg |-> IF WritesReg(kind) THEN n ELSE NoReg, src_physreg |-> src,
              recover_inst |-> kind = "branch" /\ mispredicted /\ ~spec_mode(c)]
        fill(f, v) == f \o [i \in 1 .. k |-> v]
    IN  /\ stage = "rename" /\ n + k - 1 <= MaxSeq
        /\ inst' = inst \o IF IsMem(kind) THEN <<entry, [entry EXCEPT !.in_LSQ = TRUE]>> ELSE <<entry>>
        /\ ROB' = [ROB EXCEPT ![c] = @ \cup {n}]
        /\ LSQ' = [LSQ EXCEPT ![c] = @ \cup (n + 1 .. n + k - 1)]
        /\ ready' = fill(ready, INF) /\ spec_ready' = fill(spec_ready, INF)
        /\ exec_lat' = fill(exec_lat, stale) /\ iq_entry_num' = fill(iq_entry_num, -1)
        /\ UNCHANGED <<core, loop, flags, in_IQ, iq, lists, busy, write_buf>>

Tick(t) == IF t = INF THEN INF ELSE IF t <= 0 THEN Past ELSE t - 1
TickEvents(q) == {[x EXCEPT !.when = @ - 1] : x \in q}

next_cycle ==
    /\ stage = "rename"
    /\ stage' = "commit" /\ count' = 0 /\ it' = 0
    /\ turn' = (turn + 1) % NumContexts
    /\ ready' = [r \in DOMAIN ready |-> Tick(ready[r])]
    /\ spec_ready' = [r \in DOMAIN spec_ready |-> Tick(spec_ready[r])]
    /\ issue_exec_queue' = TickEvents(issue_exec_queue)
    /\ event_queue' = TickEvents(event_queue)
    /\ write_buf' = {t - 1 : t \in write_buf \ {0}}
    /\ UNCHANGED <<core, inst, ROB, LSQ, flags, iqs, waiting_queue, ready_queue, exec_lat, busy>>

-----------------------------------------------------------------------------
\* What an instruction does not have is left at a default, and the operands of
\* a computation come in one order: nothing tells them apart.
Rename ==
    \E c \in Contexts, kind \in Kinds, mispredicted \in BOOLEAN, stale \in {0} \cup MemLats :
      \E addr \in Addrs, src \in [{0, 1} -> Sources(c)] :
        /\ mispredicted => kind = "branch"
        /\ stale # 0 => kind = "store_c"
        /\ ~IsMem(kind) => addr = CHOOSE a \in Addrs : TRUE
        /\ kind \in {"load", "nofu"} => src[0] = NoReg
        /\ ~IsMem(kind) => src[0] <= src[1]
        /\ register_rename(c, kind, src, addr, mispredicted, stale)

Pipeline ==
    \/ commit \/ commit_done \/ writeback
    \/ lsq_refresh \/ wakeup
    \/ select_store \/ issue \/ no_unit \/ selection_done
    \/ execute \/ replay
    \/ dispatch \/ dispatch_none \/ next_cycle

Next == Pipeline \/ Rename
Spec == Init /\ [][Next]_vars
FairSpec == Spec /\ WF_vars(Pipeline)

-----------------------------------------------------------------------------
(* Type invariant *)

Seqs == 1 .. Len(inst)
TimesSet == Past .. INF
Events == [rs : Seqs, when : 0 .. INF]

TypeOK ==
    /\ stage \in {"commit", "writeback", "wakeup", "selection", "execute", "rename"}
    /\ turn \in Contexts /\ count \in Nat /\ it \in {0} \cup Seqs
    /\ \A e \in Seqs :
         /\ inst[e].context_id \in Contexts /\ inst[e].kind \in Kinds
         /\ inst[e].addr \in Addrs /\ inst[e].physreg \in {NoReg} \cup Seqs
         /\ inst[e].src_physreg \in [{0, 1} -> {NoReg} \cup Seqs]
         /\ inst[e].in_LSQ \in BOOLEAN /\ inst[e].recover_inst \in BOOLEAN
    /\ ROB \in [Contexts -> SUBSET Seqs] /\ LSQ \in [Contexts -> SUBSET Seqs]
    /\ dispatched \subseteq Seqs /\ queued \subseteq Seqs
    /\ issued \subseteq Seqs /\ completed \subseteq Seqs /\ in_IQ \subseteq Seqs
    /\ iq \subseteq 0 .. IQSize - 1
    /\ iq_entry_num \in [Seqs -> -1 .. IQSize - 1]
    /\ waiting_queue \subseteq Seqs /\ ready_queue \subseteq Seqs
    /\ issue_exec_queue \subseteq Events /\ event_queue \subseteq Events
    /\ ready \in [Seqs -> TimesSet] /\ spec_ready \in [Seqs -> TimesSet]
    /\ exec_lat \in [Seqs -> 0 .. INF]
    /\ busy \in [FUClasses -> 0 .. issuelat]
    /\ write_buf \subseteq 0 .. INF

-----------------------------------------------------------------------------
(* Properties *)

OnTheWay(q) == {x.rs : x \in q}
Places(e) == Cardinality({q \in {"waiting", "ready"} :
                            e \in IF q = "waiting" THEN waiting_queue ELSE ready_queue})
             + Cardinality({x \in issue_exec_queue : x.rs = e})
             + Cardinality({x \in event_queue : x.rs = e})

(* An entry that was dispatched and is not complete is in exactly one of   *)
(* the four lists, or it is a load that lsq_refresh will find; the lists   *)
(* hold nothing else, in particular no entry that was squashed or          *)
(* committed, and the flags say which list it is in.  Each that has not    *)
(* begun to execute for good has an issue queue entry of its own.  A       *)
(* replay, a squash and a cycle without a free unit lose none of them.     *)
ListsOK ==
    /\ \A e \in waiting_queue \cup ready_queue \cup OnTheWay(issue_exec_queue \cup event_queue) :
          e \in (Live \cap dispatched) \ completed
    /\ \A e \in (Live \cap dispatched) \ completed :
          Places(e) = 1 \/ (Places(e) = 0 /\ IsLoad(e))
    /\ queued = ready_queue
    /\ issued = completed \cup OnTheWay(issue_exec_queue \cup event_queue)
    /\ in_IQ = {e \in AllROB \cap dispatched : e \notin completed \cup OnTheWay(event_queue)}
    /\ iq = {iq_entry_num[e] : e \in in_IQ}
    /\ \A e, f \in in_IQ : iq_entry_num[e] = iq_entry_num[f] => e = f

(* Writeback never panics: a result comes back in the cycle in which its   *)
(* register was announced ready, with its operands there, although any of  *)
(* them may have been guessed, withdrawn and announced again; and what     *)
(* selection takes from the ready queue is still expected to be ready: a   *)
(* withdrawn result leaves no consumer behind in the queue.                *)
WritebackOnTime ==
    /\ \A x \in event_queue :
          /\ all_operands_ready(x.rs)
          /\ Dest(x.rs) # NoReg => ready[Dest(x.rs)] = x.when
    /\ stage = "selection" => \A e \in ready_queue : e > it => all_operands_spec_ready(e)

(* A register is ready exactly when the entry that computes it has written *)
(* it back: no entry begins execution with a value that is not there.  (A  *)
(* conditional store is completed before its result is ready.)             *)
ReadyMeansWritten ==
    stage \notin {"commit", "writeback"} =>
        \A e \in Live : Dest(e) # NoReg /\ ~IsStore(e) =>
            (ready[Dest(e)] <= 0 <=> e \in completed)

(* Without a conditional store, what commits had its operands, although a  *)
(* store is complete as soon as they are expected.                         *)
CommitReady ==
    [][stage = "commit" /\ "store_c" \notin Kinds =>
        \A e \in Live : e \notin Live' => all_operands_ready(e)]_vars

(* Every entry commits or is squashed: no replay goes on for ever, and no  *)
(* entry waits for ever for a unit, for the issue queue or for a store.    *)
EveryEntryLeaves == \A e \in UNION {1 .. k.MaxSeq : k \in Cores} : e \in Live ~> e \notin Live

(* With perfect knowledge of the latency of loads nothing is replayed: the *)
(* code asserts it.                                                        *)
NothingReplayed ==
    recovery_model = "perfect" =>
        \A x \in issue_exec_queue : stage = "execute" /\ x.when <= 0 => all_operands_ready(x.rs)

(* A completed store has its value, as the comment on the load/store queue *)
(* says: later loads from the same address take it from there.             *)
StoredValueAvailable ==
    \A e \in AllLSQ \cap completed : IsStore(e) => operand_ready(e, 0)
=============================================================================
