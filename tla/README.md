# A TLA+ model of the simulator

The program is M-Sim, a cycle simulator of SMT/CMP out-of-order Alpha
processors that descends from SimpleScalar, together with a learning agent,
`DPPO.py`, that chooses how many instructions are renamed per cycle.
Instructions are executed functionally *when they are renamed*
(`register_rename`, sim-outorder.c); everything after that is a timing model.
So the hard part of this code is not arithmetic but bookkeeping: several
programs share one pool of physical registers, one issue queue, four event
lists and the descriptors of one host process, and at any moment a mispredicted
branch, a missed load, a `kill` or an `exit` takes back an arbitrary part of what
one of them has in flight.

## 1. The parts of the system

The simulator is single-threaded. `main` reads the command line and loads the
programs; `sim_main` first runs them in a fast-forward loop, without timing, and
then runs, per cycle and per core, the stages in reverse order: `commit`,
`update_fu`, `writeback`, `lsq_refresh`, `wakeup`, `selection`, `execute`,
`dispatch`, `register_rename`, `fetch`. The concurrency is that of the simulated
machine: contexts (programs) on a core, instructions of a context, the stages,
which communicate only through shared state from one cycle to the next, and
processes that fork, wait and end. One part is concurrent in earnest: the agent
is a process of its own that meets the simulator in two files.

| part | state | operations | what makes it correct |
|---|---|---|---|
| physical registers (`regrename.c`, `cmp.c`) | state FREE, ALLOC, WB, ARCH of each register; rename table and ROB of each context; banks that wait on the core | rename, write back, commit, rollback to a branch, flush, attach and detach a context | no register has two owners, none is lost, committed state survives every squash |
| scheduling (`sim-outorder.c`, `iq.c`, `inflightq.h`) | issue queue, waiting/ready/issue-exec/event lists, ready and expected-ready times | dispatch, wakeup, selection, execute with replay, lsq_refresh | an instruction is in exactly one list, nothing is lost in a replay, nothing completes before its operands |
| fetch (`sim-outorder.c`, `fetchtorename.h`) | fetch queue ring, `icount`, delay counters, DCRA counters | fetch, the three policies, consumption by rename, squash | ring indices and counts agree, `icount` counts what it says, what is renamed is the program's next instruction |
| prediction (`retstack.c`, `btb.c`, `bpred*.c`) | return stack, BTB, direction tables, histories | look-up, push, pop, recover, update, warm-up | sets are recency lists, the return stack follows the open calls, counters learn |
| caches and memory timing (`cache.c`, `dram.c`, `sim-outorder.c`) | sets of blocks, bank times, write buffer | access, fill, write back, dirty bits | no store is lost between levels, replacement is as promised, banks serve in order |
| precise state (`sim-outorder.c`, `cmp.c`) | registers, control registers, memory, and the old values kept in ROB and LSQ | execution at rename, rollback, flush | after a squash the state is that before the first squashed instruction |
| functional units, power (`resource.c`, `power.c`) | busy counters, access counters, accumulated charges | res_get, update_fu, update_power_stats | a unit is never given out while busy; gated power is ordered and adds up |
| contexts and processes (`cmp.c`, `syscall.c`, `pid.c`, `smt.c`) | `context_ids`, per-place predictors and sizes, process list, `interrupts`, `waiting_for` | load, fork, exit, kill, wait4, select, execve | every context is on one core or none, a waiting parent is woken exactly when a child has ended |
| descriptors (`file_table.c`, `syscall.c`) | a table per context onto the host's descriptors | open, close, dup, pipe, fork, execve, exit, redirection | a program reaches its own files, the host's are closed when the last user is gone |
| other system calls (`syscall.c`) | `errno`, break, process groups, the program's buffers | the cases of `sys_syscall` | a program is told what the host answered |
| simulated memory (`memory.c`) | page lists, mappings inside and on the host | translate, map, unmap, fork, execve, checkpoint | every program has an address space of its own |
| options and start-up (`options.c`, `main.c`) | the option database, `argv` of each file | register, process, dump, check, load programs | the last use of an option counts, a dumped configuration reloads |
| learning loop (`sim-outorder.c`, `DPPO.py`) | `decode_width`, `j`, `data.csv`, `action.csv` | last_line, epoch row, agent iteration | a row tells what the action before it did |

What interacts with what: `register_rename` takes from the fetch queue, the free
registers and the ROB/LSQ, and calls `sys_syscall`, which may attach, flush and
detach contexts of any core *inside* the loop of the stage; `writeback` calls
`rollbackTo`, which edits the ROB, the LSQ, all four lists, the issue queue, the
registers, the fetch queue and the return stack; `commit` releases registers and
LSQ entries, trains the predictors and writes stores to the data cache;
`selection` and `commit` take functional units from the pool, and every stage
counts the accesses that the end of the cycle charges.

## 2. Modules

| module | models |
|---|---|
| `RegRename` | registers, rename tables, ROB, banks; every operation that touches them; the properties |
| `ArchMap` | what renaming promises to a program: a map from architectural to physical registers that changes at commits only |
| `RegRenameProofs` | the proofs about `RegRename` |
| `Scheduler` | from dispatch to commit, cycle by cycle: issue queue, the four lists, expected times, replay, load and store ordering |
| `SchedulerLists`, `SchedulerTimes` | the proofs about `Scheduler` |
| `Fetch` | fetch queues, policies, wrong paths, `icount` and the DCRA counters down to issue |
| `Predictors` | direction tables, BTB and return stack of a context, with the branches in flight and the warm-up of a fast-forward |
| `Cache`, `Dram` | the hierarchy from the write buffer to main memory, its latencies and its dirty blocks |
| `RecencyList` | what a set of the BTB, or of a cache with LRU, promises |
| `PreciseState` | the values of registers and memory, and the undo log in ROB and LSQ |
| `Units`, `Power` | the pool of functional units; the accesses a cycle counts and what is charged for them |
| `Processes` | processes, contexts and their places on cores; the fast-forward and the timing loop |
| `FileTable` | descriptor tables and the system calls on them |
| `SystemCalls` | redirection, buffers and answers of the other system calls |
| `Memory` | page lists and mappings |
| `AddressSpaces` | what memory promises: a map of its own to every program |
| `Options`, `Startup` | the option database; from the command line to the loaded programs |
| `LearningLoop` | the simulator, the agent and their two files |
| `MCRegRename`, `MCScheduler` | instances of these two |
| `MCMachine` | instances of `Fetch`, `Predictors`, `Cache`, `PreciseState`, `Power` |
| `MachineProofs` | the proofs about `Fetch`, `Predictors` and `Units` |
| `CacheProofs` | the proofs about `Cache` |
| `StateProofs` | the proofs about `PreciseState` |
| `MCSystem` | instances of `Processes`, `FileTable` |
| `SystemProofs` | the proofs about the components of `MCSystem` |
| `MCSupport` | instances of `Memory`, `Startup`, `LearningLoop`, `SystemCalls` |
| `SupportProofs` | the proofs about the components of `MCSupport` |

Every module below the first two takes its parameters as a record (`core`,
`setup`, `hierarchy`, `window`, `chip`, `machine`, `setting`, `command`, `loop`,
`kit`), a variable that is chosen at `Init` from a constant set and never changes
again, so that one run covers several configurations. The last three MC modules
put components side by side that share no state in the code's loop that matters
to their properties: the variable `part` chooses one, the others stand still at an
initial state. So a run is the sum of its components, not their product, and its
properties say which part they are about.

Components that do interact were cut where the interface is narrow: `RegRename`
leaves the timing open and so covers every schedule; `Scheduler` leaves the
registers' states out and takes from `RegRename` that entries in flight never share a
register (`SingleOwner`), which is why it names a register by the entry it was
allocated for; `Fetch` leaves out what rename allocates and carries an entry on
only to where `icount` changes; `Predictors` takes any order of look-ups, squashes and
updates that fetch, writeback and commit can give; `Cache` takes any sequence of
accesses, `PreciseState` any order of completions and mispredictions.

### How RegRename corresponds to the code

* `reg_file` is the `state` field of every physical register. Integer and
  floating point registers are two files of the same size, as in `reg_file_t`.
* `arch_regs` is the pair of vectors `int_regs`, `fp_regs` of a core, cut in
  banks of 32: they are only ever pushed and popped 32 at a time, together.
* `ROB[c]` is the sequence of entries from head to tail. An entry has the
  fields of `ROB_entry` that matter to registers; `mem` is the state of the LSQ
  entry that belongs to it (`ea_comp` is `mem # "none"`). ROB and LSQ are
  circular buffers in the code; here they are sequences.
* `context_ids` are the contexts attached to the core, `created` all that ever
  were (a context id is never used again).
* A step is one iteration of a stage's loop: `register_rename` (with the traps
  `fork`, `kill` and `exit`), `writeback` (one event, including the whole
  `rollbackTo`), `LoadDone` and `StoreDone` (LSQ entries), `commit`.
* `remote_fork` and `remote_kill` are the same system calls made by a context of
  another core, whose rename stage may run at any time relative to this core.
* The order of stages in a cycle is left open, so every order is covered,
  including the code's.
* `TableAfterSquash` is what the backwards loop of `rollbackTo` and
  `flushcontext` leaves in the rename table: for each register the old mapping
  of its oldest undone writer.
* nops get no ROB entry and traps that wait (`wait4`, `execve`, which sets the
  abort interrupt) either get an ordinary trap entry or none; neither touches
  these variables in another way.

`MaxStale` is how many instructions are still renamed from a context after its
own `exit`. In the code the fetch queue was emptied by the flush but
`fetch_num` then goes below zero, so old slots of the queue are renamed until
the stage stops; 0 is a rename stage that ends right at the exit.

### How Scheduler corresponds to the code

* `stage` walks through a cycle in the order of the main loop of `sim_main`. A
  loop of a stage takes a step per iteration: `commit` per instruction,
  `writeback` per event, `select_store`, `issue` and `no_unit` per entry of the
  ready queue, `execute` and `replay` per event of the issue-exec queue.
  `lsq_refresh` and `wakeup` do their whole loop in one step, since their
  iterations do not affect each other; `dispatch` returns from inside its loop
  after one instruction, so it has one step too.
* An entry is its sequence number. A load or store has two: the address
  computation in `ROB` (`ea_comp`) and the access in `LSQ` (`AccessOf`).
* `dispatched`, `queued`, `issued`, `completed`, `in_IQ` are the flags of
  `ROB_entry`; `waiting_queue`, `ready_queue`, `issue_exec_queue` and
  `event_queue` the lists of `core_t`. The ready queue is sorted by sequence
  number, so a set is enough; events of one cycle are written back in any order.
* Times (`ready`, `spec_ready`, `when`) are relative to the current cycle, so
  that `next_cycle` decrements them; what is past is -1. This keeps the state
  space finite without a bound on `sim_cycle`. `INF` is a number that no time reaches.
* The latency of a load is any of `MemLats`, which stands for the caches, the TLB
  and forwarding from a store (one cycle, `1 \in MemLats`), and the hit predictor
  answers either way (`Wakeups`).
* `register_rename` is the environment: any instruction of `Kinds` with any
  sources from its own context. `nofu` is an operation without a functional unit,
  `store_c` a store-conditional, which alone keeps the `exec_lat` of its slot's
  previous occupant.
* `replay` corrects the expected times of the sources with a number above zero
  only: the register that happens to be number 0 is passed over, hence `zero`.
* `write_buf` keeps the writes that have not finished. The code keeps finished
  ones too until the buffer is full; it then drops them before it looks again.
* There is one unit of each class, kept busy for `issuelat` cycles.
* Left out: the sizes of ROB and LSQ and the widths of rename and decode (rename
  may stop at any time, and `MaxSeq` of the core bounds the program), the delay between rename
  and dispatch, and the flush of a context by exit or kill, which `RegRename` has.
  `MaxSeq` is the only bound on behaviours; it stops rename, never the pipeline.

### How the other modules correspond to the code

* `Fetch`. `phase` tells whether the loop of `fetch` runs; `FetchOne` is an
  iteration of it, `StartFetch` the call with the policy, `ThirdContext`, `Skip`
  and `FetchEnd` its early exits. The fetch queue is the ring of the code, with
  `fetch_head`, `fetch_tail`, `fetch_num`; its index is masked as the code does, and
  `RingOf` is how many slots that reaches (the largest power of two that divides the
  size). That this is the mask, bit by bit, is `MaskIsAnd` of `MCMachine`, which every run
  evaluates for sizes up to 64. `register_rename` takes the oldest slot,
  notices a wrong prediction and redirects or enters a wrong path; `dispatch`,
  `execute`, `writeback` with `rollbackTo`, `commit`, `Abort` and `Kill` are reduced
  to what they do to the queue, `icount`, the DCRA counters and the path.
* `Predictors`. `bpred_lookup` at fetch saves the pointers to counters, the top of
  the return stack and the prediction in an entry of `inflight`; `Rename`, `Resolve`
  and `Commit` update at the stage of `-bpred:spec_update`, a misprediction squashes
  and recovers; `ff_context` is the look-up and update of the fast-forward loop.
  `drift` counts by how much mispredicted calls and returns may have moved the stack.
* `Cache`, `Dram`. `cache_access` walks down the levels as the miss handlers call
  one another (`second_access`, `third_access`, `memory_access`: there are three levels) and
  returns a latency; what it leaves behind is the order of the
  blocks, their dirty bits and ready times, and the banks' end times. All times
  are relative to the present cycle. Each access of a cache with random replacement
  draws for itself, also that of a victim and that of a fill below (`Draws` is the tree of
  what one access and those it leads to may draw). `StartTiming` is the end of the warm-up of a
  fast-forward. A store is in `write_buf` until its time has come.
* `PreciseState`. `register_rename` executes an operation in both modes, saves the
  old value in the ROB (registers) or the LSQ (memory, aligned quad words) and may
  begin a wrong path; `writeback` takes back a suffix, `flushcontext` everything.
  Histories `committed` and the writers kept in the values tell what should be there.
* `Units`, `Power`. `res_get` takes the first unit that is free for the class.
  Power has the stages of a cycle in order, each counting its accesses, and
  `EndOfCycle`, which is `update_power_stats` of a core.
* `Processes`. `mode` is the fast-forward or the timing loop; `RenameStart`,
  `RenameWait`, `RenameWake`, `RenameRun`, `RenameStop` are what the loop of
  `register_rename` does with the context at a position, `FastPass` and its
  companions the same in fast-forward. A run step may be any of the traps. The five
  vectors that `addcontext` and `ejectcontext` rotate are one, `pred`, with the
  list kept at the core, `pred_list`. `left`, `at` are positions that go stale while
  the traps move contexts.
* `FileTable`. One action per call that opens, closes or copies descriptors; `live` are
  the host's open ones, `touched` those that were used under their number without
  an entry. `poisoned` is what `get_entry` leaves behind for an unknown descriptor.
* `SystemCalls`. Per call: is it on the list that `sys_syscall` redirects, does the
  host fail, what comes into the program's buffer, and what into V0 and A3. `told` and
  `result` remember the last call.
* `Memory`. `ptab` are the buckets, most recent page first; `Access` covers
  `mem_translate`, `mem_newpage` and accesses to the host's mappings; `Mapping` covers
  `mmap` and `munmap`; then `fork`, `exec_flush` and the checkpoint of eio.
* `Options`, `Startup`. `opt_process_options` reads an argument a step; `stack` holds a
  frame for each file being read. `Startup` has the phases of `main`: `Scan` looks for
  cores before there are options, `ProcessOptions`, `sim_check_options`,
  `LoadPrograms`. `StartAgain` starts the simulator with the file the first run dumped.
* `LearningLoop`. `sim_main` is a core's turn in a cycle, with `last_line` at the
  beginning and the row at the end of an epoch; `LoadCsv` and `Act` are the agent.

## 3. Runs

The runs of findings (`fpcr`, `leak`, `store_value`, `proc_lost`, `fetch_overflow`) end in
a violation; the others pass.

### Renaming

All `RegRename` instances have two registers of each type: the zero register, which is never
renamed, and one other. That is the smallest number with which an instruction can
read and overwrite a register and two contexts can clash; more registers only add
copies, because the code treats each index alike. Six physical registers of each
type are the least the rf:size check allows for two contexts.

| run | instance | what it shows |
|---|---|---|
| `smt` | two contexts, ROB 2, an ALU operation, a call and a system call, one instruction renamed after an exit | `Ownership` (the inductive invariant of the proofs), `RegBudget`, `CommittedState` (the refinement of `ArchMap`), `LostOnlyAfterExit` |
| `deep` | one context, ROB 3, LSQ 2, every kind of instruction, fairness | `TypeOK`, `SingleOwner`, `MappingsInOrder`, `SpecBracket`, `CommitSafe` with rollbacks that undo two writers of one register; `CommitProgress` |
| `fpcr` | `mt_fpcr` only | finding 1 |
| `leak` | as `smt` | finding 2 |

ROB 3 holds a branch and two writers of one register behind it (undo order), or
two writers ahead of a reader; the FP load, the store-conditional, which writes
its register in the LSQ, and the operation on the zero register are the special
cases of the code. The ownership properties and the refinement hold for any
`MaxStale`; that registers are lost in no other way than after an exit is
`LostOnlyAfterExit`.

### Scheduling

Latencies of loads are 1 (a hit) and more for a miss: 3 is the smallest that differs by more
than `ISSUE_EXEC_DELAY`, so that a consumer woken for a hit executes before the data of
a miss, and with the 4 of `sched_threads` a store woken so is through commit before them, if
the load lets it. The widths are 2, so that two entries race for a stage and a third waits.

| run | instance | what it shows |
|---|---|---|
| `sched_threads` | seven cores, one after the other: replay chains of loads and computations, and of loads and operations without a unit; two contexts with branches and loads and one issue queue entry; perfect knowledge of latencies, with computations and with store-conditionals; six entries of loads and stores of one address; loads and stores of two addresses | `TypeOK`, `ListsOK`, `WritebackOnTime` (writeback cannot panic), `ReadyMeansWritten`, `NothingReplayed`, `CommitReady` |
| `sched_live` | one issue queue entry, units kept for two cycles; branches, loads, stores and store-conditionals; fairness | `EveryEntryLeaves` |
| `store_value` | loads and stores | finding 3 |

Four entries (`MaxSeq`) are a load with its address computation and two consumers, or two
loads, one of which addresses memory with what the other returns: the shortest
chain in which a wrong guess wakes an entry whose own announcement has to be
withdrawn from a third. Six are three memory instructions: two that can pass each other,
or a store that reads what a load returns, behind another access. Each core has its own
`MaxSeq` and addresses.

### The rest of a core: `machine`

| part | instances | what it shows |
|---|---|---|
| `fetch` | `Ring` (a ring of 4 that wraps and jumps), `Gated` (DCRA with integer and floating point), `Three` (icount with perfect prediction), `Trap` (nops and system calls), `Odd` (a queue of three, of which the mask reaches one slot) | `CountersMatch`, `OnPath` (the queue, if its size is a power of two, is a chain, and without a wrong path its head is the program's next instruction; a recovery goes where the wrong path began, in all), `FetchCalls` (nothing behind a taken branch in one call, at most two contexts; no context is left out by DCRA for ever) |
| `predictors` | return stack of 2 against three open calls, one BTB set of 4 under six branches, combined and two-level tables shared by branches, update at rename, writeback and commit, two that start warm | `PredictorsSound` (two outcomes in a row decide; the stack follows the calls), `SetsAreLRU` |
| `caches` | two levels with blocks of two sizes, stores, and a second level that has to replace dirty blocks; three levels, the second with random replacement; two contexts with random replacement and a TLB; two contexts that share two levels; two cores that share a last level and two banks | `StoresKept` (a store dirties a block and is then lost only when the block of another context takes a place in its set: never, with one context), `ServedInOrder` (no block replaced before it is filled; a bank serves one transfer after the other), `SetsAreLRU` |
| `state` | five mixes of operations: integer and memory of both widths, load-locked and store-conditional, floating point and control registers, traps | `StateIsPrecise` |
| `power` | a pool with each kind of sharing and busy time | `UnitsSound` (a unit serves one operation at a time, and is refused only while busy), `PowerSound` (gated power is ordered, nothing exceeds the ports, sums add up) |

The run `fetch_overflow` has a queue of six slots, of which the mask reaches two (finding 5).

`SetsAreLRU` is the refinement of `RecencyList`, for the BTB and for every cache
with LRU replacement. The bounds are in the records of `MCMachine`: `MaxBranches` and
`MaxCalls` (look-ups, open calls), `MaxBehind` (how far times may run ahead of the
present), `MaxInsts` (instructions executed), `MaxEvents` and `MaxCycles`, `MaxActivity`. Each
lets every structure fill, wrap or overflow at least once: three calls overflow a
stack of two, six branches evict from a set of four, five instructions wrap a ROB
of three.

### Processes and descriptors: `system`

| part | instances | what it shows |
|---|---|---|
| `processes` | two cores of two places; three places with programs that fork in fast-forward; one program with three; one core with kills of a group, of process 0 and of a thread | `PlacesAgree` (a context, its place and its predictor agree after ten rotated lists), `Families` (a child is on one parent's list until its status is handed over; a process is alive while a context runs it), `WokenInPlace` |
| `files` | `Forking`, `TwoPrograms`, `OneTable`, `Limits` | `HostFiles` (descriptors lead to files of the program's own, and the ends of a pipe to each other's), `HostClosing` (a host descriptor is left open behind everybody's back only by a `close` that forgets it, a kill, or an exit with a reused 0 to 2; the simulator's own are closed only when a program has marked one, or has one under another number) |

`WokenInPlace` says that a context that waits for a child that has ended is woken, if
its number is its position on its core; without this premise it is finding 4.
`HostFiles` does not say that a child has the files of its parent: `fork` opens them again
by name, one that is gone is missing in the child, and offsets are not modelled.
`Families` leaves out for the setting `OddKills`, and `HostFiles` for `Limits`, what
is false there; section 6 names the cases. They run all the same, for the
properties that hold.

### Memory, start-up, the learning loop, system calls: `support`

| part | instances | what it shows |
|---|---|---|
| `memory` | buckets that are reordered; fork and checkpoint; mappings inside memory; mappings of a host file that is too short; those and fork | `MemoryIsMap` (the refinement of `AddressSpaces`), `MappingsSound` |
| `startup` | two uses of options, of three configuration files or of refused ones, before each list of programs; and every such line dumped and started again | `StartSound`: the last use counts, a dump reloads, programs are placed round the cores |
| `loop` | one core; two; three, with epochs of 2 and 4 calls | `LoopSound`: a row tells the action before it, when it can; only starvation aborts |
| `calls` | two programs, one forked from the other, the calls that are not in `FileTable`, `Processes` or `Memory`, but for those of section 7 | `CallsSound`: calls reach the program's own descriptors, errors are told, buffers hold nothing of the simulator, break and group are a program's own, but for the exceptions named in the properties |

`MappingsSound` speaks of the host where no fork has shared a mapping; section 6 says what
goes wrong where one has.

### Fairness

`deep` assumes weak fairness of `writeback`, of the completion of LSQ entries and
of `commit`, per context: these stages run in every cycle, and `commit` visits
all contexts round robin until none of them can commit. Nothing is assumed of
rename, of mispredictions or of system calls. That a ready instruction is
eventually issued is assumed here and is what `sched_live` checks.

`sched_live` assumes weak fairness of `Pipeline`, the disjunction of all stages:
the main loop calls each of them in every cycle and never waits. Rename is not
fair, because fetch may have nothing to offer.

`machine` assumes that a call of `fetch`, once begun, goes on. `system` and
`proc_lost` assume that the simulator's loops run on by themselves
(`WF_vars(ProcessesStep)`); what the programs do in their turns is not fair.

`machine`, `system`, `support`, `proc_lost` and `fetch_overflow` switch the deadlock check off: programs
end, descriptors reach their bound, the simulator stops on an error.

### Findings

1. `fpcr`: `mt_fpcr` has destination 64 of the rename table, for which `addcontext`
   gives a context no register. `CommitSafe`, the two assertions of `commit`, fails.
2. `leak`: an instruction renamed after its context's exit allocates registers that are
   never freed.
3. `store_value`: the comment on the load/store queue says of a completed entry that its stored
   value is available. `selection` completes a store when its operands are only
   *expected*; `CommitReady` says that it still commits with real ones.
4. `proc_lost`: `register_rename` looks for pending interrupts at
   `contexts[current_context]`, where `current_context` is a position on the core
   and not a context's number. Once a context was ejected in front of another, the
   other's wake-up goes to whoever has that number, and a parent waits for ever.
5. `fetch_overflow`: the comment on `fetch` says that it does not overflow the fetch queue. Its
   size is `FETCH_RENAME_DELAY` times the width, its index is masked with the size less one,
   and nothing checks the delay: of six slots two are used, and the third instruction
   fetched is written over the first.

## 4. Proofs

Of the constants no more is assumed than the modules state under `ASSUME`, and
the runs evaluate it: sizes are positive, `RFSize` passes the rf:size check, the
type of a destination agrees with its number; a core has contexts, an issue queue and
a recovery model, and latencies are at least 1 and, with the delay from issue to
execution, below the model's `INF`; programs fit on the cores (`sim_load_prog` refuses
more), each with a fast-forward count, and the model's `CycleBound` divides by the
length of every list of contexts; the host has room for what is open from the start,
and a program may name a descriptor by the host's number; an action of the agent is clipped to 0 .. 3.2, and a
width is unsigned; breaks are addresses and groups numbers; a page of simulated memory
has room, hints are addresses, mappings have a length and one of four kinds; a fetch
queue has a slot and a program an instruction, and direct jumps stay in the program; a
branch is of a kind that the predictors know; a pool is a list of quantities and
latencies; an unsigned number holds the sizes of the ROB and the LSQ twice, and the opcodes
are those that rename knows; caches are at most three behind each other, their blocks fit into
those of the cache behind, and behind the last of a context's data caches is main memory,
behind the last of its data TLBs a translation. Hypotheses of single theorems are named below. Where a component is a
record's instance (`machine`, `loop`, `kit`, `setting`, `core`, `setup`, `chip`, `window`, `hierarchy`), the theorem is about every record.

### Renaming

* `TypeCorrect`: type invariant and `BankPerPlace` (banks on the core plus
  attached contexts is `MaxContexts`), which is what makes `addcontext`'s pop
  well defined. One lemma per action.
* `OwnershipInvariant`, `OwnershipCorrect`: `Ownership` and `SingleOwner`, under
  `WritesMapped`: no instruction writes register 64. `SingleOwner` is not inductive.
  What is missing is why undoing works: `UndoChain` says that each entry's old
  mapping is the destination of the next older writer of its register and that the
  rename table is that of the youngest. From it follows that a squash does not
  change the committed map (`BankSquash`) and that a commit moves it by one entry
  (`BankTail`); `Quiet` keeps the contexts that do not exist yet empty.
* `CommitCorrect`: the assertions of `commit`, from `Ownership`.
* `MapImplemented`: every step of `RegRename` is a step of `ArchMap` or leaves it
  alone: renaming, completing and squashing stutter, `commit` is `Retire`,
  loading and fork are `Attach`, exit and kill are `Detach`.
* `OrderCorrect` and `BracketCorrect`: `MappingsInOrder` and `SpecBracket`, without a
  hypothesis. Stated over the newest older writer, neither survives a squash without
  knowing what the table becomes. `OrderInv` says it the other way round:
  what an entry read is what undoing it and everything younger would leave in
  the rename table (`TableAfterSquash`), which a squash does not change for the
  entries it leaves. `UndoChain` gives the writer back.
* `BudgetCorrect`, `LostCorrect` and `NoLeakCorrect`: `RegBudget` and
  `LostOnlyAfterExit` under `WritesMapped`, and `NoLeak` where moreover the fetch
  queue of a context is empty once it has exited (`MaxStale = 0`, as in run
  `deep`; run `leak` refutes `NoLeak` without it). `GivenBack` says of every action that registers
  only go from free to in flight and back; a commit changes one register for another.
  What is free or in flight is then a set whose size no step changes, and
  `Ownership` makes the registers in flight as many as the entries that write one.

`WritesMapped` is exactly what `mt_fpcr` breaks; without it run `fpcr` refutes
`CommitSafe`.

### Scheduling

* `ListsCorrect`: `ListsOK`. `ListsInv` is its inductive form: what rename wrote
  (`Records`), where the entries are in ROB and LSQ and that an address computation
  and its access come and go together (`Placement`), that nothing is overdue
  (`Clocked`: what is due in a cycle is handled in it, which is why an entry is never
  in two lists), and entry by entry which list and which number in the issue queue it
  has (`Listed`, `IssueQueueOK`). A squash takes away a set of entries and what of them is
  in any list (`Leave`, `Cleared`); one lemma proves the invariant for all of these.
* `TypeCorrect`, `ReadyCorrect`, `WritebackCorrect`, `ReplayCorrect`: `TypeOK`,
  `ReadyMeansWritten`, `WritebackOnTime`, `NothingReplayed`. `TimesInv` adds when values
  are there. `Timed`: a register has the times of its writer's event, `INF` before
  there is one, and a value that is there stays. `Supplied`: what returns or waits to be
  selected has its operands. `Exact`: with perfect knowledge the expected time is never
  before the true one. A wrong guess, its replay and the withdrawal of the consumers
  must leave `Supplied` true at once: the entries put back are those with a register
  that was withdrawn.
* `CommitCorrect`: `CommitReady`, which speaks of the cores without conditional stores: one of
  those may commit on an expectation. A plain store is complete on an expectation too;
  `InOrder` says that what its operands wait for is before it in the same ROB.

### Fetch

* `CountersCorrect`, `PathCorrect`: `CountersMatch` and `OnPath`. `FetchInv` is the
  inductive form, four things of each context. `Typed`: head and tail are slots, and if the
  mask reaches all of them (`Full`; `RingIs` proves it of powers of two) the tail is where
  head and number put it (`Spot` is the position without the remainder of a division,
  which the provers do not reason with; `Masked` is proved equal to it).
  `Counted`: `icount` and the DCRA counters are the numbers of entries in the stages
  that each of them counts. `Chained`: under `Full`, each slot's prediction is the next slot's address, the
  last one's is where fetch goes on, and what is no branch is predicted to be followed
  by the instruction behind it. `Recovers`: at most one branch of the ROB will recover, its
  context is on the wrong path, and it goes to where the program continues. What rests on
  the order in the queue is thus claimed for sizes that are powers of two, where run
  `fetch_overflow` does not refute it; the counters and the recovery are proved for all.
* `OnPath` alone is not inductive: after a squash the queue is empty, and that fetch then
  goes where the program continues is `Recovers` of the branch that was squashed
  to; that no other branch of the ROB wants to recover is its second part. The number of
  entries in a stage (`Holds`) is a cardinality; `HoldsAppended`, `HoldsTail` and their like
  say how it changes with the ROB, and a squash gives up what the entries behind the
  branch hold.

### Branch prediction

* `PredictorsCorrect`: `PredictorsSound`. `CountersInv` says of every counter how far its last
  one or two outcomes have moved it (`Moved`), so that two alike decide, whichever stage
  updates and whatever branches share the counter. `StackInv` is about the return
  stack: off a wrong path its top is at the open calls (`Top`, modulo the size, so also
  after it overflowed), and a branch that is going to recover, of which there is at most
  one, carries the position from before itself (`Before`). Without the latter the property
  is lost at the first recovery.

### Caches

* `CacheCorrect`: `NoLostWrite`, that a store is in a dirty block until main memory has it, where
  one context uses the hierarchy (with two it is false, section 6); `StoresCorrect`: hence
  `StoresKept` there. `StoresInv` adds what keeps a block in its place: no set has a block twice,
  what is valid is of the context, and TLBs are never dirty (`Whole`). A block is
  found by tag and set, written back by address and looked for in the cache behind,
  whose blocks may be larger: `AddressOf` and `BlockInBlock` are the arithmetic of this.
* One lemma per level says what an access does (`Accesses`): it changes only this cache and
  those behind it, no store that was in a dirty block is then in none, and a block written is
  dirty here. What a cache asks of the one behind it is a relation too (`Asks`), so
  that the same `HitAccess` and `MissAccess` serve all three levels. A miss has its order
  from the code: the victim is written back (`VictimSaved`), only then the way gets the new
  tag (`MissFirst`), and what it held is already behind it when the fill asks the
  next cache, which may itself replace a dirty block.

### Functional units

* `UnitsCorrect`: `UnitsSound`, for every pool. `UnitsInv` adds that what an operation
  still has of its issue latency is at most what its unit is busy for, counted in calls of
  `update_fu`.

### Precise state

* `StateCorrect`: `StateIsPrecise`. Neither half of it is inductive, since it says
  nothing of the values that a squash goes back to. `StateInv` says that there are values
  `V[0]`, `V[1]` .. `V[ROB_num]` (`History`), the first those that have committed and the
  last those in the registers and in memory, and numbers of accesses `n` beside them. Each
  entry has a `Link`: what it wrote takes `V[k-1]` to `V[k]`, it has an access or not as its
  opcode says, and what it saved (the control registers, the old value of its register, the old bytes
  in its access) is of `V[k-1]` and covers all it wrote (`Saves`), but for the two losses that
  `Exempt` names. `Rings` says where head, tail and number of both rings stand.
* Rename appends one set of values and one link; that every opcode saves what it writes is
  proved opcode by opcode. A commit drops the first. A squash
  goes down one at a time (`Undoing`): undoing an entry is exactly its link backwards, so the
  values after it are those of the entry that is left. Both tails may go
  below 0 on the way and are then unsigned (`Below`); that the repair at the end finds the slot behind the
  last entry needs the first assumption on `window`. A fold
  over units or entries is a function chosen by its recursion (`UndoIter`, `ExecIter`,
  `AccIter`); that there is one is proved along the numbers, without the library's induction.

### Processes and places

* `ProcessInvariant`: `ProcInv`, which holds at every step of either loop. `Seated(k)`:
  the contexts that have core `k` as theirs are in front of its places, each once and
  each with the resource of its place, and nobody is behind them. `HasSeat`: a context
  that has not ended is among them. `Related`: a process has one context, a parent
  is a process or 0, and a child not yet handed over is on the list of its parent. `PlacesAgree`
  alone is not inductive: it does not say that the places behind the last context are
  those no context names, which is what the next `addcontext` takes.
* `PlacesCorrect`: `PlacesAgree`. `EjectPlaces` proves the rotation of `ejectcontext`:
  the contexts behind the one that leaves move one place to the front, with their
  resources, and its resource goes to the end (`Rotated`). `ForkPlaces` is `addcontext`.
  Initially the round robin of `sim_load_prog` fills the places of each core from
  the front (`SeatOf`, `TakenFirst`).
* `FamiliesCorrect`: `Families`, where a machine other than `OddKills` kills processes by
  their numbers. `EndKept`, `ForkKept` and `CollectedKept` are what exit, fork and wait4
  do to the lists of children.

* `TypesCorrect`: `TypeOK` of `MCSystem`, from this invariant and the next.

### Descriptors

* `FilesInvariant`: `FilesInv`. `Owns` relates the tables of all programs to the
  descriptors of the host: every entry is `Held`, it leads to an open descriptor of the
  kind the entry says, to 0, 1 or 2 only as standard io that nothing closes; and two
  entries that share a descriptor share one of these three. `OwnHostFiles` alone is
  not inductive: an entry with a wrong kind, or a marked one that leads to 0, is
  closed on the host by a later `execve`, and what is open there is then lost or
  reused. `EndsHeld`: the end of a pipe that is open on the host is in some table,
  where nothing kills a process (a kill leaves its descriptors open).
* `FilesCorrect`: `HostFiles`, where the host has descriptors, no output is
  redirected and programs do not mark 0 to 2 (`Tame`; `HostFiles` excludes the setting
  `Limits`, and the theorem asks of the others what those of the run have). `fork` takes as many
  descriptors as the copy needs, all new: `GivenFree` shows that the lowest free ones exist
  and are given one to one; `ContextForked` carries the invariant over.
* `ClosingCorrect`: `HostClosing`, in every setting, also where calls fail and
  descriptors are redirected. Every call is a move (`Moves`): it opens nothing for
  the simulator, closes only what an entry that it drops led to, and what
  it leaves open out of reach was forgotten by a `close`, or is left by a context
  that ends. `MovesExtended` and `ExtendsMoves` put the moves of calls with two steps
  together.

### The learning loop

* `LoopCorrect`: `LoopSound`. `NeverIdle` bounds what a core has not committed: the
  cycles since its last commit are cycles in which it was given no width, or in which it
  waits for its oldest instruction, of which there are at most `MaxLatency`. The core
  whose turn it is and those before it in the cycle differ by one (`Served`).
  `EpochKept` counts turns: from the core that was given an action to the one that
  goes next there are as many turns as calls, in whole rounds, so that where
  `EPOCH - 1` is a multiple of the cores the row of the end of an epoch is that of
  the core that was given its action.

### System calls

* `CallsCorrect`: `CallsSound`. `CallsInv` is its inductive form: the break and the
  group of a program are those of its last successful request (`StateKept`), and
  what the last call told is what the host answered (`Answered`). Every handler ends in an
  answer, most through `check_error`: `AnswerSound` and `CheckedSound` prove it
  there once, and one lemma per group of calls shows that its handlers ask the host about
  the program's own descriptor and hand over no more than they got. The
  exceptions are those `CallsSound` names: section 6.

### Memory

* `MappingsCorrect`: `MappingsSound`. `MemInv` says of every memory that the pages of
  its mappings are apart (`Disjoint`; a mapping whose address the program insists on, or
  that begins inside a page, is none that `acquire_address` chose), and of a program that
  never forked that each mapping of the host exists there and is its own (`Backed`:
  without the last, `munmap` of one could end another).
  `MissesApart` is why `bounds_verify` may look at page starts only: two mappings
  that both begin with a page share a page only if one has a page start of the other.
  `FarMisses` gives room behind all of memory, so that the search of `acquire_address`
  ends. An `execve` keeps a part of the list (`InheritedFrom`), and what a forked or a
  saved program has is a copy (`ProgramAdded`, `NoMapsOK`).
* An access works unit by unit, `execve` mapping by mapping: `DoneKeeps` and
  `InheritedFrom` are inductions along a fold. The induction theorems of the library have an
  operator as a parameter. `LeastNat` takes the least number of a set from the
  well-foundedness of finite sets, which has none, and `AllNumbers` is induction for
  membership in a set; `DoneStep` turns a fold into the sequence of its results.

### What is not proved

Liveness (`CommitProgress`, `EveryEntryLeaves`, `WokenInPlace`) is out of the prover's
reach. Of simulated memory, `MemoryIsMap` and the type invariant select pages by
`SelectSeq`, of which the prover has no facts. All that is said of modules not named above is
model-checked only.

## 5. Plan

Of the planned modules all are written. What is left are proofs, in this order:

1. `StartSound` of `Startup`; its part about the places of programs needs no induction,
   the other two follow options through files.
2. A module that shows the ring buffers of ROB and LSQ to implement the sequences
   used in `RegRename` and `Scheduler` (`Fetch` and `PreciseState` have rings).

## 6. Defects seen while modelling

These were met in the code while it was translated. The models behave as the code
does; where a property would fail, its comment names the exception. None has a run of
its own but the findings above.

*Processes.* A context that is detached still runs in fast-forward. Programs with
different fast-forward counts leave the loop at different points. Kills of a group,
and `thread_kill`, leave a process in the list alive without a context; kill of
process 0 finds contexts whose pid was set to 0, and an unknown pid gives the index
-1 (pid.c:71). `kill` and `exit` take the squashed instructions from the number of
committed ones (cmp.c:317). `TransferContext` detaches before it knows that there is
room (cmp.c:282); nothing calls it.

*Descriptors.* `fork` opens the parent's files again by name: one that is gone is missing
in the child, or crashes the simulator if it was opened with `fopen`, and the offset is
copied, not shared (file_table.c:95). A failed `dup` is entered as descriptor -1. `get_entry` leaves a bogus
entry for an unknown descriptor. The file of `-redir:prog` is closed by the first
program that exits. `F_SETFD` on 0 to 2 makes `execve` close the simulator's own. An
ordinary `close` can leave the host's descriptor open. `dup` copies close-on-exec;
`dup2` to a closed descriptor aborts. A `read` retried after EAGAIN works on the
number as the host knows it.

*Other system calls.* `bind`, `recvfrom`, `readv`, `writev`, `getpeername` and `poll`
are missing from the redirected calls; `stat` and `lstat` are among them although
their first argument is a path. A short write is reported as an error with a stale
`errno`; `setpgid` of an unknown process and `audcntl` report a stale one too.
`setpgid` with two numbers does nothing and succeeds. `profil` leaves its argument in
A3. `pathconf` and unknown calls fail with number 0; a failed `execve` swaps V0 and A3.
`getsockopt` and `readlink` never give their result to the program. `readv` clears
beyond what it read. `stat`, `fstat`, `statfs` and `ioctl` copy structures never
written when they fail, `gethostname` its whole buffer always. `madvise` accepts any
advice, `connect` copies before it checks the length, `setitimer` reads over its own
pointer, `sbrk` returns the new break. The state of `audcntl`, the working directory,
the umask and the user ids are those of the host process, for all programs. A blocking
read of an empty pipe between two simulated programs would stop the whole simulator;
that is not modelled.

*Fetch.* The mask of the fetch queue is finding 5. The shares of DCRA
multiply by `1/n` in integers. Wrong-path nops stay counted in `sim_num_insn`. The
random width drawn at sim-outorder.c:3087 is overwritten at once.

*Prediction.* The predictor "taken" gets target 0. A recovery restores the top of the
return stack from before the branch's own push or pop. `dir.meta` is stale for
unconditional jumps under the combined predictor. The warm-up never trains the load
latency predictor.

*Caches and main memory.* A dirty block is written back under the context that
replaces it (cache.c:588), so that the next level holds the store of one context as the other's,
beside a clean copy of its own. The write buffer is a set of times, so that two stores that
end together take one entry. `row_bits` is one more than the logarithm; one `max`
compares a relative with an absolute latency, and a difference is truncated to
unsigned; a bank never closes its row by itself, and `reset` keeps rows.

*Precise state.* `mf_fpcr` on a wrong path is not taken back. A failed
store-conditional is rolled back at address 0. A store-conditional whose registers are
the same uses the cleared one as its address. `lock_flag` is one per core, is not taken
back, and is shared by contexts. Unaligned accesses swap halves.

*Memory.* A file shorter than its mapping is read for ever when the address is fixed or
hinted. A fork shares the host's private mappings, so that a write of one program is
seen by the other, and what one unmaps, or gives up at `execve`, the other has in its
list and the host no longer (memory.c:110). Hints inside a page can give
regions that overlap, and an inherited mapping at such an address loses its pages at
`execve`. A fixed mapping over another hides it. A checkpoint loses mappings. The
result of the host's `munmap` is ignored.

*Options.* The arguments of a file's lines are never cleared, so that each line
processes those before it once more. The strings of `-pcstat` and `-ptrace` are
pointers into what is cleared. The quantities of `-res:ialu` and its like never reach
the pool but divide the power charged. "2>" in a program's file does not end its
arguments. An unknown `-recovery:model` is silently none. The first search for
`-num_cores` also looks in comments.

*Learning loop.* Without `action.csv`, `last_line` returns nothing; from one line it
loses the first digit. With two cores each row is about core 1 and each action goes to
core 0. The reward is cumulative, the agent drops the first row and credits only
rows with a width below 8; learned widths are neither checked nor known to the fetch
queue and the power model, which keep the one of the start. A width of 0 for a
hundred epochs ends the simulation by its timeout.

*Power.* Rename power under cc1 does not grow with the width, under cc2 it does, so
that the gated estimate can exceed the ungated. Multiplications count as accesses of
the ALU. The floating point ALU is charged in one way only. `max` and total cycle
power leave out the second and third levels, `total_power` has them. Idle cores never
release units. A store at commit takes a port that `update_fu` releases in the same
cycle, and loads of the cycle before can hold stores back. The table of units is
checked per descriptor only, not for what a class takes in all.

## 7. Not modelled

* The arithmetic of instructions (`machine.def`): values without state.
* The static estimates of power and `cacti`: formulas in floating point.
* Statistics, the expression evaluator, the debugger, tracing and external traces;
  the loading of executables; symbols: input and output, with no state that the
  cores read.
* System information calls (`getsysinfo` and its like): constants copied out.
* The instruction TLB, which works as the data TLB does; cache flushes, which nothing
  calls; the bus model, the hash tables and the newer BTB, which are not compiled.
* What the abstractions leave out of each component is said in the comment at the
  head of its module.
