------------------------------ MODULE MCSystem ------------------------------
(***************************************************************************)
(* The operating system side of the simulator on small instances: the      *)
(* processes and the file descriptors of the simulated programs.  They     *)
(* share no state, so a behaviour is one of either, the other standing at  *)
(* its initial state, and the states of the run add up.                    *)
(***************************************************************************)
EXTENDS Integers, Sequences

CONSTANT Parts,              \* the components explored
         Machines, Settings  \* what they are tried on

VARIABLES part,
  machine, contexts, context_ids, pred, pred_list, plist, mode, left, at, core,
  renamed, cycle, error,
  setting, table, poisoned, live, host, touched, file_error, calls

P == INSTANCE Processes
F == INSTANCE FileTable WITH error <- file_error

Machine(cores, places, programs, pids, check, kills, counts) ==
  [Cores |-> cores, MaxContexts |-> places, Programs |-> programs, MaxPids |-> pids,
   Check |-> check, KillKinds |-> kills, FastForward |-> counts,
   CycleBound |-> IF places = 2 THEN 2 ELSE 6]

NoFast(n) == [c \in 1 .. n |-> 0]           \* timing from the start
LongFast(n) == [c \in 1 .. n |-> 3]         \* forked before the switch to timing

TwoCores == Machine(2, 2, 2, 3, 2, {"kill"}, NoFast(2))
FastStart == Machine(1, 3, 2, 3, 1, {"kill"}, LongFast(2))
OneProgram == Machine(1, 3, 1, 3, 1, {"kill"}, NoFast(1))
LostContext == Machine(1, 2, 1, 3, 1, {}, NoFast(1))

OddKills == Machine(1, 2, 2, 2, 1, {"group", "zero", "thread"}, NoFast(2))

AllMachines == {TwoCores, FastStart, OneProgram, OddKills}
LostMachines == {LostContext}

(* The programs have places on the cores, and each a fast-forward count.   *)
ASSUME MachinesAssumption ==
    \A m \in Machines :
      /\ m.Cores \in Nat \ {0} /\ m.MaxContexts \in Nat \ {0}
      /\ m.Programs \in 1 .. m.Cores * m.MaxContexts /\ m.Programs <= m.MaxPids
      /\ m.MaxPids \in Nat /\ m.Check \in Nat
      /\ m.KillKinds \subseteq {"kill", "group", "zero", "thread"}
      /\ m.FastForward \in [1 .. m.Programs -> Int]
      /\ m.CycleBound \in Nat \ {0} /\ \A l \in 1 .. m.MaxContexts : m.CycleBound % l = 0

Setting(max_contexts, max_host, max_calls, dup2_fds, limits, made) ==
  [MaxContexts |-> max_contexts, MaxHost |-> max_host, MaxFd |-> max_host,
   MaxCalls |-> max_calls, Dup2Fds |-> dup2_fds, HostFull |-> limits,
   Redirected |-> limits, Calls |-> made]

Forking == Setting(2, 7, 7, {0}, FALSE, {"close", "dup2", "pipe", "fork", "exit"})
TwoPrograms == Setting(2, 5, 5, {0, 5}, FALSE,
                       {"open", "close", "pipe", "setfd", "exec", "exit", "kill"})
OneTable == Setting(1, 5, 5, {0, 5}, FALSE,
                    {"open", "close", "dup", "dup2", "pipe", "setfd", "exec", "exit",
                     "access", "bad"})
\* the cases in which the table goes wrong: see the README
Limits == Setting(2, 4, 3, {0}, TRUE,
                  {"open", "close", "dup", "dup2", "pipe", "setfd", "mark 0-2", "exec",
                   "exit", "kill", "access", "retry", "bad"})

AllSettings == {Forking, TwoPrograms, OneTable, Limits}

(* There is room for what is open from the start, and programs may name a  *)
(* descriptor by the number the host gives it (insert).                    *)
ASSUME SettingsAssumption ==
    \A s \in Settings :
      /\ s.MaxContexts \in Nat \ {0} /\ s.MaxHost \in Nat /\ s.MaxFd \in Nat
      /\ 3 <= s.MaxHost /\ s.MaxHost <= s.MaxFd

Init ==
  /\ part \in Parts
  /\ P!Init /\ F!Init
  /\ part # "processes" => machine = CHOOSE m \in Machines : TRUE
  /\ part # "files" => setting = CHOOSE s \in Settings : TRUE

processes == <<machine, contexts, context_ids, pred, pred_list, plist, mode, left,
               at, core, renamed, cycle, error>>
files == <<setting, table, poisoned, live, host, touched, file_error, calls>>
vars == <<part, processes, files>>

ProcessesStep == part = "processes" /\ P!Next /\ UNCHANGED <<part, files>>
FilesStep == part = "files" /\ F!Next /\ UNCHANGED <<part, processes>>

Spec == Init /\ [][ProcessesStep \/ FilesStep]_vars
(* Both loops of the simulator run on by themselves. *)
FairSpec == Spec /\ WF_vars(ProcessesStep)

(* The properties of Processes and of FileTable that are checked here. *)

(* The type invariants. *)
TypeOK == P!TypeOK /\ F!TypeOK

(* A context has the place and the resource that its core lists for it.    *)
PlacesAgree == P!PlacesAgree

(* A child is on one parent's list until its status is handed over, and a  *)
(* process is alive while a context runs it.                               *)
Families == P!Families /\ (machine # OddKills => P!AliveMatches)

(* A context that waits for a child that has ended is woken, if its number *)
(* is its position on its core.                                            *)
WokenInPlace == P!WokenInPlace

(* The same of every context (register_rename looks at the interrupts of   *)
(* contexts[current_context], a position).                                 *)
Woken == P!Woken

(* Descriptors lead to files of the program's own, and the ends of a pipe  *)
(* to each other's (file_table_t, sys_syscall).                            *)
HostFiles == /\ setting # Limits => F!OwnHostFiles
             /\ setting \in {Forking, OneTable} => F!PipeEnds

(* A host descriptor is left behind by a close, a kill or an exit only, and *)
(* those of the simulator are closed by execve of a marked one and by exit *)
(* of one redirected only (file_table_t::closer, closeall, handle_cloexec). *)
HostClosing == F!OrphanedOnlyByClose /\ F!SimulatorsOwn
=============================================================================
