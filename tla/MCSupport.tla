----------------------------- MODULE MCSupport ------------------------------
(***************************************************************************)
(* What surrounds the simulated cores, on small instances: memory and what *)
(* else simulated programs, and the user of the simulator, meet.  The      *)
(* parts share no state, so a behaviour is one of a single part, the       *)
(* others standing at an initial state, and the states of the run add up.  *)
(***************************************************************************)
EXTENDS Integers, Sequences, TLC

CONSTANT Parts,              \* the components explored
         Memories, CommandLines, Loops, Kits   \* what they are tried on

VARIABLES part,
  setting, mem, host, file, base_addr, checkpoint, mem_error,
  odb, var, stack, files, cwd, exec_index, failure,
  command, phase, argv, cores_at_init_time, contexts_at_init_time, machine, contexts, first,
  loop, j, turn, decode_width, pending, uncommitted, aborted, action_csv, data_csv,
  agent, given, starved,
  kit, errno, brk, gpid, audcntl, result, told

M == INSTANCE Memory
U == INSTANCE Startup
L == INSTANCE LearningLoop
Y == INSTANCE SystemCalls
-----------------------------------------------------------------------------
(* Memory *)
Pages == [PageSize |-> 2, Sets |-> 2, Top |-> 14, MapBase |-> 4, FileLen |-> 1,
          MaxPrograms |-> 1, MaxMaps |-> 0, MaxPages |-> 4, Uses |-> {"read", "write"},
          Accessed |-> {0, 5, 8, 12}, Writes |-> {1}, Sizes |-> {1, 2},
          Hints |-> {}, Lens |-> {}, Kinds |-> {}, Files |-> {}, Inherit |-> {}, Rights |-> {{}}]

\* buckets turn round by fork and by a checkpoint
Copies == [Pages EXCEPT !.MaxPrograms = 2, !.Uses = {"write", "fork", "checkpoint"},
                        !.MaxPages = 2, !.Sets = 1, !.Top = 6, !.Accessed = {1, 3, 4}]
\* mappings inside simulated memory
Maps == [Pages EXCEPT !.MaxMaps = 2, !.Uses = {"map", "unmap", "exec"}, !.Hints = {0, 2},
                      !.Lens = {1, 3}, !.Kinds = {"fixed", "anon"}, !.Files = {"none"},
                      !.Accessed = {}, !.Top = 8, !.MapBase = 2, !.Sets = 4,
                      !.Inherit = {{"inherit"}}]
\* mappings of the host, a file that is too short
HostMaps == [Pages EXCEPT !.MaxMaps = 2, !.Uses = {"read", "write", "map", "unmap"},
                          !.Hints = {0, 4}, !.Lens = {1, 2}, !.Kinds = {"shared", "private"},
                          !.Files = {"file"}, !.Rights = {{"read"}, {"read", "write"}},
                          !.Accessed = {4, 5}, !.Top = 8, !.Sets = 4]
\* mappings of the host and fork; what is written is what the file holds, as
\* the other program sees a write (README)
Forked == [HostMaps EXCEPT !.MaxMaps = 1, !.MaxPrograms = 2, !.Lens = {1}, !.Hints = {0},
                           !.Uses = {"read", "write", "map", "unmap", "exec", "fork"},
                           !.Kinds = @ \cup {"anon"}, !.Files = @ \cup {"none"}, !.Writes = {9},
                           !.Accessed = {4}, !.Top = 8, !.Rights = {{"read", "write"}}, !.Inherit = {{"inherit"}}]

AllMemories == {Pages, Copies, Maps, HostMaps, Forked}
-----------------------------------------------------------------------------
(* Start-up: two uses of options, or files of options, and some programs   *)
Opt(n) == <<"opt", n>>
OfCore(n) == <<"opt", n, "">>
W(w) == <<"word", w>>
I(n) == <<"int", n>>
InFile(dir, base) == <<"file", dir, base>>
prog == InFile("", "p.arg")
other == InFile("", "q.arg")
empty == InFile("", "r.arg")
saved == InFile("", "d.cfg")

\* a file that reads others, in another directory
ConfigFiles ==
  <<"/home", "a.cfg">> :> <<<<<<"#">>, Opt("-seed"), I(9)>>,
       <<Opt("-v")>>, <<Opt("-seed"), I(-3), Opt("-config"), InFile("/sub", "b.cfg")>>,
       <<OfCore("-bpred:btb"), I(4), I(2), <<"#">>, W("sets")>>>>
  @@ <<"/sub", "b.cfg">> :> <<<<Opt("-config"), InFile("", "c.cfg")>>,
       <<OfCore("-rob:size"), I(16), OfCore("-issue:inorder")>>, <<W("true")>>>>
  @@ <<"/sub", "c.cfg">> :> <<<<OfCore("-rob:size"), I(2)>>, <<OfCore("-bpred:btb"), I(8)>>>>
  @@ <<"/home", "e.cfg">> :> <<<<W("stray")>>>>
  @@ <<"/home", "c.cfg">> :> <<<<Opt("-seed"), I(2)>>>>
  @@ <<"/home", "n.cfg">> :> <<<<Opt("-num_cores"), I(2)>>, <<Opt("-num_cores"), I(3)>>>>

ArgFiles ==
  prog :> <<<<"#">>, W("exe"), I(1), W("<"), W("in"), W("x")>>
  @@ other :> <<I(5), <<"#">>, W("exe"), W("2>"), W("err"), W(">"), W("out")>>
  @@ empty :> <<<<"#">>>>

Plain == {"-h", "-v", "-seed", "-num_cores", "-rob:size", "-bpred:btb", "-issue:inorder",
          "-bpred:spec_update"}
Line == [argv |-> <<>>, Files |-> ConfigFiles, Programs |-> ArgFiles, Again |-> <<>>,
         Known |-> Plain \cup {"-ptrace", "-pcstat", "-fetch:policy", "-decode:width", "-fastfwd",
                               "-max_contexts_per_core"}]

Values == {<<Opt("-seed"), I(7)>>, <<OfCore("-rob:size"), I(8)>>, <<Opt("-v")>>,
  <<Opt("-v"), W("false")>>, <<Opt("-num_cores"), I(2)>>, <<OfCore("-bpred:btb"), I(1)>>,
  <<OfCore("-bpred:btb"), I(1), I(6)>>, <<Opt("-pcstat"), W("c")>>, <<Opt("-ptrace"), W("t")>>,
  <<Opt("-ptrace"), W("t"), W("r")>>, <<OfCore("-fetch:policy"), W("dcra")>>,
  <<<<"opt", "-rob:size", "1">>, I(8)>>, <<Opt("-max_contexts_per_core"), I(1)>>, <<Opt("-dumpconfig"), saved>>}
Includes == {<<Opt("-config"), f>> : f \in {InFile("", "a.cfg"), InFile("/sub", "b.cfg"), InFile("", "n.cfg")}}
Refused == {<<Opt("-h")>>, <<Opt("-seed")>>, <<Opt("-unknown")>>, <<OfCore("-decode:width"), I(3)>>,
            <<OfCore("-rob:size"), I(1)>>, <<Opt("-seed"), W("x")>>, <<Opt("-config")>>,
            <<Opt("-config"), saved>>, <<Opt("-config"), InFile("", "e.cfg")>>}
Uses == Values \cup Includes \cup Refused
Ends == {<<prog>>, <<prog, other>>, <<prog, prog, prog>>, <<>>, <<other, W("exe")>>, <<empty>>}
Pcstats(n) == [k \in 1 .. 2 * n |-> IF k % 2 = 1 THEN Opt("-pcstat") ELSE W("c")]
TwoUses ==
  {[Line EXCEPT !.argv = a \o b \o z] : a \in Uses, b \in Values \cup Includes, z \in Ends}
    \cup {[Line EXCEPT !.argv = Pcstats(9) \o <<prog>>]}
\* and a second start from what the first has written
Reloaded ==
  {[Line EXCEPT !.argv = a \o b \o <<Opt("-dumpconfig"), saved, prog>>,
                !.Again = <<Opt("-config"), saved, prog>>, !.Known = Plain]
     : a \in Values \cup Includes, b \in Values}

AllCommandLines == TwoUses \cup Reloaded
-----------------------------------------------------------------------------
(* The learning loop *)
Loop(n, epoch, timeout, latency) ==
  [cores |-> n, EPOCH |-> epoch, TIMEOUT |-> timeout, MaxLatency |-> latency,
   EP_LEN |-> 2, Actions |-> {0, 2}, Garbage |-> {0, 7}, decode_width |-> 4]

AllLoops == {Loop(1, 2, 5, 2), Loop(2, 4, 3, 1), Loop(3, 4, 3, 1)}

(* What is known of a loop: the agent clips its actions to 0 .. 3.2, and a *)
(* width is unsigned, whatever it was made from.                           *)
ASSUME LoopsAssumption ==
    \A l \in Loops :
      /\ l.cores \in Nat \ {0} /\ l.EPOCH \in Nat \ {0}
      /\ l.TIMEOUT \in Nat /\ l.MaxLatency \in Nat \ {0}
      /\ l.Actions \subseteq Nat /\ l.Garbage \subseteq Nat /\ l.decode_width \in Nat
-----------------------------------------------------------------------------
(* System calls of a program and of one forked from it *)
Kit == [real |-> <<[fd \in 0 .. 3 |-> fd],
                   [fd \in 0 .. 3 |-> fd + 4]>>,
        std |-> <<0 .. 2, {0, 2}>>, Fds |-> {1, 9}, Uses |-> {}, Values |-> 1 .. 3]

AllKits == {[Kit EXCEPT !.Uses = {"descriptors", "sockets"}], [Kit EXCEPT !.Uses = {"descriptors", "paths"}],
            [Kit EXCEPT !.Uses = {"process"}, !.Values = 1 .. 2],
            [Kit EXCEPT !.Uses = {"paths", "process"}, !.Values = {1}]}

(* A page has room, addresses and lengths are numbers, and mmap is asked    *)
(* for one of four kinds of mapping.                                       *)
ASSUME MemoriesAssumption ==
  \A s \in Memories :
    /\ s.PageSize \in Nat \ {0} /\ s.Top \in Nat /\ s.MapBase \in Nat /\ s.Sets \in Nat \ {0}
    /\ s.Hints \subseteq Nat /\ s.Lens \subseteq Nat \ {0} /\ s.Sizes \subseteq Nat
    /\ s.Kinds \subseteq {"fixed", "anon", "shared", "private"}

(* Breaks are addresses, groups are numbers of processes.                  *)
ASSUME KitsAssumption == \A k \in Kits : k.Values \subseteq Nat
-----------------------------------------------------------------------------
memory == <<setting, mem, host, file, base_addr, checkpoint, mem_error>>

startup == <<odb, var, stack, files, cwd, exec_index, failure, command, phase, argv,
             cores_at_init_time, contexts_at_init_time, machine, contexts, first>>
learning == <<loop, j, turn, decode_width, pending, uncommitted, aborted, action_csv,
              data_csv, agent, given, starved>>
calling == <<kit, errno, brk, gpid, audcntl, result, told>>

Only(p, set) == IF part = p THEN set ELSE {CHOOSE x \in set : TRUE}

Init ==
  /\ part \in Parts
  /\ setting \in Only("memory", Memories)
  /\ command \in Only("startup", CommandLines)
  /\ loop \in Only("loop", Loops)
  /\ kit \in Only("calls", Kits)
  /\ part # "loop" => action_csv = L!Missing
  /\ M!Init /\ U!Init /\ L!Init /\ Y!Init

MemoryStep == part = "memory" /\ M!Next /\ UNCHANGED <<part, startup, learning, calling>>
StartupStep == part = "startup" /\ U!Next /\ UNCHANGED <<part, memory, learning, calling>>
LoopStep == part = "loop" /\ L!Next /\ UNCHANGED <<part, memory, startup, calling>>
CallStep == part = "calls" /\ Y!Next /\ UNCHANGED <<part, memory, startup, learning>>

vars == <<part, memory, startup, learning, calling>>
Next == MemoryStep \/ StartupStep \/ LoopStep \/ CallStep
Spec == Init /\ [][Next]_vars

(* The properties of the components that are checked here: invariants on   *)
(* the states of their part, the other states being initial ones.          *)

(* The type invariant of the component explored. *)
TypeOK == CASE part = "memory" -> M!TypeOK
            [] part = "startup" -> U!TypeOK
            [] part = "loop" -> L!TypeOK
            [] part = "calls" -> Y!TypeOK

(* Simulated memory is a map of its own to every program (AddressSpaces).  *)
MemoryIsMap == M!MemoryIsMap

(* mmap gives regions that do not overlap and exist on the host (Memory).  *)
MappingsSound == part = "memory" => M!MappingsSound

(* The last use of an option counts, a dumped configuration reloads, and   *)
(* programs are placed round the cores (Startup).                          *)
StartSound == part = "startup" => U!LastUseCounts /\ U!DumpReloads /\ U!ProgramsPlaced

(* A row tells the action that led to it, and only a core that was told    *)
(* not to rename ends the simulation (LearningLoop).                       *)
LoopSound == part = "loop" => L!LoopSound

(* A call reaches the program's own descriptor, its errors are told, and   *)
(* its buffer, break and group are its own (SystemCalls).                  *)
CallsSound == part = "calls" => Y!CallsSound
=============================================================================
