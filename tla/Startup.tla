------------------------------- MODULE Startup ------------------------------
(***************************************************************************)
(* From the command line to the simulation: main looks for cores and       *)
(* programs before the options are known (main.c), the options of each     *)
(* core are registered, the command line is processed (Options), its       *)
(* values are checked and the cores built from them (sim_check_options),   *)
(* and each program is loaded (init_thread, sim_load_prog).                *)
(*                                                                         *)
(* An option of a core is <<"opt", name, core>>; core is "" when there is   *)
(* only one.                                                               *)
(***************************************************************************)
EXTENDS Options

CONSTANT CommandLines   \* what is tried, each a record of
                        \*   argv: the arguments, Files: path -> lines
                        \*   Known: names of the options, of all there are
                        \*   Programs: the .arg files, each its contents
                        \*   Again: the arguments of a second start, <<>> for none
VARIABLES
  command,     \* the member of CommandLines
  phase,       \* "scan", "options", "check", "load", "running"
  argv,        \* of the start under way
  cores_at_init_time, contexts_at_init_time,
  machine,     \* of each core, what sim_check_options made of its options
  contexts,    \* the programs loaded
  first        \* the values of the first start, when it is the second

startVars == <<command, phase, argv, cores_at_init_time, contexts_at_init_time,
               machine, contexts, first>>
vars == <<startVars, optionVars>>
-----------------------------------------------------------------------------
(* main: the arguments are searched before there are options.              *)
num_cores == <<"opt", "-num_cores">>
IsProgram(t) == t \in DOMAIN command.Programs

\* the words of a file, its comments too; what follows -num_cores first
Words(path) == IF path \in DOMAIN files THEN FlattenSeq(files[path]) ELSE <<>>
FromFile(words, cores) ==
  LET at == {k \in DOMAIN words : words[k] = num_cores /\ k < Len(words)}
  IN IF at = {} \/ ~Digits(words[Min(at) + 1]) THEN cores ELSE words[Min(at) + 1][2]

CoresAfter(cores, i) ==
  IF i = Len(argv) THEN cores
  ELSE IF argv[i] = num_cores /\ Digits(argv[i + 1]) THEN argv[i + 1][2]
  ELSE IF argv[i] = config /\ argv[i + 1][1] = "file" THEN FromFile(Words(PathOf(argv[i + 1])), cores)
  ELSE cores
ScannedCores == FoldLeft(CoresAfter, 1, [i \in DOMAIN argv |-> i])
-----------------------------------------------------------------------------
(* sim_reg_options and the options of main: name and default, by class.    *)
Num(n) == <<"int", n>>
Word(w) == <<"word", w>>
Default(pairs, n) == (CHOOSE p \in pairs : p[1] = n)[2]
Names(pairs) == {p[1] : p \in pairs}

IntOptions(pairs) == [n \in Names(pairs) |-> Scalar("int", Num(Default(pairs, n)))]
UIntOptions(pairs) == [n \in Names(pairs) |-> Scalar("uint", Num(Default(pairs, n)))]
WordOptions(pairs) == [n \in Names(pairs) |-> String(Word(Default(pairs, n)))]
Flags(pairs) == [n \in Names(pairs) |-> Flag(Default(pairs, n))]
IntListOptions(pairs) ==
  [n \in Names(pairs) |-> LET ns == Default(pairs, n)
                          IN ListOf("int", Len(ns), [k \in DOMAIN ns |-> Num(ns[k])])]

Global ==
  Flags({<<"-h", FALSE>>, <<"-v", FALSE>>, <<"-q", FALSE>>, <<"-power:print_stats", FALSE>>})
    @@ IntOptions({<<"-seed", 1>>, <<"-nice", 0>>, <<"-max:inst", 1000000>>,
         <<"-max:cycles", -1>>, <<"-fastfwd", 1000000>>, <<"-max_contexts_per_core", -1>>,
         <<"-cache:dl3lat", 30>>, <<"-cache:il3lat", 30>>})
    @@ UIntOptions({<<"-num_cores", 1>>})
    @@ WordOptions({<<"-mem:config", "chunk:4:300:2">>, <<"-cache:dl3", "none">>,
         <<"-cache:il3", "none">>, <<"-makeeio", "none">>})
    @@ [n \in {"-redir:sim", "-redir:prog", "-redir:err"} |-> NullString]
    @@ ("-ptrace" :> StringList(2, FALSE)) @@ ("-pcstat" :> StringList(8, TRUE))

\* in a comment of the file that -dumpconfig writes
NotPrinted == {"-h", "-v", "-q", "-redir:sim", "-redir:prog", "-redir:err"}

Units == {"-res:ialu", "-res:imult", "-res:memport", "-res:fpalu", "-res:fpmult"}
PerCore ==
  IntOptions({<<"-fetch:speed", 1>>, <<"-iq:issue_exec_delay", 1>>,
        <<"-fetch_rename_delay", 4>>, <<"-rename_dispatch_delay", 1>>, <<"-cache:dl1lat", 1>>,
        <<"-cache:dl2lat", 10>>, <<"-cache:il1lat", 1>>, <<"-cache:il2lat", 10>>,
        <<"-tlb:lat", 30>>, <<"-bpred:ras", 16>>, <<"-cpred:ras", 0>>})
    @@ UIntOptions({<<"-decode:width", 8>>, <<"-issue:width", 8>>, <<"-commit:width", 8>>,
         <<"-lsq:size", 48>>, <<"-rob:size", 128>>, <<"-iq:size", 32>>, <<"-rf:size", 160>>,
         <<"-res:ialu", 4>>, <<"-res:imult", 1>>, <<"-res:memport", 2>>, <<"-res:fpalu", 4>>,
         <<"-res:fpmult", 1>>, <<"-write_buf:size", 16>>, <<"-bpred:penalty", 6>>})
    @@ Flags({<<"-issue:inorder", FALSE>>, <<"-issue:wrongpath", TRUE>>})
    @@ WordOptions({<<"-fetch:policy", "icount">>, <<"-recovery:model", "squash">>,
         <<"-cache:dl1", "dl1:256:64:4:l">>, <<"-cache:dl2", "ul2:512:64:16:l">>,
         <<"-cache:il1", "il1:512:64:2:l">>, <<"-cache:il2", "dl2">>,
         <<"-tlb:itlb", "itlb:16:4096:4:l">>, <<"-tlb:dtlb", "dtlb:32:4096:4:l">>,
         <<"-bpred", "bimod">>, <<"-cpred", "bimod">>})
    @@ ("-bpred:spec_update" :> NullString)
    @@ IntListOptions(
         UNION {{<<p \o ":bimod", <<2048>>>>, <<p \o ":2lev", <<1, 1024, 12, 0>>>>,
                 <<p \o ":comb", <<1024>>>>, <<p \o ":btb", <<512, 4>>>>} : p \in {"-bpred", "-cpred"}})

offset(i) == IF cores_at_init_time' = 1 THEN "" ELSE ToString(i)
CoreOption(name, i) == <<"opt", name, offset(i)>>
Registered ==
  {<<"opt", n>> : n \in DOMAIN Global \cap command.Known}
    \cup {CoreOption(n, i) : n \in DOMAIN PerCore \cap command.Known, i \in 0 .. cores_at_init_time' - 1}
MadeBy(name) ==
  IF Len(name) = 3 THEN PerCore[name[2]]
  ELSE [Global[name[2]] EXCEPT !.print = @ /\ name[2] \notin NotPrinted]

Scan ==
  /\ phase = "scan" /\ phase' = "options"
  /\ contexts_at_init_time' = Cardinality({i \in DOMAIN argv : IsProgram(argv[i])})
  /\ cores_at_init_time' = ScannedCores
  /\ odb' = [name \in Registered |-> MadeBy(name)]
  /\ var' = [name \in Registered |-> MadeBy(name).default]
  /\ exec_index' = -1
  /\ opt_process_options(argv)
  /\ UNCHANGED <<command, argv, machine, contexts, first, files, cwd, failure>>

ProcessOptions ==
  /\ phase = "options"
  /\ IF stack = <<>> THEN phase' = "check" /\ UNCHANGED <<optionVars>>
     ELSE OptionStep /\ UNCHANGED phase
  /\ UNCHANGED <<command, argv, cores_at_init_time, contexts_at_init_time, machine, contexts, first>>
-----------------------------------------------------------------------------
(* sim_check_options *)
GlobalValue(name) ==
  IF <<"opt", name>> \in DOMAIN var THEN var[<<"opt", name>>] ELSE Global[name].default
CoreName(i) == IF cores_at_init_time = 1 THEN "" ELSE ToString(i)
CoreValue(i, name) ==
  LET o == <<"opt", name, CoreName(i)>>
  IN IF o \in DOMAIN var THEN var[o] ELSE PerCore[name].default
N(values) == values[1][2]     \* of an option of one number

PowerOfTwo(n) == n >= 1 /\ \E k \in 0 .. 20 : n = 2 ^ k
AtLeast1 == {"-fetch:speed", "-commit:width", "-cache:dl1lat", "-cache:dl2lat", "-cache:il1lat",
             "-cache:il2lat", "-tlb:lat"}
AtLeast2 == {"-rob:size", "-lsq:size", "-iq:size"}
MAX_INSTS_PER_CLASS == 8

(* A predictor of each kind, and how many numbers its options must have.   *)
Predictor(i, p) == CoreValue(i, p)[1]
Numbers(kind) ==
  CASE kind = "bimod" -> {<<":bimod", 1>>, <<":btb", 2>>}
    [] kind = "2lev" -> {<<":2lev", 4>>, <<":btb", 2>>}
    [] kind = "comb" -> {<<":2lev", 4>>, <<":bimod", 1>>, <<":comb", 1>>, <<":btb", 2>>}
    [] kind \in {"perfect", "taken", "nottaken"} -> {}
PredictorOK(i, p) ==
  /\ Predictor(i, p) \in {Word(k) : k \in {"perfect", "taken", "nottaken", "bimod", "2lev", "comb"}}
  /\ \A n \in Numbers(Predictor(i, p)[2]) : Len(CoreValue(i, p \o n[1])) = n[2]
SpecUpdateOK(i) == CoreValue(i, "-bpred:spec_update") \in {<<>>, <<Word("ID")>>, <<Word("WB")>>}

max_contexts_per_core ==
  LET n == N(GlobalValue("-max_contexts_per_core"))
  IN IF n = -1 THEN contexts_at_init_time ELSE n

CoreOK(i) ==
  /\ \A n \in AtLeast1 : N(CoreValue(i, n)) >= 1
  /\ \A n \in AtLeast2 : N(CoreValue(i, n)) >= 2
  /\ \A n \in {"-decode:width", "-issue:width"} : PowerOfTwo(N(CoreValue(i, n)))
  /\ \A n \in Units : N(CoreValue(i, n)) \in 1 .. MAX_INSTS_PER_CLASS
  /\ N(CoreValue(i, "-rf:size")) >= 32 * (max_contexts_per_core + 1)
  /\ CoreValue(i, "-fetch:policy")[1] \in {Word("icount"), Word("round_robin"), Word("dcra")}
  /\ PredictorOK(i, "-bpred") /\ SpecUpdateOK(i) /\ PredictorOK(i, "-cpred")

GlobalOK ==
  /\ N(GlobalValue("-num_cores")) >= 1
  /\ max_contexts_per_core > 0
  /\ cores_at_init_time = N(GlobalValue("-num_cores"))
  /\ N(GlobalValue("-fastfwd")) >= 0 /\ N(GlobalValue("-max:inst")) >= 0
  /\ GlobalValue("-makeeio")[1] # Word("none") => N(GlobalValue("-max:inst")) = 0
  /\ N(GlobalValue("-cache:dl3lat")) >= 1 /\ N(GlobalValue("-cache:il3lat")) >= 1

(* What a core is built from.  A recovery model of another name is none;   *)
(* the units are those of fu_config, whatever -res says.                   *)
Core(i) ==
  [ROB |-> N(CoreValue(i, "-rob:size")), LSQ |-> N(CoreValue(i, "-lsq:size")),
   iq |-> N(CoreValue(i, "-iq:size")),
   IFQ |-> N(CoreValue(i, "-fetch_rename_delay")) * N(CoreValue(i, "-decode:width")),
   regs |-> N(CoreValue(i, "-rf:size")),
   fetcher |-> CoreValue(i, "-fetch:policy")[1],
   recovery |-> CoreValue(i, "-recovery:model")[1] \in {Word("squash"), Word("perfect")},
   perfect |-> Word("perfect") \in {Predictor(i, "-bpred"), Predictor(i, "-cpred")},
   fu_pool |-> [u \in Units |-> N(PerCore[u].default)],
   room |-> max_contexts_per_core]

Ends(why) ==
  failure' = why /\ UNCHANGED <<command, phase, argv, cores_at_init_time, contexts_at_init_time,
                                machine, contexts, first, odb, var, stack, files, cwd, exec_index>>

sim_check_options ==
  /\ phase = "check" /\ failure = "none"
  /\ IF GlobalValue("-h")[1] = Word("true") THEN Ends("help")
     ELSE IF exec_index = -1 THEN Ends("no executable")
     ELSE IF ~GlobalOK THEN Ends("bad options")
     ELSE IF \E i \in 0 .. cores_at_init_time - 1 : ~CoreOK(i) THEN Ends("bad core")
     ELSE /\ machine' = [i \in 0 .. cores_at_init_time - 1 |-> Core(i)]
          /\ phase' = "load"
          /\ UNCHANGED <<command, argv, cores_at_init_time, contexts_at_init_time, contexts,
                         first, optionVars>>
-----------------------------------------------------------------------------
(* init_thread: the contents of a .arg file.  A redirection of stderr      *)
(* does not end the arguments, and its file becomes one of them.           *)
Redirects == [r \in {Word("<"), Word(">"), Word("2>")} |->
                CASE r = Word("<") -> 0 [] r = Word(">") -> 1 [] r = Word("2>") -> 2]
Began == [gather |-> TRUE, args |-> <<>>, fds |-> <<>>, op |-> <<>>]
ArgStep(s, t) ==
  IF s.op # <<>>
  THEN [s EXCEPT !.op = <<>>, !.fds = (Redirects[s.op] :> t) @@ @,
                 !.gather = @ /\ s.op = Word("2>"),
                 !.args = IF s.gather /\ s.op = Word("2>") THEN Append(@, t) ELSE @]
  ELSE IF t \in DOMAIN Redirects THEN [s EXCEPT !.op = t]
  ELSE IF s.gather THEN [s EXCEPT !.args = Append(@, t)] ELSE s

init_thread(contents) ==
  LET counted == contents # <<>> /\ contents[1] # <<"#">>
      parsed == FoldLeft(ArgStep, Began, SubSeq(contents, IF counted THEN 3 ELSE 2, Len(contents)))
  IN [fastfwd_left |-> IF counted THEN contents[1][2] ELSE 0,
      args |-> parsed.args, fds |-> parsed.fds]

OnCore(k) == {j \in DOMAIN contexts : contexts[j].core = k}
(* Core after core is filled (for a mutant). *)
CoreWithRoom(k) == (k \div machine[0].room) % N(GlobalValue("-num_cores"))
TargetCore(k) == k % N(GlobalValue("-num_cores"))

sim_load_prog(file) ==
  LET target == TargetCore(Len(contexts))
      thread == init_thread(command.Programs[file])
  IN IF ~IsProgram(file) THEN Ends("cannot open argument file")
     ELSE IF Cardinality(OnCore(target)) = machine[target].room THEN Ends("could not add")
     ELSE IF thread.args = <<>> THEN Ends("no program")
     ELSE IF Len(GlobalValue("-ptrace")) \notin {0, 2} THEN Ends("bad pipetrace args")
     ELSE /\ contexts' = Append(contexts, thread @@ [file |-> file, core |-> target])
          /\ UNCHANGED <<command, phase, argv, cores_at_init_time, contexts_at_init_time, machine,
                         first, optionVars>>

\* the arguments from the first orphan on, as many as were counted
LoadPrograms ==
  /\ phase = "load" /\ failure = "none"
  /\ LET i == Len(contexts)
     IN IF i < contexts_at_init_time /\ exec_index + i <= Len(argv)
        THEN sim_load_prog(argv[exec_index + i])
        ELSE /\ phase' = "running"
             /\ UNCHANGED <<command, argv, cores_at_init_time, contexts_at_init_time, machine,
                            contexts, first, optionVars>>

(* The simulator is started again, where the first start left its files.   *)
StartAgain ==
  /\ phase = "running" /\ first = <<>> /\ command.Again # <<>>
  /\ first' = <<var>> /\ argv' = command.Again /\ phase' = "scan"
  /\ contexts' = <<>> /\ machine' = <<>>
  /\ UNCHANGED <<command, cores_at_init_time, contexts_at_init_time, optionVars>>
-----------------------------------------------------------------------------
Init ==
  /\ command \in CommandLines
  /\ argv = command.argv /\ files = command.Files
  /\ phase = "scan" /\ cwd = Home /\ failure = "none"
  /\ odb = <<>> /\ var = <<>> /\ stack = <<>> /\ exec_index = -1
  /\ cores_at_init_time = 1 /\ contexts_at_init_time = 0
  /\ machine = <<>> /\ contexts = <<>> /\ first = <<>>

Next == Scan \/ ProcessOptions \/ sim_check_options \/ LoadPrograms \/ StartAgain
Spec == Init /\ [][Next]_vars
-----------------------------------------------------------------------------
(* Type invariant: values are those of registered options, as many as they *)
(* have room for.                                                          *)
TypeOK ==
  /\ DOMAIN var = DOMAIN odb
  /\ \A name \in DOMAIN odb :
       /\ Len(var[name]) <= odb[name].nvars
       /\ \A k \in DOMAIN var[name] : var[name][k] = Freed \/ Converts(odb[name], var[name][k])

(* What is meant: each file is read once where it is named, and of each    *)
(* option the last use counts.                                             *)
End == <<"opt", "">>
Item(t, dir) == [t |-> t, dir |-> dir]
Contents(f, dir) ==
  LET there == IF f[2] = "" THEN dir ELSE f[2]
      lines == files[<<there, f[3]>>]
      tokens == FlattenSeq([k \in DOMAIN lines |-> Arguments(lines[k])])
  IN [k \in DOMAIN tokens |-> Item(tokens[k], there)]
OneLevel(items, level) ==
  FlattenSeq([k \in DOMAIN items |->
    IF items[k].t = config THEN Contents(items[k + 1].t, items[k].dir)
    ELSE IF k > 1 /\ items[k - 1].t = config THEN <<Item(End, "")>> ELSE <<items[k]>>])
Read(tokens) ==
  LET items == FoldLeft(OneLevel, [k \in DOMAIN tokens |-> Item(tokens[k], Home)],
                        [level \in 1 .. Cardinality(DOMAIN files) |-> level])
  IN [k \in DOMAIN items |-> items[k].t]

Meant(tokens, name) ==
  LET uses == {k \in DOMAIN tokens : tokens[k] = name}
      given == Values(odb[name], tokens, Max(uses) + 1)
  IN IF uses = {} THEN odb[name].default
     ELSE IF odb[name].class # "flag" THEN given
     ELSE <<IF given # <<>> /\ bind_to_enum(odb[name], given[1]) THEN FlagValue(given[1]) ELSE Word("true")>>

(* When the simulation starts, every option has the values of its last     *)
(* use, though the lines of a file are processed again with every line     *)
(* that follows (process_file), and the current directory is the old one.  *)
Single(name) == ~odb[name].accrue /\ ~(odb[name].class = "string" /\ odb[name].nvars > 1)
LastUseCounts ==
  phase = "running" =>
    /\ cwd = Home
    /\ \E tokens \in {Read(SubSeq(argv, 1, exec_index - 1))} :
         \A name \in DOMAIN odb : Single(name) => var[name] = Meant(tokens, name)

(* A simulator started with the file that -dumpconfig wrote has the values *)
(* that the first one had, of all options that are printed (dump_config,   *)
(* process_file and the search for -num_cores in main).                    *)
DumpReloads ==
  first # <<>> =>
    /\ failure = "none"
    /\ phase = "check" => DOMAIN var = DOMAIN first[1] /\ \A name \in DOMAIN odb : odb[name].print => var[name] = first[1][name]

(* The programs that run are those of the command line from the first      *)
(* orphan on, round the cores, within the room of each (init_thread,       *)
(* sim_load_prog, core_t::addcontext).                                     *)
ProgramsPlaced ==
  phase = "running" =>
    /\ \A i \in DOMAIN contexts : contexts[i].file = argv[exec_index + i - 1]
    /\ \A k \in DOMAIN machine : Cardinality(OnCore(k)) <= machine[k].room
    /\ \A j, k \in DOMAIN machine : Cardinality(OnCore(j)) - Cardinality(OnCore(k)) <= 1
    /\ DOMAIN machine = 0 .. N(GlobalValue("-num_cores")) - 1
=============================================================================
