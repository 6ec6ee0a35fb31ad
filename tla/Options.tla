------------------------------- MODULE Options ------------------------------
(***************************************************************************)
(* The options database (options.c): the command line is read argument by  *)
(* argument; -config reads a file line by line, and may do so inside       *)
(* another file; -dumpconfig writes a file that -config can read.          *)
(*                                                                         *)
(* Arguments are what the code tells apart: <<"opt", name>> begins with a  *)
(* dash and no digit, <<"int", n>> is a number (and begins with a dash     *)
(* when n < 0), <<"file", dir, base>> is the name of a file (dir is "" when *)
(* it has none), <<"word", w>> is any other, and <<"#">> begins a comment. *)
(***************************************************************************)
EXTENDS Integers, Sequences, SequencesExt, FiniteSets, FiniteSetsExt, TLC

VARIABLES
  odb,        \* name of an option -> its class, nvars, list, accrue, print, emap
  var,        \* name -> its values, as arguments; <<>> is NULL
  stack,      \* the calls of __opt_process_options, the innermost last
  files,      \* <<directory, base>> -> the lines of a file
  cwd,        \* the current directory
  exec_index, \* where the first orphan is, -1 if there was none
  failure     \* what the simulator ended with

optionVars == <<odb, var, stack, files, cwd, exec_index, failure>>

Home == "/home"               \* where the simulator is started
config == <<"opt", "-config">>
dumpconfig == <<"opt", "-dumpconfig">>
Freed == <<"freed">>          \* a pointer to a string that is no more

(* An option as its opt_reg function makes it.  A list has *nelt values, a  *)
(* scalar has one, and print tells whether -dumpconfig shows it.           *)
Scalar(class, default) ==
  [class |-> class, nvars |-> 1, list |-> FALSE, accrue |-> FALSE, print |-> TRUE,
   emap |-> {}, default |-> <<default>>]
ListOf(class, nvars, default) ==
  [Scalar(class, Freed) EXCEPT !.nvars = nvars, !.list = TRUE, !.default = default]
OfEnum(emap, default) == [Scalar("enum", default) EXCEPT !.emap = emap]
Flag(default) == Scalar("flag", <<"word", IF default THEN "true" ELSE "false">>)
String(default) == Scalar("string", default)
NullString == [String(Freed) EXCEPT !.default = <<>>]
StringList(nvars, accrue) ==
  [ListOf("string", nvars, <<>>) EXCEPT !.accrue = accrue, !.print = FALSE]
-----------------------------------------------------------------------------
Digits(t) == t[1] = "int"
Dash(t) == t[1] = "opt" \/ (Digits(t) /\ t[2] < 0)

\* the arguments an option of this class takes for values
Signed == {"int", "float", "double"}
CanFollow(o, t) == ~Dash(t) \/ (o.class \in Signed /\ Digits(t))

TrueWords == {<<"word", "true">>, <<"int", 1>>}
FlagWords == TrueWords \cup {<<"word", "false">>, <<"int", 0>>}
bind_to_enum(o, t) == t \in (IF o.class = "flag" THEN FlagWords ELSE o.emap)
FlagValue(t) == <<"word", IF t \in TrueWords THEN "true" ELSE "false">>

(* strtol and the others must reach the end of the argument; a float must   *)
(* be at least FLT_MIN, which is above 0.                                  *)
Converts(o, t) ==
  CASE o.class \in {"int", "uint", "double"} -> Digits(t)
    [] o.class = "float" -> Digits(t) /\ t[2] > 0
    [] o.class \in {"enum", "flag"} -> bind_to_enum(o, t)
    [] o.class = "string" -> TRUE

Entries(o) == IF o.accrue THEN 1 ELSE o.nvars

\* the values of argv from place i on, for option o
Values(o, argv, i) ==
  LET ends == {k \in i .. Len(argv) : ~CanFollow(o, argv[k])} \cup {i + Entries(o), Len(argv) + 1}
  IN SubSeq(argv, i, Min(ends) - 1)

Fatal(why) == failure' = why /\ UNCHANGED <<odb, var, stack, files, cwd, exec_index>>

Top == stack[Len(stack)]
Depth == Len(stack) - 1
At(k) == Top.argv[Top.at + k]
More(k) == Top.at + k <= Len(Top.argv)
Advanced(n) == [stack EXCEPT ![Len(stack)].at = @ + n]

Set(name, values, n) ==
  /\ var' = [var EXCEPT ![name] = values]
  /\ stack' = Advanced(n + 1)
  /\ UNCHANGED <<odb, files, cwd, exec_index, failure>>

(* A flag without a value that can be one is true, and takes nothing.      *)
flag_option(name, o, given) ==
  IF given # <<>> /\ bind_to_enum(o, given[1])
  THEN Set(name, <<FlagValue(given[1])>>, 1)
  ELSE Set(name, <<<<"word", "true">>>>, 0)

(* The strings of the uses before are freed, and those of this use may be  *)
(* when the vector that holds them grows.                                  *)
Moved(given, lost) ==
  [k \in DOMAIN given |-> IF lost /\ k < Len(given) THEN Freed ELSE given[k]]
string_option(name, o, given) ==
  \E lost \in BOOLEAN :
    Set(name, (IF o.accrue THEN [k \in DOMAIN var[name] |-> Freed] ELSE <<>>)
                \o Moved(given, lost), Len(given))

number_option(name, o, given) ==
  Set(name, (IF o.accrue THEN var[name] ELSE <<>>) \o given, Len(given))

process_option ==
  LET name == At(0)
      o == odb[name]
      given == Values(o, Top.argv, Top.at + 1)
  IN IF name \notin DOMAIN odb THEN Fatal("undefined")
     ELSE IF o.class = "flag" THEN flag_option(name, o, given)
     ELSE IF given = <<>> THEN Fatal("requires an argument")
     ELSE IF o.accrue /\ Len(var[name]) >= o.nvars THEN Fatal("too many invocations")
     ELSE IF \E k \in DOMAIN given : ~Converts(o, given[k]) THEN Fatal("could not parse")
     ELSE IF o.class = "string" THEN string_option(name, o, given)
     ELSE number_option(name, o, given)
-----------------------------------------------------------------------------
(* dump_config: one line for each option that is printed.  A string that   *)
(* is NULL, and what is not printed, is in a comment.                      *)
Null(o, values) == o.class = "string" /\ values = <<>>
LineOf(name) ==
  (IF ~odb[name].print \/ Null(odb[name], var[name]) THEN <<<<"#">>>> ELSE <<>>)
    \o <<name>> \o var[name]
Dumped == FoldSet(LAMBDA name, lines : Append(lines, LineOf(name)), <<>>, DOMAIN odb)

(* A file is looked for where the simulator was started (for a mutant). *)
PathFromHome(f) == <<IF f[2] = "" THEN Home ELSE f[2], f[3]>>

PathOf(f) == <<IF f[2] = "" THEN cwd ELSE f[2], f[3]>>
Written(f) ==
  IF f = <<>> THEN files
  ELSE [p \in DOMAIN files \cup {PathOf(f)} |->
          IF p = PathOf(f) THEN Dumped ELSE files[p]]

Call(argv, rest, back) ==
  [argv |-> argv, at |-> 1, dump |-> <<>>, rest |-> rest, back |-> back]

(* process_file: the file is opened, then its directory entered.           *)
process_file(f) ==
  IF PathOf(f) \notin DOMAIN files THEN Fatal("could not open")
  ELSE /\ stack' = Append(Advanced(2), Call(<<>>, files[PathOf(f)], cwd))
       /\ cwd' = IF f[2] = "" THEN cwd ELSE f[2]
       /\ UNCHANGED <<odb, var, files, exec_index, failure>>

(* A line is cut off at a comment, and what it holds goes behind what the  *)
(* lines before held, which is processed once more.                        *)
Arguments(line) ==
  LET comments == {k \in DOMAIN line : line[k] = <<"#">>}
  IN IF comments = {} THEN line ELSE SubSeq(line, 1, Min(comments) - 1)

(* The arguments of a call are used up: the dump is written, and the file  *)
(* goes on, or ends and gives the directory back.                          *)
EndOfCall ==
  /\ ~More(0)
  /\ files' = Written(Top.dump)
  /\ IF Top.rest = <<>>
     THEN stack' = Front(stack) /\ cwd' = Top.back
     ELSE /\ stack' = [stack EXCEPT ![Len(stack)] =
                         Call(Top.argv \o Arguments(Top.rest[1]), Tail(Top.rest), Top.back)]
          /\ UNCHANGED cwd
  /\ UNCHANGED <<odb, var, exec_index, failure>>

(* What is no option is the program, and ends the command line.            *)
Orphan ==
  /\ More(0) /\ ~Dash(At(0))
  /\ IF Depth > 0 THEN Fatal("orphan in a file")
     ELSE /\ exec_index' = Top.at
          /\ files' = Written(Top.dump)
          /\ stack' = <<>>
          /\ UNCHANGED <<odb, var, cwd, failure>>

Option ==
  /\ More(0) /\ Dash(At(0))
  /\ IF At(0) \in {config, dumpconfig}
     THEN IF ~More(1) \/ Dash(At(1)) THEN Fatal("requires an argument")
          ELSE IF At(0) = config THEN process_file(At(1))
          ELSE /\ stack' = [Advanced(2) EXCEPT ![Len(stack)].dump = At(1)]
               /\ UNCHANGED <<odb, var, files, cwd, exec_index, failure>>
     ELSE process_option

OptionStep == stack # <<>> /\ failure = "none" /\ (EndOfCall \/ Orphan \/ Option)

(* opt_process_options; argv is without the name of the simulator.         *)
opt_process_options(argv) == stack' = <<Call(argv, <<>>, cwd)>>
=============================================================================
