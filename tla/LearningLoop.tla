---------------------------- MODULE LearningLoop ----------------------------
(***************************************************************************)
(* The simulator and the agent (DPPO.py), two processes that meet in two   *)
(* files.  At the start of each epoch the simulator takes the last line of *)
(* action.csv for the decode width of the core that renames next, and at   *)
(* its end it appends a row about the core that renamed last to data.csv.  *)
(* The agent reads all of data.csv when an episode starts and appends an   *)
(* action at each step.  Nothing tells either that the other has written.  *)
(*                                                                         *)
(* Every core runs one context; an instruction that is renamed commits     *)
(* within MaxLatency cycles.  The network and the rewards are left out.    *)
(***************************************************************************)
EXTENDS Integers

CONSTANT Loops  \* what is tried, each a record of
                \*   cores: cores with a context; EPOCH: calls of rename (1000)
                \*   TIMEOUT: cycles without a commit (COMMIT_TIMEOUT)
                \*   MaxLatency, EP_LEN, Actions: the integer parts of actions
                \*   Garbage: what a function without a value may return
                \*   decode_width: at the start

VARIABLES
  loop,          \* the one of a behaviour
  j, turn,       \* calls of rename, modulo EPOCH; the core that goes next
  decode_width,  \* of each core
  pending,       \* of each core, cycles to the commit of its oldest, 0 if none
  uncommitted,   \* of each core, sim_cycle - last_commit_cycle
  aborted,       \* the assertion of the timeout has failed
  action_csv, data_csv,
  agent,
  given,         \* history: the core and the width of the present epoch
  starved        \* history: of each core, cycles of width 0 since its last commit

vars == <<loop, j, turn, decode_width, pending, uncommitted, aborted, action_csv,
          data_csv, agent, given, starved>>

Cores == 1 .. loop.cores
-----------------------------------------------------------------------------
(* action.csv: missing, or its number of lines (as far as 2) and the last. *)
Missing == [lines |-> -1, last |-> 0]
Lines(n, a) == [lines |-> n, last |-> a]

(* data.csv: rows (as far as 2), the widths of those after the first, which*)
(* the agent takes for the heading, and the last.                          *)
NoRow == [core |-> 0, width |-> 0]

Init ==
  /\ loop \in Loops
  /\ j = 0 /\ turn = 1
  /\ decode_width = [c \in Cores |-> loop.decode_width]
  /\ pending = [c \in Cores |-> 0]
  /\ uncommitted = [c \in Cores |-> 0]
  /\ aborted = FALSE
  /\ action_csv \in {Missing, Lines(0, 0)} \cup {Lines(2, a) : a \in loop.Actions}
  /\ data_csv = [rows |-> 0, widths |-> {}, last |-> NoRow]
  /\ agent = [at |-> "start", step |-> 0, widths |-> {}, credited |-> FALSE]
  /\ given = NoRow
  /\ starved = [c \in Cores |-> 0]
-----------------------------------------------------------------------------
(* The search for the last line ends one character late when there is only *)
(* one, of which the digit before the point is lost.  Without the file the *)
(* function returns nothing.                                               *)
last_line ==
  CASE action_csv.lines = -1 -> loop.Garbage
    [] action_csv.lines \in {0, 1} -> {0}
    [] OTHER -> {action_csv.last}

\* (for a mutant) the calls counted from 1
StartsAfterFirst == j = 1

EpochStarts == j = 0
EpochEnds == (j + 1) % loop.EPOCH = 0

(* commit: the timeout is looked at first, with what earlier cycles did.   *)
TimedOut(c) == uncommitted[c] >= loop.TIMEOUT + 1

Width(c, w) == IF EpochStarts THEN 10 * w ELSE decode_width[c]

(* register_rename, at least one instruction if the width lets it and none *)
(* is in flight.                                                           *)
Renamed(c, width, left) ==
  IF left > 0 THEN {left}
  ELSE IF width > 0 THEN 1 .. loop.MaxLatency ELSE {0}

Appended(csv, row) ==
  [rows |-> IF csv.rows < 2 THEN csv.rows + 1 ELSE 2,
   widths |-> csv.widths \cup (IF csv.rows > 0 THEN {row.width} ELSE {}),
   last |-> row]

NextCycle(c) == c = loop.cores

(* The core c in one cycle of sim_main. *)
Cycle(c, w, latency) ==
  LET commits == pending[c] = 1
      left == IF pending[c] > 0 THEN pending[c] - 1 ELSE 0
      width == Width(c, w)
      age == IF commits THEN 0 ELSE uncommitted[c]
  IN /\ latency \in Renamed(c, width, left)
     /\ decode_width' = [decode_width EXCEPT ![c] = width]
     /\ pending' = [pending EXCEPT ![c] = latency]
     /\ uncommitted' = [d \in Cores |-> (IF d = c THEN age ELSE uncommitted[d])
                                        + (IF NextCycle(c) THEN 1 ELSE 0)]
     /\ given' = IF EpochStarts THEN [core |-> c, width |-> width] ELSE given
     /\ starved' = [starved EXCEPT ![c] = (IF commits THEN 0 ELSE @)
                                          + (IF width = 0 THEN 1 ELSE 0)]
     /\ data_csv' = IF EpochEnds THEN Appended(data_csv, [core |-> c, width |-> width])
                    ELSE data_csv

sim_main ==
  LET c == turn
  IN /\ ~aborted /\ ~TimedOut(c)
     /\ \E w \in (IF EpochStarts THEN last_line ELSE {0}),
           latency \in 0 .. loop.MaxLatency : Cycle(c, w, latency)
     /\ j' = (j + 1) % loop.EPOCH
     /\ turn' = IF NextCycle(c) THEN 1 ELSE c + 1
     /\ UNCHANGED <<loop, aborted, action_csv, agent>>

CommitTimeout ==
  /\ ~aborted /\ TimedOut(turn)
  /\ aborted' = TRUE
  /\ UNCHANGED <<loop, j, turn, decode_width, pending, uncommitted, action_csv,
                 data_csv, agent, given, starved>>
-----------------------------------------------------------------------------
(* load_csv, at the start of an episode.  Without a row it fails.          *)
LoadCsv ==
  /\ agent.at = "start" /\ ~aborted
  /\ agent' = [agent EXCEPT !.at = IF data_csv.rows < 2 THEN "failed" ELSE "acting",
                            !.step = 0, !.widths = data_csv.widths]
  /\ UNCHANGED <<loop, j, turn, decode_width, pending, uncommitted, aborted,
                 action_csv, data_csv, given, starved>>

Matches(a) == \E w \in agent.widths : a - w \in -4 .. 4

(* One step of an episode: the action is appended, then rewarded with the  *)
(* first row that matches, or with what the last action got.  The first of *)
(* all that finds no row ends the program.                                 *)
Act(a) ==
  /\ agent.at = "acting" /\ ~aborted
  /\ action_csv' = Lines(IF action_csv.lines < 1 THEN 1 ELSE 2, a)
  /\ agent' = [agent EXCEPT
                 !.at = IF ~agent.credited /\ ~Matches(a) THEN "failed"
                        ELSE IF agent.step + 1 = loop.EP_LEN THEN "start" ELSE @,
                 !.step = @ + 1,
                 !.credited = TRUE]
  /\ UNCHANGED <<loop, j, turn, decode_width, pending, uncommitted, aborted,
                 data_csv, given, starved>>

Next == sim_main \/ CommitTimeout \/ LoadCsv \/ (\E a \in loop.Actions : Act(a))

Spec == Init /\ [][Next]_vars
-----------------------------------------------------------------------------
TypeOK ==
  /\ j \in 0 .. loop.EPOCH - 1 /\ turn \in Cores
  /\ \A c \in Cores : /\ pending[c] \in 0 .. loop.MaxLatency
                      /\ uncommitted[c] \in 0 .. loop.TIMEOUT + 1
  /\ agent.at \in {"start", "acting", "failed"}
  /\ data_csv.rows \in 0 .. 2 /\ action_csv.lines \in -1 .. 2

(* A row that an epoch leaves is about the core that was given the action  *)
(* read when it began, and carries this action: always with one core, and  *)
(* otherwise when the number of cores divides EPOCH - 1 (with two, and     *)
(* epochs of 1000 calls, no row is ever about the core with the action).   *)
RowTellsAction ==
  (loop.EPOCH - 1) % loop.cores = 0 /\ j = 0 /\ data_csv.last # NoRow =>
    data_csv.last = given

(* The simulation is only given up for want of commits when a core was     *)
(* told not to rename for about as long, whatever the agent does.          *)
OnlyStarvedAborts ==
  aborted => starved[turn] + loop.MaxLatency >= loop.TIMEOUT

LoopSound == RowTellsAction /\ OnlyStarvedAborts
=============================================================================
